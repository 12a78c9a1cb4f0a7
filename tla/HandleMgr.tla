----------------------------- MODULE HandleMgr -----------------------------
(***************************************************************************)
(* The handle table (SNHandleMgr): the slots of the registered contexts,   *)
(* the index from which Register looks for a free slot, and the local      *)
(* names.  Each operation holds the table's read-write lock for its whole  *)
(* body, so each is one step; what the callers do between two operations   *)
(* (NewContext between Register and Init, a command between FindName and   *)
(* the use of the handle) is in several steps.                             *)
(***************************************************************************)
EXTENDS Integers, FiniteSets

CONSTANTS
    HANDLE_MASK,   \* 2^24 - 1 in the code; a handle has this many slots + 1
    Harbor,        \* the harbor id
    Name,          \* the local names
    MaxContext     \* bound: contexts ever created

Slot    == 0 .. HANDLE_MASK
Context == 1 .. MaxContext
None    == 0

ASSUME HandleAssumption ==
    /\ HANDLE_MASK \in Nat
    /\ Harbor \in Nat
    /\ MaxContext \in Nat

VARIABLES
    slot,      \* m_slot: [Slot -> the context registered there, or None]
    index,     \* m_handle_index
    nameMap,   \* m_nameMap: [Name -> the handle named, or None]
    born,      \* how many contexts were created
    given,     \* given[c]: the handle Register returned for context c
    handle,    \* handle[c]: SNContext::handle, 0 until Init has set it
    named      \* named: the handle a KILL command got from FindName, or None

vars == <<slot, index, nameMap, born, given, handle, named>>

\* handle |= m_harbor, on a handle without its harbor.
Full(h) == h + Harbor * (HANDLE_MASK + 1)
\* handle & HANDLE_MASK
Low(h) == h % (HANDLE_MASK + 1)

Handles == 0 .. Full(HANDLE_MASK)

TypeOK ==
    /\ slot \in [Slot -> Context \cup {None}]
    /\ index \in 1 .. HANDLE_MASK + 1
    /\ nameMap \in [Name -> Handles]
    /\ born \in 0 .. MaxContext
    /\ given \in [Context -> Handles]
    /\ handle \in [Context -> Handles]
    /\ named \in Handles

Init ==
    /\ slot = [h \in Slot |-> None]
    /\ index = 1
    /\ nameMap = [n \in Name |-> None]
    /\ born = 0
    /\ given = [c \in Context |-> 0]
    /\ handle = [c \in Context |-> 0]
    /\ named = None

\* The slot Register takes: the first free one from the index on, around the
\* table.  With every slot taken the loop in the code never ends.
Probe(i) == (index + i) % (HANDLE_MASK + 1)

\* Mutants of Register: the index is not moved on; the slot is not tested.
RegisterAt(i, h, next) ==
    /\ slot' = [slot EXCEPT ![Probe(i)] = born + 1]
    /\ index' = next
    /\ given' = [given EXCEPT ![born + 1] = Full(h)]
    /\ born < MaxContext
    /\ born' = born + 1
    /\ UNCHANGED <<nameMap, handle, named>>

FirstFree(i) == slot[Probe(i)] = None /\ \A j \in 0 .. i - 1 : slot[Probe(j)] # None

RegisterSameIndex ==
    \E i \in 0 .. HANDLE_MASK : FirstFree(i) /\ RegisterAt(i, Probe(i), index)

RegisterUntested == RegisterAt(0, Probe(0), Probe(0) + 1)

Register ==
    /\ born < MaxContext
    /\ \E i \in 0 .. HANDLE_MASK :
          /\ slot[Probe(i)] = None
          /\ \A j \in 0 .. i - 1 : slot[Probe(j)] # None
          /\ slot' = [slot EXCEPT ![Probe(i)] = born + 1]
          /\ index' = Probe(i) + 1
          /\ given' = [given EXCEPT ![born + 1] = Full(Probe(i))]
    /\ born' = born + 1
    /\ UNCHANGED <<nameMap, handle, named>>

\* SNContext::Init stores the handle that Register returned.
SetHandle(c) ==
    /\ c <= born
    /\ handle[c] # given[c]
    /\ handle' = [handle EXCEPT ![c] = given[c]]
    /\ UNCHANGED <<slot, index, nameMap, born, given, named>>

\* Remove(h) finds its slot taken by the context with exactly that handle.
Removes(h) == slot[Low(h)] # None /\ handle[slot[Low(h)]] = Low(h)

\* Remove: the slot is freed and the names of the handle are erased.
Remove(h) ==
    /\ Removes(h)
    /\ slot' = [slot EXCEPT ![Low(h)] = None]
    /\ nameMap' = [n \in Name |-> IF nameMap[n] = Low(h) THEN None ELSE nameMap[n]]
    /\ UNCHANGED <<index, born, given, handle>>

\* cmd_exit, or cmd_kill with a handle: of a service that was launched.
Kill(c) ==
    /\ c <= born
    /\ Remove(given[c])
    /\ named' = named

\* cmd_kill with a name: FindName, and later Remove of what it returned.
FindName(n) ==
    /\ nameMap[n] # None
    /\ named = None
    /\ named' = nameMap[n]
    /\ UNCHANGED <<slot, index, nameMap, born, given, handle>>

KillNamed ==
    /\ named # None
    /\ named' = None
    /\ \/ Remove(named)
       \/ /\ ~Removes(named)
          /\ UNCHANGED <<slot, index, nameMap, born, given, handle>>

\* Mutant of NameHandle: a name that is taken is overwritten.
NameHandleOver(c, n) ==
    /\ c <= born
    /\ given[c] # 0
    /\ nameMap' = [nameMap EXCEPT ![n] = given[c]]
    /\ UNCHANGED <<slot, index, born, given, handle, named>>

\* cmd_reg and cmd_name: the handle of a context, unless the name is taken.
NameHandle(c, n) ==
    /\ c <= born
    /\ given[c] # 0
    /\ nameMap[n] = None
    /\ nameMap' = [nameMap EXCEPT ![n] = given[c]]
    /\ UNCHANGED <<slot, index, born, given, handle, named>>

Next ==
    \/ Register
    \/ KillNamed
    \/ \E c \in Context : SetHandle(c) \/ Kill(c)
    \/ \E n \in Name : FindName(n)
    \/ \E c \in Context, n \in Name : NameHandle(c, n)

Spec == Init /\ [][Next]_vars

-----------------------------------------------------------------------------
(***************************************************************************)
(* No handle is given out twice while fewer contexts were created than     *)
(* there are slots: the module Scheduler names a queue, its context and    *)
(* its handle by one number on the strength of this.                       *)
(***************************************************************************)
NoReuse ==
    born <= HANDLE_MASK =>
        \A c, d \in 1 .. born : given[c] = given[d] => c = d

(***************************************************************************)
(* Register never takes the slot of a registered context, and nothing but  *)
(* Remove empties one: a context stays where its handle says until it is   *)
(* removed, also after the index has wrapped around.                       *)
(***************************************************************************)
SlotsAreKept ==
    [][\A h \in Slot : slot[h] # None => slot'[h] \in {slot[h], None}]_vars

\* A context is in the slot of the handle it was given and in no other.
SlotOfHandle ==
    \A h \in Slot : slot[h] # None => h = Low(given[slot[h]])

(***************************************************************************)
(* A name given to a service is never taken over by another: it stands for *)
(* the same handle until it is erased, and the handle's slot is freed in   *)
(* that step.                                                              *)
(***************************************************************************)
NamesAreStable ==
    [][\A n \in Name : nameMap[n] # None /\ nameMap'[n] # nameMap[n] =>
           /\ nameMap'[n] = None
           /\ slot[Low(nameMap[n])] # None
           /\ slot'[Low(nameMap[n])] = None]_vars
=============================================================================
