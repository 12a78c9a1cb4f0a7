---------------------------- MODULE GlobalQueue ----------------------------
(***************************************************************************)
(* The global queue of the release build (SNMessageQueueMgr without        *)
(* _DEBUG): a lock-free queue of bounded capacity, and a list, linked      *)
(* through SNMessageQueue::next, of the message queues that found it full. *)
(* Push falls back on the list with a compare-and-swap loop; Pop, after it *)
(* has taken a queue from the bounded one, moves one queue of the list     *)
(* back.                                                                   *)
(*                                                                         *)
(* The clients are the threads of module Scheduler: they pop queues and    *)
(* push the queues they hold.  boost::lockfree::queue is external and is   *)
(* taken as an atomic bounded queue; each access to list and to next is a  *)
(* step.                                                                   *)
(***************************************************************************)
EXTENDS Integers, Sequences, FiniteSets

CONSTANTS
    Thread,    \* threads that push and pop
    Popper,    \* those of them that pop
    Queue,     \* the message queues
    Capacity,  \* MAX_GLOBAL_MQ
    NULL

ASSUME GlobalQueueAssumption ==
    Popper \subseteq Thread /\ NULL \notin Queue /\ Capacity \in Nat

VARIABLES
    ring,     \* m_queue
    list,     \* the head of the overflow list
    next,     \* next[q]
    hold,     \* hold[t]: the queues that thread t has in hand
    pc,       \* where thread t is
    arg,      \* arg[t]: the queue t is pushing
    ret,      \* ret[t]: the queue Pop is going to return
    l, newhead

globalQueueVars == <<ring, list, next, hold, pc, arg, ret, l, newhead>>

\* Every queue is in the hands of some thread, about to be scheduled.
GlobalQueueInit ==
    /\ ring = <<>>
    /\ list = NULL
    /\ next = [q \in Queue |-> NULL]
    /\ \E f \in [Queue -> Thread] : hold = [t \in Thread |-> {q \in Queue : f[q] = t}]
    /\ pc = [t \in Thread |-> "idle"]
    /\ arg = [t \in Thread |-> NULL]
    /\ ret = [t \in Thread |-> NULL]
    /\ l = [t \in Thread |-> NULL]
    /\ newhead = [t \in Thread |-> NULL]

\* Push or Pop returns: what Pop took out is now in the thread's hands.
Return(t) ==
    /\ pc' = [pc EXCEPT ![t] = "idle"]
    /\ arg' = [arg EXCEPT ![t] = NULL]
    /\ ret' = [ret EXCEPT ![t] = NULL]
    /\ l' = [l EXCEPT ![t] = NULL]
    /\ newhead' = [newhead EXCEPT ![t] = NULL]

Taken(t) == IF ret[t] = NULL THEN {} ELSE {ret[t]}

-----------------------------------------------------------------------------
CallPush(t) ==
    /\ pc[t] = "idle"
    /\ \E q \in hold[t] :
          /\ hold' = [hold EXCEPT ![t] = @ \ {q}]
          /\ arg' = [arg EXCEPT ![t] = q]
    /\ pc' = [pc EXCEPT ![t] = "push"]
    /\ UNCHANGED <<ring, list, next, ret, l, newhead>>

\* m_queue.push
PushRing(t) ==
    /\ pc[t] = "push"
    /\ Len(ring) < Capacity
    /\ ring' = Append(ring, arg[t])
    /\ hold' = [hold EXCEPT ![t] = @ \cup Taken(t)]
    /\ Return(t)
    /\ UNCHANGED <<list, next>>

PushFull(t) ==
    /\ pc[t] = "push"
    /\ Len(ring) = Capacity
    /\ pc' = [pc EXCEPT ![t] = "link"]
    /\ UNCHANGED <<ring, list, next, hold, arg, ret, l, newhead>>

\* list.compare_exchange_strong(queue->next, queue): a failure stores the
\* head of the list in queue->next.
PushLink(t) ==
    /\ pc[t] = "link"
    /\ list = next[arg[t]]
    /\ list' = arg[t]
    /\ hold' = [hold EXCEPT ![t] = @ \cup Taken(t)]
    /\ Return(t)
    /\ UNCHANGED <<ring, next>>

PushRetry(t) ==
    /\ pc[t] = "link"
    /\ list # next[arg[t]]
    /\ next' = [next EXCEPT ![arg[t]] = list]
    /\ UNCHANGED <<ring, list, hold, pc, arg, ret, l, newhead>>

-----------------------------------------------------------------------------
\* m_queue.pop; with an empty queue Pop returns NULL.
PopRing(t) ==
    /\ t \in Popper
    /\ pc[t] = "idle"
    /\ ring # <<>>
    /\ ret' = [ret EXCEPT ![t] = Head(ring)]
    /\ ring' = Tail(ring)
    /\ pc' = [pc EXCEPT ![t] = "load"]
    /\ UNCHANGED <<list, next, hold, arg, l, newhead>>

PopLoad(t) ==
    /\ pc[t] = "load"
    /\ IF list = NULL
         THEN /\ hold' = [hold EXCEPT ![t] = @ \cup Taken(t)]
              /\ Return(t)
         ELSE /\ l' = [l EXCEPT ![t] = list]
              /\ pc' = [pc EXCEPT ![t] = "next"]
              /\ UNCHANGED <<hold, arg, ret, newhead>>
    /\ UNCHANGED <<ring, list, next>>

PopNext(t) ==
    /\ pc[t] = "next"
    /\ newhead' = [newhead EXCEPT ![t] = next[l[t]]]
    /\ pc' = [pc EXCEPT ![t] = "swap"]
    /\ UNCHANGED <<ring, list, next, hold, arg, ret, l>>

\* list.compare_exchange_strong(l, newhead), tried once.
PopSwap(t) ==
    /\ pc[t] = "swap"
    /\ list = l[t]
    /\ list' = newhead[t]
    /\ pc' = [pc EXCEPT ![t] = "clear"]
    /\ UNCHANGED <<ring, next, hold, arg, ret, l, newhead>>

\* Mutant of PopLost: the result of the exchange is not looked at.
PopLostIgnored(t) ==
    /\ pc[t] = "swap"
    /\ list # l[t]
    /\ pc' = [pc EXCEPT ![t] = "clear"]
    /\ UNCHANGED <<ring, list, next, hold, arg, ret, l, newhead>>

PopLost(t) ==
    /\ pc[t] = "swap"
    /\ list # l[t]
    /\ hold' = [hold EXCEPT ![t] = @ \cup Taken(t)]
    /\ Return(t)
    /\ UNCHANGED <<ring, list, next>>

\* Mutant of PopClear: the link of the queue is not cleared.
PopClearLinked(t) ==
    /\ pc[t] = "clear"
    /\ arg' = [arg EXCEPT ![t] = l[t]]
    /\ pc' = [pc EXCEPT ![t] = "push"]
    /\ UNCHANGED <<ring, list, next, hold, ret, l, newhead>>

\* l->next = NULL; Push(l)
PopClear(t) ==
    /\ pc[t] = "clear"
    /\ next' = [next EXCEPT ![l[t]] = NULL]
    /\ arg' = [arg EXCEPT ![t] = l[t]]
    /\ pc' = [pc EXCEPT ![t] = "push"]
    /\ UNCHANGED <<ring, list, hold, ret, l, newhead>>

GlobalQueueNext ==
    \E t \in Thread :
        \/ CallPush(t) \/ PushRing(t) \/ PushFull(t) \/ PushLink(t) \/ PushRetry(t)
        \/ PopRing(t) \/ PopLoad(t) \/ PopNext(t) \/ PopSwap(t) \/ PopLost(t)
        \/ PopClear(t)

GlobalQueueSpec == GlobalQueueInit /\ [][GlobalQueueNext]_globalQueueVars

-----------------------------------------------------------------------------
(* Properties.                                                             *)

\* The queues that are reached from h along the links n: those in every set of
\* queues that has h and, with each of its members, the one this is linked to.
Closed(S, n) == \A q \in S : n[q] \in S \cup {NULL}
Reached(h, n) ==
    {q \in Queue : \A S \in SUBSET Queue : h \in S \cup {NULL} /\ Closed(S, n) => q \in S}

\* The overflow list.
Listed == Reached(list, next)

\* The queues thread t has taken out and not put anywhere yet.
InHand(t) ==
    hold[t] \cup ({ret[t], arg[t]} \ {NULL})
            \cup (IF pc[t] = "clear" THEN {l[t]} ELSE {})

(***************************************************************************)
(* No message queue is lost or duplicated: each is in the bounded queue,   *)
(* in the list, or in the hands of one thread, and in one of these only.   *)
(* A queue in two hands is a service two workers run at the same time.     *)
(***************************************************************************)
NoneLost ==
    LET listed == Listed IN
    \A q \in Queue :
        LET inRing == {i \in 1 .. Len(ring) : ring[i] = q}
            hands  == {t \in Thread : q \in InHand(t)}
        IN  Cardinality(inRing) + Cardinality(hands)
              + (IF q \in listed THEN 1 ELSE 0) = 1

(***************************************************************************)
(* assert(queue->next == NULL) in Push, where the bounded queue was full:  *)
(* a queue about to be linked into the list is in no list yet.             *)
(***************************************************************************)
AssertUnlinked ==
    \A t \in Thread :
        pc[t] = "push" /\ Len(ring) = Capacity => next[arg[t]] = NULL
=============================================================================
