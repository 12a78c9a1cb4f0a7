----------------------------- MODULE ShareConf ------------------------------
(***************************************************************************)
(* The life of the configurations of lua-sharedata: sharedatad owns the    *)
(* current one and deletes an old one when its reference count is 0;       *)
(* clients query it, hold it in a box, and follow the updates through a    *)
(* monitor call that is answered when the configuration is replaced.  One  *)
(* name; objects are numbered as they are made.                            *)
(***************************************************************************)
EXTENDS Integers, FiniteSets, FiniteSetsExt

CONSTANTS
    Clients,
    MaxObj          \* bound: the configurations that are made

VARIABLES
    host,           \* pool (the current object or 0), made, lost (watchers lost by a failed update)
    obj,            \* struct state of each object: ref, dirty; old: objmap is true; freed
    cl              \* per client: at (__obj and __gcobj), upd (ctrl.update), boxes, ask, confirm, up

Objs == 1..MaxObj
NoClient == [at |-> 0, upd |-> 0, boxes |-> [o \in Objs |-> 0], ask |-> <<"none", 0>>, confirm |-> {}, up |-> TRUE]

Init ==
    /\ host = [pool |-> 1, made |-> 1, lost |-> {}]
    /\ obj = [o \in Objs |-> [ref |-> IF o = 1 THEN 1 ELSE 0, dirty |-> FALSE, old |-> FALSE, freed |-> FALSE]]
    /\ cl = [c \in Clients |-> NoClient]

lincref(os, o) == [os EXCEPT ![o].ref = @ + 1]
ldecref(os, o) == [os EXCEPT ![o].ref = @ - 1]
lboxconf(os, o) == lincref(os, o)
lmarkdirty(os, o) == [os EXCEPT ![o].dirty = TRUE]

-----------------------------------------------------------------------------
(* sharedatad *)

\* CMD.query: the object cannot go before the client has boxed it.  Mutant: no incref.
QueriedOnly(os, o) == os
Queried(os, o) == lincref(os, o)
Query(c) ==
    /\ cl[c].up /\ cl[c].ask[1] = "none" /\ cl[c].at = 0 /\ host.pool # 0
    /\ obj' = Queried(obj, host.pool)
    /\ cl' = [cl EXCEPT ![c].ask = <<"query", host.pool>>]
    /\ UNCHANGED host

\* CMD.confirm
Confirm(c) ==
    /\ \E o \in cl[c].confirm :
         /\ obj' = IF obj[o].freed THEN obj ELSE ldecref(obj, o)
         /\ cl' = [cl EXCEPT ![c].confirm = @ \ {o}]
    /\ UNCHANGED host

\* CMD.monitor; without a configuration the call fails.
Monitor(c) ==
    /\ cl[c].ask[1] = "monitor"
    /\ cl' = [cl EXCEPT ![c].ask = CASE host.pool = 0 -> <<"ended", 0>>
                                     [] host.pool = cl[c].ask[2] -> <<"watch", host.pool>>
                                     [] OTHER -> <<"reply", host.pool>>]
    /\ UNCHANGED <<host, obj>>

\* The watchers of an object get an answer.
Answer(o, answer) == [c \in Clients |-> IF cl[c].ask = <<"watch", o>> THEN [cl[c] EXCEPT !.ask = answer] ELSE cl[c]]

\* The old object is given up: objmap[oldcobj] = true and decref
GiveUp(os, o) == IF o = 0 THEN os ELSE [ldecref(os, o) EXCEPT ![o].old = TRUE]

\* CMD.update: a new object, the old one is dirty, its watchers are told.
\* Mutant: the watchers are not told.
ToldNobody(o, new) == cl
Told(o, new) == Answer(o, <<"reply", new>>)
Update ==
    /\ host.made < MaxObj
    /\ LET new == host.made + 1
           os == lincref(GiveUp(obj, host.pool), new)
       IN  /\ host' = [host EXCEPT !.pool = new, !.made = new]
           /\ obj' = IF host.pool = 0 THEN os ELSE lmarkdirty(os, host.pool)
           /\ cl' = Told(host.pool, new)

\* CMD.update whose table cannot be converted: CMD.new throws after the old object was
\* given up, and its watchers are never answered.
UpdateFails ==
    /\ host.pool # 0
    /\ obj' = GiveUp(obj, host.pool)
    /\ host' = [host EXCEPT !.pool = 0, !.lost = @ \cup {host.pool}]
    /\ UNCHANGED cl

\* CMD.delete
Delete ==
    /\ host.pool # 0
    /\ obj' = GiveUp(obj, host.pool)
    /\ cl' = Answer(host.pool, <<"ended", 0>>)
    /\ host' = [host EXCEPT !.pool = 0]

\* collectobj
CollectObj ==
    /\ \E o \in Objs : obj[o].old /\ ~obj[o].freed /\ obj[o].ref <= 0
    /\ obj' = [o \in Objs |-> IF obj[o].old /\ obj[o].ref <= 0 THEN [obj[o] EXCEPT !.freed = TRUE] ELSE obj[o]]
    /\ UNCHANGED <<host, cl>>

-----------------------------------------------------------------------------
(* A client *)

\* sharedata.query: box, confirm, monitor
Box(c) ==
    /\ cl[c].up /\ cl[c].ask[1] = "query"
    /\ LET o == cl[c].ask[2] IN
       /\ obj' = lboxconf(obj, o)
       /\ cl' = [cl EXCEPT ![c].at = o, ![c].boxes[o] = @ + 1, ![c].confirm = @ \cup {o},
                           ![c].ask = <<"monitor", o>>]
    /\ UNCHANGED host

\* An answer to the monitor: conf.update boxes the new object, which nothing has kept
\* alive since the answer was sent.
lupdate(c) ==
    /\ cl[c].up /\ cl[c].ask[1] = "reply"
    /\ LET o == cl[c].ask[2] IN
       IF obj[o].freed \/ ~obj[cl[c].at].dirty
       THEN /\ cl' = [cl EXCEPT ![c].ask = IF obj[o].freed THEN <<"fault", o>> ELSE <<"ended", 0>>]
            /\ UNCHANGED obj
       ELSE /\ obj' = lboxconf(obj, o)
            /\ cl' = [cl EXCEPT ![c].upd = o, ![c].boxes[o] = @ + 1, ![c].ask = <<"monitor", o>>]
    /\ UNCHANGED host

\* getcobj: an access finds the object dirty (lisdirty) and takes the update (lneedupdate).
Access(c) ==
    /\ cl[c].up /\ cl[c].at # 0 /\ cl[c].upd # 0 /\ obj[cl[c].at].dirty
    /\ cl' = [cl EXCEPT ![c].at = cl[c].upd, ![c].upd = 0]
    /\ UNCHANGED <<host, obj>>

\* releaseobj: a box the client does not reach is collected.
Reached(s, o) == (IF s.at = o THEN 1 ELSE 0) + (IF s.upd = o THEN 1 ELSE 0)
releaseobj(c) ==
    /\ cl[c].up
    /\ \E o \in Objs :
         /\ cl[c].boxes[o] > Reached(cl[c], o)
         /\ obj' = ldecref(obj, o)
         /\ cl' = [cl EXCEPT ![c].boxes[o] = @ - 1]
    /\ UNCHANGED host

\* The client exits: its Lua state is closed, with all boxes.  A query it has not
\* taken stays counted.
Exit(c) ==
    /\ cl[c].up
    /\ obj' = [o \in Objs |-> [obj[o] EXCEPT !.ref = @ - cl[c].boxes[o]]]
    /\ cl' = [cl EXCEPT ![c] = [NoClient EXCEPT !.ask = IF cl[c].ask[1] = "query" THEN cl[c].ask ELSE <<"none", 0>>,
                                                !.confirm = cl[c].confirm, !.up = FALSE]]
    /\ UNCHANGED host

ClientStep(c) == \/ Query(c) \/ Confirm(c) \/ Monitor(c) \/ Box(c) \/ lupdate(c) \/ Access(c)
                 \/ releaseobj(c) \/ Exit(c)
Next == Update \/ UpdateFails \/ Delete \/ CollectObj \/ \E c \in Clients : ClientStep(c)

-----------------------------------------------------------------------------
\* What a client holds or was promised by a query is not deleted, and the count of
\* an object is exactly what holds it, so that collectobj finds every other object.
ConfAlive ==
    LET Holds(c, o) == cl[c].boxes[o] + (IF cl[c].ask = <<"query", o>> THEN 1 ELSE 0) + (IF o \in cl[c].confirm THEN 1 ELSE 0)
        Held(o) == MapThenSumSet(LAMBDA c : Holds(c, o), Clients)
    IN  /\ \A o \in Objs : obj[o].ref = Held(o) + (IF host.pool = o THEN 1 ELSE 0)
        /\ \A c \in Clients, o \in Objs : o \in {cl[c].at, cl[c].upd} => cl[c].boxes[o] > 0 /\ ~obj[o].freed

\* No client is left behind: one that holds an object that was replaced has the
\* update, or a message that brings it is on its way, unless its monitor has ended
\* (the configuration was deleted) or an update failed while it watched.
ConfFollows ==
    \A c \in Clients : cl[c].up /\ cl[c].at # 0 /\ host.pool # 0 /\ cl[c].at # host.pool =>
        \/ cl[c].upd = host.pool
        \/ cl[c].ask[1] \in {"monitor", "reply", "ended", "fault"}
        \/ cl[c].ask[1] = "watch" /\ cl[c].ask[2] \in host.lost
=============================================================================
