------------------------------- MODULE Actor -------------------------------
(***************************************************************************)
(* What the scheduler promises to a service: its messages, numbered in the *)
(* order in which they were pushed, leave its queue in that order, and it  *)
(* runs one of them at a time.  Only the messages of a service that is no  *)
(* longer registered are discarded, and only while none of them runs.      *)
(* Nothing here says which thread does what.                               *)
(***************************************************************************)
EXTENDS Naturals

CONSTANTS Service

VARIABLES
    alive,    \* the registered services
    posted,   \* posted[s]: how many messages were ever pushed to s
    taken,    \* taken[s]: how many of them are no longer waiting
    running   \* running[s]: the number of the message s runs, 0 if none

actorVars == <<alive, posted, taken, running>>

ActorInit ==
    /\ alive \subseteq Service
    /\ posted = [s \in Service |-> 0]
    /\ taken = [s \in Service |-> 0]
    /\ running = [s \in Service |-> 0]

Post(s) ==
    /\ posted' = [posted EXCEPT ![s] = @ + 1]
    /\ UNCHANGED <<alive, taken, running>>

\* The oldest message that waits leaves the queue.
Take(s) ==
    /\ taken' = [taken EXCEPT ![s] = @ + 1]
    /\ taken[s] < posted[s]
    /\ running[s] = 0
    /\ UNCHANGED <<alive, posted>>

Start(s) ==
    /\ Take(s)
    /\ running' = [running EXCEPT ![s] = taken[s] + 1]

Discard(s) ==
    /\ s \notin alive
    /\ Take(s)
    /\ running' = running

Finish(s) ==
    /\ running[s] # 0
    /\ running' = [running EXCEPT ![s] = 0]
    /\ UNCHANGED <<alive, posted, taken>>

Register(s) ==
    /\ s \notin alive
    /\ taken[s] = posted[s]
    /\ running[s] = 0
    /\ alive' = alive \cup {s}
    /\ UNCHANGED <<posted, taken, running>>

Unregister(s) ==
    /\ s \in alive
    /\ alive' = alive \ {s}
    /\ UNCHANGED <<posted, taken, running>>

ActorNext ==
    \E s \in Service :
        \/ Post(s) \/ Start(s) \/ Finish(s) \/ Discard(s)
        \/ Register(s) \/ Unregister(s)

ActorSpec == ActorInit /\ [][ActorNext]_actorVars
=============================================================================
