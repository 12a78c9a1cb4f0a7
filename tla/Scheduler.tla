----------------------------- MODULE Scheduler -----------------------------
(***************************************************************************)
(* The message scheduler of the server: one message queue per service      *)
(* (SNMessageQueue), the global queue of message queues with work to do    *)
(* (SNMessageQueueMgr), and the worker threads that take a message queue   *)
(* from the global queue, run a batch of its messages and put it back      *)
(* (SNServer::DispatchMessageQueue).  The callbacks the workers run send   *)
(* messages, kill services and launch new ones while other threads do the  *)
(* same; the timer and socket threads only send.                           *)
(*                                                                         *)
(* A service is the number of its slot in the handle table, which is also  *)
(* the name of its context and of its queue: slots are handed out in       *)
(* increasing order (module HandleMgr has the table itself, with its wrap  *)
(* around), so a queue's handle never finds another context here.          *)
(*                                                                         *)
(* One step is one critical section: a hold of a queue's spinlock, of the  *)
(* global queue's mutex (the debug build's queue) or of the table's        *)
(* read-write lock.  What a thread keeps in local variables from one to    *)
(* the next is in the per-thread variables below.                          *)
(***************************************************************************)
EXTENDS Integers, Sequences, FiniteSets

CONSTANTS
    Worker,       \* the worker threads
    Other,        \* the threads that only send: timer and socket
    Weight,       \* Weight[w]: the batch weight of worker w, -1 .. 3
    Harbor,       \* the harbor id of this process, 0 .. 255
    Boot,         \* services launched before the threads start
    MaxService,   \* bound: services ever launched
    MaxPush,      \* bound: messages callbacks and threads send to one service
    MonitorExit   \* the service told of every exit (m_monitor_exit), or 0

Thread  == Worker \cup Other
Service == 1 .. MaxService
None    == 0                    \* NULL, INVALID_HANDLE

ASSUME ConstantsAssumption ==
    /\ Worker \cap Other = {}
    /\ Weight \in [Worker -> -1 .. 3]
    /\ Harbor \in 0 .. 255
    /\ MaxService \in Nat
    /\ Boot \in 0 .. MaxService
    /\ MaxPush \in Nat
    /\ MonitorExit \in Service \cup {None}

VARIABLES
    slot,      \* m_slot: the services registered in the handle table
    created,   \* how many services have been launched (m_handle_index - 1)
    freed,     \* the services whose message queue has been deleted
    mq,        \* mq[s]: the messages in the queue of s
    inGlobal,  \* inGlobal[s]: m_bInGlobal of the queue of s
    global,    \* the global queue of message queues
    pushed,    \* pushed[s]: messages ever pushed on the queue of s
    pc,        \* pc[t]: where thread t is
    cur,       \* cur[w]: pMsgQueue, the queue worker w is dispatching
    nq,        \* nq[w]: the queue popped before cur[w] is put back
    msg,       \* msg[w]: the message worker w is dispatching
    left,      \* left[w]: messages of the batch after the current one
    fresh,     \* fresh[t]: the service that t is launching
    vic,       \* vic[t]: the service that t is killing or releasing
    dest,      \* dest[t]: the service t is sending a message to
    back       \* back[t]: where t goes on after the push

shared == <<slot, created, freed, mq, inGlobal, global, pushed>>
local  == <<cur, nq, msg, left, fresh, vic, dest, back>>
vars   == <<slot, created, freed, mq, inGlobal, global, pushed, pc,
            cur, nq, msg, left, fresh, vic, dest, back>>

(***************************************************************************)
(* A message is its number among all the messages pushed on the same       *)
(* queue, and the service it came from.                                    *)
(***************************************************************************)
Message == [seq : Nat, source : Service \cup {None}]
NoMsg   == [seq |-> 0, source |-> None]

Label == {"sleep", "pop", "find", "first", "take", "check", "len", "run",
          "back", "requeue", "drop", "report", "delete", "push", "remove",
          "force", "init", "idle"}

TypeOK ==
    /\ slot \subseteq Service
    /\ created \in 0 .. MaxService
    /\ freed \subseteq Service
    /\ mq \in [Service -> Seq(Message)]
    /\ inGlobal \in [Service -> BOOLEAN]
    /\ global \in Seq(Service)
    /\ pushed \in [Service -> Nat]
    /\ pc \in [Thread -> Label]
    /\ cur \in [Thread -> Service \cup {None}]
    /\ nq \in [Thread -> Service \cup {None}]
    /\ msg \in [Thread -> Message]
    /\ left \in [Thread -> Nat]
    /\ fresh \in [Thread -> Service \cup {None}]
    /\ vic \in [Thread -> Service \cup {None}]
    /\ dest \in [Thread -> Service \cup {None}]
    /\ back \in [Thread -> {"idle", "run", "init", "drop", "remove"}]

(***************************************************************************)
(* The server as skynet_start hands it to the threads: the services of the *)
(* boot sequence are launched and their queues are in the global queue.    *)
(***************************************************************************)
Init ==
    /\ slot = 1 .. Boot
    /\ created = Boot
    /\ freed = {}
    /\ mq = [s \in Service |-> <<>>]
    /\ inGlobal = [s \in Service |-> TRUE]
    /\ global = [i \in 1 .. Boot |-> i]
    /\ pushed = [s \in Service |-> 0]
    /\ pc = [t \in Thread |-> IF t \in Worker THEN "pop" ELSE "idle"]
    /\ cur = [t \in Thread |-> None]
    /\ nq = [t \in Thread |-> None]
    /\ msg = [t \in Thread |-> NoMsg]
    /\ left = [t \in Thread |-> 0]
    /\ fresh = [t \in Thread |-> None]
    /\ vic = [t \in Thread |-> None]
    /\ dest = [t \in Thread |-> None]
    /\ back = [t \in Thread |-> "idle"]

Goto(t, l) == pc' = [pc EXCEPT ![t] = l]

-----------------------------------------------------------------------------
(* The worker's dispatch loop.                                             *)

(***************************************************************************)
(* m_pMqMgr->Pop() with no queue in hand: on entry, and on both early      *)
(* returns.  No queue makes the worker sleep.                              *)
(***************************************************************************)
PopGlobal(w) ==
    /\ pc[w] = "pop"
    /\ global # <<>>
    /\ cur' = [cur EXCEPT ![w] = Head(global)]
    /\ global' = Tail(global)
    /\ Goto(w, "find")
    /\ UNCHANGED <<slot, created, freed, mq, inGlobal, pushed,
                   nq, msg, left, fresh, vic, dest, back>>

PopGlobalEmpty(w) ==
    /\ pc[w] = "pop"
    /\ global = <<>>
    /\ Goto(w, "sleep")
    /\ UNCHANGED <<shared, local>>

\* The condition variable is signalled (every 10 ms by the timer thread).
Wake(w) ==
    /\ pc[w] = "sleep"
    /\ Goto(w, "pop")
    /\ UNCHANGED <<shared, local>>

\* Mutant of FindContext: a dead service's queue is left as it is.
FindContextLeaves(w) ==
    /\ pc[w] = "find"
    /\ IF cur[w] \in slot
         THEN /\ Goto(w, "first")
              /\ cur' = cur
         ELSE /\ Goto(w, "pop")
              /\ cur' = [cur EXCEPT ![w] = None]
    /\ UNCHANGED <<shared, nq, msg, left, fresh, vic, dest, back>>

\* FindContext(pMsgQueue->GetHandle()): a dead service's queue is released.
FindContext(w) ==
    /\ pc[w] = "find"
    /\ IF cur[w] \in slot
         THEN /\ Goto(w, "first")
              /\ vic' = vic
         ELSE /\ Goto(w, "drop")
              /\ vic' = [vic EXCEPT ![w] = cur[w]]
    /\ UNCHANGED <<shared, cur, nq, msg, left, fresh, dest, back>>

\* Mutant of PopMessage: the newest message is taken.
PopMessageNewest(w) ==
    /\ pc[w] \in {"first", "take"}
    /\ mq[cur[w]] # <<>>
    /\ msg' = [msg EXCEPT ![w] = mq[cur[w]][Len(mq[cur[w]])]]
    /\ mq' = [mq EXCEPT ![cur[w]] = SubSeq(@, 1, Len(@) - 1)]
    /\ Goto(w, IF pc[w] = "first" /\ Weight[w] >= 0 THEN "len" ELSE "run")
    /\ UNCHANGED <<slot, created, freed, inGlobal, global, pushed,
                   cur, nq, left, fresh, vic, dest, back>>

\* SNMessageQueue::Pop on a queue with messages; the first message of the
\* batch decides its length when the worker has a weight.
PopMessage(w) ==
    /\ pc[w] \in {"first", "take"}
    /\ mq[cur[w]] # <<>>
    /\ msg' = [msg EXCEPT ![w] = Head(mq[cur[w]])]
    /\ mq' = [mq EXCEPT ![cur[w]] = Tail(@)]
    /\ Goto(w, IF pc[w] = "first" /\ Weight[w] >= 0 THEN "len" ELSE "run")
    /\ UNCHANGED <<slot, created, freed, inGlobal, global, pushed,
                   cur, nq, left, fresh, vic, dest, back>>

\* SNMessageQueue::Pop on an empty queue takes it out of the schedule.
PopEmpty(w) ==
    /\ pc[w] \in {"first", "take"}
    /\ mq[cur[w]] = <<>>
    /\ inGlobal' = [inGlobal EXCEPT ![cur[w]] = FALSE]
    /\ left' = [left EXCEPT ![w] = 0]
    /\ Goto(w, "check")
    /\ UNCHANGED <<slot, created, freed, mq, global, pushed,
                   cur, nq, msg, fresh, vic, dest, back>>

\* The read of IsInGlobal in the assertion after the empty Pop, with no lock.
Check(w) ==
    /\ pc[w] = "check"
    /\ cur' = [cur EXCEPT ![w] = None]
    /\ Goto(w, "pop")
    /\ UNCHANGED <<shared, nq, msg, left, fresh, vic, dest, back>>

\* 2^k, for the weights a worker can have.
Pow2(k) == CASE k = 0 -> 1 [] k = 1 -> 2 [] k = 2 -> 4 [] OTHER -> 8

\* n = Length() >> weight, under a new hold of the lock; the message already
\* taken is the first of the n.
Length(w) ==
    /\ pc[w] = "len"
    /\ LET n == Len(mq[cur[w]]) \div Pow2(Weight[w])
       IN  left' = [left EXCEPT ![w] = IF n > 1 THEN n - 1 ELSE 0]
    /\ Goto(w, "run")
    /\ UNCHANGED <<shared, cur, nq, msg, fresh, vic, dest, back>>

\* DispatchMessage returns; the batch goes on or ends.
EndRun(w) ==
    /\ pc[w] = "run"
    /\ msg' = [msg EXCEPT ![w] = NoMsg]
    /\ IF left[w] = 0
         THEN /\ Goto(w, "back")
              /\ left' = left
         ELSE /\ Goto(w, "take")
              /\ left' = [left EXCEPT ![w] = @ - 1]
    /\ UNCHANGED <<shared, cur, nq, fresh, vic, dest, back>>

\* The batch is over: the worker keeps the queue if the global one is empty...
Keep(w) ==
    /\ pc[w] = "back"
    /\ global = <<>>
    /\ Goto(w, "find")
    /\ UNCHANGED <<shared, local>>

\* ... and otherwise takes the next queue, then puts this one back.
PopNext(w) ==
    /\ pc[w] = "back"
    /\ global # <<>>
    /\ nq' = [nq EXCEPT ![w] = Head(global)]
    /\ global' = Tail(global)
    /\ Goto(w, "requeue")
    /\ UNCHANGED <<slot, created, freed, mq, inGlobal, pushed,
                   cur, msg, left, fresh, vic, dest, back>>

Requeue(w) ==
    /\ pc[w] = "requeue"
    /\ global' = Append(global, cur[w])
    /\ cur' = [cur EXCEPT ![w] = nq[w]]
    /\ nq' = [nq EXCEPT ![w] = None]
    /\ Goto(w, "find")
    /\ UNCHANGED <<slot, created, freed, mq, inGlobal, pushed,
                   msg, left, fresh, vic, dest, back>>

-----------------------------------------------------------------------------
(* Releasing a queue: SNMessageQueue::Release with drop_message, then      *)
(* delete.                                                                 *)

\* Pop(&msg, false): the flag m_bInGlobal keeps its value.
Drop(t) ==
    /\ pc[t] = "drop"
    /\ mq[vic[t]] # <<>>
    /\ dest' = [dest EXCEPT ![t] = Head(mq[vic[t]]).source]
    /\ mq' = [mq EXCEPT ![vic[t]] = Tail(@)]
    /\ Goto(t, "report")
    /\ UNCHANGED <<slot, created, freed, inGlobal, global, pushed,
                   cur, nq, msg, left, fresh, vic, back>>

DropEnd(t) ==
    /\ pc[t] = "drop"
    /\ mq[vic[t]] = <<>>
    /\ Goto(t, "delete")
    /\ UNCHANGED <<shared, local>>

\* drop_message: an error goes to the source of the message, if there is one.
Report(t) ==
    /\ pc[t] = "report"
    /\ IF dest[t] \in slot
         THEN /\ back' = [back EXCEPT ![t] = "drop"]
              /\ dest' = dest
              /\ Goto(t, "push")
         ELSE /\ dest' = [dest EXCEPT ![t] = None]
              /\ back' = back
              /\ Goto(t, "drop")
    /\ UNCHANGED <<shared, cur, nq, msg, left, fresh, vic>>

Delete(t) ==
    /\ pc[t] = "delete"
    /\ freed' = freed \cup {vic[t]}
    /\ vic' = [vic EXCEPT ![t] = None]
    /\ IF fresh[t] # None
         THEN /\ fresh' = [fresh EXCEPT ![t] = None]
              /\ cur' = cur
              /\ Goto(t, "run")
         ELSE /\ cur' = [cur EXCEPT ![t] = None]
              /\ fresh' = fresh
              /\ Goto(t, "pop")
    /\ UNCHANGED <<slot, created, mq, inGlobal, global, pushed,
                   nq, msg, left, dest, back>>

-----------------------------------------------------------------------------
(* What a callback, an Init function or a sending thread does.             *)

\* Where a call made by a callback or an Init function returns.
Home(t) == IF fresh[t] = None THEN "run" ELSE "init"

\* skynet_send, first half: ContextPush finds the destination's context.
Send(t, d) ==
    /\ pc[t] \in {"run", "init", "idle"}
    /\ d \in slot
    /\ pushed[d] < MaxPush
    /\ dest' = [dest EXCEPT ![t] = d]
    /\ back' = [back EXCEPT ![t] = pc[t]]
    /\ Goto(t, "push")
    /\ UNCHANGED <<shared, cur, nq, msg, left, fresh, vic>>

\* The source of the message being pushed.
Source(t) ==
    CASE back[t] = "run"  -> cur[t]
      [] back[t] = "init" -> fresh[t]
      [] back[t] = "idle" -> None
      [] OTHER            -> vic[t]

(***************************************************************************)
(* The flag as code that holds the queue's spinlock reads it.  In a queue  *)
(* that was deleted it is whatever the memory holds.                       *)
(***************************************************************************)
FlagOf(s) == IF s \in freed THEN BOOLEAN ELSE {inGlobal[s]}

\* Mutants of EnterGlobal: the flag is not tested; the queue is not pushed.
EnterGlobalAlways(s) ==
    /\ inGlobal' = [inGlobal EXCEPT ![s] = TRUE]
    /\ global' = Append(global, s)

EnterGlobalFlagOnly(s) ==
    /\ inGlobal' = [inGlobal EXCEPT ![s] = TRUE]
    /\ global' = global

\* What Push and ForceInGlobal do to the schedule, under the spinlock.
EnterGlobal(s) ==
    \E flag \in FlagOf(s) :
        /\ inGlobal' = [inGlobal EXCEPT ![s] = TRUE]
        /\ global' = IF flag THEN global ELSE Append(global, s)

\* skynet_send, second half: SNMessageQueue::Push.
Push(t) ==
    /\ pc[t] = "push"
    /\ LET d == dest[t]
           m == [seq |-> pushed[d] + 1, source |-> Source(t)]
       IN  /\ mq' = [mq EXCEPT ![d] = Append(@, m)]
           /\ pushed' = [pushed EXCEPT ![d] = @ + 1]
           /\ EnterGlobal(d)
    /\ dest' = [dest EXCEPT ![t] = None]
    /\ Goto(t, back[t])
    /\ back' = [back EXCEPT ![t] = "idle"]
    /\ UNCHANGED <<slot, created, freed, cur, nq, msg, left, fresh, vic>>

\* handle_exit, up to Remove: the exit is reported to the monitor service.
Kill(t, d) ==
    /\ pc[t] \in {"run", "init"}
    /\ d \in slot
    /\ vic' = [vic EXCEPT ![t] = d]
    /\ IF MonitorExit \in slot
         THEN /\ pushed[MonitorExit] < MaxPush
              /\ dest' = [dest EXCEPT ![t] = MonitorExit]
              /\ back' = [back EXCEPT ![t] = "remove"]
              /\ Goto(t, "push")
         ELSE /\ Goto(t, "remove")
              /\ UNCHANGED <<dest, back>>
    /\ UNCHANGED <<shared, cur, nq, msg, left, fresh>>

\* The handle of service s, and the test SNHandleMgr::Remove makes on it: the
\* context's whole handle against the handle without its harbor.
Handle(s) == s + Harbor * 2^24
Removes(s) == s \in slot /\ Handle(s) = s

\* SNHandleMgr::Remove in handle_exit.
Remove(t) ==
    /\ pc[t] = "remove"
    /\ IF Removes(vic[t])
         THEN /\ slot' = slot \ {vic[t]}
              /\ vic' = vic
              /\ Goto(t, "force")
         ELSE /\ slot' = slot
              /\ vic' = [vic EXCEPT ![t] = None]
              /\ Goto(t, Home(t))
    /\ UNCHANGED <<created, freed, mq, inGlobal, global, pushed,
                   cur, nq, msg, left, fresh, dest, back>>

\* SNMessageQueue::ForceInGlobal on the removed context's queue.
ForceInGlobal(t) ==
    /\ pc[t] = "force"
    /\ EnterGlobal(vic[t])
    /\ vic' = [vic EXCEPT ![t] = None]
    /\ Goto(t, Home(t))
    /\ UNCHANGED <<slot, created, freed, mq, pushed,
                   cur, nq, msg, left, fresh, dest, back>>

\* Mutant of Launch: the constructor leaves m_bInGlobal down.
LaunchFlagDown(t) ==
    /\ pc[t] = "run"
    /\ created < MaxService
    /\ created' = created + 1
    /\ slot' = slot \cup {created + 1}
    /\ inGlobal' = [inGlobal EXCEPT ![created + 1] = FALSE]
    /\ fresh' = [fresh EXCEPT ![t] = created + 1]
    /\ Goto(t, "init")
    /\ UNCHANGED <<freed, mq, global, pushed, cur, nq, msg, left, vic, dest, back>>

\* NewContext, up to the call of the module's Init: register, new queue.
Launch(t) ==
    /\ pc[t] = "run"
    /\ created < MaxService
    /\ created' = created + 1
    /\ slot' = slot \cup {created + 1}
    /\ fresh' = [fresh EXCEPT ![t] = created + 1]
    /\ Goto(t, "init")
    /\ UNCHANGED <<freed, mq, inGlobal, global, pushed,
                   cur, nq, msg, left, vic, dest, back>>

\* Init succeeded: the queue enters the schedule.
InitOk(t) ==
    /\ pc[t] = "init"
    /\ global' = Append(global, fresh[t])
    /\ fresh' = [fresh EXCEPT ![t] = None]
    /\ Goto(t, "run")
    /\ UNCHANGED <<slot, created, freed, mq, inGlobal, pushed,
                   cur, nq, msg, left, vic, dest, back>>

\* Mutant of InitFail: the failed service stays in the handle table.
InitFailKeeps(t) ==
    /\ pc[t] = "init"
    /\ vic' = [vic EXCEPT ![t] = fresh[t]]
    /\ Goto(t, "drop")
    /\ UNCHANGED <<shared, cur, nq, msg, left, fresh, dest, back>>

\* Init failed: the service is removed and its queue released.
InitFail(t) ==
    /\ pc[t] = "init"
    /\ slot' = IF Removes(fresh[t]) THEN slot \ {fresh[t]} ELSE slot
    /\ vic' = [vic EXCEPT ![t] = fresh[t]]
    /\ Goto(t, "drop")
    /\ UNCHANGED <<created, freed, mq, inGlobal, global, pushed,
                   cur, nq, msg, left, fresh, dest, back>>

-----------------------------------------------------------------------------
Step(t) ==
    \/ PopGlobal(t) \/ PopGlobalEmpty(t) \/ Wake(t) \/ FindContext(t)
    \/ PopMessage(t) \/ PopEmpty(t) \/ Check(t) \/ Length(t)
    \/ Keep(t) \/ PopNext(t) \/ Requeue(t)
    \/ Drop(t) \/ DropEnd(t) \/ Report(t) \/ Delete(t)
    \/ Push(t) \/ Remove(t) \/ ForceInGlobal(t)

\* What the code of a service decides.
Choice(t) ==
    \/ Launch(t) \/ InitOk(t) \/ InitFail(t)
    \/ \E d \in Service : Send(t, d) \/ Kill(t, d)

Next == \E t \in Thread : Step(t) \/ EndRun(t) \/ Choice(t)

Spec == Init /\ [][Next]_vars

(***************************************************************************)
(* Threads run; a callback and an Init function return, whatever calls     *)
(* they make; the timer thread's signal wakes some sleeping worker.        *)
(***************************************************************************)
Fairness ==
    /\ \A t \in Thread : WF_vars(Step(t) /\ pc[t] # "sleep")
    /\ \A w \in Worker : SF_vars(EndRun(w)) /\ SF_vars(InitOk(w) \/ InitFail(w))
    /\ WF_vars(\E w \in Worker : Wake(w))

FairSpec == Spec /\ Fairness

-----------------------------------------------------------------------------
(* Properties.                                                             *)

\* Worker w has queue s in hand.  From the empty Pop on it only reads a flag.
Holds(w, s) == (cur[w] = s /\ pc[w] # "check") \/ nq[w] = s

\* Queue s is in the sequence q of queues, and only once.
In(q, s)   == \E i \in 1 .. Len(q) : q[i] = s
Once(q, s) == \A i, j \in 1 .. Len(q) : q[i] = s /\ q[j] = s => i = j

\* The queues that were made and not yet deleted.
Queue == (1 .. created) \ freed

(***************************************************************************)
(* A message queue is in one place only: once in the global queue, or in   *)
(* the hands of one worker, or with the thread still initialising its      *)
(* service.  Two places would let two workers run one service at a time,   *)
(* which the CALLING_CHECK assertion of DispatchMessage forbids, or run a  *)
(* service before its Init returned, which the constructor's comment on    *)
(* m_bInGlobal rules out.                                                  *)
(***************************************************************************)
PlacedOnce(s) ==
    /\ Once(global, s)
    /\ \A v, w \in Thread : Holds(v, s) /\ Holds(w, s) => v = w
    /\ \A v, w \in Thread : fresh[v] = s /\ fresh[w] = s => v = w
    /\ \A v, w \in Thread : Holds(v, s) => fresh[w] # s
    /\ \A w \in Thread : ~(cur[w] = s /\ nq[w] = s)
    /\ \A w \in Thread : In(global, s) => ~Holds(w, s) /\ fresh[w] # s

OnePlace == \A s \in Queue : PlacedOnce(s)

(***************************************************************************)
(* No message is stranded: a queue that holds messages is somewhere a      *)
(* worker will find it.  (An empty queue of a killed service may be left   *)
(* where nobody finds it: a worker's empty Pop can follow the killer's     *)
(* ForceInGlobal, which then saw the flag still up.)                       *)
(***************************************************************************)
Placed(s) == In(global, s) \/ \E w \in Thread : Holds(w, s) \/ fresh[w] = s

NoneStranded == \A s \in Queue : mq[s] # <<>> => Placed(s)

(***************************************************************************)
(* The inductive invariant behind these two.  m_bInGlobal is up exactly    *)
(* while the queue is placed and may come down only when it is empty; the  *)
(* local variables of a thread agree with where it is; and a service that  *)
(* was not launched yet is in nobody's hands.                              *)
(***************************************************************************)
FlagIsPlace ==
    \A s \in Queue :
        /\ inGlobal[s] <=> Placed(s)
        /\ ~inGlobal[s] => mq[s] = <<>>

\* Thread t is in a push that returns to one of the labels in set b.
Pushing(t, b) == pc[t] = "push" /\ back[t] \in b

LocalsOf(t) ==
    /\ cur[t] = None <=> pc[t] \in {"pop", "sleep", "idle"} \/ Pushing(t, {"idle"})
    /\ nq[t] = None <=> pc[t] # "requeue"
    /\ pc[t] = "init" \/ Pushing(t, {"init"}) => fresh[t] # None
    /\ fresh[t] # None =>
          \/ pc[t] \in {"init", "drop", "report", "delete", "remove", "force"}
          \/ Pushing(t, {"init", "drop", "remove"})
    /\ pc[t] \in {"drop", "report", "delete"} \/ Pushing(t, {"drop"}) =>
          vic[t] = IF fresh[t] = None THEN cur[t] ELSE fresh[t]
    /\ pc[t] \in {"remove", "force"} \/ Pushing(t, {"remove"}) => vic[t] \in 1 .. created
    /\ pc[t] = "push" => dest[t] \in 1 .. created

Locals == \A t \in Thread : LocalsOf(t)

Unborn ==
    /\ slot \cup freed \subseteq 1 .. created
    /\ \A s \in Service \ (1 .. created) :
          /\ inGlobal[s]
          /\ mq[s] = <<>>
          /\ ~Placed(s)

IndInv == TypeOK /\ Locals /\ Unborn /\ OnePlace /\ FlagIsPlace

(***************************************************************************)
(* The message a worker runs is older than every message still queued, and *)
(* the queue is in the order of the pushes: the batches of different       *)
(* workers never overtake each other on one service.                       *)
(***************************************************************************)
InOrder ==
    \A s \in Queue :
        /\ \A i \in 1 .. Len(mq[s]) : mq[s][i].seq = pushed[s] - Len(mq[s]) + i
        /\ \A w \in Worker :
              cur[w] = s /\ msg[w] # NoMsg => msg[w].seq = pushed[s] - Len(mq[s])

(***************************************************************************)
(* The context a lookup finds has a queue to push on.                      *)
(***************************************************************************)
RegisteredHasQueue == slot \cap freed = {}

(***************************************************************************)
(* A message in a queue is dispatched, or dropped with its queue.          *)
(***************************************************************************)
Queued(s, k) ==
    s \notin freed /\ \E i \in 1 .. Len(mq[s]) : mq[s][i].seq = k

EveryMessageServed ==
    \A s \in Service, k \in 1 .. MaxPush : Queued(s, k) ~> ~Queued(s, k)

(***************************************************************************)
(* The scheduler implements the actor model: whatever the threads do, each *)
(* service runs one message at a time, in the order of the pushes, and     *)
(* loses none while it is registered.                                      *)
(***************************************************************************)
RunsOn(w, s) == cur[w] = s /\ msg[w] # NoMsg

Running(s) ==
    IF \E w \in Worker : RunsOn(w, s)
      THEN msg[CHOOSE w \in Worker : RunsOn(w, s)].seq
      ELSE 0

A == INSTANCE Actor WITH
        alive   <- slot,
        posted  <- pushed,
        taken   <- [s \in Service |-> pushed[s] - Len(mq[s])],
        running <- [s \in Service |-> Running(s)]

ImplementsActor == A!ActorSpec
=============================================================================
