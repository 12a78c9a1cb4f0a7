-------------------------- MODULE SchedulerProofs --------------------------
(***************************************************************************)
(* Proofs about module Scheduler, for any number of workers, services and  *)
(* messages: its types, that a message queue is in one place only, and     *)
(* that no message is stranded.                                            *)
(*                                                                         *)
(* The argument is the flag m_bInGlobal: it is up exactly while the queue  *)
(* is placed somewhere, so whoever finds it down and raises it, under the  *)
(* queue's spinlock, is the only one to put the queue into the schedule.   *)
(***************************************************************************)
EXTENDS Scheduler, TLAPS

-----------------------------------------------------------------------------
(* The global queue as a sequence.                                         *)

\* What taking the first queue out leaves in the global queue.
LEMMA TailPlaces ==
    ASSUME NEW S, NEW q \in Seq(S), q # <<>>, NEW s
    PROVE  /\ Head(q) \in S
           /\ Tail(q) \in Seq(S)
           /\ In(q, Head(q))
           /\ In(Tail(q), s) => In(q, s)
           /\ Once(q, s) => /\ Once(Tail(q), s)
                            /\ In(Tail(q), s) <=> In(q, s) /\ s # Head(q)
PROOF
    <1>1. /\ Len(q) \in Nat \ {0}
          /\ Tail(q) \in Seq(S)
          /\ Len(Tail(q)) = Len(q) - 1
          /\ \A i \in 1 .. Len(q) - 1 : Tail(q)[i] = q[i + 1]
          /\ Head(q) = q[1]
          /\ Head(q) \in S
        OBVIOUS
    <1>2. Once(q, s) => Once(Tail(q), s)
        BY <1>1 DEF Once
    <1>3. In(Tail(q), s) => In(q, s) /\ (Once(q, s) => s # Head(q))
        BY <1>1 DEF In, Once
    <1>4. ASSUME In(q, s), s # Head(q)
          PROVE  In(Tail(q), s)
        <2>1. PICK i \in 1 .. Len(q) : q[i] = s
            BY <1>4 DEF In
        <2>2. i # 1
            BY <1>1, <1>4, <2>1
        <2>3. i - 1 \in 1 .. Len(q) - 1 /\ Tail(q)[i - 1] = s
            BY <1>1, <2>1, <2>2
        <2> QED
            BY <1>1, <2>3, Zenon DEF In
    <1>5. In(q, Head(q))
        BY <1>1 DEF In
    <1> QED
        BY <1>1, <1>2, <1>3, <1>4, <1>5

\* What putting queue e at the end does to the global queue.
LEMMA AppendPlaces ==
    ASSUME NEW S, NEW q \in Seq(S), NEW e \in S, NEW s
    PROVE  /\ Append(q, e) \in Seq(S)
           /\ In(Append(q, e), s) <=> In(q, s) \/ s = e
           /\ Once(q, s) /\ (s = e => ~In(q, s)) => Once(Append(q, e), s)
PROOF
    <1> DEFINE r == Append(q, e)
    <1>1. /\ Len(q) \in Nat
          /\ r \in Seq(S)
          /\ Len(r) = Len(q) + 1
          /\ \A i \in 1 .. Len(q) : r[i] = q[i]
          /\ r[Len(q) + 1] = e
        OBVIOUS
    <1> HIDE DEF r
    <1>2. In(r, s) <=> In(q, s) \/ s = e
        BY <1>1 DEF In
    <1>3. Once(q, s) /\ (s = e => ~In(q, s)) => Once(r, s)
        BY <1>1 DEF In, Once
    <1> QED
        BY <1>1, <1>2, <1>3 DEF r

-----------------------------------------------------------------------------
(* The initial state.                                                      *)

\* The state skynet_start hands to the threads satisfies the invariant.
LEMMA InitInd == Init => IndInv
PROOF
    <1> SUFFICES ASSUME Init PROVE IndInv
        OBVIOUS
    <1>1. TypeOK
        <2>1. NoMsg \in Message
            BY DEF NoMsg, Message
        <2>2. global \in Seq(Service)
            BY ConstantsAssumption DEF Init, Service
        <2> QED
            BY <2>1, <2>2, ConstantsAssumption
            DEF Init, TypeOK, Service, Thread, Label, None
    <1>2. Locals
        BY DEF Init, Locals, LocalsOf, Pushing, None
    <1>3. /\ Len(global) = Boot
          /\ \A i \in 1 .. Boot : global[i] = i
        BY ConstantsAssumption DEF Init
    <1>4. \A s : In(global, s) <=> s \in 1 .. Boot
        BY <1>3 DEF In
    <1>5. \A s : Once(global, s)
        BY <1>3 DEF Once
    <1>6. \A s \in Service, w \in Thread : ~Holds(w, s) /\ fresh[w] # s /\ cur[w] # s
        BY DEF Init, Holds, Service, None
    <1>7. \A s \in Service : Placed(s) <=> s \in 1 .. Boot
        BY <1>4, <1>6 DEF Placed
    <1> Queue \subseteq Service
        BY ConstantsAssumption DEF Init, Queue, Service
    <1>8. Unborn
        BY <1>7, ConstantsAssumption DEF Init, Unborn, Service
    <1>9. OnePlace
        BY <1>5, <1>6 DEF OnePlace, PlacedOnce
    <1>10. FlagIsPlace
        BY <1>7, ConstantsAssumption DEF Init, FlagIsPlace, Queue, Service
    <1> QED
        BY <1>1, <1>2, <1>8, <1>9, <1>10 DEF IndInv

-----------------------------------------------------------------------------
(* Steps that move no queue.                                               *)

\* A step that moves no queue from its place, raises no flag and adds no
\* message keeps every conjunct about the queues.
LEMMA Quiet ==
    ASSUME IndInv, NEW t \in Thread, NEW k, pc[t] # "check", k # "check",
           pc' = [pc EXCEPT ![t] = k],
           UNCHANGED <<created, freed, inGlobal, global, cur, nq, fresh>>,
           slot' \subseteq slot,
           \A s \in Service : mq[s] = <<>> => mq'[s] = <<>>
    PROVE  Unborn' /\ OnePlace' /\ FlagIsPlace'
PROOF
    <1>2. \A w \in Thread : pc'[w] = "check" <=> pc[w] = "check"
        BY DEF IndInv, TypeOK
    <1>3. \A w \in Thread : \A s : Holds(w, s)' <=> Holds(w, s)
        BY <1>2 DEF Holds
    <1>4. \A s : /\ In(global, s)' <=> In(global, s)
                 /\ Once(global, s)' <=> Once(global, s)
        BY DEF In, Once
    <1>5. \A s : Placed(s)' <=> Placed(s)
        BY <1>3, <1>4 DEF Placed
    <1>6. Queue' = Queue /\ Queue \subseteq Service
        BY ConstantsAssumption DEF Queue, Service, IndInv, TypeOK
    <1>7. Unborn'
        BY <1>5 DEF IndInv, Unborn
    <1>8. OnePlace'
        BY <1>3, <1>4, <1>6 DEF IndInv, OnePlace, PlacedOnce
    <1>9. FlagIsPlace'
        BY <1>5, <1>6 DEF IndInv, FlagIsPlace
    <1> QED
        BY <1>7, <1>8, <1>9

\* The local variables of the threads that did not move are as they were.
LEMMA LocalStep ==
    ASSUME IndInv, NEW t \in Thread, LocalsOf(t)',
           created' \in Nat, created <= created',
           \A u \in Thread \ {t} :
               /\ pc'[u] = pc[u] /\ cur'[u] = cur[u] /\ nq'[u] = nq[u]
               /\ fresh'[u] = fresh[u] /\ vic'[u] = vic[u]
               /\ dest'[u] = dest[u] /\ back'[u] = back[u]
    PROVE  Locals'
PROOF
    <1> SUFFICES ASSUME NEW u \in Thread, u # t PROVE LocalsOf(u)'
        BY DEF Locals
    <1>1. LocalsOf(u) /\ created \in Nat
        BY ConstantsAssumption DEF IndInv, Locals, TypeOK
    <1> QED
        BY <1>1 DEF LocalsOf, Pushing

\* The steps of a thread that move no queue keep the invariant.
LEMMA QuietSteps ==
    ASSUME IndInv, NEW t \in Thread,
           \/ PopGlobalEmpty(t) \/ Wake(t) \/ FindContext(t) \/ Length(t)
           \/ EndRun(t) \/ Keep(t) \/ DropEnd(t) \/ Report(t)
    PROVE  IndInv'
PROOF
    <1> USE ConstantsAssumption DEF IndInv
    <1>0. LocalsOf(t) /\ created \in Nat
        BY DEF Locals, TypeOK
    <1>1. CASE PopGlobalEmpty(t)
        <2>1. TypeOK'
            BY <1>0, <1>1, Zenon DEF PopGlobalEmpty, TypeOK, Label, Goto, shared, local, Service,
                NoMsg, Message, None
        <2>2. LocalsOf(t)'
            BY <1>0, <1>1
            DEF PopGlobalEmpty, LocalsOf, Pushing, Goto, shared, local, TypeOK, Service, None, Unborn
        <2>3. Locals'
            BY <1>0, <1>1, <2>2, LocalStep, SMTT(30) DEF PopGlobalEmpty, Goto, shared, local, TypeOK
        <2> QED
            BY <1>1, <2>1, <2>3, Quiet, Zenon DEF PopGlobalEmpty, Goto, shared, local
    <1>2. CASE Wake(t)
        <2>1. TypeOK'
            BY <1>0, <1>2, Zenon DEF Wake, TypeOK, Label, Goto, shared, local, Service,
                NoMsg, Message, None
        <2>2. LocalsOf(t)'
            BY <1>0, <1>2
            DEF Wake, LocalsOf, Pushing, Goto, shared, local, TypeOK, Service, None, Unborn
        <2>3. Locals'
            BY <1>0, <1>2, <2>2, LocalStep, SMTT(30) DEF Wake, Goto, shared, local, TypeOK
        <2> QED
            BY <1>2, <2>1, <2>3, Quiet, Zenon DEF Wake, Goto, shared, local
    <1>3. CASE FindContext(t)
        <2>1. TypeOK'
            BY <1>0, <1>3, ZenonT(40) DEF FindContext, TypeOK, Label, Goto, shared, local, Service,
                NoMsg, Message, None
        <2>2. LocalsOf(t)'
            <3>1. CASE cur[t] \in slot
                BY <1>0, <1>3, <3>1
                DEF FindContext, LocalsOf, Pushing, Goto, shared, TypeOK, None
            <3>2. CASE cur[t] \notin slot
                BY <1>0, <1>3, <3>2
                DEF FindContext, LocalsOf, Pushing, Goto, shared, TypeOK, None
            <3> QED
                BY <3>1, <3>2
        <2>3. Locals'
            BY <1>0, <1>3, <2>2, LocalStep DEF FindContext, Goto, shared, local, TypeOK
        <2> QED
            BY <1>3, <2>1, <2>3, Quiet, Zenon DEF FindContext, Goto, shared, local
    <1>4. CASE Length(t)
        <2>1. TypeOK'
            <3> DEFINE n == Len(mq[cur[t]]) \div Pow2(Weight[t])
            <3>1. cur[t] \in Service
                BY <1>0, <1>4 DEF Length, LocalsOf, Pushing, TypeOK, None
            <3>2. Len(mq[cur[t]]) \in Nat /\ Pow2(Weight[t]) \in {1, 2, 4, 8}
                BY <3>1 DEF Pow2, TypeOK
            <3>3. n \in Nat
                BY <3>2
            <3>4. left' \in [Thread -> Nat]
                BY <1>4, <3>3 DEF Length, TypeOK
            <3> QED
                BY <1>4, <3>4 DEF Length, TypeOK, Label, Goto, shared
        <2>2. LocalsOf(t)'
            BY <1>0, <1>4
            DEF Length, LocalsOf, Pushing, Goto, shared, local, TypeOK, Service, None, Unborn
        <2>3. Locals'
            BY <1>0, <1>4, <2>2, LocalStep DEF Length, Goto, shared, local, TypeOK
        <2> QED
            BY <1>4, <2>1, <2>3, Quiet, Zenon DEF Length, Goto, shared, local
    <1>5. CASE EndRun(t)
        <2>1. TypeOK'
            <3>1. msg' \in [Thread -> Message]
                BY <1>5 DEF EndRun, TypeOK, NoMsg, Message, None
            <3>2. left' \in [Thread -> Nat]
                <4>1. left[t] # 0 => left[t] - 1 \in Nat
                    BY DEF TypeOK
                <4>2. left' = left \/ (left[t] # 0 /\ left' = [left EXCEPT ![t] = left[t] - 1])
                    BY <1>5 DEF EndRun
                <4> QED
                    BY <4>1, <4>2, SMTT(30) DEF TypeOK
            <3> QED
                BY <1>5, <3>1, <3>2, ZenonT(40) DEF EndRun, TypeOK, Label, Goto, shared
        <2>2. LocalsOf(t)'
            <3>1. CASE left[t] = 0
                BY <1>0, <1>5, <3>1 DEF EndRun, LocalsOf, Pushing, Goto, shared, TypeOK
            <3>2. CASE left[t] # 0
                BY <1>0, <1>5, <3>2 DEF EndRun, LocalsOf, Pushing, Goto, shared, TypeOK
            <3> QED
                BY <3>1, <3>2
        <2>3. Locals'
            BY <1>0, <1>5, <2>2, LocalStep DEF EndRun, Goto, shared, local, TypeOK
        <2> QED
            BY <1>5, <2>1, <2>3, Quiet, Zenon DEF EndRun, Goto, shared, local
    <1>6. CASE Keep(t)
        <2>1. TypeOK'
            BY <1>0, <1>6, Zenon DEF Keep, TypeOK, Label, Goto, shared, local, Service,
                NoMsg, Message, None
        <2>2. LocalsOf(t)'
            BY <1>0, <1>6
            DEF Keep, LocalsOf, Pushing, Goto, shared, local, TypeOK, Service, None, Unborn
        <2>3. Locals'
            BY <1>0, <1>6, <2>2, LocalStep DEF Keep, Goto, shared, local, TypeOK
        <2> QED
            BY <1>6, <2>1, <2>3, Quiet, Zenon DEF Keep, Goto, shared, local
    <1>7. CASE DropEnd(t)
        <2>1. TypeOK'
            BY <1>0, <1>7, Zenon DEF DropEnd, TypeOK, Label, Goto, shared, local, Service,
                NoMsg, Message, None
        <2>2. LocalsOf(t)'
            BY <1>0, <1>7
            DEF DropEnd, LocalsOf, Pushing, Goto, shared, local, TypeOK, Service, None, Unborn
        <2>3. Locals'
            BY <1>0, <1>7, <2>2, LocalStep DEF DropEnd, Goto, shared, local, TypeOK
        <2> QED
            BY <1>7, <2>1, <2>3, Quiet, Zenon DEF DropEnd, Goto, shared, local
    <1>8. CASE Report(t)
        <2>1. TypeOK'
            BY <1>0, <1>8, ZenonT(40) DEF Report, TypeOK, Label, Goto, shared, local, Service,
                NoMsg, Message, None
        <2>2. LocalsOf(t)'
            <3>1. CASE dest[t] \in slot
                BY <1>0, <1>8, <3>1
                DEF Report, LocalsOf, Pushing, Goto, shared, TypeOK, None, Unborn
            <3>2. CASE dest[t] \notin slot
                BY <1>0, <1>8, <3>2
                DEF Report, LocalsOf, Pushing, Goto, shared, TypeOK, None
            <3> QED
                BY <3>1, <3>2
        <2>3. Locals'
            BY <1>0, <1>8, <2>2, LocalStep DEF Report, Goto, shared, local, TypeOK
        <2> QED
            BY <1>8, <2>1, <2>3, Quiet, Zenon DEF Report, Goto, shared, local
    <1> QED
        BY <1>1, <1>2, <1>3, <1>4, <1>5, <1>6, <1>7, <1>8

\* Taking a message out of a queue, to run it or to drop it, keeps the
\* invariant.
LEMMA TakeSteps ==
    ASSUME IndInv, NEW t \in Thread, PopMessage(t) \/ Drop(t)
    PROVE  IndInv'
PROOF
    <1> USE ConstantsAssumption DEF IndInv
    <1>0. LocalsOf(t) /\ created \in Nat
        BY DEF Locals, TypeOK
    <1>1. CASE PopMessage(t)
        <2>1. cur[t] \in Service
            BY <1>0, <1>1 DEF PopMessage, LocalsOf, Pushing, TypeOK, None
        <2>2. /\ Head(mq[cur[t]]) \in Message
              /\ Tail(mq[cur[t]]) \in Seq(Message)
            BY <1>1, <2>1 DEF PopMessage, TypeOK
        <2>3. TypeOK'
            BY <1>1, <2>1, <2>2, SMTT(30) DEF PopMessage, TypeOK, Label, Goto
        <2>4. LocalsOf(t)'
            BY <1>0, <1>1, SMTT(30) DEF PopMessage, LocalsOf, Pushing, Goto, TypeOK
        <2>5. Locals'
            BY <1>0, <1>1, <2>4, LocalStep DEF PopMessage, Goto, TypeOK
        <2>6. \A s \in Service : mq[s] = <<>> => mq'[s] = <<>>
            BY <1>1 DEF PopMessage, TypeOK
        <2> QED
            BY <1>1, <2>3, <2>5, <2>6, Quiet, Zenon DEF PopMessage, Goto
    <1>2. CASE Drop(t)
        <2>1. vic[t] \in Service
            BY <1>0, <1>2 DEF Drop, LocalsOf, Pushing, TypeOK, None
        <2>2. /\ Head(mq[vic[t]]) \in Message
              /\ Tail(mq[vic[t]]) \in Seq(Message)
            BY <1>2, <2>1 DEF Drop, TypeOK
        <2>3. Head(mq[vic[t]]).source \in Service \cup {None}
            BY <2>2 DEF Message
        <2>4. TypeOK'
            BY <1>2, <2>1, <2>2, <2>3, SMTT(30) DEF Drop, TypeOK, Label, Goto
        <2>5. LocalsOf(t)'
            BY <1>0, <1>2 DEF Drop, LocalsOf, Pushing, Goto, TypeOK
        <2>6. Locals'
            BY <1>0, <1>2, <2>5, LocalStep DEF Drop, Goto, TypeOK
        <2>7. \A s \in Service : mq[s] = <<>> => mq'[s] = <<>>
            BY <1>2 DEF Drop, TypeOK
        <2> QED
            BY <1>2, <2>4, <2>6, <2>7, Quiet, Zenon DEF Drop, Goto
    <1> QED
        BY <1>1, <1>2

\* The calls of a callback that touch the handle table or only look at it
\* keep the invariant.
LEMMA CallSteps ==
    ASSUME IndInv, NEW t \in Thread,
           Remove(t) \/ InitFail(t) \/ \E d \in Service : Send(t, d) \/ Kill(t, d)
    PROVE  IndInv'
PROOF
    <1> USE ConstantsAssumption DEF IndInv
    <1>0. LocalsOf(t) /\ created \in Nat /\ slot \subseteq 1 .. created
        BY SMTT(30) DEF Locals, TypeOK, Unborn
    <1>1. ASSUME NEW d \in Service, Send(t, d) PROVE IndInv'
        <2>1. TypeOK'
            BY <1>1 DEF Send, TypeOK, Label, Goto, shared
        <2>2. LocalsOf(t)'
            BY <1>0, <1>1 DEF Send, LocalsOf, Pushing, Goto, shared, TypeOK
        <2>3. Locals'
            BY <1>0, <1>1, <2>2, LocalStep, SMTT(30) DEF Send, Goto, shared, TypeOK
        <2> QED
            BY <1>1, <2>1, <2>3, Quiet, Zenon DEF Send, Goto, shared
    <1>2. ASSUME NEW d \in Service, Kill(t, d) PROVE IndInv'
        <2>1. TypeOK'
            <3>1. vic' \in [Thread -> Service \cup {None}]
                BY <1>2 DEF Kill, TypeOK
            <3>2. dest' \in [Thread -> Service \cup {None}]
                BY <1>2, ZenonT(40) DEF Kill, TypeOK
            <3>3. back' \in [Thread -> {"idle", "run", "init", "drop", "remove"}]
                BY <1>2, ZenonT(40) DEF Kill, TypeOK
            <3>4. pc' \in [Thread -> Label]
                <4>1. \E k \in {"push", "remove"} : pc' = [pc EXCEPT ![t] = k]
                    BY <1>2 DEF Kill, Goto
                <4> QED
                    BY <4>1 DEF TypeOK, Label
            <3> QED
                BY <1>2, <3>1, <3>2, <3>3, <3>4 DEF Kill, TypeOK, shared
        <2>2. LocalsOf(t)'
            <3>1. CASE MonitorExit \in slot
                BY <1>0, <1>2, <3>1 DEF Kill, LocalsOf, Pushing, Goto, shared, TypeOK
            <3>2. CASE MonitorExit \notin slot
                BY <1>0, <1>2, <3>2 DEF Kill, LocalsOf, Pushing, Goto, shared, TypeOK
            <3> QED
                BY <3>1, <3>2
        <2>3. Locals'
            BY <1>0, <1>2, <2>2, LocalStep DEF Kill, Goto, shared, TypeOK
        <2> QED
            BY <1>2, <2>1, <2>3, Quiet, Zenon DEF Kill, Goto, shared
    <1>3. CASE Remove(t)
        <2>1. TypeOK'
            BY <1>3, ZenonT(40) DEF Remove, TypeOK, Label, Goto, Home
        <2>2. LocalsOf(t)'
            <3>1. CASE Removes(vic[t])
                BY <1>0, <1>3, <3>1 DEF Remove, LocalsOf, Pushing, Goto, TypeOK
            <3>2. CASE ~Removes(vic[t])
                BY <1>0, <1>3, <3>2 DEF Remove, LocalsOf, Pushing, Goto, Home, TypeOK
            <3> QED
                BY <3>1, <3>2
        <2>3. Locals'
            BY <1>0, <1>3, <2>2, LocalStep, SMTT(30) DEF Remove, Goto, TypeOK
        <2> QED
            BY <1>3, <2>1, <2>3, Quiet, Zenon DEF Remove, Goto, Home
    <1>4. CASE InitFail(t)
        <2>1. TypeOK'
            BY <1>4 DEF InitFail, TypeOK, Label, Goto
        <2>2. LocalsOf(t)'
            BY <1>0, <1>4, SMTT(30) DEF InitFail, LocalsOf, Pushing, Goto, TypeOK
        <2>3. Locals'
            BY <1>0, <1>4, <2>2, LocalStep, SMTT(30) DEF InitFail, Goto, TypeOK
        <2> QED
            BY <1>4, <2>1, <2>3, Quiet, Zenon DEF InitFail, Goto
    <1> QED
        BY <1>1, <1>2, <1>3, <1>4

-----------------------------------------------------------------------------
(* Steps that move a queue, one service at a time.                         *)

\* What the invariant says of service s and its queue.
Good(s) ==
    /\ s \in Queue => /\ PlacedOnce(s)
                      /\ inGlobal[s] <=> Placed(s)
                      /\ ~inGlobal[s] => mq[s] = <<>>
    /\ s \notin 1 .. created => inGlobal[s] /\ mq[s] = <<>> /\ ~Placed(s)

\* The invariant, service by service.
LEMMA GoodInd ==
    ASSUME IndInv PROVE \A s \in Service : Good(s)
PROOF
    BY DEF IndInv, OnePlace, FlagIsPlace, Unborn, Good

\* What the proof of a step of thread t starts from.
LEMMA Before ==
    ASSUME IndInv, NEW t \in Thread
    PROVE  /\ TypeOK /\ LocalsOf(t) /\ created \in Nat
           /\ \A s \in Service : Good(s)
           /\ slot \cup freed \subseteq 1 .. created
PROOF
    <1>1. TypeOK /\ LocalsOf(t) /\ slot \cup freed \subseteq 1 .. created
        BY DEF IndInv, Locals, Unborn
    <1>2. created \in Nat
        BY <1>1, ConstantsAssumption DEF TypeOK
    <1> QED
        BY <1>1, <1>2, GoodInd

\* The invariant back from its services.
LEMMA IndGood ==
    ASSUME TypeOK', Locals', (slot \cup freed \subseteq 1 .. created)',
           \A s \in Service : Good(s)'
    PROVE  IndInv'
PROOF
    <1>1. Queue' \subseteq Service
        BY ConstantsAssumption DEF Queue, Service, TypeOK
    <1>2. OnePlace'
        BY <1>1 DEF OnePlace, Good
    <1>3. FlagIsPlace'
        BY <1>1 DEF FlagIsPlace, Good
    <1>4. Unborn'
        BY DEF Unborn, Good
    <1> QED
        BY <1>2, <1>3, <1>4 DEF IndInv

-----------------------------------------------------------------------------
(* The dispatch loop: the steps that move a queue between the global queue *)
(* and the hands of a worker.                                              *)

\* Taking a queue from the global queue keeps the invariant.
LEMMA PopGlobalInd ==
    ASSUME IndInv, NEW t \in Thread, PopGlobal(t)
    PROVE  IndInv'
PROOF
    <1> DEFINE q == Head(global)
    <1>0. /\ TypeOK /\ LocalsOf(t) /\ created \in Nat
          /\ \A s \in Service : Good(s)
          /\ slot \cup freed \subseteq 1 .. created
        BY Before
    <1>1. /\ q \in Service
          /\ Tail(global) \in Seq(Service)
          /\ \A s : /\ In(Tail(global), s) => In(global, s)
                    /\ Once(global, s) =>
                         /\ Once(Tail(global), s)
                         /\ In(Tail(global), s) <=> In(global, s) /\ s # q
          /\ In(global, q)
        BY <1>0, TailPlaces DEF PopGlobal, TypeOK
    <1>2. TypeOK'
        BY <1>0, <1>1 DEF PopGlobal, TypeOK, Label, Goto
    <1>3. LocalsOf(t)'
        BY <1>0, <1>1 DEF PopGlobal, LocalsOf, Pushing, Goto, TypeOK, Service, None
    <1>4. Locals'
        <2>1. created' \in Nat /\ created <= created'
            <3>1. created' = created
                BY DEF PopGlobal
            <3> QED
                BY <1>0, <3>1
        <2>2. \A u \in Thread \ {t} :
                 /\ pc'[u] = pc[u] /\ cur'[u] = cur[u] /\ nq'[u] = nq[u]
                 /\ fresh'[u] = fresh[u] /\ vic'[u] = vic[u]
                 /\ dest'[u] = dest[u] /\ back'[u] = back[u]
            BY <1>0 DEF PopGlobal, Goto, TypeOK
        <2> QED
            BY <1>3, <2>1, <2>2, LocalStep
    <1>5. ASSUME NEW s \in Service PROVE Good(s)'
        <2>1. Good(s) /\ s # None
            BY <1>0 DEF Service, None
        <2>2. cur[t] = None /\ nq[t] = None /\ pc[t] # "check"
            BY <1>0 DEF PopGlobal, LocalsOf
        <2>3. ~Holds(t, s) /\ (Holds(t, s)' <=> s = q)
            BY <1>0, <2>1, <2>2 DEF PopGlobal, Holds, Goto, TypeOK
        <2>4. \A w \in Thread \ {t} : Holds(w, s)' <=> Holds(w, s)
            BY <1>0 DEF PopGlobal, Holds, Goto, TypeOK
        <2>5. /\ In(global, s)' <=> In(Tail(global), s)
              /\ Once(global, s)' <=> Once(Tail(global), s)
            BY DEF PopGlobal, In, Once
        <2>6. \A w \in Thread : ~(cur[w] = s /\ nq[w] = s) => ~(cur[w] = s /\ nq[w] = s)'
            BY <1>0, <2>1, <2>2 DEF PopGlobal, TypeOK
        <2>7. Placed(s) /\ Once(global, s) => Placed(s)'
            BY <1>1, <2>3, <2>4, <2>5 DEF Placed, PopGlobal
        <2>8. Placed(s)' => Placed(s)
            BY <1>1, <2>3, <2>4, <2>5 DEF Placed, PopGlobal
        <2>9. PlacedOnce(s) => PlacedOnce(s)'
            BY <1>1, <2>3, <2>4, <2>5, <2>6 DEF PlacedOnce, PopGlobal
        <2> QED
            BY <2>1, <2>7, <2>8, <2>9 DEF Good, PlacedOnce, Queue, PopGlobal
    <1> QED
        BY <1>0, <1>2, <1>4, <1>5, IndGood DEF PopGlobal

\* The empty Pop takes the queue out of the schedule: the flag comes down as
\* the worker lets the queue go.
LEMMA PopEmptyInd ==
    ASSUME IndInv, NEW t \in Thread, PopEmpty(t)
    PROVE  IndInv'
PROOF
    <1>0. /\ TypeOK /\ LocalsOf(t) /\ created \in Nat
          /\ \A s \in Service : Good(s)
          /\ slot \cup freed \subseteq 1 .. created
        BY Before
    <1>1. cur[t] \in Service /\ nq[t] = None /\ fresh[t] = None
        BY <1>0 DEF PopEmpty, LocalsOf, Pushing, TypeOK, None
    <1>2. TypeOK'
        BY <1>0, <1>1 DEF PopEmpty, TypeOK, Label, Goto
    <1>3. LocalsOf(t)'
        BY <1>0 DEF PopEmpty, LocalsOf, Pushing, Goto, TypeOK
    <1>4. Locals'
        <2>1. created' \in Nat /\ created <= created'
            <3>1. created' = created
                BY DEF PopEmpty
            <3> QED
                BY <1>0, <3>1
        <2>2. \A u \in Thread \ {t} :
                 /\ pc'[u] = pc[u] /\ cur'[u] = cur[u] /\ nq'[u] = nq[u]
                 /\ fresh'[u] = fresh[u] /\ vic'[u] = vic[u]
                 /\ dest'[u] = dest[u] /\ back'[u] = back[u]
            BY <1>0 DEF PopEmpty, Goto, TypeOK
        <2> QED
            BY <1>3, <2>1, <2>2, LocalStep
    <1>5. ASSUME NEW s \in Service PROVE Good(s)'
        <2>1. Good(s) /\ s # None
            BY <1>0 DEF Service, None
        <2>2. ~Holds(t, s)' /\ (Holds(t, s) <=> s = cur[t])
            BY <1>0, <1>1, <2>1 DEF PopEmpty, Holds, Goto, TypeOK
        <2>3. \A w \in Thread \ {t} : Holds(w, s)' <=> Holds(w, s)
            BY <1>0 DEF PopEmpty, Holds, Goto, TypeOK
        <2>4. /\ In(global, s)' <=> In(global, s)
              /\ Once(global, s)' <=> Once(global, s)
            BY DEF PopEmpty, In, Once
        <2>5. s # cur[t] => (Placed(s)' <=> Placed(s)) /\ inGlobal'[s] = inGlobal[s]
            BY <1>0, <2>2, <2>3, <2>4 DEF Placed, PopEmpty, TypeOK
        <2>6. s = cur[t] =>
                /\ Placed(s)
                /\ ~inGlobal'[s] /\ mq'[s] = <<>>
                /\ PlacedOnce(s) => ~Placed(s)'
            BY <1>0, <1>1, <2>2, <2>3, <2>4, Zenon DEF Placed, PlacedOnce, PopEmpty, TypeOK
        <2>7. PlacedOnce(s) => PlacedOnce(s)'
            BY <2>2, <2>3, <2>4 DEF PlacedOnce, PopEmpty
        <2> QED
            BY <2>1, <2>5, <2>6, <2>7, Zenon DEF Good, Queue, PopEmpty
    <1> QED
        BY <1>0, <1>2, <1>4, <1>5, IndGood DEF PopEmpty

\* The read of the flag after it moves nothing.
LEMMA CheckInd ==
    ASSUME IndInv, NEW t \in Thread, Check(t)
    PROVE  IndInv'
PROOF
    <1>0. /\ TypeOK /\ LocalsOf(t) /\ created \in Nat
          /\ \A s \in Service : Good(s)
          /\ slot \cup freed \subseteq 1 .. created
        BY Before
    <1>2. TypeOK'
        BY <1>0 DEF Check, TypeOK, Label, Goto, shared
    <1>3. LocalsOf(t)'
        BY <1>0 DEF Check, LocalsOf, Pushing, Goto, TypeOK, shared
    <1>4. Locals'
        <2>1. created' \in Nat /\ created <= created'
            <3>1. created' = created
                BY DEF Check, shared
            <3> QED
                BY <1>0, <3>1
        <2>2. \A u \in Thread \ {t} :
                 /\ pc'[u] = pc[u] /\ cur'[u] = cur[u] /\ nq'[u] = nq[u]
                 /\ fresh'[u] = fresh[u] /\ vic'[u] = vic[u]
                 /\ dest'[u] = dest[u] /\ back'[u] = back[u]
            BY <1>0 DEF Check, Goto, TypeOK, shared
        <2> QED
            BY <1>3, <2>1, <2>2, LocalStep
    <1>5. ASSUME NEW s \in Service PROVE Good(s)'
        <2>1. Good(s) /\ s # None
            BY <1>0 DEF Service, None
        <2>2. nq[t] = None
            BY <1>0 DEF Check, LocalsOf
        <2>3. \A w \in Thread : Holds(w, s)' <=> Holds(w, s)
            BY <1>0, <2>1, <2>2 DEF Check, Holds, Goto, TypeOK
        <2>4. /\ In(global, s)' <=> In(global, s)
              /\ Once(global, s)' <=> Once(global, s)
            BY DEF Check, In, Once, shared
        <2>5. Placed(s)' <=> Placed(s)
            BY <2>3, <2>4 DEF Placed, Check
        <2>6. \A w \in Thread : ~(cur[w] = s /\ nq[w] = s) => ~(cur[w] = s /\ nq[w] = s)'
            BY <1>0, <2>1, <2>2 DEF Check, TypeOK
        <2>7. PlacedOnce(s) => PlacedOnce(s)'
            BY <2>3, <2>4, <2>6 DEF PlacedOnce, Check
        <2> QED
            BY <2>1, <2>5, <2>7 DEF Good, Queue, Check, shared
    <1> QED
        BY <1>0, <1>2, <1>4, <1>5, IndGood DEF Check, shared

\* Taking the next queue while the current one is still in hand.
LEMMA PopNextInd ==
    ASSUME IndInv, NEW t \in Thread, PopNext(t)
    PROVE  IndInv'
PROOF
    <1> DEFINE q == Head(global)
    <1>0. /\ TypeOK /\ LocalsOf(t) /\ created \in Nat
          /\ \A s \in Service : Good(s)
          /\ slot \cup freed \subseteq 1 .. created
        BY Before
    <1>1. /\ q \in Service
          /\ Tail(global) \in Seq(Service)
          /\ \A s : /\ In(Tail(global), s) => In(global, s)
                    /\ Once(global, s) =>
                         /\ Once(Tail(global), s)
                         /\ In(Tail(global), s) <=> In(global, s) /\ s # q
          /\ In(global, q)
        BY <1>0, TailPlaces DEF PopNext, TypeOK
    <1>2. TypeOK'
        BY <1>0, <1>1, SMTT(30) DEF PopNext, TypeOK, Label, Goto
    <1>3. LocalsOf(t)'
        BY <1>0, <1>1 DEF PopNext, LocalsOf, Pushing, Goto, TypeOK, Service, None
    <1>4. Locals'
        <2>1. created' \in Nat /\ created <= created'
            <3>1. created' = created
                BY DEF PopNext
            <3> QED
                BY <1>0, <3>1
        <2>2. \A u \in Thread \ {t} :
                 /\ pc'[u] = pc[u] /\ cur'[u] = cur[u] /\ nq'[u] = nq[u]
                 /\ fresh'[u] = fresh[u] /\ vic'[u] = vic[u]
                 /\ dest'[u] = dest[u] /\ back'[u] = back[u]
            BY <1>0 DEF PopNext, Goto, TypeOK
        <2> QED
            BY <1>3, <2>1, <2>2, LocalStep
    <1>5. ASSUME NEW s \in Service PROVE Good(s)'
        <2>1. Good(s) /\ s # None
            BY <1>0 DEF Service, None
        <2>2. nq[t] = None /\ pc[t] = "back"
            BY <1>0 DEF PopNext, LocalsOf
        <2>3. Holds(t, s)' <=> Holds(t, s) \/ s = q
            BY <1>0, <2>1, <2>2 DEF PopNext, Holds, Goto, TypeOK
        <2>4. \A w \in Thread \ {t} : Holds(w, s)' <=> Holds(w, s)
            BY <1>0 DEF PopNext, Holds, Goto, TypeOK
        <2>5. /\ In(global, s)' <=> In(Tail(global), s)
              /\ Once(global, s)' <=> Once(Tail(global), s)
            BY DEF PopNext, In, Once
        <2>6. PlacedOnce(s) => \A w \in Thread : ~(cur[w] = s /\ nq[w] = s)'
            BY <1>0, <1>1, <2>1, <2>2 DEF PopNext, TypeOK, PlacedOnce, Holds
        <2>7. Placed(s) /\ Once(global, s) => Placed(s)'
            BY <1>1, <2>3, <2>4, <2>5 DEF Placed, PopNext
        <2>8. Placed(s)' => Placed(s)
            BY <1>1, <2>3, <2>4, <2>5 DEF Placed, PopNext
        <2>9. PlacedOnce(s) => PlacedOnce(s)'
            BY <1>1, <2>3, <2>4, <2>5, <2>6 DEF PlacedOnce, PopNext
        <2> QED
            BY <2>1, <2>7, <2>8, <2>9 DEF Good, PlacedOnce, Queue, PopNext
    <1> QED
        BY <1>0, <1>2, <1>4, <1>5, IndGood DEF PopNext

\* Putting the current queue back and going on with the next one.
LEMMA RequeueInd ==
    ASSUME IndInv, NEW t \in Thread, Requeue(t)
    PROVE  IndInv'
PROOF
    <1>0. /\ TypeOK /\ LocalsOf(t) /\ created \in Nat
          /\ \A s \in Service : Good(s)
          /\ slot \cup freed \subseteq 1 .. created
        BY Before
    <1>1. cur[t] \in Service /\ nq[t] \in Service
        BY <1>0 DEF Requeue, LocalsOf, Pushing, TypeOK, None
    <1> DEFINE g == Append(global, cur[t])
    <1>2. /\ g \in Seq(Service)
          /\ \A s : /\ In(g, s) <=> In(global, s) \/ s = cur[t]
                    /\ Once(global, s) /\ (s = cur[t] => ~In(global, s)) => Once(g, s)
        BY <1>0, <1>1, AppendPlaces DEF TypeOK
    <1> HIDE DEF g
    <1>3. TypeOK'
        BY <1>0, <1>1, <1>2 DEF Requeue, TypeOK, Label, Goto, g
    <1>4. LocalsOf(t)'
        BY <1>0, <1>1 DEF Requeue, LocalsOf, Pushing, Goto, TypeOK, Service, None
    <1>5. Locals'
        <2>1. created' \in Nat /\ created <= created'
            <3>1. created' = created
                BY DEF Requeue
            <3> QED
                BY <1>0, <3>1
        <2>2. \A u \in Thread \ {t} :
                 /\ pc'[u] = pc[u] /\ cur'[u] = cur[u] /\ nq'[u] = nq[u]
                 /\ fresh'[u] = fresh[u] /\ vic'[u] = vic[u]
                 /\ dest'[u] = dest[u] /\ back'[u] = back[u]
            BY <1>0 DEF Requeue, Goto, TypeOK
        <2> QED
            BY <1>4, <2>1, <2>2, LocalStep
    <1>6. ASSUME NEW s \in Service PROVE Good(s)'
        <2>1. Good(s) /\ s # None
            BY <1>0 DEF Service, None
        <2>3. /\ Holds(t, s) <=> s = cur[t] \/ s = nq[t]
              /\ Holds(t, s)' <=> s = nq[t]
            BY <1>0, <1>1, <2>1 DEF Requeue, Holds, Goto, TypeOK
        <2>4. \A w \in Thread \ {t} : Holds(w, s)' <=> Holds(w, s)
            BY <1>0 DEF Requeue, Holds, Goto, TypeOK
        <2>5. /\ In(global, s)' <=> In(g, s)
              /\ Once(global, s)' <=> Once(g, s)
            BY DEF Requeue, In, Once, g
        <2>6. \A w \in Thread : ~(cur[w] = s /\ nq[w] = s) => ~(cur[w] = s /\ nq[w] = s)'
            BY <1>0, <2>1 DEF Requeue, TypeOK
        <2>7. Placed(s)' <=> Placed(s)
            BY <1>2, <2>3, <2>4, <2>5 DEF Placed, Requeue
        <2>8. PlacedOnce(s) => PlacedOnce(s)'
            BY <1>2, <2>3, <2>4, <2>5, <2>6 DEF PlacedOnce, Requeue
        <2> QED
            BY <2>1, <2>7, <2>8 DEF Good, Queue, Requeue
    <1> QED
        BY <1>0, <1>3, <1>5, <1>6, IndGood DEF Requeue

-----------------------------------------------------------------------------
(* Steps that put a queue into the schedule, make one or delete one.       *)

\* Entering the schedule under the spinlock, as Push and ForceInGlobal do:
\* the flag tells whether the queue is placed already.
LEMMA Enter ==
    ASSUME IndInv, NEW t \in Thread, NEW k, NEW d \in 1 .. created,
           EnterGlobal(d), pc[t] # "check", k # "check",
           pc' = [pc EXCEPT ![t] = k],
           UNCHANGED <<created, freed, cur, nq, fresh>>,
           \A s \in Service \ {d} : mq'[s] = mq[s]
    PROVE  /\ global' \in Seq(Service)
           /\ inGlobal' \in [Service -> BOOLEAN]
           /\ \A s \in Service : Good(s)'
PROOF
    <1>0. /\ TypeOK /\ LocalsOf(t) /\ created \in Nat
          /\ \A s \in Service : Good(s)
          /\ slot \cup freed \subseteq 1 .. created
        BY Before
    <1>1. d \in Service
        BY <1>0, ConstantsAssumption DEF TypeOK, Service
    <1> DEFINE g == Append(global, d)
    <1>2. /\ g \in Seq(Service)
          /\ \A s : /\ In(g, s) <=> In(global, s) \/ s = d
                    /\ Once(global, s) /\ (s = d => ~In(global, s)) => Once(g, s)
        BY <1>0, <1>1, AppendPlaces DEF TypeOK
    <1>3. /\ inGlobal' = [inGlobal EXCEPT ![d] = TRUE]
          /\ global' = global \/ global' = g
          /\ d \notin freed => global' = IF inGlobal[d] THEN global ELSE g
        BY <1>0, <1>1 DEF EnterGlobal, FlagOf, TypeOK
    <1> HIDE DEF g
    <1>4. global' \in Seq(Service) /\ inGlobal' \in [Service -> BOOLEAN]
        BY <1>0, <1>2, <1>3, Zenon DEF TypeOK
    <1>5. ASSUME NEW s \in Service PROVE Good(s)'
        <2>1. Good(s)
            BY <1>0
        <2>2. \A w \in Thread : Holds(w, s)' <=> Holds(w, s)
            BY <1>0 DEF Holds, TypeOK
        <2>3. /\ global' = global => /\ In(global, s)' <=> In(global, s)
                                     /\ Once(global, s)' <=> Once(global, s)
              /\ global' = g => /\ In(global, s)' <=> In(g, s)
                                /\ Once(global, s)' <=> Once(g, s)
            BY DEF In, Once
        <2>4. CASE s # d
            <3>1. /\ In(global, s)' <=> In(global, s)
                  /\ Once(global, s) => Once(global, s)'
                BY <1>2, <1>3, <2>3, <2>4
            <3>2. Placed(s)' <=> Placed(s)
                BY <2>2, <3>1 DEF Placed
            <3>3. PlacedOnce(s) => PlacedOnce(s)'
                BY <2>2, <3>1 DEF PlacedOnce
            <3>4. inGlobal'[s] = inGlobal[s] /\ mq'[s] = mq[s]
                BY <1>0, <1>3, <2>4 DEF TypeOK
            <3> QED
                BY <2>1, <3>2, <3>3, <3>4 DEF Good, Queue
        <2>5. CASE s = d /\ s \notin freed
            <3>1. inGlobal'[s]
                BY <1>0, <1>3, <2>5 DEF TypeOK
            <3>2. s \in Queue /\ s \in Queue'
                BY <2>5 DEF Queue
            <3>3. PlacedOnce(s) /\ (inGlobal[s] <=> Placed(s))
                BY <2>1, <3>2 DEF Good
            <3>4. CASE inGlobal[s]
                <4>1. global' = global
                    BY <1>3, <2>5, <3>4
                <4>2. PlacedOnce(s)' /\ Placed(s)'
                    BY <2>2, <2>3, <3>3, <3>4, <4>1 DEF PlacedOnce, Placed
                <4> QED
                    BY <2>5, <3>1, <4>2 DEF Good
            <3>5. CASE ~inGlobal[s]
                <4>1. global' = g
                    BY <1>3, <2>5, <3>5
                <4>2. ~Placed(s)
                    BY <3>3, <3>5
                <4>3. In(global, s)' /\ Once(global, s)'
                    BY <1>2, <2>3, <2>5, <3>3, <4>1, <4>2 DEF PlacedOnce, Placed
                <4>4. \A w \in Thread : ~Holds(w, s)' /\ fresh'[w] # s
                    BY <2>2, <4>2 DEF Placed
                <4>5. PlacedOnce(s)' /\ Placed(s)'
                    BY <2>2, <3>3, <4>3, <4>4 DEF PlacedOnce, Placed
                <4> QED
                    BY <2>5, <3>1, <4>5 DEF Good
            <3> QED
                BY <3>4, <3>5
        <2>6. CASE s = d /\ s \in freed
            BY <2>6 DEF Good, Queue
        <2> QED
            BY <2>4, <2>5, <2>6
    <1> QED
        BY <1>4, <1>5

\* SNMessageQueue::Push keeps the invariant.
LEMMA PushInd ==
    ASSUME IndInv, NEW t \in Thread, Push(t)
    PROVE  IndInv'
PROOF
    <1>0. /\ TypeOK /\ LocalsOf(t) /\ created \in Nat
          /\ \A s \in Service : Good(s)
          /\ slot \cup freed \subseteq 1 .. created
        BY Before
    <1> DEFINE d == dest[t]
               m == [seq |-> pushed[d] + 1, source |-> Source(t)]
    <1>1. d \in 1 .. created /\ d \in Service
        BY <1>0, ConstantsAssumption DEF Push, LocalsOf, TypeOK, Service
    <1>2. Source(t) \in Service \cup {None}
        BY <1>0 DEF Source, TypeOK
    <1>3. m \in Message
        BY <1>0, <1>1, <1>2 DEF Message, TypeOK
    <1>4. /\ global' \in Seq(Service)
          /\ inGlobal' \in [Service -> BOOLEAN]
          /\ \A s \in Service : Good(s)'
        <2>1. \A s \in Service \ {d} : mq'[s] = mq[s]
            BY <1>0 DEF Push, TypeOK
        <2>2. pc[t] # "check" /\ back[t] # "check"
            BY <1>0, Zenon DEF Push, TypeOK
        <2> QED
            BY <1>1, <2>1, <2>2, Enter, Zenon DEF Push, Goto
    <1>5. mq' \in [Service -> Seq(Message)] /\ pushed' \in [Service -> Nat]
        <2>1. Append(mq[d], m) \in Seq(Message) /\ pushed[d] + 1 \in Nat
            BY <1>0, <1>1, <1>3 DEF TypeOK
        <2>2. mq' = [mq EXCEPT ![d] = Append(mq[d], m)]
            BY DEF Push
        <2>3. pushed' = [pushed EXCEPT ![d] = pushed[d] + 1]
            BY DEF Push
        <2> HIDE DEF m, d
        <2> QED
            BY <1>0, <2>1, <2>2, <2>3, Zenon DEF TypeOK
    <1>6. TypeOK'
        BY <1>0, <1>4, <1>5, SMTT(30) DEF Push, TypeOK, Label, Goto
    <1>7. LocalsOf(t)'
        BY <1>0 DEF Push, LocalsOf, Pushing, Goto, TypeOK
    <1>8. Locals'
        <2>1. created' \in Nat /\ created <= created'
            <3>1. created' = created
                BY DEF Push
            <3> QED
                BY <1>0, <3>1
        <2>2. \A u \in Thread \ {t} :
                 /\ pc'[u] = pc[u] /\ cur'[u] = cur[u] /\ nq'[u] = nq[u]
                 /\ fresh'[u] = fresh[u] /\ vic'[u] = vic[u]
                 /\ dest'[u] = dest[u] /\ back'[u] = back[u]
            BY <1>0 DEF Push, Goto, TypeOK
        <2> QED
            BY <1>7, <2>1, <2>2, LocalStep
    <1> QED
        BY <1>0, <1>4, <1>6, <1>8, IndGood DEF Push

\* ForceInGlobal, on the queue of the service just removed.
LEMMA ForceInGlobalInd ==
    ASSUME IndInv, NEW t \in Thread, ForceInGlobal(t)
    PROVE  IndInv'
PROOF
    <1>0. /\ TypeOK /\ LocalsOf(t) /\ created \in Nat
          /\ \A s \in Service : Good(s)
          /\ slot \cup freed \subseteq 1 .. created
        BY Before
    <1>1. vic[t] \in 1 .. created
        BY <1>0 DEF ForceInGlobal, LocalsOf
    <1>2. /\ global' \in Seq(Service)
          /\ inGlobal' \in [Service -> BOOLEAN]
          /\ \A s \in Service : Good(s)'
        BY <1>1, Enter, Zenon DEF ForceInGlobal, Goto, Home
    <1>3. TypeOK'
        BY <1>0, <1>2 DEF ForceInGlobal, TypeOK, Label, Goto, Home
    <1>4. LocalsOf(t)'
        BY <1>0 DEF ForceInGlobal, LocalsOf, Pushing, Goto, Home, TypeOK
    <1>5. Locals'
        <2>1. created' \in Nat /\ created <= created'
            <3>1. created' = created
                BY DEF ForceInGlobal
            <3> QED
                BY <1>0, <3>1
        <2>2. \A u \in Thread \ {t} :
                 /\ pc'[u] = pc[u] /\ cur'[u] = cur[u] /\ nq'[u] = nq[u]
                 /\ fresh'[u] = fresh[u] /\ vic'[u] = vic[u]
                 /\ dest'[u] = dest[u] /\ back'[u] = back[u]
            BY <1>0 DEF ForceInGlobal, Goto, TypeOK
        <2> QED
            BY <1>4, <2>1, <2>2, LocalStep
    <1> QED
        BY <1>0, <1>2, <1>3, <1>5, IndGood DEF ForceInGlobal

\* Deleting a queue: it was in the hands of this thread and of no other.
LEMMA DeleteInd ==
    ASSUME IndInv, NEW t \in Thread, Delete(t)
    PROVE  IndInv'
PROOF
    <1>0. /\ TypeOK /\ LocalsOf(t) /\ created \in Nat
          /\ \A s \in Service : Good(s)
          /\ slot \cup freed \subseteq 1 .. created
        BY Before
    <1>1. /\ vic[t] \in Service /\ nq[t] = None /\ cur[t] # None
          /\ vic[t] = IF fresh[t] = None THEN cur[t] ELSE fresh[t]
        BY <1>0 DEF Delete, LocalsOf, Pushing, TypeOK, None
    <1>2. vic[t] \in 1 .. created
        <2>1. Placed(vic[t])
            BY <1>1 DEF Placed, Holds, Delete
        <2> QED
            BY <1>0, <1>1, <2>1 DEF Good
    <1>3. TypeOK'
        BY <1>0, <1>1, ZenonT(40) DEF Delete, TypeOK, Label, Goto
    <1>4. LocalsOf(t)'
        <2>1. CASE fresh[t] # None
            BY <1>0, <1>1, <2>1 DEF Delete, LocalsOf, Pushing, Goto, TypeOK
        <2>2. CASE fresh[t] = None
            BY <1>0, <1>1, <2>2 DEF Delete, LocalsOf, Pushing, Goto, TypeOK
        <2> QED
            BY <2>1, <2>2
    <1>5. Locals'
        <2>1. created' \in Nat /\ created <= created'
            <3>1. created' = created
                BY DEF Delete
            <3> QED
                BY <1>0, <3>1
        <2>2. \A u \in Thread \ {t} :
                 /\ pc'[u] = pc[u] /\ cur'[u] = cur[u] /\ fresh'[u] = fresh[u]
                 /\ vic'[u] = vic[u]
            BY <1>0 DEF Delete, Goto, TypeOK
        <2>3. \A u \in Thread \ {t} :
                 nq'[u] = nq[u] /\ dest'[u] = dest[u] /\ back'[u] = back[u]
            BY DEF Delete
        <2> QED
            BY <1>4, <2>1, <2>2, <2>3, LocalStep
    <1>6. ASSUME NEW s \in Service, s # vic[t] PROVE Good(s)'
        <2>1. Good(s) /\ s # None
            BY <1>0 DEF Service, None
        <2>2. \A w \in Thread : Holds(w, s)' <=> Holds(w, s)
            BY <1>0, <1>1, <1>6, <2>1 DEF Delete, Holds, Goto, TypeOK
        <2>3. \A w \in Thread : fresh'[w] = s <=> fresh[w] = s
            BY <1>0, <1>1, <1>6, <2>1 DEF Delete, TypeOK
        <2>4. /\ In(global, s)' <=> In(global, s)
              /\ Once(global, s)' <=> Once(global, s)
            BY DEF Delete, In, Once
        <2>5. Placed(s)' <=> Placed(s)
            BY <2>2, <2>3, <2>4 DEF Placed
        <2>6. \A w \in Thread : ~(cur[w] = s /\ nq[w] = s) => ~(cur[w] = s /\ nq[w] = s)'
            BY <1>0, <2>1 DEF Delete, TypeOK
        <2>7. PlacedOnce(s) => PlacedOnce(s)'
            BY <2>2, <2>3, <2>4, <2>6 DEF PlacedOnce
        <2> QED
            BY <2>1, <2>5, <2>7 DEF Good, Queue, Delete
    <1>7. ASSUME NEW s \in Service, s = vic[t] PROVE Good(s)'
        <2>1. s \notin Queue' /\ s \in 1 .. created'
            BY <1>2, <1>7 DEF Queue, Delete
        <2> QED
            BY <2>1 DEF Good
    <1>8. (slot \cup freed \subseteq 1 .. created)'
        BY <1>0, <1>2 DEF Delete
    <1> QED
        BY <1>3, <1>5, <1>6, <1>7, <1>8, IndGood

\* A new service starts in the hands of the thread that launches it, with its
\* flag up.
LEMMA LaunchInd ==
    ASSUME IndInv, NEW t \in Thread, Launch(t)
    PROVE  IndInv'
PROOF
    <1>0. /\ TypeOK /\ LocalsOf(t) /\ created \in Nat
          /\ \A s \in Service : Good(s)
          /\ slot \cup freed \subseteq 1 .. created
        BY Before
    <1> DEFINE c == created + 1
    <1>1. c \in Service /\ c \notin 1 .. created /\ \A s : s \in 1 .. c <=> s \in 1 .. created \/ s = c
        <2>1. created \in 0 .. MaxService /\ created < MaxService /\ MaxService \in Nat
            BY <1>0, ConstantsAssumption DEF Launch, TypeOK
        <2> QED
            BY <2>1 DEF Service
    <1>2. fresh[t] = None /\ cur[t] # None /\ nq[t] = None
        BY <1>0 DEF Launch, LocalsOf, Pushing
    <1>3. TypeOK'
        <2>1. created' \in 0 .. MaxService /\ slot' \subseteq Service
            BY <1>0, <1>1, ConstantsAssumption DEF Launch, TypeOK, Service
        <2>2. fresh' \in [Thread -> Service \cup {None}] /\ pc' \in [Thread -> Label]
            BY <1>0, <1>1 DEF Launch, TypeOK, Label, Goto
        <2> QED
            BY <1>0, <2>1, <2>2 DEF Launch, TypeOK
    <1>4. LocalsOf(t)'
        <2>1. pc'[t] = "init" /\ fresh'[t] = c /\ cur'[t] # None /\ nq'[t] = None
            BY <1>0, <1>2 DEF Launch, Goto, TypeOK
        <2>2. c # None
            BY <1>0 DEF None
        <2> HIDE DEF c
        <2> QED
            BY <2>1, <2>2 DEF LocalsOf, Pushing
    <1>5. Locals'
        <2>1. created' \in Nat /\ created <= created'
            BY <1>0 DEF Launch
        <2>2. \A u \in Thread \ {t} :
                 /\ pc'[u] = pc[u] /\ cur'[u] = cur[u] /\ nq'[u] = nq[u]
                 /\ fresh'[u] = fresh[u] /\ vic'[u] = vic[u]
                 /\ dest'[u] = dest[u] /\ back'[u] = back[u]
            BY <1>0 DEF Launch, Goto, TypeOK
        <2> QED
            BY <1>4, <2>1, <2>2, LocalStep
    <1>6. ASSUME NEW s \in Service PROVE Good(s)'
        <2>1. Good(s) /\ s # None
            BY <1>0 DEF Service, None
        <2>2. \A w \in Thread : Holds(w, s)' <=> Holds(w, s)
            BY <1>0 DEF Launch, Holds, Goto, TypeOK
        <2>3. \A w \in Thread : fresh'[w] = s <=> fresh[w] = s \/ (w = t /\ s = c)
            BY <1>0, <1>2, <2>1 DEF Launch, TypeOK
        <2>4. /\ In(global, s)' <=> In(global, s)
              /\ Once(global, s)' <=> Once(global, s)
            BY DEF Launch, In, Once
        <2>5. CASE s # c
            <3>1. Placed(s)' <=> Placed(s)
                BY <2>2, <2>3, <2>4, <2>5 DEF Placed
            <3>2. PlacedOnce(s) => PlacedOnce(s)'
                BY <2>2, <2>3, <2>4, <2>5 DEF PlacedOnce, Launch
            <3>3. s \in 1 .. created' <=> s \in 1 .. created
                BY <1>0, <1>1, <2>5 DEF Launch
            <3> QED
                BY <2>1, <3>1, <3>2, <3>3 DEF Good, Queue, Launch
        <2>6. CASE s = c
            <3>1. inGlobal[s] /\ ~Placed(s)
                BY <1>1, <2>1, <2>6 DEF Good
            <3>2. Placed(s)'
                BY <2>3, <2>6 DEF Placed
            <3>3. Once(global, s) /\ ~In(global, s)
                BY <3>1 DEF Placed, In, Once
            <3>5. \A w \in Thread : ~(cur[w] = s /\ nq[w] = s)'
                BY <3>1 DEF Placed, Holds, Launch
            <3>6. \A w \in Thread : ~Holds(w, s)' /\ (fresh'[w] = s => w = t)
                BY <2>2, <2>3, <3>1 DEF Placed
            <3>7. PlacedOnce(s)'
                BY <2>4, <3>3, <3>5, <3>6 DEF PlacedOnce
            <3>8. s \in 1 .. created'
                BY <1>0, <1>1, <2>6 DEF Launch
            <3> QED
                BY <3>1, <3>2, <3>7, <3>8 DEF Good, Launch
        <2> QED
            BY <2>5, <2>6
    <1>7. (slot \cup freed \subseteq 1 .. created)'
        BY <1>0, <1>1 DEF Launch
    <1> QED
        BY <1>3, <1>5, <1>6, <1>7, IndGood

\* Init returned: the thread hands the queue over to the global queue.
LEMMA InitOkInd ==
    ASSUME IndInv, NEW t \in Thread, InitOk(t)
    PROVE  IndInv'
PROOF
    <1>0. /\ TypeOK /\ LocalsOf(t) /\ created \in Nat
          /\ \A s \in Service : Good(s)
          /\ slot \cup freed \subseteq 1 .. created
        BY Before
    <1>1. fresh[t] \in Service /\ cur[t] # None /\ nq[t] = None
        BY <1>0 DEF InitOk, LocalsOf, Pushing, TypeOK, None
    <1> DEFINE g == Append(global, fresh[t])
    <1>2. /\ g \in Seq(Service)
          /\ \A s : /\ In(g, s) <=> In(global, s) \/ s = fresh[t]
                    /\ Once(global, s) /\ (s = fresh[t] => ~In(global, s)) => Once(g, s)
        BY <1>0, <1>1, AppendPlaces, SMTT(30) DEF TypeOK
    <1> HIDE DEF g
    <1>3. TypeOK'
        BY <1>0, <1>2 DEF InitOk, TypeOK, Label, Goto, g
    <1>4. LocalsOf(t)'
        BY <1>0, <1>1 DEF InitOk, LocalsOf, Pushing, Goto, TypeOK
    <1>5. Locals'
        <2>1. created' \in Nat /\ created <= created'
            <3>1. created' = created
                BY SMTT(30) DEF InitOk
            <3> QED
                BY <1>0, <3>1
        <2>2. \A u \in Thread \ {t} :
                 /\ pc'[u] = pc[u] /\ cur'[u] = cur[u] /\ nq'[u] = nq[u]
                 /\ fresh'[u] = fresh[u] /\ vic'[u] = vic[u]
                 /\ dest'[u] = dest[u] /\ back'[u] = back[u]
            <3>1. /\ pc' = [pc EXCEPT ![t] = "run"] /\ fresh' = [fresh EXCEPT ![t] = None]
                  /\ UNCHANGED <<cur, nq, vic, dest, back>>
                BY DEF InitOk, Goto
            <3>2. pc \in [Thread -> Label] /\ fresh \in [Thread -> Service \cup {None}]
                BY <1>0 DEF TypeOK
            <3> QED
                BY <3>1, <3>2
        <2> QED
            BY <1>4, <2>1, <2>2, LocalStep
    <1>6. ASSUME NEW s \in Service PROVE Good(s)'
        <2>1. Good(s) /\ s # None
            BY <1>0 DEF Service, None
        <2>2. \A w \in Thread : Holds(w, s)' <=> Holds(w, s)
            BY <1>0 DEF InitOk, Holds, Goto, TypeOK
        <2>3. \A w \in Thread : fresh'[w] = s <=> fresh[w] = s /\ w # t
            BY <1>0, <2>1 DEF InitOk, TypeOK
        <2>4. /\ In(global, s)' <=> In(g, s)
              /\ Once(global, s)' <=> Once(g, s)
            BY DEF InitOk, In, Once, g
        <2>5. Placed(s)' <=> Placed(s)
            <3>1. In(global, s)' <=> In(global, s) \/ s = fresh[t]
                BY <1>2, <2>4
            <3> QED
                BY <2>2, <2>3, <3>1 DEF Placed
        <2>6. PlacedOnce(s) => PlacedOnce(s)'
            BY <1>2, <2>2, <2>3, <2>4 DEF PlacedOnce, InitOk
        <2> QED
            BY <2>1, <2>5, <2>6 DEF Good, Queue, InitOk
    <1> QED
        BY <1>0, <1>3, <1>5, <1>6, IndGood DEF InitOk

-----------------------------------------------------------------------------
(* The theorems.                                                           *)

\* Every step of every thread keeps the invariant.
LEMMA NextInd == IndInv /\ [Next]_vars => IndInv'
PROOF
    <1> SUFFICES ASSUME IndInv, [Next]_vars PROVE IndInv'
        OBVIOUS
    <1>1. CASE UNCHANGED vars
        <2>1. TypeOK'
            BY <1>1, SMTT(30) DEF vars, IndInv, TypeOK
        <2>2. Locals'
            BY <1>1, ZenonT(40) DEF vars, IndInv, Locals, LocalsOf, Pushing
        <2>3. Unborn'
            BY <1>1, Zenon DEF vars, IndInv, Unborn, Placed, Holds, In
        <2>4. OnePlace'
            <3>1. Queue' = Queue /\ \A s \in Queue : PlacedOnce(s)
                BY <1>1 DEF vars, IndInv, OnePlace, Queue
            <3>2. ASSUME NEW s \in Queue PROVE PlacedOnce(s)'
                <4>1. PlacedOnce(s)' <=> PlacedOnce(s)
                    BY <1>1, Zenon DEF vars, PlacedOnce, Holds, In, Once
                <4> QED
                    BY <3>1, <4>1
            <3> QED
                BY <3>1, <3>2 DEF OnePlace
        <2>5. FlagIsPlace'
            BY <1>1 DEF vars, IndInv, FlagIsPlace, Placed, Holds, In, Queue
        <2> QED
            BY <2>1, <2>2, <2>3, <2>4, <2>5 DEF IndInv
    <1>2. CASE Next
        <2>1. PICK t \in Thread : Step(t) \/ EndRun(t) \/ Choice(t)
            BY <1>2 DEF Next
        <2>2. CASE Step(t) \/ EndRun(t)
            BY <2>2, QuietSteps, TakeSteps, PopGlobalInd, PopEmptyInd, CheckInd,
               PopNextInd, RequeueInd, DeleteInd, PushInd, ForceInGlobalInd,
               CallSteps
            DEF Step
        <2>3. CASE Choice(t)
            BY <2>3, CallSteps, LaunchInd, InitOkInd DEF Choice
        <2> QED
            BY <2>1, <2>2, <2>3
    <1> QED
        BY <1>1, <1>2

\* The inductive invariant holds in every reachable state.
THEOREM Invariant == Spec => []IndInv
PROOF
    BY InitInd, NextInd, PTL DEF Spec

\* The variables keep their types: every local variable and every table of
\* the scheduler stays within its set, whatever the bounds.
THEOREM TypeCorrect == Spec => []TypeOK
PROOF
    <1>1. IndInv => TypeOK
        BY DEF IndInv
    <1> QED
        BY <1>1, Invariant, PTL

\* No message queue is ever in two places, so no two workers run one service
\* and none runs it before its Init has returned.
THEOREM OneWorkerPerService == Spec => []OnePlace
PROOF
    <1>1. IndInv => OnePlace
        BY DEF IndInv
    <1> QED
        BY <1>1, Invariant, PTL

\* A queue with messages is always where a worker will find it.
THEOREM NoMessageStranded == Spec => []NoneStranded
PROOF
    <1>1. IndInv => NoneStranded
        BY DEF IndInv, FlagIsPlace, NoneStranded
    <1> QED
        BY <1>1, Invariant, PTL
=============================================================================
