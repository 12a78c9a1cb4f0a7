---------------------------- MODULE ActorProofs ----------------------------
(***************************************************************************)
(* The scheduler implements the actor model of module Actor, for any       *)
(* number of threads, services and messages, on harbor 0 (on another       *)
(* harbor Remove leaves a service whose Init has failed in the handle      *)
(* table, without a queue).                                                *)
(*                                                                         *)
(* On top of the invariant of SchedulerProofs: a queue's messages are      *)
(* numbered up to its last push, the message a thread runs is the one that *)
(* left its queue last, its queue is not deleted meanwhile, and a queue    *)
(* that is being released has no service.                                  *)
(***************************************************************************)
EXTENDS SchedulerProofs

\* Thread t releases the queue vic[t].
Releasing(t) == pc[t] \in {"drop", "report", "delete"} \/ Pushing(t, {"drop"})

\* Thread t is between the Pop of a message and the end of its callback.
Busy(t) ==
    \/ pc[t] \in {"len", "run", "init", "remove", "force"}
    \/ Pushing(t, {"run", "init", "remove"})
    \/ fresh[t] # None

\* Thread t is in a batch, from the look-up of the context on.
InBatch(t) == pc[t] \in {"first", "take"} \/ Busy(t)

RunInv(t) ==
    /\ t \in Other => pc[t] = "idle" \/ Pushing(t, {"idle"})
    /\ InBatch(t) => cur[t] \notin freed
    /\ Releasing(t) => vic[t] \notin slot
    /\ msg[t] # NoMsg => Busy(t) /\ msg[t].seq # 0 /\ msg[t].seq = pushed[cur[t]] - Len(mq[cur[t]])

SeqInv(s) ==
    /\ Len(mq[s]) <= pushed[s]
    /\ \A i \in 1 .. Len(mq[s]) : mq[s][i].seq = pushed[s] - Len(mq[s]) + i

ActorInv ==
    /\ IndInv
    /\ RegisteredHasQueue
    /\ \A t \in Thread : RunInv(t)
    /\ \A s \in Service : SeqInv(s)

-----------------------------------------------------------------------------
(* What the invariant says of the threads.                                 *)

\* A thread that runs a message has its service in hand; one that releases a
\* queue has that queue in hand and runs no message of it.
LEMMA Hands ==
    ASSUME ActorInv, NEW t \in Thread
    PROVE  /\ TypeOK /\ LocalsOf(t) /\ RunInv(t)
           /\ msg[t] # NoMsg => InBatch(t)
           /\ InBatch(t) => cur[t] \in Queue /\ Holds(t, cur[t])
           /\ Releasing(t) => /\ vic[t] \in 1 .. created
                              /\ vic[t] \in Service
                              /\ Holds(t, vic[t]) \/ fresh[t] = vic[t]
                              /\ msg[t] # NoMsg => cur[t] # vic[t]
PROOF
    <1>0. /\ TypeOK /\ LocalsOf(t) /\ created \in Nat
          /\ \A s \in Service : Good(s)
          /\ slot \cup freed \subseteq 1 .. created
        BY Before DEF ActorInv
    <1>1. RunInv(t)
        BY DEF ActorInv
    <1>2. ASSUME InBatch(t)
          PROVE  cur[t] \in Queue /\ Holds(t, cur[t])
        <2>1. cur[t] \in Service /\ pc[t] # "check"
            BY <1>0, <1>2 DEF InBatch, Busy, LocalsOf, Pushing, TypeOK, None
        <2>2. Holds(t, cur[t])
            BY <2>1 DEF Holds
        <2>3. cur[t] \in 1 .. created
            BY <1>0, <2>1, <2>2 DEF Good, Placed
        <2>. QED
            BY <1>1, <1>2, <2>2, <2>3 DEF RunInv, Queue
    <1>3. ASSUME Releasing(t)
          PROVE  /\ vic[t] \in 1 .. created
                 /\ vic[t] \in Service
                 /\ Holds(t, vic[t]) \/ fresh[t] = vic[t]
                 /\ msg[t] # NoMsg => cur[t] # vic[t]
        <2>1. /\ vic[t] = IF fresh[t] = None THEN cur[t] ELSE fresh[t]
              /\ cur[t] # None /\ pc[t] # "check"
            BY <1>0, <1>3 DEF Releasing, LocalsOf, Pushing
        <2>2. vic[t] \in Service
            BY <1>0, <2>1 DEF TypeOK, None
        <2>3. Holds(t, vic[t]) \/ fresh[t] = vic[t]
            BY <2>1 DEF Holds
        <2>4. vic[t] \in 1 .. created
            BY <1>0, <2>2, <2>3 DEF Good, Placed
        <2>5. ASSUME msg[t] # NoMsg, cur[t] = vic[t] PROVE FALSE
            <3>1. Busy(t) /\ ~(pc[t] \in {"len", "run", "init", "remove", "force"})
                          /\ ~Pushing(t, {"run", "init", "remove"})
                BY <1>0, <1>1, <1>3, <2>5 DEF RunInv, Releasing, Pushing, TypeOK
            <3>2. fresh[t] = cur[t]
                BY <2>1, <2>5, <3>1 DEF Busy
            <3>3. cur[t] \in Queue /\ Holds(t, cur[t])
                BY <1>2, <3>1 DEF InBatch
            <3>. QED
                BY <1>0, <2>2, <2>5, <3>2, <3>3 DEF Good, PlacedOnce
        <2>. QED
            BY <2>2, <2>3, <2>4, <2>5
    <1>. QED
        BY <1>0, <1>1, <1>2, <1>3 DEF RunInv, InBatch

\* Two threads do not run, or run and release, one service at the same time.
LEMMA RunsAlone ==
    ASSUME ActorInv, NEW t \in Thread, NEW u \in Thread, InBatch(u), u # t
    PROVE  /\ InBatch(t) => cur[t] # cur[u]
           /\ Releasing(t) => vic[t] # cur[u]
PROOF
    <1>1. Holds(u, cur[u]) /\ cur[u] \in Queue
        BY Hands
    <1>2. PlacedOnce(cur[u])
        BY <1>1 DEF ActorInv, IndInv, OnePlace
    <1>3. /\ InBatch(t) => Holds(t, cur[t])
          /\ Releasing(t) => Holds(t, vic[t]) \/ fresh[t] = vic[t]
        BY Hands
    <1>. QED
        BY <1>1, <1>2, <1>3 DEF PlacedOnce

-----------------------------------------------------------------------------
(* The invariant is kept.                                                  *)

\* A step that deletes no queue and takes no message of the service that u
\* runs leaves what is said of u.
LEMMA OtherRuns ==
    ASSUME ActorInv, NEW u \in Thread,
           /\ pc'[u] = pc[u] /\ cur'[u] = cur[u] /\ msg'[u] = msg[u]
           /\ fresh'[u] = fresh[u] /\ vic'[u] = vic[u] /\ back'[u] = back[u],
           freed' = freed,
           slot' \subseteq slot \cup {created + 1},
           msg[u] # NoMsg => pushed'[cur[u]] - Len(mq'[cur[u]]) = pushed[cur[u]] - Len(mq[cur[u]])
    PROVE  RunInv(u)'
PROOF
    <1>1. RunInv(u) /\ (Releasing(u) => vic[u] \in 1 .. created) /\ created \in Nat
        BY Hands, Before DEF ActorInv
    <1>2. (Busy(u)' <=> Busy(u)) /\ (InBatch(u)' <=> InBatch(u))
        BY DEF InBatch, Busy, Pushing
    <1>3. Releasing(u)' <=> Releasing(u)
        BY DEF Releasing, Pushing
    <1>4. Releasing(u) => vic[u] \notin slot'
        BY <1>1 DEF RunInv
    <1>. QED
        BY <1>1, <1>2, <1>3, <1>4 DEF RunInv, Pushing

\* The steps that leave the messages and the queues as they are.
LEMMA KeepRuns ==
    ASSUME ActorInv, NEW t \in Thread, RunInv(t)',
           UNCHANGED <<mq, pushed, freed>>,
           slot' \subseteq slot \cup {created + 1},
           \A u \in Thread \ {t} :
               /\ pc'[u] = pc[u] /\ cur'[u] = cur[u] /\ msg'[u] = msg[u]
               /\ fresh'[u] = fresh[u] /\ vic'[u] = vic[u] /\ back'[u] = back[u],
           IndInv'
    PROVE  ActorInv'
PROOF
    <1>1. \A u \in Thread : RunInv(u)'
        BY OtherRuns
    <1>2. \A s \in Service : SeqInv(s)'
        BY DEF ActorInv, SeqInv
    <1>3. created + 1 \notin freed
        BY Before DEF ActorInv
    <1>4. RegisteredHasQueue'
        BY <1>3 DEF ActorInv, RegisteredHasQueue
    <1>. QED
        BY <1>1, <1>2, <1>4 DEF ActorInv

\* The steps of the dispatch loop and of a release that only move queues.
LEMMA DispatchRuns ==
    ASSUME ActorInv, IndInv', NEW t \in Thread,
           \/ PopGlobal(t) \/ PopGlobalEmpty(t) \/ Wake(t) \/ FindContext(t)
           \/ PopEmpty(t) \/ Check(t) \/ Length(t) \/ EndRun(t) \/ Keep(t)
           \/ PopNext(t) \/ Requeue(t) \/ DropEnd(t) \/ Report(t)
    PROVE  ActorInv'
PROOF
    <1>0. TypeOK /\ LocalsOf(t) /\ RunInv(t) /\ RegisteredHasQueue
        BY Hands DEF ActorInv
    <1>1. RunInv(t)'
        <2>1. CASE PopGlobal(t)
            BY <1>0, <2>1 DEF PopGlobal, RunInv, InBatch, Busy, Releasing, Pushing, LocalsOf, Goto, shared, local,
                 TypeOK, Thread, RegisteredHasQueue
        <2>2. CASE PopGlobalEmpty(t)
            BY <1>0, <2>2 DEF PopGlobalEmpty, RunInv, InBatch, Busy, Releasing, Pushing, LocalsOf, Goto, shared, local,
                 TypeOK, Thread, RegisteredHasQueue
        <2>3. CASE Wake(t)
            BY <1>0, <2>3 DEF Wake, RunInv, InBatch, Busy, Releasing, Pushing, LocalsOf, Goto, shared, local,
                 TypeOK, Thread, RegisteredHasQueue
        <2>4. CASE FindContext(t)
            BY <1>0, <2>4 DEF FindContext, RunInv, InBatch, Busy, Releasing, Pushing, LocalsOf, Goto, shared, local,
                 TypeOK, Thread, RegisteredHasQueue
        <2>5. CASE PopEmpty(t)
            BY <1>0, <2>5 DEF PopEmpty, RunInv, InBatch, Busy, Releasing, Pushing, LocalsOf, Goto, shared, local,
                 TypeOK, Thread, RegisteredHasQueue
        <2>6. CASE Check(t)
            BY <1>0, <2>6 DEF Check, RunInv, InBatch, Busy, Releasing, Pushing, LocalsOf, Goto, shared, local,
                 TypeOK, Thread, RegisteredHasQueue
        <2>7. CASE Length(t)
            BY <1>0, <2>7 DEF Length, RunInv, InBatch, Busy, Releasing, Pushing, LocalsOf, Goto, shared, local,
                 TypeOK, Thread, RegisteredHasQueue
        <2>8. CASE EndRun(t)
            BY <1>0, <2>8 DEF EndRun, RunInv, InBatch, Busy, Releasing, Pushing, LocalsOf, Goto, shared, local,
                 TypeOK, Thread, RegisteredHasQueue
        <2>9. CASE Keep(t)
            BY <1>0, <2>9 DEF Keep, RunInv, InBatch, Busy, Releasing, Pushing, LocalsOf, Goto, shared, local,
                 TypeOK, Thread, RegisteredHasQueue
        <2>10. CASE PopNext(t)
            BY <1>0, <2>10 DEF PopNext, RunInv, InBatch, Busy, Releasing, Pushing, LocalsOf, Goto, shared, local,
                 TypeOK, Thread, RegisteredHasQueue
        <2>11. CASE Requeue(t)
            BY <1>0, <2>11 DEF Requeue, RunInv, InBatch, Busy, Releasing, Pushing, LocalsOf, Goto, shared, local,
                 TypeOK, Thread, RegisteredHasQueue
        <2>12. CASE DropEnd(t)
            BY <1>0, <2>12 DEF DropEnd, RunInv, InBatch, Busy, Releasing, Pushing, LocalsOf, Goto, shared, local,
                 TypeOK, Thread, RegisteredHasQueue
        <2>13. CASE Report(t)
            BY <1>0, <2>13 DEF Report, RunInv, InBatch, Busy, Releasing, Pushing, LocalsOf, Goto, shared, local,
                 TypeOK, Thread, RegisteredHasQueue
        <2>. QED
            BY <2>1, <2>2, <2>3, <2>4, <2>5, <2>6, <2>7, <2>8, <2>9, <2>10, <2>11, <2>12, <2>13
    <1>2. /\ UNCHANGED <<mq, pushed, freed, slot>>
          /\ \A u \in Thread \ {t} :
               /\ pc'[u] = pc[u] /\ cur'[u] = cur[u] /\ msg'[u] = msg[u]
               /\ fresh'[u] = fresh[u] /\ vic'[u] = vic[u] /\ back'[u] = back[u]
        BY <1>0, ZenonT(60) DEF PopGlobal, PopGlobalEmpty, Wake, FindContext, PopEmpty, Check, Length,
              EndRun, Keep, PopNext, Requeue, DropEnd, Report, Goto, shared, local, TypeOK
    <1>. QED
        BY <1>1, <1>2, KeepRuns

\* The calls of a service that push nothing.  InitFail removes the service whose
\* queue is released, on harbor 0.
LEMMA CallRuns ==
    ASSUME ActorInv, IndInv', Harbor = 0, NEW t \in Thread,
           \/ Remove(t) \/ ForceInGlobal(t) \/ Launch(t) \/ InitOk(t) \/ InitFail(t)
           \/ \E d \in Service : Send(t, d) \/ Kill(t, d)
    PROVE  ActorInv'
PROOF
    <1>0. TypeOK /\ LocalsOf(t) /\ RunInv(t) /\ RegisteredHasQueue
        BY Hands DEF ActorInv
    <1>1. RunInv(t)'
        <2>1. CASE Remove(t)
            BY <1>0, <2>1 DEF Remove, Home, RunInv, InBatch, Busy, Releasing, Pushing, LocalsOf, Goto, TypeOK
        <2>2. CASE ForceInGlobal(t)
            BY <1>0, <2>2 DEF ForceInGlobal, Home, RunInv, InBatch, Busy, Releasing, Pushing, LocalsOf, Goto, TypeOK
        <2>3. CASE Launch(t)
            BY <1>0, <2>3 DEF Launch, RunInv, InBatch, Busy, Releasing, Pushing, LocalsOf, Goto, TypeOK
        <2>4. CASE InitOk(t)
            BY <1>0, <2>4 DEF InitOk, RunInv, InBatch, Busy, Releasing, Pushing, LocalsOf, Goto, TypeOK
        <2>5. CASE InitFail(t)
            <3>1. fresh[t] \in Service /\ vic'[t] = fresh[t]
                BY <1>0, <2>5 DEF InitFail, LocalsOf, TypeOK, None
            <3>2. vic'[t] \notin slot'
                BY <2>5, <3>1 DEF InitFail, Removes, Handle, Service
            <3>. QED
                BY <1>0, <2>5, <3>2 DEF InitFail, RunInv, InBatch, Busy, Releasing, Pushing, LocalsOf, Goto, TypeOK
        <2>6. ASSUME NEW d \in Service, Send(t, d) PROVE RunInv(t)'
            BY <1>0, <2>6 DEF Send, RunInv, InBatch, Busy, Releasing, Pushing, LocalsOf, Goto, shared, TypeOK
        <2>7. ASSUME NEW d \in Service, Kill(t, d) PROVE RunInv(t)'
            BY <1>0, <2>7 DEF Kill, RunInv, InBatch, Busy, Releasing, Pushing, LocalsOf, Goto, shared, TypeOK
        <2>. QED
            BY <2>1, <2>2, <2>3, <2>4, <2>5, <2>6, <2>7
    <1>2. UNCHANGED <<mq, pushed, freed>> /\ slot' \subseteq slot \cup {created + 1}
        BY Zenon DEF Remove, ForceInGlobal, Launch, InitOk, InitFail, Send, Kill, shared
    <1>3. \A u \in Thread \ {t} :
               /\ pc'[u] = pc[u] /\ cur'[u] = cur[u] /\ msg'[u] = msg[u]
               /\ fresh'[u] = fresh[u] /\ vic'[u] = vic[u] /\ back'[u] = back[u]
        BY <1>0, ZenonT(60) DEF Remove, ForceInGlobal, Launch, InitOk, InitFail, Send, Kill, Goto, shared, TypeOK
    <1>. QED
        BY <1>1, <1>2, <1>3, KeepRuns

\* Taking the oldest message out of a queue keeps the numbers of the others.
LEMMA TailNumbers ==
    ASSUME TypeOK, NEW s \in Service, SeqInv(s), mq[s] # <<>>
    PROVE  /\ Head(mq[s]).seq = pushed[s] - Len(mq[s]) + 1
           /\ Len(Tail(mq[s])) = Len(mq[s]) - 1
           /\ Len(Tail(mq[s])) <= pushed[s]
           /\ \A i \in 1 .. Len(Tail(mq[s])) : Tail(mq[s])[i].seq = pushed[s] - Len(Tail(mq[s])) + i
PROOF
    <1> DEFINE q == mq[s]
    <1>1. q \in Seq(Message) /\ q # <<>> /\ pushed[s] \in Nat
        BY DEF TypeOK
    <1>2. /\ Len(q) \in Nat \ {0} /\ Len(Tail(q)) = Len(q) - 1 /\ Head(q) = q[1]
          /\ \A i \in 1 .. Len(q) - 1 : Tail(q)[i] = q[i + 1]
        BY <1>1
    <1>3. Len(q) <= pushed[s] /\ \A i \in 1 .. Len(q) : q[i].seq = pushed[s] - Len(q) + i
        BY DEF SeqInv
    <1> HIDE DEF q
    <1>4. Head(q).seq = pushed[s] - Len(q) + 1
        BY <1>1, <1>2, <1>3
    <1>5. ASSUME NEW i \in 1 .. Len(Tail(q)) PROVE Tail(q)[i].seq = pushed[s] - Len(Tail(q)) + i
        <2>1. i \in 1 .. Len(q) - 1 /\ i + 1 \in 1 .. Len(q)
            BY <1>2
        <2>2. Tail(q)[i].seq = q[i + 1].seq
            BY <1>2, <2>1
        <2>3. q[i + 1].seq = pushed[s] - Len(q) + (i + 1)
            BY <1>3, <2>1
        <2>. QED
            BY <1>1, <1>2, <2>2, <2>3
    <1>. QED
        BY <1>1, <1>2, <1>3, <1>4, <1>5 DEF q

\* SNMessageQueue::Pop of a worker that then runs the message.
LEMMA PopMessageRuns ==
    ASSUME ActorInv, IndInv', NEW t \in Thread, PopMessage(t)
    PROVE  ActorInv'
PROOF
    <1> DEFINE s == cur[t]
    <1>0. /\ TypeOK /\ LocalsOf(t) /\ RunInv(t) /\ InBatch(t)
          /\ s \in Service /\ SeqInv(s) /\ mq[s] # <<>> /\ pushed[s] \in Nat
        <2>1. TypeOK /\ LocalsOf(t) /\ RunInv(t) /\ InBatch(t)
            BY Hands DEF PopMessage, InBatch
        <2>2. s \in Service
            BY <2>1 DEF PopMessage, LocalsOf, Pushing, TypeOK, None
        <2>. QED
            BY <2>1, <2>2 DEF ActorInv, PopMessage, TypeOK
    <1>1. /\ mq' = [mq EXCEPT ![s] = Tail(mq[s])] /\ pushed' = pushed /\ freed' = freed /\ slot' = slot
          /\ cur' = cur /\ msg'[t] = Head(mq[s]) /\ pc'[t] \in {"len", "run"} /\ fresh' = fresh
        BY <1>0 DEF PopMessage, Goto, TypeOK
    <1>2. mq'[s] = Tail(mq[s]) /\ \A r \in Service \ {s} : mq'[r] = mq[r]
        BY <1>0, <1>1 DEF TypeOK
    <1>3. /\ Head(mq[s]).seq = pushed[s] - Len(mq[s]) + 1
          /\ Len(Tail(mq[s])) = Len(mq[s]) - 1
          /\ Len(Tail(mq[s])) <= pushed[s]
          /\ \A i \in 1 .. Len(Tail(mq[s])) : Tail(mq[s])[i].seq = pushed[s] - Len(Tail(mq[s])) + i
        BY <1>0, TailNumbers
    <1>4. ASSUME NEW r \in Service PROVE SeqInv(r)'
        <2>1. CASE r = s
            <3>1. Len(mq'[r]) <= pushed'[r]
                BY <1>1, <1>2, <1>3, <2>1
            <3>2. \A i \in 1 .. Len(mq'[r]) : mq'[r][i].seq = pushed'[r] - Len(mq'[r]) + i
                BY <1>1, <1>2, <1>3, <2>1, Zenon
            <3>. QED
                BY <3>1, <3>2 DEF SeqInv
        <2>2. CASE r # s
            BY <1>1, <1>2, <2>2 DEF SeqInv, ActorInv
        <2>. QED
            BY <2>1, <2>2
    <1>5. RunInv(t)'
        <2>1. msg'[t].seq # 0 /\ msg'[t].seq = pushed'[s] - Len(mq'[s])
            <3>1. Len(mq[s]) \in Nat
                BY <1>0 DEF TypeOK
            <3>2. msg'[t].seq = Head(mq[s]).seq /\ pushed'[s] = pushed[s]
                BY <1>1, Zenon
            <3>3. Len(mq'[s]) = Len(mq[s]) - 1
                BY <1>2, <1>3, Zenon
            <3>4. Head(mq[s]).seq = pushed[s] - (Len(mq[s]) - 1)
                BY <1>0, <1>3, <3>1
            <3>5. Head(mq[s]).seq # 0
                BY <1>0, <3>1, <3>4 DEF SeqInv
            <3>. QED
                BY <3>2, <3>3, <3>4, <3>5, Zenon
        <2>2. t \notin Other
            BY <1>0 DEF PopMessage, RunInv, Pushing
        <2>3. Busy(t)' /\ ~Releasing(t)'
            BY <1>1 DEF Busy, Releasing, Pushing
        <2>4. cur[t] \notin freed
            BY <1>0 DEF RunInv
        <2>. QED
            BY <1>1, <2>1, <2>2, <2>3, <2>4 DEF RunInv
    <1>6. ASSUME NEW u \in Thread, u # t PROVE RunInv(u)'
        <2>1. msg[u] # NoMsg => cur[u] \in Service \ {s}
            <3>. SUFFICES ASSUME msg[u] # NoMsg PROVE cur[u] \in Service /\ cur[u] # s
                OBVIOUS
            <3>1. InBatch(u) /\ LocalsOf(u)
                BY Hands
            <3>2. cur[u] # s
                BY <1>0, <1>6, <3>1, RunsAlone
            <3>. QED
                BY <1>0, <3>1, <3>2 DEF InBatch, Busy, LocalsOf, Pushing, TypeOK, None
        <2>2. /\ pc'[u] = pc[u] /\ msg'[u] = msg[u] /\ vic'[u] = vic[u] /\ back'[u] = back[u]
            BY <1>0, <1>6 DEF PopMessage, Goto, TypeOK
        <2>. QED
            BY <1>1, <1>2, <2>1, <2>2, OtherRuns
    <1>. QED
        BY <1>1, <1>4, <1>5, <1>6 DEF ActorInv, RegisteredHasQueue

\* SNMessageQueue::Pop of a thread that releases the queue.
LEMMA DropRuns ==
    ASSUME ActorInv, IndInv', NEW t \in Thread, Drop(t)
    PROVE  ActorInv'
PROOF
    <1> DEFINE s == vic[t]
    <1>0. /\ TypeOK /\ LocalsOf(t) /\ RunInv(t) /\ Releasing(t)
          /\ s \in Service /\ SeqInv(s) /\ mq[s] # <<>> /\ pushed[s] \in Nat
          /\ msg[t] # NoMsg => cur[t] # s
        <2>1. Releasing(t)
            BY DEF Drop, Releasing
        <2>2. TypeOK /\ LocalsOf(t) /\ RunInv(t) /\ s \in Service /\ (msg[t] # NoMsg => cur[t] # s)
            BY <2>1, Hands
        <2>. QED
            BY <2>1, <2>2 DEF ActorInv, Drop, TypeOK
    <1>1. /\ mq' = [mq EXCEPT ![s] = Tail(mq[s])] /\ pushed' = pushed /\ freed' = freed /\ slot' = slot
          /\ cur' = cur /\ msg' = msg /\ fresh' = fresh /\ vic' = vic /\ back' = back
          /\ pc' = [pc EXCEPT ![t] = "report"]
        BY DEF Drop, Goto
    <1>2. mq'[s] = Tail(mq[s]) /\ \A r \in Service \ {s} : mq'[r] = mq[r]
        BY <1>0, <1>1 DEF TypeOK
    <1>3. /\ Len(Tail(mq[s])) <= pushed[s]
          /\ \A i \in 1 .. Len(Tail(mq[s])) : Tail(mq[s])[i].seq = pushed[s] - Len(Tail(mq[s])) + i
        BY <1>0, TailNumbers
    <1>4. ASSUME NEW r \in Service PROVE SeqInv(r)'
        <2>1. CASE r = s
            <3>1. Len(mq'[r]) <= pushed'[r]
                BY <1>1, <1>2, <1>3, <2>1
            <3>2. \A i \in 1 .. Len(mq'[r]) : mq'[r][i].seq = pushed'[r] - Len(mq'[r]) + i
                BY <1>1, <1>2, <1>3, <2>1, Zenon
            <3>. QED
                BY <3>1, <3>2 DEF SeqInv
        <2>2. CASE r # s
            BY <1>1, <1>2, <2>2 DEF SeqInv, ActorInv
        <2>. QED
            BY <2>1, <2>2
    <1>5. ASSUME NEW u \in Thread, msg[u] # NoMsg PROVE mq'[cur[u]] = mq[cur[u]]
        <2>1. InBatch(u) /\ LocalsOf(u)
            BY <1>5, Hands
        <2>2. cur[u] # s
            BY <1>0, <1>5, <2>1, RunsAlone
        <2>3. cur[u] \in Service
            BY <1>0, <2>1 DEF InBatch, Busy, LocalsOf, Pushing, TypeOK, None
        <2>. QED
            BY <1>2, <2>2, <2>3
    <1>6. RunInv(t)'
        <2>1. (msg[t] # NoMsg => Busy(t)) => fresh[t] # None \/ msg[t] = NoMsg
            BY DEF Drop, Busy, Pushing
        <2>2. pc[t] = "drop" /\ pc'[t] = "report" /\ Busy(t)' = (fresh[t] # None) /\ ~Pushing(t, {"idle"})
            BY <1>0, <1>1 DEF Drop, Busy, Pushing, TypeOK
        <2>3. InBatch(t)' => InBatch(t)
            BY <1>1, <2>2 DEF InBatch, Busy
        <2>4. msg[t] # NoMsg => msg[t].seq = pushed'[cur[t]] - Len(mq'[cur[t]])
            BY <1>0, <1>1, <1>5 DEF RunInv
        <2>. QED
            BY <1>0, <1>1, <2>1, <2>2, <2>3, <2>4 DEF RunInv
    <1>7. ASSUME NEW u \in Thread, u # t PROVE RunInv(u)'
        <2>1. pc'[u] = pc[u]
            BY <1>0, <1>1, <1>7 DEF TypeOK
        <2>. QED
            BY <1>1, <1>5, <2>1, OtherRuns
    <1>. QED
        BY <1>1, <1>4, <1>6, <1>7 DEF ActorInv, RegisteredHasQueue

\* SNMessageQueue::Push gives the message the next number.
LEMMA PushRuns ==
    ASSUME ActorInv, IndInv', NEW t \in Thread, Push(t)
    PROVE  ActorInv'
PROOF
    <1> DEFINE d == dest[t]
               m == [seq |-> pushed[d] + 1, source |-> Source(t)]
    <1>0. TypeOK /\ LocalsOf(t) /\ RunInv(t) /\ d \in Service /\ SeqInv(d)
        <2>1. TypeOK /\ LocalsOf(t) /\ RunInv(t) /\ created \in Nat
            BY Hands, Before DEF ActorInv
        <2>2. d \in Service
            BY <2>1, ConstantsAssumption DEF Push, LocalsOf, TypeOK, Service
        <2>. QED
            BY <2>1, <2>2 DEF ActorInv
    <1>1. /\ mq' = [mq EXCEPT ![d] = Append(mq[d], m)]
          /\ pushed' = [pushed EXCEPT ![d] = pushed[d] + 1]
          /\ freed' = freed /\ slot' = slot /\ cur' = cur /\ msg' = msg /\ fresh' = fresh /\ vic' = vic
          /\ pc' = [pc EXCEPT ![t] = back[t]] /\ back' = [back EXCEPT ![t] = "idle"]
        BY DEF Push, Goto
    <1>2. m.seq = pushed[d] + 1
        OBVIOUS
    <1> HIDE DEF m
    <1>3. /\ mq'[d] = Append(mq[d], m) /\ pushed'[d] = pushed[d] + 1
          /\ \A r \in Service \ {d} : mq'[r] = mq[r] /\ pushed'[r] = pushed[r]
        BY <1>0, <1>1 DEF TypeOK
    <1>4. /\ Len(mq[d]) \in Nat /\ pushed[d] \in Nat
          /\ Len(Append(mq[d], m)) = Len(mq[d]) + 1
          /\ \A i \in 1 .. Len(mq[d]) : Append(mq[d], m)[i] = mq[d][i]
          /\ Append(mq[d], m)[Len(mq[d]) + 1] = m
        BY <1>0 DEF TypeOK
    <1>5. ASSUME NEW r \in Service
          PROVE  SeqInv(r)' /\ pushed'[r] - Len(mq'[r]) = pushed[r] - Len(mq[r])
        <2>1. CASE r # d
            BY <1>3, <2>1 DEF SeqInv, ActorInv
        <2>2. CASE r = d
            <3> DEFINE q == mq[d]
                       p == Append(q, m)
                       n == pushed[d]
            <3>1. Len(q) <= n /\ \A i \in 1 .. Len(q) : q[i].seq = n - Len(q) + i
                BY <1>0 DEF SeqInv
            <3>2. /\ Len(q) \in Nat /\ n \in Nat /\ Len(p) = Len(q) + 1
                  /\ \A i \in 1 .. Len(q) : p[i] = q[i]
                  /\ p[Len(q) + 1] = m /\ m.seq = n + 1
                BY <1>2, <1>4
            <3>3. /\ mq'[r] = p /\ pushed'[r] = n + 1
                  /\ mq[r] = q /\ pushed[r] = n
                BY <1>3, <2>2
            <3> HIDE DEF p, q, n
            <3>4. ASSUME NEW i \in 1 .. Len(p) PROVE p[i].seq = (n + 1) - Len(p) + i
                <4>1. CASE i = Len(q) + 1
                    BY <3>2, <4>1
                <4>2. CASE i \in 1 .. Len(q)
                    <5>1. p[i].seq = n - Len(q) + i
                        BY <3>1, <3>2, <4>2, Zenon
                    <5>. QED
                        BY <3>2, <5>1
                <4>. QED
                    BY <3>2, <4>1, <4>2
            <3>5. Len(p) <= n + 1 /\ (n + 1) - Len(p) = n - Len(q)
                BY <3>1, <3>2
            <3>6. SeqInv(r)'
                BY <3>3, <3>4, <3>5, Zenon DEF SeqInv
            <3>. QED
                BY <3>3, <3>5, <3>6
        <2>. QED
            BY <2>1, <2>2
    <1>6. ASSUME NEW u \in Thread, msg[u] # NoMsg
          PROVE  pushed'[cur[u]] - Len(mq'[cur[u]]) = pushed[cur[u]] - Len(mq[cur[u]])
        <2>1. InBatch(u) /\ LocalsOf(u)
            BY <1>6, Hands
        <2>2. cur[u] \in Service
            BY <1>0, <2>1 DEF InBatch, Busy, LocalsOf, Pushing, TypeOK, None
        <2>. QED
            BY <1>5, <2>2
    <1>7. RunInv(t)'
        <2>1. pc[t] = "push" /\ pc'[t] = back[t] /\ back'[t] = "idle"
            BY <1>0, <1>1 DEF Push, TypeOK
        <2>2. /\ InBatch(t)' => InBatch(t)
              /\ Busy(t) => Busy(t)'
              /\ Releasing(t)' => Releasing(t)
              /\ Pushing(t, {"idle"}) => pc'[t] = "idle"
            BY <1>0, <1>1, <2>1 DEF InBatch, Busy, Releasing, Pushing, TypeOK
        <2>3. msg[t] # NoMsg => msg[t].seq = pushed'[cur[t]] - Len(mq'[cur[t]])
            BY <1>0, <1>6 DEF RunInv
        <2>. QED
            BY <1>0, <1>1, <2>1, <2>2, <2>3 DEF RunInv
    <1>8. ASSUME NEW u \in Thread, u # t PROVE RunInv(u)'
        <2>1. pc'[u] = pc[u] /\ back'[u] = back[u]
            BY <1>0, <1>1, <1>8 DEF TypeOK
        <2>. QED
            BY <1>1, <1>6, <2>1, OtherRuns
    <1>. QED
        BY <1>1, <1>5, <1>7, <1>8 DEF ActorInv, RegisteredHasQueue

\* Nobody runs a service whose queue is deleted, and nobody finds it any more.
LEMMA DeleteRuns ==
    ASSUME ActorInv, IndInv', NEW t \in Thread, Delete(t)
    PROVE  ActorInv'
PROOF
    <1>0. /\ TypeOK /\ LocalsOf(t) /\ RunInv(t) /\ Releasing(t) /\ RegisteredHasQueue
          /\ vic[t] \in Service /\ vic[t] \notin slot
        <2>1. Releasing(t)
            BY DEF Delete, Releasing
        <2>. QED
            BY <2>1, Hands DEF ActorInv, RunInv
    <1>1. /\ freed' = freed \cup {vic[t]}
          /\ UNCHANGED <<slot, mq, pushed, msg, back>>
        BY DEF Delete
    <1>2. RunInv(t)'
        <2>1. CASE fresh[t] # None
            <3>1. Busy(t) /\ InBatch(t) /\ vic[t] = fresh[t]
                BY <1>0, <2>1 DEF Busy, InBatch, Delete, LocalsOf
            <3>2. cur[t] \in Queue /\ Holds(t, cur[t])
                BY <3>1, Hands
            <3>3. cur[t] # vic[t]
                BY <3>1, <3>2 DEF ActorInv, IndInv, OnePlace, PlacedOnce
            <3>4. pc'[t] = "run" /\ cur' = cur /\ t \notin Other
                BY <1>0, <2>1 DEF Delete, Goto, TypeOK, RunInv, Pushing
            <3>. QED
                BY <1>0, <1>1, <3>1, <3>3, <3>4 DEF RunInv, InBatch, Busy, Releasing, Pushing
        <2>2. CASE fresh[t] = None
            <3>1. pc'[t] = "pop" /\ fresh' = fresh /\ t \notin Other
                BY <1>0, <2>2 DEF Delete, Goto, TypeOK, RunInv, Pushing
            <3>2. msg[t] = NoMsg
                BY <1>0, <2>2 DEF RunInv, Busy, Pushing, Delete
            <3>. QED
                BY <1>1, <2>2, <3>1, <3>2 DEF RunInv, InBatch, Busy, Releasing, Pushing
        <2>. QED
            BY <2>1, <2>2
    <1>3. ASSUME NEW u \in Thread, u # t PROVE RunInv(u)'
        <2>1. pc'[u] = pc[u] /\ cur'[u] = cur[u] /\ fresh'[u] = fresh[u] /\ vic'[u] = vic[u]
            BY <1>0, <1>3 DEF Delete, Goto, TypeOK
        <2>2. InBatch(u) => cur[u] # vic[t]
            BY <1>0, <1>3, RunsAlone
        <2>3. RunInv(u)
            BY DEF ActorInv
        <2>. QED
            BY <1>1, <2>1, <2>2, <2>3 DEF RunInv, InBatch, Busy, Releasing, Pushing
    <1>4. RegisteredHasQueue'
        BY <1>0, <1>1 DEF RegisteredHasQueue
    <1>5. \A s \in Service : SeqInv(s)'
        BY <1>1 DEF ActorInv, SeqInv
    <1>. QED
        BY <1>2, <1>3, <1>4, <1>5 DEF ActorInv

-----------------------------------------------------------------------------
(* The invariant and the steps of the actor model.                         *)

\* The initial state satisfies the invariant.
LEMMA ActorInit == Init => ActorInv
PROOF
    <1>. SUFFICES ASSUME Init PROVE ActorInv
        OBVIOUS
    <1>1. IndInv
        BY InitInd
    <1>2. RegisteredHasQueue
        BY DEF Init, RegisteredHasQueue
    <1>3. \A s \in Service : SeqInv(s)
        BY DEF Init, SeqInv
    <1>4. \A t \in Thread : RunInv(t)
        BY ConstantsAssumption DEF Init, RunInv, InBatch, Busy, Releasing, Pushing
    <1>. QED
        BY <1>1, <1>2, <1>3, <1>4 DEF ActorInv

\* Every step keeps it.
LEMMA ActorKept == ASSUME Harbor = 0 PROVE ActorInv /\ [Next]_vars => ActorInv'
PROOF
    <1>. SUFFICES ASSUME ActorInv, [Next]_vars PROVE ActorInv'
        OBVIOUS
    <1>0. IndInv'
        BY NextInd DEF ActorInv
    <1>1. CASE UNCHANGED vars
        <2>1. \A t \in Thread : RunInv(t)'
            BY <1>1, OtherRuns DEF vars
        <2>2. RegisteredHasQueue' /\ \A s \in Service : SeqInv(s)'
            BY <1>1 DEF vars, ActorInv, RegisteredHasQueue, SeqInv
        <2>. QED
            BY <1>0, <2>1, <2>2 DEF ActorInv
    <1>2. CASE Next
        <2>1. PICK t \in Thread : Step(t) \/ EndRun(t) \/ Choice(t)
            BY <1>2 DEF Next
        <2>2. CASE Step(t) \/ EndRun(t)
            BY <1>0, <2>2, DispatchRuns, CallRuns, PopMessageRuns, DropRuns, PushRuns, DeleteRuns DEF Step
        <2>3. CASE Choice(t)
            BY <1>0, <2>3, CallRuns DEF Choice
        <2>. QED
            BY <2>1, <2>2, <2>3
    <1>. QED
        BY <1>1, <1>2

\* The message that a service runs, by the thread that runs it.
RunsIts ==
    /\ \A w \in Worker, s \in Service : RunsOn(w, s) => Running(s) = msg[w].seq
    /\ \A s \in Service : (\A w \in Worker : ~RunsOn(w, s)) => Running(s) = 0

LEMMA RunningIs == ActorInv => RunsIts
PROOF
    <1>. SUFFICES ASSUME ActorInv PROVE RunsIts
        OBVIOUS
    <1>1. ASSUME NEW v \in Worker, NEW w \in Worker, NEW s \in Service, RunsOn(v, s), RunsOn(w, s)
          PROVE  v = w
        BY <1>1, Hands, RunsAlone DEF RunsOn, Thread
    <1>2. ASSUME NEW w \in Worker, NEW s \in Service, RunsOn(w, s) PROVE Running(s) = msg[w].seq
        <2>1. RunsOn(CHOOSE v \in Worker : RunsOn(v, s), s) /\ (CHOOSE v \in Worker : RunsOn(v, s)) \in Worker
            BY <1>2
        <2>2. (CHOOSE v \in Worker : RunsOn(v, s)) = w
            BY <1>1, <1>2, <2>1
        <2>. QED
            BY <1>2, <2>2 DEF Running
    <1>3. ASSUME NEW s \in Service, \A w \in Worker : ~RunsOn(w, s) PROVE Running(s) = 0
        BY <1>3 DEF Running
    <1>. QED
        BY <1>2, <1>3 DEF RunsIts

\* A service whose threads neither start nor end a message.
LEMMA RunningKept ==
    ASSUME ActorInv, ActorInv', NEW s \in Service,
           \A w \in Worker : RunsOn(w, s)' <=> RunsOn(w, s),
           \A w \in Worker : RunsOn(w, s) => msg'[w] = msg[w]
    PROVE  Running(s)' = Running(s)
PROOF
    <1>0. RunsIts /\ RunsIts'
        BY RunningIs, PTL
    <1>1. CASE \E w \in Worker : RunsOn(w, s)
        <2>1. PICK w \in Worker : RunsOn(w, s)
            BY <1>1
        <2>2. Running(s) = msg[w].seq
            BY <1>0, <2>1 DEF RunsIts
        <2>3. Running(s)' = msg'[w].seq
            BY <1>0, <2>1 DEF RunsIts
        <2>. QED
            BY <2>1, <2>2, <2>3
    <1>2. CASE \A w \in Worker : ~RunsOn(w, s)
        BY <1>0, <1>2 DEF RunsIts
    <1>. QED
        BY <1>1, <1>2

\* The steps that the actor model does not see.
LEMMA Stutters ==
    ASSUME ActorInv, ActorInv', NEW t \in Thread,
           \/ PopGlobal(t) \/ PopGlobalEmpty(t) \/ Wake(t) \/ FindContext(t)
           \/ PopEmpty(t) \/ Check(t) \/ Length(t) \/ Keep(t)
           \/ PopNext(t) \/ Requeue(t) \/ DropEnd(t) \/ Report(t) \/ Delete(t)
           \/ ForceInGlobal(t) \/ InitOk(t) \/ \E d \in Service : Send(t, d) \/ Kill(t, d)
    PROVE  UNCHANGED A!actorVars
PROOF
    <1>0. TypeOK /\ LocalsOf(t) /\ RunInv(t)
        BY Hands
    <1>1. UNCHANGED <<slot, mq, pushed, msg>>
        BY Zenon DEF PopGlobal, PopGlobalEmpty, Wake, FindContext, PopEmpty, Check, Length, Keep, PopNext, Requeue,
              DropEnd, Report, Delete, ForceInGlobal, InitOk, Send, Kill, shared, local
    <1>2. msg[t] # NoMsg => cur'[t] = cur[t]
        <2>1. CASE PopGlobal(t) \/ Check(t) \/ Requeue(t)
            BY <1>0, <2>1 DEF PopGlobal, Check, Requeue, RunInv, Busy, Pushing, LocalsOf
        <2>2. CASE Delete(t)
            BY <1>0, <2>2 DEF Delete, RunInv, Busy, Pushing
        <2>3. CASE ~(PopGlobal(t) \/ Check(t) \/ Requeue(t) \/ Delete(t))
            BY <2>3, Zenon DEF PopGlobalEmpty, Wake, FindContext, PopEmpty, Length, Keep, PopNext,
                  DropEnd, Report, ForceInGlobal, InitOk, Send, Kill, local
        <2>. QED
            BY <2>1, <2>2, <2>3
    <1>3. \A u \in Thread \ {t} : cur'[u] = cur[u]
        BY <1>0, Zenon DEF PopGlobal, PopGlobalEmpty, Wake, FindContext, PopEmpty, Check, Length, Keep, PopNext, Requeue,
              DropEnd, Report, Delete, ForceInGlobal, InitOk, Send, Kill, local, TypeOK
    <1>4. ASSUME NEW s \in Service PROVE Running(s)' = Running(s)
        <2>1. \A w \in Worker : RunsOn(w, s)' <=> RunsOn(w, s)
            BY <1>1, <1>2, <1>3 DEF RunsOn, Thread
        <2>. QED
            BY <1>1, <2>1, RunningKept
    <1>. QED
        BY <1>1, <1>4 DEF A!actorVars

\* A worker's Pop is the start of the message.
LEMMA PopMessageStarts ==
    ASSUME ActorInv, ActorInv', NEW t \in Thread, PopMessage(t), NEW s \in Service, s = cur[t]
    PROVE  A!Start(s)
PROOF
    <1>0. /\ TypeOK /\ RunInv(t) /\ InBatch(t) /\ SeqInv(s)
          /\ mq[s] # <<>> /\ t \in Worker /\ msg[t] = NoMsg
        <2>1. TypeOK /\ LocalsOf(t) /\ RunInv(t) /\ InBatch(t)
            BY Hands DEF PopMessage, InBatch
        <2>2. fresh[t] = None
            BY <2>1 DEF PopMessage, LocalsOf, Pushing, TypeOK, None
        <2>3. t \in Worker /\ msg[t] = NoMsg
            BY <2>1, <2>2 DEF PopMessage, RunInv, Busy, Pushing, Thread
        <2>. QED
            BY <2>1, <2>2, <2>3 DEF ActorInv, PopMessage
    <1>1. /\ mq' = [mq EXCEPT ![s] = Tail(mq[s])] /\ UNCHANGED <<slot, pushed, cur>>
          /\ msg' = [msg EXCEPT ![t] = Head(mq[s])]
        BY DEF PopMessage
    <1>2. /\ Head(mq[s]).seq = pushed[s] - Len(mq[s]) + 1
          /\ Len(Tail(mq[s])) = Len(mq[s]) - 1
          /\ Len(mq[s]) \in Nat \ {0} /\ pushed[s] \in Nat
        BY <1>0, TailNumbers DEF TypeOK
    <1>3. RunsIts /\ RunsIts'
        BY RunningIs, PTL
    <1>4. Running(s) = 0
        <2>1. ASSUME NEW w \in Worker, RunsOn(w, s) PROVE FALSE
            <3>1. w # t /\ InBatch(w) /\ cur[w] = s
                BY <1>0, <2>1, Hands DEF RunsOn, Thread
            <3>. QED
                BY <1>0, <3>1, RunsAlone DEF Thread
        <2>. QED
            BY <1>0, <1>3, <2>1 DEF RunsIts
    <1>5. Running(s)' = pushed[s] - Len(mq[s]) + 1
        <2>1. msg'[t] = Head(mq[s])
            BY <1>0, <1>1 DEF TypeOK
        <2>2. msg'[t] # NoMsg
            <3>1. Head(mq[s]).seq # 0
                BY <1>0, <1>2 DEF SeqInv
            <3>. QED
                BY <2>1, <3>1 DEF NoMsg
        <2>3. RunsOn(t, s)'
            BY <1>1, <2>2 DEF RunsOn
        <2>4. Running(s)' = msg'[t].seq
            BY <1>0, <1>3, <2>3 DEF RunsIts
        <2>. QED
            BY <1>2, <2>1, <2>4
    <1>6. ASSUME NEW r \in Service, r # s PROVE Running(r)' = Running(r)
        <2>1. \A w \in Worker : RunsOn(w, r)' <=> RunsOn(w, r)
            BY <1>0, <1>1, <1>6 DEF RunsOn, Thread, TypeOK
        <2>2. \A w \in Worker : RunsOn(w, r) => msg'[w] = msg[w]
            BY <1>0, <1>1, <1>6 DEF RunsOn, Thread, TypeOK
        <2>. QED
            BY <2>1, <2>2, RunningKept
    <1>7. [r \in Service |-> Running(r)]' = [[r \in Service |-> Running(r)] EXCEPT ![s] = pushed[s] - Len(mq[s]) + 1]
        BY <1>0, <1>5, <1>6
    <1>8. [r \in Service |-> pushed[r] - Len(mq[r])]'
              = [[r \in Service |-> pushed[r] - Len(mq[r])] EXCEPT ![s] = @ + 1]
        <2>1. pushed'[s] - Len(mq'[s]) = pushed[s] - Len(mq[s]) + 1
            BY <1>0, <1>1, <1>2 DEF TypeOK
        <2>2. \A r \in Service \ {s} : pushed'[r] = pushed[r] /\ mq'[r] = mq[r]
            BY <1>0, <1>1 DEF TypeOK
        <2>. QED
            BY <1>0, <2>1, <2>2
    <1>9. /\ [r \in Service |-> pushed[r] - Len(mq[r])][s] = pushed[s] - Len(mq[s])
          /\ pushed[s] - Len(mq[s]) < pushed[s]
          /\ [r \in Service |-> Running(r)][s] = 0
        BY <1>2, <1>4
    <1>10. A!Take(s)
        BY <1>1, <1>8, <1>9 DEF A!Take
    <1>. QED
        BY <1>7, <1>9, <1>10 DEF A!Start

\* A step that moves no thread to another queue or message.
LEMMA RunningSame ==
    ASSUME ActorInv, ActorInv', UNCHANGED <<cur, msg>>
    PROVE  [s \in Service |-> Running(s)]' = [s \in Service |-> Running(s)]
PROOF
    <1>1. ASSUME NEW s \in Service PROVE Running(s)' = Running(s)
        <2>1. \A w \in Worker : RunsOn(w, s)' <=> RunsOn(w, s)
            BY DEF RunsOn
        <2>. QED
            BY <2>1, RunningKept
    <1>. QED
        BY <1>1

\* A Pop of a thread that releases a queue discards the message.
LEMMA DropDiscards ==
    ASSUME ActorInv, ActorInv', NEW t \in Thread, Drop(t), NEW s \in Service, s = vic[t]
    PROVE  A!Discard(s)
PROOF
    <1>0. /\ TypeOK /\ RunInv(t) /\ Releasing(t) /\ SeqInv(s) /\ mq[s] # <<>>
          /\ msg[t] # NoMsg => cur[t] # s
          /\ s \notin slot
        <2>1. Releasing(t)
            BY DEF Drop, Releasing
        <2>2. TypeOK /\ RunInv(t) /\ (msg[t] # NoMsg => cur[t] # s)
            BY <2>1, Hands
        <2>. QED
            BY <2>1, <2>2 DEF ActorInv, Drop, RunInv
    <1>1. mq' = [mq EXCEPT ![s] = Tail(mq[s])] /\ UNCHANGED <<slot, pushed, cur, msg>>
        BY DEF Drop
    <1>2. /\ Len(Tail(mq[s])) = Len(mq[s]) - 1
          /\ Len(mq[s]) \in Nat \ {0} /\ pushed[s] \in Nat
        BY <1>0, TailNumbers DEF TypeOK
    <1>3. Running(s) = 0
        <2>1. ASSUME NEW w \in Worker, RunsOn(w, s) PROVE FALSE
            <3>1. w # t /\ InBatch(w) /\ cur[w] = s
                BY <1>0, <2>1, Hands DEF RunsOn, Thread
            <3>. QED
                BY <1>0, <3>1, RunsAlone DEF Thread
        <2>. QED
            BY <2>1, RunningIs DEF RunsIts
    <1>4. [r \in Service |-> Running(r)]' = [r \in Service |-> Running(r)]
        BY <1>1, RunningSame
    <1>5. [r \in Service |-> pushed[r] - Len(mq[r])]'
              = [[r \in Service |-> pushed[r] - Len(mq[r])] EXCEPT ![s] = @ + 1]
        <2>1. pushed'[s] - Len(mq'[s]) = pushed[s] - Len(mq[s]) + 1
            BY <1>0, <1>1, <1>2 DEF TypeOK
        <2>2. \A r \in Service \ {s} : pushed'[r] = pushed[r] /\ mq'[r] = mq[r]
            BY <1>0, <1>1 DEF TypeOK
        <2>. QED
            BY <2>1, <2>2
    <1>6. /\ [r \in Service |-> pushed[r] - Len(mq[r])][s] < pushed[s]
          /\ [r \in Service |-> Running(r)][s] = 0
        BY <1>2, <1>3
    <1>7. A!Take(s)
        BY <1>1, <1>5, <1>6 DEF A!Take
    <1>. QED
        BY <1>0, <1>4, <1>7 DEF A!Discard

\* A Push posts a message and takes none.
LEMMA PushPosts ==
    ASSUME ActorInv, ActorInv', NEW t \in Thread, Push(t), NEW d \in Service, d = dest[t]
    PROVE  A!Post(d)
PROOF
    <1> DEFINE m == [seq |-> pushed[d] + 1, source |-> Source(t)]
    <1>0. TypeOK
        BY Hands
    <1>1. /\ mq' = [mq EXCEPT ![d] = Append(mq[d], m)]
          /\ pushed' = [pushed EXCEPT ![d] = @ + 1]
          /\ UNCHANGED <<slot, cur, msg>>
        BY DEF Push
    <1> HIDE DEF m
    <1>2. Len(mq[d]) \in Nat /\ pushed[d] \in Nat /\ Len(Append(mq[d], m)) = Len(mq[d]) + 1
        BY <1>0 DEF TypeOK
    <1>3. /\ mq'[d] = Append(mq[d], m) /\ pushed'[d] = pushed[d] + 1
          /\ \A r \in Service \ {d} : mq'[r] = mq[r] /\ pushed'[r] = pushed[r]
        BY <1>0, <1>1 DEF TypeOK
    <1>4. \A r \in Service : pushed'[r] - Len(mq'[r]) = pushed[r] - Len(mq[r])
        <2>1. (pushed[d] + 1) - (Len(mq[d]) + 1) = pushed[d] - Len(mq[d])
            BY <1>2
        <2>2. pushed'[d] - Len(mq'[d]) = pushed[d] - Len(mq[d])
            BY <1>2, <1>3, <2>1, Zenon
        <2>. QED
            BY <1>3, <2>2
    <1>5. [r \in Service |-> pushed[r] - Len(mq[r])]' = [r \in Service |-> pushed[r] - Len(mq[r])]
        BY <1>4
    <1>6. [r \in Service |-> Running(r)]' = [r \in Service |-> Running(r)]
        BY <1>1, RunningSame
    <1>. QED
        BY <1>1, <1>5, <1>6 DEF A!Post

\* The return of a callback ends its message.
LEMMA EndRunFinishes ==
    ASSUME ActorInv, ActorInv', NEW t \in Thread, EndRun(t), NEW s \in Service, s = cur[t]
    PROVE  A!Finish(s) \/ UNCHANGED A!actorVars
PROOF
    <1>0. TypeOK /\ RunInv(t) /\ t \in Worker
        <2>1. TypeOK /\ RunInv(t)
            BY Hands
        <2>. QED
            BY <2>1 DEF RunInv, EndRun, Pushing, Thread
    <1>1. msg' = [msg EXCEPT ![t] = NoMsg] /\ UNCHANGED <<slot, mq, pushed, cur>>
        BY DEF EndRun, shared
    <1>2. RunsIts /\ RunsIts'
        BY RunningIs, PTL
    <1>3. CASE msg[t] = NoMsg
        <2>1. msg' = msg
            BY <1>0, <1>1, <1>3 DEF TypeOK
        <2>. QED
            BY <1>1, <2>1, RunningSame DEF A!actorVars
    <1>4. CASE msg[t] # NoMsg
        <2>1. ASSUME NEW w \in Worker, w # t PROVE ~RunsOn(w, s)
            <3>. SUFFICES ASSUME RunsOn(w, s) PROVE FALSE
                OBVIOUS
            <3>1. InBatch(w) /\ InBatch(t) /\ cur[w] = s
                BY <1>0, <1>4, Hands DEF RunsOn, Thread
            <3>. QED
                BY <2>1, <3>1, RunsAlone DEF Thread
        <2>2. Running(s) # 0
            <3>1. RunsOn(t, s) /\ msg[t].seq # 0
                BY <1>0, <1>4 DEF RunsOn, RunInv
            <3>. QED
                BY <1>0, <1>2, <3>1 DEF RunsIts
        <2>3. Running(s)' = 0
            <3>1. msg'[t] = NoMsg /\ \A w \in Worker \ {t} : msg'[w] = msg[w]
                BY <1>0, <1>1 DEF TypeOK, Thread
            <3>2. \A w \in Worker : ~RunsOn(w, s)'
                BY <1>1, <2>1, <3>1 DEF RunsOn
            <3>. QED
                BY <1>2, <3>2 DEF RunsIts
        <2>4. ASSUME NEW r \in Service, r # s PROVE Running(r)' = Running(r)
            <3>1. \A w \in Worker : RunsOn(w, r)' <=> RunsOn(w, r)
                BY <1>0, <1>1, <2>4 DEF RunsOn, Thread, TypeOK
            <3>2. \A w \in Worker : RunsOn(w, r) => msg'[w] = msg[w]
                BY <1>0, <1>1, <2>4 DEF RunsOn, Thread, TypeOK
            <3>. QED
                BY <3>1, <3>2, RunningKept
        <2>5. [r \in Service |-> Running(r)]' = [[r \in Service |-> Running(r)] EXCEPT ![s] = 0]
            BY <2>3, <2>4
        <2>. QED
            BY <1>1, <2>2, <2>5 DEF A!Finish
    <1>. QED
        BY <1>3, <1>4

\* A launch registers a service that nobody has pushed to.
LEMMA LaunchRegisters ==
    ASSUME ActorInv, ActorInv', NEW t \in Thread, Launch(t), NEW s \in Service, s = created + 1
    PROVE  A!Register(s)
PROOF
    <1>0. TypeOK /\ s \notin 1 .. created /\ s \notin slot /\ mq[s] = <<>> /\ ~Placed(s)
        <2>1. TypeOK /\ created \in Nat /\ slot \subseteq 1 .. created /\ Good(s)
            BY Before DEF ActorInv
        <2>2. s \notin 1 .. created
            BY <2>1
        <2>. QED
            BY <2>1, <2>2 DEF Good
    <1>1. slot' = slot \cup {s} /\ UNCHANGED <<mq, pushed, cur, msg>>
        BY DEF Launch
    <1>2. Running(s) = 0
        <2>1. ASSUME NEW w \in Worker, RunsOn(w, s) PROVE FALSE
            <3>1. cur[w] \in Queue /\ cur[w] = s
                BY <2>1, Hands DEF RunsOn, Thread
            <3>. QED
                BY <1>0, <3>1 DEF Queue
        <2>. QED
            BY <2>1, RunningIs DEF RunsIts
    <1>3. pushed[s] \in Nat /\ pushed[s] - Len(mq[s]) = pushed[s]
        BY <1>0 DEF TypeOK
    <1>4. /\ [r \in Service |-> pushed[r] - Len(mq[r])][s] = pushed[s]
          /\ [r \in Service |-> Running(r)][s] = 0
        BY <1>2, <1>3
    <1>5. [r \in Service |-> Running(r)]' = [r \in Service |-> Running(r)]
        BY <1>1, RunningSame
    <1>. QED
        BY <1>0, <1>1, <1>4, <1>5 DEF A!Register

\* A removal, of a running service or of one whose Init has failed.
LEMMA RemoveUnregisters ==
    ASSUME ActorInv, ActorInv', NEW t \in Thread, Remove(t) \/ InitFail(t)
    PROVE  (\E s \in Service : A!Unregister(s)) \/ UNCHANGED A!actorVars
PROOF
    <1>0. TypeOK
        BY Hands
    <1>1. UNCHANGED <<mq, pushed, cur, msg>>
        BY DEF Remove, InitFail
    <1>2. [r \in Service |-> Running(r)]' = [r \in Service |-> Running(r)]
        BY <1>1, RunningSame
    <1>3. slot' = slot \/ \E s \in Service : s \in slot /\ slot' = slot \ {s}
        BY <1>0 DEF Remove, InitFail, Removes, TypeOK
    <1>4. CASE slot' = slot
        BY <1>1, <1>2, <1>4 DEF A!actorVars
    <1>5. ASSUME NEW s \in Service, s \in slot, slot' = slot \ {s} PROVE A!Unregister(s)
        BY <1>1, <1>2, <1>5 DEF A!Unregister
    <1>. QED
        BY <1>3, <1>4, <1>5

-----------------------------------------------------------------------------
(* The theorems.                                                           *)

\* The boot state of the server is an initial state of the actor model.
LEMMA InitIsActor == Init => A!ActorInit
PROOF
    <1>. SUFFICES ASSUME Init PROVE A!ActorInit
        OBVIOUS
    <1>1. RunsIts
        BY ActorInit, RunningIs
    <1>2. ASSUME NEW s \in Service PROVE Running(s) = 0
        <2>1. \A w \in Worker : ~RunsOn(w, s)
            BY DEF Init, RunsOn, Thread
        <2>. QED
            BY <1>1, <2>1 DEF RunsIts
    <1>3. slot \subseteq Service
        BY ActorInit DEF ActorInv, IndInv, TypeOK
    <1>4. \A s \in Service : pushed[s] - Len(mq[s]) = 0
        BY DEF Init
    <1>5. pushed = [s \in Service |-> 0]
        BY DEF Init
    <1>. QED
        BY <1>2, <1>3, <1>4, <1>5 DEF A!ActorInit

\* Every step of the scheduler is a step of the actor model or none.
LEMMA NextIsActor == ActorInv /\ ActorInv' /\ [Next]_vars => [A!ActorNext]_(A!actorVars)
PROOF
    <1>. SUFFICES ASSUME ActorInv, ActorInv', [Next]_vars
                  PROVE  A!ActorNext \/ UNCHANGED A!actorVars
        OBVIOUS
    <1>1. CASE UNCHANGED vars
        BY <1>1, RunningSame DEF vars, A!actorVars
    <1>2. ASSUME NEW t \in Thread, Step(t) \/ EndRun(t) \/ Choice(t)
          PROVE  A!ActorNext \/ UNCHANGED A!actorVars
        <2>0. TypeOK /\ LocalsOf(t) /\ created \in Nat
            BY Before DEF ActorInv
        <2>1. CASE PopMessage(t)
            <3>1. cur[t] \in Service
                BY <2>0, <2>1 DEF PopMessage, LocalsOf, Pushing, TypeOK, None
            <3>. QED
                BY <2>1, <3>1, PopMessageStarts DEF A!ActorNext
        <2>2. CASE Drop(t)
            <3>1. vic[t] \in Service
                BY <2>2, Hands DEF Drop, Releasing
            <3>. QED
                BY <2>2, <3>1, DropDiscards DEF A!ActorNext
        <2>3. CASE Push(t)
            <3>1. dest[t] \in 1 .. created
                BY <2>0, <2>3 DEF Push, LocalsOf
            <3>2. created \in 0 .. MaxService /\ MaxService \in Nat
                BY <2>0, ConstantsAssumption DEF TypeOK
            <3>3. dest[t] \in Service
                BY <3>1, <3>2 DEF Service
            <3>. QED
                BY <2>3, <3>3, PushPosts DEF A!ActorNext
        <2>4. CASE EndRun(t)
            <3>1. cur[t] \in Service
                BY <2>0, <2>4 DEF EndRun, LocalsOf, Pushing, TypeOK, None
            <3>. QED
                BY <2>4, <3>1, EndRunFinishes DEF A!ActorNext
        <2>5. CASE Launch(t)
            <3>1. created + 1 \in Service
                BY <2>0, <2>5, ConstantsAssumption DEF Launch, Service
            <3>. QED
                BY <2>5, <3>1, LaunchRegisters DEF A!ActorNext
        <2>6. CASE Remove(t) \/ InitFail(t)
            BY <2>6, RemoveUnregisters DEF A!ActorNext
        <2>7. CASE \/ PopGlobal(t) \/ PopGlobalEmpty(t) \/ Wake(t) \/ FindContext(t)
                   \/ PopEmpty(t) \/ Check(t) \/ Length(t) \/ Keep(t)
                   \/ PopNext(t) \/ Requeue(t) \/ DropEnd(t) \/ Report(t) \/ Delete(t)
                   \/ ForceInGlobal(t) \/ InitOk(t) \/ \E d \in Service : Send(t, d) \/ Kill(t, d)
            BY <2>7, Stutters
        <2>. QED
            BY <1>2, <2>1, <2>2, <2>3, <2>4, <2>5, <2>6, <2>7, Zenon DEF Step, Choice
    <1>. QED
        BY <1>1, <1>2 DEF Next

\* On harbor 0 the invariant holds in every reachable state.
LEMMA ActorInvariant == ASSUME Harbor = 0 PROVE Spec => []ActorInv
PROOF
    <1>1. Harbor = 0
        OBVIOUS
    <1>2. ActorInv /\ [Next]_vars => ActorInv'
        BY <1>1, ActorKept
    <1>. QED
        BY <1>2, ActorInit, PTL DEF Spec

\* A service's messages are run one at a time and in the order of the pushes,
\* and are discarded only once it is removed: DispatchMessageQueue, the queues
\* and the release of a dead service's queue together implement module Actor,
\* whatever the threads, the weights and the number of services and messages.
THEOREM SchedulerIsActor == ASSUME Harbor = 0 PROVE Spec => ImplementsActor
PROOF
    <1>1. Spec => []ActorInv
        BY ActorInvariant
    <1>. QED
        BY <1>1, InitIsActor, NextIsActor, PTL DEF Spec, ImplementsActor, A!ActorSpec

\* The message a worker runs is older than all that still wait in its queue,
\* and SNMessageQueue keeps those in the order of the pushes.
THEOREM MessagesInOrder == ASSUME Harbor = 0 PROVE Spec => []InOrder
PROOF
    <1>1. ActorInv => InOrder
        <2>. SUFFICES ASSUME ActorInv, NEW s \in Queue
                      PROVE  /\ SeqInv(s)
                             /\ \A w \in Worker : RunInv(w)
            BY DEF InOrder, SeqInv, RunInv
        <2>1. s \in Service
            BY ConstantsAssumption DEF ActorInv, IndInv, TypeOK, Queue, Service
        <2>. QED
            BY <2>1 DEF ActorInv, Thread
    <1>2. Spec => []ActorInv
        BY ActorInvariant
    <1>. QED
        BY <1>1, <1>2, PTL

\* SNHandleMgr never finds a context whose message queue has been deleted.
THEOREM LookupFindsQueue == ASSUME Harbor = 0 PROVE Spec => []RegisteredHasQueue
PROOF
    <1>1. ActorInv => RegisteredHasQueue
        BY DEF ActorInv
    <1>2. Spec => []ActorInv
        BY ActorInvariant
    <1>. QED
        BY <1>1, <1>2, PTL
=============================================================================
