------------------------------ MODULE Threads ------------------------------
(***************************************************************************)
(* The threads of the server (sn_start.cpp): workers that sleep on a       *)
(* condition variable when there is nothing to dispatch, the timer thread  *)
(* whose tick wakes one of them, the socket and monitor threads, and the   *)
(* main thread that joins them all once the exit signal has come.          *)
(*                                                                         *)
(* The schedule itself is a counter here, ready: how many message queues   *)
(* are in the global queue (module Scheduler has the queues).  A worker's  *)
(* DispatchMessageQueue takes one or returns NULL; the callbacks it runs,  *)
(* the timers that expire and the socket events make more ready.           *)
(***************************************************************************)
EXTENDS Integers, FiniteSets

CONSTANTS
    Worker,     \* the worker threads
    MaxPost     \* bound: how often a queue becomes ready after the start

VARIABLES
    exit,      \* m_bExit, set by the signal handler
    ready,     \* message queues in the global queue
    posts,     \* how often a queue became ready
    sleep,     \* monitor.sleep
    mutex,     \* the worker that holds monitor.m_mutex, or Free
    wpc,       \* where each worker is
    tpc,       \* where the timer thread is
    spc,       \* where the socket thread is
    mpc,       \* where the monitor thread is
    main,      \* where the main thread is
    xcmd       \* the socket thread was sent the 'X' command

threadsVars == <<exit, ready, posts, sleep, mutex, wpc, tpc, spc, mpc, main, xcmd>>

Free  == "free"
count == Cardinality(Worker)

ASSUME ThreadsAssumption == IsFiniteSet(Worker) /\ Free \notin Worker /\ MaxPost \in Nat

\* skynet_start has launched the first services; one queue is ready.
ThreadsInit ==
    /\ exit = FALSE
    /\ ready = 1
    /\ posts = 0
    /\ sleep = 0
    /\ mutex = Free
    /\ wpc = [w \in Worker |-> "dispatch"]
    /\ tpc = "update"
    /\ spc = "check"
    /\ mpc = "loop"
    /\ main = "socket"
    /\ xcmd = FALSE

-----------------------------------------------------------------------------
(* Shared operations.                                                      *)

\* A push puts a queue into the global queue.
MakeReady ==
    /\ posts < MaxPost
    /\ posts' = posts + 1
    /\ ready' = ready + 1

\* cond.notify_all and cond.notify_one; neither reaches a worker that has not
\* started to wait.
NotifyAll ==
    wpc' = [w \in Worker |-> IF wpc[w] = "waiting" THEN "signalled" ELSE wpc[w]]

NotifyOne ==
    \/ /\ \A w \in Worker : wpc[w] # "waiting"
       /\ wpc' = wpc
    \/ \E w \in Worker : /\ wpc[w] = "waiting"
                         /\ wpc' = [wpc EXCEPT ![w] = "signalled"]

-----------------------------------------------------------------------------
(* The workers.                                                            *)

Dispatch(w) ==
    /\ wpc[w] = "dispatch"
    /\ ready > 0
    /\ ready' = ready - 1
    /\ wpc' = [wpc EXCEPT ![w] = "busy"]
    /\ UNCHANGED <<exit, posts, sleep, mutex, tpc, spc, mpc, main, xcmd>>

\* A callback sends a message.
Post(w) ==
    /\ wpc[w] = "busy"
    /\ MakeReady
    /\ UNCHANGED <<exit, sleep, mutex, wpc, tpc, spc, mpc, main, xcmd>>

Done(w) ==
    /\ wpc[w] = "busy"
    /\ wpc' = [wpc EXCEPT ![w] = "dispatch"]
    /\ UNCHANGED <<exit, ready, posts, sleep, mutex, tpc, spc, mpc, main, xcmd>>

\* DispatchMessageQueue returns NULL; the worker does not hold the mutex yet.
NoWork(w) ==
    /\ wpc[w] = "dispatch"
    /\ ready = 0
    /\ wpc' = [wpc EXCEPT ![w] = "lock"]
    /\ UNCHANGED <<exit, ready, posts, sleep, mutex, tpc, spc, mpc, main, xcmd>>

LockSleep(w) ==
    /\ wpc[w] = "lock"
    /\ mutex = Free
    /\ mutex' = w
    /\ sleep' = sleep + 1
    /\ wpc' = [wpc EXCEPT ![w] = "wait"]
    /\ UNCHANGED <<exit, ready, posts, tpc, spc, mpc, main, xcmd>>

\* cond.wait releases the mutex and starts to wait in one step.
Wait(w) ==
    /\ wpc[w] = "wait"
    /\ mutex' = Free
    /\ wpc' = [wpc EXCEPT ![w] = "waiting"]
    /\ UNCHANGED <<exit, ready, posts, sleep, tpc, spc, mpc, main, xcmd>>

Spurious(w) ==
    /\ wpc[w] = "waiting"
    /\ wpc' = [wpc EXCEPT ![w] = "signalled"]
    /\ UNCHANGED <<exit, ready, posts, sleep, mutex, tpc, spc, mpc, main, xcmd>>

\* Mutants of Resume: --sleep comes before CHECK_ABORT; there is no CHECK_ABORT.
ResumeCounts(w) ==
    /\ wpc[w] = "signalled"
    /\ mutex = Free
    /\ sleep' = sleep - 1
    /\ wpc' = [wpc EXCEPT ![w] = IF exit THEN "exited" ELSE "dispatch"]
    /\ UNCHANGED <<exit, ready, posts, mutex, tpc, spc, mpc, main, xcmd>>

ResumeAlways(w) ==
    /\ wpc[w] = "signalled"
    /\ mutex = Free
    /\ sleep' = sleep - 1
    /\ wpc' = [wpc EXCEPT ![w] = "dispatch"]
    /\ UNCHANGED <<exit, ready, posts, mutex, tpc, spc, mpc, main, xcmd>>

\* cond.wait returns with the mutex; CHECK_ABORT leaves the loop before the
\* worker is taken off the count.
Resume(w) ==
    /\ wpc[w] = "signalled"
    /\ mutex = Free
    /\ IF exit
         THEN /\ wpc' = [wpc EXCEPT ![w] = "exited"]
              /\ sleep' = sleep
         ELSE /\ wpc' = [wpc EXCEPT ![w] = "dispatch"]
              /\ sleep' = sleep - 1
    /\ UNCHANGED <<exit, ready, posts, mutex, tpc, spc, mpc, main, xcmd>>

WorkerStep(w) ==
    \/ Dispatch(w) \/ Done(w) \/ NoWork(w)
    \/ LockSleep(w) \/ Wait(w) \/ Resume(w)

-----------------------------------------------------------------------------
(* The timer thread.                                                       *)

\* skynet_updatetime; a timer that expires pushes a message.
Update ==
    /\ tpc = "update"
    /\ tpc' = "check"
    /\ \/ MakeReady
       \/ UNCHANGED <<ready, posts>>
    /\ UNCHANGED <<exit, sleep, mutex, wpc, spc, mpc, main, xcmd>>

CheckAbort ==
    /\ tpc = "check"
    /\ tpc' = IF exit THEN "exit" ELSE "wakeup"
    /\ UNCHANGED <<exit, ready, posts, sleep, mutex, wpc, spc, mpc, main, xcmd>>

\* Mutant of Wakeup: > for >=, with no worker allowed busy.
WakeupStrict ==
    /\ tpc = "wakeup"
    /\ tpc' = "update"
    /\ IF sleep > count THEN NotifyOne ELSE wpc' = wpc
    /\ UNCHANGED <<exit, ready, posts, sleep, mutex, spc, mpc, main, xcmd>>

\* wakeup(m, m->count - 1), then the 10 ms of sleep.  sleep is read unlocked.
Wakeup ==
    /\ tpc = "wakeup"
    /\ tpc' = "update"
    /\ IF sleep >= count - (count - 1) THEN NotifyOne ELSE wpc' = wpc
    /\ UNCHANGED <<exit, ready, posts, sleep, mutex, spc, mpc, main, xcmd>>

\* The end of the timer thread: skynet_socket_exit, then notify_all.
SocketExit ==
    /\ tpc = "exit"
    /\ tpc' = "notify"
    /\ xcmd' = TRUE
    /\ UNCHANGED <<exit, ready, posts, sleep, mutex, wpc, spc, mpc, main>>

TimerEnd ==
    /\ tpc = "notify"
    /\ tpc' = "done"
    /\ NotifyAll
    /\ UNCHANGED <<exit, ready, posts, sleep, mutex, spc, mpc, main, xcmd>>

TimerStep == Update \/ CheckAbort \/ Wakeup \/ SocketExit \/ TimerEnd

-----------------------------------------------------------------------------
(* The socket, monitor and main threads, and the signal handler.           *)

SocketCheck ==
    /\ spc = "check"
    /\ spc' = IF exit THEN "done" ELSE "poll"
    /\ UNCHANGED <<exit, ready, posts, sleep, mutex, wpc, tpc, mpc, main, xcmd>>

\* skynet_socket_poll: an event sends a message to a service; the poll returns
\* -1, so the wakeup after it is never reached...
SocketEvent ==
    /\ spc = "poll"
    /\ MakeReady
    /\ spc' = "check"
    /\ UNCHANGED <<exit, sleep, mutex, wpc, tpc, mpc, main, xcmd>>

\* ... or the 'X' command ends the poll.
SocketCommand ==
    /\ spc = "poll"
    /\ xcmd
    /\ spc' = "check"
    /\ UNCHANGED <<exit, ready, posts, sleep, mutex, wpc, tpc, mpc, main, xcmd>>

\* _monitor leaves its loop at CHECK_ABORT.
MonitorEnd ==
    /\ mpc = "loop"
    /\ exit
    /\ mpc' = "done"
    /\ UNCHANGED <<exit, ready, posts, sleep, mutex, wpc, tpc, spc, main, xcmd>>

\* _start, after it has made the threads.
Join ==
    /\ \/ main = "socket"  /\ spc = "done" /\ main' = "timer"
       \/ main = "timer"   /\ tpc = "done" /\ main' = "monitor"
       \/ main = "monitor" /\ mpc = "done" /\ main' = "poll"
       \/ main = "poll"    /\ sleep = count /\ main' = "notify"
       \/ /\ main = "workers"
          /\ \A w \in Worker : wpc[w] = "exited"
          /\ main' = "released"
    /\ UNCHANGED <<exit, ready, posts, sleep, mutex, wpc, tpc, spc, mpc, xcmd>>

MainNotify ==
    /\ main = "notify"
    /\ main' = "workers"
    /\ NotifyAll
    /\ UNCHANGED <<exit, ready, posts, sleep, mutex, tpc, spc, mpc, xcmd>>

\* OnSignal, in the main thread or one of its own.
Signal ==
    /\ ~exit
    /\ exit' = TRUE
    /\ UNCHANGED <<ready, posts, sleep, mutex, wpc, tpc, spc, mpc, main, xcmd>>

-----------------------------------------------------------------------------
ThreadsNext ==
    \/ \E w \in Worker : WorkerStep(w) \/ Post(w) \/ Spurious(w)
    \/ TimerStep
    \/ SocketCheck \/ SocketEvent \/ SocketCommand
    \/ MonitorEnd \/ Join \/ MainNotify \/ Signal

ThreadsSpec == ThreadsInit /\ [][ThreadsNext]_threadsVars

(***************************************************************************)
(* Every thread that can run does, and callbacks return.  A worker that    *)
(* wants the mutex gets it.  Nothing makes events, signals, timers or      *)
(* spurious wake-ups happen.                                               *)
(***************************************************************************)
Fairness ==
    /\ \A w \in Worker :
          /\ WF_threadsVars(Dispatch(w) \/ Done(w) \/ NoWork(w) \/ Wait(w))
          /\ SF_threadsVars(LockSleep(w))
          /\ SF_threadsVars(Resume(w))
    /\ WF_threadsVars(TimerStep)
    /\ WF_threadsVars(SocketCheck \/ SocketCommand)
    /\ WF_threadsVars(MonitorEnd)
    /\ WF_threadsVars(Join)
    /\ WF_threadsVars(MainNotify)

FairSpec == ThreadsSpec /\ Fairness

-----------------------------------------------------------------------------
(* Properties.                                                             *)

(***************************************************************************)
(* The count that wakeup and _start read without the mutex is the number   *)
(* of workers between ++sleep and --sleep, those that left the loop        *)
(* included: _start's wait for sleep = count is a wait for every worker.   *)
(***************************************************************************)
SleepCount ==
    sleep = Cardinality({w \in Worker :
                           wpc[w] \in {"wait", "waiting", "signalled", "exited"}})

(***************************************************************************)
(* Until the exit signal a ready queue is dispatched, though the worker    *)
(* that slept may have missed the notification: the timer repeats it.      *)
(***************************************************************************)
ReadyIsDispatched == ready > 0 ~> ready = 0 \/ exit

\* No worker leaves its loop unless the exit signal has come, and then none is
\* taken off the count: the main thread's wait cannot be undone.
SleepersStay ==
    [][(main \in {"notify", "workers", "released"}) => sleep' = sleep]_threadsVars

\* "wait for the worker threads to dispatch all the messages and then come out"
\* (_start, step 3): they do come out, and the server is released.
Terminates == exit ~> main = "released"
=============================================================================
