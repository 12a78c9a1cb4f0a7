----------------------------- MODULE LuaRuntime -----------------------------
(***************************************************************************)
(* The runtime of a Lua service (skynet.lua): one message at a time makes  *)
(* or resumes a coroutine, which runs until it waits, ends or fails; then  *)
(* suspend resumes the coroutines that were woken up and those whose calls *)
(* have failed, and dispatch_message starts the forked ones.  An error     *)
(* that is thrown on the way ends all this but the forks: what was queued  *)
(* then waits for the next message.                                        *)
(*                                                                         *)
(* A coroutine does any of the things a service does, in any order; the    *)
(* requests are calls of service "A", calls go to service "B".  The        *)
(* critical sections are those of one skynet.queue.  The counts of         *)
(* watching_service decide nothing here: a service that has sent a message *)
(* is watched while it is dispatched.  Only coroutines of requests answer. *)
(***************************************************************************)
EXTENDS Integers, Sequences, FiniteSets, SequencesExt

CONSTANTS
    MaxCo,          \* bound: coroutines
    MaxReq,         \* bound: requests
    Ops,            \* what the coroutines do
    MaxOps          \* bound: how much of it, in all

VARIABLES
    rt,             \* the tables of skynet.lua, where dispatch_message is, and the queue
    co,             \* the coroutines
    req             \* the requests: the coroutine of each, and the answers sent to A

Co == 1 .. MaxCo
Session == 1 .. MaxOps
None == 0
BREAK == -1

\* wait: the session waited for; lock: it waits in the queue; nest: how often it is
\* in the critical section; req: session_coroutine_id; resp: session_response.
NoCo == [st |-> "none", wait |-> None, lock |-> FALSE, nest |-> 0, req |-> None, resp |-> "none"]

\* at: the coroutine that runs, or what comes next; depth: dispatch_wakeup calls of
\* suspend that have not returned; stray: a coroutine was resumed in another wait;
\* outlived: one was resumed by its timer, and a wake-up for it is still to come.
Init ==
    /\ rt = [sid |-> [s \in Session |-> None], sleep |-> [c \in Co |-> None], wake |-> {},
             watch |-> {}, dead |-> {}, errors |-> <<>>, forks |-> {},
             at |-> "idle", depth |-> 0, last |-> 0, ops |-> 0, timers |-> {}, calls |-> {},
             thread |-> None, ref |-> 0, queue |-> <<>>, exited |-> FALSE,
             stray |-> FALSE, outlived |-> FALSE]
    /\ co = [c \in Co |-> NoCo]
    /\ req = <<>>

Runs(c) == rt.at = "run" /\ co[c].st = "run"
Ready == {c \in Co : co[c].st = "none"}
NewCo == CHOOSE c \in Ready : \A d \in Ready : c <= d

-----------------------------------------------------------------------------
(* suspend.  R is the runtime, C the coroutines after what went before.     *)

\* What a waiting coroutine does first when it is resumed.
Resume(C, c) == [C EXCEPT ![c].st = "run", ![c].wait = None]

\* After CALL, SLEEP and EXIT; and an error leaves all of it.
Suspended(R) == [R EXCEPT !.at = "wakeup"]
Throw(R) == [R EXCEPT !.at = "fork", !.depth = 0]
Returns(R) == IF R.depth > 0 THEN [R EXCEPT !.at = "errors", !.depth = @ - 1]
              ELSE [R EXCEPT !.at = "fork"]

\* The mark on the session of a coroutine that is woken up.  Mutant: none.
BreakNot(R, s) == R
Break(R, s) == [R EXCEPT !.sid[s] = BREAK]

\* skynet.wait takes the mark away, skynet.sleep leaves it to the timer.
Awake(R, s) == IF s \in R.timers THEN Break(R, s) ELSE [R EXCEPT !.sid[s] = None]

dispatch_wakeup ==
    /\ rt.at = "wakeup"
    /\ \/ /\ rt.wake = {}
          /\ rt' = [rt EXCEPT !.at = "errors"]
          /\ UNCHANGED co
       \/ \E c \in rt.wake :
             LET R == [rt EXCEPT !.wake = @ \ {c}]
                 s == rt.sleep[c]
             IN  IF s = None
                 THEN rt' = [R EXCEPT !.at = "errors"] /\ UNCHANGED co
                 ELSE /\ rt' = [Awake(R, s) EXCEPT !.sleep[c] = None, !.at = "run", !.depth = @ + 1]
                      /\ co' = Resume(co, c)
    /\ UNCHANGED req

\* A session that was answered meanwhile has no coroutine: resume throws.
dispatch_error_queue ==
    /\ rt.at = "errors"
    /\ IF rt.errors = <<>>
       THEN rt' = Returns(rt) /\ UNCHANGED co
       ELSE LET s == Head(rt.errors)
                R == [rt EXCEPT !.errors = Tail(@), !.sid[s] = None, !.watch = @ \ {s}]
            IN  IF rt.sid[s] = None
                THEN rt' = Throw(R) /\ UNCHANGED co
                ELSE /\ rt' = [R EXCEPT !.at = "run"]
                     /\ co' = Resume(co, rt.sid[s])
    /\ UNCHANGED req

\* The end of dispatch_message.
DispatchForks ==
    /\ rt.at = "fork"
    /\ \/ /\ rt.forks = {}
          /\ rt' = [rt EXCEPT !.at = "idle"]
          /\ UNCHANGED co
       \/ \E c \in rt.forks :
             /\ rt' = [rt EXCEPT !.forks = @ \ {c}, !.at = "run"]
             /\ co' = [co EXCEPT ![c].st = "run"]
    /\ UNCHANGED req

-----------------------------------------------------------------------------
(* raw_dispatch_message *)

Idle == rt.at = "idle" /\ ~rt.exited

\* A request; its coroutine runs.
Request ==
    /\ Idle /\ Len(req) < MaxReq /\ Ready # {} /\ "A" \notin rt.dead
    /\ rt' = [rt EXCEPT !.at = "run"]
    /\ co' = [co EXCEPT ![NewCo].st = "run", ![NewCo].req = Len(req) + 1]
    /\ req' = Append(req, [co |-> NewCo, response |-> 0, error |-> 0, late |-> FALSE])

\* A response: of service B, or of a timer.
Response(s) ==
    /\ LET c == rt.sid[s]
           R == [rt EXCEPT !.sid[s] = None, !.timers = @ \ {s}, !.calls = @ \ {<<s, "response">>}]
       IN  CASE c = BREAK -> rt' = [R EXCEPT !.at = "fork"] /\ UNCHANGED co
             [] c = None  -> rt' = Throw(R) /\ UNCHANGED co
             [] OTHER     -> /\ rt' = [R EXCEPT !.at = "run", !.sleep[c] = None, !.watch = @ \ {s},
                                                !.stray = @ \/ co[c].wait # s, !.outlived = @ \/ c \in rt.wake]
                             /\ co' = Resume(co, c)
    /\ UNCHANGED req
Answer == Idle /\ "B" \notin rt.dead /\ \E s \in Session : <<s, "response">> \in rt.calls /\ Response(s)
Timer == Idle /\ \E s \in rt.timers : Response(s)

\* _error_dispatch, in a coroutine of its own that ends at once.
Errors(q, R) == rt' = Suspended([R EXCEPT !.errors = @ \o q])
ErrorDispatch ==
    /\ Idle /\ "B" \notin rt.dead
    /\ \E s \in Session : /\ <<s, "error">> \in rt.calls
                          /\ Errors(IF s \in rt.watch THEN <<s>> ELSE <<>>,
                                    [rt EXCEPT !.calls = @ \ {<<s, "error">>}])
    /\ UNCHANGED <<co, req>>

ServiceDown(a) ==
    /\ Idle /\ a \notin rt.dead
    /\ \E q \in SetToSeqs(IF a = "B" THEN rt.watch ELSE {}) : Errors(q, [rt EXCEPT !.dead = @ \cup {a}])
    /\ UNCHANGED <<co, req>>

-----------------------------------------------------------------------------
(* What a running coroutine does. *)

Op(c, op) == Runs(c) /\ ~co[c].lock /\ op \in Ops /\ rt.ops < MaxOps
Did(R) == [R EXCEPT !.ops = @ + 1]

\* yield in a new session
Yield(R, c) == [Suspended(R) EXCEPT !.last = @ + 1, !.sid[R.last + 1] = c]
Waiting(C, c) == [C EXCEPT ![c].st = "wait", ![c].wait = rt.last + 1]
Sleeps(R, c) == [Yield(R, c) EXCEPT !.sleep[c] = R.last + 1]

call(c) ==
    /\ Op(c, "call")
    /\ rt' = [Yield(Did(rt), c) EXCEPT !.watch = @ \cup {rt.last + 1},
                 !.calls = @ \cup {<<rt.last + 1, "response">>, <<rt.last + 1, "error">>}]
    /\ co' = Waiting(co, c)
    /\ UNCHANGED req

sleep(c) ==
    /\ Op(c, "sleep")
    /\ rt' = [Sleeps(Did(rt), c) EXCEPT !.timers = @ \cup {rt.last + 1}]
    /\ co' = Waiting(co, c)
    /\ UNCHANGED req

timeout(c) ==
    /\ Op(c, "timeout") /\ Ready # {}
    /\ rt' = [Did(rt) EXCEPT !.last = @ + 1, !.sid[rt.last + 1] = NewCo, !.timers = @ \cup {rt.last + 1}]
    /\ co' = Waiting(co, NewCo)
    /\ UNCHANGED req

wait(c) ==
    /\ Op(c, "wait")
    /\ rt' = Sleeps(Did(rt), c)
    /\ co' = Waiting(co, c)
    /\ UNCHANGED req

Wakeup(R, d) == IF d # None /\ R.sleep[d] # None THEN [R EXCEPT !.wake = @ \cup {d}] ELSE R
wakeup(c) ==
    /\ Op(c, "wakeup")
    /\ \E d \in Co : co[d].st = "wait" /\ ~co[d].lock /\ rt' = Wakeup(Did(rt), d)
    /\ UNCHANGED <<co, req>>

fork(c) ==
    /\ Op(c, "fork") /\ Ready # {}
    /\ rt' = [Did(rt) EXCEPT !.forks = @ \cup {NewCo}]
    /\ co' = [co EXCEPT ![NewCo].st = "ready"]
    /\ UNCHANGED req

Sends(Q, r, ok) ==
    IF "A" \in rt.dead THEN Q
    ELSE IF ok THEN [Q EXCEPT ![r].response = @ + 1, ![r].late = @ \/ Q[r].error > 0]
    ELSE [Q EXCEPT ![r].error = @ + 1]

\* RETURN and RESPONSE throw when there was one already, and the coroutine is never
\* resumed.  Mutant: no such test.
AnsweredNever(c) == FALSE
Answered(c) == co[c].resp # "none"
AnswersTwice(c) ==
    /\ Answered(c)
    /\ rt' = Throw(Did(rt))
    /\ co' = [co EXCEPT ![c].st = "lost"]
    /\ UNCHANGED req

ret(c) ==
    /\ Op(c, "ret") /\ co[c].req # None
    /\ \/ AnswersTwice(c)
       \/ /\ ~Answered(c)
          /\ rt' = Did(rt)
          /\ co' = [co EXCEPT ![c].resp = "sent"]
          /\ req' = Sends(req, co[c].req, TRUE)

response(c) ==
    /\ Op(c, "response") /\ co[c].req # None
    /\ \/ AnswersTwice(c)
       \/ /\ ~Answered(c)
          /\ rt' = Did(rt)
          /\ co' = [co EXCEPT ![c].resp = "later"]
          /\ req' = [req EXCEPT ![co[c].req].co = None]

\* The function that response returned, called by any coroutine: once.
Respond(c) ==
    /\ Op(c, "respond")
    /\ \E r \in DOMAIN req, ok \in BOOLEAN :
          /\ req[r].co = None
          /\ req' = Sends([req EXCEPT ![r].co = -1], r, ok)
    /\ rt' = Did(rt)
    /\ UNCHANGED co

\* The function of the coroutine returns.
Ended(c, st) == [co EXCEPT ![c] = [NoCo EXCEPT !.st = st]]
EXIT(c) ==
    /\ Runs(c) /\ ~co[c].lock /\ co[c].nest = 0
    /\ rt' = Suspended(rt)
    /\ co' = Ended(c, "done")
    /\ UNCHANGED req

\* An error that nothing catches; its caller is told.
Told(c) == IF co[c].req = None THEN req
           ELSE [req EXCEPT ![co[c].req].error = @ + 1]
Dies(R, c) == rt' = Throw(R) /\ co' = Ended(c, "dead") /\ req' = Told(c)
Fails(c) == Op(c, "fail") /\ co[c].nest = 0 /\ Dies(Did(rt), c)

\* skynet.exit: the callers are told, and QUIT.  (So is B; what B gets is not kept.)
exit(c) ==
    /\ Op(c, "exit")
    /\ rt' = Returns([Did(rt) EXCEPT !.exited = TRUE, !.forks = {}])
    /\ co' = [co EXCEPT ![c].st = "lost"]
    /\ req' = [r \in DOMAIN req |->
                 IF \E d \in Co : co[d].req = r THEN [req[r] EXCEPT !.error = @ + 1] ELSE req[r]]

-----------------------------------------------------------------------------
(* skynet.queue *)

\* Whether a coroutine has to wait for the critical section.  Mutant: not for one
\* that was chosen and has not woken up yet.
HasToWaitInside(c) == rt.thread \notin {None, c} /\ rt.ref > 0
HasToWait(c) == rt.thread \notin {None, c}

Enter(R, c) == rt' = [R EXCEPT !.thread = c, !.ref = @ + 1]
lock(c) ==
    /\ Op(c, "lock")
    /\ IF HasToWait(c)
       THEN /\ rt' = [Sleeps(Did(rt), c) EXCEPT !.queue = Append(@, c)]
            /\ co' = [Waiting(co, c) EXCEPT ![c].lock = TRUE]
       ELSE /\ Enter(Did(rt), c)
            /\ co' = [co EXCEPT ![c].nest = @ + 1]
    /\ UNCHANGED req

\* wait returns: assert(ref == 0)
locked(c) ==
    /\ Runs(c) /\ co[c].lock
    /\ IF rt.ref = 0
       THEN /\ Enter(rt, c)
            /\ co' = [co EXCEPT ![c].nest = 1, ![c].lock = FALSE]
            /\ UNCHANGED req
       ELSE Dies(rt, c)

\* f has returned, or has failed and its error is thrown again.
unlock(c) ==
    /\ Runs(c) /\ co[c].nest > 0
    /\ LET next == IF rt.queue = <<>> THEN None ELSE Head(rt.queue)
           R == IF rt.ref > 1 THEN [rt EXCEPT !.ref = @ - 1]
                ELSE Wakeup([rt EXCEPT !.ref = 0, !.thread = next,
                                       !.queue = IF @ = <<>> THEN @ ELSE Tail(@)], next)
       IN  \/ /\ rt' = R
              /\ co' = [co EXCEPT ![c].nest = @ - 1]
              /\ UNCHANGED req
           \/ co[c].nest = 1 /\ "fail" \in Ops /\ rt.ops < MaxOps /\ Dies(Did(R), c)

Step(c) ==
    \/ call(c) \/ timeout(c) \/ sleep(c) \/ wait(c) \/ wakeup(c) \/ fork(c)
    \/ ret(c) \/ response(c) \/ Respond(c) \/ EXIT(c) \/ Fails(c) \/ exit(c) \/ lock(c) \/ locked(c) \/ unlock(c)

Next ==
    \/ \E c \in Co : Step(c)
    \/ dispatch_wakeup \/ dispatch_error_queue \/ DispatchForks
    \/ Request \/ Answer \/ Timer \/ ErrorDispatch \/ \E a \in {"A", "B"} : ServiceDown(a)

-----------------------------------------------------------------------------
(***************************************************************************)
(* A response resumes the coroutine that waits for it and no other: the    *)
(* session of a wait leads to its coroutine, and no other session does,    *)
(* until the coroutine is resumed.  The response of a timer that was       *)
(* overtaken by a wake-up, or of a call that was given up, resumes nobody. *)
(***************************************************************************)
ResumedOnce ==
    /\ ~rt.stray
    /\ \A c \in Co : {s \in Session : rt.sid[s] = c} =
                         (IF co[c].st = "wait" THEN {co[c].wait} ELSE {})

(***************************************************************************)
(* A caller gets at most one response, and none after an error unless the  *)
(* response was put off (skynet.response).  It is told when the coroutine  *)
(* of its request fails unanswered, and when the service exits before that *)
(* coroutine is over.                                                      *)
(***************************************************************************)
CallerIsTold ==
    \A r \in DOMAIN req :
        /\ req[r].response <= 1
        /\ req[r].co > 0 => ~req[r].late
        /\ req[r].co > 0 /\ co[req[r].co].st = "dead" => req[r].response + req[r].error > 0
        /\ rt.exited /\ (\E c \in Co : co[c].req = r) => req[r].error > 0

(***************************************************************************)
(* skynet.queue: one coroutine at a time is in the critical section, and   *)
(* its hand-over to the next one is not lost, also when the coroutine that *)
(* leaves fails and suspend is left by an error: the next one has its      *)
(* wake-up to come, and the others are in the queue.  (A wake-up that      *)
(* outlived its sleep can wake up a coroutine in the queue, out of turn.)  *)
(***************************************************************************)
QueueHandsOver ==
    ~rt.outlived =>
        /\ \A c \in Co : co[c].nest > 0 => rt.thread = c /\ rt.ref = co[c].nest
        /\ rt.thread # None /\ rt.ref = 0 =>
              co[rt.thread].lock /\ (rt.thread \in rt.wake \/ co[rt.thread].st = "run")
        /\ \A c \in Co : co[c].lock /\ c # rt.thread => c \in ToSet(rt.queue)
=============================================================================
