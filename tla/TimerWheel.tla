----------------------------- MODULE TimerWheel -----------------------------
(***************************************************************************)
(* The timer (sn_timer.cpp): a hierarchical wheel of lists.  The timers    *)
(* due before the low NEAR_SHIFT bits of the clock wrap are in the near    *)
(* lists, the others in four levels of lists; as the clock reaches a       *)
(* multiple of a level's span, one list of that level is spread over the   *)
(* lists below.  The timer thread ticks, the workers add timers.           *)
(*                                                                         *)
(* Each hold of the timer's spinlock is one step; the list whose time has  *)
(* come is taken under the lock and dispatched without it.  The clock and  *)
(* the expiry times are unsigned and wrap: their width is the 32 bits of   *)
(* the code, NEAR_SHIFT + 4 * LEVEL_SHIFT here.                            *)
(***************************************************************************)
EXTENDS Integers, Sequences, SequencesExt

CONSTANTS
    TIME_NEAR_SHIFT,    \* 8 in the code
    TIME_LEVEL_SHIFT,   \* 6 in the code
    Timer,              \* the timers
    Timeout,            \* the timeouts asked for: positive values of an int
    MaxDiff             \* bound: ticks the clock advanced between two readings

TIME_NEAR  == 2^TIME_NEAR_SHIFT
TIME_LEVEL == 2^TIME_LEVEL_SHIFT
Wrap       == 2^(TIME_NEAR_SHIFT + 4 * TIME_LEVEL_SHIFT)

ASSUME TimerAssumption ==
    /\ TIME_NEAR_SHIFT \in Nat \ {0}
    /\ TIME_LEVEL_SHIFT \in Nat \ {0}
    /\ Timeout \subseteq 1 .. Wrap \div 2 - 1
    /\ MaxDiff \in Nat

VARIABLES
    time,     \* T->time
    lists,    \* lists[l][k]: near_[k] for l = 0, t[l - 1][k] for l in 1 .. 4
    expire,   \* expire[n]
    pc,       \* where the timer thread is in timer_update
    todo,     \* ticks still to run of the last reading of the clock
    batch,    \* the list that dispatch_list is working through
    order     \* history: the timers not dispatched, in the order they were added

vars == <<time, lists, expire, pc, todo, batch, order>>

Slots(l) == 0 .. (IF l = 0 THEN TIME_NEAR ELSE TIME_LEVEL) - 1

Init ==
    /\ time = 0
    /\ lists = [l \in 0 .. 4 |-> [k \in Slots(l) |-> <<>>]]
    /\ expire = [n \in Timer |-> 0]
    /\ pc = "updatetime"
    /\ todo = 0
    /\ batch = <<>>
    /\ order = <<>>

-----------------------------------------------------------------------------
\* The span of time a list of level l stands for.
Span(l) == IF l = 0 THEN 1 ELSE TIME_NEAR * TIME_LEVEL^(l - 1)

\* add_node: the first level whose lists reach as far as the expiry time, seen
\* from the time ct, and the list of that level for it.
Level(e, ct) ==
    CHOOSE l \in 0 .. 4 :
        /\ l = 4 \/ e \div Span(l + 1) = ct \div Span(l + 1)
        /\ \A m \in 0 .. l - 1 : e \div Span(m + 1) # ct \div Span(m + 1)

Index(e, l) == (e \div Span(l)) % (IF l = 0 THEN TIME_NEAR ELSE TIME_LEVEL)

AddNode(ls, n, e, ct) ==
    LET l == Level(e, ct) IN [ls EXCEPT ![l][Index(e, l)] = Append(@, n)]

\* move_list: a list is emptied, and its timers are added again one by one.
MoveList(ls, l, k, ct) ==
    FoldLeft(LAMBDA acc, n : AddNode(acc, n, expire[n], ct),
             [ls EXCEPT ![l][k] = <<>>], ls[l][k])

\* timer_add, by any thread.
TimerAdd(n, d) ==
    /\ n \notin Range(order)
    /\ expire' = [expire EXCEPT ![n] = (time + d) % Wrap]
    /\ lists' = AddNode(lists, n, (time + d) % Wrap, time)
    /\ order' = Append(order, n)
    /\ UNCHANGED <<time, pc, todo, batch>>

\* skynet_updatetime reads a clock that has moved on by diff ticks.
UpdateTime ==
    /\ pc = "updatetime"
    /\ todo = 0
    /\ \E diff \in 1 .. MaxDiff : todo' = diff
    /\ UNCHANGED <<time, lists, expire, pc, batch, order>>

\* The loop of skynet_updatetime calls timer_update.
TimerUpdate ==
    /\ pc = "updatetime"
    /\ todo > 0
    /\ todo' = todo - 1
    /\ pc' = "execute0"
    /\ UNCHANGED <<time, lists, expire, batch, order>>

\* timer_execute, before and after the shift: the near list of this tick is
\* taken, and dispatched until there is none.
Execute ==
    /\ pc \in {"execute0", "execute"}
    /\ batch = <<>>
    /\ lists[0][time % TIME_NEAR] # <<>>
    /\ batch' = lists[0][time % TIME_NEAR]
    /\ lists' = [lists EXCEPT ![0][time % TIME_NEAR] = <<>>]
    /\ UNCHANGED <<time, expire, pc, todo, order>>

ExecuteEnd ==
    /\ pc \in {"execute0", "execute"}
    /\ batch = <<>>
    /\ lists[0][time % TIME_NEAR] = <<>>
    /\ pc' = IF pc = "execute0" THEN "shift" ELSE "updatetime"
    /\ UNCHANGED <<time, lists, expire, todo, batch, order>>

\* One round of dispatch_list: the timer's message is pushed and it is freed.
Dispatch ==
    /\ batch # <<>>
    /\ batch' = Tail(batch)
    /\ order' = SelectSeq(order, LAMBDA n : n # Head(batch))
    /\ expire' = [expire EXCEPT ![Head(batch)] = 0]
    /\ UNCHANGED <<time, lists, pc, todo>>

\* Mutant of Shifted: nothing is moved when the clock wraps.
ShiftedNoWrap(ls, ct) ==
    LET ends == {l \in 1 .. 4 : ct % Span(l) = 0 /\ Index(ct, l) # 0}
    IN  IF ends = {} THEN ls
        ELSE LET l == CHOOSE l \in ends : TRUE
             IN  MoveList(ls, l, Index(ct, l), ct)

\* The list that timer_shift moves when the clock has become ct: of the level
\* of ct's lowest digit that is not zero, if the digits below are, and of the
\* highest level when the clock has wrapped.
Shifted(ls, ct) ==
    IF ct = 0 THEN MoveList(ls, 4, 0, ct)
    ELSE LET ends == {l \in 1 .. 4 : /\ ct % Span(l) = 0
                                     /\ Index(ct, l) # 0}
         IN  IF ends = {} THEN ls
             ELSE LET l == CHOOSE l \in ends : TRUE
                  IN  MoveList(ls, l, Index(ct, l), ct)

TimerShift ==
    /\ pc = "shift"
    /\ time' = (time + 1) % Wrap
    /\ lists' = Shifted(lists, time')
    /\ pc' = "execute"
    /\ UNCHANGED <<expire, todo, batch, order>>

Next ==
    \/ UpdateTime \/ TimerUpdate \/ Execute \/ ExecuteEnd \/ Dispatch \/ TimerShift
    \/ \E n \in Timer, d \in Timeout : TimerAdd(n, d)

Spec == Init /\ [][Next]_vars

-----------------------------------------------------------------------------
(***************************************************************************)
(* The wheel implements the alarm clock: a timer goes off at the tick it   *)
(* was set for, neither early nor late, once, and in the order of setting  *)
(* among those of its tick, at every level and across the wrap of the      *)
(* clock.                                                                  *)
(***************************************************************************)
A == INSTANCE Alarm WITH
        pending   <- order,
        ticksLeft <- [n \in Timer |-> IF n \in Range(order)
                                        THEN (expire[n] - time) % Wrap
                                        ELSE 0]

ImplementsAlarm == A!AlarmSpec
=============================================================================
