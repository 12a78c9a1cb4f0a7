------------------------------- MODULE Alarm -------------------------------
(***************************************************************************)
(* What the timer promises: a timer set to go off in n ticks goes off n    *)
(* ticks later, before the clock ticks again; timers due at the same tick  *)
(* go off in the order in which they were set; each goes off once.         *)
(***************************************************************************)
EXTENDS Naturals, Sequences

CONSTANTS
    Timer,     \* the timers
    Timeout    \* the timeouts that may be asked for

VARIABLES
    pending,   \* the timers set and not gone off, in the order they were set
    ticksLeft  \* ticksLeft[n]: the ticks until pending timer n is due

alarmVars == <<pending, ticksLeft>>

AlarmInit ==
    /\ pending = <<>>
    /\ ticksLeft = [n \in Timer |-> 0]

Set(n, d) ==
    /\ \A i \in 1 .. Len(pending) : pending[i] # n
    /\ pending' = Append(pending, n)
    /\ ticksLeft' = [ticksLeft EXCEPT ![n] = d]

\* The first of the timers that are due goes off.
Fire(i) ==
    /\ ticksLeft[pending[i]] = 0
    /\ \A j \in 1 .. i - 1 : ticksLeft[pending[j]] # 0
    /\ pending' = SubSeq(pending, 1, i - 1) \o SubSeq(pending, i + 1, Len(pending))
    /\ ticksLeft' = ticksLeft

Tick ==
    /\ \A i \in 1 .. Len(pending) : ticksLeft[pending[i]] > 0
    /\ ticksLeft' = [n \in Timer |-> IF \E i \in 1 .. Len(pending) : pending[i] = n
                                       THEN ticksLeft[n] - 1
                                       ELSE ticksLeft[n]]
    /\ pending' = pending

AlarmNext ==
    \/ \E n \in Timer, d \in Timeout : Set(n, d)
    \/ \E i \in 1 .. Len(pending) : Fire(i)
    \/ Tick

AlarmSpec == AlarmInit /\ [][AlarmNext]_alarmVars
=============================================================================
