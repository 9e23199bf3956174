---------------------------- MODULE TimeoutTicker ----------------------------
(***************************************************************************)
(* internal/consensus/ticker.go: one timer, re-armed by every tick that is  *)
(* later in height, round and step than the last accepted one.  A timer     *)
(* that elapses hands its timeout to a goroutine of its own, so the         *)
(* receiver sees elapsed timeouts in any order.  Durations are left out: an *)
(* armed timer may elapse at any time.                                      *)
(***************************************************************************)
EXTENDS Integers

timeoutInfo(height, round, step) == [height |-> height, round |-> round, step |-> step]

NewTimeoutTicker == [ti |-> timeoutInfo(0, 0, 0), armed |-> FALSE, tocks |-> {}]

\* Mutant: a tick for the same round is always old.
isOldStep(newti, ti) ==
    \/ newti.height < ti.height
    \/ newti.height = ti.height /\ newti.round < ti.round
    \/ newti.height = ti.height /\ newti.round = ti.round /\ ti.step > 0

\* "ignore tickers for old height/round/step"
isOld(newti, ti) ==
    \/ newti.height < ti.height
    \/ newti.height = ti.height /\ newti.round < ti.round
    \/ /\ newti.height = ti.height /\ newti.round = ti.round
       /\ ti.step > 0 /\ newti.step <= ti.step

\* ScheduleTimeout and its receipt by timeoutRoutine: the running timer, if any,
\* is stopped and drained.
ScheduleTimeout(tt, newti) ==
    IF isOld(newti, tt.ti) THEN tt ELSE [tt EXCEPT !.ti = newti, !.armed = TRUE]

\* The timer elapses.
elapse(tt) == [tt EXCEPT !.armed = FALSE, !.tocks = @ \cup {tt.ti}]

\* The receiver takes a timeout off Chan().
take(tt, ti) == [tt EXCEPT !.tocks = @ \ {ti}]
=============================================================================
