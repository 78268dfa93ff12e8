------------------------------- MODULE Clock -------------------------------
(***************************************************************************)
(* The timer of periodic.c.  Time is kept as ages; the unit is as fine as  *)
(* one likes.  periodic_run is taken to run exactly every Period; what it  *)
(* is late comes on top.                                                   *)
(***************************************************************************)
EXTENDS Integers

CONSTANT Period  \* PERIODIC_INTERVAL_USEC

ASSUME PeriodAssumption == Period \in Nat /\ Period > 0

VARIABLE phase  \* time since periodic_run

ClockInit == phase \in 0 .. Period

Tick == phase < Period /\ phase' = phase + 1

(* periodic_run.                                                           *)
Due == phase = Period /\ phase' = 0

ClockOK == phase \in 0 .. Period
=============================================================================
