------------------------- MODULE ScheduleDispatchMC -------------------------
(* Instances of ScheduleDispatch.                                          *)
EXTENDS ScheduleDispatch, TLC

CONSTANTS r1, r2

TwoRuns == {r1, r2}
MCSymmetry == Permutations(TwoRuns)
=============================================================================
