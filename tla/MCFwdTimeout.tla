---------------------------- MODULE MCFwdTimeout ----------------------------
(***************************************************************************)
(* FwdTimeout with interchangeable timers.                                 *)
(***************************************************************************)
EXTENDS FwdTimeout, TLC

TimerSymmetry == Permutations(Timer)

=============================================================================
