---------------------------- MODULE MCFwdSession ----------------------------
(***************************************************************************)
(* FwdSession with interchangeable users, for the runs that check          *)
(* invariants only.                                                        *)
(***************************************************************************)
EXTENDS FwdSession, TLC

UserSymmetry == Permutations(User)

=============================================================================
