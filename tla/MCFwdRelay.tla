----------------------------- MODULE MCFwdRelay -----------------------------
(***************************************************************************)
(* FwdRelay for TLC.                                                       *)
(***************************************************************************)
EXTENDS FwdRelay

=============================================================================
