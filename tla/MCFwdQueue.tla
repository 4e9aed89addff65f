----------------------------- MODULE MCFwdQueue -----------------------------
(***************************************************************************)
(* FwdQueue for TLC.                                                       *)
(***************************************************************************)
EXTENDS FwdQueue

=============================================================================
