------------------------------ MODULE MCFwdCm -------------------------------
(***************************************************************************)
(* FwdCm for TLC.                                                          *)
(***************************************************************************)
EXTENDS FwdCm

=============================================================================
