----------------------------- MODULE MCFwdChild -----------------------------
(***************************************************************************)
(* FwdChild for TLC.  Its runs check liveness, so sessions are not made    *)
(* symmetric.                                                              *)
(***************************************************************************)
EXTENDS FwdChild

=============================================================================
