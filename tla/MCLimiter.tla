------------------------------ MODULE MCLimiter -----------------------------
(***************************************************************************)
(* Instances of Limiter for TLC.                                           *)
(***************************************************************************)
EXTENDS Limiter
=============================================================================
