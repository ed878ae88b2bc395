------------------------------ MODULE MCUpload ------------------------------
(***************************************************************************)
(* Instances of Upload for TLC.                                            *)
(***************************************************************************)
EXTENDS Upload

\* A date just past, and one ahead.
MCDates == {-1, 2}
=============================================================================
