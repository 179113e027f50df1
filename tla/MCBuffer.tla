------------------------------ MODULE MCBuffer ------------------------------
(* A buffer of a few bytes, for TLC. *)
EXTENDS Buffer
=============================================================================
