--------------------------- MODULE MCProcessSearch ---------------------------
(* Instances of ProcessSearch for TLC. *)
EXTENDS ProcessSearch
=============================================================================
