------------------------- MODULE MCUnalignedSearch -------------------------
(* Instances of UnalignedSearch for TLC. *)
EXTENDS UnalignedSearch
=============================================================================
