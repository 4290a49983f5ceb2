--------------------------- MODULE MCWebInterface ---------------------------
(* Instances of WebInterface for TLC: the constants are model values, which  *)
(* the safety runs may permute, no definition telling one from another.      *)
EXTENDS WebInterface, TLC

Symmetry == Permutations(Req) \cup Permutations(Obj) \cup Permutations(Hnd)
=============================================================================
