--------------------------- MODULE CandidateSearch ---------------------------
(***************************************************************************)
(* What the search of decipio promises its user: a first search yields a   *)
(* set of candidate addresses, each further search keeps some of them and  *)
(* never adds one, and a search that keeps none starts all over.           *)
(***************************************************************************)
CONSTANT Addr           \* the addresses of the target process

VARIABLES searching,    \* some search has kept candidates
          candidates    \* the addresses kept

vars == <<searching, candidates>>

Init == searching = FALSE /\ candidates = {}

First ==
  /\ ~searching /\ searching' = TRUE
  /\ candidates' \in SUBSET Addr /\ candidates' # {}

Narrow ==
  /\ searching /\ UNCHANGED searching
  /\ candidates' \in SUBSET candidates /\ candidates' # {}

StartOver ==
  /\ searching /\ searching' = FALSE /\ candidates' = {}

Next == First \/ Narrow \/ StartOver

Spec == Init /\ [][Next]_vars
=============================================================================
