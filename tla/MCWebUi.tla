------------------------------ MODULE MCWebUi ------------------------------
(* Instances of WebUi for TLC. *)
EXTENDS WebUi

Symmetry == Permutations(Pid) \cup Permutations(Addr)

\* Nothing is asked of what follows an accident.
NoAccident == accidents = {}

\* oldState is read in the presets view only, and written on the way to it.
Seen == <<viewState, IF viewState = "presets-view" THEN oldState ELSE viewState,
          selectedProcess, match, candidates, selectedAddress, presets,
          server, net, listed, accidents>>
=============================================================================
