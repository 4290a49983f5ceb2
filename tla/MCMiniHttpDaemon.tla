-------------------------- MODULE MCMiniHttpDaemon --------------------------
(* Instances of MiniHttpDaemon for TLC: the constants are model values. *)
EXTENDS MiniHttpDaemon
=============================================================================
