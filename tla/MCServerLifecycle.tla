-------------------------- MODULE MCServerLifecycle --------------------------
(* Instances of ServerLifecycle for TLC.  The number of a container's      *)
(* restarts is not bounded: a restart leads back to an initial state.      *)
EXTENDS ServerLifecycle
=============================================================================
