---------------------------- MODULE MCLifecycle -----------------------------
(* An instance of Lifecycle for TLC; the bounds are in the configuration. *)
EXTENDS Lifecycle
=============================================================================
