----------------------------- MODULE MCLifecycle -----------------------------
(***************************************************************************)
(* Instances of the daemon's life for TLC.                                 *)
(***************************************************************************)
EXTENDS Lifecycle

CONSTANTS a, b
==============================================================================
