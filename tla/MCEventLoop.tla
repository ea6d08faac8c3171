----------------------------- MODULE MCEventLoop -----------------------------
(***************************************************************************)
(* Instances of the event loop for TLC.                                    *)
(***************************************************************************)
EXTENDS EventLoop

CONSTANTS s1, s2
==============================================================================
