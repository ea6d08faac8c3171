------------------------------ MODULE MCStartup ------------------------------
(***************************************************************************)
(* An instance of the start of the daemon for TLC.                         *)
(***************************************************************************)
EXTENDS Startup

SmallBuffers == [o \in NameOpts |-> IF o = "iface" THEN 1 ELSE 2]
BoundaryLongs == {0, 65535, 65537}
=============================================================================
