------------------------------- MODULE MCRules -------------------------------
(***************************************************************************)
(* Instances of the dynamic firewall rules for TLC.                        *)
(***************************************************************************)
EXTENDS Rules

CONSTANTS a, b

(* An IPv4 client and an IPv6 one. *)
Mixed == [x \in Addrs |-> IF x = b THEN "ip6" ELSE "ip"]
=============================================================================
