-------------------------------- MODULE MCGate --------------------------------
(***************************************************************************)
(* Instances of the whole gate for TLC.                                    *)
(***************************************************************************)
EXTENDS Gate

CONSTANTS a, b, m

(* m is the IPv4 client a, seen through an IPv6 socket. *)
MappedA == [src \in {m} |-> a]
Mixed == [x \in Addrs |-> IF x = b THEN "ip6" ELSE "ip"]

(* A table of one slot: the second address finds it full. *)
Collide == [ip \in IPs |-> 0]

(* Every counter has a token of its own. *)
Distinct == [c \in 0..(MaxTime \div Step + Ahead) |-> c]
==============================================================================
