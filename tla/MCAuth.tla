------------------------------- MODULE MCAuth -------------------------------
(***************************************************************************)
(* Instances of token validation for TLC.                                  *)
(***************************************************************************)
EXTENDS Auth

CONSTANTS a, b, x, y, z

(* Tokens recur after three steps; those of counters 3 and 4 collide. *)
Recurring ==
    [c \in 0..(MaxTime \div Step + Ahead) |->
        IF c = 4 THEN x ELSE CASE c % 3 = 0 -> x [] c % 3 = 1 -> y [] OTHER -> z]

(* Every address at home in a slot of its own. *)
Spread == [ip \in IPs |-> IF ip = a THEN 0 ELSE 1]

(* Every address at home in the first slot. *)
Collide == [ip \in IPs |-> 0]
=============================================================================
