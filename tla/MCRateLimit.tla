---------------------------- MODULE MCRateLimit ----------------------------
(***************************************************************************)
(* Instances of the rate limiter for TLC.                                  *)
(***************************************************************************)
EXTENDS RateLimitHistory

CONSTANTS a, b

(* Every address at home in a slot of its own. *)
Spread == [ip \in IPs |-> IF ip = a THEN 0 ELSE 1]

(* Every address at home in the first slot, where BlockStands fails. *)
Collide == [ip \in IPs |-> 0]
=============================================================================
