---------------------------- MODULE RateLimitSpec ----------------------------
(***************************************************************************)
(* The rate limiter of src/ratelimit.c without its table: a record per     *)
(* address that failed since it last succeeded.  The rule for one address  *)
(* is the code's; the promise is that addresses do not influence one       *)
(* another and that no record is ever lost.                                *)
(*                                                                         *)
(* The rule is not that of BR-8 in DOMAIN.md in two places: BR-8 ends a    *)
(* window when `window' seconds have passed, the code a second later, and  *)
(* BR-8 caps the first block at max_block, the code only the later ones.   *)
(***************************************************************************)
EXTENDS Integers

CONSTANTS IPs, min_block, max_block, max_fails, window

VARIABLES
    now,       \* wall clock
    record     \* address -> its record; no entry: no failure on record

specVars == <<record, now>>

Failed == DOMAIN record
Blocked(ip) == ip \in Failed /\ now < record[ip].block_until

(* The length of the block after one of length d: doubled, up to the cap. *)
NextBlock(d) ==
    IF d = 0 THEN min_block ELSE IF 2 * d > max_block THEN max_block ELSE 2 * d

(* r after one more failure in the window it counts, or in a new window. *)
Recount(r) ==
    IF now - r.first_fail > window
    THEN [r EXCEPT !.fail_count = 1, !.first_fail = now]
    ELSE [r EXCEPT !.fail_count = @ + 1]

(* Enough failures start a block, unless one is still running. *)
Punish(r) ==
    IF r.fail_count < max_fails \/ r.fail_count = 1 \/ now < r.block_until
    THEN r
    ELSE [r EXCEPT !.block_duration = NextBlock(@),
                   !.block_until = now + NextBlock(r.block_duration)]

Fresh == [fail_count |-> 1, first_fail |-> now, block_until |-> 0, block_duration |-> 0]

Fail(ip) ==
    /\ ~Blocked(ip)
    /\ record' = [a \in Failed \cup {ip} |->
                    IF a # ip THEN record[a]
                    ELSE IF ip \in Failed THEN Punish(Recount(record[ip])) ELSE Fresh]
    /\ UNCHANGED now

Succeed(ip) ==
    /\ ~Blocked(ip)
    /\ record' = [a \in Failed \ {ip} |-> record[a]]
    /\ UNCHANGED now

Pass == now' \in Nat /\ UNCHANGED record

Init == now \in Nat /\ record = [a \in {} |-> Fresh]

Next == Pass \/ \E ip \in IPs : Fail(ip) \/ Succeed(ip)

Spec == Init /\ [][Next]_specVars
=============================================================================
