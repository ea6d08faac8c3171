------------------------------ MODULE RateLimit ------------------------------
(***************************************************************************)
(* src/ratelimit.c: per-address failure counting with exponential backoff, *)
(* kept in an open-addressing table.                                       *)
(*                                                                         *)
(* The actions are the three ways handle_one_packet (src/main.c) uses the  *)
(* table: a packet from a blocked address is dropped, a packet that fails  *)
(* to parse or to validate ends in rate_limit_fail, a valid one in         *)
(* rate_limit_success.  Nobody reads the fields of an unused slot and an   *)
(* insertion overwrites them all, so freeing a slot (used = 0) is modelled *)
(* by the zeroed entry.                                                    *)
(***************************************************************************)
EXTENDS Clock, Probe

CONSTANTS
    min_block, max_block,   \* seconds, --min-block and --max-block
    max_fails, window       \* --rate-limit <fails>/<window>

ASSUME RateAssumption ==
    /\ min_block \in Nat \ {0} /\ max_block \in Nat \ {0}
    /\ max_fails \in Nat \ {0} /\ window \in Nat \ {0}

VARIABLE g_table

rateVars == <<g_table, now, back>>

NoIP == "no address"
UnusedRate == [used |-> FALSE, ip |-> NoIP, fail_count |-> 0, first_fail |-> 0,
               block_until |-> 0, block_duration |-> 0]

rate_entry == [used : {TRUE}, ip : IPs, fail_count : Nat, first_fail : Nat,
               block_until : Nat, block_duration : Nat]

RateTypeOK ==
    /\ ClockTypeOK
    /\ g_table \in [Slots -> rate_entry \cup {UnusedRate}]

-----------------------------------------------------------------------------
(* rate_limit_check returns -1. *)
rate_limited(ip) ==
    \E p \in Slots : Found(g_table, ip, p) /\ now < g_table[p].block_until

(* A mutant: the cap is forgotten. *)
UncappedDuration(current) == IF current = 0 THEN min_block ELSE 2 * current

(* Durations stay below 2 * 86400 (the options' limit), far from 2^32. *)
calc_block_duration(current) ==
    IF current = 0 THEN min_block
    ELSE IF 2 * current > max_block THEN max_block ELSE 2 * current

(* What a failure at the current time makes of its address's entry. *)
WindowReset(e) == [e EXCEPT !.fail_count = 1, !.first_fail = now]

Counted(e) ==
    LET n == e.fail_count + 1
        d == calc_block_duration(e.block_duration)
    IN  IF n >= max_fails /\ now >= e.block_until
        THEN [e EXCEPT !.fail_count = n, !.block_duration = d, !.block_until = now + d]
        ELSE [e EXCEPT !.fail_count = n]

(* A mutant: the failure window never restarts. *)
NeverResets(e) == Counted(e)

AfterFail(e) ==
    IF now - e.first_fail > window THEN WindowReset(e) ELSE Counted(e)

FirstFail(ip) ==
    [used |-> TRUE, ip |-> ip, fail_count |-> 1, first_fail |-> now,
     block_until |-> 0, block_duration |-> 0]

(* A mutant: in a full table the home slot is given away. *)
EvictsNeighbour(ip) ==
    \E p \in Slots :
       \/ /\ Found(g_table, ip, p)
          /\ g_table' = [g_table EXCEPT ![p] = AfterFail(@)]
       \/ /\ Gap(g_table, ip, p) \/ (NoRoom(g_table, ip) /\ p = Hash[ip])
          /\ g_table' = [g_table EXCEPT ![p] = FirstFail(ip)]

rate_limit_fail(ip) ==
    \/ \E p \in Slots :
          /\ Found(g_table, ip, p)
          /\ g_table' = [g_table EXCEPT ![p] = AfterFail(@)]
    \/ \E p \in Slots :
          /\ Gap(g_table, ip, p)
          /\ g_table' = [g_table EXCEPT ![p] = FirstFail(ip)]
    \/ /\ NoRoom(g_table, ip)
       /\ g_table' = g_table

(* A mutant: the entry is left as it is. *)
KeepsEntry(ip) == g_table' = g_table

rate_limit_success(ip) ==
    \/ \E p \in Slots :
          /\ Found(g_table, ip, p)
          /\ g_table' = [g_table EXCEPT ![p] = UnusedRate]
    \/ /\ ~\E p \in Slots : Found(g_table, ip, p)
       /\ g_table' = g_table

-----------------------------------------------------------------------------
(* handle_one_packet, as far as the rate limiter sees it; a packet that    *)
(* finds its address blocked changes nothing.                              *)
PacketRefused(ip) ==
    /\ ~rate_limited(ip)
    /\ rate_limit_fail(ip)
    /\ UNCHANGED clockVars

(* A mutant: a valid token is let through before rate_limit_check. *)
AcceptsBlocked(ip) == rate_limit_success(ip) /\ UNCHANGED clockVars

PacketAccepted(ip) ==
    /\ ~rate_limited(ip)
    /\ rate_limit_success(ip)
    /\ UNCHANGED clockVars

RateInit ==
    /\ ClockInit
    /\ g_table = [p \in Slots |-> UnusedRate]

RateNext ==
    \/ \E ip \in IPs : PacketRefused(ip) \/ PacketAccepted(ip)
    \/ ClockNext /\ UNCHANGED g_table

RateSpec == RateInit /\ [][RateNext]_rateVars

-----------------------------------------------------------------------------
(* Only time lifts a block: rate_limit_check goes from -1 to 0 for an      *)
(* address (src/ratelimit.c, rate_limit_check) in no step but one of the   *)
(* clock going forward, whatever the other addresses do meanwhile.         *)
BlockStands ==
    [][\A ip \in IPs : rate_limited(ip) /\ ~rate_limited(ip)' => now' > now]_rateVars
=============================================================================
