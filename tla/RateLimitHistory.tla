-------------------------- MODULE RateLimitHistory --------------------------
(***************************************************************************)
(* The rate limiter with a history variable: when each address failed      *)
(* since it was last accepted.  The history is the clients' own, kept per  *)
(* address and by the monotonic clock, so it depends neither on the table  *)
(* nor on the window arithmetic that it is used to judge.                  *)
(***************************************************************************)
EXTENDS RateLimit, Sequences

CONSTANT MaxHistory   \* bound on the failures an address may add up

ASSUME HistoryAssumption == MaxHistory \in Nat

VARIABLE fails      \* address -> the times of its failures, oldest first

histVars == <<g_table, fails, now, back>>

HistTypeOK == RateTypeOK /\ fails \in [IPs -> Seq(Nat)]

HistInit == RateInit /\ fails = [ip \in IPs |-> <<>>]

HistRefused(ip) ==
    /\ Len(fails[ip]) < MaxHistory
    /\ PacketRefused(ip)
    /\ fails' = [fails EXCEPT ![ip] = Append(@, Mono)]

HistAccepted(ip) ==
    /\ PacketAccepted(ip)
    /\ fails' = [fails EXCEPT ![ip] = <<>>]

HistNext ==
    \/ \E ip \in IPs : HistRefused(ip) \/ HistAccepted(ip)
    \/ ClockNext /\ UNCHANGED <<g_table, fails>>

HistSpec == HistInit /\ [][HistNext]_histVars

-----------------------------------------------------------------------------
(* The entry of an address that is in its home slot. *)
Entry(ip) == g_table[Hash[ip]]
HasEntry(ip) == Entry(ip).used /\ Entry(ip).ip = ip

RateInv == RateTypeOK /\ AtHome(g_table)

(* s lists times up to m, oldest first. *)
Ordered(s, m) ==
    /\ \A j, k \in 1..Len(s) : j <= k => s[j] <= s[k]
    /\ \A k \in 1..Len(s) : s[k] <= m

FailsOrdered == \A ip \in IPs : Ordered(fails[ip], Mono)

(* fail_count counts failures that did happen, none before first_fail. *)
CountedFor(ip) ==
    LET n == Len(fails[ip])
    IN  /\ Entry(ip).fail_count \in 1..n
        /\ Entry(ip).first_fail <= fails[ip][n - Entry(ip).fail_count + 1]

FailsCounted == \A ip \in IPs : HasEntry(ip) => CountedFor(ip)

(* The table agrees with the history: every entry of g_table               *)
(* (src/ratelimit.c) is in its address's home slot, and its fail_count     *)
(* and first_fail stand for failures that really happened since            *)
(* first_fail, whatever was reset, cleared or reused in between.  This is  *)
(* the inductive invariant of the proofs.                                  *)
HistInv == HistTypeOK /\ RateInv /\ FailsOrdered /\ FailsCounted

(* Nobody is blocked without having earned it: when rate_limit_fail        *)
(* (src/ratelimit.c) starts a block, its address failed max_fails times,   *)
(* this failure included, within window seconds, or that much longer as    *)
(* the wall clock was set back.  Whatever other addresses did to the table *)
(* never counts against it.                                                *)
OnlyOffendersBlocked ==
    [][\A ip \in IPs :
          ~rate_limited(ip) /\ rate_limited(ip)' /\ now' = now =>
             LET n == Len(fails'[ip])
             IN  /\ n >= max_fails
                 /\ Mono - fails'[ip][n - max_fails + 1] <= window + back]_histVars

-----------------------------------------------------------------------------
(* The table as the map from addresses to records that it stands for. *)
Recorded == {ip \in IPs : HasEntry(ip)}

RecordIn(e) ==
    [fail_count |-> e.fail_count, first_fail |-> e.first_fail,
     block_until |-> e.block_until, block_duration |-> e.block_duration]

TableRecords == [ip \in Recorded |-> RecordIn(Entry(ip))]

Promise == INSTANCE RateLimitSpec WITH record <- TableRecords

(* As long as no two addresses in use share a home slot, the table of      *)
(* src/ratelimit.c does what one record per address would do: none is lost *)
(* and none changes another's.                                             *)
ImplementsPromise == Promise!Spec
=============================================================================
