-------------------------------- MODULE Auth --------------------------------
(***************************************************************************)
(* src/auth.c: a one-time token is valid in the time step it belongs to    *)
(* and in the neighbouring ones, and at most once per source address.  The *)
(* replay table g_replay remembers, for each address, the counter of the   *)
(* last token accepted from it, for about an hour.                         *)
(*                                                                         *)
(* A token is a member of Tokens; totp_generate is the function Hotp from  *)
(* counters to tokens, which need not be injective: six digits do collide. *)
(* As in module RateLimit a freed slot is the zeroed entry.                *)
(***************************************************************************)
EXTENDS Clock, Probe, Sequences

CONSTANTS
    Step,             \* TOTP_STEP, seconds
    Behind, Ahead,    \* DRIFT_BEHIND, DRIFT_AHEAD, steps
    MaxAge,           \* what daemon_process passes as max_age, seconds
    Tokens, Hotp      \* totp_generate under the daemon's secret

ASSUME AuthAssumption ==
    /\ Step \in Nat \ {0}
    /\ Behind \in Nat /\ Ahead \in Nat /\ MaxAge \in Nat
    /\ Hotp \in [0..(MaxTime \div Step + Ahead) -> Tokens]

VARIABLES
    g_replay,
    granted       \* history: address -> counters accepted from it, in order

authVars == <<g_replay, granted, now, back>>

UnusedReplay == [used |-> FALSE, ip |-> "no address", last_seq |-> 0, last_seen |-> 0]

replay_entry == [used : {TRUE}, ip : IPs, last_seq : Nat, last_seen : Nat]

AuthTypeOK ==
    /\ ClockTypeOK
    /\ g_replay \in [Slots -> replay_entry \cup {UnusedReplay}]
    /\ granted \in [IPs -> Seq(Nat)]

-----------------------------------------------------------------------------
Current == now \div Step

(* The counters whose token is accepted now. *)
Windows == {c \in (Current - Behind)..(Current + Ahead) : c >= 0}

(* The loop of auth_validate stops at the first window whose token it is,  *)
(* be that token already used or not.                                      *)
Matches(token, c) ==
    /\ c \in Windows
    /\ Hotp[c] = token
    /\ \A d \in Windows : d < c => Hotp[d] # token

(* Mutants: the last counter itself is not refused, or the addresses are   *)
(* not told apart.                                                         *)
SeenStrictlyBefore(seq, ip) ==
    \E p \in Slots : Found(g_replay, ip, p) /\ seq < g_replay[p].last_seq

SeenFromAnyone(seq, ip) ==
    \E p \in Slots : g_replay[p].used /\ seq <= g_replay[p].last_seq

auth_seen_before(seq, ip) ==
    \E p \in Slots : Found(g_replay, ip, p) /\ seq <= g_replay[p].last_seq

(* auth_record_seq reads the wall clock itself, later than the packet's    *)
(* own reading: the clock may have moved in between.                       *)
LaterReading == ClockNext \/ UNCHANGED clockVars

(* A mutant: the age of an entry that is used again is not renewed. *)
KeepsLastSeen(seq, ip) ==
    /\ LaterReading
    /\ \E p \in Slots :
          \/ /\ Found(g_replay, ip, p)
             /\ g_replay' = [g_replay EXCEPT ![p].last_seq = seq]
          \/ /\ Gap(g_replay, ip, p)
             /\ g_replay' = [g_replay EXCEPT ![p] =
                   [used |-> TRUE, ip |-> ip, last_seq |-> seq, last_seen |-> now']]

auth_record_seq(seq, ip) ==
    /\ LaterReading
    /\ \E p \in Slots :
          /\ Found(g_replay, ip, p) \/ Gap(g_replay, ip, p)
          /\ g_replay' = [g_replay EXCEPT ![p] =
                [used |-> TRUE, ip |-> ip, last_seq |-> seq, last_seen |-> now']]

(* auth_validate returns 0. *)
Validated(ip, token) ==
    \E c \in Windows :
       /\ Matches(token, c)
       /\ ~auth_seen_before(c, ip)
       /\ auth_record_seq(c, ip)
       /\ granted' = [granted EXCEPT ![ip] = Append(@, c)]

(* auth_validate would return 0: it returns -1 when no window has the      *)
(* token, when the address used it up, and when the table is full.         *)
Acceptable(ip, token) ==
    \E c \in Windows :
       /\ Matches(token, c)
       /\ ~auth_seen_before(c, ip)
       /\ ~NoRoom(g_replay, ip)

Stale(e) == e.used /\ now - e.last_seen > MaxAge

auth_replay_prune ==
    g_replay' = [p \in Slots |-> IF Stale(g_replay[p]) THEN UnusedReplay ELSE g_replay[p]]

-----------------------------------------------------------------------------
AuthInit ==
    /\ ClockInit
    /\ g_replay = [p \in Slots |-> UnusedReplay]
    /\ granted = [ip \in IPs |-> <<>>]

AuthPrune == auth_replay_prune /\ UNCHANGED <<granted, now, back>>

AuthNext ==
    \/ \E ip \in IPs, token \in Tokens : Validated(ip, token)
    \/ AuthPrune
    \/ ClockNext /\ UNCHANGED <<g_replay, granted>>

AuthSpec == AuthInit /\ [][AuthNext]_authVars

-----------------------------------------------------------------------------
(* An address's tokens only ever advance: no counter is accepted from it   *)
(* twice, nor after a later one, although auth_replay_prune (src/auth.c)   *)
(* forgets entries and the wall clock may be set back.  This is what keeps *)
(* an overheard token from opening the gate again.                         *)
AcceptedOnce ==
    \A ip \in IPs : \A i, j \in 1..Len(granted[ip]) :
        i < j => granted[ip][i] < granted[ip][j]

(* The token of a counter in the drift window, not ambiguous within it and *)
(* later than all that its address has used, is accepted by auth_validate  *)
(* (src/auth.c): no entry of another address, none left over and no clock  *)
(* change makes the daemon refuse a client that did nothing wrong.         *)
FreshTokenAccepted ==
    \A ip \in IPs : \A c \in Windows :
        /\ \A d \in Windows : Hotp[d] = Hotp[c] => d = c
        /\ \A i \in 1..Len(granted[ip]) : granted[ip][i] < c
        => Acceptable(ip, Hotp[c])

-----------------------------------------------------------------------------
(* The entry of an address that is in its home slot. *)
ReplayOf(ip) == g_replay[Hash[ip]]
HasReplay(ip) == ReplayOf(ip).used /\ ReplayOf(ip).ip = ip

(* No clock the daemon may still read is early enough for counter c. *)
Over(c) == now - (MaxBack - back) >= (c + Behind + 1) * Step

Spent(ip, c) == (HasReplay(ip) /\ c <= ReplayOf(ip).last_seq) \/ Over(c)

GrantedAreSpent ==
    \A ip \in IPs : \A k \in 1..Len(granted[ip]) : Spent(ip, granted[ip][k])

(* An entry is not older than its counter allows. *)
NotBackdated(e) == (e.last_seq - Ahead) * Step <= e.last_seen + back

EntriesAreRecent == \A p \in Slots : g_replay[p].used => NotBackdated(g_replay[p])

EntriesAreGranted ==
    \A ip \in IPs : HasReplay(ip) =>
        \E k \in 1..Len(granted[ip]) : granted[ip][k] = ReplayOf(ip).last_seq

(* The replay table forgets nothing that matters: a counter accepted from  *)
(* an address is covered by its entry in g_replay (src/auth.c), or so old  *)
(* that no window can reach it even if the clock is set back as far as it  *)
(* may.  This is the inductive invariant of the proofs.                    *)
AuthInv ==
    /\ AuthTypeOK
    /\ AtHome(g_replay)
    /\ GrantedAreSpent
    /\ EntriesAreRecent
    /\ EntriesAreGranted
    /\ AcceptedOnce

(* Entries live long enough: MaxAge outlasts the windows of a counter and  *)
(* everything the wall clock may be set back.                              *)
AgeSuffices == MaxAge + 1 >= (Ahead + Behind + 1) * Step + MaxBack
=============================================================================
