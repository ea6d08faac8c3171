--------------------------------- MODULE Gate ---------------------------------
(***************************************************************************)
(* The gate as a whole: handle_one_packet and daemon_process (src/main.c)  *)
(* over the rate limiter, the replay table, the rule records, the kernel's *)
(* chains and the clocks at once.                                          *)
(***************************************************************************)
EXTENDS RateLimit, Auth, Rules

CONSTANTS
    V4Mapped,   \* IPv4-mapped IPv6 address -> the IPv4 address it stands for
    Garbage     \* what auth_parse rejects

ASSUME GateAssumption ==
    /\ Addrs = IPs
    /\ V4Mapped \in [DOMAIN V4Mapped -> IPs]
    /\ Garbage \notin Tokens

VARIABLE clean   \* history: addresses not refused since they were last accepted

gateVars == <<g_table, g_replay, granted, recordVars, kernelVars, loopVars, clean, clockVars>>

-----------------------------------------------------------------------------
(* What recvfrom calls a sender, and the address that every table and the  *)
(* firewall know it by.                                                    *)
Sources == IPs \cup DOMAIN V4Mapped

normalize_src(src) == IF src \in DOMAIN V4Mapped THEN V4Mapped[src] ELSE src

(* A mutant: the address is charged for its token. *)
ChargesAccepted(src, token) ==
    LET ip == normalize_src(src)
    IN  /\ ~rate_limited(ip)
        /\ Validated(ip, token)
        /\ rate_limit_fail(ip)
        /\ Grant(ip)
        /\ clean' = clean \cup {ip}

(* handle_one_packet turns a packet down.  One that finds its address      *)
(* blocked is dropped and changes nothing.                                 *)
Refuse(src, payload) ==
    LET ip == normalize_src(src)
    IN  /\ pc = "packets" /\ ~rate_limited(ip)
        /\ payload = Garbage \/ ~Acceptable(ip, payload)
        /\ rate_limit_fail(ip)
        /\ clean' = clean \ {ip}
        /\ UNCHANGED <<g_replay, granted, recordVars, kernelVars, loopVars, clockVars>>

(* handle_one_packet accepts a token; the kernel may refuse the rule. *)
Accept(src, token) ==
    LET ip == normalize_src(src)
    IN  /\ ~rate_limited(ip)
        /\ Validated(ip, token)
        /\ rate_limit_success(ip)
        /\ Grant(ip)
        /\ clean' = clean \cup {ip}

(* daemon_process up to its packets: both prunes go by the same interval. *)
Enter ==
    /\ Wake
    /\ IF Due THEN auth_replay_prune ELSE UNCHANGED g_replay
    /\ UNCHANGED <<granted, g_table, clean>>

Proceed ==
    /\ FlushIp \/ FlushIp6 \/ Reinsert \/ PruneDone \/ EndPass
    /\ UNCHANGED <<g_table, g_replay, granted, clean>>

PassBy == Elapse /\ UNCHANGED <<g_table, g_replay, granted, clean>>

GateInit ==
    /\ RulesInit
    /\ g_table = [p \in Slots |-> UnusedRate]
    /\ g_replay = [p \in Slots |-> UnusedReplay]
    /\ granted = [ip \in IPs |-> <<>>]
    /\ clean = IPs

GateNext ==
    \/ \E src \in Sources, payload \in Tokens \cup {Garbage} : Refuse(src, payload)
    \/ \E src \in Sources, token \in Tokens : Accept(src, token)
    \/ Enter \/ Proceed \/ PassBy

GateSpec == GateInit /\ [][GateNext]_gateVars

-----------------------------------------------------------------------------
(* The gate as its users see it. *)
Door == INSTANCE Access WITH
    Clients <- IPs, Counters <- DOMAIN Hotp, Duration <- Timeout, Grace <- MaxPass,
    open <- allowed, used <- granted, until <- deadline, time <- Mono, slip <- back

(* The whole daemon keeps its promise: handle_one_packet and rule_prune    *)
(* (src/main.c) let an address in only with a token that advances on all   *)
(* it used before, or again while its grant lasts, give or take what the   *)
(* wall clock was set back and the pass of the loop that is under way.     *)
KeepsPromise == Door!AccessSpec

LastOf(seq) == seq[Len(seq)]

(* Whoever the kernel lets in proved himself lately: handle_one_packet     *)
(* (src/main.c) accepted a token from him whose counter's time is no       *)
(* further back than the drift allows, the grant and a prune that comes as *)
(* late as it may; except after a refused flush.                           *)
RecentProof ==
    \A a \in allowed \ stuck :
        /\ granted[a] # <<>>
        /\ Mono <= (LastOf(granted[a]) + Behind + 1) * Step - 1
                   + 2 * back + Timeout + PruneInterval + 2 * (MaxPass - 1)

(* An accepted token wipes the slate, even when the kernel then refused    *)
(* the rule (handle_one_packet, src/main.c): until the address is refused  *)
(* again it is not blocked, and its next token is good unless the replay   *)
(* table is full.                                                          *)
CleanSlate ==
    \A ip \in clean :
        /\ ~rate_limited(ip)
        /\ \A c \in Windows :
              /\ \A d \in Windows : Hotp[d] = Hotp[c] => d = c
              /\ \A k \in 1..Len(granted[ip]) : granted[ip][k] < c
              => Acceptable(ip, Hotp[c]) \/ NoRoom(g_replay, ip)

-----------------------------------------------------------------------------
(* Whoever is let in, or on record to be, used a token; a grant ends       *)
(* Timeout after a time at which its token was good.                       *)
GrantsProved ==
    /\ \A a \in IPs \cap allowed : granted[a] # <<>>
    /\ \A k \in Records : rules[k].active => granted[rules[k].addr] # <<>>
    /\ \A a \in IPs : granted[a] # <<>> =>
          deadline[a] <= (LastOf(granted[a]) + Behind + 1) * Step - 1 + back + Timeout

(* An address with a clean slate has no entry in the rate limiter's table. *)
CleanUnlisted ==
    \A ip \in clean : ~(g_table[Hash[ip]].used /\ g_table[Hash[ip]].ip = ip)

(* Tables, records, chains, clocks and history agree across the components *)
(* that handle_one_packet (src/main.c) ties together: with the invariants  *)
(* of Auth, Rules and RateLimit, the inductive invariant of the proofs.    *)
GateInv ==
    /\ AuthInv /\ RulesInv /\ RateTypeOK /\ AtHome(g_table)
    /\ clean \subseteq IPs
    /\ GrantsProved /\ CleanUnlisted
==============================================================================
