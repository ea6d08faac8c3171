----------------------------- MODULE GateProofs -----------------------------
(***************************************************************************)
(* The gate as a whole: the components' guarantees hold of the composition *)
(* and it implements Access.  As in TableProofs no address may be          *)
(* displaced from its home slot, and replay entries outlive their windows. *)
(***************************************************************************)
EXTENDS Gate, TableProofs, RulesProofs

LEMMA NormalSource == \A src \in Sources : normalize_src(src) \in IPs
BY GateAssumption DEF Sources, normalize_src

(* What Proceed does is the prune pass's, and leaves the clock alone. *)
LEMMA ProceedFacts ==
    ASSUME Proceed
    PROVE  DaemonStep /\ UNCHANGED clockVars
BY DEF Proceed, DaemonStep, FlushIp, FlushIp6, Reinsert, PruneDone, EndPass, clockVars

(* Every step of the gate is one of token validation, or leaves it alone. *)
LEMMA AuthSees ==
    ASSUME GateNext \/ UNCHANGED gateVars
    PROVE  [AuthNext]_authVars
<1>1. ASSUME NEW src \in Sources, NEW payload, Refuse(src, payload)
      PROVE  UNCHANGED authVars
  BY <1>1 DEF Refuse, authVars, clockVars
<1>2. ASSUME NEW src \in Sources, NEW token \in Tokens, Accept(src, token)
      PROVE  AuthNext
  <2>1. normalize_src(src) \in IPs
    BY NormalSource
  <2> QED  BY <1>2, <2>1 DEF Accept, AuthNext
<1>3. CASE Enter
  <2>1. UNCHANGED <<granted, now, back>>
    BY <1>3 DEF Enter, Wake, clockVars
  <2>2. auth_replay_prune \/ UNCHANGED g_replay
    BY <1>3 DEF Enter
  <2> QED  BY <2>1, <2>2 DEF AuthNext, AuthPrune, authVars
<1>4. CASE Proceed
  <2>1. UNCHANGED clockVars
    BY <1>4, ProceedFacts
  <2> QED  BY <1>4, <2>1 DEF Proceed, authVars, clockVars
<1>5. CASE PassBy
  BY <1>5 DEF PassBy, Elapse, PassTime, ClockNext, AuthNext
<1>6. CASE UNCHANGED gateVars
  BY <1>6 DEF gateVars, authVars, clockVars
<1> QED  BY <1>1, <1>2, <1>3, <1>4, <1>5, <1>6 DEF GateNext

(* Every step of the gate is one of the rules, or leaves them alone. *)
LEMMA RulesSee ==
    ASSUME GateNext \/ UNCHANGED gateVars
    PROVE  [RulesNext]_ruleVars
<1>1. ASSUME NEW src \in Sources, NEW payload, Refuse(src, payload)
      PROVE  UNCHANGED ruleVars
  BY <1>1 DEF Refuse, ruleVars
<1>2. ASSUME NEW src \in Sources, NEW token \in Tokens, Accept(src, token)
      PROVE  RulesNext
  <2>1. normalize_src(src) \in Addrs
    BY NormalSource, GateAssumption
  <2> QED  BY <1>2, <2>1 DEF Accept, RulesNext
<1>3. CASE Enter
  BY <1>3 DEF Enter, RulesNext, DaemonStep
<1>4. CASE Proceed
  BY <1>4, ProceedFacts DEF RulesNext
<1>5. CASE PassBy
  BY <1>5 DEF PassBy, RulesNext
<1>6. CASE UNCHANGED gateVars
  BY <1>6 DEF gateVars, ruleVars
<1> QED  BY <1>1, <1>2, <1>3, <1>4, <1>5, <1>6 DEF GateNext

LEMMA StartsRight == GateInit => AuthInit /\ RulesInit
BY DEF GateInit, RulesInit, AuthInit

(* Composed with rate limiting and rule handling (handle_one_packet and    *)
(* daemon_process, src/main.c), the replay table behaves as module Auth    *)
(* says: all that is proved of Auth holds of the daemon.                   *)
THEOREM GateKeepsAuth == GateSpec => AuthSpec
<1>1. [GateNext]_gateVars => [AuthNext]_authVars
  BY AuthSees
<1> QED  BY <1>1, StartsRight, PTL DEF GateSpec, AuthSpec

(* And so do the dynamic rules: all that is proved of Rules holds of the   *)
(* daemon (src/main.c).                                                    *)
THEOREM GateKeepsRules == GateSpec => RulesSpec
<1>1. [GateNext]_gateVars => [RulesNext]_ruleVars
  BY RulesSee
<1> QED  BY <1>1, StartsRight, PTL DEF GateSpec, RulesSpec

-----------------------------------------------------------------------------
(* A counter whose token is good now was not over at this time. *)
LEMMA GoodNow ==
    ASSUME AuthTypeOK, NEW c \in Windows
    PROVE  c \in Nat /\ now <= (c + Behind + 1) * Step - 1 /\ (c + Behind + 1) * Step \in Int
<1>1. now \in Nat /\ Step \in Nat \ {0} /\ Behind \in Nat /\ Ahead \in Nat
  BY ClockFacts, AuthAssumption DEF AuthTypeOK
<1>2. Current \in Nat /\ now < (Current + 1) * Step
  BY <1>1, DivBounds DEF Current
<1>3. c \in Nat /\ Current + 1 <= c + Behind + 1
  BY <1>1, <1>2 DEF Windows
<1>4. (Current + 1) * Step <= (c + Behind + 1) * Step
  BY <1>1, <1>2, <1>3, MulMono
<1>5. (Current + 1) * Step \in Int /\ (c + Behind + 1) * Step \in Int
  BY <1>1, <1>2, <1>3
<1> QED  BY <1>1, <1>2, <1>3, <1>4, <1>5

(* The counter that an accepted token adds is the latest of its address. *)
LEMMA ValidatedFacts ==
    ASSUME AuthInv, NEW ip \in IPs, NEW token, Validated(ip, token)
    PROVE  \E c \in Windows :
              /\ c \in DOMAIN Hotp
              /\ \A k \in 1..Len(granted[ip]) : granted[ip][k] < c
              /\ granted' = [granted EXCEPT ![ip] = Append(@, c)]
              /\ granted'[ip] # <<>> /\ LastOf(granted'[ip]) = c
<1>1. PICK c \in Windows :
         /\ ~auth_seen_before(c, ip)
         /\ granted' = [granted EXCEPT ![ip] = Append(@, c)]
  BY DEF Validated
<1>2. \A k \in 1..Len(granted[ip]) : granted[ip][k] < c
  BY <1>1, NewIsLatest
<1>3. c \in Nat /\ granted[ip] \in Seq(Nat) /\ granted \in [IPs -> Seq(Nat)]
  BY WindowsAreRecent DEF AuthInv, AuthTypeOK
<1>4. granted'[ip] = Append(granted[ip], c)
  BY <1>1, <1>3
<1>5. granted'[ip] # <<>> /\ LastOf(granted'[ip]) = c
  <2>1. \A s \in Seq(Nat) : \A n \in Nat :
           /\ Append(s, n) # <<>> /\ Len(Append(s, n)) = Len(s) + 1
           /\ Append(s, n)[Len(s) + 1] = n
    OBVIOUS
  <2> QED  BY <1>3, <1>4, <2>1 DEF LastOf
<1>6. c \in DOMAIN Hotp
  <2>1. now \in Nat /\ now <= MaxTime /\ MaxTime \in Nat
    BY ClockAssumption DEF AuthInv, AuthTypeOK, ClockTypeOK
  <2>2. Step \in Nat \ {0} /\ Ahead \in Nat /\ Behind \in Nat
    BY AuthAssumption
  <2>3. Current \in Nat /\ MaxTime \div Step \in Nat
    BY <2>1, <2>2, DivBounds DEF Current
  <2>4. MaxTime \div Step >= Current
    <3>1. Current * Step <= now /\ Current * Step \in Int
      BY <2>1, <2>2, <2>3, DivBounds DEF Current
    <3>2. MaxTime >= Current * Step
      BY <2>1, <3>1
    <3> QED  BY <2>1, <2>2, <2>3, <3>2, DivLower
  <2>5. c <= MaxTime \div Step + Ahead
    BY <1>3, <2>2, <2>3, <2>4 DEF Windows
  <2> QED  BY <1>3, <2>2, <2>3, <2>5, AuthAssumption
<1> QED  BY <1>1, <1>2, <1>5, <1>6

(* What a step of the rules other than a grant does to records, chains and *)
(* grants: nobody new comes on record, and only an address on record comes *)
(* back into the chains.                                                   *)
LEMMA PassFacts ==
    ASSUME RulesInv, DaemonStep \/ Elapse
    PROVE  /\ deadline' = deadline /\ back <= back' /\ back \in Nat /\ back' \in Nat
           /\ \A k \in Records : rules'[k].active =>
                 rules[k].active /\ rules'[k].addr = rules[k].addr
           /\ \A a \in allowed' : a \in allowed
                 \/ \E k \in Records : rules[k].active /\ rules[k].addr = a
<1>1. RulesTypeOK /\ back \in Nat /\ i \in Nat /\ DOMAIN rules = Records
  BY RuleFacts DEF RulesInv
<1>2. CASE Elapse
  <2>1. back <= back' /\ back' \in Nat
    BY <1>2, TimeBounds DEF Elapse
  <2> QED  BY <1>1, <1>2, <2>1 DEF Elapse, recordVars, kernelVars
<1>3. CASE Wake \/ PruneDone \/ EndPass
  <2>1. deadline' = deadline /\ back' = back /\ rules' = rules /\ allowed' = allowed
    BY <1>3 DEF Wake, PruneDone, EndPass, recordVars, kernelVars, clockVars
  <2> QED  BY <1>1, <2>1
<1>4. CASE FlushIp \/ FlushIp6
  <2>1. deadline' = deadline /\ back' = back /\ rules' = rules /\ allowed' \subseteq allowed
    BY <1>4 DEF FlushIp, FlushIp6, Flush, recordVars, clockVars
  <2> QED  BY <1>1, <2>1
<1>5. CASE Reinsert
  <2>1. deadline' = deadline /\ back' = back /\ i < num_rules
    BY <1>5 DEF Reinsert, clockVars
  <2>2. i \in Records
    BY <1>1, <2>1, RuleFacts, ConstantFacts DEF Records
  <2>3. ~FreeRule.active
    BY DEF FreeRule
  <2>4. CASE /\ rules[i].active
             /\ \E ok \in BOOLEAN : netlink_rule_insert(rules[i].addr, ok)
             /\ UNCHANGED rules
    BY <1>1, <2>1, <2>2, <2>4 DEF netlink_rule_insert
  <2>5. CASE rules' = [rules EXCEPT ![i] = FreeRule] /\ UNCHANGED <<allowed, lost, stuck>>
    BY <1>1, <2>1, <2>2, <2>3, <2>5
  <2> QED  BY <1>5, <2>4, <2>5 DEF Reinsert
<1> QED  BY <1>2, <1>3, <1>4, <1>5 DEF DaemonStep

(* A grant puts one address on record and in the chains at most. *)
LEMMA GrantFacts ==
    ASSUME RulesInv, NEW a \in Addrs, Grant(a)
    PROVE  /\ deadline' = [deadline EXCEPT ![a] = Mono + Timeout]
           /\ back <= back' /\ back \in Nat /\ back' \in Nat
           /\ \A k \in Records : rules'[k].active =>
                 rules'[k].addr = a \/ (rules[k].active /\ rules'[k].addr = rules[k].addr)
           /\ allowed' = allowed \/ allowed' = allowed \cup {a}
           /\ Mono <= Mono' /\ Mono' \in Nat
<1>1. DOMAIN rules = Records
  BY RuleFacts DEF RulesInv
<1>2. deadline' = [deadline EXCEPT ![a] = Mono + Timeout]
  BY DEF Grant
<1>3. back <= back' /\ back \in Nat /\ back' \in Nat /\ Mono <= Mono' /\ Mono' \in Nat
  BY TimeBounds DEF Grant
<1>4. allowed' = allowed \/ allowed' = allowed \cup {a}
  BY DEF Grant, netlink_rule_insert
<1>5. CASE UNCHANGED recordVars
  BY <1>2, <1>3, <1>4, <1>5 DEF recordVars
<1>6. CASE rule_track(a, now + Timeout) /\ ~UNCHANGED recordVars
  <2>1. PICK k \in Records :
           rules' = [rules EXCEPT ![k] = [active |-> TRUE, expiry |-> now + Timeout, addr |-> a]]
    BY <1>6 DEF rule_track
  <2> QED  BY <1>1, <1>2, <1>3, <1>4, <2>1
<1> QED  BY <1>5, <1>6 DEF Grant

-----------------------------------------------------------------------------
(* What Accept and the steps between packets do, for the lemmas below. *)
LEMMA QuietSteps ==
    ASSUME Enter \/ Proceed \/ PassBy
    PROVE  /\ DaemonStep \/ Elapse
           /\ granted' = granted /\ g_table' = g_table /\ clean' = clean
BY ProceedFacts DEF Enter, Proceed, PassBy, DaemonStep

(* Nobody is let in, or on record to be, without a token. *)
LEMMA ProvedStep ==
    ASSUME GateInv, GateNext \/ UNCHANGED gateVars
    PROVE  GrantsProved'
<1>1. /\ AuthInv /\ RulesInv /\ GrantsProved /\ granted \in [IPs -> Seq(Nat)]
      /\ Addrs = IPs /\ deadline \in [IPs -> Nat] /\ allowed \subseteq IPs
      /\ \A k \in Records : rules[k].active => rules[k].addr \in IPs
  BY RuleFacts, GateAssumption DEF GateInv, AuthInv, AuthTypeOK, RulesInv, RulesTypeOK
<1>2. ASSUME NEW src \in Sources, NEW payload, Refuse(src, payload)
      PROVE  GrantsProved'
  BY <1>1, <1>2 DEF Refuse, GrantsProved, recordVars, kernelVars, clockVars
<1>3. ASSUME Enter \/ Proceed \/ PassBy
      PROVE  GrantsProved'
  <2>1. DaemonStep \/ Elapse
    BY <1>3, QuietSteps
  <2>2. granted' = granted
    BY <1>3, QuietSteps
  <2>3. /\ deadline' = deadline /\ back <= back' /\ back \in Nat /\ back' \in Nat
        /\ \A k \in Records : rules'[k].active =>
              rules[k].active /\ rules'[k].addr = rules[k].addr
        /\ \A a \in allowed' : a \in allowed
              \/ \E k \in Records : rules[k].active /\ rules[k].addr = a
    BY <1>1, <2>1, PassFacts
  <2>4. ASSUME NEW a \in IPs, granted[a] # <<>>
        PROVE  deadline[a] <= (LastOf(granted[a]) + Behind + 1) * Step - 1 + back' + Timeout
    <3>1. deadline[a] <= (LastOf(granted[a]) + Behind + 1) * Step - 1 + back + Timeout
      BY <1>1, <2>4 DEF GrantsProved
    <3>2. LastOf(granted[a]) \in Nat
      BY <1>1, <2>4 DEF LastOf
    <3>3. (LastOf(granted[a]) + Behind + 1) * Step \in Int /\ deadline[a] \in Int
      BY <1>1, <3>2, AuthAssumption
    <3>4. \A d, x \in Int : \A m, n, t \in Nat :
             m <= n /\ d <= x - 1 + m + t => d <= x - 1 + n + t
      OBVIOUS
    <3> QED  BY <2>3, <3>1, <3>3, <3>4, ConstantFacts
  <2>5. \A a \in allowed' : granted[a] # <<>>
    BY <1>1, <2>3 DEF GrantsProved
  <2>6. \A k \in Records : rules'[k].active => granted[rules'[k].addr] # <<>>
    BY <1>1, <2>3 DEF GrantsProved
  <2> QED  BY <2>2, <2>3, <2>4, <2>5, <2>6 DEF GrantsProved
<1>4. ASSUME NEW src \in Sources, NEW token \in Tokens, Accept(src, token)
      PROVE  GrantsProved'
  <2> DEFINE ip == normalize_src(src)
  <2>1. ip \in IPs /\ ip \in Addrs /\ Validated(ip, token) /\ Grant(ip)
    BY <1>4, NormalSource, GateAssumption DEF Accept
  <2> HIDE DEF ip
  <2>2. PICK c \in Windows :
           /\ granted' = [granted EXCEPT ![ip] = Append(@, c)]
           /\ granted'[ip] # <<>> /\ LastOf(granted'[ip]) = c
    BY <1>1, <2>1, ValidatedFacts
  <2>3. /\ deadline' = [deadline EXCEPT ![ip] = Mono + Timeout]
        /\ back <= back' /\ back \in Nat /\ back' \in Nat
        /\ \A k \in Records : rules'[k].active =>
              rules'[k].addr = ip \/ (rules[k].active /\ rules'[k].addr = rules[k].addr)
        /\ allowed' = allowed \/ allowed' = allowed \cup {ip}
    BY <1>1, <2>1, GrantFacts
  <2>4. \A a \in IPs : a # ip => granted'[a] = granted[a] /\ deadline'[a] = deadline[a]
    BY <1>1, <2>2, <2>3
  <2>5. \A a \in IPs \cap allowed' : granted'[a] # <<>>
    BY <1>1, <2>2, <2>3, <2>4 DEF GrantsProved
  <2>6. \A k \in Records : rules'[k].active => granted'[rules'[k].addr] # <<>>
    BY <1>1, <2>1, <2>2, <2>3, <2>4 DEF GrantsProved
  <2>7. ASSUME NEW a \in IPs, granted'[a] # <<>>
        PROVE  deadline'[a] <= (LastOf(granted'[a]) + Behind + 1) * Step - 1 + back' + Timeout
    <3>1. \A d, x \in Int : \A m, n, t \in Nat :
             m <= n /\ d <= x - 1 + m + t => d <= x - 1 + n + t
      OBVIOUS
    <3>2. CASE a = ip
      <4>1. deadline'[ip] = Mono + Timeout
        BY <1>1, <2>1, <2>3
      <4>2. now <= (c + Behind + 1) * Step - 1 /\ (c + Behind + 1) * Step \in Int
        BY <1>1, GoodNow DEF AuthInv
      <4>3. Mono = now + back /\ now \in Nat
        BY <1>1, RuleFacts DEF RulesInv
      <4>4. Timeout \in Nat
        BY ConstantFacts
      <4>5. Mono + Timeout <= (c + Behind + 1) * Step - 1 + back + Timeout /\ Mono + Timeout \in Int
        BY <2>3, <4>2, <4>3, <4>4
      <4> QED  BY <2>2, <2>3, <3>1, <3>2, <4>1, <4>2, <4>4, <4>5
    <3>3. CASE a # ip
      <4>1. deadline[a] <= (LastOf(granted[a]) + Behind + 1) * Step - 1 + back + Timeout
        BY <1>1, <2>4, <2>7, <3>3 DEF GrantsProved
      <4>2. LastOf(granted[a]) \in Nat
        BY <1>1, <2>4, <2>7, <3>3 DEF LastOf
      <4>3. (LastOf(granted[a]) + Behind + 1) * Step \in Int /\ deadline[a] \in Int
        BY <1>1, <4>2, AuthAssumption
      <4> QED  BY <2>3, <2>4, <3>1, <3>3, <4>1, <4>3, ConstantFacts
    <3> QED  BY <3>2, <3>3
  <2> QED  BY <2>5, <2>6, <2>7 DEF GrantsProved
<1>5. CASE UNCHANGED gateVars
  BY <1>1, <1>5 DEF gateVars, GrantsProved, recordVars, kernelVars, clockVars
<1> QED  BY <1>2, <1>3, <1>4, <1>5 DEF GateNext

(* The rate limiter's table through the steps of the gate. *)
LEMMA SlateStep ==
    ASSUME NoDisplacement, GateInv, GateNext \/ UNCHANGED gateVars, ClockTypeOK'
    PROVE  RateTypeOK' /\ AtHome(g_table)' /\ clean' \subseteq IPs /\ CleanUnlisted'
<1>1. RateInv /\ CleanUnlisted /\ clean \subseteq IPs
  BY DEF GateInv, RateInv
<1>2. ASSUME g_table' = g_table, clean' = clean
      PROVE  RateTypeOK' /\ AtHome(g_table)' /\ clean' \subseteq IPs /\ CleanUnlisted'
  BY <1>1, <1>2 DEF RateInv, RateTypeOK, AtHome, CleanUnlisted
<1>3. ASSUME NEW ip \in IPs, NEW e, g_table' = [g_table EXCEPT ![Hash[ip]] = e],
             \/ e \in rate_entry /\ e.ip = ip
             \/ e = UnusedRate,
             \/ clean' = clean \ {ip}
             \/ clean' = clean \cup {ip} /\ e = UnusedRate
      PROVE  RateTypeOK' /\ AtHome(g_table)' /\ clean' \subseteq IPs /\ CleanUnlisted'
  <2>1. g_table' \in [Slots -> rate_entry \cup {UnusedRate}] /\ AtHome(g_table')
    BY <1>1, <1>3, UpdateHome
  <2>2. ~UnusedRate.used
    BY DEF UnusedRate
  <2>3. /\ Hash[ip] \in Slots /\ g_table'[Hash[ip]] = e
        /\ \A p \in Slots : p # Hash[ip] => g_table'[p] = g_table[p]
    BY <1>1, <1>3, PosZero DEF RateInv, RateTypeOK
  <2>4. ASSUME NEW q \in clean'
        PROVE  ~(g_table'[Hash[q]].used /\ g_table'[Hash[q]].ip = q)
    <3>1. q \in IPs /\ Hash[q] \in Slots
      BY <1>1, <1>3, <2>4, PosZero
    <3>2. CASE Hash[q] = Hash[ip]
      BY <1>3, <2>2, <2>3, <2>4, <3>2
    <3>3. CASE Hash[q] # Hash[ip]
      BY <1>1, <1>3, <2>3, <2>4, <3>1, <3>3 DEF CleanUnlisted
    <3> QED  BY <3>2, <3>3
  <2>5. CleanUnlisted' /\ clean' \subseteq IPs
    BY <1>1, <1>3, <2>4 DEF CleanUnlisted
  <2> QED  BY <2>1, <2>5 DEF RateTypeOK, AtHome
<1>4. ASSUME NEW src \in Sources, NEW payload, Refuse(src, payload)
      PROVE  RateTypeOK' /\ AtHome(g_table)' /\ clean' \subseteq IPs /\ CleanUnlisted'
  <2> DEFINE ip == normalize_src(src)
  <2>1. ip \in IPs /\ rate_limit_fail(ip) /\ clean' = clean \ {ip} /\ now \in Nat
    BY <1>1, <1>4, NormalSource, GateAssumption, ClockFacts DEF Refuse, RateInv, RateTypeOK
  <2> HIDE DEF ip
  <2>2. Entry(ip).used => Entry(ip) \in rate_entry
    BY <1>1, <2>1, TableFacts, PosZero DEF RateInv, Entry
  <2>3. CASE HasEntry(ip) /\ g_table' = [g_table EXCEPT ![Hash[ip]] = AfterFail(@)]
    <3>1. AfterFail(Entry(ip)) \in rate_entry /\ AfterFail(Entry(ip)).ip = ip
      BY <2>1, <2>2, <2>3, AfterFailFacts DEF HasEntry
    <3>2. g_table' = [g_table EXCEPT ![Hash[ip]] = AfterFail(Entry(ip))]
      BY <2>3 DEF Entry
    <3> QED  BY <1>3, <2>1, <3>1, <3>2
  <2>4. CASE ~Entry(ip).used /\ g_table' = [g_table EXCEPT ![Hash[ip]] = FirstFail(ip)]
    <3>1. FirstFail(ip) \in rate_entry /\ FirstFail(ip).ip = ip
      BY <2>1, FirstFailFacts
    <3> QED  BY <1>3, <2>1, <2>4, <3>1
  <2>5. CASE g_table' = g_table
    BY <1>1, <2>1, <2>5 DEF RateInv, RateTypeOK, AtHome, CleanUnlisted
  <2> QED  BY <1>1, <2>1, <2>3, <2>4, <2>5, FailHome
<1>5. ASSUME NEW src \in Sources, NEW token, Accept(src, token)
      PROVE  RateTypeOK' /\ AtHome(g_table)' /\ clean' \subseteq IPs /\ CleanUnlisted'
  <2> DEFINE ip == normalize_src(src)
  <2>1. ip \in IPs /\ rate_limit_success(ip) /\ clean' = clean \cup {ip}
    BY <1>5, NormalSource, GateAssumption DEF Accept
  <2> HIDE DEF ip
  <2>2. CASE g_table' = [g_table EXCEPT ![Hash[ip]] = UnusedRate]
    BY <1>3, <2>1, <2>2
  <2>3. CASE ~HasEntry(ip) /\ g_table' = g_table
    BY <1>1, <2>1, <2>3 DEF RateInv, RateTypeOK, AtHome, CleanUnlisted, HasEntry, Entry
  <2> QED  BY <1>1, <2>1, <2>2, <2>3, SuccessHome
<1>6. CASE Enter \/ Proceed \/ PassBy
  BY <1>2, <1>6, QuietSteps
<1>7. CASE UNCHANGED gateVars
  BY <1>2, <1>7 DEF gateVars
<1> QED  BY <1>4, <1>5, <1>6, <1>7 DEF GateNext

LEMMA GateInitial == GateInit => GateInv
<1> SUFFICES ASSUME GateInit  PROVE GateInv
  OBVIOUS
<1>1. AuthInv /\ RulesInv
  BY StartsRight, AuthInitial, RulesInitial
<1>2. RateTypeOK /\ AtHome(g_table)
  BY RateInitial DEF GateInit, RulesInit, RateInit, RateInv
<1>3. ~FreeRule.active /\ ~UnusedRate.used
  BY DEF FreeRule, UnusedRate
<1>4. GrantsProved
  BY <1>3 DEF GateInit, RulesInit, GrantsProved
<1>5. CleanUnlisted
  BY <1>3, PosZero DEF GateInit, CleanUnlisted
<1> QED  BY <1>1, <1>2, <1>4, <1>5 DEF GateInit, GateInv

LEMMA GateStep ==
    ASSUME NoDisplacement, AgeSuffices, GateInv, [GateNext]_gateVars
    PROVE  GateInv'
<1>1. AuthInv'
  BY AuthSees, AuthStep DEF GateInv
<1>2. RulesInv'
  BY RulesSee, RulesStep DEF GateInv
<1>3. ClockTypeOK'
  BY <1>1 DEF AuthInv, AuthTypeOK
<1>4. RateTypeOK' /\ AtHome(g_table)' /\ clean' \subseteq IPs /\ CleanUnlisted'
  BY <1>3, SlateStep
<1>5. GrantsProved'
  BY ProvedStep
<1> QED  BY <1>1, <1>2, <1>4, <1>5 DEF GateInv

(* Through any traffic, prunes, refusals and clock changes the state that  *)
(* handle_one_packet (src/main.c) spreads over its components is coherent. *)
THEOREM GateCoherent ==
    ASSUME NoDisplacement, AgeSuffices
    PROVE  GateSpec => []GateInv
BY GateInitial, GateStep, PTL DEF GateSpec

(* A step that ends a block of the rate limiter takes time: the packet of  *)
(* another address leaves the entry alone, however long its grant takes.   *)
LEMMA GateBlockStep ==
    ASSUME NoDisplacement, GateInv, GateInv', GateNext \/ UNCHANGED gateVars,
           NEW ip \in IPs, rate_limited(ip), ~rate_limited(ip)'
    PROVE  now' > now
<1>1. RateInv /\ RateInv'
  BY DEF GateInv, RateInv
<1>2. HasEntry(ip) /\ now < Entry(ip).block_until
  BY <1>1, LimitedHome DEF rate_limited, RateInv, HasEntry, Entry
<1>3. ~(HasEntry(ip)' /\ now' < Entry(ip)'.block_until)
  BY <1>1, LimitedHome DEF rate_limited, RateInv, HasEntry, Entry
<1>4. g_table'[Hash[ip]] = Entry(ip)
  <2>1. ASSUME NEW q \in IPs, ~rate_limited(q), rate_limit_fail(q) \/ rate_limit_success(q)
        PROVE  g_table'[Hash[ip]] = Entry(ip)
    <3>1. q # ip
      BY <2>1
    <3> QED  BY <1>1, <1>2, <2>1, <3>1, OthersUntouched
  <2>2. ASSUME NEW src \in Sources, NEW payload, Refuse(src, payload)
        PROVE  g_table'[Hash[ip]] = Entry(ip)
    BY <2>1, <2>2, NormalSource DEF Refuse
  <2>3. ASSUME NEW src \in Sources, NEW token \in Tokens, Accept(src, token)
        PROVE  g_table'[Hash[ip]] = Entry(ip)
    BY <2>1, <2>3, NormalSource DEF Accept
  <2>4. CASE Enter \/ Proceed \/ PassBy \/ UNCHANGED gateVars
    BY <2>4 DEF Enter, Proceed, PassBy, gateVars, Entry
  <2> QED  BY <2>2, <2>3, <2>4 DEF GateNext
<1>5. ~(now' < Entry(ip).block_until)
  BY <1>2, <1>3, <1>4 DEF HasEntry, Entry
<1>6. Entry(ip).block_until \in Nat
  BY <1>1, <1>2, TableFacts, PosZero DEF RateInv, HasEntry, Entry, rate_entry
<1>7. now \in Int /\ now' \in Int
  BY <1>1, ClockAssumption DEF RateInv, RateTypeOK, ClockTypeOK
<1> QED  BY <1>2, <1>5, <1>6, <1>7

(* In the whole daemon, too, nothing but the passing of time lifts a block *)
(* of src/ratelimit.c: no packet of any source, no grant and no prune      *)
(* (handle_one_packet and daemon_process, src/main.c).                     *)
THEOREM BlocksStandInTheGate ==
    ASSUME NoDisplacement, AgeSuffices
    PROVE  GateSpec => BlockStands
<1>1. GateInv /\ GateInv' /\ [GateNext]_gateVars
        => [\A ip \in IPs : rate_limited(ip) /\ ~rate_limited(ip)' => now' > now]_rateVars
  BY GateBlockStep
<1> QED  BY <1>1, GateCoherent, PTL DEF GateSpec, BlockStands

(* Whoever the kernel lets in used a token whose time is no further back   *)
(* than drift, grant, prune interval and passes of daemon_process          *)
(* (src/main.c) add up to.                                                 *)
THEOREM LetInOnRecentProof ==
    ASSUME NoDisplacement, AgeSuffices
    PROVE  GateSpec => []RecentProof
<1>1. ASSUME GateInv, NEW a \in allowed \ stuck
      PROVE  /\ granted[a] # <<>>
             /\ Mono <= (LastOf(granted[a]) + Behind + 1) * Step - 1
                        + 2 * back + Timeout + PruneInterval + 2 * (MaxPass - 1)
  <2>1. /\ a \in IPs /\ granted[a] # <<>> /\ granted[a] \in Seq(Nat) /\ deadline[a] \in Int
        /\ Mono \in Nat /\ back \in Nat
        /\ deadline[a] <= (LastOf(granted[a]) + Behind + 1) * Step - 1 + back + Timeout
    <3>1. RulesTypeOK /\ GrantsProved /\ granted \in [IPs -> Seq(Nat)] /\ Addrs = IPs
      BY <1>1, GateAssumption DEF GateInv, AuthInv, AuthTypeOK, RulesInv
    <3>2. a \in IPs
      BY <3>1 DEF RulesTypeOK
    <3>3. deadline[a] \in Int /\ Mono \in Nat /\ back \in Nat
      BY <3>1, <3>2, RuleFacts
    <3>4. granted[a] # <<>>
      BY <3>1, <3>2 DEF GrantsProved
    <3> QED  BY <3>1, <3>2, <3>3, <3>4 DEF GrantsProved
  <2>2. Mono <= deadline[a] + back + PruneInterval + 2 * (MaxPass - 1)
    BY <1>1, Overstay DEF GateInv
  <2>3. LastOf(granted[a]) \in Nat
    BY <2>1 DEF LastOf
  <2>4. (LastOf(granted[a]) + Behind + 1) * Step \in Int
    BY <2>3, AuthAssumption
  <2>5. \A d, x \in Int : \A m, n, t, v, w \in Nat :
           m <= d + n + v + 2 * (w - 1) /\ d <= x - 1 + n + t
              => m <= x - 1 + 2 * n + t + v + 2 * (w - 1)
    OBVIOUS
  <2> QED  BY <2>1, <2>2, <2>4, <2>5, ConstantFacts
<1>2. GateInv => RecentProof
  BY <1>1 DEF RecentProof
<1> QED  BY <1>2, GateCoherent, PTL

(* An accepted token wipes the slate of its address (handle_one_packet,    *)
(* src/main.c), whatever became of its rule.                               *)
THEOREM SlateWiped ==
    ASSUME NoDisplacement, AgeSuffices
    PROVE  GateSpec => []CleanSlate
<1>1. ASSUME GateInv, NEW ip \in clean
      PROVE  ~rate_limited(ip)
  <2>1. ip \in IPs /\ AtHome(g_table) /\ ~(g_table[Hash[ip]].used /\ g_table[Hash[ip]].ip = ip)
    BY <1>1 DEF GateInv, CleanUnlisted
  <2> QED  BY <2>1, FoundHome DEF rate_limited
<1>2. ASSUME GateInv, NEW ip \in clean, NEW c \in Windows,
             \A d \in Windows : Hotp[d] = Hotp[c] => d = c,
             \A k \in 1..Len(granted[ip]) : granted[ip][k] < c,
             ~NoRoom(g_replay, ip)
      PROVE  Acceptable(ip, Hotp[c])
  <2>1. ip \in IPs /\ AuthInv
    BY <1>2 DEF GateInv
  <2>2. \A d \in Windows : d \in Nat
    BY <2>1, WindowsAreRecent DEF AuthInv
  <2>3. Matches(Hotp[c], c)
    <3>1. \A d \in Windows : d < c => d # c
      BY <2>2
    <3> QED  BY <1>2, <3>1 DEF Matches
  <2>4. ~auth_seen_before(c, ip)
    <3> SUFFICES ASSUME HasReplay(ip), c <= ReplayOf(ip).last_seq PROVE FALSE
      BY <2>1, SeenHome
    <3>1. PICK k \in 1..Len(granted[ip]) : granted[ip][k] = ReplayOf(ip).last_seq
      BY <2>1 DEF AuthInv, EntriesAreGranted
    <3>2. granted[ip][k] \in Nat /\ c \in Nat /\ granted[ip][k] < c
      BY <1>2, <2>1, <2>2 DEF AuthInv, AuthTypeOK
    <3> QED  BY <3>1, <3>2
  <2> QED  BY <1>2, <2>3, <2>4 DEF Acceptable
<1>3. GateInv => CleanSlate
  BY <1>1, <1>2 DEF CleanSlate
<1> QED  BY <1>3, GateCoherent, PTL

-----------------------------------------------------------------------------
(* Every step of the gate is one that Access allows. *)
LEMMA PromisedStep ==
    ASSUME GateInv, GateNext \/ UNCHANGED gateVars
    PROVE  [Door!AccessNext]_(Door!accessVars)
<1>1. /\ AuthInv /\ RulesInv /\ GrantsProved /\ Addrs = IPs /\ RulesTypeOK
      /\ Mono \in Nat /\ back \in Nat /\ Mono = now + back
  BY GateAssumption, RuleFacts DEF GateInv, RulesInv
<1>2. ASSUME NEW src \in Sources, NEW payload, Refuse(src, payload)
      PROVE  UNCHANGED Door!accessVars
  BY <1>2 DEF Refuse, Door!accessVars, kernelVars, clockVars, Mono
<1>3. ASSUME NEW src \in Sources, NEW token \in Tokens, Accept(src, token)
      PROVE  Door!AccessNext
  <2> DEFINE ip == normalize_src(src)
  <2>1. ip \in IPs /\ ip \in Addrs /\ Validated(ip, token) /\ Grant(ip)
    BY <1>3, NormalSource, GateAssumption DEF Accept
  <2> HIDE DEF ip
  <2>2. \E n \in DOMAIN Hotp :
           /\ Door!Advances(granted[ip], n)
           /\ granted' = [granted EXCEPT ![ip] = Append(@, n)]
    BY <1>1, <2>1, ValidatedFacts DEF Door!Advances
  <2>3. /\ deadline' = [deadline EXCEPT ![ip] = Mono + Timeout]
        /\ back <= back' /\ back' \in Nat /\ Mono <= Mono' /\ Mono' \in Nat
        /\ allowed' = allowed \/ allowed' = allowed \cup {ip}
    BY <1>1, <2>1, GrantFacts
  <2>4. Door!TimePasses
    BY <1>1, <2>3 DEF Door!TimePasses
  <2>5. Door!Admit(ip)
    BY <2>2, <2>3, <2>4 DEF Door!Admit
  <2> QED  BY <2>1, <2>5 DEF Door!AccessNext
<1>4. CASE PassBy
  <2>1. Mono <= Mono' /\ Mono' \in Nat /\ back <= back' /\ back' \in Nat
    BY <1>1, <1>4, TimeBounds DEF PassBy, Elapse
  <2>2. Door!TimePasses
    BY <1>1, <2>1 DEF Door!TimePasses
  <2>3. Door!Wait
    BY <1>4, <2>2 DEF Door!Wait, PassBy, Elapse, kernelVars
  <2> QED  BY <2>3 DEF Door!AccessNext
<1>5. CASE Enter
  BY <1>5 DEF Enter, Wake, kernelVars, clockVars, Door!accessVars, Mono
<1>6. CASE Proceed
  <2>1. now' = now /\ back' = back /\ granted' = granted /\ Mono' = Mono
    BY <1>6, ProceedFacts DEF Proceed, clockVars, Mono
  <2>2. CASE PruneDone \/ EndPass
    BY <2>1, <2>2 DEF PruneDone, EndPass, kernelVars, Door!accessVars
  <2>3. CASE FlushIp \/ FlushIp6
    <3>1. allowed' \subseteq allowed /\ deadline' = deadline
      BY <2>3 DEF FlushIp, FlushIp6, Flush
    <3>2. Door!Expel
      BY <2>1, <3>1 DEF Door!Expel
    <3> QED  BY <3>2 DEF Door!AccessNext
  <2>4. CASE Reinsert
    <3>1. deadline' = deadline /\ pc = "reinsert" /\ i < num_rules
      BY <2>4 DEF Reinsert
    <3>2. i \in Records
      BY <1>1, <3>1, RuleFacts, ConstantFacts DEF Records
    <3>3. CASE allowed' = allowed
      BY <2>1, <3>1, <3>3 DEF Door!accessVars
    <3>4. CASE allowed' # allowed
      <4> DEFINE a == rules[i].addr
                 x == rules[i].expiry
      <4>1. rules[i].active /\ pnow < x /\ allowed' = allowed \cup {a}
        BY <2>4, <3>4 DEF Reinsert, netlink_rule_insert
      <4>2. a \in IPs /\ granted[a] # <<>> /\ x \in Nat /\ deadline[a] \in Nat
        BY <1>1, <3>2, <4>1, RuleFacts DEF GrantsProved
      <4>3. x <= deadline[a]
        BY <1>1, <3>2, <4>1 DEF RulesInv, RecordsBounded
      <4> HIDE DEF a, x
      <4>4. pnow + back >= last_prune /\ last_pass = last_prune /\ Mono <= last_pass + MaxPass
        BY <1>1, <3>1 DEF RulesInv, PrunesTimely, Pruning
      <4>5. pnow \in Nat /\ last_prune \in Nat /\ MaxPass \in Nat
        BY <1>1, RuleFacts, ConstantFacts
      <4>6. Mono < deadline[a] + back + MaxPass
        BY <1>1, <4>1, <4>2, <4>3, <4>4, <4>5
      <4>7. Door!Readmit(a)
        BY <2>1, <3>1, <4>1, <4>2, <4>6 DEF Door!Readmit
      <4> QED  BY <4>2, <4>7 DEF Door!AccessNext
    <3> QED  BY <3>3, <3>4
  <2> QED  BY <1>6, <2>2, <2>3, <2>4 DEF Proceed
<1>7. CASE UNCHANGED gateVars
  BY <1>7 DEF gateVars, kernelVars, clockVars, Door!accessVars, Mono
<1> QED  BY <1>2, <1>3, <1>4, <1>5, <1>6, <1>7 DEF GateNext

(* The daemon implements its promise: only a token that advances on all    *)
(* its address used opens the gate (handle_one_packet, src/main.c), and    *)
(* rule_prune restores access only while the grant lasts.                  *)
THEOREM PromiseOfTheGate ==
    ASSUME NoDisplacement, AgeSuffices
    PROVE  GateSpec => KeepsPromise
<1>1. GateInit => Door!AccessInit
  <2> SUFFICES ASSUME GateInit  PROVE Door!AccessInit
    OBVIOUS
  <2>1. Mono \in Nat
    BY GateInitial, RuleFacts DEF GateInv, RulesInv
  <2> QED  BY <2>1, GateAssumption DEF GateInit, RulesInit, ClockInit, Door!AccessInit
<1>2. GateInv /\ [GateNext]_gateVars => [Door!AccessNext]_(Door!accessVars)
  BY PromisedStep
<1> QED  BY <1>1, <1>2, GateCoherent, PTL DEF GateSpec, KeepsPromise, Door!AccessSpec
=============================================================================
