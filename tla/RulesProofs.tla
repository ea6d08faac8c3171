----------------------------- MODULE RulesProofs -----------------------------
(***************************************************************************)
(* Proofs about the dynamic firewall rules, for every number of addresses  *)
(* and records and every timing.  The kernel may refuse any insertion and  *)
(* any flush.                                                              *)
(***************************************************************************)
EXTENDS Rules, TLAPS

(* What the type invariant says, in the form the steps below use it. *)
LEMMA RuleFacts ==
    ASSUME RulesTypeOK
    PROVE  /\ now \in Nat /\ back \in Nat /\ Mono \in Nat /\ Mono = now + back
           /\ last_prune \in Nat /\ last_pass \in Nat /\ pnow \in Nat
           /\ num_rules \in Nat /\ num_rules <= MaxRules /\ i \in Nat /\ i <= MaxRules
           /\ DOMAIN rules = Records
           /\ \A k \in Records : rules[k].active =>
                 rules[k] \in dynamic_rule /\ rules[k].expiry \in Nat /\ rules[k].addr \in Addrs
           /\ \A k \in Records : k \in Nat
           /\ \A a \in Addrs : deadline[a] \in Nat
<1>1. \A k \in Records : rules[k] \in dynamic_rule \cup {FreeRule}
  BY DEF RulesTypeOK
<1>2. FreeRule.active = FALSE
  BY DEF FreeRule
<1>3. \A k \in Records : rules[k].active => rules[k] \in dynamic_rule
  BY <1>1, <1>2
<1>4. now \in Nat /\ back \in Nat /\ Mono \in Nat /\ Mono = now + back
  <2>1. now \in 0..MaxTime /\ back \in 0..MaxBack /\ MaxTime \in Nat /\ MaxBack \in Nat
    BY ClockAssumption DEF RulesTypeOK, ClockTypeOK
  <2>2. now \in Nat /\ back \in Nat
    BY <2>1
  <2> QED  BY <2>2 DEF Mono
<1>5. num_rules \in Nat /\ num_rules <= MaxRules /\ i \in Nat /\ i <= MaxRules
  <2>1. num_rules \in 0..MaxRules /\ i \in 0..MaxRules /\ MaxRules \in Nat
    BY RulesAssumption DEF RulesTypeOK
  <2> QED  BY <2>1
<1>6. \A k \in Records : k \in Nat
  BY RulesAssumption DEF Records
<1> QED  BY <1>3, <1>4, <1>5, <1>6 DEF RulesTypeOK, dynamic_rule

LEMMA ConstantFacts ==
    /\ Timeout \in Nat /\ PruneInterval \in Nat /\ PruneInterval >= 1
    /\ MaxPass \in Nat /\ MaxPass >= 1 /\ MaxRules \in Nat /\ MaxRules >= 1
BY RulesAssumption

-----------------------------------------------------------------------------
(* The wake-up of daemon_process: it prunes when that is due. *)
LEMMA WakeStep ==
    ASSUME RulesInv, Wake
    PROVE  RulesInv'
<1>1. /\ pc = "wait" /\ last_pass' = Mono
      /\ last_prune' = IF Due THEN Mono ELSE last_prune
      /\ IF Due /\ FoundExpired
         THEN pc' = "flush ip" /\ pnow' = now
         ELSE pc' = "packets" /\ pnow' = pnow
      /\ i' = i /\ rules' = rules /\ num_rules' = num_rules
      /\ allowed' = allowed /\ deadline' = deadline /\ lost' = lost /\ stuck' = stuck
      /\ now' = now /\ back' = back
  BY DEF Wake, recordVars, kernelVars, clockVars
<1>2. RulesTypeOK /\ RecordsBounded /\ PruneStages /\ PrunesTimely
      /\ KernelRuleWatched /\ RecordsInKernel
  BY DEF RulesInv
<1>3. Mono' = Mono /\ Mono \in Nat
  BY <1>1, <1>2, RuleFacts DEF Mono
<1>4. RulesTypeOK'
  BY <1>1, <1>2, <1>3, RuleFacts DEF RulesTypeOK, ClockTypeOK
<1>5. RecordsBounded' /\ KernelRuleWatched' /\ RecordsInKernel' /\ PruneStages'
  BY <1>1, <1>2, <1>3 DEF RecordsBounded, KernelRuleWatched, RecordsInKernel, PruneStages
<1>6. PrunesTimely'
  <2>1. /\ last_prune <= Mono /\ last_prune \in Nat /\ last_pass \in Nat
        /\ last_pass <= Mono /\ Mono <= last_pass + MaxPass
        /\ last_pass - last_prune <= PruneInterval - 1
    BY <1>2, RuleFacts DEF PrunesTimely
  <2>2. ASSUME NEW k \in Records, rules[k].active
        PROVE  /\ rules[k].expiry \in Nat /\ k < num_rules
               /\ rules[k].expiry + back >= last_prune + 1
    BY <1>1, <1>2, <2>2, RuleFacts DEF PrunesTimely, Kept, Pruning, RecordsBounded
  <2>3. CASE ~Due
    <3>1. Mono - last_prune <= PruneInterval - 1
      BY <1>3, <2>1, <2>3, ConstantFacts DEF Due
    <3>2. last_prune' = last_prune /\ last_pass' = Mono /\ pc' = "packets"
      BY <1>1, <2>3
    <3>3. Mono <= Mono + MaxPass
      BY <1>3, ConstantFacts
    <3> QED  BY <1>1, <1>3, <2>1, <2>2, <3>1, <3>2, <3>3 DEF PrunesTimely, Kept, Pruning
  <2>4. CASE Due
    <3>1. last_prune' = Mono /\ last_pass' = Mono
      BY <1>1, <2>4
    <3>2. Mono <= Mono /\ Mono <= Mono + MaxPass /\ Mono - Mono <= PruneInterval - 1
      BY <1>3, ConstantFacts
    <3>3. CASE FoundExpired
      <4>1. pc' = "flush ip" /\ pnow' = now /\ now + back >= Mono
        <5>1. now + back >= Mono
          BY <1>2, RuleFacts
        <5> QED  BY <1>1, <2>4, <3>3, <5>1
      <4>2. ASSUME NEW k \in Records, rules[k].active
            PROVE  Mono <= rules[k].expiry + back + PruneInterval + MaxPass - 2
        BY <1>2, <1>3, <2>1, <2>2, <4>2, ConstantFacts, RuleFacts
      <4> QED  BY <1>1, <1>3, <3>1, <3>2, <4>1, <4>2 DEF PrunesTimely, Kept, Pruning
    <3>4. CASE ~FoundExpired
      <4>1. pc' = "packets"
        BY <1>1, <3>4
      <4>2. ASSUME NEW k \in Records, rules[k].active
            PROVE  rules[k].expiry + back >= Mono + 1
        <5>1. k \in 0..(num_rules - 1)
          BY <1>2, <2>2, <4>2, RuleFacts
        <5>2. ~(now >= rules[k].expiry)
          BY <3>4, <4>2, <5>1 DEF FoundExpired, Expired
        <5> QED  BY <1>2, <2>2, <4>2, <5>2, RuleFacts
      <4> QED  BY <1>1, <1>3, <3>1, <3>2, <4>1, <4>2 DEF PrunesTimely, Kept, Pruning
    <3> QED  BY <3>3, <3>4
  <2> QED  BY <2>3, <2>4
<1> QED  BY <1>4, <1>5, <1>6 DEF RulesInv

-----------------------------------------------------------------------------
(* The two halves of netlink_flush_chain. *)
LEMMA FlushStep ==
    ASSUME RulesInv, FlushIp \/ FlushIp6
    PROVE  RulesInv'
<1>1. /\ rules' = rules /\ num_rules' = num_rules /\ i' = i /\ pnow' = pnow
      /\ last_prune' = last_prune /\ last_pass' = last_pass
      /\ deadline' = deadline /\ lost' = lost /\ now' = now /\ back' = back
  BY DEF FlushIp, FlushIp6, recordVars, clockVars
<1>2. RulesTypeOK /\ RecordsBounded /\ PruneStages /\ PrunesTimely
      /\ KernelRuleWatched /\ RecordsInKernel
  BY DEF RulesInv
<1>3. /\ allowed' \subseteq allowed /\ stuck' \subseteq stuck \cup allowed
      /\ allowed' \ stuck' \subseteq allowed \ stuck
      /\ \/ /\ pc = "flush ip" /\ pc' = "flush ip6"
            /\ \A a \in allowed' \ stuck' : FamilyOf[a] # "ip"
         \/ /\ pc = "flush ip6" /\ pc' = "reinsert"
            /\ \A a \in allowed' \ stuck' : FamilyOf[a] # "ip6"
  <2>1. ASSUME NEW f, Flush(f)
        PROVE  /\ allowed' \subseteq allowed /\ stuck' \subseteq stuck \cup allowed
               /\ allowed' \ stuck' \subseteq allowed \ stuck
               /\ \A a \in allowed' \ stuck' : FamilyOf[a] # f
    BY <2>1 DEF Flush, Of
  <2> QED  BY <2>1 DEF FlushIp, FlushIp6
<1>4. Mono' = Mono /\ i = 0
  BY <1>1, <1>2, <1>3 DEF Mono, PruneStages
<1>5. RulesTypeOK'
  BY <1>1, <1>2, <1>3 DEF RulesTypeOK, ClockTypeOK
<1>6. RecordsBounded' /\ KernelRuleWatched' /\ RecordsInKernel'
  BY <1>1, <1>2, <1>3, <1>4 DEF RecordsBounded, KernelRuleWatched, RecordsInKernel
<1>7. PruneStages'
  <2>1. CASE pc' = "flush ip6"
    BY <1>1, <1>3, <1>4, <2>1 DEF PruneStages
  <2>2. CASE pc' = "reinsert"
    <3>1. allowed' \ stuck' = {}
      BY <1>2, <1>3, <2>2, RulesAssumption DEF PruneStages, RulesTypeOK, Families
    <3>2. \A k \in Records : ~(k < i')
      BY <1>1, <1>2, <1>4, RuleFacts
    <3> QED  BY <2>2, <3>1, <3>2 DEF PruneStages
  <2> QED  BY <1>3, <2>1, <2>2
<1>8. PrunesTimely'
  <2>1. \A k \in Records : ~(k < i')
    BY <1>1, <1>2, <1>4, RuleFacts
  <2> QED  BY <1>1, <1>2, <1>3, <1>4, <2>1 DEF PrunesTimely, Kept, Pruning
<1> QED  BY <1>5, <1>6, <1>7, <1>8 DEF RulesInv

-----------------------------------------------------------------------------
(* One turn of rule_prune's second loop. *)
LEMMA ReinsertStep ==
    ASSUME RulesInv, Reinsert
    PROVE  RulesInv'
<1>1. /\ pc = "reinsert" /\ pc' = pc /\ i < num_rules /\ i' = i + 1
      /\ num_rules' = num_rules /\ pnow' = pnow
      /\ last_prune' = last_prune /\ last_pass' = last_pass
      /\ deadline' = deadline /\ now' = now /\ back' = back
  BY DEF Reinsert, clockVars
<1>2. RulesTypeOK /\ RecordsBounded /\ PruneStages /\ PrunesTimely
      /\ KernelRuleWatched /\ RecordsInKernel
  BY DEF RulesInv
<1>3. Mono' = Mono /\ back \in Nat /\ pnow \in Nat /\ last_prune \in Nat
      /\ num_rules \in Nat /\ num_rules <= MaxRules /\ DOMAIN rules = Records
  BY <1>1, <1>2, RuleFacts DEF Mono
<1>4. i \in Nat /\ i \in Records /\ i + 1 \in 0..MaxRules
  BY <1>1, <1>2, <1>3, ConstantFacts, RuleFacts DEF Records
<1>5. \A k \in Records : k \in Nat /\ (k < i + 1 <=> k < i \/ k = i)
  BY <1>2, <1>4, RuleFacts
<1>6. CASE /\ rules[i].active /\ pnow < rules[i].expiry
           /\ \E ok \in BOOLEAN : netlink_rule_insert(rules[i].addr, ok)
           /\ UNCHANGED rules
  <2> DEFINE a == rules[i].addr
  <2>1. a \in Addrs /\ rules[i].expiry \in Nat
    BY <1>2, <1>4, <1>6, RuleFacts
  <2>2. \/ allowed' = allowed \cup {a} /\ lost' = lost \ {a} /\ stuck' = stuck \ {a}
        \/ allowed' = allowed /\ lost' = lost \cup {a} /\ stuck' = stuck
    BY <1>6 DEF netlink_rule_insert
  <2>3. RulesTypeOK'
    BY <1>1, <1>2, <1>4, <1>6, <2>1, <2>2 DEF RulesTypeOK, ClockTypeOK
  <2>4. RecordsBounded' /\ RecordsInKernel'
    BY <1>1, <1>2, <1>3, <1>6 DEF RecordsBounded, RecordsInKernel
  <2>5. PruneStages'
    <3>1. ASSUME NEW x \in allowed' \ stuck'
          PROVE  \E k \in Records : k < i + 1 /\ rules[k].active /\ rules[k].addr = x
      <4>1. CASE x \in allowed \ stuck
        BY <1>1, <1>2, <1>5, <4>1 DEF PruneStages
      <4>2. CASE x = a
        BY <1>4, <1>5, <1>6, <4>2
      <4> QED  BY <2>2, <3>1, <4>1, <4>2
    <3>2. ASSUME NEW k \in Records, k < i + 1, rules[k].active
          PROVE  rules[k].addr \in allowed' \cup lost'
      <4>1. CASE k < i
        BY <1>1, <1>2, <2>2, <3>2, <4>1 DEF PruneStages
      <4>2. CASE k = i
        BY <2>2, <4>2
      <4> QED  BY <1>5, <3>2, <4>1, <4>2
    <3> QED  BY <1>1, <1>6, <3>1, <3>2 DEF PruneStages
  <2>6. KernelRuleWatched'
    <3>1. i \in 0..(num_rules - 1)
      BY <1>1, <1>3, <1>4
    <3>2. rules[i].expiry <= deadline[a]
      BY <1>2, <1>4, <1>6 DEF RecordsBounded
    <3>3. \A x \in allowed' \ stuck' : x \in allowed \ stuck \/ x = a
      BY <2>2
    <3> QED  BY <1>1, <1>2, <1>6, <3>1, <3>2, <3>3 DEF KernelRuleWatched
  <2>7. PrunesTimely'
    <3>1. rules[i].expiry + back >= last_prune + 1
      <4>1. pnow + back >= last_prune
        BY <1>1, <1>2 DEF PrunesTimely, Pruning
      <4> QED  BY <1>3, <1>6, <2>1, <4>1
    <3>2. \A k \in Records : k < i /\ rules[k].active => rules[k].expiry + back >= last_prune + 1
      BY <1>1, <1>2 DEF PrunesTimely, Kept
    <3> QED  BY <1>1, <1>2, <1>3, <1>5, <1>6, <3>1, <3>2 DEF PrunesTimely, Kept, Pruning
  <2> QED  BY <2>3, <2>4, <2>5, <2>6, <2>7 DEF RulesInv
<1>7. CASE /\ ~(rules[i].active /\ pnow < rules[i].expiry)
           /\ rules' = [rules EXCEPT ![i] = FreeRule]
           /\ UNCHANGED <<allowed, lost, stuck>>
  <2>1. ~FreeRule.active
    BY DEF FreeRule
  <2>2. /\ ~rules'[i].active /\ DOMAIN rules' = Records
        /\ \A k \in Records : k # i => rules'[k] = rules[k]
        /\ allowed' = allowed /\ lost' = lost /\ stuck' = stuck
    BY <1>3, <1>4, <1>7, <2>1
  <2>3. \A k \in Records : rules'[k].active => k # i /\ rules[k].active /\ rules'[k] = rules[k]
    BY <2>2
  <2>4. RulesTypeOK'
    BY <1>1, <1>2, <1>4, <1>7 DEF RulesTypeOK, ClockTypeOK
  <2>5. RecordsBounded' /\ RecordsInKernel'
    BY <1>1, <1>2, <1>3, <2>2, <2>3 DEF RecordsBounded, RecordsInKernel
  <2>6. ASSUME NEW x \in allowed \ stuck
        PROVE  \E k \in Records : k < i /\ rules'[k].active /\ rules'[k].addr = x
    <3>1. PICK k \in Records : k < i /\ rules[k].active /\ rules[k].addr = x
      BY <1>1, <1>2 DEF PruneStages
    <3>2. k # i
      BY <1>4, <1>5, <3>1
    <3> QED  BY <2>2, <3>1, <3>2
  <2>7. PruneStages'
    BY <1>1, <1>2, <1>5, <2>2, <2>3, <2>6 DEF PruneStages
  <2>8. KernelRuleWatched'
    <3>1. ASSUME NEW x \in allowed \ stuck
          PROVE  \E k \in 0..(num_rules - 1) : rules'[k].active /\ rules'[k].expiry <= deadline[x]
      <4>1. PICK k \in Records : k < i /\ rules'[k].active /\ rules'[k].addr = x
        BY <2>6
      <4>2. k \in 0..(num_rules - 1)
        BY <1>1, <1>3, <1>4, <1>5, <4>1
      <4>3. rules'[k].expiry <= deadline[x]
        BY <1>2, <2>3, <4>1 DEF RecordsBounded
      <4> QED  BY <4>1, <4>2, <4>3
    <3> QED  BY <1>1, <2>2, <3>1 DEF KernelRuleWatched
  <2>9. PrunesTimely'
    BY <1>1, <1>2, <1>3, <1>5, <2>2, <2>3 DEF PrunesTimely, Kept, Pruning
  <2> QED  BY <2>4, <2>5, <2>7, <2>8, <2>9 DEF RulesInv
<1> QED  BY <1>6, <1>7 DEF Reinsert

(* The end of rule_prune and the end of a pass of daemon_process. *)
LEMMA PassStep ==
    ASSUME RulesInv, PruneDone \/ EndPass
    PROVE  RulesInv'
<1>0. pnow \in Nat /\ (pc # "reinsert" => i = 0) /\ 0 \in 0..MaxRules
  <2>1. 0 \in 0..MaxRules
    BY ConstantFacts
  <2> QED  BY <2>1 DEF RulesInv, RulesTypeOK, PruneStages
<1>1. /\ rules' = rules /\ num_rules' = num_rules
      /\ last_prune' = last_prune /\ last_pass' = last_pass /\ i' = 0
      /\ allowed' = allowed /\ deadline' = deadline /\ lost' = lost /\ stuck' = stuck
      /\ now' = now /\ back' = back /\ pnow' \in Nat
      /\ pc' \in {"wait", "packets"}
      /\ pc = "packets" \/ (pc = "reinsert" /\ i >= num_rules)
  <2>1. CASE PruneDone
    BY <1>0, <2>1 DEF PruneDone, recordVars, kernelVars, clockVars
  <2>2. CASE EndPass
    BY <1>0, <2>2 DEF EndPass, recordVars, kernelVars, clockVars
  <2> QED  BY <2>1, <2>2
<1>2. RulesTypeOK /\ RecordsBounded /\ PruneStages /\ PrunesTimely
      /\ KernelRuleWatched /\ RecordsInKernel
  BY DEF RulesInv
<1>3. Mono' = Mono
  BY <1>1 DEF Mono
<1>4. \A k \in Records : pc = "reinsert" /\ rules[k].active => k < i
  BY <1>1, <1>2, RuleFacts DEF RecordsBounded
<1>5. RulesTypeOK'
  BY <1>0, <1>1, <1>2 DEF RulesTypeOK, ClockTypeOK
<1>6. RecordsBounded' /\ KernelRuleWatched' /\ PruneStages'
  BY <1>1, <1>2, <1>3 DEF RecordsBounded, KernelRuleWatched, PruneStages
<1>7. RecordsInKernel'
  BY <1>1, <1>2, <1>4 DEF RecordsInKernel, PruneStages
<1>8. PrunesTimely'
  BY <1>1, <1>2, <1>3, <1>4 DEF PrunesTimely, Kept, Pruning
<1> QED  BY <1>5, <1>6, <1>7, <1>8 DEF RulesInv

-----------------------------------------------------------------------------
(* Time passes; the wall clock may be set back. *)
LEMMA TimeBounds ==
    ASSUME RulesInv, PassTime \/ UNCHANGED clockVars
    PROVE  /\ ClockTypeOK' /\ Mono <= Mono' /\ Mono \in Nat /\ Mono' \in Nat
           /\ back <= back' /\ back \in Nat /\ back' \in Nat
           /\ Mono' <= last_pass + MaxPass
<1>1. RulesTypeOK /\ PrunesTimely /\ ClockTypeOK
  BY DEF RulesInv, RulesTypeOK
<1>2. last_pass \in Nat /\ now \in Nat /\ back \in Nat /\ Mono = now + back
  BY <1>1, RuleFacts
<1>3. CASE Tick /\ Mono - last_pass < MaxPass
  <2>1. Mono' = Mono + 1 /\ back' = back
    BY <1>2, <1>3 DEF Tick, Mono
  <2>2. ClockTypeOK'
    BY <1>1, <1>3, ClockAssumption DEF ClockTypeOK, Tick
  <2> QED  BY <1>2, <1>3, <2>1, <2>2, ConstantFacts
<1>4. CASE SetBack
  <2>1. PICK d \in 1..(MaxBack - back) : d <= now /\ now' = now - d /\ back' = back + d
    BY <1>4 DEF SetBack
  <2>2. Mono' = Mono /\ back <= back' /\ back' \in Nat
    BY <1>2, <2>1, ClockAssumption DEF Mono
  <2>3. ClockTypeOK'
    BY <1>1, <1>2, <2>1, ClockAssumption DEF ClockTypeOK
  <2> QED  BY <1>1, <1>2, <2>2, <2>3 DEF PrunesTimely
<1>5. CASE UNCHANGED clockVars
  <2>1. now' = now /\ back' = back
    BY <1>5 DEF clockVars
  <2>2. Mono' = Mono /\ ClockTypeOK'
    BY <1>1, <2>1 DEF Mono, ClockTypeOK
  <2> QED  BY <1>1, <1>2, <2>1, <2>2 DEF PrunesTimely
<1> QED  BY <1>3, <1>4, <1>5 DEF PassTime

LEMMA ElapseStep ==
    ASSUME RulesInv, Elapse
    PROVE  RulesInv'
<1>1. /\ rules' = rules /\ num_rules' = num_rules /\ i' = i /\ pnow' = pnow /\ pc' = pc
      /\ last_prune' = last_prune /\ last_pass' = last_pass
      /\ allowed' = allowed /\ deadline' = deadline /\ lost' = lost
      /\ stuck' = stuck
  BY DEF Elapse, recordVars, kernelVars, loopVars
<1>2. RulesTypeOK /\ RecordsBounded /\ PruneStages /\ PrunesTimely
      /\ KernelRuleWatched /\ RecordsInKernel
  BY DEF RulesInv
<1>4. ClockTypeOK' /\ Mono <= Mono' /\ Mono \in Nat /\ Mono' \in Nat
  BY TimeBounds DEF Elapse
<1>5. back <= back' /\ back \in Nat /\ back' \in Nat
  BY TimeBounds DEF Elapse
<1>6. Mono' <= last_pass + MaxPass
  BY TimeBounds DEF Elapse
<1>7. RulesTypeOK'
  BY <1>1, <1>2, <1>4 DEF RulesTypeOK
<1>8. KernelRuleWatched' /\ RecordsInKernel' /\ PruneStages'
  BY <1>1, <1>2 DEF KernelRuleWatched, RecordsInKernel, PruneStages
<1>9. RecordsBounded'
  <2>1. \A x \in Nat : x <= Mono + Timeout => x <= Mono' + Timeout
    <3>1. \A m, n, x \in Nat : m <= n /\ x <= m + Timeout => x <= n + Timeout
      BY ConstantFacts
    <3> QED  BY <1>4, <3>1
  <2>2. \A k \in Records : rules[k].active => rules[k].expiry \in Nat
    BY <1>2, RuleFacts
  <2>3. \A a \in Addrs : deadline[a] \in Nat
    BY <1>2, RuleFacts
  <2> QED  BY <1>1, <1>2, <2>1, <2>2, <2>3 DEF RecordsBounded
<1>10. PrunesTimely'
  <2>1. \A x \in Nat : x <= Mono => x <= Mono'
    BY <1>4
  <2>2. last_pass \in Nat /\ last_prune \in Nat /\ pnow \in Nat
    BY <1>2, RuleFacts
  <2>3. ASSUME NEW k \in Records, rules[k].active
        PROVE  /\ rules[k].expiry + back >= last_prune + 1
                  => rules[k].expiry + back' >= last_prune + 1
               /\ last_prune <= rules[k].expiry + back + PruneInterval + MaxPass - 2
                  => last_prune <= rules[k].expiry + back' + PruneInterval + MaxPass - 2
    <3>1. rules[k].expiry \in Nat
      BY <1>2, <2>3, RuleFacts
    <3> QED  BY <1>5, <2>2, <3>1, ConstantFacts
  <2>4. pnow + back >= last_prune => pnow + back' >= last_prune
    <3>1. \A p, q, x, y \in Nat : x <= y /\ p + x >= q => p + y >= q
      OBVIOUS
    <3> QED  BY <1>5, <2>2, <3>1
  <2> QED  BY <1>1, <1>2, <1>6, <2>1, <2>2, <2>3, <2>4 DEF PrunesTimely, Kept, Pruning
<1> QED  BY <1>7, <1>8, <1>9, <1>10 DEF RulesInv

(* An accepted token: handle_one_packet inserts a rule and records it. *)
LEMMA GrantStep ==
    ASSUME RulesInv, NEW a \in Addrs, Grant(a)
    PROVE  RulesInv'
<1>1. /\ pc = "packets" /\ pc' = pc /\ i' = i /\ pnow' = pnow
      /\ last_prune' = last_prune /\ last_pass' = last_pass
      /\ deadline' = [deadline EXCEPT ![a] = Mono + Timeout]
  BY DEF Grant, loopVars
<1>2. RulesTypeOK /\ RecordsBounded /\ PruneStages /\ PrunesTimely
      /\ KernelRuleWatched /\ RecordsInKernel
  BY DEF RulesInv
<1>3. Mono \in Nat /\ now \in Nat /\ back \in Nat /\ Mono = now + back
      /\ num_rules \in Nat /\ num_rules <= MaxRules /\ DOMAIN rules = Records
      /\ last_prune \in Nat
  BY <1>1, <1>2, RuleFacts DEF Mono
<1>3a. /\ ClockTypeOK' /\ Mono <= Mono' /\ Mono' \in Nat
      /\ back <= back' /\ back' \in Nat /\ Mono' <= last_pass + MaxPass
  BY TimeBounds DEF Grant
<1>3b. ASSUME NEW x \in Nat
      PROVE  /\ x <= Mono + Timeout => x <= Mono' + Timeout
             /\ x + back >= last_prune + 1 => x + back' >= last_prune + 1
  <2>1. \A m, n, y, t \in Nat : m <= n /\ y <= m + t => y <= n + t
    OBVIOUS
  <2>2. \A m, n, y, q \in Nat : m <= n /\ y + m >= q + 1 => y + n >= q + 1
    OBVIOUS
  <2>3. Timeout \in Nat
    BY ConstantFacts
  <2> QED  BY <1>3, <1>3a, <2>1, <2>2, <2>3
<1>3c. last_prune <= last_pass /\ last_pass <= Mono'
      /\ last_pass - last_prune <= PruneInterval - 1
  <2>1. last_pass \in Nat /\ last_pass <= Mono /\ last_prune <= last_pass
        /\ last_pass - last_prune <= PruneInterval - 1
    BY <1>2, RuleFacts DEF PrunesTimely
  <2> QED  BY <1>3, <1>3a, <2>1
<1>4. Mono + Timeout \in Nat /\ now + Timeout \in Nat /\ now + Timeout <= Mono + Timeout
  BY <1>3, ConstantFacts
<1>5. /\ deadline' \in [Addrs -> Nat] /\ deadline'[a] = Mono + Timeout
      /\ \A x \in Addrs : deadline[x] \in Nat /\ deadline[x] <= deadline'[x]
                          /\ deadline'[x] <= Mono + Timeout
  BY <1>1, <1>2, <1>4 DEF RulesTypeOK, RecordsBounded
<1>6. PruneStages'
  BY <1>1, <1>2 DEF PruneStages
<1>7. \A k \in Records : rules[k].active =>
         /\ rules[k].expiry \in Nat /\ rules[k].addr \in Addrs /\ k < num_rules
         /\ rules[k].expiry <= deadline'[rules[k].addr]
         /\ rules[k].expiry <= Mono + Timeout
         /\ rules[k].addr \in allowed \cup lost
         /\ rules[k].expiry + back >= last_prune + 1
  <2>1. ASSUME NEW k \in Records, rules[k].active
        PROVE  rules[k].expiry <= deadline'[rules[k].addr]
    <3>1. rules[k].expiry \in Nat /\ rules[k].addr \in Addrs
          /\ rules[k].expiry <= deadline[rules[k].addr]
      BY <1>2, <2>1, RuleFacts DEF RecordsBounded
    <3> QED  BY <1>4, <1>5, <3>1
  <2>2. ASSUME NEW k \in Records, rules[k].active
        PROVE  rules[k].addr \in allowed \cup lost /\ rules[k].expiry + back >= last_prune + 1
    BY <1>1, <1>2, <2>2 DEF RecordsInKernel, PrunesTimely, Kept, Pruning
  <2> QED  BY <1>2, <2>1, <2>2, RuleFacts DEF RecordsBounded
<1>8. ASSUME NEW x \in allowed \ stuck
      PROVE  \E k \in 0..(num_rules - 1) : rules[k].active /\ rules[k].expiry <= deadline'[x]
  <2>1. PICK k \in 0..(num_rules - 1) : rules[k].active /\ rules[k].expiry <= deadline[x]
    BY <1>2 DEF KernelRuleWatched
  <2>2. k \in Records /\ x \in Addrs
    <3>1. k \in Records
      BY <1>3, ConstantFacts DEF Records
    <3> QED  BY <1>2, <3>1 DEF RulesTypeOK
  <2>3. rules[k].expiry <= deadline'[x]
    BY <1>4, <1>5, <1>7, <2>1, <2>2
  <2> QED  BY <2>1, <2>3
<1>9. CASE \E ok \in BOOLEAN : netlink_rule_insert(a, ok) /\ rule_track(a, now + Timeout)
  <2>1. /\ allowed' \subseteq Addrs /\ lost' \subseteq Addrs /\ stuck' \subseteq Addrs
        /\ allowed \cup lost \subseteq allowed' \cup lost' /\ a \in allowed' \cup lost'
        /\ \A x \in allowed' \ stuck' : x \in allowed \ stuck \/ x = a
    BY <1>2, <1>9 DEF netlink_rule_insert, RulesTypeOK
  <2>2. CASE \E k \in Records :
               /\ FirstFree(k)
               /\ rules' = [rules EXCEPT ![k] =
                     [active |-> TRUE, expiry |-> now + Timeout, addr |-> a]]
               /\ num_rules' = IF k >= num_rules THEN k + 1 ELSE num_rules
    <3> DEFINE r == [active |-> TRUE, expiry |-> now + Timeout, addr |-> a]
    <3>1. PICK k \in Records :
             /\ ~rules[k].active
             /\ rules' = [rules EXCEPT ![k] = r]
             /\ num_rules' = IF k >= num_rules THEN k + 1 ELSE num_rules
      BY <2>2 DEF FirstFree
    <3>2. r \in dynamic_rule /\ r.active /\ r.expiry = now + Timeout /\ r.addr = a
      BY <1>4 DEF dynamic_rule
    <3> HIDE DEF r
    <3>3. rules'[k] = r /\ \A m \in Records : m # k => rules'[m] = rules[m]
      BY <1>3, <3>1
    <3>4. /\ num_rules' \in 0..MaxRules /\ num_rules <= num_rules' /\ num_rules' \in Nat
          /\ k < num_rules' /\ k \in Nat
      BY <1>3, <3>1, ConstantFacts DEF Records
    <3>5. RulesTypeOK'
      <4>1. rules' \in [Records -> dynamic_rule \cup {FreeRule}]
        BY <1>2, <3>1, <3>2 DEF RulesTypeOK
      <4> QED  BY <1>1, <1>2, <1>5, <1>3a, <2>1, <3>4, <4>1 DEF RulesTypeOK
    <3>6. \A m \in Records : m < num_rules => m < num_rules'
      BY <1>2, <1>3, <3>4, RuleFacts
    <3>7. RecordsBounded'
      BY <1>3, <1>4, <1>5, <1>7, <1>3b, <3>2, <3>3, <3>4, <3>6 DEF RecordsBounded
    <3>8. RecordsInKernel'
      BY <1>1, <1>7, <2>1, <3>2, <3>3 DEF RecordsInKernel
    <3>9. PrunesTimely'
      <4>1. r.expiry + back >= last_prune + 1
        <5>1. last_prune <= Mono
          BY <1>2, <1>3, RuleFacts DEF PrunesTimely
        <5>2. Timeout \in Nat /\ Timeout >= 1
          BY RulesAssumption
        <5> QED  BY <1>3, <3>2, <5>1, <5>2
      <4>2. r.expiry \in Nat
        BY <1>4, <3>2
      <4>3. \A m \in Records : rules'[m].active => rules'[m].expiry + back' >= last_prune + 1
        BY <1>7, <1>3b, <3>3, <4>1, <4>2
      <4> QED  BY <1>1, <1>3a, <1>3c, <4>3 DEF PrunesTimely, Kept, Pruning
    <3>10. KernelRuleWatched'
      <4>1. k \in 0..(num_rules' - 1)
        <5>1. \A x, y \in Nat : x < y => x \in 0..(y - 1)
          OBVIOUS
        <5> QED  BY <3>4, <5>1
      <4>2. ASSUME NEW x \in allowed' \ stuck'
            PROVE  \E m \in 0..(num_rules' - 1) :
                      rules'[m].active /\ rules'[m].expiry <= deadline'[x]
        <5>1. CASE x = a
          BY <1>4, <1>5, <3>2, <3>3, <4>1, <5>1
        <5>2. CASE x \in allowed \ stuck
          <6>1. PICK m \in 0..(num_rules - 1) :
                   rules[m].active /\ rules[m].expiry <= deadline'[x]
            BY <1>8, <5>2
          <6>2. m \in Records /\ m # k /\ m \in 0..(num_rules' - 1)
            BY <1>3, <3>1, <3>4, <6>1, ConstantFacts DEF Records
          <6> QED  BY <3>3, <6>1, <6>2
        <5> QED  BY <2>1, <4>2, <5>1, <5>2
      <4> QED  BY <4>2 DEF KernelRuleWatched
    <3> QED  BY <1>6, <3>5, <3>7, <3>8, <3>9, <3>10 DEF RulesInv
  <2>3. CASE (\A k \in Records : rules[k].active) /\ UNCHANGED recordVars
    <3>1. rules' = rules /\ num_rules' = num_rules
      BY <2>3 DEF recordVars
    <3>2. RulesTypeOK'
      BY <1>1, <1>2, <1>5, <1>3a, <2>1, <3>1 DEF RulesTypeOK
    <3>3. RecordsBounded' /\ RecordsInKernel' /\ PrunesTimely'
      BY <1>1, <1>3, <1>4, <1>5, <1>7, <1>3a, <1>3b, <1>3c, <2>1, <3>1
         DEF RecordsBounded, RecordsInKernel, PrunesTimely, Kept, Pruning
    <3>4. KernelRuleWatched'
      <4>1. 0 \in Records
        BY ConstantFacts DEF Records
      <4>2. 0 \in 0..(num_rules - 1) /\ rules[0].active /\ rules[0].expiry <= deadline'[a]
        BY <1>3, <1>5, <1>7, <2>3, <4>1
      <4> QED  BY <1>8, <2>1, <3>1, <4>2 DEF KernelRuleWatched
    <3> QED  BY <1>6, <3>2, <3>3, <3>4 DEF RulesInv
  <2> QED  BY <1>9, <2>2, <2>3 DEF rule_track
<1>10. CASE netlink_rule_insert(a, FALSE) /\ UNCHANGED recordVars
  <2>1. /\ allowed' = allowed /\ lost' = lost \cup {a} /\ stuck' = stuck
        /\ rules' = rules /\ num_rules' = num_rules
    BY <1>10 DEF netlink_rule_insert, recordVars
  <2>2. RulesTypeOK'
    BY <1>1, <1>2, <1>5, <1>3a, <2>1 DEF RulesTypeOK
  <2>3. RecordsBounded' /\ RecordsInKernel' /\ PrunesTimely'
    BY <1>1, <1>3, <1>4, <1>5, <1>7, <1>3a, <1>3b, <1>3c, <2>1
       DEF RecordsBounded, RecordsInKernel, PrunesTimely, Kept, Pruning
  <2>4. KernelRuleWatched'
    BY <1>8, <2>1 DEF KernelRuleWatched
  <2> QED  BY <1>6, <2>2, <2>3, <2>4 DEF RulesInv
<1> QED  BY <1>9, <1>10 DEF Grant

-----------------------------------------------------------------------------
LEMMA RulesInitial == RulesInit => RulesInv
<1> SUFFICES ASSUME RulesInit PROVE RulesInv
  OBVIOUS
<1>1. ClockTypeOK /\ now \in Nat /\ back = 0 /\ Mono = now + back
  BY ClockAssumption DEF RulesInit, ClockInit, ClockTypeOK, Mono
<1>2. Mono \in Nat
  BY <1>1
<1>3. 0 \in 0..MaxRules
  BY ConstantFacts
<1>4. \A k \in Records : ~rules[k].active
  BY DEF RulesInit, FreeRule
<1>5. RulesTypeOK
  BY <1>1, <1>2, <1>3 DEF RulesInit, RulesTypeOK
<1>6. KernelRuleWatched /\ RecordsInKernel /\ PruneStages
  BY <1>4 DEF RulesInit, KernelRuleWatched, RecordsInKernel, PruneStages
<1>7. RecordsBounded
  <2>1. 0 <= Mono + Timeout
    BY <1>2, ConstantFacts
  <2> QED  BY <1>4, <2>1 DEF RulesInit, RecordsBounded
<1>8. PrunesTimely
  <2>1. Mono <= Mono /\ Mono <= Mono + MaxPass /\ Mono - Mono <= PruneInterval - 1
    BY <1>2, ConstantFacts
  <2> QED  BY <1>4, <2>1 DEF RulesInit, PrunesTimely, Pruning
<1> QED  BY <1>5, <1>6, <1>7, <1>8 DEF RulesInv

LEMMA RulesStep ==
    ASSUME RulesInv, [RulesNext]_ruleVars
    PROVE  RulesInv'
<1>1. CASE UNCHANGED ruleVars
  BY <1>1
     DEF ruleVars, recordVars, kernelVars, loopVars, clockVars, RulesInv, RulesTypeOK,
         ClockTypeOK, RecordsBounded, PruneStages, PrunesTimely, Kept, Mono,
         KernelRuleWatched, RecordsInKernel
<1> QED  BY <1>1, WakeStep, FlushStep, ReinsertStep, PassStep, ElapseStep, GrantStep
         DEF RulesNext, DaemonStep

(* Records, chains and clock agree through every prune pass of             *)
(* src/main.c, whatever the kernel refuses.                                *)
THEOREM RulesAgree ==
    RulesSpec => []RulesInv
BY RulesStep, RulesInitial, PTL DEF RulesSpec

(* Every address that the kernel lets in depends on a record that runs out *)
(* no later than the address's own grant, even when the record array of    *)
(* src/main.c was full.                                                    *)
THEOREM KernelRulesWatched ==
    RulesSpec => []KernelRuleWatched
<1>1. RulesInv => KernelRuleWatched
  BY DEF RulesInv
<1> QED  BY <1>1, RulesAgree, PTL

(* How long a record may keep an address in. *)
LEMMA Overstay ==
    ASSUME RulesInv, NEW a \in allowed \ stuck
    PROVE  Mono <= deadline[a] + back + PruneInterval + 2 * (MaxPass - 1)
<1>1. RulesTypeOK /\ PrunesTimely /\ KernelRuleWatched
  BY DEF RulesInv
<1>2. PICK k \in 0..(num_rules - 1) : rules[k].active /\ rules[k].expiry <= deadline[a]
  BY <1>1 DEF KernelRuleWatched
<1> DEFINE x == rules[k].expiry
           d == deadline[a]
<1>3. k \in Records
  BY <1>1, RuleFacts, ConstantFacts DEF Records
<1>4. x \in Nat /\ d \in Nat /\ x <= d
  BY <1>1, <1>2, <1>3, RuleFacts DEF RulesTypeOK
<1>5. Mono \in Nat /\ back \in Nat /\ last_prune \in Nat /\ last_pass \in Nat
  BY <1>1, RuleFacts
<1>6. Mono <= last_pass + MaxPass /\ last_pass - last_prune <= PruneInterval - 1
  BY <1>1 DEF PrunesTimely
<1> HIDE DEF x, d
<1>7. CASE pc \in Pruning
  <2>1. last_pass = last_prune /\ last_prune <= x + back + PruneInterval + MaxPass - 2
    BY <1>1, <1>2, <1>3, <1>7 DEF PrunesTimely, x
  <2> QED  BY <1>4, <1>5, <1>6, <2>1, ConstantFacts DEF d
<1>8. CASE pc \notin Pruning
  <2>1. x + back >= last_prune + 1
    BY <1>1, <1>2, <1>3, <1>8 DEF PrunesTimely, Kept, x
  <2> QED  BY <1>4, <1>5, <1>6, <2>1, ConstantFacts DEF d
<1> QED  BY <1>7, <1>8

(* Unless a flush is refused, no address stays in allowed_ips (src/main.c, *)
(* daemon_process) for longer after its grant than the prune interval and  *)
(* the passes of the loop explain, whatever the timing of grants, passes   *)
(* and clock changes.                                                      *)
THEOREM OverstayBounded ==
    RulesSpec => []BoundedOverstay
<1>1. RulesInv => BoundedOverstay
  BY Overstay DEF BoundedOverstay
<1> QED  BY <1>1, RulesAgree, PTL

(* What rule_prune (src/main.c) flushed it put back before the next packet *)
(* is handled, unless the kernel refused.                                  *)
THEOREM PutBack == RulesSpec => []RecordsInKernel
<1>1. RulesInv => RecordsInKernel
  BY DEF RulesInv
<1> QED  BY <1>1, RulesAgree, PTL
==============================================================================
