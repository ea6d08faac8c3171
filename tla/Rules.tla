-------------------------------- MODULE Rules --------------------------------
(***************************************************************************)
(* The dynamic firewall rules: the rule records of struct daemon and the   *)
(* prune pass of daemon_process (src/main.c), with the netlink operations  *)
(* they call (src/netlink.c) and the two allowed_ips chains in the kernel. *)
(*                                                                         *)
(* Every netlink operation waits for its answer, so a prune pass takes     *)
(* several steps during which the clock runs and connections arrive; pc is *)
(* where the daemon is.  The daemon is single-threaded: packets are        *)
(* handled in the loop after the prune pass, never during it.              *)
(*                                                                         *)
(* A chain is the set of its source addresses (a flush drops duplicates    *)
(* too).  The handle and family of a record are never read and left out.   *)
(***************************************************************************)
EXTENDS Clock

CONSTANTS
    Addrs, FamilyOf,   \* source addresses; "ip" or "ip6"
    MaxRules,          \* MAX_DYNAMIC_RULES
    Timeout,           \* --timeout, seconds
    PruneInterval,     \* PRUNE_INTERVAL, seconds
    MaxPass            \* seconds that a pass of the event loop may take

Families == {"ip", "ip6"}

ASSUME RulesAssumption ==
    /\ FamilyOf \in [Addrs -> Families]
    /\ MaxRules \in Nat \ {0}
    /\ Timeout \in Nat \ {0} /\ PruneInterval \in Nat \ {0} /\ MaxPass \in Nat \ {0}

VARIABLES
    rules, num_rules,   \* d->rules, d->num_rules
    last_prune,         \* d->last_prune, monotonic
    allowed,            \* the addresses in the kernel's allowed_ips chains
    pc,                 \* where the daemon is in daemon_process
    i, pnow,            \* rule_prune's index and its copy of the time (else 0)
    last_pass,          \* when daemon_process was last entered, monotonic
    deadline,           \* history: address -> end of its last grant, monotonic
    lost,               \* history: addresses whose insertion failed
    stuck               \* history: addresses that a refused flush left behind

kernelVars == <<allowed, deadline, lost, stuck>>
recordVars == <<rules, num_rules>>
loopVars == <<last_prune, pc, i, pnow, last_pass>>
ruleVars == <<recordVars, kernelVars, loopVars, clockVars>>

FreeRule == [active |-> FALSE, expiry |-> 0, addr |-> "no address"]
dynamic_rule == [active : {TRUE}, expiry : Nat, addr : Addrs]
Records == 0..(MaxRules - 1)

RulesTypeOK ==
    /\ ClockTypeOK
    /\ rules \in [Records -> dynamic_rule \cup {FreeRule}]
    /\ num_rules \in 0..MaxRules
    /\ last_prune \in Nat /\ last_pass \in Nat /\ pnow \in Nat
    /\ allowed \subseteq Addrs /\ lost \subseteq Addrs /\ stuck \subseteq Addrs
    /\ pc \in {"wait", "flush ip", "flush ip6", "reinsert", "packets"}
    /\ i \in 0..MaxRules
    /\ deadline \in [Addrs -> Nat]

-----------------------------------------------------------------------------
(* netlink_rule_insert: the kernel may refuse. *)
netlink_rule_insert(a, ok) ==
    /\ allowed' = IF ok THEN allowed \cup {a} ELSE allowed
    /\ lost' = IF ok THEN lost \ {a} ELSE lost \cup {a}
    /\ stuck' = IF ok THEN stuck \ {a} ELSE stuck

(* netlink_flush_chain, one family: the kernel may refuse, and nobody      *)
(* looks at the result.                                                    *)
Of(family, as) == {a \in as : FamilyOf[a] = family}

Flush(family) ==
    \/ /\ allowed' = allowed \ Of(family, allowed)
       /\ stuck' = stuck \ Of(family, stuck)
    \/ /\ allowed' = allowed
       /\ stuck' = stuck \cup Of(family, allowed)

(* The record that rule_track takes: the first free one, if any. *)
FirstFree(k) == ~rules[k].active /\ \A m \in Records : m < k => rules[m].active

(* A mutant: num_rules is not raised. *)
TrackUncounted(a, expiry) ==
    /\ UNCHANGED num_rules
    /\ \/ \E k \in Records :
             /\ FirstFree(k)
             /\ rules' = [rules EXCEPT ![k] = [active |-> TRUE, expiry |-> expiry, addr |-> a]]
       \/ (\A k \in Records : rules[k].active) /\ UNCHANGED rules

rule_track(a, expiry) ==
    \/ \E k \in Records :
          /\ FirstFree(k)
          /\ rules' = [rules EXCEPT ![k] = [active |-> TRUE, expiry |-> expiry, addr |-> a]]
          /\ num_rules' = IF k >= num_rules THEN k + 1 ELSE num_rules
    \/ /\ \A k \in Records : rules[k].active
       /\ UNCHANGED recordVars

(* Time passes, but no pass of the loop takes longer than MaxPass: an      *)
(* assumption on the length of bursts and on the kernel, not on the code's *)
(* text, which drains a socket until it is empty.                          *)
PassTime ==
    \/ Tick /\ Mono - last_pass < MaxPass
    \/ SetBack

(* The end of handle_one_packet: a token from a was valid.  The rule is    *)
(* recorded unless an error is heard: process_batch_replies takes silence  *)
(* and a failed recv for success, so a refusal may go unheard.  The grant  *)
(* counts from the time the packet came; the clock goes on meanwhile.      *)
Grant(a) ==
    /\ pc = "packets"
    /\ PassTime \/ UNCHANGED clockVars
    /\ deadline' = [deadline EXCEPT ![a] = Mono + Timeout]
    /\ \/ \E ok \in BOOLEAN : netlink_rule_insert(a, ok) /\ rule_track(a, now + Timeout)
       \/ netlink_rule_insert(a, FALSE) /\ UNCHANGED recordVars
    /\ UNCHANGED loopVars

-----------------------------------------------------------------------------
(* daemon_process, from epoll_wait to the end of the pass.                 *)

(* A mutant: a rule lives through the second in which it expires. *)
ExpiredLate(r, t) == r.active /\ t > r.expiry

Expired(r, t) == r.active /\ t >= r.expiry

FoundExpired == \E k \in 0..(num_rules - 1) : Expired(rules[k], now)

Due == Mono - last_prune >= PruneInterval

Wake ==
    /\ pc = "wait"
    /\ last_pass' = Mono
    /\ last_prune' = IF Due THEN Mono ELSE last_prune
    /\ IF Due /\ FoundExpired
       THEN pc' = "flush ip" /\ pnow' = now
       ELSE pc' = "packets" /\ pnow' = pnow
    /\ UNCHANGED <<i, recordVars, kernelVars, clockVars>>

FlushIp ==
    /\ pc = "flush ip"
    /\ Flush("ip")
    /\ pc' = "flush ip6"
    /\ UNCHANGED <<i, pnow, last_prune, last_pass, recordVars, deadline, lost, clockVars>>

FlushIp6 ==
    /\ pc = "flush ip6"
    /\ Flush("ip6")
    /\ pc' = "reinsert"
    /\ UNCHANGED <<i, pnow, last_prune, last_pass, recordVars, deadline, lost, clockVars>>

(* A mutant: expired rules are put back before they are forgotten. *)
ReinsertAll ==
    /\ pc = "reinsert" /\ i < num_rules
    /\ i' = i + 1
    /\ IF rules[i].active
       THEN \E ok \in BOOLEAN : netlink_rule_insert(rules[i].addr, ok)
       ELSE UNCHANGED <<allowed, lost, stuck>>
    /\ rules' = IF pnow < rules[i].expiry THEN rules ELSE [rules EXCEPT ![i] = FreeRule]
    /\ UNCHANGED <<pc, pnow, last_prune, last_pass, num_rules, deadline, clockVars>>

(* One turn of rule_prune's second loop. *)
Reinsert ==
    /\ pc = "reinsert" /\ i < num_rules
    /\ i' = i + 1
    /\ \/ /\ rules[i].active /\ pnow < rules[i].expiry
          /\ \E ok \in BOOLEAN : netlink_rule_insert(rules[i].addr, ok)
          /\ UNCHANGED rules
       \/ /\ ~(rules[i].active /\ pnow < rules[i].expiry)
          /\ rules' = [rules EXCEPT ![i] = FreeRule]
          /\ UNCHANGED <<allowed, lost, stuck>>
    /\ UNCHANGED <<pc, pnow, last_prune, last_pass, num_rules, deadline, clockVars>>

(* A mutant: the loop stops one record early. *)
PruneDoneEarly ==
    /\ pc = "reinsert" /\ i >= num_rules - 1
    /\ pc' = "packets" /\ i' = 0 /\ pnow' = 0
    /\ UNCHANGED <<last_prune, last_pass, recordVars, kernelVars, clockVars>>

PruneDone ==
    /\ pc = "reinsert" /\ i >= num_rules
    /\ pc' = "packets" /\ i' = 0 /\ pnow' = 0
    /\ UNCHANGED <<last_prune, last_pass, recordVars, kernelVars, clockVars>>

EndPass ==
    /\ pc = "packets"
    /\ pc' = "wait"
    /\ UNCHANGED <<i, pnow, last_prune, last_pass, recordVars, kernelVars, clockVars>>

Elapse == PassTime /\ UNCHANGED <<recordVars, kernelVars, loopVars>>

-----------------------------------------------------------------------------
RulesInit ==
    /\ ClockInit
    /\ rules = [k \in Records |-> FreeRule] /\ num_rules = 0
    /\ last_prune = Mono /\ last_pass = Mono
    /\ allowed = {} /\ lost = {} /\ stuck = {} /\ deadline = [a \in Addrs |-> 0]
    /\ pc = "wait" /\ i = 0 /\ pnow = 0

DaemonStep == Wake \/ FlushIp \/ FlushIp6 \/ Reinsert \/ PruneDone \/ EndPass

RulesNext == DaemonStep \/ Elapse \/ \E a \in Addrs : Grant(a)

RulesSpec == RulesInit /\ [][RulesNext]_ruleVars

-----------------------------------------------------------------------------
(* Whoever the kernel lets in is on a record that will run out: for every  *)
(* address in allowed_ips some record is active that expires no later than *)
(* the address's own grant ends.  Its expiry flushes the chains, so this   *)
(* covers the address even when rule_track (src/main.c) found no room for  *)
(* it, and it must survive every stage of rule_prune.  The exception are   *)
(* the addresses that a flush the kernel refused left behind, as           *)
(* netlink_flush_chain (src/netlink.c) does not tell.                      *)
KernelRuleWatched ==
    \A a \in allowed \ stuck : \E k \in 0..(num_rules - 1) :
        rules[k].active /\ rules[k].expiry <= deadline[a]

(* Between prune passes the chains hold every address on record: what      *)
(* rule_prune (src/main.c) flushed it put back, unless the kernel refused. *)
RecordsInKernel ==
    pc \in {"wait", "packets"} =>
        \A k \in Records : rules[k].active => rules[k].addr \in allowed \cup lost

(* No address outlives its grant by more than the prune interval and, over *)
(* a second, the passes of the loop it may just miss and still take, plus  *)
(* what the wall clock was set back: daemon_process (src/main.c) looks for *)
(* expired rules often enough.  A refused flush is the only way round it.  *)
BoundedOverstay ==
    \A a \in allowed \ stuck :
        Mono <= deadline[a] + back + PruneInterval + 2 * (MaxPass - 1)

(* An address keeps its access until its grant ends. *)
GrantHonoured ==
    \A a \in Addrs \ lost : Mono < deadline[a] => a \in allowed

-----------------------------------------------------------------------------
Pruning == {"flush ip", "flush ip6", "reinsert"}

(* Records beyond num_rules are free; grants end within Timeout. *)
RecordsBounded ==
    /\ \A k \in Records : rules[k].active =>
          /\ k < num_rules
          /\ rules[k].expiry <= deadline[rules[k].addr]
          /\ rules[k].expiry <= Mono + Timeout
    /\ \A a \in Addrs : deadline[a] <= Mono + Timeout

(* The stages of a prune pass: the chains are emptied one family after the *)
(* other, then hold what the records before i put back.                    *)
PruneStages ==
    /\ pc = "flush ip6" => \A a \in allowed \ stuck : FamilyOf[a] # "ip"
    /\ pc = "reinsert" => \A a \in allowed \ stuck : \E k \in Records :
          k < i /\ rules[k].active /\ rules[k].addr = a
    /\ pc = "reinsert" => \A k \in Records :
          k < i /\ rules[k].active => rules[k].addr \in allowed \cup lost
    /\ pc # "reinsert" => i = 0

(* Passes and prunes are close together, and a record that a prune leaves  *)
(* had not run out when the prune began.                                   *)
Kept(k) == rules[k].expiry + back >= last_prune + 1

PrunesTimely ==
    /\ last_prune <= last_pass /\ last_pass <= Mono /\ Mono <= last_pass + MaxPass
    /\ last_pass - last_prune <= PruneInterval - 1
    /\ pc \in Pruning => last_pass = last_prune /\ pnow + back >= last_prune
    /\ \A k \in Records : rules[k].active =>
          /\ pc \notin Pruning => Kept(k)
          /\ pc = "reinsert" /\ k < i => Kept(k)
          /\ pc \in Pruning =>
                last_prune <= rules[k].expiry + back + PruneInterval + MaxPass - 2

(* The records, the chains and the clock agree at every stage of           *)
(* rule_prune (src/main.c): this is the inductive invariant of the proofs. *)
RulesInv ==
    /\ RulesTypeOK
    /\ RecordsBounded
    /\ PruneStages
    /\ PrunesTimely
    /\ KernelRuleWatched
    /\ RecordsInKernel
==============================================================================
