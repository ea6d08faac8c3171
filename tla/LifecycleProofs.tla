--------------------------- MODULE LifecycleProofs ---------------------------
(***************************************************************************)
(* Proofs about the tables of a totpgated process and its predecessors,    *)
(* for any number of clients, ports, starts and refused batches.           *)
(***************************************************************************)
EXTENDS Lifecycle, TLAPS

LEMMA RankFacts ==
    /\ Rank("delete") = 1 /\ Rank("create") = 2 /\ Rank("flush") = 3
    /\ Rank("established") = 4 /\ Rank("jump") = 5 /\ Rank("drop") = 6
    /\ Rank("epoll") = 7 /\ Rank("udp") = 7 /\ Rank("privileges") = 7 /\ Rank("serve") = 7
    /\ Rank("cleanup") = 0 /\ Rank("cleanup flush") = 0 /\ Rank("cleanup delete") = 0
    /\ Rank("cleanup close") = 0 /\ Rank("down") = 0
BY DEF Rank

-----------------------------------------------------------------------------
(* Tables. *)
AnyTable == Tables \cup {NoTable}

LEMMA TableKinds ==
    /\ NoTable \in AnyTable /\ NoTable.allowed = {} /\ DropsLast(NoTable)
    /\ EmptyTable \in Tables /\ EmptyTable.allowed = {} /\ DropsLast(EmptyTable)
    /\ \A t \in Tables :
          t # NoTable /\ t.input \in Seq(InputRules) /\ t.allowed \in SUBSET Clients
<1> DEFINE z == <<"no table">>
<1>0. Len(z) = 1 /\ z[1] = "no table"
  OBVIOUS
<1>1. NoTable \in AnyTable /\ NoTable.allowed = {} /\ DropsLast(NoTable)
  <2>1. NoTable \in AnyTable /\ NoTable.allowed = {} /\ NoTable.input = z
    BY DEF AnyTable, NoTable
  <2> HIDE DEF z
  <2>2. \A k \in 1..Len(z) : z[k] # "drop"
    <3> TAKE k \in 1..Len(z)
    <3>1. \A x \in 1..1 : x = 1
      OBVIOUS
    <3>2. k = 1
      BY <1>0, <3>1
    <3> QED  BY <1>0, <3>2
  <2> QED  BY <2>1, <2>2 DEF DropsLast
<1>2. EmptyTable \in Tables /\ EmptyTable.allowed = {} /\ DropsLast(EmptyTable)
  BY DEF EmptyTable, Tables, DropsLast
<1>3. ASSUME NEW t \in Tables PROVE t # NoTable
  <2>1. t.input \in Seq(InputRules)
    BY DEF Tables
  <2>2. SUFFICES ASSUME t = NoTable PROVE FALSE
    OBVIOUS
  <2>3. t.input = z
    BY <2>2 DEF NoTable
  <2> HIDE DEF z
  <2>4. z \in Seq(InputRules)
    BY <2>1, <2>3
  <2>5. z[1] \in InputRules
    <3>1. \A q \in Seq(InputRules) : Len(q) = 1 => q[1] \in InputRules
      OBVIOUS
    <3> QED  BY <1>0, <2>4, <3>1
  <2> QED  BY <1>0, <2>5 DEF InputRules
<1>4. \A t \in Tables : t.input \in Seq(InputRules) /\ t.allowed \in SUBSET Clients
  BY DEF Tables
<1> QED  BY <1>1, <1>2, <1>3, <1>4

(* A change of the allowed_ips chain alone. *)
LEMMA AllowedChange ==
    ASSUME NEW t \in Tables, NEW s \in SUBSET Clients, NEW u, u = [t EXCEPT !.allowed = s]
    PROVE  /\ u \in Tables /\ u.allowed = s /\ u.input = t.input
           /\ DropsLast(t) => DropsLast(u)
           /\ \A rule \in InputRules : Has(t, rule) => Has(u, rule)
<1>1. u \in Tables /\ u.allowed = s /\ u.input = t.input
  BY DEF Tables
<1> QED  BY <1>1 DEF DropsLast, Follows, Has

(* A rule appended to the input chain. *)
LEMMA RuleAppended ==
    ASSUME NEW t \in Tables, NEW rule \in InputRules,
           NEW u, u = [t EXCEPT !.input = Append(@, rule)]
    PROVE  /\ u \in Tables /\ u.allowed = t.allowed
           /\ Has(u, rule)
           /\ \A r \in InputRules : Has(t, r) => Has(u, r)
           /\ DropsLast(t) /\ (rule = "drop" => Has(t, "established") /\ Has(t, "jump"))
                 => DropsLast(u)
<1> DEFINE s == t.input
           n == Len(s)
           v == Append(s, rule)
<1>1. s \in Seq(InputRules) /\ n \in Nat
  BY DEF Tables
<1>2. v \in Seq(InputRules) /\ Len(v) = n + 1 /\ v[n + 1] = rule
      /\ \A k \in 1..n : v[k] = s[k]
  BY <1>1
<1>3. u.input = v /\ u.allowed = t.allowed /\ u \in Tables
  BY <1>2 DEF Tables
<1> HIDE DEF n, v
<1>4. Has(u, rule)
  <2>1. n + 1 \in 1..Len(u.input)
    BY <1>1, <1>2, <1>3
  <2> QED  BY <1>2, <1>3, <2>1 DEF Has
<1>5. ASSUME NEW r \in InputRules, Has(t, r) PROVE Has(u, r)
  <2>1. PICK k \in 1..n : s[k] = r
    BY <1>5 DEF Has, n
  <2>2. k \in 1..Len(u.input) /\ u.input[k] = r
    BY <1>1, <1>2, <1>3, <2>1
  <2> QED  BY <2>2 DEF Has
<1>6. ASSUME DropsLast(t), rule = "drop" => Has(t, "established") /\ Has(t, "jump")
      PROVE  DropsLast(u)
  <2> SUFFICES ASSUME NEW k \in 1..Len(u.input), u.input[k] = "drop",
                      NEW r \in {"established", "jump"}
               PROVE  Follows(u, k, r)
    BY DEF DropsLast
  <2>1. k \in 1..(n + 1) /\ v[k] = "drop"
    BY <1>2, <1>3
  <2>2. CASE k = n + 1
    <3>1. PICK j \in 1..n : s[j] = r
      BY <1>2, <1>6, <2>1, <2>2 DEF Has, n
    <3>2. j \in 1..(k - 1) /\ u.input[j] = r
      BY <1>1, <1>2, <1>3, <2>2, <3>1
    <3> QED  BY <3>2 DEF Follows
  <2>3. CASE k \in 1..n
    <3>1. s[k] = "drop"
      BY <1>2, <2>1, <2>3
    <3>2. Follows(t, k, r)
      BY <1>6, <2>3, <3>1 DEF DropsLast, n
    <3>3. PICK j \in 1..(k - 1) : s[j] = r
      BY <3>2 DEF Follows
    <3>4. j \in 1..n
      BY <1>1, <2>3, <3>3
    <3>5. u.input[j] = r
      BY <1>2, <1>3, <3>3, <3>4
    <3> QED  BY <3>3, <3>5 DEF Follows
  <2> QED  BY <1>1, <2>1, <2>2, <2>3
<1> QED  BY <1>3, <1>4, <1>5, <1>6

-----------------------------------------------------------------------------
(* Steps that leave the tables alone: the process stays within the end of  *)
(* its setup, or leaves it for good.                                       *)
LEMMA QuietStep ==
    ASSUME TablesInv, LifeTypeOK', table' = table, unheard' = unheard,
           \/ UNCHANGED <<pc, family, granted, capable, refused>>
           \/ Rank(pc') = 0
           \/ /\ Rank(pc) = 7 /\ pc # "serve" /\ Rank(pc') = 7
              /\ granted' = granted /\ (capable' = capable \/ pc' = "serve")
    PROVE  TablesInv'
<1>0. Heard' = Heard
  BY DEF Heard
<1>1. ChainsOrdered'
  BY <1>0 DEF TablesInv, ChainsOrdered
<1>2. BuiltSoFar'
  BY <1>0 DEF TablesInv, BuiltSoFar, Past
<1>3. CapableSetup'
  BY <1>0 DEF TablesInv, CapableSetup, Past
<1>4. StaleGrantsGo'
  BY <1>0 DEF TablesInv, StaleGrantsGo, Past
<1> QED  BY <1>1, <1>2, <1>3, <1>4 DEF TablesInv

LEMMA PortFacts ==
    /\ NumPorts \in Nat /\ 0 \in 0..NumPorts
    /\ \A n \in 0..NumPorts :
          n < NumPorts => n + 1 \in 0..NumPorts /\ n \in 0..(NumPorts - 1)
BY LifeAssumption

LEMMA SetupEpollKeeps == ASSUME TablesInv, SetupEpoll PROVE TablesInv'
<1>1. LifeTypeOK'
  BY DEF TablesInv, LifeTypeOK, SetupEpoll, Goto, GiveUp, Steps, Families, signalVars, historyVars
<1>2. granted' = granted /\ capable' = capable /\ table' = table /\ unheard' = unheard /\ pc = "epoll"
  BY DEF SetupEpoll, historyVars
<1>3. pc' \in {"udp", "cleanup"}
  BY DEF SetupEpoll, Goto, GiveUp
<1> QED  BY <1>1, <1>2, <1>3, QuietStep, RankFacts

LEMMA OpenPortKeeps == ASSUME TablesInv, OpenPort PROVE TablesInv'
<1>1. LifeTypeOK'
  BY PortFacts DEF TablesInv, LifeTypeOK, OpenPort, control, Goto, GiveUp, Steps, Families,
     signalVars, historyVars
<1>2. granted' = granted /\ capable' = capable /\ table' = table /\ unheard' = unheard /\ pc = "udp"
  BY DEF OpenPort, historyVars
<1>3. pc' \in {"udp", "cleanup"}
  BY DEF OpenPort, control, Goto, GiveUp
<1> QED  BY <1>1, <1>2, <1>3, QuietStep, RankFacts

LEMMA SetupSignalKeeps == ASSUME TablesInv, SetupSignal PROVE TablesInv'
<1>1. LifeTypeOK'
  BY DEF TablesInv, LifeTypeOK, SetupSignal, Goto, GiveUp, Steps, Families, historyVars
<1>2. granted' = granted /\ capable' = capable /\ table' = table /\ unheard' = unheard /\ pc = "udp"
  BY DEF SetupSignal, historyVars
<1>3. pc' \in {"privileges", "cleanup"}
  BY DEF SetupSignal, Goto, GiveUp
<1> QED  BY <1>1, <1>2, <1>3, QuietStep, RankFacts

LEMMA DropPrivilegesKeeps == ASSUME TablesInv, DropPrivileges PROVE TablesInv'
<1>1. capable' \in BOOLEAN
  BY DEF TablesInv, LifeTypeOK, DropPrivileges
<1>2. LifeTypeOK'
  BY <1>1 DEF TablesInv, LifeTypeOK, DropPrivileges, Goto, GiveUp, Steps, Families, daemonVars,
     signalVars, historyVars
<1>3. granted' = granted /\ table' = table /\ unheard' = unheard /\ pc = "privileges"
  BY DEF DropPrivileges, historyVars
<1>4. pc' \in {"serve", "cleanup"}
  BY DEF DropPrivileges, Goto, GiveUp
<1> QED  BY <1>2, <1>3, <1>4, QuietStep, RankFacts

LEMMA LeaveKeeps == ASSUME TablesInv, StopOnSignal \/ StopOnError PROVE TablesInv'
<1>1. LifeTypeOK'
  BY DEF TablesInv, LifeTypeOK, StopOnSignal, StopOnError, Leave, Goto, Steps, Families,
     daemonVars, historyVars
<1>2. table' = table /\ unheard' = unheard /\ pc' = "cleanup"
  BY DEF StopOnSignal, StopOnError, Leave, Goto, historyVars
<1> QED  BY <1>1, <1>2, QuietStep, RankFacts

LEMMA CloseKeeps == ASSUME TablesInv, CloseDescriptors \/ Return \/ Die PROVE TablesInv'
<1>1. CASE CloseDescriptors
  <2>1. pc' \in Steps /\ family' \in Families /\ Rank(pc') = 0
    BY <1>1, RankFacts DEF CloseDescriptors, Goto, Steps, Families
  <2>2. /\ udp_fds' \subseteq 0..(NumPorts - 1) /\ num_udp_fds' \in 0..NumPorts
        /\ signal_fd' \in BOOLEAN /\ epoll_fd' \in BOOLEAN
    <3>1. udp_fds \subseteq 0..(NumPorts - 1)
      BY DEF TablesInv, LifeTypeOK
    <3> QED  BY <1>1, <3>1, PortFacts DEF CloseDescriptors
  <2>3. LifeTypeOK'
    BY <1>1, <2>1, <2>2 DEF TablesInv, LifeTypeOK, CloseDescriptors, signalVars, historyVars
  <2> QED  BY <1>1, <2>1, <2>3, QuietStep DEF CloseDescriptors, historyVars
<1>2. CASE Return
  <2>1. LifeTypeOK'
    BY <1>2 DEF TablesInv, LifeTypeOK, Return, Goto, Steps, Families, daemonVars, signalVars
  <2> QED  BY <1>2, <2>1, QuietStep, RankFacts DEF Return, Goto
<1>3. CASE Die
  <2>1. pc' \in Steps /\ family' \in Families /\ Rank(pc') = 0
    BY <1>3, RankFacts DEF Die, Goto, Steps, Families
  <2>2. /\ udp_fds' \subseteq 0..(NumPorts - 1) /\ num_udp_fds' \in 0..NumPorts
        /\ g_fd' \in BOOLEAN /\ signal_fd' \in BOOLEAN /\ epoll_fd' \in BOOLEAN
    BY <1>3, PortFacts DEF Die
  <2>3. LifeTypeOK'
    BY <1>3, <2>1, <2>2 DEF TablesInv, LifeTypeOK, Die, signalVars
  <2> QED  BY <1>3, <2>1, <2>3, QuietStep DEF Die
<1> QED  BY <1>1, <1>2, <1>3

LEMMA TerminateKeeps == ASSUME TablesInv, Terminate PROVE TablesInv'
<1>1. CASE Die
  BY <1>1, CloseKeeps
<1>2. CASE ~Die
  <2>1. UNCHANGED <<table, pc, family, granted, capable, refused, unheard>>
    BY <1>2 DEF Terminate, control, historyVars
  <2>2. LifeTypeOK'
    BY <1>2 DEF TablesInv, LifeTypeOK, Terminate, control, daemonVars, historyVars
  <2> QED  BY <2>1, <2>2, QuietStep
<1> QED  BY <1>1, <1>2

-----------------------------------------------------------------------------
(* Steps that change a table. *)
LEMMA InputEmptied ==
    ASSUME NEW t \in Tables, NEW u, u = [t EXCEPT !.input = <<>>]
    PROVE  u \in Tables /\ DropsLast(u)
<1> DEFINE e == <<>>
<1>1. e \in Seq(InputRules) /\ Len(e) = 0
  OBVIOUS
<1> HIDE DEF e
<1>2. u = [t EXCEPT !.input = e]
  BY DEF e
<1>3. u \in Tables /\ u.input = e
  BY <1>1, <1>2 DEF Tables
<1> QED  BY <1>1, <1>3 DEF DropsLast

(* What a batch, accepted or refused, may do. *)
LEMMA BatchFacts ==
    ASSUME TablesInv, NEW t, Able => t \in AnyTable, NEW ok \in BOOLEAN, nl_batch_talk(t, ok)
    PROVE  /\ table' \in [Families -> AnyTable]
           /\ refused' \in 0..MaxRefusals /\ refused' >= refused
           /\ \A f \in Families : f # family => table'[f] = table[f]
           /\ ok => Able /\ table'[family] = t
           /\ ~ok => table' = table
           /\ ~ok /\ Able => refused' >= 1 /\ refused < MaxRefusals
<1>1. /\ table \in [Families -> AnyTable] /\ family \in Families
      /\ refused \in 0..MaxRefusals /\ Able \in BOOLEAN /\ MaxRefusals \in Nat
  BY LifeAssumption DEF TablesInv, LifeTypeOK, AnyTable, Able
<1>2. /\ table' \in [Families -> AnyTable]
      /\ \A f \in Families : f # family => table'[f] = table[f]
      /\ ok => Able /\ table'[family] = t
      /\ ~ok => table' = table
  BY <1>1 DEF nl_batch_talk
<1>3. /\ refused' \in 0..MaxRefusals /\ refused' >= refused
      /\ ~ok /\ Able => refused' >= 1 /\ refused < MaxRefusals
  BY <1>1 DEF nl_batch_talk
<1> QED  BY <1>2, <1>3

(* The rules of the other family's table stay in order. *)
LEMMA BatchOrder ==
    ASSUME TablesInv, \A f \in Families : f # family => table'[f] = table[f],
           Heard' \subseteq Heard \cup {family}, Heard' \subseteq Families,
           family \in Heard' => DropsLast(table'[family])
    PROVE  ChainsOrdered'
<1>1. ASSUME NEW f \in Heard' PROVE DropsLast(table'[f])
  <2>1. CASE f = family
    BY <1>1, <2>1
  <2>2. CASE f # family
    <3>1. DropsLast(table[f]) /\ table'[f] = table[f]
      BY <1>1, <2>2 DEF TablesInv, ChainsOrdered
    <3> QED  BY <3>1
  <2> QED  BY <2>1, <2>2
<1> QED  BY <1>1 DEF ChainsOrdered

(* The part of the type invariant that no batch disturbs. *)
LEMMA BatchTypes ==
    ASSUME TablesInv, table' \in [Families -> AnyTable], refused' \in 0..MaxRefusals,
           pc' \in Steps, family' \in Families, g_fd' \in BOOLEAN, own' \subseteq Families,
           unheard' \subseteq Families,
           UNCHANGED <<daemonVars, capable, signalVars, starts, granted, exit>>
    PROVE  LifeTypeOK'
BY DEF TablesInv, LifeTypeOK, AnyTable, daemonVars, signalVars

(* A batch whose result nobody looks at: a deletion settles what was       *)
(* unheard.                                                                *)
LEMMA HeedlessFacts ==
    ASSUME TablesInv, NEW t, Able => t \in AnyTable, HeedlessBatch(t)
    PROVE  \E ok \in BOOLEAN :
              /\ nl_batch_talk(t, ok)
              /\ unheard' \subseteq Families /\ unheard' \subseteq unheard
              /\ Heard' \subseteq Heard \cup {family} /\ Heard' \subseteq Families
              /\ ~ok \/ t # NoTable => Heard' = Heard
              /\ \A f \in Families : f # family => (f \in Heard' <=> f \in Heard)
<1>1. PICK ok \in BOOLEAN :
         /\ nl_batch_talk(t, ok)
         /\ unheard' = IF ok /\ t = NoTable THEN unheard \ {family} ELSE unheard
  BY DEF HeedlessBatch
<1>2. unheard \subseteq Families /\ family \in Families
  BY DEF TablesInv, LifeTypeOK
<1>3. /\ unheard' \subseteq Families /\ unheard' \subseteq unheard
      /\ Heard' \subseteq Heard \cup {family} /\ Heard' \subseteq Families
      /\ ~ok \/ t # NoTable => Heard' = Heard
      /\ \A f \in Families : f # family => (f \in Heard' <=> f \in Heard)
  BY <1>1, <1>2 DEF Heard
<1> QED  BY <1>1, <1>3

(* A batch that is taken for accepted unless a failure is reported. *)
LEMMA ReplyFacts ==
    ASSUME TablesInv, NEW ok \in BOOLEAN, NEW failed \in BOOLEAN,
           process_batch_replies(ok, failed)
    PROVE  /\ failed => ~ok
           /\ unheard' \subseteq Families
           /\ Heard' \subseteq Heard /\ Heard' \subseteq Families
           /\ ~ok /\ ~failed => family \notin Heard'
           /\ \A f \in Families : f # family => (f \in Heard' <=> f \in Heard)
<1>1. unheard \subseteq Families /\ family \in Families
  BY DEF TablesInv, LifeTypeOK
<1> QED  BY <1>1 DEF process_batch_replies, Heard

(* The cleanup. *)
LEMMA CleanupStep ==
    ASSUME LifeTypeOK', ChainsOrdered', Rank(pc') = 0
    PROVE  TablesInv'
<1>1. BuiltSoFar' /\ CapableSetup'
  BY DEF BuiltSoFar, CapableSetup, Past
<1>2. StaleGrantsGo'
  BY DEF StaleGrantsGo, Past
<1> QED  BY <1>1, <1>2 DEF TablesInv

LEMMA CleanupFlushKeeps == ASSUME TablesInv, CleanupFlush PROVE TablesInv'
<1> DEFINE t == [table[family] EXCEPT !.input = <<>>]
<1>0. pc = "cleanup flush" /\ HeedlessBatch(t) /\ pc' = "cleanup delete" /\ family' = family
  BY DEF CleanupFlush
<1>1. Able => t \in Tables /\ DropsLast(t)
  <2> SUFFICES ASSUME Able PROVE t \in Tables /\ DropsLast(t)
    OBVIOUS
  <2>1. table[family] \in Tables
    BY <1>0 DEF TablesInv, LifeTypeOK, Able
  <2> HIDE DEF t
  <2>2. t = [table[family] EXCEPT !.input = <<>>]
    BY DEF t
  <2> QED  BY <2>1, <2>2, InputEmptied
<1> HIDE DEF t
<1>2. Able => t \in AnyTable /\ t # NoTable
  BY <1>1, TableKinds DEF AnyTable
<1>3. PICK ok \in BOOLEAN :
         /\ nl_batch_talk(t, ok) /\ unheard' \subseteq Families
         /\ Heard' \subseteq Heard \cup {family} /\ Heard' \subseteq Families
         /\ ~ok \/ t # NoTable => Heard' = Heard
  BY <1>0, <1>2, HeedlessFacts
<1>4. UNCHANGED <<g_fd, daemonVars, capable, signalVars, starts, own, granted, exit>>
  BY <1>0 DEF HeedlessBatch
<1>5. /\ table' \in [Families -> AnyTable] /\ refused' \in 0..MaxRefusals
      /\ \A f \in Families : f # family => table'[f] = table[f]
      /\ ok => Able /\ table'[family] = t
      /\ ~ok => table' = table
  BY <1>2, <1>3, BatchFacts
<1>6. ChainsOrdered'
  <2>1. ASSUME family \in Heard' PROVE DropsLast(table'[family])
    <3>1. CASE ok
      BY <1>1, <1>5, <3>1
    <3>2. CASE ~ok
      BY <1>3, <1>5, <2>1, <3>2 DEF TablesInv, ChainsOrdered
    <3> QED  BY <3>1, <3>2
  <2> QED  BY <1>3, <1>5, <2>1, BatchOrder
<1>7. LifeTypeOK'
  <2>1. pc' \in Steps /\ family' \in Families /\ g_fd' \in BOOLEAN /\ own' \subseteq Families
    BY <1>0, <1>4 DEF TablesInv, LifeTypeOK, Steps
  <2> QED  BY <1>3, <1>4, <1>5, <2>1, BatchTypes
<1> QED  BY <1>0, <1>6, <1>7, CleanupStep, RankFacts

LEMMA CleanupDeleteKeeps == ASSUME TablesInv, CleanupDelete PROVE TablesInv'
<1>0. Able => NoTable \in AnyTable
  BY DEF AnyTable
<1>1. PICK ok \in BOOLEAN :
         /\ nl_batch_talk(NoTable, ok) /\ unheard' \subseteq Families
         /\ Heard' \subseteq Heard \cup {family} /\ Heard' \subseteq Families
         /\ ~ok => Heard' = Heard
  BY <1>0, HeedlessFacts DEF CleanupDelete
<1>2. /\ pc' \in {"cleanup flush", "cleanup close"} /\ family' \in Families
      /\ UNCHANGED <<g_fd, daemonVars, capable, signalVars, starts, own, granted, exit>>
  BY DEF CleanupDelete, HeedlessBatch, NextFamily, Goto, Families
<1>3. /\ table' \in [Families -> AnyTable] /\ refused' \in 0..MaxRefusals
      /\ \A f \in Families : f # family => table'[f] = table[f]
      /\ ok => table'[family] = NoTable
      /\ ~ok => table' = table
  BY <1>0, <1>1, BatchFacts
<1>4. ChainsOrdered'
  <2>1. ASSUME family \in Heard' PROVE DropsLast(table'[family])
    BY <1>1, <1>3, <2>1, TableKinds DEF TablesInv, ChainsOrdered
  <2> QED  BY <1>1, <1>3, <2>1, BatchOrder
<1>5. LifeTypeOK'
  <2>1. pc' \in Steps /\ g_fd' \in BOOLEAN /\ own' \subseteq Families
    BY <1>2 DEF TablesInv, LifeTypeOK, Steps
  <2> QED  BY <1>1, <1>2, <1>3, <2>1, BatchTypes
<1> QED  BY <1>2, <1>4, <1>5, CleanupStep, RankFacts

-----------------------------------------------------------------------------
(* The setup. *)
LEMMA DeleteTableKeeps == ASSUME TablesInv, DeleteTable PROVE TablesInv'
<1>0. Able => NoTable \in AnyTable
  BY DEF AnyTable
<1>1. PICK ok \in BOOLEAN :
         /\ nl_batch_talk(NoTable, ok) /\ unheard' \subseteq Families
         /\ Heard' \subseteq Heard \cup {family} /\ Heard' \subseteq Families
         /\ ~ok => Heard' = Heard
  BY <1>0, HeedlessFacts DEF DeleteTable
<1>2. /\ pc = "delete"
      /\ \/ family = "ip" /\ pc' = "delete" /\ family' = "ip6"
         \/ family = "ip6" /\ pc' = "create" /\ family' = "ip"
      /\ UNCHANGED <<g_fd, daemonVars, capable, signalVars, starts, own, granted, exit>>
  BY DEF DeleteTable, HeedlessBatch, NextFamily, Goto, Families, TablesInv, LifeTypeOK
<1>3. /\ table' \in [Families -> AnyTable]
      /\ refused' \in 0..MaxRefusals /\ refused' >= refused
      /\ \A f \in Families : f # family => table'[f] = table[f]
      /\ ok => table'[family] = NoTable
      /\ ~ok => table' = table
      /\ ~ok /\ Able => refused' >= 1
  BY <1>0, <1>1, BatchFacts
<1>4. LifeTypeOK'
  <2>1. /\ pc' \in Steps /\ family' \in Families /\ g_fd' \in BOOLEAN /\ own' \subseteq Families
    BY <1>2 DEF TablesInv, LifeTypeOK, Steps, Families
  <2> QED  BY <1>1, <1>2, <1>3, <2>1, BatchTypes
<1>5. ChainsOrdered'
  <2>1. ASSUME family \in Heard' PROVE DropsLast(table'[family])
    BY <1>1, <1>3, <2>1, TableKinds DEF TablesInv, ChainsOrdered
  <2> QED  BY <1>1, <1>3, <2>1, BatchOrder
<1>rank. Rank(pc) = 1 /\ (pc' = "delete" => Rank(pc') = 1) /\ (pc' = "create" => Rank(pc') = 2)
  BY <1>2, RankFacts
<1>6. BuiltSoFar' /\ CapableSetup'
  BY <1>2, <1>rank DEF BuiltSoFar, CapableSetup, Past
<1>7. StaleGrantsGo'
  <2>1. granted' = {}
    BY <1>2, <1>rank DEF TablesInv, StaleGrantsGo
  <2>2. ASSUME NEW f \in Families, Past(1, f)', capable', table'[f].allowed # {}
        PROVE  refused' >= 1
    <3>1. CASE f = family
      <4>1. ~ok /\ table[family].allowed # {}
        BY <1>3, <2>2, <3>1, TableKinds
      <4>2. Able
        BY <1>2, <2>2, <4>1, TableKinds DEF Able
      <4> QED  BY <1>3, <4>1, <4>2
    <3>2. CASE f # family
      <4>1. f = "ip" /\ family = "ip6" /\ table'[f] = table[f]
        BY <1>2, <1>rank, <1>3, <2>2, <3>2 DEF Past, Families
      <4>2. Past(1, f) /\ ~Past(3, f) /\ capable
        BY <1>2, <1>rank, <2>2, <4>1 DEF Past
      <4>3. refused >= 1 /\ refused \in Int
        BY <2>2, <4>1, <4>2 DEF TablesInv, LifeTypeOK, StaleGrantsGo
      <4> QED  BY <1>3, <4>3
    <3> QED  BY <3>1, <3>2
  <2>3. \A f \in Families : ~Past(3, f)'
    BY <1>2, <1>rank DEF Past
  <2> QED  BY <2>1, <2>2, <2>3 DEF StaleGrantsGo
<1> QED  BY <1>4, <1>5, <1>6, <1>7 DEF TablesInv

LEMMA CreateFamilyKeeps == ASSUME TablesInv, CreateFamily PROVE TablesInv'
<1> DEFINE t == IF table[family] = NoTable THEN EmptyTable ELSE table[family]
<1>1. PICK ok \in BOOLEAN, failed \in BOOLEAN :
         /\ nl_batch_talk(t, ok) /\ process_batch_replies(ok, failed)
         /\ g_fd' = ~failed
         /\ own' = IF ok THEN own \cup {family} ELSE own
         /\ IF failed THEN GiveUp ELSE NextFamily("create", "flush")
  BY DEF CreateFamily
<1>2. /\ t \in Tables /\ t # NoTable
      /\ family \in Heard => DropsLast(t)
      /\ t.allowed = {} \/ t = table[family]
  <2>1. table[family] \in AnyTable /\ (family \in Heard => DropsLast(table[family]))
    BY DEF TablesInv, LifeTypeOK, AnyTable, ChainsOrdered
  <2> QED  BY <2>1, TableKinds DEF AnyTable
<1> HIDE DEF t
<1>3. /\ pc = "create" /\ family \in Families
      /\ UNCHANGED <<daemonVars, capable, signalVars, starts, granted, exit>>
  BY DEF CreateFamily, TablesInv, LifeTypeOK
<1>4. /\ table' \in [Families -> AnyTable]
      /\ refused' \in 0..MaxRefusals /\ refused' >= refused
      /\ \A f \in Families : f # family => table'[f] = table[f]
      /\ ok => Able /\ table'[family] = t
      /\ ~ok => table' = table
  <2>1. Able => t \in AnyTable
    BY <1>2 DEF AnyTable
  <2> QED  BY <1>1, <2>1, BatchFacts
<1>5. /\ unheard' \subseteq Families /\ Heard' \subseteq Heard /\ Heard' \subseteq Families
      /\ ~ok /\ ~failed => family \notin Heard'
  BY <1>1, ReplyFacts
<1>6. ChainsOrdered'
  <2>1. ASSUME family \in Heard' PROVE DropsLast(table'[family])
    <3>1. family \in Heard
      BY <1>5, <2>1
    <3>2. CASE ok
      BY <1>2, <1>4, <3>1, <3>2
    <3>3. CASE ~ok
      BY <1>4, <3>1, <3>3 DEF TablesInv, ChainsOrdered
    <3> QED  BY <3>2, <3>3
  <2> QED  BY <1>4, <1>5, <2>1, BatchOrder
<1>7. \/ ~failed /\ family = "ip" /\ pc' = "create" /\ family' = "ip6"
      \/ ~failed /\ family = "ip6" /\ pc' = "flush" /\ family' = "ip"
      \/ failed /\ pc' = "cleanup" /\ family' = "ip"
  BY <1>1, <1>3 DEF NextFamily, Goto, GiveUp, Families
<1>rank. Rank(pc) = 2 /\ (pc' = "create" => Rank(pc') = 2) /\ (pc' = "flush" => Rank(pc') = 3)
  BY <1>3, RankFacts
<1>8. LifeTypeOK'
  <2>1. pc' \in Steps /\ family' \in Families /\ g_fd' \in BOOLEAN
    BY <1>1, <1>7 DEF Steps, Families
  <2>2. own' \subseteq Families
    BY <1>1, <1>3 DEF TablesInv, LifeTypeOK
  <2> QED  BY <1>3, <1>4, <1>5, <2>1, <2>2, BatchTypes
<1>9. CASE failed
  BY <1>6, <1>7, <1>8, <1>9, CleanupStep, RankFacts
<1>10. CASE ~failed
  <2>1. ASSUME NEW f \in Families, f # family, Past(2, f)' PROVE Past(2, f)
    BY <1>3, <1>7, <1>10, <1>rank, <2>1 DEF Past, Families
  <2>2. ASSUME NEW f \in Families PROVE ~Past(3, f)' /\ Past(1, f) /\ ~Past(3, f)
    BY <1>3, <1>7, <1>10, <1>rank DEF Past, Families
  <2>3. BuiltSoFar'
    <3>1. \A f \in Families : ~Past(4, f)' /\ ~Past(5, f)' /\ ~Past(6, f)'
      BY <1>7, <1>10, <1>rank DEF Past
    <3>2. ASSUME NEW f \in Heard', Past(2, f)' PROVE table'[f] # NoTable
      <4>1. CASE f = family
        BY <1>2, <1>4, <1>5, <1>10, <3>2, <4>1
      <4>2. CASE f # family
        BY <1>4, <1>5, <2>1, <3>2, <4>2 DEF TablesInv, BuiltSoFar
      <4> QED  BY <4>1, <4>2
    <3> QED  BY <1>5, <3>1, <3>2 DEF BuiltSoFar
  <2>4. CapableSetup'
    <3>1. ASSUME NEW f \in Heard', Past(2, f)' PROVE capable
      <4>1. CASE f = family
        BY <1>4, <1>5, <1>10, <3>1, <4>1 DEF Able
      <4>2. CASE f # family
        BY <1>3, <1>5, <2>1, <3>1, <4>2 DEF TablesInv, CapableSetup
      <4> QED  BY <4>1, <4>2
    <3> QED  BY <1>3, <3>1 DEF CapableSetup
  <2>5. StaleGrantsGo'
    <3>1. granted' = {}
      BY <1>3, <1>rank DEF TablesInv, StaleGrantsGo
    <3>2. ASSUME NEW f \in Families, capable, table'[f].allowed # {} PROVE refused' >= 1
      <4>1. table[f].allowed # {}
        BY <1>2, <1>3, <1>4, <3>2
      <4>2. refused >= 1 /\ refused \in Int
        BY <2>2, <3>2, <4>1 DEF TablesInv, LifeTypeOK, StaleGrantsGo
      <4> QED  BY <1>4, <4>2
    <3> QED  BY <1>3, <2>2, <3>1, <3>2 DEF StaleGrantsGo
  <2> QED  BY <1>6, <1>8, <2>3, <2>4, <2>5 DEF TablesInv
<1> QED  BY <1>9, <1>10

LEMMA FlushChainKeeps == ASSUME TablesInv, FlushChain PROVE TablesInv'
<1> DEFINE t == [table[family] EXCEPT !.allowed = {}]
<1>1. /\ pc = "flush" /\ family \in Families /\ HeedlessBatch(t)
      /\ \/ family = "ip" /\ pc' = "flush" /\ family' = "ip6"
         \/ family = "ip6" /\ pc' = "established" /\ family' = "ip"
      /\ UNCHANGED <<g_fd, daemonVars, capable, signalVars, starts, own, granted, exit>>
  BY DEF FlushChain, HeedlessBatch, NextFamily, Goto, Families, TablesInv, LifeTypeOK
<1>rank. Rank(pc) = 3 /\ (pc' = "flush" => Rank(pc') = 3)
         /\ (pc' = "established" => Rank(pc') = 4)
  BY <1>1, RankFacts
<1>2. \A f \in Heard :
         f \in Families /\ table[f] # NoTable /\ DropsLast(table[f]) /\ capable
  <2>1. \A f \in Heard : f \in Families /\ Past(2, f) /\ pc # "serve"
    BY <1>1, <1>rank DEF Past, Heard
  <2> QED  BY <2>1 DEF TablesInv, BuiltSoFar, ChainsOrdered, CapableSetup
<1>3. Able => /\ t \in Tables /\ t.allowed = {} /\ t # NoTable
              /\ family \in Heard => DropsLast(t)
  <2> SUFFICES ASSUME Able
               PROVE  /\ t \in Tables /\ t.allowed = {} /\ t # NoTable
                      /\ family \in Heard => DropsLast(t)
    OBVIOUS
  <2>1. table[family] \in Tables /\ {} \in SUBSET Clients
    BY <1>1 DEF Able, TablesInv, LifeTypeOK
  <2> HIDE DEF t
  <2>2. PICK w : w = table[family]
    OBVIOUS
  <2>3. w \in Tables /\ t = [w EXCEPT !.allowed = {}]
    BY <2>1, <2>2 DEF t
  <2>4. t \in Tables /\ t.allowed = {} /\ (DropsLast(w) => DropsLast(t))
    BY <2>1, <2>3, AllowedChange
  <2> QED  BY <1>2, <2>2, <2>4, TableKinds
<1> HIDE DEF t
<1>4. Able => t \in AnyTable
  BY <1>3 DEF AnyTable
<1>5. PICK ok \in BOOLEAN :
         /\ nl_batch_talk(t, ok) /\ unheard' \subseteq Families
         /\ ~ok \/ t # NoTable => Heard' = Heard
  BY <1>1, <1>4, HeedlessFacts
<1>6. /\ table' \in [Families -> AnyTable]
      /\ refused' \in 0..MaxRefusals /\ refused' >= refused
      /\ \A f \in Families : f # family => table'[f] = table[f]
      /\ ok => Able /\ table'[family] = t
      /\ ~ok => table' = table
      /\ ~ok /\ Able => refused < MaxRefusals
  BY <1>4, <1>5, BatchFacts
<1>7. Heard' = Heard /\ Heard \subseteq Families
  BY <1>3, <1>5, <1>6 DEF Heard
<1>8. LifeTypeOK'
  <2>1. /\ pc' \in Steps /\ family' \in Families /\ g_fd' \in BOOLEAN /\ own' \subseteq Families
    BY <1>1 DEF TablesInv, LifeTypeOK, Steps, Families
  <2> QED  BY <1>1, <1>5, <1>6, <2>1, BatchTypes
<1>9. ChainsOrdered'
  <2>1. ASSUME family \in Heard' PROVE DropsLast(table'[family])
    BY <1>2, <1>3, <1>6, <1>7, <2>1
  <2> QED  BY <1>6, <1>7, <2>1, BatchOrder
<1>10. BuiltSoFar' /\ CapableSetup'
  <2>1. \A f \in Heard : table'[f] # NoTable
    BY <1>1, <1>2, <1>3, <1>6
  <2>2. \A f \in Families : ~Past(4, f)' /\ ~Past(5, f)' /\ ~Past(6, f)'
    BY <1>1, <1>rank DEF Past
  <2>3. BuiltSoFar'
    BY <1>7, <2>1, <2>2 DEF BuiltSoFar
  <2>4. CapableSetup'
    BY <1>1, <1>2, <1>7 DEF CapableSetup
  <2> QED  BY <2>3, <2>4
<1>11. StaleGrantsGo'
  <2>1. granted' = {}
    BY <1>1, <1>rank DEF TablesInv, StaleGrantsGo
  <2>2. refused \in Int /\ refused' \in Int /\ refused \in Nat
    BY <1>6, LifeAssumption DEF TablesInv, LifeTypeOK
  <2>3. ASSUME NEW f \in Families, ~Past(3, f)', capable, table'[f].allowed # {}
        PROVE  refused' >= 1
    <3>1. f # family /\ table'[f] = table[f]
      BY <1>1, <1>6, <1>rank, <2>3 DEF Past
    <3>2. Past(1, f) /\ ~Past(3, f)
      BY <1>1, <1>rank, <2>3, <3>1 DEF Past, Families
    <3>3. refused >= 1
      BY <2>3, <3>1, <3>2 DEF TablesInv, StaleGrantsGo
    <3> QED  BY <1>6, <2>2, <3>3
  <2>4. ASSUME NEW f \in Families, Past(3, f)', MaxRefusals <= 1, f \in Heard
        PROVE  table'[f].allowed = {}
    <3>1. CASE f = family /\ ok
      BY <1>3, <1>6, <3>1
    <3>2. CASE f = family /\ ~ok
      <4>1. Past(1, f) /\ ~Past(3, f)
        <5>1. f = "ip" => family = "ip"
          BY <3>2
        <5> QED  BY <1>1, <1>rank, <5>1 DEF Past
      <4>2. capable /\ Able
        BY <1>2, <2>4, <3>2 DEF Able
      <4>3. refused < 1
        BY <1>6, <2>2, <2>4, <3>2, <4>2, LifeAssumption
      <4>4. table[f].allowed = {}
        BY <2>2, <4>1, <4>2, <4>3 DEF TablesInv, StaleGrantsGo
      <4> QED  BY <1>6, <3>2, <4>4
    <3>3. CASE f # family
      <4>1. Past(3, f)
        BY <1>1, <1>rank, <2>4, <3>3 DEF Past, Families
      <4>2. table[f].allowed \subseteq granted
        BY <2>4, <4>1 DEF TablesInv, StaleGrantsGo
      <4> QED  BY <1>1, <1>6, <2>1, <3>3, <4>2
    <3> QED  BY <3>1, <3>2, <3>3
  <2> QED  BY <1>1, <1>7, <2>1, <2>3, <2>4 DEF StaleGrantsGo
<1> QED  BY <1>8, <1>9, <1>10, <1>11 DEF TablesInv

(* The rules of the input chain are appended by a process that has the     *)
(* capability and has emptied allowed_ips.                                 *)
LEMMA AppendRuleKeeps ==
    ASSUME TablesInv, NEW n \in 4..6, NEW rule \in InputRules, NEW next \in Steps,
           Rank(rule) = n, Rank(next) = n + 1, rule # "serve", next # "serve", rule # "create",
           n = 4 => rule = "established", n = 5 => rule = "jump", n = 6 => rule = "drop",
           rule \in Steps, AppendRule(rule, next)
    PROVE  TablesInv'
<1> DEFINE t == [table[family] EXCEPT !.input = Append(@, rule)]
<1>1. pc = rule /\ family \in Families /\ Rank(pc) = n
  BY DEF AppendRule, TablesInv, LifeTypeOK
<1>2. PICK ok \in BOOLEAN, failed \in BOOLEAN :
         /\ nl_batch_talk(t, ok) /\ process_batch_replies(ok, failed)
         /\ IF failed THEN GiveUp ELSE NextFamily(pc, next)
  BY DEF AppendRule, SetupBatch
<1>3. UNCHANGED <<g_fd, daemonVars, capable, signalVars, starts, own, granted, exit>>
  BY DEF AppendRule, SetupBatch
<1>4. \A f \in Families : Past(2, f) /\ Past(3, f)
  BY <1>1 DEF Past
<1>5. \A f \in Heard : table[f] # NoTable /\ DropsLast(table[f])
  BY <1>4 DEF Heard, TablesInv, BuiltSoFar, ChainsOrdered
<1>6. rule = "drop" /\ family \in Heard =>
         Has(table[family], "established") /\ Has(table[family], "jump")
  <2>1. rule = "drop" => Past(4, family) /\ Past(5, family)
    <3>1. rule = "drop" => n = 6
      BY RankFacts
    <3> QED  BY <1>1, <3>1 DEF Past
  <2> QED  BY <1>1, <2>1 DEF TablesInv, BuiltSoFar
<1>7. Able =>
         /\ t \in Tables /\ t.allowed = table[family].allowed /\ t # NoTable
         /\ Has(t, rule) /\ \A r \in InputRules : Has(table[family], r) => Has(t, r)
         /\ family \in Heard => DropsLast(t)
  <2> SUFFICES ASSUME Able
               PROVE  /\ t \in Tables /\ t.allowed = table[family].allowed /\ t # NoTable
                      /\ Has(t, rule) /\ \A r \in InputRules : Has(table[family], r) => Has(t, r)
                      /\ family \in Heard => DropsLast(t)
    OBVIOUS
  <2> HIDE DEF t
  <2>1. table[family] \in Tables
    BY <1>1 DEF Able, TablesInv, LifeTypeOK
  <2>2. PICK w : w = table[family]
    OBVIOUS
  <2>3. w \in Tables /\ t = [w EXCEPT !.input = Append(@, rule)]
    BY <2>1, <2>2 DEF t
  <2>4. /\ t \in Tables /\ t.allowed = w.allowed
        /\ Has(t, rule) /\ \A r \in InputRules : Has(w, r) => Has(t, r)
        /\ DropsLast(w) /\ (rule = "drop" => Has(w, "established") /\ Has(w, "jump"))
              => DropsLast(t)
    BY <2>3, RuleAppended
  <2> QED  BY <1>5, <1>6, <2>2, <2>4, TableKinds
<1> HIDE DEF t
<1>8. /\ table' \in [Families -> AnyTable] /\ refused' \in 0..MaxRefusals
      /\ \A f \in Families : f # family => table'[f] = table[f]
      /\ ok => Able /\ table'[family] = t
      /\ ~ok => table' = table
  <2>1. Able => t \in AnyTable
    BY <1>7 DEF AnyTable
  <2> QED  BY <1>2, <2>1, BatchFacts
<1>9. \/ ~failed /\ family = "ip" /\ pc' = rule /\ family' = "ip6"
      \/ ~failed /\ family = "ip6" /\ pc' = next /\ family' = "ip"
      \/ failed /\ pc' = "cleanup" /\ family' = "ip"
  BY <1>1, <1>2 DEF NextFamily, Goto, GiveUp, Families
<1>10. /\ unheard' \subseteq Families /\ Heard' \subseteq Heard /\ Heard' \subseteq Families
       /\ ~ok /\ ~failed => family \notin Heard'
  BY <1>2, ReplyFacts
<1>11. LifeTypeOK'
  <2>1. /\ pc' \in Steps /\ family' \in Families /\ g_fd' \in BOOLEAN /\ own' \subseteq Families
    BY <1>3, <1>9 DEF TablesInv, LifeTypeOK, Steps, Families
  <2> QED  BY <1>3, <1>8, <1>10, <2>1, BatchTypes
<1>12. ChainsOrdered'
  <2>1. ASSUME family \in Heard' PROVE DropsLast(table'[family])
    <3>1. family \in Heard
      BY <1>10, <2>1
    <3>2. CASE ok
      BY <1>7, <1>8, <3>1, <3>2
    <3>3. CASE ~ok
      BY <1>5, <1>8, <3>1, <3>3
    <3> QED  BY <3>2, <3>3
  <2> QED  BY <1>8, <1>10, <2>1, BatchOrder
<1>13. CASE failed
  BY <1>9, <1>11, <1>12, <1>13, CleanupStep, RankFacts
<1>14. CASE ~failed
  <2>1. \/ family = "ip" /\ Rank(pc') = n /\ family' = "ip6"
        \/ family = "ip6" /\ Rank(pc') = n + 1 /\ family' = "ip"
    BY <1>9, <1>14
  <2>2. ASSUME NEW f \in Families, NEW m \in 2..6, Past(m, f)' PROVE Past(m, f) \/ (m = n /\ f = family)
    BY <1>1, <2>1, <2>2 DEF Past, Families
  <2>3. /\ \A f \in Families : table'[f].allowed = table[f].allowed
        /\ \A f \in Families, r \in InputRules : Has(table[f], r) => Has(table'[f], r)
    BY <1>1, <1>7, <1>8
  <2>4. /\ \A f \in Heard' : table'[f] # NoTable
        /\ family \in Heard' => Has(table'[family], rule)
    BY <1>1, <1>5, <1>7, <1>8, <1>10, <1>14
  <2>5. BuiltSoFar'
    <3>1. ASSUME NEW f \in Heard', NEW r \in InputRules, NEW m \in 4..6, Past(m, f)',
                 Past(m, f) => Has(table[f], r), m = n => r = rule
          PROVE  Has(table'[f], r)
      <4>0. f \in Families /\ m \in 2..6
        BY <1>10
      <4>1. CASE Past(m, f)
        BY <2>3, <3>1, <4>0, <4>1
      <4>2. CASE m = n /\ f = family
        BY <2>4, <3>1, <4>2
      <4> QED  BY <2>2, <3>1, <4>0, <4>1, <4>2
    <3>2. \A f \in Heard' :
             /\ Past(4, f)' => Has(table'[f], "established")
             /\ Past(5, f)' => Has(table'[f], "jump")
             /\ Past(6, f)' => Has(table'[f], "drop")
      <4> TAKE f \in Heard'
      <4>1. /\ Past(4, f) => Has(table[f], "established")
            /\ Past(5, f) => Has(table[f], "jump")
            /\ Past(6, f) => Has(table[f], "drop")
        BY <1>10 DEF TablesInv, BuiltSoFar
      <4>2. 4 \in 4..6 /\ 5 \in 4..6 /\ 6 \in 4..6
            /\ "established" \in InputRules /\ "jump" \in InputRules /\ "drop" \in InputRules
        BY DEF InputRules
      <4> QED  BY <3>1, <4>1, <4>2
    <3> QED  BY <2>4, <3>2 DEF BuiltSoFar
  <2>6. CapableSetup'
    BY <1>1, <1>3, <1>4, <1>10 DEF TablesInv, CapableSetup
  <2>7. StaleGrantsGo'
    <3>1. granted' = {}
      BY <1>1, <1>3 DEF TablesInv, StaleGrantsGo
    <3>2. \A f \in Families : Past(3, f)'
      BY <2>1 DEF Past
    <3>3. \A f \in Families : MaxRefusals <= 1 /\ f \in Heard' => table'[f].allowed \subseteq granted'
      BY <1>3, <1>4, <1>10, <2>3 DEF TablesInv, StaleGrantsGo
    <3> QED  BY <3>1, <3>2, <3>3 DEF StaleGrantsGo
  <2> QED  BY <1>11, <1>12, <2>5, <2>6, <2>7 DEF TablesInv
<1> QED  BY <1>13, <1>14

LEMMA RulesKeep == ASSUME TablesInv, AddEstablished \/ AddJump \/ AddDrop PROVE TablesInv'
<1>0. /\ {"established", "jump", "drop"} \subseteq InputRules
      /\ {"established", "jump", "drop", "epoll"} \subseteq Steps
      /\ 4 \in 4..6 /\ 5 \in 4..6 /\ 6 \in 4..6
  BY DEF InputRules, Steps
<1>1. CASE AddEstablished
  <2>1. Rank("established") = 4 /\ Rank("jump") = 4 + 1
    BY DEF Rank
  <2> QED  BY <1>0, <1>1, <2>1, AppendRuleKeeps DEF AddEstablished
<1>2. CASE AddJump
  <2>1. Rank("jump") = 5 /\ Rank("drop") = 5 + 1
    BY DEF Rank
  <2> QED  BY <1>0, <1>2, <2>1, AppendRuleKeeps DEF AddJump
<1>3. CASE AddDrop
  <2>1. Rank("drop") = 6 /\ Rank("epoll") = 6 + 1
    BY DEF Rank
  <2> QED  BY <1>0, <1>3, <2>1, AppendRuleKeeps DEF AddDrop
<1> QED  BY <1>1, <1>2, <1>3

LEMMA StartKeeps == ASSUME TablesInv, Start PROVE TablesInv'
<1>1. /\ table' = table /\ family' = "ip" /\ granted' = {} /\ unheard' = unheard
      /\ pc' \in {"delete", "cleanup"} /\ pc' \in Steps
  BY DEF Start, Goto, GiveUp, Steps
<1>2. pc' = "delete" => Rank(pc') = 1
  BY RankFacts
<1>3. pc' = "cleanup" => Rank(pc') = 0
  BY RankFacts
<1>4. /\ g_fd' \in BOOLEAN /\ signal_fd' \in BOOLEAN /\ epoll_fd' \in BOOLEAN
      /\ capable' \in BOOLEAN /\ blocked' \in BOOLEAN /\ term' \in BOOLEAN
  BY DEF Start
<1>5. /\ starts' \in 0..MaxStarts /\ refused' \in 0..MaxRefusals
      /\ udp_fds' \subseteq 0..(NumPorts - 1) /\ num_udp_fds' \in 0..NumPorts
  BY LifeAssumption DEF Start, TablesInv, LifeTypeOK
<1>6. LifeTypeOK'
  BY <1>1, <1>4, <1>5 DEF Start, TablesInv, LifeTypeOK, Families
<1>7. ChainsOrdered'
  BY <1>1 DEF TablesInv, ChainsOrdered, Heard
<1>8. BuiltSoFar' /\ CapableSetup'
  BY <1>1, <1>2, <1>3 DEF BuiltSoFar, CapableSetup, Past
<1>9. StaleGrantsGo'
  BY <1>1, <1>2, <1>3 DEF StaleGrantsGo, Past
<1> QED  BY <1>6, <1>7, <1>8, <1>9 DEF TablesInv

(* While the daemon serves, only allowed_ips changes. *)
LEMMA ServeKeeps ==
    ASSUME TablesInv, NEW f \in Families, NEW c \in Clients, Admit(f, c) \/ Dismiss(f, c)
    PROVE  TablesInv'
<1>1. /\ pc = "serve" /\ capable /\ Rank(pc) = 7
      /\ UNCHANGED <<control, g_fd, daemonVars, capable, signalVars, refused, starts, own,
                     unheard, exit>>
  BY RankFacts DEF Admit, Dismiss, historyVars
<1>2. \A g \in Families : Past(2, g) /\ Past(3, g) /\ Past(4, g) /\ Past(5, g) /\ Past(6, g)
  BY <1>1 DEF Past
<1>3. /\ table \in [Families -> AnyTable] /\ granted \subseteq Clients
      /\ Heard' = Heard /\ Heard \subseteq Families
      /\ \A g \in Heard : table[g] # NoTable /\ DropsLast(table[g])
  BY <1>1, <1>2 DEF TablesInv, LifeTypeOK, BuiltSoFar, ChainsOrdered, AnyTable, Heard
<1>4. table[f] \in Tables /\ table[f].allowed \subseteq Clients
  <2>1. table[f] # NoTable
    BY TableKinds DEF Admit, Dismiss
  <2> QED  BY <1>3, <2>1, TableKinds DEF AnyTable
<1>5. PICK s \in SUBSET Clients :
         /\ table' = [table EXCEPT ![f] = [table[f] EXCEPT !.allowed = s]]
         /\ s \subseteq table[f].allowed \cup granted'
  <2>1. CASE Admit(f, c)
    <3> table[f].allowed \cup {c} \in SUBSET Clients
      BY <1>4
    <3> WITNESS table[f].allowed \cup {c} \in SUBSET Clients
    <3> QED  BY <2>1 DEF Admit
  <2>2. CASE Dismiss(f, c)
    <3> table[f].allowed \ {c} \in SUBSET Clients
      BY <1>4
    <3> WITNESS table[f].allowed \ {c} \in SUBSET Clients
    <3> QED  BY <2>2 DEF Dismiss
  <2> QED  BY <2>1, <2>2
<1>6. granted \subseteq granted' /\ granted' \subseteq Clients
  BY <1>3 DEF Admit, Dismiss, historyVars
<1>7. PICK u : u = [table[f] EXCEPT !.allowed = s]
  OBVIOUS
<1>8. /\ u \in Tables /\ u.allowed = s /\ (f \in Heard => DropsLast(u))
      /\ \A rule \in InputRules : Has(table[f], rule) => Has(u, rule)
  <2>1. PICK t : t = table[f]
    OBVIOUS
  <2>2. t \in Tables /\ u = [t EXCEPT !.allowed = s] /\ (f \in Heard => DropsLast(t))
    BY <1>3, <1>4, <1>7, <2>1
  <2>3. /\ u \in Tables /\ u.allowed = s /\ (f \in Heard => DropsLast(u))
        /\ \A rule \in InputRules : Has(t, rule) => Has(u, rule)
    BY <2>2, AllowedChange
  <2> QED  BY <2>1, <2>3
<1>9. \A g \in Families : table'[g] = IF g = f THEN u ELSE table[g]
  BY <1>3, <1>5, <1>7
<1>10. LifeTypeOK'
  <2>1. table' \in [Families -> AnyTable]
    BY <1>3, <1>5, <1>7, <1>8 DEF AnyTable
  <2> QED  BY <1>1, <1>6, <2>1 DEF TablesInv, LifeTypeOK, AnyTable, control, daemonVars, signalVars
<1>11. ChainsOrdered'
  BY <1>3, <1>8, <1>9 DEF ChainsOrdered
<1>12. BuiltSoFar'
  <2>1. /\ \A g \in Heard : table'[g] # NoTable
        /\ \A g \in Families, rule \in InputRules : Has(table[g], rule) => Has(table'[g], rule)
    BY <1>3, <1>8, <1>9, TableKinds
  <2>2. /\ "established" \in InputRules /\ "jump" \in InputRules /\ "drop" \in InputRules
    BY DEF InputRules
  <2> QED  BY <1>2, <1>3, <2>1, <2>2 DEF TablesInv, BuiltSoFar
<1>13. CapableSetup'
  BY <1>1 DEF CapableSetup
<1>14. StaleGrantsGo'
  <2>1. \A g \in Heard : MaxRefusals <= 1 => table'[g].allowed \subseteq granted'
    BY <1>2, <1>3, <1>5, <1>6, <1>8, <1>9 DEF TablesInv, StaleGrantsGo
  <2>2. pc' = "serve" /\ \A g \in Families : Past(3, g)'
    BY <1>1 DEF control, Past
  <2> QED  BY <1>3, <2>1, <2>2 DEF StaleGrantsGo
<1> QED  BY <1>10, <1>11, <1>12, <1>13, <1>14 DEF TablesInv

-----------------------------------------------------------------------------
LEMMA TablesInitially == LifeInit => TablesInv
<1> SUFFICES ASSUME LifeInit PROVE TablesInv
  OBVIOUS
<1>1. pc = "down" /\ Rank(pc) = 0 /\ \A f \in Families : table[f] = NoTable
  BY RankFacts DEF LifeInit
<1>2. /\ starts \in 0..MaxStarts /\ refused \in 0..MaxRefusals
      /\ udp_fds \subseteq 0..(NumPorts - 1) /\ num_udp_fds \in 0..NumPorts
  BY LifeAssumption DEF LifeInit
<1>3. LifeTypeOK
  BY <1>2 DEF LifeInit, LifeTypeOK, Steps, Families
<1>4. ChainsOrdered
  BY <1>1, TableKinds DEF ChainsOrdered, Heard
<1>5. BuiltSoFar /\ CapableSetup
  BY <1>1 DEF BuiltSoFar, CapableSetup, Past
<1>6. StaleGrantsGo
  BY <1>1 DEF StaleGrantsGo, Past
<1> QED  BY <1>3, <1>4, <1>5, <1>6 DEF TablesInv

LEMMA TablesStep == TablesInv /\ [LifeNext]_lifeVars => TablesInv'
<1> SUFFICES ASSUME TablesInv, [LifeNext]_lifeVars PROVE TablesInv'
  OBVIOUS
<1>1. CASE Start
  BY <1>1, StartKeeps
<1>2. CASE Setup
  BY <1>2, DeleteTableKeeps, CreateFamilyKeeps, FlushChainKeeps, RulesKeep, SetupEpollKeeps,
     OpenPortKeeps, SetupSignalKeeps, DropPrivilegesKeeps DEF Setup
<1>3. CASE Serve
  BY <1>3, ServeKeeps DEF Serve
<1>4. CASE StopOnSignal \/ StopOnError
  BY <1>4, LeaveKeeps
<1>5. CASE Cleanup
  BY <1>5, CloseKeeps, CleanupFlushKeeps, CleanupDeleteKeeps DEF Cleanup
<1>6. CASE Crash \/ Terminate
  BY <1>6, CloseKeeps, TerminateKeeps DEF Crash
<1>7. CASE UNCHANGED lifeVars
  <2>1. UNCHANGED <<table, pc, family, granted, capable, refused, unheard>>
    BY <1>7 DEF lifeVars, control, historyVars
  <2>2. LifeTypeOK'
    BY <1>7 DEF TablesInv, LifeTypeOK, lifeVars, control, daemonVars, signalVars, historyVars
  <2> QED  BY <2>1, <2>2, QuietStep
<1> QED  BY <1>1, <1>2, <1>3, <1>4, <1>5, <1>6, <1>7 DEF LifeNext

-----------------------------------------------------------------------------
(* What the cleanup takes back. *)
LEMMA NoDrops == ~Has(NoTable, "drop") /\ ~Has(EmptyTable, "drop")
<1> DEFINE z == <<"no table">>
<1>1. Len(z) = 1 /\ z[1] = "no table"
  OBVIOUS
<1>2. NoTable.input = z
  BY DEF NoTable
<1> HIDE DEF z
<1>3. ~Has(NoTable, "drop")
  <2>1. \A k \in 1..1 : k = 1
    OBVIOUS
  <2>2. \A k \in 1..Len(z) : z[k] # "drop"
    BY <1>1, <2>1
  <2> QED  BY <1>2, <2>2 DEF Has
<1>4. ~Has(EmptyTable, "drop")
  BY DEF Has, EmptyTable
<1> QED  BY <1>3, <1>4

(* A step that neither opens nor closes a port. *)
LEMMA DescriptorsStay ==
    ASSUME DescriptorsKept, UNCHANGED <<udp_fds, num_udp_fds>>,
           pc' \in Closed => pc \in Closed /\ UNCHANGED <<epoll_fd, signal_fd>>,
           Rank(pc') = 0 \/ g_fd'
    PROVE  DescriptorsKept'
BY DEF DescriptorsKept

(* A step within the later setup, or out of it into the cleanup. *)
LEMMA DropsWait ==
    ASSUME Rank(pc') \notin {1, 2}, pc' \notin Closed, pc' = "cleanup" => g_fd'
    PROVE  DropsGo'
<1>1. \A f \in own' : ~Wiped(f)'
  BY DEF Wiped, Closed
<1>2. pc' # "cleanup delete"
  BY DEF Closed
<1> QED  BY <1>1, <1>2 DEF DropsGo

LEMMA SmallNumbers ==
    0 \notin {1, 2} /\ 1 # 0 /\ 2 # 0 /\ 2 > 1
OBVIOUS

LateSteps == {"flush", "established", "jump", "drop", "epoll", "udp", "privileges", "serve"}

LEMMA LateRanks ==
    /\ \A s \in LateSteps : Rank(s) \in 3..7
    /\ LateSteps \cap Closed = {} /\ "cleanup" \notin Closed
    /\ \A s \in Closed : Rank(s) = 0
<1>1. 3 \in 3..7 /\ 4 \in 3..7 /\ 5 \in 3..7 /\ 6 \in 3..7 /\ 7 \in 3..7
  OBVIOUS
<1>2. \A s \in LateSteps : Rank(s) \in 3..7
  BY <1>1, RankFacts DEF LateSteps
<1>3. LateSteps \cap Closed = {} /\ "cleanup" \notin Closed
  BY DEF LateSteps, Closed
<1>4. \A s \in Closed : Rank(s) = 0
  BY RankFacts DEF Closed
<1> QED  BY <1>2, <1>3, <1>4

(* The setup after netlink_init, and the service. *)
LEMMA LateStep ==
    ASSUME LifeTypeOK, FlushChain \/ AddEstablished \/ AddJump \/ AddDrop \/ SetupEpoll \/ OpenPort
             \/ SetupSignal \/ DropPrivileges \/ Serve \/ StopOnSignal \/ StopOnError
    PROVE  pc \in LateSteps /\ pc' \in LateSteps \cup {"cleanup"} /\ g_fd' = g_fd
<1>1. CASE FlushChain
  BY <1>1 DEF FlushChain, HeedlessBatch, NextFamily, Goto, LateSteps
<1>2. CASE AddEstablished \/ AddJump \/ AddDrop
  <2>1. ASSUME NEW rule \in LateSteps, NEW next \in LateSteps, AppendRule(rule, next)
        PROVE  pc \in LateSteps /\ pc' \in LateSteps \cup {"cleanup"} /\ g_fd' = g_fd
    BY <2>1 DEF AppendRule, SetupBatch, NextFamily, Goto, GiveUp
  <2>2. {"established", "jump", "drop", "epoll"} \subseteq LateSteps
    BY DEF LateSteps
  <2> QED  BY <1>2, <2>1, <2>2 DEF AddEstablished, AddJump, AddDrop
<1>3. CASE SetupEpoll \/ OpenPort
  BY <1>3 DEF SetupEpoll, OpenPort, control, Goto, GiveUp, LateSteps
<1>4. CASE SetupSignal \/ DropPrivileges
  BY <1>4 DEF SetupSignal, DropPrivileges, Goto, GiveUp, LateSteps
<1>5. CASE Serve
  BY <1>5 DEF Serve, Admit, Dismiss, control, LateSteps
<1>6. CASE StopOnSignal \/ StopOnError
  BY <1>6 DEF StopOnSignal, StopOnError, Leave, Goto, LateSteps
<1> QED  BY <1>1, <1>2, <1>3, <1>4, <1>5, <1>6

LEMMA LateKeeps ==
    ASSUME TablesInv, DescriptorsKept,
           FlushChain \/ AddEstablished \/ AddJump \/ AddDrop \/ SetupEpoll \/ OpenPort
             \/ SetupSignal \/ DropPrivileges \/ Serve \/ StopOnSignal \/ StopOnError
    PROVE  DescriptorsKept' /\ DropsGo'
<1>1. pc \in LateSteps /\ pc' \in LateSteps \cup {"cleanup"} /\ g_fd' = g_fd
  BY LateStep DEF TablesInv
<1>2. g_fd /\ g_fd' /\ pc' \notin Closed /\ Rank(pc') \notin {1, 2}
  <2>1. \A n \in 3..7 : n # 0 /\ n \notin {1, 2}
    OBVIOUS
  <2>2. Rank(pc) # 0
    BY <1>1, <2>1, LateRanks
  <2>3. g_fd /\ g_fd'
    BY <1>1, <2>2 DEF DescriptorsKept
  <2>4. CASE pc' = "cleanup"
    <3>1. Rank(pc') = 0 /\ pc' \notin Closed
      BY <2>4, LateRanks, RankFacts
    <3> QED  BY <2>3, <3>1
  <2>5. CASE pc' \in LateSteps
    BY <2>1, <2>3, <2>5, LateRanks
  <2> QED  BY <1>1, <2>4, <2>5
<1>3. DropsGo'
  BY <1>2, DropsWait
<1>4. CASE OpenPort
  <2>1. num_udp_fds \in Nat /\ udp_fds \subseteq 0..(num_udp_fds - 1)
    <3>1. num_udp_fds \in 0..NumPorts /\ udp_fds \subseteq 0..(num_udp_fds - 1)
      BY DEF TablesInv, LifeTypeOK, DescriptorsKept
    <3> QED  BY <3>1, PortFacts
  <2>2. \/ udp_fds' = udp_fds \cup {num_udp_fds} /\ num_udp_fds' = num_udp_fds + 1
        \/ udp_fds' = udp_fds /\ num_udp_fds' = num_udp_fds
    BY <1>4 DEF OpenPort
  <2>3. \A n \in Nat : 0..(n - 1) \cup {n} \subseteq 0..((n + 1) - 1)
    OBVIOUS
  <2>4. udp_fds' \subseteq 0..(num_udp_fds' - 1)
    BY <2>1, <2>2, <2>3
  <2> QED  BY <1>2, <1>3, <2>4 DEF DescriptorsKept
<1>5. CASE ~OpenPort
  <2>1. UNCHANGED <<udp_fds, num_udp_fds>>
    <3>1. CASE FlushChain
      BY <3>1 DEF FlushChain, HeedlessBatch, daemonVars
    <3>2. CASE AddEstablished \/ AddJump \/ AddDrop
      BY <3>2 DEF AddEstablished, AddJump, AddDrop, AppendRule, SetupBatch, daemonVars
    <3>3. CASE SetupEpoll \/ SetupSignal \/ DropPrivileges
      BY <3>3 DEF SetupEpoll, SetupSignal, DropPrivileges, daemonVars
    <3>4. CASE Serve \/ StopOnSignal \/ StopOnError
      BY <3>4 DEF Serve, Admit, Dismiss, StopOnSignal, StopOnError, Leave, daemonVars
    <3> QED  BY <1>5, <3>1, <3>2, <3>3, <3>4
  <2> QED  BY <1>2, <1>3, <2>1, DescriptorsStay
<1> QED  BY <1>4, <1>5

LEMMA StartExits == ASSUME TablesInv, Start PROVE DescriptorsKept' /\ DropsGo'
<1>1. /\ pc' \in {"delete", "cleanup"} /\ family' = "ip" /\ own' = {}
      /\ udp_fds' = {} /\ (pc' = "delete" => g_fd')
  BY DEF Start, Goto, GiveUp
<1>2. /\ pc' \notin Closed /\ pc' # "cleanup delete"
      /\ pc' = "delete" => Rank(pc') = 1
      /\ pc' = "cleanup" => Rank(pc') = 0
  BY <1>1, RankFacts DEF Closed
<1>3. DescriptorsKept'
  BY <1>1, <1>2 DEF DescriptorsKept
<1>4. \A f \in Families : ~(Rank(pc') \in {1, 2} /\ Past(1, f)')
  <2>1. CASE pc' = "delete"
    <3>1. Rank(pc') = 1 /\ family' # "ip6"
      BY <1>1, <1>2, <2>1
    <3> QED  BY <3>1 DEF Past
  <2>2. CASE pc' = "cleanup"
    <3>1. Rank(pc') = 0
      BY <1>2, <2>2
    <3> QED  BY <3>1
  <2> QED  BY <1>1, <2>1, <2>2
<1> QED  BY <1>1, <1>2, <1>3, <1>4 DEF DropsGo

(* What becomes of the drop rules of the family a batch is about, when the *)
(* batch would remove them, the process is capable, and at most one batch  *)
(* is refused.                                                             *)
LEMMA BatchDrops ==
    ASSUME TablesInv, NEW t, Able => t \in AnyTable, ~Has(t, "drop"), pc # "create",
           capable, MaxRefusals <= 1, NEW ok \in BOOLEAN, nl_batch_talk(t, ok)
    PROVE  /\ ~Has(table'[family], "drop") \/ (refused' >= 1 /\ refused = 0 /\ table' = table)
           /\ \A f \in Families : f # family => table'[f] = table[f]
           /\ refused' = 0 => refused = 0
<1>1. /\ \A f \in Families : f # family => table'[f] = table[f]
      /\ refused' \in 0..MaxRefusals /\ refused' >= refused
      /\ ok => Able /\ table'[family] = t
      /\ ~ok => table' = table
      /\ ~ok /\ Able => refused' >= 1 /\ refused < MaxRefusals
  BY BatchFacts
<1>2. refused \in 0..MaxRefusals /\ MaxRefusals \in Nat
  BY LifeAssumption DEF TablesInv, LifeTypeOK
<1>3. refused' = 0 => refused = 0
  BY <1>1, <1>2
<1>4. CASE ok
  BY <1>1, <1>3, <1>4
<1>5. CASE ~ok /\ Able
  <2>1. refused = 0
    BY <1>1, <1>2, <1>5
  <2> QED  BY <1>1, <1>3, <1>5, <2>1
<1>6. CASE ~ok /\ ~Able
  <2>1. table[family] = NoTable
    BY <1>6 DEF Able
  <2> QED  BY <1>1, <1>3, <1>6, <2>1, NoDrops
<1> QED  BY <1>4, <1>5, <1>6

LEMMA DeleteTableExits ==
    ASSUME TablesInv, DescriptorsKept, DropsGo, DeleteTable
    PROVE  DescriptorsKept' /\ DropsGo'
<1>1. /\ pc = "delete" /\ family \in Families /\ HeedlessBatch(NoTable)
      /\ \/ family = "ip" /\ pc' = "delete" /\ family' = "ip6"
         \/ family = "ip6" /\ pc' = "create" /\ family' = "ip"
      /\ UNCHANGED <<g_fd, udp_fds, num_udp_fds, capable, own, exit>>
  BY DEF DeleteTable, HeedlessBatch, NextFamily, Goto, Families, TablesInv, LifeTypeOK, daemonVars
<1>2. /\ Rank(pc) = 1 /\ pc' \notin Closed /\ pc' # "cleanup" /\ pc' # "cleanup delete"
      /\ pc' = "delete" => Rank(pc') = 1
      /\ pc' = "create" => Rank(pc') = 2
  BY <1>1, RankFacts DEF Closed
<1>3. DescriptorsKept'
  <2>0. Rank(pc) # 0
    BY <1>2, SmallNumbers, Zenon
  <2>1. g_fd'
    BY <1>1, <2>0 DEF DescriptorsKept
  <2> QED  BY <1>1, <1>2, <2>1, DescriptorsStay
<1>4. \A f \in own' : ~Wiped(f)'
  BY <1>2 DEF Wiped, Closed
<1>5. ASSUME MaxRefusals <= 1, capable', NEW f \in Families, Past(1, f)', refused' = 0
      PROVE  ~Has(table'[f], "drop")
  <2>1. PICK ok \in BOOLEAN : nl_batch_talk(NoTable, ok)
    BY <1>1 DEF HeedlessBatch
  <2>2. capable /\ pc # "create" /\ NoTable \in AnyTable
    BY <1>1, <1>5, TableKinds
  <2>3. /\ ~Has(table'[family], "drop") \/ refused' >= 1
        /\ \A g \in Families : g # family => table'[g] = table[g]
        /\ refused = 0
    BY <1>5, <2>1, <2>2, BatchDrops, NoDrops
  <2>4. CASE f = family
    BY <1>5, <2>3, <2>4
  <2>5. CASE f # family
    <3>1. Past(1, f)
      BY <1>1, <1>2, <1>5, <2>5 DEF Past, Families
    <3>2. ~Has(table[f], "drop")
      BY <1>2, <1>5, <2>2, <2>3, <3>1 DEF DropsGo
    <3> QED  BY <1>5, <2>3, <2>5, <3>2
  <2> QED  BY <2>4, <2>5
<1> QED  BY <1>2, <1>3, <1>4, <1>5 DEF DropsGo

LEMMA CreateFamilyExits ==
    ASSUME TablesInv, DescriptorsKept, DropsGo, CreateFamily
    PROVE  DescriptorsKept' /\ DropsGo'
<1> DEFINE t == IF table[family] = NoTable THEN EmptyTable ELSE table[family]
<1>1. PICK ok \in BOOLEAN, failed \in BOOLEAN :
         /\ nl_batch_talk(t, ok)
         /\ failed => ~ok
         /\ g_fd' = ~failed
         /\ \/ failed /\ pc' = "cleanup" /\ family' = "ip"
            \/ ~failed /\ pc' \in {"create", "flush"}
  BY DEF CreateFamily, process_batch_replies, NextFamily, GiveUp, Goto
<1>2. /\ pc = "create" /\ family \in Families /\ table \in [Families -> AnyTable]
      /\ UNCHANGED <<udp_fds, num_udp_fds, capable, exit>> /\ own' \subseteq Families
  BY DEF CreateFamily, TablesInv, LifeTypeOK, AnyTable, daemonVars
<1>3. /\ Rank(pc) = 2 /\ pc' \notin Closed /\ pc' # "cleanup delete"
      /\ pc' = "flush" => Rank(pc') = 3
      /\ pc' = "cleanup" => Rank(pc') = 0
  BY <1>1, <1>2, RankFacts DEF Closed
<1>4. DescriptorsKept'
  BY <1>1, <1>2, <1>3, DescriptorsStay
<1>5. SUFFICES ASSUME MaxRefusals <= 1, capable' PROVE DropsGo'
  BY <1>4 DEF DropsGo
<1>6. Able /\ capable
  BY <1>2, <1>5 DEF Able
<1>7. \A f \in Families : refused = 0 => ~Has(table[f], "drop")
  <2>0. Rank(pc) = 2 /\ 2 > 1
    BY <1>3, SmallNumbers, Zenon
  <2>1. \A f \in Families : Past(1, f)
    BY <2>0 DEF Past
  <2> QED  BY <1>3, <1>5, <1>6, <2>1 DEF DropsGo
<1>8. /\ refused' \in 0..MaxRefusals /\ refused' >= refused
      /\ \A f \in Families : f # family => table'[f] = table[f]
      /\ ok => table'[family] = t
      /\ ~ok => table' = table /\ refused' >= 1 /\ refused < MaxRefusals
  <2>1. t \in AnyTable
    BY <1>2, TableKinds DEF AnyTable
  <2> HIDE DEF t
  <2> QED  BY <1>1, <1>6, <2>1, BatchFacts
<1>9. refused \in 0..MaxRefusals /\ MaxRefusals \in Nat
  BY LifeAssumption DEF TablesInv, LifeTypeOK
<1>10. \A f \in Families : refused' = 0 => ~Has(table'[f], "drop")
  <2> SUFFICES ASSUME NEW f \in Families, refused' = 0 PROVE ~Has(table'[f], "drop")
    OBVIOUS
  <2>1. refused = 0 /\ ok
    BY <1>8, <1>9
  <2>2. CASE f = family
    BY <1>7, <1>8, <2>1, <2>2, NoDrops
  <2>3. CASE f # family
    BY <1>7, <1>8, <2>1, <2>3
  <2> QED  BY <2>2, <2>3
<1>11. \A f \in own' : Wiped(f)' => ~Has(table'[f], "drop")
  <2> SUFFICES ASSUME NEW f \in own', Wiped(f)' PROVE ~Has(table'[f], "drop")
    OBVIOUS
  <2>1. pc' = "cleanup"
    BY <1>3 DEF Wiped, Closed
  <2>2. failed /\ ~ok
    BY <1>1, <2>1
  <2>3. refused = 0 /\ table' = table
    BY <1>5, <1>8, <1>9, <2>2
  <2> QED  BY <1>2, <1>7, <2>3
<1> QED  BY <1>3, <1>10, <1>11 DEF DropsGo

LEMMA CleanupFlushExits ==
    ASSUME TablesInv, DescriptorsKept, DropsGo, CleanupFlush
    PROVE  DescriptorsKept' /\ DropsGo'
<1> DEFINE t == [table[family] EXCEPT !.input = <<>>]
<1>1. /\ pc = "cleanup flush" /\ pc' = "cleanup delete" /\ family' = family /\ family \in Families
      /\ HeedlessBatch(t)
      /\ UNCHANGED <<g_fd, daemonVars, capable, own, exit>> /\ own \subseteq Families
  BY DEF CleanupFlush, HeedlessBatch, TablesInv, LifeTypeOK
<1>2. Rank(pc') = 0 /\ pc \in Closed
  BY <1>1, RankFacts DEF Closed
<1>3. DescriptorsKept'
  BY <1>1, <1>2, DescriptorsStay DEF daemonVars
<1>4. SUFFICES ASSUME MaxRefusals <= 1, capable PROVE DropsGo'
  BY <1>1, <1>3 DEF DropsGo
<1>5. PICK ok \in BOOLEAN : nl_batch_talk(t, ok)
  BY <1>1 DEF HeedlessBatch
<1>6. Able => t \in AnyTable
  <2>1. table[family] \in Tables \/ ~Able
    BY <1>1 DEF Able, TablesInv, LifeTypeOK
  <2>2. PICK w : w = table[family]
    OBVIOUS
  <2>3. t = [w EXCEPT !.input = <<>>]
    BY <2>2
  <2> HIDE DEF t
  <2> QED  BY <2>1, <2>2, <2>3, InputEmptied DEF AnyTable
<1>7. ~Able \/ ~Has(t, "drop")
  <2>1. SUFFICES ASSUME Able PROVE ~Has(t, "drop")
    OBVIOUS
  <2>2. table[family] \in Tables
    BY <1>1, <2>1 DEF Able, TablesInv, LifeTypeOK
  <2>3. t.input = <<>>
    BY <2>2 DEF Tables
  <2> HIDE DEF t
  <2> QED  BY <2>3 DEF Has
<1> HIDE DEF t
<1>8. /\ ~Has(table'[family], "drop") \/ refused' >= 1
      /\ \A f \in Families : f # family => table'[f] = table[f]
  <2>1. CASE Able
    <3>1. ~Has(t, "drop") /\ pc # "create"
      BY <1>1, <1>7, <2>1
    <3> QED  BY <1>4, <1>5, <1>6, <3>1, BatchDrops
  <2>2. CASE ~Able
    <3>1. table[family] = NoTable /\ table' = table
      BY <1>1, <1>4, <1>5, <2>2 DEF Able, nl_batch_talk
    <3> QED  BY <3>1, NoDrops
  <2> QED  BY <2>1, <2>2
<1>9. ASSUME NEW f \in own', Wiped(f)' PROVE ~Has(table'[f], "drop")
  <2>1. f = "ip" /\ family = "ip6"
    BY <1>1, <1>9 DEF Wiped
  <2>2. Wiped(f) /\ f \in own /\ f \in Families
    BY <1>1, <1>9, <2>1 DEF Wiped
  <2>3. ~Has(table[f], "drop")
    BY <1>4, <2>2 DEF DropsGo
  <2> QED  BY <1>8, <2>1, <2>2, <2>3
<1>10. Rank(pc') \notin {1, 2}
  BY <1>2, SmallNumbers, Zenon
<1> QED  BY <1>1, <1>8, <1>9, <1>10 DEF DropsGo

LEMMA CleanupDeleteExits ==
    ASSUME TablesInv, DescriptorsKept, DropsGo, CleanupDelete
    PROVE  DescriptorsKept' /\ DropsGo'
<1>1. /\ pc = "cleanup delete" /\ family \in Families /\ HeedlessBatch(NoTable)
      /\ \/ family = "ip" /\ pc' = "cleanup flush" /\ family' = "ip6"
         \/ family = "ip6" /\ pc' = "cleanup close" /\ family' = "ip"
      /\ UNCHANGED <<g_fd, daemonVars, capable, own, exit>> /\ own \subseteq Families
  BY DEF CleanupDelete, HeedlessBatch, NextFamily, Goto, Families, TablesInv, LifeTypeOK
<1>2. Rank(pc') = 0 /\ pc \in Closed
  BY <1>1, RankFacts DEF Closed
<1>3. DescriptorsKept'
  BY <1>1, <1>2, DescriptorsStay DEF daemonVars
<1>4. SUFFICES ASSUME MaxRefusals <= 1, capable PROVE DropsGo'
  BY <1>1, <1>3 DEF DropsGo
<1>5. PICK ok \in BOOLEAN : nl_batch_talk(NoTable, ok)
  BY <1>1 DEF HeedlessBatch
<1>6. /\ ~Has(table'[family], "drop") \/ (refused = 0 /\ table' = table)
      /\ \A f \in Families : f # family => table'[f] = table[f]
  <2>1. pc # "create" /\ NoTable \in AnyTable
    BY <1>1, TableKinds
  <2> QED  BY <1>4, <1>5, <2>1, BatchDrops, NoDrops
<1>7. family \in own => ~Has(table'[family], "drop")
  <2>1. ASSUME family \in own, refused = 0 PROVE ~Has(table[family], "drop")
    <3>1. ~Has(table[family], "drop") \/ refused >= 1
      BY <1>1, <1>4, <2>1 DEF DropsGo
    <3>2. ~(0 >= 1)
      OBVIOUS
    <3> QED  BY <2>1, <3>1, <3>2, Zenon
  <2> QED  BY <1>6, <2>1
<1>8. ASSUME NEW f \in own', Wiped(f)' PROVE ~Has(table'[f], "drop")
  <2>1. f \in own /\ f \in Families
    BY <1>1, <1>8
  <2>2. CASE f = family
    BY <1>7, <2>1, <2>2
  <2>3. CASE f # family
    <3>1. f = "ip" /\ family = "ip6"
      BY <1>1, <1>8, <2>1, <2>3 DEF Wiped, Families
    <3>2. Wiped(f)
      BY <1>1, <3>1 DEF Wiped
    <3>3. ~Has(table[f], "drop")
      BY <1>4, <2>1, <3>2 DEF DropsGo
    <3> QED  BY <1>6, <2>1, <2>3, <3>3
  <2> QED  BY <2>2, <2>3
<1>9. Rank(pc') \notin {1, 2} /\ pc' # "cleanup delete"
  BY <1>1, <1>2, SmallNumbers, Zenon
<1> QED  BY <1>8, <1>9 DEF DropsGo

LEMMA CloseExits ==
    ASSUME TablesInv, DescriptorsKept, DropsGo, CloseDescriptors \/ Return \/ Die
    PROVE  DescriptorsKept' /\ DropsGo'
<1>1. CASE CloseDescriptors
  <2>1. /\ pc = "cleanup" /\ pc' = IF g_fd THEN "cleanup flush" ELSE "cleanup close"
        /\ family' = "ip" /\ ~epoll_fd' /\ ~signal_fd'
        /\ udp_fds' = udp_fds \ (0..(num_udp_fds - 1))
        /\ UNCHANGED <<table, g_fd, capable, own>>
    BY <1>1 DEF CloseDescriptors, Goto, historyVars
  <2>2. Rank(pc') = 0 /\ Rank(pc') \notin {1, 2} /\ pc' # "cleanup delete"
    BY <2>1, RankFacts, SmallNumbers, Zenon
  <2>3. udp_fds' = {}
    BY <2>1 DEF DescriptorsKept
  <2>4. DescriptorsKept'
    BY <2>1, <2>2, <2>3 DEF DescriptorsKept
  <2>5. \A f : Wiped(f)' => Wiped(f)
    BY <2>1 DEF Wiped
  <2> QED  BY <2>1, <2>2, <2>4, <2>5 DEF DropsGo
<1>2. CASE Return
  <2>1. /\ pc = "cleanup close" /\ pc' = "down"
        /\ UNCHANGED <<table, daemonVars, capable, own>>
    BY <1>2 DEF Return, Goto
  <2>2. Rank(pc') = 0 /\ Rank(pc') \notin {1, 2} /\ pc' # "cleanup delete" /\ pc \in Closed
    BY <2>1, RankFacts, SmallNumbers, Zenon DEF Closed
  <2>3. DescriptorsKept'
    BY <2>1, <2>2, DescriptorsStay DEF daemonVars
  <2>4. \A f : Wiped(f)
    BY <2>1 DEF Wiped
  <2> QED  BY <2>1, <2>2, <2>3, <2>4 DEF DropsGo
<1>3. CASE Die
  <2>1. pc' = "down" /\ exit' = "killed" /\ udp_fds' = {} /\ ~epoll_fd' /\ ~signal_fd'
    BY <1>3 DEF Die, Goto
  <2>2. Rank(pc') = 0 /\ Rank(pc') \notin {1, 2} /\ pc' # "cleanup delete"
    BY <2>1, RankFacts, SmallNumbers, Zenon
  <2>3. DescriptorsKept'
    BY <2>1, <2>2 DEF DescriptorsKept
  <2>4. \A f : ~Wiped(f)'
    BY <2>1 DEF Wiped
  <2> QED  BY <2>2, <2>3, <2>4 DEF DropsGo
<1> QED  BY <1>1, <1>2, <1>3

LEMMA ExitsInitially == LifeInit => DescriptorsKept /\ DropsGo
<1> SUFFICES ASSUME LifeInit PROVE DescriptorsKept /\ DropsGo
  OBVIOUS
<1>1. pc = "down" /\ Rank(pc) = 0 /\ ~capable
  BY RankFacts DEF LifeInit
<1>2. DescriptorsKept
  BY <1>1 DEF LifeInit, DescriptorsKept
<1> QED  BY <1>1, <1>2 DEF DropsGo

LEMMA ExitsStep ==
    ASSUME TablesInv, DescriptorsKept, DropsGo, [LifeNext]_lifeVars
    PROVE  DescriptorsKept' /\ DropsGo'
<1>1. CASE UNCHANGED <<table, pc, family, g_fd, daemonVars, capable, refused, own, exit>>
  <2>1. DescriptorsKept'
    BY <1>1 DEF DescriptorsKept, daemonVars
  <2>2. (\A f : Wiped(f)' = Wiped(f)) /\ (\A f : Past(1, f)' = Past(1, f))
    BY <1>1 DEF Wiped, Past
  <2> QED  BY <1>1, <2>1, <2>2 DEF DropsGo
<1>2. CASE Start
  BY <1>2, StartExits
<1>3. CASE Setup \/ Serve \/ StopOnSignal \/ StopOnError
  BY <1>3, DeleteTableExits, CreateFamilyExits, LateKeeps DEF Setup
<1>4. CASE Cleanup
  BY <1>4, CloseExits, CleanupFlushExits, CleanupDeleteExits DEF Cleanup
<1>5. CASE Crash \/ Terminate
  <2>1. CASE Die
    BY <2>1, CloseExits
  <2>2. CASE ~Die
    BY <1>1, <1>5, <2>2 DEF Crash, Terminate, control, historyVars
  <2> QED  BY <2>1, <2>2
<1>6. CASE UNCHANGED lifeVars
  BY <1>1, <1>6 DEF lifeVars, control, historyVars
<1> QED  BY <1>2, <1>3, <1>4, <1>5, <1>6 DEF LifeNext

-----------------------------------------------------------------------------
(* At every moment the kernel's tables are as complete as the setup        *)
(* (daemon_setup_netlink, src/main.c) has got, with their rules in order,  *)
(* and daemon_cleanup gets at all that the process has opened or made.     *)
THEOREM TablesAsBuilt == LifeSpec => []LifeInv
<1>1. LifeInit => LifeInv
  BY TablesInitially, ExitsInitially DEF LifeInv
<1>2. LifeInv /\ [LifeNext]_lifeVars => LifeInv'
  BY TablesStep, ExitsStep DEF LifeInv
<1> QED  BY <1>1, <1>2, PTL DEF LifeSpec

(* No table ever drops the packets of an open connection, whatever batches *)
(* the kernel refuses and wherever the process dies: each drop rule that   *)
(* daemon_setup_netlink (src/main.c) appends has an established rule       *)
(* before it.                                                              *)
THEOREM ConnectionsSurvive == LifeSpec => []EstablishedSurvives
<1>1. LifeInv => EstablishedSurvives
  <2> SUFFICES ASSUME LifeInv, NEW f \in Heard, Dropped(table[f], "established")
               PROVE  FALSE
    BY DEF EstablishedSurvives
  <2>1. PICK k \in 1..Len(table[f].input) :
           /\ table[f].input[k] = "drop"
           /\ \A j \in 1..(k - 1) : ~Accepts(table[f], j, "established")
    BY DEF Dropped
  <2>2. Follows(table[f], k, "established")
    BY <2>1 DEF LifeInv, TablesInv, ChainsOrdered, DropsLast
  <2>3. PICK j \in 1..(k - 1) : table[f].input[j] = "established"
    BY <2>2 DEF Follows
  <2> QED  BY <2>1, <2>3 DEF Accepts
<1> QED  BY <1>1, TablesAsBuilt, PTL

(* While a daemon serves (daemon_run, src/main.c), a new connection is     *)
(* dropped exactly when its source is not in the allowed_ips chain.        *)
THEOREM ServingGuards == LifeSpec => []GateHolds
<1>1. LifeInv => GateHolds
  <2> SUFFICES ASSUME LifeInv, pc = "serve", NEW f \in Heard, NEW c \in Clients
               PROVE  Dropped(table[f], c) <=> c \notin table[f].allowed
    BY DEF GateHolds
  <2> DEFINE t == table[f]
  <2>1. Past(6, f)
    <3>1. Rank(pc) = 7
      BY RankFacts
    <3> QED  BY <3>1 DEF Past
  <2>2. Has(t, "drop") /\ DropsLast(t)
    BY <2>1 DEF LifeInv, TablesInv, BuiltSoFar, ChainsOrdered
  <2>3. c # "established"
    BY LifeAssumption
  <2> HIDE DEF t
  <2>4. ASSUME c \notin t.allowed PROVE Dropped(t, c)
    BY <2>2, <2>3, <2>4 DEF Has, Dropped, Accepts
  <2>5. ASSUME c \in t.allowed, Dropped(t, c) PROVE FALSE
    <3>1. PICK k \in 1..Len(t.input) :
             t.input[k] = "drop" /\ \A j \in 1..(k - 1) : ~Accepts(t, j, c)
      BY <2>5 DEF Dropped
    <3>2. PICK j \in 1..(k - 1) : t.input[j] = "jump"
      BY <2>2, <3>1 DEF DropsLast, Follows
    <3> QED  BY <2>5, <3>1, <3>2 DEF Accepts
  <2> QED  BY <2>4, <2>5 DEF t
<1> QED  BY <1>1, TablesAsBuilt, PTL

(* If at most one batch is refused to a process, a daemon that serves lets *)
(* nobody in on an earlier process's word: netlink_init and                *)
(* netlink_flush_chain (src/netlink.c) each remove the old grants.         *)
THEOREM FreshStart == ASSUME MaxRefusals <= 1 PROVE LifeSpec => []NoStaleGrants
<1>1. LifeInv => NoStaleGrants
  <2> SUFFICES ASSUME LifeInv, pc = "serve", NEW f \in Heard
               PROVE  table[f].allowed \subseteq granted
    BY DEF NoStaleGrants
  <2>1. Rank(pc) = 7
    BY RankFacts
  <2>2. Past(3, f)
    BY <2>1 DEF Past
  <2> QED  BY <2>2 DEF LifeInv, TablesInv, StaleGrantsGo, Heard
<1> QED  BY <1>1, TablesAsBuilt, PTL

(* If at most one batch is refused to a process, one that returns from     *)
(* daemon_run (src/main.c) with its capability leaves none of its tables   *)
(* with a drop rule: netlink_cleanup (src/netlink.c) empties the input     *)
(* chain before it deletes the table, and a setup that fails before there  *)
(* is a socket to do so has no drop rule yet.                              *)
THEOREM NothingLeftShut == ASSUME MaxRefusals <= 1 PROVE LifeSpec => []ExitOpens
<1>1. LifeInv => ExitOpens
  <2> SUFFICES ASSUME LifeInv, pc = "down", exit = "returned", capable,
                      NEW f \in own, NEW p \in Packets
               PROVE  ~Dropped(table[f], p)
    BY DEF ExitOpens
  <2>1. Wiped(f)
    BY DEF Wiped
  <2>2. ~Has(table[f], "drop")
    BY <2>1 DEF LifeInv, DropsGo
  <2> QED  BY <2>2 DEF Dropped, Has
<1> QED  BY <1>1, TablesAsBuilt, PTL

(* Wherever the setup of daemon_run (src/main.c) stops, and whichever port *)
(* it stops at, daemon_cleanup leaves no descriptor open.                  *)
THEOREM AllClosed == LifeSpec => []DescriptorsClosed
<1>1. LifeInv => DescriptorsClosed
  BY DEF LifeInv, DescriptorsKept, DescriptorsClosed, Closed
<1> QED  BY <1>1, TablesAsBuilt, PTL
=============================================================================
