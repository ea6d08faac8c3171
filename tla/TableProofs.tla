----------------------------- MODULE TableProofs -----------------------------
(***************************************************************************)
(* Proofs about the daemon's two tables of addresses, the rate limiter's   *)
(* and the replay table of token validation, and about what both rest on:  *)
(* the clocks and the lookup in an open-addressing table.  They hold for   *)
(* every number of addresses, table size, drift, step and setting of the   *)
(* options, as long as no address can be displaced from its home slot and  *)
(* replay entries outlive the windows of their counters (AgeSuffices).     *)
(***************************************************************************)
EXTENDS RateLimitHistory, Auth, TLAPS

-----------------------------------------------------------------------------
(* The clocks: the monotonic one never goes back, and the wall clock never *)
(* by more than what is left of MaxBack.                                   *)
LEMMA ClockFacts ==
    ASSUME ClockTypeOK
    PROVE  now \in Nat /\ back \in Nat /\ Mono \in Nat /\ back <= MaxBack
BY ClockAssumption DEF ClockTypeOK, Mono

(* One step of the clocks that time(NULL) and clock_gettime read. *)
LEMMA ClockStep ==
    ASSUME ClockTypeOK, ClockNext
    PROVE  /\ ClockTypeOK'
           /\ Mono <= Mono' /\ Mono \in Nat /\ Mono' \in Nat
           /\ now - (MaxBack - back) <= now' - (MaxBack - back')
<1>1. CASE Tick
  BY <1>1, ClockAssumption DEF ClockTypeOK, Tick, Mono
<1>2. CASE SetBack
  <2>1. PICK d \in 1..(MaxBack - back) : d <= now /\ now' = now - d /\ back' = back + d
    BY <1>2 DEF SetBack
  <2>2. d \in Int /\ 1 <= d /\ d <= MaxBack - back
    BY <2>1, ClockAssumption DEF ClockTypeOK
  <2> QED  BY <2>1, <2>2, ClockAssumption DEF ClockTypeOK, Mono
<1> QED  BY <1>1, <1>2 DEF ClockNext

-----------------------------------------------------------------------------
(* What a lookup in the open-addressing table finds when no address can be *)
(* displaced from its home slot.                                           *)
(* A table: its used entries carry an address. *)
IsTable(t) == \A p \in Slots : t[p].used => t[p].ip \in IPs

(* A walk of ip_hash32's slot starts at the home slot itself. *)
LEMMA PosZero ==
    ASSUME NEW ip \in IPs
    PROVE  Pos(ip, 0) = Hash[ip] /\ Hash[ip] \in Slots
<1> DEFINE h == Hash[ip]
<1>1. h \in Int /\ 0 <= h /\ h < TableSize /\ TableSize \in Int
  BY ProbeAssumption
<1> HIDE DEF h
<1>2. h % TableSize = h
  BY <1>1
<1>3. h + 0 = h
  BY <1>1
<1> QED  BY <1>1, <1>2, <1>3 DEF Pos, Slots, h

(* The lookup loops of src/ratelimit.c and src/auth.c find an address in   *)
(* its home slot or nowhere.                                               *)
LEMMA FoundHome ==
    ASSUME NEW t, AtHome(t), NEW ip \in IPs, NEW p \in Slots
    PROVE  Found(t, ip, p) <=> p = Hash[ip] /\ t[p].used /\ t[p].ip = ip
<1>1. ASSUME Found(t, ip, p) PROVE p = Hash[ip] /\ t[p].used /\ t[p].ip = ip
  BY <1>1 DEF Found, AtHome
<1>2. ASSUME p = Hash[ip], t[p].used, t[p].ip = ip PROVE Found(t, ip, p)
  <2>1. Walks(t, ip, 0)
    BY DEF Walks
  <2>2. 0 \in Slots
    BY ProbeAssumption DEF Slots
  <2> QED  BY <1>2, <2>1, <2>2, PosZero DEF Found
<1> QED  BY <1>1, <1>2

(* The insertion loops put a new address in its home slot or nowhere. *)
LEMMA GapHome ==
    ASSUME NEW t, NoDisplacement, IsTable(t), AtHome(t),
           NEW ip \in IPs, NEW p \in Slots, Gap(t, ip, p)
    PROVE  p = Hash[ip] /\ ~t[p].used
<1>1. PICK n \in Slots : p = Pos(ip, n) /\ Walks(t, ip, n)
  BY DEF Gap
<1>2. CASE n = 0
  BY <1>1, <1>2, PosZero DEF Gap
<1>3. CASE n # 0
  <2> DEFINE o == t[Hash[ip]].ip
  <2>1. 0 \in 0..(n - 1) /\ TableSize # 1
    BY <1>3, ProbeAssumption DEF Slots
  <2>2. t[Hash[ip]].used /\ o # ip
    BY <1>1, <2>1, PosZero DEF Walks
  <2>3. o \in IPs /\ Hash[o] = Hash[ip]
    BY <2>2, PosZero DEF IsTable, AtHome
  <2> QED  BY <2>1, <2>2, <2>3 DEF NoDisplacement, PerfectHash
<1> QED  BY <1>2, <1>3

(* When no two addresses share a home slot, a full table is not an issue. *)
LEMMA RoomForAll ==
    ASSUME NEW t, PerfectHash, IsTable(t), AtHome(t), NEW ip \in IPs
    PROVE  ~NoRoom(t, ip)
<1> DEFINE o == t[Hash[ip]].ip
<1> SUFFICES ASSUME NoRoom(t, ip) PROVE FALSE
  OBVIOUS
<1>1. t[Hash[ip]].used /\ o # ip
  BY PosZero DEF NoRoom
<1>2. o \in IPs /\ Hash[o] = Hash[ip]
  BY <1>1, PosZero DEF IsTable, AtHome
<1> QED  BY <1>1, <1>2 DEF PerfectHash

-----------------------------------------------------------------------------
(* Token validation (src/auth.c).                                          *)
(* Facts on products and quotients. *)
LEMMA MulMono ==
    ASSUME NEW x \in Int, NEW y \in Int, NEW s \in Nat, x <= y
    PROVE  x * s <= y * s
<1>1. (y - x) * s >= 0
  OBVIOUS
<1>2. (y - x) * s = y * s - x * s
  OBVIOUS
<1> QED  BY <1>1, <1>2

LEMMA MulAdd ==
    ASSUME NEW x \in Int, NEW y \in Int, NEW s \in Int
    PROVE  (x + y) * s = x * s + y * s
OBVIOUS

LEMMA DivBounds ==
    ASSUME NEW n \in Nat, NEW s \in Nat \ {0}
    PROVE  /\ n \div s \in Nat
           /\ (n \div s) * s <= n
           /\ n < (n \div s + 1) * s
OBVIOUS

LEMMA DivLower ==
    ASSUME NEW n \in Nat, NEW s \in Nat \ {0}, NEW q \in Int, n >= q * s
    PROVE  n \div s >= q
<1> SUFFICES ASSUME n \div s + 1 <= q PROVE FALSE
  BY DivBounds
<1>1. (n \div s + 1) * s <= q * s
  BY DivBounds, MulMono
<1>2. n < (n \div s + 1) * s /\ (n \div s + 1) * s \in Int /\ q * s \in Int
  BY DivBounds
<1> QED  BY <1>1, <1>2

-----------------------------------------------------------------------------
(* Used slots of g_replay hold whole entries. *)
LEMMA ReplayFacts ==
    ASSUME AuthTypeOK
    PROVE  /\ IsTable(g_replay) /\ DOMAIN g_replay = Slots
           /\ \A p \in Slots : g_replay[p].used => g_replay[p] \in replay_entry
<1>1. \A p \in Slots : g_replay[p] \in replay_entry \cup {UnusedReplay}
  BY DEF AuthTypeOK
<1>2. UnusedReplay.used = FALSE
  BY DEF UnusedReplay
<1>3. \A p \in Slots : g_replay[p].used => g_replay[p] \in replay_entry
  BY <1>1, <1>2
<1> QED  BY <1>3 DEF IsTable, replay_entry, AuthTypeOK

(* auth_seen_before looks at the home slot only. *)
LEMMA SeenHome ==
    ASSUME AuthInv, NEW ip \in IPs, NEW c
    PROVE  auth_seen_before(c, ip) <=> HasReplay(ip) /\ c <= ReplayOf(ip).last_seq
<1>1. Hash[ip] \in Slots /\ AtHome(g_replay)
  BY PosZero DEF AuthInv
<1> QED  BY <1>1, FoundHome DEF auth_seen_before, HasReplay, ReplayOf

(* auth_record_seq writes the home slot of its address, which is free or   *)
(* the address's own.                                                      *)
LEMMA RecordHome ==
    ASSUME NoDisplacement, AuthInv, NEW ip \in IPs, NEW c, auth_record_seq(c, ip)
    PROVE  /\ g_replay' = [g_replay EXCEPT ![Hash[ip]] =
                  [used |-> TRUE, ip |-> ip, last_seq |-> c, last_seen |-> now']]
           /\ HasReplay(ip) \/ ~ReplayOf(ip).used
<1>1. AtHome(g_replay) /\ IsTable(g_replay)
  BY ReplayFacts DEF AuthInv
<1>2. PICK p \in Slots :
         /\ Found(g_replay, ip, p) \/ Gap(g_replay, ip, p)
         /\ g_replay' = [g_replay EXCEPT ![p] =
               [used |-> TRUE, ip |-> ip, last_seq |-> c, last_seen |-> now']]
  BY DEF auth_record_seq
<1>3. CASE Found(g_replay, ip, p)
  <2>1. p = Hash[ip] /\ g_replay[p].used /\ g_replay[p].ip = ip
    BY <1>1, <1>3, FoundHome
  <2> QED  BY <1>2, <2>1 DEF HasReplay, ReplayOf
<1>4. CASE Gap(g_replay, ip, p)
  <2>1. p = Hash[ip] /\ ~g_replay[p].used
    BY <1>1, <1>4, GapHome
  <2> QED  BY <1>2, <2>1 DEF ReplayOf
<1> QED  BY <1>2, <1>3, <1>4

(* Time makes no counter valid again. *)
LEMMA OverStays ==
    ASSUME AuthTypeOK, NEW c \in Nat, Over(c), ClockNext \/ UNCHANGED clockVars
    PROVE  Over(c)'
<1>1. CASE ClockNext
  <2>1. /\ now - (MaxBack - back) <= now' - (MaxBack - back')
        /\ ClockTypeOK /\ ClockTypeOK'
    BY <1>1, ClockStep DEF AuthTypeOK
  <2>2. now - (MaxBack - back) \in Int /\ now' - (MaxBack - back') \in Int
    BY <2>1, ClockAssumption DEF ClockTypeOK
  <2>3. (c + Behind + 1) * Step \in Int
    BY AuthAssumption
  <2> QED  BY <2>1, <2>2, <2>3 DEF Over
<1>2. CASE UNCHANGED clockVars
  BY <1>2 DEF Over, clockVars
<1> QED  BY <1>1, <1>2

(* A counter whose time is over is behind every window. *)
LEMMA OverIsBehind ==
    ASSUME AuthTypeOK, NEW g \in Nat, Over(g), NEW c \in Windows
    PROVE  g < c
<1>1. now \in Nat /\ back \in Nat /\ back <= MaxBack /\ MaxBack \in Nat
  BY ClockFacts, ClockAssumption DEF AuthTypeOK
<1>2. Step \in Nat \ {0} /\ Behind \in Nat /\ Ahead \in Nat
  BY AuthAssumption
<1>3. (g + Behind + 1) * Step \in Int
  BY <1>2
<1>4. now >= (g + Behind + 1) * Step
  BY <1>1, <1>3 DEF Over
<1>5. Current >= g + Behind + 1 /\ Current \in Nat
  BY <1>1, <1>2, <1>4, DivLower, DivBounds DEF Current
<1>6. c \in Int /\ c >= Current - Behind
  BY <1>2, <1>5 DEF Windows
<1> QED  BY <1>2, <1>5, <1>6

(* What auth_validate records is not older than its counter allows. *)
LEMMA WindowsAreRecent ==
    ASSUME AuthTypeOK, NEW c \in Windows
    PROVE  c \in Nat /\ (c - Ahead) * Step <= Mono
<1>1. now \in Nat /\ back \in Nat
  BY ClockFacts DEF AuthTypeOK
<1>2. Step \in Nat \ {0} /\ Behind \in Nat /\ Ahead \in Nat
  BY AuthAssumption
<1>3. Current \in Nat /\ Current * Step <= now
  BY <1>1, <1>2, DivBounds DEF Current
<1>4. c \in Nat /\ c - Ahead \in Int /\ c - Ahead <= Current
  BY <1>2, <1>3 DEF Windows
<1>5. (c - Ahead) * Step <= Current * Step
  BY <1>2, <1>3, <1>4, MulMono
<1>6. (c - Ahead) * Step \in Int /\ Current * Step \in Int
  BY <1>2, <1>3, <1>4
<1> QED  BY <1>1, <1>3, <1>4, <1>5, <1>6 DEF Mono

(* What auth_replay_prune forgets is over. *)
LEMMA StaleIsOver ==
    ASSUME AgeSuffices, AuthTypeOK, NEW e \in replay_entry, NotBackdated(e), Stale(e),
           NEW g \in Nat, g <= e.last_seq
    PROVE  Over(g)
<1> DEFINE q == e.last_seq
           x == (q - Ahead) * Step
           w == (Ahead + Behind + 1) * Step
<1>1. now \in Nat /\ back \in Nat /\ MaxBack \in Nat
  BY ClockFacts, ClockAssumption DEF AuthTypeOK
<1>2. Step \in Nat \ {0} /\ Behind \in Nat /\ Ahead \in Nat /\ MaxAge \in Nat
  BY AuthAssumption
<1>3. q \in Nat /\ e.last_seen \in Nat
  BY DEF replay_entry
<1>4. x <= e.last_seen + back /\ now - e.last_seen > MaxAge /\ MaxAge + 1 >= w + MaxBack
  BY DEF NotBackdated, Stale, AgeSuffices
<1>5. (q + Behind + 1) * Step = x + w
  <2>1. q - Ahead \in Int /\ Ahead + Behind + 1 \in Int
    BY <1>2, <1>3
  <2>2. (q - Ahead) + (Ahead + Behind + 1) = q + Behind + 1
    BY <1>2, <1>3
  <2> QED  BY <1>2, <2>1, <2>2, MulAdd
<1>6. (g + Behind + 1) * Step <= (q + Behind + 1) * Step
  BY <1>2, <1>3, MulMono
<1>7. x \in Int /\ w \in Int /\ (g + Behind + 1) * Step \in Int
  BY <1>2, <1>3
<1> HIDE DEF q, x, w
<1>8. x + w <= now - (MaxBack - back)
  BY <1>1, <1>2, <1>3, <1>4, <1>7
<1> QED  BY <1>1, <1>5, <1>6, <1>7, <1>8 DEF Over

-----------------------------------------------------------------------------
(* The counters accepted from an address are all earlier than one that     *)
(* auth_validate accepts now.                                              *)
LEMMA NewIsLatest ==
    ASSUME AuthInv, NEW ip \in IPs, NEW c \in Windows, ~auth_seen_before(c, ip),
           NEW k \in 1..Len(granted[ip])
    PROVE  granted[ip][k] < c
<1> DEFINE g == granted[ip][k]
<1>1. g \in Nat /\ c \in Nat
  BY WindowsAreRecent DEF AuthInv, AuthTypeOK
<1>2. Spent(ip, g)
  BY DEF AuthInv, GrantedAreSpent
<1>3. CASE HasReplay(ip) /\ g <= ReplayOf(ip).last_seq
  <2>1. ReplayOf(ip).last_seq \in Nat
    BY <1>3, ReplayFacts, PosZero DEF AuthInv, HasReplay, ReplayOf, replay_entry
  <2>2. ~(c <= ReplayOf(ip).last_seq)
    BY <1>3, SeenHome
  <2> QED  BY <1>1, <1>3, <2>1, <2>2
<1>4. CASE Over(g)
  BY <1>1, <1>4, OverIsBehind DEF AuthInv
<1> QED  BY <1>2, <1>3, <1>4 DEF Spent

LEMMA ValidatedStep ==
    ASSUME NoDisplacement, AuthInv, NEW ip \in IPs, NEW token \in Tokens,
           Validated(ip, token)
    PROVE  AuthInv'
<1>1. PICK c \in Windows :
         /\ ~auth_seen_before(c, ip)
         /\ auth_record_seq(c, ip)
         /\ granted' = [granted EXCEPT ![ip] = Append(@, c)]
  BY DEF Validated
<1> DEFINE e == [used |-> TRUE, ip |-> ip, last_seq |-> c, last_seen |-> now']
           n == Len(granted[ip])
<1>2. /\ g_replay' = [g_replay EXCEPT ![Hash[ip]] = e]
      /\ HasReplay(ip) \/ ~ReplayOf(ip).used
  BY <1>1, RecordHome
<1>3. c \in Nat /\ (c - Ahead) * Step <= Mono /\ (c - Ahead) * Step \in Int
  BY WindowsAreRecent, AuthAssumption DEF AuthInv
<1>4. AuthTypeOK /\ AtHome(g_replay) /\ Hash[ip] \in Slots /\ DOMAIN g_replay = Slots
  BY PosZero, ReplayFacts DEF AuthInv
<1>5. ClockNext \/ UNCHANGED clockVars
  BY <1>1 DEF auth_record_seq, LaterReading
<1>6. ClockTypeOK' /\ Mono <= Mono' /\ Mono \in Nat /\ Mono' \in Nat /\ back <= back'
  <2>1. CASE ClockNext
    <3>1. back <= back'
      BY <1>4, <2>1, ClockAssumption DEF AuthTypeOK, ClockTypeOK, ClockNext, Tick, SetBack
    <3> QED  BY <1>4, <2>1, <3>1, ClockStep DEF AuthTypeOK
  <2>2. CASE UNCHANGED clockVars
    <3>1. Mono' = Mono /\ back' = back /\ now' = now
      BY <2>2 DEF clockVars, Mono
    <3>2. Mono \in Nat /\ back \in Nat
      BY <1>4, ClockFacts DEF AuthTypeOK
    <3> QED  BY <1>4, <3>1, <3>2 DEF AuthTypeOK, ClockTypeOK
  <2> QED  BY <1>5, <2>1, <2>2
<1>7. now' \in Nat /\ back' \in Nat /\ back \in Nat
  BY <1>4, <1>6, ClockFacts, ClockAssumption DEF ClockTypeOK, AuthTypeOK
<1>8. e \in replay_entry /\ e.ip = ip /\ e.last_seq = c /\ e.used /\ e.last_seen = now'
  BY <1>3, <1>7 DEF replay_entry
<1> HIDE DEF e
<1>9. granted[ip] \in Seq(Nat) /\ n \in Nat
  BY <1>4 DEF AuthTypeOK
<1>10. /\ granted' \in [IPs -> Seq(Nat)]
       /\ \A q \in IPs : q # ip => granted'[q] = granted[q]
       /\ Len(granted'[ip]) = n + 1
       /\ granted'[ip][n + 1] = c
       /\ \A k \in 1..n : granted'[ip][k] = granted[ip][k] /\ granted[ip][k] \in Nat
  BY <1>1, <1>3, <1>4, <1>9 DEF AuthTypeOK
<1> HIDE DEF n
<1>11. \A k \in 1..(n + 1) : k \in 1..n \/ k = n + 1
  BY <1>9
<1>12. AuthTypeOK'
  BY <1>2, <1>4, <1>6, <1>8, <1>10 DEF AuthTypeOK
<1>13. AtHome(g_replay)'
  BY <1>2, <1>4, <1>8 DEF AtHome
<1>14. HasReplay(ip)' /\ ReplayOf(ip)' = e
  BY <1>2, <1>4, <1>8 DEF HasReplay, ReplayOf
<1>15. \A k \in 1..n : granted[ip][k] < c
  BY <1>1, NewIsLatest DEF n
<1>16. GrantedAreSpent'
  <2>1. ASSUME NEW g \in Nat, g <= c PROVE Spent(ip, g)'
    BY <1>8, <1>14, <2>1 DEF Spent
  <2>2. ASSUME NEW q \in IPs, q # ip, NEW g \in Nat, Spent(q, g) PROVE Spent(q, g)'
    <3>1. CASE HasReplay(q) /\ g <= ReplayOf(q).last_seq
      <4>1. Hash[q] # Hash[ip]
        BY <1>2, <2>2, <3>1 DEF HasReplay, ReplayOf
      <4>2. ReplayOf(q)' = ReplayOf(q)
        BY <1>2, <1>4, <4>1, PosZero DEF ReplayOf
      <4> QED  BY <3>1, <4>2 DEF Spent, HasReplay
    <3>2. CASE Over(g)
      BY <1>4, <1>5, <3>2, OverStays DEF Spent
    <3> QED  BY <2>2, <3>1, <3>2 DEF Spent
  <2>3. ASSUME NEW k \in 1..(n + 1) PROVE granted'[ip][k] \in Nat /\ granted'[ip][k] <= c
    BY <1>3, <1>10, <1>11, <1>15
  <2>4. ASSUME NEW q \in IPs, NEW k \in 1..Len(granted[q])
        PROVE  granted[q][k] \in Nat /\ Spent(q, granted[q][k])
    BY <1>4 DEF AuthInv, AuthTypeOK, GrantedAreSpent
  <2>5. ASSUME NEW q \in IPs, NEW k \in 1..Len(granted'[q])
        PROVE  \E g \in Nat : g = granted'[q][k] /\ Spent(q, g)'
    <3>1. CASE q = ip
      BY <1>10, <2>1, <2>3, <3>1
    <3>2. CASE q # ip
      BY <1>10, <2>2, <2>4, <3>2
    <3> QED  BY <3>1, <3>2
  <2> QED  BY <2>5 DEF GrantedAreSpent
<1>17. EntriesAreRecent'
  <2>1. ASSUME NEW f \in replay_entry, f.last_seq = c, f.last_seen = now'
        PROVE  NotBackdated(f)'
    <3>1. Mono' = f.last_seen + back'
      BY <2>1 DEF Mono
    <3> QED  BY <1>3, <1>6, <2>1, <3>1 DEF NotBackdated
  <2>2. ASSUME NEW f \in replay_entry, NotBackdated(f) PROVE NotBackdated(f)'
    <3>1. f.last_seen \in Nat /\ f.last_seq - Ahead \in Int
      BY AuthAssumption DEF replay_entry
    <3>2. (f.last_seq - Ahead) * Step \in Int
      BY <3>1, AuthAssumption
    <3> QED  BY <1>6, <1>7, <2>2, <3>1, <3>2 DEF NotBackdated
  <2>3. ASSUME NEW p \in Slots, g_replay'[p].used
        PROVE  \E f \in replay_entry : f = g_replay'[p] /\ NotBackdated(f)'
    <3>1. CASE p = Hash[ip]
      BY <1>2, <1>4, <1>8, <2>1, <3>1
    <3>2. CASE p # Hash[ip]
      <4>1. g_replay'[p] = g_replay[p]
        BY <1>2, <1>4, <3>2
      <4>2. g_replay[p] \in replay_entry /\ NotBackdated(g_replay[p])
        BY <1>4, <2>3, <4>1, ReplayFacts DEF AuthInv, EntriesAreRecent
      <4> QED  BY <2>2, <4>1, <4>2
    <3> QED  BY <3>1, <3>2
  <2> QED  BY <2>3 DEF EntriesAreRecent
<1>18. EntriesAreGranted'
  <2>1. \E k \in 1..Len(granted'[ip]) : granted'[ip][k] = e.last_seq
    <3>1. n + 1 \in 1..(n + 1)
      BY <1>9
    <3> QED  BY <1>8, <1>10, <3>1
  <2>2. ASSUME NEW q \in IPs, q # ip, HasReplay(q)'
        PROVE  HasReplay(q) /\ ReplayOf(q)' = ReplayOf(q)
    BY <1>2, <1>4, <1>8, <2>2, PosZero DEF HasReplay, ReplayOf
  <2> QED  BY <1>10, <1>14, <2>1, <2>2 DEF AuthInv, EntriesAreGranted
<1>19. AcceptedOnce'
  <2>1. ASSUME NEW k \in 1..(n + 1), NEW m \in 1..(n + 1), k < m
        PROVE  granted'[ip][k] < granted'[ip][m]
    <3>1. k \in 1..n
      BY <1>9, <2>1
    <3>2. CASE m \in 1..n
      <4>1. \A x, y \in 1..n : x < y => granted[ip][x] < granted[ip][y]
        BY DEF AuthInv, AcceptedOnce, n
      <4> QED  BY <1>10, <2>1, <3>1, <3>2, <4>1
    <3>3. CASE m = n + 1
      BY <1>10, <1>15, <3>1, <3>3
    <3> QED  BY <1>11, <3>2, <3>3
  <2> QED  BY <1>10, <2>1 DEF AuthInv, AcceptedOnce
<1> QED  BY <1>12, <1>13, <1>16, <1>17, <1>18, <1>19 DEF AuthInv

LEMMA PruneStep ==
    ASSUME AgeSuffices, AuthInv, AuthPrune
    PROVE  AuthInv'
<1>1. /\ g_replay' = [p \in Slots |-> IF Stale(g_replay[p]) THEN UnusedReplay ELSE g_replay[p]]
      /\ granted' = granted /\ now' = now /\ back' = back
  BY DEF AuthPrune, auth_replay_prune
<1>2. AuthTypeOK /\ AtHome(g_replay) /\ ~UnusedReplay.used
  BY DEF AuthInv, UnusedReplay
<1>3. \A p \in Slots : g_replay'[p].used => g_replay'[p] = g_replay[p]
  BY <1>1, <1>2
<1>4. AuthTypeOK'
  BY <1>1, <1>2 DEF AuthTypeOK, ClockTypeOK
<1>5. AtHome(g_replay)'
  BY <1>2, <1>3 DEF AtHome
<1>6. GrantedAreSpent'
  <2>1. ASSUME NEW ip \in IPs, NEW g \in Nat, Spent(ip, g) PROVE Spent(ip, g)'
    <3>1. Hash[ip] \in Slots
      BY PosZero
    <3>2. CASE HasReplay(ip) /\ g <= ReplayOf(ip).last_seq /\ ~Stale(ReplayOf(ip))
      <4>1. ReplayOf(ip)' = ReplayOf(ip)
        BY <1>1, <3>1, <3>2 DEF ReplayOf
      <4> QED  BY <3>2, <4>1 DEF Spent, HasReplay
    <3>3. CASE HasReplay(ip) /\ g <= ReplayOf(ip).last_seq /\ Stale(ReplayOf(ip))
      <4>1. ReplayOf(ip) \in replay_entry /\ NotBackdated(ReplayOf(ip))
        BY <1>2, <3>1, <3>3, ReplayFacts DEF AuthInv, EntriesAreRecent, HasReplay, ReplayOf
      <4>2. Over(g)
        BY <1>2, <3>3, <4>1, StaleIsOver
      <4> QED  BY <1>1, <4>2 DEF Spent, Over
    <3>4. CASE Over(g)
      BY <1>1, <3>4 DEF Spent, Over
    <3> QED  BY <2>1, <3>2, <3>3, <3>4 DEF Spent
  <2>2. ASSUME NEW ip \in IPs, NEW k \in 1..Len(granted[ip])
        PROVE  granted[ip][k] \in Nat /\ Spent(ip, granted[ip][k])
    BY <1>2 DEF AuthInv, AuthTypeOK, GrantedAreSpent
  <2>3. ASSUME NEW ip \in IPs, NEW k \in 1..Len(granted'[ip])
        PROVE  \E g \in Nat : g = granted'[ip][k] /\ Spent(ip, g)'
    BY <1>1, <2>1, <2>2
  <2> QED  BY <2>3 DEF GrantedAreSpent
<1>7. EntriesAreRecent'
  <2>1. ASSUME NEW p \in Slots, g_replay'[p].used PROVE NotBackdated(g_replay'[p])
    BY <1>3, <2>1 DEF AuthInv, EntriesAreRecent
  <2> QED  BY <1>1, <2>1 DEF EntriesAreRecent, NotBackdated
<1>8. EntriesAreGranted'
  <2>1. ASSUME NEW ip \in IPs, HasReplay(ip)'
        PROVE  HasReplay(ip) /\ ReplayOf(ip)' = ReplayOf(ip)
    BY <1>3, <2>1, PosZero DEF HasReplay, ReplayOf
  <2> QED  BY <1>1, <2>1 DEF AuthInv, EntriesAreGranted
<1>9. AcceptedOnce'
  BY <1>1 DEF AuthInv, AcceptedOnce
<1> QED  BY <1>4, <1>5, <1>6, <1>7, <1>8, <1>9 DEF AuthInv

LEMMA TimePasses ==
    ASSUME AuthInv, ClockNext, UNCHANGED <<g_replay, granted>>
    PROVE  AuthInv'
<1>1. AuthTypeOK /\ g_replay' = g_replay /\ granted' = granted
  BY DEF AuthInv
<1>2. ClockTypeOK' /\ back <= back' /\ back \in Nat /\ back' \in Nat
  BY <1>1, ClockStep, ClockAssumption
     DEF AuthTypeOK, ClockTypeOK, ClockNext, Tick, SetBack
<1>3. ASSUME NEW ip \in IPs, NEW g \in Nat, Spent(ip, g) PROVE Spent(ip, g)'
  BY <1>1, <1>3, OverStays DEF Spent, HasReplay, ReplayOf
<1>4. ASSUME NEW ip \in IPs, NEW k \in 1..Len(granted[ip])
      PROVE  granted[ip][k] \in Nat /\ Spent(ip, granted[ip][k])
  BY <1>1 DEF AuthInv, AuthTypeOK, GrantedAreSpent
<1>5. ASSUME NEW ip \in IPs, NEW k \in 1..Len(granted'[ip])
      PROVE  \E g \in Nat : g = granted'[ip][k] /\ Spent(ip, g)'
  BY <1>1, <1>3, <1>4
<1>6. ASSUME NEW f \in replay_entry, NotBackdated(f) PROVE NotBackdated(f)'
  <2>1. f.last_seen \in Nat /\ f.last_seq - Ahead \in Int
    BY AuthAssumption DEF replay_entry
  <2>2. (f.last_seq - Ahead) * Step \in Int
    BY <2>1, AuthAssumption
  <2> QED  BY <1>2, <1>6, <2>1, <2>2 DEF NotBackdated
<1>7. ASSUME NEW p \in Slots, g_replay'[p].used
      PROVE  \E f \in replay_entry : f = g_replay'[p] /\ NotBackdated(f)'
  <2>1. g_replay[p] \in replay_entry /\ NotBackdated(g_replay[p])
    BY <1>1, <1>7, ReplayFacts DEF AuthInv, EntriesAreRecent
  <2> QED  BY <1>1, <1>6, <2>1
<1>8. GrantedAreSpent' /\ EntriesAreRecent'
  BY <1>5, <1>7 DEF GrantedAreSpent, EntriesAreRecent
<1>9. EntriesAreGranted' /\ AcceptedOnce' /\ AtHome(g_replay)'
  BY <1>1 DEF AuthInv, EntriesAreGranted, HasReplay, ReplayOf, AcceptedOnce, AtHome
<1>10. AuthTypeOK'
  BY <1>1, <1>2 DEF AuthTypeOK
<1> QED  BY <1>8, <1>9, <1>10 DEF AuthInv

LEMMA AuthInitial == AuthInit => AuthInv
<1> SUFFICES ASSUME AuthInit PROVE AuthInv
  OBVIOUS
<1>1. \A p \in Slots : g_replay[p] = UnusedReplay /\ ~g_replay[p].used
  BY DEF AuthInit, UnusedReplay
<1>2. \A ip \in IPs : granted[ip] = <<>> /\ ~HasReplay(ip)
  BY <1>1, PosZero DEF AuthInit, HasReplay, ReplayOf
<1>3. AuthTypeOK
  BY ClockAssumption DEF AuthInit, AuthTypeOK, ClockInit, ClockTypeOK
<1>4. AtHome(g_replay) /\ EntriesAreRecent /\ EntriesAreGranted
  BY <1>1, <1>2 DEF AtHome, EntriesAreRecent, EntriesAreGranted
<1>5. GrantedAreSpent /\ AcceptedOnce
  BY <1>2 DEF GrantedAreSpent, AcceptedOnce
<1> QED  BY <1>3, <1>4, <1>5 DEF AuthInv

LEMMA AuthStep ==
    ASSUME NoDisplacement, AgeSuffices, AuthInv, [AuthNext]_authVars
    PROVE  AuthInv'
<1>1. CASE UNCHANGED authVars
  BY <1>1
     DEF authVars, AuthInv, AuthTypeOK, ClockTypeOK, AtHome, GrantedAreSpent, Spent, Over,
         HasReplay, ReplayOf, EntriesAreRecent, NotBackdated, EntriesAreGranted, AcceptedOnce
<1> QED  BY <1>1, ValidatedStep, PruneStep, TimePasses DEF AuthNext

(* The replay table of src/auth.c covers every counter ever accepted. *)
THEOREM ReplayTableCovers ==
    ASSUME NoDisplacement, AgeSuffices
    PROVE  AuthSpec => []AuthInv
BY AuthStep, AuthInitial, PTL DEF AuthSpec

(* No token counter is accepted twice from an address, nor after a later   *)
(* one, through prunes and clock changes: for the daemon's own constants   *)
(* (step 30, drift 1, age 3600) as long as the wall clock is set back by   *)
(* no more than 3511 seconds in all.                                       *)
THEOREM NoReplay ==
    ASSUME NoDisplacement, AgeSuffices
    PROVE  AuthSpec => []AcceptedOnce
<1>1. AuthInv => AcceptedOnce
  BY DEF AuthInv
<1> QED  BY <1>1, ReplayTableCovers, PTL

(* auth_validate (src/auth.c) refuses no unambiguous token of a counter    *)
(* later than those its address has used.                                  *)
THEOREM NoFalseRefusal ==
    ASSUME PerfectHash, AgeSuffices
    PROVE  AuthSpec => []FreshTokenAccepted
<1>1. ASSUME AuthInv, NEW ip \in IPs, NEW c \in Windows,
             \A d \in Windows : Hotp[d] = Hotp[c] => d = c,
             \A k \in 1..Len(granted[ip]) : granted[ip][k] < c
      PROVE  Acceptable(ip, Hotp[c])
  <2>1. Matches(Hotp[c], c)
    <3>1. \A d \in Windows : d \in Nat
      BY <1>1, WindowsAreRecent DEF AuthInv
    <3>2. \A d \in Windows : d < c => d # c
      BY <3>1
    <3> QED  BY <1>1, <3>2 DEF Matches
  <2>2. ~NoRoom(g_replay, ip)
    BY <1>1, RoomForAll, ReplayFacts DEF AuthInv
  <2>3. ~auth_seen_before(c, ip)
    <3> SUFFICES ASSUME HasReplay(ip), c <= ReplayOf(ip).last_seq PROVE FALSE
      BY <1>1, SeenHome
    <3>1. PICK k \in 1..Len(granted[ip]) : granted[ip][k] = ReplayOf(ip).last_seq
      BY <1>1 DEF AuthInv, EntriesAreGranted
    <3>2. granted[ip][k] \in Nat /\ c \in Nat /\ granted[ip][k] < c
      BY <1>1, WindowsAreRecent DEF AuthInv, AuthTypeOK
    <3> QED  BY <3>1, <3>2
  <2> QED  BY <2>1, <2>2, <2>3 DEF Acceptable
<1>2. AuthInv => FreshTokenAccepted
  BY <1>1 DEF FreshTokenAccepted
<1>3. NoDisplacement
  BY DEF NoDisplacement
<1> QED  BY <1>2, <1>3, ReplayTableCovers, PTL

-----------------------------------------------------------------------------
(* The rate limiter (src/ratelimit.c).                                     *)
(* Used slots of g_table hold whole entries. *)
LEMMA TableFacts ==
    ASSUME RateTypeOK
    PROVE  /\ IsTable(g_table)
           /\ \A p \in Slots : g_table[p].used => g_table[p] \in rate_entry
<1>1. \A p \in Slots : g_table[p] \in rate_entry \cup {UnusedRate}
  BY DEF RateTypeOK
<1>2. UnusedRate.used = FALSE
  BY DEF UnusedRate
<1>3. \A p \in Slots : g_table[p].used => g_table[p] \in rate_entry
  BY <1>1, <1>2
<1> QED  BY <1>3 DEF IsTable, rate_entry

(* calc_block_duration (src/ratelimit.c) returns a duration. *)
LEMMA DurationType ==
    ASSUME NEW d \in Nat
    PROVE  calc_block_duration(d) \in Nat
BY RateAssumption DEF calc_block_duration

(* A failure leaves the entry whole and its address in place; a new window *)
(* leaves the block alone.                                                 *)
LEMMA AfterFailFacts ==
    ASSUME NEW e \in rate_entry, now \in Nat
    PROVE  /\ AfterFail(e) \in rate_entry
           /\ AfterFail(e).ip = e.ip
           /\ AfterFail(e).used
<1> DEFINE n == e.fail_count + 1
           d == calc_block_duration(e.block_duration)
           u == now + d
           e1 == [e EXCEPT !.fail_count = n]
           e2 == [e EXCEPT !.fail_count = n, !.block_duration = d, !.block_until = u]
<1>1. n \in Nat /\ d \in Nat /\ u \in Nat
  BY DurationType DEF rate_entry
<1>2. WindowReset(e) \in rate_entry /\ WindowReset(e).ip = e.ip /\ WindowReset(e).used
  BY DEF WindowReset, rate_entry
<1>3. Counted(e) = e1 \/ Counted(e) = e2
  BY DEF Counted
<1> HIDE DEF n, d, u
<1>4. /\ e1 \in rate_entry /\ e1.ip = e.ip /\ e1.used
      /\ e2 \in rate_entry /\ e2.ip = e.ip /\ e2.used
  BY <1>1 DEF rate_entry
<1> HIDE DEF e1, e2
<1> QED  BY <1>2, <1>3, <1>4 DEF AfterFail

LEMMA FirstFailFacts ==
    ASSUME NEW ip \in IPs, now \in Nat
    PROVE  FirstFail(ip) \in rate_entry /\ FirstFail(ip).ip = ip /\ FirstFail(ip).used
BY DEF FirstFail, rate_entry

(* rate_limit_check looks at the home slot only. *)
LEMMA LimitedHome ==
    ASSUME NEW t, AtHome(t), NEW ip \in IPs, NEW m
    PROVE  (\E p \in Slots : Found(t, ip, p) /\ m < t[p].block_until)
              <=> LET e == t[Hash[ip]] IN e.used /\ e.ip = ip /\ m < e.block_until
<1>1. Hash[ip] \in Slots
  BY PosZero
<1> QED  BY <1>1, FoundHome

(* rate_limit_fail writes the home slot of its address or nothing. *)
LEMMA FailHome ==
    ASSUME NoDisplacement, RateInv, NEW ip \in IPs, rate_limit_fail(ip)
    PROVE  \/ /\ HasEntry(ip)
              /\ g_table' = [g_table EXCEPT ![Hash[ip]] = AfterFail(@)]
           \/ /\ ~Entry(ip).used
              /\ g_table' = [g_table EXCEPT ![Hash[ip]] = FirstFail(ip)]
           \/ /\ NoRoom(g_table, ip)
              /\ g_table' = g_table
<1>1. IsTable(g_table) /\ AtHome(g_table)
  BY TableFacts DEF RateInv
<1>2. ASSUME NEW p \in Slots, Found(g_table, ip, p),
             g_table' = [g_table EXCEPT ![p] = AfterFail(@)]
      PROVE  HasEntry(ip) /\ g_table' = [g_table EXCEPT ![Hash[ip]] = AfterFail(@)]
  <2>1. p = Hash[ip] /\ g_table[p].used /\ g_table[p].ip = ip
    BY <1>1, <1>2, FoundHome
  <2> QED  BY <1>2, <2>1 DEF HasEntry, Entry
<1>3. ASSUME NEW p \in Slots, Gap(g_table, ip, p),
             g_table' = [g_table EXCEPT ![p] = FirstFail(ip)]
      PROVE  ~Entry(ip).used /\ g_table' = [g_table EXCEPT ![Hash[ip]] = FirstFail(ip)]
  BY <1>1, <1>3, GapHome DEF Entry
<1> QED  BY <1>2, <1>3 DEF rate_limit_fail

(* So does rate_limit_success. *)
LEMMA SuccessHome ==
    ASSUME RateInv, NEW ip \in IPs, rate_limit_success(ip)
    PROVE  \/ /\ HasEntry(ip)
              /\ g_table' = [g_table EXCEPT ![Hash[ip]] = UnusedRate]
           \/ /\ ~HasEntry(ip)
              /\ g_table' = g_table
<1>1. Hash[ip] \in Slots
  BY PosZero
<1>2. AtHome(g_table)
  BY DEF RateInv
<1> QED  BY <1>1, <1>2, FoundHome DEF rate_limit_success, HasEntry, Entry

-----------------------------------------------------------------------------
(* Replacing an address's home slot by one of its entries, or by nothing,  *)
(* keeps the table well-formed.                                            *)
LEMMA UpdateHome ==
    ASSUME RateInv, NEW ip \in IPs, NEW e, NEW t,
           t = [g_table EXCEPT ![Hash[ip]] = e],
           \/ e \in rate_entry /\ e.ip = ip
           \/ e = UnusedRate
    PROVE  t \in [Slots -> rate_entry \cup {UnusedRate}] /\ AtHome(t)
<1>1. Hash[ip] \in Slots
  BY PosZero
<1>2. t \in [Slots -> rate_entry \cup {UnusedRate}]
  BY <1>1 DEF RateInv, RateTypeOK
<1>3. UnusedRate.used = FALSE
  BY DEF UnusedRate
<1>4. ASSUME NEW p \in Slots, t[p].used PROVE p = Hash[t[p].ip]
  BY <1>1, <1>3, <1>4 DEF RateInv, RateTypeOK, AtHome
<1> QED  BY <1>2, <1>4 DEF AtHome

(* One step of the rate limiter. *)
LEMMA RateStep ==
    ASSUME NoDisplacement, RateInv, [RateNext]_rateVars
    PROVE  RateInv'
<1>0. now \in Nat
  BY ClockAssumption DEF RateInv, RateTypeOK, ClockTypeOK
<1>1. ASSUME NEW ip \in IPs, PacketRefused(ip) PROVE RateInv'
  <2>1. Entry(ip).used => Entry(ip) \in rate_entry
    BY TableFacts, PosZero DEF RateInv, Entry
  <2>2. rate_limit_fail(ip) /\ UNCHANGED clockVars
    BY <1>1 DEF PacketRefused
  <2>3. CASE HasEntry(ip) /\ g_table' = [g_table EXCEPT ![Hash[ip]] = AfterFail(@)]
    <3>1. AfterFail(Entry(ip)) \in rate_entry /\ AfterFail(Entry(ip)).ip = ip
      BY <1>0, <2>1, <2>3, AfterFailFacts DEF HasEntry
    <3>2. g_table' = [g_table EXCEPT ![Hash[ip]] = AfterFail(Entry(ip))]
      BY <2>3 DEF Entry
    <3> QED  BY <2>2, <3>1, <3>2, UpdateHome DEF RateInv, RateTypeOK, ClockTypeOK, clockVars
  <2>4. CASE ~Entry(ip).used /\ g_table' = [g_table EXCEPT ![Hash[ip]] = FirstFail(ip)]
    BY <1>0, <2>2, <2>4, FirstFailFacts, UpdateHome
       DEF RateInv, RateTypeOK, ClockTypeOK, clockVars
  <2>5. CASE g_table' = g_table
    BY <2>2, <2>5 DEF RateInv, RateTypeOK, ClockTypeOK, clockVars, AtHome
  <2> QED  BY <2>2, <2>3, <2>4, <2>5, FailHome
<1>2. ASSUME NEW ip \in IPs, PacketAccepted(ip) PROVE RateInv'
  <2>1. rate_limit_success(ip) /\ UNCHANGED clockVars
    BY <1>2 DEF PacketAccepted
  <2>2. CASE g_table' = [g_table EXCEPT ![Hash[ip]] = UnusedRate]
    BY <2>1, <2>2, UpdateHome DEF RateInv, RateTypeOK, ClockTypeOK, clockVars
  <2>3. CASE g_table' = g_table
    BY <2>1, <2>3 DEF RateInv, RateTypeOK, ClockTypeOK, clockVars, AtHome
  <2> QED  BY <2>1, <2>2, <2>3, SuccessHome
<1>3. ASSUME ClockNext, UNCHANGED g_table PROVE RateInv'
  <2>1. ClockTypeOK'
    BY <1>3, ClockStep DEF RateInv, RateTypeOK
  <2> QED  BY <1>3, <2>1 DEF RateInv, RateTypeOK, AtHome
<1>4. CASE UNCHANGED rateVars
  BY <1>4 DEF rateVars, RateInv, RateTypeOK, ClockTypeOK, AtHome
<1> QED  BY <1>1, <1>2, <1>3, <1>4 DEF RateNext

LEMMA RateInitial == RateInit => RateInv
<1> SUFFICES ASSUME RateInit PROVE RateInv
  OBVIOUS
<1>1. g_table \in [Slots -> rate_entry \cup {UnusedRate}] /\ \A p \in Slots : ~g_table[p].used
  BY DEF RateInit, UnusedRate
<1> QED  BY <1>1, ClockAssumption DEF RateInv, RateTypeOK, AtHome, RateInit, ClockInit, ClockTypeOK

(* The table of src/ratelimit.c stays well-formed, every entry in the home *)
(* slot of its address.                                                    *)
THEOREM TableInvariant ==
    ASSUME NoDisplacement
    PROVE  RateSpec => []RateInv
<1>1. RateInv /\ [RateNext]_rateVars => RateInv'
  BY RateStep
<1> QED  BY <1>1, RateInitial, PTL DEF RateSpec
-----------------------------------------------------------------------------
(* What an address that is on record sees of another address's packet:     *)
(* nothing.                                                                *)
LEMMA OthersUntouched ==
    ASSUME NoDisplacement, RateInv, NEW ip \in IPs, HasEntry(ip),
           NEW q \in IPs \ {ip}, rate_limit_fail(q) \/ rate_limit_success(q)
    PROVE  g_table'[Hash[ip]] = Entry(ip)
<1>1. Hash[ip] \in Slots /\ Hash[q] \in Slots /\ DOMAIN g_table = Slots
  BY PosZero DEF RateInv, RateTypeOK
<1>2. Hash[q] = Hash[ip] => Entry(q).used /\ ~HasEntry(q)
  BY DEF HasEntry, Entry
<1>3. CASE rate_limit_fail(q)
  BY <1>1, <1>2, <1>3, FailHome DEF Entry, HasEntry
<1>4. CASE rate_limit_success(q)
  BY <1>1, <1>2, <1>4, SuccessHome DEF Entry, HasEntry
<1> QED  BY <1>3, <1>4

LEMMA BlockStandsStep ==
    ASSUME NoDisplacement, RateInv, RateInv', [RateNext]_rateVars,
           NEW ip \in IPs, rate_limited(ip), ~rate_limited(ip)'
    PROVE  now' > now
<1>1. HasEntry(ip) /\ now < Entry(ip).block_until
  BY LimitedHome DEF rate_limited, RateInv, HasEntry, Entry
<1>2. ~(HasEntry(ip)' /\ now' < Entry(ip)'.block_until)
  BY LimitedHome DEF rate_limited, RateInv, HasEntry, Entry
<1>3. CASE \E q \in IPs : PacketRefused(q) \/ PacketAccepted(q)
  <2>1. PICK q \in IPs : PacketRefused(q) \/ PacketAccepted(q)
    BY <1>3
  <2>2. q # ip /\ (rate_limit_fail(q) \/ rate_limit_success(q)) /\ now' = now
    BY <2>1 DEF PacketRefused, PacketAccepted, clockVars
  <2>3. g_table'[Hash[ip]] = Entry(ip)
    BY <1>1, <2>2, OthersUntouched
  <2> QED  BY <1>1, <1>2, <2>2, <2>3 DEF HasEntry, Entry
<1>4. CASE ClockNext /\ UNCHANGED g_table
  <2>1. Entry(ip).block_until \in Nat
    BY <1>1, TableFacts, PosZero DEF RateInv, HasEntry, Entry, rate_entry
  <2>2. now \in Int /\ now' \in Int
    BY ClockAssumption DEF RateInv, RateTypeOK, ClockTypeOK
  <2>3. ~(now' < Entry(ip).block_until)
    BY <1>1, <1>2, <1>4 DEF HasEntry, Entry
  <2> QED  BY <1>1, <2>1, <2>2, <2>3
<1>5. CASE UNCHANGED rateVars
  BY <1>1, <1>2, <1>5 DEF rateVars, HasEntry, Entry
<1> QED  BY <1>3, <1>4, <1>5 DEF RateNext

(* Nothing but the passing of time lifts a block of src/ratelimit.c, as    *)
(* long as no two addresses in use share a home slot.                      *)
THEOREM BlocksStand ==
    ASSUME NoDisplacement
    PROVE  RateSpec => BlockStands
<1>1. RateInv /\ RateInv' /\ [RateNext]_rateVars
        => [\A ip \in IPs : rate_limited(ip) /\ ~rate_limited(ip)' => now' > now]_rateVars
  BY BlockStandsStep
<1> QED  BY <1>1, TableInvariant, PTL DEF RateSpec, BlockStands
-----------------------------------------------------------------------------
(* Nor does another address's packet give an address an entry. *)
LEMMA OthersGainNothing ==
    ASSUME NoDisplacement, RateInv, NEW ip \in IPs, HasEntry(ip)',
           NEW q \in IPs \ {ip}, rate_limit_fail(q) \/ rate_limit_success(q)
    PROVE  HasEntry(ip) /\ Entry(ip)' = Entry(ip)
<1>1. Hash[ip] \in Slots /\ Hash[q] \in Slots /\ DOMAIN g_table = Slots
  BY PosZero DEF RateInv, RateTypeOK
<1>2. now \in Nat
  BY ClockAssumption DEF RateInv, RateTypeOK, ClockTypeOK
<1>3. HasEntry(q) => AfterFail(Entry(q)).ip = q
  BY <1>1, <1>2, AfterFailFacts, TableFacts DEF RateInv, HasEntry, Entry
<1>4. FirstFail(q).ip = q /\ ~UnusedRate.used
  BY DEF FirstFail, UnusedRate
<1>5. CASE rate_limit_fail(q)
  BY <1>1, <1>3, <1>4, <1>5, FailHome DEF Entry, HasEntry
<1>6. CASE rate_limit_success(q)
  BY <1>1, <1>4, <1>6, SuccessHome DEF Entry, HasEntry
<1> QED  BY <1>5, <1>6

(* A failure adds to its address's history and to no other. *)
LEMMA AppendFacts ==
    ASSUME HistInv, NEW q \in IPs, fails' = [fails EXCEPT ![q] = Append(@, Mono)]
    PROVE  /\ fails' \in [IPs -> Seq(Nat)]
           /\ \A ip \in IPs : ip # q => fails'[ip] = fails[ip]
           /\ Len(fails'[q]) = Len(fails[q]) + 1
           /\ fails'[q][Len(fails[q]) + 1] = Mono
           /\ \A k \in 1..Len(fails[q]) : fails'[q][k] = fails[q][k]
<1>1. fails[q] \in Seq(Nat) /\ Mono \in Nat
  BY ClockAssumption DEF HistInv, HistTypeOK, RateTypeOK, ClockTypeOK, Mono
<1>2. fails'[q] = Append(fails[q], Mono)
  BY DEF HistInv, HistTypeOK
<1> QED  BY <1>1, <1>2 DEF HistInv, HistTypeOK

LEMMA OrderedStep ==
    ASSUME HistInv, [HistNext]_histVars, RateInv'
    PROVE  fails' \in [IPs -> Seq(Nat)] /\ FailsOrdered'
<1>0. now \in Nat /\ back \in Nat
  BY ClockAssumption DEF HistInv, HistTypeOK, RateTypeOK, RateInv, ClockTypeOK
<1>1. fails \in [IPs -> Seq(Nat)] /\ FailsOrdered
  BY DEF HistInv, HistTypeOK
<1>2. ASSUME NEW q \in IPs, HistRefused(q)
      PROVE  fails' \in [IPs -> Seq(Nat)] /\ FailsOrdered'
  <2>1. fails' = [fails EXCEPT ![q] = Append(@, Mono)] /\ now' = now /\ back' = back
    BY <1>2 DEF HistRefused, PacketRefused, clockVars
  <2>2. fails' \in [IPs -> Seq(Nat)]
    BY <2>1, AppendFacts
  <2>3. ASSUME NEW ip \in IPs, ip # q PROVE Ordered(fails'[ip], Mono)
    BY <1>1, <2>1, <2>3, AppendFacts DEF FailsOrdered
  <2>4. Ordered(fails'[q], Mono)
    <3> DEFINE n == Len(fails[q])
    <3>1. n \in Nat /\ Mono \in Nat
      BY <1>0, <1>1 DEF Mono
    <3>2. \A k \in 1..n : fails'[q][k] = fails[q][k] /\ fails[q][k] \in Nat
      BY <1>1, <2>1, AppendFacts
    <3>3. Ordered(fails[q], Mono)
      BY <1>1 DEF FailsOrdered
    <3>4. Len(fails'[q]) = n + 1 /\ fails'[q][n + 1] = Mono
      BY <2>1, AppendFacts
    <3> HIDE DEF n
    <3>5. \A k \in 1..(n + 1) : k \in 1..n \/ k = n + 1
      BY <3>1
    <3>6. \A k \in 1..n : fails[q][k] <= Mono
      BY <3>3 DEF Ordered, n
    <3>7. \A j, k \in 1..n : j <= k => fails[q][j] <= fails[q][k]
      BY <3>3 DEF Ordered, n
    <3>8. ASSUME NEW j \in 1..(n + 1), NEW k \in 1..(n + 1), j <= k
          PROVE  fails'[q][j] <= fails'[q][k]
      BY <3>1, <3>2, <3>4, <3>5, <3>6, <3>7, <3>8
    <3>9. ASSUME NEW k \in 1..(n + 1) PROVE fails'[q][k] <= Mono
      <4>1. CASE k \in 1..n
        BY <4>1, <3>2, <3>6
      <4>2. CASE k = n + 1
        BY <4>2, <3>1, <3>4
      <4> QED  BY <3>5, <4>1, <4>2
    <3> QED  BY <3>4, <3>8, <3>9 DEF Ordered
  <2>5. Mono' = Mono
    BY <2>1 DEF Mono
  <2> QED  BY <2>2, <2>3, <2>4, <2>5 DEF FailsOrdered
<1>3. ASSUME NEW q \in IPs, HistAccepted(q)
      PROVE  fails' \in [IPs -> Seq(Nat)] /\ FailsOrdered'
  <2>1. fails' = [fails EXCEPT ![q] = <<>>] /\ Mono' = Mono
    BY <1>3 DEF HistAccepted, PacketAccepted, clockVars, Mono
  <2>2. fails' \in [IPs -> Seq(Nat)]
    BY <1>1, <2>1
  <2>3. ASSUME NEW ip \in IPs PROVE Ordered(fails'[ip], Mono)
    BY <1>1, <2>1 DEF FailsOrdered, Ordered
  <2> QED  BY <2>1, <2>2, <2>3 DEF FailsOrdered
<1>4. ASSUME ClockNext, UNCHANGED fails
      PROVE  fails' \in [IPs -> Seq(Nat)] /\ FailsOrdered'
  <2>1. Mono <= Mono' /\ Mono \in Nat /\ Mono' \in Nat
    BY <1>4, ClockStep DEF HistInv, HistTypeOK, RateTypeOK
  <2>2. ASSUME NEW ip \in IPs PROVE Ordered(fails[ip], Mono')
    <3>1. Ordered(fails[ip], Mono) /\ \A k \in 1..Len(fails[ip]) : fails[ip][k] \in Nat
      BY <1>1 DEF FailsOrdered
    <3> QED  BY <2>1, <3>1 DEF Ordered
  <2> QED  BY <1>1, <1>4, <2>2 DEF FailsOrdered
<1>5. CASE UNCHANGED histVars
  BY <1>1, <1>5 DEF histVars, FailsOrdered, Mono
<1> QED  BY <1>2, <1>3, <1>4, <1>5 DEF HistNext

LEMMA CountedStep ==
    ASSUME NoDisplacement, HistInv, [HistNext]_histVars
    PROVE  FailsCounted'
<1>0. RateInv /\ now \in Nat /\ back \in Nat /\ Mono = now + back
  BY ClockFacts DEF HistInv, RateInv, RateTypeOK, Mono
<1>1. ASSUME NEW ip \in IPs, HasEntry(ip), fails'[ip] = fails[ip], Entry(ip)' = Entry(ip)
      PROVE  CountedFor(ip)'
  BY <1>1 DEF HistInv, FailsCounted, CountedFor
<1>2. ASSUME NEW q \in IPs, HistRefused(q), NEW ip \in IPs, HasEntry(ip)'
      PROVE  CountedFor(ip)'
  <2>1. rate_limit_fail(q) /\ fails' = [fails EXCEPT ![q] = Append(@, Mono)]
    BY <1>2 DEF HistRefused, PacketRefused
  <2>2. CASE ip # q
    BY <1>0, <1>1, <1>2, <2>1, <2>2, AppendFacts, OthersGainNothing
  <2>3. CASE ip = q
    <3> DEFINE n == Len(fails[ip])
               e == Entry(ip)
    <3>1. n \in Nat /\ Len(fails'[ip]) = n + 1 /\ fails'[ip][n + 1] = Mono
      BY <2>1, <2>3, AppendFacts DEF HistInv, HistTypeOK
    <3>2. Hash[ip] \in Slots /\ DOMAIN g_table = Slots
      BY <1>0, PosZero DEF RateInv, RateTypeOK
    <3>3. ASSUME e.used, e.ip = ip, Entry(ip)' = AfterFail(e)
          PROVE  CountedFor(ip)'
      <4>1. e \in rate_entry
        BY <1>0, <3>2, <3>3, TableFacts DEF Entry, RateInv
      <4>2. e.fail_count \in 1..n /\ e.first_fail <= fails[ip][n - e.fail_count + 1]
        BY <3>3 DEF HistInv, FailsCounted, CountedFor, HasEntry
      <4>3. CASE AfterFail(e) = WindowReset(e)
        <5>1. Entry(ip)'.fail_count = 1 /\ Entry(ip)'.first_fail = now
          BY <3>3, <4>1, <4>3 DEF WindowReset, rate_entry
        <5> QED  BY <1>0, <3>1, <5>1 DEF CountedFor
      <4>4. CASE AfterFail(e) = Counted(e)
        <5>1. Entry(ip)'.fail_count = e.fail_count + 1 /\ Entry(ip)'.first_fail = e.first_fail
          BY <3>3, <4>1, <4>4 DEF Counted, rate_entry
        <5>2. n - e.fail_count + 1 \in 1..n
          BY <3>1, <4>2
        <5>3. fails'[ip][n - e.fail_count + 1] = fails[ip][n - e.fail_count + 1]
          BY <2>1, <2>3, <5>2, AppendFacts
        <5>4. (n + 1) - (e.fail_count + 1) + 1 = n - e.fail_count + 1
              /\ e.fail_count + 1 \in 1..(n + 1)
          BY <3>1, <4>2
        <5> QED  BY <3>1, <4>2, <5>1, <5>3, <5>4 DEF CountedFor
      <4> QED  BY <4>3, <4>4 DEF AfterFail
    <3>4. ASSUME Entry(ip)' = FirstFail(ip) PROVE CountedFor(ip)'
      <4>1. Entry(ip)'.fail_count = 1 /\ Entry(ip)'.first_fail = now
        BY <3>4 DEF FirstFail
      <4> QED  BY <1>0, <3>1, <4>1 DEF CountedFor
    <3>5. ASSUME NoRoom(g_table, ip), g_table' = g_table PROVE FALSE
      BY <1>2, <3>2, <3>5 DEF NoRoom, HasEntry, Entry
    <3>6. \/ e.used /\ e.ip = ip /\ Entry(ip)' = AfterFail(e)
          \/ Entry(ip)' = FirstFail(ip)
          \/ NoRoom(g_table, ip) /\ g_table' = g_table
      BY <1>0, <2>1, <2>3, <3>2, FailHome DEF HasEntry, Entry
    <3> QED  BY <3>3, <3>4, <3>5, <3>6
  <2> QED  BY <2>2, <2>3
<1>3. ASSUME NEW q \in IPs, HistAccepted(q), NEW ip \in IPs, HasEntry(ip)'
      PROVE  CountedFor(ip)'
  <2>1. rate_limit_success(q) /\ fails' = [fails EXCEPT ![q] = <<>>]
    BY <1>3 DEF HistAccepted, PacketAccepted
  <2>2. CASE ip # q
    <3>1. fails'[ip] = fails[ip]
      BY <2>1, <2>2 DEF HistInv, HistTypeOK
    <3> QED  BY <1>0, <1>1, <1>3, <2>1, <2>2, <3>1, OthersGainNothing
  <2>3. CASE ip = q
    <3>1. Hash[ip] \in Slots /\ DOMAIN g_table = Slots /\ ~UnusedRate.used
      BY <1>0, PosZero DEF RateInv, RateTypeOK, UnusedRate
    <3> QED  BY <1>0, <1>3, <2>1, <2>3, <3>1, SuccessHome DEF HasEntry, Entry
  <2> QED  BY <2>2, <2>3
<1>4. ASSUME UNCHANGED <<g_table, fails>> PROVE FailsCounted'
  BY <1>4 DEF HistInv, FailsCounted, CountedFor, HasEntry, Entry
<1> QED  BY <1>2, <1>3, <1>4 DEF HistNext, histVars, FailsCounted

(* The history rides along with the rate limiter's own steps. *)
LEMMA HistImplementsRate ==
    ASSUME [HistNext]_histVars
    PROVE  [RateNext]_rateVars
BY DEF HistNext, HistRefused, HistAccepted, RateNext, histVars, rateVars

LEMMA HistStep ==
    ASSUME NoDisplacement, HistInv, [HistNext]_histVars
    PROVE  HistInv'
<1>1. RateInv'
  BY HistImplementsRate, RateStep DEF HistInv
<1>2. fails' \in [IPs -> Seq(Nat)] /\ FailsOrdered'
  BY <1>1, OrderedStep
<1>3. FailsCounted'
  BY CountedStep
<1> QED  BY <1>1, <1>2, <1>3 DEF HistInv, HistTypeOK, RateInv

LEMMA HistInitial == HistInit => HistInv
<1> SUFFICES ASSUME HistInit PROVE HistInv
  OBVIOUS
<1>1. RateInv
  BY RateInitial DEF HistInit
<1>2. \A ip \in IPs : ~HasEntry(ip)
  BY PosZero DEF HistInit, RateInit, HasEntry, Entry, UnusedRate
<1>3. fails = [ip \in IPs |-> <<>>]
  BY DEF HistInit
<1>4. fails \in [IPs -> Seq(Nat)] /\ FailsOrdered
  BY <1>3 DEF FailsOrdered, Ordered
<1> QED  BY <1>1, <1>2, <1>4 DEF HistInv, HistTypeOK, RateInv, FailsCounted

(* The table of src/ratelimit.c agrees with what the addresses really did: *)
(* its counts and window starts stand for actual failures.                 *)
THEOREM TableAgreesWithHistory ==
    ASSUME NoDisplacement
    PROVE  HistSpec => []HistInv
<1>1. HistInv /\ [HistNext]_histVars => HistInv'
  BY HistStep
<1> QED  BY <1>1, HistInitial, PTL DEF HistSpec

-----------------------------------------------------------------------------
(* A block starts in one place only: the counting branch of                *)
(* rate_limit_fail, for the address that failed.                           *)
LEMMA BlockStart ==
    ASSUME NoDisplacement, HistInv, HistInv', [HistNext]_histVars, NEW ip \in IPs,
           ~rate_limited(ip), rate_limited(ip)', now' = now
    PROVE  /\ HistRefused(ip) /\ HasEntry(ip)
           /\ Entry(ip).fail_count + 1 >= max_fails
           /\ now - Entry(ip).first_fail <= window
<1>0. RateInv /\ RateInv' /\ now \in Nat /\ Hash[ip] \in Slots /\ DOMAIN g_table = Slots
  BY ClockFacts, PosZero DEF HistInv, RateInv, RateTypeOK
<1>1. ~(HasEntry(ip) /\ now < Entry(ip).block_until)
  BY <1>0, LimitedHome DEF rate_limited, RateInv, HasEntry, Entry
<1>2. HasEntry(ip)' /\ now < Entry(ip)'.block_until
  BY <1>0, LimitedHome DEF rate_limited, RateInv, HasEntry, Entry
<1>3. ASSUME NEW q \in IPs \ {ip}, HistRefused(q) \/ HistAccepted(q) PROVE FALSE
  <2>1. rate_limit_fail(q) \/ rate_limit_success(q)
    BY <1>3 DEF HistRefused, HistAccepted, PacketRefused, PacketAccepted
  <2> QED  BY <1>0, <1>1, <1>2, <2>1, OthersGainNothing
<1>4. ASSUME HistAccepted(ip) PROVE FALSE
  <2>1. rate_limit_success(ip) /\ ~UnusedRate.used
    BY <1>4 DEF HistAccepted, PacketAccepted, UnusedRate
  <2> QED  BY <1>0, <1>1, <1>2, <2>1, SuccessHome DEF HasEntry, Entry
<1>5. ASSUME g_table' = g_table PROVE FALSE
  BY <1>1, <1>2, <1>5 DEF HasEntry, Entry
<1>6. ASSUME HistRefused(ip)
      PROVE  /\ HasEntry(ip) /\ Entry(ip).fail_count + 1 >= max_fails
             /\ now - Entry(ip).first_fail <= window
  <2> DEFINE e == Entry(ip)
  <2>1. \/ HasEntry(ip) /\ Entry(ip)' = AfterFail(e)
        \/ Entry(ip)' = FirstFail(ip)
    <3>1. rate_limit_fail(ip)
      BY <1>6 DEF HistRefused, PacketRefused
    <3> QED  BY <1>0, <1>5, <3>1, FailHome DEF Entry
  <2>2. HasEntry(ip) /\ Entry(ip)' = AfterFail(e)
    <3>1. FirstFail(ip).block_until = 0
      BY DEF FirstFail
    <3> QED  BY <1>0, <1>2, <2>1, <3>1
  <2>3. e \in rate_entry
    BY <1>0, <2>2, TableFacts DEF RateInv, HasEntry, Entry
  <2>4. ~(now - e.first_fail > window)
    <3>1. WindowReset(e).block_until = e.block_until
      BY <2>3 DEF WindowReset, rate_entry
    <3> QED  BY <1>1, <1>2, <2>2, <3>1 DEF AfterFail
  <2>5. e.fail_count + 1 >= max_fails
    <3>1. ~(e.fail_count + 1 >= max_fails) => Counted(e).block_until = e.block_until
      BY <2>3 DEF Counted, rate_entry
    <3> QED  BY <1>1, <1>2, <2>2, <2>4, <3>1 DEF AfterFail
  <2>6. now - e.first_fail <= window
    BY <1>0, <2>3, <2>4, RateAssumption DEF rate_entry
  <2> QED  BY <2>2, <2>5, <2>6
<1> QED  BY <1>3, <1>4, <1>5, <1>6 DEF HistNext, histVars

LEMMA OffendersStep ==
    ASSUME NoDisplacement, HistInv, HistInv', [HistNext]_histVars, NEW ip \in IPs,
           ~rate_limited(ip), rate_limited(ip)', now' = now
    PROVE  LET n == Len(fails'[ip])
           IN  /\ n >= max_fails
               /\ Mono - fails'[ip][n - max_fails + 1] <= window + back
<1> DEFINE n == Len(fails[ip])
           e == Entry(ip)
           k == n - e.fail_count + 1
           m == (n + 1) - max_fails + 1
<1>1. HistRefused(ip) /\ HasEntry(ip) /\ e.fail_count + 1 >= max_fails
      /\ now - e.first_fail <= window
  BY BlockStart
<1>2. e \in rate_entry
  BY <1>1, PosZero, TableFacts DEF HistInv, HistTypeOK, HasEntry, Entry
<1>3. e.fail_count \in 1..n /\ e.first_fail <= fails[ip][k]
  BY <1>1 DEF HistInv, FailsCounted, CountedFor
<1>4. fails' = [fails EXCEPT ![ip] = Append(@, Mono)]
  BY <1>1 DEF HistRefused
<1>5. n \in Nat /\ Len(fails'[ip]) = n + 1
  BY <1>4, AppendFacts DEF HistInv, HistTypeOK
<1>6. k \in 1..n /\ m \in 1..(n + 1) /\ k <= m /\ n + 1 >= max_fails
  <2> DEFINE c == e.fail_count
  <2>1. c \in 1..n /\ c + 1 >= max_fails /\ n \in Nat /\ max_fails \in Nat \ {0}
    BY <1>1, <1>3, <1>5, RateAssumption
  <2> HIDE DEF c, n
  <2>2. n - c + 1 \in 1..n /\ (n + 1) - max_fails + 1 \in 1..(n + 1)
    BY <2>1
  <2>3. n - c + 1 <= (n + 1) - max_fails + 1 /\ n + 1 >= max_fails
    BY <2>1
  <2> QED  BY <2>2, <2>3 DEF c
<1>7. fails'[ip][k] = fails[ip][k]
  BY <1>4, <1>6, AppendFacts
<1>8. fails'[ip][k] <= fails'[ip][m]
  <2>1. k \in 1..Len(fails'[ip]) /\ m \in 1..Len(fails'[ip])
    BY <1>5, <1>6
  <2> QED  BY <1>6, <2>1 DEF HistInv, FailsOrdered, Ordered
<1>9. fails'[ip][m] \in Nat /\ fails'[ip][k] \in Nat
  <2>1. fails'[ip] \in Seq(Nat) /\ k \in 1..Len(fails'[ip]) /\ m \in 1..Len(fails'[ip])
    <3>1. fails'[ip] \in Seq(Nat)
      BY <1>4, AppendFacts
    <3>2. k \in 1..(n + 1)
      BY <1>5, <1>6
    <3> QED  BY <1>5, <1>6, <3>1, <3>2
  <2> HIDE DEF k, m
  <2> QED  BY <2>1
<1>10. now \in Nat /\ back \in Nat /\ Mono = now + back /\ e.first_fail \in Nat
       /\ max_fails \in Nat /\ window \in Nat
  BY <1>2, ClockFacts, RateAssumption DEF HistInv, HistTypeOK, RateTypeOK, Mono, rate_entry
<1> HIDE DEF n, e, k, m
<1>11. Mono - fails'[ip][m] <= window + back
  BY <1>1, <1>3, <1>7, <1>8, <1>9, <1>10
<1> QED  BY <1>5, <1>6, <1>11 DEF m

(* rate_limit_fail (src/ratelimit.c) blocks only addresses that failed     *)
(* max_fails times within the window, for every table and every setting.   *)
THEOREM OnlyOffendersAreBlocked ==
    ASSUME NoDisplacement
    PROVE  HistSpec => OnlyOffendersBlocked
<1> DEFINE Earned ==
       \A ip \in IPs :
          ~rate_limited(ip) /\ rate_limited(ip)' /\ now' = now =>
             LET n == Len(fails'[ip])
             IN  /\ n >= max_fails
                 /\ Mono - fails'[ip][n - max_fails + 1] <= window + back
<1>1. HistInv /\ HistInv' /\ [HistNext]_histVars => [Earned]_histVars
  BY OffendersStep
<1> QED  BY <1>1, TableAgreesWithHistory, PTL DEF HistSpec, OnlyOffendersBlocked

-----------------------------------------------------------------------------
(* A record of the promise, and its updates one field at a time. *)
Rec(c, f, u, d) == [fail_count |-> c, first_fail |-> f, block_until |-> u, block_duration |-> d]

LEMMA RecordUpdates ==
    ASSUME NEW c, NEW f, NEW u, NEW d, NEW x
    PROVE  /\ [Rec(c, f, u, d) EXCEPT !.fail_count = x] = Rec(x, f, u, d)
           /\ [Rec(c, f, u, d) EXCEPT !.first_fail = x] = Rec(c, x, u, d)
           /\ [Rec(c, f, u, d) EXCEPT !.block_until = x] = Rec(c, f, x, d)
           /\ [Rec(c, f, u, d) EXCEPT !.block_duration = x] = Rec(c, f, u, x)
BY DEF Rec

(* The two-field updates of the promise. *)
Restart(r, x, y) == [r EXCEPT !.fail_count = x, !.first_fail = y]
Block(r, x, y) == [r EXCEPT !.block_duration = x, !.block_until = y]

LEMMA RecordUpdates2 ==
    ASSUME NEW c, NEW f, NEW u, NEW d, NEW x, NEW y
    PROVE  /\ Restart(Rec(c, f, u, d), x, y) = Rec(x, y, u, d)
           /\ Block(Rec(c, f, u, d), x, y) = Rec(c, f, y, x)
<1>1. [Rec(c, f, u, d) EXCEPT !.fail_count = x, !.first_fail = y] = Rec(x, y, u, d)
  <2> DEFINE r == [Rec(c, f, u, d) EXCEPT !.fail_count = x]
  <2>1. r = Rec(x, f, u, d)
    BY RecordUpdates
  <2>2. [Rec(c, f, u, d) EXCEPT !.fail_count = x, !.first_fail = y] = [r EXCEPT !.first_fail = y]
    OBVIOUS
  <2> HIDE DEF r
  <2>3. [r EXCEPT !.first_fail = y] = Rec(x, y, u, d)
    BY <2>1, RecordUpdates
  <2> QED  BY <2>2, <2>3
<1>2. [Rec(c, f, u, d) EXCEPT !.block_duration = x, !.block_until = y] = Rec(c, f, y, x)
  <2> DEFINE r == [Rec(c, f, u, d) EXCEPT !.block_duration = x]
  <2>1. r = Rec(c, f, u, x)
    BY DEF Rec
  <2>2. [Rec(c, f, u, d) EXCEPT !.block_duration = x, !.block_until = y]
           = [r EXCEPT !.block_until = y]
    OBVIOUS
  <2> HIDE DEF r
  <2>3. [r EXCEPT !.block_until = y] = Rec(c, f, y, x)
    BY <2>1, RecordUpdates
  <2> QED  BY <2>2, <2>3
<1> QED  BY <1>1, <1>2 DEF Restart, Block

(* The doubling of src/ratelimit.c is the promised one. *)
LEMMA SameDuration ==
    ASSUME NEW d \in Nat
    PROVE  calc_block_duration(d) = Promise!NextBlock(d)
BY DEF calc_block_duration, Promise!NextBlock

(* So is what a failure does to an entry. *)
LEMMA SameFailure ==
    ASSUME NEW e \in rate_entry, e.fail_count >= 1, now \in Nat
    PROVE  RecordIn(AfterFail(e)) = Promise!Punish(Promise!Recount(RecordIn(e)))
<1> DEFINE r == RecordIn(e)
           n == e.fail_count + 1
           d == calc_block_duration(e.block_duration)
<1>1. /\ e.fail_count \in Nat /\ e.first_fail \in Nat
      /\ e.block_until \in Nat /\ e.block_duration \in Nat
  BY DEF rate_entry
<1>2. /\ r.fail_count = e.fail_count /\ r.first_fail = e.first_fail
      /\ r.block_until = e.block_until /\ r.block_duration = e.block_duration
  BY DEF RecordIn
<1>3. CASE now - e.first_fail > window
  <2> DEFINE s == [r EXCEPT !.fail_count = 1, !.first_fail = now]
  <2>1. RecordIn(AfterFail(e)) = s
    <3> DEFINE t == [e EXCEPT !.fail_count = 1, !.first_fail = now]
    <3>1. AfterFail(e) = t
      BY <1>3 DEF AfterFail, WindowReset
    <3>2. /\ t.fail_count = 1 /\ t.first_fail = now
          /\ t.block_until = e.block_until /\ t.block_duration = e.block_duration
      BY DEF rate_entry
    <3>3. s = Rec(1, now, e.block_until, e.block_duration)
      <4>1. r = Rec(e.fail_count, e.first_fail, e.block_until, e.block_duration)
        BY DEF RecordIn, Rec
      <4>2. s = Restart(r, 1, now)
        BY DEF Restart
      <4> HIDE DEF r, s
      <4> QED  BY <4>1, <4>2, RecordUpdates2
    <3> HIDE DEF t, s
    <3> QED  BY <3>1, <3>2, <3>3 DEF RecordIn, Rec
  <2>2. Promise!Recount(r) = s
    BY <1>2, <1>3 DEF Promise!Recount
  <2>3. s.fail_count = 1
    BY DEF RecordIn
  <2>4. Promise!Punish(s) = s
    BY <2>3 DEF Promise!Punish
  <2> QED  BY <2>1, <2>2, <2>4
<1>4. CASE ~(now - e.first_fail > window)
  <2> DEFINE s == [r EXCEPT !.fail_count = n]
  <2>1. Promise!Recount(r) = s
    BY <1>2, <1>4 DEF Promise!Recount
  <2>2. /\ s.fail_count = n /\ s.block_until = e.block_until
        /\ s.block_duration = e.block_duration
    BY DEF RecordIn
  <2>3. n \in Nat /\ n # 1
    BY <1>1
  <2>4. CASE n >= max_fails /\ now >= e.block_until
    <3>1. ~(n < max_fails \/ n = 1 \/ now < e.block_until)
      BY <1>1, <2>3, <2>4, RateAssumption
    <3>2. Promise!Punish(s) = [s EXCEPT !.block_duration = d, !.block_until = now + d]
      BY <1>1, <2>2, <3>1, SameDuration DEF Promise!Punish
    <3>3. AfterFail(e) =
             [e EXCEPT !.fail_count = n, !.block_duration = d, !.block_until = now + d]
      BY <1>4, <2>4 DEF AfterFail, Counted
    <3> DEFINE u == now + d
               t == [e EXCEPT !.fail_count = n, !.block_duration = d, !.block_until = u]
               v == [s EXCEPT !.block_duration = d, !.block_until = u]
    <3>a. AfterFail(e) = t
      BY <3>3
    <3> HIDE DEF n, d, u
    <3>b. /\ t.fail_count = n /\ t.first_fail = e.first_fail
          /\ t.block_until = u /\ t.block_duration = d
      BY DEF rate_entry
    <3>c. v = Rec(n, e.first_fail, u, d)
      <4>1. s = Rec(n, e.first_fail, e.block_until, e.block_duration)
        BY DEF RecordIn, Rec
      <4>2. v = Block(s, d, u)
        BY DEF Block
      <4> HIDE DEF s, v
      <4> QED  BY <4>1, <4>2, RecordUpdates2
    <3>4. RecordIn(AfterFail(e)) = [s EXCEPT !.block_duration = d, !.block_until = now + d]
      <4> HIDE DEF t, s
      <4>1. RecordIn(AfterFail(e)) = v
        <5> HIDE DEF v
        <5> QED  BY <3>a, <3>b, <3>c DEF RecordIn, Rec
      <4> QED  BY <4>1 DEF u
    <3> QED  BY <2>1, <3>2, <3>4
  <2>5. CASE ~(n >= max_fails /\ now >= e.block_until)
    <3>1. n < max_fails \/ now < e.block_until
      BY <1>1, <2>3, <2>5, RateAssumption
    <3>2. Promise!Punish(s) = s
      BY <2>2, <3>1 DEF Promise!Punish
    <3>3. AfterFail(e) = [e EXCEPT !.fail_count = n]
      BY <1>4, <2>5 DEF AfterFail, Counted
    <3> HIDE DEF n
    <3>4. RecordIn(AfterFail(e)) = s
      BY <3>3 DEF RecordIn, rate_entry
    <3> QED  BY <2>1, <3>2, <3>4
  <2> QED  BY <2>4, <2>5
<1> QED  BY <1>3, <1>4

LEMMA FailKept ==
    ASSUME PerfectHash, HistInv, NEW ip \in IPs, HistRefused(ip)
    PROVE  Promise!Fail(ip)
<1>0. /\ RateInv /\ NoDisplacement /\ now \in Nat /\ ~rate_limited(ip) /\ rate_limit_fail(ip)
      /\ now' = now /\ Hash[ip] \in Slots /\ DOMAIN g_table = Slots
  BY ClockFacts, PosZero
     DEF HistInv, RateInv, RateTypeOK, NoDisplacement, HistRefused, PacketRefused, clockVars
<1>1. ~NoRoom(g_table, ip)
  BY <1>0, RoomForAll, TableFacts DEF RateInv
<1>2. \/ HasEntry(ip) /\ Entry(ip)' = AfterFail(Entry(ip))
      \/ ~Entry(ip).used /\ Entry(ip)' = FirstFail(ip)
  BY <1>0, <1>1, FailHome DEF Entry
<1>3. ASSUME NEW q \in IPs, q # ip
      PROVE  HasEntry(q)' = HasEntry(q) /\ Entry(q)' = Entry(q)
  <2>1. Hash[q] # Hash[ip] /\ Hash[q] \in Slots
    BY <1>3, PosZero DEF PerfectHash
  <2>2. g_table'[Hash[q]] = g_table[Hash[q]]
    BY <1>0, <2>1, FailHome
  <2> QED  BY <2>2 DEF HasEntry, Entry
<1>4. HasEntry(ip)'
  <2>1. CASE HasEntry(ip) /\ Entry(ip)' = AfterFail(Entry(ip))
    BY <1>0, <2>1, AfterFailFacts, TableFacts DEF RateInv, HasEntry, Entry
  <2>2. CASE Entry(ip)' = FirstFail(ip)
    BY <1>0, <2>2, FirstFailFacts DEF HasEntry
  <2> QED  BY <1>2, <2>1, <2>2
<1>5. Recorded' = Recorded \cup {ip}
  BY <1>3, <1>4 DEF Recorded
<1>6. HasEntry(ip) =>
         RecordIn(AfterFail(Entry(ip))) = Promise!Punish(Promise!Recount(RecordIn(Entry(ip))))
  <2> SUFFICES ASSUME HasEntry(ip)
               PROVE  RecordIn(AfterFail(Entry(ip)))
                        = Promise!Punish(Promise!Recount(RecordIn(Entry(ip))))
    OBVIOUS
  <2>1. Entry(ip) \in rate_entry
    BY <1>0, TableFacts DEF RateInv, HasEntry, Entry
  <2>2. Entry(ip).fail_count \in 1..Len(fails[ip]) /\ Len(fails[ip]) \in Nat
    BY DEF HistInv, HistTypeOK, FailsCounted, CountedFor
  <2>3. Entry(ip).fail_count >= 1
    BY <2>2
  <2> QED  BY <1>0, <2>1, <2>3, SameFailure
<1>7. RecordIn(FirstFail(ip)) = Promise!Fresh
  BY DEF RecordIn, FirstFail, Promise!Fresh
<1>8. \A q \in Recorded : TableRecords[q] = RecordIn(Entry(q))
  BY DEF TableRecords
<1>9. TableRecords' = [q \in Recorded \cup {ip} |->
                    IF q # ip THEN TableRecords[q]
                    ELSE IF ip \in Recorded THEN Promise!Punish(Promise!Recount(TableRecords[ip]))
                         ELSE Promise!Fresh]
  <2>1. TableRecords' = [q \in Recorded' |-> RecordIn(Entry(q)')]
    BY DEF TableRecords, RecordIn
  <2>2. ASSUME NEW q \in Recorded, q # ip PROVE RecordIn(Entry(q)') = TableRecords[q]
    BY <1>3, <1>8, <2>2 DEF Recorded
  <2>3. ASSUME ip \in Recorded
        PROVE  RecordIn(Entry(ip)') = Promise!Punish(Promise!Recount(TableRecords[ip]))
    BY <1>2, <1>6, <1>8, <2>3 DEF Recorded, HasEntry
  <2>4. ASSUME ip \notin Recorded PROVE RecordIn(Entry(ip)') = Promise!Fresh
    BY <1>2, <1>7, <2>4 DEF Recorded
  <2> QED  BY <1>5, <2>1, <2>2, <2>3, <2>4
<1>10. DOMAIN TableRecords = Recorded
  BY DEF TableRecords
<1>11. ~(ip \in Recorded /\ now < TableRecords[ip].block_until)
  <2>1. RecordIn(Entry(ip)).block_until = Entry(ip).block_until
    BY DEF RecordIn
  <2> QED  BY <1>0, <1>8, <2>1, LimitedHome DEF Recorded, RateInv, rate_limited, HasEntry, Entry
<1> QED  BY <1>0, <1>9, <1>10, <1>11 DEF Promise!Fail, Promise!Blocked, Promise!Failed

LEMMA SucceedKept ==
    ASSUME PerfectHash, HistInv, NEW ip \in IPs, HistAccepted(ip)
    PROVE  Promise!Succeed(ip)
<1>0. /\ RateInv /\ ~rate_limited(ip) /\ rate_limit_success(ip)
      /\ now' = now /\ Hash[ip] \in Slots /\ DOMAIN g_table = Slots /\ ~UnusedRate.used
  BY PosZero DEF HistInv, RateInv, RateTypeOK, HistAccepted, PacketAccepted, clockVars, UnusedRate
<1>1. ~HasEntry(ip)'
  BY <1>0, SuccessHome DEF HasEntry, Entry
<1>2. ASSUME NEW q \in IPs, q # ip
      PROVE  HasEntry(q)' = HasEntry(q) /\ Entry(q)' = Entry(q)
  <2>1. Hash[q] # Hash[ip] /\ Hash[q] \in Slots
    BY <1>2, PosZero DEF PerfectHash
  <2>2. g_table'[Hash[q]] = g_table[Hash[q]]
    BY <1>0, <2>1, SuccessHome
  <2> QED  BY <2>2 DEF HasEntry, Entry
<1>3. Recorded' = Recorded \ {ip}
  BY <1>1, <1>2 DEF Recorded
<1>4. TableRecords' = [q \in Recorded \ {ip} |-> TableRecords[q]]
  <2>1. TableRecords' = [q \in Recorded' |-> RecordIn(Entry(q)')]
    BY DEF TableRecords, RecordIn
  <2>2. ASSUME NEW q \in Recorded \ {ip} PROVE RecordIn(Entry(q)') = TableRecords[q]
    BY <1>2 DEF Recorded, TableRecords
  <2> QED  BY <1>3, <2>1, <2>2
<1>5. DOMAIN TableRecords = Recorded
  BY DEF TableRecords
<1>6. ~(ip \in Recorded /\ now < TableRecords[ip].block_until)
  <2>1. RecordIn(Entry(ip)).block_until = Entry(ip).block_until
    BY DEF RecordIn
  <2>2. \A q \in Recorded : TableRecords[q] = RecordIn(Entry(q))
    BY DEF TableRecords
  <2> QED  BY <1>0, <2>1, <2>2, LimitedHome DEF Recorded, RateInv, rate_limited, HasEntry, Entry
<1> QED  BY <1>0, <1>4, <1>5, <1>6 DEF Promise!Succeed, Promise!Blocked, Promise!Failed

(* The open-addressing table of src/ratelimit.c implements one independent *)
(* record per address, as long as no two addresses share a home slot.      *)
THEOREM PromiseKept ==
    ASSUME PerfectHash
    PROVE  HistSpec => ImplementsPromise
<1>0. NoDisplacement
  BY DEF NoDisplacement
<1>1. HistInit => Promise!Init
  <2> SUFFICES ASSUME HistInit PROVE Promise!Init
    OBVIOUS
  <2>1. \A ip \in IPs : ~HasEntry(ip)
    BY PosZero DEF HistInit, RateInit, HasEntry, Entry, UnusedRate
  <2>2. Recorded = {}
    BY <2>1 DEF Recorded
  <2>3. now \in Nat
    BY HistInitial, ClockFacts DEF HistInv, HistTypeOK, RateTypeOK
  <2> QED  BY <2>2, <2>3 DEF Promise!Init, TableRecords
<1>2. ASSUME HistInv, HistInv', [HistNext]_histVars
      PROVE  [Promise!Next]_(Promise!specVars)
  <2>1. ASSUME ClockNext, UNCHANGED <<g_table, fails>> PROVE Promise!Next
    <3>1. now' \in Nat
      BY <1>2, ClockAssumption DEF HistInv, HistTypeOK, RateTypeOK, ClockTypeOK
    <3>2. TableRecords' = TableRecords
      BY <2>1 DEF TableRecords, Recorded, RecordIn, HasEntry, Entry
    <3> QED  BY <3>1, <3>2 DEF Promise!Next, Promise!Pass
  <2>2. ASSUME UNCHANGED histVars PROVE UNCHANGED Promise!specVars
    BY <2>2 DEF histVars, Promise!specVars, TableRecords, Recorded, RecordIn, HasEntry, Entry
  <2>3. ASSUME NEW ip \in IPs, HistRefused(ip) \/ HistAccepted(ip) PROVE Promise!Next
    BY <1>2, <2>3, FailKept, SucceedKept DEF Promise!Next
  <2> QED  BY <1>2, <2>1, <2>2, <2>3 DEF HistNext
<1>3. HistSpec => []HistInv
  BY <1>0, TableAgreesWithHistory
<1> QED  BY <1>1, <1>2, <1>3, PTL DEF HistSpec, ImplementsPromise, Promise!Spec
=============================================================================
