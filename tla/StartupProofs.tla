---------------------------- MODULE StartupProofs ----------------------------
(***************************************************************************)
(* Proofs about the start of the daemon, for every command line, size of   *)
(* the arrays and buffers, identity to begin with and failure of a call.   *)
(***************************************************************************)
EXTENDS Startup, SequenceTheorems, TLAPS

(* The identities that daemon_run may begin with are well-formed. *)
LEMMA StartFacts ==
    ASSUME began \in Starts
    PROVE  began.ruid \in Ids /\ began.euid \in Ids /\ began.caps \subseteq Caps
BY DEF Starts, Ids, Caps

(* Privileges are still whole when daemon_run begins. *)
LEMMA PrivBegins ==
    ASSUME PrivInit
    PROVE  PrivInv
<1>1. PrivTypeOK
  BY StartFacts DEF PrivInit, PrivTypeOK, Calls, Ids
<1> QED  BY <1>1 DEF PrivInit, PrivInv, AsBegan, IdsDropped, CapsDropped, Guarded, KeepcapsSet,
                     GroupsSet, GidSet, UidSet, CapsSet

(* The step at call keeps PrivInv: setup. *)
LEMMA SetupDoneKeeps ==
    ASSUME PrivInv, SetupDone
    PROVE  PrivInv'
<1>1. /\ call = "setup" /\ call' = IF "net_admin" \in effective THEN "getuid" ELSE "exit"
      /\ ruid' = ruid /\ euid' = euid /\ gid' = gid /\ groups' = groups
      /\ permitted' = permitted /\ effective' = effective /\ keepcaps' = keepcaps
      /\ no_new_privs' = no_new_privs /\ filtered' = filtered
      /\ uid' = uid /\ wanted_gid' = wanted_gid /\ failed' = failed /\ began' = began
  BY DEF SetupDone, ids, caps, flags
<1>2. PrivTypeOK'
  BY <1>1 DEF PrivInv, PrivTypeOK, Calls
<1>3. AsBegan' /\ BeganAsRoot' = BeganAsRoot
  BY <1>1 DEF PrivInv, AsBegan, BeganAsRoot, UidSet, CapsSet
<1>4. IdsDropped' /\ CapsDropped' /\ Guarded'
  BY <1>1, <1>3 DEF PrivInv, IdsDropped, CapsDropped, Guarded, KeepcapsSet, GroupsSet,
                    GidSet, UidSet, CapsSet
<1> QED  BY <1>2, <1>3, <1>4 DEF PrivInv

LEMMA LookupKeeps ==
    ASSUME PrivInv, lookup_user_group
    PROVE  PrivInv'
<1>1. /\ call = "getuid"
      /\ ruid' = ruid /\ euid' = euid /\ gid' = gid /\ groups' = groups
      /\ permitted' = permitted /\ effective' = effective /\ keepcaps' = keepcaps
      /\ filtered' = filtered /\ began' = began
  BY DEF lookup_user_group, ids, caps
<1>2. BeganAsRoot' = BeganAsRoot
  BY <1>1 DEF BeganAsRoot
<1>3. CASE ruid # Root /\ euid # Root
  <2>1. /\ call' = "seccomp" /\ no_new_privs' \in BOOLEAN
        /\ failed' = IF no_new_privs' THEN failed ELSE failed \cup {"no_new_privs"}
        /\ uid' = uid /\ wanted_gid' = wanted_gid
    BY <1>3 DEF lookup_user_group
  <2>2. ~BeganAsRoot
    BY <1>1, <1>3 DEF BeganAsRoot, PrivInv, AsBegan, UidSet, CapsSet
  <2>3. PrivTypeOK'
    BY <1>1, <2>1 DEF PrivInv, PrivTypeOK, Calls
  <2>4. AsBegan'
    BY <1>1, <1>2, <2>1, <2>2 DEF PrivInv, AsBegan, UidSet, CapsSet
  <2>5. IdsDropped' /\ CapsDropped' /\ Guarded'
    BY <1>1, <1>2, <2>1, <2>2 DEF PrivInv, IdsDropped, CapsDropped, Guarded
  <2> QED  BY <2>3, <2>4, <2>5 DEF PrivInv
<1>4. CASE ~(ruid # Root /\ euid # Root)
  <2>1. /\ call' = "keepcaps" /\ uid' \in {Root, Nobody, User} /\ wanted_gid' \in {Root, Nobody, User}
        /\ no_new_privs' = no_new_privs /\ failed' = failed
    BY <1>4 DEF lookup_user_group
  <2>2. BeganAsRoot
    BY <1>1, <1>4 DEF BeganAsRoot, PrivInv, AsBegan, UidSet, CapsSet
  <2>3. PrivTypeOK'
    BY <1>1, <2>1 DEF PrivInv, PrivTypeOK, Calls, Ids
  <2>4. AsBegan'
    BY <1>1, <1>2, <2>1, <2>2 DEF PrivInv, AsBegan, UidSet, CapsSet
  <2>5. IdsDropped' /\ CapsDropped' /\ Guarded'
    BY <1>1, <1>2, <2>1, <2>2 DEF PrivInv, IdsDropped, CapsDropped, Guarded, KeepcapsSet,
                                  GroupsSet, GidSet, UidSet, CapsSet
  <2> QED  BY <2>3, <2>4, <2>5 DEF PrivInv
<1> QED  BY <1>3, <1>4

LEMMA KeepcapsKeeps ==
    ASSUME PrivInv, SetKeepcaps
    PROVE  PrivInv'
<1>1. /\ call = "keepcaps" /\ call' = "setgroups"
      /\ ruid' = ruid /\ euid' = euid /\ gid' = gid /\ groups' = groups
      /\ permitted' = permitted /\ effective' = effective
      /\ no_new_privs' = no_new_privs /\ filtered' = filtered
      /\ uid' = uid /\ wanted_gid' = wanted_gid /\ began' = began
  BY DEF SetKeepcaps, ids, caps
<1>2. \/ failed' = failed /\ keepcaps' = TRUE
      \/ failed' = failed \cup {"keepcaps"} /\ keepcaps' = keepcaps
  BY <1>1 DEF SetKeepcaps, Works, Fails
<1>3. PrivTypeOK'
  BY <1>1, <1>2 DEF PrivInv, PrivTypeOK, Calls
<1>4. AsBegan' /\ BeganAsRoot' = BeganAsRoot
  BY <1>1 DEF PrivInv, AsBegan, BeganAsRoot, UidSet, CapsSet
<1>5. IdsDropped' /\ CapsDropped' /\ Guarded'
  BY <1>1, <1>2, <1>4 DEF PrivInv, IdsDropped, CapsDropped, Guarded, KeepcapsSet, GroupsSet,
                          GidSet, UidSet, CapsSet
<1> QED  BY <1>3, <1>4, <1>5 DEF PrivInv

(* The calls of drop_ids: what a call leaves alone whatever comes of it. *)
LEMMA DropCallFrame ==
    ASSUME keepcaps' = keepcaps, no_new_privs' = no_new_privs, filtered' = filtered,
           uid' = uid, wanted_gid' = wanted_gid, began' = began,
           ruid' = ruid, euid' = euid, gid' = gid, groups' = groups,
           permitted' = permitted, effective' = effective,
           PrivInv, call \in {"setgroups", "setgid", "setuid"},
           call' = "exit", failed' = failed \cup {call}
    PROVE  PrivInv'
<1>1. PrivTypeOK'
  BY DEF PrivInv, PrivTypeOK, Calls
<1>2. AsBegan' /\ BeganAsRoot' = BeganAsRoot
  BY DEF PrivInv, AsBegan, BeganAsRoot, UidSet, CapsSet
<1>3. IdsDropped' /\ CapsDropped' /\ Guarded'
  BY <1>2 DEF PrivInv, IdsDropped, CapsDropped, Guarded, KeepcapsSet, GroupsSet,
              GidSet, UidSet, CapsSet
<1> QED  BY <1>1, <1>2, <1>3 DEF PrivInv

LEMMA SetgroupsKeeps ==
    ASSUME PrivInv, setgroups
    PROVE  PrivInv'
<1>1. /\ call = "setgroups"
      /\ ruid' = ruid /\ euid' = euid /\ gid' = gid
      /\ permitted' = permitted /\ effective' = effective /\ keepcaps' = keepcaps
      /\ no_new_privs' = no_new_privs /\ filtered' = filtered
      /\ uid' = uid /\ wanted_gid' = wanted_gid /\ began' = began
  BY DEF setgroups, DropCall, ids, caps, flags
<1>2. \/ /\ groups' = IF "setgid" \in effective /\ began.setgroups THEN {wanted_gid} ELSE groups
         /\ failed' = failed /\ call' = "setgid"
      \/ groups' = groups /\ failed' = failed \cup {call} /\ call' = "exit"
  BY DEF setgroups, DropCall, ids, caps, Works, Fails
<1>3. CASE groups' = groups /\ failed' = failed \cup {call} /\ call' = "exit"
  BY <1>1, <1>3, DropCallFrame
<1>4. CASE /\ groups' = IF "setgid" \in effective /\ began.setgroups THEN {wanted_gid} ELSE groups
           /\ failed' = failed /\ call' = "setgid"
  <2>1. effective = began.caps
    BY <1>1 DEF PrivInv, AsBegan, UidSet, CapsSet
  <2>2. PrivTypeOK'
    BY <1>1, <1>4 DEF PrivInv, PrivTypeOK, Calls
  <2>3. AsBegan' /\ BeganAsRoot' = BeganAsRoot
    BY <1>1, <1>4 DEF PrivInv, AsBegan, BeganAsRoot, UidSet, CapsSet
  <2>4. IdsDropped' /\ CapsDropped' /\ Guarded'
    BY <1>1, <1>4, <2>1, <2>3 DEF PrivInv, IdsDropped, CapsDropped, Guarded, KeepcapsSet,
                                  GroupsSet, GidSet, UidSet, CapsSet
  <2> QED  BY <2>2, <2>3, <2>4 DEF PrivInv
<1> QED  BY <1>2, <1>3, <1>4

LEMMA SetgidKeeps ==
    ASSUME PrivInv, setgid("setgid", "setuid")
    PROVE  PrivInv'
<1>1. /\ call = "setgid"
      /\ ruid' = ruid /\ euid' = euid /\ groups' = groups
      /\ permitted' = permitted /\ effective' = effective /\ keepcaps' = keepcaps
      /\ no_new_privs' = no_new_privs /\ filtered' = filtered
      /\ uid' = uid /\ wanted_gid' = wanted_gid /\ began' = began
  BY DEF setgid, DropCall, ids, caps, flags
<1>2. \/ /\ gid' = IF "setgid" \in effective THEN wanted_gid ELSE gid
         /\ failed' = failed /\ call' = "setuid"
      \/ gid' = gid /\ failed' = failed \cup {call} /\ call' = "exit"
  BY DEF setgid, DropCall, ids, caps, Works, Fails
<1>3. CASE gid' = gid /\ failed' = failed \cup {call} /\ call' = "exit"
  BY <1>1, <1>3, DropCallFrame
<1>4. CASE /\ gid' = IF "setgid" \in effective THEN wanted_gid ELSE gid
           /\ failed' = failed /\ call' = "setuid"
  <2>1. effective = began.caps
    BY <1>1 DEF PrivInv, AsBegan, UidSet, CapsSet
  <2>2. PrivTypeOK'
    BY <1>1, <1>4 DEF PrivInv, PrivTypeOK, Calls
  <2>3. AsBegan' /\ BeganAsRoot' = BeganAsRoot
    BY <1>1, <1>4 DEF PrivInv, AsBegan, BeganAsRoot, UidSet, CapsSet
  <2>4. IdsDropped' /\ CapsDropped' /\ Guarded'
    BY <1>1, <1>4, <2>1, <2>3 DEF PrivInv, IdsDropped, CapsDropped, Guarded, KeepcapsSet,
                                  GroupsSet, GidSet, UidSet, CapsSet
  <2> QED  BY <2>2, <2>3, <2>4 DEF PrivInv
<1> QED  BY <1>2, <1>3, <1>4

(* The change of user takes the capabilities with it unless they are kept. *)
LEMMA SetuidKeeps ==
    ASSUME PrivInv, setuid("setuid", "capset")
    PROVE  PrivInv'
<1>1. /\ call = "setuid"
      /\ gid' = gid /\ groups' = groups /\ keepcaps' = keepcaps
      /\ no_new_privs' = no_new_privs /\ filtered' = filtered
      /\ uid' = uid /\ wanted_gid' = wanted_gid /\ began' = began
  BY DEF setuid, DropCall, ids, caps, flags
<1>2. \/ /\ "setuid" \in effective
         /\ ruid' = uid /\ euid' = uid
         /\ permitted' = IF uid = Root \/ keepcaps THEN permitted ELSE {}
         /\ effective' = IF uid = Root THEN effective ELSE {}
         /\ failed' = failed /\ call' = "capset"
      \/ /\ "setuid" \notin effective
         /\ ruid' = ruid /\ euid' = euid /\ permitted' = permitted /\ effective' = effective
         /\ failed' = failed /\ call' = "capset"
      \/ /\ ruid' = ruid /\ euid' = euid /\ permitted' = permitted /\ effective' = effective
         /\ failed' = failed \cup {call} /\ call' = "exit"
  BY DEF setuid, DropCall, ids, caps, Works, Fails
<1>3. CASE /\ ruid' = ruid /\ euid' = euid /\ permitted' = permitted /\ effective' = effective
           /\ failed' = failed \cup {call} /\ call' = "exit"
  BY <1>1, <1>3, DropCallFrame
<1>4. CASE /\ call' = "capset" /\ failed' = failed
           /\ permitted' \in {permitted, {}} /\ effective' \subseteq permitted'
           /\ permitted' # permitted => ~keepcaps
           /\ ruid' \in Ids /\ euid' \in Ids
           /\ "setuid" \in effective => ruid' = uid /\ euid' = uid
  <2>1. effective = began.caps /\ permitted = began.caps /\ BeganAsRoot
    BY <1>1 DEF PrivInv, AsBegan, UidSet, CapsSet
  <2>2. PrivTypeOK'
    BY <1>1, <1>4 DEF PrivInv, PrivTypeOK, Calls
  <2>3. AsBegan' /\ BeganAsRoot' = BeganAsRoot
    BY <1>1, <1>4, <2>1 DEF PrivInv, AsBegan, BeganAsRoot, UidSet, CapsSet
  <2>4. IdsDropped' /\ CapsDropped' /\ Guarded'
    BY <1>1, <1>4, <2>1, <2>3 DEF PrivInv, IdsDropped, CapsDropped, Guarded, KeepcapsSet,
                                  GroupsSet, GidSet, UidSet, CapsSet
  <2> QED  BY <2>2, <2>3, <2>4 DEF PrivInv
<1> QED  BY <1>2, <1>3, <1>4 DEF PrivInv, PrivTypeOK

LEMMA CapsetKeeps ==
    ASSUME PrivInv, Capset
    PROVE  PrivInv'
<1>1. /\ call = "capset" /\ call' = "no_new_privs"
      /\ ruid' = ruid /\ euid' = euid /\ gid' = gid /\ groups' = groups
      /\ keepcaps' = keepcaps /\ no_new_privs' = no_new_privs /\ filtered' = filtered
      /\ uid' = uid /\ wanted_gid' = wanted_gid /\ began' = began
  BY DEF Capset, ids, flags
<1>2. \/ /\ failed' = failed /\ "net_admin" \in permitted
         /\ permitted' = {"net_admin"} /\ effective' = {"net_admin"}
      \/ /\ failed' = failed /\ "net_admin" \notin permitted
         /\ permitted' = permitted /\ effective' = effective
      \/ /\ failed' = failed \cup {"capset"}
         /\ permitted' = permitted /\ effective' = effective
  BY <1>1 DEF Capset, caps, Works, Fails
<1>3. PrivTypeOK'
  BY <1>1, <1>2 DEF PrivInv, PrivTypeOK, Calls, Caps
<1>4. BeganAsRoot /\ BeganAsRoot' = BeganAsRoot /\ "net_admin" \in began.caps
  BY <1>1 DEF PrivInv, AsBegan, BeganAsRoot, UidSet, CapsSet
<1>5. AsBegan'
  BY <1>1, <1>4 DEF PrivInv, AsBegan, UidSet, CapsSet
<1>6. CapsDropped'
  <2>1. permitted = began.caps \/ (permitted = {} /\ "keepcaps" \in failed)
    BY <1>1, <1>4 DEF PrivInv, CapsDropped
  <2>2. ASSUME "capset" \notin failed' PROVE permitted' \subseteq {"net_admin"}
    BY <1>2, <1>4, <2>1, <2>2
  <2>3. failed' \cap {"keepcaps", "capset"} = {} => "net_admin" \in effective'
    BY <1>2, <1>4, <2>1
  <2> QED  BY <1>1, <1>2, <1>4, <2>2, <2>3 DEF PrivInv, CapsDropped, KeepcapsSet, GroupsSet,
                                               GidSet, UidSet, CapsSet
<1>7. IdsDropped' /\ Guarded'
  BY <1>1, <1>2, <1>4 DEF PrivInv, IdsDropped, Guarded, GroupsSet, GidSet, UidSet, CapsSet
<1> QED  BY <1>3, <1>5, <1>6, <1>7 DEF PrivInv

LEMMA NoNewPrivsKeeps ==
    ASSUME PrivInv, SetNoNewPrivs
    PROVE  PrivInv'
<1>1. /\ call = "no_new_privs" /\ call' = "seccomp"
      /\ ruid' = ruid /\ euid' = euid /\ gid' = gid /\ groups' = groups
      /\ permitted' = permitted /\ effective' = effective
      /\ keepcaps' = keepcaps /\ filtered' = filtered
      /\ uid' = uid /\ wanted_gid' = wanted_gid /\ began' = began
  BY DEF SetNoNewPrivs, ids, caps
<1>2. \/ failed' = failed /\ no_new_privs' = TRUE
      \/ failed' = failed \cup {"no_new_privs"} /\ no_new_privs' = no_new_privs
  BY <1>1 DEF SetNoNewPrivs, Works, Fails
<1>3. PrivTypeOK'
  BY <1>1, <1>2 DEF PrivInv, PrivTypeOK, Calls
<1>4. AsBegan' /\ BeganAsRoot' = BeganAsRoot
  BY <1>1 DEF PrivInv, AsBegan, BeganAsRoot, UidSet, CapsSet
<1>5. IdsDropped' /\ CapsDropped' /\ Guarded'
  BY <1>1, <1>2, <1>4 DEF PrivInv, IdsDropped, CapsDropped, Guarded, KeepcapsSet, GroupsSet,
                          GidSet, UidSet, CapsSet
<1> QED  BY <1>3, <1>4, <1>5 DEF PrivInv

LEMMA SeccompKeeps ==
    ASSUME PrivInv, install_seccomp
    PROVE  PrivInv'
<1>1. /\ call = "seccomp" /\ call' = "serve"
      /\ ruid' = ruid /\ euid' = euid /\ gid' = gid /\ groups' = groups
      /\ permitted' = permitted /\ effective' = effective
      /\ keepcaps' = keepcaps /\ no_new_privs' = no_new_privs
      /\ uid' = uid /\ wanted_gid' = wanted_gid /\ began' = began
  BY DEF install_seccomp, ids, caps
<1>2. \/ failed' = failed /\ filtered' = (no_new_privs \/ "other" \in effective)
      \/ failed' = failed \cup {"seccomp"} /\ filtered' = filtered
  BY <1>1 DEF install_seccomp, Works, Fails
<1>3. PrivTypeOK'
  BY <1>1, <1>2 DEF PrivInv, PrivTypeOK, Calls
<1>4. AsBegan' /\ BeganAsRoot' = BeganAsRoot
  BY <1>1 DEF PrivInv, AsBegan, BeganAsRoot, UidSet, CapsSet
<1>5. IdsDropped' /\ CapsDropped' /\ Guarded'
  BY <1>1, <1>2, <1>4 DEF PrivInv, IdsDropped, CapsDropped, Guarded, KeepcapsSet, GroupsSet,
                          GidSet, UidSet, CapsSet
<1> QED  BY <1>3, <1>4, <1>5 DEF PrivInv

(* drop_privileges and install_seccomp, whatever the kernel answers. *)
LEMMA PrivStep ==
    ASSUME PrivInv, PrivNext
    PROVE  PrivInv'
BY SetupDoneKeeps, LookupKeeps, KeepcapsKeeps, SetgroupsKeeps, SetgidKeeps, SetuidKeeps,
   CapsetKeeps, NoNewPrivsKeeps, SeccompKeeps DEF PrivNext, drop_privileges, drop_ids

LEMMA PrivStutter ==
    ASSUME PrivInv, UNCHANGED privVars
    PROVE  PrivInv'
<1>1. /\ call' = call /\ ruid' = ruid /\ euid' = euid /\ gid' = gid /\ groups' = groups
      /\ permitted' = permitted /\ effective' = effective
      /\ keepcaps' = keepcaps /\ no_new_privs' = no_new_privs /\ filtered' = filtered
      /\ uid' = uid /\ wanted_gid' = wanted_gid /\ failed' = failed /\ began' = began
  BY DEF privVars, ids, caps, flags
<1> QED  BY <1>1 DEF PrivInv, PrivTypeOK, AsBegan, IdsDropped, CapsDropped, Guarded, BeganAsRoot

-----------------------------------------------------------------------------
(* The listeners that one --port stands for. *)
Families(arg) == IF arg.node = "none" THEN {"ip", "ip6"} ELSE {arg.node}
Named(arg) == {[family |-> f, port |-> arg.val] : f \in Families(arg)}

LEMMA Limits == UINT16_MAX \in Nat /\ UINT16_MAX >= 2222 /\ Day \in Nat /\ Day >= 1
BY SMT DEF UINT16_MAX, Day

(* The cast of a port that passed the range check loses nothing. *)
LEMMA CastKeeps ==
    \A n \in 1..UINT16_MAX : u16(n) = n /\ n \in Nat /\ n \in 0..UINT16_MAX
BY Limits, SMT DEF u16

LEMMA PairRange ==
    ASSUME NEW a, NEW b
    PROVE  Range(<<a, b>>) = {a, b} /\ Range(<<a>>) = {a}
BY DEF Range

(* handle_port_opt appends the listeners asked for. *)
LEMMA ListeningFacts ==
    ASSUME NEW arg \in PortArgs, arg.node # "invalid", arg.val \in 1..UINT16_MAX
    PROVE  /\ Listening(arg) \in Seq(Listeners) /\ Range(Listening(arg)) = Named(arg)
           /\ Len(Listening(arg)) = IF arg.node = "none" THEN 2 ELSE 1
<1>1. u16(arg.val) = arg.val /\ arg.val \in 0..UINT16_MAX
  BY CastKeeps
<1>2. arg.node \in {"none", "ip", "ip6"}
  BY DEF PortArgs
<1>3. CASE arg.node = "none"
  <2> DEFINE a == [family |-> "ip", port |-> arg.val]
             b == [family |-> "ip6", port |-> arg.val]
  <2>1. Listening(arg) = <<a, b>>
    BY <1>1, <1>3 DEF Listening, BothFamilies
  <2>2. a \in Listeners /\ b \in Listeners
    BY <1>1 DEF Listeners
  <2>3. Named(arg) = {a, b}
    BY <1>3 DEF Named, Families
  <2> HIDE DEF a, b
  <2>4. <<a, b>> \in Seq(Listeners) /\ Len(<<a, b>>) = 2
    BY <2>2
  <2>5. Range(<<a, b>>) = {a, b}
    BY PairRange
  <2> QED  BY <1>3, <2>1, <2>3, <2>4, <2>5
<1>4. CASE arg.node # "none"
  <2> DEFINE a == [family |-> arg.node, port |-> arg.val]
  <2>1. Listening(arg) = <<a>>
    BY <1>1, <1>4 DEF Listening
  <2>2. a \in Listeners
    BY <1>1, <1>2, <1>4 DEF Listeners
  <2>3. Named(arg) = {a}
    BY <1>4 DEF Named, Families
  <2> HIDE DEF a
  <2>4. <<a>> \in Seq(Listeners) /\ Len(<<a>>) = 1
    BY <2>2
  <2>5. Range(<<a>>) = {a}
    BY PairRange
  <2> QED  BY <1>4, <2>1, <2>3, <2>4, <2>5
<1> QED  BY <1>3, <1>4

LEMMA RequestedIs == Requested = UNION {Named(arg) : arg \in asked}
BY DEF Requested, Named, Families

LEMMA OptionsBegin ==
    ASSUME OptionsInit
    PROVE  OptionsInv
<1>1. OptionsTypeOK
  <2>1. stage = "options" /\ argc = 0 /\ ports = <<>> /\ number = Defaults
    BY DEF OptionsInit
  <2>2. number \in [NumberOpts -> Nat]
    BY <2>1, Limits DEF Defaults, NumberOpts
  <2>3. ports \in Seq(Listeners) /\ Len(ports) = 0
    BY <2>1
  <2>4. Len(ports) <= MAX_PORTS /\ argc \in 0..MaxArgs
    BY <2>1, <2>3, OptionsAssumption
  <2>5. name \in [NameOpts -> Nat] /\ \A o \in NameOpts : name[o] < Size[o]
    BY OptionsAssumption DEF OptionsInit, NameOpts
  <2>6. rate \in [max_fails : Nat \ {0}, window : Nat \ {0}]
    BY DEF OptionsInit
  <2>7. secret \in [len : 0..MAX_SECRET, from : {"none", "option", "file"}]
    BY OptionsAssumption DEF OptionsInit
  <2> QED  BY <2>1, <2>2, <2>3, <2>4, <2>5, <2>6, <2>7 DEF OptionsTypeOK
<1>2. TakenSoFar
  <2>1. Requested = {}
    BY RequestedIs DEF OptionsInit
  <2>2. Range(<<>>) = {}
    BY DEF Range
  <2> QED  BY <2>1, <2>2 DEF OptionsInit, TakenSoFar
<1>3. SecretsApart
  BY DEF OptionsInit, SecretsApart, NameOpts
<1>4. OneSecret
  BY DEF OptionsInit, OneSecret
<1> QED  BY <1>1, <1>2, <1>3, <1>4 DEF OptionsInv

-----------------------------------------------------------------------------
(* An option that is refused, like a missing secret, ends the daemon. *)
LEMMA StopKeeps ==
    ASSUME OptionsInv, Stop, argc' \in 0..MaxArgs
    PROVE  OptionsInv'
<1>1. /\ stage' = "exit" /\ ports' = ports /\ number' = number /\ rate' = rate
      /\ name' = name /\ secret' = secret /\ last' = last
  BY DEF Stop, cfgVars
<1> QED  BY <1>1 DEF OptionsInv, OptionsTypeOK, TakenSoFar, SecretsApart, OneSecret

(* An option that is taken leaves the loop where it was. *)
LEMMA OptionCases ==
    ASSUME OptionsInv, NEW good \in BOOLEAN, NEW effect \in BOOLEAN, Option(good, effect)
    PROVE  /\ stage = "options" /\ argc' \in 0..MaxArgs
           /\ OptionsInv' \/ (good /\ effect /\ stage' = "options")
<1>1. stage = "options" /\ argc < MaxArgs /\ argc' = argc + 1
  BY DEF Option
<1>2. argc' \in 0..MaxArgs
  BY <1>1, OptionsAssumption DEF OptionsInv, OptionsTypeOK
<1>3. (good /\ effect /\ UNCHANGED stage) \/ Stop
  BY DEF Option
<1> QED  BY <1>1, <1>2, <1>3, StopKeeps

LEMMA PortKeeps ==
    ASSUME OptionsInv, NEW arg \in PortArgs, handle_port_opt(arg)
    PROVE  OptionsInv'
<1> DEFINE good == arg.node # "invalid" /\ arg.val \in 1..UINT16_MAX /\ RoomFor(arg)
           effect == /\ ports' = ports \o Listening(arg)
                     /\ asked' = asked \cup {arg}
                     /\ UNCHANGED <<number, rate, name, secret, last, offered>>
<1>1. Option(good, effect)
  BY DEF handle_port_opt
<1>2. /\ stage = "options" /\ argc' \in 0..MaxArgs
      /\ OptionsInv' \/ (good /\ effect /\ stage' = "options")
  <2> HIDE DEF good, effect
  <2>1. good \in BOOLEAN /\ effect \in BOOLEAN
    BY DEF good, effect
  <2> QED  BY <1>1, <2>1, OptionCases
<1>3. CASE good /\ effect /\ stage' = "options"
  <2>1. ports \in Seq(Listeners) /\ Len(ports) <= MAX_PORTS /\ Range(ports) = Requested
    BY <1>2 DEF OptionsInv, OptionsTypeOK, TakenSoFar
  <2>2. /\ Listening(arg) \in Seq(Listeners) /\ Range(Listening(arg)) = Named(arg)
        /\ Len(Listening(arg)) = IF arg.node = "none" THEN 2 ELSE 1
    BY <1>3, ListeningFacts
  <2>3. ports' \in Seq(Listeners) /\ Len(ports') = Len(ports) + Len(Listening(arg))
    <3>1. \A s, t \in Seq(Listeners) :
             s \o t \in Seq(Listeners) /\ Len(s \o t) = Len(s) + Len(t)
      OBVIOUS
    <3>2. ports' = ports \o Listening(arg)
      BY <1>3
    <3> QED  BY <2>1, <2>2, <3>1, <3>2
  <2>4. Len(ports') <= MAX_PORTS /\ Len(ports') > 0
    <3>1. Len(ports) \in Nat
      BY <2>1
    <3> QED  BY <1>3, <2>1, <2>2, <2>3, <3>1, OptionsAssumption DEF RoomFor
  <2>5. Range(ports') = Range(ports) \cup Range(Listening(arg))
    BY <1>3, <2>1, <2>2, RangeConcatenation
  <2>6. Requested' = Requested \cup Named(arg)
    <3>1. Requested' = UNION {Named(x) : x \in asked \cup {arg}}
      BY <1>3 DEF Requested, Named, Families
    <3> QED  BY <3>1, RequestedIs
  <2>7. OptionsTypeOK'
    BY <1>2, <1>3, <2>3, <2>4 DEF OptionsInv, OptionsTypeOK
  <2>8. ports' # <<>> /\ asked' # {}
    BY <1>3, <2>4
  <2>9. TakenSoFar'
    BY <1>3, <2>1, <2>2, <2>5, <2>6, <2>8 DEF OptionsInv, TakenSoFar
  <2>10. SecretsApart' /\ OneSecret'
    BY <1>2, <1>3 DEF OptionsInv, SecretsApart, OneSecret
  <2> QED  BY <2>7, <2>9, <2>10 DEF OptionsInv
<1> QED  BY <1>2, <1>3

LEMMA NumberKeeps ==
    ASSUME OptionsInv, NEW o \in NumberOpts, NEW val \in Longs, handle_number_opt(o, val)
    PROVE  OptionsInv'
<1> DEFINE good == InRange(o, val)
           effect == /\ number' = [number EXCEPT ![o] = IF o = "target_port" THEN u16(val) ELSE val]
                     /\ last' = [last EXCEPT ![o] = val]
                     /\ UNCHANGED <<ports, rate, name, secret, asked, offered>>
<1>1. Option(good, effect)
  BY DEF handle_number_opt
<1>2. /\ stage = "options" /\ argc' \in 0..MaxArgs
      /\ OptionsInv' \/ (good /\ effect /\ stage' = "options")
  <2> HIDE DEF good, effect
  <2>1. good \in BOOLEAN /\ effect \in BOOLEAN
    BY DEF good, effect, InRange
  <2> QED  BY <1>1, <2>1, OptionCases
<1>3. CASE good /\ effect /\ stage' = "options"
  <2>1. val \in Nat /\ (o = "target_port" => u16(val) = val)
    <3>1. CASE o = "target_port"
      <4>1. val \in 1..UINT16_MAX
        BY <1>3, <3>1 DEF InRange, Limit
      <4> QED  BY <4>1, CastKeeps
    <3>2. CASE o # "target_port"
      <4>1. val \in 1..Day
        BY <1>3, <3>2 DEF InRange, Limit, NumberOpts
      <4> QED  BY <3>2, <4>1, Limits
    <3> QED  BY <3>1, <3>2
  <2>2. number' = [number EXCEPT ![o] = val] /\ number = last
    <3>1. (IF o = "target_port" THEN u16(val) ELSE val) = val
      BY <2>1
    <3> QED  BY <1>3, <3>1 DEF OptionsInv, TakenSoFar
  <2>3. number' = last' /\ number' \in [NumberOpts -> Nat]
    <3>1. number \in [NumberOpts -> Nat] /\ last' = [last EXCEPT ![o] = val]
      BY <1>3 DEF OptionsInv, OptionsTypeOK
    <3> HIDE DEF good, effect
    <3> QED  BY <2>1, <2>2, <3>1
  <2>4. OptionsTypeOK'
    BY <1>2, <1>3, <2>3 DEF OptionsInv, OptionsTypeOK
  <2>5. TakenSoFar'
    BY <1>2, <1>3, <2>3 DEF OptionsInv, TakenSoFar, Requested
  <2>6. SecretsApart' /\ OneSecret'
    BY <1>2, <1>3 DEF OptionsInv, SecretsApart, OneSecret
  <2> QED  BY <2>4, <2>5, <2>6 DEF OptionsInv
<1> QED  BY <1>2, <1>3

LEMMA RateKeeps ==
    ASSUME OptionsInv, NEW n \in Longs \cap Nat, NEW w \in Longs \cap Nat,
           handle_rate_limit_opt(n, w)
    PROVE  OptionsInv'
<1> DEFINE good == n >= 1 /\ w >= 1
           effect == /\ rate' = [max_fails |-> n, window |-> w]
                     /\ UNCHANGED <<ports, number, name, secret, asked, last, offered>>
<1>1. Option(good, effect)
  BY DEF handle_rate_limit_opt
<1>2. /\ stage = "options" /\ argc' \in 0..MaxArgs
      /\ OptionsInv' \/ (good /\ effect /\ stage' = "options")
  <2> HIDE DEF good, effect
  <2>1. good \in BOOLEAN /\ effect \in BOOLEAN
    BY DEF good, effect
  <2> QED  BY <1>1, <2>1, OptionCases
<1>3. CASE good /\ effect /\ stage' = "options"
  <2>1. OptionsTypeOK'
    BY <1>2, <1>3 DEF OptionsInv, OptionsTypeOK
  <2>2. TakenSoFar'
    BY <1>2, <1>3 DEF OptionsInv, TakenSoFar, Requested
  <2>3. SecretsApart' /\ OneSecret'
    BY <1>2, <1>3 DEF OptionsInv, SecretsApart, OneSecret
  <2> QED  BY <2>1, <2>2, <2>3 DEF OptionsInv
<1> QED  BY <1>2, <1>3

LEMMA NameKeeps ==
    ASSUME OptionsInv, NEW o \in NameOpts \ {"secret_file"}, NEW len \in 0..Size[o], handle_name_opt(o, len)
    PROVE  OptionsInv'
<1> DEFINE good == len < Size[o]
           effect == /\ name' = [name EXCEPT ![o] = len]
                     /\ UNCHANGED <<ports, number, rate, secret, asked, last, offered>>
<1>1. Option(good, effect)
  BY DEF handle_name_opt
<1>2. /\ stage = "options" /\ argc' \in 0..MaxArgs
      /\ OptionsInv' \/ (good /\ effect /\ stage' = "options")
  <2> HIDE DEF good, effect
  <2>1. good \in BOOLEAN /\ effect \in BOOLEAN
    BY DEF good, effect
  <2> QED  BY <1>1, <2>1, OptionCases
<1>3. CASE good /\ effect /\ stage' = "options"
  <2>1. len \in Nat /\ len < Size[o]
    BY <1>3, OptionsAssumption
  <2>2. name' \in [NameOpts -> Nat] /\ \A p \in NameOpts : name'[p] < Size[p]
    BY <1>3, <2>1 DEF OptionsInv, OptionsTypeOK
  <2>3. OptionsTypeOK'
    BY <1>2, <1>3, <2>2 DEF OptionsInv, OptionsTypeOK
  <2>4. TakenSoFar'
    BY <1>2, <1>3 DEF OptionsInv, TakenSoFar, Requested
  <2>5. name'["secret_file"] = name["secret_file"]
    BY <1>3 DEF OptionsInv, OptionsTypeOK, NameOpts
  <2>6. SecretsApart' /\ OneSecret'
    BY <1>2, <1>3, <2>5 DEF OptionsInv, SecretsApart, OneSecret
  <2> QED  BY <2>3, <2>4, <2>6 DEF OptionsInv
<1> QED  BY <1>2, <1>3

LEMMA SecretKeeps ==
    ASSUME OptionsInv, NEW len \in SecretLens, handle_secret_opt(len)
    PROVE  OptionsInv'
<1> DEFINE good == name.secret_file = 0 /\ len # Undecodable
           effect == /\ secret' = [len |-> len, from |-> "option"]
                     /\ offered' = IF len > 0 THEN offered \cup {"option"}
                                   ELSE offered \ {"option"}
                     /\ UNCHANGED <<ports, number, rate, name, asked, last>>
<1>1. Option(good, effect)
  BY DEF handle_secret_opt
<1>2. /\ stage = "options" /\ argc' \in 0..MaxArgs
      /\ OptionsInv' \/ (good /\ effect /\ stage' = "options")
  <2> HIDE DEF good, effect
  <2>1. good \in BOOLEAN /\ effect \in BOOLEAN
    BY DEF good, effect
  <2> QED  BY <1>1, <2>1, OptionCases
<1>3. CASE good /\ effect /\ stage' = "options"
  <2>1. len \in 0..MAX_SECRET
    BY <1>3, OptionsAssumption DEF SecretLens, Undecodable
  <2>2. OptionsTypeOK'
    BY <1>2, <1>3, <2>1 DEF OptionsInv, OptionsTypeOK
  <2>3. TakenSoFar'
    BY <1>2, <1>3 DEF OptionsInv, TakenSoFar, Requested
  <2>4. SecretsApart'
    BY <1>2, <1>3, <2>1 DEF OptionsInv, SecretsApart
  <2> QED  BY <1>3, <2>2, <2>3, <2>4 DEF OptionsInv, OneSecret
<1> QED  BY <1>2, <1>3

LEMMA SecretFileKeeps ==
    ASSUME OptionsInv, NEW len \in 0..Size["secret_file"], handle_secret_file_opt(len)
    PROVE  OptionsInv'
<1> DEFINE good == len < Size["secret_file"] /\ secret.len = 0
           effect == /\ name' = [name EXCEPT !.secret_file = len]
                     /\ offered' = IF len > 0 THEN offered \cup {"file"} ELSE offered \ {"file"}
                     /\ UNCHANGED <<ports, number, rate, secret, asked, last>>
<1>1. Option(good, effect)
  BY DEF handle_secret_file_opt
<1>2. /\ stage = "options" /\ argc' \in 0..MaxArgs
      /\ OptionsInv' \/ (good /\ effect /\ stage' = "options")
  <2> HIDE DEF good, effect
  <2>1. good \in BOOLEAN /\ effect \in BOOLEAN
    BY DEF good, effect
  <2> QED  BY <1>1, <2>1, OptionCases
<1>3. CASE good /\ effect /\ stage' = "options"
  <2>1. len \in Nat /\ len < Size["secret_file"] /\ "secret_file" \in NameOpts
    BY <1>3, OptionsAssumption DEF NameOpts
  <2>2. name' = [name EXCEPT !["secret_file"] = len] /\ name \in [NameOpts -> Nat]
    BY <1>3 DEF OptionsInv, OptionsTypeOK
  <2>3. name' \in [NameOpts -> Nat] /\ name'["secret_file"] = len
    BY <2>1, <2>2
  <2>4. ASSUME NEW p \in NameOpts PROVE name'[p] < Size[p]
    BY <2>1, <2>2 DEF OptionsInv, OptionsTypeOK
  <2>5. OptionsTypeOK'
    BY <1>2, <1>3, <2>3, <2>4 DEF OptionsInv, OptionsTypeOK
  <2>6. TakenSoFar'
    BY <1>2, <1>3 DEF OptionsInv, TakenSoFar, Requested
  <2>7. SecretsApart'
    BY <1>2, <1>3, <2>1, <2>3 DEF OptionsInv, SecretsApart
  <2> QED  BY <1>3, <2>5, <2>6, <2>7 DEF OptionsInv, OneSecret
<1> QED  BY <1>2, <1>3

LEMMA OtherKeeps ==
    ASSUME OptionsInv, NEW known \in BOOLEAN, OtherOpt(known)
    PROVE  OptionsInv'
<1> DEFINE good == known
           effect == UNCHANGED <<cfgVars, asked, last, offered>>
<1>1. Option(good, effect)
  BY DEF OtherOpt
<1>2. /\ stage = "options" /\ argc' \in 0..MaxArgs
      /\ OptionsInv' \/ (good /\ effect /\ stage' = "options")
  <2> HIDE DEF good, effect
  <2>1. good \in BOOLEAN /\ effect \in BOOLEAN
    BY DEF good, effect
  <2> QED  BY <1>1, <2>1, OptionCases
<1>3. CASE good /\ effect /\ stage' = "options"
  <2>1. /\ ports' = ports /\ number' = number /\ rate' = rate /\ name' = name
        /\ secret' = secret /\ asked' = asked /\ last' = last /\ offered' = offered
    BY <1>3 DEF cfgVars
  <2>2. OptionsTypeOK'
    BY <1>2, <1>3, <2>1 DEF OptionsInv, OptionsTypeOK
  <2>3. TakenSoFar'
    BY <1>2, <1>3, <2>1 DEF OptionsInv, TakenSoFar, Requested
  <2>4. SecretsApart' /\ OneSecret'
    BY <1>2, <1>3, <2>1 DEF OptionsInv, SecretsApart, OneSecret
  <2> QED  BY <2>2, <2>3, <2>4 DEF OptionsInv
<1> QED  BY <1>2, <1>3

LEMMA SecretFacts ==
    ASSUME OptionsTypeOK
    PROVE  name.secret_file \in Nat /\ secret.len \in Nat
<1>1. secret.len \in 0..MAX_SECRET /\ MAX_SECRET \in Nat
  BY OptionsAssumption DEF OptionsTypeOK
<1>2. name.secret_file \in Nat
  BY DEF OptionsTypeOK, NameOpts
<1> QED  BY <1>1, <1>2

(* The end of parse_daemon_args. *)
LEMMA EndKeeps ==
    ASSUME OptionsInv, OptionsEnd
    PROVE  OptionsInv'
<1>1. stage = "options" /\ argc' = argc
  BY DEF OptionsEnd
<1>2. argc' \in 0..MaxArgs
  BY <1>1 DEF OptionsInv, OptionsTypeOK
<1>3. CASE secret.len = 0 /\ name.secret_file = 0
  <2>1. Stop
    BY <1>3 DEF OptionsEnd
  <2> QED  BY <1>2, <2>1, StopKeeps
<1>4. CASE ~(secret.len = 0 /\ name.secret_file = 0)
  <2>1. /\ ports' = IF ports = <<>> THEN DefaultListeners ELSE ports
        /\ stage' = IF name.secret_file # 0 THEN "secret file" ELSE "run"
        /\ number' = number /\ rate' = rate /\ name' = name /\ secret' = secret
        /\ asked' = asked /\ last' = last /\ offered' = offered
    BY <1>4 DEF OptionsEnd
  <2>2. DefaultListeners \in Seq(Listeners) /\ Len(DefaultListeners) = 2
    <3> DEFINE a == [family |-> "ip", port |-> 2222]
               b == [family |-> "ip6", port |-> 2222]
    <3>1. 2222 \in 0..UINT16_MAX
      BY Limits, SMT
    <3>2. a \in Listeners /\ b \in Listeners
      BY <3>1 DEF Listeners
    <3>3. DefaultListeners = <<a, b>>
      BY DEF DefaultListeners, BothFamilies
    <3> HIDE DEF a, b
    <3> QED  BY <3>2, <3>3
  <2>3. ports' \in Seq(Listeners) /\ Len(ports') <= MAX_PORTS /\ ports' # <<>>
    <3>1. CASE ports = <<>>
      <4>1. DefaultListeners # <<>>
        BY <2>2, EmptySeq
      <4>2. 2 <= MAX_PORTS
        BY OptionsAssumption
      <4> QED  BY <2>1, <2>2, <3>1, <4>1, <4>2
    <3>2. CASE ports # <<>>
      BY <2>1, <3>2 DEF OptionsInv, OptionsTypeOK
    <3> QED  BY <3>1, <3>2
  <2>4. OptionsTypeOK'
    BY <1>2, <2>1, <2>3 DEF OptionsInv, OptionsTypeOK
  <2>5. TakenSoFar'
    <3>1. Requested' = Requested /\ Range(ports) = Requested /\ (ports = <<>> <=> asked = {})
      BY <1>1, <2>1 DEF OptionsInv, TakenSoFar, Requested
    <3>2. Range(ports') = IF asked' = {} THEN Range(DefaultListeners) ELSE Requested'
      BY <2>1, <3>1
    <3> QED  BY <2>1, <2>3, <3>2 DEF OptionsInv, TakenSoFar
  <2>6. name.secret_file \in Nat /\ secret.len \in Nat
    BY SecretFacts DEF OptionsInv
  <2>7. SecretsApart'
    <3>1. SecretsApart
      BY DEF OptionsInv
    <3>2. ASSUME stage' = "secret file" PROVE name.secret_file > 0
      <4>1. name.secret_file # 0
        BY <2>1, <3>2
      <4> QED  BY <2>6, <4>1
    <3> QED  BY <1>1, <2>1, <3>1, <3>2 DEF SecretsApart
  <2>8. OneSecret'
    <3>1. CASE name.secret_file # 0
      BY <2>1, <3>1 DEF OneSecret
    <3>2. CASE name.secret_file = 0
      <4>1. secret.len > 0 /\ ~(name.secret_file > 0)
        BY <1>4, <2>6, <3>2
      <4>2. offered = {"option"} /\ secret.from = "option"
        BY <1>1, <4>1 DEF OptionsInv, SecretsApart
      <4> QED  BY <2>1, <4>1, <4>2 DEF OneSecret
    <3> QED  BY <3>1, <3>2
  <2> QED  BY <2>4, <2>5, <2>7, <2>8 DEF OptionsInv
<1> QED  BY <1>3, <1>4

(* The secret file is read only when no other secret was given. *)
LEMMA ReadKeeps ==
    ASSUME OptionsInv, NEW len \in SecretLens, read_secret_file(len)
    PROVE  OptionsInv'
<1>1. stage = "secret file" /\ argc' = argc
  BY DEF read_secret_file
<1>2. argc' \in 0..MaxArgs
  BY <1>1 DEF OptionsInv, OptionsTypeOK
<1>3. CASE len = Undecodable
  <2>1. Stop
    BY <1>3 DEF read_secret_file
  <2> QED  BY <1>2, <2>1, StopKeeps
<1>4. CASE len # Undecodable
  <2>1. /\ secret' = [len |-> len, from |-> "file"] /\ stage' = "run"
        /\ ports' = ports /\ number' = number /\ rate' = rate /\ name' = name
        /\ asked' = asked /\ last' = last /\ offered' = offered
    BY <1>4 DEF read_secret_file
  <2>2. len \in 0..MAX_SECRET
    BY <1>4, OptionsAssumption DEF SecretLens, Undecodable
  <2>3. OptionsTypeOK'
    BY <1>2, <2>1, <2>2 DEF OptionsInv, OptionsTypeOK
  <2>4. TakenSoFar'
    BY <1>1, <2>1 DEF OptionsInv, TakenSoFar, Requested
  <2>5. SecretsApart'
    BY <2>1 DEF SecretsApart
  <2>6. offered = {"file"}
    <3>1. name.secret_file \in Nat /\ secret.len \in Nat
      BY SecretFacts DEF OptionsInv
    <3>2. SecretsApart
      BY DEF OptionsInv
    <3>3. name.secret_file > 0 /\ ~(secret.len > 0)
      <4>1. name.secret_file > 0 /\ (secret.len > 0 => name.secret_file = 0)
        BY <1>1, <3>2 DEF SecretsApart
      <4> QED  BY <3>1, <4>1
    <3> QED  BY <1>1, <3>2, <3>3 DEF SecretsApart
  <2>7. OneSecret'
    BY <2>1, <2>6 DEF OneSecret
  <2> QED  BY <2>3, <2>4, <2>5, <2>7 DEF OptionsInv
<1> QED  BY <1>3, <1>4

LEMMA OptionsStep ==
    ASSUME OptionsInv, OptionsNext
    PROVE  OptionsInv'
<1>1. CASE dispatch_one_opt
  BY <1>1, PortKeeps, NumberKeeps, RateKeeps, NameKeeps, SecretKeeps, SecretFileKeeps,
     OtherKeeps DEF dispatch_one_opt
<1> QED  BY <1>1, EndKeeps, ReadKeeps DEF OptionsNext

LEMMA OptionsStutter ==
    ASSUME OptionsInv, UNCHANGED optionVars
    PROVE  OptionsInv'
<1>1. /\ stage' = stage /\ argc' = argc /\ ports' = ports /\ number' = number
      /\ rate' = rate /\ name' = name /\ secret' = secret
      /\ asked' = asked /\ last' = last /\ offered' = offered
  BY DEF optionVars, cfgVars
<1> QED  BY <1>1 DEF OptionsInv, OptionsTypeOK, TakenSoFar, Requested, SecretsApart, OneSecret

-----------------------------------------------------------------------------
(* The configuration and the privileges of the daemon are as StartupInv    *)
(* says from main (src/main.c) to the event loop.                          *)
THEOREM StartsInOrder == StartupSpec => []StartupInv
<1>1. StartupInit => StartupInv
  BY OptionsBegin, PrivBegins DEF StartupInit, StartupInv, PrivInit
<1>2. StartupInv /\ [StartupNext]_startupVars => StartupInv'
  <2> SUFFICES ASSUME StartupInv, [StartupNext]_startupVars PROVE StartupInv'
    OBVIOUS
  <2>1. CASE Configure
    <3>1. stage # "run"
      BY <2>1 DEF Configure, OptionsNext, OptionsEnd, read_secret_file, dispatch_one_opt, Option,
                  handle_port_opt, handle_number_opt, handle_rate_limit_opt, handle_name_opt,
                  handle_secret_opt, handle_secret_file_opt, OtherOpt
    <3>2. call' = "setup"
      BY <2>1, <3>1 DEF Configure, StartupInv, privVars
    <3> QED  BY <2>1, <3>2, OptionsStep, PrivStutter DEF Configure, StartupInv
  <2>2. CASE daemon_run
    <3>1. stage' = "run" /\ ports' # <<>>
      BY <2>2 DEF daemon_run, optionVars, cfgVars, StartupInv, OptionsInv, TakenSoFar
    <3> QED  BY <2>2, <3>1, PrivStep, OptionsStutter DEF daemon_run, StartupInv
  <2>3. CASE UNCHANGED startupVars
    <3>1. UNCHANGED optionVars /\ UNCHANGED privVars
      BY <2>3 DEF startupVars
    <3>2. stage' = stage /\ ports' = ports /\ call' = call
      BY <3>1 DEF optionVars, cfgVars, privVars
    <3> QED  BY <3>1, <3>2, PrivStutter, OptionsStutter DEF StartupInv
  <2> QED  BY <2>1, <2>2, <2>3 DEF StartupNext
<1> QED  BY <1>1, <1>2, PTL DEF StartupSpec

(* The daemon that main (src/main.c) runs is configured as the command     *)
(* line says.                                                              *)
THEOREM ConfiguredAsAsked == StartupSpec => []AsAsked
<1>1. StartupInv => AsAsked
  BY DEF StartupInv, OptionsInv, TakenSoFar, AsAsked
<1> QED  BY <1>1, StartsInOrder, PTL

(* It uses the one secret that was offered (handle_secret_opt and          *)
(* handle_secret_file_opt, src/parse_opts.c).                              *)
THEOREM SecretAsOffered == StartupSpec => []OneSecret
<1>1. StartupInv => OneSecret
  BY DEF StartupInv, OptionsInv
<1> QED  BY <1>1, StartsInOrder, PTL

(* Whatever the kernel refuses, drop_privileges (src/privdrop.c) gives up  *)
(* what it was asked to.                                                   *)
THEOREM ServesConfined == StartupSpec => []Confined
<1>1. StartupInv => Confined
  BY DEF StartupInv, PrivInv, IdsDropped, CapsDropped, Guarded, Confined, GroupsSet, GidSet,
         UidSet, CapsSet
<1> QED  BY <1>1, StartsInOrder, PTL

(* And it keeps CAP_NET_ADMIN, without which the firewall is out of reach  *)
(* (src/privdrop.c), unless the kernel fails one of two calls.             *)
THEOREM ServesCapable == StartupSpec => []StillCapable
<1>1. ASSUME StartupInv, call = "serve", failed \cap {"keepcaps", "capset"} = {}
      PROVE  "net_admin" \in effective
  <2>1. CASE BeganAsRoot
    BY <1>1, <2>1 DEF StartupInv, PrivInv, CapsDropped, CapsSet
  <2>2. CASE ~BeganAsRoot
    BY <1>1, <2>2 DEF StartupInv, PrivInv, AsBegan
  <2> QED  BY <2>1, <2>2
<1>2. StartupInv => StillCapable
  BY <1>1 DEF StillCapable
<1> QED  BY <1>2, StartsInOrder, PTL
=============================================================================
