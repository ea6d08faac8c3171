------------------------------ MODULE PrivDrop -------------------------------
(***************************************************************************)
(* drop_privileges (src/privdrop.c) and install_seccomp (src/seccomp.c),   *)
(* one step per system call, with what the kernel does to the identity and *)
(* the capabilities of the process.  Refusals with EPERM are passed over,  *)
(* so the order of the calls decides what is really given up.              *)
(***************************************************************************)
EXTENDS Integers

CONSTANTS
    Root, Invoker, Nobody,   \* user and group ids; Nobody is 65534
    User                     \* of a daemon account

Ids == {Root, Invoker, Nobody, User}
Caps == {"setuid", "setgid", "net_admin", "other"}

ASSUME PrivAssumption == Root \notin {Invoker, Nobody, User}

VARIABLES
    call,                  \* the system call that comes next
    ruid, euid, gid, groups,
    permitted, effective,  \* capability sets
    keepcaps, no_new_privs, filtered,
    uid, wanted_gid,       \* what lookup_user_group found
    failed,                \* history: calls the kernel failed for its own reasons
    began                  \* history: the identity daemon_run began with

ids == <<ruid, euid, gid, groups>>
caps == <<permitted, effective>>
flags == <<keepcaps, no_new_privs, filtered>>
privVars == <<call, ids, caps, flags, uid, wanted_gid, failed, began>>

Calls == {"setup", "getuid", "keepcaps", "setgroups", "setgid", "setuid", "capset",
          "no_new_privs", "seccomp", "serve", "exit"}

PrivTypeOK ==
    /\ call \in Calls
    /\ ruid \in Ids /\ euid \in Ids /\ gid \in Ids /\ groups \in SUBSET Ids
    /\ permitted \subseteq Caps /\ effective \subseteq permitted
    /\ keepcaps \in BOOLEAN /\ no_new_privs \in BOOLEAN /\ filtered \in BOOLEAN
    /\ uid \in Ids /\ wanted_gid \in Ids
    /\ failed \subseteq Calls

-----------------------------------------------------------------------------
(* The kernel may fail a call for reasons of its own. *)
Fails == failed' = failed \cup {call}
Works == UNCHANGED failed

(* daemon_setup needs CAP_NET_ADMIN to get through. *)
SetupDone ==
    /\ call = "setup"
    /\ call' = IF "net_admin" \in effective THEN "getuid" ELSE "exit"
    /\ UNCHANGED <<ids, caps, flags, uid, wanted_gid, failed, began>>

(* Without root nothing is dropped; with it the user and the group are     *)
(* looked up, 65534 standing for those that are not known.                 *)
lookup_user_group ==
    /\ call = "getuid"
    /\ IF ruid # Root /\ euid # Root
       THEN /\ call' = "seccomp" /\ no_new_privs' \in BOOLEAN
            /\ failed' = IF no_new_privs' THEN failed ELSE failed \cup {"no_new_privs"}
            /\ UNCHANGED <<uid, wanted_gid>>
       ELSE /\ call' = "keepcaps"
            /\ uid' \in {Root, Nobody, User} /\ wanted_gid' \in {Root, Nobody, User}
            /\ UNCHANGED <<no_new_privs, failed>>
    /\ UNCHANGED <<ids, caps, keepcaps, filtered, began>>

SetKeepcaps ==
    /\ call = "keepcaps" /\ call' = "setgroups"
    /\ \/ Works /\ keepcaps' = TRUE
       \/ Fails /\ UNCHANGED keepcaps
    /\ UNCHANGED <<ids, caps, no_new_privs, filtered, uid, wanted_gid, began>>

(* A call of drop_ids: it works, is refused with EPERM, which changes      *)
(* nothing, or fails otherwise, which ends the daemon.                     *)
DropCall(name, next, allowed, effect) ==
    /\ call = name
    /\ \/ allowed /\ effect /\ Works /\ call' = next
       \/ ~allowed /\ UNCHANGED <<ids, caps>> /\ Works /\ call' = next
       \/ UNCHANGED <<ids, caps>> /\ Fails /\ call' = "exit"
    /\ UNCHANGED <<flags, uid, wanted_gid, began>>

(* A user namespace may deny setgroups to a process with CAP_SETGID. *)
setgroups ==
    DropCall("setgroups", "setgid", "setgid" \in effective /\ began.setgroups,
             groups' = {wanted_gid} /\ UNCHANGED <<ruid, euid, gid, caps>>)

setgid(name, next) ==
    DropCall(name, next, "setgid" \in effective,
             gid' = wanted_gid /\ UNCHANGED <<ruid, euid, groups, caps>>)

(* When the last of a process's ids stops being root, it keeps permitted   *)
(* capabilities by PR_SET_KEEPCAPS only, effective ones never.             *)
setuid(name, next) ==
    DropCall(name, next, "setuid" \in effective,
             /\ ruid' = uid /\ euid' = uid
             /\ permitted' = IF uid = Root \/ keepcaps THEN permitted ELSE {}
             /\ effective' = IF uid = Root THEN effective ELSE {}
             /\ UNCHANGED <<gid, groups>>)

(* A mutant: the user before the group. *)
drop_ids_swapped ==
    setgroups \/ setuid("setgid", "setuid") \/ setgid("setuid", "capset")

drop_ids == setgroups \/ setgid("setgid", "setuid") \/ setuid("setuid", "capset")

(* A mutant: the effective set is left as it is. *)
CapsetPermitted ==
    /\ call = "capset" /\ call' = "no_new_privs"
    /\ \/ Works /\ permitted' = {"net_admin"} /\ effective' = effective \cap {"net_admin"}
       \/ Fails /\ UNCHANGED caps
    /\ UNCHANGED <<ids, flags, uid, wanted_gid, began>>

(* capget and capset: CAP_NET_ADMIN alone, if it is still permitted. *)
Capset ==
    /\ call = "capset" /\ call' = "no_new_privs"
    /\ \/ /\ Works
          /\ IF "net_admin" \in permitted
             THEN permitted' = {"net_admin"} /\ effective' = {"net_admin"}
             ELSE UNCHANGED caps
       \/ Fails /\ UNCHANGED caps
    /\ UNCHANGED <<ids, flags, uid, wanted_gid, began>>

SetNoNewPrivs ==
    /\ call = "no_new_privs" /\ call' = "seccomp"
    /\ \/ Works /\ no_new_privs' = TRUE
       \/ Fails /\ UNCHANGED no_new_privs
    /\ UNCHANGED <<ids, caps, keepcaps, filtered, uid, wanted_gid, began>>

(* The kernel takes a filter from a process that can gain no privileges,   *)
(* or has many; without one the daemon serves all the same.                *)
install_seccomp ==
    /\ call = "seccomp" /\ call' = "serve"
    /\ \/ Works /\ filtered' = (no_new_privs \/ "other" \in effective)
       \/ Fails /\ UNCHANGED filtered
    /\ UNCHANGED <<ids, caps, keepcaps, no_new_privs, uid, wanted_gid, began>>

-----------------------------------------------------------------------------
(* Started by root, by root without some capabilities (a container), from  *)
(* a set-user-id binary, or by a user with file capabilities; in a         *)
(* namespace that allows setgroups or not.                                 *)
Starts ==
    {[ruid |-> r, euid |-> e, caps |-> c, setgroups |-> s] :
        r \in {Root, Invoker}, e \in {Root, Invoker}, s \in BOOLEAN,
        c \in {Caps, {"net_admin"}, Caps \ {"setuid"}, Caps \ {"setgid"}, {}}}

PrivInit ==
    /\ call = "setup"
    /\ began \in Starts
    /\ began.euid = Root \/ began.ruid = Invoker
    /\ ruid = began.ruid /\ euid = began.euid
    /\ gid = ruid /\ groups = {ruid}    \* a user's group has his number
    /\ permitted = began.caps /\ effective = began.caps
    /\ keepcaps = FALSE /\ no_new_privs = FALSE /\ filtered = FALSE
    /\ uid = Root /\ wanted_gid = Root
    /\ failed = {}

drop_privileges ==
    lookup_user_group \/ SetKeepcaps \/ drop_ids \/ Capset \/ SetNoNewPrivs

PrivNext == SetupDone \/ drop_privileges \/ install_seccomp

-----------------------------------------------------------------------------
BeganAsRoot == Root \in {began.ruid, began.euid}

(* A daemon that began as root, able to change its ids, serves with the    *)
(* user and the groups it was told and no capability but CAP_NET_ADMIN     *)
(* (drop_privileges, src/privdrop.c), though it passes over refusals with  *)
(* EPERM; it keeps the groups of a namespace that lets nobody leave them,  *)
(* and the filter is there unless the kernel would not have it.            *)
Confined ==
    call = "serve" =>
        /\ BeganAsRoot /\ "setuid" \in began.caps => ruid = uid /\ euid = uid
        /\ BeganAsRoot /\ "setgid" \in began.caps =>
              gid = wanted_gid /\ (began.setgroups => groups = {wanted_gid})
        /\ BeganAsRoot /\ "capset" \notin failed => permitted \subseteq {"net_admin"}
        /\ filtered \/ failed \cap {"no_new_privs", "seccomp"} # {}

(* A daemon that serves can still change the firewall: CAP_NET_ADMIN       *)
(* survives the change of ids (PR_SET_KEEPCAPS and capset,                 *)
(* src/privdrop.c) unless the kernel fails one of the calls that keep it.  *)
StillCapable ==
    call = "serve" /\ failed \cap {"keepcaps", "capset"} = {} => "net_admin" \in effective

(* The values of call when the calls up to one of them have been made. *)
CapsSet == {"no_new_privs", "seccomp", "serve"}
UidSet == {"capset"} \cup CapsSet
GidSet == {"setuid"} \cup UidSet
GroupsSet == {"setgid"} \cup GidSet
KeepcapsSet == {"setgroups"} \cup GroupsSet

(* Until setuid the process is the one that began; one that is not root's  *)
(* stays so to the end, and only one with CAP_NET_ADMIN gets past setup.   *)
AsBegan ==
    /\ began \in Starts
    /\ call \notin UidSet \cup {"exit"} \/ ~BeganAsRoot =>
          /\ ruid = began.ruid /\ euid = began.euid
          /\ permitted = began.caps /\ effective = began.caps
    /\ ~BeganAsRoot => call \in {"setup", "getuid", "seccomp", "serve", "exit"}
    /\ call \notin {"setup", "exit"} => "net_admin" \in began.caps

(* What drop_ids has given up by each of its calls. *)
IdsDropped ==
    BeganAsRoot =>
        /\ call \in GroupsSet /\ "setgid" \in began.caps /\ began.setgroups =>
              groups = {wanted_gid}
        /\ call \in GidSet /\ "setgid" \in began.caps => gid = wanted_gid
        /\ call \in UidSet /\ "setuid" \in began.caps => ruid = uid /\ euid = uid

(* CAP_NET_ADMIN and the rest are all permitted before capset, or none is  *)
(* and PR_SET_KEEPCAPS has failed.                                         *)
CapsDropped ==
    BeganAsRoot =>
        /\ call \in KeepcapsSet => keepcaps \/ "keepcaps" \in failed
        /\ call = "capset" /\ permitted # began.caps => permitted = {} /\ "keepcaps" \in failed
        /\ call \in CapsSet =>
              /\ "capset" \notin failed => permitted \subseteq {"net_admin"}
              /\ failed \cap {"keepcaps", "capset"} = {} => "net_admin" \in effective

Guarded ==
    /\ call \in {"seccomp", "serve"} => no_new_privs \/ "no_new_privs" \in failed
    /\ call = "serve" => filtered \/ failed \cap {"no_new_privs", "seccomp"} # {}

PrivInv == PrivTypeOK /\ AsBegan /\ IdsDropped /\ CapsDropped /\ Guarded
=============================================================================
