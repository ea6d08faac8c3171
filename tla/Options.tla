------------------------------- MODULE Options -------------------------------
(***************************************************************************)
(* The command line of totpgated (src/parse_opts.c), main's defaults and   *)
(* read_secret_file (src/main.c): what a daemon is configured with when    *)
(* daemon_run begins.                                                      *)
(*                                                                         *)
(* An argument is what its reader makes of it: a number is atol's result,  *)
(* a name its length, a secret the length it decodes to or Undecodable,    *)
(* an address its family or "invalid".                                     *)
(***************************************************************************)
EXTENDS Integers, Sequences, Functions

CONSTANTS
    MAX_PORTS,     \* size of cfg->ports
    MAX_SECRET,    \* size of cfg->secret
    Size,          \* size of the buffer of each option that takes a name
    Longs,         \* numbers that arguments stand for
    MaxArgs        \* bound on the options of a command line

NumberOpts == {"target_port", "timeout", "min_block", "max_block"}
NameOpts == {"iface", "user", "group", "secret_file"}

ASSUME OptionsAssumption ==
    /\ MAX_PORTS \in Nat \ {0, 1} /\ MAX_SECRET \in Nat \ {0} /\ MaxArgs \in Nat
    /\ Size \in [NameOpts -> Nat \ {0}]
    /\ Size["user"] > 1 /\ Size["group"] > 1    \* room for main's defaults
    /\ Longs \subseteq Int

VARIABLES
    stage,     \* of main: "options", "secret file", "run" or "exit"
    argc,      \* options read so far
    ports,     \* cfg->ports
    number,    \* the members of cfg that NumberOpts set
    rate,      \* cfg->rate_limit.max_fails and window
    name,      \* the lengths of the members that NameOpts set
    secret,    \* cfg->secret_len, and where the secret is from
    asked,     \* history: the ports asked for
    last,      \* history: the last number given for each option
    offered    \* history: what the last --secret and --secret-file offer

cfgVars == <<ports, number, rate, name, secret>>
optionVars == <<stage, argc, cfgVars, asked, last, offered>>

Undecodable == -1
UINT16_MAX == 65535
Day == 86400    \* in seconds
u16(n) == n % (UINT16_MAX + 1)

Defaults == [target_port |-> 22, timeout |-> 30, min_block |-> 300, max_block |-> Day]

Listeners == [family : {"ip", "ip6"}, port : 0..UINT16_MAX]

OptionsTypeOK ==
    /\ stage \in {"options", "secret file", "run", "exit"} /\ argc \in 0..MaxArgs
    /\ ports \in Seq(Listeners) /\ Len(ports) <= MAX_PORTS
    /\ number \in [NumberOpts -> Nat]
    /\ rate \in [max_fails : Nat \ {0}, window : Nat \ {0}]
    /\ name \in [NameOpts -> Nat] /\ \A o \in NameOpts : name[o] < Size[o]
    /\ secret \in [len : 0..MAX_SECRET, from : {"none", "option", "file"}]

-----------------------------------------------------------------------------
(* parse_daemon_args returns -1, or exits. *)
Stop == stage' = "exit" /\ UNCHANGED <<cfgVars, asked, last, offered>>

(* One turn of the getopt_long loop: the option is taken if it is good. *)
Option(good, effect) ==
    /\ stage = "options" /\ argc < MaxArgs
    /\ argc' = argc + 1
    /\ \/ good /\ effect /\ UNCHANGED stage
       \/ ~good /\ Stop

(* parse_addr_str splits [node:]port; a node that is no numeric address of *)
(* either family, or a missing bracket, is "invalid".                      *)
PortArgs == [node : {"none", "ip", "ip6", "invalid"}, val : Longs]

BothFamilies(port) == <<[family |-> "ip", port |-> port], [family |-> "ip6", port |-> port]>>

DefaultListeners == BothFamilies(2222)

(* A mutant: room for one is taken for room for two. *)
RoomForOne(arg) == Len(ports) < MAX_PORTS

RoomFor(arg) ==
    IF arg.node = "none" THEN Len(ports) < MAX_PORTS - 1 ELSE Len(ports) < MAX_PORTS

(* A port without an address stands for two listeners, one per family; one *)
(* with an address is resolved by parse_listen_addr.                       *)
Listening(arg) ==
    IF arg.node = "none" THEN BothFamilies(u16(arg.val))
    ELSE <<[family |-> arg.node, port |-> u16(arg.val)]>>

handle_port_opt(arg) ==
    Option(arg.node # "invalid" /\ arg.val \in 1..UINT16_MAX /\ RoomFor(arg),
           /\ ports' = ports \o Listening(arg)
           /\ asked' = asked \cup {arg}
           /\ UNCHANGED <<number, rate, name, secret, last, offered>>)

Limit == [target_port |-> UINT16_MAX, timeout |-> Day, min_block |-> Day, max_block |-> Day]

(* A mutant: one limit for all. *)
AnyInRange(o, val) == val \in 1..Day

InRange(o, val) == val \in 1..Limit[o]

(* handle_target_port_opt, handle_timeout_opt, handle_min_block_opt,       *)
(* handle_max_block_opt: the port goes through a uint16_t.                 *)
handle_number_opt(o, val) ==
    Option(InRange(o, val),
           /\ number' = [number EXCEPT ![o] = IF o = "target_port" THEN u16(val) ELSE val]
           /\ last' = [last EXCEPT ![o] = val]
           /\ UNCHANGED <<ports, rate, name, secret, asked, offered>>)

handle_rate_limit_opt(n, w) ==
    Option(n >= 1 /\ w >= 1,
           /\ rate' = [max_fails |-> n, window |-> w]
           /\ UNCHANGED <<ports, number, name, secret, asked, last, offered>>)

(* handle_interface_opt, handle_user_opt, handle_group_opt *)
handle_name_opt(o, len) ==
    Option(len < Size[o],
           /\ name' = [name EXCEPT ![o] = len]
           /\ UNCHANGED <<ports, number, rate, secret, asked, last, offered>>)

(* The secret text may be empty: it decodes to nothing, and counts as not  *)
(* given.                                                                  *)
handle_secret_opt(len) ==
    Option(name.secret_file = 0 /\ len # Undecodable,
           /\ secret' = [len |-> len, from |-> "option"]
           /\ offered' = IF len > 0 THEN offered \cup {"option"} ELSE offered \ {"option"}
           /\ UNCHANGED <<ports, number, rate, name, asked, last>>)

(* A mutant: only --secret looks whether the other was given. *)
SecretFileOverrides(len) ==
    Option(len < Size["secret_file"],
           /\ name' = [name EXCEPT !.secret_file = len]
           /\ offered' = IF len > 0 THEN offered \cup {"file"} ELSE offered \ {"file"}
           /\ UNCHANGED <<ports, number, rate, secret, asked, last>>)

handle_secret_file_opt(len) ==
    Option(len < Size["secret_file"] /\ secret.len = 0,
           /\ name' = [name EXCEPT !.secret_file = len]
           /\ offered' = IF len > 0 THEN offered \cup {"file"} ELSE offered \ {"file"}
           /\ UNCHANGED <<ports, number, rate, secret, asked, last>>)

(* --help and options it does not know; --foreground changes where the     *)
(* messages go.                                                            *)
OtherOpt(known) == Option(known, UNCHANGED <<cfgVars, asked, last, offered>>)

(* The end of parse_daemon_args, and what main does next. *)
OptionsEnd ==
    /\ stage = "options"
    /\ UNCHANGED argc
    /\ IF secret.len = 0 /\ name.secret_file = 0 THEN Stop
       ELSE /\ ports' = IF ports = <<>> THEN DefaultListeners ELSE ports
            /\ stage' = IF name.secret_file # 0 THEN "secret file" ELSE "run"
            /\ UNCHANGED <<number, rate, name, secret, asked, last, offered>>

(* read_secret_file: the file cannot be read or decoded, or it holds a     *)
(* secret of len bytes, none perhaps.                                      *)
read_secret_file(len) ==
    /\ stage = "secret file"
    /\ UNCHANGED argc
    /\ IF len = Undecodable THEN Stop
       ELSE /\ secret' = [len |-> len, from |-> "file"]
            /\ stage' = "run"
            /\ UNCHANGED <<ports, number, rate, name, asked, last, offered>>

-----------------------------------------------------------------------------
OptionsInit ==
    /\ stage = "options" /\ argc = 0
    /\ ports = <<>> /\ number = Defaults
    /\ rate = [max_fails |-> 5, window |-> 60]
    /\ name = [o \in NameOpts |-> IF o \in {"user", "group"} THEN 1 ELSE 0]
    /\ secret = [len |-> 0, from |-> "none"]
    /\ asked = {} /\ last = Defaults /\ offered = {}

SecretLens == {Undecodable} \cup 0..MAX_SECRET

dispatch_one_opt ==
    \/ \E arg \in PortArgs : handle_port_opt(arg)
    \/ \E o \in NumberOpts, val \in Longs : handle_number_opt(o, val)
    \/ \E n \in Longs \cap Nat, w \in Longs \cap Nat : handle_rate_limit_opt(n, w)
    \/ \E o \in NameOpts \ {"secret_file"} : \E len \in 0..Size[o] : handle_name_opt(o, len)
    \/ \E len \in SecretLens : handle_secret_opt(len)
    \/ \E len \in 0..Size["secret_file"] : handle_secret_file_opt(len)
    \/ \E known \in BOOLEAN : OtherOpt(known)

OptionsNext ==
    dispatch_one_opt \/ OptionsEnd \/ \E len \in SecretLens : read_secret_file(len)

-----------------------------------------------------------------------------
(* What asked stands for: a port without an address is listened to in both *)
(* families.                                                               *)
Requested ==
    UNION {{[family |-> f, port |-> arg.val] :
               f \in IF arg.node = "none" THEN {"ip", "ip6"} ELSE {arg.node}} :
           arg \in asked}

(* A daemon that runs (main, src/main.c) is configured with what the       *)
(* command line last said: no number was cut by a cast, each port without  *)
(* an address is listened to in both families, no other port is, and the   *)
(* defaults stand where nothing was said.                                  *)
AsAsked ==
    stage = "run" =>
        /\ number = last
        /\ Range(ports) = IF asked = {} THEN Range(DefaultListeners) ELSE Requested

(* A daemon that runs uses the one secret the command line offers, never   *)
(* one of two (handle_secret_opt and handle_secret_file_opt,               *)
(* src/parse_opts.c), and one given on the command line is not empty.      *)
OneSecret ==
    stage = "run" => offered = {secret.from} /\ (secret.from = "option" => secret.len > 0)

(* The members of cfg hold what was taken so far, and nothing else. *)
TakenSoFar ==
    /\ number = last
    /\ stage = "options" => Range(ports) = Requested /\ (ports = <<>> <=> asked = {})
    /\ stage \in {"secret file", "run"} =>
          /\ ports # <<>>
          /\ Range(ports) = IF asked = {} THEN Range(DefaultListeners) ELSE Requested

(* There is a secret, the name of a secret file, or neither yet. *)
SecretsApart ==
    /\ stage \in {"options", "secret file"} =>
          /\ offered \subseteq {"option", "file"}
          /\ "option" \in offered <=> secret.len > 0
          /\ "file" \in offered <=> name.secret_file > 0
          /\ secret.len > 0 => secret.from = "option" /\ name.secret_file = 0
    /\ stage = "secret file" => name.secret_file > 0

OptionsInv == OptionsTypeOK /\ TakenSoFar /\ SecretsApart /\ OneSecret
=============================================================================
