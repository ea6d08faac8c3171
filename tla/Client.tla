------------------------------- MODULE Client --------------------------------
(***************************************************************************)
(* totpgate (src/client.c): from its command line to the one datagram it   *)
(* sends, with the secret's decoding (module Encode), the token's          *)
(* computation (src/totp.c, module Hmac), and the daemon's reading of the  *)
(* datagram (auth_parse, src/auth.c).                                      *)
(*                                                                         *)
(* A server's text is a sequence of brackets, colons, names and numerals.  *)
(***************************************************************************)
EXTENDS Encode, Hmac

CONSTANTS
    Texts,     \* texts of secrets: an encoding and characters
    Repeats,   \* bound: texts of a second --secret
    Hosts,     \* texts of hosts: sequences of names and colons
    Servers,   \* texts of the <server> argument
    Numerals,  \* the numbers in them: numeral -> its value
    Longs,     \* numbers that --port stands for
    Counters,  \* values of the time counter
    CounterLen,  \* bytes of counter_be
    Macs,      \* digests: sequences of DigestLen numbers
    Offsets,   \* the truncation starts at one of that many bytes
    MaxArgs    \* bound on the options of a command line

ASSUME ClientAssumption ==
    /\ Offsets \in Nat \ {0} /\ Offsets + 3 < DigestLen
    /\ \A t \in Texts : t.encoding \in Encodings /\ t.body \in Seq(Int)
    /\ \A s \in Servers : s \in Seq(STRING)
    /\ Counters \subseteq Nat /\ CounterLen \in Nat /\ MaxArgs \in Nat /\ Longs \subseteq Int
    /\ \A m \in Macs : m \in [1..DigestLen -> 0..255]

VARIABLES
    step,                      \* what the client does next
    argc,                      \* options read so far
    port, server, secret_given,  \* cfg
    text,                      \* the <server> argument
    counter, hashed, token,    \* of totp_generate
    sent, parsed,              \* the datagram, and what the daemon makes of it
    opted                      \* history: the port the options ask for

cfgVars == <<port, server, secret_given, text, opted>>
tokenVars == <<counter, hashed, token>>
clientVars == <<step, argc, cfgVars, tokenVars, sent, parsed, decodeVars>>

NoDatagram == [host |-> <<>>, port |-> 0, digits |-> <<>>]
NoHash == [key |-> <<>>, inner |-> <<>>, outer |-> <<>>]
UINT16_MAX == 65535
DefaultPort == 2222
TokenDigits == 6
MinTokenDigits == 6
MaxTokenDigits == 8
Unparsable == -1

-----------------------------------------------------------------------------
Exit == step' = "exit" /\ UNCHANGED cfgVars

ParsingOption == step = "options" /\ argc < MaxArgs /\ argc' = argc + 1

handle_port_opt(val) ==
    /\ ParsingOption
    /\ IF val \in 1..UINT16_MAX
       THEN /\ port' = val % (UINT16_MAX + 1) /\ opted' = val
            /\ UNCHANGED <<step, server, secret_given, text>>
       ELSE Exit
    /\ UNCHANGED <<tokenVars, sent, parsed, decodeVars>>

handle_secret_opt(t) ==
    /\ ParsingOption
    /\ verdict = "none" \/ t \in Repeats
    /\ secret_decode(t) /\ step' = "decode"
    /\ UNCHANGED <<cfgVars, tokenVars, sent, parsed>>

DecodeSecret ==
    /\ step = "decode" /\ EncodeNext
    /\ UNCHANGED <<step, argc, cfgVars, tokenVars, sent, parsed>>

(* An empty secret is a secret. *)
SecretDecoded ==
    /\ step = "decode" /\ verdict \in {"ok", "error"}
    /\ IF verdict = "ok"
       THEN step' = "options" /\ secret_given' = TRUE /\ UNCHANGED <<port, server, text, opted>>
       ELSE Exit
    /\ UNCHANGED <<argc, tokenVars, sent, parsed, decodeVars>>

(* --help, or an option it does not know. *)
OtherOpt ==
    /\ ParsingOption /\ Exit
    /\ UNCHANGED <<tokenVars, sent, parsed, decodeVars>>

-----------------------------------------------------------------------------
At(s, x) == {k \in DOMAIN s : s[k] = x}
Before(s, k) == SubSeq(s, 1, k - 1)
After(s, k) == SubSeq(s, k + 1, Len(s))

(* A mutant: the last colon is taken, whatever comes before it. *)
AtLastColon(s) == {<<Before(s, k), After(s, k)>> :
                      k \in {c \in At(s, ":") : At(After(s, c), ":") = {}}}

(* Without brackets, more than one colon makes the text an IPv6 address. *)
AtOnlyColon(s) == {<<Before(s, k), After(s, k)>> : k \in {c \in At(s, ":") : At(s, ":") = {c}}}

AtBracket(s) ==
    {<<SubSeq(s, 2, k - 1), After(s, k + 1)>> :
        k \in {c \in At(s, "]") : At(Before(s, c), "]") = {} /\ c < Len(s) /\ s[c + 1] = ":"}}

(* strtol on the rest of the text; what is no port is 0. *)
PortNumber(s) ==
    IF Len(s) = 1 /\ s[1] \in DOMAIN Numerals /\ Numerals[s[1]] \in 1..UINT16_MAX
    THEN Numerals[s[1]] ELSE 0

(* The host and the port a text has, if it has both. *)
parse_host_port(s) ==
    {hp \in IF s # <<>> /\ s[1] = "[" THEN AtBracket(s) ELSE AtOnlyColon(s) :
        PortNumber(hp[2]) # 0}

(* The end of parse_args: the argument that is left is the server, too     *)
(* long for its buffer perhaps.                                            *)
parse_server_arg(s) ==
    /\ step = "options"
    /\ \/ Exit                    \* no secret, no server, or too long a name
       \/ /\ secret_given
          /\ step' = "token" /\ text' = s
          /\ IF parse_host_port(s) = {} THEN server' = s /\ UNCHANGED port
             ELSE \E hp \in parse_host_port(s) : server' = hp[1] /\ port' = PortNumber(hp[2])
          /\ UNCHANGED <<secret_given, opted>>
    /\ UNCHANGED <<argc, tokenVars, sent, parsed, decodeVars>>

-----------------------------------------------------------------------------
(* hotp's dynamic truncation of a digest, and pow10(digits). *)
Truncated(mac) ==
    LET offset == mac[DigestLen] % Offsets
    IN  (mac[offset + 1] % 128) * 2 ^ 24 + mac[offset + 2] * 2 ^ 16 + mac[offset + 3] * 2 ^ 8
            + mac[offset + 4]

(* totp_generate: the digest may be any. *)
totp_generate(c, mac) ==
    /\ step = "token" /\ step' = "resolve"
    /\ counter' = c
    /\ hashed' = hmac_sha1(Bytes(out), BigEndian(c, CounterLen))
    /\ token' = Truncated(mac) % 10 ^ TokenDigits
    /\ UNCHANGED <<argc, cfgVars, sent, parsed, decodeVars>>

(* A mutant: as many digits as the number has. *)
PlainDigits(n) ==
    LET len == CHOOSE l \in 1..10 : n < 10 ^ l /\ (l = 1 \/ n >= 10 ^ (l - 1))
    IN  [k \in 1..len |-> (n \div 10 ^ (len - k)) % 10]

(* snprintf with "%06u", of a token of at most six digits. *)
Formatted(n) == [k \in 1..6 |-> (n \div 10 ^ (6 - k)) % 10]

(* getaddrinfo knows names and IPv6 addresses without brackets. *)
Resolve ==
    /\ step = "resolve"
    /\ step' \in IF server \in Hosts THEN {"send", "exit"} ELSE {"exit"}
    /\ UNCHANGED <<argc, cfgVars, tokenVars, sent, parsed, decodeVars>>

(* socket and sendto may fail; there is no second try. *)
Send ==
    /\ step = "send"
    /\ \/ /\ step' = "sent"
          /\ sent' = [host |-> server, port |-> port, digits |-> Formatted(token)]
       \/ step' = "exit" /\ UNCHANGED sent
    /\ UNCHANGED <<argc, cfgVars, tokenVars, parsed, decodeVars>>

(* auth_parse of the daemon: the datagram is decimal digits and nothing    *)
(* else.                                                                   *)
auth_parse(data) ==
    LET t[k \in 0..Len(data)] == IF k = 0 THEN 0 ELSE t[k - 1] * 10 + data[k]
    IN  IF Len(data) \in MinTokenDigits..MaxTokenDigits /\ \A k \in DOMAIN data : data[k] \in 0..9
        THEN t[Len(data)] ELSE Unparsable

Deliver ==
    /\ step = "sent" /\ step' = "exit"
    /\ parsed' = auth_parse(sent.digits)
    /\ UNCHANGED <<argc, cfgVars, tokenVars, sent, decodeVars>>

-----------------------------------------------------------------------------
ClientInit ==
    /\ step = "options" /\ argc = 0
    /\ port = DefaultPort /\ server = <<>> /\ secret_given = FALSE
    /\ text = <<>> /\ opted = DefaultPort
    /\ counter = 0 /\ hashed = NoHash /\ token = 0
    /\ sent = NoDatagram /\ parsed = Unparsable
    /\ EncodeInit

ClientNext ==
    \/ \E val \in Longs : handle_port_opt(val)
    \/ \E t \in Texts : handle_secret_opt(t)
    \/ DecodeSecret \/ SecretDecoded \/ OtherOpt
    \/ \E s \in Servers : parse_server_arg(s)
    \/ \E c \in Counters, mac \in Macs : totp_generate(c, mac)
    \/ Resolve \/ Send \/ Deliver

ClientSpec == ClientInit /\ [][ClientNext]_clientVars

-----------------------------------------------------------------------------
(* The secret stays within its buffer (secret_decode, src/encode.c), the   *)
(* port within a uint16_t and the token within its digits.                 *)
ClientTypeOK ==
    /\ EncodeTypeOK
    /\ step \in {"options", "decode", "token", "resolve", "send", "sent", "exit"}
    /\ port \in 1..UINT16_MAX /\ argc \in 0..MaxArgs
    /\ token \in 0..(10 ^ TokenDigits - 1)

(* The token is computed from what RFC 2104 and RFC 3174 hash for the      *)
(* decoded secret and the counter (hmac_sha1, src/hmac.c, and sha1_update  *)
(* and sha1_final, src/sha1.c): every byte once, in order, no byte of an   *)
(* earlier block or of uninitialized memory, for keys of every length.     *)
MacAsSpecified ==
    hashed # NoHash => AsSpecified(hashed, Bytes(out), BigEndian(counter, CounterLen))

(* The daemon reads (auth_parse, src/auth.c) the very token the client     *)
(* computed, leading zeros and all (client_run, src/client.c).             *)
TokenArrives == step = "exit" /\ sent # NoDatagram => parsed = token

(* How a server and a port are written: a host and a port behind a colon,  *)
(* in brackets if the host is an IPv6 address.                             *)
Written(s, host, n) ==
    \/ s = <<"[">> \o host \o <<"]", ":", n>>
    \/ s = host \o <<":", n>> /\ At(host, ":") = {}

(* The server and the port of cfg are those the command line asks for. *)
Addressed ==
    \/ text = server /\ port = opted
    \/ \E n \in DOMAIN Numerals : Written(text, server, n) /\ port = Numerals[n]

(* The datagram goes to the host as it was written and to the port written *)
(* with it, else to the one the options say (parse_server_arg,             *)
(* src/client.c).                                                          *)
SentWhereAsked ==
    sent # NoDatagram =>
        \/ text = sent.host /\ sent.port = opted
        \/ \E n \in DOMAIN Numerals :
              Written(text, sent.host, n) /\ sent.port = Numerals[n]

(* What each step of the client leaves for the next ones (parse_args and   *)
(* client_run, src/client.c): a decoder between two groups, a server and a *)
(* port as asked for, a hash of the secret as it is now, and a datagram    *)
(* that holds the token.                                                   *)
CfgAsAsked ==
    /\ step \in {"options", "decode"} => port = opted
    /\ step \in {"token", "resolve", "send"} => Addressed

HashOfSecret ==
    /\ step \in {"options", "decode", "token"} => hashed = NoHash
    /\ hashed # NoHash => hashed = hmac_sha1(Bytes(out), BigEndian(counter, CounterLen))

DatagramOfToken ==
    sent # NoDatagram =>
        /\ step \in {"sent", "exit"} /\ Addressed
        /\ sent = [host |-> server, port |-> port, digits |-> Formatted(token)]
        /\ step = "exit" => parsed = token

ClientInv == ClientTypeOK /\ DecodeInv /\ CfgAsAsked /\ HashOfSecret /\ DatagramOfToken
=============================================================================
