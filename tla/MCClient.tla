------------------------------ MODULE MCClient -------------------------------
(***************************************************************************)
(* An instance of the client for TLC.                                      *)
(***************************************************************************)
EXTENDS Client, SequencesExt

Text(e, s) == [encoding |-> e, body |-> s]

(* All ways to end a group: data whose last character has its lowest or    *)
(* its highest bit set, then padding.                                      *)
Endings(group, values) ==
    {[k \in 1..n |-> (7 * k) % 32] \o <<v>> \o [k \in 1..p |-> Pad] :
        n \in 0..group, v \in values, p \in 0..group}

(* Anything that a decoder may meet, and a group in front of it. *)
Anything == BoundedSeq({1, 3, Pad, Bad}, 3)

MCTexts ==
    {Text("base32", s) : s \in Endings(8, {1, 16})}
    \cup {Text("base64", s) : s \in Endings(4, {1, 32})}
    \cup {Text("hex", s) : s \in BoundedSeq({1, 8}, 4)}
    \cup {Text("hex", [k \in 1..n |-> k % 16]) : n \in 0..(2 * MaxSecret + 2)}
    \cup {Text("base64", [k \in 1..n |-> k]) : n \in 4..(2 * MaxSecret)}
    \cup {Text("base32", [k \in 1..8 |-> 21] \o s) : s \in Anything}
    \cup {Text("base64", [k \in 1..4 |-> 25] \o s) : s \in Anything}
    \cup {Text("hex", [k \in 1..2 |-> 11] \o s) : s \in Anything}

(* One whole group of base32. *)
OneGroup == {Text("base32", [k \in 1..8 |-> 3 * k])}

MCRepeats == {Text("hex", <<>>), Text("base64", <<1, 2, 3, 4>>)}

MCHosts == {<<"h">>, <<":", ":", "h">>, <<":", ":", "h", ":", "n22">>}

MCNumerals == [n22 |-> 22, n0 |-> 0]

MCServers ==
    MCHosts \cup {<<"[">> \o h \o <<"]", ":", n>> : h \in MCHosts, n \in DOMAIN MCNumerals}
    \cup {h \o <<":", n>> : h \in MCHosts, n \in DOMAIN MCNumerals}
    \cup {<<"[", ":", ":", "h", "]">>, <<":", ":", "n22">>, <<"[", "h", ":", "n22">>}

MCMacs == {[k \in 1..DigestLen |-> n] : n \in {0, 255}}
    \cup {[k \in 1..DigestLen |-> IF k = DigestLen THEN 1 ELSE 40 * k]}
=============================================================================
