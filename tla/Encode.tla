------------------------------- MODULE Encode --------------------------------
(***************************************************************************)
(* secret_decode (src/encode.c): the three decoders of a secret's text,    *)
(* one step per group of characters.                                       *)
(*                                                                         *)
(* A character is what the decoder's lookup makes of it (hex_val, b32_val, *)
(* b64_val): its value, Pad for "=", or Bad.                               *)
(***************************************************************************)
EXTENDS Integers, Sequences

CONSTANTS
    MaxSecret,   \* *out_len, the size of the buffer for the secret
    LongBits     \* width of an unsigned long

(* The machines the releases are built for have one or the other. *)
ASSUME EncodeAssumption == MaxSecret \in Nat /\ LongBits \in {32, 64}

VARIABLES
    encoding,   \* what the prefix of the text says
    body,       \* the text behind the prefix
    i,          \* characters read
    out,        \* the bytes written
    verdict     \* "none" before, "decoding", "ok" or "error"

decodeVars == <<encoding, body, i, out, verdict>>

Pad == -2
Bad == -1

Width == [hex |-> 4, base32 |-> 5, base64 |-> 6]
Group == [hex |-> 2, base32 |-> 8, base64 |-> 4]
Encodings == DOMAIN Width

EncodeTypeOK ==
    /\ encoding \in Encodings
    /\ out \in Seq(0..255) /\ Len(out) <= MaxSecret
    /\ i \in 0..(Len(body) + 8)
    /\ verdict \in {"none", "decoding", "ok", "error"}

-----------------------------------------------------------------------------
(* The bits of characters of w bits each, the first character's highest    *)
(* bit first, and the j-th octet of them.                                  *)
Bit(vals, w, k) == (vals[(k - 1) \div w + 1] \div 2 ^ (w - 1 - ((k - 1) % w))) % 2

Octet(vals, w, j) ==
    LET b(k) == Bit(vals, w, 8 * (j - 1) + k)
    IN  128 * b(1) + 64 * b(2) + 32 * b(3) + 16 * b(4) + 8 * b(5) + 4 * b(6) + 2 * b(7) + b(8)

(* A group is put together in an unsigned long, and its first byte shifted *)
(* out of it.  32 bits cannot hold the 40 of a base32 group: they lose     *)
(* those of the first byte, and the shift by 32 is undefined, so that any  *)
(* byte may be written instead.                                            *)
FirstBytes(vals) ==
    IF encoding = "base32" /\ LongBits = 32 THEN 0..255 ELSE {Octet(vals, Width[encoding], 1)}

(* b32_fill_rest, b64_fill_rest *)
FillRest(vals, n) == [k \in 1..n |-> IF k <= Len(vals) THEN vals[k] ELSE 0]

(* The bytes that m characters of a group stand for; 0 is an error. *)
b32_tab == [m \in 0..8 |-> IF m \in {0, 1, 3, 6} THEN 0 ELSE (m * 5) \div 8]
B64_GROUP(m) == (m * 3) \div 4

GroupBytes(m) == IF encoding = "base32" THEN b32_tab[m] ELSE B64_GROUP(m)

(* A mutant: bits left over at the end of the text are nobody's business. *)
AnyLeftover(vals) == TRUE

(* base32_decode wants the bits behind the last byte to be zero. *)
NothingLeftOver(vals) ==
    LET m == Len(vals)
    IN  encoding = "base32" /\ m < 8 => vals[m] % 2 ^ (m * 5 - b32_tab[m] * 8) = 0

(* A mutant: room for one byte is taken for room for all. *)
RoomForFirst(n) == Len(out) < MaxSecret

Room(n) == Len(out) + n <= MaxSecret

-----------------------------------------------------------------------------
(* A failed hex: or b64: text is tried as base32, which stumbles on the    *)
(* colon of its prefix.                                                    *)
Refuse == verdict' = "error" /\ UNCHANGED <<encoding, body, i, out>>

Decoding == verdict = "decoding" /\ i < Len(body)

(* One turn of hex_decode's loop, and the odd digit behind it. *)
hex_decode ==
    /\ Decoding /\ encoding = "hex"
    /\ LET g == SubSeq(body, i + 1, IF i + 2 > Len(body) THEN Len(body) ELSE i + 2)
       IN IF (\E k \in DOMAIN g : g[k] < 0) \/ ~Room(1) THEN Refuse
          ELSE /\ out' = Append(out, Octet(FillRest(g, 2), 4, 1))
               /\ i' = i + Len(g)
               /\ UNCHANGED <<encoding, body, verdict>>

(* b32_read_group, b64_read_group: the characters up to the end of the     *)
(* group, of the text or to the first that has no value.                   *)
InGroup == {k \in 1..Group[encoding] : i + k <= Len(body)}
Leading == {k \in InGroup : \A l \in 1..k : body[i + l] >= 0}
Values == [k \in Leading |-> body[i + k]]

(* b32_skip_padding, b64_skip_padding: the rest of the group is padding,   *)
(* as far as the text goes.                                                *)
PaddedOut == \A k \in InGroup \ Leading : body[i + k] = Pad

(* One turn of the loop of base32_decode or base64_decode. *)
base_decode ==
    /\ Decoding /\ encoding # "hex"
    /\ LET n == GroupBytes(Len(Values))
           w == Width[encoding]
           vals == FillRest(Values, Group[encoding])
       IN IF n = 0 \/ ~PaddedOut \/ ~Room(n) \/ ~NothingLeftOver(Values) THEN Refuse
          ELSE /\ \E first \in FirstBytes(vals) :
                     out' = out \o [j \in 1..n |-> IF j = 1 THEN first ELSE Octet(vals, w, j)]
               /\ i' = i + IF InGroup = Leading THEN Len(Values) ELSE Group[encoding]
               /\ UNCHANGED <<encoding, body, verdict>>

DecodeEnd ==
    /\ verdict = "decoding" /\ i >= Len(body)
    /\ verdict' = "ok"
    /\ UNCHANGED <<encoding, body, i, out>>

(* secret_decode is called with a text. *)
secret_decode(text) ==
    /\ encoding' = text.encoding /\ body' = text.body
    /\ i' = 0 /\ out' = <<>> /\ verdict' = "decoding"

EncodeInit ==
    encoding = "base32" /\ body = <<>> /\ i = 0 /\ out = <<>> /\ verdict = "none"

EncodeNext == hex_decode \/ base_decode \/ DecodeEnd

-----------------------------------------------------------------------------
(* What a text means to secret_decode, read as one string of bits with no  *)
(* groups: its data are the characters before the first that has no value, *)
(* its bytes are their octets.  This is the dialect of src/encode.c and    *)
(* test/test_encode.c, where it differs from RFC 4648 and from section 3.1 *)
(* of DOMAIN.md: an odd hex digit counts with a zero behind it, not before *)
(* it (hex_odd_length); padding may be missing or short; whitespace is no  *)
(* part of base64; the bits that base64 leaves over may be set.            *)
DataLen ==
    CHOOSE n \in 0..Len(body) :
        (\A k \in 1..n : body[k] >= 0) /\ (n < Len(body) => body[n + 1] < 0)

Data == SubSeq(body, 1, DataLen)

Digits == IF encoding = "hex" /\ Len(Data) % 2 = 1 THEN Append(Data, 0) ELSE Data

Meaning ==
    [j \in 1..((Len(Digits) * Width[encoding]) \div 8) |-> Octet(Digits, Width[encoding], j)]

(* Padding comes last and is at most what the last group lacks, no whole   *)
(* character is left over, and base32 leaves no bit that is set.           *)
PaddingLast == \A k \in DOMAIN body : k > Len(Data) => body[k] = Pad

Readable ==
    LET w == Width[encoding]
        n == Len(Digits)
        spare == (n * w) % 8
        lacking == (Group[encoding] - (n % Group[encoding])) % Group[encoding]
    IN  /\ PaddingLast /\ Len(body) - Len(Data) <= lacking
        /\ encoding = "hex" => Data = body
        /\ spare < w
        /\ encoding = "base32" /\ n > 0 => Data[n] % 2 ^ spare = 0

(* Padding between two groups is let pass by the decoders. *)
PaddingInside == \E k, l \in DOMAIN body : k < l /\ body[k] = Pad /\ body[l] >= 0

(* Where a long has 32 bits, the first byte of every base32 group is lost. *)
Survives(j) == encoding = "base32" /\ LongBits = 32 => (j - 1) % 5 # 0

Alike(bytes, meant) ==
    Len(bytes) = Len(meant) /\ \A j \in 1..Len(meant) : Survives(j) => bytes[j] = meant[j]

(* The groups do not show: secret_decode (src/encode.c) takes exactly the  *)
(* texts of its dialect whose bytes fit, however they fall into groups,    *)
(* and gives the bytes they mean as one string, but for those that a long  *)
(* of 32 bits loses.                                                       *)
ReadAsOneString ==
    verdict \in {"ok", "error"} /\ ~PaddingInside =>
        /\ verdict = "ok" <=> Readable /\ Len(Meaning) <= MaxSecret
        /\ verdict = "ok" => Alike(out, Meaning)

(* Base32 as DOMAIN.md has it: what secret_decode (src/encode.c) takes     *)
(* decodes to the octets of RFC 4648.                                      *)
Base32AsWritten ==
    verdict = "ok" /\ encoding = "base32" /\ ~PaddingInside => out = Meaning

(* Between two steps the decoder has read whole groups of data, or all of  *)
(* a good text, or more padding than a text may have.                      *)
InData ==
    /\ i <= DataLen /\ i % Group[encoding] = 0
    /\ Alike(out, [j \in 1..((i * Width[encoding]) \div 8) |-> Octet(body, Width[encoding], j)])

AtEnd == i >= Len(body) /\ Readable /\ Alike(out, Meaning)

InExcess == DataLen < i /\ i < Len(body) /\ body[DataLen + 1] = Pad /\ ~Readable

DecodeInv ==
    /\ EncodeTypeOK /\ body \in Seq(Int)
    /\ verdict = "decoding" /\ ~PaddingInside => InData \/ AtEnd \/ InExcess
    /\ ReadAsOneString
=============================================================================
