-------------------------------- MODULE Hmac ---------------------------------
(***************************************************************************)
(* The framing of SHA-1 and HMAC (src/sha1.c, src/hmac.c): how bytes get   *)
(* through the block buffer to process_block, and which bytes hmac_sha1    *)
(* hashes.  The compression itself is left out: a context keeps the blocks *)
(* it has processed instead of the words H, and a digest is symbolic.      *)
(*                                                                         *)
(* A byte is where it is from, its value there, and the pads it was xored  *)
(* with an odd number of times.                                            *)
(***************************************************************************)
EXTENDS Integers, Sequences

CONSTANTS
    BlockLen,    \* SHA1_BLOCK_LEN
    DigestLen,   \* SHA1_DIGEST_LEN
    LengthLen    \* bytes of the length at the end of the last block

ASSUME HmacAssumption ==
    /\ BlockLen \in Nat /\ DigestLen \in Nat /\ LengthLen \in Nat
    /\ 0 < LengthLen /\ LengthLen < BlockLen /\ DigestLen <= BlockLen

Byte(n) == <<"byte", n, {}>>
Bytes(s) == [k \in DOMAIN s |-> Byte(s[k])]
Digest(of) == [k \in 1..DigestLen |-> <<of, k, {}>>]
Zeros(n) == [k \in 1..n |-> Byte(0)]
BigEndian(n, len) == [k \in 1..len |-> Byte((n \div 256 ^ (len - k)) % 256)]

-----------------------------------------------------------------------------
(* memcpy of data to buf + at *)
Copied(buf, at, data) ==
    [k \in 1..BlockLen |-> IF k - at \in DOMAIN data THEN data[k - at] ELSE buf[k]]

(* A context on the stack: what its buffer holds is undefined. *)
Uninitialized == [k \in 1..BlockLen |-> <<"undefined", k, {}>>]

sha1_init(buf) == [count |-> 0, buf |-> buf, done |-> <<>>]

process_block(ctx) == [ctx EXCEPT !.done = @ \o ctx.buf]

(* The whole blocks of data, and what remains at the start of the buffer. *)
WholeBlocks(ctx, data) ==
    LET whole == (Len(data) \div BlockLen) * BlockLen
        full == IF whole = 0 THEN ctx.buf ELSE SubSeq(data, whole - BlockLen + 1, whole)
    IN  [ctx EXCEPT !.done = @ \o SubSeq(data, 1, whole),
                    !.buf = Copied(full, 0, SubSeq(data, whole + 1, Len(data)))]

sha1_update(ctx, data) ==
    LET idx == ctx.count % BlockLen
        avail == BlockLen - idx
        counted == [ctx EXCEPT !.count = @ + Len(data)]
    IN  IF idx > 0 /\ Len(data) < avail
        THEN [counted EXCEPT !.buf = Copied(@, idx, data)]
        ELSE IF idx > 0
        THEN WholeBlocks(process_block([counted EXCEPT !.buf = Copied(@, idx, SubSeq(data, 1, avail))]),
                         SubSeq(data, avail + 1, Len(data)))
        ELSE WholeBlocks(counted, data)

(* A mutant: the byte 0x80 is not counted when the length is to fit. *)
FinalForgetsMark(ctx) ==
    LET idx == ctx.count % BlockLen
        marked == [ctx EXCEPT !.buf = Copied(@, idx, <<Byte(128)>>)]
        room == BlockLen - LengthLen
        flushed == process_block([marked EXCEPT !.buf = Copied(@, idx + 1, Zeros(BlockLen - idx - 1))])
        last == IF idx > room THEN Copied(flushed.buf, 0, Zeros(room))
                ELSE Copied(marked.buf, idx + 1, Zeros(room - idx - 1))
    IN  process_block([IF idx > room THEN flushed ELSE marked
                          EXCEPT !.buf = Copied(last, room, BigEndian(ctx.count * 8, LengthLen))])

(* The mark, zeros up to the length, and the length in bits, in one block  *)
(* or two.                                                                 *)
sha1_final(ctx) ==
    LET idx == (ctx.count % BlockLen) + 1
        marked == [ctx EXCEPT !.buf = Copied(@, idx - 1, <<Byte(128)>>)]
        room == BlockLen - LengthLen
        flushed == process_block([marked EXCEPT !.buf = Copied(@, idx, Zeros(BlockLen - idx))])
        last == IF idx > room THEN Copied(flushed.buf, 0, Zeros(room))
                ELSE Copied(marked.buf, idx, Zeros(room - idx))
    IN  process_block([IF idx > room THEN flushed ELSE marked
                          EXCEPT !.buf = Copied(last, room, BigEndian(ctx.count * 8, LengthLen))])

sha1(data) == sha1_final(sha1_update(sha1_init(Uninitialized), data))

-----------------------------------------------------------------------------
Xored(k, p) ==
    [b \in DOMAIN k |-> <<k[b][1], k[b][2], IF p \in k[b][3] THEN k[b][3] \ {p} ELSE k[b][3] \cup {p}>>]

BlockKey(key) ==
    IF Len(key) > BlockLen THEN Digest("key") \o Zeros(BlockLen - DigestLen)
    ELSE key \o Zeros(BlockLen - Len(key))

(* hmac_sha1: what it hashes, in the order of its calls.  One context      *)
(* serves both hashes, the buffer with what the first left in it.          *)
hmac_sha1(key, msg) ==
    LET ipad == Xored(BlockKey(key), "36")
        inner == sha1_final(sha1_update(sha1_update(sha1_init(Uninitialized), ipad), msg))
        opad == Xored(Xored(ipad, "36"), "5c")
        outer == sha1_final(sha1_update(sha1_update(sha1_init(inner.buf), opad), Digest("inner")))
    IN  [key |-> IF Len(key) > BlockLen THEN sha1(key).done ELSE <<>>,
         inner |-> inner.done, outer |-> outer.done]

-----------------------------------------------------------------------------
(* RFC 3174: a message, padded to whole blocks with its length at the end. *)
Padded(msg) ==
    LET zeros == (2 * BlockLen - LengthLen - 1 - (Len(msg) % BlockLen)) % BlockLen
    IN  msg \o <<Byte(128)>> \o Zeros(zeros) \o BigEndian(Len(msg) * 8, LengthLen)

(* RFC 2104: H(K xor opad, H(K xor ipad, msg)). *)
AsSpecified(hashed, key, msg) ==
    LET K == IF Len(key) > BlockLen THEN Digest("key") \o Zeros(BlockLen - DigestLen)
             ELSE key \o Zeros(BlockLen - Len(key))
        With(p) == [b \in DOMAIN K |-> <<K[b][1], K[b][2], {p}>>]
    IN  /\ Len(key) > BlockLen => hashed.key = Padded(key)
        /\ hashed.inner = Padded(With("36") \o msg)
        /\ hashed.outer = Padded(With("5c") \o Digest("inner"))
=============================================================================
