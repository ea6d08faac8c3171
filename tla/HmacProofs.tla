----------------------------- MODULE HmacProofs ------------------------------
(***************************************************************************)
(* Proofs about the framing of SHA-1 and HMAC, for every length of the     *)
(* block, the digest, the key and the message.                             *)
(***************************************************************************)
EXTENDS Hmac, SequenceTheorems, TLAPS

(* Facts on quotients and remainders of the block's length. *)
LEMMA DivMod ==
    ASSUME NEW a \in Nat
    PROVE  /\ a \div BlockLen \in Nat /\ a % BlockLen \in Nat /\ a % BlockLen < BlockLen
           /\ a = (a \div BlockLen) * BlockLen + (a % BlockLen)
BY HmacAssumption

LEMMA Multiples ==
    ASSUME NEW x \in Int, NEW y \in Int, x < y, NEW b \in Nat
    PROVE  x * b + b <= y * b
<1>1. y - x - 1 \in Nat
  OBVIOUS
<1>2. (y - x - 1) * b >= 0
  BY <1>1
<1>3. (y - x - 1) * b = y * b - x * b - b
  OBVIOUS
<1>4. x * b \in Int /\ y * b \in Int
  OBVIOUS
<1> QED  BY <1>2, <1>3, <1>4

LEMMA ModUnique ==
    ASSUME NEW a \in Nat, NEW q \in Int, NEW r \in Nat, r < BlockLen, a = q * BlockLen + r
    PROVE  a % BlockLen = r /\ a \div BlockLen = q
<1> DEFINE p == a \div BlockLen
           s == a % BlockLen
<1>1. p \in Int /\ s \in Nat /\ s < BlockLen /\ a = p * BlockLen + s /\ BlockLen \in Nat
  BY DivMod, HmacAssumption
<1> HIDE DEF p, s
<1>2. p * BlockLen \in Int /\ q * BlockLen \in Int
  BY <1>1
<1>3. ~(p < q)
  BY <1>1, <1>2, Multiples
<1>4. ~(q < p)
  BY <1>1, <1>2, Multiples
<1>5. p = q
  BY <1>1, <1>3, <1>4
<1>6. s = r
  BY <1>1, <1>2, <1>5
<1> QED  BY <1>5, <1>6 DEF p, s

(* What is left over of two parts is left over of the remainders. *)
LEMMA ModAdd ==
    ASSUME NEW a \in Nat, NEW b \in Nat
    PROVE  (a + b) % BlockLen = ((a % BlockLen) + b) % BlockLen
<1> DEFINE r == a % BlockLen
           q == a \div BlockLen
           s == (r + b) % BlockLen
           p == (r + b) \div BlockLen
<1>1. q \in Nat /\ r \in Nat /\ a = q * BlockLen + r /\ BlockLen \in Nat
  BY DivMod, HmacAssumption
<1>2. p \in Nat /\ s \in Nat /\ s < BlockLen /\ r + b = p * BlockLen + s
  <2> HIDE DEF r
  <2> QED  BY <1>1, DivMod
<1> HIDE DEF p, q, r, s
<1>3. (q + p) * BlockLen = q * BlockLen + p * BlockLen
  BY <1>1, <1>2
<1>4. q * BlockLen \in Int /\ p * BlockLen \in Int /\ (q + p) \in Int
  BY <1>1, <1>2
<1>5. a + b = (q + p) * BlockLen + s
  BY <1>1, <1>2, <1>3, <1>4
<1>6. (a + b) % BlockLen = s
  BY <1>2, <1>4, <1>5, ModUnique
<1> QED  BY <1>6 DEF s, r

(* A whole block more makes no difference. *)
LEMMA ModBlock ==
    ASSUME NEW a \in Nat
    PROVE  (BlockLen + a) % BlockLen = a % BlockLen
<1> DEFINE r == a % BlockLen
           q == a \div BlockLen
<1>1. q \in Nat /\ r \in Nat /\ r < BlockLen /\ a = q * BlockLen + r /\ BlockLen \in Nat
  BY DivMod, HmacAssumption
<1> HIDE DEF q, r
<1>2. q * BlockLen \in Int /\ (q + 1) * BlockLen = q * BlockLen + BlockLen
  BY <1>1
<1>3. BlockLen + a = (q + 1) * BlockLen + r /\ q + 1 \in Int /\ BlockLen + a \in Nat
  BY <1>1, <1>2
<1> QED  BY <1>1, <1>3, ModUnique DEF r

LEMMA ModLe ==
    ASSUME NEW a \in Nat
    PROVE  a % BlockLen <= a
<1> DEFINE q == a \div BlockLen
           r == a % BlockLen
<1>1. q \in Nat /\ r \in Nat /\ a = q * BlockLen + r /\ BlockLen \in Nat
  BY DivMod, HmacAssumption
<1> HIDE DEF q, r
<1>2. q * BlockLen \in Nat
  BY <1>1
<1>3. r <= a
  BY <1>1, <1>2
<1> QED  BY <1>3 DEF r

LEMMA ModSmall ==
    ASSUME NEW a \in Nat, a < BlockLen
    PROVE  a % BlockLen = a
BY HmacAssumption

-----------------------------------------------------------------------------
(* Sequences, element by element. *)
LEMMA CatFacts ==
    ASSUME NEW S, NEW s \in Seq(S), NEW t \in Seq(S)
    PROVE  /\ s \o t \in Seq(S) /\ Len(s \o t) = Len(s) + Len(t)
           /\ \A k \in 1..Len(s) : (s \o t)[k] = s[k]
           /\ \A k \in 1..Len(t) : (s \o t)[Len(s) + k] = t[k]
BY ConcatProperties

(* The same, of a name for the concatenation. *)
LEMMA CatNamed ==
    ASSUME NEW S, NEW s \in Seq(S), NEW t \in Seq(S), NEW x, x = s \o t
    PROVE  /\ x \in Seq(S) /\ Len(x) = Len(s) + Len(t)
           /\ \A k \in 1..Len(s) : x[k] = s[k]
           /\ \A k \in 1..Len(t) : x[Len(s) + k] = t[k]
BY CatFacts

LEMMA PartFacts ==
    ASSUME NEW S, NEW s \in Seq(S), NEW a \in Nat, NEW b \in Nat, a <= b, b <= Len(s)
    PROVE  /\ SubSeq(s, a + 1, b) \in Seq(S) /\ Len(SubSeq(s, a + 1, b)) = b - a
           /\ \A k \in 1..(b - a) : SubSeq(s, a + 1, b)[k] = s[a + k]
<1>1. a + 1 \in 1..(Len(s) + 1) /\ b \in a..Len(s)
  OBVIOUS
<1> QED  BY <1>1

LEMMA PrefixFacts ==
    ASSUME NEW S, NEW s \in Seq(S), NEW b \in Nat, b <= Len(s)
    PROVE  /\ SubSeq(s, 1, b) \in Seq(S) /\ Len(SubSeq(s, 1, b)) = b
           /\ \A k \in 1..b : SubSeq(s, 1, b)[k] = s[k]
OBVIOUS

LEMMA SameSeq ==
    ASSUME NEW S, NEW s \in Seq(S), NEW t \in Seq(S), Len(s) = Len(t),
           \A k \in 1..Len(s) : s[k] = t[k]
    PROVE  s = t
BY SeqEqual

-----------------------------------------------------------------------------
(* A sha1_ctx_t whose blocks and buffer hold bytes of S, and what it means *)
(* that it has taken in the bytes of m: the whole blocks are processed and *)
(* the others are at the start of the buffer.                              *)
Context(S) == [count : Nat, buf : [1..BlockLen -> S], done : Seq(S)]

Kept(ctx, m) ==
    LET r == Len(m) % BlockLen
    IN  /\ Len(ctx.done) = Len(m) - r
        /\ \A k \in 1..(Len(m) - r) : ctx.done[k] = m[k]
        /\ \A k \in 1..r : ctx.buf[k] = m[Len(m) - r + k]

(* memcpy and memset into the block buffer. *)
IsCopy(S, b, buf, at, data) ==
    /\ b \in [1..BlockLen -> S]
    /\ \A k \in 1..at : b[k] = buf[k]
    /\ \A k \in 1..Len(data) : b[at + k] = data[k]

LEMMA CopiedFacts ==
    ASSUME NEW S, NEW buf \in [1..BlockLen -> S], NEW at \in Nat, NEW data \in Seq(S),
           at + Len(data) <= BlockLen
    PROVE  IsCopy(S, Copied(buf, at, data), buf, at, data)
<1>1. DOMAIN data = 1..Len(data) /\ Len(data) \in Nat /\ BlockLen \in Nat
      /\ \A k \in 1..Len(data) : data[k] \in S
  BY HmacAssumption
<1> DEFINE n == Len(data)
<1>2. Copied(buf, at, data)
        = [k \in 1..BlockLen |-> IF k - at \in 1..n THEN data[k - at] ELSE buf[k]]
  BY <1>1 DEF Copied
<1>3. \A k \in 1..BlockLen :
         (IF k - at \in 1..n THEN data[k - at] ELSE buf[k]) \in S
  BY <1>1
<1>4. Copied(buf, at, data) \in [1..BlockLen -> S]
  BY <1>2, <1>3
<1>5. \A k \in 1..at : k \in 1..BlockLen /\ k - at \notin 1..n
  BY <1>1
<1>6. \A k \in 1..n : at + k \in 1..BlockLen /\ (at + k) - at = k
  BY <1>1
<1> HIDE DEF n
<1>7. \A k \in 1..at : Copied(buf, at, data)[k] = buf[k]
  BY <1>2, <1>5
<1>8. \A k \in 1..n : Copied(buf, at, data)[at + k] = data[k]
  BY <1>2, <1>6
<1> QED  BY <1>4, <1>7, <1>8 DEF n, IsCopy

(* The loop of sha1_update that takes whole blocks, and the copy of what   *)
(* is left, when the buffer is empty.                                      *)
LEMMA WholeBlocksKeep ==
    ASSUME NEW S, NEW ctx \in Context(S), NEW m \in Seq(S), NEW d \in Seq(S),
           Len(m) % BlockLen = 0, ctx.done = m
    PROVE  /\ WholeBlocks(ctx, d) \in Context(S)
           /\ WholeBlocks(ctx, d).count = ctx.count
           /\ Kept(WholeBlocks(ctx, d), m \o d)
<1> DEFINE q == Len(d) \div BlockLen
           w == q * BlockLen
           r == Len(d) % BlockLen
           head == SubSeq(d, 1, w)
           rest == SubSeq(d, w + 1, Len(d))
           full == IF w = 0 THEN ctx.buf ELSE SubSeq(d, w - BlockLen + 1, w)
           buf == Copied(full, 0, rest)
           W == WholeBlocks(ctx, d)
<1>1. Len(d) \in Nat /\ Len(m) \in Nat /\ BlockLen \in Nat
  BY HmacAssumption
<1>2. q \in Nat /\ r \in Nat /\ r < BlockLen /\ Len(d) = w + r
  BY <1>1, DivMod
<1>3. w \in Nat /\ (w # 0 => w >= BlockLen)
  <2> HIDE DEF q
  <2>1. w \in Nat
    BY <1>1, <1>2
  <2>2. q > 0 => 0 * BlockLen + BlockLen <= w
    BY <1>1, <1>2, Multiples
  <2>3. q = 0 => w = 0
    BY <1>1
  <2> QED  BY <1>1, <1>2, <2>1, <2>2, <2>3
<1>4. W = [count |-> ctx.count, buf |-> buf, done |-> ctx.done \o head]
  <2>1. W = [ctx EXCEPT !.done = ctx.done \o head, !.buf = buf]
    BY Zenon DEF WholeBlocks
  <2> HIDE DEF head, buf
  <2> QED  BY <2>1 DEF Context
<1> HIDE DEF q, r, w
<1>5. head \in Seq(S) /\ Len(head) = w /\ \A k \in 1..w : head[k] = d[k]
  BY <1>1, <1>2, <1>3, PrefixFacts
<1>6. rest \in Seq(S) /\ Len(rest) = r /\ \A k \in 1..r : rest[k] = d[w + k]
  BY <1>1, <1>2, <1>3, PartFacts
<1>7. full \in [1..BlockLen -> S]
  <2>1. ctx.buf \in [1..BlockLen -> S]
    BY DEF Context
  <2>2. CASE w # 0
    <3> DEFINE v == w - BlockLen
    <3>1. v \in Nat /\ v <= w /\ w <= Len(d) /\ w - v = BlockLen
      BY <1>1, <1>2, <1>3, <2>2
    <3>2. full = SubSeq(d, v + 1, w)
      BY <2>2
    <3> HIDE DEF v, full
    <3>3. SubSeq(d, v + 1, w) \in Seq(S) /\ Len(SubSeq(d, v + 1, w)) = BlockLen
      BY <1>3, <3>1, PartFacts
    <3> QED  BY <3>2, <3>3, LenProperties, Zenon
  <2> QED  BY <2>1, <2>2
<1> HIDE DEF head, rest, full
<1>8. buf \in [1..BlockLen -> S] /\ \A k \in 1..r : buf[k] = d[w + k]
  <2>1. 0 \in Nat /\ 0 + Len(rest) <= BlockLen
    BY <1>1, <1>2, <1>6
  <2>2. /\ buf \in [1..BlockLen -> S]
        /\ \A k \in 1..Len(rest) : buf[0 + k] = rest[k]
    <3>1. IsCopy(S, buf, full, 0, rest)
      BY <1>6, <1>7, <2>1, CopiedFacts
    <3> QED  BY <3>1 DEF IsCopy
  <2> HIDE DEF buf
  <2>3. \A k \in 1..r : 0 + k = k
    BY <1>2
  <2> QED  BY <1>6, <2>2, <2>3
<1> HIDE DEF buf
<1>9. /\ m \o head \in Seq(S) /\ Len(m \o head) = Len(m) + w
      /\ \A k \in 1..Len(m) : (m \o head)[k] = m[k]
      /\ \A k \in 1..w : (m \o head)[Len(m) + k] = d[k]
  <2>1. head \in Seq(S)
    BY <1>5
  <2>2. /\ m \o head \in Seq(S) /\ Len(m \o head) = Len(m) + Len(head)
        /\ \A k \in 1..Len(m) : (m \o head)[k] = m[k]
        /\ \A k \in 1..Len(head) : (m \o head)[Len(m) + k] = head[k]
    BY <2>1, CatFacts
  <2> QED  BY <1>5, <2>2
<1>10. /\ Len(m \o d) = Len(m) + Len(d)
       /\ \A k \in 1..Len(m) : (m \o d)[k] = m[k]
       /\ \A k \in 1..Len(d) : (m \o d)[Len(m) + k] = d[k]
  BY CatFacts
<1>11. Len(m \o d) % BlockLen = r
  <2>1. (Len(m) + Len(d)) % BlockLen = (0 + Len(d)) % BlockLen
    BY <1>1, ModAdd
  <2>2. 0 + Len(d) = Len(d)
    BY <1>1
  <2> QED  BY <1>10, <2>1, <2>2 DEF r
<1>12. ASSUME NEW k \in 1..(Len(m) + w) PROVE (m \o head)[k] = (m \o d)[k]
  <2>1. CASE k <= Len(m)
    BY <1>1, <1>9, <1>10, <2>1
  <2>2. CASE k > Len(m)
    <3>1. k - Len(m) \in 1..w /\ k - Len(m) \in 1..Len(d) /\ k = Len(m) + (k - Len(m))
      BY <1>1, <1>2, <1>3, <2>2
    <3> QED  BY <1>9, <1>10, <3>1
  <2>3. k <= Len(m) \/ k > Len(m)
    BY <1>1, <1>3
  <2> QED  BY <2>1, <2>2, <2>3
<1>13. ASSUME NEW k \in 1..r PROVE buf[k] = (m \o d)[Len(m) + w + k]
  <2>1. w + k \in 1..Len(d) /\ Len(m) + w + k = Len(m) + (w + k)
    BY <1>1, <1>2, <1>3
  <2> QED  BY <1>8, <1>10, <2>1
<1>14. W \in Context(S) /\ W.count = ctx.count /\ W.done = m \o head /\ W.buf = buf
  BY <1>4, <1>8, <1>9 DEF Context
<1>15. Len(m \o d) - r = Len(m) + w
  BY <1>1, <1>2, <1>3, <1>10
<1> HIDE DEF W
<1>16. Kept(W, m \o d)
  <2> DEFINE x == m \o d
             y == m \o head
  <2>1. /\ Len(x) % BlockLen = r /\ Len(x) - r = Len(m) + w /\ Len(y) = Len(m) + w
        /\ \A k \in 1..(Len(m) + w) : y[k] = x[k]
        /\ \A k \in 1..r : buf[k] = x[Len(m) + w + k]
    BY <1>9, <1>11, <1>12, <1>13, <1>15
  <2> HIDE DEF x, y
  <2>2. W.done = y /\ W.buf = buf
    BY <1>14 DEF y
  <2>3. Kept(W, x)
    BY <2>1, <2>2 DEF Kept
  <2> QED  BY <2>3 DEF x
<1> QED  BY <1>14, <1>16 DEF W

(* A byte string that fits into the buffer. *)
LEMMA UpdateShort ==
    ASSUME NEW S, NEW ctx \in Context(S), NEW m \in Seq(S), NEW d \in Seq(S), Kept(ctx, m),
           NEW r \in Nat, r = Len(m) % BlockLen, r + Len(d) < BlockLen
    PROVE  Kept([ctx EXCEPT !.buf = Copied(ctx.buf, r, d)], m \o d)
<1> DEFINE buf == Copied(ctx.buf, r, d)
           x == m \o d
           c == Len(m) - r
<1>1. Len(d) \in Nat /\ Len(m) \in Nat /\ BlockLen \in Nat /\ r <= Len(m)
  BY DivMod, HmacAssumption, SMTT(40)
<1>2. /\ Len(x) = Len(m) + Len(d)
      /\ \A k \in 1..Len(m) : x[k] = m[k]
      /\ \A k \in 1..Len(d) : x[Len(m) + k] = d[k]
  BY CatFacts
<1>3. Len(x) % BlockLen = r + Len(d)
  <2>1. (Len(m) + Len(d)) % BlockLen = (r + Len(d)) % BlockLen
    BY <1>1, ModAdd
  <2>2. (r + Len(d)) % BlockLen = r + Len(d)
    BY <1>1, ModSmall
  <2> QED  BY <1>2, <2>1, <2>2
<1>4. /\ \A k \in 1..r : buf[k] = ctx.buf[k]
      /\ \A k \in 1..Len(d) : buf[r + k] = d[k]
  <2>1. ctx.buf \in [1..BlockLen -> S] /\ r + Len(d) <= BlockLen
    BY <1>1 DEF Context
  <2>2. IsCopy(S, buf, ctx.buf, r, d)
    BY <2>1, CopiedFacts
  <2> QED  BY <2>2 DEF IsCopy
<1>5. /\ Len(ctx.done) = c
      /\ \A k \in 1..c : ctx.done[k] = m[k]
      /\ \A k \in 1..r : ctx.buf[k] = m[c + k]
  BY DEF Kept
<1> HIDE DEF buf, x
<1>6. c \in Nat /\ c + r = Len(m) /\ Len(x) - (r + Len(d)) = c
  BY <1>1, <1>2
<1> HIDE DEF c
<1>7. ASSUME NEW k \in 1..c PROVE ctx.done[k] = x[k]
  <2>1. k \in 1..Len(m)
    BY <1>1, <1>6
  <2> QED  BY <1>2, <1>5, <2>1
<1>8. ASSUME NEW k \in 1..(r + Len(d)) PROVE buf[k] = x[c + k]
  <2>1. CASE k <= r
    <3>1. k \in 1..r /\ c + k \in 1..Len(m)
      BY <1>1, <1>6, <2>1
    <3> QED  BY <1>2, <1>4, <1>5, <3>1
  <2>2. CASE k > r
    <3> DEFINE l == k - r
    <3>1. l \in 1..Len(d) /\ k = r + l /\ c + k = Len(m) + l
      BY <1>1, <1>6, <2>2, SMTT(40)
    <3> HIDE DEF l
    <3> QED  BY <1>2, <1>4, <3>1
  <2>3. k <= r \/ k > r
    BY <1>1
  <2> QED  BY <2>1, <2>2, <2>3
<1>9. PICK u : u = [ctx EXCEPT !.buf = buf]
  OBVIOUS
<1>10. u.done = ctx.done /\ u.buf = buf
  BY <1>9 DEF Context
<1>11. Kept(u, x)
  BY <1>3, <1>5, <1>6, <1>7, <1>8, <1>10 DEF Kept
<1> QED  BY <1>9, <1>11 DEF x, buf

(* The r bytes in the buffer and those of d make a block of m and d. *)
Fills(S, ctx, m, d, r) ==
    /\ Copied(ctx.buf, r, d) \in [1..BlockLen -> S]
    /\ ctx.done \o Copied(ctx.buf, r, d) = m \o d
    /\ Len(m \o d) % BlockLen = 0

LEMMA UpdateFills ==
    ASSUME NEW S, NEW ctx \in Context(S), NEW m \in Seq(S), NEW d \in Seq(S), Kept(ctx, m),
           NEW r \in Nat
    PROVE  r = Len(m) % BlockLen /\ Len(d) = BlockLen - r => Fills(S, ctx, m, d, r)
<1>0. SUFFICES ASSUME r = Len(m) % BlockLen, Len(d) = BlockLen - r
               PROVE  Fills(S, ctx, m, d, r)
  OBVIOUS
<1> DEFINE buf == Copied(ctx.buf, r, d)
           x == m \o d
           y == ctx.done \o buf
           c == Len(m) - r
<1>1. /\ Len(d) \in Nat /\ Len(m) \in Nat /\ BlockLen \in Nat /\ r <= Len(m)
      /\ r < BlockLen /\ BlockLen > 0 /\ Len(d) = BlockLen - r
  <2>1. Len(d) \in Nat /\ Len(m) \in Nat /\ BlockLen \in Nat /\ BlockLen > 0
    BY HmacAssumption
  <2>2. r <= Len(m) /\ r < BlockLen
    BY <1>0, <2>1, DivMod, ModLe
  <2> QED  BY <1>0, <2>1, <2>2
<1>2. /\ x \in Seq(S) /\ Len(x) = Len(m) + Len(d)
      /\ \A k \in 1..Len(m) : x[k] = m[k]
      /\ \A k \in 1..Len(d) : x[Len(m) + k] = d[k]
  <2> HIDE DEF x
  <2>1. x = m \o d
    BY DEF x
  <2> QED  BY <2>1, CatNamed
<1>3. Len(x) % BlockLen = 0
  <2>1. (Len(m) + Len(d)) % BlockLen = (r + Len(d)) % BlockLen
    BY <1>0, <1>1, ModAdd
  <2>2. r + Len(d) = BlockLen + 0 /\ 0 \in Nat
    BY <1>1
  <2>3. (BlockLen + 0) % BlockLen = 0 % BlockLen /\ 0 % BlockLen = 0
    BY <1>1, ModBlock, ModSmall
  <2> QED  BY <1>2, <2>1, <2>2, <2>3
<1>4. /\ Len(ctx.done) = c
      /\ \A k \in 1..c : ctx.done[k] = m[k]
      /\ \A k \in 1..r : ctx.buf[k] = m[c + k]
  BY <1>0 DEF Kept
<1>5. /\ buf \in [1..BlockLen -> S]
      /\ \A k \in 1..r : buf[k] = ctx.buf[k]
      /\ \A k \in 1..Len(d) : buf[r + k] = d[k]
  <2>1. ctx.buf \in [1..BlockLen -> S] /\ r + Len(d) <= BlockLen
    BY <1>1 DEF Context
  <2>2. IsCopy(S, buf, ctx.buf, r, d)
    BY <2>1, CopiedFacts
  <2> QED  BY <2>2 DEF IsCopy
<1> HIDE DEF buf
<1>6. c \in Nat /\ c + r = Len(m) /\ Len(x) = c + BlockLen
  <2> HIDE DEF x
  <2> QED  BY <1>1, <1>2
<1> HIDE DEF c
<1>7. buf \in Seq(S) /\ Len(buf) = BlockLen /\ ctx.done \in Seq(S)
  <2>1. ctx.done \in Seq(S)
    BY DEF Context
  <2> QED  BY <1>1, <1>5, <2>1
<1>8. /\ y \in Seq(S) /\ Len(y) = Len(ctx.done) + Len(buf)
      /\ \A k \in 1..Len(ctx.done) : y[k] = ctx.done[k]
      /\ \A k \in 1..Len(buf) : y[Len(ctx.done) + k] = buf[k]
  <2>1. buf \in Seq(S) /\ ctx.done \in Seq(S)
    BY <1>7
  <2> HIDE DEF y
  <2>2. y = ctx.done \o buf
    BY DEF y
  <2> QED  BY <2>1, <2>2, CatNamed
<1> HIDE DEF x, y
<1>9. ASSUME NEW k \in 1..c PROVE y[k] = x[k]
  <2>1. k \in 1..Len(m)
    BY <1>1, <1>6
  <2> QED  BY <1>2, <1>4, <1>8, <2>1
<1>10. ASSUME NEW k \in 1..BlockLen PROVE y[c + k] = x[c + k]
  <2>1. y[c + k] = buf[k]
    BY <1>4, <1>7, <1>8
  <2>2. CASE k <= r
    <3>1. k \in 1..r /\ c + k \in 1..Len(m)
      BY <1>1, <1>6, <2>2
    <3> QED  BY <1>2, <1>4, <1>5, <2>1, <3>1
  <2>3. CASE k > r
    <3> DEFINE l == k - r
    <3>1. l \in 1..Len(d) /\ k = r + l /\ c + k = Len(m) + l
      BY <1>1, <1>6, <2>3
    <3> HIDE DEF l
    <3> QED  BY <1>2, <1>5, <2>1, <3>1
  <2>4. k <= r \/ k > r
    BY <1>1
  <2> QED  BY <2>2, <2>3, <2>4
<1>11. ASSUME NEW k \in 1..Len(y) PROVE y[k] = x[k]
  <2>1. CASE k <= c
    BY <1>6, <1>9, <2>1
  <2>2. CASE k > c
    <3> DEFINE l == k - c
    <3>1. l \in 1..BlockLen /\ k = c + l
      BY <1>1, <1>4, <1>6, <1>7, <1>8, <2>2
    <3> HIDE DEF l
    <3> QED  BY <1>10, <3>1
  <2>3. k <= c \/ k > c
    BY <1>6
  <2> QED  BY <2>1, <2>2, <2>3
<1>12. y = x
  <2>1. Len(y) = Len(x)
    BY <1>4, <1>6, <1>7, <1>8
  <2> QED  BY <1>2, <1>8, <1>11, <2>1, SameSeq
<1> QED  BY <1>3, <1>5, <1>12 DEF x, y, buf, Fills

(* A sequence is its first part and the rest. *)
LEMMA Split ==
    ASSUME NEW S, NEW s \in Seq(S), NEW a \in Nat, a <= Len(s)
    PROVE  SubSeq(s, 1, a) \o SubSeq(s, a + 1, Len(s)) = s
<1> DEFINE p == SubSeq(s, 1, a)
           q == SubSeq(s, a + 1, Len(s))
           x == p \o q
<1>0. Len(s) \in Nat
  OBVIOUS
<1>1. p \in Seq(S) /\ Len(p) = a /\ \A k \in 1..a : p[k] = s[k]
  BY PrefixFacts
<1>2. q \in Seq(S) /\ Len(q) = Len(s) - a /\ \A k \in 1..(Len(s) - a) : q[k] = s[a + k]
  BY <1>0, PartFacts
<1> HIDE DEF p, q
<1>3. /\ x \in Seq(S) /\ Len(x) = Len(p) + Len(q)
      /\ \A k \in 1..Len(p) : x[k] = p[k]
      /\ \A k \in 1..Len(q) : x[Len(p) + k] = q[k]
  <2>1. p \in Seq(S) /\ q \in Seq(S)
    BY <1>1, <1>2
  <2> HIDE DEF x
  <2>2. x = p \o q
    BY DEF x
  <2> QED  BY <2>1, <2>2, CatNamed
<1> HIDE DEF x
<1>4. ASSUME NEW k \in 1..Len(x) PROVE x[k] = s[k]
  <2>1. CASE k <= a
    BY <1>0, <1>1, <1>3, <2>1
  <2>2. CASE k > a
    <3> DEFINE l == k - a
    <3>1. l \in 1..Len(q) /\ l \in 1..(Len(s) - a) /\ k = a + l
      BY <1>0, <1>1, <1>2, <1>3, <2>2
    <3> HIDE DEF l
    <3> QED  BY <1>1, <1>2, <1>3, <3>1
  <2>3. k <= a \/ k > a
    BY <1>0, <1>1, <1>2, <1>3
  <2> QED  BY <2>1, <2>2, <2>3
<1>5. Len(x) = Len(s)
  BY <1>0, <1>1, <1>2, <1>3
<1>6. x = s
  BY <1>3, <1>4, <1>5, SameSeq
<1> QED  BY <1>6 DEF x, p, q

(* sha1_update: a context that holds the bytes of m holds those of m and d *)
(* afterwards.                                                             *)
LEMMA UpdateKeeps ==
    ASSUME NEW S, NEW ctx \in Context(S), NEW m \in Seq(S), NEW d \in Seq(S), Kept(ctx, m),
           ctx.count = Len(m)
    PROVE  /\ sha1_update(ctx, d) \in Context(S)
           /\ sha1_update(ctx, d).count = Len(m \o d)
           /\ Kept(sha1_update(ctx, d), m \o d)
<1> DEFINE r == Len(m) % BlockLen
           avail == BlockLen - r
           counted == [ctx EXCEPT !.count = Len(m) + Len(d)]
           U == sha1_update(ctx, d)
<1>1. /\ Len(d) \in Nat /\ Len(m) \in Nat /\ BlockLen \in Nat /\ BlockLen > 0
      /\ r \in Nat /\ r <= Len(m) /\ r < BlockLen
  BY DivMod, ModLe, HmacAssumption
<1>2. Len(m \o d) = Len(m) + Len(d)
  BY CatFacts
<1>3. /\ counted \in Context(S) /\ counted.count = Len(m) + Len(d)
      /\ counted.buf = ctx.buf /\ counted.done = ctx.done
  <2>1. Len(m) + Len(d) \in Nat
    BY <1>1
  <2> QED  BY <2>1 DEF Context
<1>4. Kept(counted, m)
  BY <1>3, SMTT(40) DEF Kept
<1>5. U = IF r > 0 /\ Len(d) < avail
          THEN [counted EXCEPT !.buf = Copied(counted.buf, r, d)]
          ELSE IF r > 0
          THEN WholeBlocks(process_block([counted EXCEPT !.buf =
                               Copied(counted.buf, r, SubSeq(d, 1, avail))]),
                           SubSeq(d, avail + 1, Len(d)))
          ELSE WholeBlocks(counted, d)
  BY DEF sha1_update
<1> HIDE DEF counted, r, U
<1>6. CASE r > 0 /\ Len(d) < avail
  <2>1. r + Len(d) < BlockLen /\ r + Len(d) <= BlockLen
    BY <1>1, <1>6
  <2>2. U = [counted EXCEPT !.buf = Copied(counted.buf, r, d)]
    BY <1>5, <1>6
  <2>3. Kept(U, m \o d)
    BY <1>1, <1>3, <1>4, <2>1, <2>2, UpdateShort DEF r
  <2>4. counted.buf \in [1..BlockLen -> S]
    BY <1>3 DEF Context
  <2>5. Copied(counted.buf, r, d) \in [1..BlockLen -> S]
    BY <1>1, <2>1, <2>4, CopiedFacts DEF IsCopy
  <2>6. U \in Context(S) /\ U.count = Len(m) + Len(d)
    BY <1>3, <2>2, <2>5 DEF Context
  <2> QED  BY <1>2, <2>3, <2>6 DEF U
<1>7. CASE r > 0 /\ ~(Len(d) < avail)
  <2> DEFINE d1 == SubSeq(d, 1, avail)
             d2 == SubSeq(d, avail + 1, Len(d))
             b1 == Copied(counted.buf, r, d1)
             m1 == m \o d1
             P == process_block([counted EXCEPT !.buf = b1])
  <2>1. avail \in Nat /\ avail <= Len(d)
    BY <1>1, <1>7
  <2>2. d1 \in Seq(S) /\ Len(d1) = avail
    BY <2>1, PrefixFacts
  <2>3. d2 \in Seq(S)
    BY <1>1, <2>1, PartFacts
  <2>4. d1 \o d2 = d
    BY <2>1, Split
  <2>5. U = WholeBlocks(P, d2)
    BY <1>5, <1>7
  <2> HIDE DEF d1, d2
  <2>6. b1 \in [1..BlockLen -> S] /\ counted.done \o b1 = m1 /\ Len(m1) % BlockLen = 0
    <3>1. d1 \in Seq(S) /\ r \in Nat /\ counted \in Context(S) /\ Kept(counted, m)
      BY <1>1, <1>3, <1>4, <2>2
    <3>2. r = Len(m) % BlockLen /\ Len(d1) = BlockLen - r => Fills(S, counted, m, d1, r)
      BY <3>1, UpdateFills
    <3>3. Len(d1) = BlockLen - r /\ r = Len(m) % BlockLen
      BY <2>2 DEF r
    <3> QED  BY <3>2, <3>3, Zenon DEF Fills
  <2>7. m1 \in Seq(S)
    BY <2>2, CatFacts
  <2> HIDE DEF b1, m1
  <2>8. P \in Context(S) /\ P.count = Len(m) + Len(d) /\ P.done = m1
    <3>1. PICK e : e = [counted EXCEPT !.buf = b1]
      OBVIOUS
    <3>2. e \in Context(S) /\ e.count = Len(m) + Len(d) /\ e.buf = b1 /\ e.done = counted.done
      BY <1>3, <2>6, <3>1 DEF Context
    <3>3. P = [e EXCEPT !.done = m1]
      BY <2>6, <3>1, <3>2 DEF process_block
    <3> HIDE DEF P
    <3> QED  BY <2>7, <3>2, <3>3 DEF Context
  <2> HIDE DEF P
  <2>9. U \in Context(S) /\ U.count = Len(m) + Len(d) /\ Kept(U, m1 \o d2)
    BY <2>3, <2>5, <2>6, <2>7, <2>8, WholeBlocksKeep
  <2>10. m1 \o d2 = m \o d
    <3>1. d1 \in Seq(S) /\ d2 \in Seq(S)
      BY <2>2, <2>3
    <3>2. (m \o d1) \o d2 = m \o (d1 \o d2)
      BY <3>1, ConcatAssociative, SMTT(40)
    <3> QED  BY <2>4, <3>2, Zenon DEF m1
  <2> QED  BY <1>2, <2>9, <2>10 DEF U
<1>8. CASE ~(r > 0)
  <2>1. r = 0
    BY <1>1, <1>8
  <2>2. U = WholeBlocks(counted, d)
    BY <1>5, <1>8
  <2>3. counted.done \in Seq(S)
    BY <1>3 DEF Context
  <2>4. Len(counted.done) = Len(m) /\ \A k \in 1..Len(m) : counted.done[k] = m[k]
    <3>1. Len(m) - 0 = Len(m)
      BY <1>1
    <3> QED  BY <1>4, <2>1, <3>1 DEF Kept, r
  <2>5. counted.done = m
    BY <2>3, <2>4, SameSeq
  <2>6. U \in Context(S) /\ U.count = Len(m) + Len(d) /\ Kept(U, m \o d)
    BY <1>3, <2>1, <2>2, <2>5, WholeBlocksKeep DEF r
  <2> QED  BY <1>2, <2>6 DEF U
<1> QED  BY <1>6, <1>7, <1>8

-----------------------------------------------------------------------------
(* What sha1_final adds: S holds the mark, the zeros and the length. *)
Endings(S, n) ==
    /\ Byte(0) \in S /\ Byte(128) \in S
    /\ \A k \in 1..LengthLen : BigEndian(n * 8, LengthLen)[k] \in S

LEMMA ZerosFacts ==
    ASSUME NEW S, Byte(0) \in S, NEW n \in Nat
    PROVE  Zeros(n) \in Seq(S) /\ Len(Zeros(n)) = n /\ \A k \in 1..n : Zeros(n)[k] = Byte(0)
BY DEF Zeros

LEMMA LengthFacts ==
    ASSUME NEW S, NEW n, Endings(S, n)
    PROVE  /\ BigEndian(n * 8, LengthLen) \in Seq(S)
           /\ Len(BigEndian(n * 8, LengthLen)) = LengthLen
<1> DEFINE be == BigEndian(n * 8, LengthLen)
<1>1. be = [k \in 1..LengthLen |-> be[k]] /\ LengthLen \in Nat
  BY HmacAssumption, Zenon DEF BigEndian
<1>2. \A k \in 1..LengthLen : be[k] \in S
  BY DEF Endings
<1> HIDE DEF be
<1>3. be \in Seq(S) /\ Len(be) = LengthLen
  BY <1>1, <1>2
<1> QED  BY <1>3 DEF be

(* The zeros of RFC 3174, by where the message ends in its last block. *)
LEMMA ZerosCount ==
    ASSUME NEW r \in Nat, r < BlockLen
    PROVE  LET z == (2 * BlockLen - LengthLen - 1 - r) % BlockLen
           IN  /\ z \in Nat
               /\ r + 1 <= BlockLen - LengthLen => z = BlockLen - LengthLen - 1 - r
               /\ r + 1 > BlockLen - LengthLen => z = 2 * BlockLen - LengthLen - 1 - r
<1> DEFINE n == 2 * BlockLen - LengthLen - 1 - r
<1>1. BlockLen \in Nat /\ LengthLen \in Nat /\ LengthLen < BlockLen /\ LengthLen > 0
  BY HmacAssumption
<1>2. n \in Nat
  BY <1>1
<1>3. ASSUME r + 1 <= BlockLen - LengthLen PROVE n % BlockLen = BlockLen - LengthLen - 1 - r
  <2> DEFINE a == BlockLen - LengthLen - 1 - r
  <2>1. a \in Nat /\ a < BlockLen /\ n = BlockLen + a
    BY <1>1, <1>3
  <2> HIDE DEF a, n
  <2>2. n % BlockLen = a % BlockLen /\ a % BlockLen = a
    BY <2>1, ModBlock, ModSmall
  <2> QED  BY <2>2 DEF a
<1>4. ASSUME r + 1 > BlockLen - LengthLen PROVE n % BlockLen = n
  <2>1. n < BlockLen
    BY <1>1, <1>4
  <2> HIDE DEF n
  <2> QED  BY <1>2, <2>1, ModSmall
<1>5. n % BlockLen \in Nat
  <2> HIDE DEF n
  <2> QED  BY <1>2, DivMod
<1> QED  BY <1>3, <1>4, <1>5

(* x is m, of n bytes, with the mark, z zeros and the length after it. *)
IsPadded(S, n, m, z, x) ==
    /\ x \in Seq(S) /\ Len(x) = n + 1 + z + LengthLen
    /\ \A k \in 1..n : x[k] = m[k]
    /\ x[n + 1] = Byte(128)
    /\ \A k \in 1..z : x[n + 1 + k] = Byte(0)
    /\ \A k \in 1..LengthLen : x[n + 1 + z + k] = BigEndian(n * 8, LengthLen)[k]

LEMMA PaddedFacts ==
    ASSUME NEW S, NEW m \in Seq(S), Endings(S, Len(m)), NEW z \in Nat, NEW x
    PROVE  x = ((m \o <<Byte(128)>>) \o Zeros(z)) \o BigEndian(Len(m) * 8, LengthLen) =>
              IsPadded(S, Len(m), m, z, x)
<1> DEFINE mark == <<Byte(128)>>
           zs == Zeros(z)
           be == BigEndian(Len(m) * 8, LengthLen)
           n == Len(m)
           u == m \o mark
           v == u \o zs
           y == v \o be
<1>1. n \in Nat /\ LengthLen \in Nat
  BY HmacAssumption
<1>2. mark \in Seq(S) /\ Len(mark) = 1 /\ mark[1] = Byte(128)
  BY DEF Endings
<1>3. zs \in Seq(S) /\ Len(zs) = z /\ \A k \in 1..z : zs[k] = Byte(0)
  BY ZerosFacts DEF Endings
<1>4. be \in Seq(S) /\ Len(be) = LengthLen
  BY LengthFacts
<1> HIDE DEF mark, zs, be
<1>5. /\ u \in Seq(S) /\ Len(u) = n + Len(mark)
      /\ \A k \in 1..n : u[k] = m[k]
      /\ \A k \in 1..Len(mark) : u[n + k] = mark[k]
  <2>1. mark \in Seq(S)
    BY <1>2
  <2> HIDE DEF u
  <2>2. u = m \o mark
    BY DEF u
  <2> QED  BY <2>1, <2>2, CatNamed
<1> HIDE DEF u
<1>6. /\ v \in Seq(S) /\ Len(v) = Len(u) + Len(zs)
      /\ \A k \in 1..Len(u) : v[k] = u[k]
      /\ \A k \in 1..Len(zs) : v[Len(u) + k] = zs[k]
  <2>1. u \in Seq(S) /\ zs \in Seq(S)
    BY <1>3, <1>5
  <2> HIDE DEF v
  <2>2. v = u \o zs
    BY DEF v
  <2> QED  BY <2>1, <2>2, CatNamed
<1> HIDE DEF v
<1>7. /\ y \in Seq(S) /\ Len(y) = Len(v) + Len(be)
      /\ \A k \in 1..Len(v) : y[k] = v[k]
      /\ \A k \in 1..Len(be) : y[Len(v) + k] = be[k]
  <2>1. v \in Seq(S) /\ be \in Seq(S)
    BY <1>4, <1>6
  <2> HIDE DEF y
  <2>2. y = v \o be
    BY DEF y
  <2> QED  BY <2>1, <2>2, CatNamed
<1> HIDE DEF y, n
<1>8. Len(u) = n + 1 /\ Len(v) = n + 1 + z /\ Len(y) = n + 1 + z + LengthLen
  BY <1>1, <1>2, <1>3, <1>4, <1>5, <1>6, <1>7
<1>9. ASSUME NEW k \in 1..n PROVE y[k] = m[k]
  <2>1. k \in 1..Len(u) /\ k \in 1..Len(v)
    BY <1>1, <1>8
  <2> QED  BY <1>5, <1>6, <1>7, <2>1
<1>10. y[n + 1] = Byte(128)
  <2>1. n + 1 \in 1..Len(u) /\ n + 1 \in 1..Len(v) /\ 1 \in 1..Len(mark)
    BY <1>1, <1>2, <1>8
  <2> QED  BY <1>2, <1>5, <1>6, <1>7, <2>1
<1>11. ASSUME NEW k \in 1..z PROVE y[n + 1 + k] = Byte(0)
  <2>1. Len(u) + k = n + 1 + k /\ n + 1 + k \in 1..Len(v) /\ k \in 1..Len(zs)
    BY <1>1, <1>3, <1>8
  <2>2. y[n + 1 + k] = v[n + 1 + k]
    BY <1>7, <2>1
  <2>3. v[n + 1 + k] = zs[k]
    BY <1>6, <2>1
  <2> QED  BY <1>3, <2>2, <2>3
<1>12. ASSUME NEW k \in 1..LengthLen PROVE y[n + 1 + z + k] = be[k]
  <2>1. Len(v) + k = n + 1 + z + k /\ k \in 1..Len(be)
    BY <1>1, <1>4, <1>8
  <2> QED  BY <1>7, <2>1
<1>13. /\ y \in Seq(S) /\ Len(y) = n + 1 + z + LengthLen
       /\ \A k \in 1..n : y[k] = m[k]
       /\ y[n + 1] = Byte(128)
       /\ \A k \in 1..z : y[n + 1 + k] = Byte(0)
       /\ \A k \in 1..LengthLen : y[n + 1 + z + k] = be[k]
  BY <1>7, <1>8, <1>9, <1>10, <1>11, <1>12
<1>14. y = ((m \o <<Byte(128)>>) \o Zeros(z)) \o BigEndian(Len(m) * 8, LengthLen)
  BY DEF y, v, u, mark, zs, be
<1>15. IsPadded(S, n, m, z, y)
  BY <1>13 DEF IsPadded, be, n
<1> QED  BY <1>14, <1>15 DEF n

(* The last block of sha1_final: behind at bytes of the buffer come zeros  *)
(* and the length.                                                         *)
IsLast(S, n, buf, at, b) ==
    /\ b \in [1..BlockLen -> S]
    /\ \A k \in 1..at : b[k] = buf[k]
    /\ \A k \in (at + 1)..(BlockLen - LengthLen) : b[k] = Byte(0)
    /\ \A k \in 1..LengthLen : b[BlockLen - LengthLen + k] = BigEndian(n * 8, LengthLen)[k]

LEMMA LastBlock ==
    ASSUME NEW S, NEW n, Endings(S, n), NEW buf \in [1..BlockLen -> S],
           NEW at \in Nat, at <= BlockLen - LengthLen, NEW b
    PROVE  b = Copied(Copied(buf, at, Zeros(BlockLen - LengthLen - at)), BlockLen - LengthLen,
                      BigEndian(n * 8, LengthLen)) =>
              IsLast(S, n, buf, at, b)
<1> DEFINE room == BlockLen - LengthLen
           zs == Zeros(room - at)
           be == BigEndian(n * 8, LengthLen)
           l == Copied(buf, at, zs)
           c == Copied(l, room, be)
<1>1. room \in Nat /\ LengthLen \in Nat /\ room + LengthLen = BlockLen /\ room - at \in Nat
  BY HmacAssumption
<1>2. be \in Seq(S) /\ Len(be) = LengthLen
  BY LengthFacts
<1> HIDE DEF be, room
<1>3. zs \in Seq(S) /\ Len(zs) = room - at /\ \A k \in 1..(room - at) : zs[k] = Byte(0)
  BY <1>1, ZerosFacts DEF Endings
<1> HIDE DEF zs
<1>4. /\ l \in [1..BlockLen -> S]
      /\ \A k \in 1..at : l[k] = buf[k]
      /\ \A k \in 1..Len(zs) : l[at + k] = zs[k]
  <2>1. at + Len(zs) <= BlockLen /\ zs \in Seq(S)
    BY <1>1, <1>3
  <2>2. IsCopy(S, l, buf, at, zs)
    BY <2>1, CopiedFacts
  <2> QED  BY <2>2 DEF IsCopy
<1> HIDE DEF l
<1>5. /\ c \in [1..BlockLen -> S]
      /\ \A k \in 1..room : c[k] = l[k]
      /\ \A k \in 1..Len(be) : c[room + k] = be[k]
  <2>1. room + Len(be) <= BlockLen /\ be \in Seq(S) /\ room \in Nat /\ l \in [1..BlockLen -> S]
    BY <1>1, <1>2, <1>4
  <2>2. IsCopy(S, c, l, room, be)
    BY <2>1, CopiedFacts
  <2> QED  BY <2>2 DEF IsCopy
<1> HIDE DEF c
<1>6. ASSUME NEW k \in 1..at PROVE c[k] = buf[k]
  <2>1. k \in 1..room
    BY <1>1
  <2> QED  BY <1>4, <1>5, <2>1
<1>7. ASSUME NEW k \in (at + 1)..room PROVE c[k] = Byte(0)
  <2> DEFINE j == k - at
  <2>1. j \in 1..(room - at) /\ k = at + j /\ k \in 1..room
    BY <1>1
  <2> HIDE DEF j
  <2> QED  BY <1>3, <1>4, <1>5, <2>1
<1>8. /\ c \in [1..BlockLen -> S]
      /\ \A k \in 1..at : c[k] = buf[k]
      /\ \A k \in (at + 1)..room : c[k] = Byte(0)
      /\ \A k \in 1..LengthLen : c[room + k] = be[k]
  BY <1>2, <1>5, <1>6, <1>7
<1>9. c = Copied(Copied(buf, at, Zeros(BlockLen - LengthLen - at)), BlockLen - LengthLen,
                 BigEndian(n * 8, LengthLen))
  BY DEF c, l, zs, be, room
<1>10. IsLast(S, n, buf, at, c)
  BY <1>8 DEF IsLast, room, be
<1> QED  BY <1>9, <1>10

(* The mark and the bytes before it. *)
LEMMA MarkFacts ==
    ASSUME NEW S, NEW buf \in [1..BlockLen -> S], Byte(128) \in S,
           NEW r \in Nat, r < BlockLen, NEW b
    PROVE  b = Copied(buf, r, <<Byte(128)>>) =>
              /\ b \in [1..BlockLen -> S] /\ b[r + 1] = Byte(128)
              /\ \A k \in 1..r : b[k] = buf[k]
<1> DEFINE mark == <<Byte(128)>>
           c == Copied(buf, r, mark)
<1>1. mark \in Seq(S) /\ Len(mark) = 1 /\ mark[1] = Byte(128)
  OBVIOUS
<1> HIDE DEF mark
<1>2. r + Len(mark) <= BlockLen /\ 1 \in 1..Len(mark)
  BY <1>1, HmacAssumption
<1>3. /\ c \in [1..BlockLen -> S]
      /\ \A k \in 1..r : c[k] = buf[k]
      /\ \A k \in 1..Len(mark) : c[r + k] = mark[k]
  <2>1. IsCopy(S, c, buf, r, mark)
    BY <1>1, <1>2, CopiedFacts
  <2> QED  BY <2>1 DEF IsCopy
<1> HIDE DEF c
<1>4. c[r + 1] = Byte(128)
  BY <1>1, <1>2, <1>3
<1> QED  BY <1>3, <1>4, ZenonT(60) DEF c, mark

(* Two sequences that a block ends. *)
LEMMA BlockEnds ==
    ASSUME NEW S, NEW s \in Seq(S), NEW b \in [1..BlockLen -> S], NEW x \in Seq(S),
           Len(x) = Len(s) + BlockLen,
           \A k \in 1..Len(s) : s[k] = x[k],
           \A k \in 1..BlockLen : b[k] = x[Len(s) + k]
    PROVE  s \o b = x
<1> DEFINE y == s \o b
<1>1. b \in Seq(S) /\ Len(b) = BlockLen /\ BlockLen \in Nat /\ Len(s) \in Nat
  BY HmacAssumption
<1>2. /\ y \in Seq(S) /\ Len(y) = Len(s) + Len(b)
      /\ \A k \in 1..Len(s) : y[k] = s[k]
      /\ \A k \in 1..Len(b) : y[Len(s) + k] = b[k]
  <2>1. b \in Seq(S)
    BY <1>1
  <2> HIDE DEF y
  <2>2. y = s \o b
    BY DEF y
  <2> QED  BY <2>1, <2>2, CatNamed
<1> HIDE DEF y
<1>3. ASSUME NEW k \in 1..Len(y) PROVE y[k] = x[k]
  <2>1. CASE k <= Len(s)
    BY <1>1, <1>2, <2>1
  <2>2. CASE k > Len(s)
    <3> DEFINE l == k - Len(s)
    <3>1. l \in 1..BlockLen /\ k = Len(s) + l
      BY <1>1, <1>2, <2>2
    <3> HIDE DEF l
    <3>2. l \in 1..Len(b)
      BY <1>1, <3>1
    <3> QED  BY <1>2, <3>1, <3>2, Zenon
  <2>3. k <= Len(s) \/ k > Len(s)
    BY <1>1, <1>2
  <2> QED  BY <2>1, <2>2, <2>3
<1>4. Len(y) = Len(x)
  BY <1>1, <1>2
<1>5. y = x
  BY <1>2, <1>3, <1>4, SameSeq
<1> QED  BY <1>5 DEF y

(* The records of a context, with one field changed. *)
Ctx(n, b, d) == [count |-> n, buf |-> b, done |-> d]

LEMMA ProcessBlock ==
    ASSUME NEW n, NEW b, NEW d
    PROVE  process_block(Ctx(n, b, d)) = Ctx(n, b, d \o b)
<1> DEFINE e == d \o b
<1>1. Ctx(n, b, d).done = d /\ Ctx(n, b, d).buf = b
  BY DEF Ctx
<1>2. process_block(Ctx(n, b, d)) = [Ctx(n, b, d) EXCEPT !.done = e]
  BY <1>1 DEF process_block
<1> HIDE DEF e
<1>3. [Ctx(n, b, d) EXCEPT !.done = e] = Ctx(n, b, e)
  BY DEF Ctx
<1> QED BY <1>2, <1>3 DEF e

LEMMA Rebuf ==
    ASSUME NEW n, NEW b, NEW d, NEW e
    PROVE  [Ctx(n, b, d) EXCEPT !.buf = e] = Ctx(n, e, d)
BY DEF Ctx

LEMMA IsCtx ==
    ASSUME NEW S, NEW ctx \in Context(S)
    PROVE  ctx = Ctx(ctx.count, ctx.buf, ctx.done)
BY DEF Ctx, Context

(* The context sha1_final leaves, block by block. *)
LEMMA FinalForm ==
    ASSUME NEW S, NEW ctx \in Context(S), (ctx.count % BlockLen) \in Nat
    PROVE  LET n == ctx.count
               r == n % BlockLen
               room == BlockLen - LengthLen
               be == BigEndian(n * 8, LengthLen)
               mb == Copied(ctx.buf, r, <<Byte(128)>>)
               f == Copied(mb, r + 1, Zeros(BlockLen - (r + 1)))
               b1 == Copied(Copied(mb, r + 1, Zeros(room - (r + 1))), room, be)
               b2 == Copied(Copied(f, 0, Zeros(room)), room, be)
           IN  sha1_final(ctx)
                  = IF r + 1 > room THEN Ctx(n, b2, (ctx.done \o f) \o b2)
                    ELSE Ctx(n, b1, ctx.done \o b1)
<1> DEFINE n == ctx.count
           r == n % BlockLen
           room == BlockLen - LengthLen
           be == BigEndian(n * 8, LengthLen)
           mb == Copied(ctx.buf, r, <<Byte(128)>>)
           f == Copied(mb, r + 1, Zeros(BlockLen - (r + 1)))
           b1 == Copied(Copied(mb, r + 1, Zeros(room - (r + 1))), room, be)
           b2 == Copied(Copied(f, 0, Zeros(room)), room, be)
           F == sha1_final(ctx)
           marked == [ctx EXCEPT !.buf = Copied(@, (r + 1) - 1, <<Byte(128)>>)]
           zeroed == [marked EXCEPT !.buf = Copied(@, r + 1, Zeros(BlockLen - (r + 1)))]
           flushed == process_block(zeroed)
<1>1. ctx = Ctx(n, ctx.buf, ctx.done)
  BY IsCtx
<1>2. (r + 1) - 1 = r
  OBVIOUS
<1>3. F = process_block([IF r + 1 > room THEN flushed ELSE marked EXCEPT !.buf =
             Copied(IF r + 1 > room THEN Copied(flushed.buf, 0, Zeros(room))
                    ELSE Copied(marked.buf, r + 1, Zeros(room - (r + 1))), room, be)])
  BY Zenon DEF sha1_final
<1> HIDE DEF F
<1>4. marked = Ctx(n, mb, ctx.done)
  <2>1. marked = [ctx EXCEPT !.buf = mb]
    <3> HIDE DEF r, n
    <3> QED  BY <1>1, <1>2
  <2> HIDE DEF mb, n
  <2> QED  BY <1>1, <2>1, Rebuf
<1> HIDE DEF r, mb, n
<1>5. zeroed = Ctx(n, f, ctx.done)
  <2> HIDE DEF marked
  <2>1. marked.buf = mb
    BY <1>4 DEF Ctx
  <2>2. zeroed = [marked EXCEPT !.buf = f]
    BY <2>1
  <2> HIDE DEF f
  <2> QED  BY <1>4, <2>2, Rebuf
<1> HIDE DEF zeroed, f, marked
<1>6. flushed = Ctx(n, f, ctx.done \o f)
  BY <1>5, ProcessBlock
<1> HIDE DEF flushed
<1>7. flushed.buf = f /\ marked.buf = mb
  BY <1>4, <1>6 DEF Ctx
<1> HIDE DEF room, be
<1>8. ASSUME r + 1 > room PROVE F = Ctx(n, b2, (ctx.done \o f) \o b2)
  <2>1. F = process_block([flushed EXCEPT !.buf = b2])
    BY <1>3, <1>7, <1>8
  <2> HIDE DEF b2
  <2> QED  BY <1>6, <2>1, Rebuf, ProcessBlock
<1>9. ASSUME ~(r + 1 > room) PROVE F = Ctx(n, b1, ctx.done \o b1)
  <2>1. F = process_block([marked EXCEPT !.buf = b1])
    BY <1>3, <1>7, <1>9
  <2> HIDE DEF b1
  <2> QED  BY <1>4, <2>1, Rebuf, ProcessBlock
<1>10. F = IF r + 1 > room THEN Ctx(n, b2, (ctx.done \o f) \o b2) ELSE Ctx(n, b1, ctx.done \o b1)
  <2> HIDE DEF b1, b2
  <2> QED  BY <1>8, <1>9
<1> QED  BY <1>10, Zenon DEF F, f, mb, r, room, be, n

(* sha1_final processes the padded message, in one block more or two, and  *)
(* nothing of what the buffer held before.                                 *)
LEMMA FinalPads ==
    ASSUME NEW S, NEW ctx \in Context(S), NEW m \in Seq(S), Endings(S, Len(m)), Kept(ctx, m),
           ctx.count = Len(m)
    PROVE  sha1_final(ctx).done = Padded(m) /\ sha1_final(ctx).buf \in [1..BlockLen -> S]
<1> DEFINE n == ctx.count
           r == n % BlockLen
           c == n - r
           room == BlockLen - LengthLen
           be == BigEndian(n * 8, LengthLen)
           mb == Copied(ctx.buf, r, <<Byte(128)>>)
           f == Copied(mb, r + 1, Zeros(BlockLen - (r + 1)))
           b1 == Copied(Copied(mb, r + 1, Zeros(room - (r + 1))), room, be)
           b2 == Copied(Copied(f, 0, Zeros(room)), room, be)
           z == (2 * BlockLen - LengthLen - 1 - r) % BlockLen
           x == Padded(m)
           F == sha1_final(ctx)
<1>1. /\ n \in Nat /\ r \in Nat /\ r < BlockLen /\ r <= n /\ c \in Nat /\ n = c + r
      /\ BlockLen \in Nat /\ LengthLen \in Nat /\ LengthLen > 0 /\ room \in Nat /\ room > 0
      /\ room + LengthLen = BlockLen
  <2>1. n \in Nat
    BY DEF Context
  <2> HIDE DEF n
  <2>2. r \in Nat /\ r < BlockLen /\ r <= n
    BY <2>1, DivMod, ModLe
  <2> HIDE DEF r
  <2> QED  BY <2>1, <2>2, HmacAssumption
<1>2. F = IF r + 1 > room THEN Ctx(n, b2, (ctx.done \o f) \o b2) ELSE Ctx(n, b1, ctx.done \o b1)
  <2>1. r \in Nat
    BY <1>1
  <2> QED  BY <2>1, FinalForm, Zenon
<1>3. /\ z \in Nat
      /\ r + 1 <= room => z = room - 1 - r
      /\ r + 1 > room => z = BlockLen + room - 1 - r
  <2> HIDE DEF r
  <2>1. /\ z \in Nat
        /\ r + 1 <= BlockLen - LengthLen => z = BlockLen - LengthLen - 1 - r
        /\ r + 1 > BlockLen - LengthLen => z = 2 * BlockLen - LengthLen - 1 - r
    BY <1>1, ZerosCount
  <2> HIDE DEF z
  <2> QED  BY <1>1, <2>1
<1>4. /\ x \in Seq(S) /\ Len(x) = n + 1 + z + LengthLen
      /\ \A k \in 1..n : x[k] = m[k]
      /\ x[n + 1] = Byte(128)
      /\ \A k \in 1..z : x[n + 1 + k] = Byte(0)
      /\ \A k \in 1..LengthLen : x[n + 1 + z + k] = be[k]
  <2>1. x = ((m \o <<Byte(128)>>) \o Zeros(z)) \o BigEndian(Len(m) * 8, LengthLen)
    <3>1. z = (2 * BlockLen - LengthLen - 1 - (Len(m) % BlockLen)) % BlockLen
      OBVIOUS
    <3> HIDE DEF z
    <3> QED  BY <3>1, Zenon DEF Padded
  <2> HIDE DEF x, z
  <2>2. z \in Nat
    BY <1>3
  <2>3. IsPadded(S, Len(m), m, z, x)
    BY <2>1, <2>2, PaddedFacts
  <2> HIDE DEF n
  <2>4. n = Len(m)
    BY DEF n
  <2>5. IsPadded(S, n, m, z, x)
    BY <2>3, <2>4
  <2> QED  BY <2>5 DEF IsPadded
<1>5. /\ Len(ctx.done) = c /\ ctx.done \in Seq(S) /\ ctx.buf \in [1..BlockLen -> S]
      /\ \A k \in 1..c : ctx.done[k] = m[k]
      /\ \A k \in 1..r : ctx.buf[k] = m[c + k]
  BY DEF Kept, Context
<1> HIDE DEF x, z, r, c, F, n
<1>6. /\ mb \in [1..BlockLen -> S] /\ mb[r + 1] = Byte(128)
      /\ \A k \in 1..r : mb[k] = ctx.buf[k]
  <2>1. ctx.buf \in [1..BlockLen -> S] /\ Byte(128) \in S /\ r \in Nat /\ r < BlockLen
    BY <1>1, <1>5 DEF Endings
  <2> HIDE DEF mb
  <2>2. mb = Copied(ctx.buf, r, <<Byte(128)>>)
    BY DEF mb
  <2> QED  BY <2>1, <2>2, MarkFacts
<1> HIDE DEF mb
<1>7. ASSUME NEW k \in 1..(r + 1) PROVE mb[k] = x[c + k]
  <2>1. CASE k \in 1..r
    <3>1. c + k \in 1..n
      BY <1>1, <2>1
    <3> QED  BY <1>4, <1>5, <1>6, <2>1, <3>1
  <2>2. CASE k = r + 1
    <3>1. c + k = n + 1
      BY <1>1, <2>2
    <3> QED  BY <1>4, <1>6, <2>2, <3>1
  <2>3. k \in 1..r \/ k = r + 1
    BY <1>1
  <2> QED  BY <2>1, <2>2, <2>3
<1>8. ASSUME NEW k \in 1..c PROVE ctx.done[k] = x[k]
  <2>1. k \in 1..n
    BY <1>1
  <2> QED  BY <1>4, <1>5, <2>1
<1>9. Endings(S, n)
  BY DEF n
<1> HIDE DEF be, room
<1>10. CASE r + 1 <= room
  <2>1. /\ b1 \in [1..BlockLen -> S]
        /\ \A k \in 1..(r + 1) : b1[k] = mb[k]
        /\ \A k \in (r + 1 + 1)..room : b1[k] = Byte(0)
        /\ \A k \in 1..LengthLen : b1[room + k] = be[k]
    <3> DEFINE at == r + 1
    <3>1. at \in Nat /\ at <= BlockLen - LengthLen
      BY <1>1, <1>10 DEF room
    <3> HIDE DEF at, b1
    <3>2. b1 = Copied(Copied(mb, at, Zeros(BlockLen - LengthLen - at)), BlockLen - LengthLen,
                      BigEndian(n * 8, LengthLen))
      BY DEF b1, at, room, be
    <3>3. IsLast(S, n, mb, at, b1)
      BY <1>6, <1>9, <3>1, <3>2, LastBlock
    <3> QED  BY <3>3 DEF IsLast, at, room, be
  <2> HIDE DEF b1
  <2>2. z = room - 1 - r
    BY <1>3, <1>10
  <2>3. Len(x) = Len(ctx.done) + BlockLen
    BY <1>1, <1>4, <1>5, <2>2
  <2>4. ASSUME NEW k \in 1..BlockLen PROVE b1[k] = x[Len(ctx.done) + k]
    <3>1. CASE k \in 1..(r + 1)
      BY <1>5, <1>7, <2>1, <3>1
    <3>2. CASE k \in (r + 1 + 1)..room
      <4> DEFINE j == k - (r + 1)
      <4>1. j \in 1..z /\ c + k = n + 1 + j
        BY <1>1, <2>2, <3>2
      <4> HIDE DEF j
      <4> QED  BY <1>4, <1>5, <2>1, <3>2, <4>1, ZenonT(60)
    <3>3. CASE k > room
      <4> DEFINE j == k - room
      <4>1. j \in 1..LengthLen /\ c + k = n + 1 + z + j /\ k = room + j
        BY <1>1, <2>2, <3>3
      <4> HIDE DEF j
      <4> QED  BY <1>4, <1>5, <2>1, <4>1, ZenonT(60)
    <3>4. k \in 1..(r + 1) \/ k \in (r + 1 + 1)..room \/ k > room
      BY <1>1
    <3> QED  BY <3>1, <3>2, <3>3, <3>4
  <2>5. ctx.done \o b1 = x
    <3> DEFINE s == ctx.done
    <3>1. /\ s \in Seq(S) /\ b1 \in [1..BlockLen -> S] /\ x \in Seq(S)
          /\ Len(x) = Len(s) + BlockLen
          /\ \A k \in 1..Len(s) : s[k] = x[k]
          /\ \A k \in 1..BlockLen : b1[k] = x[Len(s) + k]
      BY <1>4, <1>5, <1>8, <2>1, <2>3, <2>4
    <3> HIDE DEF s
    <3>2. s \o b1 = x
      BY <3>1, BlockEnds
    <3> QED  BY <3>2 DEF s
  <2>6. ~(r + 1 > room)
    BY <1>1, <1>10
  <2>7. F.done = x /\ F.buf = b1
    BY <1>2, <2>5, <2>6 DEF Ctx
  <2> QED  BY <2>1, <2>7 DEF x, F
<1>11. CASE r + 1 > room
  <2>1. /\ f \in [1..BlockLen -> S]
        /\ \A k \in 1..(r + 1) : f[k] = mb[k]
        /\ \A k \in 1..(BlockLen - (r + 1)) : f[r + 1 + k] = Byte(0)
    <3> DEFINE zs == Zeros(BlockLen - (r + 1))
               at == r + 1
    <3>1. at \in Nat /\ BlockLen - (r + 1) \in Nat
      BY <1>1
    <3>2. /\ zs \in Seq(S) /\ Len(zs) = BlockLen - (r + 1)
          /\ \A k \in 1..(BlockLen - (r + 1)) : zs[k] = Byte(0)
      BY <1>9, <3>1, ZerosFacts DEF Endings
    <3> HIDE DEF zs
    <3>3. at + Len(zs) <= BlockLen /\ zs \in Seq(S)
      BY <1>1, <3>2
    <3> HIDE DEF at
    <3>4. IsCopy(S, Copied(mb, at, zs), mb, at, zs)
      BY <1>6, <3>1, <3>3, CopiedFacts
    <3>5. f = Copied(mb, at, zs)
      BY DEF f, at, zs
    <3> HIDE DEF f
    <3>6. IsCopy(S, f, mb, at, zs)
      BY <3>4, <3>5
    <3> QED  BY <3>2, <3>6 DEF IsCopy, at
  <2> HIDE DEF f
  <2>2. /\ b2 \in [1..BlockLen -> S]
        /\ \A k \in 1..room : b2[k] = Byte(0)
        /\ \A k \in 1..LengthLen : b2[room + k] = be[k]
    <3> DEFINE at == 0
    <3>1. at \in Nat /\ at <= BlockLen - LengthLen /\ BlockLen - LengthLen - at = room /\ at + 1 = 1
      BY <1>1 DEF room
    <3>2. b2 = Copied(Copied(f, at, Zeros(room)), room, be)
      BY DEF b2
    <3> HIDE DEF at, b2
    <3>3. b2 = Copied(Copied(f, at, Zeros(BlockLen - LengthLen - at)), BlockLen - LengthLen,
                      BigEndian(n * 8, LengthLen))
      BY <3>1, <3>2 DEF room, be
    <3>4. IsLast(S, n, f, at, b2)
      BY <1>9, <2>1, <3>1, <3>3, LastBlock
    <3> QED  BY <3>4, <3>1 DEF IsLast, at, room, be
  <2> HIDE DEF b2
  <2>3. z = BlockLen + room - 1 - r
    BY <1>3, <1>11
  <2>4. Len(x) = c + BlockLen + BlockLen
    <3>1. Len(x) = n + 1 + z + LengthLen /\ z = BlockLen + room - 1 - r
      BY <1>4, <2>3
    <3>2. /\ n \in Nat /\ r \in Nat /\ c \in Nat /\ n = c + r
          /\ BlockLen \in Nat /\ LengthLen \in Nat /\ room = BlockLen - LengthLen
      BY <1>1 DEF room
    <3>3. z \in Int
      BY <1>3
    <3> QED  BY <3>1, <3>2, <3>3
  <2>5. ASSUME NEW k \in 1..BlockLen PROVE f[k] = x[c + k]
    <3>1. CASE k \in 1..(r + 1)
      BY <1>7, <2>1, <3>1
    <3>2. CASE k > r + 1
      <4> DEFINE j == k - (r + 1)
      <4>1. j \in 1..z /\ c + k = n + 1 + j /\ j \in 1..(BlockLen - (r + 1)) /\ k = r + 1 + j
        BY <1>1, <2>3, <3>2
      <4> HIDE DEF j
      <4> QED  BY <1>4, <2>1, <4>1, ZenonT(60)
    <3>3. k \in 1..(r + 1) \/ k > r + 1
      BY <1>1
    <3> QED  BY <3>1, <3>2, <3>3
  <2>6. ASSUME NEW k \in 1..BlockLen PROVE b2[k] = x[c + BlockLen + k]
    <3>1. CASE k \in 1..room
      <4> DEFINE j == BlockLen - (r + 1) + k
      <4>1. j \in 1..z /\ c + BlockLen + k = n + 1 + j
        BY <1>1, <2>3, <3>1
      <4> HIDE DEF j
      <4> QED  BY <1>4, <2>2, <3>1, <4>1, ZenonT(60)
    <3>2. CASE k > room
      <4> DEFINE j == k - room
      <4>1. j \in 1..LengthLen /\ c + BlockLen + k = n + 1 + z + j /\ k = room + j
        BY <1>1, <2>3, <3>2
      <4> HIDE DEF j
      <4> QED  BY <1>4, <2>2, <4>1, ZenonT(60)
    <3>3. k \in 1..room \/ k > room
      BY <1>1
    <3> QED  BY <3>1, <3>2, <3>3
  <2> DEFINE p == SubSeq(x, 1, c + BlockLen)
  <2>7. /\ p \in Seq(S) /\ Len(p) = c + BlockLen
        /\ \A k \in 1..(c + BlockLen) : p[k] = x[k]
    <3> DEFINE b == c + BlockLen
    <3>1. b \in Nat /\ b <= Len(x) /\ x \in Seq(S)
      BY <1>1, <1>4, <2>4
    <3> HIDE DEF b
    <3>2. /\ SubSeq(x, 1, b) \in Seq(S) /\ Len(SubSeq(x, 1, b)) = b
          /\ \A k \in 1..b : SubSeq(x, 1, b)[k] = x[k]
      BY <3>1, PrefixFacts
    <3> QED  BY <3>2 DEF b
  <2> HIDE DEF p
  <2>8. ctx.done \o f = p
    <3> DEFINE s == ctx.done
    <3>1. /\ s \in Seq(S) /\ f \in [1..BlockLen -> S] /\ p \in Seq(S) /\ Len(s) = c
          /\ Len(p) = Len(s) + BlockLen
      BY <1>5, <2>1, <2>7
    <3>2. ASSUME NEW k \in 1..c PROVE s[k] = p[k]
      <4>1. k \in 1..(c + BlockLen)
        BY <1>1
      <4> QED  BY <1>8, <2>7, <4>1
    <3>3. ASSUME NEW k \in 1..BlockLen PROVE f[k] = p[c + k]
      <4>1. c + k \in 1..(c + BlockLen)
        BY <1>1
      <4> QED  BY <2>5, <2>7, <4>1
    <3> HIDE DEF s
    <3>4. s \o f = p
      BY <3>1, <3>2, <3>3, BlockEnds
    <3> QED  BY <3>4 DEF s
  <2>9. p \o b2 = x
    <3>1. Len(x) = Len(p) + BlockLen /\ x \in Seq(S)
      BY <1>1, <1>4, <2>4, <2>7
    <3>2. /\ \A k \in 1..Len(p) : p[k] = x[k]
          /\ \A k \in 1..BlockLen : b2[k] = x[Len(p) + k]
      BY <2>6, <2>7
    <3> QED  BY <2>2, <2>7, <3>1, <3>2, BlockEnds
  <2>10. F.done = x /\ F.buf = b2
    BY <1>2, <1>11, <2>8, <2>9 DEF Ctx
  <2> QED  BY <2>2, <2>10 DEF x, F
<1>12. r + 1 <= room \/ r + 1 > room
  BY <1>1
<1> QED  BY <1>10, <1>11, <1>12

-----------------------------------------------------------------------------
(* Whole hashes.  What the buffer holds at first does not matter. *)
Takes(S, ctx, m) == ctx \in Context(S) /\ ctx.count = Len(m) /\ Kept(ctx, m)

LEMMA InitTakes ==
    ASSUME NEW S, NEW buf \in [1..BlockLen -> S]
    PROVE  Takes(S, sha1_init(buf), <<>>)
<1> DEFINE ctx == sha1_init(buf)
<1>1. ctx.count = 0 /\ ctx.done = <<>> /\ ctx \in Context(S)
  BY DEF sha1_init, Context
<1>2. Len(<<>>) = 0 /\ 0 % BlockLen = 0
  BY HmacAssumption
<1> HIDE DEF ctx
<1>3. Kept(ctx, <<>>)
  BY <1>1, <1>2 DEF Kept
<1> QED  BY <1>1, <1>2, <1>3 DEF Takes, ctx

LEMMA UpdateTakes ==
    ASSUME NEW S, NEW ctx, NEW m \in Seq(S), NEW d \in Seq(S), Takes(S, ctx, m)
    PROVE  Takes(S, sha1_update(ctx, d), m \o d)
BY UpdateKeeps DEF Takes

LEMMA FirstTakes ==
    ASSUME NEW S, NEW buf \in [1..BlockLen -> S], NEW d \in Seq(S)
    PROVE  Takes(S, sha1_update(sha1_init(buf), d), d)
<1>1. Takes(S, sha1_update(sha1_init(buf), d), <<>> \o d)
  <2> DEFINE ctx == sha1_init(buf)
             m == <<>>
  <2>1. m \in Seq(S) /\ Takes(S, ctx, m)
    BY InitTakes
  <2> HIDE DEF ctx, m
  <2>2. Takes(S, sha1_update(ctx, d), m \o d)
    BY <2>1, UpdateTakes
  <2> QED  BY <2>2 DEF ctx, m
<1>2. <<>> \o d = d
  OBVIOUS
<1> QED  BY <1>1, <1>2

LEMMA FinalTakes ==
    ASSUME NEW S, NEW ctx, NEW m \in Seq(S), Takes(S, ctx, m), Endings(S, Len(m))
    PROVE  sha1_final(ctx).done = Padded(m) /\ sha1_final(ctx).buf \in [1..BlockLen -> S]
BY FinalPads DEF Takes

LEMMA OneHash ==
    ASSUME NEW S, NEW buf \in [1..BlockLen -> S], NEW d \in Seq(S), Endings(S, Len(d))
    PROVE  sha1_final(sha1_update(sha1_init(buf), d)).done = Padded(d)
BY FirstTakes, FinalTakes

LEMMA TwoPartHash ==
    ASSUME NEW S, NEW buf \in [1..BlockLen -> S], NEW a \in Seq(S), NEW d \in Seq(S),
           \A n \in Nat : Endings(S, n)
    PROVE  LET F == sha1_final(sha1_update(sha1_update(sha1_init(buf), a), d))
           IN  F.done = Padded(a \o d) /\ F.buf \in [1..BlockLen -> S]
<1> DEFINE first == sha1_update(sha1_init(buf), a)
           both == sha1_update(first, d)
           m == a \o d
<1>1. Takes(S, first, a)
  BY FirstTakes
<1> HIDE DEF first
<1>2. Takes(S, both, m)
  BY <1>1, UpdateTakes
<1>3. m \in Seq(S)
  OBVIOUS
<1> HIDE DEF m, both
<1>4. Endings(S, Len(m))
  BY <1>3
<1>5. sha1_final(both).done = Padded(m) /\ sha1_final(both).buf \in [1..BlockLen -> S]
  BY <1>2, <1>3, <1>4, FinalTakes
<1> QED  BY <1>5 DEF m, both, first

-----------------------------------------------------------------------------
(* The bytes that one call of hmac_sha1 may meet, when those of the key    *)
(* and the message are of V.                                               *)
Values256(V) ==
    V \cup Nat \cup {(x[1] \div 256 ^ x[2]) % 256 : x \in Nat \X Int}

Universe(V) ==
    {"byte", "undefined", "key", "inner"} \X Values256(V) \X SUBSET {"36", "5c"}

Octets(V) == {Byte(v) : v \in V}

LEMMA UniverseEndings ==
    ASSUME NEW V, NEW n \in Nat
    PROVE  Endings(Universe(V), n)
<1>1. Byte(0) \in Universe(V) /\ Byte(128) \in Universe(V)
  BY DEF Universe, Values256, Byte
<1>2. ASSUME NEW k \in 1..LengthLen PROVE BigEndian(n * 8, LengthLen)[k] \in Universe(V)
  <2> DEFINE v == ((n * 8) \div 256 ^ (LengthLen - k)) % 256
             x == <<n * 8, LengthLen - k>>
  <2>1. BigEndian(n * 8, LengthLen)[k] = Byte(v)
    BY Zenon DEF BigEndian
  <2>2. x \in Nat \X Int
    BY HmacAssumption
  <2>3. v = (x[1] \div 256 ^ x[2]) % 256
    BY Zenon
  <2> HIDE DEF x, v
  <2>4. v \in Values256(V)
    BY <2>2, <2>3, ZenonT(60) DEF Values256
  <2>5. Byte(v) \in Universe(V)
    BY <2>4 DEF Universe, Byte
  <2> QED  BY <2>1, <2>5
<1> QED  BY <1>1, <1>2 DEF Endings

LEMMA UniverseOctets ==
    ASSUME NEW V, NEW s \in Seq(Octets(V))
    PROVE  s \in Seq(Universe(V)) /\ \A k \in 1..Len(s) : s[k] = <<s[k][1], s[k][2], {}>>
<1>1. ASSUME NEW b \in Octets(V) PROVE b \in Universe(V) /\ b = <<b[1], b[2], {}>>
  BY <1>1 DEF Octets, Universe, Values256, Byte
<1> QED  BY <1>1

(* A key for a block: no byte of it is xored with anything yet. *)
Plain(V, K) ==
    /\ K \in Seq(Universe(V))
    /\ \A k \in 1..Len(K) : K[k] = <<K[k][1], K[k][2], {}>>

LEMMA PlainCat ==
    ASSUME NEW V, NEW s, NEW t, Plain(V, s), Plain(V, t)
    PROVE  Plain(V, s \o t)
<1> DEFINE x == s \o t
<1>1. /\ x \in Seq(Universe(V)) /\ Len(x) = Len(s) + Len(t)
      /\ \A k \in 1..Len(s) : x[k] = s[k]
      /\ \A k \in 1..Len(t) : x[Len(s) + k] = t[k]
  BY CatFacts DEF Plain
<1>2. Len(s) \in Nat /\ Len(t) \in Nat
  BY DEF Plain
<1> HIDE DEF x
<1>3. ASSUME NEW k \in 1..Len(x) PROVE x[k] = <<x[k][1], x[k][2], {}>>
  <2>1. CASE k <= Len(s)
    <3>1. k \in 1..Len(s)
      BY <1>2, <2>1
    <3> QED  BY <1>1, <3>1 DEF Plain
  <2>2. CASE k > Len(s)
    <3> DEFINE j == k - Len(s)
    <3>1. j \in 1..Len(t) /\ k = Len(s) + j
      BY <1>1, <1>2, <2>2
    <3> HIDE DEF j
    <3>2. x[k] = t[j] /\ t[j] = <<t[j][1], t[j][2], {}>>
      BY <1>1, <3>1 DEF Plain
    <3> QED  BY <3>2, Zenon
  <2> QED  BY <1>1, <1>2, <2>1, <2>2
<1> QED  BY <1>1, <1>3 DEF Plain, x

LEMMA PlainParts ==
    ASSUME NEW V
    PROVE  /\ \A n \in Nat : Plain(V, Zeros(n))
           /\ Plain(V, Digest("key")) /\ Plain(V, Digest("inner"))
<1>1. ASSUME NEW n \in Nat PROVE Plain(V, Zeros(n))
  <2>1. Byte(0) \in Universe(V) /\ Byte(0) = <<Byte(0)[1], Byte(0)[2], {}>>
    BY DEF Universe, Values256, Byte
  <2>2. /\ Zeros(n) \in Seq(Universe(V)) /\ Len(Zeros(n)) = n
        /\ \A k \in 1..n : Zeros(n)[k] = Byte(0)
    BY <2>1, ZerosFacts
  <2> QED  BY <2>1, <2>2 DEF Plain
<1>2. ASSUME NEW o \in {"key", "inner"} PROVE Plain(V, Digest(o))
  <2>1. DigestLen \in Nat
    BY HmacAssumption
  <2>2. ASSUME NEW k \in 1..DigestLen PROVE <<o, k, {}>> \in Universe(V)
    BY <2>1 DEF Universe, Values256
  <2>3. Digest(o) \in [1..DigestLen -> Universe(V)]
    BY <2>2, Zenon DEF Digest
  <2>4. Digest(o) \in Seq(Universe(V)) /\ Len(Digest(o)) = DigestLen
    BY <2>1, <2>3
  <2>5. ASSUME NEW k \in 1..DigestLen PROVE Digest(o)[k] = <<Digest(o)[k][1], Digest(o)[k][2], {}>>
    BY DEF Digest
  <2> QED  BY <2>4, <2>5 DEF Plain
<1> QED  BY <1>1, <1>2

LEMMA PlainKey ==
    ASSUME NEW V, NEW key \in Seq(Octets(V))
    PROVE  Plain(V, BlockKey(key))
<1>1. Plain(V, key)
  BY UniverseOctets DEF Plain
<1>2. Len(key) \in Nat /\ BlockLen \in Nat /\ DigestLen \in Nat /\ DigestLen <= BlockLen
  BY HmacAssumption
<1>3. CASE Len(key) > BlockLen
  <2>1. BlockLen - DigestLen \in Nat
    BY <1>2
  <2>2. Plain(V, Digest("key")) /\ Plain(V, Zeros(BlockLen - DigestLen))
    BY <2>1, PlainParts
  <2> QED  BY <1>3, <2>2, PlainCat DEF BlockKey
<1>4. CASE ~(Len(key) > BlockLen)
  <2>1. BlockLen - Len(key) \in Nat
    BY <1>2, <1>4
  <2>2. Plain(V, Zeros(BlockLen - Len(key)))
    BY <2>1, PlainParts
  <2> QED  BY <1>1, <1>4, <2>2, PlainCat DEF BlockKey
<1> QED  BY <1>3, <1>4

(* The key xored with one pad. *)
With(K, p) == [b \in DOMAIN K |-> <<K[b][1], K[b][2], {p}>>]

LEMMA WithFacts ==
    ASSUME NEW V, NEW K, Plain(V, K)
    PROVE  /\ Xored(K, "36") = With(K, "36")
           /\ Xored(Xored(With(K, "36"), "36"), "5c") = With(K, "5c")
           /\ With(K, "36") \in Seq(Universe(V)) /\ With(K, "5c") \in Seq(Universe(V))
<1> DEFINE D == DOMAIN K
<1>1. D = 1..Len(K) /\ Len(K) \in Nat
  BY DEF Plain
<1>2. ASSUME NEW b \in D PROVE K[b][3] = {} /\ K[b] \in Universe(V)
  <2>1. K[b] = <<K[b][1], K[b][2], {}>>
    BY <1>1 DEF Plain
  <2>2. K[b] \in Universe(V)
    BY <1>1 DEF Plain
  <2> DEFINE t == <<K[b][1], K[b][2], {}>>
  <2>3. t[3] = {}
    OBVIOUS
  <2> HIDE DEF t
  <2>4. K[b] = t
    BY <2>1 DEF t
  <2> QED  BY <2>2, <2>3, <2>4
<1>3. Xored(K, "36") = With(K, "36")
  BY <1>2 DEF Xored, With
<1>4. Xored(With(K, "36"), "36") = [b \in D |-> <<K[b][1], K[b][2], {}>>]
  <2> DEFINE W == With(K, "36")
  <2>1. DOMAIN W = D
    BY DEF With
  <2>2. ASSUME NEW b \in D
        PROVE  W[b][1] = K[b][1] /\ W[b][2] = K[b][2] /\ W[b][3] = {"36"}
    BY DEF With
  <2> HIDE DEF W, D
  <2>3. Xored(W, "36") = [b \in D |-> <<W[b][1], W[b][2], {}>>]
    <3>1. ASSUME NEW b \in D
          PROVE  (IF "36" \in W[b][3] THEN W[b][3] \ {"36"} ELSE W[b][3] \cup {"36"}) = {}
      BY <2>2
    <3> QED  BY <2>1, <3>1, Zenon DEF Xored
  <2>4. [b \in D |-> <<W[b][1], W[b][2], {}>>] = [b \in D |-> <<K[b][1], K[b][2], {}>>]
    BY <2>2, Zenon
  <2> QED  BY <2>3, <2>4 DEF W
<1>5. Xored([b \in D |-> <<K[b][1], K[b][2], {}>>], "5c") = With(K, "5c")
  BY DEF Xored, With
<1>6. ASSUME NEW p \in {"36", "5c"} PROVE With(K, p) \in Seq(Universe(V))
  <2>1. ASSUME NEW b \in D PROVE <<K[b][1], K[b][2], {p}>> \in Universe(V)
    <3>1. K[b] \in Universe(V)
      BY <1>2
    <3> QED  BY <3>1 DEF Universe
  <2>2. With(K, p) \in [1..Len(K) -> Universe(V)]
    BY <1>1, <2>1, Zenon DEF With
  <2> HIDE DEF D
  <2> QED  BY <1>1, <2>2
<1> QED  BY <1>3, <1>4, <1>5, <1>6

-----------------------------------------------------------------------------
(* hmac_sha1 hashes what RFC 2104 says, for keys and messages of every     *)
(* length: the key first if it is longer than a block, then the message    *)
(* behind the key xored with the one pad, and that digest behind the key   *)
(* xored with the other, each padded as RFC 3174 says (hmac_sha1,          *)
(* src/hmac.c; sha1_update and sha1_final, src/sha1.c).  The two updates   *)
(* before each sha1_final may leave the block buffer at any fill.          *)
THEOREM HashesAsSpecified ==
    ASSUME NEW V, NEW key \in Seq(Octets(V)), NEW msg \in Seq(Octets(V))
    PROVE  AsSpecified(hmac_sha1(key, msg), key, msg)
<1> DEFINE U == Universe(V)
           K == BlockKey(key)
           ipad == Xored(K, "36")
           inner == sha1_final(sha1_update(sha1_update(sha1_init(Uninitialized), ipad), msg))
           opad == Xored(Xored(ipad, "36"), "5c")
           outer == sha1_final(sha1_update(sha1_update(sha1_init(inner.buf), opad), Digest("inner")))
           H == hmac_sha1(key, msg)
<1>1. H = [key |-> IF Len(key) > BlockLen THEN sha1(key).done ELSE <<>>,
           inner |-> inner.done, outer |-> outer.done]
  BY Zenon DEF hmac_sha1
<1>2. Plain(V, K)
  BY PlainKey
<1>3. ipad = With(K, "36") /\ opad = With(K, "5c")
  <2> HIDE DEF K
  <2> QED  BY <1>2, WithFacts
<1>4. With(K, "36") \in Seq(U) /\ With(K, "5c") \in Seq(U)
  <2> HIDE DEF K
  <2> QED  BY <1>2, WithFacts
<1>5. msg \in Seq(U) /\ key \in Seq(U) /\ Digest("inner") \in Seq(U)
  BY UniverseOctets, PlainParts DEF Plain
<1>6. Uninitialized \in [1..BlockLen -> U]
  <2>1. ASSUME NEW k \in 1..BlockLen PROVE <<"undefined", k, {}>> \in U
    <3>1. k \in Nat
      BY HmacAssumption
    <3> QED  BY <3>1 DEF Universe, Values256
  <2> QED  BY <2>1, Zenon DEF Uninitialized
<1>7. \A n \in Nat : Endings(U, n)
  BY UniverseEndings
<1> HIDE DEF U, K, ipad, opad
<1>8. inner.done = Padded(With(K, "36") \o msg) /\ inner.buf \in [1..BlockLen -> U]
  <2>1. ipad \in Seq(U)
    BY <1>3, <1>4
  <2>2. inner.done = Padded(ipad \o msg) /\ inner.buf \in [1..BlockLen -> U]
    BY <1>5, <1>6, <1>7, <2>1, TwoPartHash
  <2> QED  BY <1>3, <2>2
<1>9. outer.done = Padded(With(K, "5c") \o Digest("inner"))
  <2> DEFINE buf == inner.buf
             d == Digest("inner")
  <2>1. opad \in Seq(U) /\ buf \in [1..BlockLen -> U] /\ d \in Seq(U)
    BY <1>3, <1>4, <1>5, <1>8
  <2> HIDE DEF buf, d
  <2>2. sha1_final(sha1_update(sha1_update(sha1_init(buf), opad), d)).done = Padded(opad \o d)
    BY <1>7, <2>1, TwoPartHash
  <2> QED  BY <1>3, <2>2 DEF buf, d
<1>10. sha1(key).done = Padded(key)
  <2>1. Endings(U, Len(key))
    BY <1>7
  <2> QED  BY <1>5, <1>6, <2>1, OneHash DEF sha1
<1> HIDE DEF inner, outer, H
<1>11. /\ Len(key) > BlockLen => H.key = Padded(key)
       /\ H.inner = Padded(With(K, "36") \o msg)
       /\ H.outer = Padded(With(K, "5c") \o Digest("inner"))
  BY <1>1, <1>8, <1>9, <1>10
<1>12. AsSpecified(H, key, msg)
  BY <1>11, Zenon DEF AsSpecified, With, K, BlockKey
<1> QED  BY <1>12 DEF H
=============================================================================
