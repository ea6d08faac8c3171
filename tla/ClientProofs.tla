---------------------------- MODULE ClientProofs -----------------------------
(***************************************************************************)
(* Proofs about the client: its decoders of a secret's text read every     *)
(* text as it is written, its token is made from what the RFCs hash, and   *)
(* its one datagram holds that token and goes where it was asked to.       *)
(***************************************************************************)
EXTENDS Client, HmacProofs, WellFoundedInduction

(* Octets are bytes. *)
LEMMA PowerOfTwo ==
    /\ 2 ^ 0 = 1 /\ 2 ^ 1 = 2 /\ 2 ^ 2 = 4 /\ 2 ^ 3 = 8 /\ 2 ^ 4 = 16 /\ 2 ^ 5 = 32
    /\ \A e \in 0..5 : 2 ^ e \in Nat \ {0}
<1>1. 2 ^ 0 = 1 /\ 2 ^ 1 = 2 /\ 2 ^ 2 = 4 /\ 2 ^ 3 = 8 /\ 2 ^ 4 = 16 /\ 2 ^ 5 = 32
  OBVIOUS
<1>2. ASSUME NEW e \in 0..5 PROVE 2 ^ e \in Nat \ {0}
  <2>1. e \in {0, 1, 2, 3, 4, 5}
    OBVIOUS
  <2>2. 2 ^ e \in {2 ^ 0, 2 ^ 1, 2 ^ 2, 2 ^ 3, 2 ^ 4, 2 ^ 5}
    BY <2>1, Zenon
  <2>3. 2 ^ e \in {1, 2, 4, 8, 16, 32}
    BY <1>1, <2>2, Zenon
  <2> QED  BY <2>3
<1> QED  BY <1>1, <1>2

LEMMA BitType ==
    ASSUME NEW v \in Int, NEW e \in 0..5
    PROVE  (v \div 2 ^ e) % 2 \in 0..1
<1> DEFINE p == 2 ^ e
<1>1. p \in Nat \ {0}
  BY PowerOfTwo
<1> HIDE DEF p
<1>2. (v \div p) % 2 \in 0..1
  <2>1. v \div p \in Int
    BY <1>1
  <2> QED  BY <2>1
<1> QED  BY <1>2 DEF p

LEMMA OctetType ==
    ASSUME NEW w \in {4, 5, 6}, NEW j \in Nat \ {0}, NEW vals,
           \A k \in 1..8 : vals[(8 * (j - 1) + k - 1) \div w + 1] \in Int
    PROVE  Octet(vals, w, j) \in 0..255
<1>1. ASSUME NEW k \in 1..8 PROVE Bit(vals, w, 8 * (j - 1) + k) \in 0..1
  <2> DEFINE a == 8 * (j - 1) + k - 1
             e == w - 1 - (a % w)
             v == vals[a \div w + 1]
  <2>1. a \in Nat
    OBVIOUS
  <2> HIDE DEF a
  <2>2. e \in 0..5
    BY <2>1
  <2>3. v \in Int
    BY DEF a
  <2> HIDE DEF e, v
  <2>4. (v \div 2 ^ e) % 2 \in 0..1
    BY <2>2, <2>3, BitType
  <2> QED  BY <2>4 DEF Bit, a, e, v
<1> DEFINE b(k) == Bit(vals, w, 8 * (j - 1) + k)
<1>2. /\ b(1) \in 0..1 /\ b(2) \in 0..1 /\ b(3) \in 0..1 /\ b(4) \in 0..1
      /\ b(5) \in 0..1 /\ b(6) \in 0..1 /\ b(7) \in 0..1 /\ b(8) \in 0..1
  BY <1>1
<1>3. Octet(vals, w, j) =
        128 * b(1) + 64 * b(2) + 32 * b(3) + 16 * b(4) + 8 * b(5) + 4 * b(6) + 2 * b(7) + b(8)
  BY Zenon DEF Octet
<1> HIDE DEF b
<1> QED  BY <1>2, <1>3

(* Octets of two texts are the same if their bits are. *)
LEMMA OctetSame ==
    ASSUME NEW s, NEW t, NEW w, NEW j, NEW l,
           \A k \in 1..8 : Bit(s, w, 8 * (j - 1) + k) = Bit(t, w, 8 * (l - 1) + k)
    PROVE  Octet(s, w, j) = Octet(t, w, l)
<1> DEFINE b(k) == Bit(s, w, 8 * (j - 1) + k)
           c(k) == Bit(t, w, 8 * (l - 1) + k)
<1>1. /\ b(1) = c(1) /\ b(2) = c(2) /\ b(3) = c(3) /\ b(4) = c(4)
      /\ b(5) = c(5) /\ b(6) = c(6) /\ b(7) = c(7) /\ b(8) = c(8)
  OBVIOUS
<1> HIDE DEF b, c
<1>2. 128 * b(1) + 64 * b(2) + 32 * b(3) + 16 * b(4) + 8 * b(5) + 4 * b(6) + 2 * b(7) + b(8)
      = 128 * c(1) + 64 * c(2) + 32 * c(3) + 16 * c(4) + 8 * c(5) + 4 * c(6) + 2 * c(7) + c(8)
  BY <1>1, Zenon
<1> QED  BY <1>2, Zenon DEF Octet, b, c

-----------------------------------------------------------------------------
(* A group of characters. *)
LEMMA Widths ==
    /\ Width["hex"] = 4 /\ Width["base32"] = 5 /\ Width["base64"] = 6
    /\ Group["hex"] = 2 /\ Group["base32"] = 8 /\ Group["base64"] = 4
    /\ Encodings = {"hex", "base32", "base64"}
BY DEF Width, Group, Encodings

(* Sets of the first few numbers. *)
LEMMA Initial ==
    ASSUME NEW g \in 0..8, NEW L \in SUBSET (1..g), \A k \in L : \A l \in 1..k : l \in L
    PROVE  \E m \in 0..g : L = 1..m
<1>1. ASSUME NEW m \in 0..g, m = 0 \/ m \in L, \A k \in L : k <= m PROVE L = 1..m
  <2>1. \A k \in L : k \in 1..m
    BY <1>1
  <2>2. \A k \in 1..m : k \in L
    BY <1>1
  <2> QED  BY <2>1, <2>2, Zenon
<1>2. \E m \in 0..g : (m = 0 \/ m \in L) /\ \A k \in L : k <= m
  <2> DEFINE P(m) == (m = 0 \/ m \in L) /\ \A k \in L : k <= m
  <2>1. g \in {0, 1, 2, 3, 4, 5, 6, 7, 8}
    OBVIOUS
  <2>2. CASE 8 \in L
    BY <2>2
  <2>3. CASE 8 \notin L /\ 7 \in L
    BY <2>3
  <2>4. CASE 8 \notin L /\ 7 \notin L /\ 6 \in L
    BY <2>4
  <2>5. CASE 8 \notin L /\ 7 \notin L /\ 6 \notin L /\ 5 \in L
    BY <2>5
  <2>6. CASE 8 \notin L /\ 7 \notin L /\ 6 \notin L /\ 5 \notin L /\ 4 \in L
    BY <2>6
  <2>7. CASE 8 \notin L /\ 7 \notin L /\ 6 \notin L /\ 5 \notin L /\ 4 \notin L /\ 3 \in L
    BY <2>7
  <2>8. CASE 8 \notin L /\ 7 \notin L /\ 6 \notin L /\ 5 \notin L /\ 4 \notin L /\ 3 \notin L
             /\ 2 \in L
    BY <2>8
  <2>9. CASE 8 \notin L /\ 7 \notin L /\ 6 \notin L /\ 5 \notin L /\ 4 \notin L /\ 3 \notin L
             /\ 2 \notin L /\ 1 \in L
    BY <2>9
  <2>10. CASE 8 \notin L /\ 7 \notin L /\ 6 \notin L /\ 5 \notin L /\ 4 \notin L /\ 3 \notin L
             /\ 2 \notin L /\ 1 \notin L
    <3>1. L = {}
      BY <2>10
    <3> QED  BY <3>1
  <2> QED  BY <2>2, <2>3, <2>4, <2>5, <2>6, <2>7, <2>8, <2>9, <2>10
<1> QED  BY <1>1, <1>2

LEMMA LeadingFacts ==
    ASSUME encoding \in Encodings, body \in Seq(Int), i \in Nat
    PROVE  \E m \in 0..Group[encoding] :
              /\ Leading = 1..m /\ InGroup \in SUBSET (1..Group[encoding])
              /\ Values \in Seq(Int) /\ Len(Values) = m
              /\ \A k \in 1..m : Values[k] = body[i + k] /\ body[i + k] >= 0 /\ i + k <= Len(body)
              /\ m + 1 \in InGroup => body[i + m + 1] < 0
<1> DEFINE g == Group[encoding]
           L == Leading
<1>1. g \in 0..8
  BY Widths
<1>2. InGroup = {k \in 1..g : i + k <= Len(body)}
  BY DEF InGroup
<1> HIDE DEF g
<1>3. L \in SUBSET (1..g) /\ \A k \in L : \A l \in 1..k : l \in L
  <2>1. L \in SUBSET (1..g)
    BY <1>2 DEF Leading
  <2>2. ASSUME NEW k \in L, NEW l \in 1..k PROVE l \in L
    <3>1. k \in 1..g /\ i + k <= Len(body) /\ \A p \in 1..k : body[i + p] >= 0
      BY <1>2 DEF Leading
    <3>2. l \in 1..g /\ i + l <= Len(body)
      BY <1>1, <3>1
    <3>3. ASSUME NEW p \in 1..l PROVE body[i + p] >= 0
      <4>1. p \in 1..k
        BY <1>1, <3>1
      <4> QED  BY <3>1, <4>1
    <3> QED  BY <1>2, <3>2, <3>3 DEF Leading
  <2> QED  BY <2>1, <2>2
<1> HIDE DEF L
<1>4. PICK m \in 0..g : L = 1..m
  BY <1>1, <1>3, Initial
<1>5. ASSUME NEW k \in 1..m PROVE body[i + k] >= 0 /\ i + k <= Len(body)
  <2>1. k \in L
    BY <1>4
  <2> QED  BY <1>1, <1>2, <2>1 DEF L, Leading
<1>6. ASSUME NEW k \in 1..m PROVE body[i + k] \in Int
  <2>1. i + k \in 1..Len(body)
    BY <1>1, <1>5
  <2> QED  BY <2>1
<1>7. Values = [k \in 1..m |-> body[i + k]]
  BY <1>4, Zenon DEF Values, L
<1>8. Values \in Seq(Int) /\ Len(Values) = m
  BY <1>1, <1>6, <1>7
<1>9. ASSUME m + 1 \in InGroup PROVE body[i + m + 1] < 0
  <2>1. m + 1 \notin L
    BY <1>1, <1>4
  <2>2. PICK l \in 1..(m + 1) : ~(body[i + l] >= 0)
    BY <1>9, <2>1 DEF L, Leading
  <2>3. l = m + 1
    BY <1>1, <1>5, <2>2
  <2>4. i + l = i + m + 1 /\ i + l \in 1..Len(body)
    BY <1>1, <1>2, <1>9, <2>3
  <2>5. body[i + l] \in Int
    BY <2>4
  <2> QED  BY <2>2, <2>4, <2>5
<1>10. Leading = 1..m /\ InGroup \in SUBSET (1..g)
  BY <1>2, <1>4 DEF L
<1> QED  BY <1>5, <1>7, <1>8, <1>9, <1>10 DEF g

(* b32_fill_rest and b64_fill_rest *)
LEMMA FillFacts ==
    ASSUME NEW g \in Nat, NEW vals \in Seq(Int)
    PROVE  /\ \A k \in 1..g : FillRest(vals, g)[k] \in Int
           /\ \A k \in 1..g : FillRest(vals, g)[k] = IF k <= Len(vals) THEN vals[k] ELSE 0
<1>1. ASSUME NEW k \in 1..g PROVE FillRest(vals, g)[k] = IF k <= Len(vals) THEN vals[k] ELSE 0
  BY Zenon DEF FillRest
<1>2. ASSUME NEW k \in 1..g PROVE (IF k <= Len(vals) THEN vals[k] ELSE 0) \in Int
  OBVIOUS
<1> QED  BY <1>1, <1>2

(* The bytes of a group: as many as its characters hold. *)
LEMMA GroupFits ==
    ASSUME encoding \in {"base32", "base64"}, NEW m \in 0..Group[encoding]
    PROVE  LET n == GroupBytes(m)
           IN  /\ n \in 0..5 /\ 8 * n <= m * Width[encoding]
               /\ n # 0 => n = (m * Width[encoding]) \div 8
               /\ n = 0 => m \in {0, 1, 3, 6}
               /\ n = 0 /\ encoding = "base64" => m < 2
<1>1. CASE encoding = "base32"
  <2>1. m \in 0..8 /\ Width[encoding] = 5
    BY <1>1, Widths
  <2>2. GroupBytes(m) = IF m \in {0, 1, 3, 6} THEN 0 ELSE (m * 5) \div 8
    BY <1>1, <2>1 DEF GroupBytes, b32_tab
  <2> QED  BY <1>1, <2>1, <2>2
<1>2. CASE encoding = "base64"
  <2>1. m \in 0..4 /\ Width[encoding] = 6
    BY <1>2, Widths
  <2>2. GroupBytes(m) = (m * 3) \div 4
    BY <1>2 DEF GroupBytes, B64_GROUP
  <2> QED  BY <1>2, <2>1, <2>2
<1> QED  BY <1>1, <1>2

-----------------------------------------------------------------------------
(* The octets of a group are those of the whole text behind the groups     *)
(* before it: a group is a whole number of octets.                         *)
GroupOctets == [hex |-> 1, base32 |-> 5, base64 |-> 3]

LEMMA WholeOctets ==
    ASSUME NEW e \in Encodings
    PROVE  /\ Width[e] \in {4, 5, 6} /\ Group[e] \in 1..8 /\ GroupOctets[e] \in 1..5
           /\ Width[e] * Group[e] = 8 * GroupOctets[e]
BY Widths DEF GroupOctets

(* Where the k-th bit of the j-th octet is, from 0. *)
Pos(j, k) == 8 * (j - 1) + k - 1

LEMMA BitAt ==
    ASSUME NEW s, NEW w, NEW j \in Int, NEW k \in Int
    PROVE  Bit(s, w, 8 * (j - 1) + k)
             = (s[Pos(j, k) \div w + 1] \div 2 ^ (w - 1 - (Pos(j, k) % w))) % 2
BY DEF Bit, Pos

LEMMA Shift ==
    ASSUME NEW e \in Encodings, NEW q \in Nat, NEW j \in Nat \ {0}, NEW k \in 1..8
    PROVE  /\ Pos(GroupOctets[e] * q + j, k) \div Width[e] = Group[e] * q + Pos(j, k) \div Width[e]
           /\ Pos(GroupOctets[e] * q + j, k) % Width[e] = Pos(j, k) % Width[e]
<1> DEFINE a == Pos(j, k)
           b == Pos(GroupOctets[e] * q + j, k)
<1>1. a \in Nat
  BY DEF Pos
<1>2. ASSUME NEW x \in Nat
      PROVE  /\ (8 * q + x) \div 4 = 2 * q + x \div 4 /\ (8 * q + x) % 4 = x % 4
             /\ (40 * q + x) \div 5 = 8 * q + x \div 5 /\ (40 * q + x) % 5 = x % 5
             /\ (24 * q + x) \div 6 = 4 * q + x \div 6 /\ (24 * q + x) % 6 = x % 6
  OBVIOUS
<1>3. CASE e = "hex"
  <2>1. Width[e] = 4 /\ Group[e] = 2 /\ GroupOctets[e] = 1
    BY <1>3, Widths DEF GroupOctets
  <2>2. b = 8 * q + a
    BY <2>1 DEF Pos
  <2> HIDE DEF a, b
  <2>3. b \div Width[e] = Group[e] * q + a \div Width[e] /\ b % Width[e] = a % Width[e]
    BY <1>1, <1>2, <2>1, <2>2
  <2> QED  BY <2>3 DEF a, b
<1>4. CASE e = "base32"
  <2>1. Width[e] = 5 /\ Group[e] = 8 /\ GroupOctets[e] = 5
    BY <1>4, Widths DEF GroupOctets
  <2>2. b = 40 * q + a
    BY <2>1 DEF Pos
  <2> HIDE DEF a, b
  <2>3. b \div Width[e] = Group[e] * q + a \div Width[e] /\ b % Width[e] = a % Width[e]
    BY <1>1, <1>2, <2>1, <2>2
  <2> QED  BY <2>3 DEF a, b
<1>5. CASE e = "base64"
  <2>1. Width[e] = 6 /\ Group[e] = 4 /\ GroupOctets[e] = 3
    BY <1>5, Widths DEF GroupOctets
  <2>2. b = 24 * q + a
    BY <2>1 DEF Pos
  <2> HIDE DEF a, b
  <2>3. b \div Width[e] = Group[e] * q + a \div Width[e] /\ b % Width[e] = a % Width[e]
    BY <1>1, <1>2, <2>1, <2>2
  <2> QED  BY <2>3 DEF a, b
<1> QED  BY <1>3, <1>4, <1>5, Widths

LEMMA IndexIn ==
    ASSUME NEW w \in {4, 5, 6}, NEW c \in Nat, NEW j \in Nat \ {0}, 8 * j <= c * w, NEW k \in 1..8
    PROVE  Pos(j, k) \in Nat /\ Pos(j, k) \div w \in Nat /\ Pos(j, k) \div w + 1 \in 1..c
<1>1. CASE w = 4
  BY <1>1 DEF Pos
<1>2. CASE w = 5
  BY <1>2 DEF Pos
<1>3. CASE w = 6
  BY <1>3 DEF Pos
<1> QED  BY <1>1, <1>2, <1>3

LEMMA GroupOctet ==
    ASSUME NEW e \in Encodings, NEW q \in Nat, NEW c \in Nat, NEW j \in Nat \ {0},
           8 * j <= c * Width[e], NEW s, NEW t, \A p \in 1..c : s[p] = t[Group[e] * q + p]
    PROVE  Octet(s, Width[e], j) = Octet(t, Width[e], GroupOctets[e] * q + j)
<1> DEFINE w == Width[e]
           l == GroupOctets[e] * q + j
<1>1. w \in {4, 5, 6} /\ Group[e] \in 1..8 /\ GroupOctets[e] \in 1..5
  BY WholeOctets
<1>2. l \in Int /\ Group[e] * q \in Nat
  BY <1>1
<1>3. ASSUME NEW k \in 1..8 PROVE Bit(s, w, 8 * (j - 1) + k) = Bit(t, w, 8 * (l - 1) + k)
  <2> DEFINE a == Pos(j, k)
             b == Pos(l, k)
             p == a \div w + 1
  <2>1. a \div w \in Nat /\ p \in 1..c
    <3> HIDE DEF w
    <3> QED  BY <1>1, IndexIn DEF w
  <2>2. b \div w = Group[e] * q + a \div w /\ b % w = a % w
    BY Shift
  <2> HIDE DEF a, b, w, l
  <2>3. b \div w + 1 = Group[e] * q + p
    BY <1>2, <2>1, <2>2
  <2> HIDE DEF p
  <2>4. s[p] = t[b \div w + 1]
    BY <2>1, <2>3
  <2>5. Bit(s, w, 8 * (j - 1) + k) = (s[p] \div 2 ^ (w - 1 - (a % w))) % 2
    BY BitAt DEF p, a
  <2>6. Bit(t, w, 8 * (l - 1) + k) = (t[b \div w + 1] \div 2 ^ (w - 1 - (b % w))) % 2
    BY <1>2, BitAt DEF b
  <2> QED  BY <2>2, <2>4, <2>5, <2>6, Zenon
<1> HIDE DEF w, l
<1>4. Octet(s, w, j) = Octet(t, w, l)
  BY <1>3, OctetSame
<1> QED  BY <1>4 DEF w, l

-----------------------------------------------------------------------------
(* The data of a text. *)
LEMMA LeastNat ==
    ASSUME NEW T \in SUBSET Nat, T # {}
    PROVE  \E x \in T : \A y \in T : ~(y < x)
<1> DEFINE R == OpToRel(<, Nat)
<1>1. IsWellFoundedOn(R, Nat)
  BY NatLessThanWellFounded
<1>2. ASSUME NEW x \in Nat, NEW y \in Nat, y < x PROVE <<y, x>> \in R
  BY <1>2 DEF OpToRel
<1> HIDE DEF R
<1>3. \E x \in T : \A y \in T : ~(<<y, x>> \in R)
  BY <1>1, WFMin
<1> QED  BY <1>2, <1>3

(* Every text has data, no character perhaps, and what is behind has no    *)
(* value.                                                                  *)
LEMMA DataEndSomewhere ==
    ASSUME NEW b \in Seq(Int)
    PROVE  \E n \in 0..Len(b) :
              (\A k \in 1..n : b[k] >= 0) /\ (n < Len(b) => b[n + 1] < 0)
<1> DEFINE T == {n \in 0..Len(b) : n < Len(b) => b[n + 1] < 0}
<1>1. Len(b) \in Nat /\ T \in SUBSET Nat /\ Len(b) \in T
  OBVIOUS
<1>2. PICK x \in T : \A y \in T : ~(y < x)
  <2> HIDE DEF T
  <2>1. T # {}
    BY <1>1
  <2> QED  BY <1>1, <2>1, LeastNat
<1>3. ASSUME NEW k \in 1..x PROVE b[k] >= 0
  <2>1. /\ k - 1 \in 0..Len(b) /\ k - 1 < x /\ k - 1 < Len(b)
        /\ (k - 1) + 1 = k /\ k \in 1..Len(b)
    BY <1>1
  <2>2. k - 1 \notin T
    BY <1>2, <2>1
  <2>3. ~(b[k] < 0) /\ b[k] \in Int
    BY <2>1, <2>2
  <2> QED  BY <2>3
<1> QED  BY <1>3

LEMMA DataLenFacts ==
    ASSUME body \in Seq(Int)
    PROVE  /\ DataLen \in 0..Len(body)
           /\ \A k \in 1..DataLen : body[k] >= 0
           /\ DataLen < Len(body) => body[DataLen + 1] < 0
<1> DEFINE P(n) == (\A k \in 1..n : body[k] >= 0) /\ (n < Len(body) => body[n + 1] < 0)
<1>1. \E n \in 0..Len(body) : P(n)
  BY DataEndSomewhere
<1>2. DataLen = CHOOSE n \in 0..Len(body) : P(n)
  BY Zenon DEF DataLen
<1> HIDE DEF P
<1>3. DataLen \in 0..Len(body) /\ P(DataLen)
  BY <1>1, <1>2
<1> QED  BY <1>3 DEF P

LEMMA DataFacts ==
    ASSUME body \in Seq(Int)
    PROVE  /\ Data \in Seq(Int) /\ Len(Data) = DataLen
           /\ \A k \in 1..DataLen : Data[k] = body[k]
<1>1. DataLen \in Nat /\ DataLen <= Len(body)
  BY DataLenFacts
<1> DEFINE d == DataLen
<1> HIDE DEF d
<1>2. d \in Nat /\ d <= Len(body)
  BY <1>1 DEF d
<1>3. /\ SubSeq(body, 1, d) \in Seq(Int) /\ Len(SubSeq(body, 1, d)) = d
      /\ \A k \in 1..d : SubSeq(body, 1, d)[k] = body[k]
  BY <1>2
<1> QED  BY <1>3 DEF Data, d

(* The data end where a group does. *)
LEMMA DataEnds ==
    ASSUME body \in Seq(Int), NEW p \in 0..Len(body),
           \A k \in 1..p : body[k] >= 0, p < Len(body) => body[p + 1] < 0
    PROVE  DataLen = p
<1>1. /\ DataLen \in 0..Len(body)
      /\ \A k \in 1..DataLen : body[k] >= 0
      /\ DataLen < Len(body) => body[DataLen + 1] < 0
  BY DataLenFacts
<1> DEFINE d == DataLen
<1> HIDE DEF d
<1>2. /\ d \in 0..Len(body)
      /\ \A k \in 1..d : body[k] >= 0
      /\ d < Len(body) => body[d + 1] < 0
  BY <1>1 DEF d
<1>3. ASSUME d < p PROVE FALSE
  <2>1. d + 1 \in 1..p /\ d < Len(body) /\ d + 1 \in 1..Len(body)
    BY <1>2, <1>3
  <2>2. body[d + 1] \in Int
    BY <2>1
  <2> QED  BY <1>2, <2>1, <2>2
<1>4. ASSUME p < d PROVE FALSE
  <2>1. p + 1 \in 1..d /\ p < Len(body) /\ p + 1 \in 1..Len(body)
    BY <1>2, <1>4
  <2>2. body[p + 1] \in Int
    BY <2>1
  <2> QED  BY <1>2, <2>1, <2>2
<1>5. d = p
  BY <1>2, <1>3, <1>4
<1> QED  BY <1>5 DEF d

LEMMA DataReach ==
    ASSUME body \in Seq(Int), NEW p \in 0..Len(body), \A k \in 1..p : body[k] >= 0
    PROVE  p <= DataLen
<1>1. /\ DataLen \in 0..Len(body)
      /\ DataLen < Len(body) => body[DataLen + 1] < 0
  BY DataLenFacts
<1> DEFINE d == DataLen
<1> HIDE DEF d
<1>2. d \in 0..Len(body) /\ (d < Len(body) => body[d + 1] < 0)
  BY <1>1 DEF d
<1>3. ASSUME d < p PROVE FALSE
  <2>1. d + 1 \in 1..p /\ d < Len(body) /\ d + 1 \in 1..Len(body)
    BY <1>2, <1>3
  <2>2. body[d + 1] \in Int
    BY <2>1
  <2> QED  BY <1>2, <2>1, <2>2
<1>4. p <= d
  BY <1>2, <1>3
<1> QED  BY <1>4 DEF d

-----------------------------------------------------------------------------
(* Positions in a text behind q whole groups. *)
LEMMA GroupArith ==
    ASSUME NEW e \in Encodings, NEW q \in Nat, NEW m \in Nat
    PROVE  LET w == Width[e]
               p == Group[e] * q + m
           IN  /\ p \in Nat /\ p % Group[e] = m % Group[e]
               /\ (p * w) \div 8 = GroupOctets[e] * q + (m * w) \div 8
               /\ (p * w) % 8 = (m * w) % 8
               /\ GroupOctets[e] * q \in Nat /\ (m * w) \div 8 \in Nat
<1>1. /\ (2 * q + m) % 2 = m % 2 /\ ((2 * q + m) * 4) \div 8 = 1 * q + (m * 4) \div 8
      /\ ((2 * q + m) * 4) % 8 = (m * 4) % 8
      /\ (m * 4) \div 8 \in Nat
  OBVIOUS
<1>2. /\ (8 * q + m) % 8 = m % 8 /\ ((8 * q + m) * 5) \div 8 = 5 * q + (m * 5) \div 8
      /\ ((8 * q + m) * 5) % 8 = (m * 5) % 8
      /\ (m * 5) \div 8 \in Nat
  OBVIOUS
<1>3. /\ (4 * q + m) % 4 = m % 4 /\ ((4 * q + m) * 6) \div 8 = 3 * q + (m * 6) \div 8
      /\ ((4 * q + m) * 6) % 8 = (m * 6) % 8
      /\ (m * 6) \div 8 \in Nat
  OBVIOUS
<1>4. CASE e = "hex"
  <2>1. Width[e] = 4 /\ Group[e] = 2 /\ GroupOctets[e] = 1
    BY <1>4, Widths DEF GroupOctets
  <2> QED  BY <1>1, <2>1
<1>5. CASE e = "base32"
  <2>1. Width[e] = 5 /\ Group[e] = 8 /\ GroupOctets[e] = 5
    BY <1>5, Widths DEF GroupOctets
  <2> QED  BY <1>2, <2>1
<1>6. CASE e = "base64"
  <2>1. Width[e] = 6 /\ Group[e] = 4 /\ GroupOctets[e] = 3
    BY <1>6, Widths DEF GroupOctets
  <2> QED  BY <1>3, <2>1
<1> QED  BY <1>4, <1>5, <1>6, Widths

LEMMA WholeGroups ==
    ASSUME NEW e \in Encodings, NEW p \in Nat, p % Group[e] = 0
    PROVE  \E q \in Nat : p = Group[e] * q
<1>1. Group[e] \in {2, 4, 8}
  BY Widths
<1>2. CASE Group[e] = 2
  <2>1. p \div 2 \in Nat /\ p = 2 * (p \div 2)
    BY <1>2
  <2> QED  BY <1>2, <2>1
<1>3. CASE Group[e] = 4
  <2>1. p \div 4 \in Nat /\ p = 4 * (p \div 4)
    BY <1>3
  <2> QED  BY <1>3, <2>1
<1>4. CASE Group[e] = 8
  <2>1. p \div 8 \in Nat /\ p = 8 * (p \div 8)
    BY <1>4
  <2> QED  BY <1>4, <2>1
<1> QED  BY <1>1, <1>2, <1>3, <1>4

LEMMA MoreOctets ==
    ASSUME NEW e \in Encodings, NEW a \in Nat, NEW b \in Nat, a <= b
    PROVE  /\ (a * Width[e]) \div 8 \in Nat /\ (a * Width[e]) \div 8 <= (b * Width[e]) \div 8
           /\ 8 * ((a * Width[e]) \div 8) <= a * Width[e]
<1>1. Width[e] \in {4, 5, 6}
  BY WholeOctets
<1>2. CASE Width[e] = 4
  BY <1>2
<1>3. CASE Width[e] = 5
  BY <1>3
<1>4. CASE Width[e] = 6
  BY <1>4
<1> QED  BY <1>1, <1>2, <1>3, <1>4

(* The first n octets of a text. *)
Octets8(t, w, n) == [j \in 1..n |-> Octet(t, w, j)]

LEMMA Octets8Facts ==
    ASSUME NEW t, NEW w, NEW n \in Nat
    PROVE  /\ Octets8(t, w, n) \in Seq({Octet(t, w, j) : j \in Nat}) /\ Len(Octets8(t, w, n)) = n
           /\ \A j \in 1..n : Octets8(t, w, n)[j] = Octet(t, w, j)
<1> DEFINE S == {Octet(t, w, j) : j \in Nat}
           o == Octets8(t, w, n)
<1>1. \A j \in 1..n : Octet(t, w, j) \in S
  OBVIOUS
<1> HIDE DEF S
<1>2. o \in [1..n -> S]
  BY <1>1, Zenon DEF Octets8
<1>3. \A j \in 1..n : o[j] = Octet(t, w, j)
  BY Zenon DEF Octets8
<1> HIDE DEF o
<1>4. o \in Seq(S) /\ Len(o) = n
  BY <1>2
<1> QED  BY <1>3, <1>4 DEF o, S

(* Texts that begin alike have the same octets. *)
LEMMA SameOctets ==
    ASSUME NEW e \in Encodings, NEW s, NEW t, NEW c \in Nat, \A p \in 1..c : s[p] = t[p],
           NEW n \in Nat, 8 * n <= c * Width[e]
    PROVE  Octets8(s, Width[e], n) = Octets8(t, Width[e], n)
<1>1. ASSUME NEW j \in 1..n PROVE Octet(s, Width[e], j) = Octet(t, Width[e], j)
  <2>1. j \in Nat \ {0} /\ 8 * j <= c * Width[e]
    <3>1. Width[e] \in {4, 5, 6}
      BY WholeOctets
    <3> DEFINE x == c * Width[e]
    <3>2. x \in Nat /\ 8 * n <= x
      BY <3>1
    <3> HIDE DEF x
    <3>3. j \in Nat \ {0} /\ 8 * j <= x
      BY <3>2
    <3> QED  BY <3>3 DEF x
  <2> DEFINE q == 0
  <2>2. q \in Nat /\ Group[e] * q = 0 /\ GroupOctets[e] * q = 0
    BY WholeOctets
  <2>3. \A p \in 1..c : s[p] = t[Group[e] * q + p]
    BY <2>2
  <2> HIDE DEF q
  <2>4. Octet(s, Width[e], j) = Octet(t, Width[e], GroupOctets[e] * q + j)
    BY <2>1, <2>2, <2>3, GroupOctet
  <2>5. GroupOctets[e] * q + j = j
    BY <2>2
  <2> QED  BY <2>4, <2>5
<1> QED  BY <1>1, Zenon DEF Octets8

(* The octets of one more group: s holds its characters. *)
SameGroup(e, q, m, s, t) == \A p \in 1..m : s[p] = t[Group[e] * q + p]

Joined(e, q, n, s, t) ==
    Octets8(t, Width[e], GroupOctets[e] * q) \o Octets8(s, Width[e], n)
        = Octets8(t, Width[e], GroupOctets[e] * q + n)

LEMMA Joins ==
    ASSUME NEW e \in Encodings, NEW q \in Nat, NEW m \in Nat, NEW n \in Nat, 8 * n <= m * Width[e],
           NEW s, NEW t, SameGroup(e, q, m, s, t)
    PROVE  Joined(e, q, n, s, t)
<1> DEFINE w == Width[e]
           b == GroupOctets[e] * q
           S == {Octet(t, w, j) : j \in Nat}
           x == Octets8(t, w, b)
           y == Octets8(s, w, n)
           z == Octets8(t, w, b + n)
           u == x \o y
<1>1. w \in {4, 5, 6} /\ b \in Nat
  BY WholeOctets
<1>2. ASSUME NEW j \in 1..n PROVE Octet(s, w, j) = Octet(t, w, b + j) /\ b + j \in Nat
  <2>1. j \in Nat \ {0} /\ 8 * j <= m * w
    <3> DEFINE v == m * w
    <3>1. v \in Nat /\ 8 * n <= v
      BY <1>1
    <3> HIDE DEF v
    <3>2. j \in Nat \ {0} /\ 8 * j <= v
      BY <3>1
    <3> QED  BY <3>2 DEF v
  <2>2. Octet(s, w, j) = Octet(t, w, b + j)
    BY <2>1, GroupOctet DEF SameGroup
  <2> QED  BY <1>1, <2>2
<1> HIDE DEF w, b
<1>3. x \in Seq(S) /\ Len(x) = b /\ \A j \in 1..b : x[j] = Octet(t, w, j)
  <2> HIDE DEF x
  <2> QED  BY <1>1, Octets8Facts DEF x
<1>4. z \in Seq(S) /\ Len(z) = b + n /\ \A j \in 1..(b + n) : z[j] = Octet(t, w, j)
  <2>1. b + n \in Nat
    BY <1>1
  <2> HIDE DEF z
  <2> QED  BY <2>1, Octets8Facts DEF z
<1>5. y \in Seq(S) /\ Len(y) = n /\ \A j \in 1..n : y[j] = Octet(t, w, b + j)
  <2>1. Len(y) = n /\ \A j \in 1..n : y[j] = Octet(s, w, j)
    BY Octets8Facts
  <2>2. \A j \in 1..n : y[j] = Octet(t, w, b + j)
    BY <1>2, <2>1
  <2>3. \A j \in 1..n : Octet(s, w, j) \in S
    BY <1>2
  <2> HIDE DEF S
  <2>4. y \in [1..n -> S]
    BY <2>3, Zenon DEF Octets8
  <2> HIDE DEF y
  <2>5. y \in Seq(S)
    BY <2>4
  <2> QED  BY <2>1, <2>2, <2>5
<1> HIDE DEF S, x, y, z
<1>6. /\ u \in Seq(S) /\ Len(u) = b + n
      /\ \A k \in 1..b : u[k] = x[k]
      /\ \A k \in 1..n : u[b + k] = y[k]
  <2>1. x \in Seq(S) /\ y \in Seq(S)
    BY <1>3, <1>5
  <2> HIDE DEF u
  <2>2. u = x \o y
    BY DEF u
  <2>3. /\ u \in Seq(S) /\ Len(u) = Len(x) + Len(y)
        /\ \A k \in 1..Len(x) : u[k] = x[k]
        /\ \A k \in 1..Len(y) : u[Len(x) + k] = y[k]
    BY <2>1, <2>2, CatNamed
  <2> QED  BY <1>3, <1>5, <2>3
<1> HIDE DEF u
<1>7. ASSUME NEW k \in 1..Len(u) PROVE u[k] = z[k]
  <2>1. CASE k <= b
    <3>1. k \in 1..b /\ k \in 1..(b + n)
      BY <1>1, <1>6, <2>1
    <3> QED  BY <1>3, <1>4, <1>6, <3>1
  <2>2. CASE k > b
    <3> DEFINE j == k - b
    <3>1. j \in 1..n /\ k = b + j /\ k \in 1..(b + n)
      BY <1>1, <1>6, <2>2
    <3> HIDE DEF j
    <3> QED  BY <1>4, <1>5, <1>6, <3>1, Zenon
  <2> QED  BY <1>1, <1>6, <2>1, <2>2
<1>8. u = z
  <2>1. Len(u) = Len(z)
    BY <1>4, <1>6
  <2> QED  BY <1>4, <1>6, <1>7, <2>1, SameSeq
<1> QED  BY <1>8 DEF Joined, u, x, y, z, w, b

-----------------------------------------------------------------------------
(* What the data of a text mean, unless it is hex with an odd digit. *)
LEMMA MeaningFacts ==
    ASSUME encoding \in Encodings, body \in Seq(Int), encoding = "hex" => DataLen % 2 = 0
    PROVE  /\ Digits = Data /\ Len(Digits) = DataLen
           /\ Meaning = Octets8(body, Width[encoding], (DataLen * Width[encoding]) \div 8)
           /\ Len(Meaning) = (DataLen * Width[encoding]) \div 8
<1> DEFINE d == DataLen
           w == Width[encoding]
           n == (d * w) \div 8
<1>1. d \in Nat /\ Data \in Seq(Int) /\ Len(Data) = d /\ \A k \in 1..d : Data[k] = body[k]
  BY DataFacts, DataLenFacts
<1>2. Digits = Data
  <2>1. ~(encoding = "hex" /\ Len(Data) % 2 = 1)
    BY <1>1
  <2> QED  BY <2>1, Zenon DEF Digits
<1>3. n \in Nat /\ 8 * n <= d * w
  <2> HIDE DEF d
  <2> QED  BY <1>1, MoreOctets
<1>4. Meaning = Octets8(Data, w, n)
  BY <1>1, <1>2, Zenon DEF Meaning, Octets8
<1>5. Octets8(Data, w, n) = Octets8(body, w, n)
  <2> HIDE DEF d, n
  <2>1. 8 * n <= d * Width[encoding] /\ n \in Nat
    BY <1>3
  <2> QED  BY <1>1, <2>1, SameOctets
<1>6. Len(Octets8(body, w, n)) = n
  <2> HIDE DEF n, w
  <2> QED  BY <1>3, Octets8Facts
<1> QED  BY <1>1, <1>2, <1>4, <1>5, <1>6

(* The parts of Readable, when the data are all digits. *)
LEMMA FormFacts ==
    ASSUME encoding \in Encodings, body \in Seq(Int), encoding = "hex" => DataLen % 2 = 0
    PROVE  Readable <=>
             /\ \A k \in 1..Len(body) : k > DataLen => body[k] = Pad
             /\ Len(body) - DataLen
                   <= (Group[encoding] - (DataLen % Group[encoding])) % Group[encoding]
             /\ encoding = "hex" => Data = body
             /\ (DataLen * Width[encoding]) % 8 < Width[encoding]
             /\ encoding = "base32" /\ DataLen > 0 =>
                   body[DataLen] % 2 ^ ((DataLen * Width[encoding]) % 8) = 0
<1> DEFINE d == DataLen
           w == Width[encoding]
<1>1. /\ d \in Nat /\ Len(Data) = d /\ \A k \in 1..d : Data[k] = body[k]
      /\ DOMAIN body = 1..Len(body)
  BY DataFacts, DataLenFacts
<1>2. Digits = Data /\ Len(Digits) = d
  BY MeaningFacts
<1>3. d > 0 => Data[d] = body[d]
  <2> HIDE DEF d
  <2> QED  BY <1>1
<1>4. PaddingLast <=> \A k \in 1..Len(body) : k > d => body[k] = Pad
  BY <1>1, Zenon DEF PaddingLast
<1> QED  BY <1>1, <1>2, <1>3, <1>4, Zenon DEF Readable

(* What the data read so far mean, whether or not all of it was kept. *)
Exact == Octets8(body, Width[encoding], (i * Width[encoding]) \div 8)

(* The state of the decoder behind q whole groups. *)
LEMMA InDataFacts ==
    ASSUME encoding \in Encodings, body \in Seq(Int), i \in Nat, InData
    PROVE  \E q \in Nat :
              /\ i = Group[encoding] * q /\ GroupOctets[encoding] * q \in Nat
              /\ Exact = Octets8(body, Width[encoding], GroupOctets[encoding] * q)
              /\ Alike(out, Exact) /\ Len(out) = GroupOctets[encoding] * q
              /\ i <= DataLen /\ \A k \in 1..i : body[k] >= 0
<1> DEFINE w == Width[encoding]
<1>1. /\ i <= DataLen /\ i % Group[encoding] = 0
      /\ Exact = Octets8(body, w, (i * w) \div 8) /\ Alike(out, Exact)
  BY Zenon DEF InData, Octets8, Exact
<1>2. PICK q \in Nat : i = Group[encoding] * q
  BY <1>1, WholeGroups
<1>3. (i * w) \div 8 = GroupOctets[encoding] * q /\ GroupOctets[encoding] * q \in Nat
  <2> DEFINE m == 0
             b == GroupOctets[encoding] * q
  <2>1. m \in Nat /\ i + m = i /\ m * w = 0
    BY WholeOctets
  <2> HIDE DEF m
  <2>2. /\ ((Group[encoding] * q + m) * w) \div 8 = b + (m * w) \div 8 /\ b \in Nat
    <3>1. m \in Nat
      BY <2>1
    <3> QED  BY <3>1, GroupArith, Zenon
  <2> HIDE DEF b
  <2>3. ((i + m) * w) \div 8 = b + 0 \div 8 /\ b \in Nat
    BY <1>2, <2>1, <2>2
  <2>4. (i * w) \div 8 = b /\ b \in Nat
    BY <2>1, <2>3
  <2> QED  BY <2>4 DEF b
<1>4. Len(out) = GroupOctets[encoding] * q
  <2> DEFINE b == GroupOctets[encoding] * q
  <2>1. b \in Nat /\ Exact = Octets8(body, w, b)
    BY <1>1, <1>3
  <2> HIDE DEF b, w
  <2>2. Len(Exact) = b
    BY <2>1, Octets8Facts
  <2>3. Len(out) = b
    BY <1>1, <2>2, Zenon DEF Alike
  <2> QED  BY <2>3 DEF b
<1>5. ASSUME NEW k \in 1..i PROVE body[k] >= 0
  <2>1. k \in 1..DataLen
    BY <1>1, DataLenFacts
  <2> QED  BY <2>1, DataLenFacts
<1> QED  BY <1>1, <1>2, <1>3, <1>4, <1>5

(* secret_decode at the end of the text. *)
LEMMA EndOfData ==
    ASSUME encoding \in Encodings, body \in Seq(Int), i \in Nat, InData, i >= Len(body)
    PROVE  Readable /\ Alike(out, Meaning)
<1> DEFINE g == Group[encoding]
           w == Width[encoding]
           b == GroupOctets[encoding]
<1>1. PICK q \in Nat :
         /\ i = g * q /\ b * q \in Nat /\ Exact = Octets8(body, w, b * q)
         /\ Alike(out, Exact) /\ i <= DataLen
  BY InDataFacts
<1>2. DataLen \in 0..Len(body) /\ DataLen = Len(body) /\ i = Len(body)
  BY <1>1, DataLenFacts
<1> DEFINE d == DataLen
<1>3. d \in Nat /\ d = i /\ d = Len(body)
  BY <1>2
<1>4. d % g = 0 /\ (d * w) % 8 = 0 /\ (d * w) \div 8 = b * q
  <2> DEFINE m == 0
  <2>1. m \in Nat /\ i + m = i /\ m * w = 0 /\ w \in {4, 5, 6} /\ g \in 1..8
    BY WholeOctets
  <2> HIDE DEF m
  <2>2. /\ (g * q + m) % g = m % g
        /\ ((g * q + m) * w) \div 8 = b * q + (m * w) \div 8
        /\ ((g * q + m) * w) % 8 = (m * w) % 8
    <3>1. m \in Nat
      BY <2>1
    <3> QED  BY <3>1, GroupArith, ZenonT(60)
  <2> HIDE DEF g, w, b, d
  <2>3. g * q + m = d
    BY <1>1, <1>3, <2>1
  <2>4. d % g = m % g /\ (d * w) \div 8 = b * q + (m * w) \div 8 /\ (d * w) % 8 = (m * w) % 8
    BY <2>2, <2>3
  <2>5. m % g = 0
    BY <2>1 DEF m
  <2>6. (m * w) \div 8 = 0 /\ (m * w) % 8 = 0
    BY <2>1
  <2> QED  BY <1>1, <2>4, <2>5, <2>6
<1>5. encoding = "hex" => DataLen % 2 = 0
  BY <1>4, Widths
<1>6. Alike(out, Meaning)
  <2>1. Exact = Meaning
    BY <1>1, <1>4, <1>5, MeaningFacts
  <2> QED  BY <1>1, <2>1
<1>7. \A k \in 1..Len(body) : k > DataLen => body[k] = Pad
  BY <1>2
<1>8. Len(body) - DataLen <= (g - (DataLen % g)) % g
  <2>1. g \in {2, 4, 8}
    BY Widths
  <2> HIDE DEF g
  <2>2. (g - 0) % g \in Nat
    BY <2>1
  <2> QED  BY <1>2, <1>4, <2>2 DEF d
<1>9. Data = body
  <2>1. Data \in Seq(Int) /\ Len(Data) = Len(body) /\ \A k \in 1..Len(Data) : Data[k] = body[k]
    BY <1>2, DataFacts
  <2> QED  BY <2>1, SameSeq
<1>10. (DataLen * w) % 8 < w
  BY <1>4, WholeOctets
<1>11. ASSUME DataLen > 0 PROVE body[DataLen] % 2 ^ ((DataLen * w) % 8) = 0
  <2>1. body[DataLen] \in Int
    BY <1>2, <1>11
  <2> DEFINE v == body[DataLen]
             spare == (DataLen * w) % 8
  <2>2. v \in Int /\ spare = 0
    BY <1>4, <2>1
  <2> HIDE DEF v, spare
  <2>3. 2 ^ spare = 2 ^ 0
    BY <2>2, Zenon
  <2>4. 2 ^ spare = 1
    BY <2>3, PowerOfTwo, Zenon
  <2>5. v % 1 = 0
    BY <2>2
  <2>6. v % 2 ^ spare = 0
    BY <2>4, <2>5, Zenon
  <2> QED  BY <2>6 DEF v, spare
<1> QED  BY <1>5, <1>6, <1>7, <1>8, <1>9, <1>10, <1>11, FormFacts

-----------------------------------------------------------------------------
(* One turn of the loop of base32_decode and base64_decode. *)
InLoop ==
    encoding \in {"base32", "base64"} /\ body \in Seq(Int) /\ i \in Nat /\ i < Len(body)

LEMMA ValuesFacts ==
    ASSUME InLoop
    PROVE  LET m == Len(Values)
           IN  /\ m \in 0..Group[encoding] /\ Leading = 1..m /\ Values \in Seq(Int)
               /\ \A k \in 1..m : Values[k] = body[i + k] /\ body[i + k] >= 0 /\ i + k <= Len(body)
               /\ m + 1 \in InGroup => body[i + m + 1] < 0
<1>1. encoding \in Encodings /\ body \in Seq(Int) /\ i \in Nat
  BY Widths DEF InLoop
<1>2. PICK m \in 0..Group[encoding] :
              /\ Leading = 1..m
              /\ Values \in Seq(Int) /\ Len(Values) = m
              /\ \A k \in 1..m : Values[k] = body[i + k] /\ body[i + k] >= 0 /\ i + k <= Len(body)
              /\ m + 1 \in InGroup => body[i + m + 1] < 0
  BY <1>1, LeadingFacts
<1> QED  BY <1>2

(* The data behind whole groups: at least those of the next group, and no  *)
(* more if it is not full.                                                 *)
LEMMA NextGroup ==
    ASSUME InLoop, InData
    PROVE  LET m == Len(Values)
           IN  /\ i + m <= DataLen
               /\ m < Group[encoding] => DataLen = i + m
<1> DEFINE m == Len(Values)
           g == Group[encoding]
<1>1. encoding \in Encodings /\ body \in Seq(Int) /\ i \in Nat /\ i < Len(body)
  BY Widths DEF InLoop
<1>2. /\ m \in 0..g
      /\ \A k \in 1..m : body[i + k] >= 0 /\ i + k <= Len(body)
      /\ m + 1 \in InGroup => body[i + m + 1] < 0
  BY ValuesFacts
<1>3. \A k \in 1..i : body[k] >= 0
  BY <1>1, InDataFacts
<1>4. g \in 1..8 /\ InGroup = {k \in 1..g : i + k <= Len(body)}
  BY <1>1, WholeOctets DEF InGroup
<1> DEFINE p == i + m
<1> HIDE DEF m, g
<1>5. p \in 0..Len(body)
  <2>1. CASE m = 0
    BY <1>1, <2>1
  <2>2. CASE m > 0
    <3>1. m \in 1..m
      BY <1>2, <1>4, <2>2
    <3>2. i + m <= Len(body)
      BY <1>2, <3>1
    <3> QED  BY <1>1, <1>2, <1>4, <3>2
  <2> QED  BY <1>2, <1>4, <2>1, <2>2
<1>6. ASSUME NEW k \in 1..p PROVE body[k] >= 0
  <2>1. CASE k <= i
    BY <1>1, <1>3, <2>1
  <2>2. CASE k > i
    <3> DEFINE l == k - i
    <3>1. l \in 1..m /\ k = i + l
      BY <1>1, <1>2, <1>4, <2>2
    <3> HIDE DEF l
    <3> QED  BY <1>2, <3>1
  <2> QED  BY <1>1, <2>1, <2>2
<1>7. ASSUME m < g, p < Len(body) PROVE body[p + 1] < 0
  <2>1. m + 1 \in InGroup /\ i + m + 1 = p + 1
    BY <1>1, <1>2, <1>4, <1>7
  <2> QED  BY <1>2, <2>1
<1> HIDE DEF p
<1>8. p <= DataLen
  BY <1>1, <1>5, <1>6, DataReach
<1>9. m < g => DataLen = p
  BY <1>1, <1>5, <1>6, <1>7, DataEnds
<1> QED  BY <1>8, <1>9 DEF m, g, p

(* The octets it writes are those of the text. *)
LEMMA GroupWritten ==
    ASSUME InLoop, InData
    PROVE  LET m == Len(Values)
               n == GroupBytes(m)
               w == Width[encoding]
           IN  n # 0 =>
                  /\ n = (m * w) \div 8
                  /\ Len(out) + n = ((i + m) * w) \div 8
                  /\ Exact \o [j \in 1..n |-> Octet(FillRest(Values, Group[encoding]), w, j)]
                       = Octets8(body, w, ((i + m) * w) \div 8)
<1> DEFINE m == Len(Values)
           n == GroupBytes(m)
           w == Width[encoding]
           g == Group[encoding]
           b == GroupOctets[encoding]
           s == FillRest(Values, g)
<1>1. /\ encoding \in Encodings /\ body \in Seq(Int) /\ i \in Nat
      /\ encoding \in {"base32", "base64"}
  BY Widths DEF InLoop
<1>2. /\ m \in 0..g /\ Values \in Seq(Int) /\ g \in 1..8 /\ w \in {4, 5, 6}
      /\ \A k \in 1..m : Values[k] = body[i + k]
  BY <1>1, ValuesFacts, WholeOctets
<1>3. /\ n \in 0..5 /\ 8 * n <= m * w
      /\ n # 0 => n = (m * w) \div 8
  <2> HIDE DEF m
  <2> QED  BY <1>1, <1>2, GroupFits
<1>4. PICK q \in Nat :
         i = g * q /\ b * q \in Nat /\ Exact = Octets8(body, w, b * q) /\ Len(out) = b * q
  BY <1>1, InDataFacts
<1>5. ((g * q + m) * w) \div 8 = b * q + (m * w) \div 8
  <2>1. m \in Nat
    BY <1>2
  <2> HIDE DEF m
  <2> QED  BY <1>1, <2>1, GroupArith, Zenon
<1>6. ASSUME NEW p \in 1..m PROVE s[p] = body[g * q + p]
  <2>1. p \in 1..g /\ p <= Len(Values) /\ g \in Nat
    BY <1>2, SMTT(40)
  <2> HIDE DEF g
  <2>2. s[p] = IF p <= Len(Values) THEN Values[p] ELSE 0
    BY <1>2, <2>1, FillFacts
  <2>3. s[p] = Values[p]
    BY <2>1, <2>2
  <2>4. Values[p] = body[i + p]
    BY <1>2
  <2>5. i = g * q
    BY <1>4
  <2> HIDE DEF s
  <2> QED  BY <2>3, <2>4, <2>5
<1>7. Octets8(body, w, b * q) \o Octets8(s, w, n) = Octets8(body, w, b * q + n)
  <2>1. m \in Nat /\ n \in Nat /\ 8 * n <= m * w
    BY <1>2, <1>3
  <2> HIDE DEF m, n, s
  <2>2. SameGroup(encoding, q, m, s, body)
    BY <1>6 DEF SameGroup
  <2>3. encoding \in Encodings
    BY <1>1
  <2>4. Joined(encoding, q, n, s, body)
    BY <2>1, <2>2, <2>3, Joins
  <2> QED  BY <2>4 DEF Joined
<1>8. Octets8(s, w, n) = [j \in 1..n |-> Octet(s, w, j)]
  BY Zenon DEF Octets8
<1>9. ASSUME n # 0
      PROVE  /\ n = (m * w) \div 8
             /\ Len(out) + n = ((i + m) * w) \div 8
             /\ Exact \o [j \in 1..n |-> Octet(s, w, j)] = Octets8(body, w, ((i + m) * w) \div 8)
  <2>1. n = (m * w) \div 8
    BY <1>3, <1>9
  <2> HIDE DEF m, n, w, g, b, s
  <2>2. ((i + m) * w) \div 8 = b * q + n
    BY <1>4, <1>5, <2>1
  <2>3. Exact \o [j \in 1..n |-> Octet(s, w, j)] = Octets8(body, w, b * q + n)
    BY <1>4, <1>7, <1>8, Zenon
  <2> QED  BY <1>4, <2>1, <2>2, <2>3
<1> QED  BY <1>9, Zenon

-----------------------------------------------------------------------------
(* A last group that is not full. *)
LEMMA SpareBits ==
    ASSUME encoding \in {"base32", "base64"}, NEW m \in Nat, m < Group[encoding]
    PROVE  LET w == Width[encoding]
               g == Group[encoding]
               n == GroupBytes(m)
           IN  /\ m % g = m
               /\ (g - m) % g = IF m = 0 THEN 0 ELSE g - m
               /\ n # 0 => (m * w) % 8 < w /\ m > 0
               /\ n = 0 /\ m > 0 => ~((m * w) % 8 < w)
               /\ encoding = "base32" /\ n # 0 => m * 5 - b32_tab[m] * 8 = (m * w) % 8
<1>1. CASE encoding = "base32"
  <2>1. Width[encoding] = 5 /\ Group[encoding] = 8 /\ m \in 0..7
    BY <1>1, Widths
  <2>2. /\ GroupBytes(m) = IF m \in {0, 1, 3, 6} THEN 0 ELSE (m * 5) \div 8
        /\ b32_tab[m] = IF m \in {0, 1, 3, 6} THEN 0 ELSE (m * 5) \div 8
    BY <1>1, <2>1 DEF GroupBytes, b32_tab
  <2> HIDE DEF b32_tab
  <2> QED  BY <1>1, <2>1, <2>2
<1>2. CASE encoding = "base64"
  <2>1. Width[encoding] = 6 /\ Group[encoding] = 4 /\ m \in 0..3
    BY <1>2, Widths
  <2>2. GroupBytes(m) = (m * 3) \div 4
    BY <1>2 DEF GroupBytes, B64_GROUP
  <2> QED  BY <1>2, <2>1, <2>2
<1> QED  BY <1>1, <1>2

LEMMA LastGroup ==
    ASSUME InLoop, InData, Len(Values) < Group[encoding]
    PROVE  LET m == Len(Values)
               w == Width[encoding]
               g == Group[encoding]
           IN  /\ DataLen = i + m /\ DataLen % g = m /\ (DataLen * w) % 8 = (m * w) % 8
               /\ m > 0 => body[DataLen] = Values[m]
<1> DEFINE m == Len(Values)
           w == Width[encoding]
           g == Group[encoding]
           d == DataLen
<1>1. encoding \in Encodings /\ body \in Seq(Int) /\ i \in Nat
  BY Widths DEF InLoop
<1>2. m \in Nat /\ m < g /\ \A k \in 1..m : Values[k] = body[i + k]
  BY ValuesFacts
<1>3. d = i + m
  BY NextGroup
<1>4. PICK q \in Nat : i = g * q
  BY <1>1, InDataFacts
<1>5. (g * q + m) % g = m % g /\ ((g * q + m) * w) % 8 = (m * w) % 8
  <2>1. m \in Nat
    BY <1>2
  <2> HIDE DEF m
  <2> QED  BY <1>1, <2>1, GroupArith, Zenon
<1>6. m % g = m
  <2> HIDE DEF m
  <2>1. encoding \in {"base32", "base64"}
    BY DEF InLoop
  <2> QED  BY <1>2, <2>1, SpareBits
<1>7. m > 0 => body[d] = Values[m]
  <2> HIDE DEF m, d
  <2> QED  BY <1>2, <1>3
<1>8. d % g = m /\ (d * w) % 8 = (m * w) % 8
  <2> HIDE DEF m, d, g, w
  <2>1. d = g * q + m
    BY <1>3, <1>4
  <2> QED  BY <1>5, <1>6, <2>1
<1> QED  BY <1>3, <1>7, <1>8

LEMMA NotHex ==
    ASSUME InLoop
    PROVE  /\ encoding \in Encodings /\ encoding # "hex" /\ encoding \in {"base32", "base64"}
           /\ body \in Seq(Int) /\ i \in Nat /\ i < Len(body) /\ Len(body) \in Nat
           /\ DataLen \in 0..Len(body)
<1>1. /\ encoding \in Encodings /\ encoding # "hex" /\ encoding \in {"base32", "base64"}
      /\ body \in Seq(Int) /\ i \in Nat /\ i < Len(body) /\ Len(body) \in Nat
  BY Widths DEF InLoop
<1> QED  BY <1>1, DataLenFacts

(* A text is refused only if it is not well formed or too long. *)
LEMMA BaseRefused ==
    ASSUME InLoop, InData, MaxSecret \in Nat,
           \/ GroupBytes(Len(Values)) = 0 \/ ~PaddedOut
           \/ ~Room(GroupBytes(Len(Values))) \/ ~NothingLeftOver(Values)
    PROVE  ~(Readable /\ Len(Meaning) <= MaxSecret)
<1> DEFINE m == Len(Values)
           n == GroupBytes(m)
           w == Width[encoding]
           g == Group[encoding]
           d == DataLen
<1>1. /\ encoding \in Encodings /\ encoding # "hex" /\ encoding \in {"base32", "base64"}
      /\ body \in Seq(Int) /\ i \in Nat /\ i < Len(body) /\ Len(body) \in Nat
      /\ d \in 0..Len(body)
  BY NotHex
<1>2. SUFFICES ASSUME Readable, Len(Meaning) <= MaxSecret PROVE FALSE
  OBVIOUS
<1>3. /\ \A k \in 1..Len(body) : k > d => body[k] = Pad
      /\ Len(body) - d <= (g - (d % g)) % g
      /\ (d * w) % 8 < w
      /\ encoding = "base32" /\ d > 0 => body[d] % 2 ^ ((d * w) % 8) = 0
  BY <1>1, <1>2, FormFacts
<1>4. Len(Meaning) = (d * w) \div 8
  BY <1>1, MeaningFacts
<1>5. /\ m \in 0..g /\ g \in 1..8 /\ w \in {4, 5, 6} /\ Leading = 1..m
  BY <1>1, ValuesFacts, WholeOctets
<1>6. ASSUME m < g
      PROVE  /\ d = i + m /\ d % g = m /\ (d * w) % 8 = (m * w) % 8
             /\ m > 0 => body[d] = Values[m]
             /\ (g - m) % g = IF m = 0 THEN 0 ELSE g - m
             /\ n # 0 => (m * w) % 8 < w /\ m > 0
             /\ n = 0 /\ m > 0 => ~((m * w) % 8 < w)
             /\ encoding = "base32" /\ n # 0 => m * 5 - b32_tab[m] * 8 = (m * w) % 8
  <2>1. /\ d = i + m /\ d % g = m /\ (d * w) % 8 = (m * w) % 8
        /\ m > 0 => body[d] = Values[m]
    BY <1>6, LastGroup
  <2>2. /\ (g - m) % g = IF m = 0 THEN 0 ELSE g - m
        /\ n # 0 => (m * w) % 8 < w /\ m > 0
        /\ n = 0 /\ m > 0 => ~((m * w) % 8 < w)
        /\ encoding = "base32" /\ n # 0 => m * 5 - b32_tab[m] * 8 = (m * w) % 8
    <3>1. m \in Nat
      BY <1>5
    <3> HIDE DEF m
    <3> QED  BY <1>1, <1>6, <3>1, SpareBits
  <2> QED  BY <2>1, <2>2, Zenon
<1>7. n = 0 => m < g
  <2>1. n = 0 => m \in {0, 1, 3, 6} /\ (encoding = "base64" => m < 2)
    <3> HIDE DEF m
    <3> QED  BY <1>1, <1>5, GroupFits
  <2>2. encoding = "base32" => g = 8
    BY Widths
  <2>3. encoding = "base64" => g = 4
    BY Widths
  <2> HIDE DEF m, g, n
  <2> QED  BY <1>1, <1>5, <2>1, <2>2, <2>3
<1>8. n \in 0..5
  <2> HIDE DEF m
  <2> QED  BY <1>1, <1>5, GroupFits
<1>9. ASSUME n = 0 PROVE FALSE
  <2>1. m < g
    BY <1>7, <1>9
  <2>2. CASE m > 0
    BY <1>3, <1>6, <1>9, <2>1, <2>2
  <2>3. CASE m = 0
    <3>1. d = i /\ (g - (d % g)) % g = 0
      <4> HIDE DEF m, g, d
      <4> QED  BY <1>1, <1>5, <1>6, <2>1, <2>3
    <3> HIDE DEF d, g
    <3> QED  BY <1>1, <1>3, <3>1
  <2> HIDE DEF m, g
  <2> QED  BY <1>5, <2>1, <2>2, <2>3
<1>10. ASSUME n # 0, ~PaddedOut PROVE FALSE
  <2>1. PICK k \in InGroup \ Leading : body[i + k] # Pad
    BY <1>10 DEF PaddedOut
  <2>2. k \in 1..g /\ i + k <= Len(body) /\ k \notin 1..m
    BY <1>5, <2>1 DEF InGroup
  <2> HIDE DEF m, g, d, w, n
  <2>3. m < g /\ k > m
    BY <1>5, <2>2
  <2>4. d = i + m
    BY <1>6, <2>3
  <2>5. i + k \in 1..Len(body) /\ i + k > d
    BY <1>1, <1>5, <2>2, <2>3, <2>4
  <2> QED  BY <1>3, <2>1, <2>5
<1>11. ASSUME n # 0, ~Room(n) PROVE FALSE
  <2>1. Len(out) + n = ((i + m) * w) \div 8
    BY <1>11, GroupWritten
  <2>2. i + m <= d
    BY NextGroup
  <2>3. i + m \in Nat /\ d \in Nat
    BY <1>1, <1>5
  <2> HIDE DEF m, d, n
  <2>4. ((i + m) * w) \div 8 <= (d * w) \div 8
    <3> DEFINE a == i + m
    <3>1. a \in Nat /\ d \in Nat /\ a <= d
      BY <2>2, <2>3
    <3> HIDE DEF a
    <3>2. (a * w) \div 8 <= (d * w) \div 8
      BY <1>1, <3>1, MoreOctets
    <3> QED  BY <3>2 DEF a
  <2>5. Len(out) + n <= MaxSecret
    <3> DEFINE x == ((i + m) * w) \div 8
               y == (d * w) \div 8
    <3>1. x \in Nat /\ y \in Nat
      <4>1. (i + m) * w \in Nat /\ d * w \in Nat
        BY <1>5, <2>3
      <4> DEFINE a == (i + m) * w
                 b == d * w
      <4> HIDE DEF a, b
      <4>2. a \in Nat /\ b \in Nat
        BY <4>1 DEF a, b
      <4>3. a \div 8 \in Nat /\ b \div 8 \in Nat
        BY <4>2
      <4> QED  BY <4>3 DEF a, b
    <3> HIDE DEF x, y
    <3>2. x <= y /\ y <= MaxSecret /\ Len(out) + n = x
      BY <1>2, <1>4, <2>1, <2>4 DEF x, y
    <3> QED  BY <3>1, <3>2
  <2> QED  BY <1>11, <2>5 DEF Room
<1>12. ASSUME n # 0, ~NothingLeftOver(Values) PROVE FALSE
  <2>1. /\ encoding = "base32" /\ m < 8
        /\ Values[m] % 2 ^ (m * 5 - b32_tab[m] * 8) # 0
    BY <1>12, Zenon DEF NothingLeftOver
  <2>2. m < g
    BY <2>1, Widths
  <2>3. /\ (d * w) % 8 = (m * w) % 8 /\ m * 5 - b32_tab[m] * 8 = (m * w) % 8
        /\ body[d] = Values[m] /\ m > 0 /\ d = i + m
    BY <1>6, <1>12, <2>1, <2>2
  <2> HIDE DEF m, d, w, n, g
  <2>4. d > 0
    BY <1>1, <1>5, <2>3
  <2>5. body[d] % 2 ^ ((d * w) % 8) = 0
    BY <1>3, <2>1, <2>4
  <2> QED  BY <2>1, <2>3, <2>5, Zenon
<1> QED  BY <1>9, <1>10, <1>11, <1>12

-----------------------------------------------------------------------------
(* The three places where a decoder may be, with o written and p read, if  *)
(* nothing is lost.                                                        *)
Placed(o, p) ==
    LET w == Width[encoding]
    IN  \/ /\ p <= DataLen /\ p % Group[encoding] = 0
           /\ o = Octets8(body, w, (p * w) \div 8)
        \/ p >= Len(body) /\ Readable /\ o = Meaning
        \/ DataLen < p /\ p < Len(body) /\ body[DataLen + 1] = Pad /\ ~Readable

(* A group that is not refused leads from one such place to another. *)
LEMMA BaseTaken ==
    ASSUME InLoop, InData, GroupBytes(Len(Values)) # 0, PaddedOut, NothingLeftOver(Values)
    PROVE  LET m == Len(Values)
               n == GroupBytes(m)
               g == Group[encoding]
           IN  Placed(Exact \o [j \in 1..n |-> Octet(FillRest(Values, g), Width[encoding], j)],
                      i + (IF InGroup = Leading THEN m ELSE g))
<1> DEFINE m == Len(Values)
           n == GroupBytes(m)
           w == Width[encoding]
           g == Group[encoding]
           d == DataLen
           o == Exact \o [j \in 1..n |-> Octet(FillRest(Values, g), w, j)]
           p == i + (IF InGroup = Leading THEN m ELSE g)
<1>1. /\ encoding \in Encodings /\ encoding # "hex" /\ encoding \in {"base32", "base64"}
      /\ body \in Seq(Int) /\ i \in Nat /\ i < Len(body) /\ Len(body) \in Nat
      /\ d \in 0..Len(body)
  BY NotHex
<1>2. Readable <=>
        /\ \A k \in 1..Len(body) : k > d => body[k] = Pad
        /\ Len(body) - d <= (g - (d % g)) % g
        /\ (d * w) % 8 < w
        /\ encoding = "base32" /\ d > 0 => body[d] % 2 ^ ((d * w) % 8) = 0
  BY <1>1, FormFacts, Zenon
<1>3. Meaning = Octets8(body, w, (d * w) \div 8)
  BY <1>1, MeaningFacts
<1>4. /\ m \in 0..g /\ g \in 1..8 /\ w \in {4, 5, 6} /\ Leading = 1..m
      /\ m + 1 \in InGroup => body[i + m + 1] < 0
      /\ InGroup = {k \in 1..g : i + k <= Len(body)}
      /\ \A k \in 1..m : i + k <= Len(body)
  BY <1>1, ValuesFacts, WholeOctets DEF InGroup
<1>5. o = Octets8(body, w, ((i + m) * w) \div 8) /\ i + m <= d
  BY GroupWritten, NextGroup
<1>6. ASSUME m < g
      PROVE  /\ d = i + m /\ d % g = m /\ (d * w) % 8 = (m * w) % 8
             /\ body[d] = Values[m] /\ m > 0
             /\ (g - m) % g = g - m
             /\ (m * w) % 8 < w
             /\ encoding = "base32" => m * 5 - b32_tab[m] * 8 = (m * w) % 8
  <2>1. /\ d = i + m /\ d % g = m /\ (d * w) % 8 = (m * w) % 8
        /\ m > 0 => body[d] = Values[m]
    BY <1>6, LastGroup
  <2>2. /\ (g - m) % g = IF m = 0 THEN 0 ELSE g - m
        /\ n # 0 => (m * w) % 8 < w /\ m > 0
        /\ encoding = "base32" /\ n # 0 => m * 5 - b32_tab[m] * 8 = (m * w) % 8
    <3>1. m \in Nat
      BY <1>4
    <3> HIDE DEF m
    <3> QED  BY <1>1, <1>6, <3>1, SpareBits
  <2>3. m > 0 => m # 0
    BY <1>4
  <2> QED  BY <2>1, <2>2, <2>3, Zenon
(* Of a last group that is not full, the data are what the text means. *)
<1>7. ASSUME m < g
      PROVE  /\ o = Meaning
             /\ encoding = "base32" /\ d > 0 => body[d] % 2 ^ ((d * w) % 8) = 0
             /\ (d * w) % 8 < w
             /\ (g - (d % g)) % g = g - m
  <2>1. /\ d = i + m /\ d % g = m /\ (d * w) % 8 = (m * w) % 8
        /\ body[d] = Values[m] /\ (m * w) % 8 < w /\ (g - m) % g = g - m
        /\ encoding = "base32" => m * 5 - b32_tab[m] * 8 = (m * w) % 8
    BY <1>6, <1>7
  <2>2. encoding = "base32" => Values[m] % 2 ^ (m * 5 - b32_tab[m] * 8) = 0
    <3>1. encoding = "base32" => g = 8
      BY Widths
    <3>2. encoding = "base32" => m < 8
      BY <1>7, <3>1
    <3> QED  BY <3>2, Zenon DEF NothingLeftOver
  <2> HIDE DEF m, d, w, g, o
  <2>3. o = Meaning
    BY <1>3, <1>5, <2>1
  <2>4. encoding = "base32" => body[d] % 2 ^ ((d * w) % 8) = 0
    BY <2>1, <2>2, Zenon
  <2>5. (d * w) % 8 < w /\ (g - (d % g)) % g = g - m
    BY <2>1
  <2> QED  BY <2>3, <2>4, <2>5
<1> HIDE DEF o
<1>8. CASE m = g
  <2>1. p = i + g
    <3>1. InGroup = Leading
      <4> HIDE DEF m, g
      <4> QED  BY <1>4, <1>8
    <3> QED  BY <1>8, <3>1
  <2>2. PICK q \in Nat : i = g * q
    BY <1>1, InDataFacts
  <2>3. (g * q + g) % g = g % g
    <3>1. g \in Nat
      BY <1>4
    <3> DEFINE x == g
    <3> HIDE DEF x
    <3>2. x \in Nat
      BY <3>1 DEF x
    <3>3. (g * q + x) % g = x % g
      BY <1>1, <3>2, GroupArith, ZenonT(60)
    <3> QED  BY <3>3 DEF x
  <2>4. p <= d /\ p % g = 0
    <3> HIDE DEF m, g, d
    <3>1. g % g = 0
      BY <1>4
    <3>2. p = g * q + g
      BY <2>1, <2>2
    <3> QED  BY <1>5, <1>8, <2>1, <2>3, <3>1, <3>2
  <2>5. o = Octets8(body, w, (p * w) \div 8)
    BY <1>5, <1>8, <2>1
  <2> QED  BY <2>4, <2>5, Zenon DEF Placed, o
<1>9. CASE m < g /\ InGroup = Leading
  <2>1. p = i + m
    BY <1>9
  <2>2. d = i + m /\ d = Len(body)
    <3>1. d = i + m
      BY <1>6, <1>9
    <3> HIDE DEF m, g, d
    <3>2. m + 1 \notin InGroup
      BY <1>4, <1>9
    <3>3. ~(i + (m + 1) <= Len(body))
      BY <1>4, <1>9, <3>2
    <3> QED  BY <1>1, <1>4, <3>1, <3>3
  <2>3. Readable
    <3>1. /\ encoding = "base32" /\ d > 0 => body[d] % 2 ^ ((d * w) % 8) = 0
          /\ (d * w) % 8 < w
      BY <1>7, <1>9
    <3>2. Len(body) - d <= (g - (d % g)) % g
      <4>1. (g - (d % g)) % g = g - m
        BY <1>7, <1>9
      <4> HIDE DEF d, g, m
      <4> QED  BY <1>1, <1>4, <1>9, <2>2, <4>1
    <3>3. \A k \in 1..Len(body) : k > d => body[k] = Pad
      <4> HIDE DEF d
      <4> QED  BY <1>1, <2>2
    <3> QED  BY <1>2, <3>1, <3>2, <3>3
  <2>4. o = Meaning
    BY <1>7, <1>9
  <2>5. p >= Len(body)
    <3> HIDE DEF d, p, m
    <3> QED  BY <1>1, <2>1, <2>2
  <2> QED  BY <2>3, <2>4, <2>5, Zenon DEF Placed, o
<1>10. CASE m < g /\ InGroup # Leading
  <2>1. p = i + g
    BY <1>10
  <2>2. d = i + m /\ (g - (d % g)) % g = g - m
    BY <1>6, <1>7, <1>10
  <2> HIDE DEF d, m, g, p, w
  <2>3. m + 1 \in InGroup /\ m + 1 \notin Leading
    <3>1. m + 1 \notin 1..m /\ 1..m \subseteq InGroup
      <4>1. \A k \in 1..m : k \in 1..g /\ i + k <= Len(body)
        BY <1>1, <1>4
      <4>2. m + 1 \notin 1..m
        BY <1>4
      <4> QED  BY <1>4, <4>1, <4>2
    <3>2. PICK k \in InGroup : k \notin 1..m
      BY <1>4, <1>10, <3>1
    <3>3. k \in 1..g /\ i + k <= Len(body) /\ k > m
      BY <1>4, <3>2
    <3>4. m + 1 \in 1..g /\ i + (m + 1) <= Len(body)
      BY <1>1, <1>4, <3>3
    <3> QED  BY <1>4, <3>1, <3>4
  <2>4. ASSUME NEW k \in InGroup, k > m PROVE body[i + k] = Pad
    <3>1. k \notin Leading
      BY <1>4, <2>4
    <3> QED  BY <3>1 DEF PaddedOut
  <2>5. body[d + 1] = Pad
    <3>1. i + (m + 1) = d + 1 /\ m + 1 > m
      BY <1>1, <1>4, <2>2
    <3> QED  BY <2>3, <2>4, <3>1
  <2>6. CASE i + g >= Len(body)
    <3>1. ASSUME NEW k \in 1..Len(body), k > d PROVE body[k] = Pad
      <4> DEFINE l == k - i
      <4>1. l \in 1..g /\ i + l = k /\ i + l <= Len(body) /\ l > m
        BY <1>1, <1>4, <2>2, <2>6, <3>1
      <4> HIDE DEF l
      <4>2. l \in InGroup
        BY <1>4, <4>1
      <4>3. body[i + l] = Pad
        BY <2>4, <4>1, <4>2
      <4> QED  BY <4>1, <4>3
    <3>2. Len(body) - d <= (g - (d % g)) % g
      BY <1>1, <1>4, <2>2, <2>6
    <3>3. /\ encoding = "base32" /\ d > 0 => body[d] % 2 ^ ((d * w) % 8) = 0
          /\ (d * w) % 8 < w /\ o = Meaning
      BY <1>7, <1>10
    <3>4. Readable
      BY <1>2, <3>1, <3>2, <3>3
    <3> QED  BY <2>1, <2>6, <3>3, <3>4, Zenon DEF Placed, o, p, m, g, w
  <2>7. CASE i + g < Len(body)
    <3>1. d < p /\ p < Len(body)
      BY <1>1, <1>4, <1>10, <2>1, <2>2, <2>7
    <3>2. ~Readable
      <4>1. ~(Len(body) - d <= (g - (d % g)) % g)
        BY <1>1, <1>4, <2>2, <2>7
      <4> QED  BY <1>2, <4>1
    <3> QED  BY <2>5, <3>1, <3>2, Zenon DEF Placed, o, p, m, g, w, d
  <2>8. i + g >= Len(body) \/ i + g < Len(body)
    BY <1>1, <1>4
  <2> QED  BY <2>6, <2>7, <2>8
<1>11. m = g \/ m < g
  <2> HIDE DEF m, g
  <2> QED  BY <1>4
<1> QED  BY <1>8, <1>9, <1>10, <1>11

-----------------------------------------------------------------------------
(* One turn of the loop of hex_decode. *)
HexGroup == SubSeq(body, i + 1, IF i + 2 > Len(body) THEN Len(body) ELSE i + 2)

InHexLoop == encoding = "hex" /\ body \in Seq(Int) /\ i \in Nat /\ i < Len(body)

LEMMA HexGroupFacts ==
    ASSUME InHexLoop
    PROVE  LET c == IF i + 2 > Len(body) THEN 1 ELSE 2
           IN  /\ HexGroup \in Seq(Int) /\ Len(HexGroup) = c /\ DOMAIN HexGroup = 1..c
               /\ \A k \in 1..c : HexGroup[k] = body[i + k]
<1> DEFINE b == IF i + 2 > Len(body) THEN Len(body) ELSE i + 2
           c == IF i + 2 > Len(body) THEN 1 ELSE 2
<1>1. body \in Seq(Int) /\ i \in Nat /\ i < Len(body) /\ Len(body) \in Nat
  BY DEF InHexLoop
<1>2. b \in Nat /\ i <= b /\ b <= Len(body) /\ c = b - i
  BY <1>1
<1>3. HexGroup = SubSeq(body, i + 1, b)
  BY DEF HexGroup
<1> HIDE DEF b, c
<1>4. /\ HexGroup \in Seq(Int) /\ Len(HexGroup) = b - i
      /\ \A k \in 1..(b - i) : HexGroup[k] = body[i + k]
  BY <1>1, <1>2, <1>3, PartFacts
<1>5. DOMAIN HexGroup = 1..Len(HexGroup)
  BY <1>4
<1>6. /\ HexGroup \in Seq(Int) /\ Len(HexGroup) = c /\ DOMAIN HexGroup = 1..c
      /\ \A k \in 1..c : HexGroup[k] = body[i + k]
  BY <1>2, <1>4, <1>5
<1> QED  BY <1>6 DEF c

LEMMA HexFacts ==
    ASSUME InHexLoop
    PROVE  /\ encoding \in Encodings /\ encoding = "hex"
           /\ body \in Seq(Int) /\ i \in Nat /\ i < Len(body) /\ Len(body) \in Nat
           /\ DataLen \in 0..Len(body) /\ Width[encoding] = 4 /\ Group[encoding] = 2
           /\ GroupOctets[encoding] = 1
<1>1. /\ encoding \in Encodings /\ encoding = "hex"
      /\ body \in Seq(Int) /\ i \in Nat /\ i < Len(body) /\ Len(body) \in Nat
  BY Widths DEF InHexLoop
<1>2. DataLen \in 0..Len(body)
  BY <1>1, DataLenFacts
<1>3. Width[encoding] = 4 /\ Group[encoding] = 2 /\ GroupOctets[encoding] = 1
  BY <1>1, Widths DEF GroupOctets
<1> QED  BY <1>1, <1>2, <1>3

(* The digits of a hex text: an even number. *)
LEMMA HexDigits ==
    ASSUME encoding = "hex", body \in Seq(Int)
    PROVE  /\ Digits \in Seq(Int)
           /\ Len(Digits) = IF DataLen % 2 = 1 THEN DataLen + 1 ELSE DataLen
           /\ \A k \in 1..DataLen : Digits[k] = body[k]
           /\ DataLen % 2 = 1 => Digits[DataLen + 1] = 0
           /\ Meaning = Octets8(Digits, 4, (Len(Digits) * 4) \div 8)
           /\ Len(Meaning) = (Len(Digits) * 4) \div 8
<1> DEFINE d == DataLen
<1>1. d \in Nat /\ Data \in Seq(Int) /\ Len(Data) = d /\ \A k \in 1..d : Data[k] = body[k]
  BY DataFacts, DataLenFacts
<1> HIDE DEF d
<1>2. /\ Digits \in Seq(Int)
      /\ Len(Digits) = IF d % 2 = 1 THEN d + 1 ELSE d
      /\ \A k \in 1..d : Digits[k] = body[k]
      /\ d % 2 = 1 => Digits[d + 1] = 0
  <2>1. CASE d % 2 = 1
    <3>1. Digits = Append(Data, 0)
      BY <1>1, <2>1, Zenon DEF Digits
    <3>2. /\ Append(Data, 0) \in Seq(Int) /\ Len(Append(Data, 0)) = d + 1
          /\ \A k \in 1..d : Append(Data, 0)[k] = Data[k]
          /\ Append(Data, 0)[d + 1] = 0
      BY <1>1, AppendProperties
    <3> QED  BY <1>1, <2>1, <3>1, <3>2
  <2>2. CASE d % 2 # 1
    <3>1. Digits = Data
      BY <1>1, <2>2, Zenon DEF Digits
    <3> QED  BY <1>1, <2>2, <3>1
  <2> QED  BY <2>1, <2>2
<1>3. Width[encoding] = 4
  BY Widths
<1> DEFINE n == (Len(Digits) * 4) \div 8
<1>4. Meaning = Octets8(Digits, 4, n)
  BY <1>3, Zenon DEF Meaning, Octets8
<1>5. n \in Nat
  BY <1>2
<1> HIDE DEF n
<1>6. Len(Meaning) = n
  BY <1>4, <1>5, Octets8Facts
<1> QED  BY <1>2, <1>4, <1>6 DEF n, d

LEMMA HexRefused ==
    ASSUME InHexLoop, InData, MaxSecret \in Nat,
           (\E k \in DOMAIN HexGroup : HexGroup[k] < 0) \/ ~Room(1)
    PROVE  ~(Readable /\ Len(Meaning) <= MaxSecret)
<1> DEFINE d == DataLen
<1>1. /\ encoding \in Encodings /\ encoding = "hex"
      /\ body \in Seq(Int) /\ i \in Nat /\ i < Len(body) /\ Len(body) \in Nat
      /\ d \in 0..Len(body) /\ Width[encoding] = 4 /\ Group[encoding] = 2
      /\ GroupOctets[encoding] = 1
  BY HexFacts
<1>2. SUFFICES ASSUME Readable, Len(Meaning) <= MaxSecret PROVE FALSE
  OBVIOUS
<1>3. d = Len(body) /\ \A k \in 1..Len(body) : body[k] >= 0
  <2>1. Data = body
    BY <1>1, <1>2, Zenon DEF Readable
  <2>2. Len(Data) = d /\ \A k \in 1..d : body[k] >= 0
    BY <1>1, DataFacts, DataLenFacts
  <2> QED  BY <2>1, <2>2
<1>4. ASSUME NEW k \in DOMAIN HexGroup, HexGroup[k] < 0 PROVE FALSE
  <2> DEFINE c == IF i + 2 > Len(body) THEN 1 ELSE 2
  <2>1. k \in 1..c /\ HexGroup[k] = body[i + k]
    BY HexGroupFacts
  <2>2. i + k \in 1..Len(body)
    BY <1>1, <2>1, SMTT(40)
  <2>3. body[i + k] \in Int /\ body[i + k] >= 0
    BY <1>1, <1>3, <2>2
  <2> QED  BY <1>4, <2>1, <2>3
<1>5. ASSUME ~Room(1) PROVE FALSE
  <2>0. PICK q \in Nat : i = Group[encoding] * q /\ Len(out) = GroupOctets[encoding] * q
    BY <1>1, InDataFacts
  <2>1. i = 2 * q /\ Len(out) = 1 * q
    BY <1>1, <2>0
  <2>2. /\ Len(Digits) = IF d % 2 = 1 THEN d + 1 ELSE d
        /\ Len(Meaning) = (Len(Digits) * 4) \div 8
    BY <1>1, HexDigits
  <2> HIDE DEF d
  <2> DEFINE L == Len(Digits)
  <2> HIDE DEF L
  <2>3. L \in Nat /\ L >= 2 * q + 2
    <3>1. d \in Nat /\ d > 2 * q
      BY <1>1, <1>3, <2>1
    <3>2. L = IF d % 2 = 1 THEN d + 1 ELSE d
      BY <2>2 DEF L
    <3> QED  BY <3>1, <3>2
  <2>4. (L * 4) \div 8 >= q + 1 /\ (L * 4) \div 8 \in Nat
    BY <2>3
  <2>5. Len(out) + 1 <= MaxSecret
    <3> DEFINE M == Len(Meaning)
    <3> HIDE DEF M
    <3>1. M \in Nat /\ M >= q + 1 /\ M <= MaxSecret
      BY <1>2, <2>2, <2>4 DEF M, L
    <3> QED  BY <2>1, <3>1
  <2> QED  BY <1>5, <2>5 DEF Room
<1> QED  BY <1>4, <1>5

LEMMA AppendOctet ==
    ASSUME NEW s, NEW t, NEW b \in Nat, NEW o, o = Octets8(t, 4, b)
    PROVE  Append(o, Octet(s, 4, 1)) = o \o Octets8(s, 4, 1)
<1> DEFINE x == Octet(s, 4, 1)
           S == {Octet(t, 4, j) : j \in Nat} \cup {x}
<1>1. o \in Seq(S)
  <2> DEFINE R == {Octet(t, 4, j) : j \in Nat}
  <2>1. o \in Seq(R)
    BY Octets8Facts
  <2> HIDE DEF R, x
  <2>2. o \in Seq(R \cup {x})
    BY <2>1
  <2> QED  BY <2>2 DEF R
<1>2. x \in S
  OBVIOUS
<1>3. Octets8(s, 4, 1) = <<x>>
  <2> DEFINE y == Octets8(s, 4, 1)
  <2>1. y = [j \in 1..1 |-> Octet(s, 4, j)]
    BY Zenon DEF Octets8
  <2>2. 1..1 = {1}
    OBVIOUS
  <2>3. y = [j \in {1} |-> Octet(s, 4, j)]
    BY <2>1, <2>2, Zenon
  <2>4. [j \in {1} |-> Octet(s, 4, j)] = [j \in {1} |-> x]
    BY Zenon
  <2> HIDE DEF x, y
  <2>5. [j \in {1} |-> x] = <<x>>
    BY <2>2
  <2> QED  BY <2>3, <2>4, <2>5 DEF y
<1> HIDE DEF x, S
<1>4. Append(o, x) = o \o <<x>>
  BY <1>1, <1>2, AppendIsConcat
<1> QED  BY <1>3, <1>4 DEF x

LEMMA HexTaken ==
    ASSUME InHexLoop, InData, \A k \in DOMAIN HexGroup : ~(HexGroup[k] < 0)
    PROVE  Placed(Append(Exact, Octet(FillRest(HexGroup, 2), 4, 1)), i + Len(HexGroup))
<1> DEFINE d == DataLen
           c == IF i + 2 > Len(body) THEN 1 ELSE 2
           s == FillRest(HexGroup, 2)
           o == Append(Exact, Octet(s, 4, 1))
<1>1. /\ encoding \in Encodings /\ encoding = "hex"
      /\ body \in Seq(Int) /\ i \in Nat /\ i < Len(body) /\ Len(body) \in Nat
      /\ d \in 0..Len(body) /\ Width[encoding] = 4 /\ Group[encoding] = 2
      /\ GroupOctets[encoding] = 1
  BY HexFacts
<1>2. /\ HexGroup \in Seq(Int) /\ Len(HexGroup) = c /\ DOMAIN HexGroup = 1..c
      /\ \A k \in 1..c : HexGroup[k] = body[i + k]
  BY HexGroupFacts
<1>3. PICK q \in Nat :
         /\ i = Group[encoding] * q /\ GroupOctets[encoding] * q \in Nat
         /\ Exact = Octets8(body, Width[encoding], GroupOctets[encoding] * q)
         /\ i <= d /\ \A k \in 1..i : body[k] >= 0
  BY <1>1, InDataFacts
<1>4. i = 2 * q /\ GroupOctets[encoding] * q = q /\ Exact = Octets8(body, 4, q)
  <2> HIDE DEF d
  <2>1. i = 2 * q /\ GroupOctets[encoding] * q = q
    BY <1>1, <1>3
  <2> QED  BY <1>1, <1>3, <2>1
<1> DEFINE p == i + c
<1>5. c \in 1..2 /\ p \in 0..Len(body)
  BY <1>1
<1>6. ASSUME NEW k \in 1..p PROVE body[k] >= 0
  <2> HIDE DEF c, d
  <2>1. CASE k <= i
    BY <1>1, <1>3, <2>1
  <2>2. CASE k > i
    <3> DEFINE l == k - i
    <3>1. l \in 1..c /\ k = i + l /\ k \in 1..Len(body)
      BY <1>1, <1>5, <2>2
    <3> HIDE DEF l
    <3>2. ~(HexGroup[l] < 0) /\ HexGroup[l] = body[i + l]
      BY <1>2, <3>1
    <3>3. body[k] \in Int
      BY <1>1, <3>1
    <3> QED  BY <3>1, <3>2, <3>3
  <2> QED  BY <1>1, <1>5, <2>1, <2>2
<1>7. p <= d
  <2> HIDE DEF p, d
  <2>1. p <= DataLen
    BY <1>1, <1>5, <1>6, DataReach
  <2> QED  BY <2>1 DEF d
<1>8. /\ s[1] = body[i + 1]
      /\ s[2] = IF c = 2 THEN body[i + 2] ELSE 0
  <2> DEFINE h == HexGroup
  <2>1. h \in Seq(Int) /\ Len(h) = c /\ (\A k \in 1..c : h[k] = body[i + k]) /\ 2 \in Nat
    BY <1>2
  <2> HIDE DEF h, c
  <2>2. \A k \in 1..2 : FillRest(h, 2)[k] = IF k <= Len(h) THEN h[k] ELSE 0
    BY <2>1, FillFacts
  <2>3. FillRest(h, 2)[1] = body[i + 1]
    BY <1>5, <2>1, <2>2
  <2>4. FillRest(h, 2)[2] = IF c = 2 THEN body[i + 2] ELSE 0
    BY <1>5, <2>1, <2>2
  <2> QED  BY <2>3, <2>4 DEF h
<1>9. o = Exact \o Octets8(s, 4, 1)
  <2> HIDE DEF s
  <2> QED  BY <1>4, AppendOctet
(* The octets so far and the one of the group are those of any text that   *)
(* has the same digits.                                                    *)
<1>10. ASSUME NEW t, \A k \in 1..i : t[k] = body[k], t[i + 1] = s[1], t[i + 2] = s[2]
       PROVE  o = Octets8(t, 4, q + 1)
  <2>1. Octets8(body, 4, q) = Octets8(t, 4, q)
    <3> DEFINE r == i
               b == body
    <3>1. r \in Nat /\ \A k \in 1..r : b[k] = t[k]
      BY <1>1, <1>10
    <3>2. Width[encoding] = 4 /\ 8 * q <= r * Width[encoding]
      BY <1>1, <1>4
    <3>3. encoding \in Encodings
      BY <1>1
    <3> HIDE DEF r, b
    <3>4. Octets8(b, Width[encoding], q) = Octets8(t, Width[encoding], q)
      BY <3>1, <3>2, <3>3, SameOctets
    <3> QED  BY <3>2, <3>4 DEF b
  <2> DEFINE m == 2
             n == 1
  <2>2. m \in Nat /\ n \in Nat /\ 8 * n <= m * Width[encoding]
    BY <1>1
  <2>3. SameGroup(encoding, q, m, s, t)
    <3> HIDE DEF s
    <3>1. ASSUME NEW k \in 1..2 PROVE s[k] = t[i + k]
      <4>1. k = 1 \/ k = 2
        OBVIOUS
      <4> QED  BY <1>10, <4>1
    <3>2. i = Group[encoding] * q
      BY <1>3
    <3> QED  BY <3>1, <3>2, Zenon DEF SameGroup
  <2> HIDE DEF m, n, s
  <2>4. Joined(encoding, q, n, s, t)
    BY <1>1, <2>2, <2>3, Joins
  <2>5. Octets8(t, 4, q) \o Octets8(s, 4, n) = Octets8(t, 4, q + n)
    BY <1>1, <1>4, <2>4 DEF Joined
  <2> HIDE DEF o
  <2> QED  BY <1>4, <1>9, <2>1, <2>5 DEF n
<1> HIDE DEF o
<1>11. CASE c = 2
  <2>1. o = Octets8(body, 4, q + 1)
    <3>1. body[i + 1] = s[1] /\ body[i + 2] = s[2]
      BY <1>8, <1>11
    <3> HIDE DEF s
    <3> QED  BY <1>10, <3>1
  <2>2. p % 2 = 0 /\ (p * 4) \div 8 = q + 1
    <3>1. p = 2 * q + 2
      BY <1>4, <1>11
    <3> HIDE DEF p
    <3> QED  BY <3>1
  <2>3. Placed(o, p)
    <3> HIDE DEF p, d
    <3>1. p <= DataLen /\ p % Group[encoding] = 0
      BY <1>1, <1>7, <2>2 DEF d
    <3>2. o = Octets8(body, Width[encoding], (p * Width[encoding]) \div 8)
      BY <1>1, <2>1, <2>2
    <3> QED  BY <3>1, <3>2, Zenon DEF Placed
  <2> QED  BY <1>2, <2>3 DEF o
<1>12. CASE c = 1
  <2>1. d = Len(body) /\ p = Len(body) /\ d = 2 * q + 1 /\ d % 2 = 1
    <3>1. i + 2 > Len(body)
      BY <1>12
    <3>2. p = i + 1
      BY <1>12
    <3> HIDE DEF d, c, p
    <3> QED  BY <1>1, <1>4, <1>5, <1>7, <3>1, <3>2, SMTT(40)
  <2>2. /\ Len(Digits) = d + 1
        /\ \A k \in 1..d : Digits[k] = body[k]
        /\ Digits[d + 1] = 0
        /\ Meaning = Octets8(Digits, 4, (Len(Digits) * 4) \div 8)
    BY <1>1, <2>1, HexDigits
  <2>3. o = Octets8(Digits, 4, q + 1)
    <3>1. s[1] = body[i + 1] /\ s[2] = 0
      BY <1>8, <1>12
    <3> HIDE DEF d, s, c, p
    <3>2. i + 1 = d /\ i + 2 = d + 1 /\ d \in 1..d
      BY <1>1, <1>4, <2>1
    <3>3. Digits[i + 1] = s[1] /\ Digits[i + 2] = s[2]
      BY <2>2, <3>1, <3>2
    <3>4. ASSUME NEW k \in 1..i PROVE Digits[k] = body[k]
      <4>1. k \in 1..d
        BY <1>1, <3>2
      <4> QED  BY <2>2, <4>1
    <3> DEFINE t == Digits
    <3>5. t[i + 1] = s[1] /\ t[i + 2] = s[2] /\ \A k \in 1..i : t[k] = body[k]
      BY <3>3, <3>4
    <3> HIDE DEF t
    <3>6. o = Octets8(t, 4, q + 1)
      BY <1>10, <3>5
    <3> QED  BY <3>6 DEF t
  <2>4. o = Meaning
    <3> HIDE DEF d, c, p
    <3>1. (Len(Digits) * 4) \div 8 = q + 1
      BY <2>1, <2>2
    <3> QED  BY <2>2, <2>3, <3>1
  <2>5. Readable
    <3>1. Len(Data) = d /\ Data = body
      <4>1. Data \in Seq(Int) /\ Len(Data) = Len(body) /\ \A k \in 1..Len(Data) : Data[k] = body[k]
        BY <1>1, <2>1, DataFacts
      <4> QED  BY <1>1, <2>1, <4>1, SameSeq
    <3> HIDE DEF d, c, p
    <3>2. PaddingLast
      <4>1. \A k \in DOMAIN body : ~(k > Len(Data))
        BY <1>1, <2>1, <3>1
      <4> QED  BY <4>1, Zenon DEF PaddingLast
    <3> DEFINE L == Len(Digits)
               g == Group[encoding]
               w == Width[encoding]
    <3>3. L = 2 * q + 2
      BY <2>1, <2>2
    <3>4. (L * w) % 8 < w
      <4> HIDE DEF L
      <4>1. (L * 4) % 8 = 0
        BY <3>3
      <4> QED  BY <1>1, <4>1
    <3>5. Len(body) - Len(Data) <= (g - (L % g)) % g
      <4> HIDE DEF L
      <4>1. (2 - (L % 2)) % 2 = 0
        BY <3>3
      <4> QED  BY <1>1, <2>1, <3>1, <4>1
    <3>6. encoding # "base32"
      BY <1>1
    <3> QED  BY <3>1, <3>2, <3>4, <3>5, <3>6, Zenon DEF Readable
  <2>6. Placed(o, p)
    <3>1. p >= Len(body)
      BY <1>1, <2>1
    <3> HIDE DEF p
    <3> QED  BY <2>4, <2>5, <3>1, Zenon DEF Placed
  <2> QED  BY <1>2, <2>6 DEF o
<1> QED  BY <1>11, <1>12

-----------------------------------------------------------------------------
(* What the decoders write are bytes. *)
LEMMA HexByte ==
    ASSUME InHexLoop
    PROVE  Octet(FillRest(HexGroup, 2), 4, 1) \in 0..255
<1> DEFINE s == FillRest(HexGroup, 2)
           g == 2
           j == 1
           w == 4
<1>1. HexGroup \in Seq(Int) /\ g \in Nat
  BY HexGroupFacts
<1>2. \A k \in 1..g : FillRest(HexGroup, g)[k] \in Int
  <2> HIDE DEF g
  <2> QED  BY <1>1, FillFacts
<1>3. ASSUME NEW k \in 1..8 PROVE s[(8 * (j - 1) + k - 1) \div w + 1] \in Int
  <2>1. (8 * (j - 1) + k - 1) \div w + 1 \in 1..2
    OBVIOUS
  <2> HIDE DEF s
  <2> QED  BY <1>2, <2>1 DEF s
<1>4. w \in {4, 5, 6} /\ j \in Nat \ {0}
  OBVIOUS
<1> HIDE DEF s, j, w
<1>5. Octet(s, w, j) \in 0..255
  BY <1>3, <1>4, OctetType, ZenonT(60)
<1> QED  BY <1>5 DEF s, j, w

LEMMA BaseBytes ==
    ASSUME InLoop
    PROVE  LET n == GroupBytes(Len(Values))
               s == FillRest(Values, Group[encoding])
           IN  /\ n \in Nat
               /\ [j \in 1..n |-> Octet(s, Width[encoding], j)] \in Seq(0..255)
               /\ Len([j \in 1..n |-> Octet(s, Width[encoding], j)]) = n
<1> DEFINE m == Len(Values)
           n == GroupBytes(m)
           g == Group[encoding]
           w == Width[encoding]
           s == FillRest(Values, g)
<1>1. encoding \in Encodings /\ encoding \in {"base32", "base64"}
  BY NotHex
<1>2. m \in 0..g /\ Values \in Seq(Int) /\ g \in 1..8 /\ w \in {4, 5, 6}
  BY <1>1, ValuesFacts, WholeOctets
<1>3. n \in 0..5 /\ 8 * n <= m * w
  <2> HIDE DEF m
  <2> QED  BY <1>1, <1>2, GroupFits
<1>4. \A k \in 1..g : s[k] \in Int
  <2>1. g \in Nat
    BY <1>2
  <2> HIDE DEF g
  <2> QED  BY <1>2, <2>1, FillFacts
<1>5. ASSUME NEW j \in 1..n PROVE Octet(s, w, j) \in 0..255
  <2> HIDE DEF m, n, g, w, s
  <2>1. j \in Nat \ {0} /\ m \in Nat
    BY <1>2, <1>3
  <2>2. 8 * j <= m * w
    <3> DEFINE x == m * w
    <3>1. x \in Nat /\ 8 * n <= x
      BY <1>2, <1>3
    <3> HIDE DEF x
    <3>2. 8 * j <= x
      BY <1>3, <3>1
    <3> QED  BY <3>2 DEF x
  <2>3. ASSUME NEW k \in 1..8 PROVE s[(8 * (j - 1) + k - 1) \div w + 1] \in Int
    <3>1. Pos(j, k) \div w + 1 \in 1..m
      BY <1>2, <2>1, <2>2, IndexIn
    <3> DEFINE x == Pos(j, k) \div w + 1
    <3> HIDE DEF x
    <3>2. x \in 1..g
      BY <1>2, <3>1 DEF x
    <3>3. s[x] \in Int
      BY <1>4, <3>2
    <3> QED  BY <3>3 DEF x, Pos
  <2> QED  BY <1>2, <2>1, <2>3, OctetType, ZenonT(60)
<1> DEFINE o == [j \in 1..n |-> Octet(s, w, j)]
<1>6. o \in [1..n -> 0..255]
  <2> HIDE DEF n, s, w
  <2> QED  BY <1>5, Zenon
<1>7. o \in Seq(0..255) /\ Len(o) = n
  <2> HIDE DEF o, n
  <2> QED  BY <1>3, <1>6
<1>8. n \in Nat
  BY <1>3
<1> QED  BY <1>7, <1>8, Zenon

(* Bytes in order are a sequence of bytes. *)
LEMMA InOrder ==
    ASSUME NEW S, NEW n \in Nat, NEW y \in [1..n -> S]
    PROVE  y \in Seq(S) /\ Len(y) = n
OBVIOUS

LEMMA Elements ==
    ASSUME NEW S, NEW x \in Seq(S)
    PROVE  \A j \in 1..Len(x) : x[j] \in S
OBVIOUS

LEMMA Concatenation ==
    ASSUME NEW S, NEW o \in Seq(S), NEW y \in Seq(S)
    PROVE  /\ Len(o \o y) = Len(o) + Len(y) /\ Len(o) \in Nat /\ Len(y) \in Nat
           /\ \A k \in 1..(Len(o) + Len(y)) :
                 (o \o y)[k] = IF k <= Len(o) THEN o[k] ELSE y[k - Len(o)]
OBVIOUS

LEMMA OfMore ==
    ASSUME NEW S, NEW T, NEW x \in Seq(S), \A v \in S : v \in T
    PROVE  x \in Seq(T)
<1>1. x \in [1..Len(x) -> S] /\ Len(x) \in Nat
  OBVIOUS
<1>2. x \in [1..Len(x) -> T]
  BY <1>1, Zenon
<1> QED  BY <1>1, <1>2

-----------------------------------------------------------------------------
(* Sequences that are alike stay so when bytes are added that are. *)
LEMMA AlikeLonger ==
    ASSUME NEW S, NEW T, NEW o \in Seq(S), NEW e \in Seq(T), Alike(o, e),
           NEW y \in Seq(S), NEW x \in Seq(T), Len(y) = Len(x),
           \A j \in 1..Len(x) : Survives(Len(o) + j) => y[j] = x[j]
    PROVE  Alike(o \o y, e \o x)
<1>1. Len(o) = Len(e) /\ \A j \in 1..Len(e) : Survives(j) => o[j] = e[j]
  BY DEF Alike
<1> DEFINE u == o \o y
           v == e \o x
<1>2. /\ Len(u) = Len(o) + Len(y) /\ Len(v) = Len(o) + Len(y)
      /\ Len(o) \in Nat /\ Len(y) \in Nat
      /\ \A k \in 1..Len(v) : u[k] = IF k <= Len(o) THEN o[k] ELSE y[k - Len(o)]
      /\ \A k \in 1..Len(v) : v[k] = IF k <= Len(o) THEN e[k] ELSE x[k - Len(o)]
  <2>1. /\ Len(u) = Len(o) + Len(y) /\ Len(o) \in Nat /\ Len(y) \in Nat
        /\ \A k \in 1..(Len(o) + Len(y)) : u[k] = IF k <= Len(o) THEN o[k] ELSE y[k - Len(o)]
    BY Concatenation
  <2>2. /\ Len(v) = Len(e) + Len(x)
        /\ \A k \in 1..(Len(e) + Len(x)) : v[k] = IF k <= Len(e) THEN e[k] ELSE x[k - Len(e)]
    BY Concatenation
  <2> HIDE DEF u, v
  <2> QED  BY <1>1, <2>1, <2>2
<1> HIDE DEF u, v
<1>3. ASSUME NEW k \in 1..Len(v), Survives(k) PROVE u[k] = v[k]
  <2>1. CASE k <= Len(o)
    <3>1. k \in 1..Len(e)
      BY <1>1, <1>2, <2>1
    <3> QED  BY <1>1, <1>2, <1>3, <2>1, <3>1
  <2>2. CASE ~(k <= Len(o))
    <3> DEFINE j == k - Len(o)
    <3>1. j \in 1..Len(x) /\ Len(o) + j = k
      BY <1>2, <2>2
    <3>2. u[k] = y[j] /\ v[k] = x[j]
      BY <1>2, <2>2
    <3> HIDE DEF j
    <3>3. Survives(Len(o) + j)
      BY <1>3, <3>1
    <3> QED  BY <3>1, <3>2, <3>3
  <2> QED  BY <2>1, <2>2
<1>4. Alike(u, v)
  BY <1>1, <1>2, <1>3, Zenon DEF Alike
<1> QED  BY <1>4 DEF u, v

-----------------------------------------------------------------------------
(* What the text means does not change while it is read. *)
LEMMA TextKept ==
    ASSUME UNCHANGED <<encoding, body>>
    PROVE  /\ DataLen' = DataLen /\ Meaning' = Meaning
           /\ Readable' = Readable /\ PaddingInside' = PaddingInside
<1>1. encoding' = encoding /\ body' = body
  OBVIOUS
<1>2. DataLen' = DataLen
  BY <1>1, Zenon DEF DataLen
<1>3. Data' = Data
  BY <1>1, <1>2, Zenon DEF Data
<1>4. Digits' = Digits
  BY <1>1, <1>3, Zenon DEF Digits
<1>5. Meaning' = Meaning
  BY <1>1, <1>4, Zenon DEF Meaning
<1>6. PaddingLast' = PaddingLast
  BY <1>1, <1>3, Zenon DEF PaddingLast
<1>7. Readable' = Readable
  BY <1>1, <1>3, <1>4, <1>6, Zenon DEF Readable
<1>8. PaddingInside' = PaddingInside
  BY <1>1, Zenon DEF PaddingInside
<1> QED  BY <1>2, <1>5, <1>7, <1>8

LEMMA PlacedNext ==
    ASSUME UNCHANGED <<encoding, body>>, NEW o, Placed(o, i'), Alike(out', o)
    PROVE  InData' \/ AtEnd' \/ InExcess'
<1>1. encoding' = encoding /\ body' = body
  OBVIOUS
<1>2. DataLen' = DataLen /\ Meaning' = Meaning /\ Readable' = Readable
  BY TextKept
<1> DEFINE w == Width[encoding]
           e == [j \in 1..((i' * w) \div 8) |-> Octet(body, w, j)]
<1>3. \/ i' <= DataLen /\ i' % Group[encoding] = 0 /\ Alike(out', e)
      \/ i' >= Len(body) /\ Readable /\ Alike(out', Meaning)
      \/ DataLen < i' /\ i' < Len(body) /\ body[DataLen + 1] = Pad /\ ~Readable
  BY Zenon DEF Placed, Octets8
<1>4. ASSUME i' <= DataLen, i' % Group[encoding] = 0, Alike(out', e)
      PROVE  InData'
  <2>1. Alike(out, [j \in 1..((i * Width[encoding]) \div 8) |-> Octet(body, Width[encoding], j)])'
    BY <1>1, <1>4, Zenon DEF Alike, Survives
  <2> QED  BY <1>1, <1>2, <1>4, <2>1, Zenon DEF InData
<1>5. ASSUME i' >= Len(body), Readable, Alike(out', Meaning) PROVE AtEnd'
  <2>1. Alike(out, Meaning)'
    BY <1>1, <1>2, <1>5, Zenon DEF Alike, Survives
  <2> QED  BY <1>1, <1>2, <1>5, <2>1, Zenon DEF AtEnd
<1>6. ASSUME DataLen < i', i' < Len(body), body[DataLen + 1] = Pad, ~Readable PROVE InExcess'
  BY <1>1, <1>2, <1>6, Zenon DEF InExcess
<1> QED  BY <1>3, <1>4, <1>5, <1>6, Zenon

(* A character without a value behind the data ends them for good. *)
LEMMA NothingBehind ==
    ASSUME body \in Seq(Int), i \in Nat, ~PaddingInside, InExcess
    PROVE  body[i + 1] < 0
<1> DEFINE d == DataLen
<1>1. d \in 0..Len(body) /\ d < i /\ i < Len(body) /\ body[d + 1] = Pad
  BY DataLenFacts DEF InExcess
<1> HIDE DEF d
<1>2. d + 1 \in DOMAIN body /\ i + 1 \in DOMAIN body /\ d + 1 < i + 1
  BY <1>1
<1>3. ~(body[i + 1] >= 0)
  BY <1>1, <1>2, Zenon DEF PaddingInside
<1>4. body[i + 1] \in Int
  BY <1>2
<1> QED  BY <1>3, <1>4

-----------------------------------------------------------------------------
(* Refusing a text, and giving the verdict on one. *)
LEMMA RefuseKeeps ==
    ASSUME DecodeInv, Refuse, ~PaddingInside => ~(Readable /\ Len(Meaning) <= MaxSecret)
    PROVE  DecodeInv'
<1>1. /\ encoding' = encoding /\ body' = body /\ i' = i /\ out' = out /\ verdict' = "error"
      /\ EncodeTypeOK /\ body \in Seq(Int)
  BY DEF Refuse, DecodeInv
<1>2. EncodeTypeOK' /\ body' \in Seq(Int)
  BY <1>1 DEF EncodeTypeOK
<1>3. Meaning' = Meaning /\ Readable' = Readable /\ PaddingInside' = PaddingInside
  BY <1>1, TextKept
<1>4. ReadAsOneString'
  <2>1. ASSUME ~PaddingInside'
        PROVE  /\ verdict' = "ok" <=> Readable' /\ Len(Meaning') <= MaxSecret
               /\ verdict' = "ok" => Alike(out, Meaning)'
    <3>1. ~(Readable /\ Len(Meaning) <= MaxSecret)
      BY <1>3, <2>1
    <3>2. ~(Readable' /\ Len(Meaning') <= MaxSecret)
      BY <1>3, <3>1, Zenon
    <3>3. verdict' # "ok"
      BY <1>1
    <3> QED  BY <3>2, <3>3
  <2> QED  BY <2>1, Zenon DEF ReadAsOneString
<1>5. verdict' # "decoding"
  BY <1>1
<1> QED  BY <1>2, <1>4, <1>5 DEF DecodeInv

LEMMA GoesOn ==
    ASSUME DecodeInv, verdict = "decoding", UNCHANGED <<encoding, body, verdict>>,
           out' \in Seq(0..255), Len(out') <= MaxSecret, i' \in 0..(Len(body) + 8),
           ~PaddingInside => \E o : Placed(o, i') /\ Alike(out', o)
    PROVE  DecodeInv'
<1>1. /\ encoding' = encoding /\ body' = body /\ verdict' = "decoding"
      /\ EncodeTypeOK /\ body \in Seq(Int)
  BY DEF DecodeInv
<1>2. EncodeTypeOK' /\ body' \in Seq(Int)
  BY <1>1 DEF EncodeTypeOK
<1>3. ~PaddingInside' => InData' \/ AtEnd' \/ InExcess'
  <2>1. PaddingInside' = PaddingInside
    BY <1>1, TextKept
  <2>2. UNCHANGED <<encoding, body>>
    BY <1>1
  <2>3. ASSUME ~PaddingInside PROVE InData' \/ AtEnd' \/ InExcess'
    <3>1. PICK o : Placed(o, i') /\ Alike(out', o)
      BY <2>3
    <3> QED  BY <2>2, <3>1, PlacedNext
  <2> QED  BY <2>1, <2>3
<1>4. ReadAsOneString'
  <2>1. verdict' \notin {"ok", "error"}
    BY <1>1
  <2> QED  BY <2>1, Zenon DEF ReadAsOneString
<1> QED  BY <1>2, <1>3, <1>4 DEF DecodeInv

(* What the sequences of bytes in Exact are, and that hex loses nothing. *)
LEMMA ExactFacts ==
    ASSUME DecodeInv, InData
    PROVE  Alike(out, Exact) /\ \E T : Exact \in Seq(T) /\ \A v \in 0..255 : v \in T
<1>1. encoding \in Encodings /\ body \in Seq(Int) /\ i \in Nat /\ out \in Seq(0..255)
  BY DEF DecodeInv, EncodeTypeOK
<1>2. PICK q \in Nat :
         /\ i = Group[encoding] * q /\ GroupOctets[encoding] * q \in Nat
         /\ Exact = Octets8(body, Width[encoding], GroupOctets[encoding] * q)
         /\ Alike(out, Exact) /\ Len(out) = GroupOctets[encoding] * q
         /\ i <= DataLen /\ \A k \in 1..i : body[k] >= 0
  BY <1>1, InDataFacts
<1> DEFINE S == {Octet(body, Width[encoding], j) : j \in Nat}
           T == S \cup 0..255
<1>3. Exact \in Seq(S)
  <2> DEFINE b == GroupOctets[encoding] * q
  <2>1. b \in Nat /\ Exact = Octets8(body, Width[encoding], b)
    BY <1>2
  <2> HIDE DEF b
  <2>2. Octets8(body, Width[encoding], b) \in Seq(S)
    BY <2>1, Octets8Facts
  <2> QED  BY <2>1, <2>2, Zenon
<1>4. (\A v \in S : v \in T) /\ (\A v \in 0..255 : v \in T)
  BY Zenon
<1> HIDE DEF S, T
<1>5. Exact \in Seq(T)
  BY <1>3, <1>4, OfMore
<1> QED  BY <1>2, <1>4, <1>5, Zenon

LEMMA HexExact ==
    ASSUME DecodeInv, InData, encoding = "hex"
    PROVE  Exact = out
<1>1. out \in Seq(0..255) /\ Alike(out, Exact)
  BY ExactFacts DEF DecodeInv, EncodeTypeOK
<1>2. PICK T : Exact \in Seq(T) /\ \A v \in 0..255 : v \in T
  BY ExactFacts
<1>3. out \in Seq(T)
  BY <1>1, <1>2, OfMore
<1>4. Len(out) = Len(Exact) /\ \A j \in 1..Len(Exact) : out[j] = Exact[j]
  BY <1>1 DEF Alike, Survives
<1>5. Exact \in Seq(T)
  BY <1>2
<1>6. \A j \in 1..Len(out) : out[j] = Exact[j]
  BY <1>4
<1> QED  BY <1>3, <1>4, <1>5, <1>6, SameSeq

LEMMA HexStep ==
    ASSUME DecodeInv, hex_decode
    PROVE  DecodeInv'
<1> DEFINE s == FillRest(HexGroup, 2)
           bad == (\E k \in DOMAIN HexGroup : HexGroup[k] < 0) \/ ~Room(1)
<1>1. /\ verdict = "decoding" /\ i < Len(body) /\ encoding = "hex"
      /\ IF bad THEN Refuse
         ELSE /\ out' = Append(out, Octet(s, 4, 1)) /\ i' = i + Len(HexGroup)
              /\ UNCHANGED <<encoding, body, verdict>>
  BY Zenon DEF hex_decode, Decoding, HexGroup
<1>2. /\ out \in Seq(0..255) /\ Len(out) <= MaxSecret /\ i \in Nat /\ body \in Seq(Int)
      /\ MaxSecret \in Nat
  BY EncodeAssumption DEF DecodeInv, EncodeTypeOK
<1>3. InHexLoop
  BY <1>1, <1>2 DEF InHexLoop
<1>4. ASSUME ~PaddingInside PROVE InData \/ InExcess
  <2>1. ~AtEnd
    BY <1>1, <1>2 DEF AtEnd
  <2> QED  BY <1>1, <1>4, <2>1 DEF DecodeInv
<1>5. ASSUME ~PaddingInside, InExcess PROVE ~Readable /\ bad
  <2>1. body[i + 1] < 0 /\ ~Readable
    BY <1>2, <1>5, NothingBehind DEF InExcess
  <2>2. 1 \in DOMAIN HexGroup /\ HexGroup[1] = body[i + 1]
    BY <1>3, HexGroupFacts
  <2> QED  BY <2>1, <2>2
<1>6. CASE bad
  <2>1. Refuse
    BY <1>1, <1>6
  <2>2. ASSUME ~PaddingInside PROVE ~(Readable /\ Len(Meaning) <= MaxSecret)
    BY <1>2, <1>3, <1>4, <1>5, <1>6, <2>2, HexRefused
  <2> QED  BY <2>1, <2>2, RefuseKeeps
<1>7. CASE ~bad
  <2>1. /\ out' = Append(out, Octet(s, 4, 1)) /\ i' = i + Len(HexGroup)
        /\ UNCHANGED <<encoding, body, verdict>>
    BY <1>1, <1>7
  <2>2. Octet(s, 4, 1) \in 0..255
    BY <1>3, HexByte
  <2>3. out' \in Seq(0..255) /\ Len(out') <= MaxSecret
    <3> DEFINE x == Octet(s, 4, 1)
    <3>1. x \in 0..255 /\ out' = Append(out, x) /\ Len(out) + 1 <= MaxSecret
      BY <1>7, <2>1, <2>2 DEF Room
    <3> HIDE DEF x
    <3> QED  BY <1>2, <3>1
  <2>4. i' \in 0..(Len(body) + 8)
    <3>1. Len(HexGroup) \in 1..2
      BY <1>3, HexGroupFacts
    <3> DEFINE c == Len(HexGroup)
    <3>2. c \in 1..2 /\ i' = i + c /\ i < Len(body) /\ Len(body) \in Nat /\ i \in Nat
      BY <1>1, <1>2, <2>1, <3>1
    <3> HIDE DEF c
    <3> QED  BY <3>2
  <2>5. ASSUME ~PaddingInside PROVE \E o : Placed(o, i') /\ Alike(out', o)
    <3>1. InData
      BY <1>4, <1>5, <1>7, <2>5
    <3> DEFINE o == Append(Exact, Octet(s, 4, 1))
    <3>2. Placed(o, i + Len(HexGroup))
      BY <1>3, <1>7, <3>1, HexTaken
    <3>3. Exact = out
      BY <1>1, <1>2, <3>1, HexExact
    <3>4. Alike(out', o)
      <4>1. out' = o
        BY <2>1, <3>3
      <4> QED  BY <4>1, Zenon DEF Alike
    <3>5. Placed(o, i')
      BY <2>1, <3>2
    <3> HIDE DEF o
    <3> QED  BY <3>4, <3>5
  <2>6. verdict = "decoding"
    BY <1>1
  <2>7. UNCHANGED <<encoding, body, verdict>>
    BY <2>1
  <2>8. out' \in Seq(0..255)
    BY <2>3
  <2>9. Len(out') <= MaxSecret
    BY <2>3
  <2>10. ~PaddingInside => \E o : Placed(o, i') /\ Alike(out', o)
    BY <2>5
  <2> HIDE DEF s, bad
  <2> QED  BY <2>4, <2>6, <2>7, <2>8, <2>9, <2>10, GoesOn
<1> QED  BY <1>6, <1>7

LEMMA BaseStep ==
    ASSUME DecodeInv, base_decode
    PROVE  DecodeInv'
<1> DEFINE m == Len(Values)
           n == GroupBytes(m)
           g == Group[encoding]
           w == Width[encoding]
           s == FillRest(Values, g)
           x == [j \in 1..n |-> Octet(s, w, j)]
           y(f) == [j \in 1..n |-> IF j = 1 THEN f ELSE Octet(s, w, j)]
           bad == n = 0 \/ ~PaddedOut \/ ~Room(n) \/ ~NothingLeftOver(Values)
<1>1. /\ verdict = "decoding" /\ i < Len(body) /\ encoding # "hex"
      /\ IF bad THEN Refuse
         ELSE /\ \E f \in FirstBytes(s) : out' = out \o y(f)
              /\ i' = i + IF InGroup = Leading THEN m ELSE g
              /\ UNCHANGED <<encoding, body, verdict>>
  BY Zenon DEF base_decode, Decoding
<1>2. /\ out \in Seq(0..255) /\ Len(out) <= MaxSecret /\ i \in Nat /\ body \in Seq(Int)
      /\ MaxSecret \in Nat /\ encoding \in Encodings
  BY EncodeAssumption DEF DecodeInv, EncodeTypeOK
<1>3. InLoop
  BY <1>1, <1>2, Widths DEF InLoop
<1>4. ASSUME ~PaddingInside PROVE InData \/ InExcess
  <2>1. ~AtEnd
    BY <1>1, <1>2 DEF AtEnd
  <2> QED  BY <1>1, <1>4, <2>1 DEF DecodeInv
<1>5. m \in 0..g /\ g \in 1..8 /\ Leading = 1..m
  BY <1>2, <1>3, ValuesFacts, WholeOctets
<1>6. ASSUME ~PaddingInside, InExcess PROVE ~Readable /\ bad
  <2>1. body[i + 1] < 0 /\ ~Readable
    BY <1>2, <1>6, NothingBehind DEF InExcess
  <2>2. m = 0
    <3> HIDE DEF m
    <3>1. SUFFICES ASSUME m # 0 PROVE FALSE
      OBVIOUS
    <3>2. 1 \in 1..m
      BY <1>5, <3>1
    <3>3. body[i + 1] >= 0
      BY <1>3, <3>2, ValuesFacts DEF m
    <3>4. body[i + 1] \in Int
      BY <1>1, <1>2
    <3> QED  BY <2>1, <3>3, <3>4
  <2>3. n = 0
    <3> HIDE DEF m
    <3>1. encoding \in {"base32", "base64"} /\ 0 \in 0..Group[encoding]
      BY <1>1, <1>2, <1>5, Widths
    <3>2. GroupBytes(0) = 0
      <4>1. encoding = "base32" => GroupBytes(0) = 0
        BY DEF GroupBytes, b32_tab
      <4>2. encoding = "base64" => GroupBytes(0) = 0
        BY DEF GroupBytes, B64_GROUP
      <4> QED  BY <3>1, <4>1, <4>2
    <3> QED  BY <2>2, <3>2
  <2> QED  BY <2>1, <2>3
<1>7. CASE bad
  <2>1. Refuse
    BY <1>1, <1>7
  <2>2. ASSUME ~PaddingInside PROVE ~(Readable /\ Len(Meaning) <= MaxSecret)
    <3>1. CASE InData
      BY <1>2, <1>3, <1>7, <3>1, BaseRefused
    <3>2. CASE InExcess
      BY <1>6, <2>2, <3>2
    <3> QED  BY <1>4, <2>2, <3>1, <3>2
  <2> QED  BY <2>1, <2>2, RefuseKeeps
<1>8. CASE ~bad
  <2>0. PICK f \in FirstBytes(s) : out' = out \o y(f)
    BY <1>1, <1>8
  <2>1. i' = i + (IF InGroup = Leading THEN m ELSE g) /\ UNCHANGED <<encoding, body, verdict>>
    BY <1>1, <1>8
  <2> DEFINE z == y(f)
  <2>2. /\ n \in Nat /\ n # 0 /\ x \in Seq(0..255) /\ Len(x) = n
        /\ z \in Seq(0..255) /\ Len(z) = n
        /\ (\A j \in 1..n : j # 1 => z[j] = x[j]) /\ z[1] = f
    <3>1. n \in Nat /\ x \in Seq(0..255) /\ Len(x) = n /\ n # 0
      BY <1>3, <1>8, BaseBytes
    <3>2. \A j \in 1..n : x[j] = Octet(s, w, j)
      BY Zenon
    <3>3. \A j \in 1..n : Octet(s, w, j) \in 0..255
      BY <3>1, <3>2, Elements
    <3>4. f \in 0..255
      <4>1. 1 \in 1..n
        BY <3>1
      <4>2. Octet(s, w, 1) \in 0..255
        BY <3>3, <4>1, Zenon
      <4> HIDE DEF s
      <4> QED  BY <4>2, Zenon DEF FirstBytes
    <3>5. \A j \in 1..n : (IF j = 1 THEN f ELSE Octet(s, w, j)) \in 0..255
      BY <3>3, <3>4, Zenon
    <3>6. z = [j \in 1..n |-> IF j = 1 THEN f ELSE Octet(s, w, j)]
      OBVIOUS
    <3> HIDE DEF z, n, s, w
    <3>7. z \in [1..n -> 0..255]
      BY <3>5, <3>6, Zenon
    <3>8. z \in Seq(0..255) /\ Len(z) = n
      BY <3>1, <3>7, InOrder
    <3>9. \A j \in 1..n : z[j] = IF j = 1 THEN f ELSE Octet(s, w, j)
      BY <3>6, Zenon
    <3>10. \A j \in 1..n : j # 1 => z[j] = x[j]
      BY <3>2, <3>9, Zenon
    <3>11. z[1] = f
      <4>1. 1 \in 1..n
        BY <3>1
      <4> QED  BY <3>9, <4>1, Zenon
    <3> HIDE DEF x
    <3> QED  BY <3>1, <3>8, <3>10, <3>11
  <2>3. out' \in Seq(0..255) /\ Len(out') <= MaxSecret
    <3>1. Len(out) + n <= MaxSecret
      BY <1>8 DEF Room
    <3>2. out' = out \o z
      BY <2>0
    <3> HIDE DEF z, n
    <3> QED  BY <1>2, <2>2, <3>1, <3>2
  <2>4. i' \in 0..(Len(body) + 8)
    <3> HIDE DEF m, g
    <3>1. (IF InGroup = Leading THEN m ELSE g) \in 0..8
      BY <1>5
    <3>2. /\ i' = i + (IF InGroup = Leading THEN m ELSE g)
          /\ i < Len(body) /\ Len(body) \in Nat /\ i \in Nat
      BY <1>1, <1>2, <2>1
    <3> QED  BY <3>1, <3>2, SMTT(40)
  <2>5. ASSUME ~PaddingInside PROVE \E o : Placed(o, i') /\ Alike(out', o)
    <3>1. InData
      BY <1>4, <1>6, <1>8, <2>5
    <3>2. n # 0 /\ PaddedOut /\ NothingLeftOver(Values)
      BY <1>8
    <3>3. Placed(Exact \o x, i + (IF InGroup = Leading THEN m ELSE g))
      BY <1>3, <3>1, <3>2, BaseTaken
    <3>4. PICK T : Exact \in Seq(T) /\ \A v \in 0..255 : v \in T
      BY <3>1, ExactFacts
    <3>5. ASSUME encoding = "base32", LongBits = 32 PROVE ~Survives(Len(out) + 1)
      <4>1. PICK q \in Nat : Len(out) = GroupOctets[encoding] * q
        BY <1>2, <3>1, InDataFacts
      <4>2. Len(out) = 5 * q
        BY <3>5, <4>1, Widths DEF GroupOctets
      <4>3. (Len(out) + 1 - 1) % 5 = 0
        BY <4>2
      <4> QED  BY <3>5, <4>3 DEF Survives
    <3>6. ASSUME ~(encoding = "base32" /\ LongBits = 32) PROVE z[1] = x[1]
      <4>1. f = Octet(s, w, 1)
        BY <3>6, Zenon DEF FirstBytes
      <4>2. x[1] = Octet(s, w, 1)
        <5>1. 1 \in 1..n
          BY <2>2
        <5> QED  BY <5>1, Zenon
      <4> QED  BY <2>2, <4>1, <4>2
    <3>7. out' = out \o z
      BY <2>0
    <3> HIDE DEF x, z, n
    <3>8. ASSUME NEW j \in 1..Len(x), Survives(Len(out) + j) PROVE z[j] = x[j]
      <4>1. CASE j = 1
        BY <3>5, <3>6, <3>8, <4>1
      <4>2. CASE j # 1
        BY <2>2, <4>2
      <4> QED  BY <4>1, <4>2
    <3>9. x \in Seq(T) /\ Len(z) = Len(x) /\ Alike(out, Exact)
      BY <2>2, <3>1, <3>4, ExactFacts, OfMore
    <3>10. Alike(out \o z, Exact \o x)
      <4>1. \A j \in 1..Len(x) : Survives(Len(out) + j) => z[j] = x[j]
        BY <3>8
      <4>2. out \in Seq(0..255) /\ z \in Seq(0..255)
        BY <1>2, <2>2
      <4>3. Exact \in Seq(T)
        BY <3>4
      <4> QED  BY <3>9, <4>1, <4>2, <4>3, AlikeLonger
    <3>11. Placed(Exact \o x, i')
      BY <2>1, <3>3
    <3> QED  BY <3>7, <3>10, <3>11
  <2>6. verdict = "decoding"
    BY <1>1
  <2>7. UNCHANGED <<encoding, body, verdict>>
    BY <2>1
  <2>8. out' \in Seq(0..255)
    BY <2>3
  <2>9. Len(out') <= MaxSecret
    BY <2>3
  <2>10. ~PaddingInside => \E o : Placed(o, i') /\ Alike(out', o)
    BY <2>5
  <2> HIDE DEF m, n, g, w, s, x, y, z, bad
  <2> QED  BY <2>4, <2>6, <2>7, <2>8, <2>9, <2>10, GoesOn
<1> QED  BY <1>7, <1>8

LEMMA EndStep ==
    ASSUME DecodeInv, DecodeEnd
    PROVE  DecodeInv'
<1>1. /\ verdict = "decoding" /\ i >= Len(body) /\ verdict' = "ok"
      /\ encoding' = encoding /\ body' = body /\ i' = i /\ out' = out
  BY DEF DecodeEnd
<1>2. /\ EncodeTypeOK /\ encoding \in Encodings /\ i \in Nat /\ body \in Seq(Int)
      /\ Len(out) <= MaxSecret
  BY DEF DecodeInv, EncodeTypeOK
<1>3. EncodeTypeOK' /\ body' \in Seq(Int)
  BY <1>1, <1>2 DEF EncodeTypeOK
<1>4. ASSUME ~PaddingInside PROVE Readable /\ Alike(out, Meaning)
  <2>1. InData \/ AtEnd \/ InExcess
    BY <1>1, <1>4 DEF DecodeInv
  <2>2. ~InExcess
    BY <1>1, <1>2 DEF InExcess
  <2>3. CASE InData
    BY <1>1, <1>2, <2>3, EndOfData
  <2>4. CASE AtEnd
    BY <2>4 DEF AtEnd
  <2> QED  BY <2>1, <2>2, <2>3, <2>4
<1>5. Meaning' = Meaning /\ Readable' = Readable /\ PaddingInside' = PaddingInside
  BY <1>1, TextKept
<1>6. ReadAsOneString'
  <2>1. ASSUME ~PaddingInside'
        PROVE  Readable' /\ Len(Meaning') <= MaxSecret /\ Alike(out, Meaning)'
    <3>1. Readable /\ Alike(out, Meaning)
      BY <1>4, <1>5, <2>1
    <3>2. Len(Meaning) <= MaxSecret
      BY <1>2, <3>1 DEF Alike
    <3>3. Alike(out, Meaning)'
      BY <1>1, <1>5, <3>1, Zenon DEF Alike, Survives
    <3> QED  BY <1>1, <1>5, <3>1, <3>2, <3>3, Zenon
  <2> QED  BY <1>1, <2>1, Zenon DEF ReadAsOneString
<1>7. verdict' # "decoding"
  BY <1>1
<1> QED  BY <1>3, <1>6, <1>7 DEF DecodeInv

LEMMA DecodeSame ==
    ASSUME DecodeInv, UNCHANGED decodeVars
    PROVE  DecodeInv'
<1>1. encoding' = encoding /\ body' = body /\ i' = i /\ out' = out /\ verdict' = verdict
  BY DEF decodeVars
<1>2. /\ DataLen' = DataLen /\ Meaning' = Meaning /\ Readable' = Readable
      /\ PaddingInside' = PaddingInside
  BY <1>1, TextKept
<1>3. InData' = InData /\ AtEnd' = AtEnd /\ InExcess' = InExcess
  <2>1. InData' = InData
    BY <1>1, <1>2, Zenon DEF InData, Alike, Survives
  <2>2. AtEnd' = AtEnd
    BY <1>1, <1>2, Zenon DEF AtEnd, Alike, Survives
  <2>3. InExcess' = InExcess
    BY <1>1, <1>2, Zenon DEF InExcess
  <2> QED  BY <2>1, <2>2, <2>3
<1>4. ReadAsOneString' = ReadAsOneString
  BY <1>1, <1>2, Zenon DEF ReadAsOneString, Alike, Survives
<1>5. EncodeTypeOK' = EncodeTypeOK
  BY <1>1, Zenon DEF EncodeTypeOK
<1> QED  BY <1>1, <1>2, <1>3, <1>4, <1>5, Zenon DEF DecodeInv

LEMMA DecodeStart ==
    ASSUME EncodeTypeOK, NEW t, t.encoding \in Encodings, t.body \in Seq(Int), secret_decode(t)
    PROVE  DecodeInv'
<1>1. /\ encoding' \in Encodings /\ body' \in Seq(Int)
      /\ i' = 0 /\ out' = <<>> /\ verdict' = "decoding"
  BY DEF secret_decode
<1>2. EncodeTypeOK'
  <2>1. <<>> \in Seq(0..255) /\ Len(<<>>) = 0 /\ MaxSecret \in Nat /\ Len(body') \in Nat
    BY <1>1, EncodeAssumption
  <2> QED  BY <1>1, <2>1 DEF EncodeTypeOK
<1>3. DataLen' \in 0..Len(body')
  <2> DEFINE b == body'
             P(n) == (\A k \in 1..n : b[k] >= 0) /\ (n < Len(b) => b[n + 1] < 0)
  <2>1. b \in Seq(Int)
    BY <1>1
  <2>2. \E n \in 0..Len(b) : P(n)
    <3> HIDE DEF b
    <3> QED  BY <2>1, DataEndSomewhere
  <2>3. DataLen' = CHOOSE n \in 0..Len(b) : P(n)
    BY Zenon DEF DataLen
  <2> HIDE DEF P, b
  <2>4. DataLen' \in 0..Len(b)
    BY <2>2, <2>3
  <2> QED  BY <2>4 DEF b
<1>4. InData'
  <2> DEFINE g == Group[encoding']
             w == Width[encoding']
  <2>1. g \in {2, 4, 8} /\ w \in {4, 5, 6}
    BY <1>1, Widths
  <2>2. 0 <= DataLen'
    BY <1>1, <1>3
  <2>3. 0 % g = 0
    <3> HIDE DEF g
    <3> QED  BY <2>1
  <2>4. (0 * w) \div 8 = 0
    <3> HIDE DEF w
    <3> QED  BY <2>1
  <2>5. [j \in 1..0 |-> Octet(body', w, j)] = <<>>
    <3> HIDE DEF w
    <3> DEFINE f == [j \in 1..0 |-> Octet(body', w, j)]
    <3>1. f \in Seq(Int) /\ Len(f) = 0
      OBVIOUS
    <3> HIDE DEF f
    <3>2. f = <<>>
      BY <3>1
    <3> QED  BY <3>2 DEF f
  <2>6. Alike(out, [j \in 1..((i * Width[encoding]) \div 8) |-> Octet(body, Width[encoding], j)])'
    <3>1. out' = [j \in 1..((i' * w) \div 8) |-> Octet(body', w, j)]
      BY <1>1, <2>4, <2>5, Zenon
    <3> QED  BY <3>1, Zenon DEF Alike
  <2> QED  BY <1>1, <2>2, <2>3, <2>6, Zenon DEF InData
<1>5. ReadAsOneString'
  <2>1. verdict' \notin {"ok", "error"}
    BY <1>1
  <2> QED  BY <2>1, Zenon DEF ReadAsOneString
<1> QED  BY <1>1, <1>2, <1>4, <1>5 DEF DecodeInv

LEMMA DecodeInitial ==
    ASSUME EncodeInit
    PROVE  DecodeInv
<1>1. encoding = "base32" /\ body = <<>> /\ i = 0 /\ out = <<>> /\ verdict = "none"
  BY DEF EncodeInit
<1>2. EncodeTypeOK
  <2>1. <<>> \in Seq(0..255) /\ Len(<<>>) = 0 /\ MaxSecret \in Nat
    BY EncodeAssumption
  <2> QED  BY <1>1, <2>1 DEF EncodeTypeOK, Encodings, Width
<1>3. body \in Seq(Int)
  BY <1>1
<1>4. ReadAsOneString
  BY <1>1, Zenon DEF ReadAsOneString
<1> QED  BY <1>1, <1>2, <1>3, <1>4 DEF DecodeInv

-----------------------------------------------------------------------------
(* "%06u" writes the digits of a token of six. *)
LEMMA SixDigits ==
    ASSUME NEW n \in Nat
    PROVE  /\ Len(Formatted(n)) = 6 /\ DOMAIN Formatted(n) = 1..6
           /\ Formatted(n)[1] = (n \div 10 ^ 5) % 10 /\ Formatted(n)[2] = (n \div 10 ^ 4) % 10
           /\ Formatted(n)[3] = (n \div 10 ^ 3) % 10 /\ Formatted(n)[4] = (n \div 10 ^ 2) % 10
           /\ Formatted(n)[5] = (n \div 10 ^ 1) % 10 /\ Formatted(n)[6] = n % 10
           /\ \A k \in 1..6 : Formatted(n)[k] \in 0..9
<1> DEFINE f == Formatted(n)
           e(k) == (n \div 10 ^ (6 - k)) % 10
<1>1. f = [k \in 1..6 |-> e(k)]
  BY Zenon DEF Formatted
<1> HIDE DEF e, f
<1>2. /\ Len(f) = 6 /\ DOMAIN f = 1..6
      /\ f[1] = e(1) /\ f[2] = e(2) /\ f[3] = e(3) /\ f[4] = e(4) /\ f[5] = e(5) /\ f[6] = e(6)
  BY <1>1
<1>3. 6 - 1 = 5 /\ 6 - 2 = 4 /\ 6 - 3 = 3 /\ 6 - 4 = 2 /\ 6 - 5 = 1 /\ 6 - 6 = 0
  OBVIOUS
<1>4. /\ e(1) = (n \div 10 ^ 5) % 10 /\ e(2) = (n \div 10 ^ 4) % 10 /\ e(3) = (n \div 10 ^ 3) % 10
      /\ e(4) = (n \div 10 ^ 2) % 10 /\ e(5) = (n \div 10 ^ 1) % 10 /\ e(6) = (n \div 1) % 10
  <2>1. /\ e(1) = (n \div 10 ^ 5) % 10 /\ e(2) = (n \div 10 ^ 4) % 10
        /\ e(3) = (n \div 10 ^ 3) % 10 /\ e(4) = (n \div 10 ^ 2) % 10
        /\ e(5) = (n \div 10 ^ 1) % 10 /\ e(6) = (n \div 10 ^ 0) % 10
    BY <1>3, Zenon DEF e
  <2>2. n \div 10 ^ 0 = n \div 1
    BY SMT
  <2> QED  BY <2>1, <2>2, Zenon
<1>5. n \div 1 = n
  OBVIOUS
<1>6. /\ e(1) \in 0..9 /\ e(2) \in 0..9 /\ e(3) \in 0..9
      /\ e(4) \in 0..9 /\ e(5) \in 0..9 /\ e(6) \in 0..9
  BY <1>4, SMT
<1>7. ASSUME NEW k \in 1..6 PROVE f[k] \in 0..9
  <2>1. k \in {1, 2, 3, 4, 5, 6}
    OBVIOUS
  <2> QED  BY <1>2, <1>6, <2>1
<1> QED  BY <1>2, <1>4, <1>5, <1>7 DEF f

(* The daemon's reading of six digits. *)
LEMMA ReadsSix ==
    ASSUME NEW d, Len(d) = 6, DOMAIN d = 1..6, \A k \in 1..6 : d[k] \in 0..9
    PROVE  auth_parse(d)
             = ((((d[1] * 10 + d[2]) * 10 + d[3]) * 10 + d[4]) * 10 + d[5]) * 10 + d[6]
<1> DEFINE t[k \in 0..Len(d)] == IF k = 0 THEN 0 ELSE t[k - 1] * 10 + d[k]
<1>1. /\ d[1] \in 0..9 /\ d[2] \in 0..9 /\ d[3] \in 0..9
      /\ d[4] \in 0..9 /\ d[5] \in 0..9 /\ d[6] \in 0..9
  OBVIOUS
<1>2. auth_parse(d) = t[Len(d)]
  <2>1. Len(d) \in MinTokenDigits..MaxTokenDigits /\ \A k \in DOMAIN d : d[k] \in 0..9
    BY DEF MinTokenDigits, MaxTokenDigits
  <2> QED  BY <2>1, Zenon DEF auth_parse
<1> DEFINE T(g, x) == IF x = 0 THEN 0 ELSE g[x - 1] * 10 + d[x]
           h(x) == IF x = 0 THEN 0 ELSE IF x = 1 THEN d[1]
                   ELSE IF x = 2 THEN d[1] * 10 + d[2]
                   ELSE IF x = 3 THEN (d[1] * 10 + d[2]) * 10 + d[3]
                   ELSE IF x = 4 THEN ((d[1] * 10 + d[2]) * 10 + d[3]) * 10 + d[4]
                   ELSE IF x = 5 THEN (((d[1] * 10 + d[2]) * 10 + d[3]) * 10 + d[4]) * 10 + d[5]
                   ELSE ((((d[1] * 10 + d[2]) * 10 + d[3]) * 10 + d[4]) * 10 + d[5]) * 10 + d[6]
           H == [x \in 0..6 |-> h(x)]
<1>3. H = [x \in 0..6 |-> IF x = 0 THEN 0 ELSE H[x - 1] * 10 + d[x]]
  <2>1. ASSUME NEW x \in 0..6 PROVE h(x) = IF x = 0 THEN 0 ELSE H[x - 1] * 10 + d[x]
    <3>1. x \in {0, 1, 2, 3, 4, 5, 6}
      OBVIOUS
    <3>2. x # 0 => x - 1 \in 0..6 /\ H[x - 1] = h(x - 1)
      BY <3>1
    <3>3. x # 0 => h(x) = h(x - 1) * 10 + d[x]
      BY <1>1, <3>1
    <3> QED  BY <3>1, <3>2, <3>3
  <2> HIDE DEF h
  <2> QED  BY <2>1
<1>4. \E g : g = [x \in 0..Len(d) |-> IF x = 0 THEN 0 ELSE g[x - 1] * 10 + d[x]]
  BY <1>3
<1>5. t = [x \in 0..Len(d) |-> IF x = 0 THEN 0 ELSE t[x - 1] * 10 + d[x]]
  <2>1. t = CHOOSE g : g = [x \in 0..Len(d) |-> IF x = 0 THEN 0 ELSE g[x - 1] * 10 + d[x]]
    BY Zenon
  <2> HIDE DEF t
  <2> QED  BY <1>4, <2>1, Zenon
<1> HIDE DEF t, H
<1>6. /\ t[0] = 0 /\ t[1] = t[0] * 10 + d[1] /\ t[2] = t[1] * 10 + d[2]
      /\ t[3] = t[2] * 10 + d[3] /\ t[4] = t[3] * 10 + d[4] /\ t[5] = t[4] * 10 + d[5]
      /\ t[6] = t[5] * 10 + d[6]
  <2>1. \A x \in 0..6 : t[x] = IF x = 0 THEN 0 ELSE t[x - 1] * 10 + d[x]
    BY <1>5
  <2> QED  BY <2>1
<1> QED  BY <1>1, <1>2, <1>6

LEMMA ReadsToken ==
    ASSUME NEW n \in Nat, n < 10 ^ 6
    PROVE  auth_parse(Formatted(n)) = n
<1> DEFINE f == Formatted(n)
           a == n \div 10 ^ 1
           b == n \div 10 ^ 2
           c == n \div 10 ^ 3
           d == n \div 10 ^ 4
           e == n \div 10 ^ 5
<1>1. /\ Len(f) = 6 /\ DOMAIN f = 1..6 /\ \A k \in 1..6 : f[k] \in 0..9
      /\ f[1] = e % 10 /\ f[2] = d % 10 /\ f[3] = c % 10
      /\ f[4] = b % 10 /\ f[5] = a % 10 /\ f[6] = n % 10
  BY SixDigits
<1>2. auth_parse(f)
        = ((((f[1] * 10 + f[2]) * 10 + f[3]) * 10 + f[4]) * 10 + f[5]) * 10 + f[6]
  <2> HIDE DEF f
  <2> QED  BY <1>1, ReadsSix
<1>3. /\ n = 10 * a + (n % 10) /\ a = 10 * b + (a % 10) /\ b = 10 * c + (b % 10)
      /\ c = 10 * d + (c % 10) /\ d = 10 * e + (d % 10) /\ e = e % 10
      /\ a \in Nat /\ b \in Nat /\ c \in Nat /\ d \in Nat /\ e \in Nat
  <2>1. a \in Nat /\ b \in Nat /\ c \in Nat /\ d \in Nat /\ e \in Nat
    BY SMT
  <2>2. n = 10 * a + (n % 10)
    BY SMT
  <2>3. a = 10 * b + (a % 10)
    BY SMT
  <2>4. b = 10 * c + (b % 10)
    BY SMT
  <2>5. c = 10 * d + (c % 10)
    BY SMT
  <2>6. d = 10 * e + (d % 10)
    BY SMT
  <2>7. e = e % 10
    BY SMT
  <2> QED  BY <2>1, <2>2, <2>3, <2>4, <2>5, <2>6, <2>7, Zenon
<1> HIDE DEF a, b, c, d, e, f
<1>4. auth_parse(f) = n
  <2>1. /\ n = 10 * a + f[6] /\ a = 10 * b + f[5] /\ b = 10 * c + f[4]
        /\ c = 10 * d + f[3] /\ d = 10 * e + f[2] /\ e = f[1]
    BY <1>1, <1>3, Zenon
  <2>2. /\ f[1] \in Nat /\ f[2] \in Nat /\ f[3] \in Nat
        /\ f[4] \in Nat /\ f[5] \in Nat /\ f[6] \in Nat
    BY <1>1
  <2> QED  BY <1>2, <1>3, <2>1, <2>2
<1> QED  BY <1>4 DEF f

-----------------------------------------------------------------------------
(* hotp's truncation is a number, and totp_generate keeps six digits. *)
LEMMA TokenType ==
    ASSUME NEW mac \in Macs
    PROVE  Truncated(mac) % 10 ^ TokenDigits \in 0..(10 ^ TokenDigits - 1)
<1> DEFINE o == mac[DigestLen] % Offsets
<1>1. /\ mac \in [1..DigestLen -> 0..255] /\ DigestLen \in Nat /\ Offsets \in Nat \ {0}
      /\ Offsets + 3 < DigestLen
  BY ClientAssumption, HmacAssumption
<1>2. o \in 0..(Offsets - 1)
  <2> DEFINE v == mac[DigestLen]
  <2>1. v \in Nat
    <3>1. DigestLen \in 1..DigestLen
      BY <1>1
    <3>2. v \in 0..255
      BY <1>1, <3>1
    <3> QED  BY <3>2
  <2> HIDE DEF v
  <2>2. v % Offsets \in 0..(Offsets - 1)
    BY <1>1, <2>1
  <2> QED  BY <2>2 DEF v
<1>3. Truncated(mac) = (mac[o + 1] % 128) * 2 ^ 24 + mac[o + 2] * 2 ^ 16 + mac[o + 3] * 2 ^ 8
                           + mac[o + 4]
  BY Zenon DEF Truncated
<1> HIDE DEF o
<1>4. mac[o + 1] \in Nat /\ mac[o + 2] \in Nat /\ mac[o + 3] \in Nat /\ mac[o + 4] \in Nat
  <2>1. /\ o + 1 \in 1..DigestLen /\ o + 2 \in 1..DigestLen /\ o + 3 \in 1..DigestLen
        /\ o + 4 \in 1..DigestLen
    <3>1. /\ DigestLen \in Nat /\ Offsets \in Nat /\ Offsets + 3 < DigestLen
          /\ o \in Nat /\ o <= Offsets - 1
      BY <1>1, <1>2
    <3> QED  BY <3>1
  <2>2. ASSUME NEW k \in 1..DigestLen PROVE mac[k] \in Nat
    <3>1. mac[k] \in 0..255
      BY <1>1
    <3> QED  BY <3>1
  <2> QED  BY <2>1, <2>2
<1> DEFINE a == 2 ^ 24
           b == 2 ^ 16
           c == 2 ^ 8
           m == 10 ^ 6
           r == Truncated(mac)
<1>5. a \in Nat /\ b \in Nat /\ c \in Nat /\ m \in Nat \ {0}
  BY SMT
<1>6. m = 10 ^ TokenDigits
  BY Zenon DEF TokenDigits
<1>7. r = (mac[o + 1] % 128) * a + mac[o + 2] * b + mac[o + 3] * c + mac[o + 4]
  BY <1>3, Zenon
<1> HIDE DEF a, b, c, m, r
<1>8. r \in Int
  BY <1>4, <1>5, <1>7
<1>9. r % m \in 0..(m - 1)
  BY <1>5, <1>8
<1> QED  BY <1>6, <1>9, Zenon DEF r

LEMMA TokenBound ==
    ASSUME NEW n \in 0..(10 ^ TokenDigits - 1)
    PROVE  n \in Nat /\ n < 10 ^ 6
<1> DEFINE m == 10 ^ 6
<1>1. m \in Nat /\ n \in 0..(m - 1)
  <2>1. m \in Nat
    BY SMT
  <2>2. m = 10 ^ TokenDigits
    BY Zenon DEF TokenDigits
  <2> QED  BY <2>1, <2>2, Zenon
<1> HIDE DEF m
<1>2. n \in Nat /\ n < m
  BY <1>1
<1> QED  BY <1>2 DEF m

LEMMA Ports ==
    /\ DefaultPort \in 1..UINT16_MAX
    /\ \A val \in Int : val \in 1..UINT16_MAX => val % (UINT16_MAX + 1) = val
<1>1. DefaultPort \in 1..UINT16_MAX
  BY SMT DEF DefaultPort, UINT16_MAX
<1>2. UINT16_MAX \in Nat
  BY SMT DEF UINT16_MAX
<1>3. ASSUME NEW val \in Int, val \in 1..UINT16_MAX PROVE val % (UINT16_MAX + 1) = val
  BY <1>2, <1>3
<1> QED  BY <1>1, <1>3

-----------------------------------------------------------------------------
(* A text that ends with a colon and one thing more. *)
LEMMA ColonWritten ==
    ASSUME NEW S, NEW s \in Seq(S), NEW k \in 1..Len(s)
    PROVE  s[k] = ":" /\ Len(s) = k + 1 => s = Before(s, k) \o <<":", s[k + 1]>>
<1> SUFFICES ASSUME s[k] = ":", Len(s) = k + 1
             PROVE  s = Before(s, k) \o <<":", s[k + 1]>>
  OBVIOUS
<1> DEFINE h == Before(s, k)
           e == <<":", s[k + 1]>>
<1>1. h \in Seq(S) /\ Len(h) = k - 1 /\ \A j \in 1..(k - 1) : h[j] = s[j]
  BY DEF Before
<1>2. e \in Seq(S) /\ Len(e) = 2 /\ e[1] = ":" /\ e[2] = s[k + 1]
  OBVIOUS
<1> HIDE DEF h, e
<1> DEFINE x == h \o e
<1>3. /\ x \in Seq(S) /\ Len(x) = Len(h) + Len(e)
      /\ \A j \in 1..Len(h) : x[j] = h[j]
      /\ \A j \in 1..Len(e) : x[Len(h) + j] = e[j]
  <2>1. h \in Seq(S)
    BY <1>1
  <2>2. e \in Seq(S)
    BY <1>2
  <2> QED  BY <2>1, <2>2, CatFacts
<1> HIDE DEF x
<1>4. Len(s) \in Nat /\ k \in Nat /\ k >= 1 /\ Len(s) = k + 1
  OBVIOUS
<1>5. x[(k - 1) + 1] = ":" /\ x[(k - 1) + 2] = s[k + 1]
  BY <1>1, <1>2, <1>3
<1>6. ASSUME NEW j \in 1..Len(x) PROVE x[j] = s[j]
  <2>1. j \in 1..(k - 1) \/ j = (k - 1) + 1 \/ j = (k - 1) + 2
    BY <1>1, <1>2, <1>3, <1>4
  <2>2. (k - 1) + 1 = k /\ (k - 1) + 2 = k + 1
    BY <1>4
  <2> QED  BY <1>1, <1>3, <1>5, <2>1, <2>2
<1>7. Len(x) = Len(s)
  BY <1>1, <1>2, <1>3, <1>4
<1>8. x = s
  BY <1>3, <1>6, <1>7, SameSeq
<1> QED  BY <1>8 DEF x, h, e

LEMMA BracketWritten ==
    ASSUME NEW S, NEW s \in Seq(S), NEW k \in 2..Len(s)
    PROVE  s[1] = "[" /\ s[k] = "]" /\ Len(s) = k + 2 /\ s[k + 1] = ":" =>
             s = <<"[">> \o SubSeq(s, 2, k - 1) \o <<"]", ":", s[k + 2]>>
<1> SUFFICES ASSUME s[1] = "[", s[k] = "]", Len(s) = k + 2, s[k + 1] = ":"
             PROVE  s = <<"[">> \o SubSeq(s, 2, k - 1) \o <<"]", ":", s[k + 2]>>
  OBVIOUS
<1> DEFINE o == <<"[">>
           h == SubSeq(s, 2, k - 1)
           e == <<"]", ":", s[k + 2]>>
<1>1. h \in Seq(S) /\ Len(h) = k - 2 /\ \A j \in 1..(k - 2) : h[j] = s[1 + j]
  <2>1. 1 \in Nat /\ k - 1 \in Nat /\ 1 <= k - 1 /\ k - 1 <= Len(s)
    OBVIOUS
  <2> DEFINE z == SubSeq(s, 1 + 1, k - 1)
  <2>2. z \in Seq(S) /\ Len(z) = (k - 1) - 1 /\ \A j \in 1..((k - 1) - 1) : z[j] = s[1 + j]
    BY <2>1, PartFacts
  <2>3. h = z /\ (k - 1) - 1 = k - 2
    OBVIOUS
  <2> HIDE DEF h, z
  <2> QED  BY <2>2, <2>3
<1>2. /\ e \in Seq(S) /\ Len(e) = 3 /\ e[1] = "]" /\ e[2] = ":" /\ e[3] = s[k + 2]
      /\ o \in Seq(S) /\ Len(o) = 1 /\ o[1] = "["
  OBVIOUS
<1> HIDE DEF h, e, o
<1> DEFINE p == o \o h
<1>3. /\ p \in Seq(S) /\ Len(p) = Len(o) + Len(h)
      /\ \A j \in 1..Len(o) : p[j] = o[j]
      /\ \A j \in 1..Len(h) : p[Len(o) + j] = h[j]
  <2>1. o \in Seq(S)
    BY <1>2
  <2>2. h \in Seq(S)
    BY <1>1
  <2> QED  BY <2>1, <2>2, CatFacts
<1> HIDE DEF p
<1> DEFINE x == p \o e
<1>4. /\ x \in Seq(S) /\ Len(x) = Len(p) + Len(e)
      /\ \A j \in 1..Len(p) : x[j] = p[j]
      /\ \A j \in 1..Len(e) : x[Len(p) + j] = e[j]
  <2>1. p \in Seq(S)
    BY <1>3
  <2>2. e \in Seq(S)
    BY <1>2
  <2> QED  BY <2>1, <2>2, CatFacts
<1> HIDE DEF x
<1>5. k \in Nat /\ k >= 2 /\ Len(s) = k + 2 /\ Len(p) = k - 1
  BY <1>1, <1>2, <1>3
<1>6. ASSUME NEW j \in 1..(k - 1) PROVE x[j] = s[j]
  <2>1. x[j] = p[j]
    BY <1>4, <1>5
  <2>2. CASE j = 1
    BY <1>2, <1>3, <2>1, <2>2
  <2>3. CASE j # 1
    <3>1. j - 1 \in 1..(k - 2) /\ 1 + (j - 1) = j
      BY <1>5, <2>3
    <3>2. p[1 + (j - 1)] = h[j - 1] /\ h[j - 1] = s[1 + (j - 1)]
      BY <1>1, <1>2, <1>3, <3>1
    <3> QED  BY <2>1, <3>1, <3>2
  <2> QED  BY <2>2, <2>3
<1>7. x[(k - 1) + 1] = "]" /\ x[(k - 1) + 2] = ":" /\ x[(k - 1) + 3] = s[k + 2]
  BY <1>2, <1>4, <1>5
<1>8. ASSUME NEW j \in 1..Len(x) PROVE x[j] = s[j]
  <2>1. j \in 1..(k - 1) \/ j = (k - 1) + 1 \/ j = (k - 1) + 2 \/ j = (k - 1) + 3
    BY <1>2, <1>4, <1>5
  <2>2. (k - 1) + 1 = k /\ (k - 1) + 2 = k + 1 /\ (k - 1) + 3 = k + 2
    BY <1>5
  <2> QED  BY <1>6, <1>7, <2>1, <2>2
<1>9. Len(x) = Len(s)
  BY <1>2, <1>4, <1>5
<1>10. x = s
  BY <1>4, <1>8, <1>9, SameSeq
<1> QED  BY <1>10 DEF x, p, o, h, e

(* What parse_host_port finds in a text is how the text was written. *)
LEMMA HostAndPort ==
    ASSUME NEW S, NEW s \in Seq(S), NEW hp \in parse_host_port(s)
    PROVE  /\ PortNumber(hp[2]) \in 1..UINT16_MAX
           /\ \E n \in DOMAIN Numerals : Written(s, hp[1], n) /\ PortNumber(hp[2]) = Numerals[n]
<1> DEFINE n == hp[2][1]
<1>1. /\ PortNumber(hp[2]) # 0
      /\ hp \in IF s # <<>> /\ s[1] = "[" THEN AtBracket(s) ELSE AtOnlyColon(s)
  BY DEF parse_host_port
<1>2. /\ Len(hp[2]) = 1 /\ n \in DOMAIN Numerals /\ Numerals[n] \in 1..UINT16_MAX
      /\ PortNumber(hp[2]) = Numerals[n]
  BY <1>1, Zenon DEF PortNumber
<1>3. Written(s, hp[1], n)
  <2>1. CASE s # <<>> /\ s[1] = "["
    <3>1. PICK k \in At(s, "]") : /\ k < Len(s) /\ s[k + 1] = ":"
                                  /\ hp = <<SubSeq(s, 2, k - 1), After(s, k + 1)>>
      <4>1. hp \in AtBracket(s)
        BY <1>1, <2>1
      <4> QED  BY <4>1, Zenon DEF AtBracket
    <3>2. k \in 1..Len(s) /\ s[k] = "]" /\ k # 1 /\ k \in 2..Len(s)
      BY <2>1, <3>1 DEF At
    <3>3. hp[2] = After(s, k + 1) /\ hp[1] = SubSeq(s, 2, k - 1)
      BY <3>1
    <3>4. Len(s) = k + 2 /\ n = s[k + 2]
      <4> DEFINE z == SubSeq(s, k + 2, Len(s))
      <4>1. After(s, k + 1) = z
        <5>1. (k + 1) + 1 = k + 2
          BY <3>2
        <5> QED  BY <5>1, Zenon DEF After
      <4>2. Len(z) = Len(s) - (k + 1) /\ (Len(z) = 1 => z[1] = s[(k + 1) + 1])
        <5>1. k + 1 \in Nat /\ Len(s) \in Nat /\ k + 1 <= Len(s) /\ (k + 1) + 1 = k + 2
          BY <3>1, <3>2
        <5>2. /\ Len(SubSeq(s, (k + 1) + 1, Len(s))) = Len(s) - (k + 1)
              /\ \A l \in 1..(Len(s) - (k + 1)) : SubSeq(s, (k + 1) + 1, Len(s))[l] = s[(k + 1) + l]
          BY <5>1, PartFacts
        <5>3. z = SubSeq(s, (k + 1) + 1, Len(s))
          BY <5>1, Zenon
        <5>4. Len(z) = Len(s) - (k + 1) /\ \A l \in 1..(Len(s) - (k + 1)) : z[l] = s[(k + 1) + l]
          BY <5>2, <5>3, Zenon
        <5> HIDE DEF z
        <5> QED  BY <5>1, <5>4
      <4>3. Len(z) = 1 /\ n = z[1]
        BY <1>2, <3>3, <4>1
      <4> HIDE DEF z, n
      <4>4. k \in Nat /\ Len(s) \in Nat
        BY <3>2
      <4>5. Len(s) - (k + 1) = 1 /\ z[1] = s[(k + 1) + 1]
        BY <4>2, <4>3
      <4>6. (k + 1) + 1 = k + 2 /\ Len(s) = k + 2
        <5> DEFINE l == Len(s)
        <5>1. k \in Nat /\ l \in Nat /\ l - (k + 1) = 1
          BY <4>4, <4>5
        <5> HIDE DEF l
        <5>2. (k + 1) + 1 = k + 2 /\ l = k + 2
          BY <5>1
        <5> QED  BY <5>2 DEF l
      <4> QED  BY <4>3, <4>5, <4>6
    <3>5. s = <<"[">> \o SubSeq(s, 2, k - 1) \o <<"]", ":", s[k + 2]>>
      BY <2>1, <3>1, <3>2, <3>4, BracketWritten
    <3> HIDE DEF n
    <3> QED  BY <3>3, <3>4, <3>5, Zenon DEF Written
  <2>2. CASE ~(s # <<>> /\ s[1] = "[")
    <3>1. PICK k \in At(s, ":") : At(s, ":") = {k} /\ hp = <<Before(s, k), After(s, k)>>
      <4>1. hp \in AtOnlyColon(s)
        BY <1>1, <2>2
      <4> QED  BY <4>1, Zenon DEF AtOnlyColon
    <3>2. k \in 1..Len(s) /\ s[k] = ":"
      BY <3>1 DEF At
    <3>3. hp[2] = After(s, k) /\ hp[1] = Before(s, k)
      BY <3>1
    <3>4. Len(s) = k + 1 /\ n = s[k + 1]
      <4> DEFINE z == SubSeq(s, k + 1, Len(s))
      <4>1. After(s, k) = z
        BY DEF After
      <4>2. Len(z) = Len(s) - k /\ (Len(z) = 1 => z[1] = s[k + 1])
        <5>1. k \in Nat /\ Len(s) \in Nat /\ k <= Len(s)
          BY <3>2
        <5>2. Len(z) = Len(s) - k /\ \A l \in 1..(Len(s) - k) : z[l] = s[k + l]
          BY <5>1, PartFacts
        <5> HIDE DEF z
        <5> QED  BY <5>1, <5>2
      <4>3. Len(z) = 1 /\ n = z[1]
        BY <1>2, <3>3, <4>1
      <4> HIDE DEF z, n
      <4>4. k \in Nat /\ Len(s) \in Nat
        BY <3>2
      <4>5. Len(s) - k = 1 /\ z[1] = s[k + 1]
        BY <4>2, <4>3
      <4>6. Len(s) = k + 1
        BY <4>4, <4>5
      <4> QED  BY <4>3, <4>5, <4>6
    <3>5. s = Before(s, k) \o <<":", s[k + 1]>>
      BY <3>2, <3>4, ColonWritten
    <3>6. At(Before(s, k), ":") = {}
      <4>1. DOMAIN Before(s, k) = 1..(k - 1) /\ \A j \in 1..(k - 1) : Before(s, k)[j] = s[j]
        BY <3>2 DEF Before
      <4>2. ASSUME NEW j \in At(Before(s, k), ":") PROVE FALSE
        <5>1. j \in 1..(k - 1) /\ s[j] = ":" /\ j \in DOMAIN s
          BY <3>2, <4>1, <4>2 DEF At
        <5>2. j \in At(s, ":")
          BY <5>1 DEF At
        <5> QED  BY <3>1, <3>2, <5>1, <5>2
      <4> QED  BY <4>2
    <3> HIDE DEF n
    <3> QED  BY <3>3, <3>4, <3>5, <3>6, Zenon DEF Written
  <2> QED  BY <2>1, <2>2
<1> HIDE DEF n
<1> QED  BY <1>2, <1>3

-----------------------------------------------------------------------------
(* Before the datagram is sent there is none. *)
LEMMA NotYetSent ==
    ASSUME DatagramOfToken, step \notin {"sent", "exit"}
    PROVE  sent = NoDatagram
BY DEF DatagramOfToken

(* What an action that leaves decoder, token and datagram alone keeps. *)
LEMMA CfgStep ==
    ASSUME ClientInv, UNCHANGED <<tokenVars, sent, parsed, decodeVars>>,
           step \in {"options", "decode"}, step' \in {"options", "decode", "token", "exit"},
           port' \in 1..UINT16_MAX, argc' \in 0..MaxArgs, CfgAsAsked'
    PROVE  ClientInv'
<1>1. counter' = counter /\ hashed' = hashed /\ token' = token /\ sent' = sent /\ out' = out
  BY DEF tokenVars, decodeVars
<1>2. DecodeInv'
  BY DecodeSame DEF ClientInv
<1>3. ClientTypeOK'
  BY <1>1, <1>2 DEF ClientInv, ClientTypeOK, DecodeInv
<1>4. hashed' = NoHash
  BY <1>1 DEF ClientInv, HashOfSecret
<1>5. sent' = NoDatagram
  BY <1>1, NotYetSent DEF ClientInv
<1> QED  BY <1>2, <1>3, <1>4, <1>5, Zenon DEF ClientInv, HashOfSecret, DatagramOfToken

(* What an action of the decoder keeps. *)
LEMMA DecoderStep ==
    ASSUME ClientInv, UNCHANGED <<cfgVars, tokenVars, sent, parsed>>, DecodeInv',
           step \in {"options", "decode"}, step' = "decode", argc' \in 0..MaxArgs
    PROVE  ClientInv'
<1>1. /\ hashed' = hashed /\ token' = token /\ sent' = sent
      /\ port' = port /\ opted' = opted
  BY DEF tokenVars, cfgVars
<1>2. ClientTypeOK'
  BY <1>1 DEF ClientInv, ClientTypeOK, DecodeInv
<1>3. CfgAsAsked'
  BY <1>1 DEF ClientInv, CfgAsAsked
<1>4. hashed' = NoHash
  BY <1>1 DEF ClientInv, HashOfSecret
<1>5. sent' = NoDatagram
  BY <1>1, NotYetSent DEF ClientInv
<1> QED  BY <1>2, <1>3, <1>4, <1>5, Zenon DEF ClientInv, HashOfSecret, DatagramOfToken

LEMMA AddressedSame ==
    ASSUME UNCHANGED cfgVars
    PROVE  Addressed' = Addressed
<1>1. text' = text /\ server' = server /\ port' = port /\ opted' = opted
  BY DEF cfgVars
<1> QED  BY <1>1, Zenon DEF Addressed

(* What an action that leaves decoder and configuration alone keeps. *)
LEMMA TokenStep ==
    ASSUME ClientInv, UNCHANGED <<argc, cfgVars, decodeVars>>,
           step \in {"token", "resolve", "send", "sent"},
           step' \in {"resolve", "send", "sent", "exit"}, step = "sent" => step' = "exit",
           token' \in 0..(10 ^ TokenDigits - 1), HashOfSecret', DatagramOfToken'
    PROVE  ClientInv'
<1>1. argc' = argc /\ port' = port
  BY DEF cfgVars
<1>2. DecodeInv'
  BY DecodeSame DEF ClientInv
<1>3. ClientTypeOK'
  BY <1>1, <1>2 DEF ClientInv, ClientTypeOK, DecodeInv
<1>4. CfgAsAsked'
  <2>1. step' \in {"token", "resolve", "send"} => step \in {"token", "resolve", "send"}
    OBVIOUS
  <2> QED  BY <2>1, AddressedSame DEF ClientInv, CfgAsAsked
<1> QED  BY <1>2, <1>3, <1>4 DEF ClientInv

LEMMA HashKept ==
    ASSUME HashOfSecret, UNCHANGED <<tokenVars, decodeVars>>,
           step' \notin {"options", "decode", "token"}
    PROVE  HashOfSecret'
<1>1. hashed' = hashed /\ counter' = counter /\ out' = out
  BY DEF tokenVars, decodeVars
<1> QED  BY <1>1, Zenon DEF HashOfSecret

-----------------------------------------------------------------------------
(* Every action of the client. *)
LEMMA PortOpt ==
    ASSUME ClientInv, NEW val \in Longs, handle_port_opt(val)
    PROVE  ClientInv'
<1>1. /\ step = "options" /\ argc \in 0..MaxArgs /\ argc < MaxArgs /\ argc' = argc + 1
      /\ port = opted /\ port \in 1..UINT16_MAX /\ UNCHANGED <<tokenVars, sent, parsed, decodeVars>>
      /\ val \in Int /\ MaxArgs \in Nat
  BY ClientAssumption DEF handle_port_opt, ParsingOption, ClientInv, ClientTypeOK, CfgAsAsked
<1>2. argc' \in 0..MaxArgs
  BY <1>1
<1>3. CASE val \in 1..UINT16_MAX
  <2>1. port' = val % (UINT16_MAX + 1) /\ opted' = val /\ step' = step
    BY <1>3 DEF handle_port_opt
  <2>2. port' = val /\ port' \in 1..UINT16_MAX
    BY <1>1, <1>3, <2>1, Ports
  <2>3. CfgAsAsked'
    BY <1>1, <2>1, <2>2 DEF CfgAsAsked
  <2> QED  BY <1>1, <1>2, <2>1, <2>2, <2>3, CfgStep
<1>4. CASE val \notin 1..UINT16_MAX
  <2>1. step' = "exit" /\ port' = port
    BY <1>4 DEF handle_port_opt, Exit, cfgVars
  <2>2. CfgAsAsked'
    BY <2>1 DEF CfgAsAsked
  <2> QED  BY <1>1, <1>2, <2>1, <2>2, CfgStep
<1> QED  BY <1>3, <1>4

LEMMA SecretOpt ==
    ASSUME ClientInv, NEW t \in Texts, handle_secret_opt(t)
    PROVE  ClientInv'
<1>1. /\ step = "options" /\ argc \in 0..MaxArgs /\ argc < MaxArgs /\ argc' = argc + 1
      /\ step' = "decode" /\ UNCHANGED <<cfgVars, tokenVars, sent, parsed>> /\ MaxArgs \in Nat
      /\ secret_decode(t) /\ EncodeTypeOK /\ t.encoding \in Encodings /\ t.body \in Seq(Int)
  BY ClientAssumption DEF handle_secret_opt, ParsingOption, ClientInv, ClientTypeOK
<1>2. argc' \in 0..MaxArgs
  BY <1>1
<1>3. DecodeInv'
  BY <1>1, DecodeStart
<1> QED  BY <1>1, <1>2, <1>3, DecoderStep

LEMMA DecodeStep ==
    ASSUME ClientInv, DecodeSecret
    PROVE  ClientInv'
<1>1. /\ step = "decode" /\ EncodeNext /\ DecodeInv /\ argc \in 0..MaxArgs
      /\ step' = step /\ argc' = argc /\ UNCHANGED <<cfgVars, tokenVars, sent, parsed>>
  BY DEF DecodeSecret, ClientInv, ClientTypeOK
<1>2. DecodeInv'
  BY <1>1, HexStep, BaseStep, EndStep DEF EncodeNext
<1> QED  BY <1>1, <1>2, DecoderStep

LEMMA DecodedStep ==
    ASSUME ClientInv, SecretDecoded
    PROVE  ClientInv'
<1>1. /\ step = "decode" /\ port = opted /\ port \in 1..UINT16_MAX /\ argc \in 0..MaxArgs
      /\ argc' = argc /\ UNCHANGED <<tokenVars, sent, parsed, decodeVars>>
      /\ port' = port /\ opted' = opted /\ step' \in {"options", "exit"}
  BY DEF SecretDecoded, Exit, cfgVars, ClientInv, ClientTypeOK, CfgAsAsked
<1>2. CfgAsAsked'
  BY <1>1 DEF CfgAsAsked
<1> QED  BY <1>1, <1>2, CfgStep

LEMMA OtherStep ==
    ASSUME ClientInv, OtherOpt
    PROVE  ClientInv'
<1>1. /\ step = "options" /\ argc \in 0..MaxArgs /\ argc < MaxArgs /\ argc' = argc + 1
      /\ step' = "exit" /\ port' = port /\ port \in 1..UINT16_MAX /\ MaxArgs \in Nat
      /\ UNCHANGED <<tokenVars, sent, parsed, decodeVars>>
  BY ClientAssumption DEF OtherOpt, ParsingOption, Exit, cfgVars, ClientInv, ClientTypeOK
<1>2. CfgAsAsked' /\ argc' \in 0..MaxArgs
  BY <1>1 DEF CfgAsAsked
<1> QED  BY <1>1, <1>2, CfgStep

LEMMA ServerStep ==
    ASSUME ClientInv, NEW s \in Servers, parse_server_arg(s)
    PROVE  ClientInv'
<1>1. /\ step = "options" /\ port = opted /\ port \in 1..UINT16_MAX
      /\ argc' = argc /\ argc \in 0..MaxArgs
      /\ UNCHANGED <<tokenVars, sent, parsed, decodeVars>> /\ s \in Seq(STRING)
  BY ClientAssumption DEF parse_server_arg, ClientInv, ClientTypeOK, CfgAsAsked
<1>2. CASE Exit
  <2>1. step' = "exit" /\ port' = port
    BY <1>2 DEF Exit, cfgVars
  <2>2. CfgAsAsked'
    BY <2>1 DEF CfgAsAsked
  <2> QED  BY <1>1, <2>1, <2>2, CfgStep
<1>3. CASE ~Exit
  <2>1. /\ step' = "token" /\ text' = s /\ opted' = opted
        /\ IF parse_host_port(s) = {} THEN server' = s /\ UNCHANGED port
           ELSE \E hp \in parse_host_port(s) : server' = hp[1] /\ port' = PortNumber(hp[2])
    BY <1>3 DEF parse_server_arg
  <2>2. port' \in 1..UINT16_MAX /\ Addressed'
    <3>1. CASE parse_host_port(s) = {}
      <4>1. server' = text' /\ port' = opted' /\ port' = port
        BY <1>1, <2>1, <3>1
      <4> QED  BY <1>1, <4>1, Zenon DEF Addressed
    <3>2. CASE parse_host_port(s) # {}
      <4>1. PICK hp \in parse_host_port(s) : server' = hp[1] /\ port' = PortNumber(hp[2])
        BY <2>1, <3>2
      <4>2. /\ PortNumber(hp[2]) \in 1..UINT16_MAX
            /\ \E n \in DOMAIN Numerals : Written(s, hp[1], n) /\ PortNumber(hp[2]) = Numerals[n]
        BY <1>1, HostAndPort
      <4>3. PICK n \in DOMAIN Numerals : Written(text', server', n) /\ port' = Numerals[n]
        BY <2>1, <4>1, <4>2, Zenon
      <4>4. Addressed'
        BY <4>3, Zenon DEF Addressed
      <4> QED  BY <4>1, <4>2, <4>4
    <3> QED  BY <3>1, <3>2
  <2>3. CfgAsAsked'
    BY <2>1, <2>2 DEF CfgAsAsked
  <2> QED  BY <1>1, <2>1, <2>2, <2>3, CfgStep
<1> QED  BY <1>2, <1>3

LEMMA GenerateStep ==
    ASSUME ClientInv, NEW c \in Counters, NEW mac \in Macs, totp_generate(c, mac)
    PROVE  ClientInv'
<1>1. /\ step = "token" /\ step' = "resolve" /\ counter' = c
      /\ hashed' = hmac_sha1(Bytes(out), BigEndian(c, CounterLen))
      /\ token' = Truncated(mac) % 10 ^ TokenDigits
      /\ UNCHANGED <<argc, cfgVars, decodeVars>> /\ sent' = sent /\ out' = out
  BY Zenon DEF totp_generate, decodeVars
<1>2. token' \in 0..(10 ^ TokenDigits - 1)
  BY <1>1, TokenType, Zenon
<1>3. HashOfSecret'
  <2>1. hashed' = hmac_sha1(Bytes(out'), BigEndian(counter', CounterLen))
    BY <1>1, Zenon
  <2>2. step' \notin {"options", "decode", "token"}
    BY <1>1
  <2> QED  BY <2>1, <2>2, Zenon DEF HashOfSecret
<1>4. DatagramOfToken'
  <2>1. sent' = NoDatagram
    BY <1>1, NotYetSent DEF ClientInv
  <2> QED  BY <2>1, Zenon DEF DatagramOfToken
<1> QED  BY <1>1, <1>2, <1>3, <1>4, TokenStep

LEMMA ResolveStep ==
    ASSUME ClientInv, Resolve
    PROVE  ClientInv'
<1>1. /\ step = "resolve" /\ step' \in {"send", "exit"}
      /\ UNCHANGED <<argc, cfgVars, decodeVars>> /\ UNCHANGED tokenVars
      /\ sent' = sent /\ token' = token /\ token \in 0..(10 ^ TokenDigits - 1)
  BY DEF Resolve, tokenVars, ClientInv, ClientTypeOK
<1>2. HashOfSecret'
  BY <1>1, HashKept DEF ClientInv
<1>3. DatagramOfToken'
  <2>1. sent' = NoDatagram
    BY <1>1, NotYetSent DEF ClientInv
  <2> QED  BY <2>1, Zenon DEF DatagramOfToken
<1> QED  BY <1>1, <1>2, <1>3, TokenStep

LEMMA SendStep ==
    ASSUME ClientInv, Send
    PROVE  ClientInv'
<1>1. /\ step = "send" /\ step' \in {"sent", "exit"}
      /\ UNCHANGED <<argc, cfgVars, decodeVars>> /\ UNCHANGED tokenVars
      /\ token' = token /\ token \in 0..(10 ^ TokenDigits - 1)
      /\ server' = server /\ port' = port
  BY DEF Send, tokenVars, cfgVars, ClientInv, ClientTypeOK
<1>2. HashOfSecret'
  BY <1>1, HashKept DEF ClientInv
<1>3. DatagramOfToken'
  <2>1. CASE step' = "sent" /\ sent' = [host |-> server, port |-> port, digits |-> Formatted(token)]
    <3>1. Addressed'
      BY <1>1, AddressedSame DEF ClientInv, CfgAsAsked
    <3>2. sent' = [host |-> server', port |-> port', digits |-> Formatted(token')]
      BY <1>1, <2>1, Zenon
    <3>3. step' \in {"sent", "exit"} /\ step' # "exit"
      BY <2>1
    <3> QED  BY <3>1, <3>2, <3>3, Zenon DEF DatagramOfToken
  <2>2. CASE sent' = sent
    <3>1. sent' = NoDatagram
      BY <1>1, <2>2, NotYetSent DEF ClientInv
    <3> QED  BY <3>1, Zenon DEF DatagramOfToken
  <2> QED  BY <2>1, <2>2 DEF Send
<1> QED  BY <1>1, <1>2, <1>3, TokenStep

LEMMA DeliverStep ==
    ASSUME ClientInv, Deliver
    PROVE  ClientInv'
<1>1. /\ step = "sent" /\ step' = "exit" /\ parsed' = auth_parse(sent.digits)
      /\ UNCHANGED <<argc, cfgVars, decodeVars>> /\ UNCHANGED tokenVars
      /\ token' = token /\ token \in 0..(10 ^ TokenDigits - 1)
      /\ server' = server /\ port' = port /\ sent' = sent
  BY DEF Deliver, tokenVars, cfgVars, ClientInv, ClientTypeOK
<1>2. HashOfSecret'
  BY <1>1, HashKept DEF ClientInv
<1>3. DatagramOfToken'
  <2>1. CASE sent = NoDatagram
    <3>1. sent' = NoDatagram
      BY <1>1, <2>1
    <3> QED  BY <3>1, Zenon DEF DatagramOfToken
  <2>2. CASE sent # NoDatagram
    <3>1. sent = [host |-> server, port |-> port, digits |-> Formatted(token)] /\ Addressed
      BY <2>2 DEF ClientInv, DatagramOfToken
    <3>2. sent.digits = Formatted(token)
      BY <3>1
    <3>3. auth_parse(Formatted(token)) = token
      BY <1>1, TokenBound, ReadsToken
    <3>4. parsed' = token'
      BY <1>1, <3>2, <3>3, Zenon
    <3>5. Addressed'
      BY <1>1, <3>1, AddressedSame
    <3>6. sent' = [host |-> server', port |-> port', digits |-> Formatted(token')]
      BY <1>1, <3>1, Zenon
    <3>7. step' \in {"sent", "exit"}
      BY <1>1
    <3> QED  BY <3>4, <3>5, <3>6, <3>7, Zenon DEF DatagramOfToken
  <2> QED  BY <2>1, <2>2
<1> QED  BY <1>1, <1>2, <1>3, TokenStep

-----------------------------------------------------------------------------
LEMMA ClientStarts ==
    ASSUME ClientInit
    PROVE  ClientInv
<1>1. /\ step = "options" /\ argc = 0 /\ port = DefaultPort /\ opted = DefaultPort
      /\ hashed = NoHash /\ token = 0 /\ sent = NoDatagram /\ EncodeInit
  BY DEF ClientInit
<1>2. DecodeInv
  BY <1>1, DecodeInitial
<1>3. ClientTypeOK
  <2>1. 0 \in 0..(10 ^ TokenDigits - 1)
    BY SMT DEF TokenDigits
  <2>2. 0 \in 0..MaxArgs
    BY ClientAssumption
  <2>3. port \in 1..UINT16_MAX
    BY <1>1, Ports
  <2> QED  BY <1>1, <1>2, <2>1, <2>2, <2>3 DEF ClientTypeOK, DecodeInv
<1>4. CfgAsAsked
  BY <1>1 DEF CfgAsAsked
<1>5. HashOfSecret
  BY <1>1, Zenon DEF HashOfSecret
<1>6. DatagramOfToken
  BY <1>1, Zenon DEF DatagramOfToken
<1> QED  BY <1>2, <1>3, <1>4, <1>5, <1>6 DEF ClientInv

LEMMA ClientRests ==
    ASSUME ClientInv, UNCHANGED clientVars
    PROVE  ClientInv'
<1>1. /\ step' = step /\ argc' = argc /\ UNCHANGED cfgVars /\ UNCHANGED <<tokenVars, decodeVars>>
      /\ sent' = sent /\ parsed' = parsed /\ UNCHANGED decodeVars
  BY DEF clientVars
<1>2. port' = port /\ server' = server /\ opted' = opted
  BY <1>1 DEF cfgVars
<1>3. counter' = counter /\ hashed' = hashed /\ token' = token /\ out' = out
  BY <1>1 DEF tokenVars, decodeVars
<1>4. DecodeInv'
  BY <1>1, DecodeSame DEF ClientInv
<1>5. Addressed' = Addressed
  BY <1>1, AddressedSame
<1>6. ClientTypeOK'
  BY <1>1, <1>2, <1>3, <1>4 DEF ClientInv, ClientTypeOK, DecodeInv
<1>7. CfgAsAsked'
  BY <1>1, <1>2, <1>5 DEF ClientInv, CfgAsAsked
<1>8. HashOfSecret'
  BY <1>1, <1>3, Zenon DEF ClientInv, HashOfSecret
<1>9. DatagramOfToken'
  BY <1>1, <1>2, <1>3, <1>5, Zenon DEF ClientInv, DatagramOfToken
<1> QED  BY <1>4, <1>6, <1>7, <1>8, <1>9 DEF ClientInv

(* The client keeps its inductive invariant: the decoder (hex_decode,      *)
(* base32_decode and base64_decode, src/encode.c) between two groups, the  *)
(* configuration (parse_args, src/client.c), the hash and the datagram.    *)
THEOREM ClientKeeps == ClientSpec => []ClientInv
<1>1. ClientInit => ClientInv
  BY ClientStarts
<1>2. ClientInv /\ [ClientNext]_clientVars => ClientInv'
  <2> SUFFICES ASSUME ClientInv, [ClientNext]_clientVars PROVE ClientInv'
    OBVIOUS
  <2>1. ASSUME NEW val \in Longs, handle_port_opt(val) PROVE ClientInv'
    BY <2>1, PortOpt
  <2>2. ASSUME NEW t \in Texts, handle_secret_opt(t) PROVE ClientInv'
    BY <2>2, SecretOpt
  <2>3. CASE DecodeSecret
    BY <2>3, DecodeStep
  <2>4. CASE SecretDecoded
    BY <2>4, DecodedStep
  <2>5. CASE OtherOpt
    BY <2>5, OtherStep
  <2>6. ASSUME NEW s \in Servers, parse_server_arg(s) PROVE ClientInv'
    BY <2>6, ServerStep
  <2>7. ASSUME NEW c \in Counters, NEW mac \in Macs, totp_generate(c, mac) PROVE ClientInv'
    BY <2>7, GenerateStep
  <2>8. CASE Resolve
    BY <2>8, ResolveStep
  <2>9. CASE Send
    BY <2>9, SendStep
  <2>10. CASE Deliver
    BY <2>10, DeliverStep
  <2>11. CASE UNCHANGED clientVars
    BY <2>11, ClientRests
  <2> QED
    BY <2>1, <2>2, <2>3, <2>4, <2>5, <2>6, <2>7, <2>8, <2>9, <2>10, <2>11, Zenon DEF ClientNext
<1> QED  BY <1>1, <1>2, PTL DEF ClientSpec

(* The decoded secret never leaves its buffer (secret_decode,              *)
(* src/encode.c), nor port and token their types.                          *)
THEOREM ClientTyped == ClientSpec => []ClientTypeOK
<1>1. ClientInv => ClientTypeOK
  BY DEF ClientInv
<1> QED  BY <1>1, ClientKeeps, PTL

(* secret_decode (src/encode.c) takes exactly the texts of its dialect     *)
(* that fit, of any length, and gives the bytes they mean as one string,   *)
(* but for the first of every base32 group where a long has 32 bits.       *)
THEOREM DecodesAsOneString == ClientSpec => []ReadAsOneString
<1>1. ClientInv => ReadAsOneString
  BY DEF ClientInv, DecodeInv
<1> QED  BY <1>1, ClientKeeps, PTL

(* Where a long has 64 bits, base32 secrets lose nothing in secret_decode  *)
(* (src/encode.c): what the run client_32bit refutes for 32 bits.          *)
THEOREM Base32Whole ==
    ASSUME LongBits = 64
    PROVE  ClientSpec => []Base32AsWritten
<1>1. ASSUME ClientInv PROVE Base32AsWritten
  <2>1. SUFFICES ASSUME verdict = "ok", encoding = "base32", ~PaddingInside PROVE out = Meaning
    BY Zenon DEF Base32AsWritten
  <2>2. DecodeInv
    BY <1>1 DEF ClientInv
  <2>3. out \in Seq(0..255) /\ body \in Seq(Int) /\ Alike(out, Meaning)
    BY <2>1, <2>2 DEF DecodeInv, EncodeTypeOK, ReadAsOneString
  <2>4. Len(out) = Len(Meaning) /\ \A j \in 1..Len(Meaning) : out[j] = Meaning[j]
    BY <2>3 DEF Alike, Survives
  <2> DEFINE S == {Octet(body, Width[encoding], j) : j \in Nat}
             T == S \cup 0..255
             n == (DataLen * Width[encoding]) \div 8
  <2>5. Meaning = Octets8(body, Width[encoding], n)
    <3>1. encoding \in Encodings
      BY <2>2 DEF DecodeInv, EncodeTypeOK
    <3>2. encoding = "hex" => DataLen % 2 = 0
      BY <2>1
    <3> QED  BY <2>3, <3>1, <3>2, MeaningFacts
  <2>6. n \in Nat
    <3>1. encoding \in Encodings
      BY <2>2 DEF DecodeInv, EncodeTypeOK
    <3>2. DataLen \in Nat
      BY <2>3, DataLenFacts
    <3> QED  BY <3>1, <3>2, MoreOctets
  <2>7. (\A v \in S : v \in T) /\ (\A v \in 0..255 : v \in T)
    BY Zenon
  <2>8. Meaning \in Seq(S)
    <3> HIDE DEF n
    <3>1. Octets8(body, Width[encoding], n) \in Seq(S)
      BY <2>6, Octets8Facts
    <3> QED  BY <2>5, <3>1, Zenon
  <2> HIDE DEF S, T
  <2>9. Meaning \in Seq(T)
    BY <2>7, <2>8, OfMore
  <2>10. out \in Seq(T)
    BY <2>3, <2>7, OfMore
  <2>11. \A j \in 1..Len(out) : out[j] = Meaning[j]
    BY <2>4
  <2> QED  BY <2>4, <2>9, <2>10, <2>11, SameSeq
<1>2. ClientInv => Base32AsWritten
  BY <1>1
<1> QED  BY <1>2, ClientKeeps, PTL

(* A key and a counter are octets. *)
LEMMA OfOctets ==
    ASSUME NEW s \in Seq(0..255), NEW n, NEW len \in Nat
    PROVE  \E V : Bytes(s) \in Seq(Octets(V)) /\ BigEndian(n, len) \in Seq(Octets(V))
<1> DEFINE v(k) == (n \div 256 ^ (len - k)) % 256
           V == (0..255) \cup {v(k) : k \in 1..len}
<1>1. Bytes(s) \in Seq(Octets(V))
  <2> DEFINE b(k) == Byte(s[k])
  <2>1. DOMAIN s = 1..Len(s) /\ Len(s) \in Nat
    OBVIOUS
  <2>2. Bytes(s) = [k \in 1..Len(s) |-> b(k)]
    BY <2>1, Zenon DEF Bytes
  <2>3. ASSUME NEW k \in 1..Len(s) PROVE b(k) \in Octets(V)
    <3>1. s[k] \in V
      <4>1. s[k] \in 0..255
        BY ElementOfSeq
      <4> HIDE DEF v
      <4> QED  BY <4>1, Zenon
    <3> HIDE DEF V
    <3> QED  BY <3>1, Zenon DEF Octets
  <2> HIDE DEF b, V
  <2> QED  BY <2>1, <2>2, <2>3
<1>2. BigEndian(n, len) \in Seq(Octets(V))
  <2> DEFINE b(k) == Byte(v(k))
  <2>1. BigEndian(n, len) = [k \in 1..len |-> b(k)]
    BY Zenon DEF BigEndian
  <2>2. ASSUME NEW k \in 1..len PROVE b(k) \in Octets(V)
    <3>1. v(k) \in V
      <4> HIDE DEF v
      <4> QED  OBVIOUS
    <3> HIDE DEF v, V
    <3> QED  BY <3>1, Zenon DEF Octets
  <2> HIDE DEF b, V, v
  <2> QED  BY <2>1, <2>2
<1> HIDE DEF V
<1> QED  BY <1>1, <1>2

(* totp_generate (src/totp.c) hashes what RFC 2104 and RFC 3174 say, for   *)
(* secrets of every length and for every time.                             *)
THEOREM TokenAsSpecified == ClientSpec => []MacAsSpecified
<1>1. ClientInv => MacAsSpecified
  <2> SUFFICES ASSUME ClientInv, hashed # NoHash
               PROVE  AsSpecified(hashed, Bytes(out), BigEndian(counter, CounterLen))
    BY Zenon DEF MacAsSpecified
  <2>1. hashed = hmac_sha1(Bytes(out), BigEndian(counter, CounterLen))
    BY Zenon DEF ClientInv, HashOfSecret
  <2>2. out \in Seq(0..255) /\ CounterLen \in Nat
    BY ClientAssumption DEF ClientInv, ClientTypeOK, EncodeTypeOK
  <2> DEFINE key == Bytes(out)
             msg == BigEndian(counter, CounterLen)
  <2>3. PICK V : key \in Seq(Octets(V)) /\ msg \in Seq(Octets(V))
    BY <2>2, OfOctets
  <2>4. AsSpecified(hmac_sha1(key, msg), key, msg)
    <3> HIDE DEF key, msg
    <3> QED  BY <2>3, HashesAsSpecified
  <2> QED  BY <2>1, <2>4, Zenon
<1> QED  BY <1>1, ClientKeeps, PTL

(* auth_parse (src/auth.c) reads the very token that client_run            *)
(* (src/client.c) wrote into the datagram.                                 *)
THEOREM TokenIsRead == ClientSpec => []TokenArrives
<1>1. ClientInv => TokenArrives
  BY DEF ClientInv, DatagramOfToken, TokenArrives
<1> QED  BY <1>1, ClientKeeps, PTL

(* client_run (src/client.c) sends to the host and the port that the       *)
(* command line writes, whatever the texts of hosts are made of.           *)
THEOREM SentAsAsked == ClientSpec => []SentWhereAsked
<1>1. ClientInv => SentWhereAsked
  <2> SUFFICES ASSUME ClientInv, sent # NoDatagram
               PROVE  \/ text = sent.host /\ sent.port = opted
                      \/ \E n \in DOMAIN Numerals :
                            Written(text, sent.host, n) /\ sent.port = Numerals[n]
    BY Zenon DEF SentWhereAsked
  <2>1. sent = [host |-> server, port |-> port, digits |-> Formatted(token)] /\ Addressed
    BY DEF ClientInv, DatagramOfToken
  <2>2. sent.host = server /\ sent.port = port
    BY <2>1
  <2> QED  BY <2>1, <2>2, Zenon DEF Addressed
<1> QED  BY <1>1, ClientKeeps, PTL
=============================================================================
