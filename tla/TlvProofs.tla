----------------------------- MODULE TlvProofs ------------------------------
(***************************************************************************)
(* Proofs about the codecs of Tlv and NetworkData, for buffers of every    *)
(* length: a TLV that was serialized is read back wherever it stands,      *)
(* GetTlvSet makes of any list of TLVs the last valid one of each type and *)
(* of a payload that is cut off an error, and a timestamp or a channel     *)
(* mask that is decoded encodes to the same bytes.                         *)
(***************************************************************************)
EXTENDS NetworkData, FiniteSetTheorems, WellFoundedInduction, TLAPS

(* Most leaves are first-order and set reasoning, which is Zenon's; those  *)
(* that need arithmetic, records or functions cite SMT.                    *)
USE Zenon

-----------------------------------------------------------------------------
(* Induction, and sequences put one after the other.                       *)

(* Induction over the natural numbers, for a set: what the loops of the    *)
(* codecs do with one more byte, TLV or record carries over to buffers of  *)
(* every length.                                                           *)
LEMMA SetInduction ==
    ASSUME NEW T, 0 \in T, \A n \in Nat : n \in T => n + 1 \in T
    PROVE  \A n \in Nat : n \in T
<1> DEFINE Out == {n \in Nat : n \notin T}
           R == OpToRel(<, Nat)
<1>1. IsWellFoundedOn(R, Nat)
  BY NatLessThanWellFounded
<1>2. SUFFICES ASSUME Out # {} PROVE FALSE
  OBVIOUS
<1>3. PICK x \in Out : \A y \in Out : ~(<<y, x>> \in R)
  <2>1. Out \subseteq Nat
    OBVIOUS
  <2> HIDE DEF R, Out
  <2> QED BY <1>1, <1>2, <2>1, WFMin
<1>4. x \in Nat /\ x # 0 /\ x - 1 \in Nat /\ x - 1 < x
  BY SMT
<1>5. <<x - 1, x>> \in R
  BY <1>4 DEF OpToRel
<1>6. x - 1 \in T
  BY <1>3, <1>4, <1>5
<1> QED BY <1>4, <1>6, SMT

(* The elements of a ByteArray are bytes, those of a list of TLVs are      *)
(* TLVs.                                                                   *)
LEMMA SeqAt ==
    ASSUME NEW X, NEW s \in Seq(X), NEW i \in 1..Len(s) PROVE s[i] \in X
  BY SMT

(* g[k] is what Concat makes of the first k of the sequences s.            *)
ConcatTo(g, s, n) == g = [k \in 0..n |-> IF k = 0 THEN <<>> ELSE g[k - 1] \o s[k]]

(* The function that Concat applies exists.                                *)
LEMMA ConcatDefined ==
    ASSUME NEW s, NEW n \in Nat PROVE \E g : ConcatTo(g, s, n)
<1> DEFINE T == {m \in Nat : \E g : ConcatTo(g, s, m)}
<1>1. 0 \in T
  <2>1. \A k \in 0..0 : k = 0
    BY SMT
  <2>2. ConcatTo([k \in 0..0 |-> <<>>], s, 0)
    BY <2>1 DEF ConcatTo
  <2> QED BY <2>2
<1>2. ASSUME NEW m \in Nat, m \in T PROVE m + 1 \in T
  <2>1. PICK g : ConcatTo(g, s, m)
    BY <1>2
  <2> DEFINE h == [k \in 0..m + 1 |-> IF k = 0 THEN <<>> ELSE g[k - 1] \o s[k]]
  <2>2. h = [k \in 0..m + 1 |-> h[k]] /\ \A k \in 0..m + 1 : h[k] = IF k = 0 THEN <<>> ELSE g[k - 1] \o s[k]
    OBVIOUS
  <2>3. \A k \in 0..m : g[k] = IF k = 0 THEN <<>> ELSE g[k - 1] \o s[k]
    BY <2>1 DEF ConcatTo
  <2> HIDE DEF h
  <2>4. /\ \A k \in 0..m : k \in 0..m + 1
        /\ \A k \in 0..m + 1 : k = 0 \/ k - 1 \in 0..m
    BY SMT
  <2>5. \A k \in 0..m : h[k] = g[k]
    BY <2>2, <2>3, <2>4
  <2>6. \A k \in 0..m + 1 : h[k] = IF k = 0 THEN <<>> ELSE h[k - 1] \o s[k]
    BY <2>2, <2>4, <2>5
  <2>7. ConcatTo(h, s, m + 1)
    BY <2>2, <2>6 DEF ConcatTo
  <2> QED BY <2>7, SMT
<1>3. \A m \in Nat : m \in T
  <2> HIDE DEF T
  <2> QED BY <1>1, <1>2, SetInduction
<1> QED BY <1>3

(* Concat puts the sequences one after the other, from left to right.      *)
LEMMA Concatenates ==
    ASSUME NEW X, NEW s \in Seq(Seq(X))
    PROVE  \E G \in [0..Len(s) -> Seq(X)] :
              /\ G[0] = <<>>
              /\ \A k \in 1..Len(s) : G[k] = G[k - 1] \o s[k]
              /\ Concat(s) = G[Len(s)]
<1> DEFINE n == Len(s)
           G == CHOOSE g : ConcatTo(g, s, n)
           T == {k \in Nat : k <= n => G[k] \in Seq(X)}
<1>1. n \in Nat /\ \A k \in 1..n : s[k] \in Seq(X)
  BY SMT
<1>2. Concat(s) = G[n]
  BY DEF Concat, ConcatTo
<1>3. ConcatTo(G, s, n)
  BY <1>1, ConcatDefined
<1> HIDE DEF n, G
<1>4. /\ G = [k \in 0..n |-> G[k]]
      /\ \A k \in 0..n : G[k] = IF k = 0 THEN <<>> ELSE G[k - 1] \o s[k]
  BY <1>3 DEF ConcatTo
<1>5. G[0] = <<>> /\ \A k \in 1..n : G[k] = G[k - 1] \o s[k]
  <2>1. 0 \in 0..n /\ \A k \in 1..n : k \in 0..n /\ k # 0
    BY <1>1, SMT
  <2> QED BY <1>4, <2>1
<1>6. 0 \in T
  <2>1. <<>> \in Seq(X)
    BY SMT
  <2> QED BY <1>5, <2>1
<1>7. ASSUME NEW k \in Nat, k \in T PROVE k + 1 \in T
  <2> SUFFICES ASSUME k + 1 <= n PROVE G[k + 1] \in Seq(X)
    BY SMT
  <2>1. k + 1 \in 1..n /\ (k + 1) - 1 = k /\ k <= n
    BY <1>1, SMT
  <2>2. G[k] \in Seq(X) /\ s[k + 1] \in Seq(X)
    BY <1>1, <1>7, <2>1
  <2>3. G[k + 1] = G[k] \o s[k + 1]
    BY <1>5, <2>1
  <2> QED BY <2>2, <2>3, SMT
<1>8. \A k \in Nat : k \in T
  <2> HIDE DEF T
  <2> QED BY <1>6, <1>7, SetInduction, SMTT(20)
<1>9. G \in [0..n -> Seq(X)]
  <2>1. \A k \in 0..n : G[k] \in Seq(X)
    BY <1>1, <1>8, SMT
  <2> QED BY <1>4, <2>1
<1> QED BY <1>2, <1>5, <1>9 DEF n

(* An element of a part that lies within a buffer lies within the buffer.  *)
LEMMA Within ==
    ASSUME NEW p \in Nat, NEW l \in Nat, NEW q \in Nat, p + l <= q
    PROVE  \A j \in 1..l : p + j \in 1..q
  BY SMT

(* off[k] is where the (k + 1)-th of the sequences s begins in Concat(s).  *)
Offsets(off, s) ==
    /\ off \in [0..Len(s) -> Nat]
    /\ off[0] = 0 /\ Len(Concat(s)) = off[Len(s)]
    /\ \A k \in 1..Len(s) :
          /\ off[k] = off[k - 1] + Len(s[k])
          /\ off[k] <= off[Len(s)] /\ \A i \in 1..k : off[i] <= off[k]
          /\ \A j \in 1..Len(s[k]) : Concat(s)[off[k - 1] + j] = s[k][j]

(* Every one of the sequences stands in Concat where those before it end:  *)
(* the pieces of a payload that were appended one by one.                  *)
LEMMA ConcatOffsets ==
    ASSUME NEW X, NEW s \in Seq(Seq(X))
    PROVE  Concat(s) \in Seq(X) /\ \E off : Offsets(off, s)
<1>1. PICK G \in [0..Len(s) -> Seq(X)] :
              /\ G[0] = <<>>
              /\ \A k \in 1..Len(s) : G[k] = G[k - 1] \o s[k]
              /\ Concat(s) = G[Len(s)]
  BY Concatenates
<1> DEFINE n == Len(s)
           off == [k \in 0..n |-> Len(G[k])]
           In(k) == \A m \in 1..k : /\ off[m] <= off[k]
                                    /\ \A j \in 1..Len(s[m]) : G[k][off[m - 1] + j] = s[m][j]
           T == {k \in Nat : k <= n => In(k)}
<1>2. n \in Nat /\ (\A k \in 1..n : s[k] \in Seq(X)) /\ (\A k \in 0..n : G[k] \in Seq(X))
  BY <1>1, SMT
<1>3. off \in [0..n -> Nat] /\ off[0] = 0 /\ \A k \in 0..n : off[k] = Len(G[k])
  BY <1>1, <1>2, SMT
<1> HIDE DEF n, off
<1>4. ASSUME NEW k \in 1..n
      PROVE  /\ off[k] = off[k - 1] + Len(s[k])
             /\ \A i \in 1..off[k - 1] : G[k][i] = G[k - 1][i]
             /\ \A j \in 1..Len(s[k]) : G[k][off[k - 1] + j] = s[k][j]
  <2>1. k - 1 \in 0..n /\ k \in 0..n /\ G[k - 1] \in Seq(X) /\ s[k] \in Seq(X)
    BY <1>2, SMT
  <2>2. G[k] = G[k - 1] \o s[k] /\ off[k - 1] = Len(G[k - 1]) /\ off[k] = Len(G[k])
    BY <1>1, <1>3, <2>1 DEF n
  <2> DEFINE a == G[k - 1]
             b == s[k]
  <2>3. ASSUME a \in Seq(X), b \in Seq(X)
        PROVE  /\ Len(a \o b) = Len(a) + Len(b)
               /\ \A i \in 1..Len(a) : (a \o b)[i] = a[i]
               /\ \A j \in 1..Len(b) : (a \o b)[Len(a) + j] = b[j]
    <3> HIDE DEF a, b
    <3> QED BY <2>3, SMT
  <2> QED BY <2>1, <2>2, <2>3
<1>5. 0 \in T
  BY SMT
<1>6. ASSUME NEW k \in Nat, k \in T PROVE k + 1 \in T
  <2> SUFFICES ASSUME k + 1 <= n, NEW m \in 1..k + 1
               PROVE  /\ off[m] <= off[k + 1]
                      /\ \A j \in 1..Len(s[m]) : G[k + 1][off[m - 1] + j] = s[m][j]
    BY SMT
  <2>1. k \in 0..n /\ k + 1 \in 1..n /\ (k + 1) - 1 = k /\ m \in 1..n /\ m - 1 \in 0..n /\ In(k)
    BY <1>2, <1>6, SMT
  <2>2. /\ off[k + 1] = off[k] + Len(s[k + 1]) /\ off[m] = off[m - 1] + Len(s[m])
        /\ off[k] \in Nat /\ off[m] \in Nat /\ off[m - 1] \in Nat
    BY <1>3, <1>4, <2>1, SMT
  <2>3. Len(s[k + 1]) \in Nat /\ Len(s[m]) \in Nat
    BY <1>2, <2>1, SMT
  <2>4. CASE m = k + 1
    BY <1>4, <2>1, <2>2, <2>4, <2>3, SMT
  <2>5. CASE m \in 1..k
    <3>1. off[m] <= off[k]
      BY <2>1, <2>5
    <3>2. \A j \in 1..Len(s[m]) : G[k][off[m - 1] + j] = s[m][j]
      BY <2>1, <2>5
    <3>3. \A i \in 1..off[k] : G[k + 1][i] = G[k][i]
      <4>1. \A i \in 1..off[(k + 1) - 1] : G[k + 1][i] = G[(k + 1) - 1][i]
        BY <1>4, <2>1
      <4> QED BY <2>1, <4>1
    <3>4. \A j \in 1..Len(s[m]) : off[m - 1] + j \in 1..off[k]
      <4>1. off[m - 1] + Len(s[m]) <= off[k]
        BY <2>2, <3>1
      <4> QED BY <2>2, <2>3, <4>1, Within
    <3>5. \A j \in 1..Len(s[m]) : G[k + 1][off[m - 1] + j] = s[m][j]
      BY <3>2, <3>3, <3>4
    <3>6. off[m] <= off[k + 1]
      BY <2>2, <2>3, <3>1, SMT
    <3> QED BY <3>5, <3>6
  <2> QED BY <2>4, <2>5, SMT
<1>7. \A k \in Nat : k \in T
  <2> HIDE DEF T
  <2> QED BY <1>5, <1>6, SetInduction
<1>8. In(n)
  <2>1. n <= n /\ n \in T
    BY <1>2, <1>7, SMT
  <2> QED BY <2>1
<1>9. Concat(s) = G[n] /\ Concat(s) \in Seq(X) /\ Len(Concat(s)) = off[n]
  <2>1. n \in 0..n /\ Concat(s) = G[n]
    BY <1>1, <1>2, SMT DEF n
  <2> QED BY <1>2, <1>3, <2>1
<1>10. \A k \in 1..n : /\ off[k] = off[k - 1] + Len(s[k])
                       /\ off[k] <= off[n] /\ \A i \in 1..k : off[i] <= off[k]
                       /\ \A j \in 1..Len(s[k]) : Concat(s)[off[k - 1] + j] = s[k][j]
  <2>1. ASSUME NEW k \in 1..n, NEW i \in 1..k PROVE off[i] <= off[k]
    <3>1. k \in Nat /\ k <= n
      BY <1>2, SMT
    <3> QED BY <1>7, <3>1
  <2> QED BY <1>4, <1>8, <1>9, <2>1
<1>11. Offsets(off, s)
  BY <1>3, <1>9, <1>10 DEF Offsets, n
<1> QED BY <1>9, <1>11

-----------------------------------------------------------------------------
(* One TLV: Tlv::Serialize and Tlv::Deserialize.                           *)

(* A byte is a number below 256.                                           *)
LEMMA ByteNat == Byte \subseteq Nat /\ \A i \in Nat : i < 256 => i \in Byte
  BY SMT DEF Byte

(* Wherever a TLV is read, the next one begins after it.                   *)
LEMMA DeserializeTlvNext ==
    ASSUME NEW buf \in Seq(Byte), NEW at \in 1..Len(buf)
    PROVE  \/ DeserializeTlv(buf, at) = [error |-> "bad"]
           \/ /\ DeserializeTlv(buf, at).error = "none"
              /\ DeserializeTlv(buf, at).next \in at + 1..Len(buf) + 1
<1> DEFINE N == Len(buf)
           escaped == buf[at + 1] = kEscapeLength
           begin == IF escaped THEN at + 4 ELSE at + 2
           length == IF escaped THEN buf[at + 2] * 256 + buf[at + 3] ELSE buf[at + 1]
           tlv == [error |-> "none", type |-> buf[at],
                   value |-> SubSeq(buf, begin, begin + length - 1), next |-> begin + length]
<1>1. DeserializeTlv(buf, at) =
          IF at + 1 > N THEN [error |-> "bad"]
          ELSE IF begin - 1 > N THEN [error |-> "bad"]
          ELSE IF begin + length - 1 > N THEN [error |-> "bad"]
          ELSE tlv
  BY DEF DeserializeTlv
<1>2. tlv.error = "none" /\ tlv.next = begin + length
  OBVIOUS
<1>3. N \in Nat /\ at \in 1..N /\ \A i \in 1..N : buf[i] \in Nat
  <2>1. \A i \in 1..N : buf[i] \in Byte
    BY SeqAt
  <2>2. \A i \in 1..N : buf[i] \in Nat
    BY <2>1, ByteNat
  <2> QED BY <2>2, SMT
<1>4. begin \in Nat /\ begin >= at + 2
  BY <1>3, SMT
<1>5. ASSUME at + 1 <= N, begin - 1 <= N PROVE length \in Nat
  <2>1. CASE escaped
    <3>1. at + 2 \in 1..N /\ at + 3 \in 1..N /\ length = buf[at + 2] * 256 + buf[at + 3]
      BY <1>3, <1>5, <2>1, SMT
    <3>2. buf[at + 2] \in Nat /\ buf[at + 3] \in Nat
      BY <1>3, <3>1
    <3> QED BY <3>1, <3>2, SMT
  <2>2. CASE ~escaped
    <3>1. at + 1 \in 1..N /\ length = buf[at + 1]
      BY <1>3, <1>5, <2>2, SMT
    <3> QED BY <1>3, <3>1
  <2> QED BY <2>1, <2>2
<1>6. CASE at + 1 > N \/ begin - 1 > N \/ begin + length - 1 > N
  BY <1>1, <1>6
<1>7. CASE ~(at + 1 > N \/ begin - 1 > N \/ begin + length - 1 > N)
  <2>1. DeserializeTlv(buf, at) = tlv
    BY <1>1, <1>7
  <2> HIDE DEF N, begin, tlv
  <2>2. at + 1 <= N /\ begin - 1 <= N
    BY <1>3, <1>4, <1>7, SMT
  <2>3. length \in Nat
    BY <1>5, <2>2
  <2> HIDE DEF length
  <2>4. begin + length \in at + 1..N + 1
    BY <1>3, <1>4, <1>7, <2>3, SMT
  <2> QED BY <1>2, <2>1, <2>4 DEF N
<1> QED BY <1>6, <1>7

(* TLVs whose length the length field holds.                               *)
Fits(t) ==
    /\ t \in Byte \X Seq(Byte) /\ Len(t[2]) < TlvLimit
    /\ ~IsExtendedTlv(t[1]) => Len(t[2]) < kEscapeLength

(* The bytes before the value of a TLV.                                    *)
HeaderLen(type) == IF IsExtendedTlv(type) THEN 4 ELSE 2

(* The bytes of a TLV.                                                     *)
LEMMA Serialized ==
    ASSUME NEW t, Fits(t)
    PROVE  LET ser == SerializeTlv(t[1], t[2])
               h == HeaderLen(t[1])
           IN  /\ ser \in Seq(Byte) /\ Len(ser) = h + Len(t[2]) /\ ser[1] = t[1]
               /\ IF IsExtendedTlv(t[1])
                  THEN ser[2] = 255 /\ ser[3] * 256 + ser[4] = Len(t[2])
                  ELSE ser[2] = Len(t[2]) /\ Len(t[2]) < 255
               /\ \A j \in 1..Len(t[2]) : ser[h + j] = t[2][j]
<1> DEFINE type == t[1]
           value == t[2]
           n == Len(value)
           ser == SerializeTlv(type, value)
<1>1. type \in Byte /\ value \in Seq(Byte) /\ n \in Nat /\ n < TlvLimit
  BY SMT DEF Fits
<1>2. CASE IsExtendedTlv(type)
  <2> DEFINE a == n \div 256
             b == n % 256
  <2>1. a \in Nat /\ b \in Nat /\ a < 256 /\ b < 256 /\ a * 256 + b = n
    <3> HIDE DEF n
    <3> QED BY <1>1, SMT DEF TlvLimit
  <2>2. ser = <<type>> \o (<<255>> \o <<a, b>>) \o value
    BY <1>2 DEF SerializeTlv, Uint16, kEscapeLength
  <2>3. a \in Byte /\ b \in Byte /\ 255 \in Byte
    <3> HIDE DEF a, b
    <3> QED BY <2>1, ByteNat, SMT
  <2> HIDE DEF a, b, ser, type, value
  <2>4. ser = <<type, 255, a, b>> \o value
    BY <1>1, <2>2, <2>3, SMT
  <2>5. /\ ser \in Seq(Byte) /\ Len(ser) = 4 + n /\ ser[1] = type /\ ser[2] = 255
        /\ ser[3] = a /\ ser[4] = b /\ \A j \in 1..n : ser[4 + j] = value[j]
    BY <1>1, <2>3, <2>4, SMT
  <2>6. HeaderLen(type) = 4
    BY <1>2 DEF HeaderLen
  <2>7. ser[3] * 256 + ser[4] = n
    BY <2>1, <2>5
  <2>8. /\ Len(ser) = HeaderLen(type) + n
        /\ \A j \in 1..n : ser[HeaderLen(type) + j] = value[j]
    BY <2>5, <2>6, SMT
  <2>9. ser \in Seq(Byte) /\ ser[1] = type /\ ser[2] = 255
    BY <2>5
  <2> QED BY <1>2, <2>7, <2>8, <2>9 DEF ser, type, value
<1>3. CASE ~IsExtendedTlv(type)
  <2>1. n < 255
    BY <1>3 DEF Fits, kEscapeLength
  <2>2. n % 256 = n /\ n \in Byte
    <3> HIDE DEF n
    <3> QED BY <1>1, ByteNat, <2>1, SMT
  <2>3. ser = <<type>> \o <<n>> \o value
    BY <1>3, <2>2 DEF SerializeTlv
  <2> HIDE DEF ser, type, value
  <2>4. ser = <<type, n>> \o value
    BY <1>1, <2>2, <2>3, SMT
  <2>5. /\ ser \in Seq(Byte) /\ Len(ser) = 2 + n /\ ser[1] = type /\ ser[2] = n
        /\ \A j \in 1..n : ser[2 + j] = value[j]
    BY <1>1, <2>2, <2>4, SMT
  <2>6. HeaderLen(type) = 2
    BY <1>3 DEF HeaderLen
  <2> QED BY <1>3, <2>1, <2>5, <2>6 DEF ser, type, value
<1> QED BY <1>2, <1>3

(* A part of a buffer with the elements of v is v.                         *)
LEMMA SubSeqIs ==
    ASSUME NEW X, NEW s \in Seq(X), NEW v \in Seq(X), NEW a \in Nat, a + Len(v) <= Len(s),
           \A j \in 1..Len(v) : s[a + j] = v[j]
    PROVE  SubSeq(s, a + 1, a + Len(v)) = v
<1> DEFINE u == SubSeq(s, a + 1, a + Len(v))
<1>1. u \in Seq(X) /\ Len(u) = Len(v)
  BY SMT
<1>2. ASSUME NEW j \in 1..Len(v) PROVE u[j] = v[j]
  <2>1. u[j] = s[(a + 1) + j - 1] /\ (a + 1) + j - 1 = a + j
    BY SMT
  <2> QED BY <2>1
<1> HIDE DEF u
<1>3. u = v
  BY <1>1, <1>2, SMT
<1> QED BY <1>3 DEF u

(* A TLV that was serialized anywhere in a buffer is read back, and the    *)
(* next one begins behind it: Tlv::Deserialize after Tlv::Serialize.       *)
LEMMA Deserialized ==
    ASSUME NEW buf \in Seq(Byte), NEW off \in Nat, NEW t, Fits(t),
           off + Len(SerializeTlv(t[1], t[2])) <= Len(buf),
           \A j \in 1..Len(SerializeTlv(t[1], t[2])) : buf[off + j] = SerializeTlv(t[1], t[2])[j]
    PROVE  DeserializeTlv(buf, off + 1) =
               [error |-> "none", type |-> t[1], value |-> t[2],
                next |-> off + Len(SerializeTlv(t[1], t[2])) + 1]
<1> DEFINE type == t[1]
           value == t[2]
           n == Len(value)
           ser == SerializeTlv(type, value)
           h == HeaderLen(type)
           at == off + 1
           begin == IF buf[at + 1] = kEscapeLength THEN at + 4 ELSE at + 2
           length == IF buf[at + 1] = kEscapeLength THEN buf[at + 2] * 256 + buf[at + 3]
                     ELSE buf[at + 1]
<1>1. /\ ser \in Seq(Byte) /\ Len(ser) = h + n /\ ser[1] = type
      /\ IF IsExtendedTlv(type) THEN ser[2] = 255 /\ ser[3] * 256 + ser[4] = n
         ELSE ser[2] = n /\ n < 255
      /\ \A j \in 1..n : ser[h + j] = value[j]
  BY Serialized
<1>2. value \in Seq(Byte) /\ n \in Nat
  BY SMT DEF Fits
<1>3. DeserializeTlv(buf, at) =
          IF at + 1 > Len(buf) THEN [error |-> "bad"]
          ELSE IF begin - 1 > Len(buf) THEN [error |-> "bad"]
          ELSE IF begin + length - 1 > Len(buf) THEN [error |-> "bad"]
          ELSE [error |-> "none", type |-> buf[at],
                value |-> SubSeq(buf, begin, begin + length - 1), next |-> begin + length]
  BY DEF DeserializeTlv
<1> HIDE DEF ser, n, value, type, h
<1>4. /\ \A j \in 1..h + n : buf[off + j] = ser[j]
      /\ off + (h + n) <= Len(buf)
  BY <1>1 DEF ser, value, type
<1>5. h \in {2, 4} /\ (h = 4 <=> IsExtendedTlv(type))
  BY SMT DEF h, HeaderLen
<1>6. begin = off + h + 1 /\ length = n
  <2>1. CASE IsExtendedTlv(type)
    <3>1. buf[at + 1] = 255 /\ buf[at + 2] = ser[3] /\ buf[at + 3] = ser[4] /\ h = 4
      BY <1>1, <1>2, <1>4, <1>5, <2>1, SMT
    <3> QED BY <1>1, <2>1, <3>1, SMT DEF kEscapeLength
  <2>2. CASE ~IsExtendedTlv(type)
    <3>1. buf[at + 1] = n /\ n < 255 /\ h = 2
      BY <1>1, <1>2, <1>4, <1>5, <2>2, SMT
    <3> QED BY <1>2, <3>1, SMT DEF kEscapeLength
  <2> QED BY <2>1, <2>2
<1> HIDE DEF begin, length
<1>7. /\ ~(at + 1 > Len(buf)) /\ ~(begin - 1 > Len(buf)) /\ ~(begin + length - 1 > Len(buf))
      /\ begin + length - 1 = off + h + n /\ begin + length = off + (h + n) + 1
      /\ Len(buf) \in Nat
  <2>1. ASSUME NEW N \in Nat, NEW x \in Nat, x \in {2, 4}, off + (x + n) <= N
        PROVE  /\ ~(at + 1 > N) /\ ~((off + x + 1) - 1 > N) /\ ~((off + x + 1) + n - 1 > N)
               /\ (off + x + 1) + n - 1 = off + x + n /\ (off + x + 1) + n = off + (x + n) + 1
    BY <1>2, <2>1, SMT
  <2>2. Len(buf) \in Nat /\ h \in Nat
    BY <1>5, SMT
  <2> QED BY <1>4, <1>5, <1>6, <2>1, <2>2
<1>8. buf[at] = type
  BY <1>1, <1>2, <1>4, <1>5, SMT
<1>9. SubSeq(buf, begin, begin + length - 1) = value
  <2>1. off + h \in Nat /\ (off + h) + n <= Len(buf)
    <3>1. h \in Nat
      BY <1>5, SMT
    <3>2. (off + h) + n = off + (h + n) /\ off + h \in Nat
      BY <1>2, <3>1, SMT
    <3> QED BY <1>4, <3>2
  <2>2. ASSUME NEW j \in 1..n PROVE buf[(off + h) + j] = value[j]
    <3>1. h + j \in 1..h + n /\ off + (h + j) = (off + h) + j
      BY <1>2, <1>5, SMT
    <3> QED BY <1>1, <1>4, <3>1
  <2>3. SubSeq(buf, (off + h) + 1, (off + h) + n) = value
    BY <1>2, <2>1, <2>2, SubSeqIs DEF n
  <2> QED BY <1>6, <1>7, <2>3
<1>10. DeserializeTlv(buf, at) =
           [error |-> "none", type |-> type, value |-> value, next |-> off + (h + n) + 1]
  BY <1>3, <1>7, <1>8, <1>9
<1> QED BY <1>1, <1>10 DEF ser, value, type

(* A TLV that is cut off.                                                  *)
LEMMA DeserializedCut ==
    ASSUME NEW buf \in Seq(Byte), NEW off \in Nat, NEW t, Fits(t), off < Len(buf),
           Len(buf) < off + Len(SerializeTlv(t[1], t[2])),
           \A j \in 1..Len(buf) - off : buf[off + j] = SerializeTlv(t[1], t[2])[j]
    PROVE  DeserializeTlv(buf, off + 1) = [error |-> "bad"]
<1> DEFINE type == t[1]
           value == t[2]
           n == Len(value)
           ser == SerializeTlv(type, value)
           h == HeaderLen(type)
           at == off + 1
           begin == IF buf[at + 1] = kEscapeLength THEN at + 4 ELSE at + 2
           length == IF buf[at + 1] = kEscapeLength THEN buf[at + 2] * 256 + buf[at + 3]
                     ELSE buf[at + 1]
<1>1. /\ ser \in Seq(Byte) /\ Len(ser) = h + n
      /\ IF IsExtendedTlv(type) THEN ser[2] = 255 /\ ser[3] * 256 + ser[4] = n
         ELSE ser[2] = n /\ n < 255
  BY Serialized
<1>2. value \in Seq(Byte) /\ n \in Nat /\ Len(buf) \in Nat
  BY SMT DEF Fits
<1>3. DeserializeTlv(buf, at) =
          IF at + 1 > Len(buf) THEN [error |-> "bad"]
          ELSE IF begin - 1 > Len(buf) THEN [error |-> "bad"]
          ELSE IF begin + length - 1 > Len(buf) THEN [error |-> "bad"]
          ELSE [error |-> "none", type |-> buf[at],
                value |-> SubSeq(buf, begin, begin + length - 1), next |-> begin + length]
  BY DEF DeserializeTlv
<1> HIDE DEF ser, n, value, type, h
<1>4. /\ \A j \in 1..Len(buf) - off : buf[off + j] = ser[j]
      /\ Len(buf) < off + (h + n)
  BY <1>1 DEF ser, value, type
<1>5. h \in {2, 4} /\ (h = 4 <=> IsExtendedTlv(type))
  BY SMT DEF h, HeaderLen
<1>6. SUFFICES ASSUME ~(at + 1 > Len(buf)), ~(begin - 1 > Len(buf))
               PROVE  begin + length - 1 > Len(buf)
  BY <1>3
<1>7. buf[at + 1] = ser[2]
  BY <1>2, <1>4, <1>6, SMT
<1>8. CASE IsExtendedTlv(type)
  <2>1. h = 4 /\ buf[at + 1] = 255 /\ begin = at + 4
    BY <1>1, <1>5, <1>7, <1>8 DEF kEscapeLength
  <2>2. buf[at + 2] = ser[3] /\ buf[at + 3] = ser[4]
    <3>1. Len(buf) - off \in Nat /\ 3 <= Len(buf) - off /\ 4 <= Len(buf) - off
      BY <1>2, <1>6, <2>1, SMT
    <3> QED BY <1>4, <3>1, SMT
  <2>3. length = n
    BY <1>1, <1>8, <2>1, <2>2 DEF kEscapeLength
  <2> QED BY <1>2, <1>4, <2>1, <2>3, SMT
<1>9. CASE ~IsExtendedTlv(type)
  <2>1. h = 2 /\ buf[at + 1] = n /\ n < 255
    BY <1>1, <1>5, <1>7, <1>9
  <2>2. begin = at + 2 /\ length = n
    BY <1>2, <2>1, SMT DEF kEscapeLength
  <2> QED BY <1>2, <1>4, <2>1, <2>2, SMT
<1> QED BY <1>8, <1>9

-----------------------------------------------------------------------------
(* GetTlvSet, TLV by TLV.                                                  *)

(* The set with a TLV that stands before those it was made of.             *)
TlvPut(tlv, set) ==
    IF tlv.type \in DOMAIN set \/ ~IsValid(tlv.type, Len(tlv.value)) THEN set
    ELSE [t \in DOMAIN set \cup {tlv.type} |-> IF t = tlv.type THEN tlv.value ELSE set[t]]

(* What GetTlvSet makes of the TLV at buf[at], if g has made the rest.     *)
SetAt(g, buf, at) ==
    IF at > Len(buf) THEN [error |-> "none", set |-> [t \in {} |-> <<>>]]
    ELSE LET tlv == DeserializeTlv(buf, at)
             rest == g[tlv.next]
         IN  IF tlv.error # "none" THEN tlv
             ELSE IF rest.error # "none" THEN rest
             ELSE [error |-> "none", set |-> TlvPut(tlv, rest.set)]

(* g is what GetTlvSet makes of every rest of buf from buf[a] on.          *)
SetsFrom(g, buf, a) == g = [at \in a..Len(buf) + 1 |-> SetAt(g, buf, at)]

(* g holds the steps of GetTlvSet.                                         *)
SetSteps(g, buf) ==
    GetTlvSet(buf) = g[1] /\ \A at \in 1..Len(buf) + 1 : g[at] = SetAt(g, buf, at)

(* What GetTlvSet makes of the TLV at buf[at] depends on what it makes of  *)
(* the bytes behind only.                                                  *)
LEMMA SetAtSame ==
    ASSUME NEW buf \in Seq(Byte), NEW at \in 1..Len(buf) + 1, NEW g, NEW h,
           \A i \in at + 1..Len(buf) + 1 : g[i] = h[i]
    PROVE  SetAt(g, buf, at) = SetAt(h, buf, at)
<1>1. CASE at > Len(buf)
  BY <1>1 DEF SetAt
<1>2. CASE ~(at > Len(buf))
  <2>1. at \in 1..Len(buf)
    BY <1>2, SMT
  <2>2. \/ DeserializeTlv(buf, at) = [error |-> "bad"]
        \/ /\ DeserializeTlv(buf, at).error = "none"
           /\ g[DeserializeTlv(buf, at).next] = h[DeserializeTlv(buf, at).next]
    BY <2>1, DeserializeTlvNext
  <2>3. [error |-> "bad"].error # "none"
    OBVIOUS
  <2> QED BY <1>2, <2>2, <2>3 DEF SetAt
<1> QED BY <1>1, <1>2

(* The function that GetTlvSet applies exists: the loop of GetTlvSet ends, *)
(* since each TLV is behind the one before.                                *)
LEMMA SetsDefined ==
    ASSUME NEW buf \in Seq(Byte) PROVE \E g : SetsFrom(g, buf, 1)
<1> DEFINE N == Len(buf)
           T == {m \in Nat : m <= N => \E g : SetsFrom(g, buf, N + 1 - m)}
<1>1. N \in Nat
  BY SMT
<1> HIDE DEF N
<1>2. 0 \in T
  <2> DEFINE g == [at \in N + 1..N + 1 |-> SetAt(<<>>, buf, at)]
  <2>1. ASSUME NEW at \in N + 1..N + 1 PROVE SetAt(g, buf, at) = SetAt(<<>>, buf, at)
    <3>1. at > Len(buf)
      BY <1>1, SMT DEF N
    <3> QED BY <3>1 DEF SetAt
  <2>2. g = [at \in N + 1..N + 1 |-> SetAt(g, buf, at)]
    BY <2>1
  <2> HIDE DEF g
  <2>3. SetsFrom(g, buf, N + 1)
    BY <2>2 DEF SetsFrom, N
  <2>4. N + 1 - 0 = N + 1
    BY <1>1, SMT
  <2> QED BY <2>3, <2>4
<1>3. ASSUME NEW m \in Nat, m \in T PROVE m + 1 \in T
  <2> SUFFICES ASSUME m + 1 <= N PROVE \E g : SetsFrom(g, buf, N + 1 - (m + 1))
    BY SMT
  <2> DEFINE a == N + 1 - m
             b == N + 1 - (m + 1)
  <2>1. a \in 1..N + 1 /\ b \in 1..N /\ a = b + 1 /\ m <= N
    BY <1>1, SMT
  <2>2. PICK g : SetsFrom(g, buf, a)
    BY <1>3, <2>1
  <2> DEFINE h == [at \in b..N + 1 |-> IF at = b THEN SetAt(g, buf, at) ELSE g[at]]
  <2>3. h = [at \in b..N + 1 |-> h[at]]
    OBVIOUS
  <2>4. \A at \in b..N + 1 : h[at] = IF at = b THEN SetAt(g, buf, at) ELSE g[at]
    OBVIOUS
  <2>5. \A at \in a..N + 1 : g[at] = SetAt(g, buf, at)
    BY <2>2 DEF SetsFrom, N
  <2> HIDE DEF h, a, b
  <2>6. ASSUME NEW at \in b..N + 1 PROVE h[at] = SetAt(h, buf, at)
    <3>1. \A i \in at + 1..N + 1 : i \in a..N + 1 /\ i # b /\ i \in b..N + 1
      BY <1>1, <2>1, SMT
    <3>2. \A i \in at + 1..N + 1 : g[i] = h[i]
      BY <2>4, <3>1
    <3>3. at \in 1..N + 1
      BY <1>1, <2>1, SMT
    <3>4. SetAt(g, buf, at) = SetAt(h, buf, at)
      BY <3>2, <3>3, SetAtSame DEF N
    <3>5. at = b \/ at \in a..N + 1
      BY <1>1, <2>1, SMT
    <3> QED BY <2>4, <2>5, <3>4, <3>5
  <2>7. SetsFrom(h, buf, b)
    BY <2>3, <2>6 DEF SetsFrom, N
  <2> QED BY <2>7 DEF b
<1>4. \A m \in Nat : m \in T
  <2> HIDE DEF T
  <2> QED BY <1>2, <1>3, SetInduction
<1>5. N + 1 - N = 1 /\ N <= N
  BY <1>1, SMT
<1> QED BY <1>1, <1>4, <1>5

(* GetTlvSet is its steps.                                                 *)
LEMMA GetTlvSetSteps ==
    ASSUME NEW buf \in Seq(Byte) PROVE \E g : SetSteps(g, buf)
<1> DEFINE g == CHOOSE x : SetsFrom(x, buf, 1)
<1>1. GetTlvSet(buf) = g[1]
  BY DEF GetTlvSet, SetsFrom, SetAt, TlvPut
<1>2. SetsFrom(g, buf, 1)
  BY SetsDefined
<1> HIDE DEF g
<1>3. \A at \in 1..Len(buf) + 1 : g[at] = SetAt(g, buf, at)
  BY <1>2 DEF SetsFrom
<1>4. SetSteps(g, buf)
  BY <1>1, <1>3 DEF SetSteps
<1> QED BY <1>4

(* Lists of TLVs that can be put into a payload.                           *)
IsTlvList(L) == DOMAIN L = 1..Len(L) /\ Len(L) \in Nat /\ \A i \in 1..Len(L) : Fits(L[i])

(* The TLVs of L, serialized.                                              *)
Pieces(L) == [i \in 1..Len(L) |-> SerializeTlv(L[i][1], L[i][2])]

(* The i-th TLV of L has a length of its type.                             *)
ValidAt(L, i) == IsValid(L[i][1], Len(L[i][2]))

(* The set holds the last valid TLV of each type that L has after its i-th.*)
HoldsFrom(set, L, i) ==
    /\ set = [t \in DOMAIN set |-> set[t]]
    /\ DOMAIN set = {L[k][1] : k \in {j \in i + 1..Len(L) : ValidAt(L, j)}}
    /\ \A t \in DOMAIN set :
          \E k \in i + 1..Len(L) :
              /\ L[k][1] = t /\ ValidAt(L, k) /\ set[t] = L[k][2]
              /\ \A j \in k + 1..Len(L) : L[j][1] # t \/ ~ValidAt(L, j)

(* A TLV that stands before those the set was made of is put into it if it *)
(* is valid and none of its type comes later.                              *)
LEMMA HoldsPut ==
    ASSUME NEW L, Len(L) \in Nat, NEW i \in 1..Len(L), NEW set, HoldsFrom(set, L, i),
           NEW tlv, tlv.type = L[i][1], tlv.value = L[i][2]
    PROVE  HoldsFrom(TlvPut(tlv, set), L, i - 1)
<1> DEFINE n == Len(L)
           type == L[i][1]
           after == TlvPut(tlv, set)
           Has(d) == \A t \in DOMAIN d :
                        \E k \in i..n :
                            /\ L[k][1] = t /\ ValidAt(L, k) /\ d[t] = L[k][2]
                            /\ \A j \in k + 1..n : L[j][1] # t \/ ~ValidAt(L, j)
<1>1. i - 1 + 1 = i /\ i..n = (i + 1..n) \cup {i}
  BY SMT
<1>2. /\ set = [t \in DOMAIN set |-> set[t]]
      /\ DOMAIN set = {L[k][1] : k \in {j \in i + 1..n : ValidAt(L, j)}}
      /\ \A t \in DOMAIN set :
            \E k \in i + 1..n : /\ L[k][1] = t /\ ValidAt(L, k) /\ set[t] = L[k][2]
                                /\ \A j \in k + 1..n : L[j][1] # t \/ ~ValidAt(L, j)
  BY DEF HoldsFrom
<1>3. Has(set)
  BY <1>1, <1>2
<1>4. CASE type \in DOMAIN set \/ ~ValidAt(L, i)
  <2>1. after = set
    BY <1>4 DEF TlvPut, ValidAt
  <2>2. DOMAIN set = {L[k][1] : k \in {j \in i..n : ValidAt(L, j)}}
    BY <1>1, <1>2, <1>4, SMT
  <2> HIDE DEF after
  <2>3. HoldsFrom(after, L, i - 1)
    BY <1>1, <1>2, <1>3, <2>1, <2>2 DEF HoldsFrom
  <2> QED BY <2>3 DEF after
<1>5. CASE type \notin DOMAIN set /\ ValidAt(L, i)
  <2>1. after = [t \in DOMAIN set \cup {type} |-> IF t = type THEN L[i][2] ELSE set[t]]
    BY <1>5 DEF TlvPut, ValidAt
  <2>2. DOMAIN after = DOMAIN set \cup {type}
    BY <2>1
  <2>3. DOMAIN after = {L[k][1] : k \in {j \in i..n : ValidAt(L, j)}}
    <3> HIDE DEF after
    <3> QED BY <1>1, <1>2, <1>5, <2>2, SMT
  <2>4. after = [t \in DOMAIN after |-> after[t]] /\ after[type] = L[i][2]
        /\ \A t \in DOMAIN set : after[t] = set[t]
    BY <1>5, <2>1, <2>2
  <2> HIDE DEF after
  <2>5. \A j \in i + 1..n : L[j][1] # type \/ ~ValidAt(L, j)
    BY <1>2, <1>5
  <2>6. Has(after)
    <3>1. ASSUME NEW t \in DOMAIN after
          PROVE  \E k \in i..n : /\ L[k][1] = t /\ ValidAt(L, k) /\ after[t] = L[k][2]
                                 /\ \A j \in k + 1..n : L[j][1] # t \/ ~ValidAt(L, j)
      <4>1. CASE t = type
        BY <1>1, <1>5, <2>4, <2>5, <4>1
      <4>2. CASE t # type
        BY <1>3, <2>2, <2>4, <4>2
      <4> QED BY <4>1, <4>2
    <3> QED BY <3>1
  <2>7. HoldsFrom(after, L, i - 1)
    BY <1>1, <2>3, <2>4, <2>6 DEF HoldsFrom
  <2> QED BY <2>7 DEF after
<1> QED BY <1>4, <1>5

(* The TLVs of a list, serialized.                                         *)
LEMMA PiecesFlat ==
    ASSUME NEW L, IsTlvList(L)
    PROVE  /\ Pieces(L) \in Seq(Seq(Byte)) /\ Len(Pieces(L)) = Len(L)
           /\ \A i \in 1..Len(L) : Pieces(L)[i] = SerializeTlv(L[i][1], L[i][2])
<1> DEFINE n == Len(L)
           s == Pieces(L)
<1>1. n \in Nat /\ \A i \in 1..n : Fits(L[i])
  BY DEF IsTlvList
<1>2. s = [i \in 1..n |-> s[i]] /\ \A i \in 1..n : s[i] = SerializeTlv(L[i][1], L[i][2])
  BY DEF Pieces
<1>3. \A i \in 1..n : s[i] \in Seq(Byte)
  BY <1>1, <1>2, Serialized
<1> HIDE DEF s, n
<1>4. s \in Seq(Seq(Byte)) /\ Len(s) = n
  BY <1>1, <1>2, <1>3, SMT
<1> QED BY <1>2, <1>4 DEF s, n

(* How a TLV is put into the set.                                          *)
LEMMA SetAtTlv ==
    ASSUME NEW g, NEW buf \in Seq(Byte), NEW at \in 1..Len(buf), NEW type, NEW value, NEW next,
           DeserializeTlv(buf, at) =
               [error |-> "none", type |-> type, value |-> value, next |-> next]
    PROVE  LET tlv == DeserializeTlv(buf, at)
           IN  /\ tlv.type = type /\ tlv.value = value
               /\ g[next].error # "none" => SetAt(g, buf, at) = g[next]
               /\ g[next].error = "none" =>
                     SetAt(g, buf, at) = [error |-> "none", set |-> TlvPut(tlv, g[next].set)]
<1> DEFINE tlv == DeserializeTlv(buf, at)
<1>1. tlv.type = type /\ tlv.value = value /\ tlv.next = next /\ tlv.error = "none"
  BY SMT
<1>2. ~(at > Len(buf))
  BY SMT
<1> HIDE DEF tlv
<1>3. SetAt(g, buf, at) = IF tlv.error # "none" THEN tlv
                          ELSE IF g[tlv.next].error # "none" THEN g[tlv.next]
                          ELSE [error |-> "none", set |-> TlvPut(tlv, g[tlv.next].set)]
  BY <1>2 DEF SetAt, tlv
<1> QED BY <1>1, <1>3 DEF tlv

(* GetTlvSet of the TLVs of any list, serialized one after the other, is   *)
(* the last valid one of each type.                                        *)
LEMMA TlvSetWhole ==
    ASSUME NEW L, IsTlvList(L)
    PROVE  \E set : /\ HoldsFrom(set, L, 0)
                    /\ GetTlvSet(Concat(Pieces(L))) = [error |-> "none", set |-> set]
<1> DEFINE n == Len(L)
           s == Pieces(L)
           S == Concat(s)
<1>1. /\ n \in Nat /\ \A i \in 1..n : Fits(L[i])
      /\ s \in Seq(Seq(Byte)) /\ Len(s) = n
      /\ \A i \in 1..n : s[i] = SerializeTlv(L[i][1], L[i][2])
  BY PiecesFlat DEF IsTlvList
<1> HIDE DEF s, n
<1>2. S \in Seq(Byte) /\ \E off : Offsets(off, s)
  BY <1>1, ConcatOffsets
<1>3. PICK off : Offsets(off, s)
  BY <1>2
<1>4. /\ off \in [0..n -> Nat] /\ off[0] = 0 /\ Len(S) = off[n]
      /\ \A k \in 1..n : /\ off[k] = off[k - 1] + Len(s[k]) /\ off[k] <= off[n]
                         /\ \A j \in 1..Len(s[k]) : S[off[k - 1] + j] = s[k][j]
  BY <1>1, <1>3 DEF Offsets
<1> HIDE DEF S
<1>5. PICK g : SetSteps(g, S)
  BY <1>2, GetTlvSetSteps
<1>6. GetTlvSet(S) = g[1] /\ \A at \in 1..Len(S) + 1 : g[at] = SetAt(g, S, at)
  BY <1>5 DEF SetSteps
<1> DEFINE Good(i) == \E set : HoldsFrom(set, L, i) /\ g[off[i] + 1] = [error |-> "none", set |-> set]
           T == {m \in Nat : m <= n => Good(n - m)}
<1>7. 0 \in T
  <2>1. Len(S) \in Nat /\ Len(S) + 1 > Len(S) /\ Len(S) + 1 \in 1..Len(S) + 1
    BY <1>2, SMT
  <2>2. g[Len(S) + 1] = [error |-> "none", set |-> [t \in {} |-> <<>>]]
    BY <1>6, <2>1 DEF SetAt
  <2>3. HoldsFrom([t \in {} |-> <<>>], L, n)
    <3>1. \A j \in n + 1..Len(L) : FALSE
      BY <1>1, SMT DEF n
    <3>2. DOMAIN [t \in {} |-> <<>>] = {}
      OBVIOUS
    <3>3. [t \in {} |-> <<>>] = [u \in DOMAIN [t \in {} |-> <<>>] |-> [t \in {} |-> <<>>][u]]
      OBVIOUS
    <3>4. {L[k][1] : k \in {j \in n + 1..Len(L) : ValidAt(L, j)}} = {}
      BY <3>1
    <3> QED BY <3>2, <3>3, <3>4 DEF HoldsFrom
  <2>4. n - 0 = n
    BY <1>1, SMT
  <2>5. Good(n)
    BY <1>4, <2>2, <2>3
  <2> QED BY <2>4, <2>5
<1>8. ASSUME NEW m \in Nat, m \in T PROVE m + 1 \in T
  <2> SUFFICES ASSUME m + 1 <= n PROVE Good(n - (m + 1))
    <3> HIDE DEF Good
    <3> QED BY SMT
  <2> DEFINE i == n - m
             at == off[i - 1] + 1
  <2>1. i \in 1..n /\ n - (m + 1) = i - 1 /\ m <= n /\ i - 1 \in 0..n /\ i \in 0..n
    BY <1>1, SMT
  <2>2. PICK set : HoldsFrom(set, L, i) /\ g[off[i] + 1] = [error |-> "none", set |-> set]
    BY <1>8, <2>1
  <2> HIDE DEF i
  <2>3. /\ off[i - 1] \in Nat /\ off[i] = off[i - 1] + Len(s[i]) /\ off[i] <= Len(S)
        /\ \A j \in 1..Len(s[i]) : S[off[i - 1] + j] = s[i][j]
    BY <1>4, <2>1
  <2>4. Fits(L[i]) /\ s[i] = SerializeTlv(L[i][1], L[i][2])
    BY <1>1, <2>1
  <2>5. Len(s[i]) \in Nat /\ Len(s[i]) > 0
    <3>1. Len(s[i]) = HeaderLen(L[i][1]) + Len(L[i][2])
      BY <2>4, Serialized
    <3>2. Len(L[i][2]) \in Nat
      BY <2>4, SMT DEF Fits
    <3>3. HeaderLen(L[i][1]) \in {2, 4}
      BY DEF HeaderLen
    <3> QED BY <3>1, <3>2, <3>3, SMT
  <2>6. DeserializeTlv(S, at) =
            [error |-> "none", type |-> L[i][1], value |-> L[i][2], next |-> off[i] + 1]
    <3> DEFINE ser == SerializeTlv(L[i][1], L[i][2])
    <3>1. /\ off[i - 1] + Len(ser) <= Len(S) /\ off[i] = off[i - 1] + Len(ser)
          /\ \A j \in 1..Len(ser) : S[off[i - 1] + j] = ser[j]
      BY <2>3, <2>4
    <3>2. DeserializeTlv(S, off[i - 1] + 1) =
              [error |-> "none", type |-> L[i][1], value |-> L[i][2],
               next |-> off[i - 1] + Len(ser) + 1]
      BY <1>2, <2>3, <2>4, <3>1, Deserialized
    <3> QED BY <3>1, <3>2
  <2>7. at \in 1..Len(S) /\ at \in 1..Len(S) + 1
    <3>1. Len(S) \in Nat
      BY <1>2, SMT
    <3> QED BY <2>3, <2>5, <3>1, SMT
  <2> DEFINE tlv == DeserializeTlv(S, at)
             after == TlvPut(tlv, set)
  <2>8. /\ tlv.type = L[i][1] /\ tlv.value = L[i][2]
        /\ SetAt(g, S, at) = [error |-> "none", set |-> after]
    <3>1. g[off[i] + 1].error = "none" /\ g[off[i] + 1].set = set
      BY <2>2, SMT
    <3> HIDE DEF at
    <3>2. /\ tlv.type = L[i][1] /\ tlv.value = L[i][2]
          /\ g[off[i] + 1].error = "none" =>
                SetAt(g, S, at) = [error |-> "none", set |-> TlvPut(tlv, g[off[i] + 1].set)]
      BY <1>2, <2>6, <2>7, SetAtTlv, SMT
    <3> QED BY <3>1, <3>2
  <2> HIDE DEF tlv
  <2>9. HoldsFrom(after, L, i - 1)
    BY <1>1, <2>1, <2>2, <2>8, HoldsPut DEF n
  <2>10. g[at] = [error |-> "none", set |-> after]
    BY <1>6, <2>7, <2>8
  <2> HIDE DEF after
  <2>11. Good(i - 1)
    BY <2>9, <2>10
  <2> QED BY <2>1, <2>11
<1>9. \A m \in Nat : m \in T
  <2> HIDE DEF T
  <2> QED BY <1>7, <1>8, SetInduction
<1>10. Good(0)
  <2>1. n - n = 0 /\ n <= n
    BY <1>1, SMT
  <2> QED BY <1>1, <1>9, <2>1, ZenonT(30)
<1>11. off[0] + 1 = 1
  BY <1>4, SMT
<1> QED BY <1>6, <1>10, <1>11 DEF S, s

(* The bytes that are left of a TLV that is cut off.                       *)
LEMMA WithinCut ==
    ASSUME NEW a \in Nat, NEW N \in Nat, NEW l \in Nat, N < a + l, NEW j \in 1..N - a
    PROVE  j \in 1..l /\ a + j \in 1..N
  BY SMT

(* GetTlvSet of a payload whose last TLV is cut off, wherever, is an       *)
(* error.                                                                  *)
LEMMA TlvSetCut ==
    ASSUME NEW L, IsTlvList(L), Len(L) > 0, NEW c \in Nat, c > 0,
           c < Len(SerializeTlv(L[Len(L)][1], L[Len(L)][2])), NEW S, S = Concat(Pieces(L))
    PROVE  GetTlvSet(SubSeq(S, 1, Len(S) - c)) = [error |-> "bad"]
<1> DEFINE n == Len(L)
           s == Pieces(L)
           buf == SubSeq(S, 1, Len(S) - c)
<1>1. /\ n \in Nat /\ \A i \in 1..n : Fits(L[i])
      /\ s \in Seq(Seq(Byte)) /\ Len(s) = n
      /\ \A i \in 1..n : s[i] = SerializeTlv(L[i][1], L[i][2])
  BY PiecesFlat DEF IsTlvList
<1>2. n > 0
  OBVIOUS
<1>3. c < Len(s[n])
  <2>1. n \in 1..n
    BY <1>1, SMT
  <2> QED BY <1>1, <2>1
<1> HIDE DEF s, n
<1>4. S \in Seq(Byte) /\ \E off : Offsets(off, s)
  BY <1>1, ConcatOffsets DEF s
<1>5. PICK off : Offsets(off, s)
  BY <1>4
<1>6. /\ off \in [0..n -> Nat] /\ off[0] = 0 /\ Len(S) = off[n]
      /\ \A k \in 1..n : /\ off[k] = off[k - 1] + Len(s[k]) /\ off[k] <= off[n]
                         /\ \A i \in 1..k : off[i] <= off[k]
                         /\ \A j \in 1..Len(s[k]) : S[off[k - 1] + j] = s[k][j]
  BY <1>1, <1>5 DEF Offsets, s
<1>7. n - 1 \in 0..n /\ n \in 1..n /\ off[n - 1] \in Nat /\ Len(s[n]) \in Nat /\ off[n] = off[n - 1] + Len(s[n])
  <2>1. n - 1 \in 0..n /\ n \in 1..n
    BY <1>1, <1>2, SMT
  <2>2. s[n] \in Seq(Byte)
    BY <1>1, <2>1, SeqAt
  <2> QED BY <1>6, <2>1, <2>2, SMT
<1>8. Len(S) - c \in Nat /\ off[n - 1] < Len(S) - c /\ Len(S) - c < off[n - 1] + Len(s[n])
  <2>1. Len(S) = off[n - 1] + Len(s[n])
    BY <1>6, <1>7
  <2>2. ASSUME NEW x \in Nat, NEW l \in Nat, c < l
        PROVE  (x + l) - c \in Nat /\ x < (x + l) - c /\ (x + l) - c < x + l
    BY <2>2, SMT
  <2> QED BY <1>3, <1>7, <2>1, <2>2
<1>9. /\ buf \in Seq(Byte) /\ Len(buf) = Len(S) - c /\ \A j \in 1..Len(S) - c : buf[j] = S[j]
  <2> DEFINE N == Len(S) - c
  <2>1. N \in 0..Len(S) /\ Len(S) \in Nat
    BY <1>4, <1>8, SMT
  <2> HIDE DEF N
  <2>2. SubSeq(S, 1, N) \in Seq(Byte) /\ Len(SubSeq(S, 1, N)) = N /\ \A j \in 1..N : SubSeq(S, 1, N)[j] = S[j]
    BY <1>4, <2>1, SMT
  <2> QED BY <2>2 DEF N
<1> HIDE DEF buf
<1>10. PICK g : SetSteps(g, buf)
  BY <1>9, GetTlvSetSteps
<1>11. GetTlvSet(buf) = g[1] /\ \A at \in 1..Len(buf) + 1 : g[at] = SetAt(g, buf, at)
  BY <1>10 DEF SetSteps
<1>12. ASSUME NEW i \in 1..n
      PROVE  /\ off[i - 1] \in Nat /\ off[i] = off[i - 1] + Len(s[i]) /\ Len(s[i]) \in Nat /\ Len(s[i]) > 0
             /\ Fits(L[i]) /\ s[i] = SerializeTlv(L[i][1], L[i][2])
  <2>1. i - 1 \in 0..n
    BY <1>1, SMT
  <2>2. off[i - 1] \in Nat /\ off[i] = off[i - 1] + Len(s[i])
    BY <1>6, <2>1
  <2>3. Fits(L[i]) /\ s[i] = SerializeTlv(L[i][1], L[i][2])
    BY <1>1, <2>1
  <2>4. Len(s[i]) \in Nat /\ Len(s[i]) > 0
    <3>1. Len(s[i]) = HeaderLen(L[i][1]) + Len(L[i][2])
      BY <2>3, Serialized
    <3>2. Len(L[i][2]) \in Nat
      BY <2>3, SMT DEF Fits
    <3>3. HeaderLen(L[i][1]) \in {2, 4}
      BY DEF HeaderLen
    <3> QED BY <3>1, <3>2, <3>3, SMTT(20)
  <2> QED BY <2>2, <2>3, <2>4
<1> DEFINE T == {m \in Nat : m <= n - 1 => g[off[n - 1 - m] + 1] = [error |-> "bad"]}
<1>13. 0 \in T
  <2>1. \A j \in 1..Len(buf) - off[n - 1] : buf[off[n - 1] + j] = s[n][j]
    <3>1. ASSUME NEW j \in 1..Len(buf) - off[n - 1]
          PROVE  j \in 1..Len(s[n]) /\ off[n - 1] + j \in 1..Len(S) - c
      BY <1>7, <1>8, <1>9, WithinCut
    <3> QED BY <1>6, <1>7, <1>9, <3>1
  <2>2. off[n - 1] < Len(buf) /\ Len(buf) < off[n - 1] + Len(s[n])
    BY <1>8, <1>9
  <2>3. DeserializeTlv(buf, off[n - 1] + 1) = [error |-> "bad"]
    <3>1. Fits(L[n]) /\ s[n] = SerializeTlv(L[n][1], L[n][2])
      BY <1>7, <1>12
    <3> DEFINE ser == SerializeTlv(L[n][1], L[n][2])
    <3>2. /\ \A j \in 1..Len(buf) - off[n - 1] : buf[off[n - 1] + j] = ser[j]
          /\ off[n - 1] < Len(buf) /\ Len(buf) < off[n - 1] + Len(ser)
      BY <2>1, <2>2, <3>1
    <3> HIDE DEF ser
    <3> QED BY <1>7, <1>9, <3>1, <3>2, DeserializedCut DEF ser
  <2>4. off[n - 1] + 1 \in 1..Len(buf) + 1 /\ ~(off[n - 1] + 1 > Len(buf))
    <3>1. Len(buf) \in Nat /\ off[n - 1] \in Nat
      BY <1>7, <1>8, <1>9
    <3> QED BY <2>2, <3>1, SMT
  <2>5. [error |-> "bad"].error # "none"
    OBVIOUS
  <2>6. g[off[n - 1] + 1] = [error |-> "bad"]
    BY <1>11, <2>3, <2>4, <2>5 DEF SetAt
  <2>7. n - 1 - 0 = n - 1
    BY <1>1, SMT
  <2> QED BY <2>6, <2>7
<1>14. ASSUME NEW m \in Nat, m \in T PROVE m + 1 \in T
  <2> SUFFICES ASSUME m + 1 <= n - 1 PROVE g[off[n - 1 - (m + 1)] + 1] = [error |-> "bad"]
    BY SMT
  <2> DEFINE i == n - 1 - m
             at == off[i - 1] + 1
  <2>1. i \in 1..n - 1 /\ i \in 1..n /\ n - 1 - (m + 1) = i - 1 /\ m <= n - 1 /\ i <= n - 1
    BY <1>1, SMT
  <2>2. g[off[i] + 1] = [error |-> "bad"]
    BY <1>14, <2>1
  <2> HIDE DEF i
  <2>3. /\ off[i - 1] \in Nat /\ off[i] = off[i - 1] + Len(s[i]) /\ Len(s[i]) \in Nat /\ Len(s[i]) > 0
        /\ Fits(L[i]) /\ s[i] = SerializeTlv(L[i][1], L[i][2])
    BY <1>12, <2>1
  <2>4. off[i] <= off[n - 1]
    <3>1. n - 1 \in 1..n
      BY <1>1, <2>1, SMT
    <3> QED BY <1>6, <2>1, <3>1
  <2>5. off[i] <= Len(buf) /\ Len(buf) \in Nat
    <3>1. off[i] \in Nat
      BY <2>3, SMT
    <3>2. Len(buf) \in Nat /\ off[n - 1] < Len(buf)
      BY <1>8, <1>9
    <3> QED BY <1>7, <2>4, <3>1, <3>2, SMT
  <2>6. DeserializeTlv(buf, at) =
            [error |-> "none", type |-> L[i][1], value |-> L[i][2], next |-> off[i] + 1]
    <3> DEFINE ser == SerializeTlv(L[i][1], L[i][2])
    <3>1. /\ off[i - 1] + Len(ser) <= Len(buf) /\ off[i] = off[i - 1] + Len(ser)
      BY <2>3, <2>5
    <3>2. \A j \in 1..Len(ser) : buf[off[i - 1] + j] = ser[j]
      <4>1. ASSUME NEW j \in 1..Len(s[i]) PROVE off[i - 1] + j \in 1..Len(S) - c
        <5>1. off[i - 1] + Len(s[i]) <= Len(buf)
          BY <2>3, <2>5
        <5> QED BY <1>9, <2>3, <2>5, <5>1, Within
      <4>2. \A j \in 1..Len(s[i]) : S[off[i - 1] + j] = s[i][j]
        BY <1>6, <2>1
      <4>3. \A j \in 1..Len(s[i]) : buf[off[i - 1] + j] = s[i][j]
        BY <1>9, <4>1, <4>2
      <4> QED BY <2>3, <4>3
    <3>3. DeserializeTlv(buf, off[i - 1] + 1) =
              [error |-> "none", type |-> L[i][1], value |-> L[i][2],
               next |-> off[i - 1] + Len(ser) + 1]
      BY <1>9, <2>3, <3>1, <3>2, Deserialized
    <3> QED BY <3>1, <3>3
  <2>7. at \in 1..Len(buf) /\ at \in 1..Len(buf) + 1
    BY <2>3, <2>5, SMTT(20)
  <2>8. SetAt(g, buf, at) = [error |-> "bad"]
    <3>1. g[off[i] + 1].error # "none"
      BY <2>2, SMT
    <3> HIDE DEF at
    <3>2. g[off[i] + 1].error # "none" => SetAt(g, buf, at) = g[off[i] + 1]
      <4> DEFINE next == off[i] + 1
      <4> HIDE DEF next
      <4>1. DeserializeTlv(buf, at) =
                [error |-> "none", type |-> L[i][1], value |-> L[i][2], next |-> next]
        BY <2>6 DEF next
      <4>2. buf \in Seq(Byte)
        BY <1>9
      <4>3. g[next].error # "none" => SetAt(g, buf, at) = g[next]
        BY <2>7, <4>1, <4>2, SetAtTlv, SMT
      <4> QED BY <4>3 DEF next
    <3> QED BY <2>2, <3>1, <3>2
  <2>9. g[at] = [error |-> "bad"]
    BY <1>11, <2>7, <2>8
  <2> QED BY <2>1, <2>9
<1>15. \A m \in Nat : m \in T
  <2> HIDE DEF T
  <2> QED BY <1>13, <1>14, SetInduction, SMTT(20)
<1>16. g[1] = [error |-> "bad"]
  <2>1. n - 1 - (n - 1) = 0 /\ n - 1 <= n - 1 /\ n - 1 \in Nat /\ off[0] + 1 = 1
    BY <1>1, <1>6, <1>2, SMT
  <2> QED BY <1>15, <2>1
<1> QED BY <1>11, <1>16 DEF buf

-----------------------------------------------------------------------------
(* Numbers and timestamps.                                                 *)

(* Concatenation of sequences over X is associative.                       *)
Associates(X) == \A a, b, c \in Seq(X) : (a \o b) \o c = a \o (b \o c)

(* Appending byte arrays is associative.                                   *)
LEMMA ConcatAssoc == ASSUME NEW X PROVE Associates(X)
  BY SMT DEF Associates

(* Concat takes a first sequence apart from the others.                    *)
LEMMA ConcatCons ==
    ASSUME NEW X, NEW x \in Seq(X), NEW s \in Seq(Seq(X))
    PROVE  Concat(<<x>> \o s) = x \o Concat(s)
<1> DEFINE z == <<x>> \o s
           n == Len(s)
<1>1. /\ n \in Nat /\ z \in Seq(Seq(X)) /\ Len(z) = n + 1 /\ z[1] = x
      /\ \A k \in 1..n : z[k + 1] = s[k] /\ s[k] \in Seq(X)
  BY SMT
<1>2. PICK G \in [0..Len(s) -> Seq(X)] :
              /\ G[0] = <<>>
              /\ \A k \in 1..Len(s) : G[k] = G[k - 1] \o s[k]
              /\ Concat(s) = G[Len(s)]
  BY Concatenates
<1> HIDE DEF z, n
<1>3. PICK H \in [0..Len(z) -> Seq(X)] :
              /\ H[0] = <<>>
              /\ \A k \in 1..Len(z) : H[k] = H[k - 1] \o z[k]
              /\ Concat(z) = H[Len(z)]
  BY <1>1, Concatenates
<1> DEFINE T == {k \in Nat : k <= n => H[k + 1] = x \o G[k]}
<1>4. 0 \in T
  <2>1. H[0 + 1] = H[(0 + 1) - 1] \o z[0 + 1] /\ (0 + 1) - 1 = 0 /\ 0 + 1 = 1
    <3>1. 0 + 1 \in 1..Len(z) /\ (0 + 1) - 1 = 0 /\ 0 + 1 = 1
      BY <1>1, SMT
    <3> QED BY <1>3, <3>1
  <2>2. <<>> \o x = x /\ x \o <<>> = x
    BY SMT
  <2> QED BY <1>1, <1>2, <1>3, <2>1, <2>2
<1>5. ASSUME NEW k \in Nat, k \in T PROVE k + 1 \in T
  <2> SUFFICES ASSUME k + 1 <= n PROVE H[(k + 1) + 1] = x \o G[k + 1]
    BY SMT
  <2>1. /\ k + 1 \in 1..n /\ (k + 1) - 1 = k /\ (k + 1) + 1 \in 1..Len(z)
        /\ ((k + 1) + 1) - 1 = k + 1 /\ k <= n /\ k \in 0..n
    BY <1>1, SMT
  <2>2. H[k + 1] = x \o G[k]
    BY <1>5, <2>1
  <2>3. H[(k + 1) + 1] = H[k + 1] \o s[k + 1]
    BY <1>1, <1>3, <2>1
  <2>4. G[k + 1] = G[k] \o s[k + 1]
    BY <1>2, <2>1 DEF n
  <2>5. G[k] \in Seq(X) /\ s[k + 1] \in Seq(X)
    BY <1>1, <1>2, <2>1 DEF n
  <2>6. (x \o G[k]) \o s[k + 1] = x \o (G[k] \o s[k + 1])
    <3>1. Associates(X)
      BY ConcatAssoc
    <3> QED BY <2>5, <3>1 DEF Associates
  <2> QED BY <2>2, <2>3, <2>4, <2>6
<1>6. \A k \in Nat : k \in T
  <2> HIDE DEF T
  <2> QED BY <1>4, <1>5, SetInduction
<1>7. H[n + 1] = x \o G[n]
  <2>1. n \in Nat /\ n <= n
    BY <1>1, SMT
  <2> QED BY <1>6, <2>1
<1> QED BY <1>1, <1>2, <1>3, <1>7 DEF z, n

(* Two bytes and the number they encode.                                   *)
LEMMA Word ==
    ASSUME NEW a \in Byte, NEW b \in Byte
    PROVE  a * 256 + b \in Nat /\ Uint16(a * 256 + b) = <<a, b>>
<1>1. a * 256 + b \in Nat /\ (a * 256 + b) \div 256 = a /\ (a * 256 + b) % 256 = b
  BY SMT DEF Byte
<1> QED BY <1>1 DEF Uint16

(* Any eight bytes are a timestamp that encodes to them: Timestamp::Decode *)
(* and Timestamp::Encode.                                                  *)
LEMMA TimestampSurvives ==
    ASSUME NEW raw \in Seq(Byte), Len(raw) = 8
    PROVE  EncodeTimestamp(DecodeTimestamp(raw)) = raw
<1> DEFINE low == raw[7] * 256 + raw[8]
           t == DecodeTimestamp(raw)
<1>1. raw[7] \in Byte /\ raw[8] \in Byte
  <2>1. 7 \in 1..Len(raw) /\ 8 \in 1..Len(raw)
    BY SMT
  <2> QED BY <2>1, SeqAt
<1>2. low \in Nat /\ Uint16(low) = <<raw[7], raw[8]>>
  BY <1>1, Word
<1>3. t.seconds = SubSeq(raw, 1, 6) /\ t.ticks = low \div 2 /\ t.u = low % 2
  BY DEF DecodeTimestamp
<1>4. (low \div 2) * 2 + (low % 2) = low
  <2> HIDE DEF low
  <2> QED BY <1>2, SMT
<1>5. Uint16(t.ticks * 2 + t.u) = <<raw[7], raw[8]>>
  BY <1>2, <1>3, <1>4
<1>6. raw = SubSeq(raw, 1, 6) \o <<raw[7], raw[8]>>
  BY SMT
<1> QED BY <1>3, <1>5, <1>6 DEF EncodeTimestamp

-----------------------------------------------------------------------------
(* DecodeChannelMask, entry by entry.                                      *)

(* What DecodeChannelMask makes of the entry at buf[at], if g has made the *)
(* rest.                                                                   *)
MaskAt(g, buf, at) ==
    IF at > Len(buf) THEN [error |-> "none", mask |-> <<>>]
    ELSE IF at = Len(buf) \/ at + 1 + buf[at + 1] > Len(buf) THEN [error |-> "bad"]
    ELSE LET end == at + 1 + buf[at + 1]
             rest == g[end + 1]
         IN  IF rest.error # "none" THEN rest
             ELSE [rest EXCEPT !.mask =
                      <<[page |-> buf[at], masks |-> SubSeq(buf, at + 2, end)]>> \o @]

(* g is what DecodeChannelMask makes of every rest of buf from buf[a] on.  *)
MasksFrom(g, buf, a) == g = [at \in a..Len(buf) + 1 |-> MaskAt(g, buf, at)]

(* g holds the steps of DecodeChannelMask.                                 *)
MaskSteps(g, buf) ==
    DecodeChannelMask(buf) = g[1] /\ \A at \in 1..Len(buf) + 1 : g[at] = MaskAt(g, buf, at)

(* A channel mask entry that is read ends within the buffer.               *)
LEMMA MaskEnd ==
    ASSUME NEW buf \in Seq(Byte), NEW at \in 1..Len(buf),
           ~(at = Len(buf) \/ at + 1 + buf[at + 1] > Len(buf))
    PROVE  /\ buf[at] \in Byte /\ buf[at + 1] \in Byte /\ buf[at + 1] \in Nat
           /\ (at + 1 + buf[at + 1]) + 1 \in at + 1..Len(buf) + 1
<1>1. at + 1 \in 1..Len(buf) /\ Len(buf) \in Nat
  BY SMT
<1>2. buf[at] \in Byte /\ buf[at + 1] \in Byte
  BY <1>1, SeqAt
<1>3. buf[at + 1] \in Nat
  BY <1>2, ByteNat
<1>4. ASSUME NEW N \in Nat, NEW v \in Nat, at \in 1..N, ~(at + 1 + v > N)
      PROVE  (at + 1 + v) + 1 \in at + 1..N + 1
  BY <1>4, SMT
<1> QED BY <1>1, <1>2, <1>3, <1>4

(* What DecodeChannelMask makes of the entry at buf[at] depends on what it *)
(* makes of the bytes behind only.                                         *)
LEMMA MaskAtSame ==
    ASSUME NEW buf \in Seq(Byte), NEW at \in 1..Len(buf) + 1, NEW g, NEW h,
           \A i \in at + 1..Len(buf) + 1 : g[i] = h[i]
    PROVE  MaskAt(g, buf, at) = MaskAt(h, buf, at)
<1>1. CASE at > Len(buf)
  BY <1>1 DEF MaskAt
<1>2. CASE ~(at > Len(buf)) /\ (at = Len(buf) \/ at + 1 + buf[at + 1] > Len(buf))
  BY <1>2 DEF MaskAt
<1>3. CASE ~(at > Len(buf)) /\ ~(at = Len(buf) \/ at + 1 + buf[at + 1] > Len(buf))
  <2>1. at \in 1..Len(buf)
    BY <1>3, SMT
  <2>2. g[(at + 1 + buf[at + 1]) + 1] = h[(at + 1 + buf[at + 1]) + 1]
    BY <1>3, <2>1, MaskEnd
  <2> QED BY <1>3, <2>2 DEF MaskAt
<1> QED BY <1>1, <1>2, <1>3

(* The function that DecodeChannelMask applies exists: each entry is       *)
(* behind the one before.                                                  *)
LEMMA MasksDefined ==
    ASSUME NEW buf \in Seq(Byte) PROVE \E g : MasksFrom(g, buf, 1)
<1> DEFINE N == Len(buf)
           T == {m \in Nat : m <= N => \E g : MasksFrom(g, buf, N + 1 - m)}
<1>1. N \in Nat
  BY SMT
<1> HIDE DEF N
<1>2. 0 \in T
  <2> DEFINE g == [at \in N + 1..N + 1 |-> MaskAt(<<>>, buf, at)]
  <2>1. ASSUME NEW at \in N + 1..N + 1 PROVE MaskAt(g, buf, at) = MaskAt(<<>>, buf, at)
    <3>1. at > Len(buf)
      BY <1>1, SMT DEF N
    <3> QED BY <3>1 DEF MaskAt
  <2>2. g = [at \in N + 1..N + 1 |-> MaskAt(g, buf, at)]
    BY <2>1
  <2> HIDE DEF g
  <2>3. MasksFrom(g, buf, N + 1)
    BY <2>2 DEF MasksFrom, N
  <2>4. N + 1 - 0 = N + 1
    BY <1>1, SMT
  <2> QED BY <2>3, <2>4
<1>3. ASSUME NEW m \in Nat, m \in T PROVE m + 1 \in T
  <2> SUFFICES ASSUME m + 1 <= N PROVE \E g : MasksFrom(g, buf, N + 1 - (m + 1))
    BY SMT
  <2> DEFINE a == N + 1 - m
             b == N + 1 - (m + 1)
  <2>1. a \in 1..N + 1 /\ b \in 1..N /\ a = b + 1 /\ m <= N
    BY <1>1, SMT
  <2>2. PICK g : MasksFrom(g, buf, a)
    BY <1>3, <2>1
  <2> DEFINE h == [at \in b..N + 1 |-> IF at = b THEN MaskAt(g, buf, at) ELSE g[at]]
  <2>3. h = [at \in b..N + 1 |-> h[at]]
    OBVIOUS
  <2>4. \A at \in b..N + 1 : h[at] = IF at = b THEN MaskAt(g, buf, at) ELSE g[at]
    OBVIOUS
  <2>5. \A at \in a..N + 1 : g[at] = MaskAt(g, buf, at)
    BY <2>2 DEF MasksFrom, N
  <2> HIDE DEF h, a, b
  <2>6. ASSUME NEW at \in b..N + 1 PROVE h[at] = MaskAt(h, buf, at)
    <3>1. \A i \in at + 1..N + 1 : i \in a..N + 1 /\ i # b /\ i \in b..N + 1
      BY <1>1, <2>1, SMT
    <3>2. \A i \in at + 1..N + 1 : g[i] = h[i]
      BY <2>4, <3>1
    <3>3. at \in 1..N + 1
      BY <1>1, <2>1, SMT
    <3>4. MaskAt(g, buf, at) = MaskAt(h, buf, at)
      BY <3>2, <3>3, MaskAtSame DEF N
    <3>5. at = b \/ at \in a..N + 1
      BY <1>1, <2>1, SMT
    <3> QED BY <2>4, <2>5, <3>4, <3>5
  <2>7. MasksFrom(h, buf, b)
    BY <2>3, <2>6 DEF MasksFrom, N
  <2> QED BY <2>7 DEF b
<1>4. \A m \in Nat : m \in T
  <2> HIDE DEF T
  <2> QED BY <1>2, <1>3, SetInduction
<1>5. N + 1 - N = 1 /\ N <= N
  BY <1>1, SMT
<1> QED BY <1>1, <1>4, <1>5

(* DecodeChannelMask is its steps.                                         *)
LEMMA MaskStepsDefined ==
    ASSUME NEW buf \in Seq(Byte) PROVE \E g : MaskSteps(g, buf)
<1> DEFINE g == CHOOSE x : MasksFrom(x, buf, 1)
<1>1. DecodeChannelMask(buf) = g[1]
  BY DEF DecodeChannelMask, MasksFrom, MaskAt
<1>2. MasksFrom(g, buf, 1)
  BY MasksDefined
<1> HIDE DEF g
<1>3. \A at \in 1..Len(buf) + 1 : g[at] = MaskAt(g, buf, at)
  BY <1>2 DEF MasksFrom
<1>4. MaskSteps(g, buf)
  BY <1>1, <1>3 DEF MaskSteps
<1> QED BY <1>4

(* Channel masks whose length the length field of an entry holds, the      *)
(* entries of a channel mask, and the bytes that an entry is encoded to.   *)
ShortMasks == {s \in Seq(Byte) : Len(s) < 256}
MaskEntries == [page : Byte, masks : ShortMasks]
EntryBytes(e) == <<e.page, Len(e.masks)>> \o e.masks
MaskPieces(mask) == [i \in DOMAIN mask |-> EntryBytes(mask[i])]

(* The bytes of a channel mask entry.                                      *)
LEMMA EntryBytesType ==
    ASSUME NEW e \in MaskEntries PROVE EntryBytes(e) \in Seq(Byte)
<1>1. e.page \in Byte /\ e.masks \in Seq(Byte) /\ Len(e.masks) < 256
  BY DEF MaskEntries, ShortMasks
<1>2. Len(e.masks) \in Nat
  BY <1>1, SMT
<1>3. Len(e.masks) \in Byte
  BY <1>1, <1>2, ByteNat
<1> DEFINE a == <<e.page, Len(e.masks)>>
<1>4. a \in Seq(Byte)
  BY <1>1, <1>3, SMT
<1> HIDE DEF a
<1>5. a \o e.masks \in Seq(Byte)
  BY <1>1, <1>4, SMT
<1> QED BY <1>5 DEF EntryBytes, a

(* The entries of a channel mask are encoded one by one.                   *)
LEMMA MaskPiecesCons ==
    ASSUME NEW e \in MaskEntries, NEW m \in Seq(MaskEntries)
    PROVE  /\ MaskPieces(m) \in Seq(Seq(Byte))
           /\ MaskPieces(<<e>> \o m) = <<EntryBytes(e)>> \o MaskPieces(m)
<1> DEFINE n == Len(m)
           p == MaskPieces(m)
           z == <<e>> \o m
           q == MaskPieces(z)
<1>1. n \in Nat /\ DOMAIN m = 1..n /\ \A i \in 1..n : m[i] \in MaskEntries
  BY SMT
<1>2. DOMAIN z = 1..n + 1 /\ z[1] = e /\ \A i \in 1..n : z[i + 1] = m[i]
  BY SMT
<1>3. p = [i \in 1..n |-> p[i]] /\ \A i \in 1..n : p[i] = EntryBytes(m[i])
  BY <1>1 DEF MaskPieces
<1> HIDE DEF z, n
<1>4. q = [i \in 1..n + 1 |-> q[i]] /\ \A i \in 1..n + 1 : q[i] = EntryBytes(z[i])
  BY <1>2 DEF MaskPieces
<1> HIDE DEF p, q
<1>5. \A i \in 1..n : p[i] \in Seq(Byte)
  BY <1>1, <1>3, EntryBytesType
<1>6. p \in Seq(Seq(Byte)) /\ Len(p) = n
  BY <1>1, <1>3, <1>5, SMT
<1> DEFINE x == EntryBytes(e)
           u == <<x>> \o p
<1>7. x \in Seq(Byte)
  BY EntryBytesType
<1> HIDE DEF x
<1>8. u = [i \in 1..n + 1 |-> u[i]] /\ u[1] = x /\ \A i \in 1..n : u[i + 1] = p[i]
  BY <1>1, <1>6, <1>7, SMT
<1> HIDE DEF u
<1>9. ASSUME NEW i \in 1..n + 1 PROVE u[i] = q[i]
  <2>1. CASE i = 1
    BY <1>2, <1>4, <1>8, <2>1 DEF x
  <2>2. CASE i # 1
    <3>1. i - 1 \in 1..n /\ (i - 1) + 1 = i
      BY <1>1, <2>2, SMT
    <3>2. u[i] = p[i - 1] /\ z[i] = m[i - 1]
      BY <1>2, <1>8, <3>1
    <3> QED BY <1>3, <1>4, <3>1, <3>2
  <2> QED BY <2>1, <2>2
<1>10. u = q
  BY <1>4, <1>8, <1>9
<1> QED BY <1>6, <1>10 DEF p, q, u, x, z

(* EncodeChannelMask of one entry more in front.                           *)
LEMMA EncodeCons ==
    ASSUME NEW e \in MaskEntries, NEW m \in Seq(MaskEntries)
    PROVE  EncodeChannelMask(<<e>> \o m).buf = EntryBytes(e) \o EncodeChannelMask(m).buf
<1>1. ASSUME NEW x PROVE EncodeChannelMask(x).buf = Concat(MaskPieces(x))
  BY DEF EncodeChannelMask, MaskPieces, EntryBytes
<1>2. Concat(<<EntryBytes(e)>> \o MaskPieces(m)) = EntryBytes(e) \o Concat(MaskPieces(m))
  BY MaskPiecesCons, EntryBytesType, ConcatCons
<1>3. MaskPieces(<<e>> \o m) = <<EntryBytes(e)>> \o MaskPieces(m)
  BY MaskPiecesCons
<1> QED BY <1>1, <1>2, <1>3

(* EncodeChannelMask of a mask without entries.                            *)
LEMMA EncodeNone == EncodeChannelMask(<<>>).buf = <<>>
<1>1. EncodeChannelMask(<<>>).buf = Concat(MaskPieces(<<>>))
  BY DEF EncodeChannelMask, MaskPieces, EntryBytes
<1>2. MaskPieces(<<>>) = <<>>
  BY SMT DEF MaskPieces
<1>3. Concat(<<>>) = <<>>
  <2>1. <<>> \in Seq(Seq(Byte)) /\ Len(<<>>) = 0
    BY SMT
  <2>2. PICK G \in [0..Len(<<>>) -> Seq(Byte)] : G[0] = <<>> /\ Concat(<<>>) = G[Len(<<>>)]
    BY <2>1, Concatenates
  <2> QED BY <2>1, <2>2
<1> QED BY <1>1, <1>2, <1>3

(* The elements of a part of a sequence.                                   *)
LEMMA SubSeqAt ==
    ASSUME NEW X, NEW s \in Seq(X), NEW i \in Nat, NEW j \in Nat, 0 < i, i <= j + 1, j <= Len(s)
    PROVE  /\ SubSeq(s, i, j) \in Seq(X) /\ Len(SubSeq(s, i, j)) = j + 1 - i
           /\ \A k \in 1..j + 1 - i : SubSeq(s, i, j)[k] = s[i + k - 1]
  BY SMT

(* The elements of two sequences, one after the other.                     *)
LEMMA ConcatAt ==
    ASSUME NEW X, NEW a \in Seq(X), NEW b \in Seq(X)
    PROVE  /\ a \o b \in Seq(X) /\ Len(a \o b) = Len(a) + Len(b)
           /\ \A k \in 1..Len(a) + Len(b) :
                 (a \o b)[k] = IF k <= Len(a) THEN a[k] ELSE b[k - Len(a)]
  BY SMT

(* What is left of a buffer is the two bytes of a header, the value of     *)
(* which the header tells the length, and what is left behind it.          *)
LEMMA SubSeqSplit ==
    ASSUME NEW X, NEW s \in Seq(X), NEW a \in Nat, NEW b \in Nat, 0 < a, a + 1 <= b, b <= Len(s)
    PROVE  SubSeq(s, a, Len(s)) = (<<s[a], s[a + 1]>> \o SubSeq(s, a + 2, b)) \o SubSeq(s, b + 1, Len(s))
<1> DEFINE N == Len(s)
           u == SubSeq(s, a, N)
           h == <<s[a], s[a + 1]>>
           v == SubSeq(s, a + 2, b)
           w == SubSeq(s, b + 1, N)
<1>1. /\ N \in Nat /\ a + 2 \in Nat /\ b + 1 \in Nat /\ a <= N + 1 /\ N <= N /\ a + 2 <= b + 1
      /\ 0 < a + 2 /\ 0 < b + 1 /\ b + 1 <= N + 1
  BY SMT
<1>2. u \in Seq(X) /\ Len(u) = N + 1 - a /\ \A k \in 1..N + 1 - a : u[k] = s[a + k - 1]
  BY <1>1, SubSeqAt, SMT
<1>3. v \in Seq(X) /\ Len(v) = b + 1 - (a + 2) /\ \A k \in 1..b + 1 - (a + 2) : v[k] = s[a + 2 + k - 1]
  BY <1>1, SubSeqAt, SMT
<1>4. w \in Seq(X) /\ Len(w) = N + 1 - (b + 1) /\ \A k \in 1..N + 1 - (b + 1) : w[k] = s[b + 1 + k - 1]
  BY <1>1, SubSeqAt, SMT
<1>5. h \in Seq(X) /\ Len(h) = 2 /\ h[1] = s[a] /\ h[2] = s[a + 1]
  BY SMT
<1> DEFINE y == h \o v
           z == y \o w
<1>6. b <= N
  OBVIOUS
<1> HIDE DEF u, h, v, w, N
<1>7. /\ y \in Seq(X) /\ Len(y) = b + 1 - a
      /\ \A k \in 1..b + 1 - a : y[k] = IF k <= 2 THEN h[k] ELSE v[k - 2]
  <2>1. /\ y \in Seq(X) /\ Len(y) = Len(h) + Len(v)
        /\ \A k \in 1..Len(h) + Len(v) : y[k] = IF k <= Len(h) THEN h[k] ELSE v[k - Len(h)]
    BY <1>3, <1>5, ConcatAt
  <2>2. Len(h) + Len(v) = b + 1 - a
    BY <1>1, <1>3, <1>5, SMT
  <2> QED BY <1>5, <2>1, <2>2
<1> HIDE DEF y
<1>8. /\ z \in Seq(X) /\ Len(z) = N + 1 - a
      /\ \A k \in 1..N + 1 - a : z[k] = IF k <= b + 1 - a THEN y[k] ELSE w[k - (b + 1 - a)]
  <2>1. /\ z \in Seq(X) /\ Len(z) = Len(y) + Len(w)
        /\ \A k \in 1..Len(y) + Len(w) : z[k] = IF k <= Len(y) THEN y[k] ELSE w[k - Len(y)]
    BY <1>7, <1>4, ConcatAt
  <2>2. Len(y) + Len(w) = N + 1 - a
    BY <1>1, <1>4, <1>7, SMT
  <2> QED BY <1>7, <2>1, <2>2
<1> HIDE DEF z
<1>9. ASSUME NEW k \in 1..N + 1 - a PROVE z[k] = s[a + k - 1]
  <2>1. k \in Nat /\ k >= 1 /\ k <= N + 1 - a
    BY <1>1, SMT
  <2>2. CASE k \in {1, 2}
    <3>1. k <= 2 /\ k <= b + 1 - a /\ k \in 1..b + 1 - a
      BY <1>1, <2>2, SMT
    <3>2. z[k] = y[k] /\ y[k] = h[k]
      BY <1>8, <1>7, <3>1
    <3>3. h[k] = s[a + k - 1]
      BY <1>5, <2>2, SMT
    <3> QED BY <3>2, <3>3
  <2>3. CASE k > 2 /\ k <= b + 1 - a
    <3>1. k - 2 \in 1..b + 1 - (a + 2) /\ a + 2 + (k - 2) - 1 = a + k - 1 /\ ~(k <= 2) /\ k \in 1..b + 1 - a
      BY <1>1, <2>1, <2>3, SMT
    <3>2. z[k] = v[k - 2]
      BY <1>8, <1>7, <2>3, <3>1
    <3> QED BY <1>3, <3>1, <3>2
  <2>4. CASE k > b + 1 - a
    <3>1. /\ k - (b + 1 - a) \in 1..N + 1 - (b + 1) /\ b + 1 + (k - (b + 1 - a)) - 1 = a + k - 1
          /\ ~(k <= b + 1 - a)
      BY <1>1, <1>6, <2>1, <2>4, SMT
    <3>2. z[k] = w[k - (b + 1 - a)]
      BY <1>8, <3>1
    <3> QED BY <1>4, <3>1, <3>2
  <2> QED BY <1>1, <2>2, <2>3, <2>4, SMT
<1>10. u = z
  BY <1>1, <1>2, <1>8, <1>9, SMT
<1> QED BY <1>10 DEF u, z, y, h, v, w, N

(* r is what DecodeChannelMask makes of buf from at on: an error, or a     *)
(* mask that encodes to these bytes.                                       *)
IsMaskOf(r, buf, at) ==
    \/ r = [error |-> "bad"]
    \/ \E m \in Seq(MaskEntries) :
          r = [error |-> "none", mask |-> m] /\ EncodeChannelMask(m).buf = SubSeq(buf, at, Len(buf))

(* One more entry in front of a channel mask that was decoded.             *)
LEMMA MaskAtIs ==
    ASSUME NEW buf \in Seq(Byte), NEW g, NEW at \in 1..Len(buf),
           \A i \in at + 1..Len(buf) + 1 : IsMaskOf(g[i], buf, i)
    PROVE  IsMaskOf(MaskAt(g, buf, at), buf, at)
<1> DEFINE N == Len(buf)
           end == at + 1 + buf[at + 1]
           short == at = N \/ at + 1 + buf[at + 1] > N
           rest == g[end + 1]
           e == [page |-> buf[at], masks |-> SubSeq(buf, at + 2, end)]
<1>1. ~(at > N) /\ N \in Nat
  BY SMT
<1>2. MaskAt(g, buf, at) = IF short THEN [error |-> "bad"]
                           ELSE IF rest.error # "none" THEN rest
                           ELSE [rest EXCEPT !.mask = <<e>> \o @]
  BY <1>1 DEF MaskAt
<1>3. CASE short
  BY <1>2, <1>3 DEF IsMaskOf
<1>4. CASE ~short
  <2>1. buf[at] \in Byte /\ buf[at + 1] \in Byte /\ buf[at + 1] \in Nat /\ end + 1 \in at + 1..N + 1
    BY <1>4, MaskEnd
  <2>2. IsMaskOf(rest, buf, end + 1)
    BY <2>1
  <2> HIDE DEF rest, short
  <2>3. CASE rest = [error |-> "bad"]
    <3>1. rest.error # "none"
      BY <2>3
    <3> QED BY <1>2, <1>4, <2>3, <3>1 DEF IsMaskOf
  <2>4. CASE rest # [error |-> "bad"]
    <3>1. PICK m \in Seq(MaskEntries) : /\ rest = [error |-> "none", mask |-> m]
                                        /\ EncodeChannelMask(m).buf = SubSeq(buf, end + 1, N)
      BY <2>2, <2>4 DEF IsMaskOf
    <3>2. rest.error = "none" /\ [rest EXCEPT !.mask = <<e>> \o @] = [error |-> "none", mask |-> <<e>> \o m]
      <4>1. ASSUME NEW k, NEW x
            PROVE  LET r == [error |-> "none", mask |-> k]
                   IN  r.error = "none" /\ [r EXCEPT !.mask = x \o @] = [error |-> "none", mask |-> x \o k]
        <5> DEFINE r == [error |-> "none", mask |-> k]
        <5>1. r.error = "none" /\ [r EXCEPT !.mask = x \o @] \in [error : {"none"}, mask : {x \o k}]
          OBVIOUS
        <5>2. ASSUME NEW s, NEW y, s \in [error : {"none"}, mask : {y}]
              PROVE  s = [error |-> "none", mask |-> y]
          BY <5>2
        <5> QED BY <5>1, <5>2
      <4> HIDE DEF e
      <4> QED BY <3>1, <4>1
    <3>3. MaskAt(g, buf, at) = [error |-> "none", mask |-> <<e>> \o m]
      BY <1>2, <1>4, <3>2
    <3>4. /\ end \in Nat /\ at \in Nat /\ 0 < at /\ at + 1 <= end /\ end <= N /\ end + 1 - (at + 2) = buf[at + 1]
          /\ at + 2 \in Nat /\ 0 < at + 2 /\ at + 2 <= end + 1
      <4>1. ASSUME NEW x \in Nat, NEW y \in Nat, y = at + 1 + x, y + 1 \in at + 1..N + 1
            PROVE  /\ y \in Nat /\ at \in Nat /\ 0 < at /\ at + 1 <= y /\ y <= N /\ y + 1 - (at + 2) = x
                   /\ at + 2 \in Nat /\ 0 < at + 2 /\ at + 2 <= y + 1
        BY <1>1, <4>1, SMT
      <4>2. end \in Nat
        BY <2>1, SMT
      <4> QED BY <2>1, <4>1, <4>2
    <3> HIDE DEF end
    <3>5. SubSeq(buf, at + 2, end) \in Seq(Byte) /\ Len(SubSeq(buf, at + 2, end)) = buf[at + 1]
      BY <3>4, SubSeqAt
    <3>6. /\ e.page = buf[at] /\ e.masks = SubSeq(buf, at + 2, end) /\ e \in MaskEntries
          /\ Len(e.masks) = buf[at + 1]
      <4>1. \A b \in Byte : b < 256
        BY SMT DEF Byte
      <4>2. buf[at + 1] < 256
        BY <2>1, <4>1
      <4>3. SubSeq(buf, at + 2, end) \in ShortMasks
        BY <3>5, <4>2 DEF ShortMasks
      <4> HIDE DEF N
      <4> QED BY <2>1, <3>5, <4>3, SMTT(20) DEF MaskEntries
    <3>7. SubSeq(buf, at, N) = EntryBytes(e) \o SubSeq(buf, end + 1, N)
      <4>1. SubSeq(buf, at, N) = (<<buf[at], buf[at + 1]>> \o SubSeq(buf, at + 2, end)) \o SubSeq(buf, end + 1, N)
        BY <3>4, SubSeqSplit
      <4> HIDE DEF e
      <4> QED BY <3>6, <4>1 DEF EntryBytes
    <3> HIDE DEF e
    <3>8. EncodeChannelMask(<<e>> \o m).buf = SubSeq(buf, at, N)
      BY <3>1, <3>6, <3>7, EncodeCons
    <3>9. <<e>> \o m \in Seq(MaskEntries)
      BY <3>6, SMT
    <3> QED BY <3>3, <3>8, <3>9 DEF IsMaskOf
  <2> QED BY <2>3, <2>4
<1> QED BY <1>3, <1>4

(* A channel mask that is decoded without an error encodes to the same     *)
(* bytes.                                                                  *)
LEMMA MaskDecoded ==
    ASSUME NEW buf \in Seq(Byte)
    PROVE  IsMaskOf(DecodeChannelMask(buf), buf, 1)
<1> DEFINE N == Len(buf)
<1>1. PICK g : MaskSteps(g, buf)
  BY MaskStepsDefined
<1>2. DecodeChannelMask(buf) = g[1] /\ \A at \in 1..N + 1 : g[at] = MaskAt(g, buf, at)
  BY <1>1 DEF MaskSteps
<1> DEFINE T == {m \in Nat : \A at \in 1..N + 1 : N + 1 - at <= m => IsMaskOf(g[at], buf, at)}
<1>3. N \in Nat
  BY SMT
<1>4. IsMaskOf(g[N + 1], buf, N + 1)
  <2>1. N + 1 > N /\ N + 1 \in 1..N + 1
    BY <1>3, SMT
  <2>2. g[N + 1] = [error |-> "none", mask |-> <<>>]
    BY <1>2, <2>1 DEF MaskAt
  <2>3. SubSeq(buf, N + 1, N) = <<>> /\ <<>> \in Seq(MaskEntries)
    BY SMT
  <2> QED BY <2>2, <2>3, EncodeNone DEF IsMaskOf
<1> HIDE DEF N
<1>5. 0 \in T
  <2>1. ASSUME NEW at \in 1..N + 1, N + 1 - at <= 0 PROVE at = N + 1
    BY <1>3, <2>1, SMT
  <2> QED BY <1>4, <2>1
<1>6. ASSUME NEW m \in Nat, m \in T PROVE m + 1 \in T
  <2> SUFFICES ASSUME NEW at \in 1..N + 1, N + 1 - at <= m + 1 PROVE IsMaskOf(g[at], buf, at)
    BY SMT
  <2>1. CASE at = N + 1
    BY <1>4, <2>1
  <2>2. CASE at # N + 1
    <3>1. at \in 1..N /\ \A i \in at + 1..N + 1 : i \in 1..N + 1 /\ N + 1 - i <= m
      BY <1>3, <2>2, SMT
    <3>2. \A i \in at + 1..N + 1 : IsMaskOf(g[i], buf, i)
      BY <1>6, <3>1
    <3>3. IsMaskOf(MaskAt(g, buf, at), buf, at)
      BY <3>1, <3>2, MaskAtIs DEF N
    <3> QED BY <1>2, <3>3
  <2> QED BY <2>1, <2>2
<1>7. \A m \in Nat : m \in T
  <2> HIDE DEF T
  <2> QED BY <1>5, <1>6, SetInduction
<1>8. IsMaskOf(g[1], buf, 1)
  <2>1. 1 \in 1..N + 1 /\ N + 1 - 1 <= N
    BY <1>3, SMT
  <2> QED BY <1>3, <1>7, <2>1
<1> QED BY <1>2, <1>8

-----------------------------------------------------------------------------
(* The fields of a dataset: EncodeField and DecodeField.                   *)

(* A channel mask that EncodeChannelMask accepts is decoded by             *)
(* DecodeChannelMask to itself.                                            *)
LEMMA MaskEncoded ==
    ASSUME NEW mask \in Seq(MaskEntries)
    PROVE  /\ EncodeChannelMask(mask).buf \in Seq(Byte)
           /\ DecodeChannelMask(EncodeChannelMask(mask).buf) = [error |-> "none", mask |-> mask]
<1> DEFINE n == Len(mask)
           s == MaskPieces(mask)
           S == Concat(s)
<1>1. n \in Nat /\ DOMAIN mask = 1..n /\ \A i \in 1..n : mask[i] \in MaskEntries
  BY SMT
<1>2. EncodeChannelMask(mask).buf = S
  BY DEF EncodeChannelMask, MaskPieces, EntryBytes
<1>3. /\ s \in Seq(Seq(Byte)) /\ Len(s) = n /\ \A i \in 1..n : s[i] = EntryBytes(mask[i])
  <2>1. s = [i \in 1..n |-> EntryBytes(mask[i])]
    BY <1>1 DEF MaskPieces
  <2>2. \A i \in 1..n : EntryBytes(mask[i]) \in Seq(Byte)
    BY <1>1, EntryBytesType
  <2> HIDE DEF s, n
  <2> QED BY <1>1, <2>1, <2>2, SMT
<1> HIDE DEF s, n
<1>4. S \in Seq(Byte) /\ \E off : Offsets(off, s)
  BY <1>3, ConcatOffsets
<1>5. PICK off : Offsets(off, s)
  BY <1>4
<1>6. /\ off \in [0..n -> Nat] /\ off[0] = 0 /\ Len(S) = off[n]
      /\ \A k \in 1..n : /\ off[k] = off[k - 1] + Len(s[k]) /\ off[k] <= off[n]
                         /\ \A j \in 1..Len(s[k]) : S[off[k - 1] + j] = s[k][j]
  BY <1>3, <1>5 DEF Offsets
<1> HIDE DEF S
<1>7. PICK g : MaskSteps(g, S)
  BY <1>4, MaskStepsDefined
<1>8. DecodeChannelMask(S) = g[1] /\ \A at \in 1..Len(S) + 1 : g[at] = MaskAt(g, S, at)
  BY <1>7 DEF MaskSteps
<1> DEFINE Rest(i) == SubSeq(mask, i + 1, n)
           Good(i) == g[off[i] + 1] = [error |-> "none", mask |-> Rest(i)]
           T == {m \in Nat : m <= n => Good(n - m)}
<1>9. 0 \in T
  <2>1. Len(S) \in Nat /\ Len(S) + 1 > Len(S) /\ Len(S) + 1 \in 1..Len(S) + 1
    BY <1>4, SMT
  <2>2. g[Len(S) + 1] = [error |-> "none", mask |-> <<>>]
    BY <1>8, <2>1 DEF MaskAt
  <2>3. n - 0 = n /\ SubSeq(mask, n + 1, n) = <<>>
    BY <1>1, SMT
  <2>4. Good(n)
    BY <1>6, <2>2, <2>3
  <2> QED BY <2>3, <2>4
<1>10. ASSUME NEW m \in Nat, m \in T PROVE m + 1 \in T
  <2> SUFFICES ASSUME m + 1 <= n PROVE Good(n - (m + 1))
    <3> HIDE DEF Good
    <3> QED BY SMT
  <2> DEFINE i == n - m
             at == off[i - 1] + 1
             e == mask[i]
  <2>1. i \in 1..n /\ n - (m + 1) = i - 1 /\ m <= n /\ i - 1 \in 0..n /\ i \in 0..n
    BY <1>1, SMT
  <2>2. g[off[i] + 1] = [error |-> "none", mask |-> SubSeq(mask, i + 1, n)]
    BY <1>10, <2>1
  <2> HIDE DEF i
  <2>3. /\ off[i - 1] \in Nat /\ off[i] = off[i - 1] + Len(s[i]) /\ off[i] <= Len(S)
        /\ \A j \in 1..Len(s[i]) : S[off[i - 1] + j] = s[i][j]
    BY <1>6, <2>1
  <2>4. e \in MaskEntries /\ s[i] = EntryBytes(e)
    BY <1>1, <1>3, <2>1
  <2> HIDE DEF e
  <2>5. e.page \in Byte /\ e.masks \in Seq(Byte) /\ Len(e.masks) \in Nat
    BY <2>4, SMT DEF MaskEntries, ShortMasks
  <2>6. e = [page |-> e.page, masks |-> e.masks]
    BY <2>4 DEF MaskEntries
  <2>7. /\ Len(s[i]) = Len(e.masks) + 2 /\ s[i][1] = e.page /\ s[i][2] = Len(e.masks)
        /\ \A j \in 1..Len(e.masks) : s[i][j + 2] = e.masks[j]
    BY <2>4, <2>5, SMT DEF EntryBytes
  <2>8. Len(S) \in Nat
    BY <1>4, SMT
  <2>9. /\ at \in 1..Len(S) /\ at \in 1..Len(S) + 1 /\ ~(at > Len(S)) /\ at # Len(S)
        /\ at + 1 + Len(e.masks) = off[i] /\ ~(off[i] > Len(S))
        /\ 1 \in 1..Len(s[i]) /\ 2 \in 1..Len(s[i]) /\ at + 1 = off[i - 1] + 2 /\ at + 2 = off[i - 1] + 3
        /\ \A j \in 1..Len(e.masks) : j + 2 \in 1..Len(s[i]) /\ at + 1 + j = off[i - 1] + (j + 2)
        /\ at + 1 \in Nat /\ at + 1 + Len(e.masks) <= Len(S) /\ at + 1 + 1 = at + 2
    <3> DEFINE o == off[i - 1]
               l == Len(e.masks)
               z == off[i]
               N == Len(S)
               y == Len(s[i])
    <3>1. o \in Nat /\ l \in Nat /\ N \in Nat /\ y = l + 2 /\ z = o + y /\ z <= N
      BY <2>3, <2>5, <2>7, <2>8
    <3> HIDE DEF o, l, z, N, y
    <3>2. /\ o + 1 \in 1..N /\ o + 1 \in 1..N + 1 /\ ~(o + 1 > N) /\ o + 1 # N
          /\ o + 1 + 1 + l = z /\ ~(z > N)
          /\ 1 \in 1..y /\ 2 \in 1..y /\ o + 1 + 1 = o + 2 /\ o + 1 + 2 = o + 3
          /\ \A j \in 1..l : j + 2 \in 1..y /\ o + 1 + 1 + j = o + (j + 2)
          /\ o + 1 + 1 \in Nat /\ o + 1 + 1 + l <= N /\ o + 1 + 1 + 1 = o + 1 + 2
      BY <3>1, SMT
    <3> QED BY <3>2 DEF o, l, z, N, y
  <2>10. S[at] = e.page /\ S[at + 1] = Len(e.masks)
    BY <2>3, <2>7, <2>9
  <2>11. \A j \in 1..Len(e.masks) : S[at + 1 + j] = e.masks[j]
    BY <2>3, <2>7, <2>9
  <2> DEFINE b == at + 1
  <2>12. SubSeq(S, at + 2, off[i]) = e.masks
    <3>1. b \in Nat /\ b + Len(e.masks) <= Len(S)
      BY <2>9
    <3>2. \A j \in 1..Len(e.masks) : S[b + j] = e.masks[j]
      BY <2>11
    <3>3. SubSeq(S, b + 1, b + Len(e.masks)) = e.masks
      <4> HIDE DEF b
      <4> QED BY <1>4, <2>5, <3>1, <3>2, SubSeqIs
    <3> QED BY <2>9, <3>3
  <2> HIDE DEF at
  <2> DEFINE rest == g[off[i] + 1]
             tail == SubSeq(mask, i + 1, n)
  <2>13. rest.error = "none" /\ [rest EXCEPT !.mask = <<e>> \o @] = [error |-> "none", mask |-> <<e>> \o tail]
    <3> DEFINE r == [error |-> "none", mask |-> tail]
               x == <<e>>
    <3>1. rest = r
      BY <2>2
    <3> HIDE DEF rest, tail, x
    <3>2. r.error = "none" /\ [r EXCEPT !.mask = x \o @] \in [error : {"none"}, mask : {x \o tail}]
      OBVIOUS
    <3>3. ASSUME NEW q, NEW y, q \in [error : {"none"}, mask : {y}]
          PROVE  q = [error |-> "none", mask |-> y]
      BY <3>3
    <3> QED BY <3>1, <3>2, <3>3 DEF x
  <2>14. MaskAt(g, S, at) = [rest EXCEPT !.mask = <<[page |-> S[at], masks |-> SubSeq(S, at + 2, off[i])]>> \o @]
    BY <2>9, <2>10, <2>13 DEF MaskAt
  <2>15. MaskAt(g, S, at) = [rest EXCEPT !.mask = <<e>> \o @]
    BY <2>6, <2>10, <2>12, <2>14
  <2>17. <<e>> \o SubSeq(mask, i + 1, n) = SubSeq(mask, i, n)
    BY <1>1, <2>1, <2>4, SMT DEF e, n
  <2>18. g[at] = [error |-> "none", mask |-> SubSeq(mask, i, n)]
    BY <1>8, <2>9, <2>13, <2>15, <2>17
  <2>19. (i - 1) + 1 = i
    BY <2>1, SMT
  <2>20. Good(i - 1)
    BY <2>18, <2>19 DEF at
  <2> QED BY <2>1, <2>20
<1>11. \A m \in Nat : m \in T
  <2> HIDE DEF T
  <2> QED BY <1>9, <1>10, SetInduction
<1>12. Good(0)
  <2>1. n - n = 0 /\ n <= n
    BY <1>1, SMT
  <2> QED BY <1>1, <1>11, <2>1, ZenonT(30)
<1>13. off[0] + 1 = 1 /\ SubSeq(mask, 0 + 1, n) = mask
  BY <1>1, <1>6, SMT DEF n
<1>14. DecodeChannelMask(S) = [error |-> "none", mask |-> mask]
  BY <1>8, <1>12, <1>13
<1> QED BY <1>2, <1>4, <1>14

(* utils::Encode and utils::Decode of a number of 16 bits: the two bytes   *)
(* make it up again.                                                       *)
LEMMA WordEncoded ==
    ASSUME NEW n \in TwoBytes
    PROVE  /\ Uint16(n) \in Seq(Byte) /\ Len(Uint16(n)) = 2
           /\ Uint16(n)[1] * 256 + Uint16(n)[2] = n
<1>1. n \in Nat /\ n \div 256 \in Byte
  BY DEF TwoBytes
<1> DEFINE a == n \div 256
           b == n % 256
<1>2. a \in Byte /\ b \in Nat /\ b < 256 /\ a * 256 + b = n
  BY <1>1, SMT
<1> HIDE DEF a, b
<1>3. a \in Byte /\ b \in Byte
  BY <1>2, ByteNat
<1>4. Uint16(n) = <<a, b>>
  BY DEF Uint16, a, b
<1>5. <<a, b>> \in Seq(Byte) /\ Len(<<a, b>>) = 2 /\ <<a, b>>[1] = a /\ <<a, b>>[2] = b
  BY <1>3, SMT
<1> HIDE DEF a, b
<1>6. Uint16(n)[1] = a /\ Uint16(n)[2] = b
  BY <1>4, <1>5
<1> QED BY <1>2, <1>4, <1>5, <1>6

(* A timestamp, after EncodeTimestamp, is decoded to itself.               *)
LEMMA TimestampEncoded ==
    ASSUME NEW t \in [seconds : {s \in Seq(Byte) : Len(s) = 6}, ticks : Ticks, u : {0, 1}]
    PROVE  /\ EncodeTimestamp(t) \in Seq(Byte) /\ Len(EncodeTimestamp(t)) = 8
           /\ DecodeTimestamp(EncodeTimestamp(t)) = t
<1> DEFINE a == t.seconds
           n == t.ticks * 2 + t.u
           b == Uint16(n)
           v == a \o b
<1>1. a \in Seq(Byte) /\ Len(a) = 6 /\ t.ticks \in Ticks /\ t.u \in {0, 1}
  OBVIOUS
<1>2. n \in TwoBytes /\ n \div 2 = t.ticks /\ n % 2 = t.u
  <2>1. ASSUME NEW k \in Ticks, NEW i \in {0, 1}
        PROVE  k * 2 + i \in TwoBytes /\ (k * 2 + i) \div 2 = k /\ (k * 2 + i) % 2 = i
    <3>1. k \in Nat /\ k \div 128 \in Byte
      BY DEF Ticks
    <3>2. k * 2 + i \in Nat /\ (k * 2 + i) \div 256 = k \div 128 /\ (k * 2 + i) \div 2 = k /\ (k * 2 + i) % 2 = i
      BY <3>1, SMT
    <3> QED BY <3>1, <3>2 DEF TwoBytes
  <2> QED BY <1>1, <2>1
<1>3. t = [seconds |-> a, ticks |-> t.ticks, u |-> t.u]
  OBVIOUS
<1> HIDE DEF n
<1>4. b \in Seq(Byte) /\ Len(b) = 2 /\ b[1] * 256 + b[2] = n
  BY <1>2, WordEncoded
<1>5. EncodeTimestamp(t) = v
  BY DEF EncodeTimestamp, n
<1> HIDE DEF a, b
<1>6. v \in Seq(Byte) /\ Len(v) = 8 /\ v[7] = b[1] /\ v[8] = b[2] /\ \A j \in 1..6 : v[0 + j] = a[j]
  <2>1. /\ v \in Seq(Byte) /\ Len(v) = Len(a) + Len(b)
        /\ \A k \in 1..Len(a) + Len(b) : v[k] = IF k <= Len(a) THEN a[k] ELSE b[k - Len(a)]
    BY <1>1, <1>4, ConcatAt
  <2>2. Len(v) = 8 /\ \A k \in 1..8 : v[k] = IF k <= 6 THEN a[k] ELSE b[k - 6]
    BY <1>1, <1>4, <2>1, SMT
  <2> HIDE DEF v
  <2>3. v[7] = b[7 - 6] /\ v[8] = b[8 - 6] /\ \A k \in 1..6 : v[k] = a[k]
    BY <2>2, SMT
  <2>4. 7 - 6 = 1 /\ 8 - 6 = 2 /\ \A k \in 1..6 : 0 + k = k
    BY SMT
  <2> QED BY <2>1, <2>2, <2>3, <2>4
<1>7. SubSeq(v, 1, 6) = a
  <2> HIDE DEF v
  <2>1. 0 \in Nat /\ 0 + Len(a) <= Len(v) /\ 0 + 1 = 1 /\ 0 + Len(a) = 6
    BY <1>1, <1>6, SMT
  <2> QED BY <1>1, <1>6, <2>1, SubSeqIs
<1> HIDE DEF v
<1>8. v[7] * 256 + v[8] = n
  BY <1>4, <1>6
<1>9. DecodeTimestamp(v) = [seconds |-> a, ticks |-> n \div 2, u |-> n % 2]
  BY <1>7, <1>8 DEF DecodeTimestamp
<1> QED BY <1>2, <1>3, <1>5, <1>6, <1>9

(* A field, after EncodeField, is decoded to itself: DecodeField.          *)
LEMMA FieldEncoded ==
    ASSUME NEW f, NEW v \in FieldValues(f),
           f = "ChannelMask" => EncodeChannelMask(v).error = "none"
    PROVE  /\ EncodeField(f, v) \in Seq(Byte)
           /\ DecodeField(f, EncodeField(f, v)) = v
           /\ f = "ChannelMask" => DecodeChannelMask(EncodeField(f, v)).error = "none"
<1> DEFINE x == EncodeField(f, v)
<1>1. CASE f \in Timestamps
  <2>1. /\ f # "ChannelMask" /\ x = EncodeTimestamp(v) /\ DecodeField(f, x) = DecodeTimestamp(x)
    BY <1>1 DEF DecodeField, EncodeField, Timestamps, Uint16Fields
  <2>2. v \in [seconds : {s \in Seq(Byte) : Len(s) = 6}, ticks : Ticks, u : {0, 1}]
    BY <1>1 DEF FieldValues, Timestamps, Uint16Fields
  <2> QED BY <2>1, <2>2, TimestampEncoded
<1>2. CASE f \in Uint16Fields
  <2>1. f # "ChannelMask" /\ f \notin Timestamps
    BY <1>2 DEF Timestamps, Uint16Fields
  <2>2. x = Uint16(v) /\ v \in TwoBytes
    BY <1>2 DEF EncodeField, FieldValues, Timestamps, Uint16Fields
  <2>3. DecodeField(f, x) = x[1] * 256 + x[2]
    <3> HIDE DEF x
    <3> QED BY <1>2, SMT DEF DecodeField, Timestamps, Uint16Fields
  <2> QED BY <2>1, <2>2, <2>3, WordEncoded, SMT
<1>3. CASE f = "Channel"
  <2>1. f # "ChannelMask" /\ f \notin Timestamps /\ f \notin Uint16Fields
    BY <1>3 DEF Timestamps, Uint16Fields
  <2>2. v \in [page : Byte, number : TwoBytes] /\ x = <<v.page>> \o Uint16(v.number)
    BY <1>3, <2>1 DEF EncodeField, FieldValues
  <2>3. DecodeField(f, x) = [page |-> x[1], number |-> x[2] * 256 + x[3]]
    <3> HIDE DEF x
    <3> QED BY <1>3, <2>1 DEF DecodeField
  <2> DEFINE b == Uint16(v.number)
             p == v.page
  <2>4. p \in Byte /\ v.number \in TwoBytes
    BY <2>2
  <2>5. b \in Seq(Byte) /\ Len(b) = 2 /\ b[1] * 256 + b[2] = v.number
    BY <2>4, WordEncoded
  <2>6. v = [page |-> p, number |-> v.number]
    BY <2>2
  <2> HIDE DEF x, b, p
  <2>7. x = <<p>> \o b
    BY <2>2 DEF b, p
  <2>8. x \in Seq(Byte) /\ x[1] = p /\ x[2] = b[1] /\ x[3] = b[2]
    BY <2>4, <2>5, <2>7, SMT
  <2>9. DecodeField(f, x) = v
    BY <2>3, <2>5, <2>6, <2>8
  <2> QED BY <2>1, <2>8, <2>9 DEF x
<1>4. CASE f = "ChannelMask"
  <2>1. f \notin Timestamps /\ f \notin Uint16Fields
    BY <1>4 DEF Timestamps, Uint16Fields
  <2>2. v \in Seq([page : Byte, masks : Seq(Byte)]) /\ x = EncodeChannelMask(v).buf
    BY <1>4, <2>1 DEF EncodeField, FieldValues
  <2>3. DecodeField(f, x) = DecodeChannelMask(x).mask
    <3> HIDE DEF x
    <3> QED BY <1>4, <2>1 DEF DecodeField
  <2>4. \A i \in DOMAIN v : ~(Len(v[i].masks) >= kEscapeLength)
    <3>1. EncodeChannelMask(v).error = "none"
      BY <1>4
    <3> QED BY <3>1 DEF EncodeChannelMask
  <2>5. v \in Seq(MaskEntries)
    <3>1. \A i \in 1..Len(v) : v[i] \in [page : Byte, masks : Seq(Byte)] /\ i \in DOMAIN v
      <4>1. ASSUME NEW X, v \in Seq(X) PROVE \A i \in 1..Len(v) : v[i] \in X /\ i \in DOMAIN v
        BY <4>1, SMT
      <4> QED BY <2>2, <4>1
    <3>2. ASSUME NEW i \in 1..Len(v) PROVE v[i] \in MaskEntries
      <4> DEFINE e == v[i]
      <4>1. e \in [page : Byte, masks : Seq(Byte)] /\ i \in DOMAIN v
        BY <3>1
      <4>2. ~(Len(e.masks) >= 255)
        BY <2>4, <4>1 DEF kEscapeLength
      <4> HIDE DEF e
      <4>3. e.page \in Byte /\ e.masks \in Seq(Byte) /\ e = [page |-> e.page, masks |-> e.masks]
        BY <4>1
      <4>4. Len(e.masks) \in Nat
        BY <4>3, SMT
      <4>5. e.masks \in ShortMasks
        BY <4>2, <4>3, <4>4, SMT DEF ShortMasks
      <4>6. e \in MaskEntries
        BY <4>3, <4>5 DEF MaskEntries
      <4> QED BY <4>6 DEF e
    <3>3. ASSUME NEW X, v \in Seq(X) PROVE v \in Seq(MaskEntries)
      BY <3>2, <3>3, SMT
    <3> QED BY <2>2, <3>3
  <2>6. x \in Seq(Byte) /\ DecodeChannelMask(x) = [error |-> "none", mask |-> v]
    BY <2>2, <2>5, MaskEncoded
  <2> HIDE DEF x
  <2>7. DecodeChannelMask(x).mask = v /\ DecodeChannelMask(x).error = "none"
    BY <2>6, SMT
  <2> QED BY <2>3, <2>6, <2>7 DEF x
<1>5. CASE f = "SecurityPolicy"
  <2>1. f # "ChannelMask" /\ f \notin Timestamps /\ f \notin Uint16Fields
    BY <1>5 DEF Timestamps, Uint16Fields
  <2>2. v \in [rotationTime : TwoBytes, flags : Seq(Byte)] /\ x = Uint16(v.rotationTime) \o v.flags
    BY <1>5, <2>1 DEF EncodeField, FieldValues
  <2>3. DecodeField(f, x) = [rotationTime |-> x[1] * 256 + x[2], flags |-> SubSeq(x, 3, Len(x))]
    <3> HIDE DEF x
    <3> QED BY <1>5, <2>1 DEF DecodeField
  <2> DEFINE b == Uint16(v.rotationTime)
             c == v.flags
  <2>4. c \in Seq(Byte) /\ v.rotationTime \in TwoBytes
    BY <2>2
  <2>5. b \in Seq(Byte) /\ Len(b) = 2 /\ b[1] * 256 + b[2] = v.rotationTime
    BY <2>4, WordEncoded
  <2>6. v = [rotationTime |-> v.rotationTime, flags |-> c]
    BY <2>2
  <2> HIDE DEF x, b, c
  <2>7. x = b \o c
    BY <2>2 DEF b, c
  <2>8. /\ x \in Seq(Byte) /\ Len(x) = 2 + Len(c) /\ Len(c) \in Nat /\ x[1] = b[1] /\ x[2] = b[2]
        /\ \A j \in 1..Len(c) : x[2 + j] = c[j]
    <3>1. /\ x \in Seq(Byte) /\ Len(x) = Len(b) + Len(c)
          /\ \A k \in 1..Len(b) + Len(c) : x[k] = IF k <= Len(b) THEN b[k] ELSE c[k - Len(b)]
      BY <2>4, <2>5, <2>7, ConcatAt
    <3>2. Len(c) \in Nat
      BY <2>4, SMT
    <3> QED BY <2>5, <3>1, <3>2, SMT
  <2>9. SubSeq(x, 3, Len(x)) = c
    <3>1. 2 \in Nat /\ 2 + Len(c) <= Len(x) /\ 2 + 1 = 3
      BY <2>8, SMT
    <3> QED BY <2>4, <2>8, <3>1, SubSeqIs
  <2>10. DecodeField(f, x) = v
    BY <2>3, <2>5, <2>6, <2>8, <2>9
  <2> QED BY <2>1, <2>8, <2>10 DEF x
<1>6. CASE f = "RegistrarIpv6Addr"
  <2>1. f # "ChannelMask" /\ f \notin Timestamps /\ f \notin Uint16Fields
    BY <1>6 DEF Timestamps, Uint16Fields
  <2>2. v \in [address : Seq(Byte)] /\ x = v.address
    BY <1>6, <2>1 DEF EncodeField, FieldValues
  <2>3. DecodeField(f, x) = [address |-> x]
    <3> HIDE DEF x
    <3> QED BY <1>6, <2>1 DEF DecodeField
  <2>4. v.address \in Seq(Byte) /\ v = [address |-> v.address]
    BY <2>2
  <2> QED BY <2>1, <2>2, <2>3, <2>4
<1>7. CASE f \notin Timestamps \cup Uint16Fields
                    \cup {"Channel", "ChannelMask", "SecurityPolicy", "RegistrarIpv6Addr"}
  <2>1. x = v /\ v \in Seq(Byte) /\ f # "ChannelMask"
    BY <1>7 DEF EncodeField, FieldValues
  <2>2. DecodeField(f, v) = v
    BY <1>7 DEF DecodeField
  <2> QED BY <2>1, <2>2
<1> QED BY <1>1, <1>2, <1>3, <1>4, <1>5, <1>6, <1>7

-----------------------------------------------------------------------------
(* The TLVs that a payload carries, as it is put together and as it is     *)
(* read.                                                                   *)

(* Byte arrays, and lists of them, are equal if their lengths and elements *)
(* are.                                                                    *)
LEMMA SeqEqual ==
    ASSUME NEW X, NEW a \in Seq(X), NEW b \in Seq(X), Len(a) = Len(b), \A i \in 1..Len(a) : a[i] = b[i]
    PROVE  a = b
  BY SMT

(* Message::Append of one more byte array.                                 *)
LEMMA ConcatSnoc ==
    ASSUME NEW X, NEW s \in Seq(Seq(X)), NEW x \in Seq(X)
    PROVE  Concat(Append(s, x)) = Concat(s) \o x
<1> DEFINE n == Len(s)
           z == Append(s, x)
<1>1. /\ n \in Nat /\ z \in Seq(Seq(X)) /\ Len(z) = n + 1 /\ z[n + 1] = x
      /\ \A k \in 1..n : z[k] = s[k]
  BY SMT
<1> HIDE DEF z, n
<1>2. PICK G \in [0..n -> Seq(X)] : /\ G[0] = <<>> /\ \A k \in 1..n : G[k] = G[k - 1] \o s[k]
                                    /\ Concat(s) = G[n]
  BY Concatenates DEF n
<1>3. PICK H \in [0..Len(z) -> Seq(X)] : /\ H[0] = <<>>
                                         /\ \A k \in 1..Len(z) : H[k] = H[k - 1] \o z[k]
                                         /\ Concat(z) = H[Len(z)]
  BY <1>1, Concatenates
<1> DEFINE T == {k \in Nat : k <= n => H[k] = G[k]}
<1>4. 0 \in T
  BY <1>2, <1>3
<1>5. ASSUME NEW k \in Nat, k \in T PROVE k + 1 \in T
  <2> SUFFICES ASSUME k + 1 <= n PROVE H[k + 1] = G[k + 1]
    BY SMT
  <2>1. k <= n /\ k + 1 \in 1..n /\ k + 1 \in 1..Len(z) /\ (k + 1) - 1 = k
    BY <1>1, SMT
  <2>2. H[k + 1] = H[k] \o z[k + 1] /\ G[k + 1] = G[k] \o s[k + 1]
    BY <1>2, <1>3, <2>1
  <2>3. H[k] = G[k] /\ z[k + 1] = s[k + 1]
    BY <1>1, <1>5, <2>1
  <2> QED BY <2>2, <2>3
<1>6. \A k \in Nat : k \in T
  <2> HIDE DEF T
  <2> QED BY <1>4, <1>5, SetInduction
<1>7. H[n] = G[n]
  <2>1. n \in Nat /\ n <= n
    BY <1>1, SMT
  <2> QED BY <1>6, <2>1
<1>8. n + 1 \in 1..Len(z) /\ (n + 1) - 1 = n
  <2>1. n \in Nat /\ Len(z) = n + 1
    BY <1>1
  <2> QED BY <2>1, SMT
<1>9. H[n + 1] = H[n] \o z[n + 1]
  BY <1>3, <1>8
<1> QED BY <1>1, <1>2, <1>3, <1>7, <1>9 DEF z

(* The valid ones of the TLVs of which S consists are those of R.          *)
Carries(S, R) ==
    \E L \in Seq(Byte \X Seq(Byte)) :
        /\ IsTlvList(L) /\ S = Concat(Pieces(L))
        /\ R = {L[i] : i \in {j \in 1..Len(L) : ValidAt(L, j)}}

(* A payload to which nothing has been appended.                           *)
LEMMA CarriesNone == Carries(<<>>, {})
<1> DEFINE X == Byte \X Seq(Byte)
           L == <<>>
<1>1. L \in Seq(X) /\ DOMAIN L = 1..Len(L) /\ Len(L) = 0 /\ 1..0 = {}
  BY SMT
<1>2. IsTlvList(L)
  <2>1. Len(L) \in Nat
    BY <1>1
  <2> QED BY <1>1, <2>1 DEF IsTlvList
<1>3. Pieces(L) = <<>>
  BY <1>1, SMT DEF Pieces
<1>4. Concat(<<>>) = <<>>
  <2>1. <<>> \in Seq(Seq(Byte)) /\ Len(<<>>) = 0
    BY SMT
  <2>2. PICK G \in [0..Len(<<>>) -> Seq(Byte)] : G[0] = <<>> /\ Concat(<<>>) = G[Len(<<>>)]
    BY <2>1, Concatenates
  <2> QED BY <2>1, <2>2
<1>5. {L[i] : i \in {j \in 1..Len(L) : ValidAt(L, j)}} = {}
  BY <1>1
<1> HIDE DEF L
<1>6. Carries(Concat(Pieces(L)), {L[i] : i \in {j \in 1..Len(L) : ValidAt(L, j)}})
  BY <1>1, <1>2 DEF Carries
<1>7. Concat(Pieces(L)) = <<>>
  BY <1>3, <1>4
<1> QED BY <1>5, <1>6, <1>7

(* AppendTlv: one more TLV at the end of a payload.                        *)
LEMMA CarriesTlv ==
    ASSUME NEW S, NEW R, Carries(S, R), NEW t, Fits(t)
    PROVE  LET Q == IF IsValid(t[1], Len(t[2])) THEN R \cup {t} ELSE R
           IN  Carries(S \o SerializeTlv(t[1], t[2]), Q)
<1> DEFINE X == Byte \X Seq(Byte)
           Q == IF IsValid(t[1], Len(t[2])) THEN R \cup {t} ELSE R
           ser == SerializeTlv(t[1], t[2])
<1>1. PICK L \in Seq(X) : /\ IsTlvList(L) /\ S = Concat(Pieces(L))
                          /\ R = {L[i] : i \in {j \in 1..Len(L) : ValidAt(L, j)}}
  BY DEF Carries
<1> DEFINE n == Len(L)
           M == Append(L, t)
<1>2. t \in X
  BY DEF Fits
<1>3. /\ n \in Nat /\ \A i \in 1..n : Fits(L[i])
      /\ Pieces(L) \in Seq(Seq(Byte)) /\ Len(Pieces(L)) = n
      /\ \A i \in 1..n : Pieces(L)[i] = SerializeTlv(L[i][1], L[i][2])
  BY <1>1, PiecesFlat DEF IsTlvList
<1>4. /\ M \in Seq(X) /\ Len(M) = n + 1 /\ DOMAIN M = 1..n + 1 /\ M[n + 1] = t
      /\ \A i \in 1..n : M[i] = L[i]
  <2> HIDE DEF X
  <2> QED BY <1>2, SMT
<1>5. \A i \in 1..n + 1 : i = n + 1 \/ i \in 1..n
  BY <1>3, SMT
<1>6. n + 1 \in Nat /\ n + 1 \in 1..n + 1 /\ (\A i \in 1..n : i \in 1..n + 1) /\ n + 1 \notin 1..n
  BY <1>3, SMT
<1> HIDE DEF M, n, ser
<1>7. IsTlvList(M)
  <2>1. \A i \in 1..n + 1 : Fits(M[i])
    BY <1>3, <1>4, <1>5
  <2> QED BY <1>4, <1>6, <2>1 DEF IsTlvList
<1>8. ser \in Seq(Byte)
  BY Serialized DEF ser
<1>9. Pieces(M) = Append(Pieces(L), ser)
  <2> DEFINE p == Pieces(M)
             q == Append(Pieces(L), ser)
  <2>1. /\ p \in Seq(Seq(Byte)) /\ Len(p) = n + 1
        /\ \A i \in 1..n + 1 : p[i] = SerializeTlv(M[i][1], M[i][2])
    BY <1>4, <1>7, PiecesFlat
  <2>2. /\ q \in Seq(Seq(Byte)) /\ Len(q) = n + 1 /\ q[n + 1] = ser
        /\ \A i \in 1..n : q[i] = Pieces(L)[i]
    <3>1. ASSUME NEW Y, NEW s \in Seq(Y), NEW y \in Y, Len(s) = n
          PROVE  /\ Append(s, y) \in Seq(Y) /\ Len(Append(s, y)) = n + 1 /\ Append(s, y)[n + 1] = y
                 /\ \A i \in 1..n : Append(s, y)[i] = s[i]
      BY <3>1, SMT
    <3> DEFINE s == Pieces(L)
    <3>2. s \in Seq(Seq(Byte)) /\ Len(s) = n
      BY <1>3
    <3> HIDE DEF s
    <3>3. /\ Append(s, ser) \in Seq(Seq(Byte)) /\ Len(Append(s, ser)) = n + 1 /\ Append(s, ser)[n + 1] = ser
          /\ \A i \in 1..n : Append(s, ser)[i] = s[i]
      BY <1>8, <3>1, <3>2, SMT
    <3> QED BY <3>3 DEF s
  <2> HIDE DEF p, q
  <2>3. ASSUME NEW i \in 1..n + 1 PROVE p[i] = q[i]
    <3>1. CASE i = n + 1
      BY <1>4, <2>1, <2>2, <3>1 DEF ser
    <3>2. CASE i \in 1..n
      <4>1. q[i] = SerializeTlv(L[i][1], L[i][2])
        BY <1>3, <2>2, <3>2
      <4> QED BY <1>4, <2>1, <3>2, <4>1
    <3> QED BY <1>5, <3>1, <3>2
  <2>4. p = q
    BY <2>1, <2>2, <2>3, SeqEqual
  <2> QED BY <2>4 DEF p, q
<1>10. Concat(Pieces(M)) = S \o ser
  BY <1>1, <1>3, <1>8, <1>9, ConcatSnoc
<1>11. Q = {M[i] : i \in {j \in 1..Len(M) : ValidAt(M, j)}}
  <2>1. \A i \in 1..n : ValidAt(M, i) <=> ValidAt(L, i)
    BY <1>4 DEF ValidAt
  <2>2. ValidAt(M, n + 1) <=> IsValid(t[1], Len(t[2]))
    BY <1>4 DEF ValidAt
  <2>3. R = {L[i] : i \in {j \in 1..n : ValidAt(L, j)}}
    BY <1>1 DEF n
  <2>4. \A y : y \in R <=> \E i \in 1..n : ValidAt(M, i) /\ y = M[i]
    BY <1>4, <2>1, <2>3
  <2>5. \A y : y \in Q <=> y \in R \/ (ValidAt(M, n + 1) /\ y = M[n + 1])
    BY <1>4, <2>2
  <2>6. \A y : y \in Q <=> \E i \in 1..n + 1 : ValidAt(M, i) /\ y = M[i]
    BY <1>5, <1>6, <2>4, <2>5
  <2> HIDE DEF Q
  <2> QED BY <1>4, <2>6
<1> HIDE DEF Q
<1>12. Carries(S \o ser, Q)
  BY <1>4, <1>7, <1>10, <1>11 DEF Carries
<1> QED BY <1>12 DEF ser, Q

(* No two TLVs of R have the same type.                                    *)
OneOfEach(R) == \A p, q \in R : p[1] = q[1] => p = q

(* A TlvSet that holds the TLVs of R.                                      *)
SetOf(set, R) ==
    /\ set = [t \in DOMAIN set |-> set[t]] /\ DOMAIN set = {p[1] : p \in R}
    /\ \A p \in R : set[p[1]] = p[2]

(* What is carried are valid TLVs, in bytes.                               *)
LEMMA CarriesValid ==
    ASSUME NEW S, NEW R, Carries(S, R)
    PROVE  S \in Seq(Byte) /\ \A p \in R : Fits(p) /\ IsValid(p[1], Len(p[2]))
<1>1. PICK L \in Seq(Byte \X Seq(Byte)) :
              /\ IsTlvList(L) /\ S = Concat(Pieces(L))
              /\ R = {L[i] : i \in {j \in 1..Len(L) : ValidAt(L, j)}}
  BY DEF Carries
<1>2. Pieces(L) \in Seq(Seq(Byte)) /\ \A i \in 1..Len(L) : Fits(L[i])
  BY <1>1, PiecesFlat DEF IsTlvList
<1>3. S \in Seq(Byte)
  BY <1>1, <1>2, ConcatOffsets
<1>4. ASSUME NEW p \in R PROVE Fits(p) /\ IsValid(p[1], Len(p[2]))
  <2>1. PICK i \in 1..Len(L) : ValidAt(L, i) /\ p = L[i]
    BY <1>1
  <2> QED BY <1>2, <2>1 DEF ValidAt
<1> QED BY <1>3, <1>4

(* GetTlvSet reads the TLVs that a payload carries.                        *)
LEMMA CarriesRead ==
    ASSUME NEW S, NEW R, Carries(S, R), OneOfEach(R)
    PROVE  \E set : SetOf(set, R) /\ GetTlvSet(S) = [error |-> "none", set |-> set]
<1>1. PICK L \in Seq(Byte \X Seq(Byte)) :
              /\ IsTlvList(L) /\ S = Concat(Pieces(L))
              /\ R = {L[i] : i \in {j \in 1..Len(L) : ValidAt(L, j)}}
  BY DEF Carries
<1>2. PICK set : HoldsFrom(set, L, 0) /\ GetTlvSet(S) = [error |-> "none", set |-> set]
  BY <1>1, TlvSetWhole
<1>3. 0 + 1 = 1
  BY SMT
<1>4. /\ set = [t \in DOMAIN set |-> set[t]]
      /\ DOMAIN set = {L[k][1] : k \in {j \in 1..Len(L) : ValidAt(L, j)}}
      /\ \A t \in DOMAIN set : \E k \in 1..Len(L) : L[k][1] = t /\ ValidAt(L, k) /\ set[t] = L[k][2]
  BY <1>2, <1>3 DEF HoldsFrom
<1>5. \A p : p \in R <=> \E i \in 1..Len(L) : ValidAt(L, i) /\ p = L[i]
  BY <1>1
<1>6. DOMAIN set = {p[1] : p \in R}
  <2>1. \A t : t \in DOMAIN set <=> \E k \in 1..Len(L) : ValidAt(L, k) /\ t = L[k][1]
    BY <1>4
  <2>2. \A t : t \in DOMAIN set <=> \E p \in R : t = p[1]
    BY <1>5, <2>1
  <2> QED BY <2>2
<1>7. ASSUME NEW p \in R PROVE set[p[1]] = p[2]
  <2>1. p[1] \in DOMAIN set
    BY <1>6
  <2>2. PICK k \in 1..Len(L) : L[k][1] = p[1] /\ ValidAt(L, k) /\ set[p[1]] = L[k][2]
    BY <1>4, <2>1
  <2>3. L[k] \in R
    BY <1>5, <2>2
  <2>4. L[k] = p
    BY <2>2, <2>3 DEF OneOfEach
  <2> QED BY <2>2, <2>4
<1>8. SetOf(set, R)
  BY <1>4, <1>6, <1>7 DEF SetOf
<1> QED BY <1>2, <1>8

(* A TlvSet, a std::map, is iterated over in the order of its types, and   *)
(* each of them is met once.                                               *)
LEMMA SortedHasAll ==
    ASSUME NEW S, S \subseteq Byte
    PROVE  /\ Cardinality(S) \in Nat /\ DOMAIN Sorted(S) = 1..Cardinality(S)
           /\ Sorted(S) \in Seq(S) /\ Len(Sorted(S)) = Cardinality(S)
           /\ \A t \in S : \E i \in 1..Cardinality(S) : Sorted(S)[i] = t
<1> DEFINE n == Cardinality(S)
           Below(t) == {u \in S : u < t}
           rank == [t \in S |-> Cardinality(Below(t)) + 1]
<1>1. \A t \in S : t \in Nat
  BY ByteNat
<1>2. IsFiniteSet(S) /\ n \in Nat
  <2>1. IsFiniteSet(Byte)
    <3>1. 0 \in Int /\ 255 \in Int
      BY SMT
    <3> QED BY <3>1, FS_Interval DEF Byte
  <2> QED BY <2>1, FS_Subset, FS_CardinalityType
<1>3. ASSUME NEW t \in S PROVE IsFiniteSet(Below(t)) /\ Cardinality(Below(t)) \in Nat /\ Cardinality(Below(t)) < n
  <2>1. Below(t) \in SUBSET S /\ t \notin Below(t)
    BY <1>1, SMT
  <2> HIDE DEF Below
  <2>2. IsFiniteSet(Below(t)) /\ Cardinality(Below(t)) <= n /\ (n = Cardinality(Below(t)) => S = Below(t))
    BY <1>2, <2>1, FS_Subset
  <2>3. Cardinality(Below(t)) \in Nat
    BY <2>2, FS_CardinalityType
  <2>4. n # Cardinality(Below(t))
    BY <2>1, <2>2
  <2> QED BY <1>2, <2>2, <2>3, <2>4, SMT
<1>4. ASSUME NEW t \in S, NEW u \in S, t < u PROVE Cardinality(Below(t)) < Cardinality(Below(u))
  <2>1. Below(t) \in SUBSET Below(u) /\ t \in Below(u) /\ t \notin Below(t)
    BY <1>1, <1>4, SMT
  <2>2. IsFiniteSet(Below(u)) /\ Cardinality(Below(u)) \in Nat /\ Cardinality(Below(t)) \in Nat
    BY <1>3
  <2> HIDE DEF Below
  <2>3. /\ Cardinality(Below(t)) <= Cardinality(Below(u))
        /\ Cardinality(Below(u)) = Cardinality(Below(t)) => Below(u) = Below(t)
    BY <2>1, <2>2, FS_Subset
  <2>4. Cardinality(Below(u)) # Cardinality(Below(t))
    BY <2>1, <2>3
  <2> QED BY <2>2, <2>3, <2>4, SMT
<1>5. ASSUME NEW t \in S, NEW u \in S, Cardinality(Below(t)) = Cardinality(Below(u)) PROVE t = u
  <2>1. t \in Nat /\ u \in Nat
    BY <1>1
  <2>2. Cardinality(Below(t)) \in Nat
    BY <1>3
  <2> HIDE DEF Below
  <2>3. ~(t < u) /\ ~(u < t)
    BY <1>4, <1>5, <2>2, SMT
  <2> QED BY <2>1, <2>3, SMT
<1> HIDE DEF Below, n
<1>6. rank \in [S -> 1..n]
  BY <1>2, <1>3, SMT
<1>7. \A t \in S : rank[t] = Cardinality(Below(t)) + 1
  OBVIOUS
<1>8. rank \in Injection(S, 1..n)
  <2>1. ASSUME NEW t \in S, NEW u \in S, rank[t] = rank[u] PROVE t = u
    <3>1. Cardinality(Below(t)) \in Nat /\ Cardinality(Below(u)) \in Nat
      BY <1>3
    <3>2. Cardinality(Below(t)) = Cardinality(Below(u))
      BY <1>7, <2>1, <3>1, SMT
    <3> QED BY <1>5, <3>2
  <2> HIDE DEF rank
  <2> QED BY <1>6, <2>1 DEF Injection, IsInjective
<1> HIDE DEF rank
<1>9. IsFiniteSet(1..n) /\ Cardinality(1..n) = n
  BY <1>2, FS_Interval, SMT
<1>10. rank \in Surjection(S, 1..n)
  BY <1>8, <1>9, FS_Injection DEF n
<1>11. \A i \in 1..n : \E t \in S : rank[t] = i
  BY <1>10 DEF Surjection
<1>12. \A i \in 1..n : \A t \in S : rank[t] = i <=> Cardinality({u \in S : u < t}) = i - 1
  <2>1. ASSUME NEW i \in 1..n, NEW t \in S PROVE rank[t] = i <=> Cardinality(Below(t)) = i - 1
    <3>1. rank[t] = Cardinality(Below(t)) + 1 /\ Cardinality(Below(t)) \in Nat /\ i \in Nat
      BY <1>2, <1>3, <1>7, SMT
    <3> QED BY <3>1, SMT
  <2> QED BY <2>1 DEF Below
<1> DEFINE s == Sorted(S)
<1>13. s = [i \in 1..n |-> CHOOSE t \in S : Cardinality({u \in S : u < t}) = i - 1]
  BY DEF Sorted, n
<1>14. ASSUME NEW i \in 1..n PROVE s[i] \in S /\ rank[s[i]] = i
  <2>1. \E t \in S : Cardinality({u \in S : u < t}) = i - 1
    BY <1>11, <1>12
  <2>2. s[i] = CHOOSE t \in S : Cardinality({u \in S : u < t}) = i - 1
    BY <1>13
  <2> HIDE DEF s
  <2>3. s[i] \in S /\ Cardinality({u \in S : u < s[i]}) = i - 1
    BY <2>1, <2>2
  <2> QED BY <1>12, <2>3
<1>15. ASSUME NEW t \in S PROVE \E i \in 1..n : s[i] = t
  <2>1. rank[t] \in 1..n
    BY <1>6
  <2>2. s[rank[t]] \in S /\ rank[s[rank[t]]] = rank[t]
    BY <1>14, <2>1
  <2> HIDE DEF s
  <2>3. s[rank[t]] = t
    BY <1>8, <2>2 DEF Injection, IsInjective
  <2> QED BY <2>1, <2>3
<1>16. DOMAIN s = 1..n
  BY <1>13
<1>17. s \in Seq(S) /\ Len(s) = n
  <2>1. s = [i \in 1..n |-> s[i]]
    BY <1>13
  <2> HIDE DEF s
  <2> QED BY <1>2, <1>14, <2>1, SMT
<1> QED BY <1>2, <1>15, <1>16, <1>17 DEF n

(* A function on 1..n is a sequence, as the byte arrays that are built     *)
(* element by element are.                                                 *)
LEMMA SeqFun ==
    ASSUME NEW X, NEW n \in Nat, NEW s, s = [i \in 1..n |-> s[i]], \A i \in 1..n : s[i] \in X
    PROVE  s \in Seq(X) /\ Len(s) = n
  BY SMT

(* Pieces of a payload, each of which is empty or a valid TLV: Q[i] are    *)
(* the TLVs of the piece s[i].                                             *)
IsPiece(s, Q) ==
    \/ s = <<>> /\ Q = {}
    \/ \E t : Fits(t) /\ IsValid(t[1], Len(t[2])) /\ s = SerializeTlv(t[1], t[2]) /\ Q = {t}

ArePieces(s, Q) == \A i \in 1..Len(s) : IsPiece(s[i], Q[i])
AllOf(Q, n) == UNION {Q[i] : i \in 1..n}

(* A payload to which pieces are appended one by one, in the order in      *)
(* which the encoder of a dataset comes to the fields.                     *)
LEMMA CarriesMore ==
    ASSUME NEW P, NEW R, Carries(P, R), NEW s \in Seq(Seq(Byte)), NEW Q, ArePieces(s, Q)
    PROVE  Carries(P \o Concat(s), R \cup AllOf(Q, Len(s)))
<1> DEFINE n == Len(s)
           All(k) == R \cup UNION {Q[i] : i \in 1..k}
<1>1. n \in Nat /\ \A k \in 1..n : s[k] \in Seq(Byte)
  BY SMT
<1>2. PICK G \in [0..Len(s) -> Seq(Byte)] : /\ G[0] = <<>>
                                            /\ \A k \in 1..Len(s) : G[k] = G[k - 1] \o s[k]
                                            /\ Concat(s) = G[Len(s)]
  BY Concatenates
<1>3. P \in Seq(Byte)
  BY CarriesValid
<1> HIDE DEF n
<1> DEFINE T == {k \in Nat : k <= n => Carries(P \o G[k], All(k))}
<1>4. 0 \in T
  <2>1. P \o <<>> = P
    BY <1>3, SMT
  <2>2. 1..0 = {}
    BY SMT
  <2>3. All(0) = R
    BY <2>2
  <2>4. Carries(P \o G[0], All(0))
    <3> HIDE DEF All
    <3> QED BY <1>2, <2>1, <2>3
  <2> QED BY <2>4
<1>5. ASSUME NEW k \in Nat, k \in T PROVE k + 1 \in T
  <2> SUFFICES ASSUME k + 1 <= n PROVE Carries(P \o G[k + 1], All(k + 1))
    <3> HIDE DEF All
    <3> QED BY SMT
  <2>1. k <= n /\ k + 1 \in 1..n /\ k \in 0..n /\ (k + 1) - 1 = k
    BY <1>1, SMT
  <2>2. Carries(P \o G[k], All(k))
    BY <1>5, <2>1
  <2>3. G[k + 1] = G[k] \o s[k + 1] /\ G[k] \in Seq(Byte) /\ s[k + 1] \in Seq(Byte) /\ IsPiece(s[k + 1], Q[k + 1])
    BY <1>1, <1>2, <2>1 DEF n, ArePieces
  <2>4. P \o G[k + 1] = (P \o G[k]) \o s[k + 1]
    <3>1. Associates(Byte)
      BY ConcatAssoc
    <3>2. (P \o G[k]) \o s[k + 1] = P \o (G[k] \o s[k + 1])
      BY <1>3, <2>3, <3>1 DEF Associates
    <3> QED BY <2>3, <3>2
  <2>5. All(k + 1) = All(k) \cup Q[k + 1]
    <3>1. \A i : i \in 1..k + 1 <=> i \in 1..k \/ i = k + 1
      BY SMT
    <3>2. \A y : y \in All(k + 1) <=> y \in R \/ \E i \in 1..k + 1 : y \in Q[i]
      OBVIOUS
    <3>3. \A y : y \in All(k) <=> y \in R \/ \E i \in 1..k : y \in Q[i]
      OBVIOUS
    <3> HIDE DEF All
    <3>4. \A y : y \in All(k + 1) <=> y \in All(k) \/ y \in Q[k + 1]
      BY <3>1, <3>2, <3>3
    <3> QED BY <3>4
  <2> HIDE DEF All
  <2>6. CASE s[k + 1] = <<>> /\ Q[k + 1] = {}
    <3>1. P \o G[k] \in Seq(Byte)
      BY <1>3, <2>3, SMT
    <3>2. (P \o G[k]) \o <<>> = P \o G[k]
      BY <3>1, SMT
    <3>3. All(k + 1) = All(k)
      BY <2>5, <2>6
    <3> QED BY <2>2, <2>4, <2>6, <3>2, <3>3
  <2>7. CASE ~(s[k + 1] = <<>> /\ Q[k + 1] = {})
    <3>1. PICK t : Fits(t) /\ IsValid(t[1], Len(t[2])) /\ s[k + 1] = SerializeTlv(t[1], t[2]) /\ Q[k + 1] = {t}
      BY <2>3, <2>7 DEF IsPiece
    <3> DEFINE A == P \o G[k]
    <3> HIDE DEF A
    <3>2. Carries(A \o SerializeTlv(t[1], t[2]), All(k) \cup {t})
      <4>1. Carries(A, All(k))
        BY <2>2 DEF A
      <4>2. Carries(A \o SerializeTlv(t[1], t[2]), IF IsValid(t[1], Len(t[2])) THEN All(k) \cup {t} ELSE All(k))
        BY <3>1, <4>1, CarriesTlv
      <4> QED BY <3>1, <4>2
    <3> QED BY <2>4, <2>5, <3>1, <3>2 DEF A
  <2> QED BY <2>6, <2>7
<1>6. \A k \in Nat : k \in T
  <2> HIDE DEF T
  <2> QED BY <1>4, <1>5, SetInduction
<1>7. Carries(P \o G[n], All(n))
  <2>1. n \in Nat /\ n <= n
    BY <1>1, SMT
  <2> HIDE DEF All
  <2> QED BY <1>6, <2>1
<1> QED BY <1>2, <1>7 DEF n, AllOf

(* The lengths that a type other than kDomainPrefix admits fit in its      *)
(* length field.                                                           *)
LEMMA ValidFits ==
    ASSUME NEW t \in Byte, NEW v \in Seq(Byte), t # kDomainPrefix, IsValid(t, Len(v))
    PROVE  Fits(<<t, v>>)
<1>1. Len(v) \in Nat
  BY SMT
<1>2. Len(v) < TlvLimit
  BY DEF IsValid
<1>3. ~IsExtendedTlv(t) => Len(v) < kEscapeLength
  <2>1. ASSUME NEW n \in Nat, IsValid(t, n), ~IsExtendedTlv(t) PROVE n < 255
    <3> DEFINE limit == TlvLimit
    <3> HIDE DEF limit
    <3> QED BY <2>1, SMT DEF IsValid, IsExtendedTlv, kUdpEncapsulation, kCommissionerToken,
                        kJoinerDtlsEncapsulation, kDomainPrefix, kEscapeLength
  <2> QED BY <1>1, <2>1 DEF kEscapeLength
<1>4. <<t, v>> \in Byte \X Seq(Byte) /\ <<t, v>>[1] = t /\ <<t, v>>[2] = v
  OBVIOUS
<1> QED BY <1>2, <1>3, <1>4 DEF Fits

(* The TLVs of a TlvSet, serialized in the order of their types, are       *)
(* carried: the signed content, and the leader's answer.                   *)
LEMMA CarriesTlvsOf ==
    ASSUME NEW set, NEW T, T \subseteq Byte,
           \A t \in T : Fits(<<t, set[t]>>) /\ IsValid(t, Len(set[t]))
    PROVE  Carries(TlvsOf(set, T), {<<t, set[t]>> : t \in T})
<1> DEFINE order == Sorted(T)
           n == Cardinality(T)
           s == [i \in 1..n |-> SerializeTlv(order[i], set[order[i]])]
           Q == [i \in 1..n |-> {<<order[i], set[order[i]]>>}]
<1>1. /\ n \in Nat /\ DOMAIN order = 1..n /\ order \in Seq(T) /\ Len(order) = n
      /\ \A t \in T : \E i \in 1..n : order[i] = t
  BY SortedHasAll
<1>2. TlvsOf(set, T) = Concat(s)
  BY <1>1 DEF TlvsOf
<1> HIDE DEF order, n
<1>3. \A i \in 1..n : order[i] \in T
  BY <1>1, SeqAt
<1>4. \A i \in 1..n : IsPiece(s[i], Q[i]) /\ s[i] \in Seq(Byte)
  <2> SUFFICES ASSUME NEW i \in 1..n PROVE IsPiece(s[i], Q[i]) /\ s[i] \in Seq(Byte)
    OBVIOUS
  <2> DEFINE t == order[i]
             p == <<t, set[t]>>
  <2>1. Fits(p) /\ IsValid(t, Len(set[t]))
    BY <1>3
  <2>2. p[1] = t /\ p[2] = set[t] /\ s[i] = SerializeTlv(t, set[t]) /\ Q[i] = {p}
    OBVIOUS
  <2> HIDE DEF p, t, s, Q
  <2>3. SerializeTlv(p[1], p[2]) \in Seq(Byte)
    BY <2>1, Serialized
  <2> QED BY <2>1, <2>2, <2>3 DEF IsPiece
<1>5. s \in Seq(Seq(Byte)) /\ Len(s) = n
  <2>1. s = [i \in 1..n |-> s[i]]
    OBVIOUS
  <2> HIDE DEF s
  <2> QED BY <1>1, <1>4, <2>1, SeqFun
<1>6. UNION {Q[i] : i \in 1..n} = {<<t, set[t]>> : t \in T}
  <2>1. \A i \in 1..n : Q[i] = {<<order[i], set[order[i]]>>}
    OBVIOUS
  <2> HIDE DEF Q
  <2>2. \A y : y \in UNION {Q[i] : i \in 1..n} <=> \E i \in 1..n : y = <<order[i], set[order[i]]>>
    <3>1. \A y : y \in UNION {Q[i] : i \in 1..n} <=> \E i \in 1..n : y \in Q[i]
      OBVIOUS
    <3>2. \A i \in 1..n : \A y : y \in Q[i] <=> y = <<order[i], set[order[i]]>>
      BY <2>1
    <3> QED BY <3>1, <3>2
  <2>3. \A y : y \in UNION {Q[i] : i \in 1..n} <=> \E t \in T : y = <<t, set[t]>>
    BY <1>1, <1>3, <2>2
  <2> QED BY <2>3
<1> HIDE DEF s, Q
<1>7. Carries(<<>> \o Concat(s), {} \cup AllOf(Q, Len(s)))
  <2>1. ArePieces(s, Q)
    BY <1>4, <1>5 DEF ArePieces
  <2> QED BY <1>5, <2>1, CarriesNone, CarriesMore
<1>8. Concat(s) \in Seq(Byte)
  BY <1>5, ConcatOffsets
<1>9. <<>> \o Concat(s) = Concat(s)
  <2> DEFINE c == Concat(s)
  <2> HIDE DEF c
  <2>1. c \in Seq(Byte) => <<>> \o c = c
    BY SMT
  <2> QED BY <1>8, <2>1 DEF c
<1>10. {} \cup AllOf(Q, Len(s)) = {<<t, set[t]>> : t \in T}
  BY <1>5, <1>6 DEF AllOf
<1> QED BY <1>2, <1>7, <1>9, <1>10

-----------------------------------------------------------------------------
(* The kinds of datasets.                                                  *)

(* The fields of the kinds of datasets.                                    *)
LEMMA FieldNames ==
    /\ FieldsOf["active"] = ActiveFields /\ FieldsOf["pending"] = PendingFields
    /\ FieldsOf["commissioner"] = CommissionerFields /\ FieldsOf["bbr"] = BbrFields
    /\ DOMAIN FieldsOf = {"active", "pending", "commissioner", "bbr"}
    /\ Elements(PendingFields) = Elements(ActiveFields) \cup {"DelayTimer", "PendingTimestamp"}
    /\ Elements(<<"DelayTimer", "PendingTimestamp">>) = {"DelayTimer", "PendingTimestamp"}
    /\ {"ActiveTimestamp", "ChannelMask", "PanId"} \subseteq Elements(ActiveFields)
    /\ "PendingTimestamp" \notin Elements(ActiveFields)
    /\ "ChannelMask" \notin Elements(CommissionerFields) \cup Elements(BbrFields)
<1>1. /\ FieldsOf["active"] = ActiveFields /\ FieldsOf["pending"] = PendingFields
      /\ FieldsOf["commissioner"] = CommissionerFields /\ FieldsOf["bbr"] = BbrFields
      /\ DOMAIN FieldsOf = {"active", "pending", "commissioner", "bbr"}
  BY DEF FieldsOf
<1>2. /\ ActiveFields = [i \in 1..10 |-> ActiveFields[i]]
      /\ ActiveFields[1] = "ActiveTimestamp" /\ ActiveFields[3] = "ChannelMask"
      /\ ActiveFields[8] = "PanId" /\ \A i \in 1..10 : ActiveFields[i] # "PendingTimestamp"
  BY SMT DEF ActiveFields
<1>3. /\ DOMAIN CommissionerFields = 1..8 /\ \A i \in 1..8 : CommissionerFields[i] # "ChannelMask"
  BY SMT DEF CommissionerFields
<1>4. /\ DOMAIN BbrFields = 1..3 /\ \A i \in 1..3 : BbrFields[i] # "ChannelMask"
  BY SMT DEF BbrFields
<1> DEFINE two == <<"DelayTimer", "PendingTimestamp">>
<1>5. DOMAIN two = 1..2 /\ two[1] = "DelayTimer" /\ two[2] = "PendingTimestamp" /\ Len(two) = 2
  BY SMT
<1>6. /\ DOMAIN PendingFields = 1..12 /\ \A i \in 1..10 : PendingFields[i] = ActiveFields[i]
      /\ PendingFields[11] = two[1] /\ PendingFields[12] = two[2]
  BY SMT DEF PendingFields, ActiveFields
<1> HIDE DEF two
<1>7. Elements(two) = {"DelayTimer", "PendingTimestamp"}
  <2>1. 1..2 = {1, 2}
    BY SMT
  <2> QED BY <1>5, <2>1 DEF Elements
<1>8. Elements(PendingFields) = Elements(ActiveFields) \cup {"DelayTimer", "PendingTimestamp"}
  <2>1. 1..12 = 1..10 \cup {11, 12} /\ DOMAIN ActiveFields = 1..10
    BY <1>2, SMT
  <2> QED BY <1>5, <1>6, <2>1, SMT DEF Elements
<1>9. /\ {"ActiveTimestamp", "ChannelMask", "PanId"} \subseteq Elements(ActiveFields)
      /\ "PendingTimestamp" \notin Elements(ActiveFields)
  <2>1. 1 \in 1..10 /\ 3 \in 1..10 /\ 8 \in 1..10 /\ DOMAIN ActiveFields = 1..10
    BY <1>2, SMT
  <2> QED BY <1>2, <2>1 DEF Elements
<1>10. "ChannelMask" \notin Elements(CommissionerFields) \cup Elements(BbrFields)
  BY <1>3, <1>4 DEF Elements
<1> QED BY <1>1, <1>7, <1>8, <1>9, <1>10 DEF two

(* The fields of all kinds of datasets.                                    *)
AllFields == DOMAIN TlvTypeOf

(* The fields of all kinds of datasets, by their names.                    *)
LEMMA FieldNamesAll ==
    AllFields =
     {"ActiveTimestamp", "Channel", "ChannelMask", "ExtendedPanId", "MeshLocalPrefix",
      "NetworkMasterKey", "NetworkName", "PanId", "PSKc", "SecurityPolicy", "DelayTimer",
      "PendingTimestamp", "SessionId", "BorderAgentLocator", "SteeringData", "AeSteeringData",
      "NmkpSteeringData", "JoinerUdpPort", "AeUdpPort", "NmkpUdpPort", "TriHostname",
      "RegistrarHostname", "RegistrarIpv6Addr"}
  BY DEF AllFields, TlvTypeOf

(* The fields of each kind of dataset, as the encoders and decoders list   *)
(* them.                                                                   *)
LEMMA FieldLists ==
    /\ Elements(ActiveFields) =
         {"ActiveTimestamp", "Channel", "ChannelMask", "ExtendedPanId", "MeshLocalPrefix",
          "NetworkMasterKey", "NetworkName", "PanId", "PSKc", "SecurityPolicy"}
    /\ Elements(CommissionerFields) =
         {"SessionId", "BorderAgentLocator", "SteeringData", "AeSteeringData", "NmkpSteeringData",
          "JoinerUdpPort", "AeUdpPort", "NmkpUdpPort"}
    /\ Elements(BbrFields) = {"TriHostname", "RegistrarHostname", "RegistrarIpv6Addr"}
    /\ \A k \in DOMAIN FieldsOf : FieldsOf[k] \in Seq(AllFields) /\ Len(FieldsOf[k]) <= 12
<1>1. DOMAIN ActiveFields = 1..10 /\ DOMAIN CommissionerFields = 1..8 /\ DOMAIN BbrFields = 1..3
  BY SMT DEF ActiveFields, CommissionerFields, BbrFields
<1>2. Elements(ActiveFields) =
         {"ActiveTimestamp", "Channel", "ChannelMask", "ExtendedPanId", "MeshLocalPrefix",
          "NetworkMasterKey", "NetworkName", "PanId", "PSKc", "SecurityPolicy"}
  <2>1. 1..10 = {1, 2, 3, 4, 5, 6, 7, 8, 9, 10}
    BY SMT
  <2> QED BY <1>1, <2>1, SMT DEF Elements, ActiveFields
<1>3. Elements(CommissionerFields) =
         {"SessionId", "BorderAgentLocator", "SteeringData", "AeSteeringData", "NmkpSteeringData",
          "JoinerUdpPort", "AeUdpPort", "NmkpUdpPort"}
  <2>1. 1..8 = {1, 2, 3, 4, 5, 6, 7, 8}
    BY SMT
  <2> QED BY <1>1, <2>1, SMT DEF Elements, CommissionerFields
<1>4. Elements(BbrFields) = {"TriHostname", "RegistrarHostname", "RegistrarIpv6Addr"}
  <2>1. 1..3 = {1, 2, 3}
    BY SMT
  <2> QED BY <1>1, <2>1, SMT DEF Elements, BbrFields
<1>5. Elements(PendingFields) \subseteq AllFields
  BY <1>2, FieldNames, FieldNamesAll
<1>6. /\ Elements(ActiveFields) \subseteq AllFields /\ Elements(CommissionerFields) \subseteq AllFields
      /\ Elements(BbrFields) \subseteq AllFields
  BY <1>2, <1>3, <1>4, FieldNamesAll
<1>7. /\ ActiveFields = [i \in 1..10 |-> ActiveFields[i]] /\ BbrFields = [i \in 1..3 |-> BbrFields[i]]
      /\ CommissionerFields = [i \in 1..8 |-> CommissionerFields[i]]
  BY SMT DEF ActiveFields, CommissionerFields, BbrFields
<1>8. PendingFields = [i \in 1..12 |-> PendingFields[i]]
  BY SMT DEF PendingFields, ActiveFields
<1>9. ASSUME NEW n \in Nat, NEW s, s = [i \in 1..n |-> s[i]], Elements(s) \subseteq AllFields, n <= 12
      PROVE  s \in Seq(AllFields) /\ Len(s) <= 12
  <2>1. DOMAIN s = 1..n
    BY <1>9
  <2>2. \A i \in 1..n : s[i] \in AllFields
    BY <1>9, <2>1 DEF Elements
  <2> QED BY <1>9, <2>2, SeqFun
<1>10. 10 \in Nat /\ 3 \in Nat /\ 8 \in Nat /\ 12 \in Nat /\ 10 <= 12 /\ 3 <= 12 /\ 8 <= 12 /\ 12 <= 12
  BY SMT
<1>11. /\ ActiveFields \in Seq(AllFields) /\ Len(ActiveFields) <= 12
       /\ CommissionerFields \in Seq(AllFields) /\ Len(CommissionerFields) <= 12
  BY <1>6, <1>7, <1>9, <1>10
<1>12. /\ PendingFields \in Seq(AllFields) /\ Len(PendingFields) <= 12
       /\ BbrFields \in Seq(AllFields) /\ Len(BbrFields) <= 12
  BY <1>5, <1>6, <1>7, <1>8, <1>9, <1>10
<1>13. \A k \in DOMAIN FieldsOf : FieldsOf[k] \in Seq(AllFields) /\ Len(FieldsOf[k]) <= 12
  BY <1>11, <1>12, FieldNames
<1> QED BY <1>2, <1>3, <1>4, <1>13

-----------------------------------------------------------------------------
(* Datasets, as the user fills them.                                       *)

(* A dataset of kind k, as the program's types have it.                    *)
Typed(d, k) ==
    /\ d = [f \in DOMAIN d |-> d[f]] /\ DOMAIN d \subseteq Elements(FieldsOf[k])
    /\ \A f \in DOMAIN d : d[f] \in FieldValues(f)

(* The inductive invariant: the dataset has fields of its kind only, each  *)
(* with a value of its type.                                               *)
DataInv == kind \in DOMAIN FieldsOf /\ Typed(dataset, kind)

(* A dataset that is new, with or without the current time in its          *)
(* timestamps, has values of its fields' types.                            *)
LEMMA DataInvInit == DataInit => DataInv
<1> SUFFICES ASSUME DataInit PROVE DataInv
  OBVIOUS
<1>1. kind \in DOMAIN FieldsOf /\ dataset \in {EmptyDataset, NewDataset(kind)}
  BY DEF DataInit
<1>2. CASE dataset = EmptyDataset
  <2>1. DOMAIN dataset = {} /\ dataset = [f \in DOMAIN dataset |-> dataset[f]]
    BY <1>2 DEF EmptyDataset
  <2>2. DOMAIN dataset \subseteq Elements(FieldsOf[kind]) /\ \A f \in DOMAIN dataset : dataset[f] \in FieldValues(f)
    BY <2>1
  <2> QED BY <1>1, <2>1, <2>2 DEF DataInv, Typed
<1>3. CASE dataset = NewDataset(kind)
  <2>1. /\ DOMAIN dataset = Elements(FieldsOf[kind]) \cap Timestamps
        /\ dataset = [f \in DOMAIN dataset |-> dataset[f]]
        /\ \A f \in DOMAIN dataset : dataset[f] = CurrentTime
    BY <1>3 DEF NewDataset
  <2>2. \A f \in DOMAIN dataset : dataset[f] \in FieldValues(f)
    BY <2>1, DatasetAssumption
  <2> QED BY <1>1, <2>1, <2>2 DEF DataInv, Typed
<1> QED BY <1>1, <1>2, <1>3

(* A field that the user gives has a value of the field's type.            *)
LEMMA DataInvNext == DataInv /\ [DataNext]_dataVars => DataInv'
<1> SUFFICES ASSUME DataInv, [DataNext]_dataVars PROVE DataInv'
  OBVIOUS
<1>1. CASE DataNext
  <2>1. PICK f \in DOMAIN FieldInputs : \E v \in FieldInputs[f] : GiveField(f, v)
    BY <1>1 DEF DataNext
  <2>2. PICK v \in FieldInputs[f] : GiveField(f, v)
    BY <2>1
  <2>3. v \in FieldValues(f)
    BY DatasetAssumption
  <2>4. /\ f \in Elements(FieldsOf[kind]) /\ kind' = kind
        /\ dataset' = Override(dataset, [g \in {f} |-> v])
    BY <2>2 DEF GiveField
  <2>5. /\ DOMAIN dataset' = DOMAIN dataset \cup {f} /\ dataset' = [g \in DOMAIN dataset' |-> dataset'[g]]
        /\ \A g \in DOMAIN dataset' : dataset'[g] = IF g = f THEN v ELSE dataset[g]
    BY <2>4 DEF Override
  <2>6. DOMAIN dataset \subseteq Elements(FieldsOf[kind]) /\ \A g \in DOMAIN dataset : dataset[g] \in FieldValues(g)
    BY DEF DataInv, Typed
  <2>7. /\ DOMAIN dataset' \subseteq Elements(FieldsOf[kind'])
        /\ \A g \in DOMAIN dataset' : dataset'[g] \in FieldValues(g)
    BY <2>3, <2>4, <2>5, <2>6
  <2> QED BY <2>4, <2>5, <2>7 DEF DataInv, Typed
<1>2. CASE UNCHANGED dataVars
  BY <1>2 DEF dataVars, DataInv, Typed
<1> QED BY <1>1, <1>2
=============================================================================
