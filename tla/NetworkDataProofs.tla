------------------------- MODULE NetworkDataProofs --------------------------
(***************************************************************************)
(* Proofs about what the commissioner makes of what it is given: the       *)
(* answers and reports that carry TLVs, and the datasets that are exported *)
(* as JSON and imported again (NetworkData).                               *)
(***************************************************************************)
EXTENDS TlvProofs

(* Most leaves are first-order and set reasoning, which is Zenon's; those  *)
(* that need arithmetic, records or functions cite SMT.                    *)
USE Zenon

-----------------------------------------------------------------------------
(* The fields of a dataset and the TLVs that carry them.                   *)

(* The lengths of the values of fields that are not byte arrays.           *)
LEMMA FieldLengths ==
    ASSUME NEW n \in Nat
    PROVE  /\ \A f \in Timestamps : IsValid(TlvTypeOf[f], n) => n = 8
           /\ \A f \in Uint16Fields : IsValid(TlvTypeOf[f], n) => n = 2
           /\ IsValid(TlvTypeOf["Channel"], n) => n = 3
           /\ IsValid(TlvTypeOf["SecurityPolicy"], n) => n \in {3, 4}
<1>1. /\ TlvTypeOf["ActiveTimestamp"] = 14 /\ TlvTypeOf["PendingTimestamp"] = 51
      /\ TlvTypeOf["Channel"] = 0 /\ TlvTypeOf["SecurityPolicy"] = 12
  BY DEF TlvTypeOf, kActiveTimestamp, kPendingTimestamp, kChannel, kSecurityPolicy
<1>2. /\ TlvTypeOf["PanId"] = 1 /\ TlvTypeOf["SessionId"] = 11 /\ TlvTypeOf["BorderAgentLocator"] = 9
      /\ TlvTypeOf["JoinerUdpPort"] = 18 /\ TlvTypeOf["AeUdpPort"] = 65 /\ TlvTypeOf["NmkpUdpPort"] = 66
  BY DEF TlvTypeOf, kPanId, kCommissionerSessionId, kBorderAgentLocator, kJoinerUdpPort, kAeUdpPort, kNmkpUdpPort
<1>3. /\ \A t \in {14, 51} : IsValid(t, n) => n = 8
      /\ \A t \in {1, 9, 11, 18, 65, 66} : IsValid(t, n) => n = 2
      /\ IsValid(0, n) => n = 3
      /\ IsValid(12, n) => n \in {3, 4}
  BY SMT DEF IsValid, kEscapeLength
<1>4. \A f \in Timestamps : TlvTypeOf[f] \in {14, 51}
  BY <1>1 DEF Timestamps
<1>5. \A f \in Uint16Fields : TlvTypeOf[f] \in {1, 9, 11, 18, 65, 66}
  BY <1>2 DEF Uint16Fields
<1> QED BY <1>1, <1>3, <1>4, <1>5

(* The field is the same again after the value of a TLV that has a length  *)
(* of its type is decoded and encoded: EncodeField and DecodeField.        *)
LEMMA FieldDecoded ==
    ASSUME NEW f, NEW v \in Seq(Byte), IsValid(TlvTypeOf[f], Len(v)),
           f = "ChannelMask" => DecodeChannelMask(v).error = "none"
    PROVE  EncodeField(f, DecodeField(f, v)) = v
<1> DEFINE x == DecodeField(f, v)
<1>1. Len(v) \in Nat /\ \A i \in 1..Len(v) : v[i] \in Byte
  BY SMT
<1>2. CASE f \in Timestamps
  <2>1. x = DecodeTimestamp(v)
    BY <1>2 DEF DecodeField, Timestamps, Uint16Fields
  <2>2. EncodeField(f, x) = EncodeTimestamp(x)
    <3> HIDE DEF x
    <3> QED BY <1>2 DEF EncodeField, Timestamps, Uint16Fields
  <2>3. Len(v) = 8
    BY <1>1, <1>2, FieldLengths
  <2> QED BY <2>1, <2>2, <2>3, TimestampSurvives
<1>3. CASE f \in Uint16Fields
  <2>1. x = v[1] * 256 + v[2]
    BY <1>3 DEF DecodeField, Timestamps, Uint16Fields
  <2>2. EncodeField(f, x) = Uint16(x)
    <3> HIDE DEF x
    <3> QED BY <1>3 DEF EncodeField, Timestamps, Uint16Fields
  <2>3. Len(v) = 2
    BY <1>1, <1>3, FieldLengths
  <2>4. v[1] \in Byte /\ v[2] \in Byte
    BY <2>3, SMT
  <2>5. v = <<v[1], v[2]>>
    BY <2>3, SMT
  <2>6. Uint16(v[1] * 256 + v[2]) = <<v[1], v[2]>>
    BY <2>4, Word
  <2>7. EncodeField(f, x) = <<v[1], v[2]>>
    BY <2>1, <2>2, <2>6
  <2> HIDE DEF x
  <2> DEFINE y == EncodeField(f, x)
             z == <<v[1], v[2]>>
  <2>8. y = z /\ v = z
    BY <2>5, <2>7
  <2> HIDE DEF y, z
  <2>9. y = v
    BY <2>8
  <2> QED BY <2>9 DEF x, y
<1>4. CASE f = "Channel"
  <2>1. x = [page |-> v[1], number |-> v[2] * 256 + v[3]]
    BY <1>4 DEF DecodeField, Timestamps, Uint16Fields
  <2>2. EncodeField(f, x) = <<x.page>> \o Uint16(x.number)
    <3> HIDE DEF x
    <3> QED BY <1>4 DEF EncodeField, Timestamps, Uint16Fields
  <2>3. Len(v) = 3
    BY <1>1, <1>4, FieldLengths
  <2>4. v[1] \in Byte /\ v[2] \in Byte /\ v[3] \in Byte /\ v = <<v[1]>> \o <<v[2], v[3]>>
    BY <2>3, SMTT(20)
  <2>5. x.page = v[1] /\ x.number = v[2] * 256 + v[3]
    BY <2>1, SMT
  <2>6. Uint16(x.number) = <<v[2], v[3]>>
    <3>1. Uint16(v[2] * 256 + v[3]) = <<v[2], v[3]>>
      BY <2>4, Word
    <3> HIDE DEF x
    <3> QED BY <2>5, <3>1
  <2>7. <<x.page>> \o Uint16(x.number) = <<v[1]>> \o <<v[2], v[3]>>
    <3> HIDE DEF x
    <3> QED BY <2>5, <2>6
  <2> HIDE DEF x
  <2>8. EncodeField(f, x) = v
    BY <2>2, <2>4, <2>7
  <2> QED BY <2>8 DEF x
<1>5. CASE f = "ChannelMask"
  <2>1. x = DecodeChannelMask(v).mask
    BY <1>5 DEF DecodeField, Timestamps, Uint16Fields
  <2>2. EncodeField(f, x) = EncodeChannelMask(x).buf
    <3> HIDE DEF x
    <3> QED BY <1>5 DEF EncodeField, Timestamps, Uint16Fields
  <2>3. DecodeChannelMask(v) # [error |-> "bad"]
    BY <1>5, SMT
  <2>4. PICK m \in Seq(MaskEntries) : /\ DecodeChannelMask(v) = [error |-> "none", mask |-> m]
                                      /\ EncodeChannelMask(m).buf = SubSeq(v, 1, Len(v))
    BY <2>3, MaskDecoded DEF IsMaskOf
  <2>5. DecodeChannelMask(v).mask = m
    BY <2>4, SMT
  <2>6. SubSeq(v, 1, Len(v)) = v
    BY SMT
  <2> QED BY <2>1, <2>2, <2>4, <2>5, <2>6
<1>6. CASE f = "SecurityPolicy"
  <2>1. x = [rotationTime |-> v[1] * 256 + v[2], flags |-> SubSeq(v, 3, Len(v))]
    BY <1>6 DEF DecodeField, Timestamps, Uint16Fields
  <2>2. EncodeField(f, x) = Uint16(x.rotationTime) \o x.flags
    <3> HIDE DEF x
    <3> QED BY <1>6 DEF EncodeField, Timestamps, Uint16Fields
  <2>3. Len(v) \in {3, 4}
    BY <1>1, <1>6, FieldLengths
  <2>4. v[1] \in Byte /\ v[2] \in Byte
    BY <2>3, SMT
  <2>5. v = <<v[1], v[2]>> \o SubSeq(v, 3, Len(v))
    BY <2>3, SMT
  <2>6. x.rotationTime = v[1] * 256 + v[2] /\ x.flags = SubSeq(v, 3, Len(v))
    BY <2>1, SMT
  <2>7. Uint16(x.rotationTime) = <<v[1], v[2]>>
    <3>1. Uint16(v[1] * 256 + v[2]) = <<v[1], v[2]>>
      BY <2>4, Word
    <3> HIDE DEF x
    <3> QED BY <2>6, <3>1
  <2>8. Uint16(x.rotationTime) \o x.flags = <<v[1], v[2]>> \o SubSeq(v, 3, Len(v))
    <3> HIDE DEF x
    <3> QED BY <2>6, <2>7
  <2> HIDE DEF x
  <2>9. EncodeField(f, x) = v
    BY <2>2, <2>5, <2>8
  <2> QED BY <2>9 DEF x
<1>7. CASE f = "RegistrarIpv6Addr"
  <2>1. x = [address |-> v]
    BY <1>7 DEF DecodeField, Timestamps, Uint16Fields
  <2>2. EncodeField(f, x) = x.address
    <3> HIDE DEF x
    <3> QED BY <1>7 DEF EncodeField, Timestamps, Uint16Fields
  <2> QED BY <2>1, <2>2, SMT
<1>8. CASE f \notin Timestamps \cup Uint16Fields
                    \cup {"Channel", "ChannelMask", "SecurityPolicy", "RegistrarIpv6Addr"}
  <2>1. x = v
    BY <1>8 DEF DecodeField
  <2>2. EncodeField(f, v) = v
    BY <1>8 DEF EncodeField
  <2> QED BY <2>1, <2>2
<1> QED BY <1>2, <1>3, <1>4, <1>5, <1>6, <1>7, <1>8

-----------------------------------------------------------------------------
(* What GetTlvSet makes of a payload.                                      *)

(* The TLVs are inputs, and only the last of them is cut off.              *)
TlvInv ==
    /\ tlvs \in Seq(TlvInputs) /\ cut \in Nat
    /\ cut # 0 => /\ tlvs # <<>>
                  /\ cut < Len(SerializeTlv(tlvs[Len(tlvs)][1], tlvs[Len(tlvs)][2]))

(* Every step of TlvSpec keeps the TLVs inputs and cuts off less than the  *)
(* last.                                                                   *)
LEMMA TlvInvStep == TlvInv /\ [TlvNext]_tlvVars => TlvInv'
<1> SUFFICES ASSUME TlvInv, [TlvNext]_tlvVars PROVE TlvInv'
  OBVIOUS
<1>1. ASSUME NEW t \in TlvInputs, PutTlv(t) PROVE TlvInv'
  <2>1. tlvs' = Append(tlvs, t) /\ cut' = 0
    BY <1>1 DEF PutTlv
  <2>2. tlvs' \in Seq(TlvInputs)
    BY <2>1, SMT DEF TlvInv
  <2> QED BY <2>1, <2>2 DEF TlvInv
<1>2. ASSUME NEW n \in {1, 3}, CutOff(n) PROVE TlvInv'
  <2>1. /\ tlvs' = tlvs /\ cut' = n /\ tlvs # <<>>
        /\ n < Len(SerializeTlv(tlvs[Len(tlvs)][1], tlvs[Len(tlvs)][2]))
    BY <1>2 DEF CutOff
  <2>2. n \in Nat
    BY SMT
  <2> QED BY <2>1, <2>2 DEF TlvInv
<1>3. CASE UNCHANGED tlvVars
  BY <1>3 DEF TlvInv, tlvVars
<1> QED BY <1>1, <1>2, <1>3 DEF TlvNext

(* A TLV that is not overlong has a length that its length field holds.    *)
LEMMA NotOverlong ==
    ASSUME TlvInv, NEW i \in 1..Len(tlvs), ~Overlong(i)
    PROVE  Fits(tlvs[i])
<1> DEFINE t == tlvs[i]
           n == Len(t[2])
<1>1. tlvs[i] \in TlvInputs
  BY SeqAt DEF TlvInv
<1>2. t \in Byte \X Seq(Byte) /\ n < TlvLimit
  BY <1>1, TlvAssumption
<1>3. n \in Nat
  BY <1>2, SMT
<1>4. CASE IsExtendedTlv(t[1])
  BY <1>2, <1>4 DEF Fits
<1>5. CASE ~IsExtendedTlv(t[1])
  <2>1. (t[1] # kDomainPrefix /\ IsValid(t[1], n)) \/ ~(n >= kEscapeLength)
    BY <1>5 DEF Overlong
  <2> DEFINE type == t[1]
  <2>2. t[1] = type
    OBVIOUS
  <2> HIDE DEF n, type
  <2>3. ASSUME type # kDomainPrefix, IsValid(type, n), ~IsExtendedTlv(type) PROVE n < kEscapeLength
    BY <1>3, <2>3, SMT DEF IsValid, IsExtendedTlv, kDomainPrefix, kEscapeLength, kUdpEncapsulation,
                      kCommissionerToken, kJoinerDtlsEncapsulation
  <2>4. ASSUME ~(n >= kEscapeLength) PROVE n < kEscapeLength
    BY <1>3, <2>4, SMT DEF kEscapeLength
  <2>5. n < kEscapeLength
    BY <1>5, <2>1, <2>2, <2>3, <2>4
  <2> QED BY <1>2, <2>5 DEF Fits, n
<1> QED BY <1>4, <1>5

(* The payload is the TLVs, serialized, less what is cut off.              *)
LEMMA PayloadIs ==
    ASSUME TlvInv, \A i \in DOMAIN tlvs : ~Overlong(i)
    PROVE  /\ IsTlvList(tlvs) /\ DOMAIN tlvs = 1..Len(tlvs)
           /\ LET S == Concat(Pieces(tlvs)) IN Payload = SubSeq(S, 1, Len(S) - cut)
<1>1. tlvs \in Seq(TlvInputs)
  BY DEF TlvInv
<1>2. DOMAIN tlvs = 1..Len(tlvs) /\ Len(tlvs) \in Nat
  BY <1>1, SMT
<1>3. IsTlvList(tlvs)
  BY <1>2, NotOverlong DEF IsTlvList
<1> QED BY <1>2, <1>3 DEF Payload, Pieces

(* The set that holds the last valid TLV of each type.                     *)
HoldsLast(set) ==
    /\ \A type : type \in DOMAIN set <=> LastOf(type) # {}
    /\ \A type : \A i \in LastOf(type) : set[type] = tlvs[i][2]
    /\ \A type \in DOMAIN set : set[type] \in Seq(Byte) /\ IsValid(type, Len(set[type]))

(* The set that GetTlvSet has made holds the last valid TLV of each type.  *)
LEMMA LastHeld ==
    ASSUME IsTlvList(tlvs), NEW set, HoldsFrom(set, tlvs, 0)
    PROVE  HoldsLast(set)
<1> DEFINE n == Len(tlvs)
<1>1. /\ DOMAIN tlvs = 1..n /\ n \in Nat
      /\ \A i \in 1..n : tlvs[i] \in Byte \X Seq(Byte)
  BY DEF IsTlvList, Fits
<1>2. 0 + 1..n = 1..n
  BY SMT
<1>3. /\ DOMAIN set = {tlvs[k][1] : k \in {j \in 1..n : ValidAt(tlvs, j)}}
      /\ \A t \in DOMAIN set :
            \E k \in 1..n :
              /\ tlvs[k][1] = t /\ ValidAt(tlvs, k) /\ set[t] = tlvs[k][2]
              /\ \A j \in k + 1..n : tlvs[j][1] # t \/ ~ValidAt(tlvs, j)
  BY <1>2 DEF HoldsFrom
<1>4. \A i : ValidAt(tlvs, i) <=> Valid(i)
  BY DEF ValidAt, Valid
<1>5. ASSUME NEW t \in DOMAIN set
      PROVE  \E k \in LastOf(t) : set[t] = tlvs[k][2] /\ k \in 1..n /\ Valid(k)
  <2>1. PICK k \in 1..n :
              /\ tlvs[k][1] = t /\ ValidAt(tlvs, k) /\ set[t] = tlvs[k][2]
              /\ \A j \in k + 1..n : tlvs[j][1] # t \/ ~ValidAt(tlvs, j)
    BY <1>3
  <2>2. \A j \in 1..n : j > k => j \in k + 1..n
    BY <1>1, SMT
  <2>3. k \in LastOf(t)
    BY <1>1, <1>4, <2>1, <2>2 DEF LastOf
  <2> QED BY <1>4, <2>1, <2>3
<1>6. ASSUME NEW t, NEW i \in LastOf(t), NEW k \in LastOf(t) PROVE i = k
  <2>1. /\ i \in 1..n /\ k \in 1..n /\ ~(i > k) /\ ~(k > i)
    BY <1>1 DEF LastOf
  <2> QED BY <1>1, <2>1, SMT
<1>7. ASSUME NEW t, NEW i \in LastOf(t) PROVE t \in DOMAIN set
  <2>1. i \in 1..n /\ tlvs[i][1] = t /\ Valid(i)
    BY <1>1 DEF LastOf
  <2>2. tlvs[i][1] \in {tlvs[k][1] : k \in {j \in 1..n : ValidAt(tlvs, j)}}
    BY <1>4, <2>1
  <2> QED BY <1>3, <2>1, <2>2
<1>8. ASSUME NEW t \in DOMAIN set PROVE set[t] \in Seq(Byte) /\ IsValid(t, Len(set[t]))
  <2>1. PICK k \in LastOf(t) : set[t] = tlvs[k][2] /\ k \in 1..n /\ Valid(k)
    BY <1>5
  <2>2. tlvs[k][1] = t /\ IsValid(t, Len(tlvs[k][2]))
    BY <2>1 DEF LastOf, Valid
  <2>3. tlvs[k][2] \in Seq(Byte)
    BY <1>1, <2>1
  <2> QED BY <2>1, <2>2, <2>3
<1>9. ASSUME NEW t, NEW i \in LastOf(t) PROVE set[t] = tlvs[i][2]
  BY <1>5, <1>6, <1>7
<1>10. \A t : t \in DOMAIN set <=> LastOf(t) # {}
  BY <1>5, <1>7
<1> QED BY <1>8, <1>9, <1>10 DEF HoldsLast

(* What GetTlvSet makes of the payload.                                    *)
IsAnswer(got) ==
    \/ cut # 0 /\ got = [error |-> "bad"]
    \/ cut = 0 /\ \E set : HoldsLast(set) /\ got = [error |-> "none", set |-> set]

(* What GetTlvSet makes of the payload: an error if and only if it is cut  *)
(* off, and otherwise the last valid TLV of each type.                     *)
LEMMA PayloadRead ==
    ASSUME TlvInv, \A i \in DOMAIN tlvs : ~Overlong(i)
    PROVE  IsAnswer(GetTlvSet(Payload))
<1> DEFINE S == Concat(Pieces(tlvs))
<1>1. /\ IsTlvList(tlvs) /\ Payload = SubSeq(S, 1, Len(S) - cut)
  BY PayloadIs
<1>2. CASE cut = 0
  <2>1. SubSeq(S, 1, Len(S) - 0) = S
    <3>1. S \in Seq(Byte)
      BY <1>1, PiecesFlat, ConcatOffsets
    <3> HIDE DEF S
    <3> QED BY <3>1, SMT
  <2>2. PICK set : /\ HoldsFrom(set, tlvs, 0)
                   /\ GetTlvSet(S) = [error |-> "none", set |-> set]
    BY <1>1, TlvSetWhole
  <2> QED BY <1>1, <1>2, <2>1, <2>2, LastHeld DEF IsAnswer
<1>3. CASE cut # 0
  <2>1. /\ tlvs # <<>> /\ cut \in Nat /\ tlvs \in Seq(TlvInputs)
        /\ cut < Len(SerializeTlv(tlvs[Len(tlvs)][1], tlvs[Len(tlvs)][2]))
    BY <1>3 DEF TlvInv
  <2>2. Len(tlvs) > 0 /\ cut > 0
    BY <1>3, <2>1, SMT
  <2>3. GetTlvSet(SubSeq(S, 1, Len(S) - cut)) = [error |-> "bad"]
    BY <1>1, <2>1, <2>2, TlvSetCut
  <2> QED BY <1>1, <1>3, <2>3 DEF IsAnswer
<1> QED BY <1>2, <1>3

-----------------------------------------------------------------------------
(* What the handlers of responses make of it.                              *)

(* What AnswerIsWhole says of a field, of the channel mask and of an       *)
(* answer that carries a dataset.                                          *)
IsLastOf(f, x) == \E i \in LastOf(TlvTypeOf[f]) : EncodeField(f, x) = tlvs[i][2]

Held(k) == {f \in Elements(FieldsOf[k]) : LastOf(TlvTypeOf[f]) # {}}

BadMask == \E i \in LastOf(kChannelMask) : DecodeChannelMask(tlvs[i][2]).error # "none"

Given(k) ==
    CASE BadMask /\ k = "active" -> {"ActiveTimestamp"}
      [] BadMask /\ k = "pending" -> Held(k) \cap {"DelayTimer", "PendingTimestamp"}
      [] OTHER -> Held(k)

IsGiven(k, got) ==
    IF cut # 0 \/ (k = "pending" /\ Given(k) # {} /\ "DelayTimer" \notin Given(k))
    THEN got.error = "bad"
    ELSE /\ got.error = "none" /\ DOMAIN got.dataset = Given(k)
         /\ \A f \in Given(k) : IF BadMask /\ k = "active" THEN got.dataset[f] = CurrentTime
                                ELSE IsLastOf(f, got.dataset[f])

(* The channel mask that cannot be decoded is the one in the set.          *)
LEMMA MaskHeld ==
    ASSUME NEW set, HoldsLast(set)
    PROVE  BadMask <=> /\ kChannelMask \in DOMAIN set
                       /\ DecodeChannelMask(set[kChannelMask]).error # "none"
<1>1. /\ kChannelMask \in DOMAIN set <=> LastOf(kChannelMask) # {}
      /\ \A i \in LastOf(kChannelMask) : set[kChannelMask] = tlvs[i][2]
  BY DEF HoldsLast
<1>2. ASSUME BadMask
      PROVE  kChannelMask \in DOMAIN set /\ DecodeChannelMask(set[kChannelMask]).error # "none"
  BY <1>1, <1>2 DEF BadMask
<1>3. ASSUME kChannelMask \in DOMAIN set, DecodeChannelMask(set[kChannelMask]).error # "none"
      PROVE  BadMask
  <2>1. PICK i \in LastOf(kChannelMask) : set[kChannelMask] = tlvs[i][2]
    BY <1>1, <1>3
  <2> QED BY <1>3, <2>1 DEF BadMask
<1> QED BY <1>2, <1>3

(* The fields that FieldsIn reads, where the channel mask is not among     *)
(* them or can be decoded.                                                 *)
LEMMA FieldsRead ==
    ASSUME NEW set, HoldsLast(set), NEW fields, BadMask => "ChannelMask" \notin Elements(fields)
    PROVE  LET d == FieldsIn(set, fields)
           IN  /\ DOMAIN d = {f \in Elements(fields) : LastOf(TlvTypeOf[f]) # {}}
               /\ \A f \in DOMAIN d : d[f] = DecodeField(f, set[TlvTypeOf[f]]) /\ IsLastOf(f, d[f])
<1> DEFINE d == FieldsIn(set, fields)
<1>1. /\ DOMAIN d = {f \in Elements(fields) : TlvTypeOf[f] \in DOMAIN set}
      /\ \A f \in DOMAIN d : d[f] = DecodeField(f, set[TlvTypeOf[f]])
  BY DEF FieldsIn
<1> HIDE DEF d
<1>2. DOMAIN d = {f \in Elements(fields) : LastOf(TlvTypeOf[f]) # {}}
  <2>1. \A f : TlvTypeOf[f] \in DOMAIN set <=> LastOf(TlvTypeOf[f]) # {}
    BY DEF HoldsLast
  <2> QED BY <1>1, <2>1
<1>3. ASSUME NEW f \in DOMAIN d PROVE IsLastOf(f, d[f])
  <2> DEFINE type == TlvTypeOf[f]
  <2>1. f \in Elements(fields) /\ type \in DOMAIN set
    BY <1>1
  <2>2. set[type] \in Seq(Byte) /\ IsValid(type, Len(set[type]))
    BY <2>1 DEF HoldsLast
  <2>3. f = "ChannelMask" => DecodeChannelMask(set[type]).error = "none"
    <3>1. TlvTypeOf["ChannelMask"] = kChannelMask
      BY DEF TlvTypeOf
    <3> QED BY <2>1, <3>1, MaskHeld
  <2>4. EncodeField(f, DecodeField(f, set[type])) = set[type]
    BY <2>2, <2>3, FieldDecoded
  <2>5. PICK i \in LastOf(type) : set[type] = tlvs[i][2]
    BY <2>1 DEF HoldsLast
  <2> QED BY <1>1, <2>4, <2>5 DEF IsLastOf
<1> QED BY <1>1, <1>2, <1>3 DEF d

(* The answer to a GET request, of each kind: GetDatasetDone.              *)
LEMMA CutAnswer ==
    ASSUME cut # 0, NEW p, GetTlvSet(p) = [error |-> "bad"], NEW k \in DOMAIN FieldsOf
    PROVE  IsGiven(k, GetDatasetDone(k, p))
<1> DEFINE got == [error |-> "bad"]
<1>1. got.error = "bad" /\ got.error # "none"
  OBVIOUS
<1> HIDE DEF got
<1>2. GetTlvSet(p) = got
  BY DEF got
<1> DEFINE none == [error |-> "bad", dataset |-> EmptyDataset]
<1>3. \A fields : DecodeFields(got, fields) = none
  BY <1>1 DEF DecodeFields
<1>4. \A d : DecodeActiveFields(got, d) = none
  BY <1>1, <1>3 DEF DecodeActiveFields
<1>5. none.error = "bad" /\ none.error # "none" /\ DOMAIN none.dataset = {}
  BY DEF EmptyDataset
<1> HIDE DEF none
<1>6. CASE k = "active"
  <2>1. GetDatasetDone(k, p) = none
    BY <1>2, <1>4, <1>6 DEF GetDatasetDone, GetActiveDatasetDone, DecodeActiveOperationalDataset
  <2> QED BY <1>5, <2>1 DEF IsGiven
<1>7. CASE k = "pending"
  <2>1. DecodePendingOperationalDataset(p) = none
    BY <1>2, <1>4, <1>5 DEF DecodePendingOperationalDataset, DecodePendingFields, DecodeActiveOperationalDataset
  <2>2. NeedsDelayTimer(none) = none
    BY <1>5 DEF NeedsDelayTimer
  <2>3. GetDatasetDone(k, p) = none
    BY <1>7, <2>1, <2>2 DEF GetDatasetDone, GetPendingDatasetDone
  <2> QED BY <1>5, <2>3 DEF IsGiven
<1>8. CASE k = "commissioner"
  <2>1. GetDatasetDone(k, p) = none
    BY <1>2, <1>3, <1>8 DEF GetDatasetDone, DecodeCommissionerDataset
  <2> QED BY <1>5, <2>1 DEF IsGiven
<1>9. CASE k = "bbr"
  <2>1. GetDatasetDone(k, p) = none
    BY <1>2, <1>3, <1>9 DEF GetDatasetDone, DecodeBbrDataset
  <2> QED BY <1>5, <2>1 DEF IsGiven
<1> QED BY <1>6, <1>7, <1>8, <1>9, FieldNames

(* The answer with a whole payload: the fields of its last valid TLVs,     *)
(* except for the datasets that a channel mask that cannot be decoded      *)
(* spoils.                                                                 *)
LEMMA WholeAnswer ==
    ASSUME cut = 0, NEW p, NEW set, HoldsLast(set),
           GetTlvSet(p) = [error |-> "none", set |-> set], NEW k \in DOMAIN FieldsOf
    PROVE  IsGiven(k, GetDatasetDone(k, p))
<1> DEFINE got == [error |-> "none", set |-> set]
           Read(fields) == [error |-> "none", dataset |-> FieldsIn(set, fields)]
<1>1. got.error = "none" /\ got.set = set
  OBVIOUS
<1> HIDE DEF got
<1>2. GetTlvSet(p) = got
  BY DEF got
<1>3. \A fields : DecodeFields(got, fields) = Read(fields)
  BY <1>1 DEF DecodeFields
<1>4. /\ BadMask => \A d : DecodeActiveFields(got, d) = [error |-> "none", dataset |-> d]
      /\ ~BadMask => \A d : DecodeActiveFields(got, d) = Read(ActiveFields)
  BY <1>1, <1>3, MaskHeld DEF DecodeActiveFields
<1>5. ASSUME NEW g, NEW d, g = [error |-> "none", dataset |-> d]
      PROVE  g.error = "none" /\ g.dataset = d
  BY <1>5
<1>6. CASE k = "active"
  <2> DEFINE g == GetDatasetDone(k, p)
  <2>1. g = DecodeActiveFields(got, NewDataset("active"))
    BY <1>2, <1>6 DEF GetDatasetDone, GetActiveDatasetDone, DecodeActiveOperationalDataset
  <2>2. CASE BadMask
    <3>1. g = [error |-> "none", dataset |-> NewDataset("active")]
      BY <1>4, <2>1, <2>2
    <3>2. Given(k) = {"ActiveTimestamp"}
      BY <1>6, <2>2 DEF Given
    <3>3. DOMAIN NewDataset("active") = {"ActiveTimestamp"} /\ NewDataset("active")["ActiveTimestamp"] = CurrentTime
      <4>1. Elements(ActiveFields) \cap Timestamps = {"ActiveTimestamp"}
        BY FieldNames DEF Timestamps
      <4>2. FieldsOf["active"] = ActiveFields
        BY FieldNames
      <4>3. NewDataset("active") = [f \in {"ActiveTimestamp"} |-> CurrentTime]
        BY <4>1, <4>2 DEF NewDataset
      <4> QED BY <4>3
    <3> HIDE DEF g
    <3>4. g.error = "none" /\ g.dataset = NewDataset("active")
      BY <1>5, <3>1
    <3>5. IsGiven(k, g)
      BY <1>6, <2>2, <3>2, <3>3, <3>4 DEF IsGiven
    <3> QED BY <3>5 DEF g
  <2>3. CASE ~BadMask
    <3>1. g = Read(ActiveFields)
      BY <1>4, <2>1, <2>3
    <3>2. Given(k) = {f \in Elements(ActiveFields) : LastOf(TlvTypeOf[f]) # {}}
      BY <1>6, <2>3, FieldNames DEF Given, Held
    <3> HIDE DEF g
    <3>3. g.error = "none" /\ g.dataset = FieldsIn(set, ActiveFields)
      BY <1>5, <3>1
    <3>4. IsGiven(k, g)
      <4>1. k # "pending"
        BY <1>6
      <4> QED BY <2>3, <3>2, <3>3, <4>1, FieldsRead DEF IsGiven
    <3> QED BY <3>4 DEF g
  <2> QED BY <2>2, <2>3
<1>7. CASE k = "pending"
  <2> DEFINE two == <<"DelayTimer", "PendingTimestamp">>
             base == IF BadMask THEN EmptyDataset ELSE FieldsIn(set, ActiveFields)
             g == [error |-> "none", dataset |-> base]
             d == Override(base, FieldsIn(set, two))
             h == [error |-> "none", dataset |-> d]
  <2>1. DecodePendingOperationalDataset(p) = h
    <3>1. DecodeActiveOperationalDataset(EmptyDataset, p) = g
      BY <1>2, <1>4 DEF DecodeActiveOperationalDataset
    <3>2. g.error = "none"
      OBVIOUS
    <3>3. [g EXCEPT !.dataset = Override(@, FieldsIn(set, two))] = h
      <4>1. ASSUME NEW x, NEW y
            PROVE  [[error |-> "none", dataset |-> x] EXCEPT !.dataset = Override(@, y)]
                       \in [error : {"none"}, dataset : {Override(x, y)}]
        OBVIOUS
      <4>2. ASSUME NEW s, NEW y, s \in [error : {"none"}, dataset : {y}]
            PROVE  s = [error |-> "none", dataset |-> y]
        BY <4>2
      <4> HIDE DEF base, two
      <4> QED BY <4>1, <4>2, ZenonT(30)
    <3> HIDE DEF g, h
    <3> QED BY <1>1, <1>2, <3>1, <3>2, <3>3 DEF DecodePendingOperationalDataset, DecodePendingFields
  <2>2. GetDatasetDone(k, p) = NeedsDelayTimer(h)
    <3> HIDE DEF h
    <3> QED BY <1>7, <2>1 DEF GetDatasetDone, GetPendingDatasetDone
  <2>3. h.error = "none" /\ h.dataset = d
    OBVIOUS
  <2>4. /\ DOMAIN FieldsIn(set, two) = {f \in {"DelayTimer", "PendingTimestamp"} : LastOf(TlvTypeOf[f]) # {}}
        /\ \A f \in DOMAIN FieldsIn(set, two) : IsLastOf(f, FieldsIn(set, two)[f])
    <3>1. Elements(two) = {"DelayTimer", "PendingTimestamp"}
      BY FieldNames
    <3>2. "ChannelMask" \notin Elements(two)
      BY <3>1
    <3> HIDE DEF two
    <3> QED BY <3>1, <3>2, FieldsRead
  <2>5. /\ DOMAIN base = IF BadMask THEN {} ELSE {f \in Elements(ActiveFields) : LastOf(TlvTypeOf[f]) # {}}
        /\ \A f \in DOMAIN base : IsLastOf(f, base[f])
    <3>1. DOMAIN EmptyDataset = {}
      BY DEF EmptyDataset
    <3> QED BY <3>1, FieldsRead
  <2> HIDE DEF base, two
  <2>6. /\ DOMAIN d = DOMAIN base \cup DOMAIN FieldsIn(set, two)
        /\ \A f \in DOMAIN d : IsLastOf(f, d[f])
    <3>1. /\ DOMAIN d = DOMAIN base \cup DOMAIN FieldsIn(set, two)
          /\ \A f \in DOMAIN d : d[f] = IF f \in DOMAIN FieldsIn(set, two) THEN FieldsIn(set, two)[f] ELSE base[f]
      BY DEF Override
    <3> HIDE DEF d
    <3> QED BY <2>4, <2>5, <3>1
  <2> HIDE DEF d, h
  <2>7. DOMAIN d = Given(k)
    <3>1. Held(k) = {f \in Elements(ActiveFields) \cup {"DelayTimer", "PendingTimestamp"} : LastOf(TlvTypeOf[f]) # {}}
      BY <1>7, FieldNames DEF Held
    <3>2. Given(k) = IF BadMask THEN Held(k) \cap {"DelayTimer", "PendingTimestamp"} ELSE Held(k)
      BY <1>7 DEF Given
    <3>3. DOMAIN d = IF BadMask THEN {f \in {"DelayTimer", "PendingTimestamp"} : LastOf(TlvTypeOf[f]) # {}}
                     ELSE {f \in Elements(ActiveFields) \cup {"DelayTimer", "PendingTimestamp"} : LastOf(TlvTypeOf[f]) # {}}
      BY <2>4, <2>5, <2>6
    <3> QED BY <3>1, <3>2, <3>3
  <2>8. CASE Given(k) # {} /\ "DelayTimer" \notin Given(k)
    <3>1. NeedsDelayTimer(h) = [error |-> "bad", dataset |-> EmptyDataset]
      BY <2>3, <2>7, <2>8 DEF NeedsDelayTimer
    <3>2. GetDatasetDone(k, p).error = "bad"
      BY <2>2, <3>1, SMT
    <3> QED BY <1>7, <2>8, <3>2 DEF IsGiven
  <2>9. CASE ~(Given(k) # {} /\ "DelayTimer" \notin Given(k))
    <3>1. NeedsDelayTimer(h) = h
      BY <2>3, <2>7, <2>9 DEF NeedsDelayTimer
    <3>2. k # "active"
      BY <1>7
    <3> QED BY <2>2, <2>3, <2>6, <2>7, <2>9, <3>1, <3>2 DEF IsGiven
  <2> QED BY <2>8, <2>9
<1>8. CASE k \in {"commissioner", "bbr"}
  <2> DEFINE fields == FieldsOf[k]
             g == GetDatasetDone(k, p)
  <2>1. g = Read(fields) /\ "ChannelMask" \notin Elements(fields)
    <3>1. CASE k = "commissioner"
      <4>1. g = Read(CommissionerFields)
        BY <1>2, <1>3, <3>1 DEF GetDatasetDone, DecodeCommissionerDataset
      <4> QED BY <3>1, <4>1, FieldNames
    <3>2. CASE k = "bbr"
      <4>1. g = Read(BbrFields)
        BY <1>2, <1>3, <3>2 DEF GetDatasetDone, DecodeBbrDataset
      <4> QED BY <3>2, <4>1, FieldNames
    <3> QED BY <1>8, <3>1, <3>2
  <2>2. k # "active" /\ k # "pending"
    BY <1>8
  <2> HIDE DEF g
  <2>3. g.error = "none" /\ g.dataset = FieldsIn(set, fields)
    BY <1>5, <2>1
  <2>4. Given(k) = {f \in Elements(fields) : LastOf(TlvTypeOf[f]) # {}}
    BY <2>2 DEF Given, Held
  <2> HIDE DEF fields
  <2>5. IsGiven(k, g)
    BY <2>1, <2>2, <2>3, <2>4, FieldsRead DEF IsGiven
  <2> QED BY <2>5 DEF g
<1> QED BY <1>6, <1>7, <1>8, FieldNames

(* What AnswerIsWhole says of the handlers of reports and of State TLVs.   *)
ReportsAreWhole(p) ==
    /\ (HandlePanIdConflict(p) # {}) =
           (cut = 0 /\ ~BadMask /\ {"ChannelMask", "PanId"} \subseteq Held("active"))
    /\ (HandleEnergyReport(p) # {}) = (cut = 0 /\ ~BadMask)
    /\ (HandleStateResponse(p, TRUE) = "none") =
           (cut = 0 /\ \E i \in LastOf(kState) : tlvs[i][2] = <<kStateAccept>>)
    /\ (HandleStateResponse(p, FALSE) = "rejected") =
           (cut = 0 /\ \E i \in LastOf(kState) : tlvs[i][2] # <<kStateAccept>>)

(* The handlers of reports and of State TLVs with a payload that is cut    *)
(* off.                                                                    *)
LEMMA CutReports ==
    ASSUME cut # 0, NEW p, GetTlvSet(p) = [error |-> "bad"]
    PROVE  ReportsAreWhole(p)
<1> DEFINE got == GetTlvSet(p)
<1>1. got.error # "none"
  BY SMT
<1> HIDE DEF got
<1>2. HandlePanIdConflict(p) = {} /\ HandleEnergyReport(p) = {}
  BY <1>1 DEF HandlePanIdConflict, HandleEnergyReport, got
<1>3. HandleStateResponse(p, TRUE) = "bad" /\ HandleStateResponse(p, FALSE) = "none"
  <2> DEFINE state == IF got.error = "none" /\ kState \in DOMAIN got.set THEN {got.set[kState]} ELSE {}
  <2>1. state = {}
    BY <1>1
  <2>2. {} # {<<kStateAccept>>}
    OBVIOUS
  <2>3. \A m \in BOOLEAN : HandleStateResponse(p, m) =
            CASE state = {} -> IF m THEN "bad" ELSE "none"
              [] state = {<<kStateAccept>>} -> "none"
              [] OTHER -> "rejected"
    BY DEF HandleStateResponse, got
  <2> HIDE DEF state
  <2>4. \A m \in BOOLEAN : HandleStateResponse(p, m) = IF m THEN "bad" ELSE "none"
    BY <2>1, <2>2, <2>3
  <2> QED BY <2>4
<1>4. "bad" # "none" /\ "none" # "rejected"
  OBVIOUS
<1> QED BY <1>2, <1>3, <1>4 DEF ReportsAreWhole

(* The handlers of reports and of State TLVs with a whole payload.         *)
LEMMA WholeReports ==
    ASSUME cut = 0, NEW p, NEW set, HoldsLast(set), GetTlvSet(p) = [error |-> "none", set |-> set]
    PROVE  ReportsAreWhole(p)
<1> DEFINE got == GetTlvSet(p)
<1>1. got.error = "none" /\ got.set = set
  BY SMT
<1> HIDE DEF got
<1>2. /\ \A type : type \in DOMAIN set <=> LastOf(type) # {}
      /\ \A type : \A i \in LastOf(type) : set[type] = tlvs[i][2]
  BY DEF HoldsLast
<1>3. (HandlePanIdConflict(p) # {}) <=> ~BadMask /\ {"ChannelMask", "PanId"} \subseteq Held("active")
  <2>1. TlvTypeOf["ChannelMask"] = kChannelMask /\ TlvTypeOf["PanId"] = kPanId
    BY DEF TlvTypeOf
  <2>2. {"ChannelMask", "PanId"} \subseteq Held("active") <=> {kChannelMask, kPanId} \subseteq DOMAIN set
    BY <1>2, <2>1, FieldNames DEF Held
  <2>3. HandlePanIdConflict(p) # {} <=> /\ {kChannelMask, kPanId} \subseteq DOMAIN set
                                        /\ DecodeChannelMask(set[kChannelMask]).error = "none"
    BY <1>1 DEF HandlePanIdConflict, got
  <2> QED BY <2>2, <2>3, MaskHeld
<1>4. HandleEnergyReport(p) # {} <=> ~BadMask
  <2> DEFINE mask == IF kChannelMask \in DOMAIN set THEN DecodeChannelMask(set[kChannelMask])
                     ELSE [error |-> "none", mask |-> <<>>]
  <2>1. mask.error = "none" <=> ~BadMask
    <3>1. [error |-> "none", mask |-> <<>>].error = "none"
      OBVIOUS
    <3> QED BY <3>1, MaskHeld
  <2>2. HandleEnergyReport(p) # {} <=> mask.error = "none"
    BY <1>1 DEF HandleEnergyReport, got
  <2> QED BY <2>1, <2>2
<1> DEFINE state == IF kState \in DOMAIN set THEN {set[kState]} ELSE {}
           accept == {<<kStateAccept>>}
<1>5. /\ state = accept <=> \E i \in LastOf(kState) : tlvs[i][2] = <<kStateAccept>>
      /\ (state # {} /\ state # accept) <=> \E i \in LastOf(kState) : tlvs[i][2] # <<kStateAccept>>
  <2>1. CASE kState \in DOMAIN set
    <3>1. PICK i \in LastOf(kState) : TRUE
      BY <1>2, <2>1
    <3>2. \A j \in LastOf(kState) : set[kState] = tlvs[j][2]
      BY <1>2
    <3>3. state = {set[kState]} /\ state # {}
      BY <2>1
    <3>4. \A x, y : ({x} = {y}) <=> x = y
      OBVIOUS
    <3>5. state = accept <=> set[kState] = <<kStateAccept>>
      BY <3>3, <3>4
    <3> QED BY <3>1, <3>2, <3>3, <3>5
  <2>2. CASE kState \notin DOMAIN set
    <3>1. LastOf(kState) = {} /\ state = {} /\ state # accept
      BY <1>2, <2>2
    <3> QED BY <3>1
  <2> QED BY <2>1, <2>2
<1>6. \A m \in BOOLEAN : HandleStateResponse(p, m) =
          CASE state = {} -> IF m THEN "bad" ELSE "none"
            [] state = accept -> "none"
            [] OTHER -> "rejected"
  BY <1>1 DEF HandleStateResponse, got
<1>7. accept # {}
  OBVIOUS
<1> HIDE DEF state, accept
<1>8. /\ HandleStateResponse(p, TRUE) = "none" <=> state = accept
      /\ HandleStateResponse(p, FALSE) = "rejected" <=> state # {} /\ state # accept
  <2>1. CASE state = {}
    <3>1. \A m \in BOOLEAN : HandleStateResponse(p, m) = IF m THEN "bad" ELSE "none"
      BY <1>6, <1>7, <2>1
    <3>2. HandleStateResponse(p, TRUE) = "bad" /\ HandleStateResponse(p, FALSE) = "none"
      BY <3>1
    <3> QED BY <1>7, <2>1, <3>2
  <2>2. CASE state = accept
    <3>1. \A m \in BOOLEAN : HandleStateResponse(p, m) = "none"
      BY <1>6, <1>7, <2>2
    <3>2. HandleStateResponse(p, TRUE) = "none" /\ HandleStateResponse(p, FALSE) = "none"
      BY <3>1
    <3> QED BY <2>2, <3>2
  <2>3. CASE state # {} /\ state # accept
    <3>1. \A m \in BOOLEAN : HandleStateResponse(p, m) = "rejected"
      BY <1>6, <2>3
    <3>2. HandleStateResponse(p, TRUE) = "rejected" /\ HandleStateResponse(p, FALSE) = "rejected"
      BY <3>1
    <3> QED BY <2>3, <3>2
  <2> QED BY <2>1, <2>2, <2>3
<1> QED BY <1>3, <1>4, <1>5, <1>8 DEF ReportsAreWhole

(* What every handler makes of the payload.                                *)
LEMMA AnswersAre ==
    ASSUME TlvInv, \A i \in DOMAIN tlvs : ~Overlong(i)
    PROVE  ReportsAreWhole(Payload) /\ \A k \in DOMAIN FieldsOf : IsGiven(k, GetDatasetDone(k, Payload))
<1>1. IsAnswer(GetTlvSet(Payload))
  BY PayloadRead
<1>2. CASE cut # 0
  <2>1. GetTlvSet(Payload) = [error |-> "bad"]
    BY <1>1, <1>2 DEF IsAnswer
  <2> QED BY <1>2, <2>1, CutAnswer, CutReports
<1>3. CASE cut = 0
  <2>1. PICK set : HoldsLast(set) /\ GetTlvSet(Payload) = [error |-> "none", set |-> set]
    BY <1>1, <1>3 DEF IsAnswer
  <2> QED BY <1>3, <2>1, WholeAnswer, WholeReports
<1> QED BY <1>2, <1>3

(* Whatever TLVs the leader, a joiner or a border router sends, in         *)
(* whatever order, repeated, of unknown types or with bad lengths, and     *)
(* wherever the payload ends: the commissioner's handlers see the last     *)
(* valid TLV of each type, nothing else, and report an error if the        *)
(* payload is cut off. This is AnswerIsWhole of GetTlvSet and of the       *)
(* handlers in commissioner_impl.cpp, for every set of TLVs and payloads   *)
(* of every length.                                                        *)
THEOREM AnswersAreWhole == TlvSpec => []AnswerIsWhole
<1>1. TlvInit => TlvInv
  <2> SUFFICES ASSUME TlvInit PROVE TlvInv
    OBVIOUS
  <2>1. tlvs = <<>> /\ cut = 0
    BY DEF TlvInit
  <2>2. <<>> \in Seq(TlvInputs) /\ 0 \in Nat
    BY SMT
  <2> QED BY <2>1, <2>2 DEF TlvInv
<1>2. TlvInv => AnswerIsWhole
  <2> SUFFICES ASSUME TlvInv, \A i \in DOMAIN tlvs : ~Overlong(i)
               PROVE  AnswerIsWhole
    BY DEF AnswerIsWhole
  <2>1. ReportsAreWhole(Payload) /\ \A k \in DOMAIN FieldsOf : IsGiven(k, GetDatasetDone(k, Payload))
    BY AnswersAre
  <2> QED BY <2>1 DEF AnswerIsWhole, ReportsAreWhole, IsGiven, IsLastOf, Given, Held, BadMask
<1> QED BY <1>1, <1>2, TlvInvStep, PTL DEF TlvSpec

-----------------------------------------------------------------------------
(* JSON: what is exported and imported again.                              *)

(* What a character of a string is written as is told from the quote that  *)
(* ends the string, and read as the character; and only a solidus and an   *)
(* asterisk are written as what begins a comment.                          *)
LEMMA Escaped ==
    ASSUME NEW c \in Ascii
    PROVE  /\ Unescape(Escape(c)) = c /\ Escape(c) # Quote
           /\ {"char", "escaped"} \cap DOMAIN Escape(c) # {}
           /\ Escape(c) = Solidus => c = 47
           /\ Escape(c) \in {Solidus, Asterisk} => c \in {42, 47}
<1>1. CASE c \in 0..31 \cup {34, 92}
  <2>1. Escape(c) = [escaped |-> c]
    BY <1>1 DEF Escape
  <2>2. DOMAIN [escaped |-> c] = {"escaped"} /\ [escaped |-> c].escaped = c
    OBVIOUS
  <2>3. \A e : DOMAIN Char(e) = {"char"}
    BY DEF Char
  <2>4. "char" # "escaped"
    OBVIOUS
  <2>5. \A e : Escape(c) # Char(e)
    BY <2>1, <2>2, <2>3, <2>4
  <2>6. Unescape(Escape(c)) = c
    BY <2>1, <2>2, <2>4 DEF Unescape
  <2>7. {"char", "escaped"} \cap DOMAIN Escape(c) # {}
    BY <2>1, <2>2
  <2> QED BY <2>5, <2>6, <2>7 DEF Quote, Solidus, Asterisk
<1>2. CASE ~(c \in 0..31 \cup {34, 92})
  <2>1. Escape(c) = Char(c)
    BY <1>2 DEF Escape
  <2>2. DOMAIN Char(c) = {"char"} /\ \A e : Char(e).char = e
    BY DEF Char
  <2>3. Unescape(Escape(c)) = c
    BY <2>1, <2>2 DEF Unescape
  <2>4. {"char", "escaped"} \cap DOMAIN Escape(c) # {}
    BY <2>1, <2>2
  <2>5. \A e : Char(c) = Char(e) => c = e
    BY DEF Char
  <2>6. c # 34
    BY <1>2
  <2> QED BY <2>1, <2>3, <2>4, <2>5, <2>6 DEF Quote, Solidus, Asterisk
<1> QED BY <1>1, <1>2

(* Names, values, quotes and the ends of lines are told apart, and no name *)
(* or value is taken for what begins a comment.                            *)
LEMMA TokensApart ==
    /\ \A f : /\ "name" \in DOMAIN [name |-> f] /\ [name |-> f].name = f
              /\ [name |-> f] \notin {Solidus, Asterisk}
    /\ \A v : /\ "value" \in DOMAIN [value |-> v] /\ [value |-> v].value = v
              /\ [value |-> v] # Quote /\ [value |-> v] \notin {Solidus, Asterisk}
    /\ {Quote, Newline} \cap {Solidus, Asterisk} = {}
    /\ {"char", "escaped"} \cap DOMAIN Quote # {}
<1>1. /\ \A f : DOMAIN [name |-> f] = {"name"} /\ [name |-> f].name = f
      /\ \A v : DOMAIN [value |-> v] = {"value"} /\ [value |-> v].value = v
      /\ \A c : DOMAIN Char(c) = {"char"} /\ Char(c).char = c
  BY DEF Char
<1>2. "name" # "char" /\ "value" # "char"
  OBVIOUS
<1>3. /\ \A f, c : [name |-> f] # Char(c)
      /\ \A v, c : [value |-> v] # Char(c)
  BY <1>1, <1>2
<1>4. \A c, e : Char(c) = Char(e) => c = e
  BY DEF Char
<1>5. Quote # Solidus /\ Quote # Asterisk /\ Newline # Solidus /\ Newline # Asterisk
  BY <1>4, SMT DEF Quote, Newline, Solidus, Asterisk
<1>6. {"char", "escaped"} \cap DOMAIN Quote # {}
  BY <1>1 DEF Quote
<1>7. \A f : [name |-> f] \notin {Solidus, Asterisk}
  BY <1>3 DEF Solidus, Asterisk
<1>8. \A v : [value |-> v] # Quote /\ [value |-> v] \notin {Solidus, Asterisk}
  BY <1>3 DEF Quote, Solidus, Asterisk
<1>9. /\ \A f : "name" \in DOMAIN [name |-> f]
      /\ \A v : "value" \in DOMAIN [value |-> v]
  BY <1>1
<1>10. {Quote, Newline} \cap {Solidus, Asterisk} = {}
  BY <1>5
<1> QED BY <1>1, <1>6, <1>7, <1>8, <1>9, <1>10

(* The line of one field, and what it consists of.                         *)
Line(f, v) ==
    <<[name |-> f]>>
    \o (IF f \in TextFields
        THEN <<Quote>> \o [c \in DOMAIN v |-> Escape(v[c])] \o <<Quote>>
        ELSE <<[value |-> ToJson(f, v)]>>)
    \o <<Newline>>

IsLine(p, f, v) ==
    /\ p[1] = [name |-> f] /\ p[Len(p)] = Newline
    /\ IF f \in TextFields
       THEN /\ Len(p) = Len(v) + 4 /\ p[2] = Quote /\ p[Len(v) + 3] = Quote
            /\ \A c \in 1..Len(v) : p[c + 2] = Escape(v[c])
       ELSE Len(p) = 3 /\ p[2] = [value |-> ToJson(f, v)]

(* Names, quotes, the ends of lines, characters of strings and the values  *)
(* that are exported.                                                      *)
TokenSet(X, f, v) ==
    /\ [name |-> f] \in X /\ [value |-> ToJson(f, v)] \in X /\ Quote \in X /\ Newline \in X
    /\ \A c \in Ascii : Escape(c) \in X

(* A field is written as its name and its value, on a line.                *)
LEMMA LineIs ==
    ASSUME NEW X, NEW f, NEW v, TokenSet(X, f, v), f \in TextFields => v \in Seq(Ascii)
    PROVE  Line(f, v) \in Seq(X) /\ IsLine(Line(f, v), f, v)
<1> DEFINE a == [name |-> f]
           w == [value |-> ToJson(f, v)]
<1>1. a \in X /\ w \in X /\ Quote \in X /\ Newline \in X /\ \A c \in Ascii : Escape(c) \in X
  BY DEF TokenSet
<1> HIDE DEF a, w
<1>2. CASE f \in TextFields
  <2> DEFINE n == Len(v)
             e == [c \in DOMAIN v |-> Escape(v[c])]
             p == (<<a>> \o ((<<Quote>> \o e) \o <<Quote>>)) \o <<Newline>>
  <2>1. n \in Nat /\ DOMAIN v = 1..n /\ \A c \in 1..n : v[c] \in Ascii
    BY <1>2, SMT
  <2>2. Line(f, v) = p
    BY <1>2 DEF Line, a
  <2>3. e = [c \in 1..n |-> e[c]] /\ \A c \in 1..n : e[c] = Escape(v[c])
    <3>1. e = [c \in DOMAIN v |-> e[c]] /\ \A c \in DOMAIN v : e[c] = Escape(v[c])
      OBVIOUS
    <3> HIDE DEF e, n
    <3> QED BY <2>1, <3>1
  <2> HIDE DEF n, e
  <2>4. e \in Seq(X) /\ Len(e) = n
    <3>1. \A c \in 1..n : e[c] \in X
      BY <1>1, <2>1, <2>3
    <3>2. n \in Nat /\ e = [c \in 1..n |-> e[c]]
      BY <2>1, <2>3
    <3> QED BY <3>1, <3>2, SeqFun
  <2> DEFINE q == <<Quote>>
             b == (q \o e) \o q
  <2>5. q \in Seq(X) /\ Len(q) = 1 /\ q[1] = Quote
    BY <1>1, SMT
  <2> HIDE DEF q
  <2>6. /\ b \in Seq(X) /\ Len(b) = n + 2 /\ b[1] = Quote /\ b[n + 2] = Quote
        /\ \A c \in 1..n : b[c + 1] = e[c]
    <3> DEFINE x == q \o e
    <3>1. x \in Seq(X) /\ Len(x) = n + 1 /\ x[1] = Quote /\ \A c \in 1..n : x[c + 1] = e[c]
      <4>1. /\ x \in Seq(X) /\ Len(x) = Len(q) + Len(e)
            /\ \A k \in 1..Len(q) + Len(e) : x[k] = IF k <= Len(q) THEN q[k] ELSE e[k - Len(q)]
        BY <2>4, <2>5, ConcatAt
      <4> HIDE DEF x
      <4> QED BY <2>1, <2>4, <2>5, <4>1, SMT
    <3> HIDE DEF x
    <3>2. /\ x \o q \in Seq(X) /\ Len(x \o q) = n + 2 /\ (x \o q)[n + 2] = Quote
          /\ \A c \in 1..n + 1 : (x \o q)[c] = x[c]
      <4> DEFINE y == x \o q
      <4>1. /\ y \in Seq(X) /\ Len(y) = Len(x) + Len(q)
            /\ \A k \in 1..Len(x) + Len(q) : y[k] = IF k <= Len(x) THEN x[k] ELSE q[k - Len(x)]
        BY <2>5, <3>1, ConcatAt
      <4> HIDE DEF y
      <4>2. y \in Seq(X) /\ Len(y) = n + 2 /\ y[n + 2] = Quote /\ \A c \in 1..n + 1 : y[c] = x[c]
        BY <2>1, <2>5, <3>1, <4>1, SMT
      <4> QED BY <4>2 DEF y
    <3>3. 1 \in 1..n + 1 /\ \A c \in 1..n : c + 1 \in 1..n + 1
      BY <2>1, SMT
    <3> QED BY <3>1, <3>2, <3>3 DEF x
  <2>7. p = (<<a>> \o b) \o <<Newline>>
    BY DEF q
  <2> HIDE DEF b, p
  <2>8. /\ p \in Seq(X) /\ Len(p) = n + 4 /\ p[1] = a /\ p[n + 4] = Newline
        /\ \A c \in 1..n + 2 : p[c + 1] = b[c]
    BY <1>1, <2>1, <2>6, <2>7, SMT
  <2>9. 1 \in 1..n + 2 /\ n + 2 \in 1..n + 2 /\ 1 + 1 = 2 /\ (n + 2) + 1 = n + 3
    BY <2>1, SMT
  <2>10. ASSUME NEW c \in 1..n PROVE p[c + 2] = Escape(v[c])
    <3>1. c + 1 \in 1..n + 2 /\ (c + 1) + 1 = c + 2
      BY <2>1, SMT
    <3> QED BY <2>3, <2>6, <2>8, <3>1
  <2>11. p[2] = Quote /\ p[n + 3] = Quote
    BY <2>6, <2>8, <2>9
  <2>12. IsLine(p, f, v)
    BY <1>2, <2>8, <2>10, <2>11 DEF IsLine, n, a
  <2> QED BY <2>2, <2>8, <2>12
<1>3. CASE f \notin TextFields
  <2> DEFINE p == (<<a>> \o <<w>>) \o <<Newline>>
  <2>1. Line(f, v) = p
    BY <1>3 DEF Line, a, w
  <2>2. p \in Seq(X) /\ Len(p) = 3 /\ p[1] = a /\ p[2] = w /\ p[3] = Newline
    BY <1>1, SMT
  <2> HIDE DEF p
  <2>3. IsLine(p, f, v)
    BY <1>3, <2>2 DEF IsLine, a, w
  <2> QED BY <2>1, <2>2, <2>3
<1> QED BY <1>2, <1>3

(* A set of numbers has a smallest one, where a search ends.               *)
LEMMA SmallestOf ==
    ASSUME NEW S, S \subseteq Nat, S # {} PROVE \E i \in S : \A k \in S : i <= k
<1> DEFINE R == OpToRel(<, Nat)
<1>1. IsWellFoundedOn(R, Nat)
  BY NatLessThanWellFounded
<1>2. PICK i \in S : \A k \in S : ~(<<k, i>> \in R)
  <2> HIDE DEF R
  <2> QED BY <1>1, WFMin
<1>3. ASSUME NEW k \in S PROVE i <= k
  <2>1. i \in Nat /\ k \in Nat
    OBVIOUS
  <2>2. ~(<<k, i>> \in R)
    BY <1>2
  <2> QED BY <2>1, <2>2, SMT DEF OpToRel
<1> QED BY <1>3

(* How a line is read: where it may end, whether its value is a string,    *)
(* where it ends, whether it is well-formed, and its value.                *)
Closing(text, at) == {i \in at + 2..Len(text) : text[i] = Quote}
HasString(text, at) == at < Len(text) /\ text[at + 1] = Quote /\ Closing(text, at) # {}
LineEnd(text, at) ==
    IF HasString(text, at)
    THEN CHOOSE i \in Closing(text, at) : \A k \in Closing(text, at) : i <= k
    ELSE at + 1
GoodLine(text, at) ==
    LET end == LineEnd(text, at)
    IN  /\ "name" \in DOMAIN text[at] /\ end < Len(text) /\ text[end + 1] = Newline
        /\ HasString(text, at) \/ "value" \in DOMAIN text[end]
        /\ \A i \in at + 1..end - 1 : {"char", "escaped"} \cap DOMAIN text[i] # {}
LineValue(text, at) ==
    IF HasString(text, at)
    THEN [i \in 1..LineEnd(text, at) - at - 2 |-> Unescape(text[at + 1 + i])]
    ELSE FromJson(text[at].name, text[LineEnd(text, at)].value)

(* What ParseJson makes of the text from text[at] on, if it makes g[i] of  *)
(* the text from text[i] on.                                               *)
ParseAt(g, text, at) ==
    IF at > Len(text) THEN [error |-> "none", dataset |-> EmptyDataset]
    ELSE LET rest == g[LineEnd(text, at) + 2]
         IN  IF ~GoodLine(text, at) THEN [error |-> "invalid"]
             ELSE IF rest.error # "none" THEN rest
             ELSE [rest EXCEPT !.dataset =
                      Override([h \in {text[at].name} |-> LineValue(text, at)], @)]

ParsesFrom(g, text, a) == g = [at \in a..Len(text) + 1 |-> ParseAt(g, text, at)]

(* g holds the steps of ParseJson.                                         *)
ParseSteps(g, text) ==
    ParseJson(text) = g[1] /\ \A at \in 1..Len(text) + 1 : g[at] = ParseAt(g, text, at)

(* A line that is read ends within the text.                               *)
LEMMA LineEnds ==
    ASSUME NEW N \in Nat, NEW text, Len(text) = N, NEW at \in 1..N, GoodLine(text, at)
    PROVE  LineEnd(text, at) + 2 \in at + 1..N + 1
<1> DEFINE e == LineEnd(text, at)
           C == Closing(text, at)
<1>1. e < N
  BY DEF GoodLine
<1>2. C \subseteq at + 2..N
  BY DEF Closing
<1>3. CASE HasString(text, at)
  <2>1. C # {}
    BY <1>3 DEF HasString
  <2>2. e = CHOOSE i \in C : \A k \in C : i <= k
    BY <1>3 DEF LineEnd
  <2> HIDE DEF C, e
  <2>3. C \subseteq Nat
    BY <1>2, SMT
  <2>4. e \in C
    BY <2>1, <2>2, <2>3, SmallestOf
  <2>5. e \in at + 2..N
    BY <1>2, <2>4
  <2>6. e + 2 \in at + 1..N + 1
    BY <1>1, <2>5, SMT
  <2> QED BY <2>6 DEF e
<1>4. CASE ~HasString(text, at)
  <2>1. e = at + 1
    BY <1>4 DEF LineEnd
  <2> HIDE DEF e
  <2>2. e + 2 \in at + 1..N + 1
    BY <1>1, <2>1, SMT
  <2> QED BY <2>2 DEF e
<1> QED BY <1>3, <1>4

(* What ParseJson makes of the line at text[at] depends on what it makes   *)
(* of the lines behind only.                                               *)
LEMMA ParseAtSame ==
    ASSUME NEW N \in Nat, NEW text, Len(text) = N, NEW at \in 1..N + 1, NEW g, NEW h,
           \A i \in at + 1..N + 1 : g[i] = h[i]
    PROVE  ParseAt(g, text, at) = ParseAt(h, text, at)
<1>1. CASE at > Len(text)
  BY <1>1 DEF ParseAt
<1>2. CASE ~(at > Len(text)) /\ ~GoodLine(text, at)
  BY <1>2 DEF ParseAt
<1>3. CASE ~(at > Len(text)) /\ GoodLine(text, at)
  <2>1. at \in 1..N
    BY <1>3, SMT
  <2>2. g[LineEnd(text, at) + 2] = h[LineEnd(text, at) + 2]
    BY <1>3, <2>1, LineEnds
  <2> QED BY <1>3, <2>2 DEF ParseAt
<1> QED BY <1>1, <1>2, <1>3

(* The function that ParseJson applies exists: each line is behind the one *)
(* before.                                                                 *)
LEMMA ParsesDefined ==
    ASSUME NEW N \in Nat, NEW text, Len(text) = N PROVE \E g : ParsesFrom(g, text, 1)
<1> DEFINE T == {m \in Nat : m <= N => \E g : ParsesFrom(g, text, N + 1 - m)}
<1>1. 0 \in T
  <2> DEFINE g == [at \in N + 1..N + 1 |-> ParseAt(<<>>, text, at)]
  <2>1. ASSUME NEW at \in N + 1..N + 1 PROVE ParseAt(g, text, at) = ParseAt(<<>>, text, at)
    <3>1. at > Len(text)
      BY SMT
    <3> QED BY <3>1 DEF ParseAt
  <2>2. g = [at \in N + 1..N + 1 |-> ParseAt(g, text, at)]
    BY <2>1
  <2> HIDE DEF g
  <2>3. ParsesFrom(g, text, N + 1)
    BY <2>2 DEF ParsesFrom
  <2>4. N + 1 - 0 = N + 1
    BY SMT
  <2> QED BY <2>3, <2>4
<1>2. ASSUME NEW m \in Nat, m \in T PROVE m + 1 \in T
  <2> SUFFICES ASSUME m + 1 <= N PROVE \E g : ParsesFrom(g, text, N + 1 - (m + 1))
    BY SMT
  <2> DEFINE a == N + 1 - m
             b == N + 1 - (m + 1)
  <2>1. a \in 1..N + 1 /\ b \in 1..N /\ a = b + 1 /\ m <= N
    BY SMT
  <2>2. PICK g : ParsesFrom(g, text, a)
    BY <1>2, <2>1
  <2> DEFINE h == [at \in b..N + 1 |-> IF at = b THEN ParseAt(g, text, at) ELSE g[at]]
  <2>3. h = [at \in b..N + 1 |-> h[at]]
    OBVIOUS
  <2>4. \A at \in b..N + 1 : h[at] = IF at = b THEN ParseAt(g, text, at) ELSE g[at]
    OBVIOUS
  <2>5. \A at \in a..N + 1 : g[at] = ParseAt(g, text, at)
    BY <2>2 DEF ParsesFrom
  <2> HIDE DEF h, a, b
  <2>6. ASSUME NEW at \in b..N + 1 PROVE h[at] = ParseAt(h, text, at)
    <3>1. \A i \in at + 1..N + 1 : i \in a..N + 1 /\ i # b /\ i \in b..N + 1
      BY <2>1, SMT
    <3>2. \A i \in at + 1..N + 1 : g[i] = h[i]
      BY <2>4, <3>1
    <3>3. at \in 1..N + 1
      BY <2>1, SMT
    <3>4. ParseAt(g, text, at) = ParseAt(h, text, at)
      BY <3>2, <3>3, ParseAtSame, SMT
    <3>5. at = b \/ at \in a..N + 1
      BY <2>1, SMT
    <3> QED BY <2>4, <2>5, <3>4, <3>5
  <2>7. ParsesFrom(h, text, b)
    BY <2>3, <2>6 DEF ParsesFrom
  <2> QED BY <2>7 DEF b
<1>3. \A m \in Nat : m \in T
  <2> HIDE DEF T
  <2> QED BY <1>1, <1>2, SetInduction
<1>4. N + 1 - N = 1 /\ N <= N
  BY SMT
<1> QED BY <1>3, <1>4

(* ParseJson is its steps.                                                 *)
LEMMA ParseStepsDefined ==
    ASSUME NEW N \in Nat, NEW text, Len(text) = N PROVE \E g : ParseSteps(g, text)
<1> DEFINE g == CHOOSE x : ParsesFrom(x, text, 1)
<1>1. ParseJson(text) = g[1]
  BY DEF ParseJson, ParsesFrom, ParseAt, LineValue, GoodLine, LineEnd, HasString, Closing
<1>2. ParsesFrom(g, text, 1)
  BY ParsesDefined
<1> HIDE DEF g
<1>3. \A at \in 1..Len(text) + 1 : g[at] = ParseAt(g, text, at)
  BY <1>2 DEF ParsesFrom
<1>4. ParseSteps(g, text)
  BY <1>1, <1>3 DEF ParseSteps
<1> QED BY <1>4

(* The smallest of a set of numbers is the one that the search finds.      *)
LEMMA Found ==
    ASSUME NEW C, C \subseteq Nat, NEW e \in C, \A k \in C : e <= k
    PROVE  (CHOOSE i \in C : \A k \in C : i <= k) = e
<1> DEFINE x == CHOOSE i \in C : \A k \in C : i <= k
<1>1. x \in C /\ \A k \in C : x <= k
  OBVIOUS
<1> HIDE DEF x
<1>2. x <= e /\ e <= x /\ x \in Nat /\ e \in Nat
  BY <1>1
<1>3. x = e
  BY <1>2, SMT
<1> QED BY <1>3 DEF x

(* Where the parts of the line of a string of n characters stand.          *)
LEMMA LineParts ==
    ASSUME NEW N \in Nat, NEW b \in Nat, NEW n \in Nat, b + (n + 4) <= N
    PROVE  /\ b + (n + 3) \in (b + 1) + 2..N /\ b + 1 < N /\ (b + 1) + 1 = b + 2
           /\ b + (n + 3) < N /\ (b + (n + 3)) + 1 = b + (n + 4)
           /\ (b + (n + 3)) - (b + 1) - 2 = n /\ (b + (n + 3)) + 2 = (b + (n + 4)) + 1
           /\ \A i \in (b + 1) + 1..(b + (n + 3)) - 1 :
                 i # b + 2 => i - (b + 2) \in 1..n /\ b + ((i - (b + 2)) + 2) = i
  BY SMT

(* p stands in the text behind text[b]; and what can be read as written.   *)
StandsAt(p, text, b) ==
    /\ Len(p) \in Nat /\ b + Len(p) <= Len(text)
    /\ \A j \in 1..Len(p) : text[b + j] = p[j]
Readable(f, v) ==
    /\ f \in TextFields => v \in Seq(Ascii)
    /\ f \notin TextFields => FromJson(f, ToJson(f, v)) = v

(* A line that was written is read, wherever it stands.                    *)
LEMMA LineRead ==
    ASSUME NEW text, Len(text) \in Nat, NEW b \in Nat, NEW p, NEW f, NEW v,
           IsLine(p, f, v), StandsAt(p, text, b), Readable(f, v)
    PROVE  /\ GoodLine(text, b + 1) /\ LineEnd(text, b + 1) + 2 = (b + Len(p)) + 1
           /\ text[b + 1].name = f /\ LineValue(text, b + 1) = v
<1> DEFINE N == Len(text)
           at == b + 1
           e == LineEnd(text, at)
           C == Closing(text, at)
<1>1. /\ N \in Nat /\ Len(p) \in Nat /\ b + Len(p) <= N /\ \A j \in 1..Len(p) : text[b + j] = p[j]
      /\ f \in TextFields => v \in Seq(Ascii)
      /\ f \notin TextFields => FromJson(f, ToJson(f, v)) = v
  BY DEF StandsAt, Readable
<1> HIDE DEF N
<1>2. p[1] = [name |-> f] /\ p[Len(p)] = Newline
  BY DEF IsLine
<1>3. CASE f \in TextFields
  <2> DEFINE n == Len(v)
  <2>1. /\ Len(p) = n + 4 /\ p[2] = Quote /\ p[n + 3] = Quote
        /\ \A c \in 1..n : p[c + 2] = Escape(v[c])
    BY <1>3 DEF IsLine
  <2>2. n \in Nat /\ v = [c \in 1..n |-> v[c]] /\ \A c \in 1..n : v[c] \in Ascii
    BY <1>1, <1>3, SMT
  <2> HIDE DEF n
  <2>3. /\ 1 \in 1..n + 4 /\ 2 \in 1..n + 4 /\ n + 3 \in 1..n + 4 /\ n + 4 \in 1..n + 4
        /\ (\A c \in 1..n : c + 2 \in 1..n + 4)
    BY <2>2, SMT
  <2>4. /\ text[b + 1] = [name |-> f] /\ text[b + 2] = Quote /\ text[b + (n + 3)] = Quote
        /\ text[b + (n + 4)] = Newline
    BY <1>1, <1>2, <2>1, <2>3
  <2>5. \A c \in 1..n : text[b + (c + 2)] = Escape(v[c])
    BY <1>1, <2>1, <2>3
  <2> DEFINE x == b + (n + 3)
  <2>6. /\ x \in at + 2..N /\ at < N /\ at + 1 = b + 2 /\ x < N /\ x + 1 = b + (n + 4)
        /\ x - at - 2 = n /\ x + 2 = (b + Len(p)) + 1
        /\ \A i \in at + 1..x - 1 : i # b + 2 => i - (b + 2) \in 1..n /\ b + ((i - (b + 2)) + 2) = i
    <3>1. b + (n + 4) <= N
      BY <1>1, <2>1
    <3>2. /\ x \in at + 2..N /\ at < N /\ at + 1 = b + 2 /\ x < N /\ x + 1 = b + (n + 4)
          /\ x - at - 2 = n /\ x + 2 = (b + (n + 4)) + 1
          /\ \A i \in at + 1..x - 1 :
                i # b + 2 => i - (b + 2) \in 1..n /\ b + ((i - (b + 2)) + 2) = i
      <4>1. n \in Nat
        BY <2>2
      <4> QED BY ONLY <1>1, b \in Nat, <4>1, <3>1, LineParts
    <3> HIDE DEF x, at
    <3> QED BY <2>1, <3>2
  <2>7. x \in C
    BY <2>4, <2>6 DEF Closing, N
  <2>8. ASSUME NEW k \in C PROVE x <= k
    <3>1. k \in at + 2..N /\ text[k] = Quote
      BY DEF Closing, N
    <3>2. SUFFICES ASSUME ~(x <= k) PROVE FALSE
      OBVIOUS
    <3> DEFINE c == k - (b + 2)
    <3>3. c \in 1..n /\ b + (c + 2) = k
      BY <2>2, <3>1, <3>2, SMT
    <3> HIDE DEF c
    <3>4. text[k] = Escape(v[c])
      BY <2>5, <3>3
    <3> QED BY <2>2, <3>1, <3>3, <3>4, Escaped
  <2>9. C \subseteq Nat
    BY SMT DEF Closing
  <2>10. HasString(text, at)
    BY <2>4, <2>6, <2>7 DEF HasString, N
  <2>11. e = x
    <3>1. e = CHOOSE i \in C : \A k \in C : i <= k
      BY <2>10 DEF LineEnd
    <3> HIDE DEF C, e, x
    <3> QED BY <2>7, <2>8, <2>9, <3>1, Found
  <2> HIDE DEF e, x, C
  <2>12. ASSUME NEW i \in at + 1..e - 1 PROVE {"char", "escaped"} \cap DOMAIN text[i] # {}
    <3>1. CASE i = b + 2
      BY <2>4, <3>1, TokensApart
    <3>2. CASE i # b + 2
      <4> DEFINE c == i - (b + 2)
      <4>1. c \in 1..n /\ b + (c + 2) = i
        BY <2>6, <2>11, <3>2
      <4> HIDE DEF c
      <4>2. text[i] = Escape(v[c]) /\ v[c] \in Ascii
        BY <2>2, <2>5, <4>1
      <4> QED BY <4>2, Escaped
    <3> QED BY <3>1, <3>2
  <2>13. "name" \in DOMAIN text[b + 1] /\ text[b + 1].name = f
    BY <2>4, TokensApart
  <2>14. e < Len(text) /\ text[e + 1] = Newline
    BY <2>4, <2>6, <2>11 DEF x, N
  <2>15. GoodLine(text, at)
    BY <2>10, <2>12, <2>13, <2>14 DEF GoodLine, e
  <2>16. LineValue(text, at) = v
    <3>1. LineValue(text, at) = [i \in 1..e - at - 2 |-> Unescape(text[at + 1 + i])]
      BY <2>10 DEF LineValue, e
    <3>2. LineValue(text, at) = [i \in 1..n |-> Unescape(text[at + 1 + i])]
      BY <2>6, <2>11, <3>1
    <3>3. ASSUME NEW i \in 1..n PROVE Unescape(text[at + 1 + i]) = v[i]
      <4>1. at + 1 + i = b + (i + 2)
        BY <2>2, SMT
      <4>2. text[at + 1 + i] = Escape(v[i]) /\ v[i] \in Ascii
        BY <2>2, <2>5, <4>1
      <4> QED BY <4>2, Escaped
    <3>4. LineValue(text, at) = [i \in 1..n |-> v[i]]
      BY <3>2, <3>3
    <3> QED BY <2>2, <3>4
  <2> QED BY <2>6, <2>11, <2>13, <2>15, <2>16 DEF e
<1>4. CASE f \notin TextFields
  <2>1. Len(p) = 3 /\ p[2] = [value |-> ToJson(f, v)]
    BY <1>4 DEF IsLine
  <2>2. 1 \in 1..3 /\ 2 \in 1..3 /\ 3 \in 1..3
    BY SMT
  <2>3. /\ text[b + 1] = [name |-> f] /\ text[b + 2] = [value |-> ToJson(f, v)]
        /\ text[b + 3] = Newline
    BY <1>1, <1>2, <2>1, <2>2
  <2>4. /\ at + 1 = b + 2 /\ (at + 1) + 1 = b + 3 /\ at + 1 < N /\ (at + 1) + 2 = (b + Len(p)) + 1
        /\ at + 1..(at + 1) - 1 = {}
    BY <1>1, <2>1, SMT
  <2>5. ~HasString(text, at)
    BY <2>3, <2>4, TokensApart DEF HasString, N
  <2>6. e = at + 1
    BY <2>5 DEF LineEnd
  <2> HIDE DEF e
  <2>7. "name" \in DOMAIN text[b + 1] /\ text[b + 1].name = f
    BY <2>3, TokensApart
  <2>8. "value" \in DOMAIN text[e] /\ text[e].value = ToJson(f, v)
    BY <2>3, <2>4, <2>6, TokensApart
  <2>9. e < Len(text) /\ text[e + 1] = Newline /\ at + 1..e - 1 = {}
    BY <2>3, <2>4, <2>6 DEF N
  <2>10. GoodLine(text, at)
    BY <2>7, <2>8, <2>9 DEF GoodLine, e
  <2>11. LineValue(text, at) = FromJson(f, ToJson(f, v))
    BY <2>5, <2>7, <2>8 DEF LineValue, e
  <2> QED BY <1>1, <1>4, <2>4, <2>6, <2>7, <2>10, <2>11 DEF e
<1> QED BY <1>3, <1>4

(* The two digits of a number below 256.                                   *)
LEMMA HexDigits == ASSUME NEW x \in Byte PROVE (x \div 16) * 16 + (x % 16) = x
  BY SMT DEF Byte

(* Where the two digits of the i-th of n bytes stand.                      *)
LEMMA DigitsAt ==
    ASSUME NEW n \in Nat, NEW i \in 1..n
    PROVE  /\ 2 * i - 1 \in 1..2 * n /\ 2 * i \in 1..2 * n
           /\ (2 * i - 1) % 2 = 1 /\ ((2 * i - 1) + 1) \div 2 = i
           /\ (2 * i) % 2 # 1 /\ (2 * i) \div 2 = i
  BY SMT

(* Half of an even length, and the bytes of a length in bits.              *)
LEMMA Shares == ASSUME NEW n \in Nat PROVE (2 * n) \div 2 = n /\ (8 * n) \div 8 = n /\ 2 * n \in Nat
  BY SMT

(* A sequence is the function that gives its elements.                     *)
LEMMA SeqIs ==
    ASSUME NEW X, NEW s \in Seq(X)
    PROVE  s = [i \in DOMAIN s |-> s[i]] /\ \A i \in DOMAIN s : s[i] \in X
  BY SMT

(* A byte array that is written in hexadecimal is read back.               *)
LEMMA HexBack ==
    ASSUME NEW v \in Seq(Byte) PROVE FromHex(Hex(v)) = v
<1> DEFINE n == Len(v)
           h == Hex(v)
           w == FromHex(h)
<1>1. n \in Nat /\ v = [i \in 1..n |-> v[i]] /\ \A i \in 1..n : v[i] \in Byte
  BY SMT
<1>2. /\ h = [i \in 1..2 * n |-> h[i]]
      /\ \A i \in 1..2 * n : h[i] = IF i % 2 = 1 THEN v[(i + 1) \div 2] \div 16 ELSE v[i \div 2] % 16
  BY DEF Hex
<1> HIDE DEF n, h
<1>3. Len(h) = 2 * n
  BY <1>1, <1>2, Shares, SMT
<1>4. Len(h) \div 2 = n
  BY <1>1, <1>3, Shares
<1>5. w = [i \in 1..n |-> h[2 * i - 1] * 16 + h[2 * i]]
  BY <1>4 DEF FromHex
<1>6. ASSUME NEW i \in 1..n PROVE h[2 * i - 1] * 16 + h[2 * i] = v[i]
  <2>1. /\ 2 * i - 1 \in 1..2 * n /\ 2 * i \in 1..2 * n
        /\ (2 * i - 1) % 2 = 1 /\ ((2 * i - 1) + 1) \div 2 = i
        /\ (2 * i) % 2 # 1 /\ (2 * i) \div 2 = i
    BY <1>1, DigitsAt
  <2>2. h[2 * i - 1] = v[i] \div 16 /\ h[2 * i] = v[i] % 16
    BY <1>2, <2>1
  <2>3. v[i] \in Byte
    BY <1>1
  <2>4. (v[i] \div 16) * 16 + (v[i] % 16) = v[i]
    BY <2>3, HexDigits
  <2> QED BY <2>2, <2>4
<1>7. w = v
  <2>1. w = [i \in 1..n |-> v[i]]
    BY <1>5, <1>6
  <2> QED BY <1>1, <2>1
<1> QED BY <1>7 DEF h

(* A mesh-local prefix that is written as an address and a length in bits  *)
(* is read back.                                                           *)
LEMMA PrefixBack ==
    ASSUME NEW v \in Seq(Byte), Len(v) <= 16
    PROVE  Ipv6PrefixFromString(Ipv6PrefixToString(v)) = v
<1> DEFINE n == Len(v)
           z == [i \in 1..16 - n |-> 0]
           a == v \o z
           t == Ipv6PrefixToString(v)
<1>1. n \in 0..16 /\ n \in Nat
  <2>1. n \in Nat
    BY SMT
  <2> HIDE DEF n
  <2>2. n <= 16
    BY DEF n
  <2> QED BY ONLY <2>1, <2>2
<1>2. t.address = a /\ t.length = 8 * n
  BY DEF Ipv6PrefixToString
<1>3. z \in Seq(Byte) /\ Len(z) = 16 - n
  BY <1>1, ByteNat, SMT
<1>4. SubSeq(a, 1, n) = v
  <2> HIDE DEF z
  <2> QED BY <1>1, <1>3, SMT
<1> HIDE DEF a, t, n
<1>5. Ipv6PrefixFromString(t) = v
  BY <1>1, <1>2, <1>4, Shares DEF Ipv6PrefixFromString
<1> QED BY <1>5 DEF t

(* A channel mask whose masks are written in hexadecimal is read back.     *)
LEMMA MaskBack ==
    ASSUME NEW v \in Seq([page : Byte, masks : Seq(Byte)])
    PROVE  FromJson("ChannelMask", ToJson("ChannelMask", v)) = v
<1> DEFINE j == [i \in DOMAIN v |-> [v[i] EXCEPT !.masks = Hex(@)]]
           w == [i \in DOMAIN j |-> [j[i] EXCEPT !.masks = FromHex(@)]]
<1>1. ToJson("ChannelMask", v) = j /\ FromJson("ChannelMask", j) = w
  BY DEF ToJson, FromJson, HexFields
<1>2. v = [i \in DOMAIN v |-> v[i]] /\ \A i \in DOMAIN v : v[i] \in [page : Byte, masks : Seq(Byte)]
  BY SeqIs
<1>3. DOMAIN j = DOMAIN v /\ \A i \in DOMAIN v : j[i] = [v[i] EXCEPT !.masks = Hex(@)]
  OBVIOUS
<1> HIDE DEF j
<1>4. w = [i \in DOMAIN v |-> [j[i] EXCEPT !.masks = FromHex(@)]]
  BY <1>3
<1>5. ASSUME NEW i \in DOMAIN v PROVE [j[i] EXCEPT !.masks = FromHex(@)] = v[i]
  <2> DEFINE e == v[i]
  <2>1. e \in [page : Byte, masks : Seq(Byte)] /\ j[i] = [e EXCEPT !.masks = Hex(@)]
    BY <1>2, <1>3
  <2> HIDE DEF e
  <2>2. FromHex(Hex(e.masks)) = e.masks
    BY <2>1, HexBack
  <2>3. [j[i] EXCEPT !.masks = FromHex(@)] = e
    BY <2>1, <2>2
  <2> QED BY <2>3 DEF e
<1>6. w = v
  BY <1>2, <1>4, <1>5
<1> QED BY <1>1, <1>6

(* A value of any field that is no string is read back from what it is     *)
(* written as.                                                             *)
LEMMA ValueBack ==
    ASSUME NEW f \in AllFields, NEW v \in FieldValues(f), Writable(f, v), f \notin TextFields
    PROVE  FromJson(f, ToJson(f, v)) = v
<1>1. CASE f \in HexFields
  <2>1. /\ f \notin Timestamps /\ f \notin Uint16Fields /\ f # "Channel" /\ f # "ChannelMask"
        /\ f # "SecurityPolicy" /\ f # "RegistrarIpv6Addr" /\ f # "MeshLocalPrefix"
    BY <1>1 DEF HexFields, Timestamps, Uint16Fields
  <2>2. FieldValues(f) = Seq(Byte)
    BY <2>1 DEF FieldValues
  <2>3. \A j : FromJson(f, j) = FromHex(j)
    BY <1>1, <2>1 DEF FromJson
  <2>4. ToJson(f, v) = Hex(v)
    BY <1>1, <2>1 DEF ToJson
  <2> QED BY <2>2, <2>3, <2>4, HexBack
<1>2. CASE f = "MeshLocalPrefix"
  <2>1. /\ f \notin Timestamps /\ f \notin Uint16Fields /\ f # "Channel" /\ f # "ChannelMask"
        /\ f # "SecurityPolicy" /\ f # "RegistrarIpv6Addr" /\ f \notin HexFields
    BY <1>2 DEF HexFields, Timestamps, Uint16Fields
  <2>2. FieldValues(f) = Seq(Byte)
    BY <2>1 DEF FieldValues
  <2>3. \A j : FromJson(f, j) = Ipv6PrefixFromString(j)
    BY <1>2, <2>1 DEF FromJson
  <2>4. ToJson(f, v) = Ipv6PrefixToString(v)
    BY <1>2, <2>1 DEF ToJson
  <2>5. Len(v) <= 16
    BY <1>2 DEF Writable
  <2> QED BY <2>2, <2>3, <2>4, <2>5, PrefixBack
<1>3. CASE f = "ChannelMask"
  <2>1. f \notin Timestamps /\ f \notin Uint16Fields
    BY <1>3 DEF Timestamps, Uint16Fields
  <2>2. FieldValues(f) = Seq([page : Byte, masks : Seq(Byte)])
    BY <1>3, <2>1 DEF FieldValues
  <2> QED BY <1>3, <2>2, MaskBack
<1>4. CASE f = "SecurityPolicy"
  <2>1. f \notin Timestamps /\ f \notin Uint16Fields /\ f \notin HexFields
    BY <1>4 DEF Timestamps, Uint16Fields, HexFields
  <2>2. v \in [rotationTime : TwoBytes, flags : Seq(Byte)]
    BY <1>4, <2>1 DEF FieldValues
  <2>3. /\ ToJson(f, v) = [v EXCEPT !.flags = Hex(@)]
        /\ \A j : FromJson(f, j) = [j EXCEPT !.flags = FromHex(@)]
    BY <1>4, <2>1 DEF ToJson, FromJson
  <2>4. FromHex(Hex(v.flags)) = v.flags
    BY <2>2, HexBack
  <2> QED BY <2>2, <2>3, <2>4, SMT
<1>5. CASE f \notin HexFields \cup {"MeshLocalPrefix", "ChannelMask", "SecurityPolicy"}
  <2>1. f \notin HexFields /\ f # "MeshLocalPrefix" /\ f # "ChannelMask" /\ f # "SecurityPolicy"
    BY <1>5
  <2>2. ToJson(f, v) = v /\ FromJson(f, v) = v
    BY <2>1 DEF ToJson, FromJson
  <2> QED BY <2>2
<1> QED BY <1>1, <1>2, <1>3, <1>4, <1>5

(* Nothing in the text looks like a comment, and nothing would if text     *)
(* were put in front of it.                                                *)
BeginsComment(text, i) == text[i] = Solidus /\ text[i + 1] \in {Solidus, Asterisk}
Uncommented(text) ==
    /\ \A i \in 1..Len(text) - 1 : ~BeginsComment(text, i)
    /\ Len(text) > 0 => text[1] \notin {Solidus, Asterisk}

(* How StripComments goes on from text[at], if it makes g[i] of the text   *)
(* from text[i] on.                                                        *)
FirstIn(text, S) == IF S = {} THEN Len(text) + 1 ELSE CHOOSE i \in S : \A k \in S : i <= k
StripAt(g, text, at) ==
    LET begin == FirstIn(text, {i \in at..Len(text) - 1 :
                                    text[i] = Solidus /\ text[i + 1] \in {Solidus, Asterisk}})
        end == IF text[begin + 1] = Asterisk
               THEN FirstIn(text, {i \in begin + 4..Len(text) + 1 :
                                      text[i - 2] = Asterisk /\ text[i - 1] = Solidus})
               ELSE FirstIn(text, {i \in begin + 3..Len(text) + 1 : text[i - 1] = Newline})
    IN  SubSeq(text, at, begin - 1) \o IF begin > Len(text) THEN <<>> ELSE g[end]

StripSteps(g, text) == g = [at \in 1..Len(text) + 1 |-> StripAt(g, text, at)]

(* StripComments leaves a text without comments as it is.                  *)
LEMMA NothingStripped ==
    ASSUME NEW X, NEW text \in Seq(X), Uncommented(text) PROVE StripComments(text) = text
<1> DEFINE N == Len(text)
           f == [at \in 1..N + 1 |-> SubSeq(text, at, N) \o <<>>]
           g == CHOOSE x : StripSteps(x, text)
<1>1. N \in Nat
  BY SMT
<1>2. ASSUME NEW h, NEW at \in 1..N + 1 PROVE StripAt(h, text, at) = SubSeq(text, at, N) \o <<>>
  <2> DEFINE S == {i \in at..N - 1 : text[i] = Solidus /\ text[i + 1] \in {Solidus, Asterisk}}
             begin == FirstIn(text, S)
  <2>1. S = {}
    <3>1. \A i \in at..N - 1 : i \in 1..N - 1
      BY <1>1, SMT
    <3> QED BY <3>1 DEF Uncommented, BeginsComment
  <2>2. begin = N + 1
    BY <2>1 DEF FirstIn
  <2>3. StripAt(h, text, at) = SubSeq(text, at, begin - 1) \o (IF begin > N THEN <<>> ELSE
             h[IF text[begin + 1] = Asterisk
               THEN FirstIn(text, {i \in begin + 4..N + 1 :
                                      text[i - 2] = Asterisk /\ text[i - 1] = Solidus})
               ELSE FirstIn(text, {i \in begin + 3..N + 1 : text[i - 1] = Newline})])
    BY DEF StripAt
  <2>4. begin > N /\ begin - 1 = N
    <3> HIDE DEF begin, N
    <3> QED BY <1>1, <2>2, SMT
  <2> HIDE DEF begin, N
  <2> QED BY <2>3, <2>4
<1>3. StripSteps(f, text)
  <2>1. f = [at \in 1..N + 1 |-> StripAt(f, text, at)]
    <3> DEFINE z == f
    <3>1. \A at \in 1..N + 1 : StripAt(z, text, at) = SubSeq(text, at, N) \o <<>>
      BY <1>2
    <3> QED BY <3>1
  <2> HIDE DEF f
  <2> QED BY <2>1 DEF StripSteps
<1>4. StripComments(text) = g[1]
  BY DEF StripComments, StripSteps, StripAt, FirstIn
<1>5. StripSteps(g, text)
  <2> HIDE DEF f
  <2> QED BY <1>3
<1> HIDE DEF g
<1>6. 1 \in 1..N + 1
  BY <1>1, SMT
<1>7. g[1] = SubSeq(text, 1, N) \o <<>>
  BY <1>2, <1>5, <1>6 DEF StripSteps
<1>8. SubSeq(text, 1, N) \o <<>> = text
  BY SMT
<1> QED BY <1>4, <1>7, <1>8

(* Two texts without comments are no comment together.                     *)
LEMMA UncommentedBoth ==
    ASSUME NEW X, NEW a \in Seq(X), NEW b \in Seq(X), Uncommented(a), Uncommented(b)
    PROVE  Uncommented(a \o b)
<1> DEFINE m == Len(a)
           n == Len(b)
           c == a \o b
<1>1. m \in Nat /\ n \in Nat
  BY SMT
<1>2. /\ Len(c) = m + n
      /\ \A k \in 1..m + n : c[k] = IF k <= m THEN a[k] ELSE b[k - m]
  BY ConcatAt
<1> HIDE DEF c
<1>3. ASSUME NEW i \in 1..(m + n) - 1 PROVE ~BeginsComment(c, i)
  <2>1. CASE i < m
    <3>1. i \in 1..m + n /\ i + 1 \in 1..m + n /\ i <= m /\ i + 1 <= m /\ i \in 1..m - 1
      BY <1>1, <2>1, SMT
    <3> HIDE DEF m, n
    <3>2. c[i] = a[i] /\ c[i + 1] = a[i + 1]
      BY <1>2, <3>1
    <3> QED BY <3>1, <3>2 DEF Uncommented, BeginsComment, m
  <2>2. CASE i = m
    <3>1. i + 1 \in 1..m + n /\ ~(i + 1 <= m) /\ (i + 1) - m = 1 /\ Len(b) > 0
      BY <1>1, <2>2, SMT
    <3> HIDE DEF m, n
    <3>2. c[i + 1] = b[1]
      BY <1>2, <3>1
    <3> QED BY <3>1, <3>2 DEF Uncommented, BeginsComment
  <2>3. CASE i > m
    <3>1. /\ i \in 1..m + n /\ i + 1 \in 1..m + n /\ ~(i <= m) /\ ~(i + 1 <= m)
          /\ (i + 1) - m = (i - m) + 1 /\ i - m \in 1..n - 1
      BY <1>1, <2>3, SMT
    <3> HIDE DEF m, n
    <3>2. c[i] = b[i - m] /\ c[i + 1] = b[(i + 1) - m]
      BY <1>2, <3>1
    <3>3. c[i + 1] = b[(i - m) + 1]
      BY <3>1, <3>2
    <3> QED BY <3>1, <3>2, <3>3 DEF Uncommented, BeginsComment, n
  <2> QED BY <1>1, <2>1, <2>2, <2>3, SMT
<1>4. ASSUME Len(c) > 0 PROVE c[1] \notin {Solidus, Asterisk}
  <2>1. CASE m > 0
    <3>1. 1 \in 1..m + n /\ 1 <= m /\ Len(a) > 0
      BY <1>1, <2>1, SMT
    <3> HIDE DEF m, n
    <3> QED BY <1>2, <3>1 DEF Uncommented
  <2>2. CASE ~(m > 0)
    <3>1. 1 \in 1..m + n /\ ~(1 <= m) /\ 1 - m = 1 /\ Len(b) > 0
      BY <1>1, <1>2, <1>4, <2>2, SMT
    <3> HIDE DEF m, n
    <3>2. c[1] = b[1 - m]
      BY <1>2, <3>1
    <3>3. c[1] = b[1]
      BY <3>1, <3>2
    <3> QED BY <3>1, <3>3 DEF Uncommented
  <2> QED BY <2>1, <2>2
<1>5. Uncommented(c)
  <2> HIDE DEF m, n
  <2> QED BY <1>2, <1>3, <1>4 DEF Uncommented
<1> QED BY <1>5 DEF c

(* Nor are any number of them.                                             *)
LEMMA UncommentedAll ==
    ASSUME NEW X, NEW s \in Seq(Seq(X)), \A k \in 1..Len(s) : Uncommented(s[k])
    PROVE  Uncommented(Concat(s))
<1> DEFINE n == Len(s)
<1>1. n \in Nat /\ \A k \in 1..n : s[k] \in Seq(X)
  BY SMT
<1>2. PICK G \in [0..n -> Seq(X)] :
              /\ G[0] = <<>>
              /\ \A k \in 1..n : G[k] = G[k - 1] \o s[k]
              /\ Concat(s) = G[n]
  BY Concatenates
<1> DEFINE T == {k \in Nat : k <= n => Uncommented(G[k])}
<1>3. 0 \in T
  <2>1. Len(<<>>) = 0 /\ 1..Len(<<>>) - 1 = {} /\ ~(Len(<<>>) > 0)
    BY SMT
  <2>2. Uncommented(<<>>)
    BY <2>1 DEF Uncommented
  <2> QED BY <1>2, <2>2
<1> HIDE DEF n
<1>4. ASSUME NEW k \in Nat, k \in T PROVE k + 1 \in T
  <2> SUFFICES ASSUME k + 1 <= n PROVE Uncommented(G[k + 1])
    BY SMT
  <2>1. k + 1 \in 1..n /\ k \in 0..n /\ k <= n /\ (k + 1) - 1 = k
    BY <1>1, SMT
  <2>2. Uncommented(G[k]) /\ G[k] \in Seq(X)
    BY <1>2, <1>4, <2>1
  <2>3. s[k + 1] \in Seq(X) /\ Uncommented(s[k + 1])
    BY <1>1, <2>1 DEF n
  <2>4. G[k + 1] = G[k] \o s[k + 1]
    BY <1>2, <2>1
  <2> QED BY <2>2, <2>3, <2>4, UncommentedBoth
<1>5. \A k \in Nat : k \in T
  <2> HIDE DEF T
  <2> QED BY <1>3, <1>4, SetInduction
<1>6. n <= n
  BY <1>1, SMT
<1> QED BY <1>1, <1>2, <1>5, <1>6

(* A text value with something in it that looks like a comment.            *)
Commented(v) == \E i \in 1..Len(v) - 1 : v[i] = 47 /\ v[i + 1] \in {42, 47}

(* Where the characters of the line of a string of n characters stand.     *)
LEMMA CharactersAt ==
    ASSUME NEW n \in Nat, NEW i \in 1..(n + 4) - 1
    PROVE  \/ i = 1
           \/ i = 2 \/ i = n + 3
           \/ i - 2 \in 1..n /\ (i - 2) + 2 = i /\ i + 1 = n + 3
           \/ /\ i - 2 \in 1..n /\ (i - 2) + 2 = i /\ i - 2 \in 1..n - 1
              /\ (i - 2) + 1 \in 1..n /\ ((i - 2) + 1) + 2 = i + 1
<1>1. CASE i \in {1, 2, n + 3}
  BY <1>1
<1>2. CASE i \notin {1, 2, n + 3} /\ i + 1 = n + 3
  BY <1>2, SMT
<1>3. CASE i \notin {1, 2, n + 3} /\ i + 1 # n + 3
  BY <1>3, SMT
<1> QED BY <1>1, <1>2, <1>3

(* The line of a field is no comment unless its text is.                   *)
LEMMA LineUncommented ==
    ASSUME NEW p, NEW f, NEW v, IsLine(p, f, v), f \in TextFields => v \in Seq(Ascii) /\ ~Commented(v)
    PROVE  Uncommented(p)
<1>1. p[1] = [name |-> f]
  BY DEF IsLine
<1>2. p[1] \notin {Solidus, Asterisk}
  BY <1>1, TokensApart
<1>3. CASE f \in TextFields
  <2> DEFINE n == Len(v)
  <2>1. /\ Len(p) = n + 4 /\ p[2] = Quote /\ p[n + 3] = Quote
        /\ \A c \in 1..n : p[c + 2] = Escape(v[c])
    BY <1>3 DEF IsLine
  <2>2. n \in Nat /\ \A c \in 1..n : v[c] \in Ascii
    BY <1>3, SMT
  <2>3. \A c \in 1..n - 1 : ~(v[c] = 47 /\ v[c + 1] \in {42, 47})
    BY <1>3 DEF Commented
  <2> HIDE DEF n
  <2>4. Quote # Solidus /\ Quote \notin {Solidus, Asterisk}
    BY TokensApart
  <2>5. ASSUME NEW i \in 1..(n + 4) - 1 PROVE ~BeginsComment(p, i)
    <3>1. CASE i = 1
      BY <1>2, <3>1 DEF BeginsComment
    <3>2. CASE i = 2 \/ i = n + 3
      BY <2>1, <2>4, <3>2 DEF BeginsComment
    <3>3. CASE i - 2 \in 1..n /\ (i - 2) + 2 = i /\ i + 1 = n + 3
      BY <2>1, <2>4, <3>3 DEF BeginsComment
    <3>4. CASE /\ i - 2 \in 1..n /\ (i - 2) + 2 = i /\ i - 2 \in 1..n - 1
               /\ (i - 2) + 1 \in 1..n /\ ((i - 2) + 1) + 2 = i + 1
      <4> DEFINE c == i - 2
      <4>1. c \in 1..n /\ c \in 1..n - 1 /\ c + 1 \in 1..n /\ c + 2 = i /\ (c + 1) + 2 = i + 1
        BY <3>4
      <4> HIDE DEF c
      <4>2. p[i] = Escape(v[c]) /\ p[i + 1] = Escape(v[c + 1]) /\ v[c] \in Ascii /\ v[c + 1] \in Ascii
        BY <2>1, <2>2, <4>1
      <4>3. ~(v[c] = 47 /\ v[c + 1] \in {42, 47})
        BY <2>3, <4>1
      <4>4. p[i] = Solidus => v[c] = 47
        BY <4>2, Escaped
      <4>5. p[i + 1] \in {Solidus, Asterisk} => v[c + 1] \in {42, 47}
        BY <4>2, Escaped
      <4> QED BY <4>3, <4>4, <4>5 DEF BeginsComment
    <3> QED BY <2>2, <3>1, <3>2, <3>3, <3>4, CharactersAt
  <2> QED BY <1>2, <2>1, <2>5 DEF Uncommented
<1>4. CASE f \notin TextFields
  <2>1. Len(p) = 3 /\ p[2] = [value |-> ToJson(f, v)]
    BY <1>4 DEF IsLine
  <2>2. \A i \in 1..3 - 1 : i = 1 \/ i = 2
    BY SMT
  <2>3. p[2] \notin {Solidus, Asterisk}
    BY <2>1, TokensApart
  <2>4. \A i \in 1..3 - 1 : ~BeginsComment(p, i)
    BY <1>2, <2>2, <2>3 DEF BeginsComment
  <2> QED BY <1>2, <2>1, <2>4 DEF Uncommented
<1> QED BY <1>3, <1>4

(* The fields from the (i + 1)-th on, and a dataset's values of those.     *)
FieldsFrom(fields, i) == {fields[j] : j \in i + 1..Len(fields)}
ReadFrom(fields, d, i) == [f \in DOMAIN d \cap FieldsFrom(fields, i) |-> d[f]]

(* The fields of a dataset that can be exported.                           *)
Exportable(d) ==
    /\ DOMAIN d \subseteq AllFields
    /\ \A f \in DOMAIN d : /\ d[f] \in FieldValues(f) /\ Writable(f, d[f])
                           /\ f \in TextFields => ~Commented(d[f])

(* The lines of a dataset, by field, and what they are made of.            *)
LineOf(fields, d, i) == IF fields[i] \notin DOMAIN d THEN <<>> ELSE Line(fields[i], d[fields[i]])
Lines(fields, d) == [i \in DOMAIN fields |-> LineOf(fields, d, i)]
Tokens(d) ==
    {[name |-> f] : f \in AllFields} \cup {[value |-> ToJson(f, d[f])] : f \in DOMAIN d}
    \cup {Quote, Newline} \cup {Escape(c) : c \in Ascii}

(* Dump writes the lines one by one.                                       *)
LEMMA DumpIs ==
    ASSUME NEW fields \in Seq(AllFields), NEW d, Exportable(d)
    PROVE  /\ Dump(fields, d) = Concat(Lines(fields, d))
           /\ Lines(fields, d) \in Seq(Seq(Tokens(d))) /\ Len(Lines(fields, d)) = Len(fields)
           /\ \A i \in 1..Len(fields) :
                 IF fields[i] \in DOMAIN d
                 THEN IsLine(Lines(fields, d)[i], fields[i], d[fields[i]])
                 ELSE Lines(fields, d)[i] = <<>>
<1> DEFINE n == Len(fields)
           s == Lines(fields, d)
           X == Tokens(d)
<1>1. n \in Nat /\ DOMAIN fields = 1..n /\ \A i \in 1..n : fields[i] \in AllFields
  BY SMT
<1>2. Dump(fields, d) = Concat(s)
  BY DEF Dump, Lines, LineOf, Line
<1>3. s = [i \in DOMAIN fields |-> s[i]] /\ \A i \in DOMAIN fields : s[i] = LineOf(fields, d, i)
  BY DEF Lines
<1> HIDE DEF s, n
<1>4. s = [i \in 1..n |-> s[i]] /\ \A i \in 1..n : s[i] = LineOf(fields, d, i)
  BY <1>1, <1>3
<1>5. ASSUME NEW i \in 1..n, fields[i] \in DOMAIN d
      PROVE  s[i] \in Seq(X) /\ IsLine(s[i], fields[i], d[fields[i]])
  <2> DEFINE f == fields[i]
             v == d[f]
  <2>1. f \in AllFields /\ f \in DOMAIN d
    BY <1>1, <1>5
  <2> HIDE DEF f
  <2>2. f \in TextFields => v \in Seq(Ascii)
    BY <2>1 DEF Exportable, Writable
  <2>3. TokenSet(X, f, v)
    BY <2>1 DEF TokenSet, Tokens
  <2>4. s[i] = Line(f, v)
    BY <1>4, <1>5 DEF LineOf, f
  <2> HIDE DEF v
  <2>5. s[i] \in Seq(X) /\ IsLine(s[i], f, v)
    BY <2>2, <2>3, <2>4, LineIs
  <2> QED BY <2>5 DEF f, v
<1>6. ASSUME NEW i \in 1..n, fields[i] \notin DOMAIN d PROVE s[i] = <<>>
  BY <1>4, <1>6 DEF LineOf
<1>7. <<>> \in Seq(X)
  BY SMT
<1>8. \A i \in 1..n : s[i] \in Seq(X)
  BY <1>5, <1>6, <1>7
<1>9. s \in Seq(Seq(X)) /\ Len(s) = n
  BY <1>1, <1>4, <1>8, SeqFun
<1> QED BY <1>2, <1>5, <1>6, <1>9 DEF s, n

(* What is exported does not look like a comment.                          *)
LEMMA DumpUncommented ==
    ASSUME NEW fields \in Seq(AllFields), NEW d, Exportable(d)
    PROVE  Dump(fields, d) \in Seq(Tokens(d)) /\ Uncommented(Dump(fields, d))
<1> DEFINE s == Lines(fields, d)
           n == Len(fields)
<1>1. Dump(fields, d) = Concat(s) /\ s \in Seq(Seq(Tokens(d))) /\ Len(s) = n
  BY DumpIs
<1>2. \A i \in 1..n : IF fields[i] \in DOMAIN d THEN IsLine(s[i], fields[i], d[fields[i]])
                      ELSE s[i] = <<>>
  BY DumpIs
<1> HIDE DEF s, n
<1>3. ASSUME NEW i \in 1..n PROVE Uncommented(s[i])
  <2>1. CASE fields[i] \in DOMAIN d
    <3>1. fields[i] \in TextFields => d[fields[i]] \in Seq(Ascii) /\ ~Commented(d[fields[i]])
      BY <2>1 DEF Exportable, Writable
    <3>2. IsLine(s[i], fields[i], d[fields[i]])
      BY <1>2, <2>1
    <3> QED BY <3>1, <3>2, LineUncommented
  <2>2. CASE fields[i] \notin DOMAIN d
    <3>1. s[i] = <<>>
      BY <1>2, <2>2
    <3>2. Len(<<>>) = 0 /\ 1..Len(<<>>) - 1 = {} /\ ~(Len(<<>>) > 0)
      BY SMT
    <3> QED BY <3>1, <3>2 DEF Uncommented
  <2> QED BY <2>1, <2>2
<1>4. Uncommented(Concat(s))
  BY <1>1, <1>3, UncommentedAll
<1>5. Concat(s) \in Seq(Tokens(d))
  BY <1>1, ConcatOffsets
<1> QED BY <1>1, <1>4, <1>5

(* One more line in front, with a field or without.                        *)
LEMMA ReadFromNext ==
    ASSUME NEW fields, NEW n \in Nat, Len(fields) = n, NEW d, NEW i \in 1..n
    PROVE  ReadFrom(fields, d, i - 1) =
               IF fields[i] \in DOMAIN d
               THEN Override([h \in {fields[i]} |-> d[fields[i]]], ReadFrom(fields, d, i))
               ELSE ReadFrom(fields, d, i)
<1> DEFINE f == fields[i]
           A == FieldsFrom(fields, i)
           B == FieldsFrom(fields, i - 1)
<1>1. B = A \cup {f}
  <2>1. /\ i \in (i - 1) + 1..n /\ \A j \in i + 1..n : j \in (i - 1) + 1..n
        /\ \A j \in (i - 1) + 1..n : j = i \/ j \in i + 1..n
    BY SMT
  <2> QED BY <2>1 DEF FieldsFrom
<1> HIDE DEF A, B, f
<1>2. ReadFrom(fields, d, i - 1) = [h \in DOMAIN d \cap B |-> d[h]]
  BY DEF ReadFrom, B
<1>3. /\ ReadFrom(fields, d, i) = [h \in DOMAIN d \cap A |-> d[h]]
      /\ DOMAIN ReadFrom(fields, d, i) = DOMAIN d \cap A
      /\ \A h \in DOMAIN d \cap A : ReadFrom(fields, d, i)[h] = d[h]
  BY DEF ReadFrom, A
<1> DEFINE r == ReadFrom(fields, d, i)
           o == [h \in {f} |-> d[f]]
<1> HIDE DEF r
<1>4. CASE f \in DOMAIN d
  <2>1. DOMAIN o = {f} /\ \A h \in {f} : o[h] = d[f]
    OBVIOUS
  <2> HIDE DEF o
  <2>2. Override(o, r) = [h \in DOMAIN o \cup DOMAIN r |-> IF h \in DOMAIN r THEN r[h] ELSE o[h]]
    BY DEF Override
  <2>3. DOMAIN o \cup DOMAIN r = DOMAIN d \cap B
    BY <1>1, <1>3, <1>4, <2>1 DEF r
  <2>4. \A h \in DOMAIN d \cap B : (IF h \in DOMAIN r THEN r[h] ELSE o[h]) = d[h]
    BY <1>1, <1>3, <2>1 DEF r
  <2>5. Override(o, r) = [h \in DOMAIN d \cap B |-> d[h]]
    BY <2>2, <2>3, <2>4
  <2> QED BY <1>2, <1>4, <2>5 DEF r, o, f
<1>5. CASE f \notin DOMAIN d
  <2>1. DOMAIN d \cap B = DOMAIN d \cap A
    BY <1>1, <1>5
  <2> QED BY <1>2, <1>3, <1>5, <2>1 DEF f
<1> QED BY <1>4, <1>5

(* ParseJson reads back the dataset that Dump wrote.                       *)
LEMMA DumpParsed ==
    ASSUME NEW fields \in Seq(AllFields), NEW d, Exportable(d)
    PROVE  ParseJson(Dump(fields, d)) = [error |-> "none", dataset |-> ReadFrom(fields, d, 0)]
<1> DEFINE n == Len(fields)
           s == Lines(fields, d)
           S == Dump(fields, d)
           N == Len(S)
<1>1. /\ S = Concat(s) /\ s \in Seq(Seq(Tokens(d))) /\ Len(s) = n
      /\ \A i \in 1..n : IF fields[i] \in DOMAIN d THEN IsLine(s[i], fields[i], d[fields[i]])
                         ELSE s[i] = <<>>
  BY DumpIs
<1>2. n \in Nat /\ \A i \in 1..n : fields[i] \in AllFields
  BY SMT
<1> HIDE DEF s, n
<1>3. ASSUME NEW i \in 1..n PROVE Len(s[i]) \in Nat
  <2>1. s[i] \in Seq(Tokens(d))
    BY <1>1, SeqAt
  <2> QED BY <2>1, SMT
<1>4. S \in Seq(Tokens(d))
  BY DumpUncommented
<1>5. PICK off : Offsets(off, s)
  BY <1>1, ConcatOffsets
<1> HIDE DEF S
<1>6. /\ off \in [0..n -> Nat] /\ off[0] = 0 /\ N = off[n]
      /\ \A k \in 1..n : /\ off[k] = off[k - 1] + Len(s[k]) /\ off[k] <= off[n]
                         /\ \A j \in 1..Len(s[k]) : S[off[k - 1] + j] = s[k][j]
  BY <1>1, <1>5 DEF Offsets
<1>7. N \in Nat
  BY <1>4, SMT
<1>8. PICK g : ParseSteps(g, S)
  BY <1>7, ParseStepsDefined
<1>9. ParseJson(S) = g[1] /\ \A at \in 1..N + 1 : g[at] = ParseAt(g, S, at)
  BY <1>8 DEF ParseSteps
<1> DEFINE Good(i) == g[off[i] + 1] = [error |-> "none", dataset |-> ReadFrom(fields, d, i)]
           T == {m \in Nat : m <= n => Good(n - m)}
<1>10. 0 \in T
  <2>1. N + 1 > N /\ N + 1 \in 1..N + 1 /\ n - 0 = n /\ n + 1..n = {}
    BY <1>2, <1>7, SMT
  <2>2. g[N + 1] = [error |-> "none", dataset |-> EmptyDataset]
    BY <1>9, <2>1 DEF ParseAt
  <2>3. DOMAIN d \cap FieldsFrom(fields, n) = {}
    BY <2>1 DEF FieldsFrom, n
  <2>4. ReadFrom(fields, d, n) = [f \in {} |-> d[f]]
    BY <2>3 DEF ReadFrom
  <2>5. [f \in {} |-> d[f]] = EmptyDataset
    BY DEF EmptyDataset
  <2>6. Good(n)
    BY <1>6, <2>2, <2>4, <2>5
  <2> QED BY <2>1, <2>6
<1>11. ASSUME NEW m \in Nat, m \in T PROVE m + 1 \in T
  <2> SUFFICES ASSUME m + 1 <= n PROVE Good(n - (m + 1))
    <3> HIDE DEF Good
    <3> QED BY SMT
  <2> DEFINE i == n - m
             b == off[i - 1]
             r == ReadFrom(fields, d, i)
  <2>1. i \in 1..n /\ n - (m + 1) = i - 1 /\ m <= n /\ i - 1 \in 0..n /\ i \in 0..n
    BY <1>2, SMT
  <2>2. g[off[i] + 1] = [error |-> "none", dataset |-> r]
    BY <1>11, <2>1
  <2> HIDE DEF i
  <2>3. /\ b \in Nat /\ off[i] = b + Len(s[i]) /\ off[i] <= N
        /\ \A j \in 1..Len(s[i]) : S[b + j] = s[i][j]
    BY <1>6, <2>1
  <2>4. Len(s[i]) \in Nat
    BY <1>3, <2>1
  <2>5. CASE fields[i] \in DOMAIN d
    <3> DEFINE f == fields[i]
               v == d[f]
               o == [h \in {f} |-> v]
    <3>1. IsLine(s[i], f, v) /\ f \in AllFields
      BY <1>1, <1>2, <2>1, <2>5
    <3>2. v \in FieldValues(f) /\ Writable(f, v)
      BY <2>5 DEF Exportable
    <3> HIDE DEF f, v
    <3>3. f \in TextFields => v \in Seq(Ascii)
      BY <3>2 DEF Writable
    <3>4. Readable(f, v)
      BY <3>1, <3>2, <3>3, ValueBack DEF Readable
    <3>5. b + Len(s[i]) <= N /\ StandsAt(s[i], S, b)
      BY <2>3, <2>4 DEF StandsAt
    <3> HIDE DEF b
    <3>6. /\ GoodLine(S, b + 1) /\ LineEnd(S, b + 1) + 2 = (b + Len(s[i])) + 1
          /\ S[b + 1].name = f /\ LineValue(S, b + 1) = v
      <4>1. Len(S) \in Nat /\ b \in Nat /\ IsLine(s[i], f, v) /\ StandsAt(s[i], S, b)
        BY <1>7, <2>3, <3>1, <3>5 DEF b
      <4> QED BY ONLY <4>1, <3>4, LineRead
    <3>7. Len(s[i]) > 0
      <4>1. CASE f \in TextFields
        <5>1. Len(s[i]) = Len(v) + 4 /\ Len(v) \in Nat
          BY <3>1, <3>3, <4>1, SMT DEF IsLine
        <5> QED BY <5>1, SMT
      <4>2. CASE f \notin TextFields
        <5>1. Len(s[i]) = 3
          BY <3>1, <4>2 DEF IsLine
        <5> QED BY <5>1, SMT
      <4> QED BY <4>1, <4>2
    <3>8. b + 1 \in 1..N + 1 /\ ~(b + 1 > N)
      BY <1>7, <2>3, <2>4, <3>5, <3>7, SMT
    <3>9. g[b + 1] = ParseAt(g, S, b + 1)
      BY <1>9, <3>8
    <3> DEFINE rest == g[LineEnd(S, b + 1) + 2]
    <3>10. rest = [error |-> "none", dataset |-> r]
      BY <2>2, <2>3, <3>6
    <3>11. rest.error = "none"
      BY <3>10, SMT
    <3>12. ParseAt(g, S, b + 1) = [rest EXCEPT !.dataset = Override(o, @)]
      BY <3>6, <3>8, <3>11 DEF ParseAt
    <3> HIDE DEF rest, r, o
    <3>13. [rest EXCEPT !.dataset = Override(o, @)] = [error |-> "none", dataset |-> Override(o, r)]
      BY <3>10, SMT
    <3>14. ReadFrom(fields, d, i - 1) = Override(o, r)
      BY <1>2, <2>1, <2>5, ReadFromNext DEF o, r, f, v, n
    <3>15. Good(i - 1)
      BY <3>9, <3>12, <3>13, <3>14 DEF b
    <3> QED BY <2>1, <3>15
  <2>6. CASE fields[i] \notin DOMAIN d
    <3>1. s[i] = <<>>
      BY <1>1, <2>1, <2>6
    <3>2. off[i] = b
      BY <2>3, <3>1, SMT
    <3>3. ReadFrom(fields, d, i - 1) = r
      BY <1>2, <2>1, <2>6, ReadFromNext DEF n
    <3> HIDE DEF r
    <3>4. Good(i - 1)
      BY <2>2, <3>2, <3>3
    <3> QED BY <2>1, <3>4
  <2> QED BY <2>5, <2>6
<1>12. \A m \in Nat : m \in T
  <2> HIDE DEF T
  <2> QED BY <1>10, <1>11, SetInduction
<1>13. Good(0)
  <2>1. n - n = 0 /\ n <= n
    BY <1>2, SMT
  <2> QED BY <1>2, <1>12, <2>1, ZenonT(30)
<1>14. off[0] + 1 = 1
  BY <1>6, SMT
<1> QED BY <1>9, <1>13, <1>14 DEF S

(* A dataset of kind k that can be exported; and two sets of fields with   *)
(* the same of the dataset's.                                              *)
ExportableAs(k, d) ==
    d = [f \in DOMAIN d |-> d[f]] /\ Exportable(d) /\ DOMAIN d \subseteq Elements(FieldsOf[k])
SameOf(d, A, B) == DOMAIN d \cap A = DOMAIN d \cap B

(* What a dataset of a kind is imported as.                                *)
LEMMA TextRead ==
    ASSUME NEW k \in DOMAIN FieldsOf, NEW d, ExportableAs(k, d),
           NEW ignored, NEW R, SameOf(d, ignored, R)
    PROVE  FromText(k, Dump(FieldsOf[k], d), ignored) =
               [error |-> "none", dataset |-> Override(NewDataset(k), Only(d, DOMAIN d \ R))]
<1> DEFINE fields == FieldsOf[k]
           text == Dump(fields, d)
           E == Elements(fields)
<1>1. d = [f \in DOMAIN d |-> d[f]] /\ Exportable(d) /\ DOMAIN d \subseteq E
  BY DEF ExportableAs
<1>2. fields \in Seq(AllFields)
  BY FieldLists
<1> HIDE DEF fields
<1>3. text \in Seq(Tokens(d)) /\ Uncommented(text)
  BY <1>1, <1>2, DumpUncommented
<1>4. StripComments(text) = text
  BY <1>3, NothingStripped
<1>5. ReadFrom(fields, d, 0) = d
  <2>1. DOMAIN fields = 1..Len(fields) /\ 0 + 1 = 1
    BY <1>2, SMT
  <2>2. FieldsFrom(fields, 0) = E
    BY <2>1 DEF FieldsFrom, Elements
  <2>3. DOMAIN d \cap FieldsFrom(fields, 0) = DOMAIN d
    BY <1>1, <2>2
  <2>4. ReadFrom(fields, d, 0) = [f \in DOMAIN d |-> d[f]]
    BY <2>3 DEF ReadFrom
  <2> QED BY <1>1, <2>4
<1>6. ParseJson(StripComments(text)) = [error |-> "none", dataset |-> d]
  BY <1>1, <1>2, <1>4, <1>5, DumpParsed
<1> DEFINE p == ParseJson(StripComments(text))
           new == Override(NewDataset(k), Only(d, E \ ignored))
<1>7. p.error = "none" /\ p.dataset = d
  BY <1>6, SMT
<1>8. FromText(k, text, ignored) =
          [p EXCEPT !.dataset = Override(NewDataset(k), Only(@, E \ ignored))]
  BY <1>7 DEF FromText, fields
<1>9. p = [error |-> "none", dataset |-> d]
  BY <1>6
<1> HIDE DEF p
<1>10. FromText(k, text, ignored) = [error |-> "none", dataset |-> new]
  <2> DEFINE O(x) == Override(NewDataset(k), Only(x, E \ ignored))
  <2>1. FromText(k, text, ignored) = [p EXCEPT !.dataset = O(@)]
    BY <1>8
  <2> HIDE DEF O
  <2>2. [p EXCEPT !.dataset = O(@)] = [error |-> "none", dataset |-> O(d)]
    BY <1>9, SMT
  <2> QED BY <2>1, <2>2 DEF O
<1>11. Only(d, E \ ignored) = Only(d, DOMAIN d \ R)
  <2>1. DOMAIN d \cap (E \ ignored) = DOMAIN d \cap (DOMAIN d \ R)
    BY <1>1 DEF SameOf
  <2> QED BY <2>1 DEF Only
<1> QED BY <1>10, <1>11 DEF fields

(* The inductive invariant: the dataset is of its kind, and its values can *)
(* be written.                                                             *)
JsonInv == DataInv /\ \A f \in DOMAIN dataset : Writable(f, dataset[f])

(* A dataset that is new can be written, and remains so as the user fills  *)
(* it.                                                                     *)
LEMMA JsonInvHolds ==
    /\ DataInit => JsonInv
    /\ JsonInv /\ [DataNext]_dataVars => JsonInv'
<1>1. ASSUME DataInit PROVE JsonInv
  <2>1. DataInv
    BY <1>1, DataInvInit
  <2>2. dataset \in {EmptyDataset, NewDataset(kind)}
    BY <1>1 DEF DataInit
  <2>3. DOMAIN dataset \subseteq Timestamps
    <3>1. DOMAIN EmptyDataset = {}
      BY DEF EmptyDataset
    <3>2. DOMAIN NewDataset(kind) \subseteq Timestamps
      BY DEF NewDataset
    <3> QED BY <2>2, <3>1, <3>2
  <2>4. \A f \in Timestamps : f \notin TextFields /\ f # "MeshLocalPrefix"
    BY DEF Timestamps, TextFields
  <2>5. \A f \in DOMAIN dataset : Writable(f, dataset[f])
    BY <2>3, <2>4 DEF Writable
  <2> QED BY <2>1, <2>5 DEF JsonInv
<1>2. ASSUME JsonInv, [DataNext]_dataVars PROVE JsonInv'
  <2>1. DataInv'
    BY <1>2, DataInvNext DEF JsonInv
  <2>2. CASE DataNext
    <3>1. PICK f \in DOMAIN FieldInputs : \E v \in FieldInputs[f] : GiveField(f, v)
      BY <2>2 DEF DataNext
    <3>2. PICK v \in FieldInputs[f] : GiveField(f, v)
      BY <3>1
    <3>3. Writable(f, v)
      BY JsonAssumption
    <3>4. dataset' = Override(dataset, [g \in {f} |-> v])
      BY <3>2 DEF GiveField
    <3>5. /\ DOMAIN dataset' = DOMAIN dataset \cup {f}
          /\ \A g \in DOMAIN dataset' : dataset'[g] = IF g = f THEN v ELSE dataset[g]
      BY <3>4 DEF Override
    <3>6. \A g \in DOMAIN dataset : Writable(g, dataset[g])
      BY <1>2 DEF JsonInv
    <3>7. ASSUME NEW g \in DOMAIN dataset' PROVE Writable(g, dataset'[g])
      <4>1. CASE g = f
        <5>1. dataset'[g] = v
          BY <3>5, <4>1
        <5> QED BY <3>3, <4>1, <5>1
      <4>2. CASE g # f
        <5>1. dataset'[g] = dataset[g] /\ g \in DOMAIN dataset
          BY <3>5, <4>2
        <5> QED BY <3>6, <5>1
      <4> QED BY <4>1, <4>2
    <3>8. \A g \in DOMAIN dataset' : Writable(g, dataset'[g])
      BY <3>7
    <3> QED BY <2>1, <3>8 DEF JsonInv, Writable
  <2>3. CASE UNCHANGED dataVars
    <3>1. dataset' = dataset
      BY <2>3 DEF dataVars
    <3> QED BY <1>2, <2>1, <3>1 DEF JsonInv, Writable
  <2> QED BY <1>2, <2>2, <2>3
<1> QED BY <1>1, <1>2

(* A dataset whose values can be written survives export and import.       *)
LEMMA JsonBack == JsonInv => JsonSurvives
<1> SUFFICES ASSUME JsonInv,
                    \A f \in DOMAIN dataset \cap TextFields :
                        \A i \in 1..Len(dataset[f]) - 1 :
                            ~(dataset[f][i] = 47 /\ dataset[f][i + 1] \in {42, 47})
             PROVE  JsonSurvives
  BY DEF JsonSurvives
<1> DEFINE R == {"SessionId", "BorderAgentLocator"}
           back == Override(NewDataset(kind), Only(dataset, DOMAIN dataset \ R))
           text == Dump(FieldsOf[kind], dataset)
<1>1. /\ kind \in DOMAIN FieldsOf /\ dataset = [f \in DOMAIN dataset |-> dataset[f]]
      /\ DOMAIN dataset \subseteq Elements(FieldsOf[kind])
      /\ \A f \in DOMAIN dataset : dataset[f] \in FieldValues(f) /\ Writable(f, dataset[f])
  BY DEF JsonInv, DataInv, Typed
<1>2. Exportable(dataset)
  <2>1. Elements(FieldsOf[kind]) \subseteq AllFields
    <3>1. FieldsOf[kind] \in Seq(AllFields)
      BY <1>1, FieldLists
    <3>2. \A i \in DOMAIN FieldsOf[kind] : FieldsOf[kind][i] \in AllFields
      BY <3>1, SeqIs
    <3> QED BY <3>2 DEF Elements
  <2>2. \A f \in DOMAIN dataset : f \in TextFields => ~Commented(dataset[f])
    BY DEF Commented
  <2>3. DOMAIN dataset \subseteq AllFields
    BY <1>1, <2>1
  <2>4. \A f \in DOMAIN dataset : dataset[f] \in FieldValues(f) /\ Writable(f, dataset[f])
    BY <1>1
  <2> QED BY ONLY <2>2, <2>3, <2>4 DEF Exportable
<1>3. DOMAIN FieldsOf = {"active", "pending", "commissioner", "bbr"}
  BY FieldNames
<1>4. ASSUME kind # "commissioner" PROVE SameOf(dataset, {}, R)
  <2>1. kind \in {"active", "pending", "bbr"}
    BY <1>1, <1>3, <1>4
  <2>2. Elements(FieldsOf[kind]) \cap R = {}
    BY <2>1, FieldLists, FieldNames
  <2> QED BY <1>1, <2>2 DEF SameOf
<1> HIDE DEF R
<1>5. kind \in DOMAIN FieldsOf /\ ExportableAs(kind, dataset) /\ SameOf(dataset, R, R)
  BY <1>1, <1>2 DEF ExportableAs, SameOf
<1>6. kind # "commissioner" => FromText(kind, text, {}) = [error |-> "none", dataset |-> back]
  BY ONLY <1>4, <1>5, TextRead
<1>7. FromText(kind, text, R) = [error |-> "none", dataset |-> back]
  BY ONLY <1>5, TextRead
<1>8. /\ kind = "active" => FieldsOf[kind] = ActiveFields
      /\ kind = "pending" => FieldsOf[kind] = PendingFields
      /\ kind = "commissioner" => FieldsOf[kind] = CommissionerFields
      /\ kind = "bbr" => FieldsOf[kind] = BbrFields
  BY FieldNames
<1> DEFINE ToText == CASE kind = "active" -> ActiveDatasetToJson(dataset)
                    [] kind = "pending" -> PendingDatasetToJson(dataset)
                    [] kind = "commissioner" -> CommissionerDatasetToJson(dataset)
                    [] kind = "bbr" -> BbrDatasetToJson(dataset)
           read == CASE kind = "active" -> ActiveDatasetFromJson(ToText)
                  [] kind = "pending" -> PendingDatasetFromJson(ToText)
                  [] kind = "commissioner" -> CommissionerDatasetFromJson(ToText)
                  [] kind = "bbr" -> BbrDatasetFromJson(ToText)
<1>9. "active" # "pending" /\ "active" # "commissioner" /\ "active" # "bbr"
      /\ "pending" # "commissioner" /\ "pending" # "bbr" /\ "commissioner" # "bbr"
  OBVIOUS
<1>10. ToText = text
  BY <1>1, <1>3, <1>8, <1>9
     DEF ActiveDatasetToJson, PendingDatasetToJson, CommissionerDatasetToJson, BbrDatasetToJson
<1> HIDE DEF ToText, text
<1> USE DEF R
<1>11. read = FromText(kind, text, IF kind = "commissioner" THEN R ELSE {})
  BY <1>1, <1>3, <1>9, <1>10
     DEF ActiveDatasetFromJson, PendingDatasetFromJson, CommissionerDatasetFromJson, BbrDatasetFromJson
<1> HIDE DEF read, back
<1>12. read = [error |-> "none", dataset |-> back]
  BY <1>6, <1>7, <1>11
<1>13. read.error = "none" /\ read.dataset = back
  BY <1>12
<1> QED BY <1>13 DEF JsonSurvives, read, back, ToText

(* A dataset that is exported as JSON and imported again is the same, but  *)
(* for the read-only fields and for the timestamps of one that had none,   *)
(* whatever it holds, unless a name in it looks like a comment.            *)
THEOREM JsonsSurvive == DataSpec => []JsonSurvives
<1>1. DataInit => JsonInv
  BY JsonInvHolds
<1>2. JsonInv /\ [DataNext]_dataVars => JsonInv'
  BY JsonInvHolds
<1>3. JsonInv => JsonSurvives
  BY JsonBack
<1> QED BY <1>1, <1>2, <1>3, PTL DEF DataSpec
=============================================================================
