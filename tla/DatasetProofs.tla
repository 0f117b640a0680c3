--------------------------- MODULE DatasetProofs ----------------------------
(***************************************************************************)
(* Proofs about the datasets that the commissioner sets and reads, for     *)
(* every dataset of values of the fields' types: what is set is what is    *)
(* read back (DatasetSurvives), and what is signed in a commercial network *)
(* is what the registrar verifies (SignatureFits).                         *)
(*                                                                         *)
(* Payloads are described by the TLVs that they carry (Carries in          *)
(* TlvProofs): that is what the encoders add to, what GetTlvSet reads and  *)
(* what the content to be signed and the leader's answer are taken from.   *)
(*                                                                         *)
(* Then about the border agents that are discovered (BorderAgent): what is *)
(* told of an agent is what its records describe (AgentIsAsSaid).          *)
(***************************************************************************)
EXTENDS BorderAgent, TlvProofs

(* Most leaves are first-order and set reasoning, which is Zenon's; those  *)
(* that need arithmetic, records or functions cite SMT.                    *)
USE Zenon

-----------------------------------------------------------------------------
(* The fields of datasets, and their TLVs.                                 *)

(* Types of TLVs in requests that are no field's.                          *)
NoFieldTypes == {kGet, kSecureDissemination, kDomainPrefix, kCommissionerToken,
                 kCommissionerSignature, kCommissionerPenSignature}

(* Every field has a TLV type of its own, which is none of those that a    *)
(* request carries besides the fields.                                     *)
LEMMA FieldTypes ==
    /\ \A f \in AllFields : TlvTypeOf[f] \in Byte /\ TlvTypeOf[f] \notin NoFieldTypes
    /\ \A f, g \in AllFields : TlvTypeOf[f] = TlvTypeOf[g] => f = g
<1>1. \A f \in AllFields : TlvTypeOf[f] \in Byte /\ TlvTypeOf[f] \notin NoFieldTypes
  BY FieldNamesAll, SMT DEF TlvTypeOf, NoFieldTypes, Byte, kGet, kSecureDissemination, kDomainPrefix,
         kCommissionerToken, kCommissionerSignature, kCommissionerPenSignature,
         kActiveTimestamp, kChannel, kChannelMask, kExtendedPanId, kNetworkMeshLocalPrefix,
         kNetworkMasterKey, kNetworkName, kPanId, kPSKc, kSecurityPolicy, kDelayTimer,
         kPendingTimestamp, kCommissionerSessionId, kBorderAgentLocator, kSteeringData,
         kAeSteeringData, kNmkpSteeringData, kJoinerUdpPort, kAeUdpPort, kNmkpUdpPort,
         kTriHostname, kRegistrarHostname, kRegistrarIpv6Address
<1>2. \A f, g \in AllFields : TlvTypeOf[f] = TlvTypeOf[g] => f = g
  BY FieldNamesAll, SMT DEF TlvTypeOf,
         kActiveTimestamp, kChannel, kChannelMask, kExtendedPanId, kNetworkMeshLocalPrefix,
         kNetworkMasterKey, kNetworkName, kPanId, kPSKc, kSecurityPolicy, kDelayTimer,
         kPendingTimestamp, kCommissionerSessionId, kBorderAgentLocator, kSteeringData,
         kAeSteeringData, kNmkpSteeringData, kJoinerUdpPort, kAeUdpPort, kNmkpUdpPort,
         kTriHostname, kRegistrarHostname, kRegistrarIpv6Address
<1> QED BY <1>1, <1>2

(* A value that AppendTlv accepts for field f, the datasets of such        *)
(* values, the TLV of a field, and the TLVs of a dataset.                  *)
GoodField(f, v) ==
    /\ v \in FieldValues(f) /\ IsValid(TlvTypeOf[f], Len(EncodeField(f, v)))
    /\ f = "ChannelMask" => EncodeChannelMask(v).error = "none"

GoodDataset(d) ==
    /\ d = [f \in DOMAIN d |-> d[f]] /\ DOMAIN d \subseteq AllFields
    /\ \A f \in DOMAIN d : GoodField(f, d[f])

FieldTlv(f, v) == <<TlvTypeOf[f], EncodeField(f, v)>>
TlvsIn(d) == {FieldTlv(f, d[f]) : f \in DOMAIN d}

(* The TLV of a field that AppendTlv accepts fits in its length field.     *)
LEMMA GoodTlv ==
    ASSUME NEW f \in AllFields, NEW v, GoodField(f, v)
    PROVE  /\ Fits(FieldTlv(f, v)) /\ IsValid(FieldTlv(f, v)[1], Len(FieldTlv(f, v)[2]))
           /\ SerializeTlv(TlvTypeOf[f], EncodeField(f, v)) \in Seq(Byte)
<1> DEFINE t == TlvTypeOf[f]
           x == EncodeField(f, v)
<1>1. t \in Byte /\ t # kDomainPrefix
  BY FieldTypes DEF NoFieldTypes
<1>2. x \in Seq(Byte) /\ IsValid(t, Len(x))
  BY FieldEncoded DEF GoodField
<1> HIDE DEF t, x
<1>3. Fits(<<t, x>>)
  BY <1>1, <1>2, ValidFits
<1>4. <<t, x>>[1] = t /\ <<t, x>>[2] = x
  OBVIOUS
<1>5. FieldTlv(f, v) = <<t, x>>
  BY DEF FieldTlv, t, x
<1>6. SerializeTlv(t, x) \in Seq(Byte)
  BY <1>3, <1>4, Serialized
<1> QED BY <1>2, <1>3, <1>4, <1>5, <1>6 DEF t, x

(* The encoders of datasets: when none of the fields is refused, the       *)
(* payload goes on with the TLVs of the fields that are present.           *)
LEMMA AppendsFields ==
    ASSUME NEW fields \in Seq(AllFields), NEW d, d = [f \in DOMAIN d |-> d[f]],
           DOMAIN d \subseteq Elements(fields), \A f \in DOMAIN d : d[f] \in FieldValues(f),
           AppendFields(fields, d).error = "none", NEW P, NEW R, Carries(P, R)
    PROVE  /\ GoodDataset(d) /\ AppendFields(fields, d).payload \in Seq(Byte)
           /\ Carries(P \o AppendFields(fields, d).payload, R \cup TlvsIn(d))
<1> DEFINE n == Len(fields)
           ser(f) == SerializeTlv(TlvTypeOf[f], EncodeField(f, d[f]))
           s == [i \in 1..n |-> IF fields[i] \in DOMAIN d THEN ser(fields[i]) ELSE <<>>]
           Q == [i \in 1..n |-> IF fields[i] \in DOMAIN d THEN {FieldTlv(fields[i], d[fields[i]])} ELSE {}]
<1>1. n \in Nat /\ DOMAIN fields = 1..n /\ \A i \in 1..n : fields[i] \in AllFields
  BY SMT
<1>2. AppendFields(fields, d).payload = Concat(s)
  BY <1>1 DEF AppendFields
<1>3. \A f \in Elements(fields) : f \in AllFields
  BY <1>1 DEF Elements
<1>4. \A f \in DOMAIN d : GoodField(f, d[f])
  <2>1. "invalid" # "none"
    OBVIOUS
  <2> DEFINE bad == \E f \in Elements(fields) \cap DOMAIN d :
                   \/ f = "ChannelMask" /\ EncodeChannelMask(d[f]).error # "none"
                   \/ ~IsValid(TlvTypeOf[f], Len(EncodeField(f, d[f])))
  <2>2. (IF bad THEN "invalid" ELSE "none") = "none"
    BY DEF AppendFields
  <2>3. ~bad
    BY <2>1, <2>2
  <2> QED BY <2>3 DEF GoodField
<1>5. GoodDataset(d)
  BY <1>3, <1>4 DEF GoodDataset
<1> HIDE DEF n
<1>6. /\ s = [i \in 1..n |-> s[i]] /\ \A i \in 1..n : s[i] \in Seq(Byte)
      /\ \A i \in 1..n : IsPiece(s[i], Q[i])
  <2>1. s = [i \in 1..n |-> s[i]]
    OBVIOUS
  <2>2. ASSUME NEW i \in 1..n PROVE s[i] \in Seq(Byte) /\ IsPiece(s[i], Q[i])
    <3>1. CASE fields[i] \in DOMAIN d
      <4> DEFINE f == fields[i]
                 t == FieldTlv(f, d[f])
      <4>1. f \in AllFields /\ GoodField(f, d[f])
        BY <3>1, <1>1, <1>4
      <4>2. s[i] = ser(f) /\ Q[i] = {t}
        BY <3>1
      <4>3. t[1] = TlvTypeOf[f] /\ t[2] = EncodeField(f, d[f])
        BY DEF FieldTlv
      <4> HIDE DEF f, t, s, Q
      <4>4. Fits(t) /\ IsValid(t[1], Len(t[2])) /\ ser(f) \in Seq(Byte)
        BY <4>1, GoodTlv DEF t
      <4> QED BY <4>2, <4>3, <4>4 DEF IsPiece
    <3>2. CASE fields[i] \notin DOMAIN d
      <4>1. s[i] = <<>> /\ Q[i] = {}
        BY <3>2
      <4>2. <<>> \in Seq(Byte)
        BY SMT
      <4> QED BY <4>1, <4>2 DEF IsPiece
    <3> QED BY <3>1, <3>2
  <2> QED BY <2>1, <2>2
<1>7. AllOf(Q, n) = TlvsIn(d)
  <2>1. ASSUME NEW p \in AllOf(Q, n) PROVE p \in TlvsIn(d)
    <3>1. PICK i \in 1..n : p \in Q[i]
      BY DEF AllOf
    <3>2. Q[i] = IF fields[i] \in DOMAIN d THEN {FieldTlv(fields[i], d[fields[i]])} ELSE {}
      OBVIOUS
    <3> HIDE DEF Q
    <3> QED BY <3>1, <3>2 DEF TlvsIn
  <2>2. ASSUME NEW p \in TlvsIn(d) PROVE p \in AllOf(Q, n)
    <3>1. PICK f \in DOMAIN d : p = FieldTlv(f, d[f])
      BY DEF TlvsIn
    <3>2. PICK i \in 1..n : fields[i] = f
      BY <1>1 DEF Elements
    <3>3. Q[i] = {FieldTlv(f, d[f])}
      BY <3>2
    <3> HIDE DEF Q
    <3> QED BY <3>1, <3>3 DEF AllOf
  <2> HIDE DEF Q
  <2> QED BY <2>1, <2>2
<1> HIDE DEF s, Q
<1>8. s \in Seq(Seq(Byte)) /\ Len(s) = n
  BY <1>1, <1>6, SeqFun
<1>9. ArePieces(s, Q)
  BY <1>6, <1>8 DEF ArePieces
<1>10. Carries(P \o Concat(s), R \cup AllOf(Q, Len(s)))
  BY <1>8, <1>9, CarriesMore
<1>11. Concat(s) \in Seq(Byte)
  BY <1>8, ConcatOffsets
<1> QED BY <1>2, <1>5, <1>7, <1>8, <1>10, <1>11

(* No TLV of O has the type of one of the fields F.                        *)
Apart(O, F) == \A p \in O : \A f \in F : p[1] # TlvTypeOf[f]

(* The decoders of datasets read from a TlvSet that holds a dataset's TLVs *)
(* those of its fields that they know of.                                  *)
LEMMA FieldsRead ==
    ASSUME NEW d, GoodDataset(d), NEW O, NEW set, SetOf(set, TlvsIn(d) \cup O),
           NEW fields, Elements(fields) \subseteq AllFields,
           Apart(O, Elements(fields))
    PROVE  /\ FieldsIn(set, fields) = Only(d, Elements(fields))
           /\ "ChannelMask" \in Elements(fields) =>
              (kChannelMask \in DOMAIN set => DecodeChannelMask(set[kChannelMask]).error = "none")
<1>1. \A p \in TlvsIn(d) \cup O : p[1] \in DOMAIN set /\ set[p[1]] = p[2]
  BY DEF SetOf
<1>2. ASSUME NEW f \in DOMAIN d
      PROVE  TlvTypeOf[f] \in DOMAIN set /\ set[TlvTypeOf[f]] = EncodeField(f, d[f])
  <2> DEFINE p == FieldTlv(f, d[f])
  <2>1. p \in TlvsIn(d)
    BY DEF TlvsIn
  <2>2. p[1] = TlvTypeOf[f] /\ p[2] = EncodeField(f, d[f])
    BY DEF FieldTlv
  <2> HIDE DEF p
  <2> QED BY <1>1, <2>1, <2>2
<1>3. ASSUME NEW f \in Elements(fields), TlvTypeOf[f] \in DOMAIN set PROVE f \in DOMAIN d
  <2>0. DOMAIN set = {p[1] : p \in TlvsIn(d) \cup O}
    BY DEF SetOf
  <2>1. PICK p \in TlvsIn(d) \cup O : p[1] = TlvTypeOf[f]
    BY <1>3, <2>0
  <2>2. p \in TlvsIn(d)
    BY <2>1 DEF Apart
  <2>3. PICK g \in DOMAIN d : p = FieldTlv(g, d[g])
    BY <2>2 DEF TlvsIn
  <2>4. p[1] = TlvTypeOf[g]
    BY <2>3 DEF FieldTlv
  <2>5. g \in AllFields /\ f \in AllFields
    BY DEF GoodDataset
  <2> QED BY <2>1, <2>4, <2>5, FieldTypes
<1>4. ASSUME NEW f \in DOMAIN d
      PROVE  /\ DecodeField(f, set[TlvTypeOf[f]]) = d[f]
             /\ f = "ChannelMask" => DecodeChannelMask(set[TlvTypeOf[f]]).error = "none"
  <2>1. GoodField(f, d[f])
    BY DEF GoodDataset
  <2>2. /\ DecodeField(f, EncodeField(f, d[f])) = d[f]
        /\ f = "ChannelMask" => DecodeChannelMask(EncodeField(f, d[f])).error = "none"
    BY <2>1, FieldEncoded DEF GoodField
  <2> QED BY <1>2, <2>2
<1>5. FieldsIn(set, fields) = Only(d, Elements(fields))
  <2>1. {g \in Elements(fields) : TlvTypeOf[g] \in DOMAIN set} = DOMAIN d \cap Elements(fields)
    BY <1>2, <1>3
  <2>2. FieldsIn(set, fields) = [f \in DOMAIN d \cap Elements(fields) |-> DecodeField(f, set[TlvTypeOf[f]])]
    BY <2>1 DEF FieldsIn
  <2> QED BY <2>2, <1>4 DEF Only
<1>6. "ChannelMask" \in AllFields => TlvTypeOf["ChannelMask"] = kChannelMask
  BY DEF TlvTypeOf
<1>7. "ChannelMask" \in Elements(fields) =>
              (kChannelMask \in DOMAIN set => DecodeChannelMask(set[kChannelMask]).error = "none")
  BY <1>3, <1>4, <1>6
<1> QED BY <1>5, <1>7

(* A dataset of whatever kind is decoded from a payload that carries its   *)
(* TLVs, whatever else the payload carries.                                *)
LEMMA DatasetDecoded ==
    ASSUME NEW k \in DOMAIN FieldsOf, NEW d, GoodDataset(d), DOMAIN d \subseteq Elements(FieldsOf[k]),
           NEW O, Apart(O, Elements(FieldsOf[k])), OneOfEach(TlvsIn(d) \cup O), NEW S, Carries(S, TlvsIn(d) \cup O)
    PROVE  IF k = "pending"
           THEN DecodePendingOperationalDataset(S) = [error |-> "none", dataset |-> d]
           ELSE GetDatasetDone(k, S) = [error |-> "none", dataset |-> d]
<1>1. PICK set : SetOf(set, TlvsIn(d) \cup O) /\ GetTlvSet(S) = [error |-> "none", set |-> set]
  BY CarriesRead
<1> DEFINE got == GetTlvSet(S)
<1>2. got.error = "none" /\ got.set = set
  BY <1>1, SMT
<1>3. k \in {"active", "pending", "commissioner", "bbr"}
  BY FieldNames
<1>4. \A j \in DOMAIN FieldsOf : Elements(FieldsOf[j]) \subseteq AllFields
  <2>1. ASSUME NEW s, NEW X, s \in Seq(X) PROVE Elements(s) \subseteq X
    BY <2>1, SMT DEF Elements
  <2> QED BY <2>1, FieldLists
<1>5. ASSUME NEW X, DOMAIN d \subseteq X PROVE Only(d, X) = d
  <2>1. DOMAIN d \cap X = DOMAIN d /\ d = [f \in DOMAIN d |-> d[f]]
    BY <1>5 DEF GoodDataset
  <2> QED BY <2>1 DEF Only
<1> HIDE DEF got
<1>6. CASE k \in {"commissioner", "bbr"}
  <2>1. FieldsIn(set, FieldsOf[k]) = d
    <3>1. FieldsIn(set, FieldsOf[k]) = Only(d, Elements(FieldsOf[k]))
      BY <1>1, <1>4, FieldsRead
    <3> QED BY <1>5, <3>1
  <2>2. DecodeFields(got, FieldsOf[k]) = [error |-> "none", dataset |-> d]
    BY <1>2, <2>1 DEF DecodeFields
  <2>3. GetDatasetDone(k, S) = DecodeFields(got, FieldsOf[k])
    BY <1>6, FieldNames DEF GetDatasetDone, DecodeCommissionerDataset, DecodeBbrDataset, got
  <2> QED BY <1>6, <2>2, <2>3
<1>7. ASSUME NEW e, k \in {"active", "pending"}
      PROVE  DecodeActiveOperationalDataset(e, S) =
                 [error |-> "none", dataset |-> Only(d, Elements(ActiveFields))]
  <2>1. /\ Elements(ActiveFields) \subseteq Elements(FieldsOf[k])
        /\ "ChannelMask" \in Elements(ActiveFields)
    BY <1>7, FieldNames
  <2>2. /\ FieldsIn(set, ActiveFields) = Only(d, Elements(ActiveFields))
        /\ kChannelMask \in DOMAIN set => DecodeChannelMask(set[kChannelMask]).error = "none"
    <3>1. Apart(O, Elements(ActiveFields)) /\ Elements(ActiveFields) \subseteq AllFields
      BY <1>4, <2>1 DEF Apart
    <3> QED BY <1>1, <2>1, <3>1, FieldsRead
  <2>3. DecodeActiveFields(got, e) = DecodeFields(got, ActiveFields)
    BY <1>2, <2>2 DEF DecodeActiveFields
  <2> QED BY <1>2, <2>2, <2>3 DEF DecodeFields, DecodeActiveOperationalDataset, got
<1>8. CASE k = "active"
  <2>1. Only(d, Elements(ActiveFields)) = d
    BY <1>8, <1>5, FieldNames
  <2>2. GetDatasetDone(k, S) = DecodeActiveOperationalDataset(NewDataset("active"), S)
    BY <1>8 DEF GetDatasetDone, GetActiveDatasetDone
  <2> QED BY <1>8, <1>7, <2>1, <2>2, SMT
<1>9. CASE k = "pending"
  <2> DEFINE two == <<"DelayTimer", "PendingTimestamp">>
             a == Only(d, Elements(ActiveFields))
             active == DecodeActiveOperationalDataset(EmptyDataset, S)
             b == FieldsIn(set, two)
  <2>1. Elements(two) \subseteq Elements(FieldsOf[k]) /\ Elements(FieldsOf[k]) = Elements(ActiveFields) \cup Elements(two)
    BY <1>9, FieldNames
  <2>2. b = Only(d, Elements(two))
    <3> HIDE DEF two, b
    <3>1. Apart(O, Elements(two)) /\ Elements(two) \subseteq AllFields
      BY <1>4, <2>1 DEF Apart
    <3> QED BY <1>1, <3>1, FieldsRead DEF b
  <2>3. active = [error |-> "none", dataset |-> a]
    BY <1>7, <1>9, SMT
  <2>4. DecodePendingOperationalDataset(S) = DecodePendingFields(got, active)
    BY DEF DecodePendingOperationalDataset, got
  <2> HIDE DEF active, a, b, two
  <2>5. DecodePendingFields(got, active) = [error |-> "none", dataset |-> Override(a, b)]
    BY <1>2, <2>3 DEF DecodePendingFields, two, b
  <2>6. Override(a, b) = d
    <3>1. DOMAIN a = DOMAIN d \cap Elements(ActiveFields) /\ \A f \in DOMAIN a : a[f] = d[f]
      BY DEF a, Only
    <3>2. DOMAIN b = DOMAIN d \cap Elements(two) /\ \A f \in DOMAIN b : b[f] = d[f]
      BY <2>2 DEF Only
    <3>3. DOMAIN a \cup DOMAIN b = DOMAIN d
      BY <3>1, <3>2, <2>1
    <3>4. d = [f \in DOMAIN d |-> d[f]]
      BY DEF GoodDataset
    <3>5. Override(a, b) = [f \in DOMAIN d |-> IF f \in DOMAIN b THEN b[f] ELSE a[f]]
      BY <3>3 DEF Override
    <3>6. \A f \in DOMAIN d : (IF f \in DOMAIN b THEN b[f] ELSE a[f]) = d[f]
      BY <3>1, <3>2, <3>3
    <3>7. [f \in DOMAIN d |-> IF f \in DOMAIN b THEN b[f] ELSE a[f]] = [f \in DOMAIN d |-> d[f]]
      BY <3>6
    <3> QED BY <3>4, <3>5, <3>7
  <2> QED BY <1>9, <2>4, <2>5, <2>6
<1> QED BY <1>3, <1>6, <1>8, <1>9

-----------------------------------------------------------------------------
(* Parts of a dataset.                                                     *)

(* Some of the fields of a dataset that can be sent are a dataset that can *)
(* be sent.                                                                *)
LEMMA OnlyGood ==
    ASSUME NEW d, GoodDataset(d), NEW X
    PROVE  /\ GoodDataset(Only(d, X)) /\ DOMAIN Only(d, X) = DOMAIN d \cap X
           /\ TlvsIn(Only(d, X)) = {FieldTlv(f, d[f]) : f \in DOMAIN d \cap X}
<1> DEFINE e == Only(d, X)
<1>1. /\ DOMAIN e = DOMAIN d \cap X /\ \A f \in DOMAIN d \cap X : e[f] = d[f]
      /\ e = [f \in DOMAIN e |-> e[f]]
  BY DEF Only
<1> HIDE DEF e
<1>2. DOMAIN d \subseteq AllFields /\ \A f \in DOMAIN d : GoodField(f, d[f])
  BY DEF GoodDataset
<1>3. GoodDataset(e)
  <2>1. DOMAIN e \subseteq AllFields /\ \A f \in DOMAIN e : GoodField(f, e[f])
    BY <1>1, <1>2
  <2> QED BY <1>1, <2>1 DEF GoodDataset
<1>4. TlvsIn(e) = {FieldTlv(f, d[f]) : f \in DOMAIN d \cap X}
  <2>1. \A f \in DOMAIN d \cap X : FieldTlv(f, e[f]) = FieldTlv(f, d[f])
    BY <1>1
  <2>2. TlvsIn(e) = {FieldTlv(f, e[f]) : f \in DOMAIN d \cap X}
    BY <1>1 DEF TlvsIn
  <2> QED BY <2>1, <2>2
<1> QED BY <1>1, <1>3, <1>4 DEF e

(* A dataset has one TLV of each type, also next to TLVs that are no       *)
(* field's.                                                                *)
LEMMA OneOfEachIn ==
    ASSUME NEW d, GoodDataset(d), NEW O, OneOfEach(O), Apart(O, DOMAIN d)
    PROVE  OneOfEach(TlvsIn(d) \cup O)
<1>1. ASSUME NEW p \in TlvsIn(d) PROVE \E f \in DOMAIN d : p = FieldTlv(f, d[f]) /\ p[1] = TlvTypeOf[f]
  <2>1. PICK f \in DOMAIN d : p = FieldTlv(f, d[f])
    BY DEF TlvsIn
  <2>2. FieldTlv(f, d[f])[1] = TlvTypeOf[f]
    BY DEF FieldTlv
  <2> QED BY <2>1, <2>2
<1>2. ASSUME NEW p \in TlvsIn(d), NEW q \in TlvsIn(d), p[1] = q[1] PROVE p = q
  <2>1. PICK f \in DOMAIN d : p = FieldTlv(f, d[f]) /\ p[1] = TlvTypeOf[f]
    BY <1>1
  <2>2. PICK g \in DOMAIN d : q = FieldTlv(g, d[g]) /\ q[1] = TlvTypeOf[g]
    BY <1>1
  <2>3. f \in AllFields /\ g \in AllFields
    BY DEF GoodDataset
  <2>4. f = g
    BY <1>2, <2>1, <2>2, <2>3, FieldTypes
  <2> QED BY <2>1, <2>2, <2>4
<1>3. \A p \in TlvsIn(d), q \in O : p[1] # q[1]
  BY <1>1 DEF Apart
<1> QED BY <1>2, <1>3 DEF OneOfEach

(* The TLVs of R that have a type of T.                                    *)
OfTypes(R, T) == {p \in R : p[1] \in T}

(* Serializing the TLVs of types T out of a TlvSet gives those of the      *)
(* payload it was read from that have these types.                         *)
LEMMA TlvsOfPart ==
    ASSUME NEW S, NEW R, Carries(S, R), NEW set, SetOf(set, R), NEW T, T \subseteq DOMAIN set
    PROVE  Carries(TlvsOf(set, T), OfTypes(R, T))
<1>1. \A p \in R : Fits(p) /\ IsValid(p[1], Len(p[2]))
  BY CarriesValid
<1>2. DOMAIN set = {p[1] : p \in R} /\ \A p \in R : set[p[1]] = p[2]
  BY DEF SetOf
<1>3. \A p \in R : p \in Byte \X Seq(Byte)
  BY <1>1 DEF Fits
<1>4. \A p \in Byte \X Seq(Byte) : p = <<p[1], p[2]>> /\ p[1] \in Byte
  BY SMT
<1>5. \A p \in R : p = <<p[1], set[p[1]]>> /\ p[1] \in Byte
  BY <1>2, <1>3, <1>4
<1>6. \A t \in T : \E p \in R : p[1] = t
  BY <1>2
<1>7. T \subseteq Byte
  BY <1>5, <1>6
<1>8. ASSUME NEW t \in T PROVE Fits(<<t, set[t]>>) /\ IsValid(t, Len(set[t]))
  <2>1. PICK p \in R : p[1] = t
    BY <1>6
  <2>2. p = <<t, set[t]>> /\ set[t] = p[2]
    BY <2>1, <1>2, <1>5
  <2>3. Fits(p) /\ IsValid(p[1], Len(p[2]))
    BY <1>1
  <2> QED BY <2>1, <2>2, <2>3
<1>9. Carries(TlvsOf(set, T), {<<t, set[t]>> : t \in T})
  BY <1>7, <1>8, CarriesTlvsOf
<1>10. {<<t, set[t]>> : t \in T} = {p \in R : p[1] \in T}
  <2>1. ASSUME NEW p \in R, p[1] \in T PROVE p \in {<<t, set[t]>> : t \in T}
    BY <2>1, <1>5
  <2>2. ASSUME NEW t \in T PROVE <<t, set[t]>> \in R /\ <<t, set[t]>>[1] \in T
    <3>1. PICK p \in R : p[1] = t
      BY <1>6
    <3>2. p = <<t, set[t]>>
      BY <3>1, <1>5
    <3> QED BY <3>1, <3>2
  <2> QED BY <2>1, <2>2
<1> QED BY <1>9, <1>10 DEF OfTypes

(* The dataset's TLVs among those of the types T.                          *)
FieldsWith(T) == {f \in AllFields : TlvTypeOf[f] \in T}

(* The same of a payload that carries a dataset: the fields whose types    *)
(* are in T.                                                               *)
LEMMA TlvsOfRead ==
    ASSUME NEW d, GoodDataset(d), NEW O, NEW S, Carries(S, TlvsIn(d) \cup O),
           NEW set, SetOf(set, TlvsIn(d) \cup O), NEW T, T \subseteq DOMAIN set
    PROVE  Carries(TlvsOf(set, T), TlvsIn(Only(d, FieldsWith(T))) \cup OfTypes(O, T))
<1>1. Carries(TlvsOf(set, T), {p \in TlvsIn(d) \cup O : p[1] \in T})
  BY TlvsOfPart DEF OfTypes
<1>2. TlvsIn(Only(d, FieldsWith(T))) = {FieldTlv(f, d[f]) : f \in DOMAIN d \cap FieldsWith(T)}
  BY OnlyGood
<1>3. \A f \in DOMAIN d : FieldTlv(f, d[f])[1] = TlvTypeOf[f]
  BY DEF FieldTlv
<1>4. DOMAIN d \subseteq AllFields
  BY DEF GoodDataset
<1>5. {p \in TlvsIn(d) : p[1] \in T} = {FieldTlv(f, d[f]) : f \in DOMAIN d \cap FieldsWith(T)}
  <2>1. ASSUME NEW p \in TlvsIn(d), p[1] \in T
        PROVE  p \in {FieldTlv(f, d[f]) : f \in DOMAIN d \cap FieldsWith(T)}
    <3>1. PICK f \in DOMAIN d : p = FieldTlv(f, d[f])
      BY DEF TlvsIn
    <3>2. f \in FieldsWith(T)
      BY <2>1, <3>1, <1>3, <1>4 DEF FieldsWith
    <3> QED BY <3>1, <3>2
  <2>2. ASSUME NEW f \in DOMAIN d \cap FieldsWith(T)
        PROVE  FieldTlv(f, d[f]) \in TlvsIn(d) /\ FieldTlv(f, d[f])[1] \in T
    <3>1. FieldTlv(f, d[f]) \in TlvsIn(d)
      BY DEF TlvsIn
    <3>2. TlvTypeOf[f] \in T
      BY DEF FieldsWith
    <3> QED BY <1>3, <3>1, <3>2
  <2> QED BY <2>1, <2>2
<1>6. {p \in TlvsIn(d) \cup O : p[1] \in T} =
         TlvsIn(Only(d, FieldsWith(T))) \cup {p \in O : p[1] \in T}
  <2>1. {p \in TlvsIn(d) \cup O : p[1] \in T} = {p \in TlvsIn(d) : p[1] \in T} \cup {p \in O : p[1] \in T}
    OBVIOUS
  <2> QED BY <1>2, <1>5, <2>1
<1> QED BY <1>1, <1>6 DEF OfTypes

-----------------------------------------------------------------------------
(* Requests: the types that are asked for, and the signature.              *)

(* The Get TLV asks for the types of the fields of the kind of dataset     *)
(* that are flagged, each at most once.                                    *)
LEMMA TypesAsked ==
    ASSUME NEW fields \in Seq(AllFields), NEW flags
    PROVE  LET types == TlvTypes(fields, flags)
           IN  /\ types \in Seq(Byte) /\ Len(types) <= Len(fields)
               /\ Elements(types) = {TlvTypeOf[f] : f \in Elements(fields) \cap flags}
<1> DEFINE n == Len(fields)
           s == [i \in 1..n |-> IF fields[i] \in flags THEN <<TlvTypeOf[fields[i]]>> ELSE <<>>]
           Upto(k) == {TlvTypeOf[fields[i]] : i \in {j \in 1..k : fields[j] \in flags}}
<1>1. n \in Nat /\ DOMAIN fields = 1..n /\ \A i \in 1..n : fields[i] \in AllFields
  BY SMT
<1>2. TlvTypes(fields, flags) = Concat(s)
  BY <1>1 DEF TlvTypes
<1> HIDE DEF n
<1>3. ASSUME NEW i \in 1..n
      PROVE  /\ s[i] \in Seq(Byte)
             /\ fields[i] \in flags => s[i] = <<TlvTypeOf[fields[i]]>>
             /\ fields[i] \notin flags => s[i] = <<>>
  <2>1. TlvTypeOf[fields[i]] \in Byte
    BY <1>1, FieldTypes
  <2>2. \A b \in Byte : <<b>> \in Seq(Byte)
    BY SMT
  <2>3. <<>> \in Seq(Byte)
    BY SMT
  <2> QED BY <2>1, <2>2, <2>3
<1>4. s = [i \in 1..n |-> s[i]]
  OBVIOUS
<1> HIDE DEF s
<1>5. s \in Seq(Seq(Byte)) /\ Len(s) = n
  BY <1>1, <1>3, <1>4, SeqFun
<1>6. PICK G \in [0..Len(s) -> Seq(Byte)] : /\ G[0] = <<>>
                                            /\ \A k \in 1..Len(s) : G[k] = G[k - 1] \o s[k]
                                            /\ Concat(s) = G[Len(s)]
  BY <1>5, Concatenates
<1>6a. /\ \A k \in 1..n : G[k] = G[k - 1] \o s[k]
      /\ \A k \in 0..n : G[k] \in Seq(Byte)
  BY <1>5, <1>6
<1> HIDE DEF Upto
<1> DEFINE T == {k \in Nat : k <= n => Len(G[k]) <= k /\ Elements(G[k]) = Upto(k)}
<1>7. 0 \in T
  <2>1. 1..0 = {} /\ Len(<<>>) <= 0 /\ DOMAIN <<>> = {} /\ 0 \in Nat
    BY SMT
  <2>2. Elements(<<>>) = {} /\ Upto(0) = {}
    BY <2>1 DEF Elements, Upto
  <2> QED BY <2>1, <2>2, <1>6
<1>8. ASSUME NEW k \in Nat, k \in T PROVE k + 1 \in T
  <2> SUFFICES ASSUME k + 1 <= n PROVE Len(G[k + 1]) <= k + 1 /\ Elements(G[k + 1]) = Upto(k + 1)
    <3>1. k + 1 \in Nat
      BY SMT
    <3> QED BY <3>1
  <2>1. k <= n /\ k + 1 \in 1..n /\ k \in 0..n /\ (k + 1) - 1 = k /\ 1..k + 1 = 1..k \cup {k + 1}
    BY <1>1, SMT
  <2>2. Len(G[k]) <= k /\ Elements(G[k]) = Upto(k)
    BY <1>8, <2>1
  <2>3. G[k] \in Seq(Byte) /\ G[k + 1] = G[k] \o s[k + 1]
    <3>1. k + 1 \in 1..n /\ k \in 0..n /\ (k + 1) - 1 = k
      BY <2>1
    <3>2. G[k + 1] = G[(k + 1) - 1] \o s[k + 1]
      BY <1>6a, <3>1
    <3>3. G[k] \in Seq(Byte)
      BY <1>6a, <3>1
    <3> QED BY <3>1, <3>2, <3>3
  <2> HIDE DEF T
  <2> DEFINE f == fields[k + 1]
  <2>4. CASE f \in flags
    <3> DEFINE t == TlvTypeOf[f]
    <3>1. s[k + 1] = <<t>> /\ t \in Byte
      BY <1>1, <1>3, <2>1, <2>4, FieldTypes
    <3>2. ASSUME NEW g \in Seq(Byte), NEW b \in Byte
          PROVE  Len(g \o <<b>>) = Len(g) + 1 /\ Elements(g \o <<b>>) = Elements(g) \cup {b}
      <4> DEFINE h == g \o <<b>>
                 l == Len(g)
      <4>1. /\ l \in Nat /\ Len(h) = l + 1 /\ DOMAIN h = 1..l + 1 /\ DOMAIN g = 1..l
            /\ h[l + 1] = b /\ \A i \in 1..l : h[i] = g[i]
        BY SMT
      <4> HIDE DEF h, l
      <4>2. 1..l + 1 = 1..l \cup {l + 1}
        BY <4>1, SMT
      <4>3. Elements(h) = Elements(g) \cup {b}
        <5>1. Elements(h) = {h[i] : i \in 1..l \cup {l + 1}} /\ Elements(g) = {g[i] : i \in 1..l}
          BY <4>1, <4>2 DEF Elements
        <5> QED BY <4>1, <5>1
      <4> QED BY <4>1, <4>3 DEF h, l
    <3> HIDE DEF f, t
    <3>3. Len(G[k + 1]) = Len(G[k]) + 1 /\ Elements(G[k + 1]) = Elements(G[k]) \cup {t}
      BY <2>3, <3>1, <3>2
    <3>4. Upto(k + 1) = Upto(k) \cup {t}
      BY <2>1, <2>4 DEF Upto, f, t
    <3>5. Len(G[k + 1]) <= k + 1
      BY <2>2, <2>3, <3>3, SMT
    <3> QED BY <2>2, <3>3, <3>4, <3>5
  <2>5. CASE f \notin flags
    <3>1. s[k + 1] = <<>>
      BY <1>3, <2>1, <2>5
    <3>2. G[k + 1] = G[k]
      BY <2>3, <3>1, SMT
    <3>3. Upto(k + 1) = Upto(k)
      BY <2>1, <2>5 DEF Upto
    <3>4. Len(G[k + 1]) <= k + 1
      BY <2>2, <2>3, <3>2, SMT
    <3> QED BY <2>2, <3>2, <3>3, <3>4
  <2> QED BY <2>4, <2>5
<1>9. n \in T
  <2> HIDE DEF T
  <2> QED BY <1>1, <1>7, <1>8, SetInduction
<1>10. Concat(s) = G[n] /\ G[n] \in Seq(Byte) /\ Len(G[n]) <= n /\ Elements(G[n]) = Upto(n)
  <2>1. n \in 0..n /\ n <= n
    BY <1>1, SMT
  <2> QED BY <1>5, <1>6, <1>9, <2>1
<1>11. Upto(n) = {TlvTypeOf[f] : f \in Elements(fields) \cap flags}
  BY <1>1 DEF Upto, Elements
<1> QED BY <1>2, <1>10, <1>11 DEF n

(* What a GET request asks for.                                            *)
Asks(types) == IF types = <<>> THEN {} ELSE {<<kGet, types>>}

(* A payload of one TLV.                                                   *)
LEMMA CarriesOne ==
    ASSUME NEW t \in Byte, NEW v \in Seq(Byte), t # kDomainPrefix, IsValid(t, Len(v))
    PROVE  Carries(SerializeTlv(t, v), {<<t, v>>})
<1> DEFINE p == <<t, v>>
<1>1. Fits(p)
  BY ValidFits
<1>2. p[1] = t /\ p[2] = v
  OBVIOUS
<1> HIDE DEF p
<1>3. SerializeTlv(t, v) \in Seq(Byte)
  BY <1>1, <1>2, Serialized
<1>4. Carries(<<>> \o SerializeTlv(t, v), {} \cup {p})
  BY <1>1, <1>2, CarriesNone, CarriesTlv
<1>5. <<>> \o SerializeTlv(t, v) = SerializeTlv(t, v) /\ {} \cup {p} = {p}
  BY <1>3, SMT
<1> QED BY <1>4, <1>5 DEF p

(* The payload of a request for a dataset carries the Get TLV, or nothing  *)
(* if all fields are asked for.                                            *)
LEMMA Asked ==
    ASSUME NEW types \in Seq(Byte), Len(types) <= 12
    PROVE  Carries(GetRequest(types), Asks(types))
<1>1. CASE types = <<>>
  BY <1>1, CarriesNone DEF GetRequest, Asks
<1>2. CASE types # <<>>
  <2>1. Len(types) \in Nat /\ Len(types) < kEscapeLength /\ kGet \in Byte /\ kGet # kDomainPrefix
    BY SMT DEF kEscapeLength, kGet, kDomainPrefix, Byte
  <2>2. Len(types) < TlvLimit
    BY SMT DEF TlvLimit
  <2>3. IsValid(kGet, Len(types))
    BY <2>1, <2>2 DEF IsValid, kGet
  <2>4. Carries(SerializeTlv(kGet, types), {<<kGet, types>>})
    BY <2>1, <2>3, CarriesOne
  <2> QED BY <1>2, <2>4 DEF GetRequest, Asks
<1> QED BY <1>1, <1>2

(* The TLVs that requests carry besides fields: the session id, the token  *)
(* and the signature.                                                      *)
SessionTlv == <<kCommissionerSessionId, Uint16(SessionId)>>
TokenTlv == <<kCommissionerToken, SomeToken>>
SignatureTlv == <<kCommissionerSignature, SomeSignature>>

(* What SignRequest adds.                                                  *)
Extra == IF mode = "ccm" THEN {TokenTlv, SignatureTlv} ELSE {}

(* These are valid TLVs, whose lengths fit.                                *)
LEMMA ConstantTlvs ==
    /\ Carries(SerializeTlv(kCommissionerSessionId, Uint16(SessionId)), {SessionTlv})
    /\ Fits(TokenTlv) /\ IsValid(TokenTlv[1], Len(TokenTlv[2]))
    /\ Fits(SignatureTlv) /\ IsValid(SignatureTlv[1], Len(SignatureTlv[2]))
    /\ SessionTlv[1] = TlvTypeOf["SessionId"] /\ SessionTlv[1] = kCommissionerSessionId
    /\ TokenTlv[1] = kCommissionerToken /\ TokenTlv[2] = SomeToken
    /\ SignatureTlv[1] = kCommissionerSignature /\ SignatureTlv[2] = SomeSignature
    /\ SessionId \in TwoBytes /\ IsValid(kCommissionerSessionId, Len(Uint16(SessionId)))
<1>1. SessionId \in TwoBytes
  <2>1. 258 \in Nat /\ 258 \div 256 = 1 /\ 1 < 256 /\ 1 \in Nat
    BY SMT
  <2> QED BY <2>1, ByteNat DEF TwoBytes, SessionId
<1>2. Uint16(SessionId) \in Seq(Byte) /\ Len(Uint16(SessionId)) = 2
  BY <1>1, WordEncoded
<1>3. kCommissionerSessionId \in Byte /\ kCommissionerSessionId # kDomainPrefix
  BY SMT DEF kCommissionerSessionId, Byte, kDomainPrefix
<1>4. IsValid(kCommissionerSessionId, Len(Uint16(SessionId)))
  <2>1. 2 < TlvLimit
    BY SMT DEF TlvLimit
  <2> QED BY <1>2, <2>1, SMT DEF IsValid, kCommissionerSessionId
<1>5. Carries(SerializeTlv(kCommissionerSessionId, Uint16(SessionId)), {SessionTlv})
  BY <1>2, <1>3, <1>4, CarriesOne DEF SessionTlv
<1> DEFINE Zeros(n) == [i \in 1..n |-> 0]
<1>6. ASSUME NEW n \in Nat, n <= 300 PROVE Zeros(n) \in Seq(Byte) /\ Len(Zeros(n)) = n /\ n < TlvLimit
  <2>1. 0 \in Byte
    BY SMT DEF Byte
  <2>2. Zeros(n) = [i \in 1..n |-> Zeros(n)[i]] /\ \A i \in 1..n : Zeros(n)[i] \in Byte
    BY <2>1
  <2>3. Zeros(n) \in Seq(Byte) /\ Len(Zeros(n)) = n
    <3> HIDE DEF Zeros
    <3> QED BY <2>2, SeqFun, SMT
  <2>4. n < TlvLimit
    BY <1>6, SMT DEF TlvLimit
  <2> QED BY <2>3, <2>4
<1>7. /\ SomeToken \in Seq(Byte) /\ Len(SomeToken) = 300 /\ 300 < TlvLimit
      /\ SomeSignature \in Seq(Byte) /\ Len(SomeSignature) = 64 /\ 64 < TlvLimit
  <2>1. 300 \in Nat /\ 300 <= 300 /\ 64 \in Nat /\ 64 <= 300
    BY SMT
  <2>2. SomeToken = Zeros(300) /\ SomeSignature = Zeros(64)
    BY DEF SomeToken, SomeSignature
  <2> HIDE DEF Zeros
  <2>3. Zeros(300) \in Seq(Byte) /\ Len(Zeros(300)) = 300 /\ 300 < TlvLimit
    BY <1>6, <2>1
  <2>4. Zeros(64) \in Seq(Byte) /\ Len(Zeros(64)) = 64 /\ 64 < TlvLimit
    BY <1>6, <2>1
  <2> QED BY <2>2, <2>3, <2>4
<1> HIDE DEF Zeros
<1>8. /\ TokenTlv[1] = kCommissionerToken /\ TokenTlv[2] = SomeToken
      /\ SignatureTlv[1] = kCommissionerSignature /\ SignatureTlv[2] = SomeSignature
      /\ SessionTlv[1] = kCommissionerSessionId
  BY DEF TokenTlv, SignatureTlv, SessionTlv
<1>9. /\ kCommissionerToken \in Byte /\ kCommissionerToken # kDomainPrefix
      /\ kCommissionerSignature \in Byte /\ kCommissionerSignature # kDomainPrefix
  BY SMT DEF kCommissionerToken, kCommissionerSignature, kDomainPrefix, Byte
<1>10. IsValid(kCommissionerToken, Len(SomeToken))
  BY <1>7 DEF IsValid, kCommissionerToken
<1>11. IsValid(kCommissionerSignature, Len(SomeSignature))
  BY <1>7, SMT DEF IsValid, kCommissionerSignature, kEscapeLength
<1>12. Fits(TokenTlv) /\ Fits(SignatureTlv)
  BY <1>7, <1>9, <1>10, <1>11, ValidFits DEF TokenTlv, SignatureTlv
<1>13. TlvTypeOf["SessionId"] = kCommissionerSessionId
  BY DEF TlvTypeOf
<1> QED BY <1>1, <1>4, <1>5, <1>8, <1>10, <1>11, <1>12, <1>13

(* SignRequest appends the token and the signature in a commercial         *)
(* network, and nothing elsewhere.                                         *)
LEMMA SignAppends ==
    ASSUME NEW uri, NEW payload, NEW R, Carries(payload, R)
    PROVE  /\ SignRequest(uri, payload).error = "none" /\ SignRequest(uri, payload).uri = uri
           /\ Carries(SignRequest(uri, payload).payload, R \cup Extra)
<1>1. SignRequest(uri, payload).error = "none" /\ SignRequest(uri, payload).uri = uri
  BY DEF SignRequest
<1>2. CASE mode # "ccm"
  <2>1. SignRequest(uri, payload).payload = payload /\ R \cup Extra = R
    BY <1>2 DEF SignRequest, Extra
  <2> QED BY <1>1, <2>1
<1>3. CASE mode = "ccm"
  <2> DEFINE token == SerializeTlv(kCommissionerToken, SomeToken)
             signature == SerializeTlv(kCommissionerSignature, SomeSignature)
  <2>1. SignRequest(uri, payload).payload = payload \o token \o signature
    BY <1>3 DEF SignRequest
  <2> HIDE DEF token, signature
  <2>2. Carries(payload \o token, R \cup {TokenTlv})
    BY ConstantTlvs, CarriesTlv DEF token
  <2>3. Carries(payload \o token \o signature, R \cup {TokenTlv} \cup {SignatureTlv})
    BY <2>2, ConstantTlvs, CarriesTlv DEF signature
  <2>4. R \cup {TokenTlv} \cup {SignatureTlv} = R \cup Extra
    BY <1>3 DEF Extra
  <2> QED BY <1>1, <2>1, <2>3, <2>4
<1> QED BY <1>2, <1>3

(* The token and the signature are no field's TLVs, and differ.            *)
LEMMA ExtraApart ==
    /\ OneOfEach(Extra) /\ Apart(Extra, AllFields)
    /\ \A p \in Extra : p[1] \in {kCommissionerToken, kCommissionerSignature}
    /\ kCommissionerToken # kCommissionerSignature
<1>1. kCommissionerToken # kCommissionerSignature
  BY SMT DEF kCommissionerToken, kCommissionerSignature
<1>2. \A p \in Extra : p = TokenTlv \/ p = SignatureTlv
  BY DEF Extra
<1>3. \A p \in Extra : p[1] \in {kCommissionerToken, kCommissionerSignature}
  BY <1>2, ConstantTlvs
<1>4. Apart(Extra, AllFields)
  BY <1>3, FieldTypes DEF Apart, NoFieldTypes
<1>5. OneOfEach(Extra)
  <2>1. ASSUME NEW p \in Extra, NEW q \in Extra, p[1] = q[1] PROVE p = q
    <3>1. TokenTlv[1] # SignatureTlv[1]
      BY <1>1, ConstantTlvs
    <3> QED BY <2>1, <3>1, <1>2
  <2> QED BY <2>1 DEF OneOfEach
<1> QED BY <1>1, <1>3, <1>4, <1>5

(* TlvSets that agree on the types T serialize to the same bytes.          *)
LEMMA TlvsOfSame ==
    ASSUME NEW T, T \subseteq Byte, NEW a, NEW b, \A t \in T : a[t] = b[t]
    PROVE  TlvsOf(a, T) = TlvsOf(b, T)
<1> DEFINE order == Sorted(T)
           x == [i \in DOMAIN order |-> SerializeTlv(order[i], a[order[i]])]
           y == [i \in DOMAIN order |-> SerializeTlv(order[i], b[order[i]])]
<1>1. DOMAIN order = 1..Len(order) /\ order \in Seq(T)
  BY SortedHasAll
<1>2. TlvsOf(a, T) = Concat(x) /\ TlvsOf(b, T) = Concat(y)
  BY DEF TlvsOf
<1> HIDE DEF order
<1>3. \A i \in DOMAIN order : order[i] \in T
  BY <1>1, SeqAt
<1>4. \A i \in DOMAIN order : a[order[i]] = b[order[i]]
  BY <1>3
<1>5. x = y
  BY <1>4
<1> HIDE DEF x, y
<1> QED BY <1>2, <1>5

(* The token and the signature are not part of the content that is signed: *)
(* ShouldBeSerialized.                                                     *)
LEMMA NotSerialized ==
    ASSUME NEW uri, NEW t \in {kCommissionerToken, kCommissionerSignature}
    PROVE  ~ShouldBeSerialized(t, uri)
  BY SMT DEF ShouldBeSerialized, IsDatasetParameter, kCommissionerToken, kCommissionerSignature,
         kDelayTimer, kActiveTimestamp, kChannel, kChannelMask, kExtendedPanId,
         kNetworkMeshLocalPrefix, kNetworkMasterKey, kNetworkName, kPanId, kPSKc, kSecurityPolicy,
         kPendingTimestamp

(* TLVs to which a token and a signature can be added.                     *)
Signable(R) == OneOfEach(R) /\ \A p \in R : p[1] \notin {kCommissionerToken, kCommissionerSignature}

(* A request that SignRequest has signed is verified by the registrar,     *)
(* which takes the signed content out of the whole payload, and the signed *)
(* content is made of the TLVs that were there before the token.           *)
LEMMA SignatureMatches ==
    ASSUME mode = "ccm", NEW uri, NEW payload, NEW R, Carries(payload, R), Signable(R)
    PROVE  /\ ValidateSignature(SignRequest(uri, payload))
           /\ \E set : /\ SetOf(set, R)
                       /\ SignRequest(uri, payload).signed.tlvs =
                              TlvsOf(set, {t \in DOMAIN set : ShouldBeSerialized(t, uri)})
<1> DEFINE request == SignRequest(uri, payload)
           full == request.payload
<1>0. OneOfEach(R) /\ \A p \in R : p[1] \notin {kCommissionerToken, kCommissionerSignature}
  BY DEF Signable
<1>1. request.uri = uri /\ Carries(full, R \cup Extra)
  BY SignAppends
<1>2. request.signed = PrepareSigningContent(uri, payload)
  BY DEF SignRequest
<1> HIDE DEF request
<1>3. PICK a : SetOf(a, R) /\ GetTlvSet(payload) = [error |-> "none", set |-> a]
  BY <1>0, CarriesRead
<1>4. OneOfEach(R \cup Extra)
  BY <1>0, ExtraApart DEF OneOfEach
<1>5. PICK b : SetOf(b, R \cup Extra) /\ GetTlvSet(full) = [error |-> "none", set |-> b]
  BY <1>1, <1>4, CarriesRead
<1> HIDE DEF full
<1>6. GetTlvSet(payload).set = a /\ GetTlvSet(full).set = b
  BY <1>3, <1>5, SMT
<1> DEFINE A == {t \in DOMAIN a : ShouldBeSerialized(t, uri)}
           B == {t \in DOMAIN b : ShouldBeSerialized(t, uri)}
<1>7. /\ DOMAIN a = {p[1] : p \in R} /\ \A p \in R : a[p[1]] = p[2]
      /\ DOMAIN b = {p[1] : p \in R \cup Extra} /\ \A p \in R \cup Extra : b[p[1]] = p[2]
  BY <1>3, <1>5 DEF SetOf
<1>8. A = B
  <2>1. \A p \in Extra : ~ShouldBeSerialized(p[1], uri)
    BY ExtraApart, NotSerialized
  <2> QED BY <1>7, <2>1
<1>9. \A t \in A : a[t] = b[t]
  BY <1>7
<1>10. A \subseteq Byte
  <2>1. \A p \in R : Fits(p)
    BY CarriesValid
  <2>2. \A p : Fits(p) => p[1] \in Byte
    BY DEF Fits
  <2> QED BY <1>7, <2>1, <2>2
<1>11. SignedTlvs(a, uri) = TlvsOf(a, A) /\ SignedTlvs(b, uri) = TlvsOf(b, B)
  BY DEF SignedTlvs
<1> HIDE DEF A, B
<1>12. SignedTlvs(a, uri) = SignedTlvs(b, uri)
  BY <1>8, <1>9, <1>10, <1>11, TlvsOfSame
<1>13. PrepareSigningContent(uri, payload) = PrepareSigningContent(uri, full)
  BY <1>6, <1>12 DEF PrepareSigningContent
<1>14. ValidateSignature(request)
  BY <1>1, <1>2, <1>13 DEF ValidateSignature, full
<1>15. request.signed.tlvs = TlvsOf(a, A)
  <2>1. PrepareSigningContent(uri, payload).tlvs = SignedTlvs(GetTlvSet(payload).set, uri)
    BY DEF PrepareSigningContent
  <2> QED BY <1>2, <1>6, <1>11, <2>1
<1> QED BY <1>3, <1>14, <1>15 DEF request, A

-----------------------------------------------------------------------------
(* What is set is read back.                                               *)

(* The resource of the request that sets the dataset.                      *)
SetUri ==
    CASE kind = "active" -> "c/as" [] kind = "pending" -> "c/ps"
      [] kind = "commissioner" -> "c/cs" [] kind = "bbr" -> "c/bs"

(* The fields that SetCommissionerDataset leaves out.                      *)
ReadOnly == {"SessionId", "BorderAgentLocator"}

(* The fields that are encoded, and all that are set.                      *)
Write == IF kind = "commissioner" THEN Only(dataset, DOMAIN dataset \ ReadOnly) ELSE dataset
Written ==
    IF kind # "commissioner" THEN dataset
    ELSE [f \in (DOMAIN dataset \ {"BorderAgentLocator"}) \cup {"SessionId"} |->
             IF f = "SessionId" THEN SessionId ELSE dataset[f]]

(* A SET request that is not refused carries the session id and the        *)
(* encoded fields, and is sent in the modes that admit it.                 *)
LEMMA Sent ==
    ASSUME kind \in DOMAIN FieldsOf, SetDataset.error = "none"
    PROVE  LET encoded == AppendFields(FieldsOf[kind], Write)
           IN  /\ encoded.error = "none"
               /\ SetDataset = SignRequest(SetUri,
                      SerializeTlv(kCommissionerSessionId, Uint16(SessionId)) \o encoded.payload)
               /\ kind \in {"active", "pending"} => mode # "disabled"
               /\ kind = "bbr" => mode = "ccm"
               /\ kind = "pending" => "DelayTimer" \in DOMAIN dataset
<1> DEFINE encoded == AppendFields(FieldsOf[kind], Write)
<1>1. Refused.error # "none"
  BY DEF Refused
<1>2. kind \in {"active", "pending", "commissioner", "bbr"}
  BY FieldNames
<1>3. /\ SetDataset = SetRequest(SetUri, encoded)
      /\ kind \in {"active", "pending"} => mode # "disabled"
      /\ kind = "bbr" => mode = "ccm"
      /\ kind = "pending" => "DelayTimer" \in DOMAIN dataset
  <2>1. CASE kind = "active"
    <3>1. /\ SetDataset = SetActiveDataset(dataset) /\ SetUri = "c/as"
          /\ encoded = EncodeActiveOperationalDataset(dataset)
      BY <2>1, FieldNames DEF SetDataset, SetUri, Write, EncodeActiveOperationalDataset
    <3> HIDE DEF encoded
    <3> QED BY <2>1, <3>1, <1>1 DEF SetActiveDataset
  <2>2. CASE kind = "pending"
    <3>1. /\ SetDataset = SetPendingDataset(dataset) /\ SetUri = "c/ps"
          /\ encoded = EncodePendingOperationalDataset(dataset)
      BY <2>2, FieldNames DEF SetDataset, SetUri, Write, EncodePendingOperationalDataset
    <3> HIDE DEF encoded
    <3> QED BY <2>2, <3>1, <1>1 DEF SetPendingDataset
  <2>3. CASE kind = "commissioner"
    <3>1. /\ SetDataset = SetCommissionerDataset(dataset) /\ SetUri = "c/cs"
          /\ encoded = EncodeCommissionerDataset(Only(dataset, DOMAIN dataset \ ReadOnly))
      BY <2>3, FieldNames DEF SetDataset, SetUri, Write, EncodeCommissionerDataset
    <3> HIDE DEF encoded
    <3> QED BY <2>3, <3>1, <1>1 DEF SetCommissionerDataset, ReadOnly
  <2>4. CASE kind = "bbr"
    <3>1. /\ SetDataset = SetBbrDataset(dataset) /\ SetUri = "c/bs"
          /\ encoded = EncodeBbrDataset(dataset)
      BY <2>4, FieldNames DEF SetDataset, SetUri, Write, EncodeBbrDataset
    <3> HIDE DEF encoded
    <3> QED BY <2>4, <3>1, <1>1 DEF SetBbrDataset
  <2> QED BY <1>2, <2>1, <2>2, <2>3, <2>4
<1> HIDE DEF encoded
<1>4. encoded.error = "none"
  BY <1>1, <1>3 DEF SetRequest
<1>5. SetDataset = SignRequest(SetUri,
          SerializeTlv(kCommissionerSessionId, Uint16(SessionId)) \o encoded.payload)
  BY <1>3, <1>4 DEF SetRequest
<1> QED BY <1>3, <1>4, <1>5 DEF encoded

(* What else than the dataset a SET request carries before it is signed.   *)
Others == IF kind = "commissioner" THEN {} ELSE {SessionTlv}

(* What a SET request carries before it is signed: the TLVs of the         *)
(* dataset, and the session id, which in a Commissioner Dataset is a field *)
(* of it.                                                                  *)
LEMMA SetCarries ==
    ASSUME kind \in DOMAIN FieldsOf, Typed(dataset, kind), SetDataset.error = "none"
    PROVE  /\ GoodDataset(Written) /\ DOMAIN Written \subseteq Elements(FieldsOf[kind])
           /\ Apart(Others, Elements(FieldsOf[kind])) /\ OneOfEach(Others)
           /\ \E payload : /\ SetDataset = SignRequest(SetUri, payload)
                           /\ Carries(payload, TlvsIn(Written) \cup Others)
<1> DEFINE session == SerializeTlv(kCommissionerSessionId, Uint16(SessionId))
           encoded == AppendFields(FieldsOf[kind], Write)
           F == Elements(FieldsOf[kind])
<1>1. encoded.error = "none" /\ SetDataset = SignRequest(SetUri, session \o encoded.payload)
  BY Sent
<1> HIDE DEF session, encoded
<1>2. FieldsOf[kind] \in Seq(AllFields)
  BY FieldLists
<1>3. Typed(Write, kind)
  <2>1. CASE kind = "commissioner"
    <3> DEFINE X == DOMAIN dataset \ ReadOnly
    <3>1. Write = [f \in DOMAIN dataset \cap X |-> dataset[f]]
      BY <2>1 DEF Write, Only
    <3>2. /\ DOMAIN Write = DOMAIN dataset \cap X /\ \A f \in DOMAIN Write : Write[f] = dataset[f]
          /\ Write = [f \in DOMAIN Write |-> Write[f]]
      BY <3>1
    <3> QED BY <3>2 DEF Typed
  <2>2. CASE kind # "commissioner"
    BY <2>2 DEF Write
  <2> QED BY <2>1, <2>2
<1>4. GoodDataset(Write) /\ Carries(session \o encoded.payload, {SessionTlv} \cup TlvsIn(Write))
  <2>1. Carries(session, {SessionTlv})
    BY ConstantTlvs DEF session
  <2>2. /\ Write = [f \in DOMAIN Write |-> Write[f]] /\ DOMAIN Write \subseteq Elements(FieldsOf[kind])
        /\ \A f \in DOMAIN Write : Write[f] \in FieldValues(f)
    BY <1>3 DEF Typed
  <2> QED BY <1>1, <1>2, <2>1, <2>2, AppendsFields DEF encoded
<1>5. CASE kind # "commissioner"
  <2>1. Written = Write /\ Others = {SessionTlv} /\ Written = dataset
    BY <1>5 DEF Written, Write, Others
  <2>2. DOMAIN Written \subseteq F
    BY <2>1 DEF Typed
  <2>3. "SessionId" \notin F /\ \A f \in F : f \in AllFields
    <3>1. "SessionId" \notin F
      BY <1>5, FieldNames, FieldLists, SMTT(30)
    <3>2. \A f \in F : f \in AllFields
      BY <1>2, SMT DEF Elements
    <3> QED BY <3>1, <3>2
  <2>4. Apart({SessionTlv}, F)
    <3>1. "SessionId" \in AllFields
      BY FieldNamesAll
    <3> QED BY <2>3, <3>1, ConstantTlvs, FieldTypes DEF Apart
  <2>5. OneOfEach({SessionTlv})
    BY DEF OneOfEach
  <2>6. {SessionTlv} \cup TlvsIn(Write) = TlvsIn(Written) \cup Others
    BY <2>1
  <2> QED BY <1>1, <1>4, <2>1, <2>2, <2>4, <2>5, <2>6
<1>6. CASE kind = "commissioner"
  <2> DEFINE D == (DOMAIN dataset \ {"BorderAgentLocator"}) \cup {"SessionId"}
  <2>1. Written = [f \in D |-> IF f = "SessionId" THEN SessionId ELSE dataset[f]]
    BY <1>6 DEF Written
  <2>2. DOMAIN Written = D /\ Written = [f \in DOMAIN Written |-> Written[f]]
    BY <2>1
  <2>3. Written["SessionId"] = SessionId /\ \A f \in D : f # "SessionId" => Written[f] = dataset[f]
    BY <2>1
  <2>4. DOMAIN Write = DOMAIN dataset \ ReadOnly /\ \A f \in DOMAIN Write : Write[f] = dataset[f]
    BY <1>6 DEF Write, Only
  <2>5. D = DOMAIN Write \cup {"SessionId"} /\ "SessionId" \notin DOMAIN Write
    BY <2>4 DEF ReadOnly
  <2> HIDE DEF D
  <2>6. \A f \in DOMAIN Write : Written[f] = Write[f]
    BY <2>3, <2>4, <2>5
  <2>7. "SessionId" \in AllFields /\ "SessionId" \in F
    BY <1>6, FieldNamesAll, FieldLists, FieldNames
  <2>8. GoodField("SessionId", SessionId) /\ FieldTlv("SessionId", SessionId) = SessionTlv
    <3>1. EncodeField("SessionId", SessionId) = Uint16(SessionId)
      BY DEF EncodeField, Timestamps, Uint16Fields
    <3>2. FieldValues("SessionId") = TwoBytes
      BY DEF FieldValues, Timestamps, Uint16Fields
    <3>3. TlvTypeOf["SessionId"] = kCommissionerSessionId
      BY ConstantTlvs
    <3>4. "SessionId" # "ChannelMask"
      OBVIOUS
    <3> QED BY <3>1, <3>2, <3>3, <3>4, ConstantTlvs DEF GoodField, FieldTlv, SessionTlv
  <2>9. GoodDataset(Written)
    <3>1. DOMAIN Write \subseteq AllFields /\ \A f \in DOMAIN Write : GoodField(f, Write[f])
      BY <1>4 DEF GoodDataset
    <3>2. DOMAIN Written \subseteq AllFields /\ \A f \in DOMAIN Written : GoodField(f, Written[f])
      BY <2>2, <2>3, <2>5, <2>6, <2>7, <2>8, <3>1
    <3> QED BY <2>2, <3>2 DEF GoodDataset
  <2>10. DOMAIN Written \subseteq F
    BY <2>2, <2>5, <2>7, <1>3 DEF Typed
  <2>11. {SessionTlv} \cup TlvsIn(Write) = TlvsIn(Written) \cup Others
    <3>1. TlvsIn(Written) = {FieldTlv(f, Written[f]) : f \in DOMAIN Write \cup {"SessionId"}}
      BY <2>2, <2>5 DEF TlvsIn
    <3>2. \A f \in DOMAIN Write : FieldTlv(f, Written[f]) = FieldTlv(f, Write[f])
      BY <2>6
    <3>3. FieldTlv("SessionId", Written["SessionId"]) = SessionTlv
      BY <2>3, <2>8
    <3>4. TlvsIn(Written) = {FieldTlv(f, Written[f]) : f \in DOMAIN Write} \cup {SessionTlv}
      BY <3>1, <3>3
    <3>5. {FieldTlv(f, Written[f]) : f \in DOMAIN Write} = TlvsIn(Write)
      BY <3>2 DEF TlvsIn
    <3>6. Others = {}
      BY <1>6 DEF Others
    <3> QED BY <3>4, <3>5, <3>6
  <2>12. Apart(Others, F) /\ OneOfEach(Others)
    BY <1>6 DEF Others, Apart, OneOfEach
  <2> QED BY <1>1, <1>4, <2>9, <2>10, <2>11, <2>12
<1> QED BY <1>5, <1>6

(* What a GET request for the fields of flags carries.                     *)
LEMMA GetCarries ==
    ASSUME kind \in DOMAIN FieldsOf, NEW flags,
           kind \in {"active", "pending"} => mode # "disabled", kind = "bbr" => mode = "ccm"
    PROVE  LET types == TlvTypes(FieldsOf[kind], flags)
           IN  \E E : E \subseteq Extra /\ Carries(GetDataset(flags).payload, Asks(types) \cup E)
<1> DEFINE types == TlvTypes(FieldsOf[kind], flags)
<1>1. FieldsOf[kind] \in Seq(AllFields) /\ Len(FieldsOf[kind]) <= 12
  BY FieldLists
<1>2. types \in Seq(Byte) /\ Len(types) <= Len(FieldsOf[kind])
  BY <1>1, TypesAsked
<1>3. Len(types) <= 12
  BY <1>1, <1>2, SMT
<1>4. Carries(GetRequest(types), Asks(types))
  BY <1>2, <1>3, Asked
<1>5. kind \in {"active", "pending", "commissioner", "bbr"}
  BY FieldNames
<1>6. CASE kind \in {"active", "pending"}
  <2>1. \E uri : GetDataset(flags) = SignRequest(uri, GetRequest(types))
    <3>1. CASE kind = "active"
      BY <1>6, <3>1, FieldNames DEF GetDataset, GetRawActiveDataset, GetActiveOperationalDatasetTlvs
    <3>2. CASE kind = "pending"
      BY <1>6, <3>2, FieldNames DEF GetDataset, GetPendingDataset, GetPendingOperationalDatasetTlvs
    <3> QED BY <1>6, <3>1, <3>2
  <2> HIDE DEF types
  <2>2. Carries(GetDataset(flags).payload, Asks(types) \cup Extra)
    BY <1>4, <2>1, SignAppends
  <2> QED BY <2>2 DEF types
<1>7. CASE kind \in {"commissioner", "bbr"}
  <2>1. GetDataset(flags).payload = GetRequest(types)
    <3>1. CASE kind = "commissioner"
      BY <3>1, FieldNames DEF GetDataset, GetCommissionerDataset, GetCommissionerDatasetTlvs, Unsigned
    <3>2. CASE kind = "bbr"
      BY <3>2, FieldNames DEF GetDataset, GetBbrDataset, GetBbrDatasetTlvs, Unsigned
    <3> QED BY <1>7, <3>1, <3>2
  <2> HIDE DEF types
  <2>2. Asks(types) \cup {} = Asks(types) /\ {} \subseteq Extra
    OBVIOUS
  <2> QED BY <1>4, <2>1, <2>2 DEF types
<1> QED BY <1>5, <1>6, <1>7

(* The leader's answer to a GET request carries the fields asked for out   *)
(* of those that were set.                                                 *)
LEMMA AnswerCarries ==
    ASSUME kind \in DOMAIN FieldsOf, Typed(dataset, kind), SetDataset.error = "none",
           NEW flags, flags \subseteq DOMAIN dataset
    PROVE  LET want == IF flags = {} THEN Written ELSE Only(Written, flags)
               answer == LeaderAnswer(SetDataset.payload, GetDataset(flags).payload)
           IN  GoodDataset(want) /\ DOMAIN want \subseteq Elements(FieldsOf[kind])
               /\ Carries(answer, TlvsIn(want))
<1> DEFINE F == Elements(FieldsOf[kind])
           types == TlvTypes(FieldsOf[kind], flags)
           want == IF flags = {} THEN Written ELSE Only(Written, flags)
           answer == LeaderAnswer(SetDataset.payload, GetDataset(flags).payload)
           O == Others \cup Extra
           R == TlvsIn(Written) \cup O
<1>1. /\ GoodDataset(Written) /\ DOMAIN Written \subseteq F
      /\ Apart(Others, F) /\ OneOfEach(Others)
  BY SetCarries
<1>2. PICK payload : SetDataset = SignRequest(SetUri, payload) /\ Carries(payload, TlvsIn(Written) \cup Others)
  BY SetCarries
<1>3. FieldsOf[kind] \in Seq(AllFields)
  BY FieldLists
<1>4. F \subseteq AllFields
  BY <1>3, SMT DEF Elements
<1>5. Carries(SetDataset.payload, R)
  <2>1. Carries(SetDataset.payload, (TlvsIn(Written) \cup Others) \cup Extra)
    BY <1>2, SignAppends
  <2>2. (TlvsIn(Written) \cup Others) \cup Extra = R
    OBVIOUS
  <2> QED BY <2>1, <2>2
<1>6. Apart(O, F)
  BY <1>1, <1>4, ExtraApart DEF Apart
<1>7. OneOfEach(O)
  <2>1. \A p \in Others : p[1] = kCommissionerSessionId
    BY ConstantTlvs DEF Others
  <2>2. kCommissionerSessionId \notin {kCommissionerToken, kCommissionerSignature}
    BY SMT DEF kCommissionerSessionId, kCommissionerToken, kCommissionerSignature
  <2>3. \A p \in Extra : p[1] \in {kCommissionerToken, kCommissionerSignature}
    BY ExtraApart
  <2>4. OneOfEach(Extra)
    BY ExtraApart
  <2>5. \A p \in Others, q \in Extra : p[1] # q[1]
    BY <2>1, <2>2, <2>3
  <2> QED BY <1>1, <2>4, <2>5 DEF OneOfEach
<1> HIDE DEF O
<1>8. OneOfEach(R)
  <2>1. Apart(O, DOMAIN Written)
    BY <1>1, <1>6 DEF Apart
  <2> QED BY <1>1, <1>7, <2>1, OneOfEachIn
<1>9. PICK held : SetOf(held, R) /\ GetTlvSet(SetDataset.payload) = [error |-> "none", set |-> held]
  BY <1>5, <1>8, CarriesRead
<1>10. /\ kind \in {"active", "pending"} => mode # "disabled"
       /\ kind = "bbr" => mode = "ccm"
  BY Sent
<1>11. PICK E : E \subseteq Extra /\ Carries(GetDataset(flags).payload, Asks(types) \cup E)
  BY <1>10, GetCarries
<1>12. \A p \in E : p[1] # kGet
  <2>1. kGet \notin {kCommissionerToken, kCommissionerSignature}
    BY SMT DEF kGet, kCommissionerToken, kCommissionerSignature
  <2> QED BY <1>11, <2>1, ExtraApart
<1>13. \A p \in Asks(types) : p = <<kGet, types>> /\ p[1] = kGet /\ p[2] = types
  <2> HIDE DEF types
  <2>1. <<kGet, types>>[1] = kGet /\ <<kGet, types>>[2] = types
    OBVIOUS
  <2> QED BY <2>1 DEF Asks
<1>14. OneOfEach(Asks(types) \cup E)
  <2>1. OneOfEach(E)
    BY <1>11, ExtraApart DEF OneOfEach
  <2> HIDE DEF types
  <2> QED BY <1>12, <1>13, <2>1 DEF OneOfEach
<1>15. PICK asked : /\ SetOf(asked, Asks(types) \cup E)
                    /\ GetTlvSet(GetDataset(flags).payload) = [error |-> "none", set |-> asked]
  BY <1>11, <1>14, CarriesRead
<1>16. /\ GetTlvSet(SetDataset.payload).set = held
       /\ GetTlvSet(GetDataset(flags).payload).set = asked
  BY <1>9, <1>15, SMT
<1>17. Elements(types) = {TlvTypeOf[f] : f \in F \cap flags}
  BY <1>3, TypesAsked
<1>18. flags \subseteq F
  BY DEF Typed
<1> HIDE DEF types, R
<1> DEFINE X == IF kGet \in DOMAIN asked THEN Elements(asked[kGet]) ELSE DOMAIN held
           T == {TlvTypeOf[f] : f \in F} \cap DOMAIN held \cap X
<1>19. answer = TlvsOf(held, T)
  BY <1>16 DEF LeaderAnswer
<1>20. IF flags = {} THEN X = DOMAIN held ELSE X = {TlvTypeOf[f] : f \in flags}
  <2>1. DOMAIN asked = {p[1] : p \in Asks(types) \cup E} /\ \A p \in Asks(types) \cup E : asked[p[1]] = p[2]
    BY <1>15 DEF SetOf
  <2>2. F \cap flags = flags
    BY <1>18
  <2>3. CASE flags = {}
    <3>1. Elements(types) = {}
      BY <1>17, <2>2, <2>3
    <3>2. types = <<>>
      <4>1. types \in Seq(Byte)
        BY <1>3, TypesAsked DEF types
      <4>2. ASSUME NEW s \in Seq(Byte), Elements(s) = {} PROVE s = <<>>
        <5>1. s # <<>> => s[1] \in Elements(s)
          BY SMT DEF Elements
        <5> QED BY <4>2, <5>1
      <4> QED BY <3>1, <4>1, <4>2
    <3>3. Asks(types) = {}
      BY <3>2 DEF Asks
    <3>4. kGet \notin DOMAIN asked
      BY <1>12, <2>1, <3>3
    <3> QED BY <2>3, <3>4
  <2>4. CASE flags # {}
    <3>1. Elements(types) # {}
      BY <1>17, <2>2, <2>4
    <3>2. types # <<>>
      <4>1. DOMAIN <<>> = {}
        BY SMT
      <4> QED BY <3>1, <4>1 DEF Elements
    <3>3. <<kGet, types>> \in Asks(types)
      BY <3>2 DEF Asks
    <3>4. kGet \in DOMAIN asked /\ asked[kGet] = types
      BY <1>13, <2>1, <3>3
    <3> QED BY <2>4, <3>4, <1>17, <2>2
  <2> QED BY <2>3, <2>4
<1> HIDE DEF X
<1>21. T \subseteq DOMAIN held
  OBVIOUS
<1>22. Carries(TlvsOf(held, T), TlvsIn(Only(Written, FieldsWith(T))) \cup OfTypes(O, T))
  <2> HIDE DEF T
  <2>1. /\ GoodDataset(Written) /\ Carries(SetDataset.payload, TlvsIn(Written) \cup O)
        /\ SetOf(held, TlvsIn(Written) \cup O)
    BY <1>1, <1>5, <1>9 DEF R
  <2> QED BY <1>21, <2>1, TlvsOfRead
<1>23. OfTypes(O, T) = {}
  BY <1>6 DEF Apart, OfTypes
<1>24. Only(Written, FieldsWith(T)) = want
  <2>1. \A f \in DOMAIN Written : TlvTypeOf[f] \in DOMAIN held
    <3>1. \A f \in DOMAIN Written : FieldTlv(f, Written[f])[1] = TlvTypeOf[f]
      BY DEF FieldTlv
    <3>2. DOMAIN held = {p[1] : p \in R}
      BY <1>9 DEF SetOf
    <3> QED BY <3>1, <3>2 DEF R, TlvsIn
  <2>2. \A f \in DOMAIN Written : f \in FieldsWith(T) <=> TlvTypeOf[f] \in X
    BY <1>1, <1>4, <2>1 DEF FieldsWith
  <2> HIDE DEF T
  <2>3. CASE flags = {}
    <3>1. DOMAIN Written \cap FieldsWith(T) = DOMAIN Written
      BY <1>20, <2>1, <2>2, <2>3
    <3>2. Written = [f \in DOMAIN Written |-> Written[f]]
      BY <1>1 DEF GoodDataset
    <3>3. Only(Written, FieldsWith(T)) = [f \in DOMAIN Written |-> Written[f]]
      BY <3>1 DEF Only
    <3> QED BY <2>3, <3>2, <3>3
  <2>4. CASE flags # {}
    <3>1. \A f \in DOMAIN Written : TlvTypeOf[f] \in X <=> f \in flags
      <4>1. X = {TlvTypeOf[f] : f \in flags}
        BY <1>20, <2>4
      <4>2. \A f \in DOMAIN Written : f \in AllFields
        BY <1>1, <1>4
      <4>3. \A f \in flags : f \in AllFields
        BY <1>18, <1>4
      <4> QED BY <4>1, <4>2, <4>3, FieldTypes
    <3>2. DOMAIN Written \cap FieldsWith(T) = DOMAIN Written \cap flags
      BY <2>2, <3>1
    <3>3. Only(Written, FieldsWith(T)) = Only(Written, flags)
      BY <3>2 DEF Only
    <3> QED BY <2>4, <3>3
  <2> QED BY <2>3, <2>4
<1> HIDE DEF T
<1>25. GoodDataset(Only(Written, FieldsWith(T))) /\ DOMAIN Only(Written, FieldsWith(T)) \subseteq DOMAIN Written
  BY <1>1, OnlyGood
<1> HIDE DEF want, answer
<1>26. Carries(answer, TlvsIn(want) \cup {})
  BY <1>19, <1>22, <1>23, <1>24
<1>27. TlvsIn(want) \cup {} = TlvsIn(want)
  OBVIOUS
<1> QED BY <1>1, <1>24, <1>25, <1>26, <1>27 DEF want, answer

(* A dataset of values of the fields' types survives SET and GET.          *)
LEMMA SurvivesFrom == DataInv => DatasetSurvives
<1> SUFFICES ASSUME DataInv, SetDataset.error = "none", NEW flags \in SUBSET DOMAIN dataset
             PROVE  LET got == GetDatasetDone(kind,
                                   LeaderAnswer(SetDataset.payload, GetDataset(flags).payload))
                        want == IF flags = {} THEN Written ELSE Only(Written, flags)
                    IN  IF kind = "pending" /\ flags # {} /\ "DelayTimer" \notin flags
                        THEN got.error = "bad"
                        ELSE got = [error |-> "none", dataset |-> want]
  BY DEF DatasetSurvives, Written
<1> DEFINE answer == LeaderAnswer(SetDataset.payload, GetDataset(flags).payload)
           want == IF flags = {} THEN Written ELSE Only(Written, flags)
           good == [error |-> "none", dataset |-> want]
<1>1. kind \in DOMAIN FieldsOf /\ Typed(dataset, kind) /\ flags \subseteq DOMAIN dataset
  BY DEF DataInv
<1>2. /\ GoodDataset(want) /\ DOMAIN want \subseteq Elements(FieldsOf[kind]) /\ Carries(answer, TlvsIn(want))
  BY <1>1, AnswerCarries
<1>3. DOMAIN want = IF flags = {} THEN DOMAIN Written ELSE DOMAIN Written \cap flags
  BY DEF Only
<1> HIDE DEF answer, want
<1>4. /\ Apart({}, Elements(FieldsOf[kind])) /\ OneOfEach({}) /\ Apart({}, DOMAIN want)
      /\ TlvsIn(want) \cup {} = TlvsIn(want)
  BY DEF Apart, OneOfEach
<1>5. OneOfEach(TlvsIn(want) \cup {})
  BY <1>2, <1>4, OneOfEachIn
<1>6. IF kind = "pending" THEN DecodePendingOperationalDataset(answer) = good
      ELSE GetDatasetDone(kind, answer) = good
  <2>1. Carries(answer, TlvsIn(want) \cup {})
    BY <1>2, <1>4
  <2> QED BY <1>1, <1>2, <1>4, <1>5, <2>1, DatasetDecoded
<1>7. CASE kind # "pending"
  BY <1>6, <1>7 DEF answer, want
<1>8. CASE kind = "pending"
  <2>1. GetDatasetDone(kind, answer) = NeedsDelayTimer(good)
    <3>1. GetDatasetDone(kind, answer) = NeedsDelayTimer(DecodePendingOperationalDataset(answer))
      BY <1>8 DEF GetDatasetDone, GetPendingDatasetDone
    <3> QED BY <1>6, <1>8, <3>1
  <2>2. good.dataset = want
    OBVIOUS
  <2>3. Written = dataset
    BY <1>8 DEF Written
  <2>4. "DelayTimer" \in DOMAIN dataset
    BY <1>1, <1>8, Sent
  <2> HIDE DEF good
  <2>5. CASE flags # {} /\ "DelayTimer" \notin flags
    <3>1. DOMAIN want # {} /\ "DelayTimer" \notin DOMAIN want
      BY <1>1, <1>3, <2>3, <2>5
    <3>2. NeedsDelayTimer(good) = [error |-> "bad", dataset |-> EmptyDataset]
      BY <2>2, <3>1 DEF NeedsDelayTimer
    <3>3. GetDatasetDone(kind, answer).error = "bad"
      BY <2>1, <3>2, SMT
    <3> QED BY <1>8, <2>5, <3>3 DEF answer
  <2>6. CASE ~(flags # {} /\ "DelayTimer" \notin flags)
    <3>1. "DelayTimer" \in DOMAIN want
      BY <1>3, <2>3, <2>4, <2>6
    <3>2. NeedsDelayTimer(good) = good
      BY <2>2, <3>1 DEF NeedsDelayTimer
    <3> QED BY <2>1, <2>6, <3>2 DEF answer, want, good
  <2> QED BY <2>5, <2>6
<1> QED BY <1>7, <1>8

(* What is set is what is read back, whatever dataset of whatever kind the *)
(* user puts together: when SetActiveDataset, SetPendingDataset,           *)
(* SetCommissionerDataset or SetBbrDataset is not refused, the GET request *)
(* for any of its fields, answered by a leader that keeps what it was      *)
(* sent, returns exactly these.  A pending dataset without its delay timer *)
(* is refused.                                                             *)
THEOREM DatasetsSurvive == DataSpec => []DatasetSurvives
<1>1. DataInit => DataInv
  BY DataInvInit
<1>2. DataInv /\ [DataNext]_dataVars => DataInv'
  BY DataInvNext
<1>3. DataInv => DatasetSurvives
  BY SurvivesFrom
<1> QED BY <1>1, <1>2, <1>3, PTL DEF DataSpec

-----------------------------------------------------------------------------
(* What is signed is verified.                                             *)

(* A token and a signature can be added to a TLV of another type.          *)
LEMMA CarriedSignable ==
    ASSUME NEW t, t \notin {kCommissionerToken, kCommissionerSignature}, NEW v
    PROVE  Signable({<<t, v>>})
<1>1. <<t, v>>[1] = t
  OBVIOUS
<1>2. \A p \in {<<t, v>>} : p = <<t, v>> /\ p[1] = t
  BY <1>1
<1> QED BY <1>2 DEF Signable, OneOfEach

(* GetRawActiveDataset and GetPendingDataset: the signature verifies.      *)
LEMMA GetFits ==
    ASSUME mode = "ccm", NEW k \in DOMAIN FieldsOf, NEW flags, NEW uri
    PROVE  ValidateSignature(SignRequest(uri, GetRequest(TlvTypes(FieldsOf[k], flags))))
<1> DEFINE types == TlvTypes(FieldsOf[k], flags)
<1>1. FieldsOf[k] \in Seq(AllFields) /\ Len(FieldsOf[k]) <= 12
  BY FieldLists
<1>2. types \in Seq(Byte) /\ Len(types) <= Len(FieldsOf[k])
  BY <1>1, TypesAsked
<1>3. Len(types) <= 12
  BY <1>1, <1>2, SMT
<1> HIDE DEF types
<1>4. Carries(GetRequest(types), Asks(types))
  BY <1>2, <1>3, Asked
<1>5. Signable(Asks(types))
  <2>1. kGet \notin {kCommissionerToken, kCommissionerSignature}
    BY SMT DEF kGet, kCommissionerToken, kCommissionerSignature
  <2>2. Signable({<<kGet, types>>})
    BY <2>1, CarriedSignable
  <2>3. Signable({})
    BY DEF Signable, OneOfEach
  <2> QED BY <2>2, <2>3 DEF Asks
<1> QED BY <1>4, <1>5, SignatureMatches DEF types

(* A command, of the session id and what goes with it: the signature       *)
(* verifies.                                                               *)
LEMMA CommandFits ==
    ASSUME mode = "ccm", NEW uri, NEW encoded, NEW R, encoded.error = "none",
           Carries(SerializeTlv(kCommissionerSessionId, Uint16(SessionId)) \o encoded.payload, R),
           Signable(R)
    PROVE  ValidateSignature(SetRequest(uri, encoded))
<1>1. SetRequest(uri, encoded) =
          SignRequest(uri, SerializeTlv(kCommissionerSessionId, Uint16(SessionId)) \o encoded.payload)
  BY DEF SetRequest
<1>2. ValidateSignature(SignRequest(uri,
          SerializeTlv(kCommissionerSessionId, Uint16(SessionId)) \o encoded.payload))
  BY SignatureMatches
<1> QED BY <1>1, <1>2

(* The session id with which a command begins.                             *)
LEMMA SessionFirst ==
    /\ SerializeTlv(kCommissionerSessionId, Uint16(SessionId)) \in Seq(Byte)
    /\ Signable({SessionTlv}) /\ SessionTlv[1] = kCommissionerSessionId
    /\ kCommissionerSessionId \notin {kCommissionerToken, kCommissionerSignature}
<1>1. kCommissionerSessionId \notin {kCommissionerToken, kCommissionerSignature}
  BY SMT DEF kCommissionerSessionId, kCommissionerToken, kCommissionerSignature
<1>2. Signable({SessionTlv})
  BY <1>1, CarriedSignable DEF SessionTlv
<1>3. SerializeTlv(kCommissionerSessionId, Uint16(SessionId)) \in Seq(Byte)
  BY ConstantTlvs, CarriesValid
<1> QED BY <1>1, <1>2, <1>3, ConstantTlvs

(* SendProxyMessage to reenroll and domain-reset: the signature verifies.  *)
LEMMA ProxyFits ==
    ASSUME mode = "ccm", NEW uri PROVE ValidateSignature(SendProxyMessage(uri))
<1> DEFINE encoded == [error |-> "none", payload |-> <<>>]
           session == SerializeTlv(kCommissionerSessionId, Uint16(SessionId))
<1>1. SendProxyMessage(uri) = SetRequest(uri, encoded)
  BY DEF SendProxyMessage
<1>2. encoded.error = "none" /\ encoded.payload = <<>>
  OBVIOUS
<1>3. session \o <<>> = session
  <2>1. session \in Seq(Byte)
    BY SessionFirst
  <2> HIDE DEF session
  <2> QED BY <2>1, SMT
<1> HIDE DEF encoded
<1>4. Carries(session \o encoded.payload, {SessionTlv})
  BY <1>2, <1>3, ConstantTlvs
<1> QED BY <1>1, <1>2, <1>4, SessionFirst, CommandFits

(* CommandMigrate: the signature verifies.                                 *)
LEMMA MigrateFits ==
    ASSUME mode = "ccm", NEW name \in Seq(Byte), CommandMigrate(name).error = "none"
    PROVE  ValidateSignature(CommandMigrate(name))
<1> DEFINE encoded == [error |-> "none", payload |-> SerializeTlv(kNetworkName, name)]
           session == SerializeTlv(kCommissionerSessionId, Uint16(SessionId))
           t == <<kNetworkName, name>>
<1>1. Refused.error # "none"
  BY DEF Refused
<1>2. ~(Len(name) > 16) /\ CommandMigrate(name) = SetRequest("c/nm", encoded)
  BY <1>1 DEF CommandMigrate
<1>3. encoded.error = "none" /\ encoded.payload = SerializeTlv(kNetworkName, name)
  OBVIOUS
<1>4. IsValid(kNetworkName, Len(name))
  <2>1. Len(name) \in Nat /\ Len(name) <= 16
    BY <1>2, SMT
  <2>2. Len(name) < TlvLimit
    BY <2>1, SMT DEF TlvLimit
  <2> QED BY <2>1, <2>2 DEF IsValid, kNetworkName
<1>5. kNetworkName \in Byte /\ kNetworkName # kDomainPrefix /\ kNetworkName # kCommissionerSessionId
      /\ kNetworkName \notin {kCommissionerToken, kCommissionerSignature}
  BY SMT DEF kNetworkName, kDomainPrefix, kCommissionerSessionId, kCommissionerToken,
         kCommissionerSignature, Byte
<1>6. t[1] = kNetworkName /\ t[2] = name
  OBVIOUS
<1>7. Fits(t)
  BY <1>4, <1>5, ValidFits
<1> HIDE DEF encoded, session, t
<1>8. Carries(session \o encoded.payload, {SessionTlv} \cup {t})
  BY <1>3, <1>4, <1>6, <1>7, ConstantTlvs, CarriesTlv DEF session
<1>9. Signable({SessionTlv} \cup {t})
  BY <1>5, <1>6, SessionFirst DEF Signable, OneOfEach
<1> QED BY <1>2, <1>3, <1>8, <1>9, CommandFits DEF session

(* The lengths of the PBBR URI, the retrieval timer and the multicast      *)
(* address.                                                                *)
LEMMA SomeBytes ==
    /\ PbbrUri \in Seq(Byte) /\ Len(PbbrUri) = 40
    /\ MaxRetrievalTimer \in Seq(Byte) /\ Len(MaxRetrievalTimer) = 4
    /\ SubSeq(PbbrUri, 1, 16) \in Seq(Byte) /\ Len(SubSeq(PbbrUri, 1, 16)) = 16
<1>1. 0 \in Byte /\ 60 \in Byte /\ 99 \in Byte
  BY SMT DEF Byte
<1>2. MaxRetrievalTimer \in Seq(Byte) /\ Len(MaxRetrievalTimer) = 4
  BY <1>1, SMT DEF MaxRetrievalTimer
<1>3. PbbrUri \in Seq(Byte) /\ Len(PbbrUri) = 40
  <2> DEFINE n == 40
  <2>1. n \in Nat
    OBVIOUS
  <2>2. PbbrUri = [i \in 1..n |-> 99]
    BY DEF PbbrUri
  <2> HIDE DEF n
  <2>3. PbbrUri = [i \in 1..n |-> PbbrUri[i]] /\ \A i \in 1..n : PbbrUri[i] \in Byte
    BY <1>1, <2>2
  <2>4. PbbrUri \in Seq(Byte) /\ Len(PbbrUri) = n
    BY <2>1, <2>3, SeqFun
  <2> QED BY <2>4 DEF n
<1>4. SubSeq(PbbrUri, 1, 16) \in Seq(Byte) /\ Len(SubSeq(PbbrUri, 1, 16)) = 16
  <2>1. ASSUME NEW X, NEW s \in Seq(X), Len(s) >= 16
        PROVE  SubSeq(s, 1, 16) \in Seq(X) /\ Len(SubSeq(s, 1, 16)) = 16
    BY <2>1, SMT
  <2>2. Len(PbbrUri) >= 16
    BY <1>3, SMT
  <2> QED BY <1>3, <2>1, <2>2
<1> QED BY <1>2, <1>3, <1>4

(* RegisterMulticastListener: the signature verifies, and the timeout and  *)
(* the addresses, whose types IsValid takes for others of other lengths,   *)
(* are not read back on either side.                                       *)
LEMMA RegisterFits ==
    ASSUME mode = "ccm"
    PROVE  LET request == RegisterMulticastListener(<<SubSeq(PbbrUri, 1, 16)>>, MaxRetrievalTimer)
           IN  request.error = "none" => ValidateSignature(request)
<1> DEFINE address == SubSeq(PbbrUri, 1, 16)
           request == RegisterMulticastListener(<<address>>, MaxRetrievalTimer)
           a == SerializeTlv(kThreadCommissionerSessionId, Uint16(SessionId))
           b == SerializeTlv(kThreadTimeout, MaxRetrievalTimer)
           c == SerializeTlv(kThreadIpv6Addresses, Concat(<<address>>))
           t == <<kThreadCommissionerSessionId, Uint16(SessionId)>>
           u == <<kThreadTimeout, MaxRetrievalTimer>>
           v == <<kThreadIpv6Addresses, address>>
<1> SUFFICES ASSUME request.error = "none" PROVE ValidateSignature(request)
  OBVIOUS
<1>1. Refused.error # "none"
  BY DEF Refused
<1>2. request = SignRequest("n/mr", a \o b \o c)
  BY <1>1 DEF RegisterMulticastListener
<1>3. Concat(<<address>>) = address
  <2>1. address \in Seq(Byte)
    BY SomeBytes
  <2> HIDE DEF address
  <2>2. <<>> \in Seq(Seq(Byte)) /\ Append(<<>>, address) = <<address>> /\ Len(<<>>) = 0
    BY <2>1, SMT
  <2>3. Concat(<<>>) = <<>>
    <3>1. <<>> \in Seq(Seq(Byte))
      BY SMT
    <3>2. Concat(<<>>) \in Seq(Byte) /\ \E off : Offsets(off, <<>>)
      BY <3>1, ConcatOffsets
    <3>3. Len(Concat(<<>>)) = 0
      BY <2>2, <3>2 DEF Offsets
    <3> QED BY <3>2, <3>3, SMT
  <2>4. Concat(Append(<<>>, address)) = Concat(<<>>) \o address
    BY <2>1, <2>2, ConcatSnoc
  <2>5. <<>> \o address = address
    BY <2>1, SMT
  <2> QED BY <2>2, <2>3, <2>4, <2>5
<1>4. /\ t[1] = kThreadCommissionerSessionId /\ t[2] = Uint16(SessionId)
      /\ u[1] = kThreadTimeout /\ u[2] = MaxRetrievalTimer
      /\ v[1] = kThreadIpv6Addresses /\ v[2] = address
  OBVIOUS
<1>5. /\ Uint16(SessionId) \in Seq(Byte) /\ Len(Uint16(SessionId)) = 2
      /\ MaxRetrievalTimer \in Seq(Byte) /\ Len(MaxRetrievalTimer) = 4
      /\ address \in Seq(Byte) /\ Len(address) = 16
  BY ConstantTlvs, WordEncoded, SomeBytes, SMT
<1>6. 2 < TlvLimit /\ 4 < TlvLimit /\ 16 < TlvLimit
  BY SMT DEF TlvLimit
<1>7. /\ kThreadCommissionerSessionId \in Byte /\ kThreadTimeout \in Byte /\ kThreadIpv6Addresses \in Byte
      /\ kThreadCommissionerSessionId # kDomainPrefix
      /\ kThreadCommissionerSessionId \notin {kCommissionerToken, kCommissionerSignature}
  BY SMT DEF kThreadCommissionerSessionId, kThreadTimeout, kThreadIpv6Addresses, kDomainPrefix,
         kCommissionerToken, kCommissionerSignature, Byte
<1>8. /\ IsValid(kThreadCommissionerSessionId, 2) /\ ~IsValid(kThreadTimeout, 4)
      /\ ~IsValid(kThreadIpv6Addresses, 16)
  BY <1>6, SMT DEF IsValid, kThreadCommissionerSessionId, kThreadTimeout, kThreadIpv6Addresses
<1> HIDE DEF address, a, b, c, t, u, v
<1>9. Carries(a, {t})
  BY <1>5, <1>7, <1>8, CarriesOne DEF a, t
<1>10. Fits(u) /\ Fits(v)
  <2>1. u \in Byte \X Seq(Byte) /\ v \in Byte \X Seq(Byte)
    BY <1>5, <1>7 DEF u, v
  <2>2. Len(u[2]) < TlvLimit /\ Len(v[2]) < TlvLimit /\ Len(u[2]) < kEscapeLength /\ Len(v[2]) < kEscapeLength
    BY <1>4, <1>5, <1>6, SMT DEF kEscapeLength
  <2> QED BY <2>1, <2>2 DEF Fits
<1>11. ~IsValid(u[1], Len(u[2])) /\ ~IsValid(v[1], Len(v[2]))
  BY <1>4, <1>5, <1>8
<1>12. Carries(a \o SerializeTlv(u[1], u[2]), {t})
  BY <1>9, <1>10, <1>11, CarriesTlv
<1>13. Carries(a \o SerializeTlv(u[1], u[2]) \o SerializeTlv(v[1], v[2]), {t})
  BY <1>10, <1>11, <1>12, CarriesTlv
<1>14. b = SerializeTlv(u[1], u[2]) /\ c = SerializeTlv(v[1], v[2])
  BY <1>3, <1>4 DEF b, c
<1>15. Carries(a \o b \o c, {t})
  BY <1>13, <1>14
<1>16. Signable({t})
  BY <1>7, CarriedSignable DEF t
<1>17. ValidateSignature(SignRequest("n/mr", a \o b \o c))
  BY <1>15, <1>16, SignatureMatches
<1> QED BY <1>2, <1>17

(* A token and a signature can be added to the TLVs of a dataset.          *)
LEMMA DatasetSignable ==
    ASSUME NEW d, GoodDataset(d), NEW O, Signable(O), Apart(O, DOMAIN d)
    PROVE  Signable(TlvsIn(d) \cup O)
<1>1. OneOfEach(TlvsIn(d) \cup O)
  BY OneOfEachIn DEF Signable
<1>2. ASSUME NEW p \in TlvsIn(d) PROVE p[1] \notin {kCommissionerToken, kCommissionerSignature}
  <2>1. PICK f \in DOMAIN d : p = FieldTlv(f, d[f])
    BY DEF TlvsIn
  <2>2. FieldTlv(f, d[f])[1] = TlvTypeOf[f]
    BY DEF FieldTlv
  <2>3. f \in AllFields
    BY DEF GoodDataset
  <2>4. TlvTypeOf[f] \notin NoFieldTypes
    BY <2>3, FieldTypes
  <2> QED BY <2>1, <2>2, <2>4 DEF NoFieldTypes
<1> QED BY <1>1, <1>2 DEF Signable

(* SetSecurePendingDataset: the signature verifies, with the dissemination *)
(* TLV before the dataset.                                                 *)
LEMMA SecureFits ==
    ASSUME DataInv, kind = "pending", mode = "ccm", SetSecurePendingDataset(dataset).error = "none"
    PROVE  ValidateSignature(SetSecurePendingDataset(dataset))
<1> DEFINE encoded == EncodePendingOperationalDataset(dataset)
           timestamp == IF "PendingTimestamp" \in DOMAIN dataset THEN dataset["PendingTimestamp"]
                        ELSE CurrentTime
           value == EncodeTimestamp(timestamp) \o MaxRetrievalTimer \o PbbrUri
           a == SerializeTlv(kSecureDissemination, value)
           session == SerializeTlv(kCommissionerSessionId, Uint16(SessionId))
           t == <<kSecureDissemination, value>>
           e == [encoded EXCEPT !.payload = a \o @]
<1>1. Refused.error # "none"
  BY DEF Refused
<1>2. SetSecurePendingDataset(dataset) = SetRequest("c/sp", e)
  BY <1>1 DEF SetSecurePendingDataset
<1>3. e.error = "none"
  <2> HIDE DEF e
  <2> QED BY <1>1, <1>2 DEF SetRequest
<1>4. /\ FieldsOf["pending"] = PendingFields /\ PendingFields \in Seq(AllFields) /\ "pending" \in DOMAIN FieldsOf
      /\ Typed(dataset, "pending")
  <2>1. FieldsOf["pending"] = PendingFields /\ "pending" \in DOMAIN FieldsOf
    BY FieldNames
  <2>2. PendingFields \in Seq(AllFields)
    BY <2>1, FieldLists
  <2> QED BY <2>1, <2>2 DEF DataInv
<1>5. encoded = AppendFields(PendingFields, dataset)
  BY DEF EncodePendingOperationalDataset
<1>6. e.error = encoded.error /\ e.payload = a \o encoded.payload
  <2>1. encoded = [error |-> encoded.error, payload |-> encoded.payload]
    BY <1>5 DEF AppendFields
  <2> HIDE DEF encoded, a
  <2>2. ASSUME NEW x, NEW y, NEW q, NEW z, q = [error |-> x, payload |-> y]
        PROVE  [q EXCEPT !.payload = z \o @].error = x /\ [q EXCEPT !.payload = z \o @].payload = z \o y
    BY <2>2
  <2> QED BY <2>1, <2>2
<1> HIDE DEF e, encoded
<1>7. value \in Seq(Byte) /\ Len(value) = 52
  <2>1. timestamp \in FieldValues("PendingTimestamp")
    <3>1. "PendingTimestamp" \in Timestamps
      BY DEF Timestamps
    <3>2. "PendingTimestamp" \in DOMAIN dataset => dataset["PendingTimestamp"] \in FieldValues("PendingTimestamp")
      BY <1>4 DEF Typed
    <3> QED BY <3>1, <3>2, DatasetAssumption
  <2> HIDE DEF timestamp
  <2>2. timestamp \in [seconds : {s \in Seq(Byte) : Len(s) = 6}, ticks : Ticks, u : {0, 1}]
    <3>1. ASSUME NEW f \in Timestamps, NEW v \in FieldValues(f)
          PROVE  v \in [seconds : {s \in Seq(Byte) : Len(s) = 6}, ticks : Ticks, u : {0, 1}]
      BY DEF FieldValues, Timestamps, Uint16Fields
    <3>2. "PendingTimestamp" \in Timestamps
      BY DEF Timestamps
    <3> QED BY <2>1, <3>1, <3>2
  <2> DEFINE x == EncodeTimestamp(timestamp)
  <2>3. x \in Seq(Byte) /\ Len(x) = 8
    BY <2>2, TimestampEncoded
  <2>4. ASSUME NEW p \in Seq(Byte), NEW q \in Seq(Byte)
        PROVE  p \o q \in Seq(Byte) /\ Len(p \o q) = Len(p) + Len(q)
    BY SMT
  <2> HIDE DEF x
  <2> DEFINE y == x \o MaxRetrievalTimer
  <2>5. y \in Seq(Byte) /\ Len(y) = 12
    <3>1. y \in Seq(Byte) /\ Len(y) = Len(x) + Len(MaxRetrievalTimer)
      BY <2>3, <2>4, SomeBytes
    <3>2. Len(x) = 8 /\ Len(MaxRetrievalTimer) = 4
      BY <2>3, SomeBytes
    <3> HIDE DEF y
    <3> QED BY <3>1, <3>2, SMT
  <2> HIDE DEF y
  <2>6. y \o PbbrUri \in Seq(Byte) /\ Len(y \o PbbrUri) = 52
    <3>1. y \o PbbrUri \in Seq(Byte) /\ Len(y \o PbbrUri) = Len(y) + Len(PbbrUri)
      BY <2>5, <2>4, SomeBytes
    <3>2. Len(y) = 12 /\ Len(PbbrUri) = 40
      BY <2>5, SomeBytes
    <3> QED BY <3>1, <3>2, SMT
  <2>7. value = y \o PbbrUri
    BY DEF x, y
  <2> HIDE DEF value
  <2> QED BY <2>6, <2>7
<1> HIDE DEF value
<1>8. IsValid(kSecureDissemination, Len(value))
  <2>1. 52 < TlvLimit
    BY SMT DEF TlvLimit
  <2> QED BY <1>7, <2>1, SMT DEF IsValid, kSecureDissemination, kEscapeLength
<1>9. /\ kSecureDissemination \in Byte /\ kSecureDissemination # kDomainPrefix
      /\ kSecureDissemination # kCommissionerSessionId
      /\ kSecureDissemination \notin {kCommissionerToken, kCommissionerSignature}
  BY SMT DEF kSecureDissemination, kDomainPrefix, kCommissionerSessionId, kCommissionerToken,
         kCommissionerSignature, Byte
<1>10. t[1] = kSecureDissemination /\ t[2] = value
  OBVIOUS
<1>11. Fits(t)
  BY <1>7, <1>8, <1>9, ValidFits
<1> HIDE DEF t, a, session
<1>12. Carries(session \o a, {SessionTlv} \cup {t}) /\ a \in Seq(Byte) /\ session \in Seq(Byte)
  <2>1. Carries(session, {SessionTlv})
    BY ConstantTlvs DEF session
  <2>2. a = SerializeTlv(t[1], t[2])
    BY <1>10 DEF a
  <2>3. Carries(session \o a, {SessionTlv} \cup {t})
    BY <1>8, <1>10, <1>11, <2>1, <2>2, CarriesTlv
  <2>4. a \in Seq(Byte)
    BY <1>11, <2>2, Serialized
  <2> QED BY <2>3, <2>4, SessionFirst DEF session
<1>13. /\ GoodDataset(dataset) /\ encoded.payload \in Seq(Byte)
       /\ Carries((session \o a) \o encoded.payload, ({SessionTlv} \cup {t}) \cup TlvsIn(dataset))
  <2>1. /\ dataset = [f \in DOMAIN dataset |-> dataset[f]] /\ DOMAIN dataset \subseteq Elements(PendingFields)
        /\ \A f \in DOMAIN dataset : dataset[f] \in FieldValues(f)
    BY <1>4 DEF Typed
  <2>2. AppendFields(PendingFields, dataset).error = "none"
    BY <1>3, <1>5, <1>6
  <2> QED BY <1>4, <1>5, <1>12, <2>1, <2>2, AppendsFields
<1>14. session \o e.payload = (session \o a) \o encoded.payload
  <2>1. Associates(Byte)
    BY ConcatAssoc
  <2>2. (session \o a) \o encoded.payload = session \o (a \o encoded.payload)
    BY <1>12, <1>13, <2>1 DEF Associates
  <2> QED BY <1>6, <2>2
<1>15. Signable(TlvsIn(dataset) \cup ({SessionTlv} \cup {t}))
  <2>1. Signable({SessionTlv} \cup {t})
    BY <1>9, <1>10, SessionFirst DEF Signable, OneOfEach
  <2>2. Apart({SessionTlv} \cup {t}, DOMAIN dataset)
    <3>1. "SessionId" \notin DOMAIN dataset
      <4>1. "SessionId" \notin Elements(PendingFields)
        BY FieldNames, FieldLists, SMTT(30)
      <4> QED BY <1>4, <4>1 DEF Typed
    <3>2. \A f \in DOMAIN dataset : f \in AllFields
      BY <1>13 DEF GoodDataset
    <3>3. "SessionId" \in AllFields
      BY FieldNamesAll
    <3>4. \A f \in DOMAIN dataset : TlvTypeOf[f] # kSecureDissemination
      BY <3>2, FieldTypes DEF NoFieldTypes
    <3>5. \A f \in DOMAIN dataset : TlvTypeOf[f] # SessionTlv[1]
      BY <3>1, <3>2, <3>3, FieldTypes, ConstantTlvs
    <3> QED BY <1>10, <3>4, <3>5 DEF Apart
  <2> QED BY <1>13, <2>1, <2>2, DatasetSignable
<1>16. TlvsIn(dataset) \cup ({SessionTlv} \cup {t}) = ({SessionTlv} \cup {t}) \cup TlvsIn(dataset)
  OBVIOUS
<1>17. ValidateSignature(SetRequest("c/sp", e))
  <2> DEFINE R == ({SessionTlv} \cup {t}) \cup TlvsIn(dataset)
  <2>1. Carries(session \o e.payload, R) /\ Signable(R)
    BY <1>13, <1>14, <1>15, <1>16
  <2> HIDE DEF R
  <2> QED BY <1>3, <2>1, CommandFits DEF session
<1> QED BY <1>2, <1>17

(* All fields of a SET request are signed but the delay timer, which the   *)
(* network counts down.                                                    *)
LEMMA SerializedFields ==
    ASSUME kind \in DOMAIN FieldsOf, NEW f \in Elements(FieldsOf[kind])
    PROVE  ShouldBeSerialized(TlvTypeOf[f], SetUri) <=> f # "DelayTimer"
<1>1. kind \in {"active", "pending", "commissioner", "bbr"}
  BY FieldNames
<1>2. f \in AllFields
  <2>1. FieldsOf[kind] \in Seq(AllFields)
    BY FieldLists
  <2> QED BY <2>1, SMT DEF Elements
<1>3. ASSUME NEW g \in Elements(ActiveFields) PROVE \A b : IsDatasetParameter(b, TlvTypeOf[g])
  BY FieldLists, SMT DEF IsDatasetParameter, TlvTypeOf
<1>4. CASE kind = "active"
  <2>1. SetUri = "c/as" /\ f \in Elements(ActiveFields)
    BY <1>4, FieldNames DEF SetUri
  <2>2. f # "DelayTimer"
    BY <2>1, FieldLists
  <2>3. ShouldBeSerialized(TlvTypeOf[f], "c/as") = IsDatasetParameter(TRUE, TlvTypeOf[f])
    BY DEF ShouldBeSerialized
  <2> QED BY <1>3, <2>1, <2>2, <2>3
<1>5. CASE kind = "pending"
  <2>1. SetUri = "c/ps" /\ f \in Elements(ActiveFields) \cup {"DelayTimer", "PendingTimestamp"}
    BY <1>5, FieldNames DEF SetUri
  <2>2. IsDatasetParameter(FALSE, TlvTypeOf[f])
    <3>1. f \in {"DelayTimer", "PendingTimestamp"} => IsDatasetParameter(FALSE, TlvTypeOf[f])
      BY SMT DEF IsDatasetParameter, TlvTypeOf
    <3> QED BY <1>3, <2>1, <3>1
  <2>3. TlvTypeOf["DelayTimer"] = kDelayTimer /\ "DelayTimer" \in AllFields
    BY FieldNamesAll DEF TlvTypeOf
  <2>4. TlvTypeOf[f] = kDelayTimer <=> f = "DelayTimer"
    BY <1>2, <2>3, FieldTypes
  <2>5. ShouldBeSerialized(TlvTypeOf[f], "c/ps") <=>
            TlvTypeOf[f] # kDelayTimer /\ IsDatasetParameter(FALSE, TlvTypeOf[f])
    BY DEF ShouldBeSerialized
  <2> QED BY <2>1, <2>2, <2>4, <2>5
<1>6. CASE kind \in {"commissioner", "bbr"}
  <2>1. f \in Elements(CommissionerFields) \cup Elements(BbrFields)
    BY <1>6, FieldNames
  <2>2. f # "DelayTimer"
    BY <2>1, FieldLists
  <2>3. SetUri \in {"c/cs", "c/bs"}
    BY <1>6 DEF SetUri
  <2>4. TlvTypeOf[f] \notin {kCommissionerToken, kCommissionerSignature, kCommissionerPenSignature}
    BY <1>2, FieldTypes DEF NoFieldTypes
  <2>5. ASSUME NEW uri \in {"c/cs", "c/bs"}
        PROVE  ShouldBeSerialized(TlvTypeOf[f], uri) <=>
                   TlvTypeOf[f] \notin {kCommissionerToken, kCommissionerSignature, kCommissionerPenSignature}
    BY DEF ShouldBeSerialized
  <2> QED BY <2>2, <2>3, <2>4, <2>5
<1> QED BY <1>1, <1>4, <1>5, <1>6

(* A SET request: the signature verifies, and the signed content decodes   *)
(* to the dataset without the delay timer.                                 *)
LEMMA SetFits ==
    ASSUME DataInv, mode = "ccm", SetDataset.error = "none"
    PROVE  LET signed == IF kind = "pending" THEN DecodePendingOperationalDataset(SetDataset.signed.tlvs)
                         ELSE GetDatasetDone(kind, SetDataset.signed.tlvs)
               covered == Only(dataset, DOMAIN dataset \ {"DelayTimer", "SessionId", "BorderAgentLocator"})
           IN  /\ ValidateSignature(SetDataset)
               /\ signed.error = "none"
               /\ Only(signed.dataset, DOMAIN signed.dataset \ {"SessionId"}) = covered
<1> DEFINE F == Elements(FieldsOf[kind])
           bytes == SetDataset.signed.tlvs
           signed == IF kind = "pending" THEN DecodePendingOperationalDataset(bytes)
                     ELSE GetDatasetDone(kind, bytes)
           R == TlvsIn(Written) \cup Others
<1>1. kind \in DOMAIN FieldsOf /\ Typed(dataset, kind)
  BY DEF DataInv
<1>2. /\ GoodDataset(Written) /\ DOMAIN Written \subseteq F /\ Apart(Others, F) /\ OneOfEach(Others)
  BY <1>1, SetCarries
<1>3. PICK payload : SetDataset = SignRequest(SetUri, payload) /\ Carries(payload, R)
  BY <1>1, SetCarries
<1>4. Signable(Others)
  <2>1. Signable({})
    BY DEF Signable, OneOfEach
  <2> QED BY <2>1, SessionFirst DEF Others
<1>5. Signable(R)
  <2>1. Apart(Others, DOMAIN Written)
    BY <1>2 DEF Apart
  <2> QED BY <1>2, <1>4, <2>1, DatasetSignable
<1> HIDE DEF R
<1>6. ValidateSignature(SetDataset)
  BY <1>3, <1>5, SignatureMatches
<1>7. PICK set : /\ SetOf(set, R)
                 /\ bytes = TlvsOf(set, {t \in DOMAIN set : ShouldBeSerialized(t, SetUri)})
  BY <1>3, <1>5, SignatureMatches
<1> DEFINE T == {t \in DOMAIN set : ShouldBeSerialized(t, SetUri)}
           c == Only(Written, FieldsWith(T))
           O == OfTypes(Others, T)
<1>8. T \subseteq DOMAIN set
  OBVIOUS
<1> HIDE DEF T
<1>9. Carries(bytes, TlvsIn(c) \cup O)
  <2>1. SetOf(set, TlvsIn(Written) \cup Others) /\ Carries(payload, TlvsIn(Written) \cup Others)
    BY <1>3, <1>7 DEF R
  <2>2. Carries(TlvsOf(set, T), TlvsIn(Only(Written, FieldsWith(T))) \cup OfTypes(Others, T))
    BY <1>2, <1>8, <2>1, TlvsOfRead
  <2> QED BY <1>7, <2>2 DEF T
<1>10. GoodDataset(c) /\ DOMAIN c = DOMAIN Written \cap FieldsWith(T) /\ \A f \in DOMAIN c : c[f] = Written[f]
  <2>1. GoodDataset(c) /\ DOMAIN c = DOMAIN Written \cap FieldsWith(T)
    BY <1>2, OnlyGood
  <2>2. \A f \in DOMAIN Written \cap FieldsWith(T) : c[f] = Written[f]
    BY DEF Only
  <2> QED BY <2>1, <2>2
<1> HIDE DEF c
<1>11. Apart(O, F) /\ OneOfEach(TlvsIn(c) \cup O)
  <2>1. Apart(O, F) /\ OneOfEach(O)
    BY <1>2 DEF Apart, OneOfEach, OfTypes
  <2>2. Apart(O, DOMAIN c)
    BY <1>2, <1>10, <2>1 DEF Apart
  <2> HIDE DEF O
  <2> QED BY <1>10, <2>1, <2>2, OneOfEachIn
<1> HIDE DEF O, bytes
<1>12. signed = [error |-> "none", dataset |-> c]
  <2>1. DOMAIN c \subseteq F
    BY <1>2, <1>10
  <2>2. IF kind = "pending" THEN DecodePendingOperationalDataset(bytes) = [error |-> "none", dataset |-> c]
        ELSE GetDatasetDone(kind, bytes) = [error |-> "none", dataset |-> c]
    <3>1. GoodDataset(c) /\ kind \in DOMAIN FieldsOf
      BY <1>1, <1>10
    <3> QED BY <1>9, <1>11, <2>1, <3>1, DatasetDecoded
  <2> QED BY <2>2
<1> HIDE DEF signed
<1>13. signed.error = "none" /\ signed.dataset = c
  BY <1>12
<1>14. ASSUME NEW f \in DOMAIN Written PROVE f \in FieldsWith(T) <=> f # "DelayTimer"
  <2>1. f \in AllFields
    BY <1>2 DEF GoodDataset
  <2>2. TlvTypeOf[f] \in DOMAIN set
    <3>1. FieldTlv(f, Written[f])[1] = TlvTypeOf[f]
      BY DEF FieldTlv
    <3>2. FieldTlv(f, Written[f]) \in R
      BY DEF R, TlvsIn
    <3>3. DOMAIN set = {p[1] : p \in R}
      BY <1>7 DEF SetOf
    <3> QED BY <3>1, <3>2, <3>3
  <2>3. ShouldBeSerialized(TlvTypeOf[f], SetUri) <=> f # "DelayTimer"
    BY <1>1, <1>2, SerializedFields
  <2> QED BY <2>1, <2>2, <2>3 DEF FieldsWith, T
<1> DEFINE D == DOMAIN dataset \ {"DelayTimer", "SessionId", "BorderAgentLocator"}
<1>15. \A f : f \in DOMAIN c /\ f # "SessionId" <=> f \in D
  <2>1. \A f : f \in DOMAIN Written /\ f # "SessionId" <=>
               f \in DOMAIN dataset /\ f # "SessionId" /\ f # "BorderAgentLocator"
    <3>1. CASE kind = "commissioner"
      <4>1. DOMAIN Written = (DOMAIN dataset \ {"BorderAgentLocator"}) \cup {"SessionId"}
        BY <3>1 DEF Written
      <4>2. "SessionId" # "BorderAgentLocator"
        OBVIOUS
      <4> QED BY <4>1, <4>2
    <3>2. CASE kind # "commissioner"
      <4>1. Written = dataset
        BY <3>2 DEF Written
      <4>2. "BorderAgentLocator" \notin F
        BY <1>1, <3>2, FieldNames, FieldLists, SMTT(30)
      <4> QED BY <1>2, <4>1, <4>2
    <3> QED BY <3>1, <3>2
  <2>2. \A f : f \in DOMAIN c <=> f \in DOMAIN Written /\ f # "DelayTimer"
    BY <1>10, <1>14
  <2> QED BY <2>1, <2>2
<1>16. \A f \in D : c[f] = dataset[f]
  <2>1. \A f \in DOMAIN Written : f # "SessionId" => Written[f] = dataset[f]
    BY DEF Written
  <2>2. \A f \in D : f \in DOMAIN c /\ f # "SessionId"
    BY <1>15
  <2> HIDE DEF D
  <2> QED BY <1>10, <2>1, <2>2
<1>17. Only(c, DOMAIN c \ {"SessionId"}) = Only(dataset, D)
  <2>1. DOMAIN c \cap (DOMAIN c \ {"SessionId"}) = D
    BY <1>15
  <2>2. DOMAIN dataset \cap D = D
    OBVIOUS
  <2> HIDE DEF D
  <2>3. Only(c, DOMAIN c \ {"SessionId"}) = [f \in D |-> c[f]]
    BY <2>1 DEF Only
  <2>4. Only(dataset, D) = [f \in D |-> dataset[f]]
    BY <2>2 DEF Only
  <2>5. [f \in D |-> c[f]] = [f \in D |-> dataset[f]]
    BY <1>16
  <2> QED BY <2>3, <2>4, <2>5
<1> QED BY <1>6, <1>13, <1>17 DEF signed, bytes

(* The signatures of all requests about a dataset of values of the fields' *)
(* types verify.                                                           *)
LEMMA FitsFrom == DataInv => SignatureFits
<1> SUFFICES ASSUME DataInv, mode = "ccm" PROVE SignatureFits
  BY DEF SignatureFits
<1> DEFINE flags == DOMAIN dataset
           others == {GetRawActiveDataset(flags), GetPendingDataset(flags), SendProxyMessage("c/re"),
                      SendProxyMessage("c/rt"),
                      RegisterMulticastListener(<<SubSeq(PbbrUri, 1, 16)>>, MaxRetrievalTimer)}
                     \cup {CommandMigrate(dataset[f]) : f \in {"NetworkName"} \cap flags}
                     \cup (IF kind = "pending" THEN {SetSecurePendingDataset(dataset)} ELSE {})
<1>1. ValidateSignature(GetRawActiveDataset(flags)) /\ ValidateSignature(GetPendingDataset(flags))
  <2>1. "ccm" # "disabled"
    OBVIOUS
  <2>2. /\ GetRawActiveDataset(flags) = SignRequest("c/ag", GetRequest(TlvTypes(FieldsOf["active"], flags)))
        /\ GetPendingDataset(flags) = SignRequest("c/pg", GetRequest(TlvTypes(FieldsOf["pending"], flags)))
    BY <2>1, FieldNames DEF GetRawActiveDataset, GetPendingDataset,
       GetActiveOperationalDatasetTlvs, GetPendingOperationalDatasetTlvs
  <2>3. "active" \in DOMAIN FieldsOf /\ "pending" \in DOMAIN FieldsOf
    BY FieldNames
  <2> QED BY <2>2, <2>3, GetFits
<1>2. ASSUME NEW f \in {"NetworkName"} \cap flags, CommandMigrate(dataset[f]).error = "none"
      PROVE  ValidateSignature(CommandMigrate(dataset[f]))
  <2>1. dataset[f] \in FieldValues("NetworkName")
    BY DEF DataInv, Typed
  <2>2. dataset[f] \in Seq(Byte)
    BY <2>1 DEF FieldValues, Timestamps, Uint16Fields
  <2> QED BY <1>2, <2>2, MigrateFits
<1>3. ASSUME NEW request \in others, request.error = "none" PROVE ValidateSignature(request)
  BY <1>1, <1>2, <1>3, ProxyFits, RegisterFits, SecureFits
<1> HIDE DEF others
<1>4. \A request \in others : request.error = "none" => ValidateSignature(request)
  BY <1>3
<1> QED BY <1>4, SetFits DEF SignatureFits, others

(* In a commercial network every request that is sent about a dataset      *)
(* verifies: the content that SignRequest signs, before the token and the  *)
(* signature are appended, is the content that the registrar takes out of  *)
(* the whole request, and it decodes to the dataset that was set without   *)
(* the delay timer.                                                        *)
THEOREM SignaturesFit == DataSpec => []SignatureFits
<1>1. DataInit => DataInv
  BY DataInvInit
<1>2. DataInv /\ [DataNext]_dataVars => DataInv'
  BY DataInvNext
<1>3. DataInv => SignatureFits
  BY FitsFrom
<1> QED BY <1>1, <1>2, <1>3, PTL DEF DataSpec

-----------------------------------------------------------------------------
(* The border agents that are discovered: one entry of a TXT record.       *)

(* The keys that a field of a BorderAgent has.                             *)
Known == TextKeys \cup DOMAIN LengthOf \cup {"addr", "port"}

(* The agent that the first m of the entries S describe.                   *)
Reads(agent, S, m) ==
    /\ DOMAIN agent = {S[k][1] : k \in 1..m} \cap Known
    /\ \A f \in DOMAIN agent :
          \E k \in 1..m : /\ S[k][1] = f /\ Encodes(f, agent[f], S[k][2])
                          /\ \A j \in k + 1..m : S[j][1] # f

(* A key that no field of a BorderAgent has is skipped.                    *)
LEMMA ReadsSkip ==
    ASSUME NEW agent, NEW S, NEW m \in Nat, Reads(agent, S, m), S[m + 1][1] \notin Known
    PROVE  Reads(agent, S, m + 1)
<1>1. 1..m + 1 = 1..m \cup {m + 1}
  BY SMT
<1>2. DOMAIN agent = {S[k][1] : k \in 1..m + 1} \cap Known
  BY <1>1, SMT DEF Reads
<1>3. ASSUME NEW f \in DOMAIN agent
      PROVE  \E k \in 1..m + 1 : /\ S[k][1] = f /\ Encodes(f, agent[f], S[k][2])
                                 /\ \A j \in k + 1..m + 1 : S[j][1] # f
  <2>1. PICK k \in 1..m : /\ S[k][1] = f /\ Encodes(f, agent[f], S[k][2])
                          /\ \A j \in k + 1..m : S[j][1] # f
    BY DEF Reads
  <2>2. f # S[m + 1][1]
    BY SMT DEF Reads
  <2>3. \A j \in k + 1..m + 1 : j = m + 1 \/ j \in k + 1..m
    BY SMT
  <2> QED BY <1>1, <2>1, <2>2, <2>3
<1> QED BY <1>2, <1>3 DEF Reads

(* An entry that a field of a BorderAgent encodes replaces the value that  *)
(* the field had.                                                          *)
LEMMA ReadsPut ==
    ASSUME NEW agent, NEW S, NEW m \in Nat, NEW v, Reads(agent, S, m),
           S[m + 1][1] \in Known, Encodes(S[m + 1][1], v, S[m + 1][2])
    PROVE  Reads(Override(agent, [f \in {S[m + 1][1]} |-> v]), S, m + 1)
<1> DEFINE key == S[m + 1][1]
           after == Override(agent, [f \in {key} |-> v])
<1>1. 1..m + 1 = 1..m \cup {m + 1}
  BY SMT
<1>2. /\ DOMAIN after = DOMAIN agent \cup {key} /\ after[key] = v
      /\ \A f \in DOMAIN agent : f # key => after[f] = agent[f]
  BY DEF Override
<1>3. DOMAIN after = {S[k][1] : k \in 1..m + 1} \cap Known
  <2> HIDE DEF after
  <2> QED BY <1>1, <1>2, SMT DEF Reads
<1> HIDE DEF after
<1>4. ASSUME NEW f \in DOMAIN after
      PROVE  \E k \in 1..m + 1 : /\ S[k][1] = f /\ Encodes(f, after[f], S[k][2])
                                 /\ \A j \in k + 1..m + 1 : S[j][1] # f
  <2>1. CASE f = key
    <3>1. \A j \in (m + 1) + 1..m + 1 : FALSE
      BY SMT
    <3>2. m + 1 \in 1..m + 1
      BY SMT
    <3> QED BY <1>2, <2>1, <3>1, <3>2
  <2>2. CASE f # key
    <3>1. f \in DOMAIN agent /\ after[f] = agent[f]
      BY <1>2, <2>2
    <3>2. PICK k \in 1..m : /\ S[k][1] = f /\ Encodes(f, agent[f], S[k][2])
                            /\ \A j \in k + 1..m : S[j][1] # f
      BY <3>1 DEF Reads
    <3>3. \A j \in k + 1..m + 1 : j = m + 1 \/ j \in k + 1..m
      BY SMT
    <3> QED BY <1>1, <2>2, <3>1, <3>2, <3>3
  <2> QED BY <2>1, <2>2
<1>5. Reads(after, S, m + 1)
  BY <1>3, <1>4 DEF Reads
<1> QED BY <1>5 DEF after

(* The bit fields of a State and its reserved bits are its number.         *)
LEMMA BitFields ==
    ASSUME NEW b \in Nat
    PROVE  b = (b % 8) + 8 * ((b \div 8) % 4) + 32 * ((b \div 32) % 4) + 128 * (b \div 128)
  BY SMT

(* BorderAgent::State and the four bytes of the key sb.                    *)
LEMMA StateEncoded ==
    ASSUME NEW raw \in Seq(Byte), Len(raw) = 4
    PROVE  Encodes("sb", State(raw), raw)
<1> DEFINE b == raw[4]
           v == State(raw)
<1>1. b \in Nat
  <2>1. 4 \in 1..Len(raw)
    BY SMT
  <2>2. b \in Byte
    BY <2>1, SeqAt
  <2> HIDE DEF b
  <2> QED BY <2>2, SMT DEF Byte
<1>2. /\ v.mConnectionMode = b % 8 /\ v.mThreadIfStatus = (b \div 8) % 4
      /\ v.mAvailability = (b \div 32) % 4 /\ v.mBbrIsActive = b \div 128
      /\ v.mBbrIsPrimary = raw[3] % 2
  BY DEF State
<1> HIDE DEF b, v
<1>3. b = v.mConnectionMode + 8 * v.mThreadIfStatus + 32 * v.mAvailability + 128 * v.mBbrIsActive
  BY <1>1, <1>2, BitFields
<1>4. Encodes("sb", v, raw)
  BY <1>2, <1>3 DEF Encodes, b
<1> QED BY <1>4 DEF v

(* The value that WithEntry puts into the field of a key encodes to the    *)
(* bytes of the entry.                                                     *)
LEMMA EntryEncoded ==
    ASSUME NEW key \in TextKeys \cup DOMAIN LengthOf, NEW raw \in Seq(Byte),
           key \in DOMAIN LengthOf => Len(raw) = LengthOf[key], NEW v,
           v = CASE key = "sb" -> State(raw)
                 [] key = "at" -> DecodeTimestamp(raw)
                 [] key = "sq" -> raw[1]
                 [] key = "bb" -> raw[1] * 256 + raw[2]
                 [] OTHER -> raw
    PROVE  Encodes(key, v, raw)
<1>1. CASE key = "sb"
  <2>1. Len(raw) = 4
    BY <1>1 DEF LengthOf
  <2>2. v = State(raw)
    BY <1>1
  <2> QED BY <1>1, <2>1, <2>2, StateEncoded
<1>2. CASE key = "at"
  <2>1. Len(raw) = 8
    BY <1>2 DEF LengthOf
  <2> QED BY <1>2, <2>1, TimestampSurvives DEF Encodes
<1>3. CASE key = "sq"
  <2>1. Len(raw) = 1
    BY <1>3 DEF LengthOf
  <2>2. raw = <<raw[1]>>
    BY <2>1, SMT
  <2> QED BY <1>3, <2>2 DEF Encodes
<1>4. CASE key = "bb"
  <2>1. Len(raw) = 2
    BY <1>4 DEF LengthOf
  <2>2. raw = <<raw[1], raw[2]>> /\ raw[1] \in Byte /\ raw[2] \in Byte
    BY <2>1, SMT
  <2>3. Uint16(raw[1] * 256 + raw[2]) = raw
    BY <2>2, Word
  <2> QED BY <1>4, <2>3 DEF Encodes
<1>5. CASE key \notin {"sb", "at", "sq", "bb"}
  BY <1>5 DEF Encodes
<1> QED BY <1>1, <1>2, <1>3, <1>4, <1>5

-----------------------------------------------------------------------------
(* The entries of a TXT record and the records of a response.              *)

(* g[k] is what the first k of the entries s make of agent.                *)
EntriesTo(g, agent, s, n) ==
    g = [k \in 0..n |-> IF k = 0 THEN agent ELSE WithEntry(g[k - 1], s[k])]

(* The function that WithEntries applies exists.                           *)
LEMMA EntriesDefined ==
    ASSUME NEW agent, NEW s, NEW n \in Nat PROVE \E g : EntriesTo(g, agent, s, n)
<1> DEFINE T == {m \in Nat : \E g : EntriesTo(g, agent, s, m)}
<1>1. 0 \in T
  <2>1. \A k \in 0..0 : k = 0
    BY SMT
  <2>2. EntriesTo([k \in 0..0 |-> agent], agent, s, 0)
    BY <2>1 DEF EntriesTo
  <2> QED BY <2>2
<1>2. ASSUME NEW m \in Nat, m \in T PROVE m + 1 \in T
  <2>1. PICK g : EntriesTo(g, agent, s, m)
    BY <1>2
  <2> DEFINE h == [k \in 0..m + 1 |-> IF k = 0 THEN agent ELSE WithEntry(g[k - 1], s[k])]
  <2>2. /\ h = [k \in 0..m + 1 |-> h[k]]
        /\ \A k \in 0..m + 1 : h[k] = IF k = 0 THEN agent ELSE WithEntry(g[k - 1], s[k])
    OBVIOUS
  <2>3. \A k \in 0..m : g[k] = IF k = 0 THEN agent ELSE WithEntry(g[k - 1], s[k])
    BY <2>1 DEF EntriesTo
  <2> HIDE DEF h
  <2>4. /\ \A k \in 0..m : k \in 0..m + 1
        /\ \A k \in 0..m + 1 : k = 0 \/ k - 1 \in 0..m
    BY SMT
  <2>5. \A k \in 0..m : h[k] = g[k]
    BY <2>2, <2>3, <2>4
  <2>6. \A k \in 0..m + 1 : h[k] = IF k = 0 THEN agent ELSE WithEntry(h[k - 1], s[k])
    BY <2>2, <2>4, <2>5
  <2>7. EntriesTo(h, agent, s, m + 1)
    BY <2>2, <2>6 DEF EntriesTo
  <2> QED BY <2>7, SMT
<1>3. \A m \in Nat : m \in T
  <2> HIDE DEF T
  <2> QED BY <1>1, <1>2, SetInduction
<1> QED BY <1>3

(* F holds the steps of WithEntries.                                       *)
EntrySteps(F, agent, s) ==
    /\ F[0] = agent
    /\ \A k \in 1..Len(s) : F[k] = WithEntry(F[k - 1], s[k])
    /\ WithEntries(agent, s) = F[Len(s)]

(* WithEntries is its steps.                                               *)
LEMMA FoldEntries ==
    ASSUME NEW agent, NEW s, Len(s) \in Nat
    PROVE  \E F : EntrySteps(F, agent, s)
<1> DEFINE n == Len(s)
           F == CHOOSE g : EntriesTo(g, agent, s, n)
<1>1. WithEntries(agent, s) = F[n]
  BY DEF WithEntries, EntriesTo
<1>2. EntriesTo(F, agent, s, n)
  BY EntriesDefined
<1> HIDE DEF n, F
<1>3. \A k \in 0..n : F[k] = IF k = 0 THEN agent ELSE WithEntry(F[k - 1], s[k])
  BY <1>2 DEF EntriesTo
<1>4. 0 \in 0..n /\ \A k \in 1..n : k \in 0..n /\ k # 0
  BY SMT DEF n
<1>5. EntrySteps(F, agent, s)
  BY <1>1, <1>3, <1>4 DEF EntrySteps, n
<1> QED BY <1>5

(* g[k] is what the first k of the records s make of msg.                  *)
RecordsTo(g, msg, s, n) ==
    g = [k \in 0..n |-> IF k = 0 THEN msg ELSE HandleRecord(g[k - 1], s[k])]

(* The function that HandleRecords applies exists.                         *)
LEMMA RecordsDefined ==
    ASSUME NEW msg, NEW s, NEW n \in Nat PROVE \E g : RecordsTo(g, msg, s, n)
<1> DEFINE T == {m \in Nat : \E g : RecordsTo(g, msg, s, m)}
<1>1. 0 \in T
  <2>1. \A k \in 0..0 : k = 0
    BY SMT
  <2>2. RecordsTo([k \in 0..0 |-> msg], msg, s, 0)
    BY <2>1 DEF RecordsTo
  <2> QED BY <2>2
<1>2. ASSUME NEW m \in Nat, m \in T PROVE m + 1 \in T
  <2>1. PICK g : RecordsTo(g, msg, s, m)
    BY <1>2
  <2> DEFINE h == [k \in 0..m + 1 |-> IF k = 0 THEN msg ELSE HandleRecord(g[k - 1], s[k])]
  <2>2. /\ h = [k \in 0..m + 1 |-> h[k]]
        /\ \A k \in 0..m + 1 : h[k] = IF k = 0 THEN msg ELSE HandleRecord(g[k - 1], s[k])
    OBVIOUS
  <2>3. \A k \in 0..m : g[k] = IF k = 0 THEN msg ELSE HandleRecord(g[k - 1], s[k])
    BY <2>1 DEF RecordsTo
  <2> HIDE DEF h
  <2>4. /\ \A k \in 0..m : k \in 0..m + 1
        /\ \A k \in 0..m + 1 : k = 0 \/ k - 1 \in 0..m
    BY SMT
  <2>5. \A k \in 0..m : h[k] = g[k]
    BY <2>2, <2>3, <2>4
  <2>6. \A k \in 0..m + 1 : h[k] = IF k = 0 THEN msg ELSE HandleRecord(h[k - 1], s[k])
    BY <2>2, <2>4, <2>5
  <2>7. RecordsTo(h, msg, s, m + 1)
    BY <2>2, <2>6 DEF RecordsTo
  <2> QED BY <2>7, SMT
<1>3. \A m \in Nat : m \in T
  <2> HIDE DEF T
  <2> QED BY <1>1, <1>2, SetInduction
<1> QED BY <1>3

(* F holds the steps of HandleRecords.                                     *)
RecordSteps(F, msg, s) ==
    /\ F[0] = msg
    /\ \A k \in 1..Len(s) : F[k] = HandleRecord(F[k - 1], s[k])
    /\ HandleRecords(msg, s) = F[Len(s)]

(* HandleRecords is its steps.                                             *)
LEMMA FoldRecords ==
    ASSUME NEW msg, NEW s, Len(s) \in Nat
    PROVE  \E F : RecordSteps(F, msg, s)
<1> DEFINE n == Len(s)
           F == CHOOSE g : RecordsTo(g, msg, s, n)
<1>1. HandleRecords(msg, s) = F[n]
  BY DEF HandleRecords, RecordsTo
<1>2. RecordsTo(F, msg, s, n)
  BY RecordsDefined
<1> HIDE DEF n, F
<1>3. \A k \in 0..n : F[k] = IF k = 0 THEN msg ELSE HandleRecord(F[k - 1], s[k])
  BY <1>2 DEF RecordsTo
<1>4. 0 \in 0..n /\ \A k \in 1..n : k \in 0..n /\ k # 0
  BY SMT DEF n
<1>5. RecordSteps(F, msg, s)
  BY <1>1, <1>3, <1>4 DEF RecordSteps, n
<1> QED BY <1>5

(* What WithEntry does with an entry that is good.                         *)
LEMMA ReadsEntry ==
    ASSUME NEW agent, NEW S, NEW m \in Nat, Reads(agent, S, m),
           S[m + 1] \in TxtEntries, IsGood(S[m + 1])
    PROVE  Reads(WithEntry(agent, S[m + 1]), S, m + 1)
<1> DEFINE entry == S[m + 1]
           key == entry[1]
           raw == entry[2]
<1>1. key \notin {"addr", "port"} /\ raw \in Seq(Byte)
  BY DEF TxtEntries
<1>2. CASE key \notin TextKeys \cup DOMAIN LengthOf
  <2>1. WithEntry(agent, entry) = agent
    BY <1>2 DEF WithEntry
  <2>2. key \notin Known
    BY <1>1, <1>2 DEF Known
  <2> QED BY <2>1, <2>2, ReadsSkip
<1>3. CASE key \in TextKeys \cup DOMAIN LengthOf
  <2> DEFINE v == CASE key = "sb" -> State(raw)
                    [] key = "at" -> DecodeTimestamp(raw)
                    [] key = "sq" -> raw[1]
                    [] key = "bb" -> raw[1] * 256 + raw[2]
                    [] OTHER -> raw
  <2>1. WithEntry(agent, entry) = Override(agent, [f \in {key} |-> v])
    BY <1>3 DEF WithEntry
  <2>2. key \in DOMAIN LengthOf => Len(raw) = LengthOf[key]
    BY DEF IsGood
  <2>3. Encodes(key, v, raw)
    <3> HIDE DEF key, raw, entry
    <3> QED BY <1>1, <1>3, <2>2, EntryEncoded
  <2>4. key \in Known
    BY <1>3 DEF Known
  <2> HIDE DEF v
  <2>5. Reads(Override(agent, [f \in {S[m + 1][1]} |-> v]), S, m + 1)
    BY <2>3, <2>4, ReadsPut
  <2> QED BY <2>1, <2>5
<1> QED BY <1>2, <1>3

(* The part of Said that a record makes.                                   *)
SaidBy(r) ==
    CASE r.type = "SRV" -> <<<<"port", r.value>>>>
      [] r.type = "A" -> <<<<"addr", r.value>>>>
      [] r.type = "TXT" -> r.value
      [] OTHER -> <<>>

(* What a record may say.                                                  *)
SaidEntries == TxtEntries \cup ({"port"} \X Port) \cup ({"addr"} \X Seq(Byte))

(* What a record says.                                                     *)
LEMMA SaidByType ==
    ASSUME NEW r \in RecordInputs
    PROVE  SaidBy(r) \in Seq(SaidEntries)
<1>1. CASE r.type = "SRV"
  <2>1. SaidBy(r) = <<<<"port", r.value>>>>
    BY <1>1 DEF SaidBy
  <2>2. r.value \in Port
    BY <1>1, DiscoveryAssumption
  <2>3. <<"port", r.value>> \in SaidEntries
    BY <2>2 DEF SaidEntries
  <2> QED BY <2>1, <2>3, SMT
<1>2. CASE r.type = "A"
  <2>1. SaidBy(r) = <<<<"addr", r.value>>>>
    BY <1>2 DEF SaidBy
  <2>2. r.value \in Seq(Byte)
    BY <1>2, DiscoveryAssumption
  <2>3. <<"addr", r.value>> \in SaidEntries
    BY <2>2 DEF SaidEntries
  <2> QED BY <2>1, <2>3, SMT
<1>3. CASE r.type = "TXT"
  <2>1. SaidBy(r) = r.value
    BY <1>3 DEF SaidBy
  <2>2. r.value \in Seq(TxtEntries)
    BY <1>3, DiscoveryAssumption
  <2>3. TxtEntries \subseteq SaidEntries
    BY DEF SaidEntries
  <2>4. ASSUME NEW A, NEW B, A \subseteq B, NEW s \in Seq(A) PROVE s \in Seq(B)
    BY <2>4, SMT
  <2> QED BY <2>1, <2>2, <2>3, <2>4
<1>4. CASE r.type \notin {"SRV", "A", "TXT"}
  <2>1. SaidBy(r) = <<>>
    BY <1>4 DEF SaidBy
  <2> QED BY <2>1, SMT
<1> QED BY <1>1, <1>2, <1>3, <1>4

(* A BorderAgentOrErrorMsg.                                                *)
IsMessage(msg) == msg = [agent |-> msg.agent, error |-> msg.error] /\ msg.error \in {"none", "bad"}

(* What a message has read of the entries S when the first m are handled.  *)
ReadSoFar(msg, S, m) ==
    /\ IsMessage(msg)
    /\ (msg.error = "none") = (\A k \in 1..m : IsGood(S[k]))
    /\ msg.error = "none" => Reads(msg.agent, S, m)

(* A TXT record without a bad entry.                                       *)
LEMMA ReadsEntries ==
    ASSUME NEW agent, NEW S, NEW m \in Nat, Reads(agent, S, m), NEW s \in Seq(TxtEntries),
           \A j \in 1..Len(s) : S[m + j] = s[j] /\ IsGood(s[j])
    PROVE  Reads(WithEntries(agent, s), S, m + Len(s))
<1> DEFINE n == Len(s)
<1>1. n \in Nat /\ DOMAIN s = 1..n
  BY SMT
<1>2. PICK F : EntrySteps(F, agent, s)
  BY <1>1, FoldEntries
<1>3. /\ F[0] = agent
      /\ \A k \in 1..n : F[k] = WithEntry(F[k - 1], s[k])
      /\ WithEntries(agent, s) = F[n]
  BY <1>2 DEF EntrySteps, n
<1>4. \A j \in 1..n : S[m + j] = s[j] /\ IsGood(s[j]) /\ s[j] \in TxtEntries
  BY SMT
<1> HIDE DEF n
<1> DEFINE T == {k \in Nat : k <= n => Reads(F[k], S, m + k)}
<1>5. 0 \in T
  <2>1. m + 0 = m /\ 0 \in Nat
    BY SMT
  <2> QED BY <1>3, <2>1
<1>6. ASSUME NEW k \in Nat, k \in T PROVE k + 1 \in T
  <2> SUFFICES ASSUME k + 1 <= n PROVE Reads(F[k + 1], S, m + (k + 1))
    BY SMT
  <2>1. k + 1 \in 1..n /\ (k + 1) - 1 = k /\ m + k \in Nat /\ m + (k + 1) = (m + k) + 1 /\ k <= n
    BY <1>1, SMT
  <2>2. S[(m + k) + 1] = s[k + 1] /\ IsGood(s[k + 1]) /\ s[k + 1] \in TxtEntries
    <3>1. S[m + (k + 1)] = s[k + 1] /\ IsGood(s[k + 1]) /\ s[k + 1] \in TxtEntries
      BY <1>4, <2>1
    <3> QED BY <2>1, <3>1
  <2>3. Reads(F[k], S, m + k)
    BY <1>6, <2>1
  <2>4. F[k + 1] = WithEntry(F[k], s[k + 1])
    BY <1>3, <2>1
  <2>5. Reads(WithEntry(F[k], s[k + 1]), S, (m + k) + 1)
    BY <2>1, <2>2, <2>3, ReadsEntry
  <2> QED BY <2>1, <2>4, <2>5
<1>7. \A k \in Nat : k \in T
  <2> HIDE DEF T
  <2> QED BY <1>5, <1>6, SetInduction
<1>8. Reads(F[n], S, m + n)
  BY <1>1, <1>7, SMT
<1> QED BY <1>3, <1>8 DEF n

(* What a response says is what its records say, one after the other.      *)
LEMMA SaidFlat ==
    ASSUME NEW response \in Seq(RecordInputs)
    PROVE  /\ Said(response) = Concat([i \in 1..Len(response) |-> SaidBy(response[i])])
           /\ [i \in 1..Len(response) |-> SaidBy(response[i])] \in Seq(Seq(SaidEntries))
<1>1. DOMAIN response = 1..Len(response)
  BY SMT
<1>2. Said(response) = Concat([i \in 1..Len(response) |-> SaidBy(response[i])])
  BY <1>1 DEF Said, SaidBy
<1>3. \A i \in 1..Len(response) : SaidBy(response[i]) \in Seq(SaidEntries)
  BY SeqAt, SaidByType
<1>4. ASSUME NEW n \in Nat, NEW X, NEW g, g = [i \in 1..n |-> g[i]], \A i \in 1..n : g[i] \in X
      PROVE  g \in Seq(X)
  BY <1>4, SMT
<1> DEFINE g == [i \in 1..Len(response) |-> SaidBy(response[i])]
<1>5. g = [i \in 1..Len(response) |-> g[i]] /\ \A i \in 1..Len(response) : g[i] \in Seq(SaidEntries)
  BY <1>3
<1>6. Len(response) \in Nat
  BY SMT
<1>7. g \in Seq(Seq(SaidEntries))
  <2> HIDE DEF g
  <2> QED BY <1>4, <1>5, <1>6
<1> QED BY <1>2, <1>7

-----------------------------------------------------------------------------
(* The records of a response, as mdns_query_recv reads them.               *)

(* None of the first m entries is bad.                                     *)
AllGood(S, m) == \A k \in 1..m : IsGood(S[k])

(* What an agent and an error tell of the first m entries.                 *)
Agrees(agent, error, S, m) ==
    /\ error \in {"none", "bad"}
    /\ (error = "none") <=> AllGood(S, m)
    /\ error = "none" => Reads(agent, S, m)

(* What Agrees says of an agent and an error, it says of the message of    *)
(* the two.                                                                *)
LEMMA SoFar ==
    ASSUME NEW agent, NEW error, NEW S, NEW m, Agrees(agent, error, S, m)
    PROVE  ReadSoFar([agent |-> agent, error |-> error], S, m)
<1> DEFINE msg == [agent |-> agent, error |-> error]
<1>1. error \in {"none", "bad"}
  BY DEF Agrees
<1>2. msg.agent = agent /\ msg.error = error /\ msg = [agent |-> msg.agent, error |-> msg.error]
  OBVIOUS
<1> HIDE DEF msg
<1>3. IsMessage(msg)
  BY <1>1, <1>2 DEF IsMessage
<1>4. ReadSoFar(msg, S, m)
  BY <1>2, <1>3 DEF ReadSoFar, AllGood, Agrees
<1> QED BY <1>4 DEF msg

(* A record that fills in the field f.                                     *)
LEMMA FieldRead ==
    ASSUME NEW msg, NEW f \in {"port", "addr"}, NEW v, NEW S, NEW m \in Nat,
           ReadSoFar(msg, S, m), S[m + 1] = <<f, v>>
    PROVE  ReadSoFar([agent |-> Override(msg.agent, [x \in {f} |-> v]), error |-> msg.error], S, m + 1)
<1>1. S[m + 1][1] = f /\ S[m + 1][2] = v
  BY SMT
<1>2. f \in Known /\ f # "rv" /\ f \notin DOMAIN LengthOf
  BY DEF Known, LengthOf
<1>3. IsGood(S[m + 1])
  BY <1>1, <1>2 DEF IsGood
<1>4. Encodes(f, v, v)
  BY DEF Encodes
<1>5. 1..m + 1 = 1..m \cup {m + 1}
  BY SMT
<1>6. AllGood(S, m + 1) <=> AllGood(S, m)
  BY <1>3, <1>5 DEF AllGood
<1>7. /\ msg.error \in {"none", "bad"}
      /\ (msg.error = "none") <=> AllGood(S, m)
      /\ msg.error = "none" => Reads(msg.agent, S, m)
  BY DEF ReadSoFar, IsMessage, AllGood
<1>8. msg.error = "none" => Reads(Override(msg.agent, [x \in {f} |-> v]), S, m + 1)
  <2>1. SUFFICES ASSUME Reads(msg.agent, S, m)
                 PROVE  Reads(Override(msg.agent, [x \in {f} |-> v]), S, m + 1)
    BY <1>7
  <2>2. Reads(Override(msg.agent, [x \in {S[m + 1][1]} |-> v]), S, m + 1)
    BY <1>1, <1>2, <1>4, <2>1, ReadsPut
  <2> QED BY <1>1, <2>2
<1>9. Agrees(Override(msg.agent, [x \in {f} |-> v]), msg.error, S, m + 1)
  BY <1>6, <1>7, <1>8 DEF Agrees
<1> QED BY <1>9, SoFar

(* A TXT record: its entries up to the first bad one are read, and a bad   *)
(* one is an error.                                                        *)
LEMMA TxtRead ==
    ASSUME NEW msg, NEW s \in Seq(TxtEntries), NEW S, NEW m \in Nat,
           ReadSoFar(msg, S, m), \A j \in 1..Len(s) : S[m + j] = s[j], NEW good,
           {j \in DOMAIN s : ~IsGood(s[j])} = {} => good = s
    PROVE  ReadSoFar([agent |-> WithEntries(msg.agent, good),
                      error |-> IF {j \in DOMAIN s : ~IsGood(s[j])} = {} THEN msg.error ELSE "bad"],
                     S, m + Len(s))
<1> DEFINE bad == {j \in DOMAIN s : ~IsGood(s[j])}
           n == Len(s)
<1>1. n \in Nat /\ DOMAIN s = 1..n
  BY SMT
<1>2. /\ msg.error \in {"none", "bad"}
      /\ (msg.error = "none") <=> AllGood(S, m)
      /\ msg.error = "none" => Reads(msg.agent, S, m)
  BY DEF ReadSoFar, IsMessage, AllGood
<1>3. CASE bad = {}
  <2>1. \A j \in 1..n : S[m + j] = s[j] /\ IsGood(s[j])
    BY <1>1, <1>3
  <2>2. msg.error = "none" => Reads(WithEntries(msg.agent, s), S, m + n)
    BY <1>2, <2>1, ReadsEntries
  <2>3. AllGood(S, m + n) <=> AllGood(S, m)
    <3>1. ASSUME NEW k \in 1..m + n PROVE k \in 1..m \/ IsGood(S[k])
      <4>1. k \in 1..m \/ (k - m \in 1..n /\ m + (k - m) = k)
        BY <1>1, SMT
      <4> QED BY <2>1, <4>1
    <3>2. \A k \in 1..m : k \in 1..m + n
      BY <1>1, SMT
    <3> QED BY <3>1, <3>2 DEF AllGood
  <2> HIDE DEF n, bad
  <2>4. good = s
    BY <1>3 DEF bad
  <2>5. ReadSoFar([agent |-> WithEntries(msg.agent, s), error |-> msg.error], S, m + n)
    <3>1. Agrees(WithEntries(msg.agent, s), msg.error, S, m + n)
      BY <1>2, <2>2, <2>3 DEF Agrees
    <3> QED BY <3>1, SoFar
  <2> QED BY <1>3, <2>4, <2>5 DEF n, bad
<1>4. CASE bad # {}
  <2>1. PICK j \in 1..n : ~IsGood(s[j])
    BY <1>1, <1>4
  <2>2. S[m + j] = s[j] /\ m + j \in 1..m + n
    BY <1>1, SMT
  <2>3. ~AllGood(S, m + n)
    BY <2>1, <2>2 DEF AllGood
  <2>4. ReadSoFar([agent |-> WithEntries(msg.agent, good), error |-> "bad"], S, m + n)
    <3>1. Agrees(WithEntries(msg.agent, good), "bad", S, m + n)
      BY <2>3 DEF Agrees
    <3> QED BY <3>1, SoFar
  <2> QED BY <1>4, <2>4
<1> QED BY <1>3, <1>4

(* HandleRecord reads one record more.                                     *)
LEMMA RecordRead ==
    ASSUME NEW msg, NEW r \in RecordInputs, NEW S, NEW m \in Nat, ReadSoFar(msg, S, m),
           \A j \in 1..Len(SaidBy(r)) : S[m + j] = SaidBy(r)[j]
    PROVE  ReadSoFar(HandleRecord(msg, r), S, m + Len(SaidBy(r)))
<1>1. msg = [agent |-> msg.agent, error |-> msg.error]
  BY DEF ReadSoFar, IsMessage
<1>2. CASE r.type = "SRV"
  <2>1. HandleRecord(msg, r) = [msg EXCEPT !.agent = Override(@, [port |-> r.value])]
    BY <1>2 DEF HandleRecord
  <2>2. [port |-> r.value] = [x \in {"port"} |-> r.value]
    BY SMT
  <2>3. HandleRecord(msg, r) =
            [agent |-> Override(msg.agent, [x \in {"port"} |-> r.value]), error |-> msg.error]
    BY <1>1, <2>1, <2>2
  <2>4. SaidBy(r) = <<<<"port", r.value>>>>
    BY <1>2 DEF SaidBy
  <2>5. Len(SaidBy(r)) = 1 /\ S[m + 1] = <<"port", r.value>>
    BY <2>4, SMT
  <2> QED BY <2>3, <2>5, FieldRead
<1>3. CASE r.type = "A"
  <2>1. HandleRecord(msg, r) = [msg EXCEPT !.agent = Override(@, [addr |-> r.value])]
    BY <1>3 DEF HandleRecord
  <2>2. [addr |-> r.value] = [x \in {"addr"} |-> r.value]
    BY SMT
  <2>3. HandleRecord(msg, r) =
            [agent |-> Override(msg.agent, [x \in {"addr"} |-> r.value]), error |-> msg.error]
    BY <1>1, <2>1, <2>2
  <2>4. SaidBy(r) = <<<<"addr", r.value>>>>
    BY <1>3 DEF SaidBy
  <2>5. Len(SaidBy(r)) = 1 /\ S[m + 1] = <<"addr", r.value>>
    BY <2>4, SMT
  <2> QED BY <2>3, <2>5, FieldRead
<1>4. CASE r.type = "TXT"
  <2> DEFINE s == r.value
             bad == {i \in DOMAIN s : ~IsGood(s[i])}
             good == IF bad = {} THEN s
                     ELSE SubSeq(s, 1, (CHOOSE i \in bad : \A k \in bad : i <= k) - 1)
  <2>1. s \in Seq(TxtEntries)
    BY <1>4, DiscoveryAssumption
  <2>2. SaidBy(r) = s
    BY <1>4 DEF SaidBy
  <2>3. HandleRecord(msg, r) = [agent |-> WithEntries(msg.agent, good),
                                error |-> IF bad = {} THEN msg.error ELSE "bad"]
    BY <1>4 DEF HandleRecord
  <2>4. bad = {} => good = s
    OBVIOUS
  <2> HIDE DEF good
  <2>5. ReadSoFar([agent |-> WithEntries(msg.agent, good),
                   error |-> IF {i \in DOMAIN s : ~IsGood(s[i])} = {} THEN msg.error ELSE "bad"],
                  S, m + Len(s))
    <3> HIDE DEF s
    <3> QED BY <2>1, <2>2, <2>4, TxtRead
  <2> QED BY <2>2, <2>3, <2>5
<1>5. CASE r.type \notin {"SRV", "A", "TXT"}
  <2>1. HandleRecord(msg, r) = msg
    BY <1>5 DEF HandleRecord
  <2>2. SaidBy(r) = <<>>
    BY <1>5 DEF SaidBy
  <2>3. m + Len(SaidBy(r)) = m
    BY <2>2, SMT
  <2> QED BY <2>1, <2>3
<1> QED BY <1>2, <1>3, <1>4, <1>5

(* mdns_query_recv reads a response whole.                                 *)
LEMMA ResponseRead ==
    ASSUME NEW response \in Seq(RecordInputs)
    PROVE  /\ Len(Said(response)) \in Nat /\ DOMAIN Said(response) = 1..Len(Said(response))
           /\ ReadSoFar(QueryRecv(response), Said(response), Len(Said(response)))
<1> DEFINE S == Said(response)
           s == [i \in 1..Len(response) |-> SaidBy(response[i])]
           n == Len(response)
<1>1. n \in Nat /\ DOMAIN response = 1..n /\ \A i \in 1..n : response[i] \in RecordInputs
  BY SMT
<1>2. S = Concat(s) /\ s \in Seq(Seq(SaidEntries))
  BY SaidFlat
<1>3. Len(s) = n /\ \A i \in 1..n : s[i] = SaidBy(response[i])
  BY <1>1, SMT
<1> HIDE DEF s, S, n
<1>4. S \in Seq(SaidEntries)
  BY <1>2, ConcatOffsets
<1>5. PICK off : Offsets(off, s)
  BY <1>2, ConcatOffsets
<1>6. /\ off \in [0..n -> Nat] /\ off[0] = 0 /\ Len(S) = off[n]
      /\ \A k \in 1..n : /\ off[k] = off[k - 1] + Len(s[k])
                         /\ \A j \in 1..Len(s[k]) : S[off[k - 1] + j] = s[k][j]
  BY <1>5, <1>2, <1>3 DEF Offsets
<1>7. PICK F : RecordSteps(F, Nobody, response)
  BY <1>1, FoldRecords DEF n
<1>8. /\ F[0] = Nobody /\ F[n] = QueryRecv(response)
      /\ \A k \in 1..n : F[k] = HandleRecord(F[k - 1], response[k])
  <2>1. HandleRecords(Nobody, response) = QueryRecv(response)
    BY DEF QueryRecv
  <2> QED BY <1>7, <2>1 DEF RecordSteps, n
<1> DEFINE T == {k \in Nat : k <= n => ReadSoFar(F[k], S, off[k])}
<1>9. 0 \in T
  <2>1. \A k \in 1..0 : FALSE
    BY SMT
  <2>2. AllGood(S, 0)
    BY <2>1 DEF AllGood
  <2>3. Reads(EmptyDataset, S, 0)
    BY <2>1 DEF Reads, EmptyDataset
  <2>4. Agrees(EmptyDataset, "none", S, 0)
    BY <2>2, <2>3 DEF Agrees
  <2>5. ReadSoFar(F[0], S, 0)
    BY <1>8, <2>4, SoFar DEF Nobody
  <2> QED BY <1>6, <2>5
<1>10. ASSUME NEW k \in Nat, k \in T PROVE k + 1 \in T
  <2> SUFFICES ASSUME k + 1 <= n PROVE ReadSoFar(F[k + 1], S, off[k + 1])
    BY SMT
  <2>1. k + 1 \in 1..n /\ (k + 1) - 1 = k /\ k <= n /\ k \in 0..n
    BY <1>1, SMT
  <2> DEFINE r == response[k + 1]
  <2>2. /\ r \in RecordInputs /\ F[k + 1] = HandleRecord(F[k], r) /\ s[k + 1] = SaidBy(r)
        /\ off[k + 1] = off[k] + Len(SaidBy(r)) /\ off[k] \in Nat
        /\ \A j \in 1..Len(SaidBy(r)) : S[off[k] + j] = SaidBy(r)[j]
    <3>1. F[k + 1] = HandleRecord(F[k], r) /\ s[k + 1] = SaidBy(r) /\ r \in RecordInputs
      BY <1>1, <1>3, <1>8, <2>1
    <3>2. /\ off[k + 1] = off[k] + Len(s[k + 1])
          /\ \A j \in 1..Len(s[k + 1]) : S[off[k] + j] = s[k + 1][j]
      BY <1>6, <2>1
    <3>3. off[k] \in Nat
      BY <1>6, <2>1
    <3> QED BY <3>1, <3>2, <3>3
  <2>3. ReadSoFar(F[k], S, off[k])
    BY <1>10, <2>1
  <2> HIDE DEF r
  <2> QED BY <2>2, <2>3, RecordRead
<1>11. \A k \in Nat : k \in T
  <2> HIDE DEF T
  <2> QED BY <1>9, <1>10, SetInduction
<1>12. ReadSoFar(F[n], S, off[n])
  BY <1>1, <1>11, SMT
<1>13. Len(S) \in Nat /\ DOMAIN S = 1..Len(S)
  BY <1>4, SMT
<1> QED BY <1>6, <1>8, <1>12, <1>13 DEF S

-----------------------------------------------------------------------------
(* A call of the handler tells of the response that was received.          *)
IsCall(call) ==
    /\ call.response \in Seq(RecordInputs)
    /\ call.msg = QueryRecv(call.response)
    /\ call.error = IF call.msg.error # "none" THEN call.msg.error
                    ELSE IF {"addr", "port"} \subseteq DOMAIN call.msg.agent THEN "none"
                    ELSE "incomplete"

(* What was received are records, and every call of the handler was of     *)
(* them.                                                                   *)
AgentInv ==
    /\ socket \in Seq(RecordInputs)
    /\ DOMAIN told = 1..Len(told) /\ Len(told) \in Nat
    /\ \A i \in DOMAIN told : IsCall(told[i])

(* Every step of AgentSpec receives records and tells the handler of a     *)
(* response that was received.                                             *)
LEMMA AgentInvStep == AgentInv /\ [AgentNext]_agentVars => AgentInv'
<1> SUFFICES ASSUME AgentInv, [AgentNext]_agentVars PROVE AgentInv'
  OBVIOUS
<1>1. ASSUME NEW r \in RecordInputs, Responds(r) PROVE AgentInv'
  <2>1. socket' = Append(socket, r) /\ told' = told
    BY <1>1 DEF Responds
  <2>2. socket' \in Seq(RecordInputs)
    BY <2>1, SMT DEF AgentInv
  <2> QED BY <2>1, <2>2 DEF AgentInv
<1>2. CASE Poll
  <2> DEFINE call == [response |-> socket, msg |-> QueryRecv(socket),
                      error |-> IF QueryRecv(socket).error # "none" THEN QueryRecv(socket).error
                                ELSE IF {"addr", "port"} \subseteq DOMAIN QueryRecv(socket).agent
                                THEN "none" ELSE "incomplete"]
  <2>1. told' = Append(told, call) /\ socket' = <<>>
    BY <1>2 DEF Poll
  <2>2. IsCall(call)
    BY DEF IsCall, AgentInv
  <2> HIDE DEF call
  <2> QED BY <2>1, <2>2, SMT DEF AgentInv
<1>3. CASE UNCHANGED agentVars
  BY <1>3 DEF AgentInv, agentVars
<1> QED BY <1>1, <1>2, <1>3 DEF AgentNext

(* What IsCall says of a call makes it one that AgentIsAsSaid allows.      *)
LEMMA CallIsAsSaid ==
    ASSUME NEW call, IsCall(call)
    PROVE  LET said == Said(call.response)
               agent == call.msg.agent
               keys == {said[k][1] : k \in DOMAIN said}
           IN  /\ (call.error = "none") =
                      ({"addr", "port"} \subseteq keys /\ \A k \in DOMAIN said : IsGood(said[k]))
               /\ call.error = "none" =>
                   /\ DOMAIN agent = keys \cap Known
                   /\ \A f \in DOMAIN agent :
                       \E k \in DOMAIN said :
                           /\ said[k][1] = f /\ Encodes(f, agent[f], said[k][2])
                           /\ \A j \in k + 1..Len(said) : said[j][1] # f
<1> DEFINE S == Said(call.response)
           n == Len(S)
           agent == call.msg.agent
           keys == {S[k][1] : k \in DOMAIN S}
<1>1. DOMAIN S = 1..n /\ ReadSoFar(call.msg, S, n)
  BY ResponseRead DEF IsCall
<1> HIDE DEF S, n
<1>2. /\ call.msg.error \in {"none", "bad"}
      /\ (call.msg.error = "none") <=> \A k \in 1..n : IsGood(S[k])
      /\ call.msg.error = "none" => Reads(agent, S, n)
  BY <1>1 DEF ReadSoFar, IsMessage
<1>3. /\ call.msg.error # "none" => call.error = call.msg.error
      /\ call.msg.error = "none" =>
            call.error = IF {"addr", "port"} \subseteq DOMAIN agent THEN "none" ELSE "incomplete"
  BY DEF IsCall
<1>4. call.msg.error = "none" => DOMAIN agent = keys \cap Known
  BY <1>1, <1>2 DEF Reads
<1>5. (call.error = "none") <=>
         ({"addr", "port"} \subseteq keys /\ \A k \in DOMAIN S : IsGood(S[k]))
  <2>1. {"addr", "port"} \subseteq Known
    BY DEF Known
  <2> DEFINE good == \A k \in DOMAIN S : IsGood(S[k])
  <2>2. (call.msg.error = "none") <=> good
    BY <1>1, <1>2
  <2> HIDE DEF keys, agent, good
  <2>3. (call.error = "none") <=> ({"addr", "port"} \subseteq keys /\ good)
    BY <1>3, <1>4, <2>1, <2>2
  <2> QED BY <2>3 DEF good
<1>6. call.error = "none" => call.msg.error = "none"
  BY <1>3
<1>7. call.error = "none" =>
          \A f \in DOMAIN agent :
              \E k \in DOMAIN S :
                  /\ S[k][1] = f /\ Encodes(f, agent[f], S[k][2])
                  /\ \A j \in k + 1..n : S[j][1] # f
  BY <1>1, <1>2, <1>6 DEF Reads
<1> QED BY <1>4, <1>5, <1>6, <1>7 DEF S, n

(* Whatever records border agents multicast, in whatever order and in      *)
(* however many responses: a handler of DiscoverBorderAgent that is told   *)
(* of an agent is told of exactly the fields that its response says last,  *)
(* each as the record encodes it, and it is told of an error exactly when  *)
(* a record is bad or the address or the port is missing. This is          *)
(* AgentIsAsSaid of HandleRecord and DiscoverBorderAgent, for every set of *)
(* records.                                                                *)
THEOREM AgentsAsSaid == AgentSpec => []AgentIsAsSaid
<1>1. AgentInit => AgentInv
  BY SMT DEF AgentInit, AgentInv
<1>2. AgentInv => AgentIsAsSaid
  BY CallIsAsSaid DEF AgentInv, AgentIsAsSaid, Known
<1> QED BY <1>1, <1>2, AgentInvStep, PTL DEF AgentSpec

=============================================================================
