---------------------------- MODULE NetworkData ----------------------------
(***************************************************************************)
(* Datasets of the Thread network: the requests that read and write them   *)
(* and the TLVs these carry (library/commissioner_impl.cpp), and their     *)
(* form in a JSON file (app/json.cpp).                                     *)
(*                                                                         *)
(* A dataset is a function from the names of the fields whose present flag *)
(* is set to their values.  Byte arrays and strings are sequences, 48-bit  *)
(* seconds and the 32-bit delay timer sequences of bytes, other numbers    *)
(* numbers.                                                                *)
(*                                                                         *)
(* The state is a dataset that the user puts together, and a payload (Tlv) *)
(* as it may come from the leader.                                         *)
(***************************************************************************)
EXTENDS Tlv, FiniteSets

CONSTANTS
    FieldInputs,  \* FieldInputs[f]: values the user gives to field f
    MaxFields,    \* bound on the fields that are given besides the timestamps
    CurrentTime   \* what Timestamp::Cur() returns

VARIABLES
    dataset,
    kind,       \* of the dataset
    mode        \* the commissioner's: "disabled", "active" or "ccm" (active in a
                \* commercial network)

dataVars == <<dataset, kind, mode>>

ActiveFields ==
    <<"ActiveTimestamp", "Channel", "ChannelMask", "ExtendedPanId", "MeshLocalPrefix",
      "NetworkMasterKey", "NetworkName", "PanId", "PSKc", "SecurityPolicy">>
PendingFields == ActiveFields \o <<"DelayTimer", "PendingTimestamp">>
CommissionerFields ==
    <<"SessionId", "BorderAgentLocator", "SteeringData", "AeSteeringData", "NmkpSteeringData",
      "JoinerUdpPort", "AeUdpPort", "NmkpUdpPort">>
BbrFields == <<"TriHostname", "RegistrarHostname", "RegistrarIpv6Addr">>

\* The fields of each kind of dataset, in the order in which they are encoded.
FieldsOf ==
    [active |-> ActiveFields, pending |-> PendingFields,
     commissioner |-> CommissionerFields, bbr |-> BbrFields]

TlvTypeOf ==
    [ActiveTimestamp |-> kActiveTimestamp, Channel |-> kChannel, ChannelMask |-> kChannelMask,
     ExtendedPanId |-> kExtendedPanId, MeshLocalPrefix |-> kNetworkMeshLocalPrefix,
     NetworkMasterKey |-> kNetworkMasterKey, NetworkName |-> kNetworkName, PanId |-> kPanId,
     PSKc |-> kPSKc, SecurityPolicy |-> kSecurityPolicy, DelayTimer |-> kDelayTimer,
     PendingTimestamp |-> kPendingTimestamp, SessionId |-> kCommissionerSessionId,
     BorderAgentLocator |-> kBorderAgentLocator, SteeringData |-> kSteeringData,
     AeSteeringData |-> kAeSteeringData, NmkpSteeringData |-> kNmkpSteeringData,
     JoinerUdpPort |-> kJoinerUdpPort, AeUdpPort |-> kAeUdpPort, NmkpUdpPort |-> kNmkpUdpPort,
     TriHostname |-> kTriHostname, RegistrarHostname |-> kRegistrarHostname,
     RegistrarIpv6Addr |-> kRegistrarIpv6Address]

Timestamps == {"ActiveTimestamp", "PendingTimestamp"}
Uint16Fields == {"PanId", "SessionId", "BorderAgentLocator", "JoinerUdpPort", "AeUdpPort", "NmkpUdpPort"}

(* The values that the type of a field admits.                             *)
TwoBytes == {n \in Nat : n \div 256 \in Byte}
Ticks == {n \in Nat : n \div 128 \in Byte}
FieldValues(f) ==
    CASE f \in Timestamps ->
             [seconds : {s \in Seq(Byte) : Len(s) = 6}, ticks : Ticks, u : {0, 1}]
      [] f \in Uint16Fields -> TwoBytes
      [] f = "Channel" -> [page : Byte, number : TwoBytes]
      [] f = "ChannelMask" -> Seq([page : Byte, masks : Seq(Byte)])
      [] f = "SecurityPolicy" -> [rotationTime : TwoBytes, flags : Seq(Byte)]
      [] f = "RegistrarIpv6Addr" -> [address : Seq(Byte)]
      [] OTHER -> Seq(Byte)

ASSUME DatasetAssumption ==
    /\ MaxFields \in Nat
    /\ \A f \in DOMAIN FieldInputs : FieldInputs[f] \subseteq FieldValues(f)
    /\ \A f \in Timestamps : CurrentTime \in FieldValues(f)

EmptyDataset == [f \in {} |-> <<>>]
Elements(s) == {s[i] : i \in DOMAIN s}
Only(d, S) == [f \in DOMAIN d \cap S |-> d[f]]
Override(d, e) == [f \in DOMAIN d \cup DOMAIN e |-> IF f \in DOMAIN e THEN e[f] ELSE d[f]]

(* A dataset as its constructor leaves it.                                 *)
NewDataset(k) ==
    [f \in Elements(FieldsOf[k]) \cap Timestamps |-> CurrentTime]

-----------------------------------------------------------------------------
(* Fields and TLVs.                                                        *)

(* Timestamp::Encode and Decode: 48 bits of seconds, 15 of ticks, U.       *)
EncodeTimestamp(t) == t.seconds \o Uint16(t.ticks * 2 + t.u)

(* Mutant: the ticks are masked but not shifted.                           *)
DecodeTimestampUnshifted(v) ==
    LET low == v[7] * 256 + v[8]
    IN  [seconds |-> SubSeq(v, 1, 6), ticks |-> low % 32768, u |-> low % 2]

DecodeTimestamp(v) ==
    LET low == v[7] * 256 + v[8]
    IN  [seconds |-> SubSeq(v, 1, 6), ticks |-> low \div 2, u |-> low % 2]

EncodeChannelMask(mask) ==
    [error |-> IF \E i \in DOMAIN mask : Len(mask[i].masks) >= kEscapeLength
               THEN "invalid" ELSE "none",
     buf |-> Concat([i \in DOMAIN mask |->
                 <<mask[i].page, Len(mask[i].masks)>> \o mask[i].masks])]

(* Mutant: the last entry may reach beyond the end.                        *)
DecodeChannelMaskLong(buf) ==
    LET Rest[at \in 1..Len(buf) + 1] ==
            IF at > Len(buf) THEN <<>>
            ELSE LET end == CHOOSE n \in at..Len(buf) :
                                IF at = Len(buf) \/ at + 1 + buf[at + 1] > Len(buf) THEN n = Len(buf)
                                ELSE n = at + 1 + buf[at + 1]
                 IN  <<[page |-> buf[at], masks |-> SubSeq(buf, at + 2, end)]>> \o Rest[end + 1]
    IN  [error |-> "none", mask |-> Rest[1]]

DecodeChannelMask(buf) ==
    LET Rest[at \in 1..Len(buf) + 1] ==
            IF at > Len(buf) THEN [error |-> "none", mask |-> <<>>]
            ELSE IF at = Len(buf) \/ at + 1 + buf[at + 1] > Len(buf) THEN [error |-> "bad"]
            ELSE LET end == at + 1 + buf[at + 1]
                     rest == Rest[end + 1]
                 IN  IF rest.error # "none" THEN rest
                     ELSE [rest EXCEPT !.mask =
                              <<[page |-> buf[at], masks |-> SubSeq(buf, at + 2, end)]>> \o @]
    IN  Rest[1]

EncodeField(f, v) ==
    CASE f \in Timestamps -> EncodeTimestamp(v)
      [] f \in Uint16Fields -> Uint16(v)
      [] f = "Channel" -> <<v.page>> \o Uint16(v.number)
      [] f = "ChannelMask" -> EncodeChannelMask(v).buf
      [] f = "SecurityPolicy" -> Uint16(v.rotationTime) \o v.flags
      [] f = "RegistrarIpv6Addr" -> v.address
      [] OTHER -> v

DecodeField(f, v) ==
    CASE f \in Timestamps -> DecodeTimestamp(v)
      [] f \in Uint16Fields -> v[1] * 256 + v[2]
      [] f = "Channel" -> [page |-> v[1], number |-> v[2] * 256 + v[3]]
      [] f = "ChannelMask" -> DecodeChannelMask(v).mask
      [] f = "SecurityPolicy" ->
             [rotationTime |-> v[1] * 256 + v[2], flags |-> SubSeq(v, 3, Len(v))]
      [] f = "RegistrarIpv6Addr" -> [address |-> v]
      [] OTHER -> v

(* AppendTlv refuses a value that the TLV does not allow.                  *)
AppendFields(fields, d) ==
    LET bad == \E f \in Elements(fields) \cap DOMAIN d :
                   \/ f = "ChannelMask" /\ EncodeChannelMask(d[f]).error # "none"
                   \/ ~IsValid(TlvTypeOf[f], Len(EncodeField(f, d[f])))
        Encoded(f) == SerializeTlv(TlvTypeOf[f], EncodeField(f, d[f]))
    IN  [error |-> IF bad THEN "invalid" ELSE "none",
         payload |-> Concat([i \in DOMAIN fields |->
                         IF fields[i] \in DOMAIN d THEN Encoded(fields[i]) ELSE <<>>])]

EncodeActiveOperationalDataset(d) == AppendFields(ActiveFields, d)
EncodePendingOperationalDataset(d) == AppendFields(PendingFields, d)
EncodeCommissionerDataset(d) == AppendFields(CommissionerFields, d)
EncodeBbrDataset(d) == AppendFields(BbrFields, d)

TlvTypes(fields, flags) ==
    Concat([i \in DOMAIN fields |-> IF fields[i] \in flags THEN <<TlvTypeOf[fields[i]]>> ELSE <<>>])

GetActiveOperationalDatasetTlvs(flags) == TlvTypes(ActiveFields, flags)
GetPendingOperationalDatasetTlvs(flags) == TlvTypes(PendingFields, flags)
GetCommissionerDatasetTlvs(flags) == TlvTypes(CommissionerFields, flags)
GetBbrDatasetTlvs(flags) == TlvTypes(BbrFields, flags)

(* The fields of a set of TLVs.                                            *)
FieldsIn(set, fields) ==
    [f \in {g \in Elements(fields) : TlvTypeOf[g] \in DOMAIN set} |->
        DecodeField(f, set[TlvTypeOf[f]])]

DecodeFields(got, fields) ==
    IF got.error # "none" THEN [error |-> "bad", dataset |-> EmptyDataset]
    ELSE [error |-> "none", dataset |-> FieldsIn(got.set, fields)]

(* What dataset d becomes.  An error of the channel mask ends the decoding *)
(* but is not returned; d is left as it was.                               *)
DecodeActiveFields(got, d) ==
    IF /\ got.error = "none" /\ kChannelMask \in DOMAIN got.set
       /\ DecodeChannelMask(got.set[kChannelMask]).error # "none"
    THEN [error |-> "none", dataset |-> d]
    ELSE DecodeFields(got, ActiveFields)

DecodeActiveOperationalDataset(d, payload) == DecodeActiveFields(GetTlvSet(payload), d)

DecodePendingFields(got, active) ==
    IF active.error # "none" THEN active
    ELSE [active EXCEPT !.dataset =
             Override(@, FieldsIn(got.set, <<"DelayTimer", "PendingTimestamp">>))]

DecodePendingOperationalDataset(payload) ==
    DecodePendingFields(GetTlvSet(payload), DecodeActiveOperationalDataset(EmptyDataset, payload))

DecodeCommissionerDataset(payload) == DecodeFields(GetTlvSet(payload), CommissionerFields)
DecodeBbrDataset(payload) == DecodeFields(GetTlvSet(payload), BbrFields)

-----------------------------------------------------------------------------
(* Requests, as [error, payload], or what the user's handler is given, as  *)
(* [error, dataset].                                                       *)

SessionId == 258
SomeToken == [i \in 1..300 |-> 0]
SomeSignature == [i \in 1..64 |-> 0]
MaxRetrievalTimer == <<0, 0, 0, 60>>
PbbrUri == [i \in 1..40 |-> 99]
kStateAccept == 1

Refused == [error |-> "refused", payload |-> <<>>]

(* Mutant: the signature is taken to cover itself.                         *)
ShouldBeSerializedAll(type, uri) ==
    CASE uri = "c/ps" -> type # kDelayTimer /\ IsDatasetParameter(FALSE, type)
      [] uri = "c/as" -> IsDatasetParameter(TRUE, type)
      [] OTHER -> type \notin {kCommissionerToken, kCommissionerPenSignature}

(* The TLVs that a signature covers; kThreadCommissionerToken and          *)
(* kThreadCommissionerSignature have the numbers of the MeshCoP ones.      *)
ShouldBeSerialized(type, uri) ==
    CASE uri = "c/ps" -> type # kDelayTimer /\ IsDatasetParameter(FALSE, type)
      [] uri = "c/as" -> IsDatasetParameter(TRUE, type)
      [] OTHER -> type \notin {kCommissionerToken, kCommissionerSignature, kCommissionerPenSignature}

(* The numbers of S in order.                                              *)
Sorted(S) == [i \in 1..Cardinality(S) |-> CHOOSE t \in S : Cardinality({u \in S : u < t}) = i - 1]

(* The TLVs of set that have one of the types, in the order of these.      *)
TlvsOf(set, types) ==
    LET order == Sorted(types)
    IN  Concat([i \in DOMAIN order |-> SerializeTlv(order[i], set[order[i]])])

SignedTlvs(set, uri) == TlvsOf(set, {t \in DOMAIN set : ShouldBeSerialized(t, uri)})

(* What is signed: the URI path, by the leader's name for it, and TLVs of  *)
(* the payload in the order of their types.                                *)
PrepareSigningContent(uri, payload) ==
    [uri |-> CASE uri = "c/cp" -> "c/lp" [] uri = "c/ca" -> "c/la" [] OTHER -> uri,
     tlvs |-> SignedTlvs(GetTlvSet(payload).set, uri)]

(* In a commercial network a request carries the token and a signature.    *)
SignRequest(uri, payload) ==
    IF mode # "ccm" THEN [error |-> "none", uri |-> uri, payload |-> payload]
    ELSE [error |-> "none", uri |-> uri,
          payload |-> payload \o SerializeTlv(kCommissionerToken, SomeToken)
                              \o SerializeTlv(kCommissionerSignature, SomeSignature),
          signed |-> PrepareSigningContent(uri, payload)]

(* The verifier goes by the request as it was sent.                        *)
ValidateSignature(request) ==
    request.signed = PrepareSigningContent(request.uri, request.payload)

(* A SET request that has passed its checks.                               *)
SetRequest(uri, encoded) ==
    IF encoded.error # "none" THEN Refused
    ELSE SignRequest(uri, SerializeTlv(kCommissionerSessionId, Uint16(SessionId)) \o encoded.payload)

(* The read-only fields are left out.                                      *)
SetCommissionerDataset(d) ==
    LET write == Only(d, DOMAIN d \ {"SessionId", "BorderAgentLocator"})
    IN  IF DOMAIN write = {} THEN Refused ELSE SetRequest("c/cs", EncodeCommissionerDataset(write))

SetActiveDataset(d) ==
    IF \/ "ActiveTimestamp" \notin DOMAIN d
       \/ DOMAIN d \cap {"Channel", "PanId", "MeshLocalPrefix", "NetworkMasterKey"} # {}
       \/ mode = "disabled"
    THEN Refused ELSE SetRequest("c/as", EncodeActiveOperationalDataset(d))

SetPendingDataset(d) ==
    IF ~({"ActiveTimestamp", "PendingTimestamp", "DelayTimer"} \subseteq DOMAIN d) \/ mode = "disabled"
    THEN Refused ELSE SetRequest("c/ps", EncodePendingOperationalDataset(d))

SetBbrDataset(d) ==
    IF mode # "ccm" \/ "RegistrarIpv6Addr" \in DOMAIN d
    THEN Refused ELSE SetRequest("c/bs", EncodeBbrDataset(d))

(* The primary backbone router is told where the pending dataset is.       *)
SetSecurePendingDataset(d) ==
    LET encoded == EncodePendingOperationalDataset(d)
        timestamp == IF "PendingTimestamp" \in DOMAIN d THEN d["PendingTimestamp"] ELSE CurrentTime
        secureDissemination == EncodeTimestamp(timestamp) \o MaxRetrievalTimer \o PbbrUri
    IN  IF mode # "ccm" \/ "DelayTimer" \notin DOMAIN d THEN Refused
        ELSE SetRequest("c/sp", [encoded EXCEPT !.payload =
                                    SerializeTlv(kSecureDissemination, secureDissemination) \o @])

(* CommandReenroll and CommandDomainReset.                                 *)
SendProxyMessage(uri) ==
    IF mode # "ccm" THEN Refused ELSE SetRequest(uri, [error |-> "none", payload |-> <<>>])

CommandMigrate(name) ==
    IF mode # "ccm" \/ Len(name) > 16 THEN Refused
    ELSE SetRequest("c/nm", [error |-> "none", payload |-> SerializeTlv(kNetworkName, name)])

RegisterMulticastListener(addresses, timeout) ==
    IF mode = "disabled" \/ addresses = <<>> THEN Refused
    ELSE SignRequest("n/mr", SerializeTlv(kThreadCommissionerSessionId, Uint16(SessionId))
                             \o SerializeTlv(kThreadTimeout, timeout)
                             \o SerializeTlv(kThreadIpv6Addresses, Concat(addresses)))

(* Without a Get TLV a GET request is for everything.                      *)
GetRequest(types) == IF types = <<>> THEN <<>> ELSE SerializeTlv(kGet, types)

Unsigned(uri, payload) == [error |-> "none", uri |-> uri, payload |-> payload]

GetCommissionerDataset(flags) == Unsigned("c/cg", GetRequest(GetCommissionerDatasetTlvs(flags)))
GetRawActiveDataset(flags) ==
    IF mode = "disabled" THEN Refused
    ELSE SignRequest("c/ag", GetRequest(GetActiveOperationalDatasetTlvs(flags)))
GetPendingDataset(flags) ==
    IF mode = "disabled" THEN Refused
    ELSE SignRequest("c/pg", GetRequest(GetPendingOperationalDatasetTlvs(flags)))
GetBbrDataset(flags) ==
    IF mode # "ccm" THEN Refused ELSE Unsigned("c/bg", GetRequest(GetBbrDatasetTlvs(flags)))

(* The handlers of their responses.                                        *)
GetActiveDatasetDone(payload) == DecodeActiveOperationalDataset(NewDataset("active"), payload)

NeedsDelayTimer(got) ==
    IF DOMAIN got.dataset # {} /\ "DelayTimer" \notin DOMAIN got.dataset
    THEN [error |-> "bad", dataset |-> EmptyDataset]
    ELSE got

GetPendingDatasetDone(payload) == NeedsDelayTimer(DecodePendingOperationalDataset(payload))

(* The answer to a SET request or a command.  Where the State TLV is not   *)
(* mandatory, a payload without one, or that was cut off, is acceptance.   *)
HandleStateResponse(payload, aStateTlvIsMandatory) ==
    LET got == GetTlvSet(payload)
        state == IF got.error = "none" /\ kState \in DOMAIN got.set THEN {got.set[kState]} ELSE {}
    IN  CASE state = {} -> IF aStateTlvIsMandatory THEN "bad" ELSE "none"
          [] state = {<<kStateAccept>>} -> "none"
          [] OTHER -> "rejected"

(* MGMT_PANID_CONFLICT.ans and MGMT_ED_REPORT.ans: what the user is told,  *)
(* if anything.                                                            *)
HandlePanIdConflict(payload) ==
    LET got == GetTlvSet(payload)
    IN  IF got.error # "none" \/ ~({kChannelMask, kPanId} \subseteq DOMAIN got.set) THEN {}
        ELSE LET mask == DecodeChannelMask(got.set[kChannelMask])
             IN  IF mask.error # "none" THEN {}
                 ELSE {[mask |-> mask.mask, panId |-> DecodeField("PanId", got.set[kPanId])]}

HandleEnergyReport(payload) ==
    LET got == GetTlvSet(payload)
        mask == IF kChannelMask \in DOMAIN got.set THEN DecodeChannelMask(got.set[kChannelMask])
                ELSE [error |-> "none", mask |-> <<>>]
    IN  IF got.error # "none" THEN {}
        ELSE IF mask.error # "none" THEN {}
        ELSE {[mask |-> mask.mask,
               energyList |-> IF kEnergyList \in DOMAIN got.set THEN got.set[kEnergyList] ELSE <<>>]}

-----------------------------------------------------------------------------
(* JSON.  A text is a sequence of characters [char], but that names,       *)
(* values other than strings and the characters that the library escapes   *)
(* are one [name], [value] or [escaped] each.                              *)

Hex(v) == [i \in 1..2 * Len(v) |-> IF i % 2 = 1 THEN v[(i + 1) \div 2] \div 16 ELSE v[i \div 2] % 16]
FromHex(h) == [i \in 1..Len(h) \div 2 |-> h[2 * i - 1] * 16 + h[2 * i]]

(* Mutant: the length is in bytes.                                         *)
Ipv6PrefixToStringBytes(prefix) ==
    [address |-> prefix \o [i \in 1..16 - Len(prefix) |-> 0], length |-> Len(prefix)]

Ipv6PrefixToString(prefix) ==
    [address |-> prefix \o [i \in 1..16 - Len(prefix) |-> 0], length |-> 8 * Len(prefix)]
Ipv6PrefixFromString(text) == SubSeq(text.address, 1, text.length \div 8)

HexFields == {"ExtendedPanId", "NetworkMasterKey", "PSKc",
              "SteeringData", "AeSteeringData", "NmkpSteeringData"}
TextFields == {"NetworkName", "TriHostname", "RegistrarHostname"}

(* What can be written: the library refuses a text that is not UTF-8, of   *)
(* which these are the ASCII characters, and Ipv6PrefixToString a prefix   *)
(* that is longer than an address.                                         *)
Ascii == 0..127
Writable(f, v) == (f \in TextFields => v \in Seq(Ascii)) /\ (f = "MeshLocalPrefix" => Len(v) <= 16)

ASSUME JsonAssumption ==
    \A f \in DOMAIN FieldInputs : \A v \in FieldInputs[f] : Writable(f, v)

ToJson(f, v) ==
    CASE f \in HexFields -> Hex(v)
      [] f = "MeshLocalPrefix" -> Ipv6PrefixToString(v)
      [] f = "ChannelMask" -> [i \in DOMAIN v |-> [v[i] EXCEPT !.masks = Hex(@)]]
      [] f = "SecurityPolicy" -> [v EXCEPT !.flags = Hex(@)]
      [] OTHER -> v

FromJson(f, j) ==
    CASE f \in HexFields -> FromHex(j)
      [] f = "MeshLocalPrefix" -> Ipv6PrefixFromString(j)
      [] f = "ChannelMask" -> [i \in DOMAIN j |-> [j[i] EXCEPT !.masks = FromHex(@)]]
      [] f = "SecurityPolicy" -> [j EXCEPT !.flags = FromHex(@)]
      [] OTHER -> j

Char(c) == [char |-> c]
Quote == Char(34)
Newline == Char(10)
Solidus == Char(47)
Asterisk == Char(42)

Escape(c) == IF c \in 0..31 \cup {34, 92} THEN [escaped |-> c] ELSE Char(c)
Unescape(t) == IF "char" \in DOMAIN t THEN t.char ELSE t.escaped

(* What the JSON library writes: a line for each field,                    *)
Dump(fields, d) ==
    Concat([i \in DOMAIN fields |->
        LET f == fields[i]
        IN  IF f \notin DOMAIN d THEN <<>>
            ELSE <<[name |-> f]>>
                 \o (IF f \in TextFields
                     THEN <<Quote>> \o [c \in DOMAIN d[f] |-> Escape(d[f][c])] \o <<Quote>>
                     ELSE <<[value |-> ToJson(f, d[f])]>>)
                 \o <<Newline>>])

(* and how it reads them.                                                  *)
ParseJson(text) ==
    LET Rest[at \in 1..Len(text) + 1] ==
            IF at > Len(text) THEN [error |-> "none", dataset |-> EmptyDataset]
            ELSE LET closing == {i \in at + 2..Len(text) : text[i] = Quote}
                     string == at < Len(text) /\ text[at + 1] = Quote /\ closing # {}
                     end == IF string THEN CHOOSE i \in closing : \A k \in closing : i <= k ELSE at + 1
                     good == /\ "name" \in DOMAIN text[at] /\ end < Len(text) /\ text[end + 1] = Newline
                             /\ string \/ "value" \in DOMAIN text[end]
                             /\ \A i \in at + 1..end - 1 : {"char", "escaped"} \cap DOMAIN text[i] # {}
                     f == text[at].name
                     v == IF string THEN [i \in 1..end - at - 2 |-> Unescape(text[at + 1 + i])]
                          ELSE FromJson(f, text[end].value)
                     rest == Rest[end + 2]
                 IN  IF ~good THEN [error |-> "invalid"]
                     ELSE IF rest.error # "none" THEN rest
                     ELSE [rest EXCEPT !.dataset = Override([g \in {f} |-> v], @)]
    IN  Rest[1]

(* Comments are removed before, also within a string.                      *)
StripComments(text) ==
    LET First(S) == IF S = {} THEN Len(text) + 1 ELSE CHOOSE i \in S : \A k \in S : i <= k
        Rest[at \in 1..Len(text) + 1] ==
            LET begin == First({i \in at..Len(text) - 1 :
                                   text[i] = Solidus /\ text[i + 1] \in {Solidus, Asterisk}})
                end == IF text[begin + 1] = Asterisk
                       THEN First({i \in begin + 4..Len(text) + 1 :
                                      text[i - 2] = Asterisk /\ text[i - 1] = Solidus})
                       ELSE First({i \in begin + 3..Len(text) + 1 : text[i - 1] = Newline})
            IN  SubSeq(text, at, begin - 1) \o IF begin > Len(text) THEN <<>> ELSE Rest[end]
    IN  Rest[1]

CommissionerDatasetToJson(d) == Dump(CommissionerFields, d)
BbrDatasetToJson(d) == Dump(BbrFields, d)
ActiveDatasetToJson(d) == Dump(ActiveFields, d)
PendingDatasetToJson(d) == Dump(PendingFields, d)

(* Read into a new dataset.                                                *)
FromText(k, text, ignored) ==
    LET parsed == ParseJson(StripComments(text))
    IN  IF parsed.error # "none" THEN parsed
        ELSE [parsed EXCEPT !.dataset =
                 Override(NewDataset(k), Only(@, Elements(FieldsOf[k]) \ ignored))]

CommissionerDatasetFromJson(text) == FromText("commissioner", text, {"SessionId", "BorderAgentLocator"})
BbrDatasetFromJson(text) == FromText("bbr", text, {})
ActiveDatasetFromJson(text) == FromText("active", text, {})
PendingDatasetFromJson(text) == FromText("pending", text, {})

-----------------------------------------------------------------------------
DataInit ==
    /\ kind \in DOMAIN FieldsOf
    /\ dataset \in {EmptyDataset, NewDataset(kind)}
    /\ mode \in {"disabled", "active", "ccm"}

GiveField(f, v) ==
    /\ f \in Elements(FieldsOf[kind])
    /\ Cardinality((DOMAIN dataset \cup {f}) \ Timestamps) <= MaxFields
    /\ dataset' = Override(dataset, [g \in {f} |-> v])
    /\ UNCHANGED <<kind, mode>>

DataNext == \E f \in DOMAIN FieldInputs : \E v \in FieldInputs[f] : GiveField(f, v)

DataSpec == DataInit /\ [][DataNext]_dataVars

-----------------------------------------------------------------------------
SetDataset ==
    CASE kind = "active" -> SetActiveDataset(dataset)
      [] kind = "pending" -> SetPendingDataset(dataset)
      [] kind = "commissioner" -> SetCommissionerDataset(dataset)
      [] kind = "bbr" -> SetBbrDataset(dataset)

GetDataset(flags) ==
    CASE kind = "active" -> GetRawActiveDataset(flags)
      [] kind = "pending" -> GetPendingDataset(flags)
      [] kind = "commissioner" -> GetCommissionerDataset(flags)
      [] kind = "bbr" -> GetBbrDataset(flags)

GetDatasetDone(k, payload) ==
    CASE k = "active" -> GetActiveDatasetDone(payload)
      [] k = "pending" -> GetPendingDatasetDone(payload)
      [] k = "commissioner" -> DecodeCommissionerDataset(payload)
      [] k = "bbr" -> DecodeBbrDataset(payload)

(* The leader answers a GET request with the fields that it asks for, of   *)
(* those that it was given by a SET request.                               *)
LeaderAnswer(set, get) ==
    LET held == GetTlvSet(set).set
        asked == GetTlvSet(get).set
        types == {TlvTypeOf[f] : f \in Elements(FieldsOf[kind])} \cap DOMAIN held
                 \cap (IF kGet \in DOMAIN asked THEN Elements(asked[kGet]) ELSE DOMAIN held)
    IN  TlvsOf(held, types)

(* What a SET request carries to the leader is read back the same, by a    *)
(* GET request for any of the fields or for all; but for the read-only     *)
(* fields, and that a pending dataset that is asked for without its delay  *)
(* timer is taken for malformed.                                           *)
DatasetSurvives ==
    LET set == SetDataset
        written == IF kind # "commissioner" THEN dataset
                   ELSE [f \in (DOMAIN dataset \ {"BorderAgentLocator"}) \cup {"SessionId"} |->
                            IF f = "SessionId" THEN SessionId ELSE dataset[f]]
    IN  set.error = "none" =>
        \A flags \in SUBSET DOMAIN dataset :
            LET got == GetDatasetDone(kind, LeaderAnswer(set.payload, GetDataset(flags).payload))
                want == IF flags = {} THEN written ELSE Only(written, flags)
            IN  IF kind = "pending" /\ flags # {} /\ "DelayTimer" \notin flags
                THEN got.error = "bad"
                ELSE got = [error |-> "none", dataset |-> want]

(* A request that is signed verifies with whoever receives it: what the    *)
(* verifier prepares from the request with its token and signature is what *)
(* was signed.  And a signed SET request is bound to its dataset: from     *)
(* what was signed every field can be read back, but for the delay timer   *)
(* of a pending dataset.                                                   *)
SignatureFits ==
    LET sent(request) == request.error = "none"
        set == SetDataset
        flags == DOMAIN dataset
        others == {GetRawActiveDataset(flags), GetPendingDataset(flags), SendProxyMessage("c/re"),
                   SendProxyMessage("c/rt"),
                   RegisterMulticastListener(<<SubSeq(PbbrUri, 1, 16)>>, MaxRetrievalTimer)}
                  \cup {CommandMigrate(dataset[f]) : f \in {"NetworkName"} \cap flags}
                  \cup (IF kind = "pending" THEN {SetSecurePendingDataset(dataset)} ELSE {})
        signed == IF kind = "pending" THEN DecodePendingOperationalDataset(set.signed.tlvs)
                  ELSE GetDatasetDone(kind, set.signed.tlvs)
        covered == Only(dataset, flags \ {"DelayTimer", "SessionId", "BorderAgentLocator"})
    IN  mode = "ccm" =>
        /\ \A request \in others : sent(request) => ValidateSignature(request)
        /\ sent(set) =>
            /\ ValidateSignature(set)
            /\ signed.error = "none"
            /\ Only(signed.dataset, DOMAIN signed.dataset \ {"SessionId"}) = covered

(* A payload that was cut off is an error.  From any other the user is     *)
(* given the fields that have a valid TLV, of each the last, all or none:  *)
(* a channel mask that cannot be decoded leaves an active dataset with the *)
(* time of the answer only, a pending one with its own two fields only,    *)
(* and a report unreported.  A State TLV is told as it is.                 *)
AnswerIsWhole ==
    LET held(k) == {f \in Elements(FieldsOf[k]) : LastOf(TlvTypeOf[f]) # {}}
        badMask == \E i \in LastOf(kChannelMask) : DecodeChannelMask(tlvs[i][2]).error # "none"
    IN  (\A i \in DOMAIN tlvs : ~Overlong(i)) =>
        /\ \A k \in DOMAIN FieldsOf :
            LET got == GetDatasetDone(k, Payload)
                given == CASE badMask /\ k = "active" -> {"ActiveTimestamp"}
                           [] badMask /\ k = "pending" -> held(k) \cap {"DelayTimer", "PendingTimestamp"}
                           [] OTHER -> held(k)
            IN  IF cut # 0 \/ (k = "pending" /\ given # {} /\ "DelayTimer" \notin given)
                THEN got.error = "bad"
                ELSE /\ got.error = "none" /\ DOMAIN got.dataset = given
                     /\ \A f \in given : IF badMask /\ k = "active" THEN got.dataset[f] = CurrentTime
                                         ELSE \E i \in LastOf(TlvTypeOf[f]) :
                                                  EncodeField(f, got.dataset[f]) = tlvs[i][2]
        /\ (HandlePanIdConflict(Payload) # {}) =
               (cut = 0 /\ ~badMask /\ {"ChannelMask", "PanId"} \subseteq held("active"))
        /\ (HandleEnergyReport(Payload) # {}) = (cut = 0 /\ ~badMask)
        /\ (HandleStateResponse(Payload, TRUE) = "none") =
               (cut = 0 /\ \E i \in LastOf(kState) : tlvs[i][2] = <<kStateAccept>>)
        /\ (HandleStateResponse(Payload, FALSE) = "rejected") =
               (cut = 0 /\ \E i \in LastOf(kState) : tlvs[i][2] # <<kStateAccept>>)

(* A dataset that is exported as JSON and imported again is the same, but  *)
(* for the read-only fields, and for the timestamps, which are the current *)
(* time if it had none; unless a name in it looks like a comment.          *)
JsonSurvives ==
    LET ToText == CASE kind = "active" -> ActiveDatasetToJson(dataset)
                    [] kind = "pending" -> PendingDatasetToJson(dataset)
                    [] kind = "commissioner" -> CommissionerDatasetToJson(dataset)
                    [] kind = "bbr" -> BbrDatasetToJson(dataset)
        back == CASE kind = "active" -> ActiveDatasetFromJson(ToText)
                  [] kind = "pending" -> PendingDatasetFromJson(ToText)
                  [] kind = "commissioner" -> CommissionerDatasetFromJson(ToText)
                  [] kind = "bbr" -> BbrDatasetFromJson(ToText)
        commented == \E f \in DOMAIN dataset \cap TextFields :
                        \E i \in 1..Len(dataset[f]) - 1 :
                            dataset[f][i] = 47 /\ dataset[f][i + 1] \in {42, 47}
    IN  ~commented =>
        /\ back.error = "none"
        /\ back.dataset = Override(NewDataset(kind),
                               Only(dataset, DOMAIN dataset \ {"SessionId", "BorderAgentLocator"}))
=============================================================================
