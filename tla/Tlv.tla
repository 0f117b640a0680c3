-------------------------------- MODULE Tlv --------------------------------
(***************************************************************************)
(* The TLVs (type, length, value) of Thread messages: library/tlv.cpp.  A  *)
(* TLV is <<type, value>>, a value a sequence of bytes.                    *)
(*                                                                         *)
(* The state is a payload: TLVs that a peer puts one after the other, the  *)
(* last of which may be cut off.                                           *)
(***************************************************************************)
EXTENDS Naturals, Sequences

CONSTANTS
    TlvInputs,   \* TLVs that a payload is made of
    MaxTlvs      \* bound on their number

Byte == 0..255
TlvLimit == 65536   \* lengths have 16 bits

ASSUME TlvAssumption ==
    /\ MaxTlvs \in Nat
    /\ \A t \in TlvInputs : t \in Byte \X Seq(Byte) /\ Len(t[2]) < TlvLimit

VARIABLES
    tlvs,   \* the TLVs of the payload
    cut     \* number of bytes missing at its end

tlvVars == <<tlvs, cut>>

kEscapeLength == 255

kChannel == 0
kPanId == 1
kExtendedPanId == 2
kNetworkName == 3
kPSKc == 4
kNetworkMasterKey == 5
kNetworkMeshLocalPrefix == 7
kSteeringData == 8
kBorderAgentLocator == 9
kCommissionerSessionId == 11
kSecurityPolicy == 12
kGet == 13
kActiveTimestamp == 14
kState == 16
kJoinerDtlsEncapsulation == 17
kJoinerUdpPort == 18
kUdpEncapsulation == 48
kPendingTimestamp == 51
kDelayTimer == 52
kChannelMask == 53
kEnergyList == 57
kSecureDissemination == 58
kDomainPrefix == 60
kAeSteeringData == 61
kNmkpSteeringData == 62
kCommissionerToken == 63
kCommissionerSignature == 64
kAeUdpPort == 65
kNmkpUdpPort == 66
kTriHostname == 67
kRegistrarIpv6Address == 68
kRegistrarHostname == 69
kCommissionerPenSignature == 70

kThreadTimeout == 11
kThreadIpv6Addresses == 14
kThreadCommissionerSessionId == 15

IsExtendedTlv(type) == type \in {kUdpEncapsulation, kCommissionerToken, kJoinerDtlsEncapsulation}

(* The lengths of a TLV of the MeshCoP scope, by type; all others are      *)
(* invalid.                                                                *)
IsValid(type, n) ==
    /\ n < TlvLimit
    /\ \/ type \in {16, 54} /\ n = 1
       \/ type \in {1, 9, 11, 15, 18, 20, 55, 56, 65, 66, 128, 129} /\ n = 2
       \/ type \in {0, 12} /\ n = 3
       \/ type \in {6, 12, 52} /\ n = 4
       \/ type \in {2, 7, 14, 19, 51} /\ n = 8
       \/ type \in {5, 21, 49, 68} /\ n = 16
       \/ type \in {3, 4, 8, 35, 59, 61, 62} /\ n <= 16
       \/ type \in {33, 34} /\ n <= 32
       \/ type \in {10, 32, 36} /\ n <= 64
       \/ type \in {13, 37, 53, 57, 58, 64, 67, 69, 70} /\ n < kEscapeLength
       \/ type \in {17, 60, 63}
       \/ type = 48 /\ n >= 4

(* The sequences of s one after the other.                                 *)
Concat(s) ==
    LET upTo[k \in 0..Len(s)] == IF k = 0 THEN <<>> ELSE upTo[k - 1] \o s[k]
    IN  upTo[Len(s)]

Uint16(n) == <<n \div 256, n % 256>>

SerializeTlv(type, value) ==
    <<type>> \o (IF IsExtendedTlv(type)
                 THEN <<kEscapeLength>> \o Uint16(Len(value)) ELSE <<Len(value) % 256>>)
             \o value

(* The TLV at buf[at] and where the next one begins.                       *)
DeserializeTlv(buf, at) ==
    LET escaped == buf[at + 1] = kEscapeLength
        begin == IF escaped THEN at + 4 ELSE at + 2
        length == IF escaped THEN buf[at + 2] * 256 + buf[at + 3] ELSE buf[at + 1]
    IN  IF at + 1 > Len(buf) THEN [error |-> "bad"]
        ELSE IF begin - 1 > Len(buf) THEN [error |-> "bad"]
        ELSE IF begin + length - 1 > Len(buf) THEN [error |-> "bad"]
        ELSE [error |-> "none", type |-> buf[at], value |-> SubSeq(buf, begin, begin + length - 1),
              next |-> begin + length]

(* The valid TLVs of a buffer by type, the last of each type; nothing if   *)
(* the buffer ends within a TLV.                                           *)
GetTlvSet(buf) ==
    LET Put(tlv, set) == IF tlv.type \in DOMAIN set \/ ~IsValid(tlv.type, Len(tlv.value)) THEN set
                         ELSE [t \in DOMAIN set \cup {tlv.type} |->
                                  IF t = tlv.type THEN tlv.value ELSE set[t]]
        Rest[at \in 1..Len(buf) + 1] ==
            IF at > Len(buf) THEN [error |-> "none", set |-> [t \in {} |-> <<>>]]
            ELSE LET tlv == DeserializeTlv(buf, at)
                     rest == Rest[tlv.next]
                 IN  IF tlv.error # "none" THEN tlv
                     ELSE IF rest.error # "none" THEN rest
                     ELSE [error |-> "none", set |-> Put(tlv, rest.set)]
    IN  Rest[1]

IsDatasetParameter(isActive, type) ==
    type \in {kActiveTimestamp, kChannel, kChannelMask, kExtendedPanId, kNetworkMeshLocalPrefix,
              kNetworkMasterKey, kNetworkName, kPanId, kPSKc, kSecurityPolicy}
             \cup (IF isActive THEN {} ELSE {kDelayTimer, kPendingTimestamp})

-----------------------------------------------------------------------------
TlvInit == tlvs = <<>> /\ cut = 0

(* A peer appends a TLV, also one whose length the type does not have.     *)
PutTlv(t) ==
    /\ cut = 0 /\ Len(tlvs) < MaxTlvs
    /\ tlvs' = Append(tlvs, t)
    /\ UNCHANGED cut

CutOff(n) ==
    /\ cut = 0 /\ tlvs # <<>>
    /\ n < Len(SerializeTlv(tlvs[Len(tlvs)][1], tlvs[Len(tlvs)][2]))
    /\ cut' = n
    /\ UNCHANGED tlvs

TlvNext ==
    \/ \E t \in TlvInputs : PutTlv(t)
    \/ \E n \in {1, 3} : CutOff(n)

TlvSpec == TlvInit /\ [][TlvNext]_tlvVars

Payload ==
    LET all == Concat([i \in DOMAIN tlvs |-> SerializeTlv(tlvs[i][1], tlvs[i][2])])
    IN  SubSeq(all, 1, Len(all) - cut)

-----------------------------------------------------------------------------
(* The last valid TLV of each type.                                        *)
Valid(i) == IsValid(tlvs[i][1], Len(tlvs[i][2]))
LastOf(type) == {i \in DOMAIN tlvs : /\ tlvs[i][1] = type /\ Valid(i)
                                     /\ \A j \in DOMAIN tlvs :
                                            j > i => tlvs[j][1] # type \/ ~Valid(j)}

(* A base TLV whose length the one-byte field cannot hold: only for        *)
(* kDomainPrefix, whose lengths are not restricted, does the code make it. *)
Overlong(i) ==
    /\ tlvs[i][1] = kDomainPrefix \/ ~IsValid(tlvs[i][1], Len(tlvs[i][2]))
    /\ ~IsExtendedTlv(tlvs[i][1])
    /\ Len(tlvs[i][2]) >= kEscapeLength
=============================================================================
