------------------------------ MODULE MCCodecs ------------------------------
(* Instances of the codecs for TLC.                                        *)
EXTENDS CoapMessage, BorderAgent

VARIABLE part   \* the codec that a behaviour is about

Bytes(n) == [i \in 1..n |-> 65]

\* Type, code and message id, at the ends of their ranges.
SomeHeaders == {<<0, 2, 1>>, <<3, 255, 65535>>}

SomeTokens == {<<>>, Bytes(1), Bytes(8), Bytes(9)}

\* Lengths around the limits of the option format and of the options.
SomeOptions ==
    {<<12, <<61>>>>, <<12, <<>>>>, <<17, <<1, 2>>>>, <<17, Bytes(3)>>, <<60, <<0>>>>, <<5, <<>>>>}
    \cup {<<n, Bytes(l)>> : n \in {1, 11, 15}, l \in {0, 1, 8, 12, 13, 14, 255}}
    \cup {<<n, Bytes(l)>> : n \in {3, 35}, l \in {0, 13, 14, 268, 269, 1034}}

\* "/", "/c/a", "c", "/c/", "//c", " c%20", "/c%2Fa", "%252", "%4", "%2541", ""
SomePaths ==
    {<<47>>, <<47, 99, 47, 97>>, <<99>>, <<47, 99, 47>>, <<47, 47, 99>>, <<32, 99, 37, 50, 48>>,
     <<47, 99, 37, 50, 70, 97>>, <<37, 50, 53, 50>>, <<37, 52>>, <<37, 50, 53, 52, 49>>, <<>>}

SomePayloads == {<<>>, <<255>>, <<0, 255>>}

\* Headers without a token, with one that is cut off at first, with one that is
\* too long, and of a wrong version.
SomeHeads ==
    {<<64, 1, 0, 1>>, <<98, 69, 1, 0, 7>>, <<73, 0, 0, 0>>, <<128, 1, 0, 1>>}

\* Option headers with their values, a value length that wraps to 0, payload
\* markers, invalid half bytes and single characters.
SomeChunks ==
    {<<177, 97>>, <<177, 37>>, <<190, 254, 243>>, <<1>>, <<17, 60>>, <<81, 47>>, <<208, 4>>, <<33>>,
     <<37>>, <<32>>, <<48>>, <<47>>, <<74>>, <<255>>, <<240>>, <<15>>}

\* TLVs of every kind of length: fixed, bounded, escaped, at their limits, and
\* invalid, unknown or repeated ones.
SomeTlvs ==
    {<<0, <<0, 0, 11>>>>, <<0, <<0, 11>>>>, <<16, <<1>>>>, <<16, <<255>>>>, <<1, <<255, 254>>>>,
     <<1, <<1, 2>>>>, <<200, Bytes(3)>>, <<14, <<0, 0, 0, 0, 0, 1, 255, 255>>>>,
     <<51, <<1, 0, 0, 0, 0, 1, 0, 2>>>>, <<52, <<255, 255, 255, 255>>>>,
     <<12, <<2, 160, 248>>>>, <<12, <<2, 160, 248, 1>>>>, <<3, Bytes(17)>>, <<8, <<>>>>,
     <<11, <<1, 2>>>>, <<57, Bytes(2)>>, <<60, Bytes(255)>>, <<64, Bytes(254)>>,
     <<67, Bytes(2)>>, <<68, Bytes(16)>>,
     <<53, <<0, 4, 0, 31, 255, 224>>>>, <<53, <<0, 1, 7, 2, 0>>>>, <<53, <<0, 4, 0, 31>>>>,
     <<53, <<0>>>>, <<53, <<>>>>}
    \cup {<<17, Bytes(n)>> : n \in {0, 255}} \cup {<<63, Bytes(n)>> : n \in {254, 256}}
    \cup {<<48, Bytes(n)>> : n \in {3, 4}}

Time(s, t, u) == [seconds |-> s, ticks |-> t, u |-> u]
Now == Time(<<0, 0, 94, 1, 2, 3>>, 5, 0)

\* "n", "a//b", "a/*", "*/b", "a/b/", and a quote and a newline
Texts == {<<110>>, <<97, 47, 47, 98>>, <<97, 47, 42>>, <<42, 47, 98>>, <<97, 47, 98, 47>>, <<34, 10>>}

SomeFields ==
    [ActiveTimestamp |-> {Time(<<0, 0, 0, 0, 0, 1>>, 32767, 1)},
     PendingTimestamp |-> {Time(<<255, 255, 255, 255, 255, 255>>, 1, 0)},
     Channel |-> {[page |-> 0, number |-> 11], [page |-> 255, number |-> 65535]},
     ChannelMask |-> {<<>>, <<[page |-> 0, masks |-> <<0, 31, 255, 224>>]>>,
                      <<[page |-> 0, masks |-> <<>>], [page |-> 2, masks |-> <<7>>]>>,
                      <<[page |-> 0, masks |-> Bytes(253)]>>, <<[page |-> 0, masks |-> Bytes(255)]>>},
     ExtendedPanId |-> {Bytes(8), Bytes(7)},
     MeshLocalPrefix |-> {<<253, 0, 13, 184, 0, 0, 0, 0>>},
     NetworkMasterKey |-> {Bytes(16)},
     NetworkName |-> Texts \cup {<<>>, Bytes(16), Bytes(17)},
     PanId |-> {0, 65535},
     PSKc |-> {[i \in 1..16 |-> 16 * i - 1]},
     SecurityPolicy |-> {[rotationTime |-> 672, flags |-> <<248>>], [rotationTime |-> 1, flags |-> <<>>]},
     DelayTimer |-> {<<0, 0, 0, 0>>, <<255, 255, 255, 255>>},
     SessionId |-> {1}, BorderAgentLocator |-> {1024},
     SteeringData |-> {<<>>, <<255>>, Bytes(16)},
     AeSteeringData |-> {<<0>>}, NmkpSteeringData |-> {<<1>>},
     JoinerUdpPort |-> {0, 1000}, AeUdpPort |-> {65535}, NmkpUdpPort |-> {256},
     TriHostname |-> Texts \cup {Bytes(254), Bytes(255)},
     RegistrarHostname |-> Texts,
     RegistrarIpv6Addr |-> {[address |-> Bytes(16)], [address |-> Bytes(4)]}]

\* Records of two agents, in full and with entries that are malformed.
SomeRecords ==
    {[type |-> "SRV", value |-> 49191], [type |-> "SRV", value |-> 49192],
     [type |-> "A", value |-> <<10, 0, 0, 1>>], [type |-> "A", value |-> <<10, 0, 0, 2>>],
     [type |-> "PTR", value |-> <<>>]}
    \cup {[type |-> "TXT", value |-> v] : v \in
            {<<<<"rv", <<49>>>>, <<"dd", Bytes(8)>>, <<"tv", <<49>>>>, <<"sb", <<0, 0, 1, 180>>>>,
               <<"nn", Bytes(2)>>, <<"xp", Bytes(8)>>, <<"vn", Bytes(1)>>, <<"mn", Bytes(1)>>,
               <<"at", <<0, 0, 0, 0, 0, 1, 0, 3>>>>>>,
             <<<<"pt", Bytes(4)>>, <<"vd", Bytes(1)>>, <<"vo", Bytes(3)>>, <<"dn", Bytes(3)>>,
               <<"sq", <<255>>>>, <<"bb", <<240, 191>>>>, <<"zz", <<>>>>>>,
             <<<<"nn", <<66>>>>, <<"rv", <<50>>>>, <<"nn", <<67>>>>>>,
             <<<<"sb", <<0, 0, 1>>>>>>, <<<<"nn", <<66>>>>, <<"sb", <<0, 0, 0, 75>>>>, <<"nn", <<68>>>>>>,
             <<<<"bb", <<1, 2, 3>>>>, <<"sq", <<>>>>>>}}

\* Each behaviour uses one of the codecs and leaves the others alone.
Init ==
    /\ part \in {"message", "tlv", "dataset", "agent"}
    /\ MessageInit /\ TlvInit /\ DataInit /\ AgentInit
    /\ part # "dataset" => kind = "active" /\ dataset = EmptyDataset /\ mode = "active"
    /\ part # "message" => message = EmptyMessage(<<0, 2, 1>>)

Next ==
    \/ part = "message" /\ MessageNext /\ UNCHANGED <<tlvVars, dataVars, agentVars, part>>
    \/ part = "tlv" /\ TlvNext /\ UNCHANGED <<messageVars, dataVars, agentVars, part>>
    \/ part = "dataset" /\ DataNext /\ UNCHANGED <<messageVars, tlvVars, agentVars, part>>
    \/ part = "agent" /\ AgentNext /\ UNCHANGED <<messageVars, tlvVars, dataVars, part>>

Spec == Init /\ [][Next]_<<messageVars, tlvVars, dataVars, agentVars, part>>
=============================================================================
