---------------------------- MODULE ProxyClient ----------------------------
(***************************************************************************)
(* The UDP proxy client (library/udp_proxy.cpp): requests to nodes of the  *)
(* mesh, encapsulated in UDP_TX and UDP_RX messages over the session with  *)
(* the border agent.  One endpoint with one peer address serves all nodes, *)
(* and anycast addresses need the mesh-local prefix, which is fetched from *)
(* the border agent when it is not known.                                  *)
(*                                                                         *)
(* The mesh's prefixes are 1, 2, ... in the order in which it uses them.   *)
(***************************************************************************)
EXTENDS Naturals

CONSTANTS
    Reqs,         \* requests a run may make
    Kinds,        \* "leader" and "bbr": confirmable, to the anycast address of
                  \* the leader or of the primary backbone router;
                  \* "unicast": confirmable, to the address of a node;
                  \* "multicast": non-confirmable
    MaxPrefix     \* bound on the prefixes

ASSUME ProxyAssumption ==
    /\ Kinds \subseteq {"leader", "bbr", "unicast", "multicast"}
    /\ MaxPrefix \in Nat \ {0}

VARIABLES
    mMeshLocalPrefix,  \* or 0 if it is not known
    mPeerAddr,         \* of the endpoint: <<node, prefix>>
    session,           \* with the border agent: "up", "lost" (the commissioner
                       \* is still active) or "down"; "aborted" once the process
                       \* has died
    kind,              \* kind[r], or "new"
    asked,             \* requests waiting for the border agent to read the prefix
    answer,            \* answer[r]: its answer to r on its way, a set of at most
                       \* one prefix, where 0 is an answer without a valid prefix
    pending,           \* requests outstanding in mCoap
    handled,           \* how often the handler of r was called
    sentTo,            \* sentTo[r]: addresses that r was sent to
    prefix,            \* of the mesh
    announced,         \* prefix of the last MGMT_DATASET_CHANGED received
    strayed,           \* requests outstanding while the endpoint was given another peer
    overtaken          \* the last announced prefix that overtook an answer, or 0

vars == <<mMeshLocalPrefix, mPeerAddr, session, kind, asked, answer, pending, handled,
          sentTo, prefix, announced, strayed, overtaken>>
meshVars == <<prefix, announced, overtaken>>

SomeNode == <<"node", 0>>

Init ==
    /\ mMeshLocalPrefix = 0 /\ mPeerAddr = SomeNode
    /\ session = "up"
    /\ kind = [r \in Reqs |-> "new"]
    /\ asked = {} /\ answer = [r \in Reqs |-> {}]
    /\ pending = {}
    /\ handled = [r \in Reqs |-> 0]
    /\ sentTo = [r \in Reqs |-> {}]
    /\ prefix = 1 /\ announced = 1
    /\ strayed = {} /\ overtaken = 0

Fetching == asked \cup {r \in Reqs : answer[r] # {}}

StopFetching == asked' = {} /\ answer' = [r \in Reqs |-> {}]

(* The endpoint's one peer address.                                        *)
SetPeer(addr) ==
    /\ mPeerAddr' = addr
    /\ strayed' = strayed \cup {r \in pending : kind[r] # addr[1]}
peerVars == <<mPeerAddr, strayed>>

-----------------------------------------------------------------------------
Handle(S) == handled' = [r \in Reqs |-> handled[r] + IF r \in S THEN 1 ELSE 0]

(* ProxyClient::SendRequest to an address: the endpoint's peer is set, and *)
(* mCoap sends the request, if the session is up, or calls its handler.    *)
SendTo(r, addr) ==
    /\ SetPeer(addr)
    /\ IF session = "up"
       THEN /\ pending' = pending \cup {r}
            /\ sentTo' = [sentTo EXCEPT ![r] = @ \cup {addr}]
            /\ UNCHANGED handled
       ELSE Handle({r}) /\ UNCHANGED <<pending, sentTo>>

(* FetchMeshLocalPrefix asks the border agent, or fails at once.           *)
StartFetch(r) ==
    /\ IF session = "up"
       THEN asked' = asked \cup {r} /\ UNCHANGED handled
       ELSE Handle({r}) /\ UNCHANGED asked
    /\ UNCHANGED <<peerVars, pending, sentTo>>

(* A request to an anycast locator.                                        *)
SendRequest(r, k) ==
    /\ kind[r] = "new" /\ session \in {"up", "lost"} /\ k \in {"leader", "bbr"}
    /\ kind' = [kind EXCEPT ![r] = k]
    /\ IF mMeshLocalPrefix = 0 THEN StartFetch(r)
       ELSE SendTo(r, <<k, mMeshLocalPrefix>>) /\ UNCHANGED asked
    /\ UNCHANGED <<mMeshLocalPrefix, session, answer, meshVars>>

(* AnnounceBegin, PanIdQuery and EnergyScan to the address of a node,      *)
SendUnicast(r) ==
    /\ kind[r] = "new" /\ session \in {"up", "lost"} /\ "unicast" \in Kinds
    /\ kind' = [kind EXCEPT ![r] = "unicast"]
    /\ SendTo(r, <<"unicast", 0>>)
    /\ UNCHANGED <<mMeshLocalPrefix, session, asked, answer, meshVars>>

(* or to a multicast address: the request's handler is called if it cannot *)
(* be sent, and the same handler is then told of a success in any case.    *)
SendMulticast(r) ==
    /\ kind[r] = "new" /\ session \in {"up", "lost"} /\ "multicast" \in Kinds
    /\ kind' = [kind EXCEPT ![r] = "multicast"]
    /\ SetPeer(<<"multicast", 0>>)
    /\ IF session = "up"
       THEN /\ sentTo' = [sentTo EXCEPT ![r] = @ \cup {<<"multicast", 0>>}]
            /\ Handle({r})
       ELSE /\ handled' = [handled EXCEPT ![r] = @ + 2]
            /\ UNCHANGED sentTo
    /\ UNCHANGED <<mMeshLocalPrefix, session, asked, answer, pending, meshVars>>

-----------------------------------------------------------------------------
(* The border agent reads the active dataset.                              *)
BorderAgentAnswers(r) ==
    /\ r \in asked /\ session = "up"
    /\ asked' = asked \ {r}
    /\ \E p \in {prefix, 0} : answer' = [answer EXCEPT ![r] = {p}]
    /\ UNCHANGED <<mMeshLocalPrefix, peerVars, session, kind, pending, handled, sentTo, meshVars>>

(* The answer arrives.  A dataset without a valid prefix leaves the prefix *)
(* as it was, but the handler is told of a success, and SendRequest dies   *)
(* of an anycast locator made of nothing.                                  *)
FetchDone(r) ==
    /\ session = "up" /\ answer[r] # {}
    /\ IF mMeshLocalPrefix = 0 /\ answer[r] = {0}
       THEN /\ session' = "aborted"
            /\ pending' = {} /\ StopFetching
            /\ UNCHANGED <<mMeshLocalPrefix, peerVars, handled, sentTo>>
       ELSE /\ mMeshLocalPrefix' \in IF answer[r] = {0} THEN {mMeshLocalPrefix} ELSE answer[r]
            /\ SendTo(r, <<kind[r], mMeshLocalPrefix'>>)
            /\ answer' = [answer EXCEPT ![r] = {}]
            /\ UNCHANGED <<session, asked>>
    /\ UNCHANGED <<kind, meshVars>>

(* Refused, lost for good, or reset.                                       *)
FetchFails(r) ==
    /\ r \in Fetching
    /\ asked' = asked \ {r} /\ answer' = [answer EXCEPT ![r] = {}]
    /\ Handle({r})
    /\ UNCHANGED <<mMeshLocalPrefix, peerVars, session, kind, pending,
                   sentTo, meshVars>>

-----------------------------------------------------------------------------
(* Coap::Retransmit sends to the endpoint's peer of the moment.            *)
Retransmit(r) ==
    /\ r \in pending
    /\ IF session = "up"
       THEN sentTo' = [sentTo EXCEPT ![r] = @ \cup {mPeerAddr}] /\ UNCHANGED <<pending, handled>>
       ELSE pending' = pending \ {r} /\ Handle({r}) /\ UNCHANGED sentTo
    /\ UNCHANGED <<mMeshLocalPrefix, peerVars, session, kind, asked, answer, meshVars>>

(* Mutant: a request is given up only while the session is up.             *)
TimeoutWhileUp(r) ==
    /\ r \in pending /\ session = "up"
    /\ pending' = pending \ {r}
    /\ Handle({r})
    /\ UNCHANGED <<mMeshLocalPrefix, peerVars, session, kind, asked, answer,
                   sentTo, meshVars>>

(* The last retransmission has not been answered.                          *)
Timeout(r) ==
    /\ r \in pending
    /\ pending' = pending \ {r}
    /\ Handle({r})
    /\ UNCHANGED <<mMeshLocalPrefix, peerVars, session, kind, asked, answer,
                   sentTo, meshVars>>

(* HandleUdpRx: the sender becomes the endpoint's peer.  The message is a  *)
(* response,                                                               *)
Response(r) ==
    /\ r \in pending /\ session = "up"
    /\ SetPeer(SomeNode)
    /\ pending' = pending \ {r}
    /\ Handle({r})
    /\ UNCHANGED <<mMeshLocalPrefix, session, kind, asked, answer, sentTo, meshVars>>

(* or MGMT_PANID_CONFLICT or MGMT_ED_REPORT,                               *)
HandleReport ==
    /\ session = "up"
    /\ SetPeer(SomeNode)
    /\ UNCHANGED <<mMeshLocalPrefix, session, kind, asked, answer, pending, handled,
                   sentTo, meshVars>>

(* Mutant: the prefix is kept.                                             *)
DatasetChangedKeepsPrefix ==
    /\ session = "up" /\ announced # prefix
    /\ SetPeer(SomeNode)
    /\ announced' = prefix
    /\ UNCHANGED <<mMeshLocalPrefix, session, kind, asked, answer, pending, handled,
                   sentTo, prefix, overtaken>>

(* or MGMT_DATASET_CHANGED.                                                *)
HandleDatasetChanged ==
    /\ session = "up" /\ announced # prefix
    /\ SetPeer(SomeNode)
    /\ mMeshLocalPrefix' = 0
    /\ announced' = prefix
    /\ overtaken' = IF \E r \in Reqs : answer[r] \notin {{}, {0}, {prefix}}
                  THEN prefix ELSE overtaken
    /\ UNCHANGED <<session, kind, asked, answer, pending, handled, sentTo, prefix>>

-----------------------------------------------------------------------------
(* Mutant: requests that wait for the prefix are not cancelled.            *)
CancelPending ==
    /\ pending' = {}
    /\ Handle(pending)
    /\ StopFetching
    /\ UNCHANGED <<mMeshLocalPrefix, peerVars, session, kind, sentTo, meshVars>>

(* CommissionerImpl::CancelRequests: of this client, then of mBrClient.    *)
CancelRequests ==
    /\ pending' = {}
    /\ Handle(pending \cup Fetching)
    /\ StopFetching
    /\ UNCHANGED <<mMeshLocalPrefix, peerVars, session, kind, sentTo, meshVars>>

(* CommissionerImpl::Disconnect: only mBrClient's requests are cancelled.  *)
Disconnect ==
    /\ session \in {"up", "lost"} /\ session' = "down"
    /\ mMeshLocalPrefix' = 0
    /\ Handle(Fetching)
    /\ StopFetching
    /\ UNCHANGED <<peerVars, kind, pending, sentTo, meshVars>>

SessionLost ==
    /\ session = "up" /\ session' = "lost"
    /\ UNCHANGED <<mMeshLocalPrefix, peerVars, kind, asked, answer, pending, handled,
                   sentTo, meshVars>>

Petitioned ==
    /\ session = "down" /\ session' = "up"
    /\ UNCHANGED <<mMeshLocalPrefix, peerVars, kind, asked, answer, pending, handled,
                   sentTo, meshVars>>

MeshChangesPrefix ==
    /\ prefix < MaxPrefix /\ prefix' = prefix + 1
    /\ UNCHANGED <<mMeshLocalPrefix, peerVars, session, kind, asked, answer, pending, handled,
                   sentTo, announced, overtaken>>

Next ==
    \/ \E r \in Reqs, k \in Kinds : SendRequest(r, k)
    \/ \E r \in Reqs : SendUnicast(r)
    \/ \E r \in Reqs : SendMulticast(r)
    \/ \E r \in Reqs : BorderAgentAnswers(r)
    \/ \E r \in Reqs : FetchDone(r)
    \/ \E r \in Reqs : FetchFails(r)
    \/ \E r \in Reqs : Retransmit(r)
    \/ \E r \in Reqs : Timeout(r)
    \/ \E r \in Reqs : Response(r)
    \/ HandleReport \/ HandleDatasetChanged
    \/ CancelRequests \/ Disconnect \/ SessionLost \/ Petitioned \/ MeshChangesPrefix

Spec == Init /\ [][Next]_vars

(* Both CoAP clients finalise every confirmable request (module Coap).     *)
Fairness ==
    \A r \in Reqs :
        /\ WF_vars(FetchDone(r) \/ FetchFails(r))
        /\ WF_vars(Response(r) \/ Timeout(r))

FairSpec == Spec /\ Fairness

-----------------------------------------------------------------------------
(* Every variable has its type; the client waits with a request for a      *)
(* response or for the prefix, not for both.                               *)
TypeOK ==
    /\ mMeshLocalPrefix \in 0..MaxPrefix
    /\ session \in {"up", "lost", "down", "aborted"}
    /\ asked \subseteq Reqs /\ answer \in [Reqs -> SUBSET (0..MaxPrefix)]
    /\ kind \in [Reqs -> Kinds \cup {"new"}]
    /\ pending \subseteq Reqs /\ pending \cap Fetching = {}
    /\ prefix \in 1..MaxPrefix /\ announced \in 1..prefix

(* The handler of a confirmable request is called exactly once or still    *)
(* owed: by mCoap, or by the fetch that the request waits for, whatever is *)
(* cancelled, lost or disconnected in between.                             *)
HandlerOnce ==
    session # "aborted" => \A r \in Reqs : kind[r] \notin {"new", "multicast"} =>
        handled[r] = IF r \in pending \cup Fetching THEN 0 ELSE 1

(* Every request's handler is called, unless the process dies of a dataset *)
(* without a prefix.                                                       *)
EveryRequestHandled == \A r \in Reqs : kind[r] # "new" ~> handled[r] > 0 \/ session = "aborted"

(* Where requests go.  A request goes to the node that it is for ("to the  *)
(* Primary Backbone Router", commissioner.hpp:1028), each time it is sent, *)
(* unless a message was sent to or received from another node meanwhile,   *)
(* to which the one endpoint then sends it.  And the prefix in use is not  *)
(* older than the last that was announced, unless an answer that was on    *)
(* its way when it was announced has brought the old one back.             *)
RightAddress ==
    /\ \A r \in Reqs \ strayed : \A a \in sentTo[r] : a[1] = kind[r]
    /\ mMeshLocalPrefix \in {0} \cup announced..MaxPrefix \/ overtaken = announced
=============================================================================
