---------------------------- MODULE RelayProofs ----------------------------
(***************************************************************************)
(* Proofs about what a commissioner exchanges with devices behind the      *)
(* border agent: requests through the UDP proxy (ProxyClient), the         *)
(* sessions of joiners relayed to it (JoinerSessions), and the table and   *)
(* steering data of the joiners that the CLI application has enabled       *)
(* (JoinerTable).                                                          *)
(***************************************************************************)
EXTENDS ProxyClient, JoinerSessions, JoinerTable, TLAPS

(* Most leaves are first-order and set reasoning, which is Zenon's; those  *)
(* that need arithmetic, records or functions cite SMT.                    *)
USE Zenon

-----------------------------------------------------------------------------
(* The UDP proxy client: for every set of requests and every number of     *)
(* prefix changes, handlers are called once, and requests go where they    *)
(* should but for the two cases that RightAddress names.                   *)

Confirmable == {"leader", "bbr", "unicast"}
Addresses == {"leader", "bbr", "unicast", "multicast", "node"} \X (0..MaxPrefix)

Shape ==
    /\ mMeshLocalPrefix \in 0..MaxPrefix
    /\ mPeerAddr \in Addresses
    /\ session \in {"up", "lost", "down", "aborted"}
    /\ kind \in [Reqs -> Kinds \cup {"new"}]
    /\ asked \subseteq Reqs
    /\ answer \in [Reqs -> SUBSET (0..MaxPrefix)]
    /\ pending \subseteq Reqs
    /\ handled \in [Reqs -> Nat]
    /\ sentTo \in [Reqs -> SUBSET Addresses]
    /\ prefix \in 1..MaxPrefix /\ announced \in 1..prefix

(* A request waits for a response or for the prefix, not for both, and     *)
(* nothing has been done with one that was not made.                       *)
Waits ==
    \A r \in Reqs :
        /\ r \in pending => kind[r] \in Confirmable /\ r \notin Fetching
        /\ r \in Fetching => kind[r] \in {"leader", "bbr"}
        /\ r \in asked => answer[r] = {}
        /\ kind[r] = "new" => handled[r] = 0 /\ sentTo[r] = {}

(* The endpoint's peer is the node that a request which has not strayed    *)
(* was sent to.                                                            *)
Peer == \A r \in pending \ strayed : mPeerAddr[1] = kind[r]

Addressed == \A r \in Reqs \ strayed : \A a \in sentTo[r] : a[1] = kind[r]

(* No prefix in use or on its way is older than the last announced one.    *)
Fresh(p) == p \in {0} \cup announced..MaxPrefix
Prefixes ==
    \/ overtaken = announced
    \/ Fresh(mMeshLocalPrefix) /\ \A r \in Reqs : \A p \in answer[r] : Fresh(p)

Inv == Shape /\ Waits /\ HandlerOnce

-----------------------------------------------------------------------------
(* A ProxyClient as it is constructed: nothing sent, no handler owed.      *)
LEMMA InitInv == Init => Inv /\ Peer /\ Addressed /\ Prefixes
<1> SUFFICES ASSUME Init PROVE Inv /\ Peer /\ Addressed /\ Prefixes
  OBVIOUS
<1>1. MaxPrefix \in Nat /\ 1 \in 1..MaxPrefix /\ 0 \in 0..MaxPrefix
  BY ProxyAssumption, SMT
<1>2. Shape
  BY <1>1, SMT DEF Init, Shape, SomeNode, Addresses, Confirmable
<1>3. Waits /\ HandlerOnce
  BY DEF Init, Waits, Fetching, HandlerOnce
<1> QED
  BY <1>2, <1>3 DEF Init, Inv, Peer, Addressed, Prefixes, Fresh

(* What a request to an address does to the requests: r is outstanding, or *)
(* its handler is called.                                                  *)
LEMMA SendToRequests ==
  ASSUME Shape, NEW r \in Reqs, NEW addr \in Addresses, SendTo(r, addr)
  PROVE  /\ mPeerAddr' = addr
         /\ pending' \in SUBSET Reqs
         /\ handled' \in [Reqs -> Nat]
         /\ sentTo' \in [Reqs -> SUBSET Addresses]
         /\ \A q \in Reqs \ {r} : /\ handled'[q] = handled[q]
                                  /\ q \in pending' <=> q \in pending
                                  /\ sentTo'[q] = sentTo[q]
         /\ \/ r \in pending' /\ handled'[r] = handled[r] /\ sentTo'[r] = sentTo[r] \cup {addr}
            \/ /\ handled'[r] = handled[r] + 1 /\ sentTo'[r] = sentTo[r]
               /\ r \in pending' <=> r \in pending
<1>1. CASE session = "up"
  BY <1>1, SMT DEF SendTo, SetPeer, Shape
<1>2. CASE session # "up"
  BY <1>2, SMT DEF SendTo, SetPeer, Shape, Handle
<1> QED
  BY <1>1, <1>2

(* What calling the handlers of a set of requests counts.                  *)
LEMMA HandleCounts ==
  ASSUME Shape, NEW S, Handle(S)
  PROVE  /\ handled' \in [Reqs -> Nat]
         /\ \A r \in Reqs : handled'[r] = IF r \in S THEN handled[r] + 1 ELSE handled[r]
BY SMT DEF Shape, Handle

-----------------------------------------------------------------------------
(* A request to an anycast address is sent, fetches the prefix or fails.   *)
LEMMA SendRequestInv ==
  ASSUME Inv, NEW r \in Reqs, NEW k \in Kinds, SendRequest(r, k) PROVE Inv'
<1>1. /\ Shape /\ kind[r] = "new" /\ k \in {"leader", "bbr"} /\ kind'[r] = k
      /\ kind' \in [Reqs -> Kinds \cup {"new"}]
      /\ \A q \in Reqs \ {r} : kind'[q] = kind[q]
      /\ session # "aborted" /\ r \notin pending /\ r \notin Fetching
      /\ handled[r] = 0 /\ sentTo[r] = {} /\ answer[r] = {} /\ r \notin asked
      /\ UNCHANGED <<mMeshLocalPrefix, session, answer, prefix, announced>>
  BY DEF SendRequest, Inv, Shape, Waits, Confirmable, Fetching, meshVars
<1>2. CASE mMeshLocalPrefix = 0
  <2>1. /\ asked' \in SUBSET Reqs /\ handled' \in [Reqs -> Nat]
        /\ \A q \in Reqs \ {r} : handled'[q] = handled[q] /\ (q \in asked' <=> q \in asked)
        /\ \/ r \in asked' /\ handled'[r] = 0
           \/ r \notin asked' /\ handled'[r] = 1
        /\ UNCHANGED <<mPeerAddr, pending, sentTo>>
    <3>1. CASE session = "up"
      BY <1>1, <1>2, <3>1, SMT DEF SendRequest, StartFetch, Shape, peerVars
    <3>2. CASE session # "up"
      BY <1>1, <1>2, <3>2, HandleCounts, SMT DEF SendRequest, StartFetch, Shape, peerVars
    <3> QED
      BY <3>1, <3>2
  <2>2. Shape'
    BY <1>1, <2>1 DEF Shape
  <2>3. Fetching' \in SUBSET Reqs /\ \A q \in Reqs : q \in Fetching' <=> q \in asked' \/ answer[q] # {}
    BY <1>1, <2>1 DEF Fetching
  <2>4. Waits'
    BY <1>1, <2>1, <2>3 DEF Inv, Waits, Confirmable, Fetching
  <2>5. HandlerOnce'
    BY <1>1, <2>1, <2>3, ZenonT(40) DEF Inv, HandlerOnce, Fetching
  <2> QED
    BY <2>2, <2>4, <2>5 DEF Inv
<1>3. CASE mMeshLocalPrefix # 0
  <2>1. <<k, mMeshLocalPrefix>> \in Addresses
    BY <1>1 DEF Shape, Addresses
  <2>2. SendTo(r, <<k, mMeshLocalPrefix>>) /\ asked' = asked
    BY <1>3 DEF SendRequest
  <2>3. Shape'
    BY <1>1, <2>1, <2>2, SendToRequests DEF Shape
  <2>4. Fetching' = Fetching
    BY <1>1, <2>2 DEF Fetching
  <2>5. Waits' /\ HandlerOnce'
    BY <1>1, <2>1, <2>2, <2>4, SendToRequests, SMT DEF Inv, Waits, HandlerOnce, Confirmable, Fetching
  <2> QED
    BY <2>3, <2>5 DEF Inv
<1> QED
  BY <1>2, <1>3

(* A request to an address that is known.                                  *)
LEMMA SendUnicastInv ==
  ASSUME Inv, NEW r \in Reqs, SendUnicast(r) PROVE Inv'
<1>1. /\ Shape /\ kind[r] = "new" /\ kind'[r] = "unicast"
      /\ kind' \in [Reqs -> Kinds \cup {"new"}]
      /\ \A q \in Reqs \ {r} : kind'[q] = kind[q]
      /\ session # "aborted" /\ r \notin pending /\ r \notin Fetching
      /\ handled[r] = 0 /\ sentTo[r] = {}
      /\ UNCHANGED <<mMeshLocalPrefix, session, asked, answer, prefix, announced>>
  BY DEF SendUnicast, Inv, Shape, Waits, Confirmable, meshVars
<1>2. <<"unicast", 0>> \in Addresses
  BY ProxyAssumption, SMT DEF Addresses
<1>3. SendTo(r, <<"unicast", 0>>)
  BY DEF SendUnicast
<1>4. Shape'
  BY <1>1, <1>2, <1>3, SendToRequests DEF Shape
<1>5. Fetching' = Fetching
  BY <1>1 DEF Fetching
<1>6. Waits' /\ HandlerOnce'
  BY <1>1, <1>2, <1>3, <1>5, SendToRequests, SMT DEF Inv, Waits, HandlerOnce, Confirmable, Fetching
<1> QED
  BY <1>4, <1>6 DEF Inv

(* A request to the multicast address.                                     *)
LEMMA SendMulticastInv ==
  ASSUME Inv, NEW r \in Reqs, SendMulticast(r) PROVE Inv'
<1>1. /\ Shape /\ kind[r] = "new" /\ kind'[r] = "multicast"
      /\ kind' \in [Reqs -> Kinds \cup {"new"}]
      /\ \A q \in Reqs \ {r} : kind'[q] = kind[q]
      /\ r \notin pending /\ r \notin Fetching
      /\ mPeerAddr' = <<"multicast", 0>>
      /\ UNCHANGED <<mMeshLocalPrefix, session, asked, answer, pending, prefix, announced>>
  BY DEF SendMulticast, Inv, Shape, Waits, Confirmable, meshVars, SetPeer
<1>2. <<"multicast", 0>> \in Addresses
  BY ProxyAssumption, SMT DEF Addresses
<1>3. /\ handled' \in [Reqs -> Nat] /\ sentTo' \in [Reqs -> SUBSET Addresses]
      /\ \A q \in Reqs \ {r} : handled'[q] = handled[q] /\ sentTo'[q] = sentTo[q]
  <2>1. CASE session = "up"
    BY <1>1, <1>2, <2>1, HandleCounts, SMT DEF SendMulticast, Shape
  <2>2. CASE session # "up"
    BY <1>1, <2>2, SMT DEF SendMulticast, Shape
  <2> QED
    BY <2>1, <2>2
<1>4. Shape'
  BY <1>1, <1>2, <1>3 DEF Shape
<1>5. Fetching' = Fetching
  BY <1>1 DEF Fetching
<1>6. Waits' /\ HandlerOnce'
  BY <1>1, <1>3, <1>5 DEF Inv, Waits, HandlerOnce, Confirmable
<1> QED
  BY <1>4, <1>6 DEF Inv

-----------------------------------------------------------------------------
(* Requests that are finalised: their handlers are called, and they wait   *)
(* for nothing any more.                                                   *)
LEMMA FinalisedInv ==
  ASSUME Inv, NEW S \in SUBSET (pending \cup Fetching), Handle(S),
         pending' = pending \ S, asked' = asked \ S,
         answer' = [r \in Reqs |-> IF r \in S THEN {} ELSE answer[r]],
         UNCHANGED <<kind, sentTo>>,
         session = "aborted" => session' = "aborted"
  PROVE  Waits' /\ HandlerOnce'
<1>1. Shape /\ S \subseteq Reqs
  BY DEF Inv, Shape, Fetching
<1>2. Fetching' = Fetching \ S
  BY <1>1 DEF Fetching
<1>3. \A r \in S : kind[r] # "new"
  BY <1>1 DEF Inv, Waits, Confirmable
<1>4. Waits'
  BY <1>1, <1>2, <1>3, HandleCounts DEF Inv, Waits
<1>5. HandlerOnce'
  BY <1>1, <1>2, HandleCounts, SMT DEF Inv, HandlerOnce
<1> QED
  BY <1>4, <1>5

(* The events that end one request.                                        *)
LEMMA EndInv ==
  ASSUME Inv, NEW r \in Reqs, FetchFails(r) \/ Retransmit(r) \/ Timeout(r) \/ Response(r)
  PROVE  Inv'
<1>0. Shape /\ SomeNode \in Addresses
  BY ProxyAssumption, SMT DEF Inv, SomeNode, Addresses
<1>1. CASE Retransmit(r) /\ session = "up"
  <2>1. UNCHANGED <<mMeshLocalPrefix, mPeerAddr, session, kind, asked, answer, pending,
                    handled, prefix, announced>>
    BY <1>1 DEF Retransmit, peerVars, meshVars
  <2>2. kind[r] # "new"
    BY <1>1 DEF Retransmit, Inv, Waits, Confirmable
  <2>3. /\ sentTo' \in [Reqs -> SUBSET Addresses]
        /\ \A q \in Reqs \ {r} : sentTo'[q] = sentTo[q]
    BY <1>0, <1>1, SMT DEF Retransmit, Shape
  <2>4. Fetching' = Fetching
    BY <2>1 DEF Fetching
  <2> QED
    BY <2>1, <2>2, <2>3, <2>4 DEF Inv, Shape, Waits, HandlerOnce
<1>2. CASE ~(Retransmit(r) /\ session = "up")
  <2>1. /\ r \in pending \cup Fetching /\ Handle({r})
        /\ UNCHANGED <<mMeshLocalPrefix, session, kind, sentTo, prefix, announced>>
        /\ mPeerAddr' \in Addresses
    BY <1>0, <1>2 DEF FetchFails, Retransmit, Timeout, Response, peerVars, meshVars, Shape,
                      SetPeer
  <2>2. pending' = pending \ {r} /\ asked' = asked \ {r}
    BY <1>2 DEF FetchFails, Retransmit, Timeout, Response, Inv, Waits, Fetching
  <2>3. answer' = [q \in Reqs |-> IF q \in {r} THEN {} ELSE answer[q]]
    <3>1. CASE FetchFails(r)
      BY <1>0, <3>1 DEF FetchFails, Shape
    <3>2. CASE ~FetchFails(r)
      <4>1. r \in pending /\ answer' = answer
        BY <1>2, <3>2 DEF Retransmit, Timeout, Response
      <4>2. answer[r] = {}
        BY <4>1 DEF Inv, Waits, Fetching
      <4> QED
        BY <1>0, <4>1, <4>2 DEF Shape
    <3> QED
      BY <3>1, <3>2
  <2>4. Waits' /\ HandlerOnce'
    <3>1. {r} \in SUBSET (pending \cup Fetching)
      BY <2>1
    <3> QED
      BY <2>1, <2>2, <2>3, <3>1, FinalisedInv
  <2>5. Shape'
    BY <1>0, <2>1, <2>2, <2>3, HandleCounts DEF Shape
  <2> QED
    BY <2>4, <2>5 DEF Inv
<1> QED
  BY <1>1, <1>2

(* The events that end all requests of one kind.                           *)
LEMMA EndAllInv ==
  ASSUME Inv, CancelRequests \/ Disconnect PROVE Inv'
<1>0. Shape
  BY DEF Inv
<1>1. CASE CancelRequests
  <2>1. /\ pending' = pending \ (pending \cup Fetching)
        /\ asked' = asked \ (pending \cup Fetching)
        /\ answer' = [r \in Reqs |-> IF r \in pending \cup Fetching THEN {} ELSE answer[r]]
    BY <1>1 DEF CancelRequests, StopFetching, Fetching
  <2>2. Waits' /\ HandlerOnce'
    BY <1>1, <2>1, FinalisedInv DEF CancelRequests
  <2>3. Shape'
    BY <1>0, <1>1, HandleCounts DEF CancelRequests, StopFetching, Shape, peerVars, meshVars
  <2> QED
    BY <2>2, <2>3 DEF Inv
<1>2. CASE Disconnect
  <2>1. /\ pending' = pending \ Fetching
        /\ asked' = asked \ Fetching
        /\ answer' = [r \in Reqs |-> IF r \in Fetching THEN {} ELSE answer[r]]
        /\ session # "aborted"
    BY <1>0, <1>2 DEF Disconnect, StopFetching, Fetching, Inv, Waits, Shape
  <2>2. Waits' /\ HandlerOnce'
    BY <1>2, <2>1, FinalisedInv DEF Disconnect
  <2>3. Shape'
    BY <1>0, <1>2, HandleCounts, ProxyAssumption, SMT
       DEF Disconnect, StopFetching, Shape, peerVars, meshVars
  <2> QED
    BY <2>2, <2>3 DEF Inv
<1> QED
  BY <1>1, <1>2

-----------------------------------------------------------------------------
(* The border agent answers with the mesh-local prefix, or fails.          *)
LEMMA AnswersInv ==
  ASSUME Inv, NEW r \in Reqs, BorderAgentAnswers(r) PROVE Inv'
<1>1. PICK p \in {prefix, 0} : answer' = [answer EXCEPT ![r] = {p}]
  BY DEF BorderAgentAnswers
<1>2. /\ Shape /\ p \in 0..MaxPrefix /\ r \in asked /\ asked' = asked \ {r}
      /\ UNCHANGED <<mMeshLocalPrefix, mPeerAddr, session, kind, pending, handled,
                     sentTo, prefix, announced>>
  BY <1>1, ProxyAssumption, SMT DEF BorderAgentAnswers, Inv, Shape, peerVars, meshVars
<1>3. /\ answer' \in [Reqs -> SUBSET (0..MaxPrefix)] /\ answer'[r] # {}
      /\ \A q \in Reqs \ {r} : answer'[q] = answer[q]
  BY <1>1, <1>2 DEF Shape
<1>4. Shape'
  BY <1>2, <1>3 DEF Shape
<1>5. Fetching' = Fetching
  BY <1>2, <1>3 DEF Fetching
<1> QED
  BY <1>2, <1>3, <1>4, <1>5 DEF Inv, Waits, HandlerOnce

(* FetchMeshLocalPrefix has its answer: the request goes out, or its       *)
(* handler is told.                                                        *)
LEMMA FetchDoneInv ==
  ASSUME Inv, NEW r \in Reqs, FetchDone(r) PROVE Inv'
<1>1. /\ Shape /\ answer[r] # {} /\ r \in Fetching /\ r \notin pending
      /\ r \notin asked /\ kind[r] \in {"leader", "bbr"}
      /\ session = "up"
      /\ UNCHANGED <<kind, prefix, announced>>
  BY DEF FetchDone, Inv, Shape, Waits, Fetching, meshVars
<1>2. CASE session' = "aborted"
  <2>1. /\ pending' = {} /\ asked' = {} /\ answer' = [q \in Reqs |-> {}]
        /\ UNCHANGED <<mMeshLocalPrefix, mPeerAddr, handled, sentTo>>
    BY <1>1, <1>2 DEF FetchDone, StopFetching, peerVars
  <2>2. Shape'
    BY <1>1, <1>2, <2>1 DEF Shape
  <2>3. Waits' /\ HandlerOnce'
    BY <1>1, <1>2, <2>1 DEF Inv, Waits, HandlerOnce, Fetching
  <2> QED
    BY <2>2, <2>3 DEF Inv
<1>3. CASE session' # "aborted"
  <2>1. /\ mMeshLocalPrefix' \in IF answer[r] = {0} THEN {mMeshLocalPrefix} ELSE answer[r]
        /\ SendTo(r, <<kind[r], mMeshLocalPrefix'>>)
        /\ answer' = [answer EXCEPT ![r] = {}]
        /\ session' = session /\ asked' = asked
    BY <1>3 DEF FetchDone
  <2>2. mMeshLocalPrefix' \in 0..MaxPrefix
    BY <1>1, <2>1 DEF Shape
  <2>3. <<kind[r], mMeshLocalPrefix'>> \in Addresses
    BY <1>1, <2>2 DEF Addresses
  <2>4. /\ answer' \in [Reqs -> SUBSET (0..MaxPrefix)] /\ answer'[r] = {}
        /\ \A q \in Reqs \ {r} : answer'[q] = answer[q]
    BY <1>1, <2>1 DEF Shape
  <2>5. Shape'
    BY <1>1, <2>1, <2>2, <2>3, <2>4, SendToRequests DEF Shape
  <2>6. Fetching' = Fetching \ {r}
    BY <1>1, <2>1, <2>4 DEF Fetching, Shape
  <2>7. pending' \in SUBSET Reqs /\ handled[r] = 0
    BY <1>1, <2>5 DEF Shape, Inv, HandlerOnce
  <2>8. Waits'
    BY <1>1, <2>1, <2>3, <2>4, <2>6, SendToRequests DEF Inv, Waits, Confirmable
  <2>9. HandlerOnce'
    <3>1. handled'[r] = IF r \in pending' THEN 0 ELSE 1
      <4>1. \/ r \in pending' /\ handled'[r] = handled[r]
            \/ handled'[r] = handled[r] + 1 /\ (r \in pending' <=> r \in pending)
        BY <1>1, <2>1, <2>3, SendToRequests
      <4> QED
        BY <1>1, <2>7, <4>1, SMT
    <3>2. \A q \in Reqs \ {r} :
             /\ handled'[q] = handled[q]
             /\ q \in pending' \cup Fetching' <=> q \in pending \cup Fetching
      BY <1>1, <2>1, <2>3, <2>6, SendToRequests
    <3>3. /\ session # "aborted" /\ kind' = kind
          /\ r \in pending' \cup Fetching' <=> r \in pending'
      BY <1>1, <2>6
    <3>4. ASSUME NEW q \in Reqs, kind[q] \notin {"new", "multicast"}
          PROVE  handled'[q] = IF q \in pending' \cup Fetching' THEN 0 ELSE 1
      <4>1. handled[q] = IF q \in pending \cup Fetching THEN 0 ELSE 1
        BY <3>3, <3>4 DEF Inv, HandlerOnce
      <4>2. CASE q = r
        BY <3>1, <3>3, <4>2
      <4>3. CASE q # r
        BY <3>2, <3>4, <4>1, <4>3
      <4> QED
        BY <4>2, <4>3
    <3> QED
      BY <3>3, <3>4 DEF HandlerOnce
  <2> QED
    BY <2>5, <2>8, <2>9 DEF Inv
<1> QED
  BY <1>2, <1>3

(* Every step of the client keeps the invariant.                           *)
LEMMA NextInv == Inv /\ [Next]_vars => Inv'
<1> SUFFICES ASSUME Inv, [Next]_vars PROVE Inv'
  OBVIOUS
<1>1. CASE UNCHANGED vars
  BY <1>1 DEF vars, Inv, Shape, Waits, HandlerOnce, Fetching
<1>2. CASE \E r \in Reqs, k \in Kinds : SendRequest(r, k)
  BY <1>2, SendRequestInv
<1>3. CASE \E r \in Reqs : SendUnicast(r) \/ SendMulticast(r)
  BY <1>3, SendUnicastInv, SendMulticastInv
<1>4. CASE \E r \in Reqs : BorderAgentAnswers(r) \/ FetchDone(r)
  BY <1>4, AnswersInv, FetchDoneInv
<1>5. CASE \E r \in Reqs : FetchFails(r) \/ Retransmit(r) \/ Timeout(r) \/ Response(r)
  BY <1>5, EndInv
<1>6. CASE CancelRequests \/ Disconnect
  BY <1>6, EndAllInv
<1>7. CASE HandleReport \/ HandleDatasetChanged \/ SessionLost \/ Petitioned \/ MeshChangesPrefix
  <2>1. /\ UNCHANGED <<kind, asked, answer, pending, handled, sentTo>>
        /\ session = "aborted" => session' = "aborted"
    BY <1>7 DEF HandleReport, HandleDatasetChanged, SessionLost, Petitioned, MeshChangesPrefix
  <2>2. Fetching' = Fetching
    BY <2>1 DEF Fetching
  <2>3. Waits' /\ HandlerOnce'
    BY <2>1, <2>2 DEF Inv, Waits, HandlerOnce
  <2>4. SomeNode \in Addresses
    BY ProxyAssumption, SMT DEF SomeNode, Addresses
  <2>5. Shape'
    BY <1>7, <2>1, <2>4, ProxyAssumption, SMT
       DEF Inv, Shape, HandleReport, HandleDatasetChanged, SessionLost, Petitioned,
           MeshChangesPrefix, SetPeer, peerVars, meshVars
  <2> QED
    BY <2>3, <2>5 DEF Inv
<1> QED
  BY <1>1, <1>2, <1>3, <1>4, <1>5, <1>6, <1>7 DEF Next

-----------------------------------------------------------------------------
(* The endpoint is given a peer: a request that this does not suit strays. *)
LEMMA SetPeerKeeps ==
  ASSUME Shape, Peer, NEW addr, SetPeer(addr)
  PROVE  /\ mPeerAddr' = addr /\ strayed \subseteq strayed'
         /\ \A q \in pending \ strayed' : kind[q] = addr[1]
BY DEF SetPeer

(* A request is sent to the address that its peer has.                     *)
LEMMA SendToPeer ==
  ASSUME Inv, Peer, Addressed, NEW r \in Reqs, NEW addr \in Addresses, SendTo(r, addr),
         kind'[r] = addr[1], kind[r] \in {"new", addr[1]}, r \notin pending,
         \A q \in Reqs \ {r} : kind'[q] = kind[q]
  PROVE  Peer' /\ Addressed'
<1>1. SetPeer(addr) /\ Shape
  BY DEF SendTo, Inv
<1>2. \A q \in pending' : q \in pending \/ q = r
  BY <1>1, SendToRequests DEF Shape
<1>3. Peer'
  BY <1>1, <1>2, SetPeerKeeps DEF Peer, Shape
<1>4. \A a \in sentTo[r] : r \notin strayed => a[1] = kind'[r]
  BY DEF Addressed, Inv, Waits
<1>5. sentTo'[r] \subseteq sentTo[r] \cup {addr}
  BY <1>1, SendToRequests
<1>6. \A q \in Reqs \ {r} : sentTo'[q] = sentTo[q]
  BY <1>1, SendToRequests
<1>7. Addressed'
  <2> SUFFICES ASSUME NEW q \in Reqs, q \notin strayed', NEW a \in sentTo'[q]
               PROVE  a[1] = kind'[q]
    BY DEF Addressed
  <2>1. q \notin strayed
    BY <1>1, SetPeerKeeps
  <2>2. CASE q = r
    BY <1>4, <1>5, <2>1, <2>2
  <2>3. CASE q # r
    BY <1>6, <2>1, <2>3 DEF Addressed
  <2> QED
    BY <2>2, <2>3
<1> QED
  BY <1>3, <1>7

(* Every step keeps requests addressed to their peer.                      *)
LEMMA NextPeer == Inv /\ Peer /\ Addressed /\ [Next]_vars => Peer' /\ Addressed'
<1> SUFFICES ASSUME Inv, Peer, Addressed, [Next]_vars PROVE Peer' /\ Addressed'
  OBVIOUS
<1>0. Shape
  BY DEF Inv
<1>1. ASSUME UNCHANGED <<mPeerAddr, strayed, kind, sentTo>>, pending' \subseteq pending
      PROVE  Peer' /\ Addressed'
  BY <1>1 DEF Peer, Addressed
<1>2. ASSUME NEW r \in Reqs, NEW k \in Kinds, SendRequest(r, k) PROVE Peer' /\ Addressed'
  <2>1. /\ kind[r] = "new" /\ kind'[r] = k /\ k \in {"leader", "bbr"} /\ r \notin pending
        /\ sentTo[r] = {}
        /\ \A q \in Reqs \ {r} : kind'[q] = kind[q]
    BY <1>0, <1>2 DEF SendRequest, Shape, Inv, Waits, Confirmable
  <2>2. CASE mMeshLocalPrefix = 0
    <3>1. UNCHANGED <<mPeerAddr, strayed, pending, sentTo>>
      BY <1>2, <2>2 DEF SendRequest, StartFetch, peerVars
    <3> QED
      BY <1>0, <2>1, <3>1 DEF Peer, Addressed, Shape
  <2>3. CASE mMeshLocalPrefix # 0
    <3>1. <<k, mMeshLocalPrefix>> \in Addresses /\ <<k, mMeshLocalPrefix>>[1] = k
      BY <1>0, <2>1 DEF Shape, Addresses
    <3>2. SendTo(r, <<k, mMeshLocalPrefix>>)
      BY <1>2, <2>3 DEF SendRequest
    <3> QED
      BY <2>1, <3>1, <3>2, SendToPeer
  <2> QED
    BY <2>2, <2>3
<1>3. ASSUME NEW r \in Reqs, SendUnicast(r) PROVE Peer' /\ Addressed'
  <2>1. /\ kind[r] = "new" /\ kind'[r] = "unicast" /\ r \notin pending
        /\ \A q \in Reqs \ {r} : kind'[q] = kind[q]
    BY <1>0, <1>3 DEF SendUnicast, Shape, Inv, Waits, Confirmable
  <2>2. <<"unicast", 0>> \in Addresses /\ <<"unicast", 0>>[1] = "unicast"
    BY ProxyAssumption, SMT DEF Addresses
  <2>3. SendTo(r, <<"unicast", 0>>)
    BY <1>3 DEF SendUnicast
  <2> QED
    BY <2>1, <2>2, <2>3, SendToPeer
<1>4. ASSUME NEW r \in Reqs, SendMulticast(r) PROVE Peer' /\ Addressed'
  <2>1. /\ kind[r] = "new" /\ kind'[r] = "multicast" /\ r \notin pending /\ pending' = pending
        /\ sentTo[r] = {}
        /\ \A q \in Reqs \ {r} : kind'[q] = kind[q]
        /\ SetPeer(<<"multicast", 0>>)
    BY <1>0, <1>4 DEF SendMulticast, Shape, Inv, Waits, Confirmable
  <2>2. /\ sentTo'[r] \subseteq {<<"multicast", 0>>}
        /\ \A q \in Reqs \ {r} : sentTo'[q] = sentTo[q]
    BY <1>0, <1>4, <2>1 DEF SendMulticast, Shape
  <2>3. <<"multicast", 0>>[1] = "multicast"
    OBVIOUS
  <2>4. Peer'
    BY <1>0, <2>1, SetPeerKeeps DEF Peer, Shape
  <2>5. Addressed'
    BY <1>0, <2>1, <2>2, <2>3, SetPeerKeeps DEF Addressed
  <2> QED
    BY <2>4, <2>5
<1>5. ASSUME NEW r \in Reqs, FetchDone(r) PROVE Peer' /\ Addressed'
  <2>1. /\ kind' = kind /\ r \in Fetching /\ r \notin pending /\ kind[r] \in {"leader", "bbr"}
    BY <1>5 DEF FetchDone, Inv, Waits, Fetching
  <2>2. CASE mMeshLocalPrefix = 0 /\ answer[r] = {0}
    BY <1>1, <1>5, <2>1, <2>2 DEF FetchDone, peerVars
  <2>3. CASE ~(mMeshLocalPrefix = 0 /\ answer[r] = {0})
    <3>1. /\ SendTo(r, <<kind[r], mMeshLocalPrefix'>>)
          /\ mMeshLocalPrefix' \in IF answer[r] = {0} THEN {mMeshLocalPrefix} ELSE answer[r]
      BY <1>5, <2>3 DEF FetchDone
    <3>2. mMeshLocalPrefix' \in 0..MaxPrefix
      BY <1>0, <3>1 DEF Shape
    <3>3. /\ <<kind[r], mMeshLocalPrefix'>> \in Addresses
          /\ <<kind[r], mMeshLocalPrefix'>>[1] = kind[r]
      BY <2>1, <3>2 DEF Addresses
    <3> QED
      BY <2>1, <3>1, <3>3, SendToPeer
  <2> QED
    BY <2>2, <2>3
<1>6. ASSUME NEW r \in Reqs, Retransmit(r) PROVE Peer' /\ Addressed'
  <2>1. CASE session = "up"
    <3>1. /\ UNCHANGED <<mPeerAddr, strayed, kind, pending>> /\ r \in pending
          /\ sentTo'[r] = sentTo[r] \cup {mPeerAddr}
          /\ \A q \in Reqs \ {r} : sentTo'[q] = sentTo[q]
      BY <1>0, <1>6, <2>1 DEF Retransmit, peerVars, Shape
    <3> QED
      BY <3>1 DEF Peer, Addressed
  <2>2. CASE session # "up"
    BY <1>1, <1>6, <2>2 DEF Retransmit, peerVars
  <2> QED
    BY <2>1, <2>2
<1>7. ASSUME (\E r \in Reqs : Response(r)) \/ HandleReport \/ HandleDatasetChanged
      PROVE  Peer' /\ Addressed'
  <2>1. UNCHANGED <<kind, sentTo>> /\ pending' \subseteq pending /\ SetPeer(SomeNode)
    BY <1>7 DEF Response, HandleReport, HandleDatasetChanged
  <2> QED
    BY <1>0, <2>1, SetPeerKeeps, ZenonT(40) DEF Peer, Addressed
<1>8. CASE \/ \E r \in Reqs : BorderAgentAnswers(r) \/ FetchFails(r) \/ Timeout(r)
          \/ CancelRequests \/ Disconnect \/ SessionLost \/ Petitioned
          \/ MeshChangesPrefix \/ UNCHANGED vars
  BY <1>1, <1>8 DEF BorderAgentAnswers, FetchFails, Timeout, CancelRequests, Disconnect,
                    SessionLost, Petitioned, MeshChangesPrefix, peerVars, vars
<1> QED
  BY <1>2, <1>3, <1>4, <1>5, <1>6, <1>7, <1>8 DEF Next

-----------------------------------------------------------------------------
(* Answers and the prefix are as new as the last announcement, which makes *)
(* the client forget its prefix, unless one overtakes an answer.           *)
LEMMA NextPrefixes == Inv /\ Prefixes /\ [Next]_vars => Prefixes'
<1> SUFFICES ASSUME Inv, Prefixes, [Next]_vars PROVE Prefixes'
  OBVIOUS
<1>0. Shape /\ MaxPrefix \in Nat /\ prefix \in announced..MaxPrefix
  BY ProxyAssumption, SMT DEF Inv, Shape
<1>1. ASSUME UNCHANGED <<announced, overtaken>>, mMeshLocalPrefix' \in {mMeshLocalPrefix, 0},
             \A r \in Reqs : answer'[r] \subseteq answer[r] \cup {prefix, 0}
      PROVE  Prefixes'
  BY <1>0, <1>1 DEF Prefixes, Fresh
<1>2. ASSUME NEW r \in Reqs, BorderAgentAnswers(r) PROVE Prefixes'
  <2>1. \A q \in Reqs : answer'[q] \subseteq answer[q] \cup {prefix, 0}
    BY <1>0, <1>2 DEF BorderAgentAnswers, Shape
  <2> QED
    BY <1>1, <1>2, <2>1 DEF BorderAgentAnswers, meshVars
<1>3. ASSUME NEW r \in Reqs, FetchDone(r) PROVE Prefixes'
  <2>1. /\ \A q \in Reqs : answer'[q] \subseteq answer[q]
        /\ UNCHANGED <<announced, overtaken>>
    BY <1>0, <1>3 DEF FetchDone, StopFetching, meshVars, Shape
  <2>2. mMeshLocalPrefix' = mMeshLocalPrefix \/ mMeshLocalPrefix' \in answer[r]
    BY <1>3 DEF FetchDone
  <2> QED
    BY <2>1, <2>2 DEF Prefixes, Fresh
<1>4. ASSUME NEW r \in Reqs, FetchFails(r) PROVE Prefixes'
  <2>1. \A q \in Reqs : answer'[q] \subseteq answer[q] \cup {prefix, 0}
    BY <1>0, <1>4 DEF FetchFails, Shape
  <2> QED
    BY <1>1, <1>4, <2>1 DEF FetchFails, meshVars
<1>5. CASE HandleDatasetChanged
  <2>1. mMeshLocalPrefix' = 0 /\ announced' = prefix /\ answer' = answer
    BY <1>5 DEF HandleDatasetChanged
  <2>2. CASE \E r \in Reqs : answer[r] \notin {{}, {0}, {prefix}}
    BY <1>5, <2>1, <2>2 DEF HandleDatasetChanged, Prefixes
  <2>3. CASE \A r \in Reqs : answer[r] \in {{}, {0}, {prefix}}
    BY <1>0, <2>1, <2>3, SMT DEF Prefixes, Fresh
  <2> QED
    BY <2>2, <2>3
<1>6. CASE CancelRequests \/ Disconnect
  <2>1. \A q \in Reqs : answer'[q] \subseteq answer[q] \cup {prefix, 0}
    BY <1>6 DEF CancelRequests, Disconnect, StopFetching
  <2> QED
    BY <1>1, <1>6, <2>1 DEF CancelRequests, Disconnect, meshVars
<1>7. ASSUME UNCHANGED <<mMeshLocalPrefix, answer, announced, overtaken>> PROVE Prefixes'
  BY <1>7 DEF Prefixes, Fresh
<1>8. CASE \E r \in Reqs, k \in Kinds : SendRequest(r, k)
  BY <1>7, <1>8 DEF SendRequest, meshVars
<1>9. CASE \E r \in Reqs : \/ SendUnicast(r) \/ SendMulticast(r) \/ Retransmit(r)
                         \/ Timeout(r) \/ Response(r)
  BY <1>7, <1>9 DEF SendUnicast, SendMulticast, Retransmit, Timeout, Response, meshVars
<1>10. CASE HandleReport \/ SessionLost \/ Petitioned \/ MeshChangesPrefix \/ UNCHANGED vars
  BY <1>7, <1>10 DEF HandleReport, SessionLost, Petitioned, MeshChangesPrefix, meshVars, vars
<1> QED
  BY <1>2, <1>3, <1>4, <1>5, <1>6, <1>8, <1>9, <1>10 DEF Next

-----------------------------------------------------------------------------
(* The client's state has its types, and no request waits for a response   *)
(* and for the prefix at once.                                             *)
THEOREM ProxyTypeCorrect == Spec => []TypeOK
<1>1. Inv => TypeOK
  BY DEF Inv, Shape, Waits, TypeOK
<1> QED
  BY <1>1, InitInv, NextInv, PTL DEF Spec

(* ProxyClient::SendRequest and CommissionerImpl::CancelRequests: for any  *)
(* number of requests, a confirmable one's handler is called exactly once  *)
(* or owed by exactly one of mCoap and the fetch of the prefix.            *)
THEOREM ProxyHandlerOnce == Spec => []HandlerOnce
<1>1. Inv => HandlerOnce
  BY DEF Inv
<1> QED
  BY <1>1, InitInv, NextInv, PTL DEF Spec

(* ProxyEndpoint::Send and FetchMeshLocalPrefix: for any number of         *)
(* requests and prefixes, only a request that was outstanding while the    *)
(* endpoint was given another peer goes elsewhere, and only an answer that *)
(* an announcement overtook brings an old prefix back.                     *)
THEOREM AddressedRightly == Spec => []RightAddress
<1>1. Inv /\ Addressed /\ Prefixes => RightAddress
  BY ProxyAssumption DEF Inv, Shape, Addressed, Prefixes, Fresh, RightAddress
<1>2. /\ Init => Inv /\ Peer /\ Addressed /\ Prefixes
      /\ Inv /\ Peer /\ Addressed /\ Prefixes /\ [Next]_vars
            => Inv' /\ Peer' /\ Addressed' /\ Prefixes'
  BY InitInv, NextInv, NextPeer, NextPrefixes
<1> QED
  BY <1>1, <1>2, PTL DEF Spec

-----------------------------------------------------------------------------
(* The sessions.                                                           *)

Sessions(n) ==
    [state : {"connecting", "connected", "open"}, id : 1..n, left : 0..Lifetime]

SessionsShape ==
    /\ mJoinerSessions \in [Joiners -> Sessions(made) \cup {None}]
    /\ mJoinerSessionTimer \in 0..Stopped
    /\ made \in 0..MaxSessions
    /\ told \in [1..MaxSessions -> Nat]
    /\ accepted \subseteq 1..made

(* No two joiners have the same session, so that what is told of one is    *)
(* not told of another.                                                    *)
Distinct ==
    \A j, k \in Live : mJoinerSessions[j].id = mJoinerSessions[k].id => j = k

SessionsInv == SessionsShape /\ Distinct /\ TimerCoversAll /\ ToldOnce

-----------------------------------------------------------------------------
(* None is not mistaken for a session.                                     *)
LEMMA NoneIsNone == ASSUME NEW n PROVE None \notin Sessions(n)
BY DEF None, Sessions

(* A joiner is live if it has a session, in either form.                   *)
LEMMA LiveSession ==
  ASSUME SessionsShape, NEW j \in Joiners
  PROVE  /\ j \in Live <=> mJoinerSessions[j] \in Sessions(made)
         /\ j \in Live <=> mJoinerSessions[j].state # "none"
BY NoneIsNone, SMT DEF SessionsShape, Live, None, Sessions

(* A session stays one when others are made.                               *)
LEMMA MoreSessions ==
  ASSUME NEW m \in Nat PROVE Sessions(m) \subseteq Sessions(m + 1)
BY SMT DEF Sessions

(* No joiner session, and the timer idle.                                  *)
LEMMA SessionsInitInv == SessionsInit => SessionsInv
BY JoinerAssumption, SMT
   DEF SessionsInit, SessionsInv, SessionsShape, Distinct, TimerCoversAll, ToldOnce, Live, None, Stopped,
       Lifetime

(* A session that is erased takes nothing with it.                         *)
LEMMA RefusedInv ==
  ASSUME SessionsInv, NEW j \in Joiners, JoinerRefused(j) PROVE SessionsInv'
<1>1. /\ \A k \in Joiners \ {j} : mJoinerSessions'[k] = mJoinerSessions[k]
      /\ mJoinerSessions'[j] = None
      /\ UNCHANGED <<mJoinerSessionTimer, made, told, accepted>>
  BY DEF JoinerRefused, SessionsInv, SessionsShape
<1>2. Live' = Live \ {j}
  BY <1>1 DEF Live
<1>3. SessionsShape'
  BY <1>1 DEF JoinerRefused, SessionsInv, SessionsShape
<1> QED
  BY <1>1, <1>2, <1>3 DEF SessionsInv, Distinct, TimerCoversAll, ToldOnce, Live

(* A new session has a new number, and no session lives longer than it.    *)
LEMMA NewInv ==
  ASSUME SessionsInv, NEW j \in Joiners, NewSession(j) PROVE SessionsInv'
<1>0. /\ SessionsShape /\ made < MaxSessions /\ made \in Nat
      /\ made + 1 \in 1..MaxSessions /\ made' = made + 1
  BY JoinerAssumption, SMT DEF SessionsInv, SessionsShape, NewSession, StartSession
<1>1. PICK state \in {"connecting", "open"} :
        /\ mJoinerSessions' = [mJoinerSessions EXCEPT ![j] =
              [state |-> state, id |-> made + 1, left |-> Lifetime]]
        /\ told' = [told EXCEPT ![made + 1] = IF state = "open" THEN 1 ELSE 0]
  BY DEF NewSession, StartSession
<1> DEFINE new == [state |-> state, id |-> made + 1, left |-> Lifetime]
<1>2. Lifetime \in Nat /\ Lifetime # Stopped /\ Lifetime \in 0..Stopped
  BY JoinerAssumption, SMT DEF Lifetime, Stopped
<1>3. mJoinerSessionTimer' = Lifetime /\ accepted' = accepted
  BY DEF NewSession, StartSession
<1>4. new \in Sessions(made')
  BY <1>0, <1>2, SMT DEF Sessions
<1>5. /\ mJoinerSessions'[j] = new
      /\ \A k \in Joiners \ {j} : mJoinerSessions'[k] = mJoinerSessions[k]
      /\ mJoinerSessions' \in [Joiners -> Sessions(made') \cup {None}]
  BY <1>0, <1>1, <1>4, MoreSessions DEF SessionsShape
<1>6. SessionsShape'
  BY <1>0, <1>1, <1>2, <1>3, <1>5, SMT DEF SessionsShape
<1>7. Live' = Live \cup {j}
  BY <1>4, <1>5, NoneIsNone DEF Live
<1>8. ASSUME NEW k \in Live \ {j}
      PROVE  /\ mJoinerSessions[k].id # made + 1
             /\ mJoinerSessions[k].left <= Lifetime
             /\ mJoinerSessions[k].id \in 1..MaxSessions
  <2>1. mJoinerSessions[k] \in Sessions(made)
    BY <1>0, LiveSession DEF Live
  <2>2. mJoinerSessions[k].id \in 1..made /\ mJoinerSessions[k].left \in 0..Lifetime
    BY <2>1 DEF Sessions
  <2> QED
    BY <1>0, <1>2, <2>2, JoinerAssumption, SMT
<1>9. Distinct'
  BY <1>5, <1>7, <1>8, SMT DEF SessionsInv, Distinct, Live
<1>10. TimerCoversAll'
  <2>1. mJoinerSessions'[j].left <= Lifetime
    BY <1>2, <1>5, SMT
  <2>2. \A k \in Live \ {j} : mJoinerSessions'[k].left <= Lifetime
    BY <1>5, <1>8 DEF Live
  <2>3. Lifetime' = Lifetime /\ Stopped' = Stopped
    BY DEF Lifetime, Stopped
  <2> QED
    BY <1>2, <1>3, <1>7, <2>1, <2>2, <2>3 DEF TimerCoversAll
<1>11. ToldOnce'
  <2>1. /\ told'[made + 1] = IF state = "open" THEN 1 ELSE 0
        /\ \A s \in 1..MaxSessions : s # made + 1 => told'[s] = told[s]
    BY <1>0, <1>1 DEF SessionsShape
  <2>2. \A s \in 1..MaxSessions : told'[s] <= 1
    BY <2>1, SMT DEF SessionsInv, ToldOnce
  <2>3. told'[mJoinerSessions'[j].id] =
          IF mJoinerSessions'[j].state = "connecting" THEN 0 ELSE 1
    BY <1>5, <2>1, SMT
  <2>4. ASSUME NEW k \in Live \ {j}
        PROVE  told'[mJoinerSessions'[k].id] =
                 IF mJoinerSessions'[k].state = "connecting" THEN 0 ELSE 1
    BY <1>5, <1>8, <2>1, ZenonT(40) DEF SessionsInv, ToldOnce, Live
  <2> QED
    BY <1>7, <2>2, <2>3, <2>4 DEF ToldOnce
<1> QED
  BY <1>6, <1>9, <1>10, <1>11 DEF SessionsInv

(* A session that changes its state, and whose handler is called as often  *)
(* as its new state says.                                                  *)
LEMMA StateInv ==
  ASSUME SessionsInv, NEW j \in Live, NEW s \in {"connected", "open"},
         mJoinerSessions' = [mJoinerSessions EXCEPT ![j].state = s],
         told' = IF mJoinerSessions[j].state = "connecting"
                 THEN [told EXCEPT ![mJoinerSessions[j].id] = @ + 1] ELSE told,
         UNCHANGED <<mJoinerSessionTimer, made, accepted>>
  PROVE  SessionsInv'
<1> DEFINE old == mJoinerSessions[j]
<1>1. SessionsShape /\ j \in Joiners /\ old \in Sessions(made) /\ old.id \in 1..MaxSessions
  BY LiveSession, JoinerAssumption, SMT DEF SessionsInv, Live, Sessions, SessionsShape
<1>2. /\ mJoinerSessions'[j] = [old EXCEPT !.state = s]
      /\ mJoinerSessions'[j] \in Sessions(made)
      /\ mJoinerSessions'[j].state = s
      /\ mJoinerSessions'[j].id = old.id
      /\ mJoinerSessions'[j].left = old.left
      /\ \A k \in Joiners \ {j} : mJoinerSessions'[k] = mJoinerSessions[k]
      /\ mJoinerSessions' \in [Joiners -> Sessions(made) \cup {None}]
  BY <1>1 DEF SessionsShape, Sessions
<1>3. Live' = Live
  BY <1>1, <1>2, NoneIsNone, ZenonT(40) DEF Live
<1>4. SessionsShape'
  BY <1>1, <1>2, SMT DEF SessionsShape
<1>5. Distinct' /\ TimerCoversAll'
  BY <1>2, <1>3, SMT DEF SessionsInv, Distinct, TimerCoversAll, Live
<1>6. told'[old.id] = 1
  BY <1>1, SMT DEF SessionsInv, SessionsShape, ToldOnce
<1>7. \A i \in 1..MaxSessions : i # old.id => told'[i] = told[i]
  BY <1>1 DEF SessionsShape
<1>8. \A k \in Live \ {j} :
         mJoinerSessions[k].id # old.id /\ mJoinerSessions[k].id \in 1..MaxSessions
  BY <1>1, LiveSession, JoinerAssumption, SMT DEF SessionsInv, Distinct, Live, Sessions, SessionsShape
<1>9. ToldOnce'
  <2>1. \A i \in 1..MaxSessions : told'[i] <= 1
    BY <1>6, <1>7, SMT DEF SessionsInv, ToldOnce
  <2>2. ASSUME NEW k \in Live \ {j}
        PROVE  told'[mJoinerSessions'[k].id] =
                 IF mJoinerSessions'[k].state = "connecting" THEN 0 ELSE 1
    BY <1>2, <1>7, <1>8 DEF SessionsInv, ToldOnce, Live
  <2> QED
    BY <1>2, <1>3, <1>6, <2>1, <2>2 DEF ToldOnce
<1> QED
  BY <1>4, <1>5, <1>9 DEF SessionsInv

(* Time passes for the timer and the sessions alike.                       *)
LEMMA TickInv == ASSUME SessionsInv, Tick PROVE SessionsInv'
<1>1. /\ SessionsShape /\ mJoinerSessionTimer # 0
      /\ Lifetime \in Nat /\ Stopped = Lifetime + 1
      /\ UNCHANGED <<made, told, accepted>>
  BY JoinerAssumption, SMT DEF SessionsInv, Tick, Lifetime, Stopped
<1>2. ASSUME NEW j \in Live
      PROVE  /\ mJoinerSessions[j].left \in 0..Lifetime
             /\ mJoinerSessions'[j] \in Sessions(made)
             /\ mJoinerSessions'[j].left = Less(mJoinerSessions[j].left)
             /\ mJoinerSessions'[j].id = mJoinerSessions[j].id
             /\ mJoinerSessions'[j].state = mJoinerSessions[j].state
  <2>1. mJoinerSessions[j] \in Sessions(made)
    BY <1>1, LiveSession DEF Live
  <2>2. mJoinerSessions'[j] = [mJoinerSessions[j] EXCEPT !.left = Less(@)]
    BY DEF Tick, Live
  <2>3. \A n \in 0..Lifetime : Less(n) \in 0..Lifetime
    BY <1>1, SMT DEF Less
  <2> QED
    BY <2>1, <2>2, <2>3 DEF Sessions
<1>3. \A j \in Joiners \ Live : mJoinerSessions'[j] = None
  BY DEF Tick
<1>4. mJoinerSessions' \in [Joiners -> Sessions(made) \cup {None}]
  BY <1>2, <1>3 DEF Tick
<1>5. Live' = Live
  BY <1>2, <1>3, NoneIsNone DEF Live
<1>6. mJoinerSessionTimer' = IF mJoinerSessionTimer = Stopped THEN Stopped
                             ELSE mJoinerSessionTimer - 1
  BY <1>1 DEF Tick, Less
<1>7. SessionsShape'
  <2>1. mJoinerSessionTimer \in 0..Stopped /\ mJoinerSessionTimer' \in 0..Stopped
    BY <1>1, <1>6, SMT DEF SessionsShape
  <2>2. Stopped' = Stopped
    BY DEF Stopped, Lifetime
  <2> QED
    BY <1>1, <1>4, <2>1, <2>2 DEF SessionsShape, Sessions, Lifetime
<1>8. Distinct' /\ ToldOnce'
  BY <1>1, <1>2, <1>5, SMT DEF SessionsInv, Distinct, ToldOnce
<1>9. TimerCoversAll'
  <2> SUFFICES ASSUME NEW j \in Live
               PROVE  /\ mJoinerSessionTimer' # Stopped
                      /\ mJoinerSessions'[j].left <= mJoinerSessionTimer'
    BY <1>5 DEF TimerCoversAll, Stopped, Lifetime
  <2>1. /\ mJoinerSessionTimer # Stopped
        /\ mJoinerSessions[j].left <= mJoinerSessionTimer
    BY DEF SessionsInv, TimerCoversAll
  <2>2. mJoinerSessionTimer \in 1..Lifetime
    BY <1>1, <2>1, SMT DEF SessionsShape
  <2>3. mJoinerSessions[j].left \in Nat
    BY <1>1, <1>2, SMT
  <2>4. mJoinerSessions'[j].left = IF mJoinerSessions[j].left = 0 THEN 0
                                   ELSE mJoinerSessions[j].left - 1
    BY <1>2 DEF Less
  <2> QED
    BY <1>1, <1>6, <2>1, <2>2, <2>3, <2>4, SMT
<1> QED
  BY <1>7, <1>8, <1>9 DEF SessionsInv

(* A shot of the timer finds every session expired, as none outlives it:   *)
(* it removes them all and has nothing left to wait for.                   *)
LEMMA TimerInv == ASSUME SessionsInv, HandleJoinerSessionTimer PROVE SessionsInv'
<1>1. SessionsShape /\ mJoinerSessionTimer = 0 /\ UNCHANGED <<made, told, accepted>>
  BY DEF SessionsInv, HandleJoinerSessionTimer
<1>2. \A j \in Live : mJoinerSessions[j].left = 0
  BY <1>1, LiveSession, SMT DEF SessionsInv, TimerCoversAll, Live, Sessions
<1>3. {j \in Live : mJoinerSessions[j].left = 0} = Live
  BY <1>2
<1>4. /\ mJoinerSessions' =
            [j \in Joiners |-> IF j \in Live THEN None ELSE mJoinerSessions[j]]
      /\ mJoinerSessionTimer' = Stopped
  BY <1>3 DEF HandleJoinerSessionTimer
<1>5. \A j \in Joiners : mJoinerSessions'[j] = None
  BY <1>4 DEF Live
<1>6. Live' = {}
  BY <1>5 DEF Live
<1>7. SessionsShape'
  BY <1>1, <1>4, <1>5, JoinerAssumption, SMT DEF SessionsShape, Stopped, Lifetime
<1> QED
  BY <1>1, <1>6, <1>7 DEF SessionsInv, Distinct, TimerCoversAll, ToldOnce

(* Every step of the joiner sessions keeps the invariant.                  *)
LEMMA SessionsNextInv == SessionsInv /\ [SessionsNext]_sessionsVars => SessionsInv'
<1> SUFFICES ASSUME SessionsInv, [SessionsNext]_sessionsVars PROVE SessionsInv'
  OBVIOUS
<1>1. CASE UNCHANGED sessionsVars
  BY <1>1 DEF sessionsVars, SessionsInv, SessionsShape, Distinct, TimerCoversAll, ToldOnce, Live
<1>2. CASE \E j \in Joiners : JoinerRefused(j)
  BY <1>2, RefusedInv
<1>3. CASE \E j \in Joiners : NewSession(j)
  BY <1>3, NewInv
<1>4. ASSUME NEW j \in Joiners, Connected(j) PROVE SessionsInv'
  <2>1. j \in Live /\ mJoinerSessions[j].state = "connecting"
    BY <1>4, LiveSession DEF Connected, SessionsInv
  <2> QED
    BY <1>4, <2>1, StateInv DEF Connected
<1>5. ASSUME NEW j \in Joiners, SessionFails(j) PROVE SessionsInv'
  <2>1. j \in Live
    BY <1>5, LiveSession DEF SessionFails, SessionsInv
  <2> QED
    BY <1>5, <2>1, StateInv DEF SessionFails
<1>6. ASSUME NEW j \in Joiners, HandleJoinFin(j) PROVE SessionsInv'
  <2>1. j \in Live /\ SessionsShape
    BY <1>6, LiveSession DEF HandleJoinFin, SessionsInv
  <2>2. mJoinerSessions[j].id \in 1..made
    BY <2>1, LiveSession DEF Sessions, Live
  <2>3. SessionsShape'
    BY <1>6, <2>1, <2>2 DEF HandleJoinFin, SessionsShape
  <2> QED
    BY <1>6, <2>3 DEF HandleJoinFin, SessionsInv, Distinct, TimerCoversAll, ToldOnce, Live
<1>7. CASE Tick
  BY <1>7, TickInv
<1>8. CASE HandleJoinerSessionTimer
  BY <1>8, TimerInv
<1> QED
  BY <1>1, <1>2, <1>3, <1>4, <1>5, <1>6, <1>7, <1>8 DEF SessionsNext

-----------------------------------------------------------------------------
(* The session table, the timer and the counts have their types.           *)
THEOREM JoinerTypeCorrect == SessionsSpec => []SessionsTypeOK
<1>1. SessionsInv => SessionsTypeOK
  BY LiveSession DEF SessionsInv, SessionsTypeOK, SessionsShape, Live, Sessions
<1> QED
  BY <1>1, SessionsInitInv, SessionsNextInv, PTL DEF SessionsSpec

(* HandleJoinerSessionTimer: while there are sessions the shared timer     *)
(* runs and no session expires after it, for any number of joiners and any *)
(* time limits.                                                            *)
THEOREM OneTimerIsEnough == SessionsSpec => []TimerCoversAll
<1>1. SessionsInv => TimerCoversAll
  BY DEF SessionsInv
<1> QED
  BY <1>1, SessionsInitInv, SessionsNextInv, PTL DEF SessionsSpec

(* JoinerSession::HandleConnect: OnJoinerConnected is called at most once  *)
(* for each session, and once for each that is not connecting any more.    *)
THEOREM ToldOfEachSession == SessionsSpec => []ToldOnce
<1>1. SessionsInv => ToldOnce
  BY DEF SessionsInv
<1> QED
  BY <1>1, SessionsInitInv, SessionsNextInv, PTL DEF SessionsSpec

-----------------------------------------------------------------------------
(* The table.                                                              *)

Tables == [Types -> SUBSET JoinerIds]
Datasets == [Types -> SteeringData]
Whats == {"enable", "disable one", "disable", "dataset", "port", "sync", "start"}
Commands ==
    [what : Whats, dataset : Datasets, erased : Tables, added : Tables,
     applied : BOOLEAN, cut : BOOLEAN]

TableShape ==
    /\ mJoiners \in Tables /\ mCommDataset \in Datasets /\ leader \in Datasets
    /\ ~active => leader = NoSteering
    /\ active \in BOOLEAN /\ unsure \in BOOLEAN /\ cancel \in {"no", "resign", "clear"}
    /\ command \in Commands \cup {NoCommand}

SteeredBy(joiners, dataset) ==
    \A t \in Types :
        joiners[t] \cap Eui64s # {} =>
            /\ dataset[t].present /\ ~dataset[t].otherLength
            /\ joiners[t] \cap Eui64s \subseteq dataset[t].ids
InvitedBy(joiners, dataset) == \A t \in Types : dataset[t].ids \subseteq joiners[t]

After(joiners, erased, added) == [t \in Types |-> (joiners[t] \ erased[t]) \cup added[t]]

Harmless(what) == what \notin {"disable one", "dataset"}

(* What the command will leave is in step, if what it finds is.            *)
Keeps(dataset, erased, added) ==
    LET joiners == After(mJoiners, erased, added)
        merged == MergeDataset(mCommDataset, dataset)
    IN  /\ SteeredBy(mJoiners, mCommDataset) => SteeredBy(joiners, merged)
        /\ InvitedBy(mJoiners, mCommDataset) => InvitedBy(joiners, merged)

(* What the leader has applied is what the command will leave.  A command  *)
(* that is answered leaves table and steering data in step, also when      *)
(* Ctrl-C has cleared both meanwhile, but for what it brings back then.    *)
Prepared ==
    command # NoCommand =>
        /\ active /\ command.applied => leader = Shown(command.dataset)
        /\ command.what \in {"start", "sync"} => command.erased = Nobody /\ command.added = Nobody
        /\ command.cut => mJoiners = Nobody /\ mCommDataset = NoSteering
        /\ Harmless(command.what) => SteeredBy(command.added, command.dataset)
        /\ Harmless(command.what) /\ ~command.cut =>
              Keeps(command.dataset, command.erased, command.added)

TableInv == TableShape /\ Prepared /\ LeaderHasSteeringData

-----------------------------------------------------------------------------
(* A command under way is not mistaken for none.                           *)
LEMMA NoCommandIsNone == NoCommand \notin Commands /\ NoCommand.what = "none"
BY DEF NoCommand, Commands, Whats

(* An empty table and an empty dataset.                                    *)
LEMMA NothingIsTable == /\ Nobody \in Tables /\ NoSteering \in Datasets
                        /\ Absent \in SteeringData
                        /\ Shown(NoSteering) = NoSteering
<1>1. Absent \in SteeringData /\ ~Absent.present
  BY SMT DEF Absent, SteeringData
<1>2. NoSteering \in Datasets /\ Nobody \in Tables
  BY <1>1 DEF NoSteering, Nobody, Datasets, Tables
<1> QED
  BY <1>1, <1>2, SMT DEF NoSteering, Shown

(* Merging replaces what is present and keeps the bytes of what is not.    *)
LEMMA Merges ==
  ASSUME NEW d \in Datasets, NEW e \in Datasets
  PROVE  /\ MergeDataset(d, e) \in Datasets
         /\ Shown(MergeDataset(d, e)) = Shown(e)
         /\ \A t \in Types : e[t].present => MergeDataset(d, e)[t] = e[t]
         /\ \A t \in Types : e[t] = d[t] => MergeDataset(d, e)[t] = d[t]
         /\ MergeDataset(d, d) = d
<1>1. \A t \in Types : d[t] \in SteeringData /\ e[t] \in SteeringData
  BY DEF Datasets
<1>2. ASSUME NEW x \in SteeringData
      PROVE  /\ [x EXCEPT !.present = FALSE] \in SteeringData
             /\ ~[x EXCEPT !.present = FALSE].present
             /\ ~x.present => [x EXCEPT !.present = FALSE] = x
  <2>1. [x EXCEPT !.present = FALSE].present = FALSE
    BY SMT DEF SteeringData
  <2>2. [x EXCEPT !.present = FALSE] \in SteeringData
    BY DEF SteeringData
  <2>3. ~x.present => [x EXCEPT !.present = FALSE] = x
    BY DEF SteeringData
  <2> QED
    BY <2>1, <2>2, <2>3
<1>3. ASSUME NEW t \in Types
      PROVE  /\ MergeDataset(d, e)[t]
                    = IF e[t].present THEN e[t] ELSE [d[t] EXCEPT !.present = FALSE]
             /\ MergeDataset(d, d)[t] = d[t]
  BY <1>1, <1>2 DEF MergeDataset
<1>4. MergeDataset(d, e) \in Datasets
  BY <1>1, <1>2, SMT DEF MergeDataset, Datasets
<1>5. ASSUME NEW t \in Types PROVE Shown(MergeDataset(d, e))[t] = Shown(e)[t]
  <2>1. CASE e[t].present
    BY <1>3, <2>1 DEF Shown
  <2>2. CASE ~e[t].present
    <3>1. ~MergeDataset(d, e)[t].present
      <4>1. MergeDataset(d, e)[t] = [d[t] EXCEPT !.present = FALSE]
        BY <1>3, <2>2
      <4>2. d[t] \in SteeringData
        BY <1>1
      <4>3. ~[d[t] EXCEPT !.present = FALSE].present
        BY <1>2, <4>2
      <4> QED
        BY <4>1, <4>3
    <3> QED
      BY <2>2, <3>1 DEF Shown
  <2> QED
    BY <2>1, <2>2
<1>6. Shown(MergeDataset(d, e)) = Shown(e)
  BY <1>5 DEF Shown
<1>7. MergeDataset(d, d) = d
  BY <1>3 DEF MergeDataset, Datasets
<1> QED
  BY <1>1, <1>2, <1>3, <1>4, <1>6, <1>7

(* No joiner is enabled, and the leader knows of none.                     *)
LEMMA TableInitInv == TableInit => TableInv
BY NothingIsTable DEF TableInit, TableInv, TableShape, Prepared, LeaderHasSteeringData

(* A new command that leaves in step what it finds in step.                *)
LEMMA RequestInv ==
  ASSUME TableInv, NEW what \in Whats,
         NEW dataset \in Datasets, NEW erased \in Tables, NEW added \in Tables,
         Request(what, dataset, erased, added),
         UNCHANGED <<mJoiners, mCommDataset, cancel, unsure>>,
         leader' \in Datasets, active' \in BOOLEAN, ~active' => leader' = NoSteering,
         what \in {"start", "sync"} => erased = Nobody /\ added = Nobody,
         Harmless(what) => SteeredBy(added, dataset) /\ Keeps(dataset, erased, added)
  PROVE  TableInv'
<1>1. /\ command' \in Commands /\ command' # NoCommand
      /\ command'.what = what /\ command'.dataset = dataset
      /\ command'.erased = erased /\ command'.added = added
      /\ command'.applied = FALSE /\ command'.cut = FALSE
  <2>1. command' = [what |-> what, dataset |-> dataset, erased |-> erased, added |-> added,
                    applied |-> FALSE, cut |-> FALSE]
    BY DEF Request
  <2>2. command' \in Commands
    BY <2>1, SMT DEF Commands
  <2>3. command' # NoCommand
    BY <2>2, NoCommandIsNone
  <2> QED
    BY <2>1, <2>2, <2>3, SMT
<1>2. TableShape'
  BY <1>1 DEF TableInv, TableShape
<1>3. Prepared'
  BY <1>1 DEF Prepared, Keeps
<1> QED
  BY <1>1, <1>2, <1>3 DEF TableInv, LeaderHasSteeringData

(* A command of an active commissioner that leaves in step what it finds   *)
(* in step.                                                                *)
LEMMA CommandInv ==
  ASSUME TableInv, NEW what \in Whats,
         NEW dataset \in Datasets, NEW erased \in Tables, NEW added \in Tables,
         Command(what, dataset, erased, added),
         what \in {"start", "sync"} => erased = Nobody /\ added = Nobody,
         Harmless(what) => SteeredBy(added, dataset) /\ Keeps(dataset, erased, added)
  PROVE  TableInv'
BY RequestInv DEF Command, TableInv, TableShape

(* GetSteeringData: a command that sets the steering data of one type.     *)
LEMMA SteeringInv ==
  ASSUME TableInv, NEW what \in Whats \ {"start", "sync"},
         NEW t \in Types, NEW b \in BOOLEAN, NEW ids \in SUBSET JoinerIds,
         NEW E \in SUBSET JoinerIds, NEW A \in SUBSET JoinerIds,
         Command(what, Steering(t, b, ids), Of(t, E), Of(t, A)),
         Harmless(what) => (A \cap Eui64s # {} => ~b /\ A \cap Eui64s \subseteq ids),
         Harmless(what) /\ SteeredBy(mJoiners, mCommDataset) =>
             LET K == (mJoiners[t] \ E) \cup A
             IN  K \cap Eui64s # {} => ~b /\ K \cap Eui64s \subseteq ids,
         Harmless(what) /\ InvitedBy(mJoiners, mCommDataset) =>
             ids \subseteq (mJoiners[t] \ E) \cup A
  PROVE  TableInv'
<1> DEFINE d == Steering(t, b, ids)
           x == [present |-> TRUE, otherLength |-> b, ids |-> ids]
           J == After(mJoiners, Of(t, E), Of(t, A))
           M == MergeDataset(mCommDataset, d)
<1>1. x \in SteeringData /\ x.present /\ x.otherLength = b /\ x.ids = ids
  BY SMT DEF SteeringData
<1>2. mCommDataset \in Datasets /\ mJoiners \in Tables
  BY DEF TableInv, TableShape
<1>3. d \in Datasets /\ d[t] = x /\ \A u \in Types \ {t} : d[u] = mCommDataset[u]
  BY <1>1, <1>2, SMT DEF Datasets, Steering
<1>4. /\ Of(t, E) \in Tables /\ Of(t, A) \in Tables /\ Of(t, A)[t] = A
      /\ \A u \in Types \ {t} : Of(t, A)[u] = {}
  BY SMT DEF Tables, Of
<1>5. J[t] = (mJoiners[t] \ E) \cup A /\ \A u \in Types \ {t} : J[u] = mJoiners[u]
  BY <1>2, SMT DEF After, Of, Tables
<1> HIDE DEF x, d, J
<1>6. M[t] = x /\ \A u \in Types \ {t} : M[u] = mCommDataset[u]
  BY <1>1, <1>2, <1>3, Merges
<1> HIDE DEF M
<1>7. Harmless(what) => SteeredBy(Of(t, A), d)
  BY <1>1, <1>3, <1>4 DEF SteeredBy
<1>8. Harmless(what) /\ SteeredBy(mJoiners, mCommDataset) => SteeredBy(J, M)
  BY <1>1, <1>5, <1>6 DEF SteeredBy
<1>9. Harmless(what) /\ InvitedBy(mJoiners, mCommDataset) => InvitedBy(J, M)
  BY <1>1, <1>5, <1>6 DEF InvitedBy
<1>10. Harmless(what) => Keeps(d, Of(t, E), Of(t, A))
  BY <1>8, <1>9 DEF Keeps, J, M
<1> QED
  BY <1>3, <1>4, <1>7, <1>10, CommandInv DEF d

(* One joiner is enabled.                                                  *)
LEMMA EnableInv ==
  ASSUME TableInv, NEW t \in Types, NEW e \in Eui64s, EnableJoiner(t, e) PROVE TableInv'
<1> DEFINE ids == AddJoiner(mCommDataset[t], e)
<1>1. mCommDataset[t] \in SteeringData /\ mJoiners[t] \in SUBSET JoinerIds
  BY DEF TableInv, TableShape, Datasets, Tables
<1>2. mCommDataset[t].ids \in SUBSET JoinerIds
  BY <1>1, SMT DEF SteeringData
<1>3. {e} \in SUBSET JoinerIds /\ {} \in SUBSET JoinerIds /\ ids \in SUBSET JoinerIds
  BY <1>2 DEF JoinerIds, AddJoiner
<1>4. Command("enable", Steering(t, FALSE, ids), Of(t, {}), Of(t, {e}))
  <2>1. Of(t, {}) = Nobody
    BY DEF Of, Nobody
  <2> QED
    BY <2>1 DEF EnableJoiner
<1>5. {e} \subseteq ids
  BY DEF AddJoiner
<1>6. ASSUME SteeredBy(mJoiners, mCommDataset)
      PROVE  ((mJoiners[t] \ {}) \cup {e}) \cap Eui64s \subseteq ids
  <2>1. CASE mCommDataset[t].otherLength
    <3>1. mJoiners[t] \cap Eui64s = {}
      BY <1>6, <2>1 DEF SteeredBy
    <3> QED
      BY <1>5, <3>1
  <2>2. CASE ~mCommDataset[t].otherLength
    <3>1. mJoiners[t] \cap Eui64s \subseteq mCommDataset[t].ids
      BY <1>6 DEF SteeredBy
    <3> QED
      BY <1>5, <2>2, <3>1 DEF AddJoiner
  <2> QED
    BY <2>1, <2>2
<1>7. ASSUME InvitedBy(mJoiners, mCommDataset)
      PROVE  ids \subseteq (mJoiners[t] \ {}) \cup {e}
  BY <1>7 DEF InvitedBy, AddJoiner
<1>8. "enable" \in Whats \ {"start", "sync"}
  BY DEF Whats
<1> HIDE DEF ids
<1> QED
  BY <1>3, <1>4, <1>5, <1>6, <1>7, <1>8, SteeringInv

(* A single joiner is disabled.                                            *)
LEMMA DisableInv ==
  ASSUME TableInv, NEW t \in Types, NEW e \in Eui64s, DisableJoiner(t, e) PROVE TableInv'
<1>1. PICK b \in BOOLEAN, ids \in {{}, {e}}, E \in {{}, {e}} :
          Command("disable one", Steering(t, b, ids), Of(t, E), Nobody)
  <2>1. Of(t, {}) = Nobody
    BY DEF Of, Nobody
  <2> DEFINE others == \E u \in Types : \E f \in mJoiners[u] : <<u, f>> # <<t, e>>
  <2>2. Command("disable one", Steering(t, ~others, IF others THEN {e} ELSE {}),
                IF others THEN Of(t, {e}) ELSE Nobody, Nobody)
    BY DEF DisableJoiner
  <2> HIDE DEF others
  <2>3. CASE others
    <3>1. Command("disable one", Steering(t, FALSE, {e}), Of(t, {e}), Nobody)
      BY <2>2, <2>3
    <3> QED
      BY <3>1
  <2>4. CASE ~others
    <3>1. Command("disable one", Steering(t, TRUE, {}), Of(t, {}), Nobody)
      BY <2>1, <2>2, <2>4
    <3> QED
      BY <3>1
  <2> QED
    BY <2>3, <2>4
<1>2. Command("disable one", Steering(t, b, ids), Of(t, E), Of(t, {}))
  <2>1. Of(t, {}) = Nobody
    BY DEF Of, Nobody
  <2> QED
    BY <1>1, <2>1
<1>3. ids \in SUBSET JoinerIds /\ E \in SUBSET JoinerIds /\ {} \in SUBSET JoinerIds
  BY DEF JoinerIds
<1>4. "disable one" \in Whats \ {"start", "sync"} /\ ~Harmless("disable one")
  BY DEF Whats, Harmless
<1> QED
  BY <1>2, <1>3, <1>4, SteeringInv

(* All joiners of a type are enabled or disabled.                          *)
LEMMA AllInv ==
  ASSUME TableInv, NEW t \in Types, EnableAllJoiners(t) \/ DisableAllJoiners(t) PROVE TableInv'
<1>1. /\ mJoiners[t] \in SUBSET JoinerIds /\ {AllJoiners} \in SUBSET JoinerIds
      /\ {} \in SUBSET JoinerIds /\ JoinerIds \in SUBSET JoinerIds
  BY DEF TableInv, TableShape, Tables, JoinerIds
<1>2. mJoiners[t] \ JoinerIds = {} /\ {AllJoiners} \cap Eui64s = {}
  BY <1>1, TableAssumption
<1>3. /\ "enable" \in Whats \ {"start", "sync"} /\ "disable" \in Whats \ {"start", "sync"}
  BY DEF Whats
<1>4. CASE EnableAllJoiners(t)
  <2>1. Command("enable", Steering(t, TRUE, {AllJoiners}), Of(t, JoinerIds), Of(t, {AllJoiners}))
    BY <1>4 DEF EnableAllJoiners
  <2>2. (mJoiners[t] \ JoinerIds) \cup {AllJoiners} = {AllJoiners}
    BY <1>2
  <2> QED
    BY <1>1, <1>2, <1>3, <2>1, <2>2, SteeringInv
<1>5. CASE DisableAllJoiners(t)
  <2>1. Command("disable", Steering(t, TRUE, {}), Of(t, JoinerIds), Of(t, {}))
    <3>1. Of(t, {}) = Nobody
      BY DEF Of, Nobody
    <3> QED
      BY <1>5, <3>1 DEF DisableAllJoiners
  <2>2. ((mJoiners[t] \ JoinerIds) \cup {}) \cap Eui64s = {} /\ {} \cap Eui64s = {}
    BY <1>2
  <2> QED
    BY <1>1, <1>3, <2>1, <2>2, SteeringInv
<1> QED
  BY <1>4, <1>5

(* Nothing added and nothing erased leaves the table as it is.             *)
LEMMA NobodyKeeps ==
  ASSUME TableInv
  PROVE  /\ mCommDataset \in Datasets
         /\ SteeredBy(Nobody, mCommDataset) /\ Keeps(mCommDataset, Nobody, Nobody)
         /\ \A d : SteeredBy(Nobody, d)
<1>1. mCommDataset \in Datasets /\ mJoiners \in Tables
  BY DEF TableInv, TableShape
<1>2. MergeDataset(mCommDataset, mCommDataset) = mCommDataset
  BY <1>1, Merges
<1>3. ASSUME NEW t \in Types
      PROVE  Nobody[t] = {} /\ After(mJoiners, Nobody, Nobody)[t] = mJoiners[t]
  BY DEF Nobody, After
<1>4. \A d : SteeredBy(Nobody, d)
  BY <1>3 DEF SteeredBy
<1> HIDE DEF Nobody
<1>5. Keeps(mCommDataset, Nobody, Nobody)
  BY <1>2, <1>3 DEF Keeps, SteeredBy, InvitedBy
<1> QED
  BY <1>1, <1>4, <1>5

(* The dataset is sent as it is, or is the user's.                         *)
LEMMA SyncInv ==
  ASSUME TableInv,
         \/ SetJoinerUdpPort \/ SyncNetworkData \/ Start
         \/ \E d \in UserDatasets : SetCommissionerDataset(d)
  PROVE  TableInv'
<1>1. CASE SetJoinerUdpPort \/ SyncNetworkData
  <2>1. PICK what \in {"port", "sync"} : Command(what, mCommDataset, Nobody, Nobody)
    BY <1>1 DEF SetJoinerUdpPort, SyncNetworkData
  <2>2. what \in Whats
    BY DEF Whats
  <2> QED
    BY <2>1, <2>2, NothingIsTable, NobodyKeeps, CommandInv
<1>2. CASE Start
  <2>1. "start" \in Whats
    BY DEF Whats
  <2>2. Request("start", mCommDataset, Nobody, Nobody)
    BY <1>2 DEF Start
  <2>3. /\ UNCHANGED <<mJoiners, mCommDataset, cancel, unsure>>
        /\ leader' = NoSteering /\ active' = TRUE
    BY <1>2 DEF Start
  <2> QED
    BY <2>1, <2>2, <2>3, NothingIsTable, NobodyKeeps, RequestInv
<1>3. CASE \E d \in UserDatasets : SetCommissionerDataset(d)
  <2>1. PICK d \in UserDatasets : Command("dataset", d, Nobody, Nobody)
    BY <1>3 DEF SetCommissionerDataset
  <2>2. d \in Datasets
    BY TableAssumption DEF Datasets
  <2>3. "dataset" \in Whats \ {"start", "sync"} /\ ~Harmless("dataset")
    BY DEF Whats, Harmless
  <2> QED
    BY <2>1, <2>2, <2>3, NothingIsTable, CommandInv
<1> QED
  BY <1>1, <1>2, <1>3

-----------------------------------------------------------------------------
(* The leader takes a dataset: that of the command, or, if it synchronises,*)
(* the application's as it is by then.                                     *)
LEMMA AppliesInv == ASSUME TableInv, LeaderApplies PROVE TableInv'
<1>1. command # NoCommand /\ command \in Commands
  BY DEF LeaderApplies, TableInv, TableShape
<1>2. PICK d : /\ d = command.dataset \/ (d = mCommDataset /\ command.what \in {"start", "sync"})
               /\ command' = [command EXCEPT !.applied = TRUE, !.dataset = d]
               /\ leader' = Shown(d)
  BY DEF LeaderApplies
<1>3. d \in Datasets
  BY <1>1, <1>2, SMT DEF Commands, TableInv, TableShape
<1>4. /\ command' \in Commands
      /\ command'.what = command.what /\ command'.dataset = d /\ command'.cut = command.cut
      /\ command'.erased = command.erased /\ command'.added = command.added
  BY <1>1, <1>2, <1>3 DEF Commands
<1>5. command' # NoCommand
  BY <1>4, NoCommandIsNone
<1>6. active /\ UNCHANGED <<mJoiners, mCommDataset, active, cancel, unsure>>
  BY DEF LeaderApplies
<1>7. leader' \in Datasets
  BY <1>2, <1>3, NothingIsTable DEF Shown, Datasets
<1>8. TableShape'
  BY <1>4, <1>6, <1>7 DEF TableInv, TableShape
<1>9. /\ Harmless(command.what) => SteeredBy(command.added, d)
      /\ Harmless(command.what) /\ ~command.cut => Keeps(d, command.erased, command.added)
  <2>1. CASE d = command.dataset
    BY <1>1, <2>1 DEF TableInv, Prepared
  <2>2. CASE d = mCommDataset /\ command.what \in {"start", "sync"}
    <3>1. command.erased = Nobody /\ command.added = Nobody
      BY <1>1, <2>2 DEF TableInv, Prepared
    <3> QED
      BY <2>2, <3>1, NobodyKeeps
  <2> QED
    BY <1>2, <2>1, <2>2
<1>10. Prepared'
  BY <1>1, <1>2, <1>4, <1>6, <1>9 DEF TableInv, Prepared, Keeps
<1> QED
  BY <1>5, <1>8, <1>10 DEF TableInv, LeaderHasSteeringData

(* The command returns or fails, or the session ends.                      *)
LEMMA AnswerInv ==
  ASSUME TableInv, Succeed \/ Fail \/ Stop \/ ConnectionLost PROVE TableInv'
<1>1. CASE Succeed
  <2>1. command # NoCommand /\ command \in Commands
    BY <1>1 DEF Succeed, TableInv, TableShape
  <2>2. command.dataset \in Datasets /\ command.added \in Tables /\ mJoiners \in Tables
    BY <2>1, SMT DEF Commands, TableInv, TableShape
  <2>3. mJoiners' \in Tables
    BY <1>1, <2>2 DEF Succeed, Tables
  <2>4. /\ mCommDataset' \in Datasets
        /\ Shown(mCommDataset') = Shown(command.dataset)
    BY <1>1, <2>2, Merges DEF Succeed, TableInv, TableShape
  <2>5. active => leader = Shown(command.dataset)
    BY <1>1, <2>1 DEF Succeed, TableInv, Prepared
  <2> QED
    BY <1>1, <2>3, <2>4, <2>5 DEF Succeed, TableInv, TableShape, Prepared, LeaderHasSteeringData
<1>2. CASE Fail
  BY <1>2, NothingIsTable DEF Fail, Resign, Clear, TableInv, TableShape, Prepared, LeaderHasSteeringData
<1>3. CASE Stop
  BY <1>3, NothingIsTable DEF Stop, Resign, Clear, TableInv, TableShape, Prepared, LeaderHasSteeringData
<1>4. CASE ConnectionLost
  <2>1. Prepared'
    BY <1>4 DEF ConnectionLost, TableInv, Prepared, Keeps
  <2> QED
    BY <1>4, <2>1, NothingIsTable DEF ConnectionLost, TableInv, TableShape, LeaderHasSteeringData
<1> QED
  BY <1>1, <1>2, <1>3, <1>4

(* Ctrl-C, on the signal thread.                                           *)
LEMMA CancelInv ==
  ASSUME TableInv, CancelCommand \/ CancelResigns \/ CancelClears PROVE TableInv'
<1>1. CASE CancelCommand
  <2>1. Prepared'
    BY <1>1 DEF CancelCommand, TableInv, Prepared, Keeps
  <2> QED
    BY <1>1, <2>1 DEF CancelCommand, TableInv, TableShape, LeaderHasSteeringData
<1>2. CASE CancelResigns
  <2>1. Prepared'
    BY <1>2 DEF CancelResigns, Resign, TableInv, Prepared, Keeps
  <2> QED
    BY <1>2, <2>1, NothingIsTable DEF CancelResigns, Resign, TableInv, TableShape, LeaderHasSteeringData
<1>3. CASE CancelClears
  <2>1. CASE command = NoCommand
    BY <1>3, <2>1, NothingIsTable
       DEF CancelClears, Clear, TableInv, TableShape, Prepared, LeaderHasSteeringData
  <2>2. CASE command # NoCommand
    <3>1. command \in Commands
      BY <2>2 DEF TableInv, TableShape
    <3>2. command' = [command EXCEPT !.cut = TRUE]
      BY <1>3, <2>2 DEF CancelClears
    <3>3. /\ command' \in Commands /\ command'.cut
          /\ command'.what = command.what /\ command'.dataset = command.dataset
          /\ command'.erased = command.erased /\ command'.added = command.added
          /\ command'.applied = command.applied
      BY <3>1, <3>2 DEF Commands
    <3>4. command' # NoCommand
      BY <3>3, NoCommandIsNone
    <3>5. /\ mJoiners' = Nobody /\ mCommDataset' = NoSteering /\ cancel' = "no"
          /\ unsure' = (unsure \/ active) /\ UNCHANGED <<active, leader>>
      BY <1>3 DEF CancelClears, Clear
    <3>6. TableShape'
      BY <3>3, <3>5, NothingIsTable DEF TableInv, TableShape
    <3>7. Prepared'
      BY <2>2, <3>3, <3>5 DEF TableInv, Prepared
    <3> QED
      BY <3>4, <3>6, <3>7 DEF TableInv, LeaderHasSteeringData
  <2> QED
    BY <2>1, <2>2
<1> QED
  BY <1>1, <1>2, <1>3

(* Every step of the table keeps the invariant.                            *)
LEMMA TableNextInv == TableInv /\ [TableNext]_tableVars => TableInv'
<1> SUFFICES ASSUME TableInv, [TableNext]_tableVars PROVE TableInv'
  OBVIOUS
<1>1. CASE UNCHANGED tableVars
  BY <1>1 DEF tableVars, TableInv, TableShape, Prepared, Keeps, LeaderHasSteeringData
<1>2. CASE \E t \in Types, e \in Eui64s : EnableJoiner(t, e) \/ DisableJoiner(t, e)
  BY <1>2, EnableInv, DisableInv
<1>3. CASE \E t \in Types : EnableAllJoiners(t) \/ DisableAllJoiners(t)
  BY <1>3, AllInv
<1>4. CASE \/ SetJoinerUdpPort \/ SyncNetworkData \/ Start
           \/ \E d \in UserDatasets : SetCommissionerDataset(d)
  BY <1>4, SyncInv
<1>5. CASE LeaderApplies
  BY <1>5, AppliesInv
<1>6. CASE Succeed \/ Fail \/ Stop \/ ConnectionLost
  BY <1>6, AnswerInv
<1>7. CASE CancelCommand \/ CancelResigns \/ CancelClears
  BY <1>7, CancelInv
<1> QED
  BY <1>1, <1>2, <1>3, <1>4, <1>5, <1>6, <1>7 DEF TableNext

-----------------------------------------------------------------------------
(* The tables have their types, and the leader holds steering data only    *)
(* for a commissioner that is active.                                      *)
THEOREM TableTypeCorrect == TableSpec => []TableTypeOK
<1>1. TableInv => TableTypeOK
  BY DEF TableInv, TableShape, TableTypeOK, Tables, Datasets
<1> QED
  BY <1>1, TableInitInv, TableNextInv, PTL DEF TableSpec

(* CommissionerApp::SyncNetworkData and the commands that set the dataset: *)
(* while the commissioner is active, and no command is under way or has    *)
(* failed since the last success, the leader has the steering data that    *)
(* the application shows.                                                  *)
THEOREM LeaderIsTold == TableSpec => []LeaderHasSteeringData
<1>1. TableInv => LeaderHasSteeringData
  BY DEF TableInv
<1> QED
  BY <1>1, TableInitInv, TableNextInv, PTL DEF TableSpec

(* Only a command that is answered, or Stop on either thread, changes the  *)
(* table or the steering data of the application.                          *)
LEMMA TableChanges ==
  ASSUME TableInv, [TableNext]_tableVars
  PROVE  \/ UNCHANGED <<mJoiners, mCommDataset>>
         \/ Succeed
         \/ mJoiners' = Nobody /\ mCommDataset' = NoSteering
BY DEF TableNext, tableVars, EnableJoiner, DisableJoiner, EnableAllJoiners, DisableAllJoiners,
       SetCommissionerDataset, SetJoinerUdpPort, SyncNetworkData, Command, Start,
       LeaderApplies, Fail, Stop, Resign, Clear, ConnectionLost,
       CancelCommand, CancelResigns, CancelClears

(* A command brings table and steering data in step back together, or, if  *)
(* Ctrl-C has cleared both, a table that its steering data covers.         *)
LEMMA SucceedKeeps ==
  ASSUME TableInv, Succeed, Harmless(command.what)
  PROVE  /\ SteeredBy(mJoiners, mCommDataset) => SteeredBy(mJoiners', mCommDataset')
         /\ ~command.cut /\ InvitedBy(mJoiners, mCommDataset)
                => InvitedBy(mJoiners', mCommDataset')
<1>1. command # NoCommand /\ command \in Commands
  BY DEF Succeed, TableInv, TableShape
<1>2. /\ mCommDataset' = MergeDataset(mCommDataset, command.dataset)
      /\ mJoiners' = After(mJoiners, command.erased, command.added)
  BY DEF Succeed, After
<1>3. CASE ~command.cut
  BY <1>1, <1>2, <1>3 DEF TableInv, Prepared, Keeps
<1>4. CASE command.cut
  <2>1. mJoiners = Nobody /\ SteeredBy(command.added, command.dataset)
    BY <1>1, <1>4 DEF TableInv, Prepared
  <2>2. ASSUME NEW t \in Types PROVE mJoiners'[t] = command.added[t]
    BY <1>2, <2>1 DEF After, Nobody
  <2>3. command.dataset \in Datasets /\ mCommDataset \in Datasets
    BY <1>1, SMT DEF Commands, TableInv, TableShape
  <2>4. ASSUME NEW t \in Types, command.dataset[t].present
        PROVE  mCommDataset'[t] = command.dataset[t]
    BY <1>2, <2>3, <2>4, Merges
  <2> QED
    BY <1>4, <2>1, <2>2, <2>4 DEF SteeredBy
<1> QED
  BY <1>3, <1>4

(* EnableJoiner to SetCommissionerDataset: the enabled joiners are in the  *)
(* steering data, and no others, through any sequence of commands,         *)
(* failures, restarts and cancellations but for the cases that TableInStep *)
(* names.                                                                  *)
THEOREM StaysInStep == TableSpec => TableInStep
<1>1. ASSUME TableInv, [TableNext]_tableVars
      PROVE  [command.what \notin {"disable one", "dataset"} =>
                 /\ Steered => Steered'
                 /\ Invited /\ (command # NoCommand => ~command.cut) => Invited']_tableVars
  <2>1. CASE UNCHANGED <<mJoiners, mCommDataset>>
    BY <2>1 DEF Steered, Invited
  <2>2. CASE Succeed
    <3>1. /\ Steered <=> SteeredBy(mJoiners, mCommDataset)
          /\ Steered' <=> SteeredBy(mJoiners', mCommDataset')
          /\ Invited <=> InvitedBy(mJoiners, mCommDataset)
          /\ Invited' <=> InvitedBy(mJoiners', mCommDataset')
      BY DEF Steered, Invited, SteeredBy, InvitedBy
    <3>2. command # NoCommand
      BY <2>2 DEF Succeed
    <3> QED
      BY <1>1, <2>2, <3>1, <3>2, SucceedKeeps DEF Harmless
  <2>3. CASE mJoiners' = Nobody /\ mCommDataset' = NoSteering
    <3>1. ASSUME NEW t \in Types PROVE mJoiners'[t] = {} /\ mCommDataset'[t].ids = {}
      BY <2>3, SMT DEF Nobody, NoSteering, Absent
    <3> QED
      BY <3>1 DEF Steered, Invited
  <2> QED
    BY <1>1, <2>1, <2>2, <2>3, TableChanges
<1> QED
  BY <1>1, TableInitInv, TableNextInv, PTL DEF TableSpec, TableInStep
=============================================================================
