---------------------------- MODULE CoapServer -----------------------------
(***************************************************************************)
(* The server half of Coap (library/coap.cpp): requests of several peers,  *)
(* the resources that handle them and the cache of responses that answers  *)
(* a duplicate.  The commissioner serves the border agent and the mesh     *)
(* (RLY_RX, UDP_RX, MGMT_DATASET_CHANGED, MGMT_PANID_CONFLICT and          *)
(* MGMT_ED_REPORT) and joiners (JOIN_FIN) this way.                        *)
(*                                                                         *)
(* A Coap object has one Endpoint, through which one peer reaches it over  *)
(* DTLS, or all nodes of the mesh do over the UDP proxy.  Requests are     *)
(* numbered in the order in which the peers make them; the network loses,  *)
(* duplicates and reorders requests and responses.                         *)
(***************************************************************************)
EXTENDS Naturals, Sequences

CONSTANTS
    Peers,
    Kinds,           \* of requests: "con" and "non" for a resource the server
                     \* has, "con404" and "non404" for one it has not.  RLY_RX
                     \* and UDP_RX, which are never answered, are "non".
    MaxMessageId,    \* message ids are 0..MaxMessageId
    MaxRequests,     \* bound on the requests made
    MaxCopies        \* bound on the copies of a request in flight

ASSUME ServerAssumption ==
    /\ Kinds \subseteq {"con", "non", "con404", "non404"}
    /\ MaxMessageId \in Nat /\ MaxRequests \in Nat /\ MaxCopies \in Nat \ {0}

VARIABLES
    requests,         \* requests[n]: peer, message id and kind of request n
    expired,          \* requests whose EXCHANGE_LIFETIME is over
    net,              \* net[n]: number of copies of request n in flight
    mMessageId,       \* the id the server allocated last
    mResponsesCache,  \* sequence of responses, by time: message id and the
                      \* request each was made for
    handled,          \* how often the resource handled each request
    answers,          \* <<n, r>>: request n was sent the response made for r
    received          \* requests whose peer has received a response

serverVars == <<requests, expired, net, mMessageId, mResponsesCache, handled, answers, received>>

MessageIds == 0..MaxMessageId
Made == 1..Len(requests)
Confirmable(n) == requests[n].kind \in {"con", "con404"}
HasResource(n) == requests[n].kind \in {"con", "non"}

ServerInit ==
    /\ requests = <<>>
    /\ expired = {} /\ received = {}
    /\ net = [n \in 1..MaxRequests |-> 0]
    /\ mMessageId = 0
    /\ mResponsesCache = <<>>
    /\ handled = [n \in 1..MaxRequests |-> 0]
    /\ answers = {}

-----------------------------------------------------------------------------
(* The peers and the network.                                              *)

(* A peer uses a message id again only after EXCHANGE_LIFETIME.            *)
PeerSends(p, id, kind) ==
    /\ Len(requests) < MaxRequests
    /\ \A n \in Made : requests[n].peer = p /\ requests[n].id = id => n \in expired
    /\ requests' = Append(requests, [peer |-> p, id |-> id, kind |-> kind])
    /\ \E copies \in 1..MaxCopies : net' = [net EXCEPT ![Len(requests) + 1] = copies]
    /\ UNCHANGED <<expired, mMessageId, mResponsesCache, handled, answers, received>>

(* A confirmable request that has no response is sent again.               *)
PeerRetransmits(n) ==
    /\ Confirmable(n) /\ n \notin received \cup expired
    /\ net[n] < MaxCopies
    /\ net' = [net EXCEPT ![n] = @ + 1]
    /\ UNCHANGED <<requests, expired, mMessageId, mResponsesCache, handled, answers, received>>

Lost(n) ==
    /\ net[n] > 0
    /\ net' = [net EXCEPT ![n] = @ - 1]
    /\ UNCHANGED <<requests, expired, mMessageId, mResponsesCache, handled, answers, received>>

(* The peer receives a response that was sent; it may as well be lost.     *)
PeerReceives(n) ==
    /\ \E r \in Made : <<n, r>> \in answers
    /\ received' = received \cup {n}
    /\ UNCHANGED <<requests, expired, net, mMessageId, mResponsesCache, handled, answers>>

(* Time passes.  ResponsesCache::mTimer is never started, so Eliminate is  *)
(* never called and the cache stays as it is.                              *)
LifetimePasses(n) ==
    /\ n \notin expired
    /\ expired' = expired \cup {n}
    /\ net' = [net EXCEPT ![n] = 0]
    /\ UNCHANGED <<requests, mMessageId, mResponsesCache, handled, answers, received>>

-----------------------------------------------------------------------------
(* Coap::HandleRequest.                                                    *)

(* Mutant: the message id is not compared.                                 *)
MatchAny(n) == DOMAIN mResponsesCache

(* ResponsesCache::Match: the positions of the responses that match; the   *)
(* first is the oldest.  The endpoints compared are the same object.       *)
Match(n) == {i \in DOMAIN mResponsesCache : mResponsesCache[i].id = requests[n].id}

AllocMessageId == (mMessageId + 1) % (MaxMessageId + 1)

(* Mutant: a response is not cached.                                       *)
SendResponseUncached(n, id) ==
    /\ answers' \in {answers, answers \cup {<<n, n>>}}
    /\ UNCHANGED mResponsesCache

(* Coap::SendResponse: cached under its own message id, where 0 stands for *)
(* none and is replaced by the request's, then sent; the endpoint may fail *)
(* to send it.                                                             *)
SendResponse(n, id) ==
    /\ mResponsesCache' = Append(mResponsesCache,
          [id |-> IF id = 0 THEN requests[n].id ELSE id, for |-> n])
    /\ answers' \in {answers, answers \cup {<<n, n>>}}

(* Coap::SendHeaderResponse: an acknowledgement has the request's message  *)
(* id, a non-confirmable response a new one.                               *)
SendHeaderResponse(n) ==
    /\ mMessageId' = IF Confirmable(n) THEN mMessageId ELSE AllocMessageId
    /\ SendResponse(n, IF Confirmable(n) THEN requests[n].id ELSE AllocMessageId)

(* Mutant: a duplicate is dropped, in the belief that its response is on   *)
(* its way.                                                                *)
DropDuplicate(n) == UNCHANGED answers

(* The response is sent again.                                             *)
AnswerFromCache(n) ==
    LET first == CHOOSE i \in Match(n) : \A j \in Match(n) : i <= j
    IN  answers' \in {answers, answers \cup {<<n, mResponsesCache[first].for>>}}

(* The resource's handler, which answers a confirmable request with        *)
(* SendEmptyChanged or JOIN_FIN.rsp and leaves others unanswered;          *)
(* otherwise SendNotFound.                                                 *)
HandleRequest(n) ==
    /\ net[n] > 0
    /\ net' = [net EXCEPT ![n] = @ - 1]
    /\ \/ /\ Match(n) # {}
          /\ AnswerFromCache(n)
          /\ UNCHANGED <<mMessageId, mResponsesCache, handled>>
       \/ /\ Match(n) = {} /\ HasResource(n)
          /\ handled' = [handled EXCEPT ![n] = @ + 1]
          /\ IF Confirmable(n) THEN SendHeaderResponse(n)
             ELSE UNCHANGED <<mMessageId, mResponsesCache, answers>>
       \/ /\ Match(n) = {} /\ ~HasResource(n)
          /\ SendHeaderResponse(n)
          /\ UNCHANGED handled
    /\ UNCHANGED <<requests, expired, received>>

ServerNext ==
    \/ \E p \in Peers, id \in MessageIds, kind \in Kinds : PeerSends(p, id, kind)
    \/ \E n \in Made : PeerRetransmits(n)
    \/ \E n \in Made : Lost(n)
    \/ \E n \in Made : PeerReceives(n)
    \/ \E n \in Made : LifetimePasses(n)
    \/ \E n \in Made : HandleRequest(n)

ServerSpec == ServerInit /\ [][ServerNext]_serverVars

(* A peer retransmits; a request or response sent again and again arrives. *)
ServerFairness ==
    \A n \in 1..MaxRequests :
        /\ WF_serverVars(n \in Made /\ PeerRetransmits(n))
        /\ SF_serverVars(n \in Made /\ HandleRequest(n) /\ answers' # answers)
        /\ SF_serverVars(n \in Made /\ PeerReceives(n))

FairServerSpec == ServerSpec /\ ServerFairness

----------------------------------------------------------------------------
(* coap.hpp:712, the cache is there "to avoid reprocessing of the same     *)
(* requests": however often a confirmable request is duplicated or         *)
(* retransmitted, its resource handles it at most once.                    *)
HandledOnce == \A n \in Made : Confirmable(n) => handled[n] <= 1

(* The same line, "the same requests": the cache answers a request only    *)
(* with the response made for it, or with one of the three kinds that the  *)
(* code cannot tell from it: a response to another node of the mesh, one   *)
(* whose lifetime is over (nothing is ever removed), and one to a          *)
(* non-confirmable request, which is cached under an id of the server's    *)
(* own choice.                                                             *)
OnlyTheSameRequest ==
    /\ mResponsesCache \in Seq([id : MessageIds, for : Made])
    /\ answers \subseteq Made \X Made
    /\ \A a \in answers :
          LET made == requests[a[2]]
          IN  a[1] # a[2] => \/ made.peer # requests[a[1]].peer
                            \/ a[2] \in expired
                            \/ ~Confirmable(a[2])

(* A peer that goes on retransmitting gets its response, although requests *)
(* and responses are lost.                                                 *)
RetransmissionAnswered ==
    \A n \in 1..MaxRequests :
        (n \in Made /\ Confirmable(n)) ~> (n \in received \cup expired)
=============================================================================
