------------------------- MODULE CommissionerImpl -------------------------
(***************************************************************************)
(* The session of CommissionerImpl (library/commissioner_impl.cpp) with a  *)
(* border agent: connecting, petitioning, keep-alive and resigning, over   *)
(* the CoAPs client mBrClient (library/coap_secure.hpp).                   *)
(*                                                                         *)
(* Every event runs to its end on the event-loop thread, and user handlers *)
(* do not call back into CommissionerImpl (CommissionerSafe queues their   *)
(* calls), so an action is one event with all the handlers it calls.       *)
(***************************************************************************)
EXTENDS Naturals

CONSTANTS
    Calls,          \* API calls a run may make, each at most once
    KeepAlives,     \* keep-alive messages that may be in flight at once
    NoTask,
    Ccm,            \* commercial mode: signing a message may fail
    WriteMayFail    \* may a write to a connected session fail

ASSUME ImplAssumption ==
    /\ Calls \cap KeepAlives = {}
    /\ NoTask \notin Calls \cup KeepAlives
    /\ Ccm \in BOOLEAN /\ WriteMayFail \in BOOLEAN

(* What a handler is owed for: an API call or a keep-alive message.        *)
Tasks == Calls \cup KeepAlives

VARIABLES
    mState,          \* State of the commissioner
    dtls,            \* state of mBrClient's DtlsSession
    fd,              \* is the descriptor of its socket open
    mOnConnected,    \* the call whose handler the DtlsSession holds
    pending,         \* tasks with a request outstanding in mBrClient's Coap
    mKeepAliveTimer, \* is the timer running
    asked,           \* asked[c]: what call c was, once it was made
    handled,         \* handled[x]: how often x's handler was called since
                     \* x was started
    replaced,        \* calls whose handler the DtlsSession dropped
    aborted          \* an assertion failed

dtlsVars == <<dtls, fd, mOnConnected, replaced, aborted>>
vars == <<mState, dtlsVars, pending, mKeepAliveTimer, asked, handled>>

Init ==
    /\ mState = "disabled"
    /\ dtls = "open" /\ fd = FALSE
    /\ mOnConnected = NoTask
    /\ replaced = {} /\ aborted = FALSE
    /\ pending = {}
    /\ mKeepAliveTimer = FALSE
    /\ asked = [c \in Calls |-> "new"]
    /\ handled = [x \in Tasks |-> 0]

-----------------------------------------------------------------------------
Ask(c, what) ==
    /\ c \in Calls
    /\ asked[c] = "new"
    /\ asked' = [asked EXCEPT ![c] = what]

(* The tasks N are started, then the handlers of the tasks S called.       *)
Handle(N, S) ==
    handled' = [x \in Tasks |-> (IF x \in N THEN 0 ELSE handled[x])
                                 + (IF x \in S THEN 1 ELSE 0)]

(* Whether Coap::SendRequest hands its message to the DTLS session.  One   *)
(* that is connected without a descriptor dies (SocketGone).               *)
CanSend == dtls = "connected" /\ fd
CanFail == dtls # "connected" \/ (fd /\ WriteMayFail)
CutOff == dtls = "connected" /\ ~fd

(* What CommissionerImpl::Disconnect cancels: the handler of a connection  *)
(* being made and every outstanding request.                               *)
Cancelled == pending \cup ({mOnConnected} \ {NoTask})

Petitions == {c \in pending \cap Calls : asked[c] = "petition"}

(* Mutant: keep-alive requests outstanding are not cleared.                *)
DisconnectKeepsKeepAlives(N, S, timer) ==
    /\ ~CutOff
    /\ dtls' = "open"
    /\ mOnConnected' = NoTask
    /\ UNCHANGED <<fd, replaced, aborted>>
    /\ pending' = pending \cap KeepAlives
    /\ Handle(N, (Cancelled \ KeepAlives) \cup S)
    /\ mState' = "disabled"
    /\ mKeepAliveTimer' = timer

(* CommissionerImpl::Disconnect, in a handler that also started the tasks  *)
(* N and calls the handlers of S.                                          *)
(* The handler of a cancelled keep-alive resigns in turn, which does       *)
(* nothing new but stop the timer.                                         *)
Disconnect(N, S, timer) ==
    /\ ~CutOff
    /\ dtls' = "open"
    /\ mOnConnected' = NoTask
    /\ UNCHANGED <<fd, replaced, aborted>>
    /\ pending' = {}
    /\ Handle(N, Cancelled \cup S)
    /\ mState' = "disabled"
    /\ mKeepAliveTimer' = timer

(* The timer after Disconnect, which does not itself stop it.              *)
StillRunning == mKeepAliveTimer /\ pending \cap KeepAlives = {}

(* The handler of a keep-alive that failed: Resign, then report.           *)
KeepAliveFails(N, k) == Disconnect(N, {k}, FALSE)

-----------------------------------------------------------------------------
(* CommissionerImpl::SendPetition: wrong state or a message that cannot be *)
(* built, sent, or not sent.                                               *)
SendPetition(c) ==
    \/ /\ mState # "disabled" \/ Ccm
       /\ Handle({}, {c})
       /\ UNCHANGED <<mState, pending>>
    \/ /\ mState = "disabled"
       /\ CanSend
       /\ mState' = "petitioning"
       /\ pending' = pending \cup {c}
       /\ UNCHANGED handled
    \/ /\ mState = "disabled"
       /\ CanFail
       /\ mState' = "disabled"
       /\ Handle({}, {c})
       /\ UNCHANGED pending

(* CommissionerImpl::Connect, whatever the session is doing: the socket    *)
(* fails to connect and its old descriptor is gone, or the DtlsSession     *)
(* starts.  DtlsSession::Connect asserts that the session is open; where   *)
(* assertions are compiled out it replaces mOnConnected.                   *)
Connect(c) ==
    \/ /\ fd' = FALSE
       /\ Handle({}, {c})
       /\ UNCHANGED <<dtls, mOnConnected, replaced, aborted>>
    \/ /\ fd' = TRUE
       /\ dtls' = "connecting"
       /\ mOnConnected' = c
       /\ replaced' = replaced \cup ({mOnConnected} \ {NoTask})
       /\ UNCHANGED <<handled, aborted>>
    \/ /\ dtls # "open"
       /\ aborted' = TRUE
       /\ UNCHANGED <<dtls, fd, mOnConnected, replaced, handled>>

UserConnect(c) ==
    /\ Ask(c, "connect")
    /\ Connect(c)
    /\ UNCHANGED <<mState, pending, mKeepAliveTimer>>

(* CommissionerImpl::Petition.                                             *)
Petition(c) ==
    /\ Ask(c, "petition")
    /\ \/ /\ mState = "active"
          /\ Handle({}, {c})
          /\ UNCHANGED <<mState, dtlsVars, pending>>
       \/ /\ mState # "active" /\ dtls = "connected"
          /\ SendPetition(c)
          /\ UNCHANGED dtlsVars
       \/ /\ mState # "active" /\ dtls # "connected"
          /\ Connect(c)
          /\ UNCHANGED <<mState, pending>>
    /\ UNCHANGED mKeepAliveTimer

(* Any other API call that sends a confirmable request over mBrClient.     *)
Request(c) ==
    /\ Ask(c, "request")
    /\ \/ CanSend /\ pending' = pending \cup {c} /\ UNCHANGED handled
       \/ Handle({}, {c}) /\ UNCHANGED pending
    /\ UNCHANGED <<mState, dtlsVars, mKeepAliveTimer>>

(* CommissionerImpl::Resign: an active commissioner first sends a          *)
(* keep-alive that rejects, or fails to build it; the disconnection that   *)
(* follows cancels it.                                                     *)
Resign(c) ==
    /\ Ask(c, "resign")
    /\ \/ /\ mState = "active"
          /\ \E k \in KeepAlives \ pending : Disconnect({k}, {c, k}, FALSE)
       \/ /\ mState # "active" \/ Ccm
          /\ Disconnect({}, {c}, FALSE)

UserDisconnect ==
    /\ Disconnect({}, {}, StillRunning)
    /\ UNCHANGED asked

(* CommissionerImpl::CancelRequests: a cancelled petition disables the     *)
(* commissioner, a cancelled keep-alive resigns.                           *)
CancelRequests ==
    /\ pending # {}
    /\ IF pending \cap KeepAlives # {}
       THEN Disconnect({}, {}, FALSE)
       ELSE /\ Handle({}, pending)
            /\ pending' = {}
            /\ mState' = IF Petitions # {} THEN "disabled" ELSE mState
            /\ UNCHANGED <<dtlsVars, mKeepAliveTimer>>
    /\ UNCHANGED asked

-----------------------------------------------------------------------------
(* Events of the DTLS session.                                             *)

(* DtlsSession::Handshake succeeds and calls mOnConnected, which for a     *)
(* petition is SendPetition.                                               *)
HandshakeSucceeds ==
    /\ dtls = "connecting" /\ fd
    /\ dtls' = "connected"
    /\ mOnConnected' = NoTask
    /\ IF mOnConnected # NoTask /\ asked[mOnConnected] = "petition"
       THEN \/ /\ mState # "disabled" \/ Ccm \/ WriteMayFail
               /\ Handle({}, {mOnConnected})
               /\ UNCHANGED <<mState, pending>>
            \/ /\ mState = "disabled"
               /\ mState' = "petitioning"
               /\ pending' = pending \cup {mOnConnected}
               /\ UNCHANGED handled
       ELSE Handle({}, {mOnConnected}) /\ UNCHANGED <<mState, pending>>
    /\ UNCHANGED <<fd, replaced, aborted, mKeepAliveTimer, asked>>

(* Mutant: the handler of a failed connection is not called.               *)
SessionFailsSilently ==
    /\ dtls = "connecting" \/ CanSend
    /\ dtls' = "open"
    /\ mOnConnected' = NoTask
    /\ UNCHANGED <<mState, fd, replaced, aborted, pending, mKeepAliveTimer, asked, handled>>

(* DtlsSession::HandleEvent, or the last timeout of a handshake, ends with *)
(* an error and disconnects the session: requests outstanding stay, and    *)
(* mState does not change.                                                 *)
SessionFails ==
    /\ dtls = "connecting" \/ CanSend
    /\ dtls' = "open"
    /\ mOnConnected' = NoTask
    /\ Handle({}, {mOnConnected})
    /\ UNCHANGED <<mState, fd, replaced, aborted, pending, mKeepAliveTimer, asked>>

(* A session in use without a descriptor dies at its next write: that of   *)
(* the handshake timer, of a retransmission, a keep-alive or a close       *)
(* notify, or of any call that sends (module DtlsSession).                 *)
SocketGone ==
    /\ dtls # "open" /\ ~fd
    /\ aborted' = TRUE
    /\ UNCHANGED <<mState, dtls, fd, mOnConnected, replaced, pending, mKeepAliveTimer, asked,
                   handled>>

-----------------------------------------------------------------------------
(* Events of the CoAP client: a request is answered, or given up.          *)

(* The handler of SendPetition's request.                                  *)
PetitionAccepted(c) ==
    /\ c \in Petitions /\ CanSend
    /\ mState' = "active"
    /\ mKeepAliveTimer' = TRUE
    /\ pending' = pending \ {c}
    /\ Handle({}, {c})
    /\ UNCHANGED <<dtlsVars, asked>>

(* Rejected, malformed, reset, timed out or not retransmitted.             *)
PetitionFails(c) ==
    /\ c \in Petitions
    /\ mState' = "disabled"
    /\ pending' = pending \ {c}
    /\ Handle({}, {c})
    /\ UNCHANGED <<dtlsVars, mKeepAliveTimer, asked>>

(* Mutant: a request is given up only while the session is connected.      *)
RequestDoneWhileConnected(c) ==
    /\ c \in (pending \cap Calls) \ Petitions /\ dtls = "connected"
    /\ pending' = pending \ {c}
    /\ Handle({}, {c})
    /\ UNCHANGED <<mState, dtlsVars, mKeepAliveTimer, asked>>

RequestDone(c) ==
    /\ c \in (pending \cap Calls) \ Petitions
    /\ pending' = pending \ {c}
    /\ Handle({}, {c})
    /\ UNCHANGED <<mState, dtlsVars, mKeepAliveTimer, asked>>

(* The handler of SendKeepAlive's request.                                 *)
KeepAliveAccepted(k) ==
    /\ k \in pending \cap KeepAlives /\ CanSend
    /\ mKeepAliveTimer' = TRUE
    /\ pending' = pending \ {k}
    /\ Handle({}, {k})
    /\ UNCHANGED <<mState, dtlsVars, asked>>

(* Rejected, malformed, reset or timed out.                                *)
KeepAliveRejected(k) ==
    /\ k \in pending \cap KeepAlives
    /\ KeepAliveFails({}, k)
    /\ UNCHANGED asked

(* A keep-alive cannot be retransmitted.  Coap::Retransmit has put it back *)
(* into its cache before it calls the handler (module Coap), so that the   *)
(* disconnection finds it there with its handler and calls that again.     *)
KeepAliveNotRetransmitted(k) ==
    /\ k \in pending \cap KeepAlives
    /\ CanFail
    /\ dtls' = "open"
    /\ mOnConnected' = NoTask
    /\ UNCHANGED <<fd, replaced, aborted>>
    /\ pending' = {}
    /\ handled' = [x \in Tasks |->
                     IF x = k THEN handled[x] + 2
                     ELSE IF x \in Cancelled THEN handled[x] + 1 ELSE handled[x]]
    /\ mState' = "disabled"
    /\ mKeepAliveTimer' = FALSE
    /\ UNCHANGED asked

-----------------------------------------------------------------------------
(* Mutant: no keep-alive is sent while the session is not connected.       *)
SendKeepAliveIfConnected ==
    /\ mKeepAliveTimer /\ dtls = "connected"
    /\ \/ /\ mState # "active" \/ Ccm
          /\ Disconnect({}, {}, FALSE)
       \/ /\ mState = "active"
          /\ \E k \in KeepAlives \ pending :
                \/ /\ mKeepAliveTimer' = TRUE
                   /\ pending' = pending \cup {k}
                   /\ Handle({k}, {})
                   /\ UNCHANGED <<mState, dtlsVars>>
                \/ WriteMayFail /\ KeepAliveFails({k}, k)
    /\ UNCHANGED asked

(* mKeepAliveTimer fires: CommissionerImpl::SendKeepAlive disconnects when *)
(* the commissioner is not active or the message cannot be built.          *)
SendKeepAlive ==
    /\ mKeepAliveTimer
    /\ \/ /\ mState # "active" \/ Ccm
          /\ Disconnect({}, {}, FALSE)
       \/ /\ mState = "active"
          /\ \E k \in KeepAlives \ pending :
                \/ /\ CanSend
                   /\ mKeepAliveTimer' = TRUE
                   /\ pending' = pending \cup {k}
                   /\ Handle({k}, {})
                   /\ UNCHANGED <<mState, dtlsVars>>
                \/ CanFail /\ KeepAliveFails({k}, k)
    /\ UNCHANGED asked

-----------------------------------------------------------------------------
Next ==
    /\ ~aborted
    /\ \/ \E c \in Calls :
             UserConnect(c) \/ Petition(c) \/ Request(c) \/ Resign(c)
       \/ UserDisconnect
       \/ CancelRequests
       \/ HandshakeSucceeds
       \/ SessionFails
       \/ SocketGone
       \/ \E c \in Calls : PetitionAccepted(c) \/ PetitionFails(c) \/ RequestDone(c)
       \/ \E k \in KeepAlives :
             KeepAliveAccepted(k) \/ KeepAliveRejected(k) \/ KeepAliveNotRetransmitted(k)
       \/ SendKeepAlive

Spec == Init /\ [][Next]_vars

(* A running timer fires; every outstanding request is finalised (the      *)
(* promise of Coap::SendRequest); mbedtls gives up a handshake after its   *)
(* last retransmission.  The process may have ended.                       *)
Fairness ==
    /\ WF_vars(~aborted /\ SendKeepAlive)
    /\ \A c \in Calls :
          WF_vars(~aborted /\ (PetitionAccepted(c) \/ PetitionFails(c) \/ RequestDone(c)))
    /\ \A k \in KeepAlives :
          WF_vars(~aborted /\ (KeepAliveAccepted(k) \/ KeepAliveRejected(k)))
    /\ WF_vars(~aborted /\ dtls = "connecting" /\ fd /\ (HandshakeSucceeds \/ SessionFails))

FairSpec == Spec /\ Fairness

-----------------------------------------------------------------------------
(* Every variable has its type, and the DTLS session holds a handler       *)
(* exactly while it connects.                                              *)
TypeOK ==
    /\ mState \in {"disabled", "petitioning", "active"}
    /\ dtls \in {"open", "connecting", "connected"}
    /\ mOnConnected \in Calls \cup {NoTask}
    /\ mOnConnected # NoTask <=> dtls = "connecting"
    /\ fd \in BOOLEAN /\ replaced \subseteq Calls /\ aborted \in BOOLEAN
    /\ pending \subseteq Tasks
    /\ mKeepAliveTimer \in BOOLEAN
    /\ asked \in [Calls -> {"new", "connect", "petition", "request", "resign"}]
    /\ handled \in [Tasks -> Nat]

(* The handler of c was called as often as it should have been so far.     *)
Owed(c) ==
    IF asked[c] = "new" \/ c \in replaced THEN handled[c] = 0 /\ c \notin Cancelled
    ELSE IF c = mOnConnected THEN handled[c] = 0 /\ c \notin pending
    ELSE IF c \in pending THEN handled[c] = 0
    ELSE handled[c] = 1

(* commissioner.hpp:366 and others, a handler is "Guaranteed to be         *)
(* called": the handler of a call that was made was called exactly once,   *)
(* or will be by the DTLS session or by the CoAP client, not by both.  The *)
(* guarantee has one exception: a Connect or Petition made while another   *)
(* is connecting takes the place of the other's handler (dtls.cpp:279),    *)
(* which is then never called, or fails the assertion there.               *)
HandlerOwed ==
    ~aborted => \A c \in Calls : Owed(c)

(* commissioner.hpp:447, "a keep-alive message will be periodically sent   *)
(* to keep itself active": an active commissioner's timer is running.      *)
ActiveIsKeptAlive == mState = "active" => mKeepAliveTimer

(* SendKeepAlive's handler sets mState and resigns whatever the state is,  *)
(* so its request must not outlive the session it was sent in.             *)
KeepAliveOfThisSession == pending \cap KeepAlives # {} => mState = "active"

(* SendPetition's handler sets mState, so there is at most one petition    *)
(* outstanding, and just while the commissioner is petitioning.            *)
OnePetition ==
    /\ \A c, d \in Petitions : c = d
    /\ Petitions # {} <=> mState = "petitioning"

TimerOfSession == mKeepAliveTimer => mState = "active"

(* A timer that outlives its session would disconnect a later petition     *)
(* (SendKeepAlive's first check): however a session ends, by Resign, by a  *)
(* failed keep-alive or by CancelRequests, its timer stops with it.  Only  *)
(* Disconnect, called by the user, leaves the timer running.               *)
NoStrayKeepAlive ==
    [][TimerOfSession /\ ~UserDisconnect => TimerOfSession']_vars

(* These four facts together: after every step, the timer and the requests *)
(* of the commissioner are those of its state.                             *)
SessionInStep ==
    [][/\ (ActiveIsKeptAlive /\ KeepAliveOfThisSession /\ OnePetition)'
       /\ TimerOfSession /\ ~UserDisconnect => TimerOfSession']_vars

(* Every API call's handler is called, whatever border agent and network   *)
(* do, unless a later Connect or Petition replaced it, or failed to open a *)
(* socket and left the call connecting without one, or a failed assertion  *)
(* ended the process.                                                      *)
EveryCallHandled ==
    \A c \in Calls :
        asked[c] # "new" ~>
            handled[c] > 0 \/ c \in replaced \/ (c = mOnConnected /\ ~fd) \/ aborted

(* An active commissioner whose DTLS session is gone notices: the next     *)
(* keep-alive fails and disables it, unless it was connected again or an   *)
(* assertion failed as it was.                                             *)
LostSessionNoticed ==
    mState = "active" /\ dtls = "open" ~> mState # "active" \/ dtls = "connected" \/ aborted
=============================================================================
