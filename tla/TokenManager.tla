--------------------------- MODULE TokenManager ---------------------------
(***************************************************************************)
(* TokenManager (library/token_manager.cpp): a Commissioner Token is asked *)
(* of the domain registrar over a CoAPs session of its own, validated,     *)
(* kept, and used to sign messages in a commercial (CCM) network.          *)
(*                                                                         *)
(* Every event runs to its end on the event-loop thread, so an action is   *)
(* one event with all the handlers it calls.                               *)
(***************************************************************************)
EXTENDS Naturals

CONSTANTS
    Requests,         \* calls of RequestToken, each made at most once
    NoRequest,
    Tokens,           \* records [signed, claims, aud]: see ValidateToken
    NoToken,
    mDomainName,
    ReferenceDevice,  \* OT_COMM_CONFIG_REFERENCE_DEVICE_ENABLE
    WriteMayFail,     \* may a write to a connected session fail
    MaxSequence       \* bound on the messages signed with one token

ASSUME TokenAssumption ==
    /\ NoRequest \notin Requests
    /\ NoToken \notin Tokens
    /\ ReferenceDevice \in BOOLEAN /\ WriteMayFail \in BOOLEAN
    /\ MaxSequence \in Nat

VARIABLES
    keyIsEcdsa,       \* the key of the configured certificate and private key
    dtls,             \* state of mRegistrarClient's DtlsSession
    clientOnConnected,     \* the call whose handler the DtlsSession holds
    pending,          \* calls with a request outstanding in its Coap
    mSignedToken,
    mSequenceNumber,
    asked,            \* calls made
    tokenHandled,          \* tokenHandled[c]: how often c's handler was called
    replaced,         \* calls whose handler the DtlsSession dropped
    unsent,           \* calls whose request could not be (re)written
    aborted           \* an assertion failed

managerVars == <<keyIsEcdsa, dtls, clientOnConnected, pending, mSignedToken,
                 mSequenceNumber, asked, tokenHandled, replaced, unsent, aborted>>

tokenVars == <<mSignedToken, mSequenceNumber>>

(* TokenManager::Init has parsed the keys of the configuration, which may  *)
(* be of any type that mbedtls knows.                                      *)
TokenInit ==
    /\ keyIsEcdsa \in BOOLEAN
    /\ dtls = "open"
    /\ clientOnConnected = NoRequest
    /\ pending = {}
    /\ mSignedToken = NoToken
    /\ mSequenceNumber = 0
    /\ asked = {}
    /\ tokenHandled = [c \in Requests |-> 0]
    /\ replaced = {}
    /\ unsent = {}
    /\ aborted = FALSE

-----------------------------------------------------------------------------
(* The handlers of S are called, and then those of T.                      *)
Handle(S, T) ==
    tokenHandled' = [c \in Requests |-> tokenHandled[c] + (IF c \in S THEN 1 ELSE 0)
                                           + (IF c \in T THEN 1 ELSE 0)]

(* CwtMap::Get(kCnf), Get(kCoseKey), Get(kKeyId).                          *)
GetKeyId(t) == "cnf" \in t.claims

(* COSE structure and signature of the trust anchor, the claims that must  *)
(* be there, and the domain.  The expiry is not looked at.                 *)
ValidateToken(t) ==
    /\ t # NoToken
    /\ t.signed
    /\ {"aud", "exp"} \subseteq t.claims
    /\ t.aud = mDomainName
    /\ GetKeyId(t)

(* MakeTokenRequest, for the non-empty id and domain name that             *)
(* CommissionerImpl::ValidateConfig lets through.                          *)
MakeTokenRequest == keyIsEcdsa

(* TokenManager::SetToken, called by the user (aAlwaysAccept) or with the  *)
(* payload of a response.                                                  *)
SetToken(t, aAlwaysAccept) ==
    IF ValidateToken(t) \/ (ReferenceDevice /\ aAlwaysAccept)
    THEN mSignedToken' = t /\ mSequenceNumber' = 0
    ELSE UNCHANGED tokenVars

(* Mutant: only the requests are cleared.                                  *)
DisconnectCoapOnly(S, T) ==
    /\ pending' = {}
    /\ Handle(S \cup pending, T)
    /\ UNCHANGED <<dtls, clientOnConnected>>

(* mRegistrarClient.Disconnect(ERROR_NONE), in a handler that also calls   *)
(* the handlers of S and T.  A connection being made is told that it       *)
(* succeeded: its token request then fails to be sent on the closed        *)
(* session.  Every request outstanding is cancelled, each of whose         *)
(* handlers disconnects once more, which changes nothing.                  *)
ClientDisconnect(S, T) ==
    /\ dtls' = "open"
    /\ clientOnConnected' = NoRequest
    /\ pending' = {}
    /\ Handle(S \cup pending \cup ({clientOnConnected} \ {NoRequest}), T)

-----------------------------------------------------------------------------
(* DtlsSession::Connect asserts that the session is open.  Where           *)
(* assertions are compiled out it replaces the handler.                    *)
RequestToken(c) ==
    /\ c \in Requests \ asked
    /\ asked' = asked \cup {c}
    /\ \/ /\ Handle({c}, {})
          /\ UNCHANGED <<dtls, clientOnConnected, replaced, aborted>>
       \/ /\ dtls' = "connecting"
          /\ clientOnConnected' = c
          /\ replaced' = replaced \cup ({clientOnConnected} \ {NoRequest})
          /\ UNCHANGED <<tokenHandled, aborted>>
       \/ /\ dtls # "open"
          /\ aborted' = TRUE
          /\ UNCHANGED <<dtls, clientOnConnected, tokenHandled, replaced>>
    /\ UNCHANGED <<keyIsEcdsa, pending, tokenVars, unsent>>

(* A request that cannot be built leaves the session connected.  A write   *)
(* that fails disconnects while the handshake still holds the handler,     *)
(* which is therefore called a second time.                                *)
SendTokenRequest(c) ==
    \/ /\ ~MakeTokenRequest
       /\ dtls' = "connected"
       /\ clientOnConnected' = NoRequest
       /\ Handle({c}, {})
       /\ UNCHANGED <<pending, unsent>>
    \/ /\ MakeTokenRequest
       /\ dtls' = "connected"
       /\ clientOnConnected' = NoRequest
       /\ pending' = pending \cup {c}
       /\ UNCHANGED <<tokenHandled, unsent>>
    \/ /\ MakeTokenRequest
       /\ WriteMayFail
       /\ unsent' = unsent \cup {c}
       /\ ClientDisconnect({c}, {c})

(* The handshake with the registrar succeeds.                              *)
Connected ==
    /\ dtls = "connecting"
    /\ SendTokenRequest(clientOnConnected)
    /\ UNCHANGED <<keyIsEcdsa, tokenVars, asked, replaced, aborted>>

(* Mutant: the handler is kept.                                            *)
SessionFailsKeepsHandler ==
    /\ dtls # "open"
    /\ dtls' = "open"
    /\ Handle({clientOnConnected} \ {NoRequest}, {})
    /\ UNCHANGED <<keyIsEcdsa, clientOnConnected, pending, tokenVars, asked,
                   replaced, unsent, aborted>>

(* Mutant: the handler is not called.                                      *)
SessionFailsSilently ==
    /\ dtls # "open"
    /\ dtls' = "open"
    /\ clientOnConnected' = NoRequest
    /\ UNCHANGED <<keyIsEcdsa, pending, tokenVars, asked, tokenHandled, replaced,
                   unsent, aborted>>

(* The handshake fails, or an established session is lost; the requests    *)
(* outstanding are left to time out.                                       *)
SessionFails ==
    /\ dtls # "open"
    /\ dtls' = "open"
    /\ clientOnConnected' = NoRequest
    /\ Handle({clientOnConnected} \ {NoRequest}, {})
    /\ UNCHANGED <<keyIsEcdsa, pending, tokenVars, asked, replaced, unsent,
                   aborted>>

(* onResponse: a response with a token, or with another code or content    *)
(* format.                                                                 *)
Response(c) ==
    /\ c \in pending
    /\ dtls = "connected"
    /\ \/ \E t \in Tokens : SetToken(t, FALSE)
       \/ UNCHANGED tokenVars
    /\ ClientDisconnect({c}, {})
    /\ UNCHANGED <<keyIsEcdsa, asked, replaced, unsent, aborted>>

(* onResponse with an error: the request timed out or was reset.           *)
RequestFails(c) ==
    /\ c \in pending
    /\ ClientDisconnect({c}, {})
    /\ UNCHANGED <<keyIsEcdsa, tokenVars, asked, replaced, unsent, aborted>>

(* Coap::Retransmit put the request back before it failed to send it, so   *)
(* that onResponse cancels it and is called again.                         *)
NotRetransmitted(c) ==
    /\ c \in pending
    /\ dtls # "connected" \/ WriteMayFail
    /\ unsent' = unsent \cup {c}
    /\ ClientDisconnect({c}, {c})
    /\ UNCHANGED <<keyIsEcdsa, tokenVars, asked, replaced, aborted>>

(* Only a request that was sent is cancelled; its handler disconnects.     *)
CancelRequests ==
    /\ pending # {}
    /\ ClientDisconnect({}, {})
    /\ UNCHANGED <<keyIsEcdsa, tokenVars, asked, replaced, unsent, aborted>>

(* CommissionerImpl::SetToken.                                             *)
UserSetsToken(t) ==
    /\ t \in Tokens
    /\ SetToken(t, TRUE)
    /\ UNCHANGED <<keyIsEcdsa, dtls, clientOnConnected, pending, asked, tokenHandled,
                   replaced, unsent, aborted>>

(* SignMessage validates the token in force once more for its key id.  A   *)
(* reference device signs without one.                                     *)
SignMessage ==
    /\ ReferenceDevice \/ ValidateToken(mSignedToken)
    /\ keyIsEcdsa
    /\ mSequenceNumber < MaxSequence
    /\ mSequenceNumber' = mSequenceNumber + 1
    /\ UNCHANGED <<keyIsEcdsa, dtls, clientOnConnected, pending, mSignedToken,
                   asked, tokenHandled, replaced, unsent, aborted>>

TokenNext ==
    /\ ~aborted
    /\ \/ \E c \in Requests :
            \/ RequestToken(c)
            \/ Response(c)
            \/ RequestFails(c)
            \/ NotRetransmitted(c)
       \/ Connected
       \/ SessionFails
       \/ CancelRequests
       \/ \E t \in Tokens : UserSetsToken(t)
       \/ SignMessage

TokenSpec == TokenInit /\ [][TokenNext]_managerVars

(* A handshake ends (mbedtls gives up after its last timeout) and a        *)
(* request ends (Coap's timers); an assertion that failed ends the process.*)
TokenFairness ==
    /\ WF_managerVars(~aborted /\ (Connected \/ SessionFails) /\ dtls = "connecting")
    /\ \A c \in Requests : WF_managerVars(~aborted /\ RequestFails(c))

FairTokenSpec == TokenSpec /\ TokenFairness

-----------------------------------------------------------------------------
(* Every variable of the requests and of the session has its type.         *)
TokenTypeOK ==
    /\ keyIsEcdsa \in BOOLEAN
    /\ dtls \in {"open", "connecting", "connected"}
    /\ clientOnConnected \in Requests \cup {NoRequest}
    /\ pending \in SUBSET Requests
    /\ asked \in SUBSET Requests
    /\ tokenHandled \in [Requests -> Nat]
    /\ replaced \in SUBSET Requests
    /\ unsent \in SUBSET Requests
    /\ aborted \in BOOLEAN

(* Whose handler is still to be called.                                    *)
Owed == pending \cup ({clientOnConnected} \ {NoRequest})

(* The handler of RequestToken is "guaranteed to be called"                *)
(* (commissioner.hpp:1065): a call that was made and whose handler was not *)
(* called is being connected for or has its request outstanding, unless    *)
(* another RequestToken was made meanwhile and took its place in the       *)
(* DtlsSession, or failed its assertion.  It is called once, and twice     *)
(* only for a request that could not be written.                           *)
TokenHandlerOnce ==
    \A c \in Requests :
        /\ c \in asked /\ tokenHandled[c] = 0 => c \in Owed \cup replaced \/ aborted
        /\ tokenHandled[c] > 0 => c \in asked /\ c \notin Owed
        /\ tokenHandled[c] > 1 => c \in unsent

(* The session with the registrar ends with the requests it was made for   *)
(* (token_manager.cpp:195): it is never left connected with nothing        *)
(* outstanding, and so in the way of the next RequestToken, unless the     *)
(* request could not be built.                                             *)
RegistrarReleased ==
    dtls = "connected" /\ pending = {} => ~keyIsEcdsa

(* Whatever the registrar answers and the user sets, the token in force is *)
(* one that was validated, so that a message can be signed with it; only a *)
(* reference device may hold another (token_manager.cpp:213-239).          *)
TokenInForce ==
    mSignedToken # NoToken => ValidateToken(mSignedToken) \/ ReferenceDevice

(* A user that asks for one token at a time, with a key that can sign, is  *)
(* never met by the assertion of DtlsSession::Connect.                     *)
OneAtATimeIsSafe ==
    [][aborted' /\ ~aborted => Owed # {} \/ ~keyIsEcdsa]_managerVars

(* The handler of every RequestToken is called in the end, if no other     *)
(* request replaced it and no assertion failed.                            *)
EveryTokenRequestHandled ==
    \A c \in Requests :
        (c \in asked) ~> (tokenHandled[c] > 0 \/ c \in replaced \/ aborted)
=============================================================================
