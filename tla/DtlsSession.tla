---------------------------- MODULE DtlsSession ----------------------------
(***************************************************************************)
(* A DTLS session (library/dtls.cpp) on its socket (library/socket.cpp),   *)
(* as CoapSecure (library/coap_secure.hpp) and JoinerSession use it.       *)
(*                                                                         *)
(* mbedtls is external: a handshake takes Flights flights, a flight is     *)
(* sent at most 1 + Retransmits times, and any call may fail.  An action   *)
(* is one libevent callback, or one call of the session's owner, with all  *)
(* the handlers it calls.  A handler may send a message, and that of       *)
(* TokenManager may disconnect; none connects again, since the calls that  *)
(* users make from their handlers are queued (module CommissionerSafe).    *)
(***************************************************************************)
EXTENDS Naturals, Sequences

CONSTANTS
    Roles,          \* values of mIsServer
    Flights, Retransmits,
    MaxSessions,    \* bound on the calls of Connect
    MaxMessages     \* bound on the messages that Send accepts

ASSUME DtlsAssumption ==
    /\ Roles \subseteq BOOLEAN
    /\ Flights \in Nat \ {0} /\ Retransmits \in Nat
    /\ MaxSessions \in Nat \ {0} /\ MaxMessages \in Nat

VARIABLES
    mIsServer,        \* set by DtlsSession::Init
    mState,
    fd,               \* is the socket's file descriptor open
    mHandshakeTimer,  \* is the timer running
    mSsl,             \* mbedtls: flights and retransmissions so far, whether
                      \* the handshake is over and whether it knows the
                      \* client's transport id
    mIsClientIdSet,
    mOnConnected,     \* the session whose handler is held, or 0
    session,          \* number of calls of Connect so far
    called,           \* called[s]: how often the handler of s was called
    displaced,        \* sessions whose handler another Connect replaced
    hungUp,           \* sessions whose handler disconnected
    severed,          \* did the last Connect fail to open its socket, and
                      \* leave a session in use without one
    out               \* mSendQueue, the messages Send has taken, and those
                      \* it has given to mbedtls

sslVars == <<mHandshakeTimer, mSsl, mIsClientIdSet>>
handlerVars == <<mOnConnected, session, called, displaced, hungUp>>
vars == <<mIsServer, mState, fd, sslVars, handlerVars, severed, out>>

FreshSsl == [flight |-> 0, retries |-> 0, over |-> FALSE, cliId |-> FALSE]

(* A relayed socket is always connected.                                   *)
Init ==
    /\ mIsServer \in Roles
    /\ mState = "open"
    /\ fd = mIsServer
    /\ mHandshakeTimer = FALSE
    /\ mSsl = FreshSsl
    /\ mIsClientIdSet = FALSE
    /\ mOnConnected = 0 /\ session = 0
    /\ called = [s \in 1..MaxSessions |-> 0]
    /\ displaced = {} /\ hungUp = {} /\ severed = FALSE
    /\ out = [mSendQueue |-> <<>>, taken |-> <<>>, wire |-> <<>>]

-----------------------------------------------------------------------------
(* The outcomes of Send: written, queued because mbedtls is busy or other  *)
(* messages wait, or refused.                                              *)
Written(o, m) == [o EXCEPT !.taken = Append(@, m), !.wire = Append(@, m)]
Queued(o, m) == [o EXCEPT !.taken = Append(@, m), !.mSendQueue = Append(@, m)]

(* Mutant: the queue is not looked at.                                     *)
SendNow(o) ==
    LET m == Len(o.taken) + 1
    IN  IF Len(o.taken) = MaxMessages THEN {o}
        ELSE {Written(o, m), Queued(o, m), o}

Send(o) ==
    LET m == Len(o.taken) + 1
    IN  IF Len(o.taken) = MaxMessages THEN {o}
        ELSE IF o.mSendQueue # <<>> THEN {Queued(o, m)}
        ELSE {Written(o, m), Queued(o, m), o}

(* TryWrite writes queued messages until mbedtls is busy or fails.         *)
TryWrite(o) ==
    { [o EXCEPT !.wire = @ \o SubSeq(o.mSendQueue, 1, k),
                !.mSendQueue = SubSeq(@, k + 1, Len(@))]
      : k \in 0..Len(o.mSendQueue) }

(* A handler sends a message or none.                                      *)
HandlerSends(o) == {o} \cup Send(o)

(* An event on a connected session: messages are read and handled, then    *)
(* queued ones written.  One message read stands for any number.           *)
ReadAndWrite(o) == (UNION {TryWrite(p) : p \in HandlerSends(o)}) \cup HandlerSends(o)

(* mOnConnected is called, once.                                           *)
CallHandler ==
    /\ called' = IF mOnConnected = 0 THEN called
                 ELSE [called EXCEPT ![mOnConnected] = @ + 1]
    /\ mOnConnected' = 0
    /\ UNCHANGED <<session, displaced, hungUp>>

(* mOnConnected is called, and disconnects before Handshake clears it: the *)
(* disconnection calls it again.                                           *)
CallHandlerTwice ==
    /\ mOnConnected # 0
    /\ called' = [called EXCEPT ![mOnConnected] = @ + 2]
    /\ hungUp' = hungUp \cup {mOnConnected}
    /\ mOnConnected' = 0
    /\ UNCHANGED <<session, displaced>>

(* Reset, and what follows it: mbedtls forgets its session, with the       *)
(* client's id, and stops its timer; mSendQueue is not cleared.            *)
Reset(state) ==
    /\ mSsl' = FreshSsl
    /\ mHandshakeTimer' = FALSE
    /\ mIsClientIdSet' = FALSE
    /\ mState' = state

(* Mutant: mbedtls is not reset.                                           *)
DisconnectOnly ==
    /\ mState' = "open"
    /\ CallHandler
    /\ UNCHANGED sslVars

(* Disconnect of a session that is connecting or connected: the handler is *)
(* told of the failure if it was not called before.                        *)
Disconnect == CallHandler /\ Reset("open")

(* VerifyOrDie ends the process.                                           *)
Abort ==
    /\ mState' = "aborted"
    /\ UNCHANGED <<mIsServer, fd, sslVars, handlerVars, severed, out>>

-----------------------------------------------------------------------------
(* DtlsSession::Handshake, with mbedtls in state s.                        *)

(* Mutant: the timer is not started again after a retransmission.          *)
HandshakeGoesOnUntimed(s, expired) ==
    /\ \/ ~expired /\ mSsl' = s /\ UNCHANGED mHandshakeTimer
       \/ /\ s.flight < Flights
          /\ mSsl' = [s EXCEPT !.flight = @ + 1, !.retries = 0]
          /\ mHandshakeTimer' = TRUE
       \/ /\ expired /\ s.retries < Retransmits
          /\ mSsl' = [s EXCEPT !.retries = @ + 1]
          /\ mHandshakeTimer' = FALSE
    /\ mIsClientIdSet' = s.cliId
    /\ UNCHANGED <<mState, handlerVars, out>>

(* The handshake goes on: nothing new has come, the next flight is sent,   *)
(* or the timer has expired and the last one is sent again.                *)
HandshakeGoesOn(s, expired) ==
    /\ \/ ~expired /\ mSsl' = s /\ UNCHANGED mHandshakeTimer
       \/ /\ s.flight < Flights
          /\ mSsl' = [s EXCEPT !.flight = @ + 1, !.retries = 0]
          /\ mHandshakeTimer' = TRUE
       \/ /\ expired /\ s.retries < Retransmits
          /\ mSsl' = [s EXCEPT !.retries = @ + 1]
          /\ mHandshakeTimer' = TRUE
    /\ mIsClientIdSet' = s.cliId
    /\ UNCHANGED <<mState, handlerVars, out>>

(* It is over: mbedtls stops the timer, the handler is called and, unless  *)
(* it was the timer, HandleEvent goes on to read and write; if that fails, *)
(* the disconnection is a step of its own (HandleConnected).  A handler    *)
(* that disconnects leaves nothing to read.                                *)
HandshakeOver(s, expired) ==
    /\ s.over \/ s.flight = Flights
    /\ \/ /\ mState' = "connected"
          /\ CallHandler
          /\ mSsl' = [s EXCEPT !.over = TRUE]
          /\ mHandshakeTimer' = FALSE /\ mIsClientIdSet' = s.cliId
          /\ out' \in UNION {IF expired THEN {o} ELSE ReadAndWrite(o) : o \in HandlerSends(out)}
       \/ /\ ~mIsServer
          /\ CallHandlerTwice
          /\ Reset("open")
          /\ out' \in HandlerSends(out)

(* Mutant: the handler is dropped.                                         *)
ReconnectAnonymously(s) ==
    /\ mIsServer /\ s.flight = 0
    /\ Reset("connecting")
    /\ mOnConnected' = 0
    /\ UNCHANGED <<session, called, displaced, hungUp, out>>

(* MBEDTLS_ERR_SSL_HELLO_VERIFY_REQUIRED: the server waits for the client  *)
(* to come back with the cookie.                                           *)
Reconnect(s) ==
    /\ mIsServer /\ s.flight = 0
    /\ Reset("connecting")
    /\ UNCHANGED <<handlerVars, out>>

(* Any error but busy; a flight was sent for the last time.                *)
HandshakeFails == Disconnect /\ UNCHANGED out

(* A handshake that mbedtls has finished succeeds at once.                 *)
Handshake(s, expired) ==
    \/ (mIsServer => s.cliId) /\ ~s.over /\ HandshakeGoesOn(s, expired)
    \/ (mIsServer => s.cliId) /\ HandshakeOver(s, expired)
    \/ (mIsServer => s.cliId) /\ Reconnect(s)
    \/ ~s.over /\ HandshakeFails

-----------------------------------------------------------------------------
(* DtlsSession::HandleEvent.  SetClientTransportId comes first.            *)
WithClientId ==
    IF mIsServer /\ ~mIsClientIdSet THEN [mSsl EXCEPT !.cliId = TRUE] ELSE mSsl

HandleConnecting ==
    /\ fd /\ mState = "connecting"
    /\ Handshake(WithClientId, FALSE)
    /\ UNCHANGED <<mIsServer, fd, severed>>

HandleConnected ==
    /\ fd /\ mState = "connected"
    /\ \/ out' \in ReadAndWrite(out) /\ UNCHANGED <<mState, sslVars, handlerVars>>
       \/ out' \in ReadAndWrite(out) /\ Disconnect
    /\ UNCHANGED <<mIsServer, fd, severed>>

(* Read finds that the client starts anew, and calls the session           *)
(* connecting; HandleEvent's loop reads on, which is an error in that      *)
(* state, and disconnects.                                                 *)
HandleClientReconnect ==
    /\ fd /\ mState = "connected" /\ mIsServer
    /\ out' \in HandlerSends(out)
    /\ Disconnect
    /\ UNCHANGED <<mIsServer, fd, severed>>

(* An open session ignores the event, but a server sets the client's id.   *)
HandleOpen ==
    /\ fd /\ mState = "open" /\ mIsServer /\ ~mIsClientIdSet
    /\ mSsl' = WithClientId /\ mIsClientIdSet' = TRUE
    /\ UNCHANGED <<mIsServer, mState, fd, mHandshakeTimer, handlerVars, severed, out>>

(* The timer is single-shot.  Only a session that is connecting may get    *)
(* here, and mbedtls then uses the socket to send its flight again.        *)
HandshakeTimerCallback ==
    /\ mHandshakeTimer /\ mState \notin {"aborted", "asserted"}
    /\ IF mState # "connecting" \/ (~fd /\ mSsl.retries < Retransmits)
       THEN Abort
       ELSE /\ IF fd THEN Handshake(mSsl, TRUE) ELSE HandshakeFails
            /\ UNCHANGED <<mIsServer, fd, severed>>

-----------------------------------------------------------------------------
(* Calls of the owner.                                                     *)

(* CoapSecure::Connect, or, once, JoinerSession::Connect on a relayed      *)
(* socket.  The old descriptor is closed in any case.  If a new one cannot *)
(* be opened, the handler is told and the session is left as it is.        *)
(* DtlsSession::Connect asserts that the session is open; where assertions *)
(* are compiled out, one that is in use gets another handler and goes on   *)
(* from where mbedtls is.                                                  *)
Connect ==
    /\ session < MaxSessions /\ (mIsServer => session = 0)
    /\ mState \notin {"aborted", "asserted"}
    /\ session' = session + 1
    /\ \/ /\ ~mIsServer
          /\ fd' = FALSE
          /\ severed' = (mState # "open")
          /\ called' = [called EXCEPT ![session + 1] = 1]
          /\ UNCHANGED <<mState, mOnConnected, displaced>>
       \/ /\ fd' = TRUE
          /\ severed' = FALSE
          /\ mState' = "connecting"
          /\ mOnConnected' = session + 1
          /\ displaced' = displaced \cup ({mOnConnected} \ {0})
          /\ UNCHANGED called
       \/ /\ mState # "open"
          /\ mState' = "asserted"
          /\ UNCHANGED <<fd, severed, mOnConnected, displaced, called>>
    /\ UNCHANGED <<mIsServer, sslVars, hungUp, out>>

OwnerSends ==
    /\ mState = "connected"
    /\ IF fd
       THEN out' \in Send(out) /\ UNCHANGED <<mIsServer, mState, fd, sslVars, handlerVars, severed>>
       ELSE Abort

(* With close notify, if the session is connected.                         *)
OwnerDisconnects ==
    /\ mState \in {"connecting", "connected"}
    /\ IF mState = "connected" /\ ~fd THEN Abort
       ELSE Disconnect /\ UNCHANGED <<mIsServer, fd, severed, out>>

Next ==
    \/ HandleConnecting \/ HandleConnected \/ HandleClientReconnect \/ HandleOpen
    \/ HandshakeTimerCallback
    \/ Connect \/ OwnerSends \/ OwnerDisconnects

Spec == Init /\ [][Next]_vars

(* Timers fire; the first event of a new socket (it is writable) lets a    *)
(* client send its first flight, or finds that mbedtls has finished.       *)
Fairness ==
    /\ WF_vars(HandshakeTimerCallback)
    /\ WF_vars(~mIsServer /\ (mSsl.flight = 0 \/ mSsl.over) /\ HandleConnecting)

FairSpec == Spec /\ Fairness

----------------------------------------------------------------------------
(* dtls.cpp:648 dies if the timer fires in a session that is not           *)
(* connecting, and socket.cpp:225 if mbedtls uses a closed descriptor.     *)
(* Neither happens, and mbedtls knows the client's id exactly when the     *)
(* session believes so.  The one exception: an owner that calls Connect on *)
(* a session in use, and whose new socket cannot be opened, leaves the     *)
(* session without a descriptor (socket.cpp:114-145), to be used by the    *)
(* timer or by the next message.                                           *)
NeverAborts ==
    /\ mState \in {"open", "connecting", "connected", "aborted", "asserted"}
    /\ (mState \in {"connecting", "connected"} /\ ~fd) \/ mState = "aborted" => severed
    /\ fd \in BOOLEAN /\ mHandshakeTimer \in BOOLEAN /\ severed \in BOOLEAN
    /\ mSsl \in [flight : 0..Flights, retries : 0..Retransmits, over : BOOLEAN, cliId : BOOLEAN]
    /\ mIsClientIdSet = mSsl.cliId
    /\ session \in 0..MaxSessions /\ mOnConnected \in 0..session
    /\ called \in [1..MaxSessions -> Nat]
    /\ displaced \in SUBSET (1..session) /\ hungUp \in SUBSET (1..session)

(* How often the handler of s is to have been called.                      *)
Due(s) ==
    IF s = mOnConnected \/ s \in displaced THEN 0 ELSE IF s \in hungUp THEN 2 ELSE 1

(* The handler of Connect is called exactly once, also when the server     *)
(* starts over with a cookie: it was called, or is held and will be.       *)
(* There are two exceptions: a handler that disconnects on success is      *)
(* called a second time (dtls.cpp:540-544 clears it only afterwards), and  *)
(* one that another Connect replaced (dtls.cpp:279) is never called; where *)
(* assertions are compiled in, that Connect ends the process (277).        *)
HandlerOnce ==
    mState # "asserted" =>
        \A s \in 1..session : called[s] = Due(s)

(* What Send takes is given to mbedtls in that order with nothing lost in  *)
(* between, however often mbedtls is busy and whatever the handlers send.  *)
Fifo == out.taken = out.wire \o out.mSendQueue

(* A client's attempt to connect ends, whatever the peer does, unless a    *)
(* Connect that came after it failed and took its socket away.             *)
ConnectEnds ==
    ~mIsServer /\ mState = "connecting" ~> mState # "connecting" \/ severed
=============================================================================
