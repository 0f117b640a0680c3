-------------------------- MODULE JoinerSessions ---------------------------
(***************************************************************************)
(* The joiner sessions of CommissionerImpl (library/commissioner_impl.cpp  *)
(* HandleRlyRx and HandleJoinerSessionTimer, library/joiner_session.cpp):  *)
(* one DTLS server session for each joiner that is relayed to the          *)
(* commissioner, removed by a timer that all sessions share.               *)
(*                                                                         *)
(* Time is kept as what is left until an event: a step of Tick is one      *)
(* kJoinerTimeout.  The event loop is prompt: time does not pass while a   *)
(* timer is due.                                                           *)
(***************************************************************************)
EXTENDS Naturals

CONSTANTS
    Joiners,
    HandshakeTimeout,  \* kDtlsHandshakeTimeoutMax in steps of kJoinerTimeout
    MaxSessions        \* bound on the sessions made

ASSUME JoinerAssumption == HandshakeTimeout \in Nat /\ MaxSessions \in Nat

VARIABLES
    mJoinerSessions,      \* the session of each joiner, or None
    mJoinerSessionTimer,  \* time left until it fires, or Stopped
    made,                 \* number of sessions made
    told,                 \* told[s]: how often OnJoinerConnected was called
                          \* for session s
    accepted              \* sessions whose JOIN_FIN.req was accepted

sessionsVars == <<mJoinerSessions, mJoinerSessionTimer, made, told, accepted>>

None == [state |-> "none"]
(* mExpirationTime - now, for a new session: the handshake's timeout and   *)
(* kJoinerTimeout.                                                         *)
Lifetime == HandshakeTimeout + 1

(* The timer's value when it does not run: more than it is ever set to.    *)
Stopped == Lifetime + 1

Live == {j \in Joiners : mJoinerSessions[j] # None}

SessionsInit ==
    /\ mJoinerSessions = [j \in Joiners |-> None]
    /\ mJoinerSessionTimer = Stopped
    /\ made = 0
    /\ told = [s \in 1..MaxSessions |-> 0]
    /\ accepted = {}

-----------------------------------------------------------------------------
(* A RLY_RX of a joiner whose session is live only hands it the records.   *)
Disabled(j) == mJoinerSessions[j].state \in {"none", "open"}

(* The session of a disabled joiner is erased, and none is made for one    *)
(* that the user does not want.                                            *)
JoinerRefused(j) ==
    /\ Disabled(j)
    /\ mJoinerSessions' = [mJoinerSessions EXCEPT ![j] = None]
    /\ UNCHANGED <<mJoinerSessionTimer, made, told, accepted>>

(* A new session for a joiner that the user wants.  Its DTLS session       *)
(* starts, or fails to initialise.                                         *)
StartSession(j, left, timer) ==
    /\ Disabled(j) /\ made < MaxSessions
    /\ made' = made + 1
    /\ \E state \in {"connecting", "open"} :
          /\ mJoinerSessions' = [mJoinerSessions EXCEPT ![j] =
                [state |-> state, id |-> made + 1, left |-> left]]
          /\ told' = [told EXCEPT ![made + 1] = IF state = "open" THEN 1 ELSE 0]
    /\ mJoinerSessionTimer' = timer
    /\ UNCHANGED accepted

(* Mutant: the timer is not started.                                       *)
NewSessionUntimed(j) == StartSession(j, Lifetime, mJoinerSessionTimer)

(* The timer is set to the expiration of the new session, whatever it was  *)
(* set to before.                                                          *)
NewSession(j) == StartSession(j, Lifetime, Lifetime)

-----------------------------------------------------------------------------
(* Events of a joiner's DTLS session (module DtlsSession).                 *)
Connected(j) ==
    /\ mJoinerSessions[j].state = "connecting"
    /\ mJoinerSessions' = [mJoinerSessions EXCEPT ![j].state = "connected"]
    /\ told' = [told EXCEPT ![mJoinerSessions[j].id] = @ + 1]
    /\ UNCHANGED <<mJoinerSessionTimer, made, accepted>>

(* A session that fails stays, disabled, until it is replaced or expires;  *)
(* the user is told if it was not connected.                               *)
SessionFails(j) ==
    /\ mJoinerSessions[j].state \in {"connecting", "connected"}
    /\ mJoinerSessions' = [mJoinerSessions EXCEPT ![j].state = "open"]
    /\ told' = IF mJoinerSessions[j].state = "connecting"
               THEN [told EXCEPT ![mJoinerSessions[j].id] = @ + 1] ELSE told
    /\ UNCHANGED <<mJoinerSessionTimer, made, accepted>>

(* HandleJoinFin: OnJoinerFinalize accepts or rejects a well-formed        *)
(* request, and the response is sent; the session goes on either way.      *)
HandleJoinFin(j) ==
    /\ mJoinerSessions[j].state = "connected"
    /\ accepted' = accepted \cup {mJoinerSessions[j].id}
    /\ UNCHANGED <<mJoinerSessions, mJoinerSessionTimer, made, told>>

-----------------------------------------------------------------------------
Less(n) == IF n = 0 THEN 0 ELSE n - 1

Tick ==
    /\ mJoinerSessionTimer # 0
    /\ Live # {}
    /\ mJoinerSessions' = [j \in Joiners |->
          IF j \in Live THEN [mJoinerSessions[j] EXCEPT !.left = Less(@)] ELSE None]
    /\ mJoinerSessionTimer' =
          IF mJoinerSessionTimer = Stopped THEN Stopped ELSE Less(mJoinerSessionTimer)
    /\ UNCHANGED <<made, told, accepted>>

(* Mutant: now > expiration instead of now >= expiration.                  *)
SessionTimerStrict ==
    /\ mJoinerSessionTimer = 0
    /\ LET left == {mJoinerSessions[j].left : j \in Live}
       IN  mJoinerSessionTimer' = IF left = {} THEN Stopped
                                  ELSE CHOOSE n \in left : \A m \in left : n <= m
    /\ UNCHANGED <<mJoinerSessions, made, told, accepted>>

(* Removes what has expired and waits for the session that expires next.   *)
HandleJoinerSessionTimer ==
    /\ mJoinerSessionTimer = 0
    /\ LET over == {j \in Live : mJoinerSessions[j].left = 0}
           left == {mJoinerSessions[j].left : j \in Live \ over}
       IN  /\ mJoinerSessions' = [j \in Joiners |->
                                    IF j \in over THEN None ELSE mJoinerSessions[j]]
           /\ mJoinerSessionTimer' = IF left = {} THEN Stopped
                                     ELSE CHOOSE n \in left : \A m \in left : n <= m
    /\ UNCHANGED <<made, told, accepted>>

SessionsNext ==
    \/ \E j \in Joiners : JoinerRefused(j)
    \/ \E j \in Joiners : NewSession(j)
    \/ \E j \in Joiners : Connected(j)
    \/ \E j \in Joiners : SessionFails(j)
    \/ \E j \in Joiners : HandleJoinFin(j)
    \/ Tick
    \/ HandleJoinerSessionTimer

SessionsSpec == SessionsInit /\ [][SessionsNext]_sessionsVars

(* Time passes and a timer that is due fires.                              *)
FairSessionsSpec == SessionsSpec /\ WF_sessionsVars(Tick) /\ WF_sessionsVars(HandleJoinerSessionTimer)

-----------------------------------------------------------------------------
(* Every variable has its type, and sessions have the numbers they were    *)
(* made with.                                                              *)
SessionsTypeOK ==
    /\ \A j \in Live : mJoinerSessions[j] \in
          [state : {"connecting", "connected", "open"}, id : 1..made, left : 0..Lifetime]
    /\ mJoinerSessionTimer \in 0..Stopped
    /\ made \in 0..MaxSessions
    /\ told \in [1..MaxSessions -> Nat]
    /\ accepted \subseteq 1..made

(* While there are sessions the shared timer runs, and no session expires  *)
(* after it: new sessions, refused joiners and failed handshakes leave     *)
(* none that a shot of the timer would not remove.                         *)
TimerCoversAll ==
    \A j \in Live :
        mJoinerSessionTimer # Stopped /\ mJoinerSessions[j].left <= mJoinerSessionTimer

(* A session that is replaced or live was announced at most once, and a    *)
(* session that has ended by itself, or was connected, exactly once.       *)
ToldOnce ==
    /\ \A s \in 1..MaxSessions : told[s] <= 1
    /\ \A j \in Live : told[mJoinerSessions[j].id] =
                          IF mJoinerSessions[j].state = "connecting" THEN 0 ELSE 1

(* Every session is removed in the end, when no new ones are made: no      *)
(* session is forgotten by the shared timer.                               *)
SessionsRemoved ==
    \A s \in 1..MaxSessions :
        (\E j \in Live : mJoinerSessions[j].id = s)
            ~> ~(\E j \in Live : mJoinerSessions[j].id = s)
=============================================================================
