---------------------------- MODULE CallerProofs ----------------------------
(***************************************************************************)
(* Proofs about what a caller of the commissioner is owed.                 *)
(* CommissionerImpl, for every number of calls and of keep-alives in       *)
(* flight: the state of the commissioner, its keep-alive timer and the     *)
(* requests outstanding agree, and the handler of each call is called      *)
(* exactly once. CommissionerSafe: the queue is served in the order of the *)
(* calls whatever the threads and handlers do, and a program with one user *)
(* thread that makes only synchronous calls never leaves a request queued  *)
(* without a callback due.                                                 *)
(***************************************************************************)
EXTENDS CommissionerImpl, CommissionerSafe, Integers, TLAPS

(* Most leaves are first-order and set reasoning, which is Zenon's; those  *)
(* that need arithmetic, records or functions cite SMT.                    *)
USE Zenon

(* The state, the timer and the outstanding requests agree.                *)
Agree == ActiveIsKeptAlive /\ KeepAliveOfThisSession /\ OnePetition

(* A call that was not made is not waited for, and was not replaced.       *)
Started == \A c \in Calls : asked[c] = "new" => c \notin Cancelled \cup replaced

Inv == TypeOK /\ Agree /\ Started

-----------------------------------------------------------------------------
(* Handle counts calls of handlers.                                        *)
LEMMA HandleTyped ==
  ASSUME TypeOK, NEW N, NEW S, Handle(N, S)
  PROVE  handled' \in [Tasks -> Nat]
PROOF
<1>1. \A x \in Tasks : (IF x \in N THEN 0 ELSE handled[x])
                        + (IF x \in S THEN 1 ELSE 0) \in Nat
  BY SMT DEF TypeOK
<1> QED
  BY <1>1 DEF Handle

(* After Disconnect the state, the timer and the requests agree.           *)
LEMMA DisconnectInv ==
  ASSUME Inv, NEW N, NEW S, NEW timer \in BOOLEAN, Disconnect(N, S, timer),
         asked' \in [Calls -> {"new", "connect", "petition", "request", "resign"}],
         \A c \in Calls : asked'[c] = "new" => asked[c] = "new"
  PROVE  Inv'
PROOF
<1>1. handled' \in [Tasks -> Nat]
  BY HandleTyped DEF Inv, Disconnect
<1>2. TypeOK'
  BY <1>1 DEF Inv, TypeOK, Disconnect
<1>3. Petitions' = {}
  BY DEF Petitions, Disconnect
<1>4. Agree'
  BY <1>3 DEF Agree, ActiveIsKeptAlive, KeepAliveOfThisSession, OnePetition, Disconnect
<1>5. Started'
  BY DEF Inv, Started, Cancelled, Disconnect
<1> QED
  BY <1>2, <1>4, <1>5 DEF Inv

(* A call that was not made before is not a petition outstanding.          *)
LEMMA AskStep ==
  ASSUME Inv, NEW c, NEW what \in {"connect", "petition", "request", "resign"},
         Ask(c, what)
  PROVE  /\ c \in Calls
         /\ asked' \in [Calls -> {"new", "connect", "petition", "request", "resign"}]
         /\ asked'[c] = what
         /\ \A d \in Calls \ {c} : asked'[d] = asked[d]
         /\ \A d \in Calls : asked'[d] = "new" => asked[d] = "new"
  BY DEF Ask, Inv, TypeOK

(* The initial state satisfies the invariant.                              *)
LEMMA InitInv == Init => Inv
PROOF
<1> SUFFICES ASSUME Init PROVE Inv
  OBVIOUS
<1>1. TypeOK
  BY ImplAssumption DEF Init, TypeOK, Tasks
<1>2. Agree
  BY DEF Init, Agree, ActiveIsKeptAlive, KeepAliveOfThisSession, OnePetition, Petitions
<1>3. Started
  BY ImplAssumption DEF Init, Started, Cancelled
<1> QED
  BY <1>1, <1>2, <1>3 DEF Inv

(* A step of the user's that sends no petition or keep-alive and changes   *)
(* at most the DTLS session and the requests outstanding.                  *)
LEMMA QuietInv ==
  ASSUME Inv, TypeOK', Started', UNCHANGED <<mState, mKeepAliveTimer>>,
         Petitions' = Petitions, pending' \cap KeepAlives = pending \cap KeepAlives
  PROVE  Inv'
  BY DEF Inv, Agree, ActiveIsKeptAlive, KeepAliveOfThisSession, OnePetition

(* Connect starts the call given.                                          *)
LEMMA ConnectTyped ==
  ASSUME Inv, NEW c \in Calls, Connect(c)
  PROVE  /\ dtls' \in {"open", "connecting", "connected"}
         /\ mOnConnected' \in Calls \cup {NoTask}
         /\ mOnConnected' # NoTask <=> dtls' = "connecting"
         /\ handled' \in [Tasks -> Nat]
         /\ mOnConnected' \in {c, mOnConnected}
         /\ fd' \in BOOLEAN /\ aborted' \in BOOLEAN
         /\ replaced' \subseteq Calls /\ replaced' \subseteq replaced \cup Cancelled
PROOF
<1>1. handled' \in [Tasks -> Nat]
  BY HandleTyped DEF Connect, Inv, TypeOK
<1>2. c # NoTask /\ TypeOK
  BY ImplAssumption DEF Inv
<1>3. CASE UNCHANGED <<dtls, mOnConnected, replaced>>
  BY <1>1, <1>2, <1>3 DEF Connect, TypeOK
<1>4. CASE /\ fd' = TRUE /\ dtls' = "connecting" /\ mOnConnected' = c
           /\ replaced' = replaced \cup ({mOnConnected} \ {NoTask}) /\ UNCHANGED aborted
  BY <1>1, <1>2, <1>4 DEF TypeOK, Cancelled
<1> QED
  BY <1>3, <1>4 DEF Connect

(* Connecting disturbs neither the state nor the requests.                 *)
LEMMA UserConnectInv == ASSUME NEW c \in Calls, Inv, UserConnect(c) PROVE Inv'
PROOF
<1>1. /\ Ask(c, "connect") /\ Connect(c)
      /\ UNCHANGED <<mState, pending, mKeepAliveTimer>>
  BY DEF UserConnect
<1>2. /\ asked' \in [Calls -> {"new", "connect", "petition", "request", "resign"}]
      /\ asked'[c] = "connect" /\ \A d \in Calls \ {c} : asked'[d] = asked[d]
  BY <1>1, AskStep
<1>3. TypeOK'
  BY <1>1, <1>2, ConnectTyped DEF Inv, TypeOK
<1>4. asked[c] = "new" /\ c \notin pending
  BY <1>1 DEF Ask, Inv, Started, Cancelled
<1>5. Petitions' = Petitions
  BY <1>1, <1>2, <1>4 DEF Petitions
<1>6. Started'
  <2> SUFFICES ASSUME NEW d \in Calls, asked'[d] = "new" PROVE d \notin (Cancelled \cup replaced)'
    BY DEF Started
  <2>1. d # c /\ asked[d] = "new" /\ d \notin Cancelled \cup replaced
    BY <1>2 DEF Started, Inv
  <2> QED
    BY <1>1, <2>1, ConnectTyped DEF Cancelled
<1> QED
  BY <1>1, <1>3, <1>5, <1>6, QuietInv

(* Petition sends a petition only when the commissioner is disabled.       *)
LEMMA PetitionInv == ASSUME NEW c \in Calls, Inv, Petition(c) PROVE Inv'
PROOF
<1>1. Ask(c, "petition") /\ UNCHANGED mKeepAliveTimer
  BY DEF Petition
<1>2. /\ asked' \in [Calls -> {"new", "connect", "petition", "request", "resign"}]
      /\ asked'[c] = "petition" /\ \A d \in Calls \ {c} : asked'[d] = asked[d]
  BY <1>1, AskStep
<1>3. asked[c] = "new" /\ c \notin pending /\ c # mOnConnected
  BY <1>1, ImplAssumption DEF Ask, Inv, Started, Cancelled, Tasks
<1>4. c \notin KeepAlives /\ c \in Tasks
  BY ImplAssumption DEF Tasks
<1>5. CASE /\ Handle({}, {c})
           /\ UNCHANGED <<mState, dtlsVars, pending>>
  <2>1. TypeOK'
    BY <1>1, <1>2, <1>5, HandleTyped DEF Inv, TypeOK, dtlsVars
  <2>2. Petitions' = Petitions
    BY <1>2, <1>3, <1>5 DEF Petitions
  <2>3. Started'
    BY <1>2, <1>5 DEF Started, Cancelled, Inv, dtlsVars
  <2> QED
    BY <1>1, <1>5, <2>1, <2>2, <2>3, QuietInv
<1>6. CASE /\ mState = "disabled" /\ mState' = "petitioning"
           /\ pending' = pending \cup {c}
           /\ UNCHANGED <<dtlsVars, handled>>
  <2>1. TypeOK'
    BY <1>1, <1>2, <1>4, <1>6 DEF Inv, TypeOK, dtlsVars
  <2>2. Petitions = {} /\ pending \cap KeepAlives = {}
    BY <1>6 DEF Inv, Agree, OnePetition, KeepAliveOfThisSession
  <2>3. Petitions' = {c} /\ pending' \cap KeepAlives = {}
    BY <1>2, <1>3, <1>4, <1>6, <2>2 DEF Petitions
  <2>4. Agree'
    BY <1>6, <2>3 DEF Agree, ActiveIsKeptAlive, KeepAliveOfThisSession, OnePetition
  <2>5. Started'
    BY <1>2, <1>6 DEF Started, Cancelled, Inv, dtlsVars
  <2> QED
    BY <2>1, <2>4, <2>5 DEF Inv
<1>7. CASE Connect(c) /\ UNCHANGED <<mState, pending>>
  <2>1. TypeOK'
    BY <1>1, <1>2, <1>7, ConnectTyped DEF Inv, TypeOK
  <2>2. Petitions' = Petitions
    BY <1>2, <1>3, <1>7 DEF Petitions
  <2>3. Started'
    <3> SUFFICES ASSUME NEW d \in Calls, asked'[d] = "new" PROVE d \notin (Cancelled \cup replaced)'
      BY DEF Started
    <3>1. d # c /\ asked[d] = "new" /\ d \notin Cancelled \cup replaced
      BY <1>2 DEF Started, Inv
    <3> QED
      BY <1>7, <3>1, ConnectTyped DEF Cancelled
  <2> QED
    BY <1>1, <1>7, <2>1, <2>2, <2>3, QuietInv
<1> QED
  BY <1>5, <1>6, <1>7 DEF Petition, SendPetition

(* Another API call's request is neither a petition nor a keep-alive.      *)
LEMMA RequestInv == ASSUME NEW c \in Calls, Inv, Request(c) PROVE Inv'
PROOF
<1>1. Ask(c, "request") /\ UNCHANGED <<mState, dtlsVars, mKeepAliveTimer>>
  BY DEF Request
<1>2. /\ asked' \in [Calls -> {"new", "connect", "petition", "request", "resign"}]
      /\ asked'[c] = "request" /\ \A d \in Calls \ {c} : asked'[d] = asked[d]
  BY <1>1, AskStep
<1>3. asked[c] = "new" /\ c \notin pending
  BY <1>1 DEF Ask, Inv, Started, Cancelled
<1>4. c \notin KeepAlives /\ c \in Tasks
  BY ImplAssumption DEF Tasks
<1>5. pending' \in {pending, pending \cup {c}}
  BY DEF Request
<1>6. TypeOK'
  BY <1>1, <1>2, <1>4, <1>5, HandleTyped DEF Inv, TypeOK, Request, dtlsVars
<1>7. Petitions' = Petitions /\ pending' \cap KeepAlives = pending \cap KeepAlives
  BY <1>2, <1>3, <1>4, <1>5 DEF Petitions
<1>8. Started'
  BY <1>1, <1>2, <1>5 DEF Started, Cancelled, Inv, dtlsVars
<1> QED
  BY <1>1, <1>6, <1>7, <1>8, QuietInv

(* An answer to a request other than a petition or a keep-alive.           *)
LEMMA RequestDoneInv == ASSUME NEW c \in Calls, Inv, RequestDone(c) PROVE Inv'
PROOF
<1>1. /\ c \in (pending \cap Calls) \ Petitions
      /\ pending' = pending \ {c} /\ Handle({}, {c})
      /\ UNCHANGED <<mState, dtlsVars, mKeepAliveTimer, asked>>
  BY DEF RequestDone
<1>2. TypeOK'
  BY <1>1, HandleTyped DEF Inv, TypeOK, dtlsVars
<1>3. Petitions' = Petitions /\ pending' \cap KeepAlives = pending \cap KeepAlives
  BY <1>1, ImplAssumption DEF Petitions
<1>4. Started'
  BY <1>1 DEF Started, Cancelled, Inv, dtlsVars
<1> QED
  BY <1>1, <1>2, <1>3, <1>4, QuietInv

(* The end of a petition removes the only one.                             *)
LEMMA PetitionEndsInv ==
  ASSUME NEW c \in Calls, Inv, PetitionAccepted(c) \/ PetitionFails(c)
  PROVE  Inv'
PROOF
<1>1. /\ c \in Petitions /\ pending' = pending \ {c} /\ Handle({}, {c})
      /\ UNCHANGED <<dtlsVars, asked>>
      /\ \/ mState' = "active" /\ mKeepAliveTimer' = TRUE
         \/ mState' = "disabled" /\ UNCHANGED mKeepAliveTimer
  BY DEF PetitionAccepted, PetitionFails
<1>2. TypeOK'
  BY <1>1, HandleTyped DEF Inv, TypeOK, dtlsVars
<1>3. mState = "petitioning" /\ \A d \in Petitions : d = c
  BY <1>1 DEF Inv, Agree, OnePetition
<1>4. Petitions' = {} /\ pending' \cap KeepAlives = {}
  BY <1>1, <1>3 DEF Petitions, Inv, Agree, KeepAliveOfThisSession
<1>5. Agree'
  BY <1>1, <1>4 DEF Agree, ActiveIsKeptAlive, KeepAliveOfThisSession, OnePetition
<1>6. Started'
  BY <1>1 DEF Started, Cancelled, Inv, dtlsVars
<1> QED
  BY <1>2, <1>5, <1>6 DEF Inv

(* Sending a keep-alive, and its being accepted, restart the timer.        *)
LEMMA KeepAliveInv ==
  ASSUME NEW k \in KeepAlives, Inv, mState = "active", mKeepAliveTimer' = TRUE,
         pending' \in {pending \cup {k}, pending \ {k}},
         NEW N, NEW S, Handle(N, S), UNCHANGED <<mState, dtlsVars, asked>>
  PROVE  Inv'
PROOF
<1>1. k \in Tasks /\ k \notin Calls
  BY ImplAssumption DEF Tasks
<1>2. TypeOK'
  BY <1>1, HandleTyped DEF Inv, TypeOK, dtlsVars
<1>3. Petitions' = Petitions
  BY <1>1 DEF Petitions
<1>4. Agree'
  BY <1>3 DEF Inv, Agree, ActiveIsKeptAlive, KeepAliveOfThisSession, OnePetition
<1>5. Started'
  BY <1>1 DEF Started, Cancelled, Inv, dtlsVars
<1> QED
  BY <1>2, <1>4, <1>5 DEF Inv

(* Cancelling the outstanding requests ends a petition or the session.     *)
LEMMA CancelInv == ASSUME Inv, CancelRequests PROVE Inv'
PROOF
<1>1. asked' = asked /\ asked \in
        [Calls -> {"new", "connect", "petition", "request", "resign"}]
  BY DEF CancelRequests, Inv, TypeOK
<1>2. CASE pending \cap KeepAlives # {}
  BY <1>1, <1>2, DisconnectInv DEF CancelRequests
<1>3. CASE pending \cap KeepAlives = {}
  <2>1. /\ Handle({}, pending) /\ pending' = {}
        /\ mState' = IF Petitions # {} THEN "disabled" ELSE mState
        /\ UNCHANGED <<dtlsVars, mKeepAliveTimer>>
    BY <1>3 DEF CancelRequests
  <2>2. TypeOK'
    BY <1>1, <2>1, HandleTyped DEF Inv, TypeOK, dtlsVars
  <2>3. Petitions' = {} /\ mState' # "petitioning"
    BY <2>1 DEF Petitions, Inv, Agree, OnePetition
  <2>4. Agree'
    BY <2>1, <2>3 DEF Inv, Agree, ActiveIsKeptAlive, KeepAliveOfThisSession, OnePetition
  <2>5. Started'
    BY <1>1, <2>1 DEF Started, Cancelled, Inv, dtlsVars
  <2> QED
    BY <2>2, <2>4, <2>5 DEF Inv
<1> QED
  BY <1>2, <1>3

(* The end of a handshake may send a petition; the loss of a session       *)
(* changes neither state nor requests.                                     *)
LEMMA HandshakeInv == ASSUME Inv, HandshakeSucceeds \/ SessionFails PROVE Inv'
PROOF
<1>1. /\ dtls \in {"connecting", "connected"}
      /\ dtls' \in {"open", "connected"} /\ mOnConnected' = NoTask
      /\ UNCHANGED <<fd, replaced, aborted, mKeepAliveTimer, asked>>
  BY DEF HandshakeSucceeds, SessionFails, CanSend
<1>2. CASE Handle({}, {mOnConnected}) /\ UNCHANGED <<mState, pending>>
  <2>1. TypeOK'
    BY <1>1, <1>2, HandleTyped DEF Inv, TypeOK
  <2>2. Petitions' = Petitions
    BY <1>1, <1>2 DEF Petitions
  <2>3. Started'
    BY <1>1, <1>2 DEF Started, Cancelled, Inv
  <2> QED
    BY <1>1, <1>2, <2>1, <2>2, <2>3, QuietInv
<1>3. CASE /\ mOnConnected # NoTask /\ asked[mOnConnected] = "petition"
           /\ mState = "disabled" /\ mState' = "petitioning"
           /\ pending' = pending \cup {mOnConnected}
           /\ UNCHANGED handled
  <2>1. mOnConnected \in Calls /\ mOnConnected \in Tasks /\ mOnConnected \notin KeepAlives
    BY <1>3, ImplAssumption DEF Inv, TypeOK, Tasks
  <2>2. TypeOK'
    BY <1>1, <1>3, <2>1 DEF Inv, TypeOK
  <2>3. Petitions = {} /\ pending \cap KeepAlives = {}
    BY <1>3 DEF Inv, Agree, OnePetition, KeepAliveOfThisSession
  <2>4. Petitions' = {mOnConnected} /\ pending' \cap KeepAlives = {}
    BY <1>1, <1>3, <2>1, <2>3 DEF Petitions
  <2>5. Agree'
    BY <1>3, <2>4 DEF Agree, ActiveIsKeptAlive, KeepAliveOfThisSession, OnePetition
  <2>6. Started'
    BY <1>1, <1>3 DEF Started, Cancelled, Inv
  <2> QED
    BY <2>2, <2>5, <2>6 DEF Inv
<1> QED
  BY <1>2, <1>3 DEF HandshakeSucceeds, SessionFails

(* A failed retransmission ends the session like Disconnect.               *)
LEMMA NotRetransmittedInv ==
  ASSUME NEW k \in KeepAlives, Inv, KeepAliveNotRetransmitted(k)
  PROVE  Inv'
PROOF
<1>1. \A x \in Tasks :
         (IF x = k THEN handled[x] + 2
          ELSE IF x \in Cancelled THEN handled[x] + 1 ELSE handled[x]) \in Nat
  BY SMT DEF Inv, TypeOK
<1>2. handled' \in [Tasks -> Nat]
  BY <1>1 DEF KeepAliveNotRetransmitted
<1>3. TypeOK'
  BY <1>2 DEF Inv, TypeOK, KeepAliveNotRetransmitted
<1>4. Petitions' = {}
  BY DEF Petitions, KeepAliveNotRetransmitted
<1>5. Agree'
  BY <1>4 DEF Agree, ActiveIsKeptAlive, KeepAliveOfThisSession, OnePetition,
              KeepAliveNotRetransmitted
<1>6. Started'
  BY DEF Inv, Started, Cancelled, KeepAliveNotRetransmitted
<1> QED
  BY <1>3, <1>5, <1>6 DEF Inv

(* Every step keeps the invariant.                                         *)
LEMMA NextInv == Inv /\ [Next]_vars => Inv'
PROOF
<1> SUFFICES ASSUME Inv, [Next]_vars PROVE Inv'
  OBVIOUS
<1> DEFINE Asked == [Calls -> {"new", "connect", "petition", "request", "resign"}]
<1>0. asked \in Asked
  BY DEF Inv, TypeOK
<1>1. CASE UNCHANGED vars
  <2>1. TypeOK' /\ Petitions' = Petitions
    BY <1>1 DEF Inv, TypeOK, Petitions, vars, dtlsVars
  <2>2. Started'
    BY <1>1 DEF Inv, Started, Cancelled, vars, dtlsVars
  <2> QED
    BY <1>1, <2>1, <2>2, QuietInv DEF vars
<1>2. CASE \E c \in Calls : UserConnect(c) \/ Petition(c) \/ Request(c)
  BY <1>2, UserConnectInv, PetitionInv, RequestInv
<1>3. CASE \E c \in Calls : Resign(c)
  <2> PICK c \in Calls : Resign(c)
    BY <1>3
  <2>1. asked' \in Asked /\ \A d \in Calls : asked'[d] = "new" => asked[d] = "new"
    BY AskStep DEF Resign
  <2>2. \E N, S : Disconnect(N, S, FALSE)
    BY DEF Resign
  <2> QED
    BY <2>1, <2>2, DisconnectInv
<1>4. CASE UserDisconnect
  <2>1. StillRunning \in BOOLEAN
    BY DEF StillRunning
  <2> QED
    BY <1>0, <1>4, <2>1, DisconnectInv DEF UserDisconnect
<1>5. CASE CancelRequests \/ SocketGone
  <2>1. CASE SocketGone
    <3>1. TypeOK' /\ Petitions' = Petitions
      BY <2>1 DEF Inv, TypeOK, Petitions, SocketGone
    <3>2. Started'
      BY <2>1 DEF Inv, Started, Cancelled, SocketGone
    <3> QED
      BY <2>1, <3>1, <3>2, QuietInv DEF SocketGone
  <2> QED
    BY <1>5, <2>1, CancelInv
<1>6. CASE HandshakeSucceeds \/ SessionFails
  BY <1>6, HandshakeInv
<1>7. CASE \E c \in Calls : PetitionAccepted(c) \/ PetitionFails(c)
  BY <1>7, PetitionEndsInv
<1>8. CASE \E c \in Calls : RequestDone(c)
  BY <1>8, RequestDoneInv
<1>9. CASE \E k \in KeepAlives : KeepAliveAccepted(k)
  <2> PICK k \in KeepAlives : KeepAliveAccepted(k)
    BY <1>9
  <2>1. mState = "active"
    BY DEF KeepAliveAccepted, Inv, Agree, KeepAliveOfThisSession
  <2> QED
    BY <2>1, KeepAliveInv DEF KeepAliveAccepted
<1>10. CASE \E k \in KeepAlives : KeepAliveRejected(k)
  BY <1>0, <1>10, DisconnectInv DEF KeepAliveRejected, KeepAliveFails
<1>11. CASE \E k \in KeepAlives : KeepAliveNotRetransmitted(k)
  BY <1>11, NotRetransmittedInv
<1>12. CASE SendKeepAlive
  <2>1. asked' = asked
    BY <1>12 DEF SendKeepAlive
  <2>2. CASE \E N, S : Disconnect(N, S, FALSE)
    BY <1>0, <2>1, <2>2, DisconnectInv
  <2>3. CASE /\ mState = "active"
             /\ \E k \in KeepAlives \ pending :
                   /\ mKeepAliveTimer' = TRUE
                   /\ pending' = pending \cup {k}
                   /\ Handle({k}, {})
                   /\ UNCHANGED <<mState, dtlsVars>>
    BY <2>1, <2>3, KeepAliveInv
  <2> QED
    BY <1>12, <2>2, <2>3 DEF SendKeepAlive, KeepAliveFails
<1> QED
  BY <1>1, <1>2, <1>3, <1>4, <1>5, <1>6, <1>7, <1>8, <1>9, <1>10, <1>11, <1>12 DEF Next

(* The session's state is well typed, and the DTLS session holds a handler *)
(* exactly while it connects.                                              *)
THEOREM ImplTypeCorrect == Spec => []TypeOK
<1>1. Inv => TypeOK
  BY DEF Inv
<1> QED
  BY <1>1, InitInv, NextInv, PTL DEF Spec

-----------------------------------------------------------------------------
(* Only Disconnect, called by the user, leaves the keep-alive timer of a   *)
(* session running; every other end of the session stops it.               *)
THEOREM TimerStops == Spec => NoStrayKeepAlive
<1>1. ASSUME Inv, TimerOfSession, ~UserDisconnect, [Next]_vars PROVE TimerOfSession'
  <2>0. mState = "petitioning" => ~mKeepAliveTimer
    BY <1>1 DEF TimerOfSession
  <2>1. CASE UNCHANGED vars
    BY <1>1, <2>1 DEF TimerOfSession, vars
  <2>2. CASE \E c \in Calls : UserConnect(c) \/ Request(c) \/ RequestDone(c)
    BY <1>1, <2>2 DEF UserConnect, Request, RequestDone, TimerOfSession
  <2>3. CASE \E c \in Calls : Petition(c)
    BY <1>1, <2>3, SMT DEF Petition, SendPetition, TimerOfSession
  <2>4. CASE \E c \in Calls : Resign(c)
    BY <2>4 DEF Resign, Disconnect, TimerOfSession
  <2>5. CASE UserDisconnect
    BY <1>1, <2>5
  <2>6. CASE CancelRequests
    <3>1. Petitions # {} => mState = "petitioning"
      BY <1>1 DEF Inv, Agree, OnePetition
    <3> QED
      BY <1>1, <2>0, <2>6, <3>1 DEF CancelRequests, Disconnect, TimerOfSession
  <2>7. CASE HandshakeSucceeds \/ SessionFails \/ SocketGone
    BY <1>1, <2>7 DEF HandshakeSucceeds, SessionFails, SocketGone, TimerOfSession
  <2>8. CASE \E c \in Calls : PetitionAccepted(c) \/ PetitionFails(c)
    <3>1. mState = "petitioning"
      BY <1>1, <2>8 DEF PetitionAccepted, PetitionFails, Inv, Agree, OnePetition
    <3> QED
      BY <2>0, <2>8, <3>1 DEF PetitionAccepted, PetitionFails, TimerOfSession
  <2>9. CASE \E k \in KeepAlives : KeepAliveAccepted(k)
    BY <1>1, <2>9 DEF KeepAliveAccepted, TimerOfSession, Inv, Agree,
                      KeepAliveOfThisSession
  <2>10. CASE \E k \in KeepAlives : KeepAliveRejected(k) \/ KeepAliveNotRetransmitted(k)
    BY <2>10 DEF KeepAliveRejected, KeepAliveFails, Disconnect,
                 KeepAliveNotRetransmitted, TimerOfSession
  <2>11. CASE SendKeepAlive
    BY <1>1, <2>11 DEF SendKeepAlive, KeepAliveFails, Disconnect, TimerOfSession
  <2> QED
    BY <1>1, <2>1, <2>2, <2>3, <2>4, <2>5, <2>6, <2>7, <2>8, <2>9, <2>10, <2>11 DEF Next
<1>2. Inv /\ [Next]_vars => [TimerOfSession /\ ~UserDisconnect => TimerOfSession']_vars
  BY <1>1
<1> QED
  BY <1>2, InitInv, NextInv, PTL DEF Spec, NoStrayKeepAlive

(* commissioner.hpp:447 and the handlers that set mState: an active        *)
(* commissioner's timer runs, no keep-alive outlives the session it was    *)
(* sent in, at most one petition is outstanding, just while petitioning,   *)
(* and no end of a session but Disconnect leaves its timer running.        *)
THEOREM SessionKept == Spec => SessionInStep
<1>1. Inv' => (ActiveIsKeptAlive /\ KeepAliveOfThisSession /\ OnePetition)'
  BY DEF Inv, Agree
<1> QED
  BY <1>1, InitInv, NextInv, TimerStops, PTL DEF Spec, SessionInStep, NoStrayKeepAlive

-----------------------------------------------------------------------------
(* What Handle does to the calls: the tasks it starts are keep-alives.     *)
LEMMA HandleCalls ==
  ASSUME TypeOK, NEW N, N \cap Calls = {}, NEW S, Handle(N, S)
  PROVE  \A c \in Calls : /\ c \in S => handled'[c] = handled[c] + 1
                          /\ c \notin S => handled'[c] = handled[c]
  BY SMT DEF TypeOK, Handle, Tasks

(* A call that a step does nothing about.                                  *)
LEMMA SameOwed ==
  ASSUME NEW c \in Calls, Owed(c), asked'[c] = asked[c], handled'[c] = handled[c],
         c \in replaced' <=> c \in replaced, c \in pending' <=> c \in pending,
         c = mOnConnected' <=> c = mOnConnected
  PROVE  Owed(c)'
PROOF
<1>1. c # NoTask
  BY ImplAssumption
<1>2. c \in Cancelled' <=> c \in Cancelled
  BY <1>1 DEF Cancelled
<1> QED
  BY <1>2 DEF Owed

(* A call whose handler is no longer waited for, but was called.           *)
LEMMA OnceOwed ==
  ASSUME NEW c \in Calls, Owed(c), c \in Cancelled,
         asked'[c] = asked[c], UNCHANGED replaced,
         handled'[c] = handled[c] + 1, c \notin pending', c # mOnConnected'
  PROVE  Owed(c)'
PROOF
<1>1. c # NoTask
  BY ImplAssumption
<1>2. c = mOnConnected \/ c \in pending
  BY DEF Cancelled
<1>3. asked[c] # "new" /\ c \notin replaced /\ handled[c] = 0
  BY <1>2 DEF Owed
<1>4. handled'[c] = 1
  BY <1>3, SMT
<1> QED
  BY <1>3, <1>4 DEF Owed

(* Disconnect calls every handler owed, and those of S besides.            *)
LEMMA DisconnectOwed ==
  ASSUME Inv, \A c \in Calls : Owed(c), NEW N, N \cap Calls = {}, NEW S, NEW timer,
         Disconnect(N, S, timer),
         \/ asked' = asked /\ S \cap Calls = {}
         \/ \E c \in Calls : Ask(c, "resign") /\ S \cap Calls = {c}
  PROVE  HandlerOwed'
PROOF
<1>1. \A c \in Calls : /\ c \in Cancelled \cup S => handled'[c] = handled[c] + 1
                       /\ c \notin Cancelled \cup S => handled'[c] = handled[c]
  BY HandleCalls DEF Inv, Disconnect
<1>2. mOnConnected' = NoTask /\ pending' = {} /\ UNCHANGED replaced
  BY DEF Disconnect
<1>3. \A c \in Calls : c # NoTask
  BY ImplAssumption
<1>4. ASSUME NEW c \in Calls, c \notin S, asked'[c] = asked[c]
      PROVE  Owed(c)'
  <2>1. CASE c \in Cancelled
    BY <1>1, <1>2, <1>3, <1>4, <2>1, OnceOwed
  <2>2. CASE c \notin Cancelled
    <3>1. c \notin pending /\ c # mOnConnected
      BY <1>3, <2>2 DEF Cancelled
    <3> QED
      BY <1>1, <1>2, <1>3, <1>4, <2>2, <3>1, SameOwed
  <2> QED
    BY <2>1, <2>2
<1>5. CASE asked' = asked /\ S \cap Calls = {}
  BY <1>4, <1>5 DEF HandlerOwed
<1>6. CASE \E c \in Calls : Ask(c, "resign") /\ S \cap Calls = {c}
  <2> PICK d \in Calls : Ask(d, "resign") /\ S \cap Calls = {d}
    BY <1>6
  <2>1. asked[d] = "new" /\ asked'[d] = "resign" /\ \A c \in Calls \ {d} : asked'[c] = asked[c]
    BY DEF Ask, Inv, TypeOK
  <2>2. handled[d] = 0 /\ d \notin replaced
    BY <2>1 DEF Owed, Inv, Started
  <2>3. handled'[d] = 1
    BY <1>1, <2>2, SMT
  <2>4. Owed(d)'
    BY <1>2, <1>3, <2>1, <2>2, <2>3 DEF Owed
  <2>5. \A c \in Calls \ {d} : c \notin S
    OBVIOUS
  <2> QED
    BY <1>4, <2>1, <2>4, <2>5 DEF HandlerOwed
<1> QED
  BY <1>5, <1>6

(* A call is started, and its handler called at once or owed by one of the *)
(* DTLS session and the CoAP client; the DTLS session drops the handler it *)
(* held.                                                                   *)
LEMMA StartOwed ==
  ASSUME Inv, \A c \in Calls : Owed(c), NEW c \in Calls,
         NEW what \in {"connect", "petition", "request"}, Ask(c, what),
         \/ Handle({}, {c}) /\ UNCHANGED <<pending, mOnConnected, replaced>>
         \/ UNCHANGED <<handled, mOnConnected, replaced>> /\ pending' = pending \cup {c}
         \/ /\ UNCHANGED <<handled, pending>> /\ mOnConnected' = c
            /\ replaced' = replaced \cup ({mOnConnected} \ {NoTask})
  PROVE  HandlerOwed'
PROOF
<1>1. asked[c] = "new" /\ asked'[c] = what /\ \A d \in Calls \ {c} : asked'[d] = asked[d]
  BY DEF Ask, Inv, TypeOK
<1>2. \A d \in Calls : d # NoTask
  BY ImplAssumption
<1>3. handled[c] = 0 /\ c \notin pending /\ c # mOnConnected /\ c \notin replaced
  BY <1>1, <1>2 DEF Owed, Cancelled, Inv, Started
<1>4. CASE Handle({}, {c}) /\ UNCHANGED <<pending, mOnConnected, replaced>>
  <2>1. \A d \in Calls : /\ d = c => handled'[d] = handled[d] + 1
                         /\ d # c => handled'[d] = handled[d]
    BY <1>4, HandleCalls, SMT DEF Inv
  <2>2. handled'[c] = 1
    BY <1>3, <2>1, SMT
  <2>3. Owed(c)'
    BY <1>1, <1>3, <1>4, <2>2 DEF Owed
  <2>4. \A d \in Calls \ {c} : Owed(d)'
    BY <1>1, <1>4, <2>1, SameOwed
  <2> QED
    BY <2>3, <2>4 DEF HandlerOwed
<1>5. CASE UNCHANGED <<handled, mOnConnected, replaced>> /\ pending' = pending \cup {c}
  <2>1. Owed(c)'
    BY <1>1, <1>3, <1>5 DEF Owed
  <2>2. \A d \in Calls \ {c} : Owed(d)'
    BY <1>1, <1>5, SameOwed
  <2> QED
    BY <2>1, <2>2 DEF HandlerOwed
<1>6. CASE /\ UNCHANGED <<handled, pending>> /\ mOnConnected' = c
           /\ replaced' = replaced \cup ({mOnConnected} \ {NoTask})
  <2>1. Owed(c)'
    <3>1. c \notin replaced' /\ c \notin pending'
      BY <1>3, <1>6
    <3> QED
      BY <1>1, <1>3, <1>6, <3>1 DEF Owed
  <2>2. ASSUME NEW d \in Calls \ {c} PROVE Owed(d)'
    <3>1. CASE d = mOnConnected
      <4>1. d \in Cancelled /\ d \in replaced'
        BY <1>2, <1>6, <3>1 DEF Cancelled
      <4>2. handled[d] = 0 /\ d \notin pending
        BY <3>1, <4>1 DEF Owed
      <4>3. d \notin Cancelled'
        BY <1>6, <4>2 DEF Cancelled
      <4> QED
        BY <1>6, <4>1, <4>2, <4>3 DEF Owed
    <3>2. CASE d # mOnConnected
      BY <1>1, <1>6, <3>2, SameOwed
    <3> QED
      BY <3>1, <3>2
  <2> QED
    BY <2>1, <2>2 DEF HandlerOwed
<1> QED
  BY <1>4, <1>5, <1>6

(* A handler owed by the CoAP client is called, and no longer owed; a      *)
(* keep-alive comes or goes.                                               *)
LEMMA FinalisedOwed ==
  ASSUME Inv, \A c \in Calls : Owed(c), NEW P \in SUBSET pending, NEW N \in SUBSET KeepAlives,
         NEW S, Handle(N, S), S \cap Calls = P \cap Calls,
         pending' \cap Calls = (pending \ P) \cap Calls, UNCHANGED <<dtlsVars, asked>>
  PROVE  HandlerOwed'
PROOF
<1>1. N \cap Calls = {} /\ UNCHANGED <<mOnConnected, replaced>>
  BY ImplAssumption DEF dtlsVars
<1>2. \A c \in Calls : /\ c \in P => handled'[c] = handled[c] + 1
                       /\ c \notin P => handled'[c] = handled[c]
  BY <1>1, HandleCalls DEF Inv
<1>3. \A c \in Calls : c \in pending' <=> c \in pending /\ c \notin P
  OBVIOUS
<1>4. ASSUME NEW c \in Calls PROVE Owed(c)'
  <2>1. CASE c \in P
    <3>1. c \in Cancelled
      BY <2>1 DEF Cancelled
    <3>2. c # mOnConnected
      BY <2>1, <3>1 DEF Owed
    <3> QED
      BY <1>1, <1>2, <1>3, <2>1, <3>1, <3>2, OnceOwed
  <2>2. CASE c \notin P
    BY <1>1, <1>2, <1>3, <2>2, SameOwed
  <2> QED
    BY <2>1, <2>2
<1> QED
  BY <1>4 DEF HandlerOwed

(* The end of a connection: its handler is called, or its petition sent.   *)
LEMMA HandshakeOwed ==
  ASSUME Inv, \A c \in Calls : Owed(c), HandshakeSucceeds \/ SessionFails
  PROVE  HandlerOwed'
PROOF
<1>1. mOnConnected' = NoTask /\ asked' = asked /\ replaced' = replaced
  BY DEF HandshakeSucceeds, SessionFails
<1>2. \A c \in Calls : c # NoTask
  BY ImplAssumption
<1>3. CASE Handle({}, {mOnConnected}) /\ UNCHANGED pending
  <2>1. \A c \in Calls : /\ c = mOnConnected => handled'[c] = handled[c] + 1
                         /\ c # mOnConnected => handled'[c] = handled[c]
    BY <1>3, HandleCalls, SMT DEF Inv
  <2>2. ASSUME NEW c \in Calls PROVE Owed(c)'
    <3>1. CASE c = mOnConnected
      <4>1. c \in Cancelled
        BY <1>2, <3>1 DEF Cancelled
      <4>2. c \notin pending
        BY <3>1, <4>1 DEF Owed
      <4> QED
        BY <1>1, <1>2, <1>3, <2>1, <3>1, <4>1, <4>2, OnceOwed
    <3>2. CASE c # mOnConnected
      BY <1>1, <1>2, <1>3, <2>1, <3>2, SameOwed
    <3> QED
      BY <3>1, <3>2
  <2> QED
    BY <2>2 DEF HandlerOwed
<1>4. CASE /\ mOnConnected # NoTask
           /\ pending' = pending \cup {mOnConnected} /\ UNCHANGED handled
  <2>1. ASSUME NEW c \in Calls PROVE Owed(c)'
    <3>1. CASE c = mOnConnected
      <4>1. c \in Cancelled /\ c \in pending'
        BY <1>2, <1>4, <3>1 DEF Cancelled
      <4>2. handled[c] = 0 /\ asked[c] # "new" /\ c \notin replaced
        BY <3>1, <4>1 DEF Owed
      <4> QED
        BY <1>1, <1>2, <1>4, <4>1, <4>2 DEF Owed
    <3>2. CASE c # mOnConnected
      BY <1>1, <1>2, <1>4, <3>2, SameOwed
    <3> QED
      BY <3>1, <3>2
  <2> QED
    BY <2>1 DEF HandlerOwed
<1> QED
  BY <1>3, <1>4 DEF HandshakeSucceeds, SessionFails

(* Every step keeps account.                                               *)
LEMMA NextOwed ==
  ASSUME Inv, HandlerOwed, [Next]_vars
  PROVE  HandlerOwed'
PROOF
<1>1. CASE UNCHANGED vars
  <2>1. UNCHANGED <<asked, handled, replaced, pending, mOnConnected, aborted>>
    BY <1>1 DEF vars, dtlsVars
  <2>2. \A c \in Calls : Owed(c) => Owed(c)'
    BY <2>1, SameOwed
  <2> QED
    BY <2>1, <2>2 DEF HandlerOwed
<1> SUFFICES ASSUME Next PROVE HandlerOwed'
  BY <1>1
<1>0. \A c \in Calls : Owed(c)
  BY DEF HandlerOwed, Next
<1>2. ASSUME NEW c \in Calls, NEW what \in {"connect", "petition"}, Ask(c, what), Connect(c),
             UNCHANGED pending
      PROVE  HandlerOwed'
  <2>1. CASE aborted'
    BY <2>1 DEF HandlerOwed
  <2>2. CASE Handle({}, {c}) /\ UNCHANGED <<mOnConnected, replaced>>
    BY <1>0, <1>2, <2>2, StartOwed
  <2>3. CASE /\ UNCHANGED handled /\ mOnConnected' = c
             /\ replaced' = replaced \cup ({mOnConnected} \ {NoTask})
    BY <1>0, <1>2, <2>3, StartOwed
  <2> QED
    BY <1>2, <2>1, <2>2, <2>3 DEF Connect
<1>3. CASE \E c \in Calls : UserConnect(c)
  BY <1>2, <1>3 DEF UserConnect
<1>4. CASE \E c \in Calls : Petition(c)
  <2> PICK c \in Calls : Petition(c)
    BY <1>4
  <2>1. Ask(c, "petition")
    BY DEF Petition
  <2>2. CASE Connect(c) /\ UNCHANGED pending
    BY <1>2, <2>1, <2>2
  <2>3. CASE Handle({}, {c}) /\ UNCHANGED <<pending, dtlsVars>>
    BY <1>0, <2>1, <2>3, StartOwed DEF dtlsVars
  <2>4. CASE pending' = pending \cup {c} /\ UNCHANGED <<handled, dtlsVars>>
    BY <1>0, <2>1, <2>4, StartOwed DEF dtlsVars
  <2> QED
    BY <2>2, <2>3, <2>4 DEF Petition, SendPetition
<1>5. CASE \E c \in Calls : Request(c)
  BY <1>0, <1>5, StartOwed DEF Request, dtlsVars
<1>6. CASE \E c \in Calls : Resign(c)
  <2> PICK c \in Calls : Resign(c)
    BY <1>6
  <2>1. Ask(c, "resign")
    BY DEF Resign
  <2>2. CASE \E k \in KeepAlives : Disconnect({k}, {c, k}, FALSE)
    <3> PICK k \in KeepAlives : Disconnect({k}, {c, k}, FALSE)
      BY <2>2
    <3>1. {k} \cap Calls = {} /\ {c, k} \cap Calls = {c}
      BY ImplAssumption
    <3> QED
      BY <1>0, <2>1, <3>1, DisconnectOwed
  <2>3. CASE Disconnect({}, {c}, FALSE)
    <3>1. {} \cap Calls = {} /\ {c} \cap Calls = {c}
      OBVIOUS
    <3> QED
      BY <1>0, <2>1, <2>3, <3>1, DisconnectOwed
  <2> QED
    BY <2>2, <2>3 DEF Resign
<1>7. CASE UserDisconnect
  <2>1. {} \cap Calls = {}
    OBVIOUS
  <2> QED
    BY <1>0, <1>7, <2>1, DisconnectOwed DEF UserDisconnect
<1>8. CASE CancelRequests
  <2>1. CASE Disconnect({}, {}, FALSE) /\ asked' = asked
    <3>1. {} \cap Calls = {}
      OBVIOUS
    <3> QED
      BY <1>0, <2>1, <3>1, DisconnectOwed
  <2>2. CASE Handle({}, pending) /\ pending' = {} /\ UNCHANGED <<dtlsVars, asked>>
    BY <1>0, <2>2, FinalisedOwed
  <2> QED
    BY <1>8, <2>1, <2>2 DEF CancelRequests
<1>9. CASE HandshakeSucceeds \/ SessionFails
  BY <1>0, <1>9, HandshakeOwed
<1>10. CASE SocketGone
  BY <1>10 DEF SocketGone, HandlerOwed
<1>11. CASE \E c \in Calls : PetitionAccepted(c) \/ PetitionFails(c) \/ RequestDone(c)
  <2> PICK c \in Calls : PetitionAccepted(c) \/ PetitionFails(c) \/ RequestDone(c)
    BY <1>11
  <2>1. /\ c \in pending /\ pending' = pending \ {c} /\ Handle({}, {c})
        /\ UNCHANGED <<dtlsVars, asked>>
    BY DEF PetitionAccepted, PetitionFails, RequestDone, Petitions
  <2> QED
    BY <1>0, <2>1, FinalisedOwed
<1>12. CASE \E k \in KeepAlives : KeepAliveAccepted(k)
  <2> PICK k \in KeepAlives : KeepAliveAccepted(k)
    BY <1>12
  <2>1. /\ k \in pending /\ pending' = pending \ {k} /\ Handle({}, {k})
        /\ UNCHANGED <<dtlsVars, asked>>
    BY DEF KeepAliveAccepted
  <2> QED
    BY <1>0, <2>1, FinalisedOwed
<1>13. CASE \E k \in KeepAlives : KeepAliveRejected(k)
  <2> PICK k \in KeepAlives : KeepAliveRejected(k)
    BY <1>13
  <2>1. {k} \cap Calls = {} /\ {} \cap Calls = {}
    BY ImplAssumption
  <2> QED
    BY <1>0, <2>1, DisconnectOwed DEF KeepAliveRejected, KeepAliveFails
<1>14. CASE \E k \in KeepAlives : KeepAliveNotRetransmitted(k)
  <2> PICK k \in KeepAlives : KeepAliveNotRetransmitted(k)
    BY <1>14
  <2>1. \A c \in Calls : c # k /\ c # NoTask /\ c \in Tasks
    BY ImplAssumption DEF Tasks
  <2>2. \A c \in Calls : /\ c \in Cancelled => handled'[c] = handled[c] + 1
                         /\ c \notin Cancelled => handled'[c] = handled[c]
    BY <2>1 DEF KeepAliveNotRetransmitted
  <2>3. pending' = {} /\ mOnConnected' = NoTask /\ asked' = asked /\ replaced' = replaced
    BY DEF KeepAliveNotRetransmitted
  <2>4. ASSUME NEW c \in Calls PROVE Owed(c)'
    <3>1. CASE c \in Cancelled
      BY <1>0, <2>1, <2>2, <2>3, <3>1, OnceOwed
    <3>2. CASE c \notin Cancelled
      <4>1. c \notin pending /\ c # mOnConnected
        BY <2>1, <3>2 DEF Cancelled
      <4> QED
        BY <1>0, <2>1, <2>2, <2>3, <3>2, <4>1, SameOwed
    <3> QED
      BY <3>1, <3>2
  <2> QED
    BY <2>4 DEF HandlerOwed
<1>15. CASE SendKeepAlive
  <2>0. asked' = asked
    BY <1>15 DEF SendKeepAlive
  <2>1. CASE Disconnect({}, {}, FALSE)
    <3>1. {} \cap Calls = {}
      OBVIOUS
    <3> QED
      BY <1>0, <2>0, <2>1, <3>1, DisconnectOwed
  <2>2. CASE \E k \in KeepAlives : KeepAliveFails({k}, k)
    <3> PICK k \in KeepAlives : Disconnect({k}, {k}, FALSE)
      BY <2>2 DEF KeepAliveFails
    <3>1. {k} \cap Calls = {}
      BY ImplAssumption
    <3> QED
      BY <1>0, <2>0, <3>1, DisconnectOwed
  <2>3. CASE \E k \in KeepAlives : /\ pending' = pending \cup {k}
                                   /\ Handle({k}, {}) /\ UNCHANGED dtlsVars
    <3> PICK k \in KeepAlives : /\ pending' = pending \cup {k}
                                /\ Handle({k}, {}) /\ UNCHANGED dtlsVars
      BY <2>3
    <3>1. k \notin Calls
      BY ImplAssumption
    <3>2. /\ {} \cap Calls = {} \cap Calls /\ {k} \in SUBSET KeepAlives
          /\ pending' \cap Calls = (pending \ {}) \cap Calls
          /\ {} \in SUBSET pending
      BY <3>1
    <3> QED
      BY <1>0, <2>0, <3>2, FinalisedOwed
  <2> QED
    BY <1>15, <2>1, <2>2, <2>3 DEF SendKeepAlive
<1> QED
  BY <1>3, <1>4, <1>5, <1>6, <1>7, <1>8, <1>9, <1>10, <1>11, <1>12, <1>13, <1>14, <1>15
     DEF Next

(* commissioner.hpp:366, whatever the user calls, and when: until an       *)
(* assertion fails, the handler of every call is called exactly once or is *)
(* owed by exactly one of the DTLS session and the CoAP client, but for    *)
(* that of a call that a later Connect or Petition replaced.               *)
THEOREM HandlersOwed == Spec => []HandlerOwed
<1>1. Init => HandlerOwed
  BY ImplAssumption DEF Init, HandlerOwed, Owed, Cancelled, Tasks
<1>2. Inv /\ HandlerOwed /\ [Next]_vars => Inv' /\ HandlerOwed'
  BY NextInv, NextOwed
<1> QED
  BY <1>1, <1>2, InitInv, PTL DEF Spec

-----------------------------------------------------------------------------
(* The queue holds the last Len(queue) calls pushed, exactly these are     *)
(* queued, and no call is pushed twice.                                    *)
Ran == Len(pushed) - Len(mAsyncRequestQueue)

Ordered ==
    /\ Len(mAsyncRequestQueue) <= Len(pushed)
    /\ \A i \in 1..Len(mAsyncRequestQueue) : mAsyncRequestQueue[i] = pushed[Ran + i]
    /\ \A i \in 1..Len(pushed) :
          /\ call[pushed[i]] # "new"
          /\ call[pushed[i]] = "queued" <=> Ran < i
    /\ \A i, j \in 1..Len(pushed) : pushed[i] = pushed[j] => i = j

(* The request that Invoke has popped is the one that runs.                *)
Popped == loop = "running" => call[request] = "running"

SafeInv == SafeTypeOK /\ Ordered /\ Popped

-----------------------------------------------------------------------------
(* The initial state satisfies the invariant.                              *)
LEMMA InitSafeInv == SafeInit => SafeInv
PROOF
<1> SUFFICES ASSUME SafeInit PROVE SafeInv
  OBVIOUS
<1>1. /\ mAsyncRequestQueue \in Seq(ApiCalls) /\ Len(mAsyncRequestQueue) = 0
      /\ pushed \in Seq(ApiCalls) /\ Len(pushed) = 0
  BY SMT DEF SafeInit
<1>2. SafeTypeOK
  BY <1>1 DEF SafeInit, SafeTypeOK, Progress
<1>3. Ordered
  BY <1>1, SMT DEF Ordered, Ran
<1> QED
  BY <1>2, <1>3 DEF SafeInv, Popped, SafeInit

(* PushAsyncRequest keeps the queue a suffix of the calls pushed.          *)
LEMMA PushInv ==
  ASSUME SafeInv, NEW c \in ApiCalls, NEW k \in {"sync", "async", "cancel", "stop"},
         PushAsyncRequest(c, k)
  PROVE  /\ call' \in [ApiCalls -> Progress]
         /\ kind' \in [ApiCalls -> {"none", "sync", "async", "cancel", "stop"}]
         /\ mAsyncRequestQueue' \in Seq(ApiCalls)
         /\ active' \in BOOLEAN
         /\ pushed' \in Seq(ApiCalls)
         /\ Ordered'
         /\ UNCHANGED <<loop, request>> => Popped'
PROOF
<1>0. SafeTypeOK /\ Ordered
  BY DEF SafeInv
<1>1. /\ call' \in [ApiCalls -> Progress]
      /\ kind' \in [ApiCalls -> {"none", "sync", "async", "cancel", "stop"}]
      /\ mAsyncRequestQueue' \in Seq(ApiCalls)
      /\ active' \in BOOLEAN
      /\ pushed' \in Seq(ApiCalls)
  BY <1>0, SMT DEF PushAsyncRequest, SafeTypeOK, Progress
<1>2. /\ mAsyncRequestQueue \in Seq(ApiCalls) /\ pushed \in Seq(ApiCalls)
      /\ Len(mAsyncRequestQueue) \in Nat /\ Len(pushed) \in Nat
  BY <1>0, SMT DEF SafeTypeOK
<1>3. /\ Len(mAsyncRequestQueue') = Len(mAsyncRequestQueue) + 1
      /\ mAsyncRequestQueue'[Len(mAsyncRequestQueue) + 1] = c
      /\ \A i \in 1..Len(mAsyncRequestQueue) :
            mAsyncRequestQueue'[i] = mAsyncRequestQueue[i]
  BY <1>2, SMT DEF PushAsyncRequest
<1>4. /\ Len(pushed') = Len(pushed) + 1
      /\ pushed'[Len(pushed) + 1] = c
      /\ \A i \in 1..Len(pushed) : pushed'[i] = pushed[i]
  BY <1>2, SMT DEF PushAsyncRequest
<1>5. Ran' = Ran /\ Ran \in Nat
  BY <1>0, <1>2, <1>3, <1>4, SMT DEF Ran, Ordered
<1>6. \A i \in 1..Len(pushed) : pushed[i] \in ApiCalls /\ pushed[i] # c
  BY <1>0, <1>2, SMT DEF Ordered, PushAsyncRequest
<1>7. Len(mAsyncRequestQueue') <= Len(pushed')
  BY <1>0, <1>2, <1>3, <1>4, SMT DEF Ordered
<1>8. \A i \in 1..Len(mAsyncRequestQueue') :
         mAsyncRequestQueue'[i] = pushed'[Ran' + i]
  <2> SUFFICES ASSUME NEW i \in 1..Len(mAsyncRequestQueue')
               PROVE  mAsyncRequestQueue'[i] = pushed'[Ran + i]
    BY <1>5
  <2>1. CASE i \in 1..Len(mAsyncRequestQueue)
    <3>1. Ran + i \in 1..Len(pushed)
      BY <1>2, <1>5, <2>1, SMT DEF Ran
    <3> QED
      BY <1>0, <1>3, <1>4, <2>1, <3>1 DEF Ordered
  <2>2. CASE i = Len(mAsyncRequestQueue) + 1
    <3>1. Ran + i = Len(pushed) + 1
      BY <1>2, <2>2, SMT DEF Ran
    <3> QED
      BY <1>3, <1>4, <2>2, <3>1
  <2> QED
    BY <1>2, <1>3, <2>1, <2>2, SMT
<1>9. \A i \in 1..Len(pushed') :
         /\ call'[pushed'[i]] # "new"
         /\ call'[pushed'[i]] = "queued" <=> Ran' < i
  <2> SUFFICES ASSUME NEW i \in 1..Len(pushed')
               PROVE  /\ call'[pushed'[i]] # "new"
                      /\ call'[pushed'[i]] = "queued" <=> Ran < i
    BY <1>5
  <2>1. call'[c] = "queued" /\ \A d \in ApiCalls \ {c} : call'[d] = call[d]
    BY <1>0 DEF PushAsyncRequest, SafeTypeOK
  <2>2. CASE i \in 1..Len(pushed)
    BY <1>0, <1>4, <1>6, <2>1, <2>2, SMT DEF Ordered
  <2>3. CASE i = Len(pushed) + 1
    <3>1. Ran < i
      BY <1>2, <2>3, SMT DEF Ran
    <3> QED
      BY <1>4, <2>1, <2>3, <3>1
  <2> QED
    BY <1>2, <1>4, <2>2, <2>3, SMT
<1>10. \A i, j \in 1..Len(pushed') : pushed'[i] = pushed'[j] => i = j
  <2> SUFFICES ASSUME NEW i \in 1..Len(pushed'), NEW j \in 1..Len(pushed'),
                      pushed'[i] = pushed'[j]
               PROVE  i = j
    OBVIOUS
  <2>1. /\ i \in 1..Len(pushed) \/ i = Len(pushed) + 1
        /\ j \in 1..Len(pushed) \/ j = Len(pushed) + 1
    BY <1>2, <1>4, SMT
  <2> QED
    BY <1>0, <1>4, <1>6, <2>1, SMT DEF Ordered
<1>11. UNCHANGED <<loop, request>> => Popped'
  BY <1>0 DEF SafeInv, SafeTypeOK, Popped, PushAsyncRequest
<1> QED
  BY <1>1, <1>7, <1>8, <1>9, <1>10, <1>11 DEF Ordered

(* A step that moves calls on, none of them out of or into the queue,      *)
(* keeps the order.                                                        *)
LEMMA ProgressInv ==
  ASSUME SafeInv, UNCHANGED <<mAsyncRequestQueue, pushed>>,
         \A c \in ApiCalls : /\ call'[c] = "new" <=> call[c] = "new"
                             /\ call'[c] = "queued" <=> call[c] = "queued"
  PROVE  Ordered'
PROOF
<1>1. \A i \in 1..Len(pushed) : pushed[i] \in ApiCalls
  BY SMT DEF SafeInv, SafeTypeOK
<1>2. /\ Ran' = Ran /\ pushed' = pushed
      /\ mAsyncRequestQueue' = mAsyncRequestQueue
  BY DEF Ran
<1>3. \A i \in 1..Len(pushed) :
         /\ call'[pushed[i]] # "new"
         /\ call'[pushed[i]] = "queued" <=> Ran < i
  BY <1>1 DEF SafeInv, Ordered
<1> QED
  BY <1>2, <1>3, SMT DEF SafeInv, Ordered

(* PopAsyncRequest takes the first of the calls not yet run.               *)
LEMMA PopInv == SafeInv /\ PopAsyncRequest => SafeInv'
PROOF
<1> SUFFICES ASSUME SafeInv, PopAsyncRequest PROVE SafeInv'
  OBVIOUS
<1>0. SafeTypeOK /\ Ordered
  BY DEF SafeInv
<1>1. CASE mAsyncRequestQueue = <<>>
  BY <1>0, <1>1 DEF PopAsyncRequest, SafeInv, SafeTypeOK, Ordered, Ran, Popped
<1>2. CASE mAsyncRequestQueue # <<>>
  <2> DEFINE q == mAsyncRequestQueue
             c == Head(q)
  <2>1. /\ q \in Seq(ApiCalls) /\ pushed \in Seq(ApiCalls)
        /\ Len(q) \in Nat \ {0} /\ Len(pushed) \in Nat
    BY <1>0, <1>2, SMT DEF SafeTypeOK
  <2>2. c \in ApiCalls /\ c = q[1]
    BY <1>2, <2>1, SMT
  <2>3. /\ Len(Tail(q)) = Len(q) - 1
        /\ \A i \in 1..Len(Tail(q)) : Tail(q)[i] = q[i + 1]
        /\ Tail(q) \in Seq(ApiCalls)
    BY <1>2, <2>1, SMT
  <2>4. /\ mAsyncRequestQueue' = Tail(q) /\ pushed' = pushed
        /\ call' = [call EXCEPT ![c] = "running"]
        /\ request' = c /\ loop' = "running"
        /\ UNCHANGED <<kind, active, waits, pushed>>
    BY <1>2 DEF PopAsyncRequest
  <2>5. SafeTypeOK'
    BY <1>0, <2>2, <2>3, <2>4, SafeAssumption DEF SafeTypeOK, Progress
  <2>6. Ran' = Ran + 1 /\ Ran \in Nat /\ Ran + 1 <= Len(pushed)
    BY <1>0, <2>1, <2>3, <2>4, SMT DEF Ran, Ordered
  <2>7. c = pushed[Ran + 1]
    BY <1>0, <2>1, <2>2, SMT DEF Ordered
  <2>8. Len(mAsyncRequestQueue') <= Len(pushed')
    BY <1>0, <2>1, <2>3, <2>4, SMT DEF Ordered
  <2>9. \A i \in 1..Len(mAsyncRequestQueue') :
           mAsyncRequestQueue'[i] = pushed'[Ran' + i]
    <3> SUFFICES ASSUME NEW i \in 1..Len(Tail(q))
                 PROVE  Tail(q)[i] = pushed[Ran + 1 + i]
      BY <2>4, <2>6
    <3>1. i + 1 \in 1..Len(q) /\ Ran + 1 + i = Ran + (i + 1)
      BY <2>1, <2>3, <2>6, SMT
    <3> QED
      BY <1>0, <2>3, <3>1 DEF Ordered
  <2>10. \A i \in 1..Len(pushed') :
            /\ call'[pushed'[i]] # "new"
            /\ call'[pushed'[i]] = "queued" <=> Ran' < i
    <3> SUFFICES ASSUME NEW i \in 1..Len(pushed)
                 PROVE  /\ call'[pushed[i]] # "new"
                        /\ call'[pushed[i]] = "queued" <=> Ran + 1 < i
      BY <2>4, <2>6
    <3>1. call'[c] = "running" /\ \A d \in ApiCalls \ {c} : call'[d] = call[d]
      BY <1>0, <2>2, <2>4 DEF SafeTypeOK
    <3>2. pushed[i] \in ApiCalls
      BY <2>1, SMT
    <3>3. Ran + 1 \in 1..Len(pushed)
      BY <2>1, <2>6, SMT
    <3>4. CASE i = Ran + 1
      BY <2>6, <2>7, <3>1, <3>4, SMT
    <3>5. CASE i # Ran + 1
      <4>1. pushed[i] # c
        BY <1>0, <2>7, <3>3, <3>5 DEF Ordered
      <4>2. Ran < i <=> Ran + 1 < i
        BY <2>1, <2>6, <3>5, SMT
      <4> QED
        BY <1>0, <3>1, <3>2, <4>1, <4>2 DEF Ordered
    <3> QED
      BY <3>4, <3>5
  <2>11. \A i, j \in 1..Len(pushed') : pushed'[i] = pushed'[j] => i = j
    BY <1>0, <2>4 DEF Ordered
  <2>12. Ordered'
    BY <2>8, <2>9, <2>10, <2>11 DEF Ordered
  <2>13. Popped'
    BY <1>0, <2>2, <2>4 DEF Popped, SafeTypeOK
  <2> QED
    BY <2>5, <2>12, <2>13 DEF SafeInv
<1> QED
  BY <1>1, <1>2

(* Every step keeps the invariant.                                         *)
LEMMA NextSafeInv == SafeInv /\ [SafeNext]_safeVars => SafeInv'
PROOF
<1> SUFFICES ASSUME SafeInv, [SafeNext]_safeVars PROVE SafeInv'
  OBVIOUS
<1>0. SafeTypeOK /\ Ordered /\ Popped
  BY DEF SafeInv
<1>1. CASE UNCHANGED safeVars
  BY <1>0, <1>1 DEF SafeInv, SafeTypeOK, Ordered, Ran, Popped, safeVars
<1>2. CASE \E t \in Threads, c \in ApiCalls, k \in ThreadKinds : UserCalls(t, c, k)
  <2> PICK t \in Threads, c \in ApiCalls, k \in ThreadKinds : UserCalls(t, c, k)
    BY <1>2
  <2>1. PushAsyncRequest(c, k) /\ k \in {"sync", "async", "cancel", "stop"}
    BY SafeAssumption DEF UserCalls
  <2> QED
    BY <1>0, <2>1, PushInv DEF UserCalls, SafeInv, SafeTypeOK
<1>3. CASE \E t \in Threads, c \in ApiCalls : StopEventLoopThread(t, c)
  <2> PICK t \in Threads, c \in ApiCalls : StopEventLoopThread(t, c)
    BY <1>3
  <2>1. PushAsyncRequest(c, "stop")
    BY DEF StopEventLoopThread
  <2> QED
    BY <1>0, <2>1, PushInv DEF StopEventLoopThread, SafeInv, SafeTypeOK
<1>4. CASE \E t \in Threads : CallReturns(t)
  BY <1>0, <1>4, SMT DEF CallReturns, SafeInv, SafeTypeOK, Ordered, Ran, Popped
<1>5. CASE \E c \in ApiCalls : Complete(c)
  <2> PICK c \in ApiCalls : Complete(c)
    BY <1>5
  <2>1. SafeTypeOK'
    BY <1>0 DEF Complete, SafeTypeOK, Progress, AfterHandler
  <2>2. \A d \in ApiCalls : /\ call'[d] = "new" <=> call[d] = "new"
                            /\ call'[d] = "queued" <=> call[d] = "queued"
    BY <1>0 DEF Complete, SafeTypeOK, Outstanding
  <2>3. Popped'
    BY <1>0 DEF Complete, Popped, AfterHandler
  <2> QED
    BY <2>1, <2>2, <2>3, ProgressInv DEF Complete, SafeInv
<1>6. CASE \E c \in ApiCalls : HandlerCalls(c)
  <2> PICK c \in ApiCalls : HandlerCalls(c)
    BY <1>6
  <2>1. PushAsyncRequest(c, "async")
    BY DEF HandlerCalls
  <2> QED
    BY <1>0, <2>1, PushInv DEF HandlerCalls, SafeInv, SafeTypeOK
<1>7. CASE EventFires \/ HandlerReturns \/ DayPasses \/ OnDatasetChanged
  BY <1>0, <1>7 DEF EventFires, HandlerReturns, DayPasses, OnDatasetChanged,
                    SafeInv, SafeTypeOK, Ordered, Ran, Popped
<1>8. CASE PopAsyncRequest
  BY <1>8, PopInv
<1>9. CASE Invoke
  <2>0. request \in ApiCalls
    BY <1>0, <1>9 DEF Invoke, SafeTypeOK
  <2>1. /\ call' \in [ApiCalls -> Progress]
        /\ loop' \in {"waiting", "handling", "broken"}
    <3>1. CASE kind[request] = "stop"
      BY <1>0, <1>9, <2>0, <3>1 DEF Invoke, SafeTypeOK, Progress
    <3>2. CASE kind[request] = "cancel"
      BY <1>0, <1>9, <2>0, <3>2 DEF Invoke, SafeTypeOK, Progress, AfterHandler
    <3>3. CASE kind[request] \notin {"stop", "cancel"}
      BY <1>0, <1>9, <2>0, <3>3 DEF Invoke, SafeTypeOK, Progress, AfterHandler
    <3> QED
      BY <3>1, <3>2, <3>3
  <2>2. SafeTypeOK'
    BY <1>0, <1>9, <2>1 DEF Invoke, SafeTypeOK
  <2>3. call[request] = "running"
    BY <1>0, <1>9 DEF Invoke, Popped
  <2>4. \A d \in ApiCalls : /\ call'[d] = "new" <=> call[d] = "new"
                            /\ call'[d] = "queued" <=> call[d] = "queued"
    <3>1. CASE kind[request] = "stop"
      BY <1>0, <1>9, <2>0, <2>3, <3>1 DEF Invoke, SafeTypeOK
    <3>2. CASE kind[request] = "cancel"
      BY <1>0, <1>9, <2>0, <2>3, <3>2 DEF Invoke, SafeTypeOK, Outstanding
    <3>3. CASE kind[request] \notin {"stop", "cancel"}
      BY <1>0, <1>9, <2>0, <2>3, <3>3 DEF Invoke, SafeTypeOK
    <3> QED
      BY <3>1, <3>2, <3>3
  <2>5. Ordered'
    BY <1>9, <2>4, ProgressInv DEF Invoke
  <2> QED
    BY <2>1, <2>2, <2>5 DEF SafeInv, Popped
<1> QED
  BY <1>1, <1>2, <1>3, <1>4, <1>5, <1>6, <1>7, <1>8, <1>9 DEF SafeNext
(* commissioner_safe.cpp: for every set of threads and calls, and whatever *)
(* handlers call, the state of the queue is well typed and Invoke never    *)
(* calls an empty request.                                                 *)
THEOREM SafeTypeCorrect == SafeSpec => []SafeTypeOK
<1>1. SafeInv => SafeTypeOK
  BY DEF SafeInv
<1> QED
  BY <1>1, InitSafeInv, NextSafeInv, PTL DEF SafeSpec

(* PopAsyncRequest: every call is run after the calls made before it.      *)
THEOREM ServedInOrder == SafeSpec => []InOrder
<1>1. SafeInv => InOrder
  <2> SUFFICES ASSUME SafeInv, NEW i \in 1..Len(pushed), NEW j \in 1..Len(pushed),
                      i < j, call[pushed[i]] = "queued"
               PROVE  call[pushed[j]] = "queued"
    BY DEF InOrder
  <2>1. Ran \in Int
    BY SMT DEF SafeInv, SafeTypeOK, Ran
  <2>2. Ran < j
    BY <2>1, SMT DEF SafeInv, Ordered
  <2> QED
    BY <2>2 DEF SafeInv, Ordered
<1> QED
  BY <1>1, InitSafeInv, NextSafeInv, PTL DEF SafeSpec
-----------------------------------------------------------------------------
(* One user thread, only synchronous calls, no calls from handlers: the    *)
(* use the class comment of CommissionerSafe describes.                    *)
OneSyncUser(t) ==
    /\ Threads = {t}
    /\ ThreadKinds \subseteq {"sync"}
    /\ HandlersCall = FALSE

(* The queue holds at most the call the thread waits for, and then the     *)
(* event is active or about to pop it.                                     *)
OneQueued(t) ==
    /\ loop # "handling"
    /\ mAsyncRequestQueue # <<>> =>
          /\ waits[t] \in ApiCalls
          /\ mAsyncRequestQueue = <<waits[t]>>
          /\ call[waits[t]] = "queued"
          /\ active \/ loop \in {"invoking", "broken"}
    /\ loop = "running" => mAsyncRequestQueue = <<>> /\ request = waits[t]

(* A push by the waiting-free thread is the only request queued.           *)
LEMMA OnePush ==
  ASSUME NEW t, OneSyncUser(t), SafeInv, OneQueued(t), waits[t] = NoCall,
         NEW c \in ApiCalls, NEW k, PushAsyncRequest(c, k),
         waits' = [waits EXCEPT ![t] = c], UNCHANGED <<loop, request>>
  PROVE  OneQueued(t)'
PROOF
<1>1. waits \in [{t} -> ApiCalls \cup {NoCall}] /\ call \in [ApiCalls -> Progress]
  BY DEF OneSyncUser, SafeInv, SafeTypeOK
<1>2. mAsyncRequestQueue = <<>>
  BY SafeAssumption DEF OneQueued
<1>3. loop # "running"
  BY DEF OneQueued, SafeInv, SafeTypeOK
<1>4. mAsyncRequestQueue' = <<c>>
  BY <1>2, SMT DEF PushAsyncRequest
<1>5. waits'[t] = c /\ call'[c] = "queued" /\ active' = TRUE
  BY <1>1 DEF PushAsyncRequest
<1> QED
  BY <1>3, <1>4, <1>5 DEF OneQueued

(* The strengthening is preserved by every step.                           *)
LEMMA OneNext ==
  ASSUME NEW t, OneSyncUser(t), SafeInv, OneQueued(t), [SafeNext]_safeVars
  PROVE  OneQueued(t)'
PROOF
<1>0. /\ waits \in [{t} -> ApiCalls \cup {NoCall}] /\ call \in [ApiCalls -> Progress]
      /\ AfterHandler = {"waiting"}
  BY DEF OneSyncUser, SafeInv, SafeTypeOK, AfterHandler
<1>1. CASE UNCHANGED safeVars
  BY <1>1 DEF OneQueued, safeVars
<1>2. CASE \E u \in Threads, c \in ApiCalls, k \in ThreadKinds : UserCalls(u, c, k)
  <2> PICK c \in ApiCalls : UserCalls(t, c, "sync")
    BY <1>2 DEF OneSyncUser
  <2> QED
    BY OnePush DEF UserCalls
<1>3. CASE \E u \in Threads, c \in ApiCalls : StopEventLoopThread(u, c)
  <2> PICK c \in ApiCalls : StopEventLoopThread(t, c)
    BY <1>3 DEF OneSyncUser
  <2>1. waits[t] = NoCall
    BY DEF StopEventLoopThread, OneSyncUser
  <2> QED
    BY <2>1, OnePush DEF StopEventLoopThread
<1>4. CASE \E u \in Threads : CallReturns(u)
  <2>1. CallReturns(t)
    BY <1>4 DEF OneSyncUser
  <2>2. mAsyncRequestQueue = <<>>
    BY <2>1 DEF CallReturns, OneQueued
  <2>3. loop # "running"
    BY <2>1 DEF CallReturns, OneQueued, SafeInv, Popped
  <2> QED
    BY <2>1, <2>2, <2>3 DEF CallReturns, OneQueued
<1>5. CASE \E c \in ApiCalls : Complete(c)
  <2> PICK c \in ApiCalls : Complete(c)
    BY <1>5
  <2>1. loop' = "waiting" /\ loop = "waiting"
    BY <1>0 DEF Complete
  <2>2. \A d \in ApiCalls : call[d] = "queued" => call'[d] = "queued"
    BY <1>0 DEF Complete, Outstanding
  <2> QED
    BY <2>1, <2>2 DEF Complete, OneQueued
<1>6. CASE \E c \in ApiCalls : HandlerCalls(c)
  BY <1>6 DEF HandlerCalls, OneQueued
<1>7. CASE EventFires \/ HandlerReturns \/ DayPasses \/ OnDatasetChanged
  BY <1>7 DEF EventFires, HandlerReturns, DayPasses, OnDatasetChanged, OneQueued,
              OneSyncUser
<1>8. CASE PopAsyncRequest
  <2>1. CASE mAsyncRequestQueue = <<>>
    BY <1>8, <2>1 DEF PopAsyncRequest, OneQueued
  <2>2. CASE mAsyncRequestQueue # <<>>
    <3>1. mAsyncRequestQueue = <<waits[t]>>
      BY <2>2 DEF OneQueued
    <3>2. Tail(mAsyncRequestQueue) = <<>> /\ Head(mAsyncRequestQueue) = waits[t]
      BY <3>1, SMT
    <3>3. /\ mAsyncRequestQueue' = <<>> /\ request' = waits[t]
          /\ loop' = "running" /\ waits' = waits
      BY <1>8, <2>2, <3>2 DEF PopAsyncRequest
    <3> QED
      BY <3>3 DEF OneQueued
  <2> QED
    BY <2>1, <2>2
<1>9. CASE Invoke
  <2>1. mAsyncRequestQueue' = <<>>
    BY <1>9 DEF Invoke, OneQueued
  <2>2. loop' \in {"waiting", "broken"}
    <3>1. CASE kind[request] = "stop"
      BY <1>9, <3>1 DEF Invoke
    <3>2. CASE kind[request] = "cancel"
      BY <1>0, <1>9, <3>2 DEF Invoke
    <3>3. CASE kind[request] \notin {"stop", "cancel"}
      BY <1>0, <1>9, <3>3 DEF Invoke
    <3> QED
      BY <3>1, <3>2, <3>3
  <2> QED
    BY <2>1, <2>2 DEF OneQueued
<1> QED
  BY <1>1, <1>2, <1>3, <1>4, <1>5, <1>6, <1>7, <1>8, <1>9 DEF SafeNext

(* commissioner_safe.hpp:218 for the use its class comment describes: with *)
(* one user thread and synchronous calls only, a callback is due whenever  *)
(* a request is queued.                                                    *)
THEOREM SyncUserNotified ==
  ASSUME NEW t, OneSyncUser(t)
  PROVE  SafeSpec => []Notified
<1>1. SafeInit => OneQueued(t)
  BY DEF SafeInit, OneQueued
<1>2. SafeInv /\ OneQueued(t) /\ [SafeNext]_safeVars => SafeInv' /\ OneQueued(t)'
  BY OneNext, NextSafeInv
<1>3. OneQueued(t) => Notified
  BY DEF OneQueued, Notified
<1> QED
  BY <1>1, <1>2, <1>3, InitSafeInv, PTL DEF SafeSpec
=============================================================================
