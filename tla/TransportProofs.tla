-------------------------- MODULE TransportProofs --------------------------
(***************************************************************************)
(* Proofs about the parts below the commissioner: what a DTLS session does *)
(* with its handler, its timer and its queue (DtlsSession), which requests *)
(* a CoAP server handles and answers from its cache (CoapServer), and what *)
(* becomes of the handlers, of the registrar's session and of the token of *)
(* a program that asks for one (TokenManager).                             *)
(***************************************************************************)
EXTENDS DtlsSession, CoapServer, TokenManager, WellFoundedInduction, TLAPS

(* Most leaves are first-order and set reasoning, which is Zenon's; those  *)
(* that need arithmetic, records or functions cite SMT.                    *)
USE Zenon

-----------------------------------------------------------------------------
(* The queues of a DTLS session and of an endpoint, as sequences.          *)

(* The length and the elements of a sequence: the queue of a session, the  *)
(* cache of an endpoint.                                                   *)
LEMMA SeqAt ==
    ASSUME NEW X, NEW s \in Seq(X)
    PROVE  /\ Len(s) \in Nat /\ DOMAIN s = 1..Len(s) /\ \A i \in 1..Len(s) : s[i] \in X
  BY SMT

(* A sequence is one over any set that holds its elements.                 *)
LEMMA Resequence ==
    ASSUME NEW X, NEW s \in Seq(X), NEW Y, \A i \in 1..Len(s) : s[i] \in Y PROVE s \in Seq(Y)
  BY SMT

(* The elements of a part of a queue.                                      *)
LEMMA SubSeqAt ==
    ASSUME NEW X, NEW s \in Seq(X), NEW i \in Nat, NEW j \in Nat, 0 < i, i <= j + 1, j <= Len(s)
    PROVE  /\ SubSeq(s, i, j) \in Seq(X) /\ Len(SubSeq(s, i, j)) = j + 1 - i
           /\ \A k \in 1..j + 1 - i : SubSeq(s, i, j)[k] = s[i + k - 1]
  BY SMT

(* The elements of two queues, one behind the other.                       *)
LEMMA ConcatAt ==
    ASSUME NEW X, NEW a \in Seq(X), NEW b \in Seq(X)
    PROVE  /\ a \o b \in Seq(X) /\ Len(a \o b) = Len(a) + Len(b)
           /\ \A k \in 1..Len(a) + Len(b) :
                 (a \o b)[k] = IF k <= Len(a) THEN a[k] ELSE b[k - Len(a)]
  BY SMT

(* std::vector::push_back and std::deque::push_back: one more element, the *)
(* others stay.                                                            *)
LEMMA AppendAt ==
    ASSUME NEW X, NEW s \in Seq(X), NEW x \in X
    PROVE  /\ Append(s, x) \in Seq(X) /\ Len(Append(s, x)) = Len(s) + 1
           /\ \A i \in 1..Len(s) : Append(s, x)[i] = s[i]
           /\ Append(s, x)[Len(s) + 1] = x
           /\ Append(s, x) = s \o <<x>>
  BY SMT

(* An empty queue adds nothing.                                            *)
LEMMA ConcatNothing == ASSUME NEW X, NEW s \in Seq(X) PROVE s \o <<>> = s
  BY SMT

(* A queue cut in two is its front and then its rest.                      *)
LEMMA CutInTwo ==
    ASSUME NEW X, NEW q \in Seq(X), NEW k \in 0..Len(q)
    PROVE  /\ SubSeq(q, 1, k) \in Seq(X) /\ SubSeq(q, k + 1, Len(q)) \in Seq(X)
           /\ SubSeq(q, 1, k) \o SubSeq(q, k + 1, Len(q)) = q
<1> DEFINE n == Len(q)
           a == SubSeq(q, 1, k)
           b == SubSeq(q, k + 1, n)
<1>1. n \in Nat /\ k \in Nat /\ k <= n /\ q \in Seq(X)
  BY SMT
<1> HIDE DEF n
<1>2. a \in Seq(X) /\ Len(a) = k /\ \A i \in 1..k : a[i] = q[i]
  BY <1>1, SubSeqAt, SMT DEF n
<1>3. b \in Seq(X) /\ Len(b) = n - k /\ \A i \in 1..n - k : b[i] = q[k + i]
  BY <1>1, SubSeqAt, SMT DEF n
<1> DEFINE c == a \o b
<1> HIDE DEF a, b
<1>4. c \in Seq(X) /\ Len(c) = n /\ \A i \in 1..n : c[i] = q[i]
  <2>1. /\ c \in Seq(X) /\ Len(c) = Len(a) + Len(b)
        /\ \A i \in 1..Len(a) + Len(b) : c[i] = IF i <= Len(a) THEN a[i] ELSE b[i - Len(a)]
    BY <1>2, <1>3, ConcatAt
  <2> HIDE DEF c
  <2>2. Len(a) + Len(b) = n
    BY <1>1, <1>2, <1>3, SMT
  <2>3. ASSUME NEW i \in 1..n PROVE c[i] = q[i]
    <3>1. CASE i <= k
      BY <1>1, <1>2, <2>1, <2>2, <3>1, SMT
    <3>2. CASE ~(i <= k)
      <4>1. i - k \in 1..n - k /\ k + (i - k) = i
        BY <1>1, <3>2, SMT
      <4>2. c[i] = b[i - k]
        BY <1>2, <2>1, <2>2, <3>2
      <4> QED BY <1>3, <4>1, <4>2
    <3> QED BY <3>1, <3>2
  <2> QED BY <2>1, <2>2, <2>3
<1> HIDE DEF c
<1>5. c = q
  BY <1>1, <1>4, SMT DEF n
<1> QED BY <1>2, <1>3, <1>5 DEF a, b, c, n

-----------------------------------------------------------------------------
(* The messages of a DTLS session.                                         *)

(* Messages queued one after the other: appending is associative.          *)
LEMMA Associative == \A a, b, c \in Seq(Nat) : (a \o b) \o c = a \o (b \o c)
  BY SMT

(* t is w and then q.                                                      *)
InLine(t, w, q) == t \in Seq(Nat) /\ w \in Seq(Nat) /\ q \in Seq(Nat) /\ t = w \o q

(* The next message is put after what is queued, or, with nothing queued,  *)
(* after what is written.                                                  *)
LEMMA LastInLine ==
    ASSUME NEW t, NEW w, NEW q, InLine(t, w, q), NEW m \in Nat
    PROVE  /\ InLine(Append(t, m), w, Append(q, m))
           /\ q = <<>> => InLine(Append(t, m), Append(w, m), q)
<1>0. t \in Seq(Nat) /\ w \in Seq(Nat) /\ q \in Seq(Nat) /\ t = w \o q
  BY DEF InLine
<1>1. Append(t, m) \in Seq(Nat) /\ Append(q, m) \in Seq(Nat) /\ Append(w, m) \in Seq(Nat)
  BY <1>0, AppendAt
<1> DEFINE e == <<m>>
<1>3. e \in Seq(Nat)
  BY SMT
<1>4. Append(t, m) = t \o e /\ Append(q, m) = q \o e
  BY <1>0, AppendAt, SMT
<1> HIDE DEF e
<1>5. (w \o q) \o e = w \o (q \o e)
  BY <1>0, <1>3, Associative
<1>6. Append(w, m) \o <<>> = Append(w, m)
  BY <1>1, ConcatNothing
<1>7. q = <<>> => t = w
  BY <1>0, ConcatNothing
<1>8. Append(t, m) = w \o Append(q, m)
  BY <1>0, <1>4, <1>5
<1>9. q = <<>> => Append(t, m) = Append(w, m) \o q
  BY <1>6, <1>7
<1> QED BY <1>0, <1>1, <1>8, <1>9 DEF InLine

(* The queue, cut in two, keeps the line.                                  *)
LEMMA FrontGoesFirst ==
    ASSUME NEW t, NEW w, NEW q, InLine(t, w, q), NEW k \in 0..Len(q)
    PROVE  InLine(t, w \o SubSeq(q, 1, k), SubSeq(q, k + 1, Len(q)))
<1> DEFINE first == SubSeq(q, 1, k)
           rest == SubSeq(q, k + 1, Len(q))
<1>1. t = w \o q
  BY DEF InLine
<1>2. t \in Seq(Nat) /\ w \in Seq(Nat) /\ q \in Seq(Nat)
  BY DEF InLine
<1>3. first \o rest = q
  BY <1>2, CutInTwo
<1>4. first \in Seq(Nat) /\ rest \in Seq(Nat)
  BY <1>2, CutInTwo
<1> HIDE DEF first, rest
<1>5. w \o first \in Seq(Nat)
  BY <1>2, <1>4, SMT
<1>6. (w \o first) \o rest = w \o (first \o rest)
  BY <1>2, <1>4, Associative
<1>7. t = (w \o first) \o rest
  BY <1>1, <1>3, <1>6
<1>8. InLine(t, w \o first, rest)
  BY <1>2, <1>4, <1>5, <1>7 DEF InLine
<1> QED BY <1>8 DEF first, rest

-----------------------------------------------------------------------------
Outputs == [mSendQueue : Seq(Nat), taken : Seq(Nat), wire : Seq(Nat)]

(* What was taken is what was written and then what is queued.             *)
InOrder(o) == o \in Outputs /\ InLine(o.taken, o.wire, o.mSendQueue)

(* DtlsSession::Send, whether it writes, queues or refuses.                *)
LEMMA SendInOrder == ASSUME NEW o, InOrder(o), NEW p \in Send(o) PROVE InOrder(p)
<1> DEFINE m == Len(o.taken) + 1
           t == Append(o.taken, m)
           w == Append(o.wire, m)
           q == Append(o.mSendQueue, m)
<1>1. o \in Outputs /\ InLine(o.taken, o.wire, o.mSendQueue)
  BY DEF InOrder
<1>2. m \in Nat
  <2>1. o.taken \in Seq(Nat)
    BY <1>1 DEF Outputs
  <2>2. Len(o.taken) \in Nat
    BY <2>1, SeqAt
  <2> QED BY <2>2, SMT
<1>3. p = o \/ p = Queued(o, m) \/ (o.mSendQueue = <<>> /\ p = Written(o, m))
  BY DEF Send
<1> HIDE DEF m
<1>4. /\ InLine(t, o.wire, q)
      /\ o.mSendQueue = <<>> => InLine(t, w, o.mSendQueue)
  BY <1>1, <1>2, LastInLine
<1>5. CASE p = Queued(o, m)
  <2>1. p = [o EXCEPT !.taken = t, !.mSendQueue = q]
    BY <1>5 DEF Queued
  <2> HIDE DEF t, q
  <2>2. t \in Seq(Nat) /\ q \in Seq(Nat)
    BY <1>4 DEF InLine
  <2>3. p \in Outputs /\ p.taken = t /\ p.wire = o.wire /\ p.mSendQueue = q
    BY <1>1, <2>1, <2>2 DEF Outputs
  <2> QED BY <1>4, <2>3 DEF InOrder
<1>6. CASE o.mSendQueue = <<>> /\ p = Written(o, m)
  <2>1. p = [o EXCEPT !.taken = t, !.wire = w]
    BY <1>6 DEF Written
  <2> HIDE DEF t, w
  <2>2. t \in Seq(Nat) /\ w \in Seq(Nat)
    BY <1>4, <1>6 DEF InLine
  <2>3. p \in Outputs /\ p.taken = t /\ p.wire = w /\ p.mSendQueue = o.mSendQueue
    BY <1>1, <2>1, <2>2 DEF Outputs
  <2> QED BY <1>4, <1>6, <2>3 DEF InOrder
<1> QED BY <1>3, <1>5, <1>6

(* DtlsSession::TryWrite takes from the front of the queue.                *)
LEMMA TryWriteInOrder == ASSUME NEW o, InOrder(o), NEW p \in TryWrite(o) PROVE InOrder(p)
<1>1. o \in Outputs /\ InLine(o.taken, o.wire, o.mSendQueue)
  BY DEF InOrder
<1>2. PICK k \in 0..Len(o.mSendQueue) :
        p = [o EXCEPT !.wire = @ \o SubSeq(o.mSendQueue, 1, k),
                      !.mSendQueue = SubSeq(@, k + 1, Len(@))]
  BY DEF TryWrite
<1> DEFINE w == o.wire \o SubSeq(o.mSendQueue, 1, k)
           q == SubSeq(o.mSendQueue, k + 1, Len(o.mSendQueue))
<1>3. InLine(o.taken, w, q)
  BY <1>1, FrontGoesFirst
<1>4. p = [o EXCEPT !.wire = w, !.mSendQueue = q]
  BY <1>2
<1> HIDE DEF w, q
<1>5. w \in Seq(Nat) /\ q \in Seq(Nat)
  BY <1>3 DEF InLine
<1>6. p \in Outputs /\ p.taken = o.taken /\ p.wire = w /\ p.mSendQueue = q
  BY <1>1, <1>4, <1>5 DEF Outputs
<1> QED BY <1>3, <1>6 DEF InOrder

(* Handlers that send, and an event on a connected session.                *)
LEMMA ReadAndWriteInOrder ==
    ASSUME NEW o, InOrder(o)
    PROVE  /\ \A p \in HandlerSends(o) : InOrder(p)
           /\ \A p \in ReadAndWrite(o) : InOrder(p)
<1>1. \A p \in HandlerSends(o) : InOrder(p)
  BY SendInOrder DEF HandlerSends
<1>2. ASSUME NEW p \in ReadAndWrite(o) PROVE InOrder(p)
  <2>1. p \in HandlerSends(o) \/ \E r \in HandlerSends(o) : p \in TryWrite(r)
    BY <1>2 DEF ReadAndWrite
  <2> QED BY <1>1, <2>1, TryWriteInOrder
<1> QED BY <1>1, <1>2

-----------------------------------------------------------------------------
SslState ==
    [flight : 0..Flights, retries : 0..Retransmits, over : BOOLEAN, cliId : BOOLEAN]

(* The timer runs only while the session is connecting, or for ever once   *)
(* the process has ended; a session in use has its socket, unless a failed *)
(* Connect has severed it.                                                 *)
States ==
    /\ mState \in {"open", "connecting", "connected", "aborted", "asserted"}
    /\ (mState \in {"connecting", "connected"} /\ ~fd) \/ mState = "aborted" => severed
    /\ fd \in BOOLEAN /\ mHandshakeTimer \in BOOLEAN /\ severed \in BOOLEAN
    /\ mHandshakeTimer => mState \in {"connecting", "aborted", "asserted"}
    /\ mSsl \in SslState /\ mIsClientIdSet = mSsl.cliId

(* The handler that is held was not displaced and has not hung up.          *)
Handlers ==
    /\ session \in 0..MaxSessions /\ mOnConnected \in 0..session
    /\ called \in [1..MaxSessions -> Nat]
    /\ displaced \in SUBSET (1..session) /\ hungUp \in SUBSET (1..session)
    /\ mOnConnected \notin displaced \cup hungUp
    /\ \A s \in 1..MaxSessions : s > session => called[s] = 0

DtlsInv == mIsServer \in BOOLEAN /\ States /\ Handlers /\ HandlerOnce /\ InOrder(out)

(* A DtlsSession as it is constructed.                                     *)
LEMMA DtlsInit == Init => DtlsInv
<1> SUFFICES ASSUME Init PROVE DtlsInv
  OBVIOUS
<1> USE DtlsAssumption DEF Init
<1>1. mIsServer \in BOOLEAN
  OBVIOUS
<1>2. mSsl \in SslState /\ mSsl.cliId = FALSE
  BY SMT DEF SslState, FreshSsl
<1>3. States
  BY <1>1, <1>2 DEF States
<1>4. Handlers /\ HandlerOnce
  <2>1. 1..session = {} /\ session \in 0..MaxSessions /\ mOnConnected \in 0..session
    BY SMT
  <2>2. called \in [1..MaxSessions -> Nat] /\ \A s \in 1..MaxSessions : called[s] = 0
    BY SMT
  <2> QED BY <2>1, <2>2 DEF Handlers, HandlerOnce
<1>5. InOrder(out)
  <2>1. out \in Outputs /\ out.taken = <<>> /\ out.wire = <<>> /\ out.mSendQueue = <<>>
    BY SMT DEF Outputs
  <2>2. InLine(<<>>, <<>>, <<>>)
    BY SMT DEF InLine
  <2> QED BY <2>1, <2>2 DEF InOrder
<1> QED BY <1>1, <1>3, <1>4, <1>5 DEF DtlsInv

(* Nothing is done about the handlers.                                     *)
LEMMA HandlersKept ==
    ASSUME DtlsInv, mState # "asserted", UNCHANGED handlerVars
    PROVE  Handlers' /\ HandlerOnce'
<1>1. UNCHANGED <<mOnConnected, session, called, displaced, hungUp>>
  BY DEF handlerVars
<1>2. Handlers'
  BY <1>1 DEF DtlsInv, Handlers
<1>3. \A s : Due(s)' = Due(s)
  BY <1>1 DEF Due
<1>4. \A s \in 1..session : called[s] = Due(s)
  BY DEF DtlsInv, HandlerOnce
<1>5. HandlerOnce'
  BY <1>1, <1>3, <1>4 DEF HandlerOnce
<1> QED BY <1>2, <1>5

(* A handler that is called n times is one that was not called before.     *)
LEMMA HandlerIsTold ==
    ASSUME Handlers, HandlerOnce, mState # "asserted", mOnConnected # 0, NEW n \in Nat,
           called' = [called EXCEPT ![mOnConnected] = @ + n],
           mOnConnected' = 0, UNCHANGED <<session, displaced>>,
           \/ n = 1 /\ UNCHANGED hungUp
           \/ n = 2 /\ hungUp' = hungUp \cup {mOnConnected}
    PROVE  Handlers' /\ HandlerOnce'
<1>1. /\ session \in 0..MaxSessions /\ mOnConnected \in 0..session
      /\ called \in [1..MaxSessions -> Nat]
      /\ displaced \in SUBSET (1..session) /\ hungUp \in SUBSET (1..session)
      /\ mOnConnected \notin displaced \cup hungUp
      /\ \A s \in 1..MaxSessions : s > session => called[s] = 0
  BY DEF Handlers
<1>2. mOnConnected \in 1..session /\ mOnConnected \in 1..MaxSessions /\ 0 \in 0..session
      /\ ~(mOnConnected > session) /\ 0 \notin 1..session
      /\ \A s \in 1..session : s \in 1..MaxSessions
  BY <1>1, DtlsAssumption, SMT
<1>3. called[mOnConnected] = 0
  BY <1>2 DEF HandlerOnce, Due
<1>4. called'[mOnConnected] = n /\ \A s \in 1..MaxSessions : s # mOnConnected => called'[s] = called[s]
  BY <1>1, <1>2, <1>3, SMT
<1>5. called' \in [1..MaxSessions -> Nat]
  BY <1>1, <1>2, SMT
<1>6. Handlers'
  <2>1. /\ displaced' \in SUBSET (1..session) /\ hungUp' \in SUBSET (1..session)
        /\ 0 \notin displaced' \cup hungUp'
    BY <1>1, <1>2
  <2> QED BY <1>1, <1>2, <1>4, <1>5, <2>1 DEF Handlers
<1>7. HandlerOnce'
  <2>1. ASSUME NEW s \in 1..session PROVE called'[s] = Due(s)'
    <3>1. CASE s = mOnConnected
      <4>1. s # 0 /\ s \notin displaced /\ s \notin hungUp
        BY <1>1, <1>2, <3>1
      <4>2. Due(s)' = n
        BY <3>1, <4>1 DEF Due
      <4> QED BY <1>4, <3>1, <4>2
    <3>2. CASE s # mOnConnected
      <4>1. called'[s] = called[s] /\ called[s] = Due(s) /\ s # 0
        BY <1>2, <1>4, <3>2 DEF HandlerOnce
      <4>2. s \in hungUp' <=> s \in hungUp
        BY <3>2
      <4>3. Due(s)' = Due(s)
        BY <3>2, <4>1, <4>2 DEF Due
      <4> QED BY <4>1, <4>3
    <3> QED BY <3>1, <3>2
  <2> QED BY <2>1 DEF HandlerOnce
<1> QED BY <1>6, <1>7

(* mOnConnected is called once, if there is one.                           *)
LEMMA CallHandlerStep ==
    ASSUME DtlsInv, mState # "asserted", CallHandler
    PROVE  Handlers' /\ HandlerOnce'
<1>1. Handlers /\ HandlerOnce
  BY DEF DtlsInv
<1>2. CASE mOnConnected = 0
  <2>1. UNCHANGED handlerVars
    BY <1>2 DEF CallHandler, handlerVars
  <2> QED BY <2>1, HandlersKept
<1>3. CASE mOnConnected # 0
  <2>1. /\ called' = [called EXCEPT ![mOnConnected] = @ + 1]
        /\ mOnConnected' = 0 /\ UNCHANGED <<session, displaced>> /\ UNCHANGED hungUp
    BY <1>3 DEF CallHandler
  <2>2. 1 \in Nat
    BY SMT
  <2> QED BY <1>1, <1>3, <2>1, <2>2, HandlerIsTold
<1> QED BY <1>2, <1>3

(* mbedtls is reset.                                                       *)
LEMMA ResetStep ==
    ASSUME DtlsInv, NEW state \in {"open", "connecting"}, Reset(state), UNCHANGED <<fd, severed>>,
           state = "connecting" => mState = "connecting"
    PROVE  States'
<1>1. FreshSsl \in SslState /\ FreshSsl.cliId = FALSE
  BY DtlsAssumption, SMT DEF FreshSsl, SslState
<1> QED BY <1>1 DEF Reset, DtlsInv, States

(* DtlsSession::Disconnect leaves a session that can connect again.        *)
LEMMA DisconnectStep ==
    ASSUME DtlsInv, mState # "asserted", Disconnect, InOrder(out'),
           UNCHANGED <<mIsServer, fd, severed>>
    PROVE  DtlsInv'
<1>1. Handlers' /\ HandlerOnce'
  BY CallHandlerStep DEF Disconnect
<1>2. States'
  BY ResetStep DEF Disconnect
<1> QED BY <1>1, <1>2 DEF DtlsInv

(* DtlsSession::Handshake, from an event or from the timer.                *)
LEMMA HandshakeStep ==
    ASSUME DtlsInv, mState = "connecting", NEW s \in SslState, NEW late \in BOOLEAN,
           Handshake(s, late), UNCHANGED <<mIsServer, fd, severed>>
    PROVE  DtlsInv'
<1>0. /\ fd \in BOOLEAN /\ severed \in BOOLEAN /\ mHandshakeTimer \in BOOLEAN
      /\ mIsServer' \in BOOLEAN /\ (~fd => severed)
      /\ Handlers /\ HandlerOnce /\ InOrder(out)
  BY DEF DtlsInv, States
<1>1. CASE HandshakeGoesOn(s, late)
  <2>1. /\ mState' = "connecting" /\ UNCHANGED handlerVars /\ out' = out
        /\ mIsClientIdSet' = s.cliId
    BY <1>1 DEF HandshakeGoesOn
  <2>2. mHandshakeTimer' \in BOOLEAN
    BY <1>0, <1>1 DEF HandshakeGoesOn
  <2>3. mSsl' \in SslState /\ mSsl'.cliId = s.cliId
    <3>1. CASE mSsl' = s
      BY <3>1
    <3>2. CASE s.flight < Flights /\ mSsl' = [s EXCEPT !.flight = @ + 1, !.retries = 0]
      <4>1. s.flight + 1 \in 0..Flights /\ 0 \in 0..Retransmits
        BY <3>2, DtlsAssumption, SMT DEF SslState
      <4> DEFINE f == s.flight + 1
      <4>2. mSsl' = [s EXCEPT !.flight = f, !.retries = 0]
        BY <3>2
      <4> HIDE DEF f
      <4>3. f \in 0..Flights
        BY <4>1 DEF f
      <4> QED BY <4>1, <4>2, <4>3 DEF SslState
    <3>3. CASE s.retries < Retransmits /\ mSsl' = [s EXCEPT !.retries = @ + 1]
      <4>1. s.retries + 1 \in 0..Retransmits
        BY <3>3, DtlsAssumption, SMT DEF SslState
      <4> DEFINE r == s.retries + 1
      <4>2. mSsl' = [s EXCEPT !.retries = r]
        BY <3>3
      <4> HIDE DEF r
      <4>3. r \in 0..Retransmits
        BY <4>1 DEF r
      <4> QED BY <4>2, <4>3 DEF SslState
    <3> QED BY <1>1, <3>1, <3>2, <3>3 DEF HandshakeGoesOn
  <2>4. States'
    BY <1>0, <2>1, <2>2, <2>3 DEF States
  <2>5. Handlers' /\ HandlerOnce' /\ InOrder(out')
    BY <1>0, <2>1, HandlersKept
  <2> QED BY <1>0, <2>4, <2>5 DEF DtlsInv
<1>2. CASE HandshakeOver(s, late)
  <2>1. CASE /\ mState' = "connected" /\ CallHandler
             /\ mSsl' = [s EXCEPT !.over = TRUE]
             /\ mHandshakeTimer' = FALSE /\ mIsClientIdSet' = s.cliId
             /\ \E o \in HandlerSends(out) : out' \in IF late THEN {o} ELSE ReadAndWrite(o)
    <3>1. mSsl' \in SslState /\ mSsl'.cliId = s.cliId
      BY <2>1 DEF SslState
    <3>2. Handlers' /\ HandlerOnce'
      BY <2>1, CallHandlerStep
    <3>3. InOrder(out')
      <4>1. PICK o \in HandlerSends(out) : out' \in (IF late THEN {o} ELSE ReadAndWrite(o))
        BY <2>1
      <4>2. InOrder(o)
        BY <1>0, ReadAndWriteInOrder
      <4>3. out' = o \/ out' \in ReadAndWrite(o)
        BY <4>1
      <4> QED BY <4>2, <4>3, ReadAndWriteInOrder
    <3>4. States'
      BY <1>0, <2>1, <3>1 DEF States
    <3> QED BY <1>0, <3>2, <3>3, <3>4 DEF DtlsInv
  <2>2. CASE CallHandlerTwice /\ Reset("open") /\ out' \in HandlerSends(out)
    <3>1. Handlers' /\ HandlerOnce'
      <4>1. /\ mOnConnected # 0 /\ called' = [called EXCEPT ![mOnConnected] = @ + 2]
            /\ mOnConnected' = 0 /\ UNCHANGED <<session, displaced>>
            /\ hungUp' = hungUp \cup {mOnConnected} /\ mState # "asserted"
        BY <2>2 DEF CallHandlerTwice
      <4>2. 2 \in Nat
        BY SMT
      <4> QED BY <1>0, <4>1, <4>2, HandlerIsTold
    <3>2. InOrder(out')
      BY <1>0, <2>2, ReadAndWriteInOrder
    <3>3. States'
      BY <2>2, ResetStep
    <3> QED BY <1>0, <3>1, <3>2, <3>3 DEF DtlsInv
  <2> QED BY <1>2, <2>1, <2>2 DEF HandshakeOver
<1>3. CASE Reconnect(s)
  <2>1. Reset("connecting") /\ UNCHANGED handlerVars /\ out' = out
    BY <1>3 DEF Reconnect
  <2>2. States'
    BY <2>1, ResetStep
  <2>3. Handlers' /\ HandlerOnce'
    BY <2>1, HandlersKept
  <2> QED BY <1>0, <2>1, <2>2, <2>3 DEF DtlsInv
<1>4. CASE HandshakeFails
  BY <1>0, <1>4, DisconnectStep DEF HandshakeFails
<1> QED BY <1>1, <1>2, <1>3, <1>4 DEF Handshake

(* SetClientTransportId.                                                   *)
LEMMA WithClientIdType ==
    ASSUME DtlsInv
    PROVE  /\ mSsl \in SslState /\ WithClientId \in SslState
           /\ mIsServer /\ ~mIsClientIdSet => WithClientId.cliId = TRUE
<1>1. mSsl \in SslState /\ mIsClientIdSet = mSsl.cliId /\ mIsServer \in BOOLEAN
  BY DEF DtlsInv, States
<1> QED BY <1>1 DEF WithClientId, SslState

(* VerifyOrDie, for want of a descriptor.                                  *)
LEMMA AbortStep ==
    ASSUME DtlsInv, Abort, mState \in {"connecting", "connected"}, ~fd
    PROVE  DtlsInv'
<1>1. States'
  BY DEF DtlsInv, States, Abort, sslVars
<1>2. Handlers' /\ HandlerOnce'
  BY HandlersKept DEF Abort
<1> QED BY <1>1, <1>2 DEF DtlsInv, Abort

(* CoapSecure::Connect, on a session that is open or in use.               *)
LEMMA ConnectStep == ASSUME DtlsInv, Connect PROVE DtlsInv'
<1>0. /\ session \in 0..MaxSessions /\ mOnConnected \in 0..session
      /\ called \in [1..MaxSessions -> Nat]
      /\ displaced \in SUBSET (1..session) /\ hungUp \in SUBSET (1..session)
      /\ mOnConnected \notin displaced \cup hungUp
      /\ \A s \in 1..MaxSessions : s > session => called[s] = 0
  BY DEF DtlsInv, Handlers
<1>1. /\ session < MaxSessions /\ session' = session + 1 /\ mState # "asserted"
      /\ mState # "aborted"
      /\ UNCHANGED <<mIsServer, mHandshakeTimer, mSsl, mIsClientIdSet, hungUp, out>>
  BY DEF Connect, sslVars
<1>2. /\ session' \in 1..MaxSessions /\ session' \in 0..MaxSessions /\ session' \in 0..session'
      /\ mOnConnected \in 0..session' /\ session' > session /\ session' \notin 1..session
      /\ mOnConnected # session'
      /\ \A s \in 1..session' : s \in 1..session \/ s = session'
      /\ \A s \in 1..session : s \in 1..session'
      /\ \A s \in 1..MaxSessions : s > session' => s > session /\ s # session'
      /\ mOnConnected # 0 => mOnConnected \in 1..session
  BY <1>0, <1>1, DtlsAssumption, SMT
<1>3. \A s \in 1..session : called[s] = Due(s)
  BY <1>1 DEF DtlsInv, HandlerOnce
<1>4. called[session'] = 0 /\ session' \notin displaced \cup hungUp
  BY <1>0, <1>2
<1>5. CASE /\ fd' = FALSE /\ severed' = (mState # "open")
           /\ called' = [called EXCEPT ![session + 1] = 1]
           /\ UNCHANGED <<mState, mOnConnected, displaced>>
  <2>1. /\ called' \in [1..MaxSessions -> Nat] /\ called'[session'] = 1
        /\ \A s \in 1..MaxSessions : s # session' => called'[s] = called[s]
    BY <1>0, <1>1, <1>2, <1>5, SMT
  <2>2. Handlers'
    BY <1>0, <1>1, <1>2, <1>5, <2>1 DEF Handlers
  <2>3. ASSUME NEW s \in 1..session' PROVE called'[s] = Due(s)'
    <3>1. CASE s = session'
      BY <1>1, <1>2, <1>4, <1>5, <2>1, <3>1 DEF Due
    <3>2. CASE s \in 1..session
      <4>1. s \in 1..MaxSessions /\ s # session'
        BY <1>0, <1>2, <3>2, DtlsAssumption, SMT
      <4> QED BY <1>1, <1>3, <1>5, <2>1, <3>2, <4>1 DEF Due
    <3> QED BY <1>2, <3>1, <3>2
  <2>4. HandlerOnce'
    BY <2>3 DEF HandlerOnce
  <2>5. States'
    BY <1>1, <1>5 DEF DtlsInv, States
  <2> QED BY <1>1, <2>2, <2>4, <2>5 DEF DtlsInv
<1>6. CASE /\ fd' = TRUE /\ severed' = FALSE /\ mState' = "connecting"
           /\ mOnConnected' = session + 1
           /\ displaced' = displaced \cup ({mOnConnected} \ {0})
           /\ UNCHANGED called
  <2>1. mOnConnected' = session'
    BY <1>1, <1>6
  <2>2. displaced' \in SUBSET (1..session') /\ session' \notin displaced' \cup hungUp
    BY <1>0, <1>2, <1>4, <1>6
  <2>3. Handlers'
    BY <1>0, <1>1, <1>2, <1>6, <2>1, <2>2 DEF Handlers
  <2>4. ASSUME NEW s \in 1..session' PROVE called'[s] = Due(s)'
    <3>1. CASE s = session'
      BY <1>4, <1>6, <2>1, <3>1 DEF Due
    <3>2. CASE s \in 1..session
      <4>1. s # session' /\ s # 0
        BY <1>0, <1>2, <3>2, SMT
      <4>2. s \in displaced' <=> s \in displaced \/ s = mOnConnected
        BY <1>6, <4>1
      <4> QED BY <1>1, <1>3, <1>6, <2>1, <3>2, <4>1, <4>2 DEF Due
    <3> QED BY <1>2, <3>1, <3>2
  <2>5. HandlerOnce'
    BY <2>4 DEF HandlerOnce
  <2>6. States'
    BY <1>1, <1>6 DEF DtlsInv, States
  <2> QED BY <1>1, <2>3, <2>5, <2>6 DEF DtlsInv
<1>7. CASE mState' = "asserted" /\ UNCHANGED <<fd, severed, mOnConnected, displaced, called>>
  <2>1. Handlers'
    BY <1>0, <1>1, <1>2, <1>7 DEF Handlers
  <2>2. HandlerOnce'
    BY <1>7 DEF HandlerOnce
  <2>3. States'
    BY <1>1, <1>7 DEF DtlsInv, States
  <2> QED BY <1>1, <2>1, <2>2, <2>3 DEF DtlsInv
<1> QED BY <1>1, <1>5, <1>6, <1>7 DEF Connect

(* Every step of the session keeps the invariant.                          *)
LEMMA DtlsNext == DtlsInv /\ [Next]_vars => DtlsInv'
<1> SUFFICES ASSUME DtlsInv, [Next]_vars PROVE DtlsInv'
  OBVIOUS
<1>0. mIsServer \in BOOLEAN /\ States /\ InOrder(out)
  BY DEF DtlsInv
<1>1. CASE HandleConnecting
  BY <1>1, HandshakeStep, WithClientIdType DEF HandleConnecting
<1>2. CASE HandleConnected
  <2>1. InOrder(out') /\ UNCHANGED <<mIsServer, fd, severed>> /\ mState # "asserted"
    BY <1>0, <1>2, ReadAndWriteInOrder DEF HandleConnected
  <2>2. CASE Disconnect
    BY <2>1, <2>2, DisconnectStep
  <2>3. CASE UNCHANGED <<mState, sslVars, handlerVars>>
    <3>1. States'
      BY <1>0, <2>1, <2>3 DEF States, sslVars
    <3>2. Handlers' /\ HandlerOnce'
      BY <2>1, <2>3, HandlersKept
    <3> QED BY <1>0, <2>1, <3>1, <3>2 DEF DtlsInv
  <2> QED BY <1>2, <2>2, <2>3 DEF HandleConnected
<1>3. CASE HandleClientReconnect
  <2>1. InOrder(out') /\ mState # "asserted"
    BY <1>3, <1>0, ReadAndWriteInOrder DEF HandleClientReconnect
  <2> QED BY <1>3, <2>1, DisconnectStep DEF HandleClientReconnect
<1>4. CASE HandleOpen
  <2>1. mSsl' \in SslState /\ mIsClientIdSet' = mSsl'.cliId
    BY <1>4, WithClientIdType DEF HandleOpen
  <2>2. UNCHANGED <<mIsServer, mState, fd, mHandshakeTimer, severed, out, handlerVars>>
        /\ mState # "asserted"
    BY <1>4 DEF HandleOpen
  <2>3. States'
    BY <1>0, <2>1, <2>2 DEF States
  <2>4. Handlers' /\ HandlerOnce'
    BY <2>2, HandlersKept
  <2> QED BY <1>0, <2>2, <2>3, <2>4 DEF DtlsInv
<1>5. CASE HandshakeTimerCallback
  <2>1. mState = "connecting"
    BY <1>0, <1>5 DEF HandshakeTimerCallback, States
  <2>2. CASE ~fd /\ mSsl.retries < Retransmits
    BY <1>5, <2>1, <2>2, AbortStep DEF HandshakeTimerCallback
  <2>3. CASE ~(~fd /\ mSsl.retries < Retransmits)
    <3>1. /\ IF fd THEN Handshake(mSsl, TRUE) ELSE HandshakeFails
          /\ UNCHANGED <<mIsServer, fd, severed>>
      BY <1>5, <2>1, <2>3 DEF HandshakeTimerCallback
    <3>2. CASE fd
      BY <2>1, <3>1, <3>2, HandshakeStep, WithClientIdType
    <3>3. CASE ~fd
      BY <1>0, <2>1, <3>1, <3>3, DisconnectStep DEF HandshakeFails
    <3> QED BY <3>2, <3>3
  <2> QED BY <2>2, <2>3
<1>6. CASE Connect
  BY <1>6, ConnectStep
<1>7. CASE OwnerSends
  <2>1. CASE fd
    <3>1. /\ out' \in Send(out) /\ mState = "connected"
          /\ UNCHANGED <<mIsServer, mState, fd, sslVars, handlerVars, severed>>
      BY <1>7, <2>1 DEF OwnerSends
    <3>2. InOrder(out')
      BY <1>0, <3>1, SendInOrder
    <3>3. States'
      BY <1>0, <3>1 DEF States, sslVars
    <3>4. Handlers' /\ HandlerOnce'
      BY <3>1, HandlersKept
    <3> QED BY <1>0, <3>1, <3>2, <3>3, <3>4 DEF DtlsInv
  <2>2. CASE ~fd
    BY <1>7, <2>2, AbortStep DEF OwnerSends
  <2> QED BY <2>1, <2>2
<1>8. CASE OwnerDisconnects
  <2>1. mState \in {"connecting", "connected"} /\ mState # "asserted"
    BY <1>8 DEF OwnerDisconnects
  <2>2. CASE mState = "connected" /\ ~fd
    BY <1>8, <2>1, <2>2, AbortStep DEF OwnerDisconnects
  <2>3. CASE ~(mState = "connected" /\ ~fd)
    <3>1. Disconnect /\ UNCHANGED <<mIsServer, fd, severed, out>>
      BY <1>8, <2>3 DEF OwnerDisconnects
    <3> QED BY <1>0, <2>1, <3>1, DisconnectStep
  <2> QED BY <2>2, <2>3
<1>9. CASE UNCHANGED vars
  <2>1. UNCHANGED <<mIsServer, mState, fd, sslVars, handlerVars, severed, out>>
    BY <1>9 DEF vars
  <2>2. States'
    BY <1>0, <2>1 DEF States, sslVars
  <2>3. Handlers' /\ (mState # "asserted" => HandlerOnce')
    BY <2>1, HandlersKept DEF DtlsInv, Handlers, handlerVars
  <2>4. mState = "asserted" => HandlerOnce'
    BY <2>1 DEF HandlerOnce
  <2> QED BY <1>0, <2>1, <2>2, <2>3, <2>4 DEF DtlsInv
<1> QED BY <1>1, <1>2, <1>3, <1>4, <1>5, <1>6, <1>7, <1>8, <1>9 DEF Next

(* The invariant of a DtlsSession, in every behaviour.                     *)
LEMMA DtlsInvariant == Spec => []DtlsInv
BY DtlsInit, DtlsNext, PTL DEF Spec

(* Neither dtls.cpp:648 nor socket.cpp:225 ends the process, in any order  *)
(* of events, timers and calls of the owner, Connect on a session in use   *)
(* included, unless the socket of such a Connect could not be opened.      *)
THEOREM SessionNeverAborts == Spec => []NeverAborts
<1>1. DtlsInv => NeverAborts
  <2> SUFFICES ASSUME DtlsInv PROVE NeverAborts
    OBVIOUS
  <2>1. States /\ Handlers
    BY DEF DtlsInv
  <2>2. /\ mState \in {"open", "connecting", "connected", "aborted", "asserted"}
        /\ (mState \in {"connecting", "connected"} /\ ~fd) \/ mState = "aborted" => severed
        /\ fd \in BOOLEAN /\ mHandshakeTimer \in BOOLEAN /\ severed \in BOOLEAN
    BY <2>1 DEF States
  <2>3. mSsl \in SslState /\ mIsClientIdSet = mSsl.cliId
    BY <2>1 DEF States
  <2>4. /\ session \in 0..MaxSessions /\ mOnConnected \in 0..session
        /\ called \in [1..MaxSessions -> Nat]
        /\ displaced \in SUBSET (1..session) /\ hungUp \in SUBSET (1..session)
    BY <2>1 DEF Handlers
  <2> QED BY <2>2, <2>3, <2>4 DEF NeverAborts, SslState
<1> QED BY <1>1, DtlsInvariant, PTL

(* The handler given to DtlsSession::Connect is called exactly once or is  *)
(* still held, but for one that disconnects, which is called twice, and    *)
(* one that another Connect replaced, which is never called.               *)
THEOREM ConnectToldOnce == Spec => []HandlerOnce
<1>1. DtlsInv => HandlerOnce
  BY DEF DtlsInv
<1> QED BY <1>1, DtlsInvariant, PTL

(* mSendQueue neither loses nor reorders what DtlsSession::Send took.      *)
THEOREM SentInOrder == Spec => []Fifo
<1>1. DtlsInv => Fifo
  BY DEF DtlsInv, InOrder, InLine, Fifo
<1> QED BY <1>1, DtlsInvariant, PTL

-----------------------------------------------------------------------------
(* The requests a server handles.                                          *)

RequestMessages == [peer : Peers, id : MessageIds, kind : Kinds]
Responses == [id : MessageIds, for : Made]

ServerTypes ==
    /\ requests \in Seq(RequestMessages) /\ Len(requests) <= MaxRequests
    /\ expired \subseteq Made
    /\ net \in [1..MaxRequests -> Nat]
    /\ mMessageId \in MessageIds
    /\ mResponsesCache \in Seq(Responses)
    /\ handled \in [1..MaxRequests -> Nat]
    /\ answers \subseteq Made \X Made

(* Copies in flight are of requests that still live, and of these no two   *)
(* of a peer have the same message id.                                     *)
LiveIds ==
    /\ \A n \in Made : net[n] > 0 => n \notin expired
    /\ \A m, n \in Made \ expired :
          requests[m].peer = requests[n].peer /\ requests[m].id = requests[n].id => m = n

(* A confirmable request's response is cached under the request's id.      *)
CachedById ==
    \A i \in 1..Len(mResponsesCache) :
        Confirmable(mResponsesCache[i].for)
            => mResponsesCache[i].id = requests[mResponsesCache[i].for].id

(* A confirmable request that was handled finds a response in the cache.   *)
HandledIsCached ==
    /\ \A n \in 1..MaxRequests : n \notin Made => handled[n] = 0
    /\ \A n \in Made : Confirmable(n) /\ handled[n] > 0 =>
          \E i \in 1..Len(mResponsesCache) : mResponsesCache[i].id = requests[n].id

ServerInv ==
    /\ ServerTypes /\ LiveIds /\ CachedById /\ HandledIsCached
    /\ HandledOnce /\ OnlyTheSameRequest

(* The endpoint as it is constructed, with an empty ResponsesCache.        *)
LEMMA ServerStart == ServerInit => ServerInv
<1> SUFFICES ASSUME ServerInit PROVE ServerInv
  OBVIOUS
<1> USE ServerAssumption DEF ServerInit
<1>1. Made = {}
  BY SMT DEF Made
<1>2. Len(mResponsesCache) = 0 /\ mResponsesCache \in Seq(Responses) /\ mMessageId \in MessageIds
  BY SMT DEF MessageIds
<1>3. ServerTypes
  BY <1>1, <1>2, SMT DEF ServerTypes
<1>4. LiveIds /\ CachedById /\ HandledIsCached /\ HandledOnce
  BY <1>1, <1>2, SMT DEF LiveIds, CachedById, HandledIsCached, HandledOnce
<1>5. OnlyTheSameRequest
  BY <1>1, <1>2 DEF OnlyTheSameRequest, Responses
<1> QED BY <1>3, <1>4, <1>5 DEF ServerInv

(* The requests made and the responses cached are such.                    *)
LEMMA MadeType ==
    ASSUME ServerInv
    PROVE  /\ Len(requests) \in Nat /\ Made \subseteq 1..MaxRequests
           /\ \A n \in Made : requests[n] \in RequestMessages
           /\ Len(mResponsesCache) \in Nat
           /\ DOMAIN mResponsesCache = 1..Len(mResponsesCache)
           /\ \A i \in 1..Len(mResponsesCache) : mResponsesCache[i] \in Responses
<1>1. requests \in Seq(RequestMessages) /\ Len(requests) <= MaxRequests /\ mResponsesCache \in Seq(Responses)
  BY DEF ServerInv, ServerTypes
<1>2. Len(requests) \in Nat /\ \A n \in 1..Len(requests) : requests[n] \in RequestMessages
  BY <1>1, SeqAt
<1>3. /\ Len(mResponsesCache) \in Nat /\ DOMAIN mResponsesCache = 1..Len(mResponsesCache)
      /\ \A i \in 1..Len(mResponsesCache) : mResponsesCache[i] \in Responses
  BY <1>1, SeqAt
<1> QED BY <1>1, <1>2, <1>3, ServerAssumption, SMT DEF Made

(* Coap::SendResponse puts one response at the end of the cache.           *)
LEMMA CacheGrows ==
    ASSUME ServerInv, NEW n \in Made, NEW id \in MessageIds, UNCHANGED requests,
           mResponsesCache' = Append(mResponsesCache, [id |-> id, for |-> n])
    PROVE  /\ mResponsesCache' \in Seq(Responses)
           /\ Len(mResponsesCache') = Len(mResponsesCache) + 1
           /\ \A i \in 1..Len(mResponsesCache) : mResponsesCache'[i] = mResponsesCache[i]
           /\ mResponsesCache'[Len(mResponsesCache) + 1] = [id |-> id, for |-> n]
<1> DEFINE e == [id |-> id, for |-> n]
<1>1. e \in Responses
  BY DEF Responses
<1>2. mResponsesCache \in Seq(Responses) /\ mResponsesCache' = Append(mResponsesCache, e)
  BY DEF ServerInv, ServerTypes
<1> HIDE DEF e
<1>3. /\ mResponsesCache' \in Seq(Responses)
      /\ Len(mResponsesCache') = Len(mResponsesCache) + 1
      /\ \A i \in 1..Len(mResponsesCache) : mResponsesCache'[i] = mResponsesCache[i]
      /\ mResponsesCache'[Len(mResponsesCache) + 1] = e
  BY <1>1, <1>2, AppendAt, SMT
<1> QED BY <1>3 DEF e

(* Coap::AllocMessageId gives a message ID.                                *)
LEMMA AllocMessageIdType == ASSUME mMessageId \in MessageIds PROVE AllocMessageId \in MessageIds
BY ServerAssumption, SMT DEF MessageIds, AllocMessageId


(* A peer makes a request, under an id that none of its live ones has.     *)
LEMMA PeerSendsStep ==
    ASSUME ServerInv, NEW p \in Peers, NEW id \in MessageIds, NEW kind \in Kinds,
           PeerSends(p, id, kind)
    PROVE  ServerInv'
<1> DEFINE new == Len(requests) + 1
           req == [peer |-> p, id |-> id, kind |-> kind]
<1>0. ServerTypes /\ LiveIds /\ CachedById /\ HandledIsCached /\ HandledOnce /\ OnlyTheSameRequest
  BY DEF ServerInv
<1>1. /\ Len(requests) \in Nat /\ Made \subseteq 1..MaxRequests /\ Made = 1..Len(requests)
      /\ \A n \in Made : requests[n] \in RequestMessages
      /\ \A i \in 1..Len(mResponsesCache) : mResponsesCache[i] \in Responses
  BY MadeType DEF Made
<1>2. /\ Len(requests) < MaxRequests
      /\ \A n \in Made : requests[n].peer = p /\ requests[n].id = id => n \in expired
      /\ UNCHANGED <<expired, mMessageId, mResponsesCache, handled, answers, received>>
  BY DEF PeerSends
<1>3. PICK copies \in 1..MaxCopies : net' = [net EXCEPT ![new] = copies]
  BY DEF PeerSends
<1>4. req \in RequestMessages /\ req.peer = p /\ req.id = id
  BY DEF RequestMessages
<1>5. requests' = Append(requests, req)
  BY DEF PeerSends
<1> HIDE DEF req
<1>6. /\ requests' \in Seq(RequestMessages) /\ Len(requests') = new
      /\ \A n \in Made : requests'[n] = requests[n]
      /\ requests'[new] = req
  <2>1. requests \in Seq(RequestMessages)
    BY <1>0 DEF ServerTypes
  <2> QED BY <1>1, <1>4, <1>5, <2>1, AppendAt, SMT
<1>7. /\ Made' = Made \cup {new} /\ new \notin Made /\ new \in 1..MaxRequests
      /\ Len(requests') <= MaxRequests
  BY <1>1, <1>2, <1>6, ServerAssumption, SMT DEF Made
<1> HIDE DEF new
<1>8. \A n \in Made : Confirmable(n)' <=> Confirmable(n)
  BY <1>6 DEF Confirmable
<1>9. ServerTypes'
  <2>1. mResponsesCache' \in Seq(Responses')
    <3>1. Responses \subseteq Responses'
      BY <1>7 DEF Responses, MessageIds
    <3>2. mResponsesCache \in Seq(Responses)
      BY <1>0 DEF ServerTypes
    <3>3. \A i \in 1..Len(mResponsesCache) : mResponsesCache[i] \in Responses'
      BY <1>1, <3>1
    <3>4. mResponsesCache \in Seq(Responses')
      BY <3>2, <3>3, Resequence
    <3> QED BY <1>2, <3>4
  <2>2. net' \in [1..MaxRequests -> Nat]
    BY <1>0, <1>3, <1>7, ServerAssumption, SMT DEF ServerTypes
  <2> QED BY <1>0, <1>2, <1>6, <1>7, <2>1, <2>2 DEF ServerTypes, RequestMessages, MessageIds
<1>10. LiveIds'
  <2>1. new \notin expired
    BY <1>0, <1>7 DEF ServerTypes
  <2>2. \A n \in Made' : net'[n] > 0 => n \notin expired'
    BY <1>0, <1>2, <1>3, <1>7, <2>1, SMT DEF LiveIds, ServerTypes
  <2>3. ASSUME NEW m \in (Made \ expired)', NEW n \in (Made \ expired)',
               requests'[m].peer = requests'[n].peer, requests'[m].id = requests'[n].id
        PROVE  m = n
    <3>1. CASE m \in Made /\ n \in Made
      BY <1>0, <1>2, <1>6, <2>3, <3>1 DEF LiveIds
    <3>2. CASE m = new /\ n \in Made
      BY <1>2, <1>4, <1>6, <2>3, <3>2
    <3>3. CASE m \in Made /\ n = new
      BY <1>2, <1>4, <1>6, <2>3, <3>3, SMTT(20)
    <3> QED BY <1>7, <3>1, <3>2, <3>3, SMTT(20)
  <2> QED BY <2>2, <2>3 DEF LiveIds
<1>11. CachedById'
  <2>1. \A i \in 1..Len(mResponsesCache) : mResponsesCache[i].for \in Made
    BY <1>1 DEF Responses
  <2> QED BY <1>0, <1>2, <1>6, <1>8, <2>1 DEF CachedById
<1>12. HandledIsCached'
  <2>1. handled[new] = 0
    BY <1>0, <1>7 DEF HandledIsCached
  <2> QED BY <1>0, <1>2, <1>6, <1>7, <1>8, <2>1, SMT DEF HandledIsCached
<1>13. HandledOnce'
  BY <1>0, <1>2, <1>7, <1>8, SMT DEF HandledOnce, HandledIsCached
<1>14. OnlyTheSameRequest'
  <2>1. mResponsesCache' \in Seq([id : MessageIds', for : Made']) /\ answers' \subseteq Made' \X Made'
    BY <1>9 DEF ServerTypes, Responses
  <2>2. ASSUME NEW a \in answers', a[1] # a[2]
        PROVE  \/ requests'[a[2]].peer # requests'[a[1]].peer
               \/ a[2] \in expired' \/ ~Confirmable(a[2])'
    <3>1. a \in answers /\ a[1] \in Made /\ a[2] \in Made
      BY <1>0, <1>2 DEF ServerTypes
    <3> QED BY <1>0, <1>2, <1>6, <1>8, <2>2, <3>1 DEF OnlyTheSameRequest
  <2> QED BY <2>1, <2>2 DEF OnlyTheSameRequest
<1> QED BY <1>9, <1>10, <1>11, <1>12, <1>13, <1>14 DEF ServerInv

(* Steps of the network and of the peers that make no request.             *)
LEMMA NetworkStep ==
    ASSUME ServerInv, UNCHANGED <<requests, mMessageId, mResponsesCache, handled, answers>>,
           net' \in [1..MaxRequests -> Nat],
           expired \subseteq expired', expired' \subseteq Made,
           \A n \in Made : net'[n] > 0 => n \notin expired'
    PROVE  ServerInv'
<1>0. ServerTypes /\ LiveIds /\ CachedById /\ HandledIsCached /\ HandledOnce /\ OnlyTheSameRequest
  BY DEF ServerInv
<1>1. Made' = Made /\ (\A n : Confirmable(n)' <=> Confirmable(n)) /\ Responses' = Responses
  BY DEF Made, Confirmable, Responses, MessageIds
<1>2. ServerTypes'
  BY <1>0, <1>1 DEF ServerTypes, RequestMessages, MessageIds
<1>3. LiveIds'
  BY <1>0, <1>1, SMTT(20) DEF LiveIds
<1>4. CachedById' /\ HandledIsCached' /\ HandledOnce'
  BY <1>0, <1>1 DEF CachedById, HandledIsCached, HandledOnce
<1>5. OnlyTheSameRequest'
  BY <1>0, <1>1 DEF OnlyTheSameRequest, MessageIds
<1> QED BY <1>2, <1>3, <1>4, <1>5 DEF ServerInv


(* What Coap::HandleRequest does to the cache and to the handled requests. *)
LEMMA HandlingStep ==
    ASSUME ServerInv, NEW n \in Made, HandleRequest(n), Match(n) = {}
    PROVE  /\ mMessageId' \in MessageIds /\ mResponsesCache' \in Seq(Responses)
           /\ answers' \in {answers, answers \cup {<<n, n>>}}
           /\ handled' \in [1..MaxRequests -> Nat]
           /\ CachedById' /\ HandledIsCached' /\ HandledOnce'
<1>0. ServerTypes /\ CachedById /\ HandledIsCached /\ HandledOnce /\ UNCHANGED requests
  BY DEF ServerInv, HandleRequest
<1>1. /\ Made \subseteq 1..MaxRequests /\ requests[n] \in RequestMessages
      /\ Len(mResponsesCache) \in Nat
      /\ DOMAIN mResponsesCache = 1..Len(mResponsesCache)
      /\ \A i \in 1..Len(mResponsesCache) : mResponsesCache[i] \in Responses
  BY MadeType
<1>2. Made' = Made /\ (\A m : Confirmable(m)' <=> Confirmable(m))
  BY <1>0 DEF Made, Confirmable
<1>3. /\ mMessageId \in MessageIds /\ mResponsesCache \in Seq(Responses)
      /\ handled \in [1..MaxRequests -> Nat]
  BY <1>0 DEF ServerTypes
<1>4. Confirmable(n) => handled[n] = 0
  BY <1>0, <1>1, <1>3, SMT DEF HandledIsCached, Match
<1>5. \/ handled' = [handled EXCEPT ![n] = @ + 1]
      \/ handled' = handled /\ ~HasResource(n)
  BY DEF HandleRequest
<1>6. /\ handled' \in [1..MaxRequests -> Nat]
      /\ \A m \in 1..MaxRequests : m # n => handled'[m] = handled[m]
      /\ Confirmable(n) => handled'[n] <= 1
  <2>1. n \in 1..MaxRequests
    BY <1>1
  <2>2. CASE handled' = [handled EXCEPT ![n] = @ + 1]
    BY <1>3, <1>4, <2>1, <2>2, SMT
  <2>3. CASE handled' = handled
    BY <1>3, <1>4, <2>1, <2>3, SMT
  <2> QED BY <1>5, <2>2, <2>3
<1>7. HandledOnce'
  BY <1>0, <1>1, <1>2, <1>6 DEF HandledOnce
<1>8. CASE /\ ~Confirmable(n)
           /\ UNCHANGED <<mMessageId, mResponsesCache, answers>>
  <2>1. CachedById'
    BY <1>0, <1>2, <1>8 DEF CachedById
  <2>2. HandledIsCached'
    BY <1>0, <1>1, <1>2, <1>6, <1>8 DEF HandledIsCached
  <2> QED BY <1>3, <1>6, <1>7, <1>8, <2>1, <2>2
<1>9. CASE SendHeaderResponse(n)
  <2>1. PICK id \in MessageIds :
            /\ mResponsesCache' = Append(mResponsesCache, [id |-> id, for |-> n])
            /\ Confirmable(n) => id = requests[n].id
    <3> DEFINE own == IF Confirmable(n) THEN requests[n].id ELSE AllocMessageId
               put == IF own = 0 THEN requests[n].id ELSE own
    <3>1. requests[n].id \in MessageIds /\ AllocMessageId \in MessageIds
      BY <1>1, <1>3, AllocMessageIdType DEF RequestMessages
    <3>2. put \in MessageIds /\ (Confirmable(n) => put = requests[n].id)
      BY <3>1
    <3>3. mResponsesCache' = Append(mResponsesCache, [id |-> put, for |-> n])
      BY <1>9 DEF SendHeaderResponse, SendResponse
    <3> QED BY <3>2, <3>3
  <2>2. /\ mResponsesCache' \in Seq(Responses)
        /\ Len(mResponsesCache') = Len(mResponsesCache) + 1
        /\ \A i \in 1..Len(mResponsesCache) : mResponsesCache'[i] = mResponsesCache[i]
        /\ mResponsesCache'[Len(mResponsesCache) + 1] = [id |-> id, for |-> n]
    BY <1>0, <2>1, CacheGrows
  <2>3. \A i \in 1..Len(mResponsesCache') :
            i \in 1..Len(mResponsesCache) \/ i = Len(mResponsesCache) + 1
    BY <1>1, <2>2, SMT
  <2>4. CachedById'
    <3>1. ASSUME NEW i \in 1..Len(mResponsesCache'), Confirmable(mResponsesCache'[i].for)
          PROVE  mResponsesCache'[i].id = requests[mResponsesCache'[i].for].id
      <4>1. CASE i \in 1..Len(mResponsesCache)
        BY <1>0, <2>2, <3>1, <4>1, SMTT(20) DEF CachedById
      <4>2. CASE i = Len(mResponsesCache) + 1
        BY <2>1, <2>2, <3>1, <4>2, SMTT(20)
      <4> QED BY <2>3, <4>1, <4>2
    <3> QED BY <1>0, <1>2, <3>1 DEF CachedById
  <2>5. HandledIsCached'
    <3>1. ASSUME NEW m \in Made, Confirmable(m), handled'[m] > 0
          PROVE  \E i \in 1..Len(mResponsesCache') : mResponsesCache'[i].id = requests[m].id
      <4>1. CASE m = n
        <5>1. Len(mResponsesCache) + 1 \in 1..Len(mResponsesCache')
          BY <1>1, <2>2, SMT
        <5>2. mResponsesCache'[Len(mResponsesCache) + 1].id = requests[m].id
          BY <2>1, <2>2, <3>1, <4>1, SMTT(20)
        <5> QED BY <5>1, <5>2
      <4>2. CASE m # n
        <5>1. PICK i \in 1..Len(mResponsesCache) : mResponsesCache[i].id = requests[m].id
          BY <1>0, <1>1, <1>6, <3>1, <4>2, SMTT(20) DEF HandledIsCached
        <5>2. i \in 1..Len(mResponsesCache')
          BY <1>1, <2>2, SMTT(20)
        <5> QED BY <2>2, <5>1, <5>2
      <4> QED BY <4>1, <4>2, SMTT(20)
    <3>2. \A m \in 1..MaxRequests : m \notin Made => handled'[m] = 0
      BY <1>0, <1>6 DEF HandledIsCached
    <3> QED BY <1>0, <1>2, <3>1, <3>2, SMTT(20) DEF HandledIsCached
  <2>6. mMessageId' \in MessageIds /\ answers' \in {answers, answers \cup {<<n, n>>}}
    BY <1>3, <1>9, AllocMessageIdType DEF SendHeaderResponse, SendResponse
  <2> QED BY <1>6, <1>7, <2>2, <2>4, <2>5, <2>6, SMTT(20)
<1> QED BY <1>8, <1>9 DEF HandleRequest

(* A set of naturals that is not empty has a least element.                *)
LEMMA SmallestExists ==
    ASSUME NEW S \in SUBSET Nat, S # {}
    PROVE  \E i \in S : \A j \in S : i <= j
<1> DEFINE R == OpToRel(<, Nat)
<1>1. IsWellFoundedOn(R, Nat)
  BY NatLessThanWellFounded
<1>2. \A i, j \in Nat : <<j, i>> \in R <=> j < i
  BY DEF OpToRel
<1> HIDE DEF R
<1>3. PICK i \in S : \A j \in S : ~(<<j, i>> \in R)
  BY <1>1, WFMin
<1>4. ASSUME NEW j \in S PROVE i <= j
  <2>1. i \in Nat /\ j \in Nat
    OBVIOUS
  <2>2. ~(j < i)
    BY <1>2, <1>3, <2>1
  <2> QED BY <2>1, <2>2, SMT
<1> QED BY <1>4

(* The response that answers a duplicate from the cache.                   *)
LEMMA CacheAnswers ==
    ASSUME ServerInv, NEW n \in Made, net[n] > 0, Match(n) # {}, AnswerFromCache(n)
    PROVE  \E r \in Made :
              /\ answers' \in {answers, answers \cup {<<n, r>>}}
              /\ n # r => \/ requests[r].peer # requests[n].peer
                         \/ r \in expired \/ ~Confirmable(r)
<1>0. LiveIds /\ CachedById
  BY DEF ServerInv
<1>1. /\ Len(mResponsesCache) \in Nat
      /\ DOMAIN mResponsesCache = 1..Len(mResponsesCache)
      /\ \A i \in 1..Len(mResponsesCache) : mResponsesCache[i] \in Responses
  BY MadeType
<1> DEFINE first == CHOOSE i \in Match(n) : \A j \in Match(n) : i <= j
<1>2. first \in Match(n)
  <2>1. Match(n) \in SUBSET Nat
    BY <1>1, SMT DEF Match
  <2>2. \E i \in Match(n) : \A j \in Match(n) : i <= j
    BY <2>1, SmallestExists
  <2> QED BY <2>2
<1>3. answers' \in {answers, answers \cup {<<n, mResponsesCache[first].for>>}}
  BY DEF AnswerFromCache
<1> HIDE DEF first
<1>4. first \in 1..Len(mResponsesCache) /\ mResponsesCache[first].id = requests[n].id
  BY <1>1, <1>2 DEF Match
<1>5. mResponsesCache[first].for \in Made
  BY <1>1, <1>4 DEF Responses
<1>6. n \notin expired
  BY <1>0, SMTT(20) DEF LiveIds
<1> DEFINE r == mResponsesCache[first].for
<1>7. n # r => requests[r].peer # requests[n].peer \/ r \in expired \/ ~Confirmable(r)
  BY <1>0, <1>4, <1>5, <1>6 DEF LiveIds, CachedById
<1> QED BY <1>3, <1>5, <1>7

(* Coap::HandleRequest: a duplicate is answered from the cache, a new      *)
(* request is handled.                                                     *)
LEMMA HandleRequestStep ==
    ASSUME ServerInv, NEW n \in Made, HandleRequest(n)
    PROVE  ServerInv'
<1>0. ServerTypes /\ LiveIds /\ CachedById /\ HandledIsCached /\ HandledOnce /\ OnlyTheSameRequest
  BY DEF ServerInv
<1>1. /\ net[n] > 0 /\ net' = [net EXCEPT ![n] = @ - 1]
      /\ UNCHANGED <<requests, expired, received>>
  BY DEF HandleRequest
<1>2. Made' = Made /\ (\A m : Confirmable(m)' <=> Confirmable(m)) /\ Responses' = Responses
  BY <1>1 DEF Made, Confirmable, Responses, MessageIds
<1>3. Made \subseteq 1..MaxRequests
  BY MadeType
<1>4. net' \in [1..MaxRequests -> Nat] /\ \A m \in Made : net'[m] > 0 => net[m] > 0
  BY <1>0, <1>1, <1>3, SMT DEF ServerTypes
<1>5. LiveIds'
  BY <1>0, <1>1, <1>2, <1>4 DEF LiveIds
<1>6. /\ mMessageId' \in MessageIds /\ mResponsesCache' \in Seq(Responses)
      /\ handled' \in [1..MaxRequests -> Nat]
      /\ CachedById' /\ HandledIsCached' /\ HandledOnce'
  <2>1. CASE Match(n) = {}
    BY <2>1, HandlingStep
  <2>2. CASE Match(n) # {}
    <3>1. UNCHANGED <<mMessageId, mResponsesCache, handled>>
      BY <2>2 DEF HandleRequest
    <3> QED BY <1>0, <1>1, <1>2, <3>1
            DEF ServerTypes, CachedById, HandledIsCached, HandledOnce
  <2> QED BY <2>1, <2>2
<1>7. \E r \in Made :
         /\ answers' \in {answers, answers \cup {<<n, r>>}}
         /\ n # r => requests[r].peer # requests[n].peer \/ r \in expired \/ ~Confirmable(r)
  <2>1. CASE Match(n) = {}
    BY <2>1, HandlingStep
  <2>2. CASE Match(n) # {}
    <3>1. AnswerFromCache(n)
      BY <2>2 DEF HandleRequest
    <3> QED BY <1>1, <2>2, <3>1, CacheAnswers
  <2> QED BY <2>1, <2>2
<1>8. answers' \subseteq Made \X Made
  BY <1>0, <1>7, SMT DEF ServerTypes
<1>9. ServerTypes'
  BY <1>0, <1>1, <1>2, <1>4, <1>6, <1>8 DEF ServerTypes, RequestMessages, MessageIds
<1>10. OnlyTheSameRequest'
  <2>1. ASSUME NEW a \in answers', a[1] # a[2]
        PROVE  \/ requests[a[2]].peer # requests[a[1]].peer
               \/ a[2] \in expired \/ ~Confirmable(a[2])
    BY <1>0, <1>7, <2>1, SMT DEF OnlyTheSameRequest
  <2> QED BY <1>1, <1>2, <1>6, <1>8, <2>1 DEF OnlyTheSameRequest, Responses, MessageIds
<1> QED BY <1>5, <1>6, <1>9, <1>10 DEF ServerInv

(* Every step of the endpoint keeps the invariant.                         *)
LEMMA ServerStep == ServerInv /\ [ServerNext]_serverVars => ServerInv'
<1> SUFFICES ASSUME ServerInv, [ServerNext]_serverVars PROVE ServerInv'
  OBVIOUS
<1>0. /\ net \in [1..MaxRequests -> Nat] /\ expired \subseteq Made /\ Made \subseteq 1..MaxRequests
      /\ \A n \in Made : net[n] > 0 => n \notin expired
  BY MadeType DEF ServerInv, ServerTypes, LiveIds
<1>1. ASSUME NEW p \in Peers, NEW id \in MessageIds, NEW kind \in Kinds, PeerSends(p, id, kind)
      PROVE  ServerInv'
  BY <1>1, PeerSendsStep
<1>2. ASSUME NEW n \in Made, PeerRetransmits(n) \/ Lost(n) \/ PeerReceives(n) \/ LifetimePasses(n)
      PROVE  ServerInv'
  <2>1. UNCHANGED <<requests, mMessageId, mResponsesCache, handled, answers>>
    BY <1>2 DEF PeerRetransmits, Lost, PeerReceives, LifetimePasses
  <2>2. /\ net' \in [1..MaxRequests -> Nat] /\ expired \subseteq expired' /\ expired' \subseteq Made
        /\ \A m \in Made : net'[m] > 0 => m \notin expired'
    <3>1. CASE PeerRetransmits(n)
      BY <1>0, <3>1, SMT DEF PeerRetransmits
    <3>2. CASE Lost(n)
      BY <1>0, <3>2, SMT DEF Lost
    <3>3. CASE PeerReceives(n)
      BY <1>0, <3>3 DEF PeerReceives
    <3>4. CASE LifetimePasses(n)
      BY <1>0, <3>4, SMT DEF LifetimePasses
    <3> QED BY <1>2, <3>1, <3>2, <3>3, <3>4
  <2> QED BY <2>1, <2>2, NetworkStep
<1>3. ASSUME NEW n \in Made, HandleRequest(n) PROVE ServerInv'
  BY <1>3, HandleRequestStep
<1>4. CASE UNCHANGED serverVars
  BY <1>0, <1>4, NetworkStep DEF serverVars
<1> QED BY <1>1, <1>2, <1>3, <1>4 DEF ServerNext

(* The invariant of the endpoint, in every behaviour.                      *)
LEMMA ServerInvariant == ServerSpec => []ServerInv
BY ServerStart, ServerStep, PTL DEF ServerSpec

(* However often a confirmable request is lost, duplicated, retransmitted  *)
(* or reordered, Coap::HandleRequest runs its resource at most once, for   *)
(* any number of peers, requests and message ids.                          *)
THEOREM RequestHandledOnce == ServerSpec => []HandledOnce
<1>1. ServerInv => HandledOnce
  BY DEF ServerInv
<1> QED BY <1>1, ServerInvariant, PTL

(* ResponsesCache::Match answers a request with another one's response     *)
(* only in the three cases that message ids do not tell apart.             *)
THEOREM CacheAnswersTheSame == ServerSpec => []OnlyTheSameRequest
<1>1. ServerInv => OnlyTheSameRequest
  BY DEF ServerInv
<1> QED BY <1>1, ServerInvariant, PTL

-----------------------------------------------------------------------------
(* A handler is held while a connection is being made, and only then, and  *)
(* not by a request too; whatever is held or outstanding was asked for.    *)
Held ==
    /\ dtls = "connecting" <=> clientOnConnected # NoRequest
    /\ clientOnConnected \notin pending
    /\ Owed \subseteq asked

(* TokenHandlerOnce is inductive together with Held.                       *)
TokenInv == TokenTypeOK /\ Held /\ TokenHandlerOnce

-----------------------------------------------------------------------------
(* ClientDisconnect, in a handler that calls those of S and T, leaves      *)
(* nothing owed, and calls once more than S and T say only what was owed.  *)
LEMMA DisconnectSettles ==
    ASSUME TokenInv, NEW S, NEW T, S \subseteq asked, T \subseteq S,
           \A c \in S : tokenHandled[c] = 0,
           ClientDisconnect(S, T),
           asked' = asked, replaced' = replaced, aborted' = aborted,
           keyIsEcdsa' = keyIsEcdsa,
           unsent' \in SUBSET Requests, unsent \subseteq unsent', T \subseteq unsent'
    PROVE  TokenInv'
<1> USE TokenAssumption
<1>1. TokenTypeOK'
  BY SMTT(20) DEF TokenInv, TokenTypeOK, ClientDisconnect, Handle
<1>2. Owed' = {} /\ Held'
  BY SMTT(20) DEF ClientDisconnect, Held, Owed
<1>3. ASSUME NEW c \in Requests
      PROVE  /\ c \in asked /\ tokenHandled'[c] = 0 => c \in replaced \/ aborted
             /\ tokenHandled'[c] > 0 => c \in asked
             /\ tokenHandled'[c] > 1 => c \in unsent'
  <2>1. /\ tokenHandled'[c] = tokenHandled[c]
                + (IF c \in S \cup pending \cup ({clientOnConnected} \ {NoRequest}) THEN 1 ELSE 0)
                + (IF c \in T THEN 1 ELSE 0)
        /\ tokenHandled[c] \in Nat
    BY SMTT(20) DEF ClientDisconnect, Handle, TokenInv, TokenTypeOK
  <2>2. CASE c \in Owed \cup S
    <3>1. c \in asked /\ tokenHandled[c] = 0
      BY <2>2, <2>1, SMTT(20) DEF TokenInv, Held, TokenHandlerOnce
    <3> QED
      BY <3>1, <2>1, <2>2, SMTT(20) DEF Owed
  <2>3. CASE c \notin Owed \cup S
    <3>1. tokenHandled'[c] = tokenHandled[c]
      BY <2>1, <2>3, SMTT(20) DEF Owed
    <3> QED
      BY <3>1, <2>3 DEF TokenInv, TokenHandlerOnce
  <2> QED
    BY <2>2, <2>3
<1>4. TokenHandlerOnce'
  BY <1>2, <1>3 DEF TokenHandlerOnce
<1> QED
  BY <1>1, <1>2, <1>4 DEF TokenInv

(* Nothing is owed at first.                                               *)
LEMMA InitTokenInv == TokenInit => TokenInv
<1> SUFFICES ASSUME TokenInit PROVE TokenInv
  OBVIOUS
<1>1. TokenTypeOK
  BY DEF TokenInit, TokenTypeOK
<1>2. Owed = {} /\ Held
  BY DEF TokenInit, Owed, Held
<1>3. TokenHandlerOnce
  <2>1. \A c \in Requests : c \notin asked /\ tokenHandled[c] = 0
    BY DEF TokenInit
  <2>2. ~(0 > 0) /\ ~(0 > 1)
    BY SMT
  <2> QED
    BY <2>1, <2>2 DEF TokenHandlerOnce
<1> QED
  BY <1>1, <1>2, <1>3 DEF TokenInv

(* The handler that a second RequestToken displaces is the one it replaces.*)
LEMMA RequestTokenIInv ==
    ASSUME TokenInv, NEW c \in Requests, RequestToken(c) PROVE TokenInv'
<1> USE TokenAssumption DEF RequestToken
<1>0. c \notin Owed /\ tokenHandled[c] = 0 /\ c # NoRequest
  <2>1. c \notin asked /\ tokenHandled[c] \in Nat
    BY DEF TokenInv, TokenTypeOK
  <2> QED
    BY <2>1, SMT DEF TokenInv, Held, TokenHandlerOnce
<1>1. CASE Handle({c}, {}) /\ UNCHANGED <<dtls, clientOnConnected, replaced, aborted>>
  <2>1. /\ \A d \in Requests \ {c} : tokenHandled'[d] = tokenHandled[d]
        /\ tokenHandled'[c] = 1
    BY <1>0, <1>1, SMT DEF Handle, TokenInv, TokenTypeOK
  <2>2. TokenTypeOK'
    BY <1>1, SMT DEF Handle, TokenInv, TokenTypeOK
  <2>3. Owed' = Owed /\ Held'
    BY <1>1, SMTT(20) DEF TokenInv, Held, Owed
  <2>4. TokenHandlerOnce'
    BY <1>0, <1>1, <2>1, <2>3, SMTT(20) DEF TokenInv, TokenHandlerOnce
  <2> QED
    BY <2>2, <2>3, <2>4, SMTT(20) DEF TokenInv
<1>2. CASE /\ dtls' = "connecting"
           /\ clientOnConnected' = c
           /\ replaced' = replaced \cup ({clientOnConnected} \ {NoRequest})
           /\ UNCHANGED <<tokenHandled, aborted>>
  <2>2. TokenTypeOK'
    BY <1>2 DEF TokenInv, TokenTypeOK
  <2>3. /\ Owed' = pending \cup {c}
        /\ Held'
    BY <1>0, <1>2 DEF TokenInv, Held, Owed
  <2>4. Owed \subseteq Owed' \cup replaced'
    BY <1>2, <2>3, SMTT(20) DEF Owed
  <2>5. TokenHandlerOnce'
    BY <1>0, <1>2, <2>3, <2>4 DEF TokenInv, TokenHandlerOnce, Owed
  <2> QED
    BY <2>2, <2>3, <2>5 DEF TokenInv
<1>3. CASE aborted' = TRUE /\ UNCHANGED <<dtls, clientOnConnected, tokenHandled, replaced>>
  <2>1. TokenTypeOK' /\ Owed' = Owed /\ Held'
    BY <1>3, SMTT(20) DEF TokenInv, TokenTypeOK, Held, Owed
  <2>2. TokenHandlerOnce'
    BY <1>3, <2>1, <1>0 DEF TokenInv, TokenHandlerOnce
  <2> QED
    BY <2>1, <2>2 DEF TokenInv
<1> QED
  BY <1>1, <1>2, <1>3

(* The handler held becomes a request, or is called.                       *)
LEMMA ConnectedIInv == TokenInv /\ Connected => TokenInv'
<1> SUFFICES ASSUME TokenInv, Connected PROVE TokenInv'
  OBVIOUS
<1> USE TokenAssumption
<1> DEFINE c == clientOnConnected
<1>0. /\ c \in Requests /\ c \in Owed /\ c \in asked /\ tokenHandled[c] = 0
      /\ UNCHANGED <<keyIsEcdsa, asked, replaced, aborted>>
  <2>1. c \in Requests /\ c # NoRequest /\ c \in Owed
    BY DEF TokenInv, TokenTypeOK, Held, Connected, Owed
  <2>2. tokenHandled[c] \in Nat /\ c \in asked
    BY <2>1 DEF TokenInv, TokenTypeOK, Held
  <2>3. ~(tokenHandled[c] > 0)
    BY <2>1 DEF TokenInv, TokenHandlerOnce
  <2> QED
    BY <2>1, <2>2, <2>3, SMT DEF Connected
<1>1. CASE /\ dtls' = "connected" /\ clientOnConnected' = NoRequest /\ Handle({c}, {})
           /\ UNCHANGED <<pending, unsent>>
  <2>1. /\ \A d \in Requests \ {c} : tokenHandled'[d] = tokenHandled[d]
        /\ tokenHandled'[c] = 1
    BY <1>0, <1>1, SMT DEF Handle, TokenInv, TokenTypeOK
  <2>2. TokenTypeOK'
    BY <1>0, <1>1, SMT DEF Handle, TokenInv, TokenTypeOK
  <2>3. Owed' = pending /\ Held'
    BY <1>0, <1>1 DEF TokenInv, TokenTypeOK, Held, Owed
  <2>4. Owed \subseteq Owed' \cup {c}
    BY <2>3 DEF Owed
  <2>5. c \notin pending
    BY DEF TokenInv, Held
  <2>6. TokenHandlerOnce'
    <3>1. TokenHandlerOnce
      BY DEF TokenInv
    <3>2. SUFFICES ASSUME NEW d \in Requests
                   PROVE  /\ d \in asked /\ tokenHandled'[d] = 0 => d \in Owed' \cup replaced \/ aborted
                          /\ tokenHandled'[d] > 0 => d \in asked /\ d \notin Owed'
                          /\ tokenHandled'[d] > 1 => d \in unsent
      BY <1>0, <1>1 DEF TokenHandlerOnce
    <3>3. CASE d = c
      BY <3>3, <1>0, <2>1, <2>3, <2>5, SMT
    <3>4. CASE d # c
      <4>1. tokenHandled'[d] = tokenHandled[d] /\ (d \in Owed' <=> d \in Owed)
        BY <3>4, <2>1, <2>3, <2>4 DEF Owed
      <4> QED
        BY <4>1, <3>1 DEF TokenHandlerOnce
    <3> QED
      BY <3>3, <3>4
  <2> QED
    BY <2>2, <2>3, <2>6 DEF TokenInv
<1>2. CASE /\ dtls' = "connected" /\ clientOnConnected' = NoRequest /\ pending' = pending \cup {c}
           /\ UNCHANGED <<tokenHandled, unsent>>
  <2>1. TokenTypeOK'
    BY <1>0, <1>2 DEF TokenInv, TokenTypeOK
  <2>2. Owed' = Owed
    BY <1>0, <1>2 DEF Owed
  <2>3. Held'
    BY <1>0, <1>2, <2>2 DEF TokenInv, TokenTypeOK, Held
  <2>4. TokenHandlerOnce'
    BY <1>0, <1>2, <2>2 DEF TokenInv, TokenHandlerOnce
  <2> QED
    BY <2>1, <2>3, <2>4 DEF TokenInv
<1>3. CASE unsent' = unsent \cup {c} /\ ClientDisconnect({c}, {c})
  BY <1>0, <1>3, DisconnectSettles, SMTT(20) DEF TokenInv, TokenTypeOK
<1> QED
  BY <1>1, <1>2, <1>3 DEF Connected, SendTokenRequest

(* The session ends: the handler held is called.                           *)
LEMMA SessionFailsIInv == TokenInv /\ SessionFails => TokenInv'
<1> SUFFICES ASSUME TokenInv, SessionFails PROVE TokenInv'
  OBVIOUS
<1> USE TokenAssumption DEF SessionFails
<1>1. TokenTypeOK'
  BY SMT DEF TokenInv, TokenTypeOK, Handle
<1>2. Owed' = pending /\ Held'
  BY SMTT(20) DEF TokenInv, TokenTypeOK, Held, Owed
<1>3. SUFFICES ASSUME NEW d \in Requests
               PROVE  /\ d \in asked /\ tokenHandled'[d] = 0 => d \in Owed' \cup replaced \/ aborted
                      /\ tokenHandled'[d] > 0 => d \in asked /\ d \notin Owed'
                      /\ tokenHandled'[d] > 1 => d \in unsent
  BY <1>1, <1>2 DEF TokenInv, TokenHandlerOnce
<1>4. tokenHandled[d] \in Nat
  BY DEF TokenInv, TokenTypeOK
<1>5. CASE d = clientOnConnected
  <2>1. d \in Owed /\ d \in asked /\ d \notin pending
    BY <1>5, SMTT(20) DEF TokenInv, Held, Owed
  <2>2. tokenHandled[d] = 0
    BY <2>1, <1>4, SMT DEF TokenInv, TokenHandlerOnce
  <2>3. tokenHandled'[d] = 1
    BY <2>2, <1>5, SMTT(20) DEF Handle
  <2> QED
    BY <2>1, <2>3, <1>2, SMT
<1>6. CASE d # clientOnConnected
  <2>1. tokenHandled'[d] = tokenHandled[d]
    BY <1>4, <1>6, SMT DEF Handle
  <2>2. d \in Owed' <=> d \in Owed
    BY <1>2, <1>6 DEF Owed
  <2> QED
    BY <2>1, <2>2 DEF TokenInv, TokenHandlerOnce
<1> QED
  BY <1>5, <1>6

(* The requests that end, each of which disconnects.                       *)
LEMMA RequestEndsIInv ==
    ASSUME TokenInv, NEW c \in Requests,
           Response(c) \/ RequestFails(c) \/ NotRetransmitted(c) \/ CancelRequests
    PROVE  TokenInv'
<1>1. ASSUME c \in pending PROVE c \in asked /\ tokenHandled[c] = 0
  <2>1. c \in Owed /\ tokenHandled[c] \in Nat
    BY <1>1 DEF Owed, TokenInv, TokenTypeOK
  <2> QED
    BY <2>1, SMT DEF TokenInv, Held, TokenHandlerOnce
<1>2. CASE Response(c) \/ RequestFails(c)
  <2>1. /\ c \in pending /\ ClientDisconnect({c}, {})
        /\ UNCHANGED <<keyIsEcdsa, asked, replaced, unsent, aborted>>
    BY <1>2 DEF Response, RequestFails
  <2> QED
    BY <2>1, <1>1, DisconnectSettles, SMT DEF TokenInv, TokenTypeOK
<1>3. CASE NotRetransmitted(c)
  <2>1. /\ c \in pending /\ ClientDisconnect({c}, {c}) /\ unsent' = unsent \cup {c}
        /\ UNCHANGED <<keyIsEcdsa, asked, replaced, aborted>>
    BY <1>3, SMTT(20) DEF NotRetransmitted
  <2> QED
    BY <2>1, <1>1, DisconnectSettles DEF TokenInv, TokenTypeOK
<1>4. CASE CancelRequests
  <2>1. /\ ClientDisconnect({}, {})
        /\ UNCHANGED <<keyIsEcdsa, asked, replaced, unsent, aborted>>
    BY <1>4, SMTT(20) DEF CancelRequests
  <2> QED
    BY <2>1, DisconnectSettles, SMT DEF TokenInv, TokenTypeOK
<1> QED
  BY <1>2, <1>3, <1>4

(* The token plays no part.                                                *)
LEMMA UnchangedTokenInv ==
    TokenInv /\ UNCHANGED <<keyIsEcdsa, dtls, clientOnConnected, pending, asked, tokenHandled,
                        replaced, unsent, aborted>> => TokenInv'
  BY SMT DEF TokenInv, TokenTypeOK, Held, Owed, TokenHandlerOnce

(* Every step preserves the inductive invariant.                           *)
LEMMA NextTokenInv == TokenInv /\ [TokenNext]_managerVars => TokenInv'
<1> SUFFICES ASSUME TokenInv, [TokenNext]_managerVars PROVE TokenInv'
  OBVIOUS
<1>1. ASSUME NEW c \in Requests, RequestToken(c) PROVE TokenInv'
  BY <1>1, RequestTokenIInv
<1>2. ASSUME NEW c \in Requests, Response(c) \/ RequestFails(c) \/ NotRetransmitted(c) PROVE TokenInv'
  BY <1>2, RequestEndsIInv
<1>3. CASE CancelRequests
  <2>1. PICK c \in pending : TRUE
    BY <1>3 DEF CancelRequests
  <2>2. c \in Requests
    BY <2>1 DEF TokenInv, TokenTypeOK
  <2> QED
    BY <1>3, <2>2, RequestEndsIInv
<1>4. CASE Connected \/ SessionFails
  BY <1>4, ConnectedIInv, SessionFailsIInv
<1>5. CASE (\E t \in Tokens : UserSetsToken(t)) \/ SignMessage \/ UNCHANGED managerVars
  BY <1>5, UnchangedTokenInv DEF UserSetsToken, SignMessage, managerVars
<1> QED
  BY <1>1, <1>2, <1>3, <1>4, <1>5 DEF TokenNext

-----------------------------------------------------------------------------
(* The state of the requests and of the registrar's session is well typed  *)
(* (TokenTypeOK), for any number of calls (token_manager.hpp).             *)
THEOREM TokenTypeCorrect == TokenSpec => []TokenTypeOK
<1>1. TokenInv => TokenTypeOK
  BY DEF TokenInv
<1> QED
  BY <1>1, InitTokenInv, NextTokenInv, PTL DEF TokenSpec

(* The handler of every RequestToken is called once (TokenHandlerOnce),    *)
(* for any number of calls (token_manager.cpp:144-211).                    *)
THEOREM TokenHandlerCalled == TokenSpec => []TokenHandlerOnce
<1>1. TokenInv => TokenHandlerOnce
  BY DEF TokenInv
<1> QED
  BY <1>1, InitTokenInv, NextTokenInv, PTL DEF TokenSpec

(* The session with the registrar is given back (RegistrarReleased), for   *)
(* any number of calls (token_manager.cpp:160-211).                        *)
THEOREM SessionGivenBack == TokenSpec => []RegistrarReleased
<1>1. TokenInit => RegistrarReleased
  BY DEF TokenInit, RegistrarReleased
<1>2. RegistrarReleased /\ [TokenNext]_managerVars => RegistrarReleased'
  <2> SUFFICES ASSUME RegistrarReleased, [TokenNext]_managerVars PROVE RegistrarReleased'
    OBVIOUS
  <2>1. ASSUME dtls' = "open" PROVE RegistrarReleased'
    BY <2>1 DEF RegistrarReleased
  <2>2. ASSUME NEW c \in Requests, RequestToken(c) PROVE RegistrarReleased'
    BY <2>2 DEF RequestToken, RegistrarReleased
  <2>3. CASE Connected
    BY <2>3, <2>1 DEF Connected, SendTokenRequest, MakeTokenRequest, ClientDisconnect, RegistrarReleased
  <2>4. CASE CancelRequests \/ SessionFails
    BY <2>4, <2>1 DEF CancelRequests, SessionFails, ClientDisconnect
  <2>5. ASSUME NEW c \in Requests, Response(c) \/ RequestFails(c) \/ NotRetransmitted(c)
        PROVE  RegistrarReleased'
    BY <2>5, <2>1 DEF Response, RequestFails, NotRetransmitted, ClientDisconnect
  <2>6. CASE (\E t \in Tokens : UserSetsToken(t)) \/ SignMessage \/ UNCHANGED managerVars
    BY <2>6 DEF UserSetsToken, SignMessage, managerVars, RegistrarReleased
  <2> QED
    BY <2>2, <2>3, <2>4, <2>5, <2>6 DEF TokenNext
<1> QED
  BY <1>1, <1>2, PTL DEF TokenSpec

(* DtlsSession::Connect asserts in a RequestToken only while another is    *)
(* being dealt with, or with a key that cannot sign.                       *)
THEOREM OneRequestIsSafe == TokenSpec => OneAtATimeIsSafe
<1>1. TokenInv /\ RegistrarReleased /\ [TokenNext]_managerVars
        => [aborted' /\ ~aborted => Owed # {} \/ ~keyIsEcdsa]_managerVars
  <2> SUFFICES ASSUME TokenInv, RegistrarReleased, [TokenNext]_managerVars, aborted', ~aborted
               PROVE  Owed # {} \/ ~keyIsEcdsa
    OBVIOUS
  <2>1. dtls # "open"
    BY DEF TokenNext, managerVars, RequestToken, Response, RequestFails, NotRetransmitted, Connected,
           SessionFails, CancelRequests, UserSetsToken, SignMessage
  <2>2. CASE dtls = "connecting"
    BY <2>2 DEF TokenInv, Held, Owed
  <2>3. CASE dtls = "connected"
    BY <2>3 DEF RegistrarReleased, Owed
  <2> QED
    BY <2>1, <2>2, <2>3 DEF TokenInv, TokenTypeOK
<1> QED
  BY <1>1, InitTokenInv, NextTokenInv, SessionGivenBack, PTL DEF TokenSpec, OneAtATimeIsSafe

(* The token in force is one that was validated (TokenInForce), whatever   *)
(* tokens there are (token_manager.cpp:213-239).                           *)
THEOREM TokenValidated == TokenSpec => []TokenInForce
<1>1. TokenInit => TokenInForce
  BY DEF TokenInit, TokenInForce
<1>2. TokenInForce /\ [TokenNext]_managerVars => TokenInForce'
  <2> SUFFICES ASSUME TokenInForce, [TokenNext]_managerVars PROVE TokenInForce'
    OBVIOUS
  <2>1. ASSUME UNCHANGED mSignedToken PROVE TokenInForce'
    BY <2>1 DEF TokenInForce, ValidateToken, GetKeyId
  <2>2. ASSUME NEW t \in Tokens, NEW b, SetToken(t, b) PROVE TokenInForce'
    BY <2>2, <2>1 DEF SetToken, tokenVars, TokenInForce, ValidateToken, GetKeyId
  <2>3. ASSUME NEW c \in Requests, Response(c) PROVE TokenInForce'
    BY <2>3, <2>1, <2>2 DEF Response, tokenVars
  <2>4. ASSUME NEW t \in Tokens, UserSetsToken(t) PROVE TokenInForce'
    BY <2>4, <2>2 DEF UserSetsToken
  <2>5. ASSUME NEW c \in Requests, RequestToken(c) \/ RequestFails(c) \/ NotRetransmitted(c)
        PROVE  TokenInForce'
    BY <2>5, <2>1 DEF RequestToken, RequestFails, NotRetransmitted, tokenVars
  <2>6. CASE Connected \/ SessionFails \/ CancelRequests \/ SignMessage \/ UNCHANGED managerVars
    BY <2>6, <2>1 DEF Connected, SessionFails, CancelRequests, SignMessage, managerVars, tokenVars
  <2> QED
    BY <2>3, <2>4, <2>5, <2>6 DEF TokenNext
<1> QED
  BY <1>1, <1>2, PTL DEF TokenSpec
=============================================================================
