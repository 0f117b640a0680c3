------------------------------- MODULE Coap -------------------------------
(***************************************************************************)
(* The client half of class Coap (library/coap.cpp): outstanding requests, *)
(* their retransmission timer, the matching of responses, and the          *)
(* finalisation of a transaction, which runs a user handler that may call  *)
(* back into the same Coap object.                                         *)
(*                                                                         *)
(* Everything runs on one libevent thread.  "stack" is that thread's call  *)
(* stack below the event loop: the loop delivers the next event (a user    *)
(* call, a received message, the timer) only when the stack is empty.      *)
(***************************************************************************)
EXTENDS Naturals, Sequences

CONSTANTS
    Reqs,           \* requests a run may send, each at most once
    IdSpace,        \* number of CoAP message ids, 2^16 in the code
    MaxRetransmit,  \* kMaxRetransmit
    AckTimeouts,    \* delays the constructor of RequestHolder may draw
    ReqTypes,       \* message types a user asks for
    Scripts,        \* what a response handler does: sequences of calls
    NullHandler,    \* may a user pass a null handler
    SendMayFail,    \* may Endpoint::Send return an error
    NoResponse,     \* what a handler is given when there is no response
    MaxTime,        \* bound on the time that passes with no timer running
    MaxLate         \* bound on how late the loop runs a due timer

ASSUME CoapAssumption ==
    /\ IdSpace \in Nat \ {0}
    /\ MaxRetransmit \in Nat
    /\ AckTimeouts \subseteq Nat \ {0}
    /\ ReqTypes \subseteq {"con", "non", "bad"}
    /\ Scripts \subseteq Seq({"send", "cancel"})
    /\ NullHandler \in BOOLEAN
    /\ SendMayFail \in BOOLEAN
    /\ NoResponse \notin Reqs
    /\ MaxTime \in Nat
    /\ MaxLate \in Nat

VARIABLES
    now,        \* Clock::now()
    mMessageId, \* last message id allocated
    req,        \* req[r]: what the user asked for, once r was sent
    mContainer, \* RequestsCache::mContainer, keyed by mRequest
    timer,      \* mRetransmissionTimer
    stack,      \* frames of the running callback, innermost last
    called,     \* called[r]: how often r's handler was called
    answer,     \* answer[r]: token of the response given to r's handler
    sends       \* sends[r]: how often r was handed to the endpoint

vars == <<now, mMessageId, req, mContainer, timer, stack, called, answer,
          sends>>

-----------------------------------------------------------------------------
(* The request a user passes to SendRequest; "unsent" before the call.     *)
Unsent == [type |-> "unsent", id |-> 0, handler |-> FALSE, script |-> <<>>]

RequestRecord ==
    [type : {"unsent", "con", "non", "bad"}, id : Nat, handler : BOOLEAN,
     script : Seq({"send", "cancel"})]

(* Coap::RequestHolder without mRequest, which is the key of mContainer.   *)
RequestHolder ==
    [handler : BOOLEAN, count : Nat, delay : Nat, shot : Nat, acked : BOOLEAN]

(* A frame: a user handler with the calls it has still to make, the rest   *)
(* of FinalizeTransaction after the handler (ref: its argument is a        *)
(* reference into mContainer), the loop of CancelRequests, or the loop of  *)
(* Retransmit.                                                             *)
Handler(r, s) == [op |-> "handler", req |-> r, todo |-> s]
Eliminating(r, ref) == [op |-> "eliminate", req |-> r, ref |-> ref]
Cancelling == [op |-> "cancel"]
Retransmitting == [op |-> "retransmit"]

Top == stack[Len(stack)]
Callers == SubSeq(stack, 1, Len(stack) - 1)
Idle == stack = <<>>
Running(op) == stack # <<>> /\ Top.op = op

Sent == {r \in Reqs : req[r].type # "unsent"}
Pending == DOMAIN mContainer

(* A stopped timer has no meaningful fire time.                            *)
Stopped == [running |-> FALSE, fire |-> 0]

Init ==
    /\ now = 0
    /\ mMessageId = 0
    /\ req = [r \in Reqs |-> Unsent]
    /\ mContainer = [r \in {} |-> Unsent]
    /\ timer = Stopped
    /\ stack = <<>>
    /\ called = [r \in Reqs |-> 0]
    /\ answer = [r \in Reqs |-> NoResponse]
    /\ sends = [r \in Reqs |-> 0]

-----------------------------------------------------------------------------
(* The requests cache.                                                     *)

With(c, r, h) == [q \in DOMAIN c \cup {r} |-> IF q = r THEN h ELSE c[q]]
Without(c, r) == [q \in DOMAIN c \ {r} |-> c[q]]

(* r is at the front of mContainer: no holder is due earlier.  Holders due *)
(* at the same time are taken in any order.                                *)
IsFront(c, r) == r \in DOMAIN c /\ \A q \in DOMAIN c : c[r].shot <= c[q].shot

Earliest(c) == c[CHOOSE r \in DOMAIN c : IsFront(c, r)].shot

(* Mutant: a running timer is never brought forward.                       *)
UpdateTimerOnceStarted(c, t) ==
    IF DOMAIN c = {} THEN Stopped
    ELSE IF ~t.running THEN [running |-> TRUE, fire |-> Earliest(c)] ELSE t

UpdateTimer(c, t) ==
    IF DOMAIN c = {} THEN Stopped
    ELSE IF ~t.running \/ Earliest(c) < t.fire
         THEN [running |-> TRUE, fire |-> Earliest(c)]
         ELSE t

(* Put and the two Eliminate: change the container, then update the timer. *)
Put(r, h) ==
    /\ mContainer' = With(mContainer, r, h)
    /\ timer' = UpdateTimer(mContainer', timer)

(* Mutant: the front holder is erased instead of the one given.            *)
EliminateFront(r) ==
    /\ \E q \in Pending : IsFront(mContainer, q) /\ mContainer' = Without(mContainer, q)
    /\ timer' = UpdateTimer(mContainer', timer)

Eliminate(r) ==
    /\ mContainer' = Without(mContainer, r)
    /\ timer' = UpdateTimer(mContainer', timer)

NewHolder(h, d) ==
    [handler |-> h, count |-> 0, delay |-> d, shot |-> now + d, acked |-> FALSE]

-----------------------------------------------------------------------------
(* Endpoint::Send, through Coap::Send: it succeeds or returns an error.    *)
SendResult == IF SendMayFail THEN BOOLEAN ELSE {TRUE}

AllocMessageId == (mMessageId + 1) % IdSpace

CallHandler(r, s, resp, frames) ==
    /\ called' = [called EXCEPT ![r] = @ + 1]
    /\ answer' = [answer EXCEPT ![r] = resp]
    /\ stack' = Append(frames, Handler(r, s))

NoHandlerCall(frames) == stack' = frames /\ UNCHANGED <<called, answer>>

(* Coap::SendRequest, called by the user or by a handler; "frames" is the  *)
(* stack the call returns to.                                              *)
SendRequest(r, type, h, s, frames) ==
    /\ r \notin Sent
    /\ LET id == IF type = "bad" THEN 0 ELSE AllocMessageId
       IN /\ req' = [req EXCEPT ![r] =
                       [type |-> type, id |-> id, handler |-> h, script |-> s]]
          /\ mMessageId' = IF type = "bad" THEN mMessageId ELSE id
    /\ \/ /\ type # "bad"
          /\ TRUE \in SendResult
          /\ sends' = [sends EXCEPT ![r] = @ + 1]
          /\ IF type = "con"
             THEN \E d \in AckTimeouts : Put(r, NewHolder(h, d))
             ELSE UNCHANGED <<mContainer, timer>>
          /\ NoHandlerCall(frames)
       \/ /\ type = "bad" \/ FALSE \in SendResult
          /\ IF h THEN CallHandler(r, s, NoResponse, frames) ELSE NoHandlerCall(frames)
          /\ UNCHANGED <<mContainer, timer, sends>>
    /\ UNCHANGED now

SendAny(frames) ==
    \E r \in Reqs, type \in ReqTypes, s \in Scripts, h \in {TRUE, ~NullHandler} :
        SendRequest(r, type, h, s, frames)

(* Coap::FinalizeTransaction on a holder inside mContainer.                *)
FinalizeInPlace(r, resp, frames) ==
    IF mContainer[r].handler
    THEN /\ mContainer' = [mContainer EXCEPT ![r].handler = FALSE]
         /\ CallHandler(r, req[r].script, resp, Append(frames, Eliminating(r, TRUE)))
         /\ UNCHANGED timer
    ELSE /\ Eliminate(r)
         /\ NoHandlerCall(frames)

(* Coap::FinalizeTransaction on Retransmit's local copy of a holder: c and *)
(* t are the container and the timer at the call.  The handler cleared is  *)
(* the copy's.                                                             *)
FinalizeCopy(r, c, t) ==
    IF mContainer[r].handler
    THEN /\ mContainer' = c
         /\ timer' = t
         /\ CallHandler(r, req[r].script, NoResponse, Append(stack, Eliminating(r, FALSE)))
    ELSE /\ mContainer' = Without(c, r)
         /\ timer' = UpdateTimer(mContainer', t)
         /\ NoHandlerCall(stack)

-----------------------------------------------------------------------------
(* Events: the user's calls.                                               *)

UserSend == Idle /\ SendAny(<<>>)

UserCancel ==
    /\ Idle
    /\ stack' = <<Cancelling>>
    /\ UNCHANGED <<now, mMessageId, req, mContainer, timer, called, answer, sends>>

(* One turn of the loop of Coap::CancelRequests, or its end.               *)
CancelRequests ==
    /\ Running("cancel")
    /\ \/ /\ Pending = {}
          /\ stack' = Callers
          /\ UNCHANGED <<mContainer, timer, called, answer>>
       \/ \E r \in Pending :
             /\ IsFront(mContainer, r)
             /\ FinalizeInPlace(r, NoResponse, stack)
    /\ UNCHANGED <<now, mMessageId, req, sends>>

-----------------------------------------------------------------------------
(* The user's response handler: it makes its calls, then returns.          *)

HandlerFrames == Append(Callers, [Top EXCEPT !.todo = Tail(@)])

HandlerSends ==
    /\ Running("handler") /\ Top.todo # <<>> /\ Head(Top.todo) = "send"
    /\ \/ SendAny(HandlerFrames)
       \/ /\ Sent = Reqs
          /\ stack' = HandlerFrames
          /\ UNCHANGED <<now, mMessageId, req, mContainer, timer, called, answer, sends>>

HandlerCancels ==
    /\ Running("handler") /\ Top.todo # <<>> /\ Head(Top.todo) = "cancel"
    /\ stack' = Append(HandlerFrames, Cancelling)
    /\ UNCHANGED <<now, mMessageId, req, mContainer, timer, called, answer, sends>>

HandlerReturns ==
    /\ Running("handler") /\ Top.todo = <<>>
    /\ stack' = Callers
    /\ UNCHANGED <<now, mMessageId, req, mContainer, timer, called, answer, sends>>

(* Mutant: FinalizeTransaction does not eliminate the holder.              *)
FinalizeKeepsHolder ==
    /\ Running("eliminate")
    /\ stack' = Callers
    /\ UNCHANGED <<now, mMessageId, req, mContainer, timer, called, answer, sends>>

(* The last line of FinalizeTransaction: Eliminate the holder it was       *)
(* given.  When that holder was a reference to a node its own handler has  *)
(* caused to be erased, and the container is not empty, the comparison     *)
(* reads freed memory and may take any node for the one looked for.        *)
FinalizeReturns ==
    /\ Running("eliminate")
    /\ \/ Eliminate(Top.req)
       \/ /\ Top.ref /\ Top.req \notin Pending
          /\ \E q \in Pending : Eliminate(q)
    /\ stack' = Callers
    /\ UNCHANGED <<now, mMessageId, req, called, answer, sends>>

-----------------------------------------------------------------------------
(* Events: the retransmission timer.                                       *)

(* Timer::HandleEvent disables the timer, then runs Coap::Retransmit.      *)
TimerFires ==
    /\ Idle
    /\ timer.running /\ timer.fire <= now
    /\ timer' = Stopped
    /\ stack' = <<Retransmitting>>
    /\ UNCHANGED <<now, mMessageId, req, mContainer, called, answer, sends>>

(* Mutant: the acknowledgement is forgotten.                               *)
BackoffForgetsAck(h) ==
    [h EXCEPT !.count = @ + 1, !.delay = 2 * @, !.shot = now + 2 * h.delay,
              !.acked = FALSE]

Backoff(h) ==
    [h EXCEPT !.count = @ + 1, !.delay = 2 * @, !.shot = now + 2 * h.delay]

(* One turn of the loop of Coap::Retransmit: the front holder is due.      *)
Retransmit(r) ==
    /\ Running("retransmit")
    /\ IsFront(mContainer, r)
    /\ mContainer[r].shot < now
    /\ LET popped == Without(mContainer, r)
           t1 == UpdateTimer(popped, timer)
           again == With(popped, r, Backoff(mContainer[r]))
           t2 == UpdateTimer(again, t1)
       IN IF mContainer[r].count < MaxRetransmit
          THEN \/ /\ mContainer[r].acked
                  /\ mContainer' = again /\ timer' = t2
                  /\ NoHandlerCall(stack)
                  /\ UNCHANGED sends
               \/ /\ ~mContainer[r].acked /\ TRUE \in SendResult
                  /\ mContainer' = again /\ timer' = t2
                  /\ NoHandlerCall(stack)
                  /\ sends' = [sends EXCEPT ![r] = @ + 1]
               \/ /\ ~mContainer[r].acked /\ FALSE \in SendResult
                  /\ FinalizeCopy(r, again, t2)
                  /\ UNCHANGED sends
          ELSE FinalizeCopy(r, popped, t1) /\ UNCHANGED sends
    /\ UNCHANGED <<now, mMessageId, req>>

(* Mutant: Retransmit does not end with UpdateTimer.                       *)
RetransmitStopsTimer ==
    /\ Running("retransmit")
    /\ \A r \in Pending : mContainer[r].shot >= now
    /\ stack' = Callers
    /\ UNCHANGED <<now, mMessageId, req, mContainer, timer, called, answer, sends>>

(* The end of Coap::Retransmit.                                            *)
RetransmitReturns ==
    /\ Running("retransmit")
    /\ \A r \in Pending : mContainer[r].shot >= now
    /\ timer' = UpdateTimer(mContainer, timer)
    /\ stack' = Callers
    /\ UNCHANGED <<now, mMessageId, req, mContainer, called, answer, sends>>

-----------------------------------------------------------------------------
(* Events: a message that is not a request arrives.  The peer answers any  *)
(* request it was ever sent, late, again or not at all.                    *)

Response == [type : {"rst", "ack", "con", "non"}, empty : BOOLEAN,
             id : {req[r].id : r \in Sent}, token : Sent]

(* RequestsCache::Match looks for the message id of a reset or an          *)
(* acknowledgement, and for the token of a separate response.              *)
Matches(m, r) == IF m.type \in {"rst", "ack"} THEN req[r].id = m.id ELSE m.token = r

Matched(m, r) ==
    /\ r \in Pending /\ Matches(m, r)
    /\ \A q \in Pending : Matches(m, q) => mContainer[r].shot <= mContainer[q].shot

(* Mutant: the token of a piggybacked response is not compared.            *)
AnyPiggybacked(m, r) == m.type = "ack" /\ ~m.empty

(* An acknowledgement that carries a response carries the token too.       *)
Piggybacked(m, r) == m.type = "ack" /\ ~m.empty /\ m.token = r

(* Coap::HandleResponse, when a pending request matches; otherwise the     *)
(* state of the client does not change.                                    *)
HandleResponse(m, r) ==
    /\ Idle
    /\ Matched(m, r)
    /\ \/ /\ m.type = "rst" /\ m.empty
          /\ FinalizeInPlace(r, NoResponse, <<>>)
       \/ /\ m.type = "ack" /\ m.empty
          /\ IF mContainer[r].handler
             THEN /\ mContainer' = [mContainer EXCEPT ![r].acked = TRUE]
                  /\ UNCHANGED timer
             ELSE Eliminate(r)
          /\ NoHandlerCall(<<>>)
       \/ /\ Piggybacked(m, r)
          /\ FinalizeInPlace(r, m.token, <<>>)
       \/ /\ m.type \in {"con", "non"}
          /\ FinalizeInPlace(r, m.token, <<>>)
    /\ UNCHANGED <<now, mMessageId, req, sends>>

Receive == \E m \in Response, r \in Pending : HandleResponse(m, r)

(* Time passes between callbacks.                                          *)
Tick ==
    /\ Idle
    /\ now < MaxTime \/ timer.running
    /\ timer.running => now < timer.fire + MaxLate
    /\ now' = now + 1
    /\ UNCHANGED <<mMessageId, req, mContainer, timer, stack, called, answer, sends>>

-----------------------------------------------------------------------------
Callback ==
    \/ CancelRequests
    \/ HandlerSends
    \/ HandlerCancels
    \/ HandlerReturns
    \/ FinalizeReturns
    \/ \E r \in Pending : Retransmit(r)
    \/ RetransmitReturns

Next ==
    \/ UserSend
    \/ UserCancel
    \/ Receive
    \/ TimerFires
    \/ Tick
    \/ Callback

Spec == Init /\ [][Next]_vars

(* A running callback returns, libevent serves a due timer on each turn of *)
(* its loop, and time passes however busy the loop is (strong fairness: a  *)
(* timer that fires on the very tick its holder is due restarts itself     *)
(* until the clock moves on).  Nothing is assumed of the user or the peer. *)
Fairness == WF_vars(Callback) /\ WF_vars(TimerFires) /\ SF_vars(Tick)

FairSpec == Spec /\ Fairness

-----------------------------------------------------------------------------
Frame ==
    [op : {"handler"}, req : Reqs, todo : Seq({"send", "cancel"})]
      \cup [op : {"eliminate"}, req : Reqs, ref : BOOLEAN]
      \cup [op : {"cancel", "retransmit"}]

(* Every variable has its type; the container's keys are confirmable       *)
(* requests that were sent.                                                *)
TypeOK ==
    /\ now \in Nat
    /\ mMessageId \in 0..(IdSpace - 1)
    /\ req \in [Reqs -> RequestRecord]
    /\ Pending \subseteq {r \in Reqs : req[r].type = "con"}
    /\ mContainer \in [Pending -> RequestHolder]
    /\ timer \in [running : BOOLEAN, fire : Nat]
    /\ stack \in Seq(Frame)
    /\ called \in [Reqs -> Nat]
    /\ answer \in [Reqs -> Reqs \cup {NoResponse}]
    /\ sends \in [Reqs -> Nat]

(* RequestsCache::UpdateTimer: while a request is outstanding the timer is *)
(* running and fires no later than the earliest holder is due, even while  *)
(* user handlers run; only on entry to Retransmit is the timer stopped.    *)
(* Otherwise a request would wait for the next unrelated call to be        *)
(* retransmitted.                                                          *)
TimerCoversPending ==
    Pending # {} =>
        \/ /\ timer.running
           /\ \A r \in Pending : timer.fire <= mContainer[r].shot
        \/ stack = <<Retransmitting>>

(* coap.cpp:877, "Set this handler to null to stop a handler being         *)
(* recalled": no response handler is called twice, whatever requests the   *)
(* handlers send from within, if none of them cancels.  The comment in the *)
(* code says "anything", but Retransmit finalises a copy of its holder     *)
(* (coap.cpp:788): the handler of a request that could not be sent again   *)
(* is still in the cache, and is called a second time if it cancels.       *)
HandlerCalledAtMostOnce == \A r \in Reqs : called[r] <= 1

(* coap.hpp:624, "If `aRequest` is confirmable, `aHandler` is guaranteed   *)
(* to be called": until it was called, the request is in the cache with    *)
(* its handler, so that a response, the timer or a cancel will call it.    *)
NoRequestForgotten ==
    \A r \in Reqs :
        req[r].type = "con" /\ req[r].handler /\ called[r] = 0 =>
            r \in Pending /\ mContainer[r].handler

(* HandleResponse gives a handler only the response that carries the token *)
(* of its own request, though acknowledgements are matched by message id   *)
(* and two requests outstanding may have the same one: the id wraps around *)
(* (coap.cpp:726).                                                         *)
AnswersItsRequest == \A r \in Reqs : answer[r] \in {NoResponse, r}

(* Retransmit sends a request at most kMaxRetransmit times again, and      *)
(* never once its acknowledgement has arrived: a request stays             *)
(* acknowledged as Retransmit takes it out of the cache and puts it back.  *)
NoSendAfterAck ==
    [][/\ \A r \in Reqs : sends'[r] <= 1 + MaxRetransmit
       /\ \A r \in Pending :
            mContainer[r].acked => /\ sends'[r] = sends[r]
                                   /\ r \in Pending' => mContainer'[r].acked]_vars

-----------------------------------------------------------------------------
(* The promise of Coap::SendRequest as the client's state shows it.        *)
OutcomeOf(r) ==
    IF r \notin Sent THEN "idle"
    ELSE IF called[r] = 0
         THEN IF req[r].type = "con" /\ req[r].handler THEN "open" ELSE "void"
    ELSE IF called[r] = 1 /\ answer[r] = NoResponse THEN "failed"
    ELSE IF called[r] = 1 /\ answer[r] = r THEN "answered"
    ELSE "broken"

Outcome == [r \in Reqs |-> OutcomeOf(r)]

Promise == INSTANCE Transactions WITH outcome <- Outcome

(* coap.hpp:624 in full: the retransmitting, re-entrant client implements  *)
(* the promise that each handler owed a call is called exactly once, with  *)
(* the response to its own request or an error, and eventually is.         *)
KeepsPromise == Promise!FairSpec
=============================================================================
