----------------------------- MODULE CoapProofs -----------------------------
(***************************************************************************)
(* Proofs about the client half of Coap, for every set of requests and     *)
(* every value of the timing constants: the retransmission timer covers    *)
(* what is pending, a handler gets the response to its own request and is  *)
(* called at most once, an acknowledged request is not sent again, and the *)
(* client implements the promise of SendRequest that Transactions states.  *)
(***************************************************************************)
EXTENDS Coap, WellFoundedInduction, TLAPS

(* Most leaves are first-order and set reasoning, which is Zenon's; those  *)
(* that need arithmetic, records or functions cite SMT.                    *)
USE Zenon

Timers == [running : BOOLEAN, fire : Nat]

(* A nonempty requests cache has a front: RequestsCache::Earliest is well  *)
(* defined on it.                                                          *)
LEMMA FrontExists ==
    ASSUME NEW D, D # {}, NEW c \in [D -> RequestHolder]
    PROVE  \E r \in D : IsFront(c, r)
<1> DEFINE Shots == {c[r].shot : r \in D}
           R == OpToRel(<, Nat)
<1>1. Shots # {} /\ Shots \subseteq Nat
  BY DEF RequestHolder
<1>2. IsWellFoundedOn(R, Nat)
  BY NatLessThanWellFounded
<1>3. \E x \in Shots : \A y \in Shots : ~(<<y, x>> \in R)
  <2> HIDE DEF R, Shots
  <2> QED BY <1>1, <1>2, WFMin
<1>4. PICK x \in Shots : \A y \in Shots : ~(<<y, x>> \in R)
  BY <1>3
<1>5. \A y \in Shots : x <= y
  <2>1. \A y \in Nat : y < x => <<y, x>> \in R
    BY <1>1, <1>4 DEF OpToRel
  <2> HIDE DEF R, Shots
  <2>2. \A y \in Shots : x \in Nat /\ y \in Nat /\ ~(y < x)
    BY <1>1, <1>4, <2>1
  <2> QED BY <2>2, SMT
<1>6. PICK r \in D : x = c[r].shot
  BY <1>4
<1>7. \A q \in D : c[r].shot <= c[q].shot
  BY <1>5, <1>6
<1> QED BY <1>6, <1>7 DEF IsFront

(* After UpdateTimer the timer is running and fires no later than any      *)
(* holder in the cache is due, whatever state it was in.                   *)
LEMMA UpdateTimerCovers ==
    ASSUME NEW D, NEW c \in [D -> RequestHolder], NEW t \in Timers
    PROVE  /\ UpdateTimer(c, t) \in Timers
           /\ D # {} => /\ UpdateTimer(c, t).running
                        /\ \A r \in D : UpdateTimer(c, t).fire <= c[r].shot
<1>1. CASE D = {}
  BY <1>1 DEF UpdateTimer, Timers, Stopped
<1>2. CASE D # {}
  <2> DEFINE f == CHOOSE r \in DOMAIN c : IsFront(c, r)
  <2>1. f \in D /\ IsFront(c, f)
    BY <1>2, FrontExists
  <2>2. /\ Earliest(c) = c[f].shot
        /\ Earliest(c) \in Nat
        /\ \A r \in D : Earliest(c) <= c[r].shot
    <3>1. Earliest(c) = c[f].shot
      BY DEF Earliest
    <3> QED BY <2>1, <3>1 DEF IsFront, RequestHolder
  <2>3. \A r \in D : c[r].shot \in Nat
    BY DEF RequestHolder
  <2> DEFINE e == Earliest(c)
  <2>4. CASE ~t.running \/ e < t.fire
    <3>1. UpdateTimer(c, t) = [running |-> TRUE, fire |-> e]
      BY <1>2, <2>4 DEF UpdateTimer
    <3> HIDE DEF e
    <3> QED BY <2>2, <3>1, SMT DEF Timers, e
  <2>5. CASE t.running /\ ~(e < t.fire)
    <3>1. UpdateTimer(c, t) = t
      BY <1>2, <2>5 DEF UpdateTimer
    <3>2. t.fire \in Nat /\ t.fire <= e
      BY <2>2, <2>5, SMT DEF Timers
    <3> HIDE DEF e
    <3>3. \A r \in D : t.fire <= c[r].shot
      BY <2>2, <2>3, <3>2, SMT DEF e
    <3> QED BY <2>5, <3>1, <3>3
  <2> QED BY <2>4, <2>5
<1> QED BY <1>1, <1>2

-----------------------------------------------------------------------------
(* The call stack.                                                         *)

(* The frames the callbacks push are frames.                               *)
LEMMA FramesTyped ==
    /\ \A r \in Reqs, s \in Seq({"send", "cancel"}) : Handler(r, s) \in Frame
    /\ \A r \in Reqs, ref \in BOOLEAN : Eliminating(r, ref) \in Frame
    /\ Cancelling \in Frame
    /\ Retransmitting \in Frame
BY DEF Handler, Eliminating, Cancelling, Retransmitting, Frame

(* A callback that returns leaves the frames below its own.                *)
LEMMA CallersTyped ==
    ASSUME stack \in Seq(Frame), stack # <<>>
    PROVE  /\ Len(stack) \in Nat \ {0}
           /\ Top \in Frame
           /\ Callers \in Seq(Frame)
           /\ Len(Callers) = Len(stack) - 1
           /\ \A i \in 1..(Len(stack) - 1) : Callers[i] = stack[i]
<1>1. Len(stack) \in Nat \ {0}
  BY SMT
<1>2. \A i \in 1..Len(stack) : stack[i] \in Frame
  BY SMT
<1>3. \A i \in 1..(Len(stack) - 1) : stack[i] \in Frame
  BY <1>1, <1>2, SMT
<1> DEFINE n == Len(stack) - 1
<1>4. n \in Int /\ n >= 0
  BY <1>1, SMT
<1>5. /\ SubSeq(stack, 1, n) \in Seq(Frame)
      /\ Len(SubSeq(stack, 1, n)) = IF 1 <= n THEN n - 1 + 1 ELSE 0
      /\ \A i \in 1 .. n - 1 + 1 : SubSeq(stack, 1, n)[i] = stack[1 + i - 1]
  <2> HIDE DEF n
  <2>1. \A i \in 1..n : stack[i] \in Frame
    BY <1>3 DEF n
  <2> QED BY <1>4, <2>1, SMT
<1>6. Callers = SubSeq(stack, 1, n)
  BY DEF Callers
<1>7. Top \in Frame
  BY <1>1, <1>2, SMT DEF Top
<1> QED
  <2> HIDE DEF n
  <2>1. Len(Callers) = n
    BY <1>4, <1>5, <1>6, SMT
  <2>2. \A i \in 1..n : Callers[i] = stack[i]
    <3> TAKE i \in 1..n
    <3>1. i \in 1 .. n - 1 + 1 /\ 1 + i - 1 = i
      BY <1>4, SMT
    <3> QED BY <1>5, <1>6, <3>1
  <2> QED BY <1>1, <1>5, <1>6, <1>7, <2>1, <2>2 DEF n

(* A handler that makes its next call keeps its place on the stack.        *)
LEMMA HandlerFramesTyped ==
    ASSUME stack \in Seq(Frame), Running("handler"), Top.todo # <<>>
    PROVE  /\ HandlerFrames \in Seq(Frame)
           /\ HandlerFrames # <<>>
           /\ Len(HandlerFrames) = Len(stack)
           /\ \A i \in 1..(Len(stack) - 1) : HandlerFrames[i] = stack[i]
           /\ HandlerFrames[Len(stack)] = [Top EXCEPT !.todo = Tail(@)]
<1> DEFINE f == [Top EXCEPT !.todo = Tail(@)]
<1>1. stack # <<>> /\ Top.op = "handler"
  BY DEF Running
<1>2. Top \in [op : {"handler"}, req : Reqs, todo : Seq({"send", "cancel"})]
  BY <1>1, CallersTyped DEF Frame
<1>3. Tail(Top.todo) \in Seq({"send", "cancel"})
  BY <1>2, SMT
<1>4. f \in Frame
  BY <1>2, <1>3 DEF Frame
<1>5. /\ Append(Callers, f) \in Seq(Frame)
      /\ Append(Callers, f) # <<>>
      /\ Len(Append(Callers, f)) = Len(Callers) + 1
      /\ \A i \in 1..Len(Callers) : Append(Callers, f)[i] = Callers[i]
      /\ Append(Callers, f)[Len(Callers) + 1] = f
  <2> HIDE DEF f
  <2> QED BY <1>1, <1>4, CallersTyped, SMT
<1>6. HandlerFrames = Append(Callers, f)
  BY DEF HandlerFrames
<1> HIDE DEF f
<1>7. /\ Len(stack) \in Nat \ {0}
      /\ Len(Callers) = Len(stack) - 1
      /\ \A i \in 1..(Len(stack) - 1) : Callers[i] = stack[i]
  BY <1>1, CallersTyped
<1>8. Len(Callers) + 1 = Len(stack)
  BY <1>7, SMT
<1> QED BY <1>5, <1>6, <1>7, <1>8 DEF f

-----------------------------------------------------------------------------
(* The requests cache and its timer.                                       *)

(* The timer is running and due no later than any holder in the cache.     *)
Covered ==
    Pending # {} => /\ timer.running
                    /\ \A r \in Pending : timer.fire <= mContainer[r].shot

(* A change of the cache that ends with UpdateTimer leaves it covered.     *)
LEMMA CacheStep ==
    ASSUME NEW D, mContainer' \in [D -> RequestHolder],
           NEW t \in Timers, timer' = UpdateTimer(mContainer', t)
    PROVE  Pending' = D /\ timer' \in Timers /\ Covered'
<1>1. Pending' = D
  BY DEF Pending
<1>2. /\ UpdateTimer(mContainer', t) \in Timers
      /\ D # {} => /\ UpdateTimer(mContainer', t).running
                   /\ \A r \in D : UpdateTimer(mContainer', t).fire <= mContainer'[r].shot
  BY UpdateTimerCovers
<1> QED BY <1>1, <1>2 DEF Covered

(* Put and Eliminate.                                                      *)
LEMMA PutStep ==
    ASSUME TypeOK, NEW r \in Reqs, NEW h \in RequestHolder, Put(r, h)
    PROVE  /\ Pending' = Pending \cup {r}
           /\ mContainer' \in [Pending' -> RequestHolder]
           /\ mContainer'[r] = h
           /\ \A q \in Pending \ {r} : mContainer'[q] = mContainer[q]
           /\ timer' \in Timers
           /\ Covered'
<1>1. mContainer \in [Pending -> RequestHolder] /\ timer \in Timers
  BY DEF TypeOK, Timers
<1>2. /\ mContainer' \in [Pending \cup {r} -> RequestHolder]
      /\ mContainer'[r] = h
      /\ \A q \in Pending \ {r} : mContainer'[q] = mContainer[q]
  <2>1. mContainer' = With(mContainer, r, h)
    BY DEF Put
  <2> QED BY <1>1, <2>1 DEF With
<1>3. timer' = UpdateTimer(mContainer', timer)
  BY DEF Put
<1>4. Pending' = Pending \cup {r} /\ timer' \in Timers /\ Covered'
  BY <1>1, <1>2, <1>3, CacheStep
<1> QED BY <1>2, <1>4

(* RequestsCache::Eliminate removes one request, changes no other and leaves
   a timer that covers what remains. *)
LEMMA EliminateStep ==
    ASSUME TypeOK, NEW r, Eliminate(r)
    PROVE  /\ Pending' = Pending \ {r}
           /\ mContainer' \in [Pending' -> RequestHolder]
           /\ \A q \in Pending' : mContainer'[q] = mContainer[q]
           /\ timer' \in Timers
           /\ Covered'
<1>1. mContainer \in [Pending -> RequestHolder] /\ timer \in Timers
  BY DEF TypeOK, Timers
<1>2. /\ mContainer' \in [Pending \ {r} -> RequestHolder]
      /\ \A q \in Pending \ {r} : mContainer'[q] = mContainer[q]
  <2>1. mContainer' = Without(mContainer, r)
    BY DEF Eliminate
  <2> QED BY <1>1, <2>1 DEF Without
<1>3. timer' = UpdateTimer(mContainer', timer)
  BY DEF Eliminate
<1>4. Pending' = Pending \ {r} /\ timer' \in Timers /\ Covered'
  BY <1>1, <1>2, <1>3, CacheStep
<1> QED BY <1>2, <1>4

-----------------------------------------------------------------------------
(* The steps that are shared by several actions.                           *)

(* Calling a user handler, or none.                                        *)
LEMMA CallHandlerTyped ==
    ASSUME TypeOK, NEW r \in Reqs, NEW s \in Seq({"send", "cancel"}),
           NEW resp \in Reqs \cup {NoResponse}, NEW frames \in Seq(Frame),
           \/ CallHandler(r, s, resp, frames)
           \/ NoHandlerCall(frames)
    PROVE  /\ stack' \in Seq(Frame)
           /\ called' \in [Reqs -> Nat]
           /\ answer' \in [Reqs -> Reqs \cup {NoResponse}]
<1>1. CASE CallHandler(r, s, resp, frames)
  <2>1. Handler(r, s) \in Frame
    BY FramesTyped
  <2>2. stack' = Append(frames, Handler(r, s))
    BY <1>1 DEF CallHandler
  <2>3. Append(frames, Handler(r, s)) \in Seq(Frame)
    BY <2>1, SMT
  <2>4. called' \in [Reqs -> Nat] /\ answer' \in [Reqs -> Reqs \cup {NoResponse}]
    BY <1>1, SMT DEF CallHandler, TypeOK
  <2> QED BY <2>2, <2>3, <2>4
<1>2. CASE NoHandlerCall(frames)
  BY <1>2 DEF NoHandlerCall, TypeOK
<1> QED BY <1>1, <1>2

(* Coap::SendRequest.                                                      *)
LEMMA SendStep ==
    ASSUME TypeOK, NEW frames \in Seq(Frame), SendAny(frames)
    PROVE  /\ TypeOK'
           /\ Covered => Covered'
<1>1. PICK r \in Reqs, type \in ReqTypes, s \in Scripts, h \in {TRUE, ~NullHandler} :
        SendRequest(r, type, h, s, frames)
  BY DEF SendAny
<1>2. s \in Seq({"send", "cancel"}) /\ h \in BOOLEAN /\ type \in {"con", "non", "bad"}
  BY CoapAssumption
<1>3. r \notin Pending
  BY <1>1 DEF SendRequest, Sent, TypeOK
<1> DEFINE id == IF type = "bad" THEN 0 ELSE AllocMessageId
           rec == [type |-> type, id |-> id, handler |-> h, script |-> s]
<1>4. id \in 0..(IdSpace - 1) /\ AllocMessageId \in 0..(IdSpace - 1)
  BY CoapAssumption, SMT DEF AllocMessageId, TypeOK
<1>5. req' = [req EXCEPT ![r] = rec] /\ mMessageId' \in 0..(IdSpace - 1)
  BY <1>1, <1>4 DEF SendRequest, TypeOK
<1>6. rec \in RequestRecord
  BY <1>2, <1>4, SMT DEF RequestRecord
<1>7. req' \in [Reqs -> RequestRecord]
  <2> HIDE DEF rec
  <2> QED BY <1>5, <1>6 DEF TypeOK
<1>8. \A q \in Pending : req'[q].type = "con"
  BY <1>3, <1>5 DEF TypeOK
<1>9. req'[r].type = type
  BY <1>5 DEF TypeOK
<1>10. now' = now
  BY <1>1 DEF SendRequest
<1>11. /\ CallHandler(r, s, NoResponse, frames) \/ NoHandlerCall(frames)
       /\ sends' \in [Reqs -> Nat]
  <2>1. CallHandler(r, s, NoResponse, frames) \/ NoHandlerCall(frames)
    BY <1>1 DEF SendRequest
  <2>2. sends' = [sends EXCEPT ![r] = @ + 1] \/ sends' = sends
    BY <1>1 DEF SendRequest
  <2> QED BY <2>1, <2>2, SMT DEF TypeOK
<1>12. /\ stack' \in Seq(Frame)
       /\ called' \in [Reqs -> Nat]
       /\ answer' \in [Reqs -> Reqs \cup {NoResponse}]
  BY <1>2, <1>11, CallHandlerTyped
<1>13. /\ Pending' \subseteq {q \in Reqs : req'[q].type = "con"}
       /\ mContainer' \in [Pending' -> RequestHolder]
       /\ timer' \in Timers
       /\ Covered => Covered'
  <2>1. CASE UNCHANGED <<mContainer, timer>>
    BY <1>8, <2>1 DEF TypeOK, Covered, Pending, Timers
  <2>2. CASE type = "con" /\ \E d \in AckTimeouts : Put(r, NewHolder(h, d))
    <3>1. PICK d \in AckTimeouts : Put(r, NewHolder(h, d))
      BY <2>2
    <3>2. NewHolder(h, d) \in RequestHolder
      BY <1>2, CoapAssumption, SMT DEF NewHolder, RequestHolder, TypeOK
    <3>3. Pending' = Pending \cup {r}
      BY <3>1, <3>2, PutStep
    <3>4. mContainer' \in [Pending' -> RequestHolder] /\ timer' \in Timers /\ Covered'
      BY <3>1, <3>2, PutStep
    <3>5. Pending' \subseteq {q \in Reqs : req'[q].type = "con"}
      BY <1>8, <1>9, <2>2, <3>3 DEF TypeOK
    <3> QED BY <3>4, <3>5
  <2>3. \/ UNCHANGED <<mContainer, timer>>
        \/ type = "con" /\ \E d \in AckTimeouts : Put(r, NewHolder(h, d))
    BY <1>1 DEF SendRequest
  <2> QED BY <2>1, <2>2, <2>3
<1>14. TypeOK'
  BY <1>5, <1>7, <1>10, <1>11, <1>12, <1>13 DEF TypeOK, Timers
<1> QED BY <1>12, <1>13, <1>14

(* Coap::FinalizeTransaction on a holder in the cache.                     *)
LEMMA FinalizeInPlaceStep ==
    ASSUME TypeOK, NEW r \in Pending, NEW resp \in Reqs \cup {NoResponse},
           NEW frames \in Seq(Frame), FinalizeInPlace(r, resp, frames),
           UNCHANGED <<now, mMessageId, req, sends>>
    PROVE  /\ TypeOK'
           /\ Covered => Covered'
<1>1. r \in Reqs /\ req[r].script \in Seq({"send", "cancel"})
  BY DEF TypeOK, RequestRecord
<1>2. CASE mContainer[r].handler
  <2> DEFINE e == Eliminating(r, TRUE)
             fr == Append(frames, e)
  <2>1. /\ mContainer' = [mContainer EXCEPT ![r].handler = FALSE]
        /\ CallHandler(r, req[r].script, resp, fr)
        /\ timer' = timer
    BY <1>2 DEF FinalizeInPlace
  <2>2. e \in Frame
    BY <1>1, FramesTyped
  <2> HIDE DEF e
  <2>3. fr \in Seq(Frame)
    BY <2>2, SMT
  <2> HIDE DEF fr
  <2>4. /\ stack' \in Seq(Frame)
        /\ called' \in [Reqs -> Nat]
        /\ answer' \in [Reqs -> Reqs \cup {NoResponse}]
    BY <1>1, <2>1, <2>3, CallHandlerTyped
  <2>5. /\ Pending' = Pending
        /\ mContainer' \in [Pending -> RequestHolder]
        /\ \A q \in Pending : mContainer'[q].shot = mContainer[q].shot
    BY <2>1 DEF TypeOK, Pending, RequestHolder
  <2>6. TypeOK'
    BY <2>1, <2>4, <2>5 DEF TypeOK
  <2>7. Covered => Covered'
    BY <2>1, <2>5 DEF Covered
  <2> QED BY <2>6, <2>7
<1>3. CASE ~mContainer[r].handler
  <2>1. Eliminate(r) /\ NoHandlerCall(frames)
    BY <1>3 DEF FinalizeInPlace
  <2>2. Pending' = Pending \ {r}
    BY <2>1, EliminateStep
  <2>3. mContainer' \in [Pending' -> RequestHolder] /\ timer' \in Timers /\ Covered'
    BY <2>1, EliminateStep
  <2>4. /\ stack' \in Seq(Frame)
        /\ called' \in [Reqs -> Nat]
        /\ answer' \in [Reqs -> Reqs \cup {NoResponse}]
    BY <1>1, <2>1, CallHandlerTyped
  <2>5. TypeOK'
    BY <2>2, <2>3, <2>4, SMTT(20) DEF TypeOK, Timers
  <2> QED BY <2>3, <2>4, <2>5
<1> QED BY <1>2, <1>3

(* A holder that was retransmitted is a holder.                            *)
LEMMA BackoffTyped ==
    ASSUME now \in Nat, NEW x \in RequestHolder
    PROVE  Backoff(x) \in RequestHolder
<1> DEFINE d == 2 * x.delay
           n == x.count + 1
           t == now + d
<1>1. d \in Nat /\ n \in Nat /\ t \in Nat
  BY SMT DEF RequestHolder
<1>2. Backoff(x) = [x EXCEPT !.count = n, !.delay = d, !.shot = t]
  BY DEF Backoff
<1> HIDE DEF d, n, t
<1> QED BY <1>1, <1>2 DEF RequestHolder

(* One turn of the loop of Coap::Retransmit.                               *)
LEMMA RetransmitStep ==
    ASSUME TypeOK, NEW r \in Pending, Retransmit(r)
    PROVE  TypeOK' /\ Covered'
<1> DEFINE popped == Without(mContainer, r)
           t1 == UpdateTimer(popped, timer)
           h == Backoff(mContainer[r])
           again == With(popped, r, h)
           t2 == UpdateTimer(again, t1)
           e == Eliminating(r, FALSE)
           fr == Append(stack, e)
<1>1. /\ r \in Reqs /\ req[r].script \in Seq({"send", "cancel"})
      /\ mContainer \in [Pending -> RequestHolder] /\ timer \in Timers
      /\ stack \in Seq(Frame)
  BY DEF TypeOK, RequestRecord, Timers
<1>2. popped \in [Pending \ {r} -> RequestHolder] /\ DOMAIN popped = Pending \ {r}
  BY <1>1 DEF Without
<1>3. h \in RequestHolder
  BY <1>1, BackoffTyped DEF TypeOK
<1>4. again \in [Pending -> RequestHolder] /\ DOMAIN again = Pending
  <2> HIDE DEF h, popped
  <2> QED BY <1>1, <1>2, <1>3 DEF With
<1>5. e \in Frame
  BY <1>1, FramesTyped
<1>6. fr \in Seq(Frame)
  <2> HIDE DEF e
  <2> QED BY <1>1, <1>5, SMT
<1>7. /\ UNCHANGED <<now, mMessageId, req>>
      /\ \/ mContainer' = again /\ timer' = t2 /\ NoHandlerCall(stack)
         \/ FinalizeCopy(r, again, t2)
         \/ FinalizeCopy(r, popped, t1)
      /\ sends' = sends \/ sends' = [sends EXCEPT ![r] = @ + 1]
  BY DEF Retransmit
<1>8. t1 \in Timers /\ t2 \in Timers
  <2>1. t1 \in Timers
    <3> HIDE DEF popped
    <3> QED BY <1>1, <1>2, UpdateTimerCovers
  <2>2. t2 \in Timers
    <3> HIDE DEF again, t1
    <3> QED BY <1>4, <2>1, UpdateTimerCovers
  <2> QED BY <2>1, <2>2
<1>9. sends' \in [Reqs -> Nat]
  BY <1>1, <1>7, SMT DEF TypeOK
<1> DEFINE Cached(D) == /\ Pending' = D
                        /\ mContainer' \in [D -> RequestHolder]
                        /\ timer' \in Timers
                        /\ Covered'
<1> HIDE DEF h, e
<1>10. ASSUME mContainer' = again, timer' = t2
       PROVE  Cached(Pending)
  <2> HIDE DEF again, t1
  <2>1. timer' = UpdateTimer(mContainer', t1)
    BY <1>10
  <2> QED BY <1>4, <1>8, <1>10, <2>1, CacheStep
<1>11. ASSUME mContainer' = popped, timer' = t1
       PROVE  Cached(Pending \ {r})
  <2> HIDE DEF popped
  <2>1. timer' = UpdateTimer(mContainer', timer)
    BY <1>11
  <2> QED BY <1>1, <1>2, <1>11, <2>1, CacheStep
<1>12. ASSUME NEW c, NEW t \in Timers, NEW D, c \in [D -> RequestHolder],
              mContainer' = Without(c, r), timer' = UpdateTimer(mContainer', t)
       PROVE  Cached(D \ {r})
  <2>1. mContainer' \in [D \ {r} -> RequestHolder]
    BY <1>12 DEF Without
  <2> QED BY <1>12, <2>1, CacheStep
<1>13. \E D \in SUBSET Pending : Cached(D)
  <2> HIDE DEF popped, again, t1, t2
  <2>1. CASE mContainer' = again /\ timer' = t2
    <3> HIDE DEF Cached
    <3> QED BY <1>10, <2>1
  <2>2. CASE mContainer' = popped /\ timer' = t1
    <3> HIDE DEF Cached
    <3> QED BY <1>11, <2>2
  <2>3. CASE mContainer' = Without(again, r) /\ timer' = UpdateTimer(mContainer', t2)
    <3> HIDE DEF Cached
    <3> QED BY <1>4, <1>8, <1>12, <2>3
  <2>4. CASE mContainer' = Without(popped, r) /\ timer' = UpdateTimer(mContainer', t1)
    <3> HIDE DEF Cached
    <3>1. Cached((Pending \ {r}) \ {r})
      BY <1>2, <1>8, <1>12, <2>4
    <3> QED BY <3>1
  <2> QED BY <1>7, <2>1, <2>2, <2>3, <2>4 DEF FinalizeCopy
<1>14. \/ CallHandler(r, req[r].script, NoResponse, fr)
       \/ NoHandlerCall(stack)
  <2> HIDE DEF popped, again, t1, t2
  <2> QED BY <1>7 DEF FinalizeCopy, e
<1>15. /\ stack' \in Seq(Frame)
       /\ called' \in [Reqs -> Nat]
       /\ answer' \in [Reqs -> Reqs \cup {NoResponse}]
  <2> HIDE DEF fr
  <2> QED BY <1>1, <1>6, <1>14, CallHandlerTyped
<1> QED
  <2> HIDE DEF popped, again, t1, t2, fr
  <2> QED BY <1>7, <1>9, <1>13, <1>15 DEF TypeOK, Timers

-----------------------------------------------------------------------------
(* Type correctness and the timer, for every action.                       *)

Inv == TypeOK /\ TimerCoversPending

(* The invariant holds in the initial state. *)
LEMMA InitInv == ASSUME Init PROVE Inv
<1>1. TypeOK
  <2>1. Unsent \in RequestRecord
    BY SMT DEF Unsent, RequestRecord
  <2>2. Pending = {} /\ mContainer \in [Pending -> RequestHolder]
    BY DEF Init, Pending
  <2>3. stack \in Seq(Frame)
    BY SMT DEF Init
  <2>4. timer \in Timers
    BY DEF Init, Stopped, Timers
  <2> QED BY <2>1, <2>2, <2>3, <2>4, CoapAssumption, SMT DEF Init, TypeOK, Timers
<1>2. TimerCoversPending
  BY DEF Init, TimerCoversPending, Pending
<1> QED BY <1>1, <1>2 DEF Inv

(* Every step of the CoAP client preserves the invariant. *)
LEMMA NextInv == ASSUME Inv, [Next]_vars PROVE Inv'
<1> USE DEF Inv
<1>1. Covered' => TimerCoversPending'
  BY DEF Covered, TimerCoversPending
<1>2. ASSUME stack # <<Retransmitting>> PROVE Covered
  BY <1>2 DEF Covered, TimerCoversPending
<1>3. Idle => Covered
  <2>1. <<>> # <<Retransmitting>>
    OBVIOUS
  <2> QED BY <1>2, <2>1 DEF Idle
<1>4. \A op : Running(op) /\ op # "retransmit" => Covered
  <2> SUFFICES ASSUME NEW op, Running(op), op # "retransmit"
               PROVE  stack # <<Retransmitting>>
    BY <1>2
  <2> QED BY SMT DEF Running, Top, Retransmitting
<1>5. stack \in Seq(Frame)
  BY DEF TypeOK
<1>6. \A op : Running(op) => Callers \in Seq(Frame)
  BY <1>5, CallersTyped DEF Running
<1>7. CASE UserSend
  <2>1. <<>> \in Seq(Frame) /\ Idle /\ SendAny(<<>>)
    BY <1>7, SMT DEF UserSend
  <2> QED BY <1>1, <1>3, <2>1, SendStep
<1>8. ASSUME stack' \in Seq(Frame),
             UNCHANGED <<now, mMessageId, req, mContainer, timer, called, answer, sends>>,
             Covered
      PROVE  Inv'
  <2>1. TypeOK'
    BY <1>8 DEF TypeOK, Pending
  <2>2. Covered'
    BY <1>8 DEF Covered, Pending
  <2> QED BY <1>1, <2>1, <2>2
<1>9. CASE UserCancel
  <2>1. <<Cancelling>> \in Seq(Frame)
    BY FramesTyped, SMT
  <2> QED BY <1>3, <1>8, <1>9, <2>1 DEF UserCancel
<1>10. CASE Receive
  <2>1. PICK m \in Response, r \in Pending : HandleResponse(m, r)
    BY <1>10 DEF Receive
  <2>2. Idle /\ <<>> \in Seq(Frame) /\ UNCHANGED <<now, mMessageId, req, sends>>
    BY <2>1, SMT DEF HandleResponse, Piggybacked
  <2>3. m.token \in Reqs \cup {NoResponse}
    BY <2>1 DEF Response, Sent
  <2>4. CASE FinalizeInPlace(r, NoResponse, <<>>) \/ FinalizeInPlace(r, m.token, <<>>)
    BY <1>1, <1>3, <2>2, <2>3, <2>4, FinalizeInPlaceStep
  <2>5. CASE /\ mContainer' = [mContainer EXCEPT ![r].acked = TRUE]
             /\ UNCHANGED timer
             /\ NoHandlerCall(<<>>)
    <3>1. /\ Pending' = Pending
          /\ mContainer' \in [Pending -> RequestHolder]
          /\ \A q \in Pending : mContainer'[q].shot = mContainer[q].shot
      BY <2>5 DEF TypeOK, Pending, RequestHolder
    <3>2. Covered'
      BY <1>3, <2>2, <2>5, <3>1 DEF Covered
    <3>3. TypeOK'
      BY <2>2, <2>5, <3>1 DEF TypeOK, NoHandlerCall
    <3> QED BY <1>1, <3>2, <3>3
  <2>6. CASE Eliminate(r) /\ NoHandlerCall(<<>>)
    <3>1. Pending' = Pending \ {r}
      BY <2>6, EliminateStep
    <3>2. mContainer' \in [Pending' -> RequestHolder] /\ timer' \in Timers /\ Covered'
      BY <2>6, EliminateStep
    <3>3. TypeOK'
      BY <2>2, <2>6, <3>1, <3>2 DEF TypeOK, NoHandlerCall, Timers
    <3> QED BY <1>1, <3>2, <3>3
  <2> QED BY <2>1, <2>4, <2>5, <2>6 DEF HandleResponse, Piggybacked
<1>11. CASE TimerFires
  <2>1. <<Retransmitting>> \in Seq(Frame) /\ stack' = <<Retransmitting>>
    BY <1>11, FramesTyped, SMT DEF TimerFires
  <2>2. timer' \in Timers
    BY <1>11 DEF TimerFires, Stopped, Timers
  <2>3. TypeOK'
    BY <1>11, <2>1, <2>2 DEF TimerFires, TypeOK, Pending, Timers
  <2> QED BY <2>1, <2>3 DEF TimerCoversPending
<1>12. CASE Tick
  <2>1. TypeOK'
    BY <1>12, SMT DEF Tick, TypeOK, Pending
  <2>2. Covered'
    BY <1>3, <1>12 DEF Tick, Covered, Pending
  <2> QED BY <1>1, <2>1, <2>2
<1>13. CASE CancelRequests
  <2>1. Running("cancel") /\ Covered /\ UNCHANGED <<now, mMessageId, req, sends>>
    BY <1>4, <1>13 DEF CancelRequests
  <2>2. CASE stack' = Callers /\ UNCHANGED <<mContainer, timer, called, answer>>
    BY <1>6, <1>8, <2>1, <2>2
  <2>3. CASE \E r \in Pending : FinalizeInPlace(r, NoResponse, stack)
    BY <1>1, <1>5, <2>1, <2>3, FinalizeInPlaceStep
  <2> QED BY <1>13, <2>2, <2>3 DEF CancelRequests
<1>14. CASE HandlerSends
  <2>1. Running("handler") /\ Covered /\ HandlerFrames \in Seq(Frame)
    BY <1>4, <1>5, <1>14, HandlerFramesTyped DEF HandlerSends
  <2>2. CASE SendAny(HandlerFrames)
    BY <1>1, <2>1, <2>2, SendStep
  <2>3. CASE stack' = HandlerFrames
             /\ UNCHANGED <<now, mMessageId, req, mContainer, timer, called, answer, sends>>
    BY <1>8, <2>1, <2>3
  <2> QED BY <1>14, <2>2, <2>3 DEF HandlerSends
<1>15. CASE HandlerCancels
  <2>1. Running("handler") /\ Covered /\ HandlerFrames \in Seq(Frame)
    BY <1>4, <1>5, <1>15, HandlerFramesTyped DEF HandlerCancels
  <2>2. stack' \in Seq(Frame)
    BY <1>15, <2>1, FramesTyped, SMT DEF HandlerCancels
  <2> QED BY <1>8, <1>15, <2>1, <2>2 DEF HandlerCancels
<1>16. CASE HandlerReturns
  BY <1>4, <1>6, <1>8, <1>16 DEF HandlerReturns
<1>17. CASE FinalizeReturns
  <2>1. PICK q : Eliminate(q)
    BY <1>17 DEF FinalizeReturns
  <2>2. Pending' = Pending \ {q}
    BY <2>1, EliminateStep
  <2>3. mContainer' \in [Pending' -> RequestHolder] /\ timer' \in Timers /\ Covered'
    BY <2>1, EliminateStep
  <2>4. stack' \in Seq(Frame) /\ UNCHANGED <<now, mMessageId, req, called, answer, sends>>
    BY <1>6, <1>17 DEF FinalizeReturns
  <2>5. TypeOK'
    BY <2>2, <2>3, <2>4 DEF TypeOK, Timers
  <2> QED BY <1>1, <2>3, <2>5
<1>18. CASE \E r \in Pending : Retransmit(r)
  BY <1>1, <1>18, RetransmitStep
<1>19. CASE RetransmitReturns
  <2>1. stack' \in Seq(Frame) /\ mContainer' = mContainer
        /\ timer' = UpdateTimer(mContainer', timer)
    BY <1>6, <1>19 DEF RetransmitReturns
  <2>2. mContainer' \in [Pending -> RequestHolder] /\ timer \in Timers
    BY <2>1 DEF TypeOK, Timers
  <2>3. Pending' = Pending /\ timer' \in Timers /\ Covered'
    BY <2>1, <2>2, CacheStep
  <2>4. TypeOK'
    BY <1>19, <2>1, <2>2, <2>3 DEF RetransmitReturns, TypeOK, Timers
  <2> QED BY <1>1, <2>3, <2>4
<1>20. CASE UNCHANGED vars
  BY <1>20 DEF vars, TypeOK, TimerCoversPending, Pending
<1> QED
  BY <1>7, <1>9, <1>10, <1>11, <1>12, <1>13, <1>14, <1>15, <1>16, <1>17, <1>18,
     <1>19, <1>20 DEF Next, Callback

(* Type correctness of the client, for every set of requests, message id   *)
(* space and timing constants, whatever the handlers call.                 *)
THEOREM TypeCorrect == Spec => []TypeOK
<1>1. Init => Inv
  BY InitInv
<1>2. Inv /\ [Next]_vars => Inv'
  BY NextInv
<1>3. Inv => TypeOK
  BY DEF Inv
<1> QED BY <1>1, <1>2, <1>3, PTL DEF Spec

(* RequestsCache::UpdateTimer never leaves an outstanding request without  *)
(* a timer, whatever the response handlers call and however sends fail.    *)
THEOREM TimerCovers == Spec => []TimerCoversPending
<1>1. Init => Inv
  BY InitInv
<1>2. Inv /\ [Next]_vars => Inv'
  BY NextInv
<1>3. Inv => TimerCoversPending
  BY DEF Inv
<1> QED BY <1>1, <1>2, <1>3, PTL DEF Spec

-----------------------------------------------------------------------------
(* What one step does to one request: its holder, the times it was handed  *)
(* to the endpoint, and the response given to its handler.                 *)

Kept(r) ==
    /\ r \in Pending /\ r \in Pending'
    /\ mContainer'[r].count = mContainer[r].count
    /\ mContainer[r].acked => mContainer'[r].acked
    /\ sends'[r] = sends[r]

BackedOff(r) ==
    /\ r \in Pending /\ r \in Pending'
    /\ mContainer[r].count < MaxRetransmit
    /\ mContainer'[r].count = mContainer[r].count + 1
    /\ mContainer'[r].acked = mContainer[r].acked
    /\ sends'[r] = sends[r] \/ (~mContainer[r].acked /\ sends'[r] = sends[r] + 1)

Gone(r) == r \notin Pending' /\ sends'[r] = sends[r]

FirstSent(r) ==
    /\ r \notin Sent /\ r \notin Pending /\ r \in Sent'
    /\ sends'[r] = sends[r] + 1
    /\ r \in Pending' => mContainer'[r].count = 0

RequestStep(r) ==
    /\ r \in Sent => r \in Sent'
    /\ Kept(r) \/ BackedOff(r) \/ Gone(r) \/ FirstSent(r)
    /\ answer'[r] \in {answer[r], NoResponse, r}

(* A step that leaves the cache, the requests and their counts alone.      *)
LEMMA SameRequests ==
    ASSUME TypeOK, NEW r \in Reqs, UNCHANGED <<req, mContainer, answer, sends>>
    PROVE  RequestStep(r)
BY DEF RequestStep, Kept, Gone, Sent, Pending

(* Coap::SendRequest.                                                      *)
LEMMA SendRequestStep ==
    ASSUME TypeOK, NEW frames \in Seq(Frame), SendAny(frames), NEW q \in Reqs
    PROVE  RequestStep(q)
<1>1. PICK r \in Reqs, type \in ReqTypes, s \in Scripts, h \in {TRUE, ~NullHandler} :
        SendRequest(r, type, h, s, frames)
  BY DEF SendAny
<1>2. type \in {"con", "non", "bad"} /\ h \in BOOLEAN
  BY CoapAssumption
<1>3. r \notin Sent /\ r \notin Pending
  BY <1>1 DEF SendRequest, Sent, TypeOK
<1>4. /\ \A p \in Reqs \ {r} : req'[p] = req[p]
      /\ req'[r].type = type
  BY <1>1 DEF SendRequest, TypeOK
<1>5. r \in Sent' /\ \A p \in Reqs : p \in Sent => p \in Sent'
  BY <1>2, <1>4 DEF Sent
<1>6. answer'[q] \in {answer[q], NoResponse, q}
  BY <1>1 DEF SendRequest, CallHandler, NoHandlerCall, TypeOK
<1>7. \/ UNCHANGED <<mContainer, sends>>
      \/ UNCHANGED mContainer /\ sends' = [sends EXCEPT ![r] = @ + 1]
      \/ /\ sends' = [sends EXCEPT ![r] = @ + 1]
         /\ \E d \in AckTimeouts : Put(r, NewHolder(h, d))
  BY <1>1 DEF SendRequest
<1>8. CASE UNCHANGED <<mContainer, sends>>
  BY <1>5, <1>6, <1>8 DEF RequestStep, Kept, Gone, Pending
<1>9. CASE UNCHANGED mContainer /\ sends' = [sends EXCEPT ![r] = @ + 1]
  BY <1>3, <1>5, <1>6, <1>9 DEF RequestStep, Kept, Gone, FirstSent, Pending, TypeOK
<1>10. CASE /\ sends' = [sends EXCEPT ![r] = @ + 1]
            /\ \E d \in AckTimeouts : Put(r, NewHolder(h, d))
  <2>1. PICK d \in AckTimeouts : Put(r, NewHolder(h, d))
    BY <1>10
  <2>2. NewHolder(h, d) \in RequestHolder /\ NewHolder(h, d).count = 0
    BY <1>2, CoapAssumption, SMT DEF NewHolder, RequestHolder, TypeOK
  <2>3. /\ Pending' = Pending \cup {r}
        /\ mContainer'[r].count = 0
        /\ \A p \in Pending \ {r} : mContainer'[p] = mContainer[p]
    BY <2>1, <2>2, PutStep
  <2>4. sends'[r] = sends[r] + 1 /\ \A p \in Reqs \ {r} : sends'[p] = sends[p]
    BY <1>10 DEF TypeOK
  <2> QED BY <1>3, <1>5, <1>6, <2>3, <2>4 DEF RequestStep, Kept, Gone, FirstSent
<1> QED BY <1>7, <1>8, <1>9, <1>10

(* Coap::FinalizeTransaction on a holder in the cache.                     *)
LEMMA FinalizeRequestStep ==
    ASSUME TypeOK, NEW r \in Pending, NEW resp \in {NoResponse, r}, NEW frames,
           FinalizeInPlace(r, resp, frames), UNCHANGED <<req, sends>>, NEW q \in Reqs
    PROVE  RequestStep(q)
<1>1. r \in Reqs /\ (q \in Sent => q \in Sent')
  BY DEF TypeOK, Sent
<1>2. answer'[q] \in {answer[q], NoResponse, q}
  <2>1. answer' = answer \/ answer' = [answer EXCEPT ![r] = resp]
    BY DEF FinalizeInPlace, CallHandler, NoHandlerCall
  <2> QED BY <1>1, <2>1, SMT DEF TypeOK
<1>3. CASE mContainer[r].handler
  <2>1. mContainer' = [mContainer EXCEPT ![r].handler = FALSE]
    BY <1>3 DEF FinalizeInPlace
  <2>2. /\ Pending' = Pending
        /\ \A p \in Pending : /\ mContainer'[p].count = mContainer[p].count
                              /\ mContainer'[p].acked = mContainer[p].acked
    BY <2>1, SMTT(20) DEF TypeOK, Pending, RequestHolder
  <2> QED BY <1>1, <1>2, <2>2 DEF RequestStep, Kept, Gone
<1>4. CASE ~mContainer[r].handler
  <2>1. Eliminate(r)
    BY <1>4 DEF FinalizeInPlace
  <2>2. Pending' = Pending \ {r} /\ \A p \in Pending' : mContainer'[p] = mContainer[p]
    BY <2>1, EliminateStep
  <2> QED BY <1>1, <1>2, <2>2 DEF RequestStep, Kept, Gone
<1> QED BY <1>3, <1>4

(* Erasing a holder, whichever.                                            *)
LEMMA EraseRequestStep ==
    ASSUME TypeOK, NEW r, Eliminate(r), UNCHANGED <<req, answer, sends>>, NEW q \in Reqs
    PROVE  RequestStep(q)
<1>1. Pending' = Pending \ {r} /\ \A p \in Pending' : mContainer'[p] = mContainer[p]
  BY EliminateStep
<1> QED BY <1>1 DEF RequestStep, Kept, Gone, Sent

(* One turn of the loop of Coap::Retransmit.                               *)
LEMMA RetransmitRequestStep ==
    ASSUME TypeOK, NEW r \in Pending, Retransmit(r), NEW q \in Reqs
    PROVE  RequestStep(q)
<1> DEFINE popped == Without(mContainer, r)
           t1 == UpdateTimer(popped, timer)
           h == Backoff(mContainer[r])
           again == With(popped, r, h)
           t2 == UpdateTimer(again, t1)
<1>1. r \in Reqs /\ mContainer \in [Pending -> RequestHolder] /\ now \in Nat
  BY DEF TypeOK
<1>2. q \in Sent => q \in Sent'
  BY DEF Retransmit, Sent
<1>3. answer'[q] \in {answer[q], NoResponse, q}
  BY <1>1 DEF Retransmit, FinalizeCopy, CallHandler, NoHandlerCall, TypeOK
<1>4. /\ popped \in [Pending \ {r} -> RequestHolder]
      /\ \A p \in Pending \ {r} : popped[p] = mContainer[p]
  BY <1>1 DEF Without
<1>5. h \in RequestHolder /\ h.count = mContainer[r].count + 1 /\ h.acked = mContainer[r].acked
  <2>1. h \in RequestHolder
    BY <1>1, BackoffTyped
  <2>2. h.count = mContainer[r].count + 1 /\ h.acked = mContainer[r].acked
    BY <1>1 DEF Backoff, RequestHolder
  <2> QED BY <2>1, <2>2
<1>6. /\ again \in [Pending -> RequestHolder]
      /\ again[r] = h
      /\ \A p \in Pending \ {r} : again[p] = mContainer[p]
  <2> HIDE DEF h, popped
  <2> QED BY <1>1, <1>4, <1>5 DEF With
<1> DEFINE Same == sends' = sends
           Again == mContainer[r].count < MaxRetransmit /\ mContainer' = again
           Erased == Same /\ \E c \in {again, popped} : mContainer' = Without(c, r)
<1>7. \/ Again /\ Same
      \/ Again /\ ~mContainer[r].acked /\ sends' = [sends EXCEPT ![r] = @ + 1]
      \/ mContainer' = popped /\ Same
      \/ Erased
  BY DEF Retransmit, FinalizeCopy
<1> HIDE DEF h, popped, again
<1>8. CASE Again /\ (Same \/ (~mContainer[r].acked /\ sends' = [sends EXCEPT ![r] = @ + 1]))
  <2>1. Pending' = Pending
    BY <1>6, <1>8 DEF Pending
  <2>2. /\ sends'[r] = sends[r] \/ (~mContainer[r].acked /\ sends'[r] = sends[r] + 1)
        /\ \A p \in Reqs \ {r} : sends'[p] = sends[p]
    BY <1>1, <1>8 DEF TypeOK
  <2>3. CASE q = r
    BY <1>2, <1>3, <1>5, <1>6, <1>8, <2>1, <2>2, <2>3 DEF RequestStep, BackedOff
  <2>4. CASE q # r
    BY <1>2, <1>3, <1>6, <1>8, <2>1, <2>2, <2>4 DEF RequestStep, Kept, Gone
  <2> QED BY <2>3, <2>4
<1>9. ASSUME Same, Pending' = Pending \ {r},
             \A p \in Pending \ {r} : mContainer'[p] = mContainer[p]
      PROVE  RequestStep(q)
  BY <1>2, <1>3, <1>9 DEF RequestStep, Kept, Gone
<1>10. CASE mContainer' = popped /\ Same
  <2>1. Pending' = Pending \ {r}
    BY <1>4, <1>10 DEF Pending
  <2> QED BY <1>4, <1>9, <1>10, <2>1
<1>11. CASE Erased
  <2>1. /\ Pending' = Pending \ {r}
        /\ \A p \in Pending \ {r} : mContainer'[p] = mContainer[p]
    BY <1>4, <1>6, <1>11 DEF Pending, Without
  <2> QED BY <1>9, <1>11, <2>1
<1> QED BY <1>7, <1>8, <1>10, <1>11

(* Every step of the client, seen from any one request.                    *)
LEMMA NextRequestStep ==
    ASSUME Inv, [Next]_vars, NEW q \in Reqs
    PROVE  RequestStep(q)
<1>1. TypeOK /\ stack \in Seq(Frame) /\ <<>> \in Seq(Frame)
  BY SMT DEF Inv, TypeOK
<1>2. CASE UserSend
  BY <1>1, <1>2, SendRequestStep DEF UserSend
<1>3. CASE HandlerSends
  <2>1. HandlerFrames \in Seq(Frame)
    BY <1>1, <1>3, HandlerFramesTyped DEF HandlerSends
  <2>2. SendAny(HandlerFrames) \/ UNCHANGED <<req, mContainer, answer, sends>>
    BY <1>3 DEF HandlerSends
  <2> QED BY <1>1, <2>1, <2>2, SendRequestStep, SameRequests
<1>4. CASE Receive
  <2>1. PICK m \in Response, r \in Pending : HandleResponse(m, r)
    BY <1>4 DEF Receive
  <2>2. UNCHANGED <<req, sends>>
    BY <2>1 DEF HandleResponse, Piggybacked
  <2>3. m.type \in {"con", "non"} => m.token = r
    BY <2>1 DEF HandleResponse, Piggybacked, Matched, Matches
  <2>4. \/ \E resp \in {NoResponse, r} : FinalizeInPlace(r, resp, <<>>)
        \/ mContainer' = [mContainer EXCEPT ![r].acked = TRUE] /\ UNCHANGED answer
        \/ Eliminate(r) /\ UNCHANGED answer
    BY <2>1, <2>3 DEF HandleResponse, Piggybacked, NoHandlerCall
  <2>5. CASE \E resp \in {NoResponse, r} : FinalizeInPlace(r, resp, <<>>)
    BY <1>1, <2>2, <2>5, FinalizeRequestStep
  <2>6. CASE mContainer' = [mContainer EXCEPT ![r].acked = TRUE] /\ UNCHANGED answer
    <3>1. /\ Pending' = Pending
          /\ \A p \in Pending : /\ mContainer'[p].count = mContainer[p].count
                                /\ mContainer[p].acked => mContainer'[p].acked
      BY <1>1, <2>6 DEF TypeOK, Pending, RequestHolder
    <3> QED BY <2>2, <2>6, <3>1 DEF RequestStep, Kept, Gone, Sent
  <2>7. CASE Eliminate(r) /\ UNCHANGED answer
    BY <1>1, <2>2, <2>7, EraseRequestStep
  <2> QED BY <2>4, <2>5, <2>6, <2>7
<1>5. CASE CancelRequests
  <2>1. UNCHANGED <<req, sends>>
    BY <1>5 DEF CancelRequests
  <2>2. CASE UNCHANGED <<mContainer, answer>>
    BY <1>1, <2>1, <2>2, SameRequests
  <2>3. CASE \E r \in Pending : FinalizeInPlace(r, NoResponse, stack)
    BY <1>1, <2>1, <2>3, FinalizeRequestStep
  <2> QED BY <1>5, <2>2, <2>3 DEF CancelRequests
<1>6. CASE FinalizeReturns
  BY <1>1, <1>6, EraseRequestStep DEF FinalizeReturns
<1>7. CASE \E r \in Pending : Retransmit(r)
  BY <1>1, <1>7, RetransmitRequestStep
<1>8. CASE UserCancel \/ TimerFires \/ Tick \/ HandlerCancels \/ HandlerReturns
           \/ RetransmitReturns \/ UNCHANGED vars
  BY <1>1, <1>8, SameRequests
     DEF UserCancel, TimerFires, Tick, HandlerCancels, HandlerReturns, RetransmitReturns, vars
<1> QED
  BY <1>2, <1>3, <1>4, <1>5, <1>6, <1>7, <1>8 DEF Next, Callback

(* HandleResponse, for every set of requests and id space: a handler is    *)
(* given only the response that carries the token of its own request,      *)
(* though acknowledgements are matched by message ids that are reused.     *)
THEOREM RightResponse == Spec => []AnswersItsRequest
<1>1. Init => AnswersItsRequest
  BY DEF Init, AnswersItsRequest
<1>2. Inv /\ AnswersItsRequest /\ [Next]_vars => AnswersItsRequest'
  BY NextRequestStep DEF AnswersItsRequest, RequestStep
<1>3. Init => Inv
  BY InitInv
<1>4. Inv /\ [Next]_vars => Inv'
  BY NextInv
<1> QED BY <1>1, <1>2, <1>3, <1>4, PTL DEF Spec

(* A request in the cache was sent once more than it was backed off, at    *)
(* the most.                                                               *)
SentSeldom ==
    \A r \in Reqs :
        /\ r \notin Sent => sends[r] = 0
        /\ sends[r] <= 1 + MaxRetransmit
        /\ r \in Pending => /\ mContainer[r].count <= MaxRetransmit
                            /\ sends[r] <= 1 + mContainer[r].count

(* No step sends more often than that.                                     *)
LEMMA SentSeldomStep ==
    ASSUME Inv, SentSeldom, [Next]_vars
    PROVE  SentSeldom'
<1> SUFFICES ASSUME NEW r \in Reqs
             PROVE  /\ r \notin Sent' => sends'[r] = 0
                    /\ sends'[r] <= 1 + MaxRetransmit
                    /\ r \in Pending' => /\ mContainer'[r].count <= MaxRetransmit
                                         /\ sends'[r] <= 1 + mContainer'[r].count
  BY DEF SentSeldom
<1>1. RequestStep(r) /\ (r \notin Sent' => r \notin Sent)
  BY NextRequestStep DEF RequestStep
<1>2. /\ sends[r] \in Nat /\ MaxRetransmit \in Nat
      /\ r \in Pending => mContainer[r].count \in Nat
      /\ r \in Pending => r \in Sent
  BY CoapAssumption DEF Inv, TypeOK, RequestHolder, Sent
<1>3. CASE Kept(r) \/ BackedOff(r)
  BY <1>1, <1>2, <1>3, SMT DEF Kept, BackedOff, SentSeldom
<1>4. CASE Gone(r)
  BY <1>1, <1>2, <1>4 DEF Gone, SentSeldom
<1>5. CASE FirstSent(r)
  BY <1>1, <1>2, <1>5, SMT DEF FirstSent, SentSeldom
<1> QED BY <1>1, <1>3, <1>4, <1>5 DEF RequestStep

(* Retransmit, for every kMaxRetransmit and every sequence of failing      *)
(* sends, handlers and cancels: a request is sent again at most            *)
(* kMaxRetransmit times, and never once it was acknowledged.               *)
THEOREM NeverSentAfterAck == Spec => NoSendAfterAck
<1>1. Init => Inv /\ SentSeldom
  <2>1. ASSUME Init PROVE SentSeldom
    <3>1. Pending = {} /\ \A r \in Reqs : sends[r] = 0
      BY <2>1 DEF Init, Pending
    <3>2. 0 <= 1 + MaxRetransmit
      BY CoapAssumption, SMT
    <3> QED BY <3>1, <3>2 DEF SentSeldom
  <2> QED BY <2>1, InitInv
<1>2. Inv /\ SentSeldom /\ [Next]_vars => (Inv /\ SentSeldom)'
  BY NextInv, SentSeldomStep
<1>3. ASSUME Inv, SentSeldom, [Next]_vars
      PROVE  /\ \A r \in Reqs : sends'[r] <= 1 + MaxRetransmit
             /\ \A r \in Pending :
                   mContainer[r].acked => /\ sends'[r] = sends[r]
                                          /\ r \in Pending' => mContainer'[r].acked
  <2>1. \A r \in Reqs : sends'[r] <= 1 + MaxRetransmit
    BY <1>3, SentSeldomStep DEF SentSeldom
  <2>2. \A r \in Pending : r \in Reqs /\ RequestStep(r)
    BY <1>3, NextRequestStep DEF Inv, TypeOK
  <2>3. \A r \in Pending :
            mContainer[r].acked => /\ sends'[r] = sends[r]
                                   /\ r \in Pending' => mContainer'[r].acked
    BY <2>2 DEF RequestStep, Kept, BackedOff, Gone, FirstSent
  <2> QED BY <2>1, <2>3
<1> QED BY <1>1, <1>2, <1>3, PTL DEF Spec, NoSendAfterAck

-----------------------------------------------------------------------------
(* Response handlers may send new requests; they do not cancel.            *)
SendOnly == Scripts \subseteq Seq({"send"})

-----------------------------------------------------------------------------
(* The shape of the call stack of a client whose handlers only send.       *)

Loops == {"cancel", "retransmit"}

ShapeOf(s) ==
    \A i \in 1..Len(s) :
        /\ s[i].op \in Loops => i = 1
        /\ s[i].op = "eliminate" => i = 1 \/ (i = 2 /\ s[1].op \in Loops)
        /\ s[i].op = "handler" => s[i].todo \in Seq({"send"})

(* The calls of FinalizeTransaction on the stack.                          *)
Elims(s) == {s[i] : i \in {j \in 1..Len(s) : s[j].op = "eliminate"}}

(* There is at most one, and it is under the running handlers.             *)
LEMMA ShapeCallers ==
    ASSUME stack \in Seq(Frame), stack # <<>>, ShapeOf(stack)
    PROVE  /\ ShapeOf(Callers)
           /\ Top.op # "eliminate" => Elims(Callers) = Elims(stack)
           /\ Top.op = "eliminate" => Elims(Callers) = {} /\ Elims(stack) = {Top}
<1> DEFINE n == Len(stack)
<1>1. /\ n \in Nat \ {0}
      /\ Len(Callers) = n - 1
      /\ \A i \in 1..(n - 1) : Callers[i] = stack[i]
  BY CallersTyped
<1>2. Top = stack[n]
  BY DEF Top
<1> HIDE DEF n
<1>3. 1 \in 1..n /\ \A i \in 1..(n - 1) : i \in 1..n /\ 1 \in 1..(n - 1)
  BY <1>1, SMT
<1>4. ShapeOf(Callers)
  BY <1>1, <1>3 DEF ShapeOf, n
<1>5. CASE Top.op # "eliminate"
  BY <1>1, <1>2, <1>3, <1>4, <1>5, SMT DEF Elims, n
<1>6. CASE Top.op = "eliminate"
  <2>1. \A i \in 1..n : stack[i].op = "eliminate" => i = n
    <3>1. n \in 1..n
      BY <1>1, SMT
    <3>2. n = 1 \/ (n = 2 /\ stack[1].op \in Loops)
      BY <1>2, <1>6, <3>1 DEF ShapeOf, n
    <3>3. "eliminate" \notin Loops
      BY DEF Loops
    <3> QED BY <1>1, <3>2, <3>3, SMT DEF ShapeOf, n
  <2>2. Elims(Callers) = {}
    BY <1>1, <2>1, SMT DEF Elims
  <2>3. Elims(stack) = {Top}
    BY <1>1, <1>2, <1>6, <2>1, SMT DEF Elims, n
  <2> QED BY <1>4, <1>6, <2>2, <2>3
<1> QED BY <1>4, <1>5, <1>6

(* A handler pushed on the stack keeps its shape.                          *)
LEMMA ShapePushHandler ==
    ASSUME NEW frames \in Seq(Frame), ShapeOf(frames),
           NEW r \in Reqs, NEW s \in Seq({"send"})
    PROVE  /\ ShapeOf(Append(frames, Handler(r, s)))
           /\ Elims(Append(frames, Handler(r, s))) = Elims(frames)
<1> DEFINE f == Handler(r, s)
           st == Append(frames, f)
           n == Len(frames)
<1>1. f \in Frame
  <2>1. s \in Seq({"send", "cancel"})
    BY SMT
  <2> QED BY <2>1, FramesTyped
<1>2. f.op = "handler" /\ f.todo = s
  BY DEF Handler
<1> HIDE DEF f
<1>3. /\ n \in Nat
      /\ Len(st) = n + 1
      /\ \A i \in 1..n : st[i] = frames[i]
      /\ st[n + 1] = f
  BY <1>1, SMT
<1> HIDE DEF st, n
<1>4. ShapeOf(st)
  <2> SUFFICES ASSUME NEW i \in 1..Len(st)
               PROVE  /\ st[i].op \in Loops => i = 1
                      /\ st[i].op = "eliminate" => i = 1 \/ (i = 2 /\ st[1].op \in Loops)
                      /\ st[i].op = "handler" => st[i].todo \in Seq({"send"})
    BY DEF ShapeOf
  <2>1. CASE i = n + 1
    BY <1>2, <1>3, <2>1 DEF Loops
  <2>2. CASE i \in 1..n
    BY <1>3, <2>2, SMT DEF ShapeOf, n
  <2> QED BY <1>3, <2>1, <2>2, SMT
<1>5. Elims(st) = Elims(frames)
  BY <1>2, <1>3, SMT DEF Elims, n
<1> QED BY <1>4, <1>5 DEF st, f

(* The frames FinalizeTransaction is called from: none or one loop.        *)
Base(frames) ==
    frames = <<>> \/ (Len(frames) = 1 /\ frames[1].op \in Loops)

(* A stack that is empty or holds one loop is well shaped and has no
   elimination under way. *)
LEMMA BaseShape ==
    ASSUME NEW frames \in Seq(Frame), Base(frames)
    PROVE  ShapeOf(frames) /\ Elims(frames) = {}
<1>1. CASE frames = <<>>
  BY <1>1, SMT DEF ShapeOf, Elims
<1>2. CASE Len(frames) = 1 /\ frames[1].op \in Loops
  BY <1>2, SMT DEF ShapeOf, Elims, Loops
<1> QED BY <1>1, <1>2 DEF Base

(* A loop (the retransmission timer, CancelRequests) runs only at the bottom
   of the stack. *)
LEMMA LoopIsBase ==
    ASSUME stack \in Seq(Frame), ShapeOf(stack), stack # <<>>, Top.op \in Loops
    PROVE  Base(stack)
<1>1. Len(stack) \in Nat \ {0} /\ Top = stack[Len(stack)]
  BY CallersTyped DEF Top
<1>2. Len(stack) = 1
  <2>1. Len(stack) \in 1..Len(stack)
    BY <1>1, SMT
  <2> QED BY <1>1, <2>1 DEF ShapeOf
<1> QED BY <1>1, <1>2 DEF Base

(* Starting to finalize a request from the bottom of the stack puts exactly
   one elimination on it. *)
LEMMA ShapePushEliminating ==
    ASSUME NEW frames \in Seq(Frame), Base(frames), NEW r \in Reqs, NEW ref \in BOOLEAN
    PROVE  /\ ShapeOf(Append(frames, Eliminating(r, ref)))
           /\ Elims(Append(frames, Eliminating(r, ref))) = {Eliminating(r, ref)}
<1> DEFINE f == Eliminating(r, ref)
           st == Append(frames, f)
           n == Len(frames)
<1>1. f \in Frame
  BY FramesTyped
<1>2. f.op = "eliminate"
  BY DEF Eliminating
<1> HIDE DEF f
<1>3. /\ n \in Nat
      /\ Len(st) = n + 1
      /\ \A i \in 1..n : st[i] = frames[i]
      /\ st[n + 1] = f
  BY <1>1, SMT
<1>4. n = 0 \/ (n = 1 /\ frames[1].op \in Loops)
  BY SMT DEF Base
<1> HIDE DEF st, n
<1>5. ShapeOf(st)
  BY <1>2, <1>3, <1>4, SMT DEF ShapeOf, Loops
<1>6. Elims(st) = {f}
  BY <1>2, <1>3, <1>4, SMT DEF Elims, Loops
<1> QED BY <1>5, <1>6 DEF st, f

(* A handler that makes its next call leaves the rest of the stack alone. *)
LEMMA ShapeHandlerFrames ==
    ASSUME stack \in Seq(Frame), Running("handler"), Top.todo # <<>>, ShapeOf(stack)
    PROVE  ShapeOf(HandlerFrames) /\ Elims(HandlerFrames) = Elims(stack)
<1> DEFINE n == Len(stack)
           f == [Top EXCEPT !.todo = Tail(@)]
<1>1. /\ Len(HandlerFrames) = n
      /\ \A i \in 1..(n - 1) : HandlerFrames[i] = stack[i]
      /\ HandlerFrames[n] = f
  BY HandlerFramesTyped
<1>2. n \in Nat \ {0} /\ n \in 1..n /\ Top = stack[n] /\ Top.op = "handler" /\ Top \in Frame
  BY CallersTyped, SMT DEF Running, Top
<1>3. Top \in [op : {"handler"}, req : Reqs, todo : Seq({"send", "cancel"})]
  BY <1>2 DEF Frame
<1>4. Top.todo \in Seq({"send"})
  BY <1>2 DEF ShapeOf
<1>5. Tail(Top.todo) \in Seq({"send"})
  BY <1>4, SMT
<1>6. f.op = "handler" /\ f.todo = Tail(Top.todo)
  BY <1>3
<1> HIDE DEF f, n
<1>7. ShapeOf(HandlerFrames)
  <2> SUFFICES ASSUME NEW i \in 1..n
               PROVE  /\ HandlerFrames[i].op \in Loops => i = 1
                      /\ HandlerFrames[i].op = "eliminate"
                            => i = 1 \/ (i = 2 /\ HandlerFrames[1].op \in Loops)
                      /\ HandlerFrames[i].op = "handler"
                            => HandlerFrames[i].todo \in Seq({"send"})
    BY <1>1 DEF ShapeOf
  <2>1. CASE i = n
    BY <1>1, <1>5, <1>6, <2>1 DEF Loops
  <2>2. CASE i \in 1..(n - 1)
    <3>1. 1 \in 1..(n - 1) /\ i \in 1..n
      BY <1>2, <2>2, SMT
    <3> QED BY <1>1, <2>2, <3>1 DEF ShapeOf, n
  <2> QED BY <1>2, <2>1, <2>2, SMT
<1>8. Elims(HandlerFrames) = Elims(stack)
  BY <1>1, <1>2, <1>6, SMT DEF Elims, n
<1> QED BY <1>7, <1>8

-----------------------------------------------------------------------------
(* The inductive invariant.  A holder in the cache may keep the handler of *)
(* a request whose handler was already called, but only until the running  *)
(* FinalizeTransaction eliminates it.                                      *)

OnceAt(r) ==
    /\ req[r].script \in Seq({"send"})
    /\ \A e \in Elims(stack) :
          e.req = r => /\ called[r] = 1
                       /\ e.ref => r \in Pending /\ ~mContainer[r].handler
    /\ r \in Pending /\ mContainer[r].handler =>
          req[r].handler /\ (called[r] = 0 \/ \E e \in Elims(stack) : e.req = r)
    /\ r \notin Sent => called[r] = 0
    /\ called[r] = 0 => answer[r] = NoResponse
    /\ called[r] <= 1
    /\ req[r].type = "con" /\ req[r].handler /\ called[r] = 0 =>
          r \in Pending /\ mContainer[r].handler
    /\ answer[r] \in {NoResponse, r}

Once == ShapeOf(stack) /\ \A r \in Reqs : OnceAt(r)

(* A step of the promise, or none.                                         *)
PromiseStep == Promise!Next \/ UNCHANGED Outcome

(* Initially no handler has run and nothing is promised. *)
LEMMA InitOnce == ASSUME Init PROVE Once /\ Promise!Init
<1>1. Pending = {} /\ stack = <<>>
  BY DEF Init, Pending
<1>2. ShapeOf(stack) /\ Elims(stack) = {}
  BY <1>1, SMT DEF ShapeOf, Elims
<1>3. \A r \in Reqs : req[r].script \in Seq({"send"}) /\ req[r].type = "unsent"
                      /\ called[r] = 0 /\ answer[r] = NoResponse
  <2>1. <<>> \in Seq({"send"})
    BY SMT
  <2> QED BY <2>1 DEF Init, Unsent
<1>4. \A r \in Reqs : OnceAt(r)
  <2> TAKE r \in Reqs
  <2>1. called[r] <= 1
    BY <1>3, SMT
  <2>2. req[r].type # "con"
    BY <1>3
  <2>3. r \notin Pending /\ Elims(stack) = {}
    BY <1>1, <1>2
  <2> QED BY <1>3, <2>1, <2>2, <2>3 DEF OnceAt
<1>5. Promise!Init
  <2>1. \A r \in Reqs : OutcomeOf(r) = "idle"
    BY <1>3 DEF OutcomeOf, Sent
  <2> QED BY <2>1 DEF Promise!Init, Outcome
<1> QED BY <1>2, <1>4, <1>5 DEF Once

(* A step that concerns one request.                                       *)
Local(r) ==
    /\ \A q \in Reqs \ {r} :
          /\ req'[q] = req[q]
          /\ called'[q] = called[q]
          /\ answer'[q] = answer[q]
          /\ q \in Pending' <=> q \in Pending
          /\ q \in Pending => mContainer'[q].handler = mContainer[q].handler
    /\ \A e \in Elims(stack) \cup Elims(stack') :
          e.req # r => e \in Elims(stack) /\ e \in Elims(stack')

Allowed(a, b) ==
    \/ a = b
    \/ a = "idle" /\ b \in {"open", "void", "failed"}
    \/ a = "open" /\ b \in {"failed", "answered"}

(* Such a step preserves the invariant if it does for that request.        *)
LEMMA LocalStep ==
    ASSUME Once, NEW r \in Reqs, Local(r), ShapeOf(stack'), OnceAt(r)',
           Allowed(OutcomeOf(r), OutcomeOf(r)')
    PROVE  Once' /\ PromiseStep
<1>1. ASSUME NEW q \in Reqs, q # r PROVE OnceAt(q)'
  <2>1. OnceAt(q)
    BY DEF Once
  <2>2. q \in Sent' <=> q \in Sent
    BY <1>1 DEF Local, Sent
  <2>3. \A e : e.req = q => (e \in Elims(stack') <=> e \in Elims(stack))
    BY <1>1 DEF Local
  <2> QED BY <1>1, <2>1, <2>2, <2>3 DEF OnceAt, Local
<1>2. Once'
  BY <1>1 DEF Once
<1>3. \A q \in Reqs \ {r} : OutcomeOf(q)' = OutcomeOf(q)
  BY DEF Local, OutcomeOf, Sent
<1>4. Outcome' = [Outcome EXCEPT ![r] = OutcomeOf(r)'] /\ Outcome[r] = OutcomeOf(r)
  BY <1>3 DEF Outcome
<1>5. PromiseStep
  <2> DEFINE a == OutcomeOf(r)
             b == OutcomeOf(r)'
  <2>1. Outcome' = [Outcome EXCEPT ![r] = b] /\ Outcome[r] = a /\ Allowed(a, b)
    BY <1>4
  <2>2. Outcome = [Outcome EXCEPT ![r] = a]
    BY <1>4 DEF Outcome
  <2> HIDE DEF a, b
  <2>3. CASE a = b
    BY <2>1, <2>2, <2>3 DEF PromiseStep
  <2>4. CASE a = "idle" /\ b \in {"open", "void", "failed"}
    BY <2>1, <2>4 DEF PromiseStep, Promise!Next, Promise!Open, Promise!Waive,
       Promise!Fail, Promise!Become
  <2>5. CASE a = "open" /\ b \in {"failed", "answered"}
    BY <2>1, <2>5 DEF PromiseStep, Promise!Next, Promise!Fail, Promise!Answer,
       Promise!Become
  <2> QED BY <2>1, <2>3, <2>4, <2>5 DEF Allowed
<1> QED BY <1>2, <1>5

(* A step that changes only the stack, and no FinalizeTransaction on it.   *)
LEMMA StackStep ==
    ASSUME Once, ShapeOf(stack'), Elims(stack') = Elims(stack),
           UNCHANGED <<req, called, answer>>,
           Pending' = Pending,
           \A q \in Pending : mContainer'[q].handler = mContainer[q].handler
    PROVE  Once' /\ PromiseStep
<1>1. Sent' = Sent
  BY SMTT(20) DEF Sent
<1>2. \A r \in Reqs : OnceAt(r)'
  <2> TAKE r \in Reqs
  <2>1. OnceAt(r)
    BY DEF Once
  <2> QED BY <1>1, <2>1 DEF OnceAt
<1>3. Outcome' = Outcome
  BY <1>1 DEF Outcome, OutcomeOf
<1> QED BY <1>2, <1>3 DEF Once, PromiseStep

-----------------------------------------------------------------------------
(* Coap::SendRequest.                                                      *)
LEMMA SendOnce ==
    ASSUME SendOnly, TypeOK, Once, NEW frames \in Seq(Frame), ShapeOf(frames),
           Elims(frames) = Elims(stack), SendAny(frames)
    PROVE  Once' /\ PromiseStep
<1>1. PICK r \in Reqs, type \in ReqTypes, s \in Scripts, h \in {TRUE, ~NullHandler} :
        SendRequest(r, type, h, s, frames)
  BY DEF SendAny
<1>2. s \in Seq({"send"}) /\ h \in BOOLEAN /\ type \in {"con", "non", "bad"}
  BY CoapAssumption DEF SendOnly
<1>3. r \notin Sent /\ r \notin Pending
  BY <1>1 DEF SendRequest, Sent, TypeOK
<1>4. /\ called[r] = 0 /\ answer[r] = NoResponse
      /\ \A e \in Elims(stack) : e.req # r
  <2>1. OnceAt(r)
    BY DEF Once
  <2>2. called[r] = 0
    BY <1>3, <2>1 DEF OnceAt
  <2>3. answer[r] = NoResponse
    BY <2>1, <2>2 DEF OnceAt
  <2>4. ASSUME NEW e \in Elims(stack), e.req = r PROVE FALSE
    <3>1. called[r] = 1
      BY <2>1, <2>4 DEF OnceAt
    <3> QED BY <2>2, <3>1, SMT
  <2> QED BY <2>2, <2>3, <2>4
<1>5. /\ \A q \in Reqs \ {r} : req'[q] = req[q]
      /\ req'[r].type = type /\ req'[r].handler = h /\ req'[r].script = s
  BY <1>1, SMTT(20) DEF SendRequest, TypeOK
<1>6. r \in Sent' /\ OutcomeOf(r) = "idle"
  BY <1>2, <1>3, <1>5 DEF Sent, OutcomeOf
<1>7. CASE /\ NoHandlerCall(frames)
           /\ \/ UNCHANGED <<mContainer, timer>> /\ ~(type = "con" /\ h)
              \/ type = "con" /\ \E d \in AckTimeouts : Put(r, NewHolder(h, d))
  <2>1. stack' = frames /\ called' = called /\ answer' = answer
    BY <1>7 DEF NoHandlerCall
  <2>2. /\ \A q \in Reqs \ {r} : q \in Pending' <=> q \in Pending
        /\ \A q \in Pending : mContainer'[q].handler = mContainer[q].handler
        /\ type = "con" /\ h => r \in Pending' /\ mContainer'[r].handler
        /\ r \in Pending' /\ mContainer'[r].handler => h
    <3>1. CASE UNCHANGED <<mContainer, timer>> /\ ~(type = "con" /\ h)
      BY <1>3, <3>1 DEF Pending
    <3>2. CASE type = "con" /\ \E d \in AckTimeouts : Put(r, NewHolder(h, d))
      <4>1. PICK d \in AckTimeouts : Put(r, NewHolder(h, d))
        BY <3>2
      <4>2. NewHolder(h, d) \in RequestHolder /\ NewHolder(h, d).handler = h
        BY <1>2, CoapAssumption, SMT DEF NewHolder, RequestHolder, TypeOK
      <4>3. /\ Pending' = Pending \cup {r}
            /\ mContainer'[r] = NewHolder(h, d)
            /\ \A q \in Pending \ {r} : mContainer'[q] = mContainer[q]
        BY <4>1, <4>2, PutStep
      <4> QED BY <1>3, <4>2, <4>3
    <3> QED BY <1>7, <3>1, <3>2
  <2>3. Local(r)
    BY <1>5, <2>1, <2>2 DEF Local
  <2>4. ShapeOf(stack')
    BY <2>1
  <2>5. OnceAt(r)'
    <3>1. \A e \in Elims(stack') : e.req # r
      BY <1>4, <2>1
    <3>2. called'[r] = 0 /\ answer'[r] = NoResponse /\ called'[r] <= 1
      BY <1>4, <2>1, SMT
    <3>3. /\ req'[r].type = "con" /\ req'[r].handler => r \in Pending' /\ mContainer'[r].handler
          /\ r \in Pending' /\ mContainer'[r].handler => req'[r].handler
      BY <1>5, <2>2
    <3> QED BY <1>2, <1>5, <3>1, <3>2, <3>3 DEF OnceAt
  <2>6. OutcomeOf(r)' \in {"open", "void"}
    BY <1>4, <1>6, <2>1 DEF OutcomeOf
  <2> QED BY <1>6, <2>3, <2>4, <2>5, <2>6, LocalStep DEF Allowed
<1>8. CASE CallHandler(r, s, NoResponse, frames) /\ UNCHANGED <<mContainer, timer>>
  <2>1. /\ stack' = Append(frames, Handler(r, s))
        /\ called'[r] = 1 /\ answer'[r] = NoResponse
        /\ \A q \in Reqs \ {r} : called'[q] = called[q] /\ answer'[q] = answer[q]
    BY <1>4, <1>8, SMT DEF CallHandler, TypeOK
  <2>2. ShapeOf(stack') /\ Elims(stack') = Elims(stack)
    BY <1>2, <2>1, ShapePushHandler
  <2>3. Pending' = Pending /\ mContainer' = mContainer
    BY <1>8 DEF Pending
  <2>4. Local(r)
    BY <1>5, <2>1, <2>2, <2>3 DEF Local
  <2>5. OnceAt(r)'
    <3>1. \A e \in Elims(stack') : e.req # r
      BY <1>4, <2>2
    <3>2. called'[r] # 0 /\ called'[r] <= 1
      BY <2>1, SMT
    <3> QED BY <1>2, <1>3, <1>5, <1>6, <2>1, <2>3, <3>1, <3>2 DEF OnceAt
  <2>6. OutcomeOf(r)' = "failed"
    BY <1>6, <2>1, SMT DEF OutcomeOf
  <2> QED BY <1>6, <2>2, <2>4, <2>5, <2>6, LocalStep DEF Allowed
<1> QED
  <2>1. \/ /\ type # "bad"
           /\ IF type = "con"
              THEN \E d \in AckTimeouts : Put(r, NewHolder(h, d))
              ELSE UNCHANGED <<mContainer, timer>>
           /\ NoHandlerCall(frames)
        \/ /\ IF h THEN CallHandler(r, s, NoResponse, frames) ELSE NoHandlerCall(frames)
           /\ UNCHANGED <<mContainer, timer>>
    BY <1>1 DEF SendRequest
  <2> QED BY <1>7, <1>8, <2>1

(* FinalizeTransaction calls the handler: c is what the cache becomes, ref *)
(* says whether the holder is the cached one.                              *)
LEMMA CallOnce ==
    ASSUME TypeOK, Once, NEW frames \in Seq(Frame), Base(frames), Elims(stack) = {},
           NEW r \in Pending, mContainer[r].handler, NEW resp \in {NoResponse, r},
           NEW ref \in BOOLEAN,
           CallHandler(r, req[r].script, resp, Append(frames, Eliminating(r, ref))),
           UNCHANGED req,
           \A q \in Pending \ {r} : q \in Pending' /\ mContainer'[q].handler = mContainer[q].handler,
           Pending' \subseteq Pending,
           ref => r \in Pending' /\ ~mContainer'[r].handler
    PROVE  Once' /\ PromiseStep
<1> DEFINE e == Eliminating(r, ref)
           fr == Append(frames, e)
<1>1. r \in Reqs /\ req[r].type = "con" /\ OnceAt(r) /\ r # NoResponse
  BY CoapAssumption, SMTT(20) DEF TypeOK, Once
<1>2. called[r] = 0 /\ req[r].handler /\ req[r].script \in Seq({"send"})
  BY <1>1 DEF OnceAt
<1>3. e \in Frame
  BY <1>1, FramesTyped
<1>4. ShapeOf(fr) /\ Elims(fr) = {e}
  BY <1>1, ShapePushEliminating
<1>5. e.req = r /\ e.ref = ref
  BY DEF Eliminating
<1>6. CallHandler(r, req[r].script, resp, fr)
  OBVIOUS
<1> HIDE DEF e
<1>7. fr \in Seq(Frame)
  BY <1>3, SMT
<1> HIDE DEF fr
<1>8. /\ stack' = Append(fr, Handler(r, req[r].script))
      /\ called'[r] = 1 /\ answer'[r] = resp
      /\ \A q \in Reqs \ {r} : called'[q] = called[q] /\ answer'[q] = answer[q]
  BY <1>1, <1>2, <1>6, SMT DEF CallHandler, TypeOK
<1>9. ShapeOf(stack') /\ Elims(stack') = {e}
  BY <1>1, <1>2, <1>4, <1>7, <1>8, ShapePushHandler
<1>10. Local(r)
  BY <1>5, <1>8, <1>9 DEF Local
<1>11. OnceAt(r)'
  <2>1. called'[r] # 0 /\ called'[r] <= 1 /\ called'[r] = 1
    <3>1. 1 # 0 /\ 1 <= 1
      BY SMT
    <3> QED BY <1>8, <3>1
  <2>2. r \in Sent'
    BY <1>1, SMTT(20) DEF Sent
  <2>3. \A f \in Elims(stack') : f.req = r => f.ref = ref
    BY <1>5, <1>9
  <2>4. \E f \in Elims(stack') : f.req = r
    BY <1>5, <1>9, SMTT(20)
  <2> QED BY <1>2, <1>8, <2>1, <2>2, <2>3, <2>4 DEF OnceAt
<1>12. OutcomeOf(r) = "open" /\ OutcomeOf(r)' \in {"failed", "answered"}
  BY <1>1, <1>2, <1>8, SMT DEF OutcomeOf, Sent
<1> QED BY <1>1, <1>9, <1>10, <1>11, <1>12, LocalStep DEF Allowed

(* FinalizeTransaction, or an empty acknowledgement, drops a request that  *)
(* is owed no call.                                                        *)
LEMMA DropOnce ==
    ASSUME TypeOK, Once, NEW r \in Pending, ~mContainer[r].handler,
           ShapeOf(stack'), Elims(stack) = {}, Elims(stack') = {},
           UNCHANGED <<req, called, answer>>,
           Pending' = Pending \ {r},
           \A q \in Pending' : mContainer'[q].handler = mContainer[q].handler
    PROVE  Once' /\ PromiseStep
<1>1. r \in Reqs /\ OnceAt(r) /\ Sent' = Sent
  BY DEF TypeOK, Once, Sent
<1>2. Local(r)
  BY DEF Local
<1>3. OnceAt(r)'
  BY <1>1, SMTT(20) DEF OnceAt
<1>4. OutcomeOf(r)' = OutcomeOf(r)
  BY <1>1 DEF OutcomeOf
<1> QED BY <1>1, <1>2, <1>3, <1>4, LocalStep, SMTT(20) DEF Allowed

(* FinalizeTransaction on a cached request calls its handler at most once,
   as the promise allows. *)
LEMMA FinalizeInPlaceOnce ==
    ASSUME TypeOK, Once, NEW frames \in Seq(Frame), Base(frames), Elims(stack) = {},
           NEW r \in Pending, NEW resp \in {NoResponse, r},
           FinalizeInPlace(r, resp, frames), UNCHANGED req
    PROVE  Once' /\ PromiseStep
<1>1. CASE mContainer[r].handler
  <2>1. /\ mContainer' = [mContainer EXCEPT ![r].handler = FALSE]
        /\ CallHandler(r, req[r].script, resp, Append(frames, Eliminating(r, TRUE)))
    BY <1>1 DEF FinalizeInPlace
  <2>2. /\ Pending' = Pending /\ ~mContainer'[r].handler
        /\ \A q \in Pending \ {r} : mContainer'[q].handler = mContainer[q].handler
    BY <2>1 DEF TypeOK, Pending, RequestHolder
  <2> QED BY <1>1, <2>1, <2>2, CallOnce
<1>2. CASE ~mContainer[r].handler
  <2>1. Eliminate(r) /\ stack' = frames /\ called' = called /\ answer' = answer
    BY <1>2 DEF FinalizeInPlace, NoHandlerCall
  <2>2. Pending' = Pending \ {r} /\ \A q \in Pending' : mContainer'[q] = mContainer[q]
    BY <2>1, EliminateStep
  <2>3. ShapeOf(stack') /\ Elims(stack') = {}
    BY <2>1, BaseShape
  <2> QED BY <1>2, <2>1, <2>2, <2>3, DropOnce
<1> QED BY <1>1, <1>2

(* FinalizeTransaction on Retransmit's copy of the holder.                 *)
LEMMA FinalizeCopyOnce ==
    ASSUME TypeOK, Once, Base(stack), Elims(stack) = {}, NEW r \in Pending,
           NEW D \in {Pending, Pending \ {r}}, NEW c \in [D -> RequestHolder], NEW t,
           \A q \in D : c[q].handler = mContainer[q].handler,
           FinalizeCopy(r, c, t), UNCHANGED req
    PROVE  Once' /\ PromiseStep
<1>1. CASE mContainer[r].handler
  <2>1. /\ mContainer' = c
        /\ CallHandler(r, req[r].script, NoResponse, Append(stack, Eliminating(r, FALSE)))
    BY <1>1 DEF FinalizeCopy
  <2>2. Pending' = D
    BY <2>1 DEF Pending
  <2>3. stack \in Seq(Frame)
    BY SMTT(20) DEF TypeOK
  <2>4. /\ \A q \in Pending \ {r} :
             q \in Pending' /\ mContainer'[q].handler = mContainer[q].handler
        /\ Pending' \subseteq Pending
    BY <2>1, <2>2
  <2> QED BY <1>1, <2>1, <2>3, <2>4, CallOnce
<1>2. CASE ~mContainer[r].handler
  <2>1. mContainer' = Without(c, r) /\ stack' = stack /\ called' = called /\ answer' = answer
    BY <1>2, SMTT(20) DEF FinalizeCopy, NoHandlerCall
  <2>2. Pending' = Pending \ {r}
        /\ \A q \in Pending' : mContainer'[q].handler = mContainer[q].handler
    BY <2>1, SMTT(20) DEF Without, Pending
  <2>3. ShapeOf(stack') /\ Elims(stack') = {}
    BY <2>1 DEF Once
  <2> QED BY <1>2, <2>1, <2>2, <2>3, DropOnce, SMTT(20)
<1> QED BY <1>1, <1>2

(* Retransmitting a request that is due, or giving it up, keeps the promise. *)
LEMMA RetransmitOnce ==
    ASSUME TypeOK, Once, NEW r \in Pending, Retransmit(r)
    PROVE  Once' /\ PromiseStep
<1> DEFINE popped == Without(mContainer, r)
           t1 == UpdateTimer(popped, timer)
           h == Backoff(mContainer[r])
           again == With(popped, r, h)
           t2 == UpdateTimer(again, t1)
<1>1. Base(stack) /\ Elims(stack) = {}
  <2>1. stack # <<>> /\ Top.op \in Loops /\ stack \in Seq(Frame) /\ ShapeOf(stack)
    BY DEF Retransmit, Running, Loops, TypeOK, Once
  <2> QED BY <2>1, LoopIsBase, BaseShape
<1>2. mContainer \in [Pending -> RequestHolder] /\ now \in Nat
  BY DEF TypeOK
<1>3. /\ popped \in [Pending \ {r} -> RequestHolder]
      /\ \A q \in Pending \ {r} : popped[q].handler = mContainer[q].handler
  BY <1>2 DEF Without
<1>4. h \in RequestHolder /\ h.handler = mContainer[r].handler
  <2>1. h \in RequestHolder
    BY <1>2, BackoffTyped
  <2>2. h.handler = mContainer[r].handler
    BY <1>2 DEF Backoff, RequestHolder
  <2> QED BY <2>1, <2>2
<1>5. /\ again \in [Pending -> RequestHolder]
      /\ \A q \in Pending : again[q].handler = mContainer[q].handler
  <2> HIDE DEF h, popped
  <2> QED BY <1>2, <1>3, <1>4 DEF With
<1>6. /\ UNCHANGED req
      /\ \/ mContainer' = again /\ NoHandlerCall(stack)
         \/ FinalizeCopy(r, again, t2)
         \/ FinalizeCopy(r, popped, t1)
  BY DEF Retransmit
<1> HIDE DEF popped, again, t1, t2
<1>7. CASE mContainer' = again /\ NoHandlerCall(stack)
  <2>1. Pending' = Pending /\ \A q \in Pending : mContainer'[q].handler = mContainer[q].handler
    BY <1>5, <1>7 DEF Pending
  <2> QED BY <1>6, <1>7, <2>1, StackStep DEF NoHandlerCall, Once
<1>8. CASE FinalizeCopy(r, again, t2)
  BY <1>1, <1>5, <1>6, <1>8, FinalizeCopyOnce
<1>9. CASE FinalizeCopy(r, popped, t1)
  BY <1>1, <1>3, <1>6, <1>9, FinalizeCopyOnce
<1> QED BY <1>6, <1>7, <1>8, <1>9

-----------------------------------------------------------------------------
(* Every step of the CoAP client keeps the promise, when handlers only send. *)
LEMMA NextOnce == ASSUME SendOnly, Inv, Once, [Next]_vars PROVE Once' /\ PromiseStep
<1>1. TypeOK /\ stack \in Seq(Frame) /\ ShapeOf(stack)
  BY DEF Inv, TypeOK, Once
<1>2. /\ <<>> \in Seq(Frame) /\ Base(<<>>) /\ ShapeOf(<<>>) /\ Elims(<<>>) = {}
  <2>1. <<>> \in Seq(Frame)
    BY SMT
  <2> QED BY <2>1, BaseShape DEF Base
<1>3. CASE UserSend
  BY <1>1, <1>2, <1>3, SendOnce DEF UserSend, Idle
<1>4. CASE UserCancel
  <2>1. Elims(stack) = {} /\ stack' = <<Cancelling>>
    BY <1>2, <1>4 DEF UserCancel, Idle
  <2>2. Base(<<Cancelling>>) /\ <<Cancelling>> \in Seq(Frame)
    BY FramesTyped, SMT DEF Base, Cancelling, Loops
  <2>3. ShapeOf(stack') /\ Elims(stack') = {}
    BY <2>1, <2>2, BaseShape
  <2>4. UNCHANGED <<req, mContainer, called, answer>>
    BY <1>4 DEF UserCancel
  <2> QED BY <2>1, <2>3, <2>4, StackStep DEF Pending
<1>5. CASE Receive
  <2>1. PICK m \in Response, r \in Pending : HandleResponse(m, r)
    BY <1>5 DEF Receive
  <2>2. stack = <<>> /\ Elims(stack) = {} /\ UNCHANGED req
    BY <1>2, <2>1 DEF HandleResponse, Piggybacked, Idle
  <2>3. CASE FinalizeInPlace(r, NoResponse, <<>>)
    BY <1>1, <1>2, <2>2, <2>3, FinalizeInPlaceOnce
  <2>4. CASE m.token = r /\ FinalizeInPlace(r, m.token, <<>>)
    BY <1>1, <1>2, <2>2, <2>4, FinalizeInPlaceOnce
  <2>5. CASE /\ mContainer' = [mContainer EXCEPT ![r].acked = TRUE]
             /\ NoHandlerCall(<<>>)
    <3>1. Pending' = Pending /\ \A q \in Pending : mContainer'[q].handler = mContainer[q].handler
      BY <1>1, <2>5 DEF TypeOK, Pending, RequestHolder
    <3> QED BY <1>2, <2>2, <2>5, <3>1, StackStep DEF NoHandlerCall
  <2>6. CASE ~mContainer[r].handler /\ Eliminate(r) /\ NoHandlerCall(<<>>)
    <3>1. Pending' = Pending \ {r} /\ \A q \in Pending' : mContainer'[q] = mContainer[q]
      BY <1>1, <2>6, EliminateStep
    <3> QED BY <1>1, <1>2, <2>2, <2>6, <3>1, DropOnce DEF NoHandlerCall
  <2>7. m.type \in {"con", "non"} => m.token = r
    BY <2>1 DEF HandleResponse, Piggybacked, Matched, Matches
  <2> QED BY <2>1, <2>3, <2>4, <2>5, <2>6, <2>7 DEF HandleResponse, Piggybacked
<1>6. CASE TimerFires
  <2>1. Elims(stack) = {} /\ stack' = <<Retransmitting>>
    BY <1>2, <1>6 DEF TimerFires, Idle
  <2>2. Base(<<Retransmitting>>) /\ <<Retransmitting>> \in Seq(Frame)
    BY FramesTyped, SMT DEF Base, Retransmitting, Loops
  <2>3. ShapeOf(stack') /\ Elims(stack') = {}
    BY <2>1, <2>2, BaseShape
  <2>4. UNCHANGED <<req, mContainer, called, answer>>
    BY <1>6 DEF TimerFires
  <2> QED BY <2>1, <2>3, <2>4, StackStep DEF Pending
<1>7. CASE Tick
  BY <1>1, <1>7, StackStep DEF Tick, Pending
<1>8. CASE CancelRequests
  <2>1. stack # <<>> /\ Top.op \in Loops /\ Top.op # "eliminate" /\ UNCHANGED req
    BY <1>8 DEF CancelRequests, Running, Loops
  <2>2. CASE stack' = Callers /\ UNCHANGED <<mContainer, timer, called, answer>>
    BY <1>1, <2>1, <2>2, ShapeCallers, StackStep DEF Pending
  <2>3. CASE \E r \in Pending : FinalizeInPlace(r, NoResponse, stack)
    BY <1>1, <2>1, <2>3, LoopIsBase, BaseShape, FinalizeInPlaceOnce
  <2> QED BY <1>8, <2>2, <2>3 DEF CancelRequests
<1>9. CASE HandlerSends
  <2>1. Running("handler") /\ Top.todo # <<>>
    BY <1>9 DEF HandlerSends
  <2>2. HandlerFrames \in Seq(Frame) /\ ShapeOf(HandlerFrames)
        /\ Elims(HandlerFrames) = Elims(stack)
    BY <1>1, <2>1, HandlerFramesTyped, ShapeHandlerFrames
  <2>3. CASE SendAny(HandlerFrames)
    BY <1>1, <2>2, <2>3, SendOnce
  <2>4. CASE stack' = HandlerFrames /\ UNCHANGED <<req, mContainer, called, answer>>
    BY <1>1, <2>2, <2>4, StackStep DEF Pending
  <2> QED BY <1>9, <2>3, <2>4 DEF HandlerSends
<1>10. ~HandlerCancels
  <2> SUFFICES ASSUME HandlerCancels PROVE FALSE
    OBVIOUS
  <2>1. stack # <<>> /\ Top.op = "handler" /\ Top.todo # <<>> /\ Head(Top.todo) = "cancel"
    BY DEF HandlerCancels, Running
  <2>2. Len(stack) \in 1..Len(stack) /\ Top = stack[Len(stack)]
    BY <1>1, <2>1, CallersTyped, SMT DEF Top
  <2>3. Top.todo \in Seq({"send"})
    BY <1>1, <2>1, <2>2 DEF ShapeOf
  <2>4. Head(Top.todo) \in {"send"}
    BY <2>1, <2>3, SMT
  <2> QED BY <2>1, <2>4
<1>11. CASE HandlerReturns
  BY <1>1, <1>11, ShapeCallers, StackStep DEF HandlerReturns, Running, Pending
<1>12. CASE FinalizeReturns
  <2>1. stack # <<>> /\ Top.op = "eliminate" /\ stack' = Callers
        /\ UNCHANGED <<req, called, answer>>
    BY <1>12 DEF FinalizeReturns, Running
  <2>2. ShapeOf(stack') /\ Elims(stack') = {} /\ Elims(stack) = {Top}
    BY <1>1, <2>1, ShapeCallers
  <2>3. PICK r \in Reqs : Top.req = r
    BY <1>1, <2>1, CallersTyped, SMTT(20) DEF Frame
  <2>4. OnceAt(r) /\ called[r] = 1 /\ (Top.ref => r \in Pending)
    BY <2>2, <2>3 DEF Once, OnceAt
  <2>5. Eliminate(r)
    BY <1>12, <2>3, <2>4 DEF FinalizeReturns
  <2>6. Pending' = Pending \ {r} /\ \A q \in Pending' : mContainer'[q] = mContainer[q]
    BY <1>1, <2>5, EliminateStep
  <2>7. Sent' = Sent
    BY <2>1 DEF Sent
  <2>8. Local(r)
    BY <2>1, <2>2, <2>3, <2>6 DEF Local
  <2>9. OnceAt(r)'
    <3>1. called'[r] # 0 /\ called'[r] <= 1
      BY <2>1, <2>4, SMT
    <3>2. r \notin Pending'
      BY <2>6, SMTT(20)
    <3> QED BY <2>1, <2>2, <2>4, <2>7, <3>1, <3>2 DEF OnceAt
  <2>10. OutcomeOf(r)' = OutcomeOf(r)
    BY <2>1, <2>7 DEF OutcomeOf
  <2>11. Allowed(OutcomeOf(r), OutcomeOf(r)')
    BY <2>10 DEF Allowed
  <2> QED BY <2>2, <2>8, <2>9, <2>11, LocalStep
<1>13. CASE \E r \in Pending : Retransmit(r)
  BY <1>1, <1>13, RetransmitOnce
<1>14. CASE RetransmitReturns
  BY <1>1, <1>14, ShapeCallers, StackStep DEF RetransmitReturns, Running, Pending
<1>15. CASE UNCHANGED vars
  BY <1>1, <1>15, StackStep DEF vars, Pending
<1> QED
  BY <1>3, <1>4, <1>5, <1>6, <1>7, <1>8, <1>9, <1>10, <1>11, <1>12, <1>13, <1>14,
     <1>15 DEF Next, Callback

(* The invariant holds of every behaviour.                                 *)
LEMMA AlwaysOnce == ASSUME SendOnly PROVE Spec => [](Inv /\ Once)
<1>1. Init => Inv /\ Once
  BY InitInv, InitOnce
<1>2. Inv /\ Once /\ [Next]_vars => (Inv /\ Once)'
  BY NextInv, NextOnce
<1> QED BY <1>1, <1>2, PTL DEF Spec

(* coap.cpp:877, "stop a handler being recalled": if handlers only send,   *)
(* none is called twice, though Retransmit leaves the handler in the cache *)
(* when it finalises a copy of the holder.                                 *)
THEOREM AtMostOnce == ASSUME SendOnly PROVE Spec => []HandlerCalledAtMostOnce
<1>1. Inv /\ Once => HandlerCalledAtMostOnce
  BY DEF Once, OnceAt, HandlerCalledAtMostOnce
<1> QED BY <1>1, AlwaysOnce, PTL

(* coap.hpp:624, "aHandler is guaranteed to be called": if handlers only   *)
(* send, a confirmable request stays in the cache with its handler until   *)
(* the handler is called.                                                  *)
THEOREM NoneForgotten == ASSUME SendOnly PROVE Spec => []NoRequestForgotten
<1>1. Inv /\ Once => NoRequestForgotten
  BY DEF Once, OnceAt, NoRequestForgotten
<1> QED BY <1>1, AlwaysOnce, PTL

(* If handlers only send, the client implements the safety part of the     *)
(* promise: every handler owed a call gets at most one, with the response  *)
(* to its own request or with an error, and one that needs none gets none. *)
THEOREM ImplementsPromise == ASSUME SendOnly PROVE Spec => Promise!Spec
<1>1. Init => Promise!Init
  BY InitOnce
<1>2. Inv /\ Once /\ [Next]_vars => [Promise!Next]_Outcome
  BY NextOnce DEF PromiseStep
<1> QED BY <1>1, <1>2, AlwaysOnce, PTL DEF Spec, Promise!Spec

=============================================================================
