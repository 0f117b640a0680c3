------------------------- MODULE CommissionerSafe -------------------------
(***************************************************************************)
(* CommissionerSafe (library/commissioner_safe.cpp): API calls of user     *)
(* threads become requests in mAsyncRequestQueue, and a libevent event,    *)
(* mInvokeEvent, makes the event-loop thread run them.  A synchronous call *)
(* waits for a promise that its response handler sets on that thread.      *)
(***************************************************************************)
EXTENDS Naturals, Sequences

CONSTANTS
    Threads,        \* user threads
    ApiCalls,          \* API calls a run may make, each at most once
    ThreadKinds,    \* kinds of calls user threads make
    HandlersCall,   \* do handlers on the event-loop thread make calls
    NoCall          \* a thread that waits for nothing

ASSUME SafeAssumption ==
    /\ ThreadKinds \subseteq {"sync", "async", "cancel"}
    /\ HandlersCall \in BOOLEAN
    /\ NoCall \notin ApiCalls

VARIABLES
    call,               \* call[c]: how far call c has got
    kind,               \* kind[c]: what c is
    mAsyncRequestQueue, \* requests pushed and not yet popped
    active,             \* mInvokeEvent is active in libevent
    loop,               \* what the event-loop thread is doing
    request,            \* the request Invoke has popped
    waits,              \* waits[t]: call whose promise t waits for
    pushed              \* every call made, in the order of the pushes

safeVars == <<call, kind, mAsyncRequestQueue, active, loop, request, waits, pushed>>

Progress == {"new", "queued", "running", "outstanding", "done"}

Outstanding == {c \in ApiCalls : call[c] = "outstanding"}

(* The destructor has been entered.                                        *)
Stopping == \E c \in ApiCalls : kind[c] = "stop"

SafeInit ==
    /\ call = [c \in ApiCalls |-> "new"]
    /\ kind = [c \in ApiCalls |-> "none"]
    /\ mAsyncRequestQueue = <<>>
    /\ active = FALSE
    /\ loop = "waiting"
    /\ request = NoCall
    /\ waits = [t \in Threads |-> NoCall]
    /\ pushed = <<>>

-----------------------------------------------------------------------------
(* PushAsyncRequest, under mInvokeMutex.  libevent's event_active has no   *)
(* effect on an event that is already active.                              *)
PushAsyncRequest(c, k) ==
    /\ call[c] = "new"
    /\ call' = [call EXCEPT ![c] = "queued"]
    /\ kind' = [kind EXCEPT ![c] = k]
    /\ mAsyncRequestQueue' = Append(mAsyncRequestQueue, c)
    /\ pushed' = Append(pushed, c)
    /\ active' = TRUE

(* A user thread calls the API; a synchronous call then waits.             *)
UserCalls(t, c, k) ==
    /\ waits[t] = NoCall
    /\ ~Stopping
    /\ PushAsyncRequest(c, k)
    /\ waits' = IF k = "sync" THEN [waits EXCEPT ![t] = c] ELSE waits
    /\ UNCHANGED <<loop, request>>

(* The destructor: StopEventLoopThread pushes a request and waits for it.  *)
(* No other thread is inside a call.                                       *)
StopEventLoopThread(t, c) ==
    /\ \A u \in Threads : waits[u] = NoCall
    /\ ~Stopping
    /\ PushAsyncRequest(c, "stop")
    /\ waits' = [waits EXCEPT ![t] = c]
    /\ UNCHANGED <<loop, request>>

(* The promise a thread waits for has been set.                            *)
CallReturns(t) ==
    /\ waits[t] # NoCall
    /\ call[waits[t]] = "done"
    /\ waits' = [waits EXCEPT ![t] = NoCall]
    /\ UNCHANGED <<call, kind, mAsyncRequestQueue, active, loop, request, pushed>>

-----------------------------------------------------------------------------
(* The event-loop thread.                                                  *)

(* libevent clears the active flag of a persistent event, then runs its    *)
(* callback.                                                               *)
EventFires ==
    /\ loop = "waiting" /\ active
    /\ active' = FALSE
    /\ loop' = "invoking"
    /\ UNCHANGED <<call, kind, mAsyncRequestQueue, request, waits, pushed>>

(* Mutant: no timeout was given to event_add.                              *)
DayNeverPasses == FALSE /\ UNCHANGED safeVars

(* The timeout given to event_add in Init activates the event once a day.  *)
DayPasses ==
    /\ loop = "waiting" /\ ~active
    /\ active' = TRUE
    /\ UNCHANGED <<call, kind, mAsyncRequestQueue, loop, request, waits, pushed>>

(* Mutant: the newest request is taken.                                    *)
PopNewest ==
    /\ loop = "invoking"
    /\ IF mAsyncRequestQueue = <<>>
       THEN /\ loop' = "waiting"
            /\ UNCHANGED <<call, mAsyncRequestQueue, request>>
       ELSE /\ request' = mAsyncRequestQueue[Len(mAsyncRequestQueue)]
            /\ mAsyncRequestQueue' =
                  SubSeq(mAsyncRequestQueue, 1, Len(mAsyncRequestQueue) - 1)
            /\ call' = [call EXCEPT ![request'] = "running"]
            /\ loop' = "running"
    /\ UNCHANGED <<kind, active, waits, pushed>>

(* PopAsyncRequest, under mInvokeMutex.                                    *)
PopAsyncRequest ==
    /\ loop = "invoking"
    /\ IF mAsyncRequestQueue = <<>>
       THEN /\ loop' = "waiting"
            /\ UNCHANGED <<call, mAsyncRequestQueue, request>>
       ELSE /\ request' = Head(mAsyncRequestQueue)
            /\ mAsyncRequestQueue' = Tail(mAsyncRequestQueue)
            /\ call' = [call EXCEPT ![request'] = "running"]
            /\ loop' = "running"
    /\ UNCHANGED <<kind, active, waits, pushed>>

(* Once a handler of the user's was called the thread may be inside it.    *)
AfterHandler == IF HandlersCall THEN {"waiting", "handling"} ELSE {"waiting"}

(* Invoke calls the request: it breaks the loop, calls the handler at      *)
(* once, leaves a CoAP request outstanding, or cancels what is outstanding *)
(* (CommissionerImpl::CancelRequests does not reach a handshake).          *)
Invoke ==
    /\ loop = "running"
    /\ request' = NoCall
    /\ CASE kind[request] = "stop" ->
              call' = [call EXCEPT ![request] = "done"] /\ loop' = "broken"
         [] kind[request] = "cancel" ->
              /\ \E S \in SUBSET Outstanding :
                    call' = [c \in ApiCalls |->
                               IF c \in S \cup {request} THEN "done" ELSE call[c]]
              /\ loop' \in AfterHandler
         [] OTHER ->
              \/ call' = [call EXCEPT ![request] = "done"] /\ loop' \in AfterHandler
              \/ call' = [call EXCEPT ![request] = "outstanding"] /\ loop' = "waiting"
    /\ UNCHANGED <<kind, mAsyncRequestQueue, active, waits, pushed>>

(* A response, a timeout or an error finalises an outstanding request.     *)
Complete(c) ==
    /\ loop = "waiting"
    /\ c \in Outstanding
    /\ call' = [call EXCEPT ![c] = "done"]
    /\ loop' \in AfterHandler
    /\ UNCHANGED <<kind, mAsyncRequestQueue, active, request, waits, pushed>>

(* A message makes the library call the CommissionerHandler.               *)
OnDatasetChanged ==
    /\ HandlersCall
    /\ loop = "waiting"
    /\ loop' = "handling"
    /\ UNCHANGED <<call, kind, mAsyncRequestQueue, active, request, waits, pushed>>

(* A handler makes an asynchronous call on the event-loop thread.          *)
HandlerCalls(c) ==
    /\ loop = "handling"
    /\ PushAsyncRequest(c, "async")
    /\ UNCHANGED <<loop, request, waits>>

HandlerReturns ==
    /\ loop = "handling"
    /\ loop' = "waiting"
    /\ UNCHANGED <<call, kind, mAsyncRequestQueue, active, request, waits, pushed>>

-----------------------------------------------------------------------------
SafeNext ==
    \/ \E t \in Threads, c \in ApiCalls, k \in ThreadKinds : UserCalls(t, c, k)
    \/ \E t \in Threads, c \in ApiCalls : StopEventLoopThread(t, c)
    \/ \E t \in Threads : CallReturns(t)
    \/ \E c \in ApiCalls : Complete(c) \/ HandlerCalls(c)
    \/ EventFires \/ PopAsyncRequest \/ Invoke \/ HandlerReturns
    \/ DayPasses
    \/ OnDatasetChanged

SafeSpec == SafeInit /\ [][SafeNext]_safeVars

(* libevent serves an active event however many others it serves, a        *)
(* callback returns, outstanding requests are finalised (the promise of    *)
(* Coap::SendRequest), and woken threads return.                           *)
SafeFairness ==
    /\ SF_safeVars(EventFires)
    /\ WF_safeVars(PopAsyncRequest) /\ WF_safeVars(Invoke) /\ WF_safeVars(HandlerReturns)
    /\ \A c \in ApiCalls : SF_safeVars(Complete(c))
    /\ \A t \in Threads : WF_safeVars(CallReturns(t))

FairSafeSpec == SafeSpec /\ SafeFairness

(* Days pass, too.                                                         *)
DailySpec == FairSafeSpec /\ SF_safeVars(DayPasses)

-----------------------------------------------------------------------------
(* Every variable has its type, and Invoke never calls an empty request.   *)
SafeTypeOK ==
    /\ call \in [ApiCalls -> Progress]
    /\ kind \in [ApiCalls -> {"none", "sync", "async", "cancel", "stop"}]
    /\ mAsyncRequestQueue \in Seq(ApiCalls)
    /\ active \in BOOLEAN
    /\ loop \in {"waiting", "invoking", "running", "handling", "broken"}
    /\ request \in ApiCalls \cup {NoCall}
    /\ loop = "running" => request # NoCall
    /\ waits \in [Threads -> ApiCalls \cup {NoCall}]
    /\ pushed \in Seq(ApiCalls)

(* commissioner_safe.hpp:218, the event "will be activated by user calls   *)
(* and the callback will be run in mEventThread to do the actual work":    *)
(* whenever a request is queued, a callback that will pop it is due.       *)
Notified ==
    mAsyncRequestQueue # <<>> => active \/ loop \in {"invoking", "broken"}

(* PopAsyncRequest: a call is run only after every call made before it, by *)
(* whatever thread, so a handler sees the effects of earlier calls.        *)
InOrder ==
    \A i, j \in 1..Len(pushed) :
        i < j /\ call[pushed[i]] = "queued" => call[pushed[j]] = "queued"

(* Every call made is run, unless the destructor came first, and every     *)
(* synchronous call and the destructor return; for a request whose         *)
(* activation was shared with another's, by the daily timeout.             *)
CallsReturn ==
    /\ \A c \in ApiCalls : call[c] = "queued" ~> call[c] # "queued" \/ loop = "broken"
    /\ \A t \in Threads : waits[t] # NoCall ~> waits[t] = NoCall
=============================================================================
