---------------------------- MODULE Transactions ----------------------------
(***************************************************************************)
(* What Coap::SendRequest promises its caller (library/coap.hpp:624-626):  *)
(* the handler of a confirmable request is called exactly once, with the   *)
(* response to that request or with an error.  The module says nothing of  *)
(* how: no message ids, no timer, no retransmission, no cache.             *)
(***************************************************************************)
CONSTANT Reqs

(* outcome[r]: "idle" before SendRequest; "open" while the handler is owed *)
(* a call; "answered" or "failed" once it was called, with a response or   *)
(* with an error; "void" if no call is owed (a request that needs no       *)
(* acknowledgement, or a null handler).                                    *)
VARIABLE outcome

Init == outcome = [r \in Reqs |-> "idle"]

Become(r, from, to) ==
    /\ outcome[r] \in from
    /\ outcome' = [outcome EXCEPT ![r] = to]

Open(r) == Become(r, {"idle"}, "open")
Waive(r) == Become(r, {"idle"}, "void")
Fail(r) == Become(r, {"idle", "open"}, "failed")
Answer(r) == Become(r, {"open"}, "answered")

Next == \E r \in Reqs : Open(r) \/ Waive(r) \/ Fail(r) \/ Answer(r)

Spec == Init /\ [][Next]_outcome

Fairness == \A r \in Reqs : WF_outcome(outcome[r] = "open" /\ (Fail(r) \/ Answer(r)))

FairSpec == Spec /\ Fairness
=============================================================================
