------------------------------- MODULE MCCoap -------------------------------
(* Instances of Coap for TLC.                                              *)
EXTENDS Coap, TLC

\* Handlers that only send.
SendingScripts == {<<>>, <<"send">>}

\* Handlers that also cancel every outstanding request.
CancellingScripts == {<<>>, <<"send">>, <<"cancel">>}

Symmetry == Permutations(Reqs)
=============================================================================
