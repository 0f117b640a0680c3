------------------------------ MODULE MCToken ------------------------------
(* An instance of TokenManager for TLC.                                    *)
EXTENDS TokenManager

Claims == {"aud", "exp", "cnf"}

(* A good token, one without a key id and one of another domain.           *)
SomeTokens ==
    {[signed |-> TRUE, claims |-> Claims, aud |-> "here"],
     [signed |-> TRUE, claims |-> Claims \ {"cnf"}, aud |-> "here"],
     [signed |-> TRUE, claims |-> Claims, aud |-> "there"]}
=============================================================================
