------------------------------ MODULE MCTable ------------------------------
(* An instance of JoinerTable for TLC.                                     *)
EXTENDS JoinerTable, TLC

Data(otherLength, ids) == [present |-> TRUE, otherLength |-> otherLength, ids |-> ids]

(* No steering data, or that of every joiner, in 16 bytes or in fewer, for *)
(* any one type.                                                           *)
SomeDatasets ==
    {[t \in Types |-> IF t = u THEN d ELSE Absent] :
        u \in Types, d \in {Absent, Data(FALSE, Eui64s), Data(TRUE, Eui64s)}}

Symmetry == Permutations(Types) \cup Permutations(Eui64s)
=============================================================================
