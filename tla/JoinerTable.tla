---------------------------- MODULE JoinerTable ----------------------------
(***************************************************************************)
(* The joiners that the CLI application (app/commissioner_app.cpp) has     *)
(* enabled, the steering data of its Commissioner Dataset, and the         *)
(* dataset of the leader, from which the mesh tells joiners whether they   *)
(* may try.                                                                *)
(*                                                                         *)
(* A command is a request to the leader and, when it succeeds, a change of *)
(* the application's own state; Ctrl-C, on the signal thread, may stop the *)
(* application meanwhile.  Steering data is the set of joiners added to    *)
(* it; AllJoiners stands for the data {0xFF}, and for the joiner id of     *)
(* EUI-64 0 in the table.  That a Bloom filter may admit more joiners than *)
(* were added is left out.                                                 *)
(***************************************************************************)
EXTENDS Naturals

CONSTANTS
    Types,        \* kMeshCoP, kAE, kNMKP
    Eui64s,
    AllJoiners,
    UserDatasets  \* the steering data that users set themselves

JoinerIds == Eui64s \cup {AllJoiners}

(* The present flag, whether the bytes are fewer or more than 16, and the  *)
(* joiners added to them.  The bytes stay when the flag is cleared.        *)
SteeringData == [present : BOOLEAN, otherLength : BOOLEAN, ids : SUBSET JoinerIds]

ASSUME TableAssumption ==
    /\ AllJoiners \notin Eui64s
    /\ UserDatasets \subseteq [Types -> SteeringData]

VARIABLES
    mJoiners,      \* mJoiners[t]: enabled joiners of type t
    mCommDataset,  \* mCommDataset[t]: steering data for type t
    active,        \* the commissioner is active
    leader,        \* the steering data of the leader
    command,       \* the command waiting for the leader's answer
    cancel,        \* what the signal thread is to do next: nothing, to
                   \* resign or to clear the table and the dataset
    unsure         \* a command failed, or met Ctrl-C, and none has succeeded since

tableVars == <<mJoiners, mCommDataset, active, leader, command, cancel, unsure>>

Absent == [present |-> FALSE, otherLength |-> TRUE, ids |-> {}]
NoSteering == [t \in Types |-> Absent]
Nobody == [t \in Types |-> {}]
NoCommand == [what |-> "none"]

TableInit ==
    /\ mJoiners = Nobody /\ mCommDataset = NoSteering
    /\ active = FALSE
    /\ leader = NoSteering
    /\ command = NoCommand
    /\ cancel = "no"
    /\ unsure = FALSE

-----------------------------------------------------------------------------
(* SetCommissionerDataset: the dataset that is sent, and the joiners that  *)
(* are erased from the table and added to it if it succeeds.               *)
Request(what, dataset, erased, added) ==
    /\ command = NoCommand
    /\ command' = [what |-> what, dataset |-> dataset, erased |-> erased, added |-> added,
                   applied |-> FALSE, cut |-> FALSE]

Command(what, dataset, erased, added) ==
    /\ active
    /\ Request(what, dataset, erased, added)
    /\ UNCHANGED <<mJoiners, mCommDataset, active, leader, cancel, unsure>>

Of(t, S) == [u \in Types |-> IF u = t THEN S ELSE {}]

(* GetSteeringData, and what is assigned to it.                            *)
Steering(t, otherLength, ids) ==
    [mCommDataset EXCEPT ![t] = [present |-> TRUE, otherLength |-> otherLength, ids |-> ids]]

(* Data of another length than 16 bytes is cleared first.                  *)
AddJoiner(d, e) == (IF d.otherLength THEN {} ELSE d.ids) \cup {e}

EnableJoiner(t, e) ==
    /\ e \notin mJoiners[t]
    /\ Command("enable", Steering(t, FALSE, AddJoiner(mCommDataset[t], e)), Nobody, Of(t, {e}))

(* The id of the joiner to disable, not of each other joiner, is added to  *)
(* the new steering data, and is computed only if there is another joiner, *)
(* of any type.                                                            *)
DisableJoiner(t, e) ==
    LET others == \E u \in Types : \E f \in mJoiners[u] : <<u, f>> # <<t, e>>
    IN  Command("disable one", Steering(t, ~others, IF others THEN {e} ELSE {}),
                IF others THEN Of(t, {e}) ELSE Nobody, Nobody)

EnableAllJoiners(t) ==
    Command("enable", Steering(t, TRUE, {AllJoiners}), Of(t, JoinerIds), Of(t, {AllJoiners}))

(* Mutant: the steering data is not cleared.                               *)
DisableAllErasing(t) == Command("disable", mCommDataset, Of(t, JoinerIds), Nobody)

DisableAllJoiners(t) == Command("disable", Steering(t, TRUE, {}), Of(t, JoinerIds), Nobody)

SetJoinerUdpPort == Command("port", mCommDataset, Nobody, Nobody)

(* A dataset of the user's, with any steering data or none.                *)
SetCommissionerDataset(d) == Command("dataset", d, Nobody, Nobody)

SyncNetworkData == Command("sync", mCommDataset, Nobody, Nobody)

(* A petition that is accepted, and the synchronisation that follows.      *)
Start ==
    /\ ~active /\ active' = TRUE
    /\ leader' = NoSteering
    /\ Request("start", mCommDataset, Nobody, Nobody)
    /\ UNCHANGED <<mJoiners, mCommDataset, cancel, unsure>>

-----------------------------------------------------------------------------
(* What is sent of a dataset.                                              *)
Shown(d) == [t \in Types |-> IF d[t].present THEN d[t] ELSE Absent]

(* SyncNetworkData takes mCommDataset some time after it began.            *)
LeaderApplies ==
    /\ command # NoCommand /\ active
    /\ ~command.applied
    /\ \E d \in {command.dataset} \cup (IF command.what \in {"start", "sync"} THEN {mCommDataset}
                                       ELSE {}) :
          /\ command' = [command EXCEPT !.applied = TRUE, !.dataset = d]
          /\ leader' = Shown(d)
    /\ UNCHANGED <<mJoiners, mCommDataset, active, cancel, unsure>>

(* MergeDataset of steering data: the bytes stay if there are none in src. *)
MergeDataset(dst, src) ==
    [t \in Types |-> IF src[t].present THEN src[t] ELSE [dst[t] EXCEPT !.present = FALSE]]

(* Mutant: the dataset is not merged into the application's.               *)
SucceedUnmerged ==
    /\ command # NoCommand
    /\ command.applied
    /\ mJoiners' = [t \in Types |-> (mJoiners[t] \ command.erased[t]) \cup command.added[t]]
    /\ command' = NoCommand
    /\ unsure' = FALSE
    /\ UNCHANGED <<mCommDataset, active, leader, cancel>>

(* The dataset read back by SyncNetworkData is the one it has set.         *)
Succeed ==
    /\ command # NoCommand
    /\ command.applied
    /\ mCommDataset' = MergeDataset(mCommDataset, command.dataset)
    /\ mJoiners' = [t \in Types |-> (mJoiners[t] \ command.erased[t]) \cup command.added[t]]
    /\ command' = NoCommand
    /\ unsure' = FALSE
    /\ UNCHANGED <<active, leader, cancel>>

(* Stop resigns and forgets everything.  So does Start on a commissioner   *)
(* that is active: the petition is refused.                                *)
Resign == active' = FALSE /\ leader' = NoSteering
Clear == mJoiners' = Nobody /\ mCommDataset' = NoSteering

(* Refused, lost or cancelled, perhaps after the leader has applied it.    *)
(* Start then stops a commissioner that is active.                         *)
Fail ==
    /\ command # NoCommand
    /\ command' = NoCommand
    /\ unsure' = TRUE
    /\ IF command.what = "start" /\ active
       THEN Resign /\ Clear
       ELSE UNCHANGED <<mJoiners, mCommDataset, active, leader>>
    /\ UNCHANGED cancel

Stop ==
    /\ command = NoCommand
    /\ Resign /\ Clear
    /\ UNCHANGED <<command, cancel, unsure>>

(* A keep-alive failed or was rejected; the leader forgets the dataset.    *)
ConnectionLost ==
    /\ active /\ active' = FALSE
    /\ leader' = NoSteering
    /\ UNCHANGED <<mJoiners, mCommDataset, command, cancel, unsure>>

-----------------------------------------------------------------------------
(* Interpreter::CancelCommand of a commissioner that is not active: the    *)
(* signal thread resigns and then clears, while the main thread goes on.   *)
CancelCommand ==
    /\ cancel = "no" /\ ~active
    /\ cancel' = "resign"
    /\ UNCHANGED <<mJoiners, mCommDataset, active, leader, command, unsure>>

CancelResigns ==
    /\ cancel = "resign" /\ cancel' = "clear"
    /\ Resign
    /\ UNCHANGED <<mJoiners, mCommDataset, command, unsure>>

CancelClears ==
    /\ cancel = "clear" /\ cancel' = "no"
    /\ Clear
    /\ command' = IF command = NoCommand THEN command ELSE [command EXCEPT !.cut = TRUE]
    /\ unsure' = (unsure \/ active)
    /\ UNCHANGED <<active, leader>>

TableNext ==
    \/ \E t \in Types, e \in Eui64s : EnableJoiner(t, e)
    \/ \E t \in Types, e \in Eui64s : DisableJoiner(t, e)
    \/ \E t \in Types : EnableAllJoiners(t)
    \/ \E t \in Types : DisableAllJoiners(t)
    \/ \E d \in UserDatasets : SetCommissionerDataset(d)
    \/ SetJoinerUdpPort \/ SyncNetworkData \/ Start
    \/ LeaderApplies \/ Succeed \/ Fail \/ Stop \/ ConnectionLost
    \/ CancelCommand \/ CancelResigns \/ CancelClears

TableSpec == TableInit /\ [][TableNext]_tableVars

-----------------------------------------------------------------------------
(* Every variable has its type; the leader holds steering data only for a  *)
(* commissioner that is active.                                            *)
TableTypeOK ==
    /\ mJoiners \in [Types -> SUBSET JoinerIds]
    /\ mCommDataset \in [Types -> SteeringData]
    /\ leader \in [Types -> SteeringData]
    /\ ~active => leader = NoSteering
    /\ active \in BOOLEAN /\ unsure \in BOOLEAN /\ cancel \in {"no", "resign", "clear"}

(* While the commissioner is active, and no command is under way or has    *)
(* failed since the last success, the leader has the steering data that    *)
(* the application shows, also after a session was lost and another begun. *)
(* A Ctrl-C that was pressed before the session began, and clears the      *)
(* dataset only now, counts as a failure.                                  *)
LeaderHasSteeringData ==
    active /\ command = NoCommand /\ ~unsure => leader = Shown(mCommDataset)

(* Data of another length would be cleared by the next AddJoiner, and      *)
(* bytes that are not present come back with it.                           *)
Steered ==
    \A t \in Types :
        mJoiners[t] \cap Eui64s # {} =>
            /\ mCommDataset[t].present /\ ~mCommDataset[t].otherLength
            /\ mJoiners[t] \cap Eui64s \subseteq mCommDataset[t].ids
Invited == \A t \in Types : mCommDataset[t].ids \subseteq mJoiners[t]

(* The table and the steering data, which every command changes            *)
(* separately, stay in step through any sequence of commands, failures and *)
(* restarts.  A joiner that was enabled by its EUI-64 is in the steering   *)
(* data, and no other joiner than the enabled ones is in it, so that none  *)
(* is invited that OnJoinerRequest would refuse; until the user disables a *)
(* single joiner (commissioner_app.cpp:279 adds the wrong one) or sets     *)
(* steering data of their own (:403), or Ctrl-C clears the table under a   *)
(* command, which then brings the others back into the steering data only. *)
TableInStep ==
    [][command.what \notin {"disable one", "dataset"} =>
          /\ Steered => Steered'
          /\ Invited /\ (command # NoCommand => ~command.cut) => Invited']_tableVars
=============================================================================
