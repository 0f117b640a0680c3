-------------------------- MODULE CommissionerApp --------------------------
(***************************************************************************)
(* What the CLI application knows of the network: the datasets of          *)
(* CommissionerApp (app/commissioner_app.cpp) that mirror those of the     *)
(* leader, the commands that read and write them, the notices of the       *)
(* leader, and Ctrl-C (app/cli/interpreter.cpp).                           *)
(*                                                                         *)
(* Three threads take turns: the main thread runs one command at a time    *)
(* and waits for its requests; the event thread takes the answers and      *)
(* calls the handlers; the signal thread cancels.  A value is the time at  *)
(* which the leader was given it.                                          *)
(***************************************************************************)
EXTENDS Naturals, Functions

CONSTANTS
    FieldSets,     \* sets of fields, one of which a behaviour is about
    MaxTime,       \* bound on the changes of the leader's datasets
    MaxNotices     \* bound on the notices of the leader

SetNow == {"ChannelMask", "ExtendedPanId", "NetworkName", "PSKc", "SecurityPolicy"}
SetLater == {"Channel", "MeshLocalPrefix", "NetworkMasterKey", "PanId"}
Hostnames == {"TriHostname", "RegistrarHostname"}

ASSUME AppAssumption ==
    /\ FieldSets \subseteq SUBSET (SetNow \cup SetLater \cup Hostnames)
    /\ MaxTime \in Nat /\ MaxNotices \in Nat

VARIABLES
    fields,       \* the fields that are set: one of FieldSets
    active,       \* the commissioner is active
    mirror,       \* mActiveDataset, mPendingDataset and mBbrDataset
    leader,       \* the leader's datasets
    held,         \* every <<field, value>> the leader has had, by dataset
    time,         \* number of changes of the leader's datasets
    unnoticed,    \* a change of the leader's is still to be noticed
    reads,        \* the reads of OnDatasetChanged outstanding
    notices,      \* number of notices received
    command,      \* what the main thread waits for
    cancel,       \* what the signal thread is to do next: nothing, to resign
                  \* or to clear the mirrors
    newest,       \* the newest time that the active dataset has to catch up with
    doubt,        \* mirrors that may be behind
    wiped         \* Ctrl-C has cleared the mirrors of an active commissioner

vars == <<fields, active, mirror, leader, held, time, unnoticed, reads, notices, command, cancel,
          newest, doubt, wiped>>

Kinds == {"active", "pending", "bbr"}

NoData == [f \in {} |-> 0]
NoMirror == [k \in Kinds |-> NoData]
NoCommand == [what |-> "none"]
Unserved == [at |-> 0, data |-> NoData]

Init ==
    /\ fields \in FieldSets
    /\ active = FALSE
    /\ mirror = NoMirror
    /\ leader = [k \in Kinds |-> IF k = "active" THEN [f \in fields \ Hostnames |-> 0] ELSE NoData]
    /\ held = [k \in Kinds |-> IF k = "active" THEN (fields \ Hostnames) \X {0} ELSE {}]
    /\ time = 0
    /\ unnoticed = FALSE
    /\ reads = {} /\ notices = 0
    /\ command = NoCommand
    /\ cancel = "no"
    /\ newest = 0 /\ doubt = {} /\ wiped = FALSE

Latest(m, n) == IF m > n THEN m ELSE n

Over(d, e) == [f \in DOMAIN d \cup DOMAIN e |-> IF f \in DOMAIN e THEN e[f] ELSE d[f]]

-----------------------------------------------------------------------------
(* Writing the mirror.  A dataset that is merged or assigned as it was at  *)
(* an earlier time than the mirror already showed, or an answer that never *)
(* comes, puts the mirror in doubt until a whole dataset that is no older  *)
(* replaces it.                                                            *)

(* Mutant: fields that were not there before are left out.                 *)
MergeKnown(m, k, data) == [m EXCEPT ![k] = [f \in DOMAIN @ |-> Over(@, data)[f]]]

(* MergeDataset: the fields that are present.                              *)
MergeDataset(m, k, data) == [m EXCEPT ![k] = Over(@, data)]

Merged(k, at) ==
    /\ newest' = IF k = "active" THEN Latest(newest, at) ELSE newest
    /\ doubt' = IF k = "active" /\ at < newest THEN doubt \cup {k} ELSE doubt
    /\ UNCHANGED wiped

(* S[k] is what the mirror of dataset k, for k in its domain, was assigned.*)
Assigned(S) ==
    LET old == {"active"} \cap {k \in DOMAIN S : S[k].at < newest}
    IN  /\ newest' = IF "active" \in DOMAIN S THEN Latest(newest, S["active"].at) ELSE newest
        /\ doubt' = (doubt \ DOMAIN S) \cup old
        /\ wiped' = (wiped /\ "active" \notin DOMAIN S)

(* What the leader has may not reach the mirrors of S.                     *)
Doubtful(S) ==
    /\ newest' = IF "active" \in S THEN time ELSE newest
    /\ doubt' = doubt \cup S
    /\ UNCHANGED wiped

(* CommissionerApp::Stop, which resigns; every request is cancelled.       *)
Stop ==
    /\ active' = FALSE
    /\ mirror' = NoMirror
    /\ reads' = {}
    /\ newest' = 0 /\ doubt' = {} /\ wiped' = FALSE

(* Whether the main thread waits for an answer: perhaps, if the leader has *)
(* given the last, and if not, certainly.                                  *)
Waiting == command # NoCommand /\ ~command.failed

Answered ==
    /\ Waiting
    /\ CASE command.what = "set" -> command.set > 0
         [] command.what = "hostname" -> DOMAIN command.got # {}
         [] command.what \in {"get", "read"} -> DOMAIN command.got # {}
         [] command.what \in {"start", "sync"} -> DOMAIN command.got = Kinds
         [] OTHER -> FALSE

(* The requests outstanding are cancelled.                                 *)
CancelRequests ==
    /\ reads' = {}
    /\ IF Waiting THEN \/ command' = [command EXCEPT !.failed = TRUE]
                       \/ Answered /\ UNCHANGED command
       ELSE UNCHANGED command

-----------------------------------------------------------------------------
(* The commands.  Each waits for the requests that it makes, one after the *)
(* other: "set", with fields and then "get", or a "get" of every dataset.  *)
Command(what, kind, F) ==
    /\ command = NoCommand
    /\ command' = [what |-> what, kind |-> kind, fields |-> F, got |-> NoData, set |-> 0,
                   failed |-> FALSE]
    /\ UNCHANGED <<active, mirror, leader, held, time, unnoticed, reads, notices, cancel, newest, doubt, wiped>>

Active(what, kind, F) == active /\ Command(what, kind, F)

SetField(kind, f) == f \in fields /\ Active("set", kind, {f})

SetChannelMask == SetField("active", "ChannelMask")
SetExtendedPanId == SetField("active", "ExtendedPanId")
SetNetworkName == SetField("active", "NetworkName")
SetPSKc == SetField("active", "PSKc")
SetSecurityPolicy == SetField("active", "SecurityPolicy")
SetActiveDataset(F) == F # {} /\ Active("set", "active", F)

SetChannel == SetField("pending", "Channel")
SetMeshLocalPrefix == SetField("pending", "MeshLocalPrefix")
SetNetworkMasterKey == SetField("pending", "NetworkMasterKey")
SetPanId == SetField("pending", "PanId")
SetPendingDataset(F) == F # {} /\ Active("set", "pending", F)

(* These read the active dataset into the mirror.                          *)
GetChannel == Active("read", "active", {})
GetMeshLocalPrefix == Active("read", "active", {})
GetNetworkMasterKey == Active("read", "active", {})
GetPanId == Active("read", "active", {})

GetActiveDataset(F) == Active("get", "active", F)
GetPendingDataset(F) == Active("get", "pending", F)
GetBbrDataset(F) == F # {} /\ Active("get", "bbr", F)

SetTriHostname == SetField("bbr", "TriHostname")
SetBbrDataset(F) == F # {} /\ Active("set", "bbr", F)
SetRegistrarHostname ==
    "RegistrarHostname" \in fields /\ Active("hostname", "bbr", {"RegistrarHostname"})

SyncNetworkData == Active("sync", "active", {})

(* CommissionerApp::Start.  Petition refuses a commissioner that is        *)
(* active, which Start then stops.                                         *)
Start ==
    \/ /\ ~active
       /\ Command("petition", "active", {})
    \/ /\ active /\ command = NoCommand
       /\ Stop
       /\ UNCHANGED <<leader, held, time, unnoticed, notices, command, cancel>>

ProcessStop ==
    /\ command = NoCommand
    /\ Stop
    /\ UNCHANGED <<leader, held, time, unnoticed, notices, command, cancel>>

PetitionAccepted ==
    /\ Waiting /\ command.what = "petition"
    /\ active' = TRUE
    /\ command' = [command EXCEPT !.what = "start"]
    /\ UNCHANGED <<mirror, leader, held, time, unnoticed, reads, notices, cancel, newest, doubt, wiped>>

-----------------------------------------------------------------------------
(* The leader, external: what it is given takes effect at the next time.   *)
LeaderGets(k, data) ==
    /\ time < MaxTime
    /\ time' = time + 1
    /\ leader' = [leader EXCEPT ![k] = data]
    /\ held' = [held EXCEPT ![k] = @ \cup {<<f, data[f]>> : f \in DOMAIN data}]

Now(F) == [f \in F |-> time + 1]

(* A new pending dataset takes the place of the old; the address of a new  *)
(* registrar is looked up, perhaps in vain.                                *)
LeaderApplies ==
    /\ Waiting
    /\ command.what \in {"set", "hostname"} /\ command.set = 0
    /\ \E resolved \in BOOLEAN :
        LET k == command.kind
            old == IF "RegistrarHostname" \in command.fields
                   THEN Restrict(leader[k], DOMAIN leader[k] \ {"RegistrarIpv6Addr"}) ELSE leader[k]
            F == IF resolved THEN command.fields \cup {"RegistrarIpv6Addr"} ELSE command.fields
        IN  /\ resolved => "RegistrarHostname" \in command.fields
            /\ LeaderGets(k, IF k = "pending" THEN Now(F) ELSE Over(old, Now(F)))
    /\ command' = [command EXCEPT !.set = time + 1]
    /\ UNCHANGED <<active, mirror, unnoticed, reads, notices, cancel, newest, doubt, wiped>>

(* The dataset that the command is to read next.                           *)
Wants ==
    CASE command.what \in {"read", "get"} -> {command.kind} \ DOMAIN command.got
      [] command.what = "hostname" /\ command.set > 0 -> {"bbr"} \ DOMAIN command.got
      [] command.what \in {"start", "sync"} ->
            {k \in Kinds \ DOMAIN command.got :
                CASE k = "active" -> TRUE
                  [] k = "pending" -> "active" \in DOMAIN command.got
                  [] k = "bbr" -> "pending" \in DOMAIN command.got}
      [] OTHER -> {}

LeaderAnswers ==
    /\ Waiting
    /\ \E k \in Wants :
        command' = [command EXCEPT !.got = Over(@, [x \in {k} |-> [at |-> time, data |-> leader[k]]])]
    /\ UNCHANGED <<active, mirror, leader, held, time, unnoticed, reads, notices, cancel, newest, doubt, wiped>>

LeaderAnswersRead(r) ==
    /\ active
    /\ r \in reads /\ ~r.served
    /\ reads' = (reads \ {r}) \cup {[r EXCEPT !.served = TRUE,
                                               !.got = [at |-> time, data |-> leader[r.kind]]]}
    /\ UNCHANGED <<active, mirror, leader, held, time, unnoticed, notices, command, cancel, newest, doubt, wiped>>

(* A pending dataset whose delay is over, or a change by somebody else.    *)
LeaderChanges ==
    /\ IF leader["pending"] = NoData
       THEN LeaderGets("active", Over(leader["active"], Now(fields \ Hostnames)))
       ELSE LET data == Over(leader["active"], leader["pending"])
            IN  /\ time < MaxTime /\ time' = time + 1
                /\ leader' = [leader EXCEPT !["active"] = data, !["pending"] = NoData]
                /\ held' = [held EXCEPT !["active"] = @ \cup {<<f, data[f]>> : f \in DOMAIN data}]
    /\ unnoticed' = TRUE
    /\ UNCHANGED <<active, mirror, reads, notices, command, cancel, newest, doubt, wiped>>

-----------------------------------------------------------------------------
(* The main thread goes on.                                                *)
Return(m) ==
    /\ mirror' = m
    /\ command' = NoCommand
    /\ UNCHANGED <<active, leader, held, time, unnoticed, reads, notices, cancel>>

(* Mutant: the mirror is written before the leader has answered.           *)
SetReturnsAtOnce ==
    /\ Waiting /\ command.what = "set" /\ command.set = 0
    /\ Merged(command.kind, time)
    /\ Return(MergeDataset(mirror, command.kind, Now(command.fields)))

SetReturns ==
    /\ Answered /\ command.what = "set"
    /\ Merged(command.kind, command.set)
    /\ Return(MergeDataset(mirror, command.kind, [f \in command.fields |-> command.set]))

(* The registrar's address is required; else the mirror keeps the old      *)
(* hostname, which the leader does not.                                    *)
HostnameReturns ==
    /\ Answered /\ command.what = "hostname"
    /\ LET got == command.got["bbr"].data
           data == Over([f \in command.fields |-> command.set],
                        Restrict(got, {"RegistrarIpv6Addr"} \cap DOMAIN got))
       IN  IF "RegistrarIpv6Addr" \in DOMAIN got
           THEN Merged("bbr", command.set) /\ Return(MergeDataset(mirror, "bbr", data))
           ELSE Doubtful({"bbr"}) /\ Return(mirror)

GetReturns ==
    /\ Answered /\ command.what = "get"
    /\ LET got == command.got[command.kind]
       IN  /\ Merged(command.kind, got.at)
           /\ Return(MergeDataset(mirror, command.kind,
                                  Restrict(got.data, command.fields \cap DOMAIN got.data)))

(* The event thread assigns the dataset, then the main thread goes on.     *)
ReadReturns ==
    /\ Answered /\ command.what = "read"
    /\ Assigned(command.got)
    /\ Return([mirror EXCEPT !["active"] = command.got["active"].data])

(* SyncNetworkData assigns what it has read.                               *)
SyncReturns ==
    /\ Answered /\ command.what \in {"start", "sync"}
    /\ Assigned(command.got)
    /\ Return([k \in Kinds |-> command.got[k].data])

(* Mutant: Start leaves a commissioner active that has read nothing.       *)
CommandFailsOnly ==
    /\ command # NoCommand
    /\ command' = NoCommand
    /\ Doubtful(IF command.set > 0 THEN {command.kind} \ {"pending"} ELSE {})
    /\ UNCHANGED <<active, mirror, reads, leader, held, time, unnoticed, notices, cancel>>

(* A request of the command is refused or lost, perhaps after the leader   *)
(* has taken it.  Start then stops a commissioner that is active.          *)
CommandFails ==
    /\ command # NoCommand
    /\ command' = NoCommand
    /\ IF command.what = "start" /\ active THEN Stop
       ELSE /\ Doubtful(IF command.set > 0 THEN {command.kind} \ {"pending"} ELSE {})
            /\ UNCHANGED <<active, mirror, reads>>
    /\ UNCHANGED <<leader, held, time, unnoticed, notices, cancel>>

-----------------------------------------------------------------------------
(* OnDatasetChanged, on the event thread: two reads, answered in any order.*)
OnDatasetChanged ==
    /\ active /\ unnoticed /\ notices < MaxNotices
    /\ unnoticed' = FALSE
    /\ notices' = notices + 1
    /\ reads' = reads \cup {[n |-> notices, kind |-> k, served |-> FALSE, got |-> Unserved]
                                : k \in {"active", "pending"}}
    /\ UNCHANGED <<active, mirror, leader, held, time, command, cancel, newest, doubt, wiped>>

(* The notice is lost, or there is nobody to notice it.                    *)
NoticeLost ==
    /\ unnoticed /\ unnoticed' = FALSE
    /\ Doubtful({"active"})
    /\ UNCHANGED <<active, mirror, leader, held, time, reads, notices, command, cancel>>

ReadAnswered(r) ==
    /\ r \in reads /\ r.served
    /\ reads' = reads \ {r}
    /\ Assigned([k \in {r.kind} |-> r.got])
    /\ mirror' = [mirror EXCEPT ![r.kind] = r.got.data]
    /\ UNCHANGED <<active, leader, held, time, unnoticed, notices, command, cancel>>

ReadFails(r) ==
    /\ r \in reads
    /\ reads' = reads \ {r}
    /\ Doubtful({r.kind} \ {"pending"})
    /\ UNCHANGED <<active, mirror, leader, held, time, unnoticed, notices, command, cancel>>

(* The session with the border agent is lost.                              *)
SessionLost ==
    /\ active /\ active' = FALSE
    /\ CancelRequests
    /\ UNCHANGED <<mirror, leader, held, time, unnoticed, notices, cancel, newest, doubt, wiped>>

-----------------------------------------------------------------------------
(* Interpreter::CancelCommand: requests are cancelled, or a petition by    *)
(* stopping; the petition may have been accepted since.                    *)
CancelCommand ==
    /\ cancel = "no"
    /\ IF active
       THEN /\ CancelRequests
            /\ Doubtful({r.kind : r \in reads} \ {"pending"})
            /\ UNCHANGED cancel
       ELSE cancel' = "resign" /\ UNCHANGED <<reads, command, newest, doubt, wiped>>
    /\ UNCHANGED <<active, mirror, leader, held, time, unnoticed, notices>>

(* Stop on the signal thread, while the main thread goes on: the event     *)
(* thread resigns, and then the mirrors are cleared, by which time the     *)
(* main thread may have started again.                                     *)
CancelResigns ==
    /\ cancel = "resign" /\ cancel' = "clear"
    /\ active' = FALSE
    /\ CancelRequests
    /\ UNCHANGED <<mirror, leader, held, time, unnoticed, notices, newest, doubt, wiped>>

CancelClears ==
    /\ cancel = "clear" /\ cancel' = "no"
    /\ mirror' = NoMirror
    /\ newest' = IF active THEN newest ELSE 0
    /\ doubt' = IF active THEN Kinds ELSE {}
    /\ wiped' = active
    /\ UNCHANGED <<active, leader, held, time, unnoticed, reads, notices, command>>

-----------------------------------------------------------------------------
Commands ==
    \/ SetChannelMask \/ SetExtendedPanId \/ SetNetworkName \/ SetPSKc \/ SetSecurityPolicy
    \/ SetChannel \/ SetMeshLocalPrefix \/ SetNetworkMasterKey \/ SetPanId
    \/ GetChannel \/ GetMeshLocalPrefix \/ GetNetworkMasterKey \/ GetPanId
    \/ SetTriHostname \/ SetRegistrarHostname \/ SyncNetworkData
    \/ SetActiveDataset(fields \cap SetNow) \/ GetActiveDataset(fields \cap SetLater)
    \/ SetPendingDataset(fields \ Hostnames) \/ GetPendingDataset(fields \cap SetLater)
    \/ SetBbrDataset(fields \cap Hostnames) \/ GetBbrDataset(fields \cap Hostnames)
    \/ Start \/ ProcessStop

Returns == SetReturns \/ HostnameReturns \/ GetReturns \/ ReadReturns \/ SyncReturns \/ CommandFails

Next ==
    \/ Commands \/ PetitionAccepted
    \/ LeaderApplies \/ LeaderAnswers \/ LeaderChanges
    \/ Returns
    \/ OnDatasetChanged \/ NoticeLost
    \/ \E r \in reads : LeaderAnswersRead(r) \/ ReadAnswered(r) \/ ReadFails(r)
    \/ SessionLost
    \/ CancelCommand \/ CancelResigns \/ CancelClears

Spec == Init /\ [][Next /\ UNCHANGED fields]_vars

-----------------------------------------------------------------------------
(* Nothing outstanding that would still change the mirror.                 *)
Quiet == command = NoCommand /\ reads = {} /\ ~unnoticed

(* Once nothing is outstanding, what the application shows of the active   *)
(* dataset and of the hostnames of the BBR dataset is what the leader has; *)
(* unless one of these has happened, and no answer to a read that is newer *)
(* still has come since: an answer was lost or cancelled; an answer was    *)
(* used after a newer one (the answers to OnDatasetChanged,                *)
(* SyncNetworkData and a command overtake each other); a notice of the     *)
(* leader was lost; a registrar was set whose address was not found        *)
(* (commissioner_app.cpp:824); or Ctrl-C, pressed before the commissioner  *)
(* was active, cleared the mirrors only once it was (:101).                *)
MirrorFollows ==
    active /\ Quiet =>
        /\ "active" \notin doubt => mirror["active"] = leader["active"]
        /\ "bbr" \notin doubt =>
            Restrict(mirror["bbr"], Hostnames \cap DOMAIN mirror["bbr"])
                = Restrict(leader["bbr"], Hostnames \cap DOMAIN leader["bbr"])

(* Whatever is lost, cancelled or overtaken, the application never shows a *)
(* value that the leader has not had.                                      *)
NothingInvented ==
    \A k \in Kinds : \A f \in DOMAIN mirror[k] : <<f, mirror[k][f]>> \in held[k]

(* At the prompt of an active commissioner the active dataset is there,    *)
(* as GetActiveTimestamp asserts: Start has read it or has stopped again,  *)
(* whichever of its requests failed, was cancelled or met a lost session.  *)
(* It is missing only if the Stop of a Ctrl-C that was pressed before the  *)
(* commissioner was active has resigned before the petition was accepted,  *)
(* and clears the mirrors after it; until the active dataset is read again.*)
PromptIsSynced ==
    active /\ command = NoCommand /\ ~wiped =>
        DOMAIN mirror["active"] = DOMAIN leader["active"]
=============================================================================
