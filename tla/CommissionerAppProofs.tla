----------------------- MODULE CommissionerAppProofs -----------------------
(***************************************************************************)
(* What the CLI application shows of the network, for every set of fields  *)
(* and every bound: nothing that the leader has not had, the whole active  *)
(* dataset at the prompt of an active commissioner, and, once nothing is   *)
(* outstanding or in doubt, what the leader has.                           *)
(*                                                                         *)
(* That the mirror shows what the leader has needs the past: that an       *)
(* answer is no older than the mirror makes it right only if the leader    *)
(* has not changed in between without a notice or a read that is still to  *)
(* come.  The invariant AppInv therefore says that there is a history H of *)
(* the leader's active dataset, H[t] at time t, of which every reply is a  *)
(* part (RepliesOf), of which every change that the mirror does not know   *)
(* of is still to come or is that of the command under way (Caught), and   *)
(* of which the mirror shows a part (Shown).  First come the steps of the  *)
(* leader, then those that begin commands and reads, what the invariant    *)
(* says where nothing is outstanding, the steps that end commands and      *)
(* reads, and the theorems.                                                *)
(***************************************************************************)
EXTENDS CommissionerApp, TLAPS

(* Most leaves are first-order and set reasoning, which is Zenon's; those  *)
(* that need arithmetic, records or functions cite SMT.                    *)
USE Zenon

-----------------------------------------------------------------------------
(* Datasets are functions from names of fields to times.                   *)

Everything == SetNow \cup SetLater \cup Hostnames \cup {"RegistrarIpv6Addr"}
Datas == UNION {[F -> Nat] : F \in SUBSET Everything}

(* The fields of a dataset are known, and have values.                     *)
LEMMA DataFacts ==
    ASSUME NEW d \in Datas
    PROVE  DOMAIN d \subseteq Everything /\ d \in [DOMAIN d -> Nat]
BY DEF Datas

(* A function from known fields to times is a dataset.                     *)
LEMMA DataIntro ==
    ASSUME NEW F \in SUBSET Everything, NEW d \in [F -> Nat]
    PROVE  d \in Datas /\ DOMAIN d = F
BY DEF Datas

(* A dataset that has been reset is one without fields.                    *)
LEMMA NoDataType == NoData \in Datas /\ DOMAIN NoData = {}
BY DEF Datas, NoData

(* Datasets with the same fields and values are the same.                  *)
LEMMA DataEqual ==
    ASSUME NEW d \in Datas, NEW e \in Datas, DOMAIN d = DOMAIN e,
           \A f \in DOMAIN d : d[f] = e[f]
    PROVE  d = e
BY DataFacts, SMT

(* MergeDataset takes a field from the new dataset if it is there.         *)
LEMMA OverType ==
    ASSUME NEW d \in Datas, NEW e \in Datas
    PROVE  /\ Over(d, e) \in Datas
           /\ DOMAIN Over(d, e) = DOMAIN d \cup DOMAIN e
           /\ \A f \in DOMAIN e : Over(d, e)[f] = e[f]
           /\ \A f \in DOMAIN d : f \notin DOMAIN e => Over(d, e)[f] = d[f]
<1>1. /\ DOMAIN d \subseteq Everything /\ \A f \in DOMAIN d : d[f] \in Nat
      /\ DOMAIN e \subseteq Everything /\ \A f \in DOMAIN e : e[f] \in Nat
  BY DataFacts
<1>2. Over(d, e) \in [DOMAIN d \cup DOMAIN e -> Nat]
  BY <1>1 DEF Over
<1>3. Over(d, e) \in Datas /\ DOMAIN Over(d, e) = DOMAIN d \cup DOMAIN e
  BY <1>1, <1>2, DataIntro
<1> QED BY <1>3 DEF Over

(* Some fields of a dataset.                                               *)
LEMMA RestrictType ==
    ASSUME NEW d \in Datas, NEW S \in SUBSET DOMAIN d
    PROVE  /\ Restrict(d, S) \in Datas /\ DOMAIN Restrict(d, S) = S
           /\ \A f \in S : Restrict(d, S)[f] = d[f]
<1>1. DOMAIN d \subseteq Everything /\ \A f \in DOMAIN d : d[f] \in Nat
  BY DataFacts
<1>2. Restrict(d, S) \in [S -> Nat]
  BY <1>1 DEF Restrict
<1> QED BY <1>1, <1>2, DataIntro DEF Restrict

(* Replies of the leader, and those that a command has so far.             *)
Replies == [at : Nat, data : Datas]
Gots == UNION {[S -> Replies] : S \in SUBSET Kinds}

(* Replies are datasets of the leader with the time of reading.            *)
LEMMA GotFacts ==
    ASSUME NEW g \in Gots
    PROVE  DOMAIN g \subseteq Kinds /\ \A k \in DOMAIN g : g[k] \in Replies
BY DEF Gots

More(g, k, v) == Over(g, [x \in {k} |-> v])

(* One more reply; those that the command had are the same.                *)
LEMMA GotMore ==
    ASSUME NEW g \in Gots, NEW k \in Kinds, NEW v \in Replies
    PROVE  /\ More(g, k, v) \in Gots /\ DOMAIN More(g, k, v) = DOMAIN g \cup {k}
           /\ More(g, k, v)[k] = v
           /\ \A x \in DOMAIN g : x # k => More(g, k, v)[x] = g[x]
<1> DEFINE more == More(g, k, v)
<1>1. more \in [DOMAIN g \cup {k} -> Replies] /\ DOMAIN g \cup {k} \in SUBSET Kinds
  BY GotFacts DEF Over, More
<1>2. more[k] = v /\ \A x \in DOMAIN g : x # k => more[x] = g[x]
  BY DEF Over, More
<1> HIDE DEF more
<1>3. more \in Gots
  BY <1>1 DEF Gots
<1> QED BY <1>1, <1>2, <1>3 DEF more

(* A command begins without replies.                                       *)
LEMMA NoDataGot == NoData \in Gots
BY DEF Gots, NoData

-----------------------------------------------------------------------------
Whats == {"petition", "start", "sync", "set", "hostname", "get", "read"}
CommandRecs ==
    [what : Whats, kind : Kinds, fields : SUBSET Everything, got : Gots, set : Nat, failed : BOOLEAN]
ReadRecs == [n : Nat, kind : {"active", "pending"}, served : BOOLEAN, got : Replies]

AppTypes ==
    /\ fields \in SUBSET Everything
    /\ active \in BOOLEAN /\ unnoticed \in BOOLEAN
    /\ mirror \in [Kinds -> Datas] /\ leader \in [Kinds -> Datas]
    /\ held \in [Kinds -> SUBSET (Everything \X Nat)]
    /\ time \in Nat /\ newest \in Nat /\ notices \in Nat
    /\ reads \subseteq ReadRecs
    /\ command \in CommandRecs \cup {NoCommand}
    /\ doubt \subseteq Kinds /\ wiped \in BOOLEAN

(* The initial states have the types of AppTypes.                          *)
LEMMA InitTypes == Init => AppTypes
<1> SUFFICES ASSUME Init PROVE AppTypes
  OBVIOUS
<1>1. fields \in SUBSET Everything
  BY AppAssumption DEF Init, Everything
<1>2. [f \in fields \ Hostnames |-> 0] \in Datas
  <2>1. [f \in fields \ Hostnames |-> 0] \in [fields \ Hostnames -> Nat]
    OBVIOUS
  <2> QED BY <1>1, <2>1, DataIntro
<1>3. mirror \in [Kinds -> Datas] /\ leader \in [Kinds -> Datas]
  BY <1>2, NoDataType DEF Init, NoMirror
<1>4. held \in [Kinds -> SUBSET (Everything \X Nat)]
  BY <1>1, SMT DEF Init
<1> QED BY <1>1, <1>3, <1>4 DEF Init, AppTypes

-----------------------------------------------------------------------------
(* The invariant, part by part.                                            *)

Starting == command.what \in {"petition", "start"}
Setting(k) == command.what \in {"set", "hostname"} /\ command.kind = k /\ command.set > 0

(* What a command asks for, and the replies it may have.                   *)
Asks ==
    command # NoCommand =>
        /\ command.what = "petition" => ~active
        /\ command.fields \subseteq IF command.kind = "bbr" THEN Hostnames ELSE fields \ Hostnames
        /\ command.what \in {"petition", "set"} => DOMAIN command.got = {}
        /\ command.what \in {"hostname", "get", "read"} => DOMAIN command.got \subseteq {command.kind}
        /\ command.what = "hostname" =>
              command.kind = "bbr" /\ (command.set = 0 => DOMAIN command.got = {})
        /\ command.what = "read" => command.kind = "active"
        /\ command.what \notin {"set", "hostname"} => command.set = 0

(* Wherever it is, an active dataset has the same fields, unless the       *)
(* mirror was cleared under an active commissioner.                        *)
MirrorDomain == active /\ ~Starting /\ ~wiped => DOMAIN mirror["active"] = fields \ Hostnames

Domains ==
    /\ DOMAIN leader["active"] = fields \ Hostnames
    /\ DOMAIN leader["pending"] \subseteq fields \ Hostnames
    /\ command # NoCommand /\ "active" \in DOMAIN command.got =>
          DOMAIN command.got["active"].data = fields \ Hostnames
    /\ \A r \in reads : r.kind = "active" /\ r.served => DOMAIN r.got.data = fields \ Hostnames
    /\ MirrorDomain

(* Wherever it is, a value is one that the leader has had.                 *)
Had(k, d) == \A f \in DOMAIN d : <<f, d[f]>> \in held[k]

AllHad ==
    /\ \A k \in Kinds : Had(k, mirror[k]) /\ Had(k, leader[k])
    /\ command # NoCommand => \A k \in DOMAIN command.got : Had(k, command.got[k].data)
    /\ \A r \in reads : Had(r.kind, r.got.data)
    /\ \A k \in Kinds : Setting(k) => \A f \in command.fields : <<f, command.set>> \in held[k]

(* Only the command under way changes the BBR dataset of the leader.       *)
SameHostname(f) ==
    /\ f \in DOMAIN mirror["bbr"] <=> f \in DOMAIN leader["bbr"]
    /\ f \in DOMAIN mirror["bbr"] => mirror["bbr"][f] = leader["bbr"][f]

BbrShown ==
    active /\ ~Starting /\ "bbr" \notin doubt =>
        \A f \in Hostnames : (Setting("bbr") => f \notin command.fields) => SameHostname(f)

BbrFollows ==
    /\ command # NoCommand /\ "bbr" \in DOMAIN command.got => command.got["bbr"].data = leader["bbr"]
    /\ Setting("bbr") =>
          \A f \in command.fields : f \in DOMAIN leader["bbr"] /\ leader["bbr"][f] = command.set
    /\ BbrShown

(* The active dataset, of which H[t] is the leader's at time t.  Replies   *)
(* are as of their time; a command changes the fields that it sets.        *)
RepliesOf(H) ==
    /\ H[time] = leader["active"] /\ newest <= time
    /\ command # NoCommand /\ "active" \in DOMAIN command.got =>
          /\ command.got["active"].at <= time
          /\ command.got["active"].data = H[command.got["active"].at]
    /\ \A r \in reads : r.kind = "active" /\ r.served =>
          r.got.at <= time /\ r.got.data = H[r.got.at]
    /\ Setting("active") =>
          /\ command.set \in 1..time
          /\ H[command.set] = Over(H[command.set - 1], [f \in command.fields |-> command.set])

(* A read will show what the leader had at time t, or something later.     *)
Coming(t) ==
    unnoticed \/ \E r \in reads : r.kind = "active" /\ (r.served => t <= r.got.at)

(* A time that neither the mirror nor what a start has read is ahead of.   *)
Unread(a) == a >= newest /\ (Starting => "active" \in DOMAIN command.got /\ a >= command.got["active"].at)

(* Where the leader has changed since, a read is still to come that shows  *)
(* it, or the change is that of the command.                               *)
Caught(H) ==
    active => \A a, b \in 0..time : Unread(a) /\ a < b /\ H[a] # H[b] =>
                  Coming(a + 1) \/ (Setting("active") /\ command.set \in (a + 1)..b)

Shown(H) ==
    active /\ ~Starting /\ "active" \notin doubt => Coming(0) \/ mirror["active"] = H[newest]

History(H) == RepliesOf(H) /\ Caught(H) /\ Shown(H)

AppInv ==
    /\ AppTypes /\ Asks /\ Domains /\ AllHad /\ BbrFollows
    /\ \E H \in [Nat -> Datas] : History(H)

(* A step, which does not change the fields of the network, keeps it.      *)
Keeps(A) == AppInv /\ A /\ UNCHANGED fields => AppInv'

-----------------------------------------------------------------------------
(* A command under way is a record and not mistaken for none.              *)
LEMMA CommandFacts ==
    ASSUME AppTypes
    PROVE  /\ command = NoCommand => command.what = "none"
           /\ command # NoCommand =>
                 /\ command.what \in Whats /\ command.kind \in Kinds
                 /\ command.fields \in SUBSET Everything /\ command.got \in Gots
                 /\ command.set \in Nat /\ command.failed \in BOOLEAN
                 /\ command.what # "none" /\ command \in CommandRecs
BY SMT DEF AppTypes, NoCommand, CommandRecs, Whats

(* The application as it is started.                                       *)
LEMMA AppInitInv == Init => AppInv
<1> SUFFICES ASSUME Init PROVE AppInv
  OBVIOUS
<1>0. AppTypes
  BY InitTypes
<1>1. /\ active = FALSE /\ mirror = NoMirror /\ reads = {} /\ command = NoCommand
      /\ time = 0 /\ newest = 0 /\ doubt = {} /\ command.what = "none"
  BY DEF Init, NoCommand
<1>2. /\ leader["active"] = [f \in fields \ Hostnames |-> 0]
      /\ leader["pending"] = NoData /\ leader["bbr"] = NoData
      /\ held["active"] = (fields \ Hostnames) \X {0}
  BY DEF Init, Kinds
<1>3. Asks
  BY <1>1 DEF Asks
<1>4. Domains
  BY <1>1, <1>2, NoDataType DEF Domains, MirrorDomain
<1>5. AllHad
  <2>1. \A k \in Kinds : Had(k, mirror[k])
    BY <1>1, NoDataType DEF NoMirror, Had
  <2>2. Had("active", leader["active"]) /\ Had("pending", leader["pending"]) /\ Had("bbr", leader["bbr"])
    BY <1>2, NoDataType DEF Had
  <2> QED BY <1>1, <2>1, <2>2 DEF AllHad, Setting, Kinds
<1>6. BbrFollows
  BY <1>1 DEF BbrFollows, BbrShown, Setting
<1>7. \E H \in [Nat -> Datas] : History(H)
  <2> DEFINE d == leader["active"]
             H == [t \in Nat |-> d]
  <2>1. d \in Datas
    BY <1>0 DEF AppTypes, Kinds
  <2> HIDE DEF d
  <2>2. H \in [Nat -> Datas] /\ H[0] = d
    BY <2>1
  <2> HIDE DEF H
  <2>3. History(H)
    BY <1>1, <2>2, SMT DEF History, RepliesOf, Caught, Shown, Setting, d
  <2> QED BY <2>2, <2>3
<1> QED BY <1>0, <1>3, <1>4, <1>5, <1>6, <1>7 DEF AppInv

(* A step of another component changes nothing.                            *)
LEMMA AppStutters == ASSUME AppInv, UNCHANGED vars PROVE AppInv'
<1>1. AppTypes'
  BY DEF vars, AppInv, AppTypes
<1>2. Asks'
  BY DEF vars, AppInv, Asks
<1>3. Domains' /\ AllHad'
  BY DEF vars, AppInv, Domains, MirrorDomain, AllHad, Had, Starting, Setting
<1>4. BbrFollows'
  BY DEF vars, AppInv, BbrFollows, BbrShown, SameHostname, Starting, Setting
<1>5. PICK H \in [Nat -> Datas] : History(H)
  BY DEF AppInv
<1>6. RepliesOf(H)'
  BY <1>5 DEF vars, History, RepliesOf, Setting
<1>7. Caught(H)' /\ Shown(H)'
  BY <1>5 DEF vars, History, Caught, Unread, Coming, Shown, Starting, Setting
<1> QED BY <1>1, <1>2, <1>3, <1>4, <1>5, <1>6, <1>7 DEF AppInv, History

-----------------------------------------------------------------------------
(* The leader's datasets change, which adds a time to the history.         *)
Extended(G, H, n, d) == G[n] = d /\ \A t \in Nat : t # n => G[t] = H[t]

(* A history goes on with another dataset.                                 *)
LEMMA HistoryGrows ==
    ASSUME NEW H \in [Nat -> Datas], NEW n \in Nat, NEW d \in Datas
    PROVE  \E G \in [Nat -> Datas] : Extended(G, H, n, d)
<1> DEFINE G == [H EXCEPT ![n] = d]
<1>1. G \in [Nat -> Datas] /\ Extended(G, H, n, d)
  BY DEF Extended
<1> QED BY <1>1

(* What all changes of the leader's have in common: the values that a      *)
(* dataset has now are added to those that it has had.                     *)
Grows ==
    /\ UNCHANGED <<fields, active, mirror, reads, notices, newest, doubt, wiped>>
    /\ time' = time + 1
    /\ leader' \in [Kinds -> Datas] /\ held' \in [Kinds -> SUBSET (Everything \X Nat)]
    /\ DOMAIN leader'["active"] = fields \ Hostnames
    /\ DOMAIN leader'["pending"] \subseteq fields \ Hostnames
    /\ \A k \in Kinds : held[k] \subseteq held'[k] /\ Had(k, leader[k])'

(* The values of a new dataset are added to those had.                     *)
LEMMA HeldGrows ==
    ASSUME AppTypes, NEW k \in Kinds, NEW d \in Datas,
           held' = [held EXCEPT ![k] = @ \cup {<<f, d[f]>> : f \in DOMAIN d}]
    PROVE  /\ held' \in [Kinds -> SUBSET (Everything \X Nat)]
           /\ \A x \in Kinds : held[x] \subseteq held'[x]
           /\ \A f \in DOMAIN d : <<f, d[f]>> \in held'[k]
<1> DEFINE New == {<<f, d[f]>> : f \in DOMAIN d}
<1>1. New \subseteq Everything \X Nat
  BY DataFacts, SMT
<1>2. held \in [Kinds -> SUBSET (Everything \X Nat)]
  BY DEF AppTypes
<1>3. \A f \in DOMAIN d : <<f, d[f]>> \in New
  OBVIOUS
<1>4. held' = [held EXCEPT ![k] = held[k] \cup New]
  BY <1>2
<1> HIDE DEF New
<1>5. /\ \A x \in Kinds : x # k => held'[x] = held[x]
      /\ held'[k] = held[k] \cup New
      /\ held' \in [Kinds -> SUBSET (Everything \X Nat)]
  BY <1>1, <1>2, <1>4
<1> QED BY <1>3, <1>5

(* The command stays as it is, or it is what has set the leader's dataset. *)
AskGrows ==
    /\ command' \in CommandRecs \cup {NoCommand} /\ (command' = NoCommand <=> command = NoCommand)
    /\ command'.what = command.what
    /\ command # NoCommand => command'.fields = command.fields /\ command'.kind = command.kind
                              /\ command'.got = command.got
    /\ \/ command' = command
       \/ /\ command # NoCommand /\ DOMAIN command.got = {}
          /\ command.what \in {"set", "hostname"} /\ command'.set = time + 1
          /\ command.set = 0
          /\ \A f \in command.fields : <<f, time + 1>> \in held'[command.kind]

(* What remains to be shown of such a step: the BBR dataset and the        *)
(* history.                                                                *)
LEMMA GrowsStep ==
    ASSUME AppInv, Grows, unnoticed' \in BOOLEAN, AskGrows,
           BbrFollows', NEW H \in [Nat -> Datas], History(H)'
    PROVE  AppInv'
<1> USE DEF AskGrows
<1>0. AppTypes /\ Asks /\ Domains /\ AllHad
  BY DEF AppInv
<1>1. AppTypes'
  <2>1. time' \in Nat
    BY <1>0, SMT DEF AppTypes, Grows
  <2> QED BY <1>0, <2>1 DEF AppTypes, Grows
<1>2. Asks'
  BY <1>0 DEF Asks, Grows
<1>3. Domains'
  BY <1>0 DEF Domains, MirrorDomain, Starting, Grows
<1>4. AllHad'
  <2>1. \A k \in Kinds : Had(k, mirror[k])' /\ Had(k, leader[k])'
    BY <1>0 DEF AllHad, Had, Grows
  <2>2. (command # NoCommand => \A k \in DOMAIN command.got : Had(k, command.got[k].data))'
    <3> SUFFICES ASSUME command # NoCommand, NEW k \in DOMAIN command.got
                 PROVE  \A f \in DOMAIN command.got[k].data : <<f, command.got[k].data[f]>> \in held'[k]
      BY DEF Had
    <3>1. k \in Kinds
      BY <1>0, CommandFacts, GotFacts
    <3> QED BY <1>0, <3>1 DEF AllHad, Had, Grows
  <2>3. (\A r \in reads : Had(r.kind, r.got.data))'
    <3>1. \A r \in reads : r.kind \in Kinds
      BY <1>0 DEF AppTypes, ReadRecs, Kinds
    <3> QED BY <1>0, <3>1 DEF AllHad, Had, Grows
  <2>4. (\A k \in Kinds : Setting(k) => \A f \in command.fields : <<f, command.set>> \in held[k])'
    <3>1. CASE command' = command
      BY <1>0, <3>1 DEF AllHad, Setting, Grows
    <3>2. CASE command' # command
      BY <3>2 DEF Setting
    <3> QED BY <3>1, <3>2
  <2> QED BY <2>1, <2>2, <2>3, <2>4 DEF AllHad
<1> QED BY <1>1, <1>2, <1>3, <1>4 DEF AppInv

(* A pending dataset whose delay is over, or a change by somebody else.    *)
LEMMA LeaderChangesStep == Keeps(LeaderChanges)
<1> SUFFICES ASSUME AppInv, LeaderChanges, UNCHANGED fields PROVE AppInv'
  BY DEF Keeps
<1>0. AppTypes /\ Asks /\ Domains /\ AllHad /\ BbrFollows
  BY DEF AppInv
<1>1. /\ unnoticed' = TRUE
      /\ UNCHANGED <<fields, active, mirror, reads, notices, command, newest, doubt, wiped>>
  BY DEF LeaderChanges
<1>2. /\ leader["active"] \in Datas /\ leader["pending"] \in Datas /\ time \in Nat
      /\ leader \in [Kinds -> Datas] /\ fields \in SUBSET Everything
      /\ "active" \in Kinds /\ "pending" \in Kinds /\ "bbr" \in Kinds
  BY <1>0 DEF AppTypes, Kinds
<1> DEFINE given == Now(fields \ Hostnames)
           e == IF leader["pending"] = NoData THEN given ELSE leader["pending"]
           data == Over(leader["active"], e)
<1>3. given \in Datas /\ DOMAIN given = fields \ Hostnames
  <2>1. given \in [fields \ Hostnames -> Nat]
    BY <1>2, SMT DEF Now
  <2> QED BY <1>2, <2>1, DataIntro
<1>4. e \in Datas /\ DOMAIN e \subseteq fields \ Hostnames
  BY <1>0, <1>2, <1>3 DEF Domains
<1>5. /\ time' = time + 1
      /\ leader' = [leader EXCEPT !["active"] = data, !["pending"] = NoData]
         \/ (leader["pending"] = NoData /\ leader' = [leader EXCEPT !["active"] = data])
      /\ held' = [held EXCEPT !["active"] = @ \cup {<<f, data[f]>> : f \in DOMAIN data}]
  BY SMT DEF LeaderChanges, LeaderGets
<1> HIDE DEF e
<1>6. data \in Datas /\ DOMAIN data = fields \ Hostnames
  <2>1. data \in Datas /\ DOMAIN data = DOMAIN leader["active"] \cup DOMAIN e
    BY <1>2, <1>4, OverType
  <2> QED BY <1>0, <1>4, <2>1 DEF Domains
<1> HIDE DEF data
<1>7. /\ leader' \in [Kinds -> Datas] /\ leader'["active"] = data
      /\ leader'["pending"] = NoData /\ leader'["bbr"] = leader["bbr"]
  BY <1>2, <1>5, <1>6, NoDataType DEF Kinds
<1>8. /\ held' \in [Kinds -> SUBSET (Everything \X Nat)]
      /\ \A x \in Kinds : held[x] \subseteq held'[x]
      /\ \A f \in DOMAIN data : <<f, data[f]>> \in held'["active"]
  BY <1>0, <1>2, <1>5, <1>6, HeldGrows
<1>9. Grows
  <2>1. \A k \in Kinds : Had(k, leader[k])'
    <3>1. Had("active", leader["active"])'
      BY <1>7, <1>8 DEF Had
    <3>2. Had("pending", leader["pending"])'
      BY <1>7, NoDataType DEF Had
    <3>3. Had("bbr", leader["bbr"])'
      BY <1>0, <1>2, <1>7, <1>8 DEF Had, AllHad
    <3> QED BY <3>1, <3>2, <3>3 DEF Kinds
  <2> QED BY <1>1, <1>5, <1>6, <1>7, <1>8, <2>1, NoDataType DEF Grows
<1>10. BbrFollows'
  BY <1>0, <1>1, <1>7 DEF BbrFollows, BbrShown, SameHostname, Starting, Setting
<1>11. PICK H \in [Nat -> Datas] : RepliesOf(H)
  BY DEF AppInv, History
<1>12. PICK G \in [Nat -> Datas] : G[time + 1] = data /\ \A t \in Nat : t # time + 1 => G[t] = H[t]
  <2>1. time + 1 \in Nat
    BY <1>2, SMT
  <2>2. \E G \in [Nat -> Datas] : Extended(G, H, time + 1, data)
    BY <1>6, <2>1, HistoryGrows
  <2> QED BY <2>2 DEF Extended
<1>13. \A t \in Nat : t <= time => G[t] = H[t]
  BY <1>2, <1>12, SMT
<1>14. RepliesOf(G)'
  <2>1. (G[time] = leader["active"] /\ newest <= time)'
    BY <1>0, <1>1, <1>5, <1>7, <1>11, <1>12, SMT DEF RepliesOf, AppTypes
  <2>2. ASSUME command # NoCommand, "active" \in DOMAIN command.got
        PROVE  /\ command.got["active"].at <= time'
               /\ command.got["active"].data = G[command.got["active"].at]
    <3>1. command.got["active"].at \in Nat
      BY <1>0, <2>2, CommandFacts, GotFacts DEF Replies
    <3> QED BY <1>2, <1>5, <1>11, <1>13, <2>2, <3>1, SMT DEF RepliesOf
  <2>3. ASSUME NEW r \in reads, r.kind = "active", r.served
        PROVE  r.got.at <= time' /\ r.got.data = G[r.got.at]
    <3>1. r.got.at \in Nat
      BY <1>0 DEF AppTypes, ReadRecs, Replies
    <3> QED BY <1>2, <1>5, <1>11, <1>13, <2>3, <3>1, SMT DEF RepliesOf
  <2>4. ASSUME Setting("active")
        PROVE  /\ command.set \in 1..time'
               /\ G[command.set] = Over(G[command.set - 1], [f \in command.fields |-> command.set])
    <3>1. /\ command.set \in 1..time
          /\ H[command.set] = Over(H[command.set - 1], [f \in command.fields |-> command.set])
      BY <1>11, <2>4 DEF RepliesOf
    <3>2. /\ command.set \in 1..time' /\ command.set \in Nat /\ command.set <= time
          /\ command.set - 1 \in Nat /\ command.set - 1 <= time
      BY <1>2, <1>5, <3>1, SMT
    <3>3. G[command.set] = H[command.set] /\ G[command.set - 1] = H[command.set - 1]
      BY <1>13, <3>2
    <3> QED BY <3>1, <3>2, <3>3
  <2> QED BY <1>1, <2>1, <2>2, <2>3, <2>4 DEF RepliesOf, Setting
<1>15. Caught(G)' /\ Shown(G)'
  BY <1>1 DEF Caught, Shown, Coming
<1>16. command' \in CommandRecs \cup {NoCommand} /\ unnoticed' \in BOOLEAN
  BY <1>0, <1>1 DEF AppTypes
<1> QED BY <1>1, <1>9, <1>10, <1>14, <1>15, <1>16, GrowsStep DEF History, AskGrows

(* The leader takes what a command sets.                                   *)
LEMMA LeaderAppliesStep == Keeps(LeaderApplies)
<1> SUFFICES ASSUME AppInv, LeaderApplies, UNCHANGED fields PROVE AppInv'
  BY DEF Keeps
<1>0. AppTypes /\ Asks /\ Domains /\ AllHad /\ BbrFollows
  BY DEF AppInv
<1> DEFINE k == command.kind
           n == time + 1
           old == IF "RegistrarHostname" \in command.fields
                  THEN Restrict(leader[k], DOMAIN leader[k] \ {"RegistrarIpv6Addr"}) ELSE leader[k]
           Given(b) == IF b THEN command.fields \cup {"RegistrarIpv6Addr"} ELSE command.fields
<1>1. /\ command # NoCommand /\ command.what \in {"set", "hostname"} /\ command.set = 0
      /\ command' = [command EXCEPT !.set = n]
      /\ UNCHANGED <<active, mirror, unnoticed, reads, notices, newest, doubt, wiped>>
  BY DEF LeaderApplies, Waiting
<1>2. PICK b \in BOOLEAN :
        /\ b => "RegistrarHostname" \in command.fields
        /\ LeaderGets(k, IF k = "pending" THEN Now(Given(b)) ELSE Over(old, Now(Given(b))))
  BY DEF LeaderApplies
<1> DEFINE F == Given(b)
           data == IF k = "pending" THEN Now(F) ELSE Over(old, Now(F))
<1>3. /\ time' = n /\ leader' = [leader EXCEPT ![k] = data]
      /\ held' = [held EXCEPT ![k] = @ \cup {<<f, data[f]>> : f \in DOMAIN data}]
  BY <1>2 DEF LeaderGets
<1>4. /\ k \in Kinds /\ command \in CommandRecs /\ command.fields \in SUBSET Everything
      /\ time \in Nat /\ n \in Nat /\ n > 0 /\ n > time /\ leader \in [Kinds -> Datas]
      /\ command.what # "none"
  BY <1>0, <1>1, CommandFacts, SMT DEF AppTypes
<1>5. /\ command.fields \subseteq IF k = "bbr" THEN Hostnames ELSE fields \ Hostnames
      /\ DOMAIN command.got = {}
  BY <1>0, <1>1 DEF Asks
<1>6. k # "bbr" => "RegistrarHostname" \notin command.fields /\ ~b
  BY <1>2, <1>5 DEF Hostnames
<1>7. /\ F \in SUBSET Everything /\ command.fields \subseteq F
      /\ F \subseteq command.fields \cup {"RegistrarIpv6Addr"}
      /\ k # "bbr" => F = command.fields
  BY <1>4, <1>6, SMT DEF Everything
<1>8. /\ old \in Datas
      /\ k # "bbr" => old = leader[k]
      /\ \A f \in Hostnames : f \in DOMAIN old <=> f \in DOMAIN leader[k]
      /\ \A f \in DOMAIN old : f \in DOMAIN leader[k] /\ old[f] = leader[k][f]
  <2>0. leader[k] \in Datas /\ "RegistrarIpv6Addr" \notin Hostnames
    BY <1>4 DEF Hostnames
  <2> DEFINE S == DOMAIN leader[k] \ {"RegistrarIpv6Addr"}
  <2>1. S \in SUBSET DOMAIN leader[k]
    OBVIOUS
  <2>2. /\ Restrict(leader[k], S) \in Datas /\ DOMAIN Restrict(leader[k], S) = S
        /\ \A f \in S : Restrict(leader[k], S)[f] = leader[k][f]
    BY <2>0, <2>1, RestrictType
  <2>3. CASE "RegistrarHostname" \in command.fields
    <3>1. old = Restrict(leader[k], S)
      BY <2>3
    <3> QED BY <1>6, <2>0, <2>2, <2>3, <3>1
  <2>4. CASE "RegistrarHostname" \notin command.fields
    <3>1. old = leader[k]
      BY <2>4
    <3> HIDE DEF old
    <3> QED BY <2>0, <3>1
  <2> QED BY <2>3, <2>4
<1>9. Now(F) \in Datas /\ DOMAIN Now(F) = F /\ \A f \in F : Now(F)[f] = n
  <2>1. Now(F) \in [F -> Nat] /\ \A f \in F : Now(F)[f] = n
    BY <1>4 DEF Now
  <2> QED BY <1>7, <2>1, DataIntro
<1> HIDE DEF F, old, Given
<1> DEFINE o == Over(old, Now(F))
<1>10. /\ o \in Datas /\ DOMAIN o = DOMAIN old \cup F
       /\ \A f \in F : o[f] = n
       /\ \A f \in DOMAIN old : f \notin F => o[f] = old[f]
  <2>1. /\ o \in Datas /\ DOMAIN o = DOMAIN old \cup DOMAIN Now(F)
        /\ \A f \in DOMAIN Now(F) : o[f] = Now(F)[f]
        /\ \A f \in DOMAIN old : f \notin DOMAIN Now(F) => o[f] = old[f]
    BY <1>8, <1>9, OverType
  <2> QED BY <1>9, <2>1
<1>11. (k = "pending" => data = Now(F)) /\ (k # "pending" => data = o)
  OBVIOUS
<1> HIDE DEF o, data
<1>12. /\ data \in Datas /\ F \subseteq DOMAIN data /\ \A f \in F : data[f] = n
       /\ k # "bbr" => DOMAIN data \subseteq fields \ Hostnames
       /\ k = "active" => DOMAIN data = fields \ Hostnames
  <2>1. CASE k = "pending"
    BY <1>5, <1>7, <1>9, <1>11, <2>1
  <2>2. CASE k # "pending"
    BY <1>0, <1>4, <1>5, <1>7, <1>8, <1>10, <1>11, <2>2 DEF Domains, Kinds
  <2> QED BY <2>1, <2>2
<1> HIDE DEF k
<1>13. /\ leader' \in [Kinds -> Datas] /\ leader'[k] = data
       /\ \A x \in Kinds : x # k => leader'[x] = leader[x]
  BY <1>3, <1>4, <1>12
<1>14. /\ held' \in [Kinds -> SUBSET (Everything \X Nat)]
       /\ \A x \in Kinds : held[x] \subseteq held'[x]
       /\ \A f \in DOMAIN data : <<f, data[f]>> \in held'[k]
  BY <1>0, <1>3, <1>4, <1>12, HeldGrows
<1>15. Grows
  <2>1. \A x \in Kinds : Had(x, leader[x])'
    <3> SUFFICES ASSUME NEW x \in Kinds
                 PROVE  \A f \in DOMAIN leader'[x] : <<f, leader'[x][f]>> \in held'[x]
      BY DEF Had
    <3>1. CASE x = k
      BY <1>13, <1>14, <3>1
    <3>2. CASE x # k
      BY <1>0, <1>13, <1>14, <3>2 DEF AllHad, Had
    <3> QED BY <3>1, <3>2
  <2>2. /\ DOMAIN leader'["active"] = fields \ Hostnames
        /\ DOMAIN leader'["pending"] \subseteq fields \ Hostnames
    BY <1>0, <1>12, <1>13 DEF Domains, Kinds
  <2> QED BY <1>1, <1>3, <1>13, <1>14, <2>1, <2>2 DEF Grows
<1> HIDE DEF n
<1>16. /\ command' \in CommandRecs /\ command'.what = command.what /\ command'.kind = command.kind
       /\ command'.fields = command.fields /\ command'.got = command.got /\ command'.set = n
  BY <1>1, <1>4 DEF CommandRecs
<1>17. command' # NoCommand
  BY <1>4, <1>16, SMT DEF NoCommand
<1>18. /\ ~Starting /\ ~Starting' /\ \A x : ~Setting(x)
       /\ \A x : Setting(x)' <=> x = k
  BY <1>1, <1>4, <1>16, SMT DEF Starting, Setting, k
<1>19. \A t : Coming(t)' <=> Coming(t)
  BY <1>1 DEF Coming
<1>20. BbrFollows'
  <2>1. CASE k # "bbr"
    <3>1. leader'["bbr"] = leader["bbr"]
      BY <1>13, <2>1 DEF Kinds
    <3>2. BbrShown'
      BY <1>0, <1>1, <1>18, <2>1, <3>1 DEF BbrFollows, BbrShown, SameHostname
    <3> QED BY <1>5, <1>16, <1>18, <2>1, <3>2 DEF BbrFollows
  <2>2. CASE k = "bbr"
    <3>1. leader'["bbr"] = data /\ data = o
      BY <1>11, <1>13, <2>2
    <3>2. BbrShown'
      <4> SUFFICES ASSUME active, "bbr" \notin doubt, NEW f \in Hostnames, f \notin command.fields
                   PROVE  SameHostname(f)'
        BY <1>1, <1>16, <1>18, <2>2 DEF BbrShown
      <4>1. SameHostname(f)
        BY <1>0, <1>18 DEF BbrFollows, BbrShown
      <4>2. f \notin F
        BY <1>7 DEF Hostnames
      <4>3. (f \in DOMAIN data <=> f \in DOMAIN leader["bbr"])
            /\ (f \in DOMAIN data => data[f] = leader["bbr"][f])
        BY <1>8, <1>10, <2>2, <3>1, <4>2
      <4> QED BY <1>1, <3>1, <4>1, <4>3 DEF SameHostname
    <3>3. \A f \in command.fields : f \in DOMAIN data /\ data[f] = n
      BY <1>7, <1>12
    <3> QED BY <1>5, <1>16, <3>1, <3>2, <3>3, SMT DEF BbrFollows
  <2> QED BY <2>1, <2>2
<1>21. PICK H \in [Nat -> Datas] : RepliesOf(H) /\ Caught(H) /\ Shown(H)
  BY DEF AppInv, History
<1>22. PICK G \in [Nat -> Datas] : G[n] = leader'["active"] /\ \A t \in Nat : t # n => G[t] = H[t]
  <2>1. leader'["active"] \in Datas
    BY <1>13 DEF Kinds
  <2>2. \E G \in [Nat -> Datas] : Extended(G, H, n, leader'["active"])
    BY <1>4, <2>1, HistoryGrows
  <2> QED BY <2>2 DEF Extended
<1>23. \A t \in Nat : t <= time => G[t] = H[t]
  BY <1>4, <1>22, SMT
<1>24. newest \in Nat /\ newest <= time
  BY <1>0, <1>21 DEF AppTypes, RepliesOf
<1>25. RepliesOf(G)'
  <2>1. (G[time] = leader["active"] /\ newest <= time)'
    BY <1>1, <1>3, <1>4, <1>22, <1>24, SMT
  <2>2. ASSUME NEW r \in reads, r.kind = "active", r.served
        PROVE  r.got.at <= time' /\ r.got.data = G[r.got.at]
    <3>1. r.got.at \in Nat
      BY <1>0 DEF AppTypes, ReadRecs, Replies
    <3> QED BY <1>3, <1>4, <1>21, <1>23, <2>2, <3>1, SMT DEF RepliesOf
  <2>3. ASSUME k = "active"
        PROVE  n \in 1..time' /\ G[n] = Over(G[n - 1], [f \in command.fields |-> n])
    <3>1. n \in 1..time' /\ n - 1 = time
      BY <1>3, <1>4, SMT DEF n
    <3>2. G[n] = o /\ F = command.fields /\ old = leader["active"]
      BY <1>7, <1>8, <1>11, <1>13, <1>22, <2>3
    <3>3. G[n - 1] = leader["active"]
      BY <1>4, <1>21, <1>23, <3>1, SMT DEF RepliesOf
    <3>4. Now(F) = [f \in command.fields |-> n]
      BY <3>2 DEF Now, n
    <3> QED BY <3>1, <3>2, <3>3, <3>4 DEF o
  <2> QED BY <1>1, <1>5, <1>16, <1>18, <2>1, <2>2, <2>3 DEF RepliesOf
<1>26. Caught(G)'
  <2> SUFFICES ASSUME active, NEW a \in 0..time', NEW c \in 0..time', Unread(a)', a < c, G[a] # G[c]
               PROVE  (Coming(a + 1) \/ (Setting("active") /\ command.set \in (a + 1)..c))'
    BY <1>1 DEF Caught
  <2>1. Unread(a)
    BY <1>1, <1>18 DEF Unread
  <2>2. a \in 0..time /\ G[a] = H[a]
    BY <1>3, <1>4, <1>23, SMT DEF n
  <2>3. CASE c = n
    <3>1. CASE k = "active"
      <4>1. n \in (a + 1)..n
        BY <1>4, <2>2, SMT DEF n
      <4> QED BY <1>16, <1>18, <2>3, <3>1, <4>1
    <3>2. CASE k # "active"
      <4>1. leader'["active"] = leader["active"]
        BY <1>13, <3>2 DEF Kinds
      <4>2. G[n] = H[time] /\ time \in 0..time
        BY <1>4, <1>21, <1>22, <4>1, SMT DEF RepliesOf
      <4>3. H[a] # H[time]
        BY <2>2, <2>3, <4>2
      <4>4. a < time
        BY <1>4, <2>2, <4>3, SMT
      <4>5. Coming(a + 1)
        BY <1>18, <1>21, <2>1, <2>2, <4>2, <4>3, <4>4 DEF Caught
      <4> QED BY <1>19, <4>5
    <3> QED BY <3>1, <3>2
  <2>4. CASE c # n
    <3>1. c \in 0..time /\ G[c] = H[c]
      BY <1>3, <1>4, <1>23, <2>4, SMT DEF n
    <3>2. Coming(a + 1)
      BY <1>18, <1>21, <2>1, <2>2, <3>1 DEF Caught
    <3> QED BY <1>19, <3>2
  <2> QED BY <2>3, <2>4
<1>27. Shown(G)'
  BY <1>1, <1>18, <1>19, <1>21, <1>23, <1>24 DEF Shown
<1>28. \A f \in command.fields : <<f, time + 1>> \in held'[command.kind]
  BY <1>7, <1>12, <1>14 DEF n, k
<1>29. unnoticed' \in BOOLEAN
  BY <1>0, <1>1 DEF AppTypes
<1>30. History(G)'
  BY <1>25, <1>26, <1>27 DEF History
<1>31. command'.set = time + 1
  BY <1>16 DEF n
<1> QED BY <1>1, <1>5, <1>15, <1>16, <1>17, <1>20, <1>28, <1>29, <1>30, <1>31, GrowsStep DEF AskGrows

-----------------------------------------------------------------------------
(* The leader answers the command.                                         *)
LEMMA WantsFacts ==
    ASSUME AppInv, command # NoCommand, NEW k \in Wants
    PROVE  /\ k \in Kinds \ DOMAIN command.got
           /\ command.what \notin {"petition", "set"}
           /\ command.what \in {"hostname", "get", "read"} => k = command.kind
           /\ command.what = "hostname" => command.set # 0
<1>1. AppTypes /\ Asks
  BY DEF AppInv
<1>2. command.what \in Whats /\ command.kind \in Kinds /\ command.set \in Nat
  BY <1>1, CommandFacts
<1>3. "bbr" \in Kinds
  BY DEF Kinds
<1>4. CASE command.what \in {"read", "get"}
  BY <1>2, <1>4 DEF Wants
<1>5. CASE command.what = "hostname"
  <2>1. command.kind = "bbr"
    BY <1>1, <1>5 DEF Asks
  <2>2. command.set > 0 /\ k \in {"bbr"} \ DOMAIN command.got
    BY <1>5 DEF Wants
  <2>3. command.set # 0
    BY <1>2, <2>2, SMT
  <2> QED BY <1>3, <1>5, <2>1, <2>2, <2>3
<1>6. CASE command.what \in {"start", "sync"}
  BY <1>6 DEF Wants
<1>7. CASE command.what \in {"petition", "set"}
  BY <1>7 DEF Wants
<1> QED BY <1>2, <1>4, <1>5, <1>6, <1>7 DEF Whats

(* A reply has the dataset of its time, so that a start that has it knows  *)
(* every earlier change.                                                   *)
LEMMA LeaderAnswersStep == Keeps(LeaderAnswers)
<1> SUFFICES ASSUME AppInv, LeaderAnswers, UNCHANGED fields PROVE AppInv'
  BY DEF Keeps
<1>0. AppTypes /\ Asks /\ Domains /\ AllHad /\ BbrFollows
  BY DEF AppInv
<1>1. PICK H \in [Nat -> Datas] : RepliesOf(H) /\ Caught(H) /\ Shown(H)
  BY DEF AppInv, History
<1>2. /\ command # NoCommand
      /\ UNCHANGED <<active, mirror, leader, held, time, unnoticed, reads, notices, newest, doubt, wiped>>
  BY DEF LeaderAnswers, Waiting
<1>3. PICK k \in Wants : command' =
        [command EXCEPT !.got = Over(@, [x \in {k} |-> [at |-> time, data |-> leader[k]]])]
  BY DEF LeaderAnswers
<1>4. /\ k \in Kinds \ DOMAIN command.got
      /\ command.what \notin {"petition", "set"}
      /\ command.what \in {"hostname", "get", "read"} => k = command.kind
      /\ command.what = "hostname" => command.set # 0
  BY <1>2, WantsFacts
<1> DEFINE v == [at |-> time, data |-> leader[k]]
           g == More(command.got, k, v)
<1>5. v \in Replies /\ v.at = time /\ v.data = leader[k]
  BY <1>0, <1>4 DEF AppTypes, Replies
<1>6. command \in CommandRecs /\ command.got \in Gots
  BY <1>0, <1>2, CommandFacts
<1>7. command' = [command EXCEPT !.got = g]
  BY <1>3, <1>6 DEF CommandRecs, More
<1> HIDE DEF v
<1>8. /\ g \in Gots /\ DOMAIN g = DOMAIN command.got \cup {k} /\ g[k] = v
      /\ \A x \in DOMAIN command.got : g[x] = command.got[x]
  <2>1. command.got \in Gots /\ k \in Kinds /\ v \in Replies
    BY <1>4, <1>5, <1>6
  <2>2. /\ g \in Gots /\ DOMAIN g = DOMAIN command.got \cup {k} /\ g[k] = v
        /\ \A x \in DOMAIN command.got : x # k => g[x] = command.got[x]
    BY <2>1, GotMore
  <2> QED BY <1>4, <2>2
<1> HIDE DEF g
<1>9. /\ command' \in CommandRecs /\ command'.what = command.what /\ command'.kind = command.kind
      /\ command'.fields = command.fields /\ command'.got = g /\ command'.set = command.set
  BY <1>6, <1>7, <1>8 DEF CommandRecs
<1>10. command' # NoCommand
  <2>1. command.what # "none"
    BY <1>0, <1>2, CommandFacts
  <2> QED BY <1>9, <2>1, SMT DEF NoCommand
<1>11. (Starting' <=> Starting) /\ \A x : Setting(x)' <=> Setting(x)
  BY <1>9 DEF Starting, Setting
<1>12. \A t : Coming(t)' <=> Coming(t)
  BY <1>2 DEF Coming
<1>13. AppTypes'
  BY <1>0, <1>2, <1>9 DEF AppTypes
<1>14. Asks'
  BY <1>0, <1>2, <1>4, <1>8, <1>9 DEF Asks
<1>15. Domains'
  <2>1. "active" \in DOMAIN g => DOMAIN g["active"].data = fields \ Hostnames
    BY <1>0, <1>2, <1>5, <1>8 DEF Domains
  <2> QED BY <1>0, <1>2, <1>9, <1>11, <2>1 DEF Domains, MirrorDomain
<1>16. AllHad'
  <2>1. \A x \in DOMAIN g : Had(x, g[x].data)
    BY <1>0, <1>2, <1>4, <1>5, <1>8 DEF AllHad
  <2> QED BY <1>0, <1>2, <1>9, <1>11, <2>1 DEF AllHad, Had
<1>17. BbrFollows'
  <2>1. "bbr" \in DOMAIN g => g["bbr"].data = leader["bbr"]
    BY <1>0, <1>2, <1>5, <1>8 DEF BbrFollows
  <2> QED BY <1>0, <1>2, <1>9, <1>11, <2>1 DEF BbrFollows, BbrShown, SameHostname
<1>18. time \in Nat
  BY <1>0 DEF AppTypes
<1>19. RepliesOf(H)'
  <2>1. "active" \in DOMAIN g => g["active"].at <= time /\ g["active"].data = H[g["active"].at]
    <3>1. CASE k = "active"
      BY <1>1, <1>5, <1>8, <1>18, <3>1, SMT DEF RepliesOf
    <3>2. CASE k # "active"
      BY <1>1, <1>2, <1>8, <3>2 DEF RepliesOf
    <3> QED BY <3>1, <3>2
  <2> QED BY <1>1, <1>2, <1>9, <1>11, <2>1 DEF RepliesOf
<1>20. Caught(H)'
  <2> SUFFICES ASSUME active, NEW a \in 0..time, NEW b \in 0..time, Unread(a)', a < b, H[a] # H[b]
               PROVE  (Coming(a + 1) \/ (Setting("active") /\ command.set \in (a + 1)..b))'
    BY <1>2 DEF Caught
  <2>1. Unread(a)
    <3>1. a >= newest /\ (Starting => "active" \in DOMAIN g /\ a >= g["active"].at)
      BY <1>2, <1>9, <1>11 DEF Unread
    <3>2. CASE Starting /\ k = "active"
      BY <1>5, <1>8, <1>18, <3>1, <3>2, SMT
    <3>3. CASE Starting /\ k # "active"
      BY <1>8, <3>1, <3>3 DEF Unread
    <3>4. CASE ~Starting
      BY <3>1, <3>4 DEF Unread
    <3> QED BY <3>2, <3>3, <3>4
  <2>2. Coming(a + 1) \/ (Setting("active") /\ command.set \in (a + 1)..b)
    BY <1>1, <2>1 DEF Caught
  <2> QED BY <1>9, <1>11, <1>12, <2>2
<1>21. Shown(H)'
  BY <1>1, <1>2, <1>11, <1>12 DEF Shown
<1> QED BY <1>13, <1>14, <1>15, <1>16, <1>17, <1>19, <1>20, <1>21 DEF AppInv, History

(* The leader answers a read of OnDatasetChanged.                          *)
LEMMA LeaderAnswersReadStep == \A r \in reads : Keeps(LeaderAnswersRead(r))
<1> SUFFICES ASSUME NEW r \in reads, AppInv, LeaderAnswersRead(r), UNCHANGED fields PROVE AppInv'
  BY DEF Keeps
<1>0. AppTypes /\ Asks /\ Domains /\ AllHad /\ BbrFollows
  BY DEF AppInv
<1>1. PICK H \in [Nat -> Datas] : RepliesOf(H) /\ Caught(H) /\ Shown(H)
  BY DEF AppInv, History
<1> DEFINE v == [at |-> time, data |-> leader[r.kind]]
           s == [r EXCEPT !.served = TRUE, !.got = v]
<1>2. /\ ~r.served /\ reads' = (reads \ {r}) \cup {s}
      /\ UNCHANGED <<active, mirror, leader, held, time, unnoticed, notices, command, newest, doubt, wiped>>
  BY DEF LeaderAnswersRead
<1>3. r \in ReadRecs /\ r.kind \in Kinds /\ time \in Nat
  BY <1>0 DEF AppTypes, ReadRecs, Kinds
<1>4. v \in Replies /\ v.at = time /\ v.data = leader[r.kind]
  BY <1>0, <1>3 DEF AppTypes, Replies
<1> HIDE DEF v
<1>5. s \in ReadRecs /\ s.kind = r.kind /\ s.served = TRUE /\ s.got = v
  BY <1>3, <1>4 DEF ReadRecs
<1> HIDE DEF s
<1>6. \A t \in 0..time : Coming(t) => Coming(t)'
  BY <1>2, <1>4, <1>5, SMT DEF Coming
<1>7. AppTypes'
  BY <1>0, <1>2, <1>5 DEF AppTypes
<1>8. Asks'
  BY <1>0, <1>2 DEF Asks
<1>9. Domains'
  <2>1. \A x \in reads' : x.kind = "active" /\ x.served => DOMAIN x.got.data = fields \ Hostnames
    BY <1>0, <1>2, <1>4, <1>5 DEF Domains
  <2> QED BY <1>0, <1>2, <2>1 DEF Domains, MirrorDomain, Starting
<1>10. AllHad'
  <2>1. \A x \in reads' : Had(x.kind, x.got.data)
    BY <1>0, <1>2, <1>3, <1>4, <1>5 DEF AllHad
  <2> QED BY <1>0, <1>2, <2>1 DEF AllHad, Had, Setting
<1>11. BbrFollows'
  BY <1>0, <1>2 DEF BbrFollows, BbrShown, SameHostname, Starting, Setting
<1>12. RepliesOf(H)'
  <2>1. \A x \in reads' : x.kind = "active" /\ x.served => x.got.at <= time /\ x.got.data = H[x.got.at]
    BY <1>1, <1>2, <1>3, <1>4, <1>5, SMT DEF RepliesOf
  <2> QED BY <1>1, <1>2, <2>1 DEF RepliesOf, Setting
<1>13. Caught(H)'
  BY <1>1, <1>2, <1>3, <1>6, SMT DEF Caught, Unread, Starting, Setting
<1>14. Shown(H)'
  BY <1>1, <1>2, <1>3, <1>6, SMT DEF Shown, Starting
<1> QED BY <1>7, <1>8, <1>9, <1>10, <1>11, <1>12, <1>13, <1>14 DEF AppInv, History

-----------------------------------------------------------------------------
(* A command begins.                                                       *)
LEMMA NewCommandStep ==
    ASSUME AppInv, NEW what \in Whats \ {"start"}, NEW kind \in Kinds,
           NEW F \in SUBSET (IF kind = "bbr" THEN Hostnames ELSE fields \ Hostnames),
           Command(what, kind, F), UNCHANGED fields,
           what = "petition" => ~active, what = "hostname" => kind = "bbr",
           what = "read" => kind = "active"
    PROVE  AppInv'
<1>0. AppTypes /\ Domains /\ AllHad /\ BbrFollows
  BY DEF AppInv
<1>1. PICK H \in [Nat -> Datas] : RepliesOf(H) /\ Caught(H) /\ Shown(H)
  BY DEF AppInv, History
<1>2. /\ command = NoCommand
      /\ command' = [what |-> what, kind |-> kind, fields |-> F, got |-> NoData, set |-> 0,
                     failed |-> FALSE]
      /\ UNCHANGED <<active, mirror, leader, held, time, unnoticed, reads, notices, newest, doubt, wiped>>
  BY DEF Command
<1>3. F \in SUBSET Everything
  BY <1>0 DEF AppTypes, Everything
<1>4. /\ command' \in CommandRecs /\ command'.what = what /\ command'.kind = kind
      /\ command'.fields = F /\ DOMAIN command'.got = {} /\ command'.set = 0
  BY <1>2, <1>3, NoDataGot, NoDataType DEF CommandRecs
<1>5. command.what = "none"
  BY <1>2 DEF NoCommand
<1>6. (\A k : ~Setting(k)') /\ (Starting' => ~active) /\ ~Starting /\ \A k : ~Setting(k)
  BY <1>4, <1>5, SMT DEF Setting, Starting
<1>7. \A t : Coming(t)' <=> Coming(t)
  BY <1>2 DEF Coming
<1>8. AppTypes'
  BY <1>0, <1>2, <1>4 DEF AppTypes
<1>9. Asks'
  BY <1>2, <1>4 DEF Asks
<1>10. Domains'
  BY <1>0, <1>2, <1>4, <1>6 DEF Domains, MirrorDomain
<1>11. AllHad'
  BY <1>0, <1>2, <1>4, <1>6 DEF AllHad, Had
<1>12. BbrFollows'
  BY <1>0, <1>2, <1>4, <1>6 DEF BbrFollows, BbrShown, SameHostname
<1>13. RepliesOf(H)'
  BY <1>1, <1>2, <1>4, <1>6 DEF RepliesOf
<1>14. Caught(H)'
  BY <1>1, <1>2, <1>6, <1>7 DEF Caught, Unread
<1>15. Shown(H)'
  BY <1>1, <1>2, <1>6, <1>7 DEF Shown
<1> QED BY <1>8, <1>9, <1>10, <1>11, <1>12, <1>13, <1>14, <1>15 DEF AppInv, History

(* CommissionerApp::Start, when the petition is accepted.                  *)
LEMMA PetitionAcceptedStep == Keeps(PetitionAccepted)
<1> SUFFICES ASSUME AppInv, PetitionAccepted, UNCHANGED fields PROVE AppInv'
  BY DEF Keeps
<1>0. AppTypes /\ Asks /\ Domains /\ AllHad /\ BbrFollows
  BY DEF AppInv
<1>1. PICK H \in [Nat -> Datas] : RepliesOf(H)
  BY DEF AppInv, History
<1>2. /\ command # NoCommand /\ command.what = "petition" /\ active' = TRUE
      /\ command' = [command EXCEPT !.what = "start"]
      /\ UNCHANGED <<mirror, leader, held, time, unnoticed, reads, notices, newest, doubt, wiped>>
  BY DEF PetitionAccepted, Waiting
<1>3. command \in CommandRecs
  BY <1>0, <1>2, CommandFacts
<1>4. /\ command' \in CommandRecs /\ command'.what = "start" /\ command'.kind = command.kind
      /\ command'.fields = command.fields /\ command'.got = command.got
      /\ command'.set = command.set
  BY <1>2, <1>3 DEF CommandRecs, Whats
<1>5. DOMAIN command.got = {} /\ command.set = 0
  BY <1>0, <1>2 DEF Asks
<1>6. (\A k : ~Setting(k)') /\ Starting'
  BY <1>4 DEF Setting, Starting
<1>7. AppTypes'
  BY <1>0, <1>2, <1>4 DEF AppTypes
<1>8. Asks'
  BY <1>0, <1>2, <1>4, <1>5 DEF Asks
<1>9. Domains'
  BY <1>0, <1>2, <1>4, <1>5, <1>6 DEF Domains, MirrorDomain
<1>10. AllHad'
  BY <1>0, <1>2, <1>4, <1>5, <1>6 DEF AllHad, Had
<1>11. BbrFollows'
  BY <1>2, <1>4, <1>5, <1>6 DEF BbrFollows, BbrShown
<1>12. RepliesOf(H)'
  BY <1>1, <1>2, <1>4, <1>5, <1>6 DEF RepliesOf
<1>13. Caught(H)' /\ Shown(H)'
  BY <1>4, <1>5, <1>6 DEF Caught, Unread, Shown
<1> QED BY <1>7, <1>8, <1>9, <1>10, <1>11, <1>12, <1>13 DEF AppInv, History

(* OnDatasetChanged: what is read from now on shows every change so far.   *)
LEMMA OnDatasetChangedStep == Keeps(OnDatasetChanged)
<1> SUFFICES ASSUME AppInv, OnDatasetChanged, UNCHANGED fields PROVE AppInv'
  BY DEF Keeps
<1>0. AppTypes /\ Asks /\ Domains /\ AllHad /\ BbrFollows
  BY DEF AppInv
<1>1. PICK H \in [Nat -> Datas] : RepliesOf(H)
  BY DEF AppInv, History
<1> DEFINE Ask(k) == [n |-> notices, kind |-> k, served |-> FALSE, got |-> Unserved]
           New == {Ask(k) : k \in {"active", "pending"}}
<1>2. /\ unnoticed' = FALSE /\ notices' = notices + 1 /\ reads' = reads \cup New
      /\ UNCHANGED <<active, mirror, leader, held, time, command, newest, doubt, wiped>>
  BY DEF OnDatasetChanged
<1>3. Unserved \in Replies /\ Unserved.data = NoData
  BY NoDataType DEF Unserved, Replies
<1>4. ASSUME NEW k \in {"active", "pending"}
      PROVE  /\ Ask(k) \in ReadRecs /\ Ask(k).kind = k /\ Ask(k).served = FALSE
             /\ Ask(k).got.data = NoData
  <2>1. notices \in Nat
    BY <1>0 DEF AppTypes
  <2> QED BY <1>3, <2>1 DEF ReadRecs
<1> HIDE DEF Ask
<1>5. /\ New \subseteq ReadRecs /\ \A r \in New : ~r.served /\ r.got.data = NoData
      /\ \E r \in New : r.kind = "active" /\ ~r.served
  BY <1>4
<1> HIDE DEF New
<1>6. \A t : Coming(t)'
  BY <1>2, <1>5 DEF Coming
<1>7. AppTypes'
  <2>1. notices' \in Nat /\ reads' \subseteq ReadRecs
    BY <1>0, <1>2, <1>5, SMT DEF AppTypes
  <2> QED BY <1>0, <1>2, <2>1 DEF AppTypes
<1>8. Asks'
  BY <1>0, <1>2 DEF Asks
<1>9. Domains'
  BY <1>0, <1>2, <1>5 DEF Domains, MirrorDomain, Starting
<1>10. AllHad'
  <2>1. \A r \in reads' : \A f \in DOMAIN r.got.data : <<f, r.got.data[f]>> \in held[r.kind]
    BY <1>0, <1>2, <1>5, NoDataType DEF AllHad, Had
  <2> QED BY <1>0, <1>2, <2>1 DEF AllHad, Had, Setting
<1>11. BbrFollows'
  BY <1>0, <1>2 DEF BbrFollows, BbrShown, SameHostname, Starting, Setting
<1>12. RepliesOf(H)'
  BY <1>1, <1>2, <1>5 DEF RepliesOf, Setting
<1>13. Caught(H)' /\ Shown(H)'
  BY <1>6 DEF Caught, Shown
<1> QED BY <1>7, <1>8, <1>9, <1>10, <1>11, <1>12, <1>13 DEF AppInv, History

-----------------------------------------------------------------------------
(* Where nothing is still to come, nothing has changed.                    *)

(* Nothing still to come: no change since the mirror was written.          *)
LEMMA NothingComing ==
    ASSUME AppInv, ~Coming(0)
    PROVE  \A t \in Nat : ~Coming(t)
<1>1. \A r \in reads : r.got.at \in Nat
  BY DEF AppInv, AppTypes, ReadRecs, Replies
<1> QED BY <1>1, SMT DEF Coming

(* With no read to come the active dataset is still as the mirror has it,  *)
(* until the command under way has set something.                          *)
LEMMA NoNews ==
    ASSUME AppInv, active, ~Starting, ~Coming(0),
           NEW H \in [Nat -> Datas], RepliesOf(H), Caught(H),
           NEW b \in Nat, newest <= b, b <= time, Setting("active") => command.set > b
    PROVE  H[b] = H[newest]
<1>1. newest \in Nat /\ time \in Nat
  BY DEF AppInv, AppTypes
<1>2. newest \in 0..time /\ b \in 0..time /\ newest + 1 \in Nat
  BY <1>1, SMT
<1>3. Unread(newest)
  BY <1>1, SMT DEF Unread
<1>4. ~Coming(newest + 1)
  BY <1>2, NothingComing
<1>5. ~(Setting("active") /\ command.set \in (newest + 1)..b)
  BY SMT
<1>6. CASE newest < b
  BY <1>2, <1>3, <1>4, <1>5, <1>6 DEF Caught
<1>7. CASE newest = b
  BY <1>7
<1> QED BY <1>1, <1>6, <1>7, SMT

(* What the invariant says of the mirror.                                  *)

(* Every value shown is one that the leader has had.                       *)
LEMMA InventsNothing == AppInv => NothingInvented
BY DEF AppInv, AllHad, Had, NothingInvented

(* At the prompt the mirror has the fields of the leader's active dataset. *)
LEMMA PromptSynced == AppInv => PromptIsSynced
<1> SUFFICES ASSUME AppInv, active, command = NoCommand, ~wiped
             PROVE  DOMAIN mirror["active"] = DOMAIN leader["active"]
  BY DEF PromptIsSynced
<1>1. ~Starting
  BY DEF Starting, NoCommand
<1> QED BY <1>1 DEF AppInv, Domains, MirrorDomain

(* Where nothing is outstanding or in doubt, the mirror is right.          *)
LEMMA QuietFollows == AppInv => MirrorFollows
<1> SUFFICES ASSUME AppInv, active, Quiet
             PROVE  /\ "active" \notin doubt => mirror["active"] = leader["active"]
                    /\ "bbr" \notin doubt =>
                          Restrict(mirror["bbr"], Hostnames \cap DOMAIN mirror["bbr"])
                              = Restrict(leader["bbr"], Hostnames \cap DOMAIN leader["bbr"])
  BY DEF MirrorFollows
<1>1. command = NoCommand /\ command.what = "none" /\ reads = {} /\ ~unnoticed
  BY DEF Quiet, NoCommand
<1>2. ~Starting /\ (\A k : ~Setting(k)) /\ ~Coming(0)
  BY <1>1 DEF Starting, Setting, Coming
<1>3. ASSUME "active" \notin doubt PROVE mirror["active"] = leader["active"]
  <2>1. PICK H \in [Nat -> Datas] : RepliesOf(H) /\ Caught(H) /\ Shown(H)
    BY DEF AppInv, History
  <2>2. H[time] = leader["active"] /\ newest <= time
    BY <2>1 DEF RepliesOf
  <2>3. time \in Nat /\ time <= time
    BY SMT DEF AppInv, AppTypes
  <2>4. H[time] = H[newest]
    BY <1>2, <2>1, <2>2, <2>3, NoNews
  <2>5. mirror["active"] = H[newest]
    BY <1>2, <1>3, <2>1 DEF Shown
  <2> QED BY <2>2, <2>4, <2>5
<1>4. ASSUME "bbr" \notin doubt
      PROVE  Restrict(mirror["bbr"], Hostnames \cap DOMAIN mirror["bbr"])
                 = Restrict(leader["bbr"], Hostnames \cap DOMAIN leader["bbr"])
  <2> DEFINE S == Hostnames \cap DOMAIN mirror["bbr"]
             T == Hostnames \cap DOMAIN leader["bbr"]
  <2>1. \A f \in Hostnames : SameHostname(f)
    BY <1>2, <1>4 DEF AppInv, BbrFollows, BbrShown
  <2>2. S = T /\ \A f \in S : mirror["bbr"][f] = leader["bbr"][f]
    BY <2>1 DEF SameHostname
  <2> QED BY <2>2, SMT DEF Restrict
<1> QED BY <1>3, <1>4

-----------------------------------------------------------------------------
(* A command or a read ends.                                               *)

(* The command is the same, though it may have failed.                     *)
SameAsk ==
    /\ command' = NoCommand <=> command = NoCommand
    /\ command'.what = command.what
    /\ command # NoCommand =>
          /\ command'.kind = command.kind /\ command'.fields = command.fields
          /\ command'.got = command.got /\ command'.set = command.set

(* A request of the command that is cancelled changes only its outcome.    *)
LEMMA FailedAsk ==
    ASSUME AppTypes, command # NoCommand, command' = [command EXCEPT !.failed = TRUE]
    PROVE  SameAsk /\ command' \in CommandRecs
<1>1. command \in CommandRecs /\ command.what # "none"
  BY CommandFacts
<1>2. /\ command' \in CommandRecs
      /\ command'.what = command.what /\ command'.kind = command.kind
      /\ command'.fields = command.fields /\ command'.got = command.got
      /\ command'.set = command.set
  BY <1>1 DEF CommandRecs
<1>3. command' # NoCommand
  BY <1>1, <1>2 DEF NoCommand
<1> QED BY <1>2, <1>3 DEF SameAsk

(* A command that stays asks for the same.                                 *)
LEMMA UnchangedAsk == ASSUME UNCHANGED command PROVE SameAsk
BY DEF SameAsk

(* CancelRequests: the command may have failed, and the reads are gone.    *)
LEMMA CancelRequestsAsk ==
    ASSUME AppTypes, CancelRequests
    PROVE  SameAsk /\ command' \in CommandRecs \cup {NoCommand} /\ reads' = {}
<1>1. command' = command \/ (command # NoCommand /\ command' = [command EXCEPT !.failed = TRUE])
  BY DEF CancelRequests, Waiting
<1> QED BY <1>1, FailedAsk, UnchangedAsk DEF CancelRequests, AppTypes

(* Steps of the application: the leader's state and the notices stay, and  *)
(* the command and the reads stay or go.                                   *)
AppSide ==
    /\ UNCHANGED <<fields, leader, held, time, notices>>
    /\ command' = NoCommand \/ (SameAsk /\ command' \in CommandRecs \cup {NoCommand})
    /\ reads' \subseteq reads
    /\ active' \in BOOLEAN /\ (active' => active) /\ unnoticed' \in BOOLEAN
    /\ mirror' \in [Kinds -> Datas] /\ newest' \in 0..time /\ doubt' \subseteq Kinds
    /\ wiped' \in BOOLEAN

(* What remains to be shown of such a step: that the mirrors it leaves are *)
(* right.                                                                  *)
LEMMA AppSideStep ==
    ASSUME AppInv, AppSide, \A k \in Kinds : Had(k, mirror'[k]),
           MirrorDomain', BbrShown',
           NEW H \in [Nat -> Datas], RepliesOf(H), Caught(H)', Shown(H)'
    PROVE  AppInv'
<1>0. AppTypes /\ Asks /\ Domains /\ AllHad /\ BbrFollows
  BY DEF AppInv
<1>1. NoCommand.what = "none"
  BY DEF NoCommand
<1>2. /\ command' = NoCommand =>
            ~Starting' /\ ~Setting("active")' /\ ~Setting("bbr")' /\ \A k : ~Setting(k)'
      /\ SameAsk => (Starting' <=> Starting) /\ \A k : Setting(k)' => Setting(k)
  BY <1>0, <1>1, CommandFacts DEF Starting, Setting, SameAsk
<1>3. AppTypes'
  BY <1>0, SMT DEF AppTypes, AppSide
<1>4. Asks'
  BY <1>0 DEF Asks, AppSide, SameAsk
<1>5. Domains'
  BY <1>0 DEF Domains, AppSide, SameAsk
<1>6. AllHad'
  <2>1. \A k \in Kinds : (Had(k, mirror[k]) /\ Had(k, leader[k]))'
    BY <1>0 DEF AllHad, Had, AppSide
  <2>2. (command # NoCommand => \A k \in DOMAIN command.got : Had(k, command.got[k].data))'
    BY <1>0 DEF AllHad, Had, AppSide, SameAsk
  <2>3. (\A r \in reads : Had(r.kind, r.got.data))'
    BY <1>0 DEF AllHad, Had, AppSide
  <2>4. (\A k \in Kinds : Setting(k) => \A f \in command.fields : <<f, command.set>> \in held[k])'
    BY <1>0, <1>1, <1>2 DEF AllHad, AppSide, SameAsk, Setting
  <2> QED BY <2>1, <2>2, <2>3, <2>4 DEF AllHad
<1>7. BbrFollows'
  BY <1>0, <1>1, <1>2 DEF BbrFollows, AppSide, SameAsk, Setting
<1>8. RepliesOf(H)'
  <2>1. (H[time] = leader["active"] /\ newest <= time)'
    BY <1>0, SMT DEF RepliesOf, AppSide, AppTypes
  <2>2. (command # NoCommand /\ "active" \in DOMAIN command.got =>
          /\ command.got["active"].at <= time
          /\ command.got["active"].data = H[command.got["active"].at])'
    BY DEF RepliesOf, AppSide, SameAsk
  <2>3. (\A r \in reads : r.kind = "active" /\ r.served =>
          r.got.at <= time /\ r.got.data = H[r.got.at])'
    BY DEF RepliesOf, AppSide
  <2>4. (Setting("active") =>
          /\ command.set \in 1..time
          /\ H[command.set] = Over(H[command.set - 1], [f \in command.fields |-> command.set]))'
    BY <1>1, <1>2 DEF RepliesOf, AppSide, SameAsk, Setting
  <2> QED BY <2>1, <2>2, <2>3, <2>4 DEF RepliesOf
<1> QED BY <1>3, <1>4, <1>5, <1>6, <1>7, <1>8 DEF AppInv, History

(* CommissionerApp::Stop: nothing is claimed of an inactive commissioner.  *)
LEMMA StopStep ==
    ASSUME AppInv, Stop, UNCHANGED <<fields, leader, held, time, unnoticed, notices>>,
           command' = NoCommand \/ (SameAsk /\ command' \in CommandRecs \cup {NoCommand})
    PROVE  AppInv'
<1>0. AppTypes
  BY DEF AppInv
<1>1. PICK H \in [Nat -> Datas] : RepliesOf(H)
  BY DEF AppInv, History
<1>2. /\ active' = FALSE /\ mirror' = NoMirror /\ reads' = {} /\ newest' = 0 /\ doubt' = {}
      /\ wiped' = FALSE
  BY DEF Stop
<1>3. mirror' \in [Kinds -> Datas] /\ \A k \in Kinds : Had(k, mirror'[k])
  BY <1>2, NoDataType DEF NoMirror, Had
<1>4. newest' \in 0..time
  BY <1>0, <1>2, SMT DEF AppTypes
<1>5. AppSide
  BY <1>0, <1>2, <1>3, <1>4 DEF AppSide, AppTypes
<1>6. MirrorDomain' /\ BbrShown' /\ Caught(H)' /\ Shown(H)'
  BY <1>2 DEF MirrorDomain, BbrShown, Caught, Shown
<1> QED BY <1>1, <1>3, <1>5, <1>6, AppSideStep

(* The commissioner is no longer active, and its requests are cancelled.   *)
LEMMA SessionEnds ==
    ASSUME AppInv, active' = FALSE, CancelRequests,
           UNCHANGED <<fields, mirror, leader, held, time, unnoticed, notices, newest, doubt, wiped>>
    PROVE  AppInv'
<1>0. AppTypes /\ \A k \in Kinds : Had(k, mirror[k])
  BY DEF AppInv, AllHad
<1>1. PICK H \in [Nat -> Datas] : RepliesOf(H)
  BY DEF AppInv, History
<1>2. /\ active' = FALSE /\ CancelRequests
      /\ UNCHANGED <<mirror, leader, held, time, unnoticed, notices, newest, doubt, wiped>>
  OBVIOUS
<1>3. newest' \in 0..time
  BY <1>0, <1>1, <1>2, SMT DEF AppTypes, RepliesOf
<1>4. AppSide
  BY <1>0, <1>2, <1>3, CancelRequestsAsk DEF AppSide, AppTypes
<1>5. MirrorDomain' /\ BbrShown' /\ Caught(H)' /\ Shown(H)'
  BY <1>2 DEF MirrorDomain, BbrShown, Caught, Shown
<1> QED BY <1>0, <1>1, <1>2, <1>4, <1>5, AppSideStep

(* The session is lost, or the Stop of Interpreter::CancelCommand resigns. *)
LEMMA SessionLostStep == Keeps(SessionLost \/ CancelResigns)
BY SessionEnds DEF Keeps, SessionLost, CancelResigns

(* The mirror stays as it is, the command stays, and what is no longer to  *)
(* come is in doubt.                                                       *)
StaysInDoubt(S) ==
    /\ Doubtful(S) /\ UNCHANGED <<fields, active, mirror, leader, held, time, notices>>
    /\ SameAsk /\ command' \in CommandRecs \cup {NoCommand}
    /\ reads' \subseteq reads /\ unnoticed' \in BOOLEAN
    /\ "active" \in S \/ (unnoticed' = unnoticed /\ \A r \in reads \ reads' : r.kind # "active")

(* Such a step keeps the invariant.                                        *)
LEMMA DoubtfulStep ==
    ASSUME AppInv, NEW S \in SUBSET Kinds, StaysInDoubt(S)
    PROVE  AppInv'
<1> USE DEF StaysInDoubt
<1>0. AppTypes /\ MirrorDomain /\ BbrShown /\ \A k \in Kinds : Had(k, mirror[k])
  BY DEF AppInv, AllHad, Domains, BbrFollows
<1>1. PICK H \in [Nat -> Datas] : RepliesOf(H) /\ Caught(H) /\ Shown(H)
  BY DEF AppInv, History
<1>2. /\ "active" \in S => newest' = time
      /\ "active" \notin S => newest' = newest
      /\ doubt' = doubt \cup S /\ wiped' = wiped
  BY DEF Doubtful
<1>3. time \in Nat /\ newest \in Nat /\ newest <= time
  BY <1>0, <1>1 DEF AppTypes, RepliesOf
<1>4. newest' \in 0..time
  BY <1>2, <1>3, SMT
<1>5. AppSide
  BY <1>0, <1>2, <1>4 DEF AppSide, AppTypes
<1>6. (Starting' <=> Starting) /\ \A k : Setting(k)' <=> Setting(k)
  BY <1>0, CommandFacts DEF SameAsk, Starting, Setting
<1>7. MirrorDomain'
  BY <1>0, <1>2, <1>6 DEF MirrorDomain
<1>8. BbrShown'
  <2>1. ASSUME active', ~Starting', "bbr" \notin doubt', NEW f \in Hostnames,
               Setting("bbr")' => f \notin command'.fields
        PROVE  SameHostname(f)'
    <3>1. Setting("bbr") => f \notin command.fields
      BY <1>6, <2>1, CommandFacts, <1>0 DEF SameAsk, Setting
    <3>2. SameHostname(f)
      BY <1>0, <1>2, <1>6, <2>1, <3>1 DEF BbrShown
    <3> QED BY <3>2 DEF SameHostname
  <2> QED BY <2>1 DEF BbrShown
<1>9. CASE "active" \in S
  <2>1. Caught(H)'
    BY <1>2, <1>3, <1>9, SMT DEF Caught, Unread
  <2>2. Shown(H)'
    BY <1>2, <1>9 DEF Shown
  <2> QED BY <1>0, <1>1, <1>5, <1>7, <1>8, <2>1, <2>2, AppSideStep
<1>10. CASE "active" \notin S
  <2>1. \A t : Coming(t)' <=> Coming(t)
    BY <1>10 DEF Coming
  <2>2. \A t : Unread(t)' <=> Unread(t)
    BY <1>0, <1>2, <1>6, <1>10, CommandFacts DEF Unread, SameAsk, Starting
  <2>3. Setting("active") => command'.set = command.set
    BY <1>0, CommandFacts DEF Setting, SameAsk
  <2>4. Caught(H)'
    BY <1>1, <1>6, <2>1, <2>2, <2>3 DEF Caught
  <2>5. Shown(H)'
    BY <1>1, <1>2, <1>6, <1>10, <2>1 DEF Shown
  <2> QED BY <1>0, <1>1, <1>5, <1>7, <1>8, <2>4, <2>5, AppSideStep
<1> QED BY <1>9, <1>10

(* A notice is lost: the mirror of the active dataset is in doubt.         *)
LEMMA NoticeLostStep == Keeps(NoticeLost)
<1> SUFFICES ASSUME AppInv, NoticeLost, UNCHANGED fields PROVE AppInv'
  BY DEF Keeps
<1>1. /\ Doubtful({"active"}) /\ unnoticed' = FALSE
      /\ UNCHANGED <<fields, active, mirror, leader, held, time, reads, notices, command>>
  BY DEF NoticeLost
<1>2. SameAsk /\ command' \in CommandRecs \cup {NoCommand} /\ {"active"} \in SUBSET Kinds
  BY <1>1, UnchangedAsk DEF AppInv, AppTypes, Kinds
<1> QED BY <1>1, <1>2, DoubtfulStep DEF StaysInDoubt

(* A read of OnDatasetChanged fails: its mirror is in doubt.               *)
LEMMA ReadFailsStep == \A r \in reads : Keeps(ReadFails(r))
<1> SUFFICES ASSUME NEW r \in reads, AppInv, ReadFails(r), UNCHANGED fields PROVE AppInv'
  BY DEF Keeps
<1>1. /\ Doubtful({r.kind} \ {"pending"}) /\ reads' = reads \ {r}
      /\ UNCHANGED <<fields, active, mirror, leader, held, time, unnoticed, notices, command>>
  BY DEF ReadFails
<1>2. SameAsk /\ command' \in CommandRecs \cup {NoCommand} /\ unnoticed' \in BOOLEAN
  BY <1>1, UnchangedAsk DEF AppInv, AppTypes
<1>3. r.kind = "active" \/ r.kind = "pending"
  BY DEF AppInv, AppTypes, ReadRecs
<1>4. {r.kind} \ {"pending"} \in SUBSET Kinds
  BY <1>3 DEF Kinds
<1>5. "active" \in {r.kind} \ {"pending"} \/ \A x \in reads \ reads' : x.kind # "active"
  BY <1>1, <1>3
<1> QED BY <1>1, <1>2, <1>4, <1>5, DoubtfulStep DEF StaysInDoubt

(* Interpreter::CancelCommand, which cancels the requests of an active     *)
(* commissioner.                                                           *)
LEMMA CancelCommandStep == Keeps(CancelCommand)
<1> SUFFICES ASSUME AppInv, CancelCommand, UNCHANGED fields PROVE AppInv'
  BY DEF Keeps
<1>0. AppTypes
  BY DEF AppInv
<1>1. UNCHANGED <<fields, active, mirror, leader, held, time, unnoticed, notices>>
  BY DEF CancelCommand
<1>2. unnoticed' \in BOOLEAN /\ \A r \in reads : r.kind \in {"active", "pending"}
  BY <1>0, <1>1 DEF AppTypes, ReadRecs
<1>3. CASE active
  <2> DEFINE S == {r.kind : r \in reads} \ {"pending"}
  <2>1. CancelRequests /\ Doubtful(S)
    BY <1>3 DEF CancelCommand
  <2>2. S \in SUBSET Kinds
    BY <1>2 DEF Kinds
  <2>3. "active" \in S \/ \A r \in reads : r.kind # "active"
    OBVIOUS
  <2> HIDE DEF S
  <2>4. SameAsk /\ command' \in CommandRecs \cup {NoCommand} /\ reads' = {}
    BY <1>0, <2>1, CancelRequestsAsk
  <2> QED BY <1>1, <1>2, <2>1, <2>2, <2>3, <2>4, DoubtfulStep DEF StaysInDoubt
<1>4. CASE ~active
  <2>1. UNCHANGED <<reads, command, newest, doubt, wiped>>
    BY <1>4 DEF CancelCommand
  <2>2. Doubtful({})
    BY <2>1 DEF Doubtful
  <2>3. SameAsk /\ command' \in CommandRecs \cup {NoCommand} /\ {} \in SUBSET Kinds
    BY <1>0, <2>1, UnchangedAsk DEF AppTypes
  <2> QED BY <1>1, <1>2, <2>1, <2>2, <2>3, DoubtfulStep DEF StaysInDoubt
<1> QED BY <1>3, <1>4

(* Its Stop clears the mirrors, though the commissioner may be active      *)
(* again.                                                                  *)
LEMMA CancelClearsStep == Keeps(CancelClears)
<1> SUFFICES ASSUME AppInv, CancelClears, UNCHANGED fields PROVE AppInv'
  BY DEF Keeps
<1>0. AppTypes
  BY DEF AppInv
<1>1. PICK H \in [Nat -> Datas] : RepliesOf(H) /\ Caught(H)
  BY DEF AppInv, History
<1>2. /\ mirror' = NoMirror /\ wiped' = active
      /\ active => newest' = newest /\ doubt' = Kinds
      /\ ~active => newest' = 0 /\ doubt' = {}
      /\ UNCHANGED <<fields, active, leader, held, time, unnoticed, reads, notices, command>>
  BY DEF CancelClears
<1>3. mirror' \in [Kinds -> Datas] /\ \A k \in Kinds : Had(k, mirror'[k])
  BY <1>2, NoDataType DEF NoMirror, Had
<1>4. newest' \in 0..time /\ doubt' \subseteq Kinds
  BY <1>0, <1>1, <1>2, SMT DEF AppTypes, RepliesOf
<1>5. AppSide
  BY <1>0, <1>2, <1>3, <1>4, UnchangedAsk DEF AppSide, AppTypes
<1>6. MirrorDomain' /\ BbrShown' /\ Shown(H)'
  BY <1>2 DEF MirrorDomain, BbrShown, Shown, Kinds
<1>7. Caught(H)'
  BY <1>1, <1>2 DEF Caught, Unread, Coming, Setting, Starting
<1> QED BY <1>1, <1>3, <1>5, <1>6, <1>7, AppSideStep

-----------------------------------------------------------------------------
(* What the main thread has written, the mirror m, is as it should be.     *)
MirrorRight(m, H) ==
    /\ \A k \in Kinds : Had(k, m[k])
    /\ newest' \in 0..time /\ doubt' \subseteq Kinds /\ wiped' \in BOOLEAN
    /\ active /\ ~wiped' => DOMAIN m["active"] = fields \ Hostnames
    /\ active /\ "bbr" \notin doubt' => \A f \in Hostnames : SameHostname(f)'
    /\ active => \A a, b \in 0..time : a >= newest' /\ a < b /\ H[a] # H[b] => Coming(a + 1)
    /\ active /\ "active" \notin doubt' => Coming(0) \/ m["active"] = H[newest']

(* The command returns; the main thread has written the mirror m.          *)
LEMMA ReturnStep ==
    ASSUME AppInv, NEW m \in [Kinds -> Datas], Return(m), UNCHANGED fields,
           NEW H \in [Nat -> Datas], RepliesOf(H), MirrorRight(m, H)
    PROVE  AppInv'
<1> USE DEF MirrorRight
<1>1. /\ mirror' = m /\ command' = NoCommand
      /\ UNCHANGED <<active, leader, held, time, unnoticed, reads, notices>>
  BY DEF Return
<1>2. AppSide
  BY <1>1 DEF AppSide, AppInv, AppTypes
<1>3. command'.what = "none"
  BY <1>1 DEF NoCommand
<1>4. \A t : Coming(t)' <=> Coming(t)
  BY <1>1 DEF Coming
<1>5. MirrorDomain' /\ BbrShown'
  BY <1>1, <1>3 DEF MirrorDomain, BbrShown
<1>6. Caught(H)'
  BY <1>1, <1>4 DEF Caught, Unread
<1>7. Shown(H)'
  BY <1>1, <1>4 DEF Shown
<1> QED BY <1>1, <1>2, <1>5, <1>6, <1>7, AppSideStep

(* A start has found the commissioner active, or has made it so.           *)
LEMMA NotStarting ==
    ASSUME AppInv, active, command.what # "start"
    PROVE  ~Starting
<1>1. command = NoCommand => command.what = "none"
  BY CommandFacts DEF AppInv
<1> QED BY <1>1 DEF AppInv, Asks, Starting

(* A command that has set something is a set of one dataset and does not   *)
(* start.                                                                  *)
LEMMA SettingFacts ==
    ASSUME AppInv
    PROVE  /\ \A k : Setting(k) => command # NoCommand /\ ~Starting
           /\ Setting("active") => ~Setting("bbr")
           /\ command # NoCommand /\ command.set > 0 => Setting(command.kind)
<1>1. AppTypes /\ Asks
  BY DEF AppInv
<1>2. command = NoCommand => command.what = "none"
  BY <1>1, CommandFacts
<1>3. \A k : Setting(k) => command # NoCommand /\ ~Starting
  BY <1>2 DEF Setting, Starting
<1>4. Setting("active") => ~Setting("bbr")
  BY DEF Setting
<1>5. command # NoCommand /\ command.set > 0 => Setting(command.kind)
  BY <1>1, CommandFacts, SMT DEF Asks, Setting
<1> QED BY <1>3, <1>4, <1>5

(* A request of the command fails: CommissionerApp::Start stops again, and *)
(* what may have been set is in doubt.                                     *)
LEMMA CommandFailsStep == Keeps(CommandFails)
<1> SUFFICES ASSUME AppInv, CommandFails, UNCHANGED fields PROVE AppInv'
  BY DEF Keeps
<1>0. AppTypes /\ MirrorDomain /\ BbrShown /\ \A k \in Kinds : Had(k, mirror[k])
  BY DEF AppInv, AllHad, Domains, BbrFollows
<1>1. command # NoCommand /\ command' = NoCommand
      /\ UNCHANGED <<leader, held, time, unnoticed, notices, cancel>>
  BY DEF CommandFails
<1>2. CASE command.what = "start" /\ active
  BY <1>1, <1>2, StopStep DEF CommandFails
<1>3. CASE ~(command.what = "start" /\ active)
  <2> DEFINE S == IF command.set > 0 THEN {command.kind} \ {"pending"} ELSE {}
  <2>1. Doubtful(S) /\ UNCHANGED <<active, mirror, reads>>
    BY <1>3 DEF CommandFails
  <2>2. command.kind \in Kinds /\ command.set \in Nat
    BY <1>0, <1>1, CommandFacts
  <2>3. S \subseteq Kinds
    BY <2>2
  <2>4. (Setting("active") => "active" \in S) /\ (Setting("bbr") => "bbr" \in S)
    BY DEF Setting
  <2>5. "active" \in S => Setting("active")
    BY <1>1, SettingFacts
  <2> HIDE DEF S
  <2>6. PICK H \in [Nat -> Datas] : RepliesOf(H) /\ Caught(H) /\ Shown(H)
    BY DEF AppInv, History
  <2>7. /\ "active" \in S => newest' = time
        /\ "active" \notin S => newest' = newest
        /\ doubt' = doubt \cup S /\ wiped' = wiped
    BY <2>1 DEF Doubtful
  <2>8. time \in Nat /\ newest \in Nat /\ newest <= time
    BY <1>0, <2>6 DEF AppTypes, RepliesOf
  <2>9. newest' \in 0..time /\ doubt' \subseteq Kinds /\ wiped' \in BOOLEAN
    BY <1>0, <2>3, <2>7, <2>8, SMT DEF AppTypes
  <2>10. active => ~Starting
    BY <1>3, NotStarting
  <2>11. active /\ "bbr" \notin doubt' => \A f \in Hostnames : SameHostname(f)'
    BY <1>0, <1>1, <2>1, <2>4, <2>7, <2>10 DEF BbrShown, SameHostname
  <2>12. active => \A a, b \in 0..time : a >= newest' /\ a < b /\ H[a] # H[b] => Coming(a + 1)
    <3>1. CASE "active" \in S
      BY <2>7, <2>8, <3>1, SMT
    <3>2. CASE "active" \notin S
      BY <2>4, <2>6, <2>7, <2>10, <3>2 DEF Caught, Unread
    <3> QED BY <3>1, <3>2
  <2>13. active /\ "active" \notin doubt' => Coming(0) \/ mirror["active"] = H[newest']
    BY <2>6, <2>7, <2>10 DEF Shown
  <2>14. Return(mirror) /\ mirror \in [Kinds -> Datas]
    BY <1>0, <1>1, <2>1 DEF Return, AppTypes
  <2>15. active /\ ~wiped' => DOMAIN mirror["active"] = fields \ Hostnames
    BY <1>0, <2>7, <2>10 DEF MirrorDomain
  <2> QED BY <1>0, <2>6, <2>9, <2>11, <2>12, <2>13, <2>14, <2>15, ReturnStep DEF MirrorRight
<1> QED BY <1>2, <1>3

-----------------------------------------------------------------------------
(* The newer of two active datasets is kept, and an older one is doubted.  *)
NewerKept(S) ==
    /\ "active" \notin DOMAIN S => newest' = newest /\ ("active" \in doubt' <=> "active" \in doubt)
    /\ "active" \in DOMAIN S =>
          \/ S["active"].at < newest /\ newest' = newest /\ "active" \in doubt'
          \/ S["active"].at >= newest /\ newest' = S["active"].at /\ "active" \notin doubt'
    /\ "bbr" \in doubt' <=> "bbr" \in doubt /\ "bbr" \notin DOMAIN S
    /\ doubt' \subseteq Kinds
    /\ wiped' \in BOOLEAN /\ ("active" \notin DOMAIN S => wiped' = wiped)

(* The active dataset read is assigned.                                    *)
LEMMA AssignedFacts ==
    ASSUME NEW S, Assigned(S), DOMAIN S \subseteq Kinds, AppTypes,
           "active" \in DOMAIN S => S["active"].at \in Nat
    PROVE  NewerKept(S)
<1> USE DEF NewerKept
<1>1. newest \in Nat /\ doubt \subseteq Kinds
  BY DEF AppTypes
<1>2. newest' = IF "active" \in DOMAIN S THEN Latest(newest, S["active"].at) ELSE newest
  BY DEF Assigned
<1>3. doubt' = (doubt \ DOMAIN S) \cup ({"active"} \cap {k \in DOMAIN S : S[k].at < newest})
  BY DEF Assigned
<1>4. doubt' \subseteq Kinds /\ ("bbr" \in doubt' <=> "bbr" \in doubt /\ "bbr" \notin DOMAIN S)
  BY <1>1, <1>3 DEF Kinds
<1>5. wiped' \in BOOLEAN /\ ("active" \notin DOMAIN S => wiped' = wiped)
  BY DEF Assigned, AppTypes
<1>6. CASE "active" \in DOMAIN S
  <2>1. "active" \in doubt' <=> S["active"].at < newest
    BY <1>3, <1>6
  <2>2. newest' = IF newest > S["active"].at THEN newest ELSE S["active"].at
    BY <1>2, <1>6 DEF Latest
  <2>3. \/ S["active"].at < newest /\ newest' = newest
        \/ S["active"].at >= newest /\ ~(S["active"].at < newest) /\ newest' = S["active"].at
    BY <1>1, <1>6, <2>2, SMT
  <2> QED BY <1>4, <1>5, <1>6, <2>1, <2>3
<1>7. CASE "active" \notin DOMAIN S
  BY <1>2, <1>3, <1>4, <1>5, <1>7
<1> QED BY <1>6, <1>7

(* The command has read the active dataset, and perhaps that of the BBR.   *)
AssignsGot(m) ==
    /\ \A k \in Kinds : Had(k, m[k])
    /\ command # NoCommand /\ command.what \in {"read", "start", "sync"}
    /\ "active" \in DOMAIN command.got /\ m["active"] = command.got["active"].data
    /\ Assigned(command.got)
    /\ \/ "bbr" \notin DOMAIN command.got /\ m["bbr"] = mirror["bbr"] /\ ~Starting
       \/ "bbr" \in DOMAIN command.got /\ m["bbr"] = command.got["bbr"].data

(* GetChannel and the like, and SyncNetworkData.                           *)
LEMMA AssignReturnStep ==
    ASSUME AppInv, NEW m \in [Kinds -> Datas], Return(m), UNCHANGED fields, AssignsGot(m)
    PROVE  AppInv'
<1> USE DEF AssignsGot
<1>0. AppTypes /\ Domains /\ BbrFollows
  BY DEF AppInv
<1>1. PICK H \in [Nat -> Datas] : RepliesOf(H) /\ Caught(H) /\ Shown(H)
  BY DEF AppInv, History
<1> DEFINE at == command.got["active"].at
<1>2. /\ DOMAIN command.got \subseteq Kinds
      /\ at \in Nat /\ at <= time /\ command.got["active"].data = H[at]
  BY <1>0, <1>1, CommandFacts, GotFacts DEF RepliesOf, Replies
<1>3. /\ \/ at < newest /\ newest' = newest /\ "active" \in doubt'
         \/ at >= newest /\ newest' = at /\ "active" \notin doubt'
      /\ "bbr" \in doubt' <=> "bbr" \in doubt /\ "bbr" \notin DOMAIN command.got
      /\ doubt' \subseteq Kinds /\ wiped' \in BOOLEAN
  BY <1>0, <1>2, AssignedFacts DEF NewerKept
<1> HIDE DEF at
<1>4. newest \in Nat /\ newest <= time /\ time \in Nat
  BY <1>0, <1>1 DEF AppTypes, RepliesOf
<1>5. newest' \in 0..time /\ newest' >= newest /\ newest' >= at
  BY <1>2, <1>3, <1>4, SMT
<1>6. ~Setting("active") /\ ~Setting("bbr")
  BY DEF Setting
<1>7. DOMAIN m["active"] = fields \ Hostnames
  BY <1>0 DEF Domains
<1>8. active /\ "bbr" \notin doubt' => \A f \in Hostnames : SameHostname(f)'
  <2>1. mirror' = m /\ leader' = leader
    BY DEF Return
  <2>2. CASE "bbr" \notin DOMAIN command.got /\ m["bbr"] = mirror["bbr"] /\ ~Starting
    BY <1>0, <1>3, <1>6, <2>1, <2>2 DEF BbrFollows, BbrShown, SameHostname
  <2>3. CASE "bbr" \in DOMAIN command.got /\ m["bbr"] = command.got["bbr"].data
    BY <1>0, <2>1, <2>3 DEF BbrFollows, SameHostname
  <2> QED BY <2>2, <2>3
<1>9. active => \A a, b \in 0..time : a >= newest' /\ a < b /\ H[a] # H[b] => Coming(a + 1)
  <2> SUFFICES ASSUME active, NEW a \in 0..time, a >= newest'
               PROVE  \A b \in 0..time : a < b /\ H[a] # H[b] => Coming(a + 1)
    OBVIOUS
  <2>1. a >= newest /\ a >= at
    BY <1>2, <1>4, <1>5, SMT
  <2>2. Unread(a)
    BY <2>1 DEF Unread, at
  <2> QED BY <1>1, <1>6, <2>2 DEF Caught
<1>10. active /\ "active" \notin doubt' => Coming(0) \/ m["active"] = H[newest']
  BY <1>2, <1>3
<1> QED BY <1>1, <1>3, <1>5, <1>7, <1>8, <1>9, <1>10, ReturnStep DEF MirrorRight

(* GetChannel and the like assign the active dataset that was read.        *)
LEMMA ReadReturnsStep == Keeps(ReadReturns)
<1> SUFFICES ASSUME AppInv, ReadReturns, UNCHANGED fields PROVE AppInv'
  BY DEF Keeps
<1>0. AppTypes /\ Asks /\ AllHad
  BY DEF AppInv
<1>1. /\ command # NoCommand /\ command.what = "read" /\ DOMAIN command.got # {}
      /\ Assigned(command.got)
      /\ Return([mirror EXCEPT !["active"] = command.got["active"].data])
  BY DEF ReadReturns, Answered, Waiting
<1>2. DOMAIN command.got = {"active"}
  BY <1>0, <1>1 DEF Asks
<1>3. command.got["active"].data \in Datas
  BY <1>0, <1>1, <1>2, CommandFacts, GotFacts DEF Replies
<1> DEFINE d == command.got["active"].data
           m == [mirror EXCEPT !["active"] = d]
<1>4. Had("active", d) /\ \A k \in Kinds : Had(k, mirror[k])
  BY <1>0, <1>1, <1>2 DEF AllHad
<1> HIDE DEF d
<1>5. /\ m \in [Kinds -> Datas] /\ m["active"] = d
      /\ \A k \in Kinds : k # "active" => m[k] = mirror[k]
  BY <1>0, <1>3 DEF AppTypes, Kinds, d
<1> HIDE DEF m
<1>6. \A k \in Kinds : Had(k, m[k])
  BY <1>4, <1>5
<1>7. m["bbr"] = mirror["bbr"] /\ ~Starting
  BY <1>1, <1>5 DEF Kinds, Starting
<1>8. Return(m)
  BY <1>1 DEF m, d
<1> QED BY <1>1, <1>2, <1>5, <1>6, <1>7, <1>8, AssignReturnStep DEF d, AssignsGot

(* SyncNetworkData assigns the three datasets that were read.              *)
LEMMA SyncReturnsStep == Keeps(SyncReturns)
<1> SUFFICES ASSUME AppInv, SyncReturns, UNCHANGED fields PROVE AppInv'
  BY DEF Keeps
<1>0. AppTypes /\ AllHad
  BY DEF AppInv
<1> DEFINE m == [k \in Kinds |-> command.got[k].data]
<1>1. /\ command # NoCommand /\ command.what \in {"start", "sync"} /\ DOMAIN command.got = Kinds
      /\ Assigned(command.got) /\ Return(m)
  BY DEF SyncReturns, Answered, Waiting
<1>2. \A k \in Kinds : command.got[k].data \in Datas
  BY <1>0, <1>1, CommandFacts, GotFacts DEF Replies
<1>3. m \in [Kinds -> Datas] /\ \A k \in Kinds : m[k] = command.got[k].data
  BY <1>2
<1> HIDE DEF m
<1>4. \A k \in Kinds : Had(k, m[k])
  BY <1>0, <1>1, <1>3 DEF AllHad
<1>5. "active" \in Kinds /\ "bbr" \in Kinds
  BY DEF Kinds
<1> QED BY <1>1, <1>3, <1>4, <1>5, AssignReturnStep DEF AssignsGot

(* An answer to one of the reads of OnDatasetChanged.                      *)
LEMMA ReadAnsweredStep == \A r \in reads : Keeps(ReadAnswered(r))
<1> SUFFICES ASSUME NEW r \in reads, AppInv, ReadAnswered(r), UNCHANGED fields PROVE AppInv'
  BY DEF Keeps
<1>0. AppTypes /\ Domains /\ BbrShown /\ AllHad
  BY DEF AppInv, BbrFollows
<1>1. PICK H \in [Nat -> Datas] : RepliesOf(H) /\ Caught(H) /\ Shown(H)
  BY DEF AppInv, History
<1> DEFINE S == [k \in {r.kind} |-> r.got]
<1>2. /\ r.served /\ reads' = reads \ {r} /\ Assigned(S)
      /\ mirror' = [mirror EXCEPT ![r.kind] = r.got.data]
      /\ UNCHANGED <<active, leader, held, time, unnoticed, notices, command>>
  BY DEF ReadAnswered
<1>3. r.kind \in {"active", "pending"} /\ r.got.at \in Nat /\ r.got.data \in Datas
  BY <1>0 DEF AppTypes, ReadRecs, Replies
<1>4. DOMAIN S = {r.kind} /\ S[r.kind] = r.got /\ DOMAIN S \subseteq Kinds
  BY <1>3 DEF Kinds
<1> HIDE DEF S
<1>5. /\ r.kind # "active" => newest' = newest /\ ("active" \in doubt' <=> "active" \in doubt)
      /\ r.kind = "active" =>
            \/ r.got.at < newest /\ newest' = newest /\ "active" \in doubt'
            \/ r.got.at >= newest /\ newest' = r.got.at /\ "active" \notin doubt'
      /\ "bbr" \in doubt' <=> "bbr" \in doubt
      /\ doubt' \subseteq Kinds
      /\ wiped' \in BOOLEAN /\ (r.kind # "active" => wiped' = wiped)
  BY <1>0, <1>2, <1>3, <1>4, AssignedFacts DEF NewerKept
<1>6. /\ mirror' \in [Kinds -> Datas] /\ mirror'[r.kind] = r.got.data
      /\ \A k \in Kinds : k # r.kind => mirror'[k] = mirror[k]
  BY <1>0, <1>2, <1>3 DEF AppTypes, Kinds
<1>7. newest \in Nat /\ newest <= time /\ time \in Nat
  BY <1>0, <1>1, SMT DEF AppTypes, RepliesOf
<1>8. r.kind = "active" => r.got.at <= time /\ r.got.data = H[r.got.at]
  BY <1>1, <1>2 DEF RepliesOf
<1>9. newest' \in 0..time
  BY <1>3, <1>5, <1>7, <1>8, SMT
<1>10. SameAsk /\ command' \in CommandRecs \cup {NoCommand}
  BY <1>0, <1>2, UnchangedAsk DEF AppTypes
<1>11. AppSide
  BY <1>0, <1>2, <1>5, <1>6, <1>9, <1>10 DEF AppSide, AppTypes
<1>12. \A k \in Kinds : Had(k, mirror'[k])
  BY <1>0, <1>6, SMT DEF AllHad
<1>13. MirrorDomain'
  <2>1. r.kind = "active" => DOMAIN mirror'["active"] = fields \ Hostnames
    BY <1>0, <1>2, <1>6, SMT DEF Domains
  <2>2. r.kind # "active" => mirror'["active"] = mirror["active"] /\ wiped' = wiped
    BY <1>5, <1>6 DEF Kinds
  <2>3. MirrorDomain /\ (Starting' <=> Starting)
    BY <1>0, <1>2 DEF Domains, Starting
  <2> QED BY <1>2, <2>1, <2>2, <2>3 DEF MirrorDomain
<1>14. BbrShown'
  <2>1. mirror'["bbr"] = mirror["bbr"]
    BY <1>3, <1>6 DEF Kinds
  <2> QED BY <1>0, <1>2, <1>5, <2>1 DEF BbrShown, SameHostname, Starting, Setting
<1>15. CASE r.kind = "pending"
  <2>1. \A t : Coming(t)' <=> Coming(t)
    BY <1>2, <1>15, SMT DEF Coming
  <2>2. Caught(H)'
    <3>1. \A a : Unread(a)' <=> Unread(a)
      BY <1>2, <1>5, <1>15 DEF Unread, Starting
    <3> QED BY <1>1, <1>2, <2>1, <3>1 DEF Caught, Setting
  <2>3. Shown(H)'
    BY <1>1, <1>2, <1>5, <1>6, <1>15, <2>1 DEF Shown, Starting, Kinds
  <2> QED BY <1>1, <1>11, <1>12, <1>13, <1>14, <2>2, <2>3, AppSideStep
<1>16. CASE r.kind = "active"
  <2>1. newest' >= newest /\ newest' >= r.got.at
    BY <1>3, <1>5, <1>7, <1>16, SMT
  <2>2. Caught(H)'
    <3> SUFFICES ASSUME active', NEW a \in 0..time, NEW b \in 0..time, Unread(a)', a < b, H[a] # H[b]
                 PROVE  (Coming(a + 1) \/ (Setting("active") /\ command.set \in (a + 1)..b))'
      BY <1>2 DEF Caught
    <3>1. a >= newest'
      BY DEF Unread
    <3>2. a >= newest /\ ~(a + 1 <= r.got.at)
      BY <1>3, <1>7, <1>9, <2>1, <3>1, SMT
    <3>3. Unread(a)
      BY <1>2, <3>2 DEF Unread, Starting
    <3>4. Coming(a + 1) \/ (Setting("active") /\ command.set \in (a + 1)..b)
      BY <1>1, <1>2, <3>3 DEF Caught
    <3>5. Coming(a + 1) => Coming(a + 1)'
      BY <1>2, <3>2 DEF Coming
    <3> QED BY <1>2, <3>4, <3>5 DEF Setting
  <2>3. Shown(H)'
    BY <1>2, <1>5, <1>6, <1>8, <1>16 DEF Shown
  <2> QED BY <1>1, <1>11, <1>12, <1>13, <1>14, <2>2, <2>3, AppSideStep
<1> QED BY <1>3, <1>15, <1>16

-----------------------------------------------------------------------------
(* A merge takes the fields of a dataset from the command or from a reply. *)

(* Merging the same dataset twice is merging it once.                      *)
LEMMA OverAgain ==
    ASSUME NEW d \in Datas, NEW e \in Datas
    PROVE  Over(Over(d, e), e) = Over(d, e)
<1> DEFINE o == Over(d, e)
<1>1. /\ o \in Datas /\ DOMAIN o = DOMAIN d \cup DOMAIN e
      /\ \A f \in DOMAIN e : o[f] = e[f]
  BY OverType
<1> HIDE DEF o
<1>2. /\ Over(o, e) \in Datas /\ DOMAIN Over(o, e) = DOMAIN o \cup DOMAIN e
      /\ \A f \in DOMAIN e : Over(o, e)[f] = e[f]
      /\ \A f \in DOMAIN o : f \notin DOMAIN e => Over(o, e)[f] = o[f]
  BY <1>1, OverType
<1>3. Over(o, e) = o
  BY <1>1, <1>2, DataEqual, SMT
<1> QED BY <1>3 DEF o

(* Merging part of a dataset into the dataset changes nothing.             *)
LEMMA OverPart ==
    ASSUME NEW d \in Datas, NEW S \in SUBSET DOMAIN d
    PROVE  Over(d, Restrict(d, S)) = d
<1> DEFINE e == Restrict(d, S)
<1>1. e \in Datas /\ DOMAIN e = S /\ \A f \in S : e[f] = d[f]
  BY RestrictType
<1> HIDE DEF e
<1>2. /\ Over(d, e) \in Datas /\ DOMAIN Over(d, e) = DOMAIN d \cup DOMAIN e
      /\ \A f \in DOMAIN e : Over(d, e)[f] = e[f]
      /\ \A f \in DOMAIN d : f \notin DOMAIN e => Over(d, e)[f] = d[f]
  BY <1>1, OverType
<1>3. Over(d, e) = d
  BY <1>1, <1>2, DataEqual
<1> QED BY <1>3 DEF e

(* The mirror that a merge leaves.                                         *)
LEMMA MergeFacts ==
    ASSUME AppInv, NEW k \in Kinds, NEW data \in Datas, Had(k, data)
    PROVE  LET m == MergeDataset(mirror, k, data)
           IN  /\ m \in [Kinds -> Datas] /\ m[k] = Over(mirror[k], data)
               /\ \A x \in Kinds : x # k => m[x] = mirror[x]
               /\ \A x \in Kinds : Had(x, m[x])
<1> DEFINE o == Over(mirror[k], data)
           m == MergeDataset(mirror, k, data)
<1>0. mirror \in [Kinds -> Datas] /\ \A x \in Kinds : Had(x, mirror[x])
  BY DEF AppInv, AppTypes, AllHad
<1>1. /\ o \in Datas /\ DOMAIN o = DOMAIN mirror[k] \cup DOMAIN data
      /\ \A f \in DOMAIN data : o[f] = data[f]
      /\ \A f \in DOMAIN mirror[k] : f \notin DOMAIN data => o[f] = mirror[k][f]
  <2>1. mirror[k] \in Datas
    BY <1>0
  <2> QED BY <2>1, OverType
<1> HIDE DEF o
<1>2. Had(k, o)
  BY <1>0, <1>1 DEF Had
<1>3. m = [mirror EXCEPT ![k] = o]
  BY DEF MergeDataset, o
<1>4. /\ m \in [Kinds -> Datas] /\ m[k] = o
      /\ \A x \in Kinds : x # k => m[x] = mirror[x]
  BY <1>0, <1>1, <1>3
<1> HIDE DEF m
<1>5. \A x \in Kinds : Had(x, m[x])
  BY <1>0, <1>2, <1>4, SMT
<1> QED BY <1>4, <1>5 DEF m, o

(* A command merges data, of the pending or of the BBR dataset.            *)
OtherMerge(k, data) ==
    /\ Had(k, data) /\ Return(MergeDataset(mirror, k, data)) /\ UNCHANGED <<fields, newest, doubt, wiped>>
    /\ ~Setting("active") /\ command # NoCommand /\ command.what # "start"
    /\ k = "pending" => ~Setting("bbr")
    /\ k = "bbr" => \A f \in Hostnames :
          IF f \in DOMAIN data THEN f \in DOMAIN leader["bbr"] /\ data[f] = leader["bbr"][f]
          ELSE Setting("bbr") => f \notin command.fields

(* A merge of the pending or of the BBR dataset.                           *)
LEMMA MergeOtherStep ==
    ASSUME AppInv, NEW k \in Kinds \ {"active"}, NEW data \in Datas, OtherMerge(k, data)
    PROVE  AppInv'
<1> USE DEF OtherMerge
<1> DEFINE m == MergeDataset(mirror, k, data)
<1>0. AppTypes /\ Domains /\ BbrShown
  BY DEF AppInv, BbrFollows
<1>1. PICK H \in [Nat -> Datas] : RepliesOf(H) /\ Caught(H) /\ Shown(H)
  BY DEF AppInv, History
<1>2. /\ m \in [Kinds -> Datas] /\ m[k] = Over(mirror[k], data)
      /\ \A x \in Kinds : x # k => m[x] = mirror[x]
      /\ \A x \in Kinds : Had(x, m[x])
  BY MergeFacts
<1>3. mirror' = m /\ leader' = leader /\ Return(m)
  BY DEF Return
<1> HIDE DEF m
<1>4. m["active"] = mirror["active"]
  BY <1>2 DEF Kinds
<1>5. active => ~Starting
  BY NotStarting
<1>6. newest' \in 0..time /\ doubt' \subseteq Kinds /\ wiped' \in BOOLEAN
  BY <1>0, <1>1, SMT DEF AppTypes, RepliesOf
<1>7. active /\ ~wiped' => DOMAIN m["active"] = fields \ Hostnames
  BY <1>0, <1>4, <1>5 DEF Domains, MirrorDomain
<1>8. active => \A a, b \in 0..time : a >= newest' /\ a < b /\ H[a] # H[b] => Coming(a + 1)
  BY <1>1, <1>5 DEF Caught, Unread
<1>9. active /\ "active" \notin doubt' => Coming(0) \/ m["active"] = H[newest']
  BY <1>1, <1>4, <1>5 DEF Shown
<1>10. active /\ "bbr" \notin doubt' => \A f \in Hostnames : SameHostname(f)'
  <2>1. SUFFICES ASSUME active, "bbr" \notin doubt, NEW f \in Hostnames PROVE SameHostname(f)'
    OBVIOUS
  <2>2. (Setting("bbr") => f \notin command.fields) => SameHostname(f)
    BY <1>0, <1>5, <2>1 DEF BbrShown
  <2>3. CASE k = "pending"
    <3>1. m["bbr"] = mirror["bbr"]
      BY <1>2, <2>3 DEF Kinds
    <3> QED BY <1>3, <2>2, <2>3, <3>1 DEF SameHostname
  <2>4. CASE k = "bbr"
    <3> DEFINE o == Over(mirror["bbr"], data)
    <3>1. /\ DOMAIN o = DOMAIN mirror["bbr"] \cup DOMAIN data
          /\ \A x \in DOMAIN data : o[x] = data[x]
          /\ \A x \in DOMAIN mirror["bbr"] : x \notin DOMAIN data => o[x] = mirror["bbr"][x]
      <4>1. mirror["bbr"] \in Datas
        BY <1>0, <2>4 DEF AppTypes
      <4> QED BY <4>1, OverType
    <3> HIDE DEF o
    <3>2. mirror'["bbr"] = o
      BY <1>2, <1>3, <2>4 DEF o
    <3>3. CASE f \in DOMAIN data
      BY <1>3, <2>4, <3>1, <3>2, <3>3 DEF SameHostname
    <3>4. CASE f \notin DOMAIN data
      BY <1>3, <2>2, <2>4, <3>1, <3>2, <3>4 DEF SameHostname
    <3> QED BY <3>3, <3>4
  <2> QED BY <2>3, <2>4 DEF Kinds
<1> QED BY <1>1, <1>2, <1>3, <1>6, <1>7, <1>8, <1>9, <1>10, ReturnStep DEF MirrorRight

(* A command merges data, which the active dataset had at time at.         *)
ActiveMerge(data, at, H) ==
    /\ Had("active", data) /\ DOMAIN data \subseteq fields \ Hostnames
    /\ at <= time /\ Merged("active", at)
    /\ Return(MergeDataset(mirror, "active", data)) /\ UNCHANGED fields
    /\ command # NoCommand /\ command.what # "start"
    /\ ~Setting("bbr") /\ (Setting("active") => command.set = at)
    /\ active /\ at >= newest /\ ~Coming(0) /\ mirror["active"] = H[newest] =>
          Over(mirror["active"], data) = H[at]

(* A merge of the active dataset, as it was at time at.                    *)
LEMMA MergeActiveStep ==
    ASSUME AppInv, NEW data \in Datas, NEW at \in Nat,
           NEW H \in [Nat -> Datas], RepliesOf(H), Caught(H), Shown(H), ActiveMerge(data, at, H)
    PROVE  AppInv'
<1> USE DEF ActiveMerge
<1> DEFINE m == MergeDataset(mirror, "active", data)
<1>0. AppTypes /\ Domains /\ BbrShown
  BY DEF AppInv, BbrFollows
<1>1. "active" \in Kinds /\ "bbr" \in Kinds
  BY DEF Kinds
<1>2. /\ m \in [Kinds -> Datas] /\ m["active"] = Over(mirror["active"], data)
      /\ \A x \in Kinds : x # "active" => m[x] = mirror[x]
      /\ \A x \in Kinds : Had(x, m[x])
  BY <1>1, MergeFacts
<1>3. mirror' = m /\ leader' = leader /\ Return(m)
  BY DEF Return
<1> HIDE DEF m
<1>4. newest \in Nat /\ newest <= time /\ time \in Nat
  BY <1>0 DEF AppTypes, RepliesOf
<1>5. /\ newest' = Latest(newest, at)
      /\ doubt' = IF at < newest THEN doubt \cup {"active"} ELSE doubt
  BY DEF Merged
<1>6. \/ at < newest /\ newest' = newest /\ doubt' = doubt \cup {"active"}
      \/ at >= newest /\ newest' = at /\ doubt' = doubt
  BY <1>4, <1>5, SMT DEF Latest
<1>7. newest' \in 0..time /\ newest' >= newest /\ newest' >= at
  BY <1>4, <1>6, SMT
<1>8. active => ~Starting
  BY NotStarting
<1>9. doubt' \subseteq Kinds /\ wiped' = wiped /\ wiped' \in BOOLEAN
  BY <1>0, <1>1, <1>6, SMT DEF AppTypes, Merged
<1>10. active /\ ~wiped' => DOMAIN m["active"] = fields \ Hostnames
  <2>1. DOMAIN Over(mirror["active"], data) = DOMAIN mirror["active"] \cup DOMAIN data
    BY <1>0, <1>1, OverType DEF AppTypes
  <2> QED BY <1>0, <1>2, <1>8, <1>9, <2>1 DEF Domains, MirrorDomain
<1>11. active /\ "bbr" \notin doubt' => \A f \in Hostnames : SameHostname(f)'
  <2>1. m["bbr"] = mirror["bbr"]
    BY <1>1, <1>2
  <2> QED BY <1>0, <1>3, <1>6, <1>8, <2>1 DEF BbrShown, SameHostname
<1>12. active => \A a, b \in 0..time : a >= newest' /\ a < b /\ H[a] # H[b] => Coming(a + 1)
  <2> SUFFICES ASSUME active, NEW a \in 0..time, NEW b \in 0..time, a >= newest', a < b, H[a] # H[b]
               PROVE  Coming(a + 1)
    OBVIOUS
  <2>1. a >= newest /\ at \notin (a + 1)..b
    BY <1>4, <1>7, SMT
  <2>2. Unread(a)
    BY <1>8, <2>1 DEF Unread
  <2> QED BY <2>1, <2>2 DEF Caught
<1>13. active /\ "active" \notin doubt' => Coming(0) \/ m["active"] = H[newest']
  <2> SUFFICES ASSUME active, "active" \notin doubt', ~Coming(0) PROVE m["active"] = H[newest']
    OBVIOUS
  <2>1. at >= newest /\ newest' = at /\ doubt' = doubt
    BY <1>6
  <2>2. mirror["active"] = H[newest]
    BY <1>8, <2>1 DEF Shown
  <2> QED BY <1>2, <2>1, <2>2
<1> QED BY <1>2, <1>3, <1>7, <1>9, <1>10, <1>11, <1>12, <1>13, ReturnStep, SMT DEF MirrorRight

-----------------------------------------------------------------------------
(* Commands that have set or read something merge it.                      *)

(* SetChannelMask and the like merge what the leader has taken.            *)
LEMMA SetReturnsStep == Keeps(SetReturns)
<1> SUFFICES ASSUME AppInv, SetReturns, UNCHANGED fields PROVE AppInv'
  BY DEF Keeps
<1>0. AppTypes /\ Asks /\ AllHad /\ BbrFollows
  BY DEF AppInv
<1> DEFINE k == command.kind
           n == command.set
           data == [f \in command.fields |-> n]
<1>1. /\ command # NoCommand /\ command.what = "set" /\ n > 0
      /\ Merged(k, n) /\ Return(MergeDataset(mirror, k, data))
  BY DEF SetReturns, Answered, Waiting
<1>2. k \in Kinds /\ command.fields \in SUBSET Everything /\ n \in Nat
  BY <1>0, <1>1, CommandFacts
<1>3. data \in Datas /\ DOMAIN data = command.fields /\ \A f \in command.fields : data[f] = n
  <2>1. data \in [command.fields -> Nat]
    BY <1>2
  <2> QED BY <1>2, <2>1, DataIntro
<1>4. Setting(k) /\ \A x : Setting(x) => x = k
  BY <1>1 DEF Setting
<1> HIDE DEF data, k
<1>5. Had(k, data)
  BY <1>0, <1>2, <1>3, <1>4, SMT DEF AllHad, Had
<1>6. CASE k = "active"
  <2>1. PICK H \in [Nat -> Datas] : RepliesOf(H) /\ Caught(H) /\ Shown(H)
    BY DEF AppInv, History
  <2>2. n \in 1..time /\ H[n] = Over(H[n - 1], data)
    BY <1>4, <1>6, <2>1 DEF RepliesOf, data
  <2>3. newest \in Nat /\ time \in Nat /\ n <= time
    BY <1>0, <2>2, SMT DEF AppTypes
  <2>4. ASSUME active, n >= newest, ~Coming(0), mirror["active"] = H[newest]
        PROVE  Over(mirror["active"], data) = H[n]
    <3>1. CASE newest = n
      <4>1. H[n - 1] \in Datas
        BY <2>2, <2>3, SMT
      <4> QED BY <1>3, <2>2, <2>4, <3>1, <4>1, OverAgain
    <3>2. CASE newest # n
      <4>1. n - 1 \in Nat /\ newest <= n - 1 /\ n - 1 <= time /\ n > n - 1
        BY <1>2, <2>2, <2>3, <2>4, <3>2, SMT
      <4>2. ~Starting
        BY <1>1 DEF Starting
      <4>3. H[n - 1] = H[newest]
        BY <2>1, <2>4, <4>1, <4>2, NoNews
      <4> QED BY <2>2, <2>4, <4>3
    <3> QED BY <3>1, <3>2
  <2>5. DOMAIN data \subseteq fields \ Hostnames
    BY <1>0, <1>1, <1>3, <1>6 DEF Asks, k
  <2>6. ~Setting("bbr") /\ (Setting("active") => command.set = n) /\ command.what # "start"
    BY <1>1, <1>4, <1>6
  <2> QED BY <1>1, <1>2, <1>3, <1>5, <1>6, <2>1, <2>3, <2>4, <2>5, <2>6, MergeActiveStep, SMT DEF ActiveMerge
<1>7. CASE k # "active"
  <2>1. UNCHANGED <<newest, doubt, wiped>>
    BY <1>1, <1>7 DEF Merged
  <2>2. k = "bbr" => \A f \in Hostnames :
          IF f \in DOMAIN data THEN f \in DOMAIN leader["bbr"] /\ data[f] = leader["bbr"][f]
          ELSE Setting("bbr") => f \notin command.fields
    BY <1>0, <1>3, <1>4 DEF BbrFollows
  <2>3. ~Setting("active") /\ (k = "pending" => ~Setting("bbr")) /\ command.what # "start"
    BY <1>1, <1>4, <1>7
  <2> QED BY <1>1, <1>2, <1>3, <1>5, <1>7, <2>1, <2>2, <2>3, MergeOtherStep DEF OtherMerge
<1> QED BY <1>6, <1>7

(* GetActiveDataset and the like merge the fields that were asked for.     *)
LEMMA GetReturnsStep == Keeps(GetReturns)
<1> SUFFICES ASSUME AppInv, GetReturns, UNCHANGED fields PROVE AppInv'
  BY DEF Keeps
<1>0. AppTypes /\ Asks /\ AllHad /\ BbrFollows /\ Domains
  BY DEF AppInv
<1> DEFINE k == command.kind
           g == command.got[k]
           S == command.fields \cap DOMAIN g.data
           data == Restrict(g.data, S)
<1>1. /\ command # NoCommand /\ command.what = "get" /\ DOMAIN command.got # {}
      /\ Merged(k, g.at) /\ Return(MergeDataset(mirror, k, data))
  BY DEF GetReturns, Answered, Waiting
<1>2. k \in Kinds /\ k \in DOMAIN command.got
  BY <1>0, <1>1, CommandFacts DEF Asks
<1>3. g.at \in Nat /\ g.data \in Datas
  BY <1>0, <1>1, <1>2, CommandFacts, GotFacts DEF Replies
<1>4. S \in SUBSET DOMAIN g.data
  OBVIOUS
<1>5. Had(k, g.data)
  BY <1>0, <1>1, <1>2 DEF AllHad
<1>6. ~Setting("active") /\ ~Setting("bbr") /\ command.what # "start" /\ ~Starting
  BY <1>1 DEF Setting, Starting
<1>7. /\ k = "bbr" => g.data = leader["bbr"]
      /\ k = "active" => DOMAIN g.data = fields \ Hostnames
  BY <1>0, <1>1, <1>2 DEF BbrFollows, Domains
<1> HIDE DEF k, g, S
<1>8. data \in Datas /\ DOMAIN data = S /\ \A f \in S : data[f] = g.data[f]
  BY <1>3, <1>4, RestrictType
<1>9. Had(k, data)
  BY <1>4, <1>5, <1>8, SMT DEF Had
<1>10. CASE k = "active"
  <2>1. PICK H \in [Nat -> Datas] : RepliesOf(H) /\ Caught(H) /\ Shown(H)
    BY DEF AppInv, History
  <2>2. g.at <= time /\ g.data = H[g.at]
    BY <1>1, <1>2, <1>10, <2>1 DEF RepliesOf, g
  <2>3. ASSUME active, g.at >= newest, ~Coming(0), mirror["active"] = H[newest]
        PROVE  Over(mirror["active"], data) = H[g.at]
    <3>1. newest <= g.at
      BY <1>0, <1>3, <2>3 DEF AppTypes
    <3>2. H[g.at] = H[newest]
      BY <1>3, <1>6, <2>1, <2>2, <2>3, <3>1, NoNews
    <3> QED BY <1>3, <1>4, <2>2, <2>3, <3>2, OverPart
  <2>4. DOMAIN data \subseteq fields \ Hostnames
    BY <1>4, <1>7, <1>8, <1>10
  <2> HIDE DEF data
  <2> QED BY <1>1, <1>3, <1>6, <1>8, <1>9, <1>10, <2>1, <2>2, <2>3, <2>4, MergeActiveStep, SMT DEF ActiveMerge
<1>11. CASE k # "active"
  <2>1. UNCHANGED <<newest, doubt, wiped>>
    BY <1>1, <1>11 DEF Merged
  <2>2. k = "bbr" => \A f \in Hostnames :
          IF f \in DOMAIN data THEN f \in DOMAIN leader["bbr"] /\ data[f] = leader["bbr"][f]
          ELSE Setting("bbr") => f \notin command.fields
    BY <1>4, <1>6, <1>7, <1>8
  <2> HIDE DEF data
  <2> QED BY <1>1, <1>2, <1>6, <1>8, <1>9, <1>11, <2>1, <2>2, MergeOtherStep DEF OtherMerge
<1> QED BY <1>10, <1>11

(* SetRegistrarHostname merges the hostname with the address that the      *)
(* leader found, or keeps the old.                                         *)
LEMMA HostnameReturnsStep == Keeps(HostnameReturns)
<1> SUFFICES ASSUME AppInv, HostnameReturns, UNCHANGED fields PROVE AppInv'
  BY DEF Keeps
<1>0. AppTypes /\ Asks /\ AllHad /\ BbrFollows /\ Domains
  BY DEF AppInv
<1> DEFINE got == command.got["bbr"].data
           given == [f \in command.fields |-> command.set]
           S == {"RegistrarIpv6Addr"} \cap DOMAIN got
           data == Over(given, Restrict(got, S))
<1>1. /\ command # NoCommand /\ command.what = "hostname" /\ DOMAIN command.got # {}
      /\ IF "RegistrarIpv6Addr" \in DOMAIN got
         THEN Merged("bbr", command.set) /\ Return(MergeDataset(mirror, "bbr", data))
         ELSE Doubtful({"bbr"}) /\ Return(mirror)
  BY DEF HostnameReturns, Answered, Waiting
<1>2. /\ command.kind = "bbr" /\ "bbr" \in DOMAIN command.got /\ command.set # 0
      /\ command.set \in Nat /\ command.fields \in SUBSET Everything /\ command.got \in Gots
  BY <1>0, <1>1, CommandFacts, SMT DEF Asks
<1>3. got \in Datas /\ Had("bbr", got) /\ got = leader["bbr"]
  BY <1>0, <1>1, <1>2, GotFacts DEF Replies, AllHad, BbrFollows
<1>4. Setting("bbr") /\ ~Setting("active") /\ ~Setting("pending") /\ command.what # "start"
  BY <1>1, <1>2, SMT DEF Setting
<1>5. "bbr" \in Kinds \ {"active"}
  BY DEF Kinds
<1>6. /\ given \in Datas /\ DOMAIN given = command.fields
      /\ \A f \in command.fields : given[f] = command.set
  <2>1. given \in [command.fields -> Nat]
    BY <1>2
  <2> QED BY <1>2, <2>1, DataIntro
<1>7. \A f \in command.fields : <<f, command.set>> \in held["bbr"]
  BY <1>0, <1>4, <1>5 DEF AllHad
<1>8. CASE "RegistrarIpv6Addr" \in DOMAIN got
  <2> DEFINE e == Restrict(got, S)
  <2>0. Merged("bbr", command.set) /\ Return(MergeDataset(mirror, "bbr", Over(given, e)))
    BY <1>1, <1>8
  <2>1. S \in SUBSET DOMAIN got /\ S \cap Hostnames = {}
    BY DEF Hostnames
  <2> HIDE DEF S, got, given
  <2>2. e \in Datas /\ DOMAIN e = S /\ \A f \in S : e[f] = got[f]
    BY <1>3, <2>1, RestrictType
  <2> DEFINE o == Over(given, e)
  <2> HIDE DEF e
  <2>3. /\ o \in Datas /\ DOMAIN o = command.fields \cup S
        /\ \A f \in S : o[f] = got[f]
        /\ \A f \in command.fields : f \notin S => o[f] = command.set
    <3>1. /\ o \in Datas /\ DOMAIN o = DOMAIN given \cup DOMAIN e
          /\ \A f \in DOMAIN e : o[f] = e[f]
          /\ \A f \in DOMAIN given : f \notin DOMAIN e => o[f] = given[f]
      BY <1>6, <2>2, OverType
    <3> QED BY <1>6, <2>2, <3>1
  <2> HIDE DEF o
  <2>4. Had("bbr", o)
    BY <1>3, <1>7, <2>1, <2>3 DEF Had
  <2>5. \A f \in Hostnames :
          IF f \in DOMAIN o THEN f \in DOMAIN leader["bbr"] /\ o[f] = leader["bbr"][f]
          ELSE Setting("bbr") => f \notin command.fields
    BY <1>0, <1>4, <2>1, <2>3 DEF BbrFollows
  <2>6. UNCHANGED <<newest, doubt, wiped>> /\ Return(MergeDataset(mirror, "bbr", o))
    BY <2>0 DEF Merged, o
  <2> QED BY <1>1, <1>4, <1>5, <2>3, <2>4, <2>5, <2>6, MergeOtherStep, SMT DEF OtherMerge
<1>9. CASE "RegistrarIpv6Addr" \notin DOMAIN got
  <2>1. Doubtful({"bbr"}) /\ Return(mirror)
    BY <1>1, <1>9
  <2>2. PICK H \in [Nat -> Datas] : RepliesOf(H) /\ Caught(H) /\ Shown(H)
    BY DEF AppInv, History
  <2>3. newest' = newest /\ doubt' = doubt \cup {"bbr"} /\ wiped' = wiped
    BY <2>1 DEF Doubtful
  <2>4. newest' \in 0..time /\ doubt' \subseteq Kinds /\ wiped' \in BOOLEAN
    BY <1>0, <1>5, <2>2, <2>3, SMT DEF AppTypes, RepliesOf
  <2>5. ~Starting
    BY <1>1 DEF Starting
  <2>6. active /\ ~wiped' => DOMAIN mirror["active"] = fields \ Hostnames
    BY <1>0, <2>3, <2>5 DEF Domains, MirrorDomain
  <2>7. active => \A a, b \in 0..time : a >= newest' /\ a < b /\ H[a] # H[b] => Coming(a + 1)
    BY <1>4, <2>2, <2>3, <2>5 DEF Caught, Unread
  <2>8. active /\ "active" \notin doubt' => Coming(0) \/ mirror["active"] = H[newest']
    BY <2>2, <2>3, <2>5 DEF Shown
  <2>9. mirror \in [Kinds -> Datas] /\ \A x \in Kinds : Had(x, mirror[x])
    BY <1>0 DEF AppTypes, AllHad
  <2> QED BY <2>1, <2>2, <2>3, <2>4, <2>6, <2>7, <2>8, <2>9, ReturnStep, SMT DEF MirrorRight
<1> QED BY <1>8, <1>9

-----------------------------------------------------------------------------
(* The commands of the application: each asks for fields of its dataset.   *)
LEMMA ActiveStep ==
    ASSUME AppInv, NEW what \in {"set", "hostname", "get", "read", "sync"}, NEW kind \in Kinds,
           NEW F \in SUBSET (IF kind = "bbr" THEN Hostnames ELSE fields \ Hostnames),
           Active(what, kind, F), UNCHANGED fields,
           what = "hostname" => kind = "bbr", what = "read" => kind = "active"
    PROVE  AppInv'
<1>1. what \in Whats \ {"start"} /\ what # "petition" /\ Command(what, kind, F)
  BY DEF Whats, Active
<1> QED BY <1>1, NewCommandStep

(* SetChannelMask and the like ask for one field.                          *)
LEMMA SetFieldStep ==
    ASSUME AppInv, NEW kind \in Kinds, NEW f, SetField(kind, f), UNCHANGED fields,
           IF kind = "bbr" THEN f \in Hostnames ELSE f \notin Hostnames
    PROVE  AppInv'
<1>1. Active("set", kind, {f}) /\ f \in fields
  BY DEF SetField
<1>2. {f} \in SUBSET (IF kind = "bbr" THEN Hostnames ELSE fields \ Hostnames)
  BY <1>1
<1> QED BY <1>1, <1>2, ActiveStep

(* Every command of the application.                                       *)
LEMMA CommandsStep == Keeps(Commands)
<1> SUFFICES ASSUME AppInv, Commands, UNCHANGED fields PROVE AppInv'
  BY DEF Keeps
<1>1. "active" \in Kinds /\ "pending" \in Kinds /\ "bbr" \in Kinds
  BY DEF Kinds
<1>2. /\ \A f \in SetNow \cup SetLater : f \notin Hostnames
      /\ "TriHostname" \in Hostnames /\ "RegistrarHostname" \in Hostnames
  BY DEF SetNow, SetLater, Hostnames
<1>3. CASE SetChannelMask \/ SetExtendedPanId \/ SetNetworkName \/ SetPSKc \/ SetSecurityPolicy
  <2>1. PICK f \in SetNow : SetField("active", f)
    BY <1>3 DEF SetChannelMask, SetExtendedPanId, SetNetworkName, SetPSKc, SetSecurityPolicy, SetNow
  <2> QED BY <1>1, <1>2, <2>1, SetFieldStep
<1>4. CASE SetChannel \/ SetMeshLocalPrefix \/ SetNetworkMasterKey \/ SetPanId
  <2>1. PICK f \in SetLater : SetField("pending", f)
    BY <1>4 DEF SetChannel, SetMeshLocalPrefix, SetNetworkMasterKey, SetPanId, SetLater
  <2> QED BY <1>1, <1>2, <2>1, SetFieldStep
<1>5. CASE GetChannel \/ GetMeshLocalPrefix \/ GetNetworkMasterKey \/ GetPanId
  <2>1. Active("read", "active", {})
    BY <1>5 DEF GetChannel, GetMeshLocalPrefix, GetNetworkMasterKey, GetPanId
  <2> QED BY <1>1, <2>1, ActiveStep
<1>6. CASE SetTriHostname
  <2>1. SetField("bbr", "TriHostname")
    BY <1>6 DEF SetTriHostname
  <2> QED BY <1>1, <1>2, <2>1, SetFieldStep
<1>7. CASE SetRegistrarHostname
  <2>1. Active("hostname", "bbr", {"RegistrarHostname"})
    BY <1>7 DEF SetRegistrarHostname
  <2> QED BY <1>1, <1>2, <2>1, ActiveStep, SMT
<1>8. CASE SyncNetworkData
  <2>1. Active("sync", "active", {})
    BY <1>8 DEF SyncNetworkData
  <2> QED BY <1>1, <2>1, ActiveStep
<1>9. CASE SetActiveDataset(fields \cap SetNow)
  <2>1. Active("set", "active", fields \cap SetNow)
    BY <1>9 DEF SetActiveDataset
  <2>2. fields \cap SetNow \in SUBSET (fields \ Hostnames)
    BY <1>2
  <2> QED BY <1>1, <2>1, <2>2, ActiveStep
<1>10. CASE GetActiveDataset(fields \cap SetLater) \/ GetPendingDataset(fields \cap SetLater)
  <2>1. PICK kind \in {"active", "pending"} : Active("get", kind, fields \cap SetLater)
    BY <1>10 DEF GetActiveDataset, GetPendingDataset
  <2>2. fields \cap SetLater \in SUBSET (fields \ Hostnames)
    BY <1>2
  <2> QED BY <1>1, <2>1, <2>2, ActiveStep
<1>11. CASE SetPendingDataset(fields \ Hostnames)
  <2>1. Active("set", "pending", fields \ Hostnames)
    BY <1>11 DEF SetPendingDataset
  <2> QED BY <1>1, <2>1, ActiveStep
<1>12. CASE SetBbrDataset(fields \cap Hostnames) \/ GetBbrDataset(fields \cap Hostnames)
  <2>1. PICK what \in {"set", "get"} : Active(what, "bbr", fields \cap Hostnames)
    BY <1>12 DEF SetBbrDataset, GetBbrDataset
  <2>2. fields \cap Hostnames \in SUBSET Hostnames
    OBVIOUS
  <2> QED BY <1>1, <2>1, <2>2, ActiveStep
<1>13. CASE Start \/ ProcessStop
  <2>1. CASE ~active /\ Command("petition", "active", {})
    <3>1. "petition" \in Whats \ {"start"}
      BY DEF Whats
    <3> QED BY <1>1, <2>1, <3>1, NewCommandStep
  <2>2. CASE Stop /\ command = NoCommand /\ UNCHANGED <<leader, held, time, unnoticed, notices, command>>
    BY <2>2, StopStep
  <2> QED BY <1>13, <2>1, <2>2 DEF Start, ProcessStop
<1> QED BY <1>3, <1>4, <1>5, <1>6, <1>7, <1>8, <1>9, <1>10, <1>11, <1>12, <1>13 DEF Commands

(* Every step of the application, the leader and the network keeps the     *)
(* invariant.                                                              *)
LEMMA AppNextInv == AppInv /\ [Next /\ UNCHANGED fields]_vars => AppInv'
<1> SUFFICES ASSUME AppInv, [Next /\ UNCHANGED fields]_vars PROVE AppInv'
  OBVIOUS
<1>1. CASE UNCHANGED vars
  BY <1>1, AppStutters
<1>2. CASE Next /\ UNCHANGED fields
  <2>1. CASE Commands
    BY <1>2, <2>1, CommandsStep DEF Keeps
  <2>2. CASE PetitionAccepted
    BY <1>2, <2>2, PetitionAcceptedStep DEF Keeps
  <2>3. CASE LeaderApplies
    BY <1>2, <2>3, LeaderAppliesStep DEF Keeps
  <2>4. CASE LeaderAnswers
    BY <1>2, <2>4, LeaderAnswersStep DEF Keeps
  <2>5. CASE LeaderChanges
    BY <1>2, <2>5, LeaderChangesStep DEF Keeps
  <2>6. CASE Returns
    BY <1>2, <2>6, SetReturnsStep, HostnameReturnsStep, GetReturnsStep, ReadReturnsStep,
       SyncReturnsStep, CommandFailsStep DEF Returns, Keeps
  <2>7. CASE OnDatasetChanged
    BY <1>2, <2>7, OnDatasetChangedStep DEF Keeps
  <2>8. CASE NoticeLost
    BY <1>2, <2>8, NoticeLostStep DEF Keeps
  <2>9. CASE \E r \in reads : LeaderAnswersRead(r) \/ ReadAnswered(r) \/ ReadFails(r)
    BY <1>2, <2>9, LeaderAnswersReadStep, ReadAnsweredStep, ReadFailsStep DEF Keeps
  <2>10. CASE SessionLost \/ CancelResigns
    BY <1>2, <2>10, SessionLostStep DEF Keeps
  <2>11. CASE CancelCommand
    BY <1>2, <2>11, CancelCommandStep DEF Keeps
  <2>12. CASE CancelClears
    BY <1>2, <2>12, CancelClearsStep DEF Keeps
  <2> QED BY <1>2, <2>1, <2>2, <2>3, <2>4, <2>5, <2>6, <2>7, <2>8, <2>9, <2>10, <2>11, <2>12 DEF Next
<1> QED BY <1>1, <1>2

(* The invariant of the application, in every behaviour.                   *)
LEMMA AppInvariant == Spec => []AppInv
<1>1. Init => AppInv
  BY AppInitInv
<1>2. AppInv /\ [Next /\ UNCHANGED fields]_vars => AppInv'
  BY AppNextInv
<1> QED BY <1>1, <1>2, PTL DEF Spec

(* Whatever is lost, cancelled or overtaken by a newer answer, no mirror   *)
(* of CommissionerApp ever shows a value that the leader has not had.      *)
THEOREM ShowsNothingInvented == Spec => []NothingInvented
<1> QED BY InventsNothing, AppInvariant, PTL

(* At the prompt of an active commissioner mActiveDataset has the fields   *)
(* of the leader's, as GetActiveTimestamp asserts: CommissionerApp::Start  *)
(* has read it, or has stopped again, whichever of its requests failed.    *)
(* The one exception: the Stop of a Ctrl-C that was pressed before the     *)
(* commissioner was active clears the mirrors after a later petition was   *)
(* accepted, and the active dataset was not read again since.              *)
THEOREM SyncedAtThePrompt == Spec => []PromptIsSynced
<1> QED BY PromptSynced, AppInvariant, PTL

(* Once nothing is outstanding, what CommissionerApp shows of the active   *)
(* dataset and of the hostnames of the BBR dataset is what the leader has, *)
(* unless, and no newer answer to a read has come since, an answer was     *)
(* lost or cancelled, or used after a newer one, a notice of the leader    *)
(* was lost, the address of a registrar was not found, or a Ctrl-C before  *)
(* the commissioner was active cleared the mirrors once it was.            *)
THEOREM ShowsWhatTheLeaderHas == Spec => []MirrorFollows
<1> QED BY QuietFollows, AppInvariant, PTL
===========================================================================
