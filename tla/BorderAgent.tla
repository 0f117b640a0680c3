---------------------------- MODULE BorderAgent ----------------------------
(***************************************************************************)
(* Discovery of border agents by mDNS (app/border_agent.cpp).  The query   *)
(* has been sent; responses come at any time, each with records that       *)
(* describe one service, wholly or in part, and are received one by one.   *)
(*                                                                         *)
(* An agent is a function from the names of its fields that are present to *)
(* their values; strings and 32- and 64-bit numbers are sequences of bytes.*)
(***************************************************************************)
EXTENDS NetworkData

CONSTANTS
    RecordInputs,   \* records [type, value]; the value of a TXT record is a
                    \* sequence of <<key, value>>
    MaxRecords,     \* bound on the records of all responses
    MaxPolls        \* bound on the polls before the timeout

Port == 0..65535

\* "addr" and "port" name fields that other records fill in, not keys.
TxtEntries == (STRING \ {"addr", "port"}) \X Seq(Byte)

ASSUME DiscoveryAssumption ==
    /\ MaxRecords \in Nat /\ MaxPolls \in Nat
    /\ \A r \in RecordInputs :
        /\ r.type = "SRV" => r.value \in Port
        /\ r.type = "A" => r.value \in Seq(Byte)
        /\ r.type = "TXT" => r.value \in Seq(TxtEntries)

VARIABLES
    socket,   \* the response that waits to be received
    told      \* what aBorderAgentHandler was called with, and for which response

agentVars == <<socket, told>>

TextKeys == {"tv", "nn", "vn", "mn", "vd", "dn"}
LengthOf == [dd |-> 8, sb |-> 4, xp |-> 8, at |-> 8, pt |-> 4, vo |-> 3, sq |-> 1, bb |-> 2]

(* Entries of other keys are skipped.                                      *)
IsGood(entry) ==
    /\ entry[1] = "rv" => entry[2] = <<49>>
    /\ entry[1] \in DOMAIN LengthOf => Len(entry[2]) = LengthOf[entry[1]]

State(bitmap) ==
    [mConnectionMode |-> bitmap[4] % 8, mThreadIfStatus |-> (bitmap[4] \div 8) % 4,
     mAvailability |-> (bitmap[4] \div 32) % 4, mBbrIsActive |-> bitmap[4] \div 128,
     mBbrIsPrimary |-> bitmap[3] % 2]

WithEntry(agent, entry) ==
    LET key == entry[1]
        v == entry[2]
    IN  IF key \notin TextKeys \cup DOMAIN LengthOf THEN agent
        ELSE Override(agent, [f \in {key} |->
                 CASE key = "sb" -> State(v)
                   [] key = "at" -> DecodeTimestamp(v)
                   [] key = "sq" -> v[1]
                   [] key = "bb" -> v[1] * 256 + v[2]
                   [] OTHER -> v])

WithEntries(agent, entries) ==
    LET upTo[k \in 0..Len(entries)] == IF k = 0 THEN agent ELSE WithEntry(upTo[k - 1], entries[k])
    IN  upTo[Len(entries)]

Nobody == [agent |-> EmptyDataset, error |-> "none"]

(* A bad entry ends its TXT record; the error stays.                       *)
HandleRecord(msg, r) ==
    CASE r.type = "SRV" -> [msg EXCEPT !.agent = Override(@, [port |-> r.value])]
      [] r.type = "A" -> [msg EXCEPT !.agent = Override(@, [addr |-> r.value])]
      [] r.type = "TXT" ->
            LET bad == {i \in DOMAIN r.value : ~IsGood(r.value[i])}
                good == IF bad = {} THEN r.value
                        ELSE SubSeq(r.value, 1, (CHOOSE i \in bad : \A k \in bad : i <= k) - 1)
            IN  [agent |-> WithEntries(msg.agent, good),
                 error |-> IF bad = {} THEN msg.error ELSE "bad"]
      [] OTHER -> msg

HandleRecords(msg, records) ==
    LET upTo[k \in 0..Len(records)] == IF k = 0 THEN msg ELSE HandleRecord(upTo[k - 1], records[k])
    IN  upTo[Len(records)]

(* Mutant: one BorderAgentOrErrorMsg for all responses.                    *)
QueryRecvInto(records) ==
    HandleRecords(IF told = <<>> THEN Nobody ELSE told[Len(told)].msg, records)

(* mdns_query_recv fills in a new BorderAgentOrErrorMsg.                   *)
QueryRecv(records) == HandleRecords(Nobody, records)

AgentInit == socket = <<>> /\ told = <<>>

Responds(r) ==
    /\ Len(socket) + Len(Concat([i \in DOMAIN told |-> told[i].response])) < MaxRecords
    /\ socket' = Append(socket, r)
    /\ UNCHANGED told

(* One turn of the loop in DiscoverBorderAgent, every 100 ms until the     *)
(* timeout; also if nothing has come the handler is told of an incomplete  *)
(* service.                                                                *)
Poll ==
    LET msg == QueryRecv(socket)
        error == IF msg.error # "none" THEN msg.error
                 ELSE IF {"addr", "port"} \subseteq DOMAIN msg.agent THEN "none" ELSE "incomplete"
    IN  /\ Len(told) < MaxPolls
        /\ told' = Append(told, [response |-> socket, msg |-> msg, error |-> error])
        /\ socket' = <<>>

AgentNext == (\E r \in RecordInputs : Responds(r)) \/ Poll

AgentSpec == AgentInit /\ [][AgentNext]_agentVars

-----------------------------------------------------------------------------
(* What a response says, as a sequence of <<key, value>>.                  *)
Said(response) ==
    Concat([i \in DOMAIN response |->
        LET r == response[i]
        IN  CASE r.type = "SRV" -> <<<<"port", r.value>>>>
              [] r.type = "A" -> <<<<"addr", r.value>>>>
              [] r.type = "TXT" -> r.value
              [] OTHER -> <<>>])

Encodes(key, v, raw) ==
    CASE key = "sb" -> /\ raw[4] = v.mConnectionMode + 8 * v.mThreadIfStatus
                                    + 32 * v.mAvailability + 128 * v.mBbrIsActive
                       /\ raw[3] % 2 = v.mBbrIsPrimary
      [] key = "at" -> EncodeTimestamp(v) = raw
      [] key = "sq" -> <<v>> = raw
      [] key = "bb" -> Uint16(v) = raw
      [] OTHER -> v = raw

(* An agent that the user is told of is the one that a single response     *)
(* described: it has every field of that response, as said last, and none  *)
(* of another response; and the user is told of it exactly if the response *)
(* has an address and a port and nothing in it is malformed.               *)
AgentIsAsSaid ==
    \A i \in DOMAIN told :
        LET said == Said(told[i].response)
            agent == told[i].msg.agent
            keys == {said[k][1] : k \in DOMAIN said}
        IN  /\ (told[i].error = "none") =
                   ({"addr", "port"} \subseteq keys /\ \A k \in DOMAIN said : IsGood(said[k]))
            /\ told[i].error = "none" =>
                /\ DOMAIN agent = keys \cap (TextKeys \cup DOMAIN LengthOf \cup {"addr", "port"})
                /\ \A f \in DOMAIN agent :
                    \E k \in DOMAIN said :
                        /\ said[k][1] = f /\ Encodes(f, agent[f], said[k][2])
                        /\ \A j \in k + 1..Len(said) : said[j][1] # f
=============================================================================
