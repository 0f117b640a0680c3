---------------------------- MODULE CoapMessage ----------------------------
(***************************************************************************)
(* coap::Message (library/coap.cpp): how a message is put together, turned *)
(* into a datagram and read back.  A byte is a number, a string the        *)
(* sequence of its characters' codes; message.options maps the number of   *)
(* each option that is present to its value.                               *)
(*                                                                         *)
(* The state is a message that is being built, and a datagram that arrives *)
(* from the network piece by piece; Serialize and Deserialize are operators. *)
(* VerifyOrDie, which ends the process, is the error "abort".              *)
(***************************************************************************)
EXTENDS Naturals, Sequences, SequencesExt

CONSTANTS
    Headers,       \* what the type, the code and the message id may be
    Tokens,
    OptionInputs,  \* <<number, value>> that are appended as they are
    UriPaths,      \* strings that are given to SetUriPath
    Payloads,
    Heads,         \* bytes that a datagram begins with
    Chunks,        \* bytes that follow
    MaxBuild,      \* bound on the calls that build a message
    MaxBytes       \* bound on the length of a datagram

ASSUME MessageAssumption ==
    /\ \A c \in Heads \cup Chunks : \A i \in DOMAIN c : c[i] \in 0..255
    /\ MaxBuild \in Nat /\ MaxBytes \in Nat

VARIABLES
    message,   \* mHeader, mOptions and mPayload
    calls,     \* number of calls that have built it
    datagram   \* what has arrived

messageVars == <<message, calls, datagram>>

kUriPath == 11
kPayloadMarker == 255
kMaxTokenLength == 8
kOption1ByteExtensionOffset == 13
kOption2ByteExtensionOffset == 269

Slash == 47
Percent == 37
Space == 32

NoOptions == [n \in {} |-> <<>>]

-----------------------------------------------------------------------------
(* Options.                                                                *)

(* Options the code knows, in ascending order, as the keys of a map.       *)
OptionTypes == <<1, 3, 4, 5, 7, 8, 11, 12, 14, 15, 17, 20, 35, 39, 60>>

IsValidOption(number, value) ==
    LET n == Len(value)
    IN  \/ number \in {8, 11, 15, 20} /\ n <= 255
        \/ number \in {3, 39} /\ n \in 1..255
        \/ number = 35 /\ n \in 1..1034
        \/ number = 1 /\ n <= 8
        \/ number = 4 /\ n \in 1..8
        \/ number = 5 /\ n = 0
        \/ number \in {7, 12, 17} /\ n <= 2
        \/ number \in {14, 60} /\ n <= 4

IsCriticalOption(number) == number \in {1, 3, 5, 7, 11, 15, 17, 35, 39}

(* The half byte and the further bytes for an option delta or length n.    *)
Nibble(n) ==
    IF n < kOption1ByteExtensionOffset THEN n
    ELSE IF n < kOption2ByteExtensionOffset THEN 13 ELSE 14

Extension(n) ==
    IF n < kOption1ByteExtensionOffset THEN <<>>
    ELSE IF n < kOption2ByteExtensionOffset THEN <<n - kOption1ByteExtensionOffset>>
    ELSE LET m == n - kOption2ByteExtensionOffset IN <<m \div 256, m % 256>>

(* The bytes that the code makes room for.  The thresholds are those of    *)
(* the half byte, 13 and 14, which is right when a half byte is read.      *)
ExtensionSize(n) == IF n < 13 THEN 0 ELSE IF n < 14 THEN 1 ELSE 2

(* Mutant: the number of an option is written, not its delta.              *)
SerializeOptionNumber(number, value, last) ==
    LET first == <<Nibble(number) * 16 + Nibble(Len(value))>>
        header == first \o Extension(number) \o Extension(Len(value))
    IN  [error |-> IF ~IsValidOption(number, value) THEN "invalid" ELSE "none",
         buf |-> header \o value]

SerializeOption(number, value, last) ==
    LET delta == number - last
        first == <<Nibble(delta) * 16 + Nibble(Len(value))>>
        header == first \o Extension(delta) \o Extension(Len(value))
    IN  [error |-> IF ~IsValidOption(number, value) THEN "invalid"
                   ELSE IF Len(header) # 1 + ExtensionSize(delta) + ExtensionSize(Len(value))
                   THEN "abort" ELSE "none",
         buf |-> header \o value]

(* The number for the half byte n whose further bytes begin at buf[at];    *)
(* 16 bits wide.                                                           *)
Extended(n, buf, at) ==
    CASE n < 13 -> n
      [] n = 13 -> kOption1ByteExtensionOffset + buf[at]
      [] n = 14 -> (kOption2ByteExtensionOffset + buf[at] * 256 + buf[at + 1]) % 65536

BadOption == [error |-> "bad"]

DeserializeOption(buf, at) ==
    LET d == buf[at] \div 16
        l == buf[at] % 16
        extend == at + 1 + ExtensionSize(d)
        begin == extend + ExtensionSize(l)
    IN  IF begin - 1 > Len(buf) \/ d = 15 \/ l = 15 THEN BadOption
        ELSE LET end == begin - 1 + Extended(l, buf, extend)
             IN  IF end > Len(buf) THEN BadOption
                 ELSE [error |-> "none", delta |-> Extended(d, buf, at + 1),
                       value |-> SubSeq(buf, begin, end), next |-> end + 1]

-----------------------------------------------------------------------------
(* URI paths.                                                              *)

IsXdigit(c) == c \in 48..57 \cup 65..70 \cup 97..102

(* The letters count from 0, not from 10.                                  *)
Xdigit(c) == IF c \in 65..70 THEN c - 65 ELSE IF c \in 97..102 THEN c - 97 ELSE c - 48

BadPath == [error |-> "invalid", path |-> <<>>]
GoodPath(p) == [error |-> "none", path |-> p]

FirstOf(S) == CHOOSE i \in S : \A j \in S : i <= j

(* The percent-decoding of s from the character after `from` on.           *)
PercentDecode(s, from) ==
    LET Prepend(p, r) == IF r.error = "none" THEN GoodPath(p \o r.path) ELSE r
        Decode[begin \in Nat] ==
            LET signs == {i \in begin..Len(s) : s[i] = Percent}
                pos == FirstOf(signs)
            IN  IF signs = {} THEN GoodPath(SubSeq(s, begin, Len(s)))
                ELSE IF pos + 2 > Len(s) THEN BadPath
                ELSE IF ~IsXdigit(s[pos + 1]) \/ ~IsXdigit(s[pos + 2]) THEN BadPath
                ELSE Prepend(SubSeq(s, begin, pos - 1)
                                 \o <<Xdigit(s[pos + 1]) * 16 + Xdigit(s[pos + 2])>>,
                             Decode[pos + 3])
    IN  IF from >= Len(s) THEN GoodPath(s)
        ELSE Prepend(SubSeq(s, 1, from), Decode[from + 1])

(* Mutant: a slash is put before every path.                               *)
NormalizeUriPathTwice(s) ==
    LET kept == {i \in 1..Len(s) : s[i] # Space}
        first == FirstOf(kept)
        last == CHOOSE i \in kept : \A j \in kept : i >= j
        stripped == IF kept = {} THEN <<>> ELSE SubSeq(s, first, last)
    IN  PercentDecode(<<Slash>> \o stripped, IF kept = {} THEN Len(s) ELSE first - 1)

(* Spaces are stripped at both ends.  The search for percent signs begins  *)
(* at the index of the first other character of the string as it was.      *)
NormalizeUriPath(s) ==
    LET kept == {i \in 1..Len(s) : s[i] # Space}
        first == FirstOf(kept)
        last == CHOOSE i \in kept : \A j \in kept : i >= j
        stripped == IF kept = {} THEN <<>> ELSE SubSeq(s, first, last)
        absolute == IF stripped # <<>> /\ stripped[1] = Slash
                    THEN stripped ELSE <<Slash>> \o stripped
    IN  PercentDecode(absolute, IF kept = {} THEN Len(s) ELSE first - 1)

(* The segments between slashes that are not empty.                        *)
SplitUriPath(uri) ==
    LET Segments[begin \in 1..Len(uri) + 1] ==
            LET slashes == {i \in begin..Len(uri) : uri[i] = Slash}
                pos == FirstOf(slashes)
                end == IF slashes = {} THEN Len(uri) ELSE pos - 1
                segment == IF end >= begin THEN <<SubSeq(uri, begin, end)>> ELSE <<>>
            IN  IF slashes = {} THEN segment ELSE segment \o Segments[pos + 1]
    IN  IF Segments[1] = <<>> THEN << <<Slash>> >> ELSE Segments[1]

-----------------------------------------------------------------------------
(* Messages.                                                               *)

WithOption(m, number, value) ==
    [m EXCEPT !.options = [n \in DOMAIN @ \cup {number} |->
                              IF n = number THEN value ELSE @[n]]]

Option(m, number) == IF number \in DOMAIN m.options THEN m.options[number] ELSE <<>>

(* The message after the call, and whether it succeeded.  Paths are put    *)
(* together; of other options the first value stays.                       *)
AppendOption(m, number, value) ==
    LET path == NormalizeUriPath(value)
    IN  IF ~IsValidOption(number, value) THEN [error |-> "invalid", message |-> m]
        ELSE IF number = kUriPath
        THEN [error |-> path.error,
              message |-> IF path.error # "none" THEN m
                          ELSE WithOption(m, number, Option(m, number) \o path.path)]
        ELSE [error |-> "none",
              message |-> IF number \in DOMAIN m.options THEN m
                          ELSE WithOption(m, number, value)]

(* The path is normalised here, and again as an option.                    *)
SetUriPath(m, s) ==
    LET path == NormalizeUriPath(s)
    IN  IF path.error # "none" THEN [error |-> path.error, message |-> m]
        ELSE AppendOption(m, kUriPath, path.path)

(* One <<number, value>> for each option header in the datagram.           *)
OptionList(m) ==
    LET present == SelectSeq(OptionTypes, LAMBDA n : n \in DOMAIN m.options)
        Values(n) == IF n = kUriPath THEN SplitUriPath(m.options[n]) ELSE <<m.options[n]>>
    IN  FlattenSeq([k \in DOMAIN present |->
            [i \in DOMAIN Values(present[k]) |-> <<present[k], Values(present[k])[i]>>]])

SerializeHeader(m) ==
    <<64 + m.type * 16 + Len(m.token), m.code, m.id \div 256, m.id % 256>> \o m.token

SerializeOptions(list) ==
    [k \in DOMAIN list |->
        SerializeOption(list[k][1], list[k][2], IF k = 1 THEN 0 ELSE list[k - 1][1])]

(* The first option that fails decides about the message.                  *)
Assemble(m, options) ==
    LET failed == {k \in DOMAIN options : options[k].error # "none"}
    IN  [error |-> IF failed = {} THEN "none" ELSE options[FirstOf(failed)].error,
         buf |-> SerializeHeader(m) \o FlattenSeq([k \in DOMAIN options |-> options[k].buf])
                 \o (IF m.payload = <<>> THEN <<>> ELSE <<kPayloadMarker>> \o m.payload)]

Serialize(m) == Assemble(m, SerializeOptions(OptionList(m)))

(* The options from buf[at] up to the payload marker or the end.           *)
DeserializeOptions(buf, from) ==
    LET Rest[at \in from..Len(buf) + 1] ==
            IF at > Len(buf) THEN [error |-> "none", options |-> <<>>, next |-> at]
            ELSE IF buf[at] = kPayloadMarker
            THEN [error |-> "none", options |-> <<>>, next |-> at]
            ELSE LET option == DeserializeOption(buf, at)
                     rest == Rest[option.next]
                 IN  IF option.error # "none" THEN BadOption
                     ELSE IF rest.error # "none" THEN BadOption
                     ELSE [rest EXCEPT !.options = <<option>> \o @]
    IN  Rest[from]

(* Mutant: an option that cannot be appended is never an error.            *)
ApplyOptionLenient(r, option) ==
    LET number == (r.last + option.delta) % 65536
    IN  [error |-> "none", message |-> AppendOption(r.message, number, option.value).message,
         last |-> number]

(* The critical options are those the code knows; others are ignored.      *)
ApplyOption(r, option) ==
    LET number == (r.last + option.delta) % 65536
        appended == AppendOption(r.message, number, option.value)
    IN  IF r.error # "none" THEN r
        ELSE [error |-> IF appended.error # "none" /\ IsCriticalOption(number)
                        THEN "bad" ELSE "none",
              message |-> appended.message, last |-> number]

(* The message, once its options are read; a payload marker needs a        *)
(* payload.                                                                *)
WithPayload(buf, list, read) ==
    IF list.error # "none" THEN BadOption
    ELSE IF read.error # "none" \/ list.next = Len(buf) THEN BadOption
    ELSE [error |-> "none",
          message |-> [read.message EXCEPT !.payload = SubSeq(buf, list.next + 1, Len(buf))]]

Deserialize(buf) ==
    LET tokenLength == buf[1] % 16
        header == [type |-> (buf[1] \div 16) % 4, code |-> buf[2],
                   id |-> buf[3] * 256 + buf[4], token |-> SubSeq(buf, 5, 4 + tokenLength),
                   options |-> NoOptions, payload |-> <<>>]
        list == DeserializeOptions(buf, 5 + tokenLength)
        read == FoldLeft(ApplyOption, [error |-> "none", message |-> header, last |-> 0],
                         list.options)
    IN  IF Len(buf) < 4 THEN BadOption
        ELSE IF Len(buf) < 4 + tokenLength THEN BadOption
        ELSE IF buf[1] \div 64 # 1 \/ tokenLength > kMaxTokenLength THEN BadOption
        ELSE WithPayload(buf, list, read)

-----------------------------------------------------------------------------
EmptyMessage(h) ==
    [type |-> h[1], code |-> h[2], id |-> h[3],
     token |-> <<>>, options |-> NoOptions, payload |-> <<>>]

MessageInit ==
    /\ message \in {EmptyMessage(h) : h \in Headers}
    /\ calls = 0
    /\ datagram = <<>>

Build(m) ==
    /\ datagram = <<>> /\ calls < MaxBuild
    /\ message' = m
    /\ calls' = calls + 1
    /\ UNCHANGED datagram

SetToken(token) ==
    Build([message EXCEPT !.token =
              SubSeq(token, 1, IF Len(token) < kMaxTokenLength THEN Len(token)
                               ELSE kMaxTokenLength)])

AppendPayload(data) == Build([message EXCEPT !.payload = @ \o data])

(* Any bytes may arrive.                                                   *)
Arrive(bytes) ==
    /\ calls = 0 /\ Len(datagram) + Len(bytes) <= MaxBytes
    /\ datagram' = datagram \o bytes
    /\ UNCHANGED <<message, calls>>

MessageNext ==
    \/ \E t \in Tokens : SetToken(t)
    \/ \E o \in OptionInputs : Build(AppendOption(message, o[1], o[2]).message)
    \/ \E s \in UriPaths : Build(SetUriPath(message, s).message)
    \/ \E d \in Payloads : AppendPayload(d)
    \/ \E c \in IF datagram = <<>> THEN Heads ELSE Chunks : Arrive(c)

-----------------------------------------------------------------------------
(* Two messages with the same segments in their paths.                     *)
SameMessage(m, n) ==
    /\ [m EXCEPT !.options = NoOptions] = [n EXCEPT !.options = NoOptions]
    /\ OptionList(m) = OptionList(n)

ReadAs(got, m) == got.error = "none" /\ SameMessage(got.message, m)

(* What m was serialised to is read as m.                                  *)
ReadBack(sent, m) == sent.error = "none" /\ ReadAs(Deserialize(sent.buf), m)

(* A path that means the same if it is normalised again.                   *)
PlainPath(m) ==
    \A i \in DOMAIN Option(m, kUriPath) : Option(m, kUriPath)[i] \notin {Percent, Space}

(* An option header that needs one more byte for a number above 13.        *)
LongOption(m) ==
    LET list == OptionList(m)
        Previous(k) == IF k = 1 THEN 0 ELSE list[k - 1][1]
    IN  \E k \in DOMAIN list : \/ list[k][1] - Previous(k) \in 14..268
                               \/ Len(list[k][2]) \in 14..268

(* A message that was built with the calls of coap::Message and is sent    *)
(* is, at the other end, the same message, for every order and length of   *)
(* its options.  Serialize stops the process exactly if an option's delta  *)
(* or length is in 14..268, and fails for a path with a segment that is    *)
(* too long; no path of uri.hpp is.                                        *)
SurvivesTheWire ==
    LET sent == Serialize(message)
    IN  /\ (sent.error = "abort") => LongOption(message)
        /\ LongOption(message) => sent.error # "none"
        /\ sent.error = "none" /\ PlainPath(message) => ReadBack(sent, message)

(* The options of a datagram that has a valid header, with their numbers.  *)
Arrived(buf) == DeserializeOptions(buf, 5 + (buf[1] % 16)).options
NumberOf(list, k) == FoldLeft(LAMBDA n, o : (n + o.delta) % 65536, 0, SubSeq(list, 1, k))

(* In CoAP an option is critical if its number is odd.                     *)
Critical(number) == number % 2 = 1
Known(number) == Contains(OptionTypes, number)

Understood(m, list) ==
    /\ \A k \in DOMAIN list : Critical(NumberOf(list, k)) /\ Known(NumberOf(list, k)) =>
           /\ NumberOf(list, k) \in DOMAIN m.options
           /\ \/ m.options[NumberOf(list, k)] = list[k].value
              \/ NumberOf(list, k) = kUriPath
              \/ \E j \in 1..k - 1 : NumberOf(list, j) = NumberOf(list, k)
    /\ LongOption(m) \/ ~PlainPath(m) \/ ReadBack(Serialize(m), m)

(* Whatever arrives, a message that is accepted was understood, but for    *)
(* critical options that the code does not know.  Each critical option     *)
(* that it knows is in the message, with its value if it occurs once (a    *)
(* second one is dropped).  One that it does not know is ignored like any  *)
(* other unknown option, because IsCriticalOption takes it for elective;   *)
(* this is not what "Stop if any unrecognized option is critical"          *)
(* (coap.cpp:1162) says.  And the message can be serialised to a datagram  *)
(* that is read as the same message, so that no path, option or payload    *)
(* that is acted on depends on how it was written.                         *)
AcceptedIsUnderstood ==
    LET got == Deserialize(datagram)
    IN  got.error = "none" => Understood(got.message, Arrived(datagram))

(* The percent-encoding of the characters of s whose index is in E.        *)
HexDigit(n) == IF n < 10 THEN 48 + n ELSE 55 + n
PercentEncode(s, E) ==
    FlattenSeq([i \in DOMAIN s |->
        IF i \in E THEN <<Percent, HexDigit(s[i] \div 16), HexDigit(s[i] % 16)>> ELSE <<s[i]>>])

Decimal(c) == c \div 16 < 10 /\ c % 16 < 10

(* NormalizeUriPath inverts percent-encoding: whichever characters of a    *)
(* path, here the bytes that follow a header, are encoded, the path comes  *)
(* out again, and comes out the same with a space after it; as long as the *)
(* encoding has no letter among its digits, each of which the code takes   *)
(* for 10 less.                                                            *)
DecodesPercent ==
    LET s == <<Slash>> \o SubSeq(datagram, 5, Len(datagram))
        raw == {i \in DOMAIN s : s[i] = Percent}
    IN  \A E \in SUBSET (2..Len(s)) :
            (/\ raw \subseteq E
             /\ s[Len(s)] = Space => Len(s) \in E
             /\ \A i \in E : Decimal(s[i]))
            => /\ NormalizeUriPath(PercentEncode(s, E)) = GoodPath(s)
               /\ NormalizeUriPath(PercentEncode(s, E) \o <<Space>>) = GoodPath(s)
=============================================================================
