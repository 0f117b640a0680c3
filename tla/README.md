# Verification of OT Commissioner in TLA+

This directory models openthread/ot-commissioner: the CoAP client and server, the
DTLS session, the commissioner's session with a border agent, its thread-safe
wrapper, the token manager, joiner sessions, the UDP proxy, the state of the CLI
application, and the codecs (CoAP messages, TLVs, datasets, JSON, mDNS records).
TLC checks each model on small instances. TLAPS proves, for all values of the constants,
every safety property outside the codecs, and of the codecs those about payloads, datasets,
signatures, JSON and discovered border agents. `PROJECT.json` maps every
definition to the lines it models and lists runs, mutants, hazards and theorems.

## 1. The system

| Component | Source | State | Operations |
|---|---|---|---|
| CoAP client | `library/coap.cpp` | `RequestsCache`, retransmission timer, message id | `SendRequest`, `HandleResponse`, `Retransmit`, `CancelRequests`, `FinalizeTransaction` |
| CoAP server | `library/coap.cpp` | `ResponsesCache`, resources | `HandleRequest`, `SendResponse`, `SendHeaderResponse` |
| DTLS session | `library/dtls.cpp`, `socket.cpp`, `coap_secure.hpp` | `mState`, send queue, handshake timer, socket | `Connect`, `Handshake`, `Read`, `Write`, `Send`, `Disconnect`, `Reconnect` |
| Commissioner session | `library/commissioner_impl.cpp` | `mState`, keep-alive timer, requests of `mBrClient` | `Connect`, `Petition`, `SendKeepAlive`, `Resign`, `Disconnect`, `CancelRequests` |
| Thread-safe API | `library/commissioner_safe.cpp` | request queue, `mInvokeEvent` | `PushAsyncRequest`, `Invoke`, synchronous waits, destructor |
| Token manager | `library/token_manager.cpp` | token, registrar session | `RequestToken`, `SetToken`, `SignMessage`, `ValidateSignature` |
| Joiner sessions | `library/joiner_session.cpp`, `commissioner_impl.cpp` | `mJoinerSessions`, one timer | `HandleRlyRx`, `HandleConnect`, `HandleJoinFin`, `HandleJoinerSessionTimer` |
| UDP proxy | `library/udp_proxy.cpp` | mesh-local prefix, one endpoint with one peer | `SendRequest`, `HandleUdpRx`, `FetchMeshLocalPrefix` |
| CLI application | `app/commissioner_app.cpp`, `cli/interpreter.cpp` | joiner table, mirrored datasets | joiner and dataset commands, `Start`, `Stop`, `OnDatasetChanged`, `CancelCommand` |
| Codecs | `coap.cpp`, `tlv.cpp`, `network_data.cpp`, `commissioner_impl.cpp`, `app/json.cpp` | none | serialise, deserialise, encode, decode, sign |
| Discovery | `app/border_agent.cpp` | the agent being decoded | `DiscoverBorderAgent`, `HandleRecord` |

How they interact. User threads call `CommissionerSafe`, which queues a request
and activates a libevent event. All other code runs on the event-loop thread.
There `CommissionerImpl` sends requests to the border agent through `mBrClient`
(CoAP over DTLS over UDP), to nodes of the mesh through `ProxyClient` (a second
CoAP instance whose messages travel inside `UDP_TX` and `UDP_RX`), and to the
registrar through the `TokenManager`'s own client. Joiners reach the commissioner
through `RLY_RX`; each has a DTLS server session and a CoAP instance of its own.
The application keeps a copy of what it told the leader, and of what the leader
told it.

What is hard. Response handlers run inside CoAP's own loops and may call back into
it. Timers race with answers, cancellation and the end of a session. One timer
serves many requests or many joiners. One endpoint object serves many peers. A
session may be lost at any step, and writes may fail. Requests cross threads. The
leader may apply a request whose answer is lost, and its answers overtake each
other. Formats have limits at which encoder and decoder must agree.

What should hold. Every handler is called, once. Nothing that waits is forgotten by
its timer. A request of one session has no effect on the next. Requests are served
in order. A duplicated request is handled once, and answered with its own response.
The commissioner's view of itself, of the leader and of joiners agrees with
theirs. What is written to the wire or to a file is read back the same.

## 2. Modules

| Module | Models | Checked by |
|---|---|---|
| `Coap`, `MCCoap` | CoAP client with an explicit call stack | `coap_send`, `coap_refine` |
| `Transactions` | what `SendRequest` promises (abstract) | `coap_refine` |
| `CoapServer` | CoAP server with unreliable peers | `server_dup` |
| `DtlsSession` | DTLS session, client or server | `dtls_session` |
| `CommissionerImpl` | session with the border agent | `impl_session` |
| `CommissionerSafe` | thread-safe wrapper | `safe_async` |
| `TokenManager`, `MCToken` | token and registrar session | `token` |
| `JoinerSessions` | table of joiner sessions and its timer | `joiner_sessions` |
| `ProxyClient` | UDP proxy client | `proxy_handlers` |
| `JoinerTable`, `MCTable` | the application's joiners and steering data | `table_table` |
| `CommissionerApp`, `MCApp` | the application's mirror of the datasets | `app` |
| `CoapMessage` | `coap::Message`: building, wire format, paths | `codecs` |
| `Tlv` | TLVs and sets of TLVs | `codecs` |
| `NetworkData` | datasets, management requests, signatures, JSON | `codecs` |
| `BorderAgent` | discovery loop and mDNS records | `codecs` |
| `MCCodecs` | instance of the four codec modules | `codecs` |
| `CoapProofs` | proofs about `Coap` | TLAPS |
| `TransportProofs` | proofs about `DtlsSession`, `CoapServer` and `TokenManager` | TLAPS |
| `CallerProofs` | proofs about `CommissionerImpl` and `CommissionerSafe` | TLAPS |
| `RelayProofs` | proofs about `ProxyClient`, `JoinerSessions` and `JoinerTable` | TLAPS |
| `CommissionerAppProofs` | proofs about `CommissionerApp` | TLAPS |
| `TlvProofs`, `DatasetProofs`, `NetworkDataProofs` | proofs about `Tlv`, `NetworkData` and `BorderAgent` | TLAPS |

Correspondence. Variables carry the names of the members they stand for
(`mContainer`, `mState`, `mSendQueue`, ...); others stand for the
state of an object below, for the environment, or for the history that a property
is about. An action is one libevent callback or one API
call with every handler it runs. `Coap` is finer, because its handlers re-enter
it: there `stack` is the call stack of the event-loop thread, an action is the code
between two handler calls, and the loop takes its next event only when the stack is
empty. In these modules bytes, options and dataset contents are abstracted to what
the properties tell apart.

`CommissionerApp` has three threads: the main thread, which runs commands, the event
thread and the signal thread. A command is a record of what the main thread waits for; an
answer of the leader is taken at one step, with the time at which the leader gave it, and
used at a later one. Ctrl-C takes three steps: the command is cancelled, `Stop` resigns, and
only then `Stop` clears the mirrors, with the other threads' steps in between. `doubt`,
`newest` and `wiped` are history: they record which mirror may be behind, and are set only
by the cases that the properties name. `JoinerTable` has the same Ctrl-C. Its steering data
is a present flag, whether the bytes number 16, and the joiners added to them: `MergeDataset`
clears the flag and keeps the bytes, which a later command starts from. Users may set
steering data of their own. `TokenManager` has the registrar's `DtlsSession` and CoAP client
by their contracts; a token is a record of the claims that `ValidateToken` reads.

The codec modules are the opposite: control is in operators, and a message, payload or
dataset is what the code sees, a sequence of bytes or a partial function from fields to
values (a field is present if it is in the domain, as `mPresentFlags` says). Their
variables hold one input, which the actions build up call by call, TLV by TLV or field
by field; an error is part of an operator's result. A failed `VerifyOrDie` or `ASSERT` is
the error `"abort"`. Sixteen-bit option numbers wrap around. `NetworkData` has the
requests of `CommissionerImpl` as functions from arguments to a payload and the content
that is signed; `ValidateSignature` compares contents, as a signature over equal content
verifies. JSON is a token sequence in which only names and hostnames are spelt out,
because `StripComments` looks into them. The byte level is kept here, and only here, because
what these properties are about lies there: lengths at which a format changes, escapes, and
buffers that end in the middle of an element.

The models are composed by contract. `Coap` is shown to implement `Transactions`.
`CommissionerImpl`, `CommissionerSafe`, `TokenManager`, `ProxyClient` and the
application use a CoAP client only through that contract: an outstanding request is
finalised once, with an answer or an error. Likewise `CommissionerImpl`,
`TokenManager` and `JoinerSessions` use a DTLS session through what `DtlsSession`
checks: its connection handler is called once, but twice if it disconnects, and never if
another `Connect` replaces it. The users of the contracts have the cases in which they
fail as well: a request that cannot be retransmitted and whose handler cancels is reported
twice (`KeepAliveNotRetransmitted`, `NotRetransmitted`), a handler that disconnects is called
again (`SendTokenRequest`), one that a second connection replaces is not called
(`replaced`), and a session whose new socket cannot be opened dies at its next write
(`SocketGone`). The application uses the
synchronous calls of `CommissionerSafe`, which return (`CallsReturn`).

Operators whose comment starts with "Mutant:" are faulty versions of the definition
below them. They are not part of the model. `PROJECT.json` pairs each property with
one that breaks it.

## 3. Runs

All runs pass. They take seconds, but for `app`, `coap_refine`, `codecs` and `table_table`
(one to three minutes each).

| Run | Instance | Shows |
|---|---|---|
| `coap_send` | three confirmable requests over two message ids, failing sends, late and duplicated responses, handlers that send | the timer covers every outstanding request; handlers are called at most once; no request is forgotten; an answer goes to its own request; transmissions are bounded and stop after an acknowledgement |
| `coap_refine` | two requests of every type, null handlers, handlers that send or cancel, an endpoint that does not fail | `Coap` implements `Transactions`, its liveness included |
| `server_dup` | two peers, two requests of four kinds, two message ids, two copies in flight | a request is handled once; a peer that retransmits is answered; a cached response answers another request only in three known cases |
| `dtls_session` | both roles, four calls of `Connect`, also on a session in use, sockets that cannot be opened, handlers that send or disconnect, three flights with two retransmissions, six messages | no event or timer finds a state the code dies in, unless a socket was lost; the connection handler is called once, with two exceptions; messages keep their order; a client's `Connect` ends |
| `impl_session` | four calls, connecting again at any time, sockets that cannot be opened, two keep-alives in flight, commercial mode, failing writes | handlers are called, once, unless another connection replaces them; state, timer and requests stay in step; a lost session is noticed; only `Disconnect` leaves the timer running |
| `safe_async` | two threads and handlers, three calls of all kinds | requests are served in order; calls run and return, given the daily timeout of the event |
| `token` | three token requests that may overlap, good and bad tokens, keys that can and cannot sign, failing writes | handlers are called, once; the registrar's session is given back |
| `joiner_sessions` | two joiners, three sessions, a handshake of three ticks | the shared timer covers and removes every session |
| `proxy_handlers` | two requests of four kinds, two prefixes, loss, cancellation, disconnection | the handler of a confirmable request is called once; every handler is called; requests go to their node under the announced prefix, but for two cases |
| `table_table` | two joiner types, two joiners, all commands, steering data of the user's of 16 and of fewer bytes, Ctrl-C under a command | the leader has the steering data that the application shows; table and steering data stay in step, but for two commands and a Ctrl-C under a third |
| `app` | every dataset field, alone or in pairs, the hostnames, two changes of the leader's datasets, two announcements, lost answers, notices and sessions, Ctrl-C in its three steps | when nothing is outstanding the application shows what the leader has, with the exceptions listed below; it never shows what the leader never had; at the prompt of an active commissioner the active dataset is there, unless a late Ctrl-C cleared it |
| `codecs` | messages of up to three building calls, datagrams of up to eight bytes, payloads of up to three TLVs, datasets of up to two fields, up to three records in two responses, all from sets of boundary values | encoding and decoding are inverse; a payload is understood as a whole or refused; so is a datagram, but for critical options that the code does not know; a signature verifies with the receiver; JSON is read back; an agent is as one response described it |

Bounds. Two requests or sessions are the least that can be confused with one another, share
a timer or replace each other; a third only repeats this. Three requests over two message
ids use an id twice, so that a late answer to one request meets another with its id. One
retransmission takes the loop of `Retransmit` round once, and its doubled delay puts the
deadline of an older request before or after that of a newer one. With two keep-alives in
flight one can be answered or fail before the other. A third token request meets what the
second has left. Two changes and two announcements let an older answer be used after a newer
one. The users' steering data of `table_table` is none, or that of every joiner, in 16
bytes, which `AddJoiner` extends, or in fewer, which it clears. In `codecs` the inputs are
the values around each limit of a format: option lengths and deltas of 12, 13, 14, 268, 269,
the escape length 254 to 256, empty and overlong fields, cut-off payloads, repeated and
unknown types; three options, TLVs or records are enough to have one before and one after a
bad one. Fields of a dataset are encoded independently of each other, so two show every
order and omission. The bounds are CONSTANTS, and the theorems below do not depend on them.

Deadlock checking is off where a run's supply of calls, messages or sessions ends,
which in the program is only an idle commissioner. `JoinerTable` and `CommissionerApp`
never run out of commands and are checked for deadlock.

### Where properties stop

The models contain the following behaviours of the code. Properties that hold are
stated around them, and say so in their comments.

- CoAP client. A handler that cancels all requests is called a second time if a
  retransmission has failed (`coap.cpp:784`). `coap_refine` therefore has an endpoint
  that does not fail, and `AtMostOnce`, `NoneForgotten` and `ImplementsPromise` are proved
  for handlers that do not cancel (`SendOnly`). The same
  happens to keep-alives and token requests. A handler that
  cancels and then sends may have its new request erased through a dangling reference
  (`coap.cpp:884`), although `coap.hpp:624` says that a handler "is guaranteed to be
  called"; no run has such handlers.
- CoAP server. A response to one mesh node answers another node's request with the same
  message id, because the proxy has one `Endpoint`; responses never expire
  (`coap.hpp:725`); and a response to a non-confirmable request is cached under an id of
  the server's choice (`coap.cpp:822`). These are the exceptions in `OnlyTheSameRequest`.
- CoAP messages. A critical option that the code does not know is ignored, because
  `IsCriticalOption` takes it for elective, although `coap.cpp:1162` says "Stop if any
  unrecognized option is critical"; `AcceptedIsUnderstood` asks for the known ones. An
  option delta or length of 14 to 268 stops the process (`coap.cpp:361`, `:401`).
  Percent-encoded letters are decoded as 10 less (`coap.cpp:1086`). A path is normalised
  again when it is received, so a decoded percent sign or a space at its end does not
  survive.
- DTLS. `DtlsSession::Reset` keeps `mSendQueue` (`dtls.cpp:249`), so `Fifo` is stated across
  sessions. A client that starts anew loses its session (`dtls.cpp:470`). `Connect` on a
  session in use ends the process where assertions are compiled in (`dtls.cpp:277`), and
  where they are not replaces the handler that is held, which is then never called (`:279`):
  `displaced` in `DtlsSession`, `replaced` and `aborted` in `CommissionerImpl`, `replaced`
  in `TokenManager`. If its socket cannot be opened, the old session is left without a
  descriptor (`socket.cpp:114`-`145`) and dies at its next write (`:225`). A handler that
  disconnects on success is called twice (`dtls.cpp:540`-`544`), as that of
  `SendTokenRequest` does.
- Thread-safe API. Two requests pushed before `Invoke` runs share one activation, and the
  second stays queued until the next call or the daily timeout of the event
  (`commissioner_safe.cpp:544`), although `commissioner_safe.hpp:218` says of the event
  that it "will be activated by user calls". `Notified`, which says that a
  callback is due for every queued request, is proved for one synchronous thread only.
- Tokens. A second `RequestToken` replaces the handler of one that is connecting, and the
  end of either request ends the session of both. A request that cannot be built, because
  the key is not an elliptic-curve key, leaves the session connected
  (`token_manager.cpp:200`). `CancelRequests` does not cancel a connection being made.
- Joiners. A new joiner restarts the shared timer, so that older sessions outlive their
  time (`commissioner_impl.cpp:2143`), and a session removed while connecting is never
  reported (`:2173`). The log line after the erasure (`:2175`) reads the erased session;
  logging is not modelled, so no property reaches that read.
- Proxy. The peer address belongs to the endpoint, so a retransmission goes to the node
  last sent to or heard from (`udp_proxy.cpp:117`), although `commissioner.hpp:1028` sends
  MLR.req "to the Primary Backbone Router". An answer that crosses MGMT_DATASET_CHANGED
  restores the old prefix (`udp_proxy.cpp:175`). A dataset without a prefix ends the
  process (`:178`). A multicast request that cannot be sent is reported twice
  (`commissioner_impl.cpp:1053`).
- Joiner table. `DisableJoiner` writes the wrong steering data, and does not erase the
  only joiner (`commissioner_app.cpp:282`); enabling a joiner after all joiners narrows
  the steering data (`commissioner_impl.cpp:112`). Users may set steering data that does not fit
  the table (`commissioner_app.cpp:403`). A command that succeeds after a Ctrl-C has cleared
  table and dataset brings the joiners enabled before it back into the steering data only.
- Dataset mirror. It is behind, until a newer answer to a read, after an answer that was lost
  or cancelled, after a lost notice of the leader, and after an answer to `SyncNetworkData`, to
  a read of `OnDatasetChanged` or to a command that is used after a newer one.
  `SetRegistrarHostname` that does not find the registrar's address leaves the old hostname
  (`commissioner_app.cpp:824`), and `SetBbrDataset` the old registrar address, so
  `MirrorFollows` compares hostnames and asks nothing of addresses. `Stop` resigns before it
  clears (`:101`): a petition accepted in between makes the commissioner active with mirrors
  that are then cleared, the only exception of `PromptIsSynced`. `start` on an active
  commissioner stops it (`:83`).
- Datasets. A channel mask that cannot be decoded ends the decoding of a dataset without
  an error (`commissioner_impl.cpp:1466`). A pending dataset that is asked for without its
  delay timer is refused (`:558`). A payload that is cut off is taken for an acceptance where
  a State TLV is not mandatory. The signature of an MLR.req covers only its session id,
  because its TLVs are read in the wrong scope (`token_manager.cpp:426`).
- JSON. `StripComments` also strips inside strings (`json.cpp:115`).
- Discovery. The handler is told of an incomplete service at every poll with nothing
  received, and records of two services in one response are mixed
  (`border_agent.cpp:85`); `AgentIsAsSaid` is about responses, not services.

## 4. Fairness

- `Coap`: weak fairness of a running callback and of a due timer, because libevent
  serves active events on each turn; strong fairness of the clock, because a timer
  that fires on its very tick restarts itself until time moves on.
- `CommissionerSafe`: strong fairness of the active event among others; callbacks and
  woken threads proceed; outstanding requests are finalised (contract of `Coap`); days
  pass, because the event is added with a timeout of a day.
- `CommissionerImpl`, `ProxyClient`, `TokenManager`: timers fire and outstanding requests
  are finalised (contract of `Coap`); a handshake ends (`ConnectEnds` of `DtlsSession`), if its
  socket is open. In `CommissionerImpl` all of this is while the process has not ended.
- `DtlsSession`: the handshake timer fires, and a client's new socket is writable.
- `CoapServer`: a peer keeps retransmitting, and of what is sent again and again some
  copy arrives.
- `JoinerSessions`: time passes and a due timer fires.

Nothing is assumed of users: they make any call at any time, connecting again included. The
handlers of a CoAP client are those of a run's `Scripts`. Nothing is assumed of a peer except in
`CoapServer`, whose liveness property is about a peer that retransmits.

## 5. Proofs

All theorems hold for every value of the constants that the named assumptions admit
(`CoapAssumption`, `DtlsAssumption`, `ServerAssumption`, `SafeAssumption`,
`ImplAssumption`, `TokenAssumption`, `JoinerAssumption`, `TableAssumption`,
`ProxyAssumption`, `AppAssumption`, `TlvAssumption`, `JsonAssumption`, `DiscoveryAssumption`). The
assumptions say that bounds are natural numbers, that flags are Booleans, from which names
kinds and fields are taken, that inputs of the codecs are bytes of the lengths a format
admits (and names those that JSON can write), and that a value for "none" is not a member of
its set; TLC evaluates them in the
runs of their module.
Each proof has an invariant, one lemma per action or group of actions that it survives,
and a last step in temporal logic. Where a module has proofs about several components, the
names of all but one have a prefix (`ServerSpec`, `TokenSpec`, `SafeSpec`, `SessionsSpec`,
`TableSpec`, `TlvSpec`, `DataSpec`, `AgentSpec`).

`CoapProofs`, whatever the handlers call:

- `TypeCorrect` and `TimerCovers`: while a request is outstanding, the timer runs and fires
  no later than its deadline. `Inv` is type correctness with this property, which is
  weakened while `Retransmit` is in its loop, where the code brings the timer up to date
  at the end.
- `RightResponse` and `NeverSentAfterAck` (an action property) need to know what one step
  does to one request: it is kept, backed off, gone or sent for the first time
  (`RequestStep`, proved of every action from `Inv`). `SentSeldom` then bounds the
  transmissions by the holder's retransmission count.

`CoapProofs`, under `SendOnly`: `AtMostOnce`, `NoneForgotten`, `ImplementsPromise`. Handlers
send but do not cancel. The assumption is needed, see "Where properties stop" above. `Once`
relates, for each request, the number of handler calls, its holder and the frames of the
stack; `ShapeOf` says which stacks occur. `ImplementsPromise` covers the safety part of
`Transactions`; liveness is checked by `coap_refine`.

`TransportProofs`, the DTLS session: `SessionNeverAborts`, `ConnectToldOnce`, `SentInOrder`.
`States`: the timer runs only while the session connects (or the process has ended), and a
session in use has its descriptor unless a failed `Connect` has severed it; so the two fatal
checks are out of reach but for that case. `Handlers`: the handler that is held is that of one
of the calls so far, was not displaced and has not hung up, so that `HandlerOnce`, which says
how often each handler is due to have been called (`Due`), survives a `Connect` that replaces
it and a handshake whose handler disconnects. `InOrder` says of the send queue
that what was taken is what was written and then what is queued; it is kept by each write,
by the loop that empties the queue and by what handlers send from inside the loop that
reads.

`TransportProofs`, the server: `RequestHandledOnce`, `CacheAnswersTheSame`. `LiveIds`: of a
peer's requests that still have copies in flight, no two have the same message id.
`CachedById`: the response to a confirmable request is cached under its id.
`HandledIsCached`: a confirmable request that was handled finds a response in the cache, so
that a second copy does not reach its resource.

`TransportProofs`, tokens: `TokenTypeCorrect`, and `TokenHandlerCalled` with the strengthening
`Held`: the DTLS session has a handler just while it connects, for a call that has no
request outstanding. `SessionGivenBack` and `TokenValidated` are inductive by themselves.
`OneRequestIsSafe` follows from both invariants: where `Connect` would assert, another
request is owed its handler or the key cannot sign.

`CallerProofs`, the session with the border agent: `ImplTypeCorrect`, and `SessionKept`, an
action property: state, timer and outstanding requests agree after every step (`Agree`), and
whatever ends a session stops its timer (`TimerStops`). `Agree` becomes inductive with
`Started`: a call that was not made is neither waited for nor replaced. `HandlersOwed` is
proved call by call (`Owed`), for connections that overlap as well.

`CallerProofs`, the thread-safe API: `SafeTypeCorrect` and `ServedInOrder`: the queue is the
last part of the sequence of all pushes, and exactly these calls are queued (`Ordered`).
`SyncUserNotified`: for one thread with synchronous calls `Notified` holds.

`RelayProofs`, joiner sessions: `JoinerTypeCorrect`, `OneTimerIsEnough`, `ToldOfEachSession`.
The strengthening is `Distinct`: no two joiners have the same session, so that what is told
of one is not told of another.

`RelayProofs`, the joiner table: `TableTypeCorrect`, `LeaderIsTold`, `StaysInStep`. `Prepared`
relates a command under way to what it will leave: what the leader has applied is the
command's dataset, and the command's table and dataset are in step if the current ones are,
but for the two commands that the property names; after a Ctrl-C, when the current ones are
empty, what the command adds to the table is in its dataset.

`RelayProofs`, the UDP proxy: `ProxyTypeCorrect`, `ProxyHandlerOnce`, `AddressedRightly`. `Waits`: a
request waits for a response or for the prefix, not for both. `Peer`: the endpoint's
peer is the node of every outstanding request that has not strayed. `Prefixes`: no prefix
in use or on its way is older than the last announced one, unless one was overtaken.

`CommissionerAppProofs`. `ShowsNothingInvented`, `SyncedAtThePrompt`,
`ShowsWhatTheLeaderHas`, all from the invariant `AppInv`:

- `Asks` says what each kind of command may ask for and have been answered; `Domains` that
  every copy of an active dataset (the leader's, a reply's, the mirror's) has the same
  fields, the mirror's unless it was wiped (`MirrorDomain`); `AllHad` that every value in
  such a copy was once the leader's. The first two theorems follow from these.
- `ShowsWhatTheLeaderHas` cannot be derived from the present state alone. That an answer is
  no older than the last one used makes the mirror right only if the leader has not changed
  in between without a notice or a read that is still to come. `AppInv` therefore claims
  that there is a history `H` of the leader's active dataset, one for each time, such that
  every reply is the dataset of its time (`RepliesOf`), such that a difference between two
  times that the mirror has not seen is still to be shown by a read or a notice, or is the
  change that the command under way has made (`Caught`), and such that the mirror shows
  the dataset of the time `newest` (`Shown`). A change of the leader extends `H` by one
  time (`HistoryGrows`). Once nothing is outstanding, nothing is still to come, so that
  `newest` and the present have the same dataset.
- The hostnames of the BBR dataset are changed by nobody but the application, and need no
  history (`BbrFollows`).

`TlvProofs` and `NetworkDataProofs`, payloads: `AnswersAreWhole`. The loops of the codecs
are recursive functions, over buffers of any length.

- `SetInduction` is induction over the natural numbers for a set; the library's induction
  theorems take a predicate, which the prover cannot instantiate. It yields the lemmas
  about sequences put one after the other (`Concat`), about the reads at one place of a
  buffer that depend only on the bytes from there on, and about the loops.
- `GetTlvSet` on a buffer that consists of serialized TLVs reads the last valid TLV of each
  type (`TlvSetWhole`), and on one that goes on with a part of a TLV is an error
  (`TlvSetCut`). A timestamp, a channel or a channel mask that decodes without an error
  encodes to the bytes it was decoded from (`FieldDecoded`, `MaskDecoded`).
- The invariant `TlvInv` is that the payload consists of TLVs that were put in, or of such
  and a part of one. From it, what a handler is given (`IsGiven`) is the last valid value of
  every field, and reports and State TLVs are taken as a whole or refused.

`DatasetProofs`, discovery: `AgentsAsSaid`. `Reads` relates a list of records to the agent
that they describe: of each field the last value, up to the first bad entry of a TXT record.
`ReadSoFar` is that relation after each record and each entry (by the same induction), and
`AgentInv` says that every call of the handler was with what its own response reads.

`DatasetProofs`, datasets and signatures: `DatasetsSurvive`, `SignaturesFit`. Payloads are
described by the set of TLVs that they carry (`Carries`): encoders add to it, `GetTlvSet` reads
it, and the content to be signed and the leader's answer are taken from it. Every field has a
TLV type of its own (`FieldTypes`), and what the encoder of a field accepts, its decoder reads
back (`FieldsRead`, by induction over the fields of a dataset). `SignAppends` and
`SignatureMatches` say that the token and the signature, which are appended last, are not
part of what is verified. The invariant `DataInv` is that every value has its field's type.

`NetworkDataProofs`, JSON: `JsonsSurvive`. `DumpParsed` is that the text of an exported dataset
parses to its fields, whatever their order and number, and `DumpUncommented` that
`StripComments` leaves it alone, unless a name holds the beginning of a comment. `JsonInv` adds to
`DataInv` that values can be written.

`Tlv`, `NetworkData` and `BorderAgent` spell out the few helpers for sequences that they need as
recursive functions: the prover would have to reason about those of the community modules
through their fold, which takes an operator.

What is only model-checked, and why:

- Liveness (`KeepsPromise`, `RetransmissionAnswered`, `ConnectEnds`, `EveryCallHandled`,
  `LostSessionNoticed`, `CallsReturn`, `EveryTokenRequestHandled`, `SessionsRemoved`,
  `EveryRequestHandled`): the prover does not handle fairness and ENABLED.
- `SurvivesTheWire`, `AcceptedIsUnderstood` and `DecodesPercent`, about CoAP messages with
  options of four widths, paths and escapes: their parsing interleaves four loops over
  bytes, each of which needs an induction of its own.
- `Coap` with handlers that cancel: `coap_refine` checks it on an endpoint that does not
  fail. The theorems above that do not assume `SendOnly` cover such handlers.

## 6. Not modelled

Parsing and printing of the CLI, the configuration's JSON and files, logging,
cryptography, COSE and CBOR, the generated Java binding and the Android user interface:
they are text, system calls or wrappers of external libraries, and have no state that a
property could relate to the rest. mbedtls, libevent, the mdns and JSON libraries, the
network, the border agent, the leader and joiners are external and modelled by what the
code sees of them. Timing is modelled by small integers, and a Bloom filter by the set of
joiners added to it. The race of two threads on the bytes of a mirrored dataset
(`OnDatasetChanged` takes no lock) is not modelled: assignments are atomic.

## 7. Plan

1. `AtMostOnce` for handlers that cancel, over an endpoint that does not fail.
2. Joiner sessions that relay through a border agent session that ends.
3. Proofs about CoAP messages.
4. A refinement of `TokenManager`'s requests to `Transactions`.
