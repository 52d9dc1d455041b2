# RustComm in TLA+

A model of RustComm: the event loops of the TCP and the TLS transport, the
thread-safe interface in front of them and the messenger on top, with the
model-checking runs and the machine-checked proofs that go with them.

## The system

RustComm moves bytes (Transport) and typed messages (Messenger) between peers. One
thread owns a transport and calls `fetch_events` in a loop; other threads reach it
through a channel.

| Component | State | Operations | What makes it hard |
|---|---|---|---|
| TCP transport `transport/tcp.rs` | connections and listeners by id, `next_id`, per connection `connected`, `interest`, `send_buf`; a count of spurious wakeups | connect, listen, close*, shutdown*, send_to*, broadcast*, fetch_events | edge-triggered readiness, partial writes, several events per round about one socket, errors in the middle of a round, assertions that abort the process |
| Transport interface `transport/interface.rs` | an mpsc channel, a waker, one response channel per blocking call | one per transport operation | send and wake are two steps; blocking callers; the transport may go away |
| Messenger `messenger/mod.rs` | a receive buffer per connection | the transport's, on messages | frames cut anywhere; errors end a connection; buffers must follow connections |
| Framing `messenger/message.rs`, registry `registry.rs` | none (codecs by message id) | serialize_message, deserialize_message | lengths inside lengths; incomplete against malformed |
| Messenger interface `messenger/interface.rs` | a transport interface and the registry | as the messenger | acts on the transport behind the messenger's back |
| TLS transport `transport/tls.rs` | as TCP, with a handshake status and a rustls session | as TCP | three states instead of two, plaintext and output hidden in the session, data and ends that arrive with the last handshake flight, failures in the handshake |
| Dispatch and configuration `transport/mod.rs`, `bincode.rs`, `error.rs`, `lib.rs` | none | forwarding, codecs, error types | nothing |

The application calls the messenger, the messenger the transport. The transport
returns events, the messenger turns Data events into messages. Other threads put
requests in the channel and wake `poll()`; the owner executes them at the top of the
loop in `fetch_events`. Nothing is persisted, there are no timers and no retries.

What each component owes its user:

* transport: Connected once or ConnectionFailed; Data between Connected and
  Disconnected, complete and in order; Disconnected once; queued bytes written in
  order; no abort; nothing ready is left waiting;
* interface: every request executed once, in order, without needing socket
  traffic; every call returns;
* messenger: the messages written, in order, whole, once; no buffer without a
  connection; the application knows which connections are open.

## Modules

| Module | Models |
|---|---|
| `ConnectionContract` | abstract: the life of a connection id and its two byte streams, as the application and the peer see them |
| `TcpTransport` | `tcp.rs`, with the kernel and the peers as environment |
| `RequestService` | abstract: one ordered queue of calls, executed once each |
| `TransportInterface` | `interface.rs` and `process_interface_requests` |
| `Framing` | `message.rs`: the frame as functions on bytes |
| `Messenger` | the receiving half of `messenger/mod.rs`, and the calls that open and close, over a transport that keeps the contract |
| `MessengerSending` | the sending half: the send and broadcast methods of `messenger/mod.rs` and `messenger/interface.rs`, called by several threads |
| `TlsTransport` | `tls.rs`, with the sessions of rustls as part of the environment |
| `TlsReading` | liveness of `TlsTransport`, with a history of the connections whose last read left something in the socket |
| `MC*` | instances for TLC, sample messages |
| `TransportInterface_proofs`, `TcpTransport_proofs`, `TlsSessions_proofs`, `TlsTransport_proofs`, `Framing_proofs`, `Messenger_proofs`, `MessengerSending_proofs` | theorems |
| `StreamLemmas` | facts about sequences the proofs share |

`TcpTransport` implements `ConnectionContract` (`KeepsContract`), `Messenger` assumes
what that contract says, `TransportInterface` implements `RequestService`
(`ImplementsService`); `Messenger` and `MessengerSending` use `Framing`, and the
latter takes the request channel for the queue `RequestService` promises.
`TlsTransport` instantiates `TcpTransport` with its own variables and takes from it
what the two source files have in common.

### TcpTransport

`connections`, `listeners`, `next_id`, `spurious_wakeups`, `disconnected_ids` and
`dispatch_events` are the variables of the code. `pc` is the place of the thread:
between calls, at the top of the loop, in the loop over the events, in the two loops
of `accept_connections`, in `write_connection`. A call of the code is one action
where nothing else can be observed inside it; `fetch_events` is cut at each event and
at each system call whose answer the kernel or a peer can change in between
(`take_error` before `write`, `accept` before `peer_addr`).

The kernel is external. A socket has a phase, a receive queue, room for sending and
the interest registered for it. The selector keeps a set `ready` of sockets with a
fresh edge: `poll()` reports up to `PollCapacity` of them and forgets their edges;
registering a changed interest renews the edge. `MergedEvents` chooses between one
event per socket (epoll) and one per direction (kqueue).

Bytes are numbered per connection and direction, so that loss, repetition and
reordering are visible. `sent`, `wire`, `fed` and `got` are histories: what the
application queued, what the kernel took, what the peer wrote, what Data events
handed out. `view` is what the application knows of an id.

`Usage` says what the application does. Disciplined use sends nothing before
Connected and no empty buffer; `early_send` and `empty_send` lift that. `Faults` says
what the operating system may do wrong. An assertion that fires is a state with
`pc = "panic"`: the build profiles abort.

`connect` and `listen` may fail with an error; this changes nothing and is a
stuttering step. `IdsLeft` is a bound: without `ReuseIds` allocation stops before the
ids wrap around, with it before every id is taken (`advance_connection_id` would not
return). `NoWrap` repeats the first half where an id is taken, so that a proof need not
count the streams in the backlogs; it never holds a step up.

### TransportInterface

A call is `SendRequest` then `Wake`, and a blocking one then waits in `Receive`.
The request variants are told apart by what they do to the number of sockets, which
decides between `poll()` and Inactive. What `poll()` reports about sockets is
arbitrary here; `TcpTransport` models it, and runs the operations at
`pc = "requests"`, where the owner executes requests.

### Framing and Messenger

A length field has two bytes of base `Base` instead of four of base 256: it can be cut
by the stream and it wraps around. Codecs and UTF-8 are constants. `deserialize_all`
is the scanning loop of `fetch_events` as a recursive function. The transport below
the messenger reports any sequence of events the contract allows, with Data cut at
every byte. Calls of `MessengerInterface` reach the transport only, at the start of
its `fetch_events`; a connection closed that way is `"cut"`, one that `fetch_events`
closes itself over an undecodable message is `"dropped"`, and the properties name these
two cases as their exceptions.

### MessengerSending

`requests` is the channel, `out[i]` what the transport has queued on connection i,
`calls` what each thread has called. A call of the owner is executed at once, between
two `fetch_events`; that of another thread is queued at any time and executed inside
`fetch_events`, where connections may also end. The receiver is `deserialize_all` on
`out[i]`: that the bytes get there unchanged is `OutgoingIntact` of the transports.

### TlsTransport

`tls[i]` is the session: its role, the number of handshake flights exchanged, what it
wants to write, and how far the peer has come. Sockets carry units instead of bytes: the
end of a handshake flight, the end of a record with one byte of plaintext, input that
yields no plaintext (a session ticket, a `close_notify`, or the first part of a longer
record or flight), and input that is an error. `connected` has the three values of the code. `ReadLoop`
is the loop of `read_connection` as a recursive function, with the amounts one
`read_tls()` and one `reader().read()` take as constants (`ReadSize`, `MaxRead`);
`WriteData` is the loop of `write_connection` in closed form, with the room rustls has
for output (`SessionRoom`). `Settle` is what both calls end with: state, interest,
reregistration.

The environment may abandon or reject a handshake, send a ticket, or say goodbye with a
`close_notify` and close (`Handshake`). The
history `failed` says that `accept_connections` has returned an error, which drops
collected events as in TCP (run TcpAcceptError); the properties about what the
application hears are stated until then.

### TlsReading

`read_connection` leaves its loop at the first turn without plaintext, and the selector
does not report again what is still in the socket then. `left` is the set of
connections whose last read ended that way (`LeavesRest`, at every `ReadData` step); it
influences no action. The liveness properties of TLS name one exception for it:
`Stranded(i)`, the last read left something and no later read ever takes it. A connection
that is read again, because more arrives or its interest changes, gets no excuse.

## Runs

Every run takes about a minute or less with two workers.

| Run | Instance | Shows |
|---|---|---|
| TcpStreams | one outgoing connection, three bytes each way, sends of up to two, socket buffer of two, close, shutdown, refusal, reset; fair | NoPanic, OutgoingIntact, NoSilentLoss, KeepsContract; ConnectAnswered, DataDelivered, DataWritten, EndNoticed |
| TcpServer | listeners, accepted connections, backlog of two, events per direction, one socket per poll; fair | KeepsContract; BacklogAccepted |
| TcpAdverse | three ids used again and again by listeners and connections, empty and early sends, EINTR, failing accept, set_nodelay, peer_addr | PendingEventsKnown, IdsDistinct, InterestRegistered, up to an abort and after errors |
| Interface | two threads, two calls each; fair | NoLostWakeup, WaitsForSomething, ImplementsService; CallReturns |
| MessengerStream | one connection, two frames, contexts, two messages and three malformed frames, every cut, calls from both sides of the interface; fair | Reassembly, BuffersHaveConnections, MessagesAsWritten, EndsAreReported; MessagesArrive |
| Sending | two connections, the owner and two more threads, three calls in all | CallersServedInOrder, SameOrderEverywhere, CloseComesLast |
| TlsServer | a listener and one accepted connection, both in one round of events, broadcasts, two bytes each way, a socket buffer of one unit, records and flights of one or two units, two units per read, close, shutdown, reset, abandoned and rejected handshakes, tickets, goodbyes, EINTR, failing accept, set_nodelay, peer_addr | InterestRegistered, StatusFollowsSession, NoDataInHandshake, IncomingIntact, OutgoingIntact, DataAnnounced, EstablishedNotLost, NothingAfterEnd, AbortsOnlyInHandshake |
| TlsStreams | one outgoing connection, two bytes each way, sends from the start, records and flights of one or two units against reads of one, close, refusal, abandoned handshakes, tickets, events per direction; fair | DataWritten, DataDelivered, AttemptsEnd, EndNoticedUnlessLeft |

Why the bounds are enough. The transport treats connections alike and apart from each
other except in a round of events, in the multicasts and in the id table: two
connections and a listener show each pair that can meet there. Three bytes with sends
of two and room for two give a full buffer, a partial write, and data queued behind a
rest. TcpAdverse sends empty buffers only (`MaxBytes = 0`): that WRITABLE is registered
while data is queued is there left to DataWritten in TcpStreams and to the theorem
`InterestIsRegistered`. `MaxSpurious = 0` is the strictest limit: any wakeup without work is a panic.
Two threads suffice for one to act between the steps of the other; the theorems cover
any number. Two frames of two to seven bytes cut everywhere include every position of a
cut relative to both length fields, two messages in one Data event, and a message with
an undecodable frame behind it. Receive buffers are looked up by connection id and
share nothing; that several of them do not mix is left to the theorems, which hold for any
set of ids. In TlsServer a socket buffer of one
unit makes every flight and every record wait for room, and a round holds the events of a
listener and of its connection, so that an accept fails with events of the connection
collected. One connection is enough there: the table, the id allocation and the loop over
the events are those of TCP, which TcpServer and TcpAdverse run with several, sessions
share nothing, and each of the run's properties is proved for any number of connections
and any `PollCapacity`. TlsStreams has two events per round about one TLS socket, one per
direction. It leaves out the application's own shutdown to keep the state graph small: three of its
four properties exclude a connection shut down, and for DataDelivered what is read after a
shutdown stays with the safety side, IncomingIntact in TlsServer.
rustls takes a few kilobytes with one `read_tls()`, and a flight or a record may be longer.
In TlsStreams a read takes one unit, and a flight or a record has one or two: some fit into a
read, others are cut by it, and a ticket takes a read of its own, so that the loop is left
with a flight, a record or the end behind it. Without the exception `Stranded` each of the
four properties fails; TlsEndMissed shows how for the end. Resets, rejected handshakes and
goodbyes are left to TlsServer; a goodbye looks to the loop like a ticket followed by the
end.

Runs stop where every bound is used up, where the process has aborted, or where the
loop rightly blocks in `poll()` with nobody left to act; deadlock is therefore not
checked, and the liveness properties say what may not be left undone.

The liveness properties about bytes say that the reader or the writer catches up: what
can be sent is bounded by `MaxBytes`, so that catching up with all of it is to deliver
each byte. They speak of `GivenIds`, the ids a run can give out.

Fairness. The owner's thread and the callers' threads are scheduled. The application
handles its events and calls `fetch_events` again, as the main loop of every example
does. A connection attempt is answered in the end and a socket's send buffer drains in
the end (TCP's own retransmission and timeouts). `poll()` reports what is ready. Nothing is
assumed of TCP peers: they need not write, close or connect. A TLS peer that is up goes
on with its handshake (`PeerHandshakes`); what it does after that is open. `TransportInterface` assumes
nothing about sockets becoming ready.

### Disagreements found

Four runs check what a comment or a document says and end in a counterexample:

| Run | The code says | What happens |
|---|---|---|
| MessengerStall | `message.rs:189` "`Ok(None)` - Not enough data available (normal streaming condition)", `:190` "`Err(_)` - Invalid data (malformed data, unknown message ID)" | a complete frame whose payload is too short for the msg_id length in it is answered `None` (`message.rs:230`, and `:225` where the payload has no room for that length): the connection waits for ever |
| TcpAcceptError | `transport/mod.rs:396` "Recoverable errors are handled by the returned events" | an accept error drops Data already read from another connection |
| TlsHandshakeAbort | `tls.rs:850` "A disconnect while we are only TcpConnected means that the TLS handshake failed" | the last flight, data and the end of the stream are met by one call of `read_connection`; the handshake has succeeded, and `assert!(recv_buf.is_empty())` aborts |
| TlsEndMissed | `tls.rs:824` "No plaintext data available, so we didn't make any progress and exit the loop" | a ticket was read; the end of the stream behind it is not, no edge is left, and the connection stays open. A `close_notify` (`tls.rs:812`) and the first part of a record or flight longer than one read take the same way out, with data or a handshake behind them |

Others are in the models as they are in the code, and the properties leave room for
them:

* TCP: connect, `send_to`, refused. `queue_data` has made the connection readable, so
  `read_connection` is called first and its assertion aborts (`tcp.rs:628`; TcpAdverse
  reaches it). When the first write fails on a connection just established, the
  application hears Disconnected and never Connected (`tcp.rs:768`, against
  `transport/mod.rs:198`).
* Messenger: an undecodable message closes the connection without an event
  (`messenger/mod.rs:511`); a close through the interface leaves the
  receive buffer (`messenger/interface.rs:88`).
* TLS: a handshake that fails while reading is not reported, for an outgoing connection
  either (`tls.rs:849`, against `transport/mod.rs:198`), and the writable half of the
  same event then fails its lookup (`tls.rs:907`); one that fails while writing is
  reported as ConnectionFailed, for an accepted connection nobody has heard of too. Data
  can come one event before Connected (`tls.rs:565`). A write side shut down in the
  handshake strands the connection, since BrokenPipe counts as "would block"
  (`tls.rs:996`).

The model contains two more ways to abort, which TcpAdverse passes through and which
`NoPanic` excludes by its choice of use and faults. A `send_to` with an empty buffer
wakes the loop with nothing to write and counts as a spurious wakeup, so a sequence of
them reaches the limit of `tcp.rs:850`. A peer that resets while it waits in the backlog
leaves `peer_addr().expect` at `tcp.rs:591` without an address.

The comment at `tcp.rs:413` asks whether `disconnected_ids` can be removed. It can
where the selector merges the directions into one event per socket; with one event per
direction it is what makes `PendingEventsKnown` true (without it TcpAdverse
fails).

### Mutants

Each property of a passing run has a mutant: a variant of one definition, next to it
in the module and marked as such, with a plausible mistake (an edge not drained, an
interest not reregistered, a partial write that empties the buffer, a request popped
from the wrong end). With the mutant in place the run finds the property violated.

## Proofs

The type invariants of both transports and of `TransportInterface` are proved and not
checked again by the runs.

TLAPS checks the theorems below for all values of the constants, from the
assumptions named in the modules: `IdAssumption` (the range of ids is not empty),
`LimitAssumption` and `UsageAssumption` in `TcpTransport`; `BoundsAssumption` in
`TransportInterface`; those of the messenger are named below. Where nothing else is said
the theorems about TCP hold for disciplined and undisciplined use, with all faults, for
either kind of selector, with ids used once or again.

`TransportInterface_proofs`

* `TypeCorrect`.
* `WakeupsReachOwner`: NoLostWakeup. The property speaks of `poll()`; what is
  inductive (`WakeupInv`) is the same claim from the end of the collecting loop on:
  at that moment the channel is empty, and whatever enters it later is announced by
  its sender's `wake()`, which `poll()` has not yet consumed.
* `WaitersAreServed`: WaitsForSomething. Inductively (`WaitInv`) the claim begins
  with the `send()`, before the thread reaches `recv()`.
* `InterfaceImplementsService`: every step of the interface is a step of
  `RequestService` or leaves it alone, with `send_requests \o queue` as the abstract
  queue. It needs `CollectedInv`: outside the two loops `send_requests` is empty,
  so dropping the transport loses nothing but the channel.

`TcpTransport_proofs`

* `IdsNeverCollide`: IdsDistinct, through `TablesInv` (sockets and connections have
  the same ids, all in range, and `next_id` is free).
* `PendingEventsAreKnown` and `LookupsSucceed`: through `RoundInv`, which ties the
  place of the thread to the id being handled and the marks of the round: in the
  middle of an event `cur` is in the table it was found in, and an id leaves the
  tables during a round only with a mark.
* `TypeCorrect`: needs `RegisterInv` (the second loop of `accept_connections` has
  streams to register) so that the count does not go below zero, and `RoundInv` so
  that `cur` has a record.
* `InterestIsRegistered` and `OutgoingIsIntact`: through `StreamInv`, one claim per
  live connection: remembered and registered interest agree, WRITABLE is included
  while something is queued, and `sent = wire \o send_buf`. The three belong together:
  `queue_data` reregisters only when the remembered interest differs, so agreement is
  what makes its test sound.
* `NothingLostSilently`: NoSilentLoss, assuming that neither `accept()` nor
  `set_nodelay()` fails (then `fetch_events` drops the events it has collected, and
  the property is false: run TcpAcceptError). Inductively (`InformedInv`) an
  announcement in the queue of a connection that is gone is followed by its end: the
  application's view becomes open when it handles the first, and the second must
  still be there.
* `NeverPanics`: NoPanic, for the disciplined use without a reset in the backlog, and
  with `MaxSpurious = 0` included. `CalmInv` says that the readiness behind every event still to be
  handled is still there when it is handled (`EventsInv`), that a direction of a socket
  is reported once per round, and that the interest is exactly what can be served
  (`ManneredInv`): WRITABLE only with data to write.
* `ContractKept`: KeepsContract, the refinement of `ConnectionContract`, and
  `IncomingIsIntact`. Both rest on `LifeInv`, which tells the story of every id from
  the application's view, the events about the id still in `dispatch_events`
  (`Trace`), and the bytes in them (`Bytes`): `Legal` says in which order those events
  come (Connected first and once, an end last, ConnectionFailed alone, Data only
  after an announcement); `Flow` says that what the peer wrote is what the
  application got, what the events hold and what the kernel holds; when a connection is
  gone and its peer has closed in good order nothing of that is missing (`Gone`), which
  is what Disconnected needs in the end; ids from `next_id` on have no story (`Unused`).
  Every action is then shown to be, for each id, a step of the contract or
  none (`Advances`). Assumed: `ReuseIds = FALSE` (the contract gives an id one life); no
  data sent before Connected (`write_connection` may find the connection established and
  fail to write in one call, and then reports Disconnected without Connected); no failure
  of `accept()` or `set_nodelay()`. Empty sends, refusals, resets (in the backlog too),
  EINTR, either kind of selector and all sizes are covered.

`StreamLemmas` and `Framing_proofs`

The library's induction theorems take a predicate as a parameter, which the provers
cannot supply. `StreamLemmas` proves induction for a set of numbers instead
(`SetInduction`, from the fact that the order of the naturals is well founded), and
from it what `FlattenSeq` computes. `Framing_proofs` needs `FramingAssumption` only:
the base and the context size are arbitrary, and so is the codec.

* `RoundTrip`: deserializing a serialized message with anything behind it gives that
  message and the length of its frame.
* `OnlySerialized`: the converse, a message comes out only of its own frame.
* `Unambiguous`: a byte stream is cut into messages in one way only.
* `LoopSplitsBuffer`: what the loop of `fetch_events` computes. `deserialize_all` is
  a recursive function that goes forward in the buffer; the proof shows that a function
  with its equation exists and then goes by induction over the bytes left.
* `PiecesDoNotMatter`: the loop on one piece, and on its rest with the next piece
  appended, finds what the loop finds in both at once. This is what makes
  `recv_buffers` correct.

`Messenger_proofs`, for all messages that are `Serializable` (`MessagesAssumption`) and
all malformed input that is a complete frame and no message (`MalformedAssumption`).

* `InvAlways`: the inductive invariant. For each connection, the bytes the peer wrote
  are those already taken, those in a Data event and those in flight, in this order
  (`BytesKept`); the bytes taken are the frames of the messages handed out and the
  receive buffer (`BufferFits`); a connection has at most one Data event in the queue
  and its end comes later (`DataBeforeEnd`); the end of a connection the application
  believes open is in one of the two queues, behind its Connected (`EndFollows`).
* `MessagesAreThoseWritten` (MessagesAsWritten) combines the first two with
  `Unambiguous`; `StreamReassembled` (Reassembly) is the second with
  `LoopSplitsBuffer`; `BuffersOwned`
  (BuffersHaveConnections) and `EndsReach` (EndsAreReported) follow from the order of
  the events.

`MessengerSending_proofs`, for any threads, connections and contexts;
`SendingAssumption` and `SentAssumption` say that the callers and the number of calls
fit into the body of a message and that the messages are `Serializable`.

* `InvAlways`: the bytes on a connection are whole frames (`Whole`), so that the
  receiver's messages grow by one with each request executed; a message that waits is
  in no other place (`Numbered`, `Apart`); the owner's own calls never wait
  (`OwnerNeverWaits`); and a close in the queue waits behind everything its thread sent
  before (`CloseWaits`), which is CloseComesLast before it happens.
* `ServedInOrder`, `OneOrder`, `NoOvertaking`: CallersServedInOrder,
  SameOrderEverywhere, CloseComesLast.

`TlsSessions_proofs` and `TlsTransport_proofs`, for any ids, use, faults, sizes, reading
sizes and any way records are cut (`TlsIdAssumption`, `TlsLimitAssumption`,
`TlsUsageAssumption`). The first module is about sessions and one connection, as
operators; the second about the variables.

* `InvCorrect`: the inductive invariant `Inv`. The tables agree (`TablesInv`); a
  readable event of the round is about a connection whose TCP connection is known to be up
  (`RoundInv`), so that reading never meets NotConnected; and each connection satisfies
  `ConnectionInv`, which consists of
  - `Handshaken`: role, flights received, flights waiting in the session, progress of the
    peer and flights in the socket are one row of the table `Stage`. None of the five can
    be left out: what the session answers depends on what the peer has seen;
  - `Ordered`: while the handshake lasts, no plaintext precedes its last flight. This is
    what makes the loop of `read_connection` hand out nothing before the end;
  - `Registered`, `InStep`, `Silent`, `Intact`: the four properties below. `Registered`
    knows the moment inside `write_connection` between finding the TCP connection
    up and registering READABLE (`NewNow`).
* `TypeCorrect`, `InterestStaysRegistered`, `StatusAlwaysFollows`,
  `HandshakeCarriesNoData`, `OutgoingStaysIntact`: TypeOK, InterestRegistered,
  StatusFollowsSession, NoDataInHandshake and OutgoingIntact, each a part of `Inv`.
* `LifeCorrect`: the inductive invariant of the events. `QueueInv`: nothing follows an
  end, and Data for an unknown id is followed by Connected. For every id, `StoryOf`: whether
  it is in the table, whether its handshake is over, what the application believes and
  which events it is yet to handle fit together; `FlowOf`: the peer's bytes are those
  handed out, those in events and those in the socket, in this order; `UnusedOf`: ids from
  `next_id` on have no story. The story keeps what survives dropped events apart from what
  does not (`failed`).
* `NothingComesAfterEnd`, `EstablishedIsNotLost`, `DataIsAnnounced`,
  `IncomingStaysIntact`: NothingAfterEnd, EstablishedNotLost, DataAnnounced and
  IncomingIntact, each from `LifeInv`. The first holds with failing `accept()`, too; the
  others speak of the time before (`failed`), as the runs do.
* `AbortsInHandshakeOnly`: AbortsOnlyInHandshake, through `AbortInv`: the id of every event
  of the round is in a table, or marked as disconnected, or one the application has not
  been told of (`Unheard`). The last case is a handshake that has failed: it leaves no
  mark, and the property is about the lookup that then fails.

The last five assume `ReuseIds = FALSE`: an id used again meets the events of its
predecessor, which the application has not handled. Unlike the contract of TCP they need
no disciplined use: with TLS nothing is sent before the handshake is over.

Trying to prove `TypeCorrect` showed that two cases of the session's `Process` overlapped
for units that are no flights; they are disjoint now.

Only model-checked: liveness, in both transports, the interface and the messenger, which
under fairness is out of the prover's reach. Every invariant and every action property of
a run that passes is a theorem; those of the TLS events only while ids are not used again.

## Not modelled

* `bincode.rs`, `error.rs`, `lib.rs`, the dispatch in `transport/mod.rs` (no state); the
  examples, which are client programs, except as the application's loop.
* Inside rustls: cryptography, certificates, renegotiation, the alerts it sends; loading
  the TLS configuration, and failures of `ServerConnection::new` (`tls.rs:721`) with one
  that was loaded. Sending the same id twice in one `send_to_many`.
* Address resolution, logging, contents of error values, `get_listener_addresses` and
  other queries.
* Operating-system failures the code answers with `expect` other than `peer_addr`
  (registering with the selector, `local_addr`, `take_error`, `wake`).
* A blocking interface call from the owner's own thread, which would wait for itself.
* Configured limits of zero (`poll_capacity`, `max_read_size`).

## Plan

Done: both transports, the contract of TCP, the interface and its service, both halves
of the messenger. Proved: every invariant of TCP and its refinement of the contract;
every invariant of TLS; the refinement of the request service; the wire format; every
invariant of both halves of the messenger.

Next, in this order:

1. `Messenger` against an abstract message channel per connection, shown by
   refinement; an instance with a payload length that wraps around.
2. A composition of `TransportInterface` and `TcpTransport`: a close or a send from
   another thread against the round of events in progress.
