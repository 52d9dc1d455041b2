------------------------ MODULE TcpTransport_proofs -------------------------
(***************************************************************************)
(* Proofs about TcpTransport, for all values of its constants: every way   *)
(* to use the transport, every fault, either kind of selector, ids used    *)
(* once or again and again.  First the tables, the events of a round and   *)
(* the types of the variables; then what the transport hands on: the       *)
(* outgoing byte streams, the events that keep the application informed,   *)
(* the assertions that never fail, and the life of every connection id,    *)
(* which is the one ConnectionContract promises.                           *)
(***************************************************************************)
EXTENDS TcpTransport, StreamLemmas

-----------------------------------------------------------------------------
(* The maps.                                                               *)

\* HashMap::insert adds one key and leaves the other entries alone.
LEMMA WithEntries ==
  ASSUME NEW f, NEW i, NEW v
  PROVE  /\ DOMAIN With(f, i, v) = DOMAIN f \cup {i}
         /\ \A j \in DOMAIN f \cup {i} :
              With(f, i, v)[j] = IF j = i THEN v ELSE f[j]
  BY DEF With

\* HashMap::remove removes keys and leaves the other entries alone.
LEMMA WithoutEntries ==
  ASSUME NEW f, NEW S
  PROVE  /\ DOMAIN Without(f, S) = DOMAIN f \ S
         /\ \A j \in DOMAIN f \ S : Without(f, S)[j] = f[j]
  BY DEF Without, Restrict

-----------------------------------------------------------------------------
(* The tables: which ids are in use.                                       *)

TablesInv ==
  /\ DOMAIN connections \subseteq Ids
  /\ DOMAIN listeners \subseteq Ids
  /\ DOMAIN sock = DOMAIN connections
  /\ next_id \in Ids
  /\ IdsDistinct

\* Steps that allocate no id and keep or shrink the tables.
LEMMA TablesShrink ==
  ASSUME TablesInv,
         DOMAIN connections' \subseteq DOMAIN connections,
         DOMAIN listeners' \subseteq DOMAIN listeners,
         DOMAIN sock' = DOMAIN connections', next_id' = next_id
  PROVE  TablesInv'
  BY DEF TablesInv, IdsDistinct, Used

\* Steps that remove connections or listeners.
LEMMA TablesDrop ==
  ASSUME TablesInv, NEW S, DropSockets(S), UNCHANGED <<listeners, next_id>>
  PROVE  TablesInv'
<1>1. /\ DOMAIN connections' = DOMAIN connections \ S
      /\ DOMAIN sock' = DOMAIN sock \ S
  BY WithoutEntries DEF DropSockets
<1> QED
  BY <1>1, TablesShrink DEF TablesInv

\* Steps that remove listeners.
LEMMA TablesDropListeners ==
  ASSUME TablesInv, NEW S, listeners' = Without(listeners, S),
         UNCHANGED <<connections, sock, next_id>>
  PROVE  TablesInv'
<1>1. DOMAIN listeners' = DOMAIN listeners \ S
  BY WithoutEntries
<1> QED
  BY <1>1, TablesShrink DEF TablesInv

\* A new connection has an entry in both tables.
LEMMA OpenEntries ==
  ASSUME NEW c, NEW p, NEW v, OpenSocket(c, p, v)
  PROVE  /\ DOMAIN connections' = DOMAIN connections \cup {next_id}
         /\ DOMAIN sock' = DOMAIN sock \cup {next_id}
  BY WithEntries DEF OpenSocket

\* A new connection takes next_id, and the next id to give away is free.
LEMMA TablesOpen ==
  ASSUME TablesInv, NEW c, NEW p, NEW v, OpenSocket(c, p, v),
         UNCHANGED listeners
  PROVE  TablesInv'
<1>1. /\ DOMAIN connections' = DOMAIN connections \cup {next_id}
      /\ DOMAIN sock' = DOMAIN sock \cup {next_id}
  BY OpenEntries
<1>2. next_id' \in Ids \ (Used \cup {next_id})
  BY DEF OpenSocket, advance_connection_id
<1> QED
  BY <1>1, <1>2 DEF TablesInv, IdsDistinct, Used

\* A new listener takes next_id, and the next id to give away is free.
LEMMA TablesListen ==
  ASSUME TablesInv, listen
  PROVE  TablesInv'
<1>1. DOMAIN listeners' = DOMAIN listeners \cup {next_id}
  BY WithEntries DEF listen
<1>2. next_id' \in Ids \ (Used \cup {next_id})
  BY DEF listen, advance_connection_id
<1>3. UNCHANGED <<connections, sock>>
  BY DEF listen, kernel
<1> QED
  BY <1>1, <1>2, <1>3 DEF TablesInv, IdsDistinct, Used

\* The application's calls keep the tables consistent.
LEMMA TablesOperations ==
  ASSUME TablesInv, Operations
  PROVE  TablesInv'
<1> USE DEF tables, kernel, thread, app
<1>1. CASE connect
  BY <1>1, TablesOpen DEF connect
<1>2. CASE listen
  BY <1>2, TablesListen
<1>3. ASSUME NEW i \in Ids, close_connection(i)
      PROVE  TablesInv'
  BY <1>3, TablesDrop DEF close_connection
<1>4. ASSUME NEW i \in Ids, close_listener(i)
      PROVE  TablesInv'
  BY <1>4, TablesDropListeners DEF close_listener, CloseListeners
<1>5. CASE close_all_connections
  BY <1>5, TablesDrop DEF close_all_connections, CloseConnections
<1>6. CASE close_all_listeners
  BY <1>6, TablesDropListeners DEF close_all_listeners, CloseListeners
<1>7. CASE close_all
  <2>1. /\ DOMAIN connections' = {} /\ DOMAIN listeners' = {}
        /\ DOMAIN sock' = DOMAIN sock \ DOMAIN connections
    BY <1>7, WithoutEntries, ZenonT(60) DEF close_all
  <2> QED
    BY <1>7, <2>1, TablesShrink DEF close_all, TablesInv
<1>8. ASSUME NEW how, NEW S, ShutdownConnections(S, how)
      PROVE  TablesInv'
  BY <1>8, TablesShrink DEF ShutdownConnections, TablesInv
<1>9. ASSUME NEW S, NEW n, Send(S, n)
      PROVE  TablesInv'
  BY <1>9, TablesShrink DEF Send, queue_data, TablesInv
<1> QED
  BY <1>1, <1>2, <1>3, <1>4, <1>5, <1>6, <1>7, <1>8, <1>9
     DEF Operations, shutdown_connection, shutdown_all_connections, send_to,
         send_to_many, broadcast, broadcast_except, broadcast_except_many

\* The event loop keeps the tables consistent.
LEMMA TablesLoop ==
  ASSUME TablesInv, Loop \/ AppHandlesEvent \/ FetchEvents
  PROVE  TablesInv'
<1> USE DEF tables, kernel, thread, app
<1>1. CASE ReportInactive \/ Poll \/ PollFails \/ EventsDone
           \/ AppHandlesEvent \/ FetchEvents
  BY <1>1, TablesShrink DEF ReportInactive, Poll, PollFails, EventsDone,
       AppHandlesEvent, FetchEvents, TablesInv
<1>2. ASSUME NEW e \in poll_events,
             \/ HandleListener(e) \/ SkipDisconnected(e)
             \/ ReadUnconnected(e) \/ HandleWritable(e)
      PROVE  TablesInv'
  BY <1>2, TablesShrink DEF HandleListener, SkipDisconnected, ReadUnconnected,
       HandleWritable, TablesInv
<1>3. ASSUME NEW e \in poll_events, ReadDisconnected(e)
      PROVE  TablesInv'
  BY <1>3, TablesDrop DEF ReadDisconnected
<1>4. ASSUME NEW e \in poll_events, ReadData(e)
      PROVE  TablesInv'
  BY <1>4, TablesShrink DEF ReadData, TablesInv
<1>5. CASE AcceptStream \/ AcceptWouldBlock \/ RegisterLostStream
  BY <1>5, TablesShrink DEF AcceptStream, AcceptWouldBlock,
       RegisterLostStream, TablesInv
<1>6. CASE AcceptError \/ NodelayError
  <2>1. CASE AcceptError
    BY <2>1, TablesDropListeners DEF AcceptError, ReturnError
  <2>2. CASE NodelayError
    BY <2>2, TablesShrink DEF NodelayError, ReturnError, TablesInv
  <2> QED
    BY <1>6, <2>1, <2>2
<1>7. CASE RegisterStream
  BY <1>7, TablesOpen DEF RegisterStream
<1>8. CASE ConnectFailed \/ WriteFails
  BY <1>8, TablesDrop DEF ConnectFailed, WriteFails, GiveUp
<1>9. CASE ConnectEstablished
  BY <1>9, TablesShrink DEF ConnectEstablished, TablesInv
<1>10. CASE WriteData
  BY <1>10, TablesShrink DEF WriteData, TablesInv
<1> QED
  BY <1>1, <1>2, <1>3, <1>4, <1>5, <1>6, <1>7, <1>8, <1>9, <1>10, SMTT(60)
     DEF Loop, HandleEvent, Accept, Write

\* The kernel and the peers leave the tables alone.
LEMMA TablesKernel ==
  ASSUME TablesInv, Kernel
  PROVE  TablesInv'
  BY TablesShrink DEF Kernel, KernelStep, ConnectCompletes, ConnectRefused,
     PeerConnects, PeerWrites, PeerCloses, PeerResets, RoomFreed, TablesInv

\* Every step keeps the tables consistent.
LEMMA TablesStep == TablesInv /\ [Next]_vars => TablesInv'
<1>1. ASSUME TablesInv, UNCHANGED vars
      PROVE  TablesInv'
  BY <1>1, TablesShrink DEF vars, tables, kernel, TablesInv
<1> QED
  BY <1>1, TablesOperations, TablesLoop, TablesKernel DEF Next

\* Connections, listeners and sockets agree, and next_id is free, in every
\* reachable state.
THEOREM TablesCorrect == Spec => []TablesInv
<1>1. Init => TablesInv
  BY IdAssumption DEF Init, TablesInv, IdsDistinct, Used, EmptyMap, Ids
<1> QED
  BY <1>1, TablesStep, PTL DEF Spec

\* advance_connection_id never hands out an id that a connection or listener
\* holds, however often the ids wrap around.
THEOREM IdsNeverCollide == Spec => []IdsDistinct
<1>1. TablesInv => IdsDistinct
  BY DEF TablesInv
<1> QED
  BY <1>1, TablesCorrect, PTL

-----------------------------------------------------------------------------
(* One round of fetch_events: the lookups behind its assertions succeed.   *)

RoundInv ==
  /\ pc \in {"app", "requests"} => poll_events = {}
  /\ pc \in {"write", "flush_new"} => cur \in DOMAIN connections
  /\ PendingEventsKnown
  /\ panic # "unknown_id"

\* The API operations run between two rounds.
LEMMA RoundApi ==
  ASSUME RoundInv, Api, UNCHANGED <<pc, poll_events, panic>>
  PROVE  RoundInv'
  BY DEF RoundInv, Api, PendingEventsKnown

\* Steps that keep the round and the tables, or only add to the tables.
LEMMA RoundKeep ==
  ASSUME RoundInv, UNCHANGED <<pc, cur, poll_events, disconnected_ids, panic>>,
         DOMAIN connections \subseteq DOMAIN connections',
         DOMAIN listeners \subseteq DOMAIN listeners'
  PROVE  RoundInv'
  BY DEF RoundInv, PendingEventsKnown, Used

\* Steps that go on with the round: to its next event or to a panic other than
\* a failed lookup.
LEMMA RoundContinue ==
  ASSUME RoundInv, poll_events' \subseteq poll_events,
         UNCHANGED disconnected_ids,
         DOMAIN connections \subseteq DOMAIN connections',
         DOMAIN listeners \subseteq DOMAIN listeners',
         pc' \in {"events", "accept", "register", "panic"},
         panic' # "unknown_id"
  PROVE  RoundInv'
  BY DEF RoundInv, PendingEventsKnown, Used

\* A connection that is dropped is remembered for the rest of the round.
LEMMA RoundDrop ==
  ASSUME RoundInv, NEW i, DropSockets({i}), MarkDisconnected(i),
         poll_events' \subseteq poll_events, UNCHANGED <<listeners, panic>>,
         pc' = "events"
  PROVE  RoundInv'
<1>1. DOMAIN connections' = DOMAIN connections \ {i}
  BY WithoutEntries DEF DropSockets
<1> QED
  BY <1>1 DEF RoundInv, PendingEventsKnown, Used, MarkDisconnected

\* poll() reports only sockets that are registered.
LEMMA RoundPoll ==
  ASSUME TablesInv, RoundInv, Poll
  PROVE  RoundInv'
<1>1. PICK S \in SUBSET Reportable : poll_events' = UNION {EventsOf(i) : i \in S}
  BY DEF Poll
<1>2. \A i \in Reportable : i \in Used
  BY DEF Reportable, ReadReady, WriteReady, Used, TablesInv
<1>3. ASSUME NEW i, NEW e \in EventsOf(i)
      PROVE  e.id = i
  BY <1>3 DEF EventsOf, PollEvent
<1>4. \A e \in poll_events' : e.id \in Used
  BY <1>1, <1>2, <1>3
<1> QED
  BY <1>4 DEF Poll, RoundInv, PendingEventsKnown, Used, tables

\* assert!(count <= max) leads to the panic "spurious".
LEMMA TrackSpurious ==
  ASSUME NEW b, NEW next, track_spurious_wakeup(b, next),
         panic # "unknown_id"
  PROVE  pc' \in {next, "panic"} /\ panic' # "unknown_id"
  BY DEF track_spurious_wakeup

\* The application's calls come between two rounds of events.
LEMMA RoundOperations ==
  ASSUME RoundInv, Operations
  PROVE  RoundInv'
<1>1. Api /\ UNCHANGED <<pc, poll_events, panic>>
  BY DEF Operations, connect, listen, close_connection, close_listener,
     close_all_connections, close_all_listeners, close_all,
     shutdown_connection, shutdown_all_connections, ShutdownConnections,
     send_to, send_to_many, broadcast, broadcast_except,
     broadcast_except_many, Send, CloseConnections, CloseListeners,
     thread, round
<1> QED
  BY <1>1, RoundApi

\* The kernel cannot add to a poll() result already returned.
LEMMA RoundKernel ==
  ASSUME RoundInv, Kernel
  PROVE  RoundInv'
<1>1. /\ UNCHANGED <<pc, cur, poll_events, disconnected_ids, panic, connections>>
      /\ DOMAIN listeners \subseteq DOMAIN listeners'
  BY DEF Kernel, KernelStep, ConnectCompletes, ConnectRefused, PeerConnects,
     PeerWrites, PeerCloses, PeerResets, RoomFreed, thread, round
<1> QED
  BY <1>1, RoundKeep

\* Handling one event: an id leaves the tables only with a mark in
\* disconnected_ids.
LEMMA RoundEvent ==
  ASSUME RoundInv, HandleEvent
  PROVE  RoundInv'
<1> USE DEF tables, kernel, app, Take
<1>1. PICK e \in poll_events :
        \/ HandleListener(e) \/ SkipDisconnected(e)
        \/ ReadUnconnected(e) \/ ReadDisconnected(e) \/ ReadData(e)
        \/ HandleWritable(e)
  BY DEF HandleEvent
<1>2. CASE HandleListener(e)
  BY <1>2, RoundContinue DEF HandleListener, RoundInv
<1>3. CASE SkipDisconnected(e)
  <2>1. e.id \in disconnected_ids
    BY <1>3 DEF SkipDisconnected, IsConnection, IsListener, RoundInv,
       PendingEventsKnown, Used
  <2> QED
    BY <1>3, <2>1, RoundContinue DEF SkipDisconnected, RoundInv
<1>4. CASE ReadUnconnected(e)
  BY <1>4, RoundContinue DEF ReadUnconnected, Panic
<1>5. CASE ReadDisconnected(e)
  BY <1>5, RoundDrop DEF ReadDisconnected
<1>6. CASE ReadData(e)
  <2>1. /\ pc' \in {"write", "events", "panic"} /\ panic' # "unknown_id"
        /\ cur' = e.id /\ e.id \in DOMAIN connections
    BY <1>6, TrackSpurious DEF ReadData, RoundInv, IsConnection
  <2> QED
    BY <1>6, <2>1 DEF ReadData, RoundInv, PendingEventsKnown, Used
<1>7. CASE HandleWritable(e)
  BY <1>7 DEF HandleWritable, IsConnection, RoundInv, PendingEventsKnown, Used
<1> QED
  BY <1>1, <1>2, <1>3, <1>4, <1>5, <1>6, <1>7

\* accept_connections adds connections, and drops the rest of the round with
\* the listener it removes.
LEMMA RoundAccept ==
  ASSUME RoundInv, Accept
  PROVE  RoundInv'
<1> USE DEF tables, kernel, app
<1>1. CASE AcceptStream
  BY <1>1, RoundKeep DEF AcceptStream
<1>2. CASE AcceptError \/ NodelayError
  BY <1>2 DEF AcceptError, NodelayError, ReturnError, RoundInv,
     PendingEventsKnown
<1>3. CASE AcceptWouldBlock
  <2>1. pc' \in {"register", "events", "panic"} /\ panic' # "unknown_id"
    BY <1>3, TrackSpurious DEF AcceptWouldBlock, RoundInv
  <2> QED
    BY <1>3, <2>1, RoundContinue DEF AcceptWouldBlock
<1>4. CASE RegisterStream
  <2>1. pc' \in {"register", "events", "panic"} /\ panic' # "unknown_id"
    BY <1>4, TrackSpurious DEF RegisterStream, RoundInv
  <2>2. DOMAIN connections \subseteq DOMAIN connections'
    BY <1>4, OpenEntries DEF RegisterStream
  <2> QED
    BY <1>4, <2>1, <2>2, RoundContinue DEF RegisterStream
<1>5. CASE RegisterLostStream
  BY <1>5, RoundContinue DEF RegisterLostStream, Panic
<1> QED
  BY <1>1, <1>2, <1>3, <1>4, <1>5 DEF Accept

\* write_connection removes a connection only with a mark.
LEMMA RoundWrite ==
  ASSUME RoundInv, Write
  PROVE  RoundInv'
<1> USE DEF tables, kernel, app
<1>1. CASE ConnectFailed \/ WriteFails
  BY <1>1, RoundDrop DEF ConnectFailed, WriteFails, GiveUp
<1>2. CASE ConnectEstablished
  BY <1>2 DEF ConnectEstablished, round, RoundInv, PendingEventsKnown, Used
<1>3. CASE WriteData
  <2>1. pc' \in {"events", "panic"} /\ panic' # "unknown_id"
    <3>1. CASE pc = "flush_new"
      BY <1>3, <3>1 DEF WriteData, RoundInv
    <3>2. CASE pc # "flush_new"
      BY <1>3, <3>2, TrackSpurious DEF WriteData, RoundInv
    <3> QED
      BY <3>1, <3>2
  <2>2. DOMAIN connections' = DOMAIN connections
    BY <1>3 DEF WriteData
  <2>3. UNCHANGED <<listeners, poll_events, disconnected_ids>>
    BY <1>3 DEF WriteData
  <2> QED
    BY <2>1, <2>2, <2>3, RoundContinue
<1> QED
  BY <1>1, <1>2, <1>3 DEF Write

\* Every step keeps the events of the round explained.
LEMMA RoundStep == TablesInv /\ RoundInv /\ [Next]_vars => RoundInv'
<1> SUFFICES ASSUME TablesInv, RoundInv, [Next]_vars
             PROVE  RoundInv'
  OBVIOUS
<1> USE DEF thread, round, tables
<1>1. CASE AppHandlesEvent
  BY <1>1, RoundKeep DEF AppHandlesEvent
<1>2. CASE FetchEvents \/ ReportInactive \/ PollFails \/ EventsDone
  BY <1>2 DEF FetchEvents, ReportInactive, PollFails, EventsDone, RoundInv,
     PendingEventsKnown, Used
<1>3. CASE UNCHANGED vars
  BY <1>3, RoundKeep DEF vars
<1> QED
  BY <1>1, <1>2, <1>3, RoundPoll, RoundOperations, RoundKernel, RoundEvent,
     RoundAccept, RoundWrite DEF Next, Loop

\* The events of a round, the id being handled and the marks of the round agree
\* in every reachable state.
THEOREM RoundCorrect == Spec => []RoundInv
<1>1. Init => RoundInv
  BY DEF Init, RoundInv, PendingEventsKnown
<1> QED
  BY <1>1, RoundStep, TablesCorrect, PTL DEF Spec

\* "once connection cleanup is proven bug-free" (fetch_events): every event
\* that is still to be handled in a round names a listener, a connection, or an
\* id that was disconnected in this round.
THEOREM PendingEventsAreKnown == Spec => []PendingEventsKnown
<1>1. RoundInv => PendingEventsKnown
  BY DEF RoundInv
<1> QED
  BY <1>1, RoundCorrect, PTL

\* The assertion behind it, "was it properly removed after disconnect?", never
\* fires.
THEOREM LookupsSucceed == Spec => [](panic # "unknown_id")
<1>1. RoundInv => panic # "unknown_id"
  BY DEF RoundInv
<1> QED
  BY <1>1, RoundCorrect, PTL

-----------------------------------------------------------------------------
(* Records, sequences and events.                                          *)

\* A connection whose send_buf and interest are replaced is a connection.
LEMMA UpdateSendBuf ==
  ASSUME NEW c \in ConnectionRecords, NEW buf \in Seq(Nat), NEW in \in SUBSET RW
  PROVE  LET d == [c EXCEPT !.send_buf = buf, !.interest = in] IN
         /\ d \in ConnectionRecords
         /\ d.send_buf = buf /\ d.interest = in /\ d.connected = c.connected
  BY DEF ConnectionRecords

\* The bytes that continue a stream are a sequence of bytes.
LEMMA NextBytesType ==
  ASSUME NEW s \in Seq(Nat), NEW n \in Nat
  PROVE  NextBytes(s, n) \in Seq(Nat)
<1>1. Len(s) \in Nat
  BY LenProperties
<1>2. NextBytes(s, n) \in [1..n -> Nat]
  BY <1>1 DEF NextBytes
<1> QED
  BY <1>2, SeqDef

\* What write() takes is bounded by the room and by the buffer.
LEMMA LeastType ==
  ASSUME NEW a \in Nat, NEW b \in Nat
  PROVE  Least(a, b) \in Nat /\ Least(a, b) <= a /\ Least(a, b) <= b
  BY DEF Least

\* A buffer is what is written of it and what is left.
LEMMA SplitBuffer ==
  ASSUME NEW buf \in Seq(Nat), NEW n \in Nat, n <= Len(buf)
  PROVE  /\ SubSeq(buf, 1, n) \in Seq(Nat)
         /\ Unsent(buf, n) \in Seq(Nat)
         /\ buf = SubSeq(buf, 1, n) \o Unsent(buf, n)
         /\ buf = <<>> => Unsent(buf, n) = <<>>
<1>1. Len(buf) \in Nat /\ \A i \in 1..Len(buf) : buf[i] \in Nat
  BY LenProperties, ElementOfSeq
<1>2. SubSeq(buf, 1, n) \in Seq(Nat) /\ Unsent(buf, n) \in Seq(Nat)
  <2>1. SubSeq(buf, 1, n) \in Seq(Nat)
    <3>1. \A i \in 1..n : buf[i] \in Nat
      BY <1>1
    <3> QED
      BY <3>1, SubSeqProperties
  <2>2. SubSeq(buf, n + 1, Len(buf)) \in Seq(Nat)
    <3>1. /\ \A i \in (n + 1)..Len(buf) : buf[i] \in Nat
          /\ n + 1 \in Int /\ Len(buf) \in Int
      BY <1>1
    <3> QED
      BY <3>1, SubSeqProperties
  <2> QED
    BY <2>1, <2>2 DEF Unsent
<1>3. SubSeq(buf, 1, Len(buf)) = SubSeq(buf, 1, n) \o SubSeq(buf, n + 1, Len(buf))
  <2>1. 1 \in 1..Len(buf)+1 /\ n \in 1-1..Len(buf) /\ Len(buf) \in n..Len(buf)
    BY <1>1
  <2> QED
    BY <2>1, ConcatAdjacentSubSeq
<1>4. SubSeq(buf, 1, Len(buf)) = buf
  BY SubSeqFull
<1>5. buf = <<>> => Unsent(buf, n) = <<>>
  BY <1>1, SubSeqEmpty DEF Unsent
<1> QED
  BY <1>2, <1>3, <1>4, <1>5 DEF Unsent

\* The events about a known id are well-formed.
LEMMA EventTypes ==
  ASSUME NEW i \in Ids
  PROVE  /\ Connected(i) \in EventRecords
         /\ ConnectionFailed(i) \in EventRecords
         /\ Disconnected(i) \in EventRecords
         /\ \A d \in Seq(Nat) : Data(i, d) \in EventRecords
  BY DEF Connected, ConnectionFailed, Disconnected, Data, EventRecords

\* What read_connection reports is well-formed.
LEMMA ReadEventTypes ==
  ASSUME NEW i \in Ids, NEW d \in Seq(Nat)
  PROVE  /\ DataIfAny(i, d) \in Seq(EventRecords)
         /\ LastEvents(i, d) \in Seq(EventRecords)
<1>1. DataIfAny(i, d) \in Seq(EventRecords)
  BY EventTypes, EmptySeq DEF DataIfAny
<1>2. <<Disconnected(i)>> \in Seq(EventRecords)
  BY EventTypes
<1> QED
  BY <1>1, <1>2, ConcatProperties DEF LastEvents

\* The variables of an established or attempted connection.
TableTypes ==
  /\ DOMAIN connections \subseteq Ids
  /\ \A i \in DOMAIN connections : connections[i] \in ConnectionRecords
  /\ DOMAIN listeners \subseteq Ids
  /\ \A i \in DOMAIN listeners : listeners[i] \in Nat
  /\ DOMAIN sock \subseteq Ids
  /\ \A i \in DOMAIN sock : sock[i] \in SocketRecords
  /\ next_id \in Ids

LoopTypes ==
  /\ spurious_wakeups \in Nat
  /\ pc \in {"app", "requests", "events", "accept", "register", "write",
             "flush_new", "panic"}
  /\ panic \in {"none", "spurious", "unknown_id", "read_before_connected",
                "peer_addr"}
  /\ poll_events \subseteq [id : Ids, readable : BOOLEAN, writable : BOOLEAN]
  /\ cur \in Ids /\ new_streams \in Nat /\ disconnected_ids \subseteq Ids
  /\ dispatch_events \in Seq(EventRecords)

WorldTypes ==
  /\ ready \subseteq Ids
  /\ peer \in [Ids -> {"up", "fin", "lost"}]
  /\ view \in [Ids -> {"new", "connecting", "open"} \cup Ended]
  /\ sent \in [Ids -> Seq(Nat)] /\ wire \in [Ids -> Seq(Nat)]
  /\ fed \in [Ids -> Seq(Nat)] /\ got \in [Ids -> Seq(Nat)]

\* The type invariant, split into the tables, the loop and the world.
LEMMA TypeParts == TypeOK <=> TableTypes /\ LoopTypes /\ WorldTypes
  BY DEF TypeOK, TableTypes, LoopTypes, WorldTypes

\* The same for the next state.
LEMMA TypePartsNext ==
  ASSUME TableTypes', LoopTypes', WorldTypes'
  PROVE  TypeOK'
  BY DEF TypeOK, TableTypes, LoopTypes, WorldTypes

\* Removing connections keeps the tables well-typed.
LEMMA DropTypes ==
  ASSUME TableTypes, NEW S, DropSockets(S), UNCHANGED <<listeners, next_id>>
  PROVE  TableTypes' /\ ready' \subseteq ready
<1>1. /\ DOMAIN connections' = DOMAIN connections \ S
      /\ \A j \in DOMAIN connections \ S : connections'[j] = connections[j]
      /\ DOMAIN sock' = DOMAIN sock \ S
      /\ \A j \in DOMAIN sock \ S : sock'[j] = sock[j]
  BY WithoutEntries DEF DropSockets
<1> QED
  BY <1>1 DEF TableTypes, DropSockets

\* Opening a connection keeps tables and histories well-typed.
LEMMA OpenTypes ==
  ASSUME TableTypes, WorldTypes, NEW c \in ConnectionRecords,
         NEW p \in {"syn", "est"}, NEW v \in {"new", "connecting"},
         OpenSocket(c, p, v), UNCHANGED <<listeners, ready>>
  PROVE  TableTypes' /\ WorldTypes'
<1> DEFINE s == [phase |-> p, rx |-> <<>>, room |-> MaxRoom, rdshut |-> FALSE,
                 wrshut |-> FALSE, interest |-> c.interest]
<1>1. s \in SocketRecords
  BY LimitAssumption, EmptySeq DEF SocketRecords, ConnectionRecords
<1>2. /\ DOMAIN connections' = DOMAIN connections \cup {next_id}
      /\ \A j \in DOMAIN connections' :
           connections'[j] = IF j = next_id THEN c ELSE connections[j]
      /\ DOMAIN sock' = DOMAIN sock \cup {next_id}
      /\ \A j \in DOMAIN sock' : sock'[j] = IF j = next_id THEN s ELSE sock[j]
  <2>1. /\ connections' = With(connections, next_id, c)
        /\ sock' = With(sock, next_id, s)
    BY DEF OpenSocket
  <2> HIDE DEF s
  <2>2. /\ DOMAIN connections' = DOMAIN connections \cup {next_id}
        /\ \A j \in DOMAIN connections' :
             connections'[j] = IF j = next_id THEN c ELSE connections[j]
    BY <2>1 DEF With
  <2>3. /\ DOMAIN sock' = DOMAIN sock \cup {next_id}
        /\ \A j \in DOMAIN sock' : sock'[j] = IF j = next_id THEN s ELSE sock[j]
    BY <2>1 DEF With
  <2> QED
    BY <2>2, <2>3
<1>3. next_id' \in Ids
  BY DEF OpenSocket, advance_connection_id
<1>4. TableTypes'
  BY <1>1, <1>2, <1>3 DEF TableTypes
<1>5. WorldTypes'
  BY EmptySeq DEF WorldTypes, OpenSocket, TableTypes
<1> QED
  BY <1>4, <1>5

\* shutdown(2) changes a socket, never its registration.
LEMMA ShutdownType ==
  ASSUME NEW s \in SocketRecords, NEW how
  PROVE  /\ ShutdownSocket(s, how) \in SocketRecords
         /\ ShutdownSocket(s, how).interest = s.interest
  BY DEF ShutdownSocket, SocketRecords

\* What queue_data does to one connection.
LEMMA QueueTypes ==
  ASSUME TableTypes, WorldTypes, TablesInv, NEW S, NEW n \in Nat,
         queue_data(S, n),
         UNCHANGED <<listeners, next_id, peer, view, wire, fed, got>>
  PROVE  TableTypes' /\ WorldTypes'
<1>1. ASSUME NEW i \in DOMAIN connections
      PROVE  connections'[i] \in ConnectionRecords
  <2>1. connections[i] \in ConnectionRecords /\ connections[i].send_buf \in Seq(Nat)
        /\ sent[i] \in Seq(Nat)
    BY DEF TableTypes, WorldTypes, ConnectionRecords
  <2>2. connections[i].send_buf \o NextBytes(sent[i], n) \in Seq(Nat)
    BY <2>1, NextBytesType, ConcatProperties
  <2>3. CASE i \in S
    BY <2>1, <2>2, <2>3, UpdateSendBuf DEF queue_data
  <2>4. CASE i \notin S
    BY <2>1, <2>4 DEF queue_data
  <2> QED
    BY <2>3, <2>4
<1>2. ASSUME NEW i \in DOMAIN sock
      PROVE  sock'[i] \in SocketRecords
  <2>1. sock[i] \in SocketRecords
    BY DEF TableTypes
  <2>2. [sock[i] EXCEPT !.interest = RW] \in SocketRecords
    BY <2>1 DEF SocketRecords
  <2> QED
    BY <2>1, <2>2 DEF queue_data
<1>3. DOMAIN connections' = DOMAIN connections /\ DOMAIN sock' = DOMAIN sock
  BY DEF queue_data
<1>4. TableTypes'
  BY <1>1, <1>2, <1>3 DEF TableTypes
<1>5. sent' \in [Ids -> Seq(Nat)]
  <2>1. ASSUME NEW i \in Ids
        PROVE  sent[i] \o NextBytes(sent[i], n) \in Seq(Nat) /\ sent[i] \in Seq(Nat)
    BY NextBytesType, ConcatProperties DEF WorldTypes
  <2> QED
    BY <2>1 DEF queue_data
<1>6. ready' \subseteq Ids
  BY DEF queue_data, Reregistered, WorldTypes, TableTypes
<1> QED
  BY <1>4, <1>5, <1>6 DEF WorldTypes

\* The application's calls keep the types.
LEMMA OperationTypes ==
  ASSUME TypeOK, TablesInv, Operations
  PROVE  TypeOK'
<1>0. TableTypes /\ LoopTypes /\ WorldTypes
  BY TypeParts
<1>loop. LoopTypes'
  <2>1. UNCHANGED <<spurious_wakeups, thread, dispatch_events>>
    BY DEF Operations, connect, listen, close_connection, close_listener,
       close_all_connections, close_all_listeners, close_all,
       shutdown_connection, shutdown_all_connections, ShutdownConnections,
       send_to, send_to_many, broadcast, broadcast_except,
       broadcast_except_many, Send, CloseConnections, CloseListeners
  <2> QED
    BY <1>0, <2>1 DEF LoopTypes, thread, round
<1> USE <1>0 DEF tables, kernel, app, histories
<1>1. CASE connect
  <2>1. [connected |-> FALSE, interest |-> ConnectInterest, send_buf |-> <<>>]
          \in ConnectionRecords
    BY EmptySeq DEF ConnectionRecords, ConnectInterest, RW
  <2> QED
    BY <1>1, <1>loop, <2>1, OpenTypes, TypePartsNext DEF connect
<1>2. CASE listen
  <2>1. /\ DOMAIN listeners' = DOMAIN listeners \cup {next_id}
        /\ \A j \in DOMAIN listeners' :
             listeners'[j] = IF j = next_id THEN 0 ELSE listeners[j]
    BY <1>2 DEF listen, With
  <2>2. next_id' \in Ids
    BY <1>2 DEF listen, advance_connection_id
  <2>3. UNCHANGED <<connections, kernel, app>>
    BY <1>2 DEF listen
  <2>4. TableTypes'
    BY <2>1, <2>2, <2>3 DEF TableTypes
  <2>5. WorldTypes'
    BY <2>3 DEF WorldTypes
  <2> QED
    BY <1>loop, <2>4, <2>5, TypePartsNext
<1>3. ASSUME NEW i \in Ids, close_connection(i)
      PROVE  TypeOK'
  <2>1. TableTypes' /\ ready' \subseteq ready
    BY <1>3, DropTypes DEF close_connection
  <2>2. WorldTypes'
    BY <1>3, <2>1 DEF close_connection, WorldTypes, Ended
  <2> QED
    BY <1>loop, <2>1, <2>2, TypePartsNext
<1>4. ASSUME NEW S, CloseListeners(S)
      PROVE  TypeOK'
  <2>1. /\ DOMAIN listeners' = DOMAIN listeners \ S
        /\ \A j \in DOMAIN listeners \ S : listeners'[j] = listeners[j]
    BY <1>4, WithoutEntries DEF CloseListeners
  <2>2. TableTypes' /\ WorldTypes'
    BY <1>4, <2>1 DEF CloseListeners, TableTypes, WorldTypes
  <2> QED
    BY <1>loop, <2>2, TypePartsNext
<1>5. CASE close_all_connections
  <2>1. TableTypes' /\ ready' \subseteq ready
    BY <1>5, DropTypes DEF close_all_connections, CloseConnections
  <2>2. WorldTypes'
    BY <1>5, <2>1 DEF close_all_connections, CloseConnections, WorldTypes, Ended
  <2> QED
    BY <1>loop, <2>1, <2>2, TypePartsNext
<1>6. CASE close_all
  <2>1. /\ DOMAIN connections' = {} /\ DOMAIN listeners' = {}
        /\ DOMAIN sock' = DOMAIN sock \ DOMAIN connections
    BY <1>6, WithoutEntries, ZenonT(60) DEF close_all
  <2>2. TableTypes'
    BY <1>6, <2>1 DEF close_all, TableTypes, TablesInv
  <2>3. WorldTypes'
    BY <1>6 DEF close_all, WorldTypes, Ended
  <2> QED
    BY <1>loop, <2>2, <2>3, TypePartsNext
<1>7. ASSUME NEW how, NEW S, ShutdownConnections(S, how)
      PROVE  TypeOK'
  <2>1. \A i \in DOMAIN sock' : sock'[i] \in SocketRecords
    BY <1>7, ShutdownType DEF ShutdownConnections, TableTypes
  <2>2. DOMAIN sock' = DOMAIN sock
    BY <1>7 DEF ShutdownConnections
  <2>3. TableTypes'
    BY <1>7, <2>1, <2>2 DEF ShutdownConnections, TableTypes
  <2>4. WorldTypes'
    BY <1>7 DEF ShutdownConnections, WorldTypes, TableTypes
  <2> QED
    BY <1>loop, <2>3, <2>4, TypePartsNext
<1>8. ASSUME NEW S, NEW n \in 0..MaxSend, Send(S, n)
      PROVE  TypeOK'
  <2>1. n \in Nat
    BY LimitAssumption
  <2> QED
    BY <1>8, <1>loop, <2>1, QueueTypes, TypePartsNext DEF Send
<1> QED
  BY <1>1, <1>2, <1>3, <1>4, <1>5, <1>6, <1>7, <1>8
     DEF Operations, close_listener, close_all_listeners, shutdown_connection,
         shutdown_all_connections, send_to, send_to_many, broadcast,
         broadcast_except, broadcast_except_many

\* A socket with one field replaced is a socket.
LEMMA SocketUpdate ==
  ASSUME NEW s \in SocketRecords
  PROVE  /\ \A ph \in {"est", "err"} : [s EXCEPT !.phase = ph] \in SocketRecords
         /\ \A b \in Seq(Nat) : [s EXCEPT !.rx = b] \in SocketRecords
         /\ \A r \in Nat : [s EXCEPT !.room = r] \in SocketRecords
<1>1. ASSUME NEW ph \in {"est", "err"}
      PROVE  [s EXCEPT !.phase = ph] \in SocketRecords
  BY DEF SocketRecords
<1>2. ASSUME NEW b \in Seq(Nat)
      PROVE  [s EXCEPT !.rx = b] \in SocketRecords
  BY DEF SocketRecords
<1>3. ASSUME NEW r \in Nat
      PROVE  [s EXCEPT !.room = r] \in SocketRecords
  BY DEF SocketRecords
<1> QED
  BY <1>1, <1>2, <1>3

\* The kernel and the peers keep the types.
LEMMA KernelTypes ==
  ASSUME TypeOK, Kernel
  PROVE  TypeOK'
<1>0. TableTypes /\ LoopTypes /\ WorldTypes
  BY TypeParts
<1>1. LoopTypes'
  <2>1. UNCHANGED <<spurious_wakeups, thread, dispatch_events>>
    BY DEF Kernel, KernelStep, ConnectCompletes, ConnectRefused, PeerConnects,
       PeerWrites, PeerCloses, PeerResets, RoomFreed
  <2> QED
    BY <1>0, <2>1 DEF LoopTypes, thread, round
<1>2. PICK i \in Ids :
        \/ ConnectCompletes(i) \/ ConnectRefused(i) \/ PeerConnects(i)
        \/ PeerWrites(i) \/ PeerCloses(i) \/ PeerResets(i) \/ RoomFreed(i)
  BY DEF Kernel
<1>3. ASSUME i \in DOMAIN sock
      PROVE  /\ \A ph \in {"est", "err"} :
                  [sock[i] EXCEPT !.phase = ph] \in SocketRecords
             /\ \A b \in Seq(Nat) : [sock[i] EXCEPT !.rx = b] \in SocketRecords
             /\ [sock[i] EXCEPT !.room = @ + 1] \in SocketRecords
             /\ sock[i].rx \in Seq(Nat)
  <2>1. sock[i] \in SocketRecords
    BY <1>0, <1>3 DEF TableTypes
  <2>2. sock[i].room + 1 \in Nat
    BY <2>1 DEF SocketRecords
  <2> QED
    BY <2>1, <2>2, SocketUpdate DEF SocketRecords
<1>4. fed[i] \o NextBytes(fed[i], 1) \in Seq(Nat) /\ NextBytes(fed[i], 1) \in Seq(Nat)
  BY <1>0, NextBytesType, ConcatProperties DEF WorldTypes
<1>5. UNCHANGED <<connections, next_id>>
  BY <1>2 DEF KernelStep, ConnectCompletes, ConnectRefused, PeerConnects,
     PeerWrites, PeerCloses, PeerResets, RoomFreed
<1>6. TableTypes'
  <2>1. CASE UNCHANGED listeners /\ \E r \in SocketRecords : sock' = [sock EXCEPT ![i] = r]
    BY <1>0, <1>5, <2>1 DEF TableTypes
  <2>2. CASE UNCHANGED <<listeners, sock>>
    BY <1>0, <1>5, <2>2 DEF TableTypes
  <2>3. CASE PeerConnects(i)
    BY <1>0, <1>5, <2>3 DEF TableTypes, PeerConnects
  <2>4. CASE ConnectCompletes(i)
    BY <1>3, <2>1, <2>4 DEF ConnectCompletes
  <2>5. CASE ConnectRefused(i)
    BY <1>3, <2>1, <2>5 DEF ConnectRefused
  <2>6. CASE PeerWrites(i)
    <3>1. sock[i].rx \o NextBytes(fed[i], 1) \in Seq(Nat)
      BY <1>3, <1>4, <2>6, ConcatProperties DEF PeerWrites
    <3>2. sock' = [sock EXCEPT ![i] =
                    [sock[i] EXCEPT !.rx = sock[i].rx \o NextBytes(fed[i], 1)]]
      BY <2>6 DEF PeerWrites
    <3> QED
      BY <1>3, <2>1, <2>6, <3>1, <3>2 DEF PeerWrites
  <2>7. CASE PeerCloses(i)
    BY <2>2, <2>7 DEF PeerCloses
  <2>8. CASE PeerResets(i)
    BY <1>3, <2>1, <2>8 DEF PeerResets
  <2>9. CASE RoomFreed(i)
    BY <1>3, <2>1, <2>9 DEF RoomFreed
  <2> QED
    BY <1>2, <2>3, <2>4, <2>5, <2>6, <2>7, <2>8, <2>9
<1>7. WorldTypes'
  BY <1>0, <1>2, <1>4, ZenonT(60) DEF WorldTypes, KernelStep, ConnectCompletes,
     ConnectRefused, PeerConnects, PeerWrites, PeerCloses, PeerResets,
     RoomFreed, histories
<1> QED
  BY <1>1, <1>6, <1>7, TypePartsNext

\* track_spurious_wakeup counts, and goes on or panics.
LEMMA TrackTypes ==
  ASSUME LoopTypes, NEW b \in BOOLEAN, NEW next, track_spurious_wakeup(b, next)
  PROVE  /\ spurious_wakeups' \in Nat
         /\ pc' \in {next, "panic"}
         /\ panic' \in {panic, "spurious"}
  BY DEF LoopTypes, track_spurious_wakeup

\* accept_connections registers as many streams as it accepted.
RegisterInv == pc = "register" => new_streams > 0

\* accept_connections keeps the types; RegisterInv keeps its count of
\* streams from going below zero.
LEMMA AcceptTypes ==
  ASSUME TypeOK, RegisterInv, Accept
  PROVE  TypeOK'
<1>0. TableTypes /\ LoopTypes /\ WorldTypes
  BY TypeParts
<1> USE <1>0 DEF tables, kernel, app, histories
<1>1. CASE AcceptStream
  <2>1. TableTypes'
    BY <1>1 DEF AcceptStream, TableTypes
  <2>2. LoopTypes' /\ WorldTypes'
    BY <1>1 DEF AcceptStream, LoopTypes, WorldTypes
  <2> QED
    BY <2>1, <2>2, TypePartsNext
<1>2. CASE AcceptError
  <2>1. /\ DOMAIN listeners' = DOMAIN listeners \ {cur}
        /\ \A j \in DOMAIN listeners \ {cur} : listeners'[j] = listeners[j]
    BY <1>2, WithoutEntries DEF AcceptError
  <2>2. TableTypes'
    BY <1>2, <2>1 DEF AcceptError, ReturnError, TableTypes
  <2>3. LoopTypes' /\ WorldTypes'
    BY <1>2, EmptySeq DEF AcceptError, ReturnError, LoopTypes, WorldTypes
  <2> QED
    BY <2>2, <2>3, TypePartsNext
<1>3. CASE NodelayError
  <2>1. TableTypes'
    BY <1>3 DEF NodelayError, ReturnError, TableTypes
  <2>2. LoopTypes' /\ WorldTypes'
    BY <1>3, EmptySeq DEF NodelayError, ReturnError, LoopTypes, WorldTypes
  <2> QED
    BY <2>1, <2>2, TypePartsNext
<1>4. CASE AcceptWouldBlock
  <2>1. TableTypes' /\ WorldTypes'
    BY <1>4 DEF AcceptWouldBlock, TableTypes, WorldTypes
  <2>2. /\ spurious_wakeups' \in Nat /\ pc' \in {"events", "panic", "register"}
        /\ panic' \in {panic, "spurious"}
    BY <1>4, TrackTypes DEF AcceptWouldBlock, LoopTypes
  <2>3. LoopTypes'
    BY <1>4, <2>2 DEF AcceptWouldBlock, LoopTypes
  <2> QED
    BY <2>1, <2>3, TypePartsNext
<1>5. CASE RegisterStream
  <2>1. [connected |-> TRUE, interest |-> {"R"}, send_buf |-> <<>>]
          \in ConnectionRecords
    BY EmptySeq DEF ConnectionRecords, RW
  <2>2. TableTypes' /\ WorldTypes'
    BY <1>5, <2>1, OpenTypes DEF RegisterStream
  <2>3. /\ spurious_wakeups' \in Nat /\ pc' \in {"events", "panic", "register"}
        /\ panic' \in {panic, "spurious"}
    BY <1>5, TrackTypes DEF RegisterStream, LoopTypes
  <2>4. dispatch_events' \in Seq(EventRecords)
    <3>1. Connected(next_id) \in EventRecords
      BY EventTypes DEF TableTypes
    <3> QED
      BY <1>5, <3>1, AppendProperties DEF RegisterStream, LoopTypes
  <2>5. new_streams' \in Nat
    BY <1>5 DEF RegisterStream, RegisterInv, LoopTypes
  <2>6. LoopTypes'
    BY <1>5, <2>3, <2>4, <2>5 DEF RegisterStream, LoopTypes
  <2> QED
    BY <2>2, <2>6, TypePartsNext
<1>6. CASE RegisterLostStream
  <2>1. TableTypes' /\ WorldTypes' /\ LoopTypes'
    BY <1>6 DEF RegisterLostStream, Panic, TableTypes, WorldTypes, LoopTypes
  <2> QED
    BY <2>1, TypePartsNext
<1> QED
  BY <1>1, <1>2, <1>3, <1>4, <1>5, <1>6 DEF Accept

\* Handling one event of poll() keeps the types.
LEMMA EventHandlingTypes ==
  ASSUME TypeOK, TablesInv, HandleEvent
  PROVE  TypeOK'
<1>0. TableTypes /\ LoopTypes /\ WorldTypes
  BY TypeParts
<1>1. PICK e \in poll_events :
        \/ HandleListener(e) \/ SkipDisconnected(e)
        \/ ReadUnconnected(e) \/ ReadDisconnected(e) \/ ReadData(e)
        \/ HandleWritable(e)
  BY DEF HandleEvent
<1>2. e \in [id : Ids, readable : BOOLEAN, writable : BOOLEAN]
  BY <1>0 DEF LoopTypes
<1>3. e.id \in Ids
  BY <1>2
<1> USE <1>0 DEF tables, kernel, app, histories, Take
<1>4. CASE \/ HandleListener(e) \/ SkipDisconnected(e)
           \/ ReadUnconnected(e) \/ HandleWritable(e)
  <2>1. UNCHANGED <<tables, kernel, app, spurious_wakeups, new_streams,
                    disconnected_ids, dispatch_events>>
        /\ poll_events' \subseteq poll_events /\ cur' = e.id
    BY <1>4 DEF HandleListener, SkipDisconnected, ReadUnconnected,
       HandleWritable
  <2>2. /\ pc' \in {"events", "accept", "write", "panic"}
        /\ panic' \in {panic, "unknown_id", "read_before_connected"}
    BY <1>4 DEF HandleListener, SkipDisconnected, ReadUnconnected,
       HandleWritable, Panic
  <2>3. TableTypes' /\ WorldTypes'
    BY <2>1 DEF TableTypes, WorldTypes
  <2>4. LoopTypes'
    BY <1>3, <2>1, <2>2 DEF LoopTypes
  <2> QED
    BY <2>3, <2>4, TypePartsNext
<1>5. CASE ReadDisconnected(e)
  <2>1. TableTypes' /\ ready' \subseteq ready
    BY <1>5, DropTypes DEF ReadDisconnected
  <2>2. WorldTypes'
    BY <1>5, <2>1 DEF ReadDisconnected, WorldTypes
  <2>3. sock[e.id] \in SocketRecords /\ sock[e.id].rx \in Seq(Nat)
    BY <1>5 DEF ReadDisconnected, IsConnection, TablesInv, TableTypes,
       SocketRecords
  <2>4. dispatch_events' \in Seq(EventRecords)
    BY <1>3, <1>5, <2>3, ReadEventTypes, ConcatProperties
       DEF ReadDisconnected, LoopTypes
  <2>5. LoopTypes'
    BY <1>3, <1>5, <2>4 DEF ReadDisconnected, MarkDisconnected, LoopTypes
  <2> QED
    BY <2>1, <2>2, <2>5, TypePartsNext
<1>6. CASE ReadData(e)
  <2>1. e.id \in DOMAIN sock
    BY <1>6 DEF ReadData, IsConnection, TablesInv
  <2>2. sock[e.id] \in SocketRecords /\ sock[e.id].rx \in Seq(Nat)
    BY <2>1 DEF TableTypes, SocketRecords
  <2>3. sock' = [sock EXCEPT ![e.id] = [sock[e.id] EXCEPT !.rx = <<>>]]
    BY <1>6 DEF ReadData
  <2>4. [sock[e.id] EXCEPT !.rx = <<>>] \in SocketRecords
    BY <2>2, SocketUpdate, EmptySeq
  <2>5. TableTypes'
    BY <1>6, <2>3, <2>4 DEF ReadData, TableTypes
  <2>6. WorldTypes'
    BY <1>6 DEF ReadData, WorldTypes
  <2>7. dispatch_events' \in Seq(EventRecords)
    BY <1>3, <1>6, <2>2, ReadEventTypes, ConcatProperties
       DEF ReadData, LoopTypes
  <2>8. /\ spurious_wakeups' \in Nat /\ pc' \in {"events", "panic", "write"}
        /\ panic' \in {panic, "spurious"}
    BY <1>6, TrackTypes DEF ReadData
  <2>9. LoopTypes'
    BY <1>3, <1>6, <2>7, <2>8 DEF ReadData, LoopTypes
  <2> QED
    BY <2>5, <2>6, <2>9, TypePartsNext
<1> QED
  BY <1>1, <1>4, <1>5, <1>6

\* What the write loop did: n bytes went from send_buf to the kernel.
LEMMA WriteEffect ==
  ASSUME TypeOK, TablesInv, RoundInv, WriteData
  PROVE  \E n \in Nat, in \in SUBSET RW :
           LET buf == connections[cur].send_buf IN
           /\ cur \in DOMAIN connections /\ buf \in Seq(Nat) /\ n <= Len(buf)
           /\ in = InterestAfterWrite(Unsent(buf, n), connections[cur].interest)
           /\ connections' = [connections EXCEPT ![cur] =
                [connections[cur] EXCEPT !.send_buf = Unsent(buf, n),
                                         !.interest = in]]
           /\ sock' = [sock EXCEPT ![cur] =
                [sock[cur] EXCEPT !.room = @ - n,
                                  !.interest = IF in # connections[cur].interest
                                               THEN in ELSE @]]
           /\ sock[cur].room - n \in Nat
           /\ wire' = [wire EXCEPT ![cur] = @ \o SubSeq(buf, 1, n)]
<1> DEFINE buf == connections[cur].send_buf
           n == Least(sock[cur].room, Len(buf))
           in == InterestAfterWrite(Unsent(buf, n), connections[cur].interest)
<1>1. cur \in DOMAIN connections /\ cur \in DOMAIN sock
  BY DEF WriteData, Flushing, RoundInv, TablesInv
<1>2. connections[cur] \in ConnectionRecords /\ sock[cur] \in SocketRecords
  BY <1>1 DEF TypeOK
<1>3. /\ buf \in Seq(Nat) /\ connections[cur].interest \in SUBSET RW
      /\ sock[cur].room \in Nat
  BY <1>2 DEF ConnectionRecords, SocketRecords
<1>4. Len(buf) \in Nat
  BY <1>3, LenProperties
<1>5. n \in Nat /\ n <= Len(buf) /\ sock[cur].room - n \in Nat
  <2> HIDE DEF buf
  <2>1. n \in Nat /\ n <= Len(buf) /\ n <= sock[cur].room
    BY <1>3, <1>4, LeastType
  <2> HIDE DEF n
  <2> QED
    BY <2>1, <1>3
<1>6. in \in SUBSET RW
  BY <1>3 DEF InterestAfterWrite, RW
<1>7. /\ connections' = [connections EXCEPT ![cur] =
           [connections[cur] EXCEPT !.send_buf = Unsent(buf, n), !.interest = in]]
      /\ sock' = [sock EXCEPT ![cur] =
           [sock[cur] EXCEPT !.room = @ - n,
                             !.interest = IF in # connections[cur].interest
                                          THEN in ELSE @]]
      /\ wire' = [wire EXCEPT ![cur] = @ \o SubSeq(buf, 1, n)]
  BY DEF WriteData
<1> QED
  BY <1>1, <1>3, <1>5, <1>6, <1>7

\* Removing a broken connection and reporting it keeps the types.
LEMMA GiveUpTypes ==
  ASSUME TypeOK, NEW ev \in EventRecords, GiveUp(ev),
         peer' \in [Ids -> {"up", "fin", "lost"}]
  PROVE  TypeOK'
<1>0. TableTypes /\ LoopTypes /\ WorldTypes
  BY TypeParts
<1>1. TableTypes' /\ ready' \subseteq ready
  BY <1>0, DropTypes DEF GiveUp
<1>2. WorldTypes'
  BY <1>0, <1>1 DEF GiveUp, WorldTypes, app, histories
<1>3. dispatch_events' \in Seq(EventRecords)
  BY <1>0, AppendProperties DEF GiveUp, LoopTypes
<1>4. LoopTypes'
  BY <1>0, <1>3 DEF GiveUp, MarkDisconnected, LoopTypes
<1> QED
  BY <1>1, <1>2, <1>4, TypePartsNext

\* write_connection keeps the types.
LEMMA WriteTypes ==
  ASSUME TypeOK, TablesInv, RoundInv, Write
  PROVE  TypeOK'
<1>0. TableTypes /\ LoopTypes /\ WorldTypes
  BY TypeParts
<1> USE <1>0 DEF tables, kernel, app, histories
<1>1. cur \in Ids /\ Connected(cur) \in EventRecords
      /\ ConnectionFailed(cur) \in EventRecords
      /\ Disconnected(cur) \in EventRecords
  BY EventTypes DEF LoopTypes
<1>2. CASE ConnectFailed
  BY <1>1, <1>2, GiveUpTypes DEF ConnectFailed, WorldTypes
<1>3. CASE WriteFails
  <2>1. peer' \in [Ids -> {"up", "fin", "lost"}]
    BY <1>3 DEF WriteFails, WorldTypes
  <2> QED
    BY <1>1, <1>3, <2>1, GiveUpTypes DEF WriteFails
<1>4. CASE ConnectEstablished
  <2>1. cur \in DOMAIN connections
    BY <1>4 DEF ConnectEstablished, RoundInv
  <2>2. [connections[cur] EXCEPT !.connected = TRUE] \in ConnectionRecords
    BY <2>1 DEF TableTypes, ConnectionRecords
  <2>3. connections' = [connections EXCEPT ![cur] =
                          [connections[cur] EXCEPT !.connected = TRUE]]
    BY <1>4 DEF ConnectEstablished
  <2>4. TableTypes'
    BY <1>4, <2>2, <2>3 DEF ConnectEstablished, TableTypes
  <2>5. LoopTypes' /\ WorldTypes'
    BY <1>4, Zenon DEF ConnectEstablished, LoopTypes, WorldTypes, round
  <2> QED
    BY <2>4, <2>5, TypePartsNext
<1>5. CASE WriteData
  <2> DEFINE buf == connections[cur].send_buf
  <2>1. PICK n \in Nat, in \in SUBSET RW :
          /\ cur \in DOMAIN connections /\ buf \in Seq(Nat) /\ n <= Len(buf)
          /\ connections' = [connections EXCEPT ![cur] =
               [connections[cur] EXCEPT !.send_buf = Unsent(buf, n),
                                        !.interest = in]]
          /\ sock' = [sock EXCEPT ![cur] =
               [sock[cur] EXCEPT !.room = @ - n,
                                 !.interest = IF in # connections[cur].interest
                                              THEN in ELSE @]]
          /\ sock[cur].room - n \in Nat
          /\ wire' = [wire EXCEPT ![cur] = @ \o SubSeq(buf, 1, n)]
    BY <1>5, WriteEffect
  <2>2. SubSeq(buf, 1, n) \in Seq(Nat) /\ Unsent(buf, n) \in Seq(Nat)
    BY <2>1, SplitBuffer
  <2>3. connections[cur] \in ConnectionRecords /\ sock[cur] \in SocketRecords
    BY <2>1 DEF TableTypes, TablesInv
  <2>4. [connections[cur] EXCEPT !.send_buf = Unsent(buf, n), !.interest = in]
          \in ConnectionRecords
    BY <2>2, <2>3, UpdateSendBuf
  <2>5. [sock[cur] EXCEPT !.room = @ - n,
                          !.interest = IF in # connections[cur].interest
                                       THEN in ELSE @] \in SocketRecords
    <3>1. \A r \in Nat, x \in SUBSET RW :
            [sock[cur] EXCEPT !.room = r, !.interest = x] \in SocketRecords
      BY <2>3 DEF SocketRecords
    <3>2. sock[cur].interest \in SUBSET RW
      BY <2>3 DEF SocketRecords
    <3> QED
      BY <2>1, <3>1, <3>2
  <2>6. UNCHANGED <<listeners, next_id>>
    BY <1>5 DEF WriteData
  <2>7. TableTypes'
    BY <2>1, <2>4, <2>5, <2>6 DEF TableTypes
  <2>8. wire' \in [Ids -> Seq(Nat)]
    BY <1>1, <2>1, <2>2, ConcatProperties DEF WorldTypes
  <2>9. UNCHANGED <<peer, view, sent, fed, got>> /\ ready' \subseteq Ids
    BY <1>1, <1>5 DEF WriteData, WorldTypes
  <2>10. WorldTypes'
    BY <2>8, <2>9 DEF WorldTypes
  <2>11. LoopTypes'
    <3>1. CASE pc = "flush_new"
      <4>1. /\ dispatch_events' = Append(dispatch_events, Connected(cur))
            /\ pc' = "events" /\ UNCHANGED <<spurious_wakeups, panic, poll_events,
                 cur, new_streams, disconnected_ids>>
        BY <1>5, <3>1 DEF WriteData
      <4>2. dispatch_events' \in Seq(EventRecords)
        BY <1>1, <4>1, AppendProperties DEF LoopTypes
      <4> QED
        BY <4>1, <4>2 DEF LoopTypes
    <3>2. CASE pc # "flush_new"
      <4>1. UNCHANGED <<dispatch_events, poll_events, cur, new_streams,
                        disconnected_ids>>
        BY <1>5, <3>2 DEF WriteData
      <4>2. \E b \in BOOLEAN : track_spurious_wakeup(b, "events")
        BY <1>5, <3>2 DEF WriteData
      <4>3. /\ spurious_wakeups' \in Nat /\ pc' \in {"events", "panic"}
            /\ panic' \in {panic, "spurious"}
        BY <4>2, TrackTypes
      <4> QED
        BY <4>1, <4>3 DEF LoopTypes
    <3> QED
      BY <3>1, <3>2
  <2> QED
    BY <2>7, <2>10, <2>11, TypePartsNext
<1> QED
  BY <1>2, <1>3, <1>4, <1>5 DEF Write

\* poll() returns well-formed events about known ids.
LEMMA PollTypes ==
  ASSUME TypeOK, Poll
  PROVE  TypeOK'
<1>0. TableTypes /\ LoopTypes /\ WorldTypes
  BY TypeParts
<1>1. PICK S \in SUBSET Reportable : /\ poll_events' = UNION {EventsOf(i) : i \in S}
                                     /\ ready' = Reportable \ S
  BY DEF Poll
<1>2. Reportable \subseteq Ids
  BY <1>0 DEF Reportable, WorldTypes
<1>3. ASSUME NEW i \in Ids, NEW e \in EventsOf(i)
      PROVE  e \in [id : Ids, readable : BOOLEAN, writable : BOOLEAN]
  <2>1. CASE MergedEvents
    <3>1. ReadReady(i) \in BOOLEAN /\ WriteReady(i) \in BOOLEAN
      BY DEF ReadReady, WriteReady
    <3>2. e = PollEvent(i, ReadReady(i), WriteReady(i))
      BY <1>3, <2>1 DEF EventsOf
    <3> QED
      BY <3>1, <3>2, Zenon DEF PollEvent
  <2>2. CASE ~MergedEvents
    <3>1. e = PollEvent(i, TRUE, FALSE) \/ e = PollEvent(i, FALSE, TRUE)
      BY <1>3, <2>2 DEF EventsOf
    <3>2. \A r, w \in BOOLEAN :
            PollEvent(i, r, w) \in [id : Ids, readable : BOOLEAN, writable : BOOLEAN]
      BY DEF PollEvent
    <3>3. TRUE \in BOOLEAN /\ FALSE \in BOOLEAN
      OBVIOUS
    <3> QED
      BY <3>1, <3>2, <3>3, Zenon
  <2> QED
    BY <2>1, <2>2
<1>4. poll_events' \subseteq [id : Ids, readable : BOOLEAN, writable : BOOLEAN]
  BY <1>1, <1>2, <1>3
<1>5. LoopTypes'
  BY <1>0, <1>4 DEF Poll, LoopTypes
<1>6. TableTypes' /\ WorldTypes'
  BY <1>0, <1>1, <1>2 DEF Poll, TableTypes, WorldTypes, tables, app, histories
<1> QED
  BY <1>5, <1>6, TypePartsNext

\* The application's handling of an event keeps the types.
LEMMA AppTypes ==
  ASSUME TypeOK, AppHandlesEvent
  PROVE  TypeOK'
<1>0. TableTypes /\ LoopTypes /\ WorldTypes
  BY TypeParts
<1> DEFINE e == Head(dispatch_events)
<1>1. e \in EventRecords /\ Tail(dispatch_events) \in Seq(EventRecords)
  BY <1>0, HeadTailProperties DEF AppHandlesEvent, LoopTypes
<1>2. /\ e.type \in {"Inactive", "Connected", "ConnectionFailed", "Disconnected",
                     "Data"}
      /\ e.type # "Inactive" => e.id \in Ids
      /\ e.type = "Data" => e.data \in Seq(Nat)
  BY <1>1 DEF EventRecords
<1>3. TableTypes' /\ LoopTypes'
  BY <1>0, <1>1 DEF AppHandlesEvent, TableTypes, LoopTypes, tables, thread, round,
     kernel
<1>4. view' \in [Ids -> {"new", "connecting", "open"} \cup Ended]
  <2>1. view' = view \/ \E v \in {"open", "failed", "disconnected"} :
                          view' = [view EXCEPT ![e.id] = v]
    <3>1. \A x \in {"Connected", "ConnectionFailed", "Disconnected"} :
            ViewAfter[x] \in {"open", "failed", "disconnected"}
      BY DEF ViewAfter
    <3>2. CASE e.type \in {"Inactive", "Data"}
      BY <3>2 DEF AppHandlesEvent
    <3>3. CASE e.type \in {"Connected", "ConnectionFailed", "Disconnected"}
      <4>1. view' = view \/ view' = [view EXCEPT ![e.id] = ViewAfter[e.type]]
        BY <3>3 DEF AppHandlesEvent
      <4> QED
        BY <3>1, <3>3, <4>1
    <3> QED
      BY <1>2, <3>2, <3>3
  <2> QED
    BY <1>0, <2>1 DEF WorldTypes, Ended
<1>5. got' \in [Ids -> Seq(Nat)]
  <2>1. CASE got' = got
    BY <1>0, <2>1 DEF WorldTypes
  <2>2. CASE got' # got
    <3>1. e.type = "Data" /\ got' = [got EXCEPT ![e.id] = @ \o e.data]
      BY <2>2 DEF AppHandlesEvent
    <3> QED
      BY <1>0, <1>2, <3>1, ConcatProperties DEF WorldTypes
  <2> QED
    BY <2>1, <2>2
<1>6. WorldTypes'
  BY <1>0, <1>4, <1>5 DEF AppHandlesEvent, WorldTypes, kernel
<1> QED
  BY <1>3, <1>6, TypePartsNext

\* The steps that only move the thread keep the types.
LEMMA IdleTypes ==
  ASSUME TypeOK, FetchEvents \/ ReportInactive \/ PollFails \/ EventsDone
  PROVE  TypeOK'
<1>0. TableTypes /\ LoopTypes /\ WorldTypes
  BY TypeParts
<1>1. TableTypes' /\ WorldTypes'
  BY <1>0 DEF FetchEvents, ReportInactive, PollFails, EventsDone, TableTypes,
     WorldTypes, tables, kernel, app, histories
<1>2. <<Inactive>> \in Seq(EventRecords)
  <2>1. Inactive \in EventRecords
    BY DEF Inactive, EventRecords
  <2> QED
    BY <2>1
<1>3. LoopTypes'
  BY <1>0, <1>2 DEF FetchEvents, ReportInactive, PollFails, EventsDone,
     LoopTypes, round
<1> QED
  BY <1>1, <1>3, TypePartsNext

\* accept_connections enters its second loop with streams to register, and
\* leaves it with the last one.
LEMMA RegisterStep == TypeOK /\ RegisterInv /\ [Next]_vars => RegisterInv'
<1> SUFFICES ASSUME TypeOK, RegisterInv, [Next]_vars, pc' = "register"
             PROVE  new_streams' > 0
  BY DEF RegisterInv
<1>1. new_streams \in Nat
  BY DEF TypeOK
<1> USE DEF RegisterInv, thread, round, track_spurious_wakeup, Panic
<1>2. CASE UNCHANGED vars
  BY <1>2 DEF vars
<1>3. CASE Operations
  BY <1>3 DEF Operations, connect, listen, close_connection, close_listener,
       close_all_connections, close_all_listeners, close_all,
       shutdown_connection, shutdown_all_connections, ShutdownConnections,
       send_to, send_to_many, broadcast, broadcast_except,
       broadcast_except_many, Send, CloseConnections, CloseListeners
<1>4. CASE Kernel
  BY <1>4 DEF Kernel, KernelStep, ConnectCompletes, ConnectRefused,
     PeerConnects, PeerWrites, PeerCloses, PeerResets, RoomFreed
<1>5. CASE AppHandlesEvent \/ FetchEvents \/ ReportInactive \/ Poll
           \/ PollFails \/ EventsDone
  BY <1>5 DEF AppHandlesEvent, FetchEvents, ReportInactive, Poll, PollFails,
     EventsDone
<1>6. CASE HandleEvent
  BY <1>6 DEF HandleEvent, HandleListener, SkipDisconnected, ReadUnconnected,
     ReadDisconnected, ReadData, HandleWritable, Take
<1>7. CASE AcceptStream \/ AcceptError \/ NodelayError \/ RegisterLostStream
  BY <1>7 DEF AcceptStream, AcceptError, NodelayError, ReturnError,
     RegisterLostStream
<1>8. CASE AcceptWouldBlock
  BY <1>1, <1>8 DEF AcceptWouldBlock
<1>9. CASE RegisterStream
  BY <1>1, <1>9 DEF RegisterStream
<1>10. CASE Write
  BY <1>10 DEF Write, ConnectFailed, ConnectEstablished, WriteFails, WriteData,
     GiveUp
<1> QED
  BY <1>2, <1>3, <1>4, <1>5, <1>6, <1>7, <1>8, <1>9, <1>10
     DEF Next, Loop, Accept

\* Every step keeps the types.
LEMMA TypeStep ==
  TypeOK /\ RegisterInv /\ TablesInv /\ RoundInv /\ [Next]_vars => TypeOK'
<1> SUFFICES ASSUME TypeOK, RegisterInv, TablesInv, RoundInv, [Next]_vars
             PROVE  TypeOK'
  OBVIOUS
<1>1. CASE UNCHANGED vars
  BY <1>1 DEF vars, tables, thread, round, kernel, app, histories, TypeOK
<1> QED
  BY <1>1, OperationTypes, KernelTypes, AcceptTypes, EventHandlingTypes,
     WriteTypes, PollTypes, AppTypes, IdleTypes DEF Next, Loop

\* Whatever the application, the kernel and the peers do, every variable keeps
\* its type: in particular next_id stays within CONNECTION_ID_RANGE_START and
\* usize::MAX when advance_connection_id wraps around, the count of accepted
\* streams and the room of a socket never go below zero, and every event handed
\* out names an id of that range.
THEOREM TypeCorrect == Spec => []TypeOK
<1>1. Init => TypeOK /\ RegisterInv
  <2> SUFFICES ASSUME Init PROVE TypeOK /\ RegisterInv
    OBVIOUS
  <2>1. IdStart \in Ids
    BY IdAssumption DEF Ids
  <2>2. TableTypes
    BY <2>1 DEF Init, TableTypes, EmptyMap
  <2>3. LoopTypes
    BY <2>1, EmptySeq DEF Init, LoopTypes
  <2>4. WorldTypes
    BY EmptySeq DEF Init, WorldTypes
  <2> QED
    BY <2>2, <2>3, <2>4, TypeParts DEF Init, RegisterInv
<1> QED
  BY <1>1, TypeStep, RegisterStep, TablesCorrect, RoundCorrect, PTL DEF Spec

-----------------------------------------------------------------------------
(* The outgoing streams: what is queued is written or still waiting, and   *)
(* the selector knows of it.                                               *)

Healthy(i) ==
  /\ connections[i].interest = sock[i].interest
  /\ connections[i].send_buf # <<>> => "W" \in connections[i].interest
  /\ sent[i] = wire[i] \o connections[i].send_buf

StreamInv == \A i \in DOMAIN connections : Healthy(i)

\* A step that leaves the outgoing stream of i alone.
Untouched(i) ==
  /\ connections'[i].interest = connections[i].interest
  /\ connections'[i].send_buf = connections[i].send_buf
  /\ sock'[i].interest = sock[i].interest
  /\ sent'[i] = sent[i] /\ wire'[i] = wire[i]

\* A step that leaves the outgoing streams alone keeps them healthy.
LEMMA StreamsUntouched ==
  ASSUME StreamInv, DOMAIN connections' \subseteq DOMAIN connections,
         \A i \in DOMAIN connections' : Untouched(i)
  PROVE  StreamInv'
  BY DEF StreamInv, Healthy, Untouched

\* So does the removal of connections.
LEMMA DropStreams ==
  ASSUME TablesInv, StreamInv, NEW S, DropSockets(S), UNCHANGED <<sent, wire>>
  PROVE  StreamInv'
<1>1. /\ DOMAIN connections' = DOMAIN connections \ S
      /\ \A j \in DOMAIN connections \ S : connections'[j] = connections[j]
      /\ \A j \in DOMAIN sock \ S : sock'[j] = sock[j]
  BY WithoutEntries DEF DropSockets
<1> QED
  BY <1>1, StreamsUntouched DEF Untouched, TablesInv

\* A new connection starts with an empty buffer and its interest registered.
LEMMA OpenStreams ==
  ASSUME TypeOK, TablesInv, StreamInv, NEW c \in ConnectionRecords,
         c.send_buf = <<>>, NEW p, NEW v, OpenSocket(c, p, v)
  PROVE  StreamInv'
<1> SUFFICES ASSUME NEW i \in DOMAIN connections'
             PROVE  Healthy(i)'
  BY DEF StreamInv
<1>1. DOMAIN connections' = DOMAIN connections \cup {next_id}
  BY OpenEntries
<1>2. /\ sent' = [sent EXCEPT ![next_id] = <<>>]
      /\ wire' = [wire EXCEPT ![next_id] = <<>>]
      /\ sent \in [Ids -> Seq(Nat)] /\ wire \in [Ids -> Seq(Nat)] /\ next_id \in Ids
  BY DEF OpenSocket, TypeOK
<1>3. CASE i = next_id
  <2>1. connections'[i] = c
    BY <1>3 DEF OpenSocket, With
  <2>2. sock'[i].interest = c.interest
    BY <1>3 DEF OpenSocket, With
  <2>3. sent'[i] = <<>> /\ wire'[i] = <<>>
    BY <1>2, <1>3
  <2>4. <<>> \o <<>> = <<>>
    BY EmptySeq, ConcatEmptySeq
  <2> QED
    BY <2>1, <2>2, <2>3, <2>4 DEF Healthy
<1>4. CASE i # next_id
  <2>1. i \in DOMAIN connections /\ i \in DOMAIN sock /\ i \in Ids
    BY <1>1, <1>4 DEF TablesInv
  <2>2. connections'[i] = connections[i]
    BY <1>4, <2>1 DEF OpenSocket, With
  <2>3. sock'[i] = sock[i]
    BY <1>4, <2>1 DEF OpenSocket, With
  <2>4. sent'[i] = sent[i] /\ wire'[i] = wire[i]
    BY <1>2, <1>4, <2>1
  <2> QED
    BY <2>1, <2>2, <2>3, <2>4 DEF StreamInv, Healthy
<1> QED
  BY <1>3, <1>4

\* queue_data appends to the stream and to send_buf alike, and registers
\* WRITABLE when the selector does not have it.
LEMMA QueueStreams ==
  ASSUME TypeOK, TablesInv, StreamInv, NEW S, NEW n \in Nat, queue_data(S, n),
         UNCHANGED wire
  PROVE  StreamInv'
<1> SUFFICES ASSUME NEW i \in DOMAIN connections'
             PROVE  Healthy(i)'
  BY DEF StreamInv
<1> DEFINE T == S \cap DOMAIN connections
           new == NextBytes(sent[i], n)
           buf == connections[i].send_buf
<1>1. i \in DOMAIN connections /\ i \in DOMAIN sock /\ i \in Ids
  BY DEF queue_data, TablesInv
<1>2. /\ connections[i] \in ConnectionRecords /\ sock[i] \in SocketRecords
      /\ sent[i] \in Seq(Nat) /\ wire[i] \in Seq(Nat)
  BY <1>1 DEF TypeOK
<1>3. buf \in Seq(Nat) /\ new \in Seq(Nat) /\ buf \o new \in Seq(Nat)
  BY <1>2, NextBytesType, ConcatProperties DEF ConnectionRecords
<1>4. CASE i \in T
  <2>1. connections'[i] = [connections[i] EXCEPT !.send_buf = buf \o new,
                                                 !.interest = RW]
    BY <1>1, <1>4 DEF queue_data
  <2>2. connections'[i].send_buf = buf \o new /\ connections'[i].interest = RW
    <3> DEFINE d == buf \o new
    <3>1. d \in Seq(Nat) /\ RW \in SUBSET RW
      BY <1>3
    <3>2. connections'[i] = [connections[i] EXCEPT !.send_buf = d, !.interest = RW]
      BY <2>1
    <3> HIDE DEF d
    <3>3. connections'[i].send_buf = d /\ connections'[i].interest = RW
      <4> DEFINE c == connections[i]
                 e == connections'[i]
      <4>1. c \in ConnectionRecords /\ e = [c EXCEPT !.send_buf = d, !.interest = RW]
        BY <1>2, <3>2
      <4> HIDE DEF c, e
      <4>2. e.send_buf = d /\ e.interest = RW
        BY <4>1 DEF ConnectionRecords
      <4> QED
        BY <4>2 DEF e
    <3> QED
      BY <3>3 DEF d
  <2>3. sock'[i].interest = RW
    <3>1. CASE connections[i].interest = RW
      BY <1>1, <1>2, <3>1 DEF queue_data, Reregistered, StreamInv, Healthy
    <3>2. CASE connections[i].interest # RW
      <4>1. sock'[i] = [sock[i] EXCEPT !.interest = RW]
        BY <1>1, <1>4, <3>2 DEF queue_data, Reregistered
      <4> QED
        BY <1>2, <4>1 DEF SocketRecords
    <3> QED
      BY <3>1, <3>2
  <2>4. sent'[i] = sent[i] \o new /\ wire'[i] = wire[i]
    BY <1>1, <1>4 DEF queue_data
  <2>5. sent[i] \o new = wire[i] \o (buf \o new)
    <3>1. sent[i] = wire[i] \o buf
      BY <1>1 DEF StreamInv, Healthy
    <3> DEFINE a == wire[i]
    <3>2. a \in Seq(Nat) /\ buf \in Seq(Nat) /\ new \in Seq(Nat)
      BY <1>2, <1>3
    <3> HIDE DEF a, buf, new
    <3>3. (a \o buf) \o new = a \o (buf \o new)
      BY <3>2, ConcatAssociative, SMTT(60)
    <3> QED
      BY <3>1, <3>3 DEF a
  <2> QED
    BY <2>2, <2>3, <2>4, <2>5 DEF Healthy, RW
<1>5. CASE i \notin T
  <2>1. /\ connections'[i] = connections[i] /\ sock'[i] = sock[i]
        /\ sent'[i] = sent[i] /\ wire'[i] = wire[i]
    BY <1>1, <1>5 DEF queue_data, Reregistered
  <2> QED
    BY <1>1, <2>1 DEF StreamInv, Healthy
<1> QED
  BY <1>4, <1>5

\* write_connection moves bytes from send_buf to the wire, and gives WRITABLE
\* up only with an empty buffer.
LEMMA WriteStreams ==
  ASSUME TypeOK, TablesInv, RoundInv, StreamInv, WriteData
  PROVE  StreamInv'
<1> DEFINE conn == connections[cur]
           buf == conn.send_buf
<1>1. PICK n \in Nat, in \in SUBSET RW :
        /\ cur \in DOMAIN connections /\ buf \in Seq(Nat) /\ n <= Len(buf)
        /\ in = InterestAfterWrite(Unsent(buf, n), conn.interest)
        /\ connections' = [connections EXCEPT ![cur] =
             [conn EXCEPT !.send_buf = Unsent(buf, n), !.interest = in]]
        /\ sock' = [sock EXCEPT ![cur] =
             [sock[cur] EXCEPT !.room = @ - n,
                               !.interest = IF in # conn.interest
                                            THEN in ELSE @]]
        /\ sock[cur].room - n \in Nat
        /\ wire' = [wire EXCEPT ![cur] = @ \o SubSeq(buf, 1, n)]
  BY WriteEffect
<1>2. /\ SubSeq(buf, 1, n) \in Seq(Nat) /\ Unsent(buf, n) \in Seq(Nat)
      /\ buf = SubSeq(buf, 1, n) \o Unsent(buf, n)
      /\ buf = <<>> => Unsent(buf, n) = <<>>
  BY <1>1, SplitBuffer
<1>3. /\ conn \in ConnectionRecords /\ sock[cur] \in SocketRecords
      /\ cur \in Ids /\ wire \in [Ids -> Seq(Nat)] /\ cur \in DOMAIN sock
  BY <1>1 DEF TypeOK, TablesInv
<1>4. UNCHANGED sent
  BY DEF WriteData
<1>5. Healthy(cur)
  BY <1>1 DEF StreamInv
<1> SUFFICES ASSUME NEW i \in DOMAIN connections'
             PROVE  Healthy(i)'
  BY DEF StreamInv
<1>6. CASE i = cur
  <2>1. connections'[i].send_buf = Unsent(buf, n) /\ connections'[i].interest = in
    <3>1. connections'[i] = [conn EXCEPT !.send_buf = Unsent(buf, n),
                                         !.interest = in]
      BY <1>1, <1>6
    <3> DEFINE d == Unsent(buf, n)
    <3>2. d \in Seq(Nat) /\ conn \in ConnectionRecords
      BY <1>2, <1>3
    <3>3. connections'[i] = [conn EXCEPT !.send_buf = d, !.interest = in]
      BY <3>1
    <3> HIDE DEF conn, d
    <3>4. connections'[i].send_buf = d /\ connections'[i].interest = in
      <4> DEFINE e == connections'[i]
      <4>1. e = [conn EXCEPT !.send_buf = d, !.interest = in]
        BY <3>3
      <4> HIDE DEF e
      <4>2. e.send_buf = d /\ e.interest = in
        BY <3>2, <4>1 DEF ConnectionRecords
      <4> QED
        BY <4>2 DEF e
    <3> QED
      BY <3>4 DEF d
  <2>2. sock'[i].interest = in
    <3>1. sock'[i] = [sock[cur] EXCEPT !.room = @ - n,
                               !.interest = IF in # conn.interest THEN in ELSE @]
      BY <1>1, <1>3, <1>6
    <3>2. sock'[i].interest = IF in # conn.interest THEN in ELSE sock[cur].interest
      BY <1>3, <3>1 DEF SocketRecords
    <3> QED
      BY <1>5, <3>2 DEF Healthy
  <2>3. Unsent(buf, n) # <<>> => "W" \in in
    BY <1>1, <1>2, <1>5 DEF InterestAfterWrite, Healthy, RW
  <2>4. sent'[i] = wire'[i] \o Unsent(buf, n)
    <3>1. wire'[i] = wire[cur] \o SubSeq(buf, 1, n) /\ wire[cur] \in Seq(Nat)
      BY <1>1, <1>3, <1>6
    <3>2. (wire[cur] \o SubSeq(buf, 1, n)) \o Unsent(buf, n)
            = wire[cur] \o (SubSeq(buf, 1, n) \o Unsent(buf, n))
        <4> DEFINE a == wire[cur]
                 b == SubSeq(buf, 1, n)
                 d == Unsent(buf, n)
      <4>1. a \in Seq(Nat) /\ b \in Seq(Nat) /\ d \in Seq(Nat)
        BY <1>2, <3>1
      <4> HIDE DEF a, b, d
      <4>2. (a \o b) \o d = a \o (b \o d)
        BY <4>1, ConcatAssociative, SMTT(60)
      <4> QED
        BY <4>2 DEF a, b, d
    <3>3. sent[cur] = wire[cur] \o buf
      BY <1>5 DEF Healthy
    <3> QED
      BY <1>2, <1>4, <1>6, <3>1, <3>2, <3>3
  <2> QED
    BY <2>1, <2>2, <2>3, <2>4 DEF Healthy
<1>7. CASE i # cur
  <2>1. i \in DOMAIN connections /\ i \in DOMAIN sock /\ i \in Ids
    BY <1>1 DEF TablesInv
  <2>2. /\ connections'[i] = connections[i] /\ sock'[i] = sock[i]
        /\ wire'[i] = wire[i]
    BY <1>1, <1>3, <1>7, <2>1
  <2> QED
    BY <1>4, <2>1, <2>2 DEF StreamInv, Healthy
<1> QED
  BY <1>6, <1>7, Zenon

\* A step that leaves the tables of connections and streams alone, or changes
\* no more of the sockets than their phase, their receive queue or their room.
LEMMA SocketStreams ==
  ASSUME TablesInv, StreamInv, UNCHANGED <<connections, sent, wire>>,
         \A i \in DOMAIN sock : sock'[i].interest = sock[i].interest
  PROVE  StreamInv'
  BY StreamsUntouched DEF Untouched, TablesInv

\* The application's calls.
LEMMA OperationStreams ==
  ASSUME TypeOK, TablesInv, StreamInv, Operations
  PROVE  StreamInv'
<1> USE DEF tables, kernel, app, histories
<1>1. CASE connect
  <2> DEFINE c == [connected |-> FALSE, interest |-> ConnectInterest,
                   send_buf |-> <<>>]
  <2>1. c \in ConnectionRecords /\ c.send_buf = <<>>
    BY EmptySeq DEF ConnectionRecords, ConnectInterest, RW
  <2>2. OpenSocket(c, "syn", "connecting")
    BY <1>1 DEF connect
  <2> HIDE DEF c
  <2> QED
    BY <2>1, <2>2, OpenStreams
<1>2. CASE listen
  BY <1>2, SocketStreams DEF listen
<1>3. ASSUME NEW i \in Ids, close_connection(i)
      PROVE  StreamInv'
  BY <1>3, DropStreams DEF close_connection
<1>4. ASSUME NEW S, CloseListeners(S)
      PROVE  StreamInv'
  BY <1>4, SocketStreams DEF CloseListeners
<1>5. CASE close_all_connections
  BY <1>5, DropStreams DEF close_all_connections, CloseConnections
<1>6. CASE close_all
  <2>1. DOMAIN connections' = {}
    BY <1>6, WithoutEntries, ZenonT(60) DEF close_all
  <2> QED
    BY <2>1 DEF StreamInv
<1>7. ASSUME NEW how, NEW S, ShutdownConnections(S, how)
      PROVE  StreamInv'
  <2>1. \A i \in DOMAIN sock : sock'[i].interest = sock[i].interest
    BY <1>7, ShutdownType DEF ShutdownConnections, TypeOK
  <2> QED
    BY <1>7, <2>1, SocketStreams DEF ShutdownConnections
<1>8. ASSUME NEW S, NEW n \in 0..MaxSend, Send(S, n)
      PROVE  StreamInv'
  <2>1. n \in Nat
    BY LimitAssumption
  <2> QED
    BY <1>8, <2>1, QueueStreams DEF Send
<1> QED
  BY <1>1, <1>2, <1>3, <1>4, <1>5, <1>6, <1>7, <1>8
     DEF Operations, close_listener, close_all_listeners, shutdown_connection,
         shutdown_all_connections, send_to, send_to_many, broadcast,
         broadcast_except, broadcast_except_many

\* Changing one field of a socket keeps its registration.
LEMMA InterestKept ==
  ASSUME NEW s \in SocketRecords
  PROVE  /\ \A ph : [s EXCEPT !.phase = ph].interest = s.interest
         /\ \A b : [s EXCEPT !.rx = b].interest = s.interest
         /\ \A r : [s EXCEPT !.room = r].interest = s.interest
<1>1. ASSUME NEW ph PROVE [s EXCEPT !.phase = ph].interest = s.interest
  BY DEF SocketRecords
<1>2. ASSUME NEW b PROVE [s EXCEPT !.rx = b].interest = s.interest
  BY DEF SocketRecords
<1>3. ASSUME NEW r PROVE [s EXCEPT !.room = r].interest = s.interest
  BY DEF SocketRecords
<1> QED
  BY <1>1, <1>2, <1>3

\* The kernel and the peers.
LEMMA KernelStreams ==
  ASSUME TypeOK, TablesInv, StreamInv, Kernel
  PROVE  StreamInv'
<1> USE DEF histories
<1>1. PICK i \in Ids :
        \/ ConnectCompletes(i) \/ ConnectRefused(i) \/ PeerConnects(i)
        \/ PeerWrites(i) \/ PeerCloses(i) \/ PeerResets(i) \/ RoomFreed(i)
  BY DEF Kernel
<1>2. UNCHANGED <<connections, sent, wire>>
  BY <1>1 DEF KernelStep, ConnectCompletes, ConnectRefused, PeerConnects,
     PeerWrites, PeerCloses, PeerResets, RoomFreed
<1>3. \A j \in DOMAIN sock : sock[j] \in SocketRecords
  BY DEF TypeOK
<1>4. \A j \in DOMAIN sock : sock'[j].interest = sock[j].interest
  <2>1. CASE UNCHANGED sock
    BY <2>1
  <2>2. ASSUME i \in DOMAIN sock, NEW r, sock' = [sock EXCEPT ![i] = r],
               r.interest = sock[i].interest
        PROVE  \A j \in DOMAIN sock : sock'[j].interest = sock[j].interest
    BY <2>2
  <2>3. CASE PeerConnects(i) \/ PeerCloses(i)
    BY <2>1, <2>3 DEF PeerConnects, PeerCloses
  <2>4. CASE ConnectCompletes(i)
    BY <1>3, <2>2, <2>4, InterestKept DEF ConnectCompletes
  <2>5. CASE ConnectRefused(i)
    BY <1>3, <2>2, <2>5, InterestKept DEF ConnectRefused
  <2>6. CASE PeerWrites(i)
    BY <1>3, <2>2, <2>6, InterestKept DEF PeerWrites
  <2>7. CASE PeerResets(i)
    BY <1>3, <2>2, <2>7, InterestKept DEF PeerResets
  <2>8. CASE RoomFreed(i)
    BY <1>3, <2>2, <2>8, InterestKept DEF RoomFreed
  <2> QED
    BY <1>1, <2>3, <2>4, <2>5, <2>6, <2>7, <2>8
<1> QED
  BY <1>2, <1>4, SocketStreams

\* The event loop.
LEMMA LoopStreams ==
  ASSUME TypeOK, TablesInv, RoundInv, StreamInv,
         Loop \/ AppHandlesEvent \/ FetchEvents
  PROVE  StreamInv'
<1> USE DEF tables, kernel, app, histories
<1>1. CASE ReportInactive \/ Poll \/ PollFails \/ EventsDone
           \/ AppHandlesEvent \/ FetchEvents
  BY <1>1, SocketStreams DEF ReportInactive, Poll, PollFails, EventsDone,
     AppHandlesEvent, FetchEvents
<1>2. ASSUME NEW e \in poll_events,
             \/ HandleListener(e) \/ SkipDisconnected(e)
             \/ ReadUnconnected(e) \/ HandleWritable(e)
      PROVE  StreamInv'
  BY <1>2, SocketStreams DEF HandleListener, SkipDisconnected, ReadUnconnected,
     HandleWritable
<1>3. ASSUME NEW e \in poll_events, ReadDisconnected(e)
      PROVE  StreamInv'
  BY <1>3, DropStreams DEF ReadDisconnected
<1>4. ASSUME NEW e \in poll_events, ReadData(e)
      PROVE  StreamInv'
  <2>1. \A j \in DOMAIN sock : sock[j] \in SocketRecords
    BY DEF TypeOK
  <2>2. sock' = [sock EXCEPT ![e.id] = [sock[e.id] EXCEPT !.rx = <<>>]]
    BY <1>4 DEF ReadData
  <2>3. \A j \in DOMAIN sock : sock'[j].interest = sock[j].interest
    BY <2>1, <2>2, InterestKept
  <2> QED
    BY <1>4, <2>3, SocketStreams DEF ReadData
<1>5. CASE AcceptStream \/ AcceptError \/ NodelayError \/ AcceptWouldBlock
           \/ RegisterLostStream
  BY <1>5, SocketStreams DEF AcceptStream, AcceptError, NodelayError,
     AcceptWouldBlock, RegisterLostStream, ReturnError
<1>6. CASE RegisterStream
  <2> DEFINE c == [connected |-> TRUE, interest |-> {"R"}, send_buf |-> <<>>]
  <2>1. c \in ConnectionRecords /\ c.send_buf = <<>>
    BY EmptySeq DEF ConnectionRecords, RW
  <2>2. OpenSocket(c, "est", "new")
    BY <1>6 DEF RegisterStream
  <2> HIDE DEF c
  <2> QED
    BY <2>1, <2>2, OpenStreams
<1>7. CASE ConnectFailed \/ WriteFails
  BY <1>7, DropStreams DEF ConnectFailed, WriteFails, GiveUp
<1>8. CASE ConnectEstablished
  <2>1. \A j \in DOMAIN connections : connections[j] \in ConnectionRecords
    BY DEF TypeOK
  <2>2. connections' = [connections EXCEPT ![cur] =
                          [connections[cur] EXCEPT !.connected = TRUE]]
    BY <1>8 DEF ConnectEstablished
  <2>3. ASSUME NEW j \in DOMAIN connections
        PROVE  /\ connections'[j].interest = connections[j].interest
               /\ connections'[j].send_buf = connections[j].send_buf
    <3>1. CASE j = cur
      BY <2>1, <2>2, <3>1 DEF ConnectionRecords
    <3>2. CASE j # cur
      BY <2>2, <3>2
    <3> QED
      BY <3>1, <3>2
  <2> QED
    BY <1>8, <2>2, <2>3, StreamsUntouched DEF ConnectEstablished, Untouched
<1>9. CASE WriteData
  BY <1>9, WriteStreams
<1> QED
  BY <1>1, <1>2, <1>3, <1>4, <1>5, <1>6, <1>7, <1>8, <1>9, SMTT(60)
     DEF Loop, HandleEvent, Accept, Write

\* Every step keeps the outgoing streams healthy.
LEMMA StreamStep ==
  TypeOK /\ TablesInv /\ RoundInv /\ StreamInv /\ [Next]_vars => StreamInv'
<1> SUFFICES ASSUME TypeOK, TablesInv, RoundInv, StreamInv, [Next]_vars
             PROVE  StreamInv'
  OBVIOUS
<1>1. CASE UNCHANGED vars
  BY <1>1, SocketStreams DEF vars, tables, kernel, app, histories
<1> QED
  BY <1>1, OperationStreams, KernelStreams, LoopStreams DEF Next

\* The invariant of the outgoing streams holds in every reachable state.
THEOREM StreamsCorrect == Spec => []StreamInv
<1>1. Init => StreamInv
  BY DEF Init, EmptyMap, StreamInv
<1> QED
  BY <1>1, StreamStep, TypeCorrect, TablesCorrect, RoundCorrect, PTL DEF Spec

\* The interest the transport remembers for a connection is always the one the
\* selector has, and asks for WRITABLE while something is queued: queue_data
\* and write_connection never leave data waiting for an event nobody ordered.
THEOREM InterestIsRegistered == Spec => []InterestRegistered
<1>1. StreamInv /\ TablesInv => InterestRegistered
  BY DEF StreamInv, Healthy, TablesInv, InterestRegistered
<1> QED
  BY <1>1, StreamsCorrect, TablesCorrect, PTL

\* However calls, partial writes and connection attempts interleave, what was
\* queued on a connection is what was written followed by what is in send_buf.
THEOREM OutgoingIsIntact == Spec => []OutgoingIntact
<1>1. StreamInv => OutgoingIntact
  BY DEF StreamInv, Healthy, OutgoingIntact
<1> QED
  BY <1>1, StreamsCorrect, PTL

-----------------------------------------------------------------------------
(* The application is told: of every connection it did not make, and of    *)
(* every end it did not cause.                                             *)

Is(es, k, types, i) == es[k].type \in types /\ es[k].id = i
Has(es, types, i) == \E k \in 1..Len(es) : Is(es, k, types, i)

Ends == {"Disconnected", "ConnectionFailed"}

\* No announcement of i is the last word on it.
EndFollows(es, i) ==
  \A k \in 1..Len(es) : Is(es, k, {"Connected"}, i) =>
    \E l \in 1..Len(es) : k < l /\ Is(es, l, Ends, i)

\* What the application believes of i, given the events es it is yet to handle.
Informed(v, alive, es, i) ==
  /\ v \in {"connecting", "open"} /\ ~alive => Has(es, Ends, i)
  /\ v = "new" /\ alive => Has(es, {"Connected"}, i)
  /\ v # "closed" /\ ~alive => EndFollows(es, i)

InformedInv ==
  /\ pc = "requests" => dispatch_events = <<>>
  /\ \A i \in Ids : Informed(view[i], i \in DOMAIN connections, dispatch_events, i)

\* What es \o fs says of i.
Grown(es, fs, i) ==
  /\ \A types : Has(es, types, i) \/ Has(fs, types, i) => Has(es \o fs, types, i)
  /\ EndFollows(es, i) /\ ~Has(fs, {"Connected"}, i) => EndFollows(es \o fs, i)
  /\ fs # <<>> /\ Is(fs, Len(fs), Ends, i) => EndFollows(es \o fs, i)

\* Events that are added leave the earlier ones in place.
LEMMA EventsGrow ==
  ASSUME NEW es \in Seq(EventRecords), NEW fs \in Seq(EventRecords), NEW i
  PROVE  Grown(es, fs, i)
<1> DEFINE gs == es \o fs
<1>1. /\ Len(es) \in Nat /\ Len(fs) \in Nat /\ Len(gs) = Len(es) + Len(fs)
      /\ \A k \in 1..Len(es) : gs[k] = es[k]
      /\ \A k \in 1..Len(fs) : gs[Len(es) + k] = fs[k]
  <2>1. \A k \in 1..Len(es) : gs[k] = es[k]
    BY ConcatProperties, LenProperties
  <2>2. \A k \in 1..Len(fs) : gs[Len(es) + k] = fs[k]
    <3> SUFFICES ASSUME NEW k \in 1..Len(fs) PROVE gs[Len(es) + k] = fs[k]
      OBVIOUS
    <3>1. Len(es) + k \in 1..(Len(es) + Len(fs)) /\ Len(es) + k > Len(es)
          /\ (Len(es) + k) - Len(es) = k
      BY LenProperties
    <3> QED
      BY <3>1, ConcatProperties
  <2> QED
    BY <2>1, <2>2, ConcatProperties, LenProperties
<1> HIDE DEF gs
<1>2. \A k \in 1..Len(es) : k \in 1..Len(gs)
  BY <1>1
<1>3. \A k \in 1..Len(fs) : Len(es) + k \in 1..Len(gs)
  BY <1>1
<1>4. \A k \in 1..Len(gs) : k \in 1..Len(es)
        \/ \E l \in 1..Len(fs) : k = Len(es) + l
  <2> SUFFICES ASSUME NEW k \in 1..Len(gs), k \notin 1..Len(es)
               PROVE  \E l \in 1..Len(fs) : k = Len(es) + l
    OBVIOUS
  <2>1. k - Len(es) \in 1..Len(fs) /\ k = Len(es) + (k - Len(es))
    BY <1>1
  <2> QED
    BY <2>1
<1>5. ASSUME NEW types, Has(es, types, i) \/ Has(fs, types, i)
      PROVE  Has(gs, types, i)
  BY <1>1, <1>2, <1>3, <1>5 DEF Has, Is
<1>6. ASSUME EndFollows(es, i), ~Has(fs, {"Connected"}, i)
      PROVE  EndFollows(gs, i)
  <2> SUFFICES ASSUME NEW k \in 1..Len(gs), Is(gs, k, {"Connected"}, i)
               PROVE  \E l \in 1..Len(gs) : k < l /\ Is(gs, l, Ends, i)
    BY DEF EndFollows
  <2>1. k \in 1..Len(es)
    BY <1>1, <1>4, <1>6 DEF Has, Is
  <2>2. PICK l \in 1..Len(es) : k < l /\ Is(es, l, Ends, i)
    BY <1>1, <1>6, <2>1 DEF EndFollows, Is
  <2> QED
    BY <1>1, <1>2, <2>2 DEF Is
<1>7. ASSUME fs # <<>>, Is(fs, Len(fs), Ends, i)
      PROVE  EndFollows(gs, i)
  <2> SUFFICES ASSUME NEW k \in 1..Len(gs), Is(gs, k, {"Connected"}, i)
               PROVE  \E l \in 1..Len(gs) : k < l /\ Is(gs, l, Ends, i)
    BY DEF EndFollows
  <2>1. Len(fs) # 0
    BY <1>7, EmptySeq
  <2>2. Len(fs) \in 1..Len(fs)
    BY <1>1, <2>1
  <2>3. Is(gs, Len(gs), Ends, i) /\ Len(gs) \in 1..Len(gs)
    BY <1>1, <1>7, <2>2 DEF Is
  <2>4. k # Len(gs)
    BY <2>3 DEF Is, Ends
  <2>5. k < Len(gs)
    BY <1>1, <2>4
  <2> QED
    BY <2>3, <2>5
<1> QED
  BY <1>5, <1>6, <1>7 DEF Grown, gs

\* What the events behind the first say of i.
Shrunk(es, i) ==
  /\ \A types : Has(es, types, i) =>
       Is(es, 1, types, i) \/ Has(Tail(es), types, i)
  /\ EndFollows(es, i) =>
       /\ EndFollows(Tail(es), i)
       /\ Is(es, 1, {"Connected"}, i) => Has(Tail(es), Ends, i)

\* The application takes the first event.
LEMMA EventsShrink ==
  ASSUME NEW es \in Seq(EventRecords), es # <<>>, NEW i
  PROVE  Shrunk(es, i)
<1> DEFINE fs == Tail(es)
<1>1. /\ Len(es) \in Nat /\ Len(es) > 0 /\ Len(fs) = Len(es) - 1
      /\ \A k \in 1..Len(fs) : fs[k] = es[k + 1]
  BY HeadTailProperties, LenProperties, EmptySeq
<1> HIDE DEF fs
<1>2. \A k \in 1..Len(fs) : k + 1 \in 1..Len(es)
  BY <1>1
<1>3. \A k \in 1..Len(es) : k # 1 =>
        k - 1 \in 1..Len(fs) /\ fs[k - 1] = es[k]
  <2> SUFFICES ASSUME NEW k \in 1..Len(es), k # 1
               PROVE  k - 1 \in 1..Len(fs) /\ fs[k - 1] = es[k]
    OBVIOUS
  <2>1. k - 1 \in 1..Len(fs) /\ (k - 1) + 1 = k
    BY <1>1
  <2> QED
    BY <1>1, <2>1
<1>4. ASSUME NEW types, Has(es, types, i), ~Is(es, 1, types, i)
      PROVE  Has(fs, types, i)
  BY <1>3, <1>4 DEF Has, Is
<1>5. ASSUME EndFollows(es, i), NEW k \in 1..Len(es), Is(es, k, {"Connected"}, i)
      PROVE  \E l \in 1..Len(fs) : k - 1 < l /\ Is(fs, l, Ends, i)
  <2>1. PICK l \in 1..Len(es) : k < l /\ Is(es, l, Ends, i)
    BY <1>5 DEF EndFollows
  <2>2. l # 1 /\ k - 1 < l - 1
    BY <2>1
  <2> QED
    BY <1>3, <2>1, <2>2 DEF Is
<1>6. ASSUME EndFollows(es, i)
      PROVE  EndFollows(fs, i)
  <2> SUFFICES ASSUME NEW k \in 1..Len(fs), Is(fs, k, {"Connected"}, i)
               PROVE  \E l \in 1..Len(fs) : k < l /\ Is(fs, l, Ends, i)
    BY DEF EndFollows
  <2>1. k + 1 \in 1..Len(es) /\ Is(es, k + 1, {"Connected"}, i)
        /\ (k + 1) - 1 = k
    BY <1>1, <1>2 DEF Is
  <2> QED
    BY <1>5, <1>6, <2>1
<1>7. ASSUME EndFollows(es, i), Is(es, 1, {"Connected"}, i)
      PROVE  Has(fs, Ends, i)
  BY <1>1, <1>5, <1>7 DEF Has
<1> QED
  BY <1>4, <1>6, <1>7 DEF Shrunk, fs
\* A step that changes nothing the application could be wrong about.
LEMMA InformedKeep ==
  ASSUME InformedInv, UNCHANGED <<view, dispatch_events>>,
         DOMAIN connections' = DOMAIN connections,
         pc' # "requests" \/ pc = "requests" \/ dispatch_events = <<>>
  PROVE  InformedInv'
  BY DEF InformedInv

\* The application closes connections itself.
LEMMA InformedClose ==
  ASSUME InformedInv, NEW S, DOMAIN connections' = DOMAIN connections \ S,
         \A i \in Ids : view'[i] = view[i] \/ view'[i] = "closed",
         \A i \in Ids : i \in S /\ i \in DOMAIN connections => view'[i] = "closed",
         UNCHANGED <<pc, dispatch_events>>
  PROVE  InformedInv'
  BY DEF InformedInv, Informed

\* The application's calls: it knows of the connections it opens and closes.
LEMMA InformedOperations ==
  ASSUME TypeOK, InformedInv, Operations
  PROVE  InformedInv'
<1> USE DEF thread, tables
<1>0. view \in [Ids -> {"new", "connecting", "open"} \cup Ended] /\ next_id \in Ids
  BY DEF TypeOK
<1>1. CASE connect
  <2>1. /\ view' = [view EXCEPT ![next_id] = "connecting"]
        /\ UNCHANGED <<pc, dispatch_events>>
    BY <1>1 DEF connect, OpenSocket
  <2>2. DOMAIN connections' = DOMAIN connections \cup {next_id}
    BY <1>1, OpenEntries DEF connect
  <2> QED
    BY <1>0, <2>1, <2>2 DEF InformedInv, Informed
<1>2. CASE listen
  BY <1>2, InformedKeep DEF listen, app
<1>3. ASSUME NEW i \in Ids, close_connection(i)
      PROVE  InformedInv'
  <2>1. DOMAIN connections' = DOMAIN connections \ {i}
    BY <1>3, WithoutEntries DEF close_connection, DropSockets
  <2>2. view' = [view EXCEPT ![i] = "closed"] /\ UNCHANGED <<pc, dispatch_events>>
    BY <1>3 DEF close_connection
  <2> QED
    BY <1>0, <2>1, <2>2, InformedClose
<1>4. ASSUME NEW S, CloseListeners(S)
      PROVE  InformedInv'
  BY <1>4, InformedKeep DEF CloseListeners, app
<1>5. CASE close_all_connections
  <2>1. DOMAIN connections' = DOMAIN connections \ DOMAIN connections
    BY <1>5, WithoutEntries DEF close_all_connections, CloseConnections, DropSockets
  <2>2. /\ view' = [j \in Ids |-> IF j \in DOMAIN connections
                                 THEN "closed" ELSE view[j]]
        /\ UNCHANGED <<pc, dispatch_events>>
    BY <1>5 DEF close_all_connections, CloseConnections
  <2> QED
    BY <1>0, <2>1, <2>2, InformedClose
<1>6. CASE close_all
  <2>1. DOMAIN connections' = DOMAIN connections \ DOMAIN connections
    BY <1>6, WithoutEntries DEF close_all
  <2>2. /\ view' = [j \in Ids |-> IF j \in DOMAIN connections
                                 THEN "closed" ELSE view[j]]
        /\ UNCHANGED <<pc, dispatch_events>>
    BY <1>6 DEF close_all
  <2> QED
    BY <1>0, <2>1, <2>2, InformedClose
<1>7. ASSUME NEW S, NEW how, ShutdownConnections(S, how)
      PROVE  InformedInv'
  BY <1>7, InformedKeep DEF ShutdownConnections, app
<1>8. ASSUME NEW S, NEW n, Send(S, n)
      PROVE  InformedInv'
  BY <1>8, InformedKeep DEF Send, queue_data
<1> QED
  BY <1>1, <1>2, <1>3, <1>4, <1>5, <1>6, <1>7, <1>8
     DEF Operations, close_listener, close_all_listeners, shutdown_connection,
         shutdown_all_connections, send_to, send_to_many, broadcast,
         broadcast_except, broadcast_except_many

\* Events about connections that stay, none of them an announcement unless the
\* connection is there.
LEMMA InformedMore ==
  ASSUME TypeOK, InformedInv, NEW fs \in Seq(EventRecords),
         dispatch_events' = dispatch_events \o fs, UNCHANGED view,
         DOMAIN connections' = DOMAIN connections, pc' # "requests",
         \A i \in Ids : Has(fs, {"Connected"}, i) => i \in DOMAIN connections
  PROVE  InformedInv'
<1>1. dispatch_events \in Seq(EventRecords)
  BY DEF TypeOK
<1>2. \A i \in Ids : Grown(dispatch_events, fs, i)
  BY <1>1, EventsGrow
<1> QED
  BY <1>2 DEF InformedInv, Informed, Grown

\* A connection that is dropped is reported as the last thing about it.
LEMMA InformedEnd ==
  ASSUME TypeOK, InformedInv, NEW fs \in Seq(EventRecords), NEW j \in Ids,
         dispatch_events' = dispatch_events \o fs, UNCHANGED view,
         DOMAIN connections' = DOMAIN connections \ {j}, pc' # "requests",
         fs # <<>>, Is(fs, Len(fs), Ends, j),
         \A i \in Ids : ~Has(fs, {"Connected"}, i)
  PROVE  InformedInv'
<1>1. dispatch_events \in Seq(EventRecords)
  BY DEF TypeOK
<1>2. \A i \in Ids : Grown(dispatch_events, fs, i)
  BY <1>1, EventsGrow
<1>3. Has(fs, Ends, j)
  <2>1. Len(fs) \in Nat /\ Len(fs) # 0
    BY LenProperties, EmptySeq
  <2>2. Len(fs) \in 1..Len(fs)
    BY <2>1
  <2> QED
    BY <2>2 DEF Has
<1>4. Informed(view[j], j \in DOMAIN connections', dispatch_events \o fs, j)
  BY <1>2, <1>3 DEF Informed, Grown
<1>5. ASSUME NEW i \in Ids, i # j
      PROVE  Informed(view[i], i \in DOMAIN connections', dispatch_events \o fs, i)
  <2>1. i \in DOMAIN connections' <=> i \in DOMAIN connections
    BY <1>5
  <2> QED
    BY <1>2, <1>5, <2>1 DEF InformedInv, Informed, Grown
<1> QED
  BY <1>4, <1>5 DEF InformedInv

\* What one event says.
LEMMA SingleEvent ==
  ASSUME NEW i
  PROVE  /\ <<Connected(i)>> # <<>> /\ Len(<<Connected(i)>>) = 1
         /\ Has(<<Connected(i)>>, {"Connected"}, i)
         /\ \A j : Has(<<Connected(i)>>, {"Connected"}, j) => j = i
         /\ \A e \in {Disconnected(i), ConnectionFailed(i)} :
              /\ <<e>> # <<>> /\ Len(<<e>>) = 1 /\ Is(<<e>>, 1, Ends, i)
              /\ \A j : ~Has(<<e>>, {"Connected"}, j)
  BY DEF Connected, Disconnected, ConnectionFailed, Has, Is, Ends

\* What read_connection reports: data, and the end as the last event.
LEMMA ReadReports ==
  ASSUME NEW i \in Ids, NEW d \in Seq(Nat)
  PROVE  /\ \A j : ~Has(DataIfAny(i, d), {"Connected"}, j)
         /\ \A j : ~Has(LastEvents(i, d), {"Connected"}, j)
         /\ LastEvents(i, d) # <<>>
         /\ Is(LastEvents(i, d), Len(LastEvents(i, d)), Ends, i)
<1>1. CASE d = <<>>
  <2>1. DataIfAny(i, d) = <<>> /\ LastEvents(i, d) = <<Disconnected(i)>>
    BY <1>1, EventTypes, ReadEventTypes, ConcatEmptySeq DEF DataIfAny, LastEvents
  <2>2. /\ <<Disconnected(i)>> # <<>> /\ Len(<<Disconnected(i)>>) = 1
        /\ Is(<<Disconnected(i)>>, 1, Ends, i)
        /\ \A j : ~Has(<<Disconnected(i)>>, {"Connected"}, j)
    BY SingleEvent
  <2>3. \A j : ~Has(<<>>, {"Connected"}, j)
    BY EmptySeq DEF Has
  <2> QED
    BY <2>1, <2>2, <2>3
<1>2. CASE d # <<>>
  <2> DEFINE es == <<Data(i, d)>>
             fs == <<Disconnected(i)>>
             gs == es \o fs
  <2>1. DataIfAny(i, d) = es /\ LastEvents(i, d) = gs
    BY <1>2 DEF DataIfAny, LastEvents
  <2>2. /\ es \in Seq(EventRecords) /\ Len(es) = 1 /\ es[1].type = "Data"
        /\ fs \in Seq(EventRecords) /\ Len(fs) = 1 /\ fs[1].type = "Disconnected"
        /\ fs[1].id = i
    BY EventTypes DEF Data, Disconnected
  <2> HIDE DEF es, fs
  <2>3. Len(gs) = 2 /\ gs[1] = es[1] /\ gs[2] = fs[1]
    <3>1. /\ Len(gs) = Len(es) + Len(fs)
          /\ \A k \in 1..(Len(es) + Len(fs)) :
               gs[k] = IF k <= Len(es) THEN es[k] ELSE fs[k - Len(es)]
      BY <2>2, ConcatProperties
    <3> HIDE DEF gs
    <3>2. Len(gs) = 2
      BY <2>2, <3>1
    <3>3. gs[1] = es[1]
      BY <2>2, <3>1
    <3>4. gs[2] = fs[1]
      BY <2>2, <3>1
    <3> QED
      BY <3>2, <3>3, <3>4
  <2> HIDE DEF gs
  <2>4. gs # <<>>
    BY <2>3, EmptySeq, SMTT(60)
  <2> QED
    BY <2>1, <2>2, <2>3, <2>4 DEF Has, Is, Ends
<1> QED
  BY <1>1, <1>2

\* read_connection and the branches before it.
LEMMA InformedEvent ==
  ASSUME TypeOK, TablesInv, InformedInv, HandleEvent
  PROVE  InformedInv'
<1> USE DEF tables, app, Take
<1>1. PICK e \in poll_events :
        \/ HandleListener(e) \/ SkipDisconnected(e)
        \/ ReadUnconnected(e) \/ ReadDisconnected(e) \/ ReadData(e)
        \/ HandleWritable(e)
  BY DEF HandleEvent
<1>2. CASE HandleListener(e) \/ SkipDisconnected(e) \/ ReadUnconnected(e)
           \/ HandleWritable(e)
  BY <1>2, InformedKeep DEF HandleListener, SkipDisconnected, ReadUnconnected,
     HandleWritable, Panic
<1>3. ASSUME e.id \in DOMAIN connections
      PROVE  e.id \in Ids /\ sock[e.id].rx \in Seq(Nat)
  <2>1. e.id \in DOMAIN sock /\ e.id \in Ids
    BY <1>3 DEF TablesInv
  <2>2. sock[e.id] \in SocketRecords
    BY <2>1 DEF TypeOK
  <2> QED
    BY <2>1, <2>2 DEF SocketRecords
<1>4. CASE ReadDisconnected(e)
  <2>1. /\ e.id \in DOMAIN connections /\ DropSockets({e.id}) /\ pc' = "events"
        /\ dispatch_events' = dispatch_events \o LastEvents(e.id, sock[e.id].rx)
        /\ view' = view
    BY <1>4 DEF ReadDisconnected, IsConnection
  <2>2. DOMAIN connections' = DOMAIN connections \ {e.id}
    BY <2>1, WithoutEntries DEF DropSockets
  <2> QED
    BY <1>3, <2>1, <2>2, InformedEnd, ReadEventTypes, ReadReports
<1>5. CASE ReadData(e)
  <2>1. /\ e.id \in DOMAIN connections /\ pc' # "requests"
        /\ dispatch_events' = dispatch_events \o DataIfAny(e.id, sock[e.id].rx)
        /\ view' = view /\ connections' = connections
    BY <1>5 DEF ReadData, IsConnection, track_spurious_wakeup
  <2> QED
    BY <1>3, <2>1, InformedMore, ReadEventTypes, ReadReports
<1> QED
  BY <1>1, <1>2, <1>4, <1>5

\* accept_connections, as long as no accept() and no set_nodelay() fails.
LEMMA InformedAccept ==
  ASSUME TypeOK, TablesInv, InformedInv, Accept, Faults \cap {"accept", "nodelay"} = {}
  PROVE  InformedInv'
<1> USE DEF tables, app
<1>1. CASE AcceptStream \/ AcceptWouldBlock \/ RegisterLostStream
  BY <1>1, InformedKeep DEF AcceptStream, AcceptWouldBlock, RegisterLostStream,
     Panic, track_spurious_wakeup
<1>2. CASE RegisterStream
  <2> DEFINE fs == <<Connected(next_id)>>
  <2>1. /\ view' = [view EXCEPT ![next_id] = "new"] /\ pc' # "requests"
        /\ dispatch_events' = Append(dispatch_events, Connected(next_id))
    BY <1>2 DEF RegisterStream, OpenSocket, track_spurious_wakeup
  <2>2. DOMAIN connections' = DOMAIN connections \cup {next_id}
    BY <1>2, OpenEntries DEF RegisterStream
  <2>3. /\ dispatch_events \in Seq(EventRecords) /\ next_id \in Ids
        /\ view \in [Ids -> {"new", "connecting", "open"} \cup Ended]
        /\ Connected(next_id) \in EventRecords
    BY EventTypes DEF TypeOK
  <2>4. fs \in Seq(EventRecords) /\ dispatch_events' = dispatch_events \o fs
    BY <2>1, <2>3, AppendIsConcat
  <2>5. \A i \in Ids : Grown(dispatch_events, fs, i)
    BY <2>3, <2>4, EventsGrow
  <2>6. Has(fs, {"Connected"}, next_id)
        /\ \A i : Has(fs, {"Connected"}, i) => i = next_id
    BY SingleEvent
  <2> HIDE DEF fs
  <2>7. Informed(view'[next_id], next_id \in DOMAIN connections',
                 dispatch_events', next_id)
    BY <2>1, <2>2, <2>3, <2>4, <2>5, <2>6 DEF Informed, Grown
  <2>8. ASSUME NEW i \in Ids, i # next_id
        PROVE  Informed(view'[i], i \in DOMAIN connections', dispatch_events', i)
    <3>1. /\ i \in DOMAIN connections' <=> i \in DOMAIN connections
          /\ view'[i] = view[i] /\ ~Has(fs, {"Connected"}, i)
      BY <2>1, <2>2, <2>3, <2>6, <2>8
    <3> QED
      BY <2>4, <2>5, <2>8, <3>1 DEF InformedInv, Informed, Grown
  <2> QED
    BY <2>1, <2>7, <2>8 DEF InformedInv
<1> QED
  BY <1>1, <1>2 DEF Accept, AcceptError, NodelayError

\* write_connection.
LEMMA InformedWrite ==
  ASSUME TypeOK, TablesInv, RoundInv, InformedInv, Write
  PROVE  InformedInv'
<1> USE DEF tables, app
<1>1. /\ cur \in Ids /\ dispatch_events \in Seq(EventRecords)
      /\ \A e \in {Connected(cur), Disconnected(cur), ConnectionFailed(cur)} :
           <<e>> \in Seq(EventRecords) /\ e \in EventRecords
           /\ Append(dispatch_events, e) = dispatch_events \o <<e>>
  BY EventTypes, AppendIsConcat, SMTT(60) DEF TypeOK
<1>2. ASSUME NEW e \in {Disconnected(cur), ConnectionFailed(cur)}, GiveUp(e)
      PROVE  InformedInv'
  <2>1. /\ DropSockets({cur}) /\ view' = view /\ pc' = "events"
        /\ dispatch_events' = dispatch_events \o <<e>>
    BY <1>1, <1>2 DEF GiveUp
  <2>2. DOMAIN connections' = DOMAIN connections \ {cur}
    BY <2>1, WithoutEntries DEF DropSockets
  <2>3. /\ <<e>> \in Seq(EventRecords) /\ <<e>> # <<>> /\ Len(<<e>>) = 1
        /\ Is(<<e>>, 1, Ends, cur) /\ \A i : ~Has(<<e>>, {"Connected"}, i)
    BY <1>1, SingleEvent
  <2> DEFINE fs == <<e>>
  <2> HIDE DEF fs
  <2>4. /\ fs \in Seq(EventRecords) /\ fs # <<>> /\ Is(fs, Len(fs), Ends, cur)
        /\ \A i : ~Has(fs, {"Connected"}, i) /\ dispatch_events' = dispatch_events \o fs
    BY <2>1, <2>3 DEF fs
  <2> QED
    BY <1>1, <2>1, <2>2, <2>4, InformedEnd
<1>3. CASE ConnectFailed \/ WriteFails
  BY <1>2, <1>3 DEF ConnectFailed, WriteFails
<1>4. CASE ConnectEstablished
  BY <1>4, InformedKeep DEF ConnectEstablished
<1>5. CASE WriteData
  <2>1. /\ DOMAIN connections' = DOMAIN connections /\ view' = view
        /\ cur \in DOMAIN connections
    BY <1>5 DEF WriteData, Flushing, RoundInv
  <2>2. CASE pc = "flush_new"
    <3>1. dispatch_events' = dispatch_events \o <<Connected(cur)>> /\ pc' = "events"
      BY <1>1, <1>5, <2>2 DEF WriteData
    <3>2. \A i : Has(<<Connected(cur)>>, {"Connected"}, i) => i = cur
      BY SingleEvent
    <3>3. <<Connected(cur)>> \in Seq(EventRecords)
      BY <1>1
    <3> DEFINE fs == <<Connected(cur)>>
    <3>4. /\ fs \in Seq(EventRecords) /\ dispatch_events' = dispatch_events \o fs
          /\ \A i : Has(fs, {"Connected"}, i) => i = cur
      BY <3>1, <3>2, <3>3
    <3> HIDE DEF fs
    <3> QED
      BY <2>1, <3>1, <3>4, InformedMore
  <2>3. CASE pc # "flush_new"
    <3>1. UNCHANGED dispatch_events /\ pc' # "requests"
      BY <1>5, <2>3 DEF WriteData, track_spurious_wakeup
    <3> QED
      BY <2>1, <3>1, InformedKeep
  <2> QED
    BY <2>2, <2>3
<1> QED
  BY <1>3, <1>4, <1>5 DEF Write

\* The application handles an event.
LEMMA InformedApp ==
  ASSUME TypeOK, InformedInv, AppHandlesEvent
  PROVE  InformedInv'
<1> USE DEF tables, thread
<1> DEFINE e == Head(dispatch_events)
<1>1. /\ dispatch_events \in Seq(EventRecords) /\ dispatch_events # <<>>
      /\ view \in [Ids -> {"new", "connecting", "open"} \cup Ended]
      /\ pc = "app" /\ pc' = pc /\ connections' = connections
      /\ dispatch_events' = Tail(dispatch_events)
  BY DEF TypeOK, AppHandlesEvent
<1>2. e \in EventRecords /\ e = dispatch_events[1]
  BY <1>1, HeadTailProperties
<1>3. /\ e.type \in {"Inactive", "Connected", "ConnectionFailed", "Disconnected",
                     "Data"}
      /\ e.type # "Inactive" => e.id \in Ids
  BY <1>2 DEF EventRecords
<1>4. \A types, i : Is(dispatch_events, 1, types, i) <=> e.type \in types /\ e.id = i
  BY <1>2 DEF Is
<1>5. ASSUME NEW i \in Ids
      PROVE  Informed(view'[i], i \in DOMAIN connections', dispatch_events', i)
  <2>1. /\ Shrunk(dispatch_events, i)
        /\ Informed(view[i], i \in DOMAIN connections, dispatch_events, i)
    BY <1>1, EventsShrink DEF InformedInv
  <2>2. CASE e.type \in {"Inactive", "Data"}
    <3>1. view' = view
      BY <2>2 DEF AppHandlesEvent
    <3>2. \A types : types \in {Ends, {"Connected"}} => ~Is(dispatch_events, 1, types, i)
      BY <1>4, <2>2 DEF Ends
    <3> QED
      BY <1>1, <2>1, <3>1, <3>2 DEF Informed, Shrunk
  <2>3. CASE e.type \in {"Connected", "ConnectionFailed", "Disconnected"}
    <3>1. view' = IF view[e.id] = "closed" THEN view
                  ELSE [view EXCEPT ![e.id] = ViewAfter[e.type]]
      BY <2>3 DEF AppHandlesEvent
    <3>2. CASE e.id # i
      <4>1. view'[i] = view[i]
        BY <1>1, <3>1, <3>2
      <4>2. \A types : ~Is(dispatch_events, 1, types, i)
        BY <1>4, <3>2
      <4> QED
        BY <1>1, <2>1, <4>1, <4>2 DEF Informed, Shrunk
    <3>3. CASE e.id = i /\ view[i] = "closed"
      <4>1. view'[i] = "closed"
        BY <3>1, <3>3
      <4> QED
        BY <4>1 DEF Informed
    <3>4. CASE e.id = i /\ view[i] # "closed" /\ e.type = "Connected"
      <4>1. view'[i] = "open" /\ Is(dispatch_events, 1, {"Connected"}, i)
        BY <1>1, <1>4, <3>1, <3>4 DEF ViewAfter
      <4> QED
        BY <1>1, <2>1, <3>4, <4>1 DEF Informed, Shrunk
    <3>5. CASE e.id = i /\ view[i] # "closed" /\ e.type # "Connected"
      <4>1. view'[i] \in {"failed", "disconnected"}
        BY <1>1, <2>3, <3>1, <3>5 DEF ViewAfter
      <4> QED
        BY <1>1, <2>1, <3>5, <4>1 DEF Informed, Shrunk
    <3> QED
      BY <3>2, <3>3, <3>4, <3>5
  <2> QED
    BY <1>3, <2>2, <2>3
<1> QED
  BY <1>1, <1>5 DEF InformedInv

\* fetch_events has nothing to watch: no connection can be missing.
LEMMA InformedIdle ==
  ASSUME TypeOK, InformedInv, ReportInactive
  PROVE  InformedInv'
<1>1. /\ dispatch_events = <<>> /\ dispatch_events' = <<Inactive>> /\ pc' = "app"
      /\ view' = view /\ connections' = connections
  BY DEF ReportInactive, InformedInv, tables, app
<1>2. \A types, i : ~Has(<<>>, types, i)
  BY EmptySeq DEF Has
<1>3. \A i : EndFollows(<<Inactive>>, i)
  BY DEF EndFollows, Is, Inactive
<1> QED
  BY <1>1, <1>2, <1>3 DEF InformedInv, Informed

\* Every step keeps the application informed.
LEMMA InformedStep ==
  ASSUME Faults \cap {"accept", "nodelay"} = {}
  PROVE  TypeOK /\ TablesInv /\ RoundInv /\ InformedInv /\ [Next]_vars => InformedInv'
<1> SUFFICES ASSUME TypeOK, TablesInv, RoundInv, InformedInv, [Next]_vars
             PROVE  InformedInv'
  OBVIOUS
<1> USE DEF tables, app, thread
<1>1. CASE UNCHANGED vars
  BY <1>1, InformedKeep DEF vars
<1>2. CASE FetchEvents \/ Poll \/ PollFails \/ EventsDone
  BY <1>2, InformedKeep DEF FetchEvents, Poll, PollFails, EventsDone
<1>3. CASE Kernel
  BY <1>3, InformedKeep DEF Kernel, KernelStep, ConnectCompletes, ConnectRefused,
     PeerConnects, PeerWrites, PeerCloses, PeerResets, RoomFreed
<1> QED
  BY <1>1, <1>2, <1>3, InformedOperations, InformedEvent, InformedAccept,
     InformedWrite, InformedApp, InformedIdle DEF Next, Loop

\* The application stays informed, for every use of the transport, unless
\* accept() or set_nodelay() fails.
THEOREM InformedCorrect ==
  ASSUME Faults \cap {"accept", "nodelay"} = {}
  PROVE  Spec => []InformedInv
<1>1. Init => InformedInv
  <2>1. \A i : EndFollows(<<>>, i)
    BY EmptySeq DEF EndFollows
  <2> QED
    BY <2>1 DEF Init, InformedInv, Informed, EmptyMap
<1>2. TypeOK /\ TablesInv /\ RoundInv /\ InformedInv /\ [Next]_vars => InformedInv'
  BY InformedStep
<1> QED
  BY <1>1, <1>2, TypeCorrect, TablesCorrect, RoundCorrect, PTL DEF Spec

\* No connection is lost behind the application's back, and none appears
\* unannounced: unless accept() or set_nodelay() fails, in which case
\* fetch_events throws away the events it has collected, a connection the
\* application believes in exists or its end is about to be reported, and one
\* it has not heard of is about to be announced.  This holds for every use of
\* the transport, with ids used again, and in every state of the loop.
THEOREM NothingLostSilently ==
  ASSUME Faults \cap {"accept", "nodelay"} = {}
  PROVE  Spec => []NoSilentLoss
<1>1. InformedInv => NoSilentLoss
  <2>1. \A i, types : Has(dispatch_events, types, i) => Reported(i, types)
    BY DEF Has, Is, Reported
  <2> QED
    BY <2>1 DEF InformedInv, Informed, NoSilentLoss, Ends
<1>2. Spec => []InformedInv
  BY InformedCorrect
<1> QED
  BY <1>1, <1>2, PTL

-----------------------------------------------------------------------------
(* No assertion of the transport fails: every event that is still to be    *)
(* handled has something to read, to write or to accept behind it.         *)

\* READABLE and WRITABLE as the transport uses them: a connection attempt waits
\* for WRITABLE only, an established connection reads, and writes as long as
\* there is something to write.
Mannered(c, fresh) ==
  IF c.connected /\ ~fresh
  THEN "R" \in c.interest /\ ("W" \in c.interest <=> c.send_buf # <<>>)
  ELSE c.interest = {"W"} /\ c.send_buf = <<>>

ManneredInv ==
  \A i \in DOMAIN connections :
    Mannered(connections[i], pc = "flush_new" /\ cur = i)

MayRead(i) == "R" \in connections[i].interest /\ CanRead(i)
MayWrite(i) == "W" \in connections[i].interest /\ CanWrite(i)

\* The readiness the event e reports is still there when e is handled.
Justified(e) ==
  /\ e.readable \/ e.writable
  /\ e.id \in DOMAIN listeners => e.readable /\ listeners[e.id] > 0
  /\ e.id \notin DOMAIN listeners \cup disconnected_ids =>
       (e.readable => MayRead(e.id)) /\ (e.writable => MayWrite(e.id))

\* Two events that call for the same thing.
Alike(e, f) ==
  e.id = f.id /\ ((e.readable /\ f.readable) \/ (e.writable /\ f.writable))

EventsInv ==
  /\ \A e \in poll_events : Justified(e)
  /\ \A e, f \in poll_events : Alike(e, f) => e = f

PlaceInv ==
  /\ pc = "accept" => /\ cur \in DOMAIN listeners
                      /\ listeners[cur] + new_streams > 0
                      /\ \A e \in poll_events : e.id # cur
  /\ pc = "write" => MayWrite(cur)
  /\ pc = "flush_new" => connections[cur].connected
  /\ pc \in {"write", "flush_new"} =>
       \A e \in poll_events : e.writable => e.id # cur

Calm == panic = "none" /\ pc # "panic" /\ spurious_wakeups = 0

CalmInv == Calm /\ ManneredInv /\ EventsInv /\ PlaceInv

\* A wakeup with a cause is not counted.
LEMMA NotSpurious ==
  ASSUME Calm, NEW b \in BOOLEAN, ~b, NEW next, track_spurious_wakeup(b, next), next # "panic"
  PROVE  Calm' /\ pc' = next
  BY LimitAssumption DEF Calm, track_spurious_wakeup

\* Between two rounds there are no events, and only manners matter.
LEMMA CalmBetween ==
  ASSUME CalmInv, pc' \in {"app", "requests"}, poll_events' = {},
         UNCHANGED <<panic, spurious_wakeups>>,
         \A i \in DOMAIN connections' : Mannered(connections'[i], FALSE)
  PROVE  CalmInv'
<1>1. Calm' /\ EventsInv' /\ PlaceInv'
  BY DEF CalmInv, Calm, EventsInv, PlaceInv
<1>2. ManneredInv'
  BY DEF ManneredInv, Mannered
<1> QED
  BY <1>1, <1>2 DEF CalmInv

\* Connections between two rounds.
LEMMA BetweenMannered ==
  ASSUME CalmInv, pc # "flush_new"
  PROVE  \A i \in DOMAIN connections : Mannered(connections[i], FALSE)
  BY DEF CalmInv, ManneredInv, Mannered

\* Sending to established connections: there is something to write.
LEMMA CalmSend ==
  ASSUME TypeOK, CalmInv, NEW S, NEW n \in Nat, Send(S, n),
         Usage \cap {"early_send", "empty_send"} = {}
  PROVE  \A i \in DOMAIN connections' : Mannered(connections'[i], FALSE)
<1> SUFFICES ASSUME NEW i \in DOMAIN connections'
             PROVE  Mannered(connections'[i], FALSE)
  OBVIOUS
<1>1. /\ DOMAIN connections' = DOMAIN connections /\ pc # "flush_new" /\ n > 0
      /\ i \in S \cap DOMAIN connections => connections[i].connected
  BY DEF Send, Sendable, queue_data, Api
<1>2. connections[i] \in ConnectionRecords /\ i \in Ids /\ sent[i] \in Seq(Nat)
  BY <1>1 DEF TypeOK
<1>3. CASE i \notin S
  <2>1. connections'[i] = connections[i]
    BY <1>1, <1>3 DEF Send, queue_data
  <2> QED
    BY <1>1, <2>1, BetweenMannered
<1>4. CASE i \in S
  <2> DEFINE c == connections[i]
             d == connections[i].send_buf \o NextBytes(sent[i], n)
  <2>1. connections'[i] = [c EXCEPT !.send_buf = d, !.interest = RW] /\ c.connected
    BY <1>1, <1>4 DEF Send, queue_data
  <2>2. d \in Seq(Nat) /\ d # <<>>
    <3>1. connections[i].send_buf \in Seq(Nat) /\ NextBytes(sent[i], n) \in Seq(Nat)
      BY <1>2, NextBytesType DEF ConnectionRecords
    <3>2. Len(NextBytes(sent[i], n)) = n
      <4>1. NextBytes(sent[i], n) = [k \in 1..n |-> Len(sent[i]) + k]
        BY DEF NextBytes
      <4>2. DOMAIN NextBytes(sent[i], n) = 1..n
        BY <4>1
      <4> QED
        BY <3>1, <4>2, LenProperties
    <3>3. d \in Seq(Nat) /\ Len(d) = Len(connections[i].send_buf) + n
      BY <3>1, <3>2, ConcatProperties, ZenonT(60)
    <3>4. Len(d) # 0
      BY <1>1, <3>1, <3>3, LenProperties
    <3> QED
      BY <3>3, <3>4, EmptySeq
  <2> HIDE DEF c, d
  <2>3. c \in ConnectionRecords /\ RW \in SUBSET RW
    BY <1>2 DEF c
  <2>4. /\ [c EXCEPT !.send_buf = d, !.interest = RW].send_buf = d
        /\ [c EXCEPT !.send_buf = d, !.interest = RW].interest = RW
        /\ [c EXCEPT !.send_buf = d, !.interest = RW].connected = c.connected
    BY <2>2, <2>3 DEF ConnectionRecords
  <2> QED
    BY <2>1, <2>2, <2>4 DEF Mannered, RW
<1> QED
  BY <1>3, <1>4

\* The application's calls.
LEMMA CalmOperations ==
  ASSUME TypeOK, RoundInv, CalmInv, Operations,
         Usage \cap {"early_send", "empty_send"} = {}
  PROVE  CalmInv'
<1> USE DEF tables, thread, round
<1>0. /\ UNCHANGED <<pc, panic, poll_events, spurious_wakeups>>
      /\ Api
  BY DEF Operations, connect, listen, close_connection, close_listener,
     close_all_connections, close_all_listeners, close_all,
     shutdown_connection, shutdown_all_connections, ShutdownConnections,
     send_to, send_to_many, broadcast, broadcast_except,
     broadcast_except_many, Send, CloseConnections, CloseListeners
<1>1. /\ pc' \in {"app", "requests"} /\ poll_events' = {} /\ pc # "flush_new"
      /\ \A i \in DOMAIN connections : Mannered(connections[i], FALSE)
  BY <1>0, BetweenMannered DEF Api, RoundInv
<1> SUFFICES \A i \in DOMAIN connections' : Mannered(connections'[i], FALSE)
  BY <1>0, <1>1, CalmBetween
<1>2. CASE connect
  <2> DEFINE c == [connected |-> FALSE, interest |-> {"W"}, send_buf |-> <<>>]
  <2>1. connections' = With(connections, next_id, c)
    BY <1>2 DEF connect, OpenSocket, ConnectInterest
  <2>2. Mannered(c, FALSE)
    BY DEF Mannered
  <2> HIDE DEF c
  <2>3. /\ DOMAIN connections' = DOMAIN connections \cup {next_id}
        /\ \A j \in DOMAIN connections \cup {next_id} :
             connections'[j] = IF j = next_id THEN c ELSE connections[j]
    BY <2>1 DEF With
  <2> QED
    BY <1>1, <2>2, <2>3
<1>3. ASSUME NEW S, connections' = Without(connections, S)
      PROVE  \A i \in DOMAIN connections' : Mannered(connections'[i], FALSE)
  <2>1. /\ DOMAIN connections' = DOMAIN connections \ S
        /\ \A j \in DOMAIN connections \ S : connections'[j] = connections[j]
    BY <1>3, WithoutEntries
  <2> QED
    BY <1>1, <2>1
<1>4. CASE \/ \E i \in Ids : close_connection(i)
           \/ close_all_connections \/ close_all
  BY <1>3, <1>4 DEF close_connection, close_all_connections, close_all,
     CloseConnections, DropSockets
<1>5. ASSUME UNCHANGED connections
      PROVE  \A i \in DOMAIN connections' : Mannered(connections'[i], FALSE)
  BY <1>1, <1>5
<1>6. CASE \/ listen \/ close_all_listeners \/ \E i \in Ids : close_listener(i)
           \/ \E how \in {"Read", "Write", "Both"} :
                \/ \E i \in Ids : shutdown_connection(i, how)
                \/ shutdown_all_connections(how)
  BY <1>5, <1>6 DEF listen, close_listener, close_all_listeners, CloseListeners,
     shutdown_connection, shutdown_all_connections, ShutdownConnections
<1>7. ASSUME NEW n \in 0..MaxSend, NEW S, Send(S, n)
      PROVE  \A i \in DOMAIN connections' : Mannered(connections'[i], FALSE)
  <2>1. n \in Nat
    BY LimitAssumption
  <2> QED
    BY <1>7, <2>1, CalmSend
<1> QED
  BY <1>2, <1>4, <1>6, <1>7
     DEF Operations, send_to, send_to_many, broadcast, broadcast_except,
         broadcast_except_many

\* Steps that move the thread between rounds.
LEMMA CalmIdle ==
  ASSUME RoundInv, CalmInv,
         AppHandlesEvent \/ FetchEvents \/ ReportInactive \/ PollFails \/ EventsDone
  PROVE  CalmInv'
<1>1. /\ pc' \in {"app", "requests"} /\ poll_events' = {} /\ pc # "flush_new"
      /\ UNCHANGED <<panic, spurious_wakeups, connections>>
  BY DEF AppHandlesEvent, FetchEvents, ReportInactive, PollFails, EventsDone,
     thread, round, tables, RoundInv
<1>2. \A i \in DOMAIN connections : Mannered(connections[i], FALSE)
  BY <1>1, BetweenMannered
<1> QED
  BY <1>1, <1>2, CalmBetween

\* What a step must keep of a socket that has an event to be handled.
KeepsReady(i) == (MayRead(i) => MayRead(i)') /\ (MayWrite(i) => MayWrite(i)')

\* A socket that a step does not touch stays ready.
LEMMA SameReady ==
  ASSUME NEW i, connections'[i].interest = connections[i].interest,
         sock'[i] = sock[i], peer'[i] = peer[i]
  PROVE  KeepsReady(i)
  BY DEF KeepsReady, MayRead, MayWrite, CanRead, CanWrite

\* The rest of a round stays justified.
LEMMA EventsKeep ==
  ASSUME EventsInv, poll_events' \subseteq poll_events,
         disconnected_ids \subseteq disconnected_ids',
         DOMAIN listeners' = DOMAIN listeners,
         \A e \in poll_events' : e.id \in DOMAIN listeners /\ listeners[e.id] > 0 =>
                                   listeners'[e.id] > 0,
         \A e \in poll_events' : e.id \notin DOMAIN listeners \cup disconnected_ids' =>
                                   KeepsReady(e.id)
  PROVE  EventsInv'
<1>1. \A e, f \in poll_events' : Alike(e, f) => e = f
  BY DEF EventsInv
<1>2. ASSUME NEW e \in poll_events'
      PROVE  Justified(e)'
  <2>1. Justified(e)
    BY <1>2 DEF EventsInv
  <2> QED
    BY <1>2, <2>1 DEF Justified, KeepsReady
<1> QED
  BY <1>1, <1>2 DEF EventsInv

\* The kernel and the peers only add: a readable socket stays readable, a
\* writable one writable, and a backlog grows.
LEMMA CalmKernel ==
  ASSUME TypeOK, TablesInv, RoundInv, CalmInv, Kernel
  PROVE  CalmInv'
<1>1. UNCHANGED <<connections, spurious_wakeups, pc, panic, poll_events, cur,
                  new_streams, disconnected_ids>>
  BY DEF Kernel, KernelStep, ConnectCompletes, ConnectRefused, PeerConnects,
     PeerWrites, PeerCloses, PeerResets, RoomFreed, thread, round
<1>2. PICK i \in Ids :
        \/ ConnectCompletes(i) \/ ConnectRefused(i) \/ PeerConnects(i)
        \/ PeerWrites(i) \/ PeerCloses(i) \/ PeerResets(i) \/ RoomFreed(i)
  BY DEF Kernel
<1>3. /\ DOMAIN listeners' = DOMAIN listeners
      /\ \A j \in DOMAIN listeners : listeners[j] \in Nat /\ listeners'[j] \in Nat
                                     /\ listeners'[j] >= listeners[j]
  <2>1. \A j \in DOMAIN listeners : listeners[j] \in Nat
    BY DEF TypeOK
  <2>2. CASE PeerConnects(i)
    BY <2>1, <2>2 DEF PeerConnects
  <2>3. CASE UNCHANGED listeners
    BY <2>1, <2>3
  <2> QED
    BY <1>2, <2>2, <2>3 DEF ConnectCompletes, ConnectRefused, PeerWrites,
       PeerCloses, PeerResets, RoomFreed
<1>4. ASSUME NEW j \in DOMAIN connections
      PROVE  KeepsReady(j)
  <2>1. /\ j \in DOMAIN sock /\ sock[j] \in SocketRecords /\ j \in Ids
        /\ peer \in [Ids -> {"up", "fin", "lost"}] /\ fed[j] \in Seq(Nat)
    BY DEF TablesInv, TypeOK
  <2>2. CASE j # i
    <3>1. sock'[j] = sock[j] /\ peer'[j] = peer[j]
      BY <1>2, <2>1, <2>2 DEF ConnectCompletes, ConnectRefused, PeerConnects,
         PeerWrites, PeerCloses, PeerResets, RoomFreed
    <3> QED
      BY <1>1, <3>1, SameReady
  <2>3. CASE j = i
    <3>1. CASE ConnectCompletes(i) \/ ConnectRefused(i) \/ PeerResets(i)
      <4>1. \/ sock[j].phase = "syn"
            \/ sock'[j].phase = "err"
        BY <2>1, <2>3, <3>1 DEF ConnectCompletes, ConnectRefused, PeerResets,
           SocketRecords
      <4> QED
        BY <1>1, <4>1 DEF KeepsReady, MayRead, MayWrite, CanRead, CanWrite
    <3>2. CASE PeerConnects(i)
      BY <1>1, <3>2, SameReady DEF PeerConnects
    <3>3. CASE PeerCloses(i)
      <4>1. sock' = sock /\ peer'[j] = "fin"
        BY <2>1, <2>3, <3>3 DEF PeerCloses
      <4> QED
        BY <1>1, <4>1 DEF KeepsReady, MayRead, MayWrite, CanRead, CanWrite
    <3>4. CASE PeerWrites(i)
      <4> DEFINE d == sock[j].rx \o NextBytes(fed[j], 1)
      <4>1. d \in Seq(Nat) /\ (sock[j].rx # <<>> => d # <<>>)
        <5>1. sock[j].rx \in Seq(Nat) /\ NextBytes(fed[j], 1) \in Seq(Nat)
          BY <2>1, NextBytesType DEF SocketRecords
        <5> QED
          BY <5>1, ConcatProperties, ConcatEqualIffEmpty, EmptySeq
      <4>2. sock'[j] = [sock[j] EXCEPT !.rx = d] /\ peer' = peer
        BY <2>1, <2>3, <3>4 DEF PeerWrites
      <4> HIDE DEF d
      <4>3. /\ sock'[j].phase = sock[j].phase /\ sock'[j].rx = d
            /\ sock'[j].rdshut = sock[j].rdshut /\ sock'[j].room = sock[j].room
            /\ sock'[j].wrshut = sock[j].wrshut
        BY <2>1, <4>1, <4>2 DEF SocketRecords
      <4> QED
        BY <1>1, <4>1, <4>2, <4>3 DEF KeepsReady, MayRead, MayWrite, CanRead,
           CanWrite
    <3>5. CASE RoomFreed(i)
      <4>1. sock'[j] = [sock[j] EXCEPT !.room = @ + 1] /\ peer' = peer
        BY <2>1, <2>3, <3>5 DEF RoomFreed
      <4>2. /\ sock'[j].phase = sock[j].phase /\ sock'[j].rx = sock[j].rx
            /\ sock'[j].rdshut = sock[j].rdshut /\ sock'[j].room = sock[j].room + 1
            /\ sock'[j].wrshut = sock[j].wrshut /\ sock[j].room \in Nat
        BY <2>1, <4>1 DEF SocketRecords
      <4>3. sock[j].room > 0 => sock'[j].room > 0
        BY <4>2
      <4> QED
        BY <1>1, <4>1, <4>2, <4>3 DEF KeepsReady, MayRead, MayWrite, CanRead,
           CanWrite
    <3> QED
      BY <1>2, <3>1, <3>2, <3>3, <3>4, <3>5
  <2> QED
    BY <2>2, <2>3
<1>5. EventsInv'
  <2>1. \A e \in poll_events : e.id \in Used \cup disconnected_ids
    BY DEF RoundInv, PendingEventsKnown
  <2>2. \A j \in DOMAIN listeners : listeners[j] > 0 => listeners'[j] > 0
    BY <1>3
  <2> QED
    BY <1>1, <1>3, <1>4, <2>1, <2>2, EventsKeep DEF CalmInv, Used
<1>6. PlaceInv'
  <2>1. pc = "accept" => listeners'[cur] + new_streams > 0 /\ cur \in DOMAIN listeners
    BY <1>3, SMTT(60) DEF CalmInv, PlaceInv, TypeOK
  <2>2. pc = "write" => MayWrite(cur)'
    BY <1>1, <1>4 DEF CalmInv, PlaceInv, RoundInv, KeepsReady
  <2> QED
    BY <1>1, <1>3, <2>1, <2>2 DEF CalmInv, PlaceInv
<1>7. Calm' /\ ManneredInv'
  BY <1>1 DEF CalmInv, Calm, ManneredInv
<1> QED
  BY <1>5, <1>6, <1>7 DEF CalmInv

\* poll() reports what is ready, once.
LEMMA CalmPoll ==
  ASSUME TypeOK, TablesInv, StreamInv, CalmInv, Poll
  PROVE  CalmInv'
<1>1. PICK S \in SUBSET Reportable : poll_events' = UNION {EventsOf(i) : i \in S}
  BY DEF Poll
<1>2. UNCHANGED <<tables, spurious_wakeups, panic, cur, new_streams, sock, peer>>
      /\ pc = "requests" /\ pc' = "events" /\ disconnected_ids' = {}
  BY DEF Poll
<1>3. ASSUME NEW i \in Reportable, NEW e \in EventsOf(i)
      PROVE  /\ e.id = i /\ (e.readable \/ e.writable)
             /\ e.readable => ReadReady(i)
             /\ e.writable => WriteReady(i)
  BY <1>3 DEF EventsOf, PollEvent, Reportable
<1>4. ASSUME NEW e \in poll_events'
      PROVE  Justified(e)'
  <2>1. PICK i \in Reportable : e \in EventsOf(i)
    BY <1>1, <1>4
  <2>2. /\ e.id = i /\ (e.readable \/ e.writable)
        /\ e.readable => ReadReady(e.id)
        /\ e.writable => WriteReady(e.id)
    BY <1>3, <2>1
  <2>3. CASE e.id \in DOMAIN listeners
    <3>1. e.id \notin DOMAIN sock
      BY <2>3 DEF TablesInv, IdsDistinct
    <3>2. e.readable /\ listeners[e.id] > 0
      BY <2>2, <3>1 DEF ReadReady, WriteReady
    <3> QED
      BY <1>2, <2>3, <3>2 DEF Justified, tables
  <2>4. CASE e.id \notin DOMAIN listeners
    <3>1. e.id \in DOMAIN sock /\ e.id \in DOMAIN connections
      BY <2>2, <2>4 DEF ReadReady, WriteReady, TablesInv
    <3>2. connections[e.id].interest = sock[e.id].interest
      BY <3>1 DEF StreamInv, Healthy
    <3>3. (e.readable => MayRead(e.id)) /\ (e.writable => MayWrite(e.id))
      BY <2>2, <2>4, <3>2 DEF ReadReady, WriteReady, MayRead, MayWrite
    <3>4. (e.readable => MayRead(e.id)') /\ (e.writable => MayWrite(e.id)')
      BY <1>2, <3>3 DEF MayRead, MayWrite, CanRead, CanWrite, tables
    <3> QED
      BY <1>2, <2>2, <2>4, <3>4 DEF Justified, tables
  <2> QED
    BY <2>3, <2>4
<1>5. ASSUME NEW e \in poll_events', NEW f \in poll_events', Alike(e, f)
      PROVE  e = f
  <2>1. PICK i \in Reportable : e \in EventsOf(i)
    BY <1>1, <1>5
  <2>2. PICK j \in Reportable : f \in EventsOf(j)
    BY <1>1, <1>5
  <2>3. i = j
    BY <1>3, <1>5, <2>1, <2>2 DEF Alike
  <2>4. CASE MergedEvents
    BY <2>1, <2>2, <2>3, <2>4 DEF EventsOf
  <2>5. CASE ~MergedEvents
    <3> DEFINE a == PollEvent(i, TRUE, FALSE)
               b == PollEvent(i, FALSE, TRUE)
    <3>1. e \in {a, b} /\ f \in {a, b}
      BY <2>1, <2>2, <2>3, <2>5 DEF EventsOf
    <3>2. ~Alike(a, b) /\ ~Alike(b, a)
      BY DEF PollEvent, Alike
    <3> HIDE DEF a, b
    <3> QED
      BY <1>5, <3>1, <3>2
  <2> QED
    BY <2>4, <2>5
<1>6. EventsInv'
  BY <1>4, <1>5 DEF EventsInv
<1>7. Calm' /\ PlaceInv'
  BY <1>2 DEF CalmInv, Calm, PlaceInv
<1>8. ManneredInv'
  BY <1>2 DEF CalmInv, ManneredInv, Mannered, tables
<1> QED
  BY <1>6, <1>7, <1>8 DEF CalmInv


\* One event is taken; those that are left call for other things.
LEMMA TakeEvent ==
  ASSUME CalmInv, NEW e, Take(e)
  PROVE  /\ e \in poll_events /\ Justified(e) /\ cur' = e.id /\ pc = "events"
         /\ poll_events' \subseteq poll_events
         /\ \A f \in poll_events' : ~Alike(e, f)
  BY DEF Take, CalmInv, EventsInv

\* read_connection and the branches before it.
LEMMA CalmEvent ==
  ASSUME TypeOK, TablesInv, RoundInv, CalmInv, HandleEvent
  PROVE  CalmInv'
<1> USE DEF tables, kernel
<1>1. PICK e \in poll_events :
        \/ HandleListener(e) \/ SkipDisconnected(e)
        \/ ReadUnconnected(e) \/ ReadDisconnected(e) \/ ReadData(e)
        \/ HandleWritable(e)
  BY DEF HandleEvent
<1>2. Take(e)
  BY <1>1 DEF HandleListener, SkipDisconnected, ReadUnconnected,
     ReadDisconnected, ReadData, HandleWritable
<1>3. /\ Justified(e) /\ cur' = e.id /\ pc = "events"
      /\ poll_events' \subseteq poll_events
      /\ \A f \in poll_events' : ~Alike(e, f)
  BY <1>2, TakeEvent
<1>4. Calm /\ ManneredInv /\ EventsInv
  BY DEF CalmInv
<1>5. \A i \in DOMAIN connections : Mannered(connections[i], FALSE)
  BY <1>3, BetweenMannered
<1>6. /\ \A f \in poll_events : f.id \in Used \cup disconnected_ids
      /\ \A f \in poll_events : f.id \in DOMAIN listeners =>
           f.readable /\ listeners[f.id] > 0
  BY <1>4 DEF RoundInv, PendingEventsKnown, EventsInv, Justified
<1>7. CASE HandleListener(e)
  <2>1. /\ e.id \in DOMAIN listeners /\ pc' = "accept" /\ cur' = e.id
        /\ UNCHANGED <<connections, listeners, sock, peer, disconnected_ids,
                       spurious_wakeups, panic, new_streams>>
    BY <1>7, <1>2 DEF HandleListener, IsListener, Take
  <2>2. EventsInv'
    BY <1>3, <1>4, <2>1, EventsKeep, SameReady
  <2>3. PlaceInv'
    <3>1. listeners[e.id] \in Nat /\ new_streams \in Nat /\ listeners[e.id] > 0
          /\ e.readable
      BY <1>3, <2>1 DEF TypeOK, Justified
    <3>2. listeners[e.id] + new_streams > 0
      BY <3>1
    <3>3. \A f \in poll_events' : f.id # e.id
      <4> SUFFICES ASSUME NEW f \in poll_events', f.id = e.id PROVE FALSE
        OBVIOUS
      <4>1. f \in poll_events /\ ~Alike(e, f)
        BY <1>3
      <4>2. e.readable /\ f.readable
        BY <1>6, <2>1, <3>1, <4>1
      <4> QED
        BY <4>1, <4>2, Zenon DEF Alike
    <3> QED
      BY <2>1, <3>2, <3>3 DEF PlaceInv
  <2>4. Calm' /\ ManneredInv'
    BY <1>4, <1>5, <2>1 DEF Calm, ManneredInv, Mannered
  <2> QED
    BY <2>2, <2>3, <2>4 DEF CalmInv
<1>8. CASE SkipDisconnected(e)
  <2>1. e.id \in disconnected_ids
    BY <1>6, <1>8 DEF SkipDisconnected, IsListener, IsConnection, Used
  <2>2. UNCHANGED <<connections, listeners, sock, peer, disconnected_ids,
                    spurious_wakeups, panic, pc, new_streams>>
    BY <1>8, <2>1 DEF SkipDisconnected
  <2>3. EventsInv'
    BY <1>3, <1>4, <2>2, EventsKeep, SameReady
  <2>4. Calm' /\ ManneredInv' /\ PlaceInv'
    BY <1>3, <1>4, <1>5, <2>2 DEF Calm, ManneredInv, Mannered, PlaceInv
  <2> QED
    BY <2>3, <2>4 DEF CalmInv
<1>9. ASSUME IsConnection(e)
      PROVE  /\ e.id \in DOMAIN connections /\ Mannered(connections[e.id], FALSE)
             /\ (e.readable => MayRead(e.id)) /\ (e.writable => MayWrite(e.id))
             /\ e.id \in DOMAIN sock /\ sock[e.id] \in SocketRecords
  BY <1>3, <1>5, <1>9 DEF IsConnection, IsListener, Justified, TablesInv, TypeOK
<1>10. CASE ReadUnconnected(e)
  BY <1>9, <1>10 DEF ReadUnconnected, Mannered, MayRead
<1>11. CASE ReadDisconnected(e)
  <2>1. /\ DropSockets({e.id}) /\ disconnected_ids' = disconnected_ids \cup {e.id}
        /\ UNCHANGED <<listeners, spurious_wakeups, pc, panic, new_streams, peer>>
    BY <1>11 DEF ReadDisconnected, MarkDisconnected
  <2>2. /\ DOMAIN connections' = DOMAIN connections \ {e.id}
        /\ \A j \in DOMAIN connections \ {e.id} : connections'[j] = connections[j]
        /\ \A j \in DOMAIN sock \ {e.id} : sock'[j] = sock[j]
    BY <2>1, WithoutEntries, ZenonT(60) DEF DropSockets
  <2>3. \A j \in DOMAIN connections \ {e.id} : KeepsReady(j)
    BY <2>1, <2>2, SameReady DEF TablesInv
  <2>4. EventsInv'
    BY <1>3, <1>4, <1>6, <2>1, <2>3, EventsKeep DEF Used
  <2>5. Calm' /\ PlaceInv'
    BY <1>3, <1>4, <2>1 DEF Calm, PlaceInv
  <2>6. ManneredInv'
    BY <1>3, <1>5, <2>1, <2>2 DEF ManneredInv, Mannered
  <2> QED
    BY <2>4, <2>5, <2>6 DEF CalmInv
<1>12. CASE ReadData(e)
  <2>1. /\ IsConnection(e) /\ e.readable /\ connections[e.id].connected
        /\ ~ReadEnds(e.id) /\ sock' = [sock EXCEPT ![e.id].rx = <<>>]
        /\ track_spurious_wakeup(sock[e.id].rx = <<>>,
                                 IF e.writable THEN "write" ELSE "events")
        /\ UNCHANGED <<connections, listeners, disconnected_ids, peer, new_streams>>
    BY <1>12 DEF ReadData
  <2>2. sock[e.id].rx # <<>>
    BY <1>9, <2>1 DEF MayRead, CanRead, ReadEnds
  <2>3. Calm' /\ pc' = IF e.writable THEN "write" ELSE "events"
    <3> DEFINE b == sock[e.id].rx = <<>>
               next == IF e.writable THEN "write" ELSE "events"
    <3>1. b \in BOOLEAN /\ ~b /\ next # "panic" /\ track_spurious_wakeup(b, next)
      BY <2>1, <2>2
    <3> HIDE DEF b, next
    <3>2. Calm' /\ pc' = next
      BY <1>4, <3>1, NotSpurious
    <3> QED
      BY <3>2 DEF next
  <2>4. /\ sock'[e.id].phase = sock[e.id].phase /\ sock'[e.id].room = sock[e.id].room
        /\ sock'[e.id].wrshut = sock[e.id].wrshut
    BY <1>9, <2>1 DEF SocketRecords
  <2>5. MayWrite(e.id) => MayWrite(e.id)'
    BY <2>1, <2>4 DEF MayWrite, CanWrite
  <2>6. \A j \in DOMAIN connections \ {e.id} : KeepsReady(j)
    BY <2>1, SameReady DEF TablesInv
  <2>7. EventsInv'
    <3>1. ASSUME NEW f \in poll_events'
          PROVE  Justified(f)'
      <4>1. Justified(f) /\ ~Alike(e, f) /\ f.id \in Used \cup disconnected_ids
        BY <1>3, <1>4, <1>6 DEF EventsInv
      <4>2. CASE f.id = e.id
        <5>1. ~f.readable
          <6>1. e.readable
            BY <2>1
          <6> QED
            BY <4>1, <4>2, <6>1, Zenon DEF Alike
        <5> QED
          BY <2>1, <2>5, <4>1, <4>2, <5>1 DEF Justified
      <4>3. CASE f.id # e.id
        BY <2>1, <2>6, <4>1, <4>3 DEF Justified, Used, KeepsReady
      <4> QED
        BY <4>2, <4>3
    <3> QED
      BY <1>3, <1>4, <3>1 DEF EventsInv
  <2>8. PlaceInv'
    <3>1. CASE e.writable
      <4>1. \A f \in poll_events' : f.writable => f.id # e.id
        BY <1>3, <3>1 DEF Alike
      <4> QED
        BY <1>3, <1>9, <2>1, <2>3, <2>5, <3>1, <4>1 DEF PlaceInv
    <3>2. CASE ~e.writable
      BY <2>3, <3>2 DEF PlaceInv
    <3> QED
      BY <3>1, <3>2
  <2>9. ManneredInv'
    BY <1>5, <2>1, <2>3 DEF ManneredInv, Mannered
  <2> QED
    BY <2>3, <2>7, <2>8, <2>9 DEF CalmInv
<1>13. CASE HandleWritable(e)
  <2>1. /\ IsConnection(e) /\ ~e.readable /\ pc' = "write"
        /\ UNCHANGED <<connections, listeners, sock, peer, disconnected_ids,
                       spurious_wakeups, panic, new_streams>>
    BY <1>13 DEF HandleWritable
  <2>2. e.writable
    BY <1>3, <2>1 DEF Justified
  <2>3. EventsInv'
    BY <1>3, <1>4, <2>1, EventsKeep, SameReady
  <2>4. PlaceInv'
    <3>1. MayWrite(e.id)'
      BY <1>9, <2>1, <2>2 DEF MayWrite, CanWrite
    <3>2. \A f \in poll_events' : f.writable => f.id # e.id
      BY <1>3, <2>2 DEF Alike
    <3> QED
      BY <1>3, <2>1, <3>1, <3>2 DEF PlaceInv
  <2>5. Calm' /\ ManneredInv'
    BY <1>4, <1>5, <2>1 DEF Calm, ManneredInv, Mannered
  <2> QED
    BY <2>3, <2>4, <2>5 DEF CalmInv
<1> QED
  BY <1>1, <1>7, <1>8, <1>10, <1>11, <1>12, <1>13


\* accept_connections: the event announced at least one stream.
LEMMA CalmAccept ==
  ASSUME TypeOK, TablesInv, RoundInv, CalmInv, Accept, "backlog_reset" \notin Faults
  PROVE  CalmInv'
<1> USE DEF tables, kernel
<1>1. Calm /\ ManneredInv /\ EventsInv
  BY DEF CalmInv
<1>2. ASSUME pc = "accept"
      PROVE  /\ cur \in DOMAIN listeners /\ listeners[cur] \in Nat
             /\ new_streams \in Nat /\ listeners[cur] + new_streams > 0
             /\ \A e \in poll_events : e.id # cur
             /\ \A i \in DOMAIN connections : Mannered(connections[i], FALSE)
  BY <1>2, BetweenMannered DEF CalmInv, PlaceInv, TypeOK
<1>3. CASE AcceptStream
  <2>1. /\ pc = "accept" /\ listeners[cur] > 0 /\ new_streams' = new_streams + 1
        /\ listeners' = [listeners EXCEPT ![cur] = @ - 1]
        /\ UNCHANGED <<connections, spurious_wakeups, pc, panic, poll_events, cur,
                       disconnected_ids, sock, peer>>
    BY <1>3 DEF AcceptStream
  <2>2. /\ DOMAIN listeners' = DOMAIN listeners
        /\ \A j \in DOMAIN listeners \ {cur} : listeners'[j] = listeners[j]
        /\ listeners'[cur] = listeners[cur] - 1
    BY <1>2, <2>1
  <2>3. EventsInv'
    BY <1>1, <1>2, <2>1, <2>2, EventsKeep, SameReady
  <2>4. PlaceInv'
    <3>1. listeners'[cur] + new_streams' > 0
      BY <1>2, <2>1, <2>2
    <3> QED
      BY <1>2, <2>1, <2>2, <3>1 DEF PlaceInv
  <2>5. Calm' /\ ManneredInv'
    BY <1>1, <2>1 DEF Calm, ManneredInv
  <2> QED
    BY <2>3, <2>4, <2>5 DEF CalmInv
<1>4. CASE AcceptError \/ NodelayError
  <2>1. /\ pc' = "app" /\ poll_events' = {} /\ pc = "accept"
        /\ UNCHANGED <<panic, spurious_wakeups, connections>>
    BY <1>4 DEF AcceptError, NodelayError, ReturnError
  <2> QED
    BY <1>2, <2>1, CalmBetween
<1>5. CASE AcceptWouldBlock
  <2>1. pc = "accept" /\ listeners[cur] = 0 /\ new_streams # 0
    BY <1>2, <1>5 DEF AcceptWouldBlock
  <2>2. /\ pc' = "register"
        /\ UNCHANGED <<connections, listeners, spurious_wakeups, panic, poll_events,
                       cur, disconnected_ids, sock, peer>>
    BY <1>5, <2>1 DEF AcceptWouldBlock
  <2>3. EventsInv'
    BY <1>1, <2>2, EventsKeep, SameReady
  <2>4. Calm' /\ PlaceInv' /\ ManneredInv'
    BY <1>1, <1>2, <2>1, <2>2 DEF Calm, PlaceInv, ManneredInv, Mannered
  <2> QED
    BY <2>3, <2>4 DEF CalmInv
<1>6. CASE RegisterStream
  <2> DEFINE c == [connected |-> TRUE, interest |-> {"R"}, send_buf |-> <<>>]
  <2>1. /\ pc = "register" /\ OpenSocket(c, "est", "new")
        /\ connections' = With(connections, next_id, c)
        /\ UNCHANGED <<listeners, poll_events, cur, disconnected_ids>>
    BY <1>6 DEF RegisterStream, OpenSocket
  <2>2. Mannered(c, FALSE)
    BY DEF Mannered
  <2> HIDE DEF c
  <2>3. Calm' /\ pc' \in {"register", "events"}
    <3>1. CASE new_streams = 1
      <4>1. track_spurious_wakeup(FALSE, "events")
        BY <1>6, <3>1 DEF RegisterStream
      <4> QED
        BY <1>1, <4>1, NotSpurious
    <3>2. CASE new_streams # 1
      BY <1>1, <1>6, <2>1, <3>2 DEF RegisterStream, Calm
    <3> QED
      BY <3>1, <3>2
  <2>4. /\ DOMAIN connections' = DOMAIN connections \cup {next_id}
        /\ \A j \in DOMAIN connections \cup {next_id} :
             connections'[j] = IF j = next_id THEN c ELSE connections[j]
    BY <2>1 DEF With
  <2>5. \A j \in DOMAIN sock \ {next_id} : sock'[j] = sock[j]
    BY <2>1 DEF OpenSocket, With
  <2>6. peer' = [peer EXCEPT ![next_id] = "up"]
        /\ peer \in [Ids -> {"up", "fin", "lost"}]
    BY <2>1 DEF OpenSocket, TypeOK
  <2>7. \A j \in DOMAIN connections : KeepsReady(j)
    BY <2>4, <2>5, <2>6, SameReady DEF TablesInv, IdsDistinct, Used
  <2>8. EventsInv'
    <3>1. \A e \in poll_events : e.id \in Used \cup disconnected_ids
      BY DEF RoundInv, PendingEventsKnown
    <3> QED
      BY <1>1, <2>1, <2>7, <3>1, EventsKeep DEF Used
  <2>9. ManneredInv'
    <3>1. \A i \in DOMAIN connections : Mannered(connections[i], FALSE)
      BY <2>1, BetweenMannered
    <3> QED
      BY <2>2, <2>3, <2>4, <3>1 DEF ManneredInv, Mannered
  <2>10. PlaceInv'
    BY <2>3 DEF PlaceInv
  <2> QED
    BY <2>3, <2>8, <2>9, <2>10 DEF CalmInv
<1> QED
  BY <1>3, <1>4, <1>5, <1>6 DEF Accept, RegisterLostStream

\* What is left when connections are removed.
LEMMA DropEntries ==
  ASSUME NEW S, DropSockets(S)
  PROVE  /\ DOMAIN connections' = DOMAIN connections \ S
         /\ \A j \in DOMAIN connections \ S : connections'[j] = connections[j]
         /\ \A j \in DOMAIN sock \ S : sock'[j] = sock[j]
  BY WithoutEntries DEF DropSockets

\* A connection is given up, and skipped for the rest of the round.
LEMMA CalmGiveUp ==
  ASSUME TypeOK, TablesInv, RoundInv, CalmInv, NEW ev, GiveUp(ev),
         \A j \in DOMAIN connections \ {cur} : peer'[j] = peer[j]
  PROVE  CalmInv'
<1>1. /\ DropSockets({cur}) /\ disconnected_ids' = disconnected_ids \cup {cur}
      /\ pc' = "events"
      /\ UNCHANGED <<listeners, spurious_wakeups, panic, poll_events, cur>>
  BY DEF GiveUp, MarkDisconnected
<1>2. /\ DOMAIN connections' = DOMAIN connections \ {cur}
      /\ \A j \in DOMAIN connections \ {cur} : connections'[j] = connections[j]
      /\ \A j \in DOMAIN sock \ {cur} : sock'[j] = sock[j]
  BY <1>1, DropEntries
<1>3. \A j \in DOMAIN connections \ {cur} : KeepsReady(j)
  BY <1>1, <1>2, SameReady DEF TablesInv
<1>4. EventsInv'
  <2>1. \A e \in poll_events : e.id \in Used \cup disconnected_ids
    BY DEF RoundInv, PendingEventsKnown
  <2> QED
    BY <1>1, <1>3, <2>1, EventsKeep DEF CalmInv, Used
<1>5. Calm' /\ PlaceInv'
  BY <1>1 DEF CalmInv, Calm, PlaceInv
<1>6. ManneredInv'
  BY <1>1, <1>2 DEF CalmInv, ManneredInv, Mannered
<1> QED
  BY <1>4, <1>5, <1>6 DEF CalmInv


\* The write loop wrote something: the event was due to room in the socket's
\* send buffer, and WRITABLE to data waiting for it.
LEMMA CalmWriteData ==
  ASSUME TypeOK, TablesInv, RoundInv, CalmInv, WriteData
  PROVE  CalmInv'
<1> DEFINE conn == connections[cur]
           buf == conn.send_buf
           n == Least(sock[cur].room, Len(buf))
           in == InterestAfterWrite(Unsent(buf, n), conn.interest)
<1>1. /\ cur \in DOMAIN connections /\ cur \in DOMAIN sock /\ conn.connected
      /\ pc \in {"write", "flush_new"} /\ (buf = <<>> \/ ~WriteError(cur))
  BY DEF WriteData, Flushing, RoundInv, TablesInv
<1>2. conn \in ConnectionRecords /\ sock[cur] \in SocketRecords
  BY <1>1 DEF TypeOK
<1>3. /\ buf \in Seq(Nat) /\ sock[cur].room \in Nat /\ Len(buf) \in Nat
      /\ (buf = <<>> <=> Len(buf) = 0) /\ conn.interest \subseteq RW
  BY <1>2, LenProperties, EmptySeq DEF ConnectionRecords, SocketRecords
<1>4. n \in Nat /\ n <= Len(buf)
  BY <1>3, LeastType
<1>5. Unsent(buf, n) \in Seq(Nat) /\ (buf = <<>> => Unsent(buf, n) = <<>>)
  BY <1>3, <1>4, SplitBuffer
<1>6. /\ connections' = [connections EXCEPT ![cur] =
           [conn EXCEPT !.send_buf = Unsent(buf, n), !.interest = in]]
      /\ sock' = [sock EXCEPT ![cur] =
           [sock[cur] EXCEPT !.room = @ - n,
                             !.interest = IF in # conn.interest THEN in ELSE @]]
      /\ UNCHANGED <<listeners, poll_events, cur, new_streams, disconnected_ids, peer>>
      /\ IF pc = "flush_new" THEN pc' = "events" /\ UNCHANGED <<spurious_wakeups, panic>>
                             ELSE track_spurious_wakeup(n = 0, "events")
  BY DEF WriteData
<1>7. Calm' /\ pc' = "events"
  <2>1. CASE pc = "flush_new"
    BY <1>6, <2>1 DEF CalmInv, Calm
  <2>2. CASE pc = "write"
    <3>1. "W" \in conn.interest /\ CanWrite(cur)
      BY <2>2 DEF CalmInv, PlaceInv, MayWrite
    <3>2. Mannered(conn, FALSE)
      BY <1>1, <2>2, BetweenMannered
    <3>3. buf # <<>> /\ ~WriteError(cur)
      BY <1>1, <3>1, <3>2 DEF Mannered
    <3>4. sock[cur].room > 0 /\ Len(buf) > 0
      BY <1>3, <3>1, <3>3 DEF CanWrite, WriteError
    <3>5. n # 0
      BY <1>3, <3>4 DEF Least
    <3> DEFINE b == n = 0
    <3>6. b \in BOOLEAN /\ ~b /\ track_spurious_wakeup(b, "events")
      BY <1>6, <2>2, <3>5
    <3> HIDE DEF b
    <3> QED
      BY <3>6, NotSpurious DEF CalmInv
  <2> QED
    BY <1>1, <2>1, <2>2
<1> HIDE DEF n
<1>8. /\ DOMAIN connections' = DOMAIN connections
      /\ \A j \in DOMAIN connections \ {cur} :
           connections'[j] = connections[j] /\ sock'[j] = sock[j]
  BY <1>1, <1>6 DEF TablesInv
<1>9. /\ connections'[cur].connected /\ connections'[cur].interest = in
      /\ connections'[cur].send_buf = Unsent(buf, n)
  <2> DEFINE d == Unsent(buf, n)
  <2>1. d \in Seq(Nat) /\ connections'[cur] = [conn EXCEPT !.send_buf = d, !.interest = in]
    BY <1>1, <1>5, <1>6
  <2> HIDE DEF d, in, buf, conn
  <2>2. /\ [conn EXCEPT !.send_buf = d, !.interest = in].connected = conn.connected
        /\ [conn EXCEPT !.send_buf = d, !.interest = in].interest = in
        /\ [conn EXCEPT !.send_buf = d, !.interest = in].send_buf = d
    BY <1>2 DEF ConnectionRecords
  <2> QED
    BY <1>1, <2>1, <2>2 DEF d
<1>10. "R" \in in /\ ("W" \in in <=> Unsent(buf, n) # <<>>)
  <2>1. CASE Unsent(buf, n) = <<>>
    BY <2>1 DEF InterestAfterWrite
  <2>2. CASE Unsent(buf, n) # <<>> /\ pc = "flush_new"
    BY <2>2 DEF InterestAfterWrite, RW
  <2>3. CASE Unsent(buf, n) # <<>> /\ pc = "write"
    <3>1. Mannered(conn, FALSE)
      BY <1>1, <2>3, BetweenMannered
    <3>2. in = conn.interest
      BY <2>3 DEF InterestAfterWrite
    <3> QED
      BY <1>1, <1>5, <2>3, <3>1, <3>2 DEF Mannered
  <2> QED
    BY <1>1, <2>1, <2>2, <2>3
<1>11. ManneredInv'
  <2> SUFFICES ASSUME NEW i \in DOMAIN connections'
               PROVE  Mannered(connections'[i], FALSE)
    BY <1>7 DEF ManneredInv, Mannered
  <2>1. CASE i = cur
    BY <1>9, <1>10, <2>1 DEF Mannered
  <2>2. CASE i # cur
    BY <1>8, <2>2 DEF CalmInv, ManneredInv, Mannered
  <2> QED
    BY <2>1, <2>2
<1>12. MayRead(cur) => MayRead(cur)'
  <2>1. sock'[cur] = [sock[cur] EXCEPT !.room = @ - n,
                        !.interest = IF in # conn.interest THEN in ELSE @]
    BY <1>1, <1>6
  <2>2. /\ sock'[cur].phase = sock[cur].phase /\ sock'[cur].rx = sock[cur].rx
        /\ sock'[cur].rdshut = sock[cur].rdshut
    BY <1>2, <2>1 DEF SocketRecords
  <2> QED
    BY <1>6, <1>9, <1>10, <2>2 DEF MayRead, CanRead
<1>13. \A j \in DOMAIN connections \ {cur} : KeepsReady(j)
  BY <1>6, <1>8, SameReady
<1>14. EventsInv'
  <2>1. \A e \in poll_events : Justified(e) /\ e.id \in Used \cup disconnected_ids
                              /\ (e.writable => e.id # cur)
    BY <1>1 DEF CalmInv, EventsInv, RoundInv, PendingEventsKnown, PlaceInv
  <2>2. ASSUME NEW e \in poll_events
        PROVE  Justified(e)'
    <3>1. CASE e.id = cur
      BY <1>6, <1>12, <2>1, <3>1 DEF Justified
    <3>2. CASE e.id # cur
      BY <1>6, <1>13, <2>1, <3>2 DEF Justified, Used, KeepsReady
    <3> QED
      BY <3>1, <3>2
  <2> QED
    BY <1>6, <2>2 DEF CalmInv, EventsInv
<1>15. PlaceInv'
  BY <1>7 DEF PlaceInv
<1> QED
  BY <1>7, <1>11, <1>14, <1>15 DEF CalmInv

\* write_connection.
LEMMA CalmWrite ==
  ASSUME TypeOK, TablesInv, RoundInv, CalmInv, Write
  PROVE  CalmInv'
<1>1. CASE ConnectFailed
  BY <1>1, CalmGiveUp DEF ConnectFailed
<1>2. CASE WriteFails
  <2>1. \A j \in DOMAIN connections \ {cur} : peer'[j] = peer[j]
    BY <1>2 DEF WriteFails, TypeOK
  <2> QED
    BY <1>2, <2>1, CalmGiveUp DEF WriteFails
<1>3. CASE ConnectEstablished
  <2>1. /\ pc = "write" /\ pc' = "flush_new" /\ ~connections[cur].connected
        /\ connections' = [connections EXCEPT ![cur] =
                             [connections[cur] EXCEPT !.connected = TRUE]]
        /\ UNCHANGED <<listeners, spurious_wakeups, panic, poll_events, cur,
                       new_streams, disconnected_ids, sock, peer>>
        /\ cur \in DOMAIN connections
    BY <1>3 DEF ConnectEstablished, round, kernel, RoundInv
  <2>2. connections[cur] \in ConnectionRecords
    BY <2>1 DEF TypeOK
  <2>3. /\ DOMAIN connections' = DOMAIN connections
        /\ \A j \in DOMAIN connections \ {cur} : connections'[j] = connections[j]
        /\ connections'[cur].connected
        /\ connections'[cur].interest = connections[cur].interest
        /\ connections'[cur].send_buf = connections[cur].send_buf
    BY <2>1, <2>2 DEF ConnectionRecords
  <2>4. \A j \in DOMAIN connections : KeepsReady(j)
    BY <2>1, <2>3, SameReady
  <2>5. EventsInv'
    <3>1. \A e \in poll_events : e.id \in Used \cup disconnected_ids
      BY DEF RoundInv, PendingEventsKnown
    <3> QED
      BY <2>1, <2>4, <3>1, EventsKeep DEF CalmInv, Used
  <2>6. Calm' /\ PlaceInv'
    BY <2>1, <2>3 DEF CalmInv, Calm, PlaceInv
  <2>7. ManneredInv'
    <3>1. \A i \in DOMAIN connections : Mannered(connections[i], FALSE)
      BY <2>1, BetweenMannered
    <3> SUFFICES ASSUME NEW i \in DOMAIN connections
                 PROVE  Mannered(connections'[i], i = cur)
      BY <2>1, <2>3 DEF ManneredInv, Mannered
    <3>2. CASE i = cur
      BY <2>1, <2>3, <3>1, <3>2 DEF Mannered
    <3>3. CASE i # cur
      BY <2>3, <3>1, <3>3 DEF Mannered
    <3> QED
      BY <3>2, <3>3
  <2> QED
    BY <2>5, <2>6, <2>7 DEF CalmInv
<1> QED
  BY <1>1, <1>2, <1>3, CalmWriteData DEF Write

\* Every step keeps the calm.
LEMMA CalmStep ==
  ASSUME Usage \cap {"early_send", "empty_send"} = {}, "backlog_reset" \notin Faults
  PROVE  TypeOK /\ TablesInv /\ RoundInv /\ StreamInv /\ CalmInv /\ [Next]_vars
           => CalmInv'
<1> SUFFICES ASSUME TypeOK, TablesInv, RoundInv, StreamInv, CalmInv, [Next]_vars
             PROVE  CalmInv'
  OBVIOUS
<1>1. CASE UNCHANGED vars
  <2>1. UNCHANGED <<connections, listeners, spurious_wakeups, panic, pc, poll_events,
                    cur, new_streams, disconnected_ids, sock, peer>>
    BY <1>1 DEF vars, tables, thread, round, kernel
  <2>2. EventsInv'
    BY <2>1, EventsKeep, SameReady DEF CalmInv
  <2>3. PlaceInv'
    BY <2>1 DEF CalmInv, PlaceInv, MayWrite, CanWrite
  <2>4. Calm' /\ ManneredInv'
    BY <2>1 DEF CalmInv, Calm, ManneredInv
  <2> QED
    BY <2>2, <2>3, <2>4 DEF CalmInv
<1> QED
  BY <1>1, CalmOperations, CalmIdle, CalmKernel, CalmPoll, CalmEvent, CalmAccept,
     CalmWrite DEF Next, Loop

\* Used as it is meant to be, the transport never trips one of its own
\* assertions: with no data queued before a connection is up, no empty buffer,
\* and no connection reset in the backlog, neither the lookups of fetch_events
\* nor assert!(conn.connected) in read_connection nor the limit of
\* track_spurious_wakeup can fail, even with max_spurious_wakeups = 0, whatever
\* else the application, the kernel and the peers do.
THEOREM NeverPanics ==
  ASSUME Usage \cap {"early_send", "empty_send"} = {}, "backlog_reset" \notin Faults
  PROVE  Spec => []NoPanic
<1>1. Init => CalmInv
  <2> SUFFICES ASSUME Init PROVE CalmInv
    OBVIOUS
  <2>1. Calm /\ EventsInv /\ PlaceInv
    BY DEF Init, Calm, EventsInv, PlaceInv
  <2>2. ManneredInv
    BY DEF Init, ManneredInv, EmptyMap
  <2> QED
    BY <2>1, <2>2 DEF CalmInv
<1>2. CalmInv => NoPanic
  BY DEF CalmInv, Calm, NoPanic
<1>3. TypeOK /\ TablesInv /\ RoundInv /\ StreamInv /\ CalmInv /\ [Next]_vars
        => CalmInv'
  BY CalmStep
<1> QED
  BY <1>1, <1>2, <1>3, TypeCorrect, TablesCorrect, RoundCorrect, StreamsCorrect, PTL
     DEF Spec

-----------------------------------------------------------------------------
(* The refinement: the life of every id, event by event, is the one        *)
(* ConnectionContract describes.  LifeInv tells it from both ends: what    *)
(* the application knows, the events it is yet to handle, and the bytes    *)
(* behind them add up to what the peer did.                                *)

\* The events of es about i, and the bytes of the Data events among them.
Mine(i) == [e \in EventRecords |->
              IF e.type # "Inactive" /\ e.id = i THEN <<e>> ELSE <<>>]
Payload(i) == [e \in EventRecords |->
                 IF e.type = "Data" /\ e.id = i THEN e.data ELSE <<>>]
Trace(es, i) == FlatMap(Mine(i), es)
Bytes(es, i) == FlatMap(Payload(i), es)

\* The application knows that the connection is up, or is about to hear it.
Announced(v, tr) ==
  v = "open" \/ (v \in {"new", "connecting"} /\ tr # <<>> /\ tr[1].type = "Connected")

\* Events that may still happen to an application that sees the id as v:
\* Connected first, Disconnected last, ConnectionFailed alone, Data between.
Legal(v, tr) ==
  \A k \in 1..Len(tr) :
    /\ tr[k].type = "Connected" => k = 1 /\ v \in {"new", "connecting"}
    /\ tr[k].type = "ConnectionFailed" => Len(tr) = 1 /\ v = "connecting"
    /\ tr[k].type = "Data" => Announced(v, tr) /\ tr[k].data # <<>>
    /\ tr[k].type = "Disconnected" => k = Len(tr) /\ Announced(v, tr)

\* The connection has not ended yet.
Ongoing(tr) == \A k \in 1..Len(tr) : tr[k].type \in {"Connected", "Data"}

\* f is what was handed out, what is in an event, and r.
Flow(f, g, u, r) == f = (g \o u) \o r

\* The transport has the connection c with the socket s; fresh while
\* write_connection has not reported it.
Living(v, p, f, g, c, fresh, s, tr, u) ==
  /\ IF c.connected /\ ~fresh THEN Announced(v, tr)
     ELSE v = "connecting" /\ tr = <<>> /\ c.send_buf = <<>>
  /\ Ongoing(tr)
  /\ s.phase = "err" => p = "lost"
  /\ Flow(f, g, u, s.rx)

\* The connection is gone or was never there: no byte is missing behind the
\* events, if the peer has closed in good order.
Gone(p, f, g, u) ==
  \E r \in Seq(Nat) : Flow(f, g, u, r) /\ (p = "fin" => r = <<>>)

\* write_connection has found the connection established, and not said so yet.
Fresh(i) == pc = "flush_new" /\ cur = i

Story(i) ==
  LET tr == Trace(dispatch_events, i)
      u == Bytes(dispatch_events, i)
  IN
  /\ i \in DOMAIN connections =>
       Living(view[i], peer[i], fed[i], got[i], connections[i],
              Fresh(i), sock[i], tr, u)
  /\ view[i] # "closed" =>
       /\ Legal(view[i], tr)
       /\ i \notin DOMAIN connections => Gone(peer[i], fed[i], got[i], u)

\* Ids from next_id on have not been given away.
Unused(i) ==
  /\ i \notin Used
  /\ view[i] = "new" /\ peer[i] = "up"
  /\ sent[i] = <<>> /\ wire[i] = <<>> /\ fed[i] = <<>> /\ got[i] = <<>>
  /\ Trace(dispatch_events, i) = <<>> /\ Bytes(dispatch_events, i) = <<>>

LifeInv == \A i \in Ids : Story(i) /\ (i >= next_id => Unused(i))

-----------------------------------------------------------------------------

\* What the operators on events do.
Splits(es, fs, i) ==
  /\ Trace(es \o fs, i) = Trace(es, i) \o Trace(fs, i)
  /\ Bytes(es \o fs, i) = Bytes(es, i) \o Bytes(fs, i)

\* The events about one id, in sequences of events.
LEMMA TraceParts ==
  ASSUME NEW i
  PROVE  /\ Trace(<<>>, i) = <<>> /\ Bytes(<<>>, i) = <<>>
         /\ \A e \in EventRecords :
              /\ Trace(<<e>>, i) = IF e.type # "Inactive" /\ e.id = i
                                   THEN <<e>> ELSE <<>>
              /\ Bytes(<<e>>, i) = IF e.type = "Data" /\ e.id = i
                                   THEN e.data ELSE <<>>
         /\ \A es \in Seq(EventRecords) :
              Trace(es, i) \in Seq(EventRecords) /\ Bytes(es, i) \in Seq(Nat)
         /\ \A es, fs \in Seq(EventRecords) : Splits(es, fs, i)
<1>1. Mine(i) \in [EventRecords -> Seq(EventRecords)]
  <2>1. \A e \in EventRecords : <<e>> \in Seq(EventRecords)
        /\ <<>> \in Seq(EventRecords)
    BY EmptySeq
  <2> QED
    BY <2>1 DEF Mine
<1>2. Payload(i) \in [EventRecords -> Seq(Nat)]
  <2>1. \A e \in EventRecords : e.type = "Data" => e.data \in Seq(Nat)
    BY DEF EventRecords
  <2>2. <<>> \in Seq(Nat)
    BY EmptySeq
  <2> QED
    BY <2>1, <2>2 DEF Payload
<1>3. Flattened(Mine(i), EventRecords, EventRecords)
  BY <1>1, FlatMapParts
<1>4. Flattened(Payload(i), EventRecords, Nat)
  BY <1>2, FlatMapParts
<1>5. Trace(<<>>, i) = <<>> /\ Bytes(<<>>, i) = <<>>
  BY <1>3, <1>4 DEF Flattened, Trace, Bytes
<1>6. \A es, fs \in Seq(EventRecords) : Splits(es, fs, i)
  BY <1>3, <1>4 DEF Flattened, Trace, Bytes, Splits
<1>7. \A es \in Seq(EventRecords) :
        Trace(es, i) \in Seq(EventRecords) /\ Bytes(es, i) \in Seq(Nat)
  BY <1>3, <1>4 DEF Flattened, Trace, Bytes
<1>8. ASSUME NEW e \in EventRecords
      PROVE  /\ Trace(<<e>>, i) = IF e.type # "Inactive" /\ e.id = i
                                  THEN <<e>> ELSE <<>>
             /\ Bytes(<<e>>, i) = IF e.type = "Data" /\ e.id = i
                                  THEN e.data ELSE <<>>
  <2>1. Trace(<<e>>, i) = Mine(i)[e] /\ Bytes(<<e>>, i) = Payload(i)[e]
    BY <1>3, <1>4 DEF Flattened, Trace, Bytes
  <2> QED
    BY <2>1 DEF Mine, Payload
<1> QED
  BY <1>5, <1>6, <1>7, <1>8

\* Undelivered is the bytes of the events collected.
LEMMA UndeliveredBytes ==
  ASSUME TypeOK, NEW i
  PROVE  Undelivered(i) = Bytes(dispatch_events, i)
<1>1. \A k \in 1..Len(dispatch_events) : dispatch_events[k] \in EventRecords
  BY ElementOfSeq DEF TypeOK
<1> QED
  BY <1>1 DEF Undelivered, Bytes, FlatMap, Payload

\* What es tells of i, when it is about j alone and carries the bytes b.
TellsOf(es, j, b, i) ==
  /\ es \in Seq(EventRecords)
  /\ Trace(es, i) = IF i = j THEN es ELSE <<>>
  /\ Bytes(es, i) = IF i = j THEN b ELSE <<>>

Tells(es, j, b) == \A i : TellsOf(es, j, b, i)

\* The events reported about j, as j and as any other id i sees them.
LEMMA TraceOfReports ==
  ASSUME NEW j \in Ids, NEW d \in Seq(Nat), NEW i
  PROVE  /\ \A e \in {Connected(j), ConnectionFailed(j), Disconnected(j)} :
              e \in EventRecords /\ TellsOf(<<e>>, j, <<>>, i)
         /\ TellsOf(DataIfAny(j, d), j, d, i) /\ TellsOf(LastEvents(j, d), j, d, i)
<1>1. /\ Data(j, d) \in EventRecords
      /\ \A e \in {Connected(j), ConnectionFailed(j), Disconnected(j)} :
           e \in EventRecords
  BY EventTypes
<1>2. ASSUME NEW e \in {Connected(j), ConnectionFailed(j), Disconnected(j)}
      PROVE  /\ e \in EventRecords /\ <<e>> \in Seq(EventRecords)
             /\ Bytes(<<e>>, i) = <<>>
             /\ Trace(<<e>>, i) = IF i = j THEN <<e>> ELSE <<>>
  <2>1. e \in EventRecords /\ <<e>> \in Seq(EventRecords)
    BY <1>1
  <2>2. /\ Trace(<<e>>, i) = IF e.type # "Inactive" /\ e.id = i
                             THEN <<e>> ELSE <<>>
        /\ Bytes(<<e>>, i) = IF e.type = "Data" /\ e.id = i
                             THEN e.data ELSE <<>>
    BY <2>1, TraceParts
  <2>3. e.type \notin {"Inactive", "Data"} /\ e.id = j
    BY DEF Connected, ConnectionFailed, Disconnected
  <2> QED
    BY <2>1, <2>2, <2>3
<1>3. /\ Trace(DataIfAny(j, d), i) = IF i = j THEN DataIfAny(j, d) ELSE <<>>
      /\ Bytes(DataIfAny(j, d), i) = IF i = j THEN d ELSE <<>>
  <2>1. CASE d = <<>>
    BY <2>1, TraceParts DEF DataIfAny
  <2>2. CASE d # <<>>
    <3> DEFINE e == Data(j, d)
    <3>1. e.type = "Data" /\ e.id = j /\ e.data = d /\ e \in EventRecords
      BY <1>1 DEF Data
    <3>2. DataIfAny(j, d) = <<e>>
      BY <2>2 DEF DataIfAny
    <3> HIDE DEF e
    <3>3. /\ Trace(<<e>>, i) = IF e.type # "Inactive" /\ e.id = i
                               THEN <<e>> ELSE <<>>
          /\ Bytes(<<e>>, i) = IF e.type = "Data" /\ e.id = i
                               THEN e.data ELSE <<>>
      BY <3>1, TraceParts
    <3> QED
      BY <3>1, <3>2, <3>3
  <2> QED
    BY <2>1, <2>2
<1>4. DataIfAny(j, d) \in Seq(EventRecords) /\ LastEvents(j, d) \in Seq(EventRecords)
  BY ReadEventTypes
<1>5. /\ Trace(LastEvents(j, d), i) = IF i = j THEN LastEvents(j, d) ELSE <<>>
      /\ Bytes(LastEvents(j, d), i) = IF i = j THEN d ELSE <<>>
  <2> DEFINE a == DataIfAny(j, d)
             b == <<Disconnected(j)>>
  <2>1. LastEvents(j, d) = a \o b
    BY DEF LastEvents
  <2>2. /\ a \in Seq(EventRecords) /\ b \in Seq(EventRecords)
        /\ Trace(a, i) = IF i = j THEN a ELSE <<>>
        /\ Bytes(a, i) = IF i = j THEN d ELSE <<>>
        /\ Trace(b, i) = IF i = j THEN b ELSE <<>>
        /\ Bytes(b, i) = <<>>
    BY <1>2, <1>3, <1>4
  <2> HIDE DEF a, b
  <2>3. Splits(a, b, i)
    BY <2>2, TraceParts
  <2>4. d \o <<>> = d /\ <<>> \o <<>> = <<>>
    BY ConcatEmptySeq, EmptySeq
  <2> QED
    BY <2>1, <2>2, <2>3, <2>4 DEF Splits
<1>6. ASSUME NEW e \in {Connected(j), ConnectionFailed(j), Disconnected(j)}
      PROVE  TellsOf(<<e>>, j, <<>>, i)
  <2> QED
    BY <1>2 DEF TellsOf
<1>7. TellsOf(DataIfAny(j, d), j, d, i)
  BY <1>3, <1>4 DEF TellsOf
<1>8. TellsOf(LastEvents(j, d), j, d, i)
  BY <1>4, <1>5 DEF TellsOf
<1> QED
  BY <1>1, <1>6, <1>7, <1>8

\* They are about j alone.
LEMMA ReportsTell ==
  ASSUME NEW j \in Ids, NEW d \in Seq(Nat)
  PROVE  /\ \A e \in {Connected(j), ConnectionFailed(j), Disconnected(j)} :
              e \in EventRecords /\ Tells(<<e>>, j, <<>>)
         /\ Tells(DataIfAny(j, d), j, d) /\ Tells(LastEvents(j, d), j, d)
  BY TraceOfReports DEF Tells

-----------------------------------------------------------------------------
(* What may be added to the events about an id, and what the first of them *)
(* leaves behind.                                                          *)

\* Nothing has happened yet.
LEMMA NothingYet ==
  \A v : Legal(v, <<>>) /\ Ongoing(<<>>)
  BY EmptySeq DEF Legal, Ongoing

\* The first event about a connection.
LEMMA LegalFirst ==
  ASSUME NEW e, NEW v
  PROVE  /\ e.type = "Connected" /\ v \in {"new", "connecting"} =>
              Legal(v, <<e>>) /\ Ongoing(<<e>>) /\ Announced(v, <<e>>)
         /\ e.type = "ConnectionFailed" /\ v = "connecting" => Legal(v, <<e>>)
<1> DEFINE tr == <<e>>
<1>1. Len(tr) = 1 /\ tr[1] = e /\ tr # <<>> /\ \A k \in 1..1 : k = 1
  OBVIOUS
<1> HIDE DEF tr
<1>2. \A k \in 1..Len(tr) : k = 1 /\ tr[k] = e
  BY <1>1
<1> QED
  BY <1>1, <1>2 DEF Legal, Ongoing, Announced, tr

\* Data, or the end, after what a connection has gone through so far.
LEMMA LegalMore ==
  ASSUME NEW v, NEW tr \in Seq(EventRecords), NEW e \in EventRecords,
         Legal(v, tr), Ongoing(tr), Announced(v, tr)
  PROVE  /\ e.type = "Data" /\ e.data # <<>> =>
              /\ Legal(v, tr \o <<e>>) /\ Ongoing(tr \o <<e>>)
              /\ Announced(v, tr \o <<e>>)
         /\ e.type = "Disconnected" => Legal(v, tr \o <<e>>)
<1> DEFINE one == <<e>>
           gs == tr \o one
<1>1. one \in Seq(EventRecords) /\ Len(one) = 1 /\ one[1] = e
  OBVIOUS
<1>2. Len(tr) \in Nat
  BY LenProperties
<1> HIDE DEF one
<1>3. /\ Len(gs) = Len(tr) + 1
      /\ \A k \in 1..Len(tr) : gs[k] = tr[k]
      /\ gs[Len(tr) + 1] = e
  <2>1. /\ Len(gs) = Len(tr) + Len(one)
        /\ \A k \in 1..Len(tr) : gs[k] = tr[k]
        /\ \A k \in 1..Len(one) : gs[Len(tr) + k] = one[k]
    BY <1>1, ConcatParts
  <2>2. 1 \in 1..Len(one)
    BY <1>1
  <2> QED
    BY <1>1, <2>1, <2>2
<1> HIDE DEF gs
<1>4. gs # <<>>
  BY <1>2, <1>3, EmptySeq
<1>5. Announced(v, gs)
  <2>1. CASE v = "open"
    BY <2>1 DEF Announced
  <2>2. CASE v # "open"
    <3>1. v \in {"new", "connecting"} /\ tr # <<>> /\ tr[1].type = "Connected"
      BY <2>2 DEF Announced
    <3>2. Len(tr) # 0
      BY <3>1, EmptySeq
    <3>3. 1 \in 1..Len(tr)
      BY <1>2, <3>2
    <3> QED
      BY <1>3, <1>4, <3>1, <3>3 DEF Announced
  <2> QED
    BY <2>1, <2>2
<1>6. \A k \in 1..Len(gs) :
        (k \in 1..Len(tr) /\ gs[k] = tr[k]) \/ (k = Len(gs) /\ gs[k] = e)
  BY <1>2, <1>3
<1>7. ASSUME (e.type = "Data" /\ e.data # <<>>) \/ e.type = "Disconnected"
      PROVE  Legal(v, gs)
  <2> SUFFICES ASSUME NEW k \in 1..Len(gs)
               PROVE
      /\ gs[k].type = "Connected" => k = 1 /\ v \in {"new", "connecting"}
      /\ gs[k].type = "ConnectionFailed" => Len(gs) = 1 /\ v = "connecting"
      /\ gs[k].type = "Data" => Announced(v, gs) /\ gs[k].data # <<>>
      /\ gs[k].type = "Disconnected" => k = Len(gs) /\ Announced(v, gs)
    BY DEF Legal
  <2>1. CASE k \in 1..Len(tr) /\ gs[k] = tr[k]
    BY <1>5, <2>1 DEF Legal, Ongoing
  <2>2. CASE k = Len(gs) /\ gs[k] = e
    BY <1>5, <1>7, <2>2
  <2> QED
    BY <1>6, <2>1, <2>2
<1>8. ASSUME e.type = "Data"
      PROVE  Ongoing(gs)
  BY <1>6, <1>8 DEF Ongoing
<1> QED
  BY <1>5, <1>7, <1>8 DEF gs, one

\* What read_connection reports fits a connection that is announced.
LEMMA LegalRead ==
  ASSUME NEW v, NEW tr \in Seq(EventRecords), NEW j \in Ids, NEW d \in Seq(Nat),
         Legal(v, tr), Ongoing(tr), Announced(v, tr)
  PROVE  /\ Legal(v, tr \o DataIfAny(j, d)) /\ Ongoing(tr \o DataIfAny(j, d))
         /\ Announced(v, tr \o DataIfAny(j, d))
         /\ Legal(v, tr \o LastEvents(j, d))
<1> DEFINE a == DataIfAny(j, d)
           b == <<Disconnected(j)>>
           ta == tr \o a
<1>1. a \in Seq(EventRecords) /\ b \in Seq(EventRecords) /\ LastEvents(j, d) = a \o b
      /\ Disconnected(j) \in EventRecords /\ Disconnected(j).type = "Disconnected"
  BY ReadEventTypes, EventTypes DEF LastEvents, Disconnected
<1>2. Legal(v, ta) /\ Ongoing(ta) /\ Announced(v, ta)
  <2>1. CASE d = <<>>
    BY <2>1, ConcatEmptySeq DEF DataIfAny
  <2>2. CASE d # <<>>
    <3>1. Data(j, d) \in EventRecords /\ Data(j, d).type = "Data"
          /\ Data(j, d).data = d /\ a = <<Data(j, d)>>
      BY <2>2, EventTypes DEF Data, DataIfAny
    <3> QED
      BY <2>2, <3>1, LegalMore
  <2> QED
    BY <2>1, <2>2
<1> HIDE DEF a
<1>3. ta \in Seq(EventRecords)
  BY <1>1, ConcatProperties
<1>4. tr \o (a \o b) = ta \o b
  <2> HIDE DEF b, ta
  <2>1. Joins(tr, a, b)
    BY <1>1, JoinsAlways
  <2> QED
    BY <2>1 DEF Joins, ta
<1> HIDE DEF ta
<1>5. Legal(v, ta \o b)
  BY <1>1, <1>2, <1>3, LegalMore
<1> QED
  BY <1>1, <1>2, <1>4, <1>5 DEF a, ta

\* The application takes the first event e; tr is what follows.
LEMMA LegalLess ==
  ASSUME NEW v, NEW tr \in Seq(EventRecords), NEW e \in EventRecords,
         e.type # "Inactive", Legal(v, <<e>> \o tr)
  PROVE  /\ e.type = "Connected" => v \in {"new", "connecting"} /\ Legal("open", tr)
         /\ e.type = "ConnectionFailed" => v = "connecting" /\ tr = <<>>
         /\ e.type = "Disconnected" => v = "open" /\ tr = <<>>
         /\ e.type = "Data" => v = "open" /\ Legal("open", tr) /\ e.data # <<>>
         /\ Ongoing(<<e>> \o tr) => Ongoing(tr) /\ e.type \in {"Connected", "Data"}
<1> DEFINE one == <<e>>
           gs == one \o tr
<1>1. one \in Seq(EventRecords) /\ Len(one) = 1 /\ one[1] = e
  OBVIOUS
<1>2. Len(tr) \in Nat
  BY LenProperties
<1> HIDE DEF one
<1>3. /\ Len(gs) = 1 + Len(tr) /\ gs[1] = e
      /\ \A k \in 1..Len(tr) : gs[1 + k] = tr[k]
  <2>1. /\ Len(gs) = Len(one) + Len(tr)
        /\ \A k \in 1..Len(one) : gs[k] = one[k]
        /\ \A k \in 1..Len(tr) : gs[Len(one) + k] = tr[k]
    <3>1. one \in Seq(EventRecords) /\ tr \in Seq(EventRecords)
      BY <1>1
    <3> QED
      BY <3>1, ConcatParts
  <2>2. 1 \in 1..Len(one)
    BY <1>1
  <2> QED
    BY <1>1, <2>1, <2>2
<1>0. Legal(v, gs)
  BY DEF gs, one
<1> HIDE DEF gs
<1>4. 1 \in 1..Len(gs) /\ \A k \in 1..Len(tr) : 1 + k \in 1..Len(gs) /\ 1 + k # 1
  BY <1>2, <1>3
<1>5. Announced(v, gs) /\ e.type # "Connected" => v = "open"
  BY <1>3 DEF Announced
<1>6. Len(tr) = 0 => tr = <<>>
  BY EmptySeq
<1>7. ASSUME e.type = "ConnectionFailed"
      PROVE  v = "connecting" /\ tr = <<>>
  BY <1>0, <1>2, <1>3, <1>4, <1>6, <1>7 DEF Legal
<1>8. ASSUME e.type = "Disconnected"
      PROVE  v = "open" /\ tr = <<>>
  BY <1>0, <1>2, <1>3, <1>4, <1>5, <1>6, <1>8 DEF Legal
<1>9. ASSUME e.type \in {"Connected", "Data"}
      PROVE  Legal("open", tr)
  <2> SUFFICES ASSUME NEW k \in 1..Len(tr)
               PROVE
      /\ tr[k].type \notin {"Connected", "ConnectionFailed"}
      /\ tr[k].type = "Data" => tr[k].data # <<>>
      /\ tr[k].type = "Disconnected" => k = Len(tr)
    BY DEF Legal, Announced
  <2>1. gs[1 + k] = tr[k] /\ 1 + k \in 1..Len(gs) /\ 1 + k # 1 /\ Len(gs) # 1
    BY <1>2, <1>3, <1>4
  <2> QED
    BY <1>0, <1>2, <1>3, <2>1 DEF Legal
<1>10. /\ e.type = "Connected" => v \in {"new", "connecting"}
       /\ e.type = "Data" => v = "open" /\ e.data # <<>>
  BY <1>0, <1>3, <1>4, <1>5 DEF Legal
<1>11. ASSUME Ongoing(gs)
       PROVE  Ongoing(tr) /\ e.type \in {"Connected", "Data"}
  BY <1>3, <1>4, <1>11 DEF Ongoing
<1> QED
  BY <1>7, <1>8, <1>9, <1>10, <1>11 DEF gs, one

-----------------------------------------------------------------------------
(* The bytes on their way to the application.                              *)

\* A sequence is a prefix of what continues it.
LEMMA PrefixOfConcat ==
  ASSUME NEW a \in Seq(Nat), NEW b \in Seq(Nat)
  PROVE  /\ Contract!IsPrefix(a, a \o b)
         /\ b # <<>> => Contract!Grows(a, a \o b)
<1>1. /\ a \o b \in Seq(Nat) /\ Len(a \o b) = Len(a) + Len(b)
      /\ SubSeq(a \o b, 1, Len(a)) = a
  BY ConcatParts
<1>2. Len(a) \in Nat /\ Len(b) \in Nat /\ SubSeq(a, 1, Len(a)) = a
      /\ (b # <<>> => Len(b) # 0)
  BY LenProperties, SubSeqFull, EmptySeq
<1>3. Contract!IsPrefix(a, a \o b)
  BY <1>1, <1>2 DEF Contract!IsPrefix
<1>4. b # <<>> => a # a \o b
  <2> SUFFICES ASSUME b # <<>>, a = a \o b PROVE FALSE
    OBVIOUS
  <2>1. Len(a) = Len(a) + Len(b)
    BY <1>1
  <2> QED
    BY <1>2, <2>1
<1> QED
  BY <1>3, <1>4 DEF Contract!Grows, Contract!IsStrictPrefix

\* Reading moves bytes from the kernel into an event.
LEMMA FlowRead ==
  ASSUME NEW f \in Seq(Nat), NEW g \in Seq(Nat), NEW u \in Seq(Nat),
         NEW r \in Seq(Nat), Flow(f, g, u, r)
  PROVE  Flow(f, g, u \o r, <<>>)
<1>1. Joins(g, u, r)
  BY JoinsAlways
<1>2. u \o r \in Seq(Nat)
  BY ConcatProperties
<1>3. g \o (u \o r) \in Seq(Nat)
  BY <1>2, ConcatProperties
<1>4. (g \o (u \o r)) \o <<>> = g \o (u \o r)
  BY <1>3, ConcatEmptySeq
<1> QED
  BY <1>1, <1>4 DEF Flow, Joins

\* Handling a Data event hands its bytes to the application, in order.
LEMMA FlowTake ==
  ASSUME NEW f \in Seq(Nat), NEW g \in Seq(Nat), NEW d \in Seq(Nat),
         NEW u \in Seq(Nat), NEW r \in Seq(Nat), Flow(f, g, d \o u, r)
  PROVE  /\ Flow(f, g \o d, u, r)
         /\ Contract!IsPrefix(g \o d, f)
         /\ d # <<>> => Contract!Grows(g, g \o d)
<1>1. Joins(g, d, u)
  BY JoinsAlways
<1>2. Flow(f, g \o d, u, r)
  BY <1>1 DEF Flow, Joins
<1> DEFINE h == g \o d
<1>3. h \in Seq(Nat) /\ u \o r \in Seq(Nat)
  BY ConcatProperties
<1>4. Contract!IsPrefix(h, f)
  <2> HIDE DEF h
  <2>1. Joins(h, u, r)
    BY <1>3, JoinsAlways
  <2>2. f = h \o (u \o r)
    BY <1>2, <2>1 DEF Flow, Joins, h
  <2> QED
    BY <1>3, <2>2, PrefixOfConcat
<1> QED
  BY <1>2, <1>4, PrefixOfConcat DEF h

\* What the peer writes waits in the kernel.
LEMMA FlowFeed ==
  ASSUME NEW f \in Seq(Nat), NEW g \in Seq(Nat), NEW u \in Seq(Nat),
         NEW r \in Seq(Nat), NEW b \in Seq(Nat), Flow(f, g, u, r)
  PROVE  Flow(f \o b, g, u, r \o b)
<1> DEFINE h == g \o u
<1>1. h \in Seq(Nat)
  BY ConcatProperties
<1> HIDE DEF h
<1>2. Joins(h, r, b)
  BY <1>1, JoinsAlways
<1> QED
  BY <1>2 DEF Flow, Joins, h

\* Nothing is missing in a stream that has not begun.
LEMMA FlowEmpty == Flow(<<>>, <<>>, <<>>, <<>>)
  BY EmptySeq, ConcatEmptySeq DEF Flow

-----------------------------------------------------------------------------
(* One step, seen from one id.                                             *)

Moves(i) == Contract!Step(i) \/ Contract!Idle(i)

Advances(i) == Story(i)' /\ (i >= next_id' => Unused(i)') /\ Moves(i)

\* No id is given away again.
Onward(i) == i >= next_id' => i >= next_id /\ (i \in Used' => i \in Used)

SameEvents(i) ==
  /\ Trace(dispatch_events', i) = Trace(dispatch_events, i)
  /\ Bytes(dispatch_events', i) = Bytes(dispatch_events, i)

\* A step that has nothing to do with i.
Frozen(i) ==
  /\ Contract!Idle(i) /\ SameEvents(i) /\ Onward(i)
  /\ i \in DOMAIN connections' <=> i \in DOMAIN connections
  /\ i \in DOMAIN connections =>
       /\ connections'[i].connected = connections[i].connected
       /\ connections'[i].send_buf = connections[i].send_buf
       /\ sock'[i].phase = sock[i].phase /\ sock'[i].rx = sock[i].rx
       /\ Fresh(i)' <=> Fresh(i)

\* It keeps the story of i.
LEMMA FrozenAdvances ==
  ASSUME LifeInv, NEW i \in Ids, Frozen(i)
  PROVE  Advances(i)
<1>1. Contract!Idle(i) /\ SameEvents(i) /\ Onward(i)
  BY DEF Frozen
<1>2. UNCHANGED <<view[i], peer[i], sent[i], wire[i], fed[i], got[i]>>
  BY <1>1 DEF Contract!Idle
<1>3. Story(i) /\ (i >= next_id => Unused(i))
  BY DEF LifeInv
<1>4. Story(i)'
  BY <1>1, <1>2, <1>3 DEF Story, Living, Frozen, SameEvents
<1>5. ASSUME i >= next_id'
      PROVE  Unused(i)'
  BY <1>1, <1>2, <1>3, <1>5 DEF Unused, SameEvents, Onward
<1> QED
  BY <1>1, <1>4, <1>5 DEF Advances, Moves

\* A step that leaves the connections and the application alone.
LEMMA QuietAdvances ==
  ASSUME LifeInv,
         UNCHANGED <<connections, sock, dispatch_events, peer, view, sent, wire,
                     fed, got>>,
         \A i \in Ids : Onward(i),
         UNCHANGED <<pc, cur>> \/ (pc # "flush_new" /\ pc' # "flush_new")
  PROVE  \A i \in Ids : Advances(i)
<1> SUFFICES ASSUME NEW i \in Ids PROVE Frozen(i)
  BY FrozenAdvances
<1>1. Contract!Idle(i)
  BY DEF Contract!Idle
<1>2. Fresh(i)' <=> Fresh(i)
  BY DEF Fresh
<1> QED
  BY <1>1, <1>2 DEF Frozen, SameEvents

\* The application knows of a live connection, or is about to.
LEMMA LivingView ==
  ASSUME LifeInv, NEW i \in Ids, i \in DOMAIN connections
  PROVE  /\ view[i] \in {"new", "connecting", "open"}
         /\ view[i] \notin Contract!Ended
         /\ ~(i >= next_id)
         /\ Legal(view[i], Trace(dispatch_events, i))
<1>1. view[i] \in {"new", "connecting", "open"}
  BY DEF LifeInv, Story, Living, Announced
<1>2. ~(i >= next_id)
  BY DEF LifeInv, Unused, Used
<1> QED
  BY <1>1, <1>2 DEF Contract!Ended, LifeInv, Story

\* A step of the kernel or of send_to that concerns the connection i.
LEMMA LiveAdvances ==
  ASSUME LifeInv, NEW i \in Ids, i \in DOMAIN connections,
         i \in DOMAIN connections', Onward(i), SameEvents(i), Moves(i),
         view'[i] = view[i], Fresh(i)' <=> Fresh(i),
         connections'[i].connected = connections[i].connected,
         \/ connections'[i].send_buf = connections[i].send_buf
         \/ connections[i].connected /\ ~Fresh(i),
         sock'[i].phase = "err" => peer'[i] = "lost",
         Flow(fed'[i], got'[i], Bytes(dispatch_events, i), sock'[i].rx)
  PROVE  Advances(i)
<1>1. Story(i) /\ view[i] # "closed"
  BY LivingView DEF LifeInv
<1>2. Story(i)'
  BY <1>1 DEF Story, Living, SameEvents
<1>3. ~(i >= next_id')
  BY LivingView DEF Onward
<1> QED
  BY <1>2, <1>3 DEF Advances

-----------------------------------------------------------------------------
(* Ids are given away in ascending order.                                  *)

\* The next id is greater, as long as the ids do not wrap around.
LEMMA NextIdGrows ==
  ASSUME ReuseIds = FALSE, TypeOK, LifeInv, NoWrap,
         advance_connection_id(Used \cup {next_id})
  PROVE  \A i \in Ids : i >= next_id' => i >= next_id /\ i # next_id
<1>1. PICK j \in Ids \ (Used \cup {next_id}) :
        Between(next_id, j) \subseteq Used \cup {next_id} /\ next_id' = j
  BY DEF advance_connection_id
<1>2. /\ next_id \in Ids /\ next_id < MaxId /\ next_id \in Int /\ j \in Int
      /\ IdStart \in Int /\ MaxId \in Int /\ next_id >= IdStart
  BY IdAssumption DEF TypeOK, NoWrap, Ids
<1> DEFINE n == next_id + 1
<1>3. n \in Ids /\ n >= next_id /\ n # next_id
  BY <1>2, IdAssumption DEF Ids
<1>4. n \notin Used
  BY <1>3 DEF LifeInv, Unused
<1>5. n \notin Between(next_id, j)
  BY <1>1, <1>3, <1>4
<1>6. j > next_id
  <2> SUFFICES ASSUME ~(next_id < j) PROVE FALSE
    BY <1>2
  <2>1. Between(next_id, j) = ((next_id + 1)..MaxId) \cup (IdStart..(j - 1))
    BY DEF Between
  <2>2. n \in (next_id + 1)..MaxId
    BY <1>2
  <2> QED
    BY <1>5, <2>1, <2>2
<1> QED
  BY <1>1, <1>2, <1>6 DEF Ids

\* What OpenSocket does to the new id, of which nothing was known.
LEMMA OpenFirst ==
  ASSUME ReuseIds = FALSE, TypeOK, TablesInv, LifeInv, NEW c, NEW p, NEW v,
         OpenSocket(c, p, v)
  PROVE  LET n == next_id IN
         /\ n \in Ids /\ ~(n >= next_id') /\ n \in DOMAIN connections'
         /\ connections'[n] = c /\ sock'[n].phase = p /\ sock'[n].rx = <<>>
         /\ view[n] = "new" /\ view'[n] = v /\ peer'[n] = "up"
         /\ peer'[n] = peer[n] /\ sent'[n] = sent[n] /\ wire'[n] = wire[n]
         /\ fed'[n] = <<>> /\ fed'[n] = fed[n] /\ got'[n] = <<>> /\ got'[n] = got[n]
         /\ Trace(dispatch_events, n) = <<>> /\ Bytes(dispatch_events, n) = <<>>
<1>1. /\ next_id \in Ids /\ next_id \in Int /\ peer \in [Ids -> {"up", "fin", "lost"}]
      /\ view \in [Ids -> {"new", "connecting", "open"} \cup Ended]
      /\ sent \in [Ids -> Seq(Nat)] /\ wire \in [Ids -> Seq(Nat)]
      /\ fed \in [Ids -> Seq(Nat)] /\ got \in [Ids -> Seq(Nat)]
  BY IdAssumption DEF TypeOK, Ids
<1>2. Unused(next_id)
  BY <1>1 DEF LifeInv
<1>3. ~(next_id >= next_id')
  BY <1>1, NextIdGrows DEF OpenSocket
<1>4. next_id \in DOMAIN connections' /\ connections'[next_id] = c
  BY DEF OpenSocket, With
<1>5. sock'[next_id] = [phase |-> p, rx |-> <<>>, room |-> MaxRoom,
                        rdshut |-> FALSE, wrshut |-> FALSE, interest |-> c.interest]
  BY DEF OpenSocket, With
<1>6. /\ view'[next_id] = v /\ peer'[next_id] = "up" /\ sent'[next_id] = <<>>
      /\ wire'[next_id] = <<>> /\ fed'[next_id] = <<>> /\ got'[next_id] = <<>>
  BY <1>1 DEF OpenSocket
<1> QED
  BY <1>1, <1>2, <1>3, <1>4, <1>5, <1>6 DEF Unused

\* The other ids are not concerned.
LEMMA OpenOthers ==
  ASSUME ReuseIds = FALSE, TypeOK, TablesInv, LifeInv, NEW c, NEW p, NEW v,
         OpenSocket(c, p, v), UNCHANGED listeners,
         pc # "flush_new" /\ pc' # "flush_new",
         NEW i \in Ids, i # next_id, SameEvents(i)
  PROVE  Advances(i)
<1>1. /\ next_id \in Ids /\ peer \in [Ids -> {"up", "fin", "lost"}]
      /\ view \in [Ids -> {"new", "connecting", "open"} \cup Ended]
      /\ sent \in [Ids -> Seq(Nat)] /\ wire \in [Ids -> Seq(Nat)]
      /\ fed \in [Ids -> Seq(Nat)] /\ got \in [Ids -> Seq(Nat)]
  BY DEF TypeOK
<1>2. Contract!Idle(i)
  BY <1>1 DEF OpenSocket, Contract!Idle
<1>3. DOMAIN connections' = DOMAIN connections \cup {next_id}
  BY OpenEntries
<1>4. i \in DOMAIN connections => connections'[i] = connections[i]
  BY DEF OpenSocket, With
<1>5. i \in DOMAIN sock => sock'[i] = sock[i]
  BY DEF OpenSocket, With
<1>6. Onward(i)
  BY <1>3, NextIdGrows DEF OpenSocket, Onward, Used
<1>7. Frozen(i)
  BY <1>2, <1>3, <1>4, <1>5, <1>6 DEF Frozen, Fresh, TablesInv
<1> QED
  BY <1>7, FrozenAdvances

-----------------------------------------------------------------------------
(* The application's calls.                                                *)

\* connect and listen.
LEMMA LifeConnect ==
  ASSUME ReuseIds = FALSE, TypeOK, TablesInv, LifeInv, connect \/ listen
  PROVE  \A i \in Ids : Advances(i)
<1> USE DEF thread, kernel, app, histories, round
<1>1. CASE listen
  <2>1. UNCHANGED <<connections, sock, dispatch_events, peer, view, sent, wire,
                    fed, got, pc, cur>>
    BY <1>1 DEF listen
  <2>2. DOMAIN listeners' = DOMAIN listeners \cup {next_id}
    BY <1>1, WithEntries DEF listen
  <2>3. \A i \in Ids : i >= next_id' => i >= next_id /\ i # next_id
    BY <1>1, NextIdGrows DEF listen
  <2>4. \A i \in Ids : Onward(i)
    BY <2>1, <2>2, <2>3 DEF Onward, Used
  <2> QED
    BY <2>1, <2>4, QuietAdvances
<1>2. CASE connect
  <2> DEFINE c == [connected |-> FALSE, interest |-> ConnectInterest,
                   send_buf |-> <<>>]
  <2>1. /\ OpenSocket(c, "syn", "connecting") /\ Api
        /\ UNCHANGED <<listeners, pc, cur, dispatch_events>>
    BY <1>2 DEF connect
  <2>2. c.connected = FALSE /\ c.send_buf = <<>>
    OBVIOUS
  <2> HIDE DEF c
  <2>3. ASSUME NEW i \in Ids, i # next_id
        PROVE  Advances(i)
    BY <2>1, <2>3, OpenOthers DEF SameEvents, Api
  <2> DEFINE n == next_id
  <2>4. /\ n \in Ids /\ ~(n >= next_id') /\ n \in DOMAIN connections'
        /\ connections'[n] = c /\ sock'[n].phase = "syn" /\ sock'[n].rx = <<>>
        /\ view[n] = "new" /\ view'[n] = "connecting" /\ peer'[n] = "up"
        /\ peer'[n] = peer[n] /\ sent'[n] = sent[n] /\ wire'[n] = wire[n]
        /\ fed'[n] = <<>> /\ fed'[n] = fed[n] /\ got'[n] = <<>> /\ got'[n] = got[n]
        /\ Trace(dispatch_events', n) = <<>> /\ Bytes(dispatch_events', n) = <<>>
    BY <2>1, OpenFirst
  <2>5. PICK m : m = n
    OBVIOUS
  <2>6. /\ Contract!Connect(m)
    BY <2>4, <2>5 DEF Contract!Connect
  <2>7. Story(m)'
    BY <2>2, <2>4, <2>5, NothingYet, FlowEmpty DEF Story, Living
  <2>8. Advances(m)
    BY <2>4, <2>5, <2>6, <2>7 DEF Advances, Moves, Contract!Step
  <2> QED
    BY <2>3, <2>5, <2>8
<1> QED
  BY <1>1, <1>2

\* An id the application forgets.
LEMMA CloseAdvances ==
  ASSUME LifeInv, NEW i \in Ids, i \notin DOMAIN connections',
         view[i] \in {"new", "connecting", "open"}, ~(i >= next_id'), view'[i] = "closed",
         UNCHANGED <<peer[i], sent[i], wire[i], fed[i], got[i]>>
  PROVE  Advances(i)
<1>1. Story(i)'
  BY DEF Story
<1>2. Contract!Close(i)
  BY DEF Contract!Close, Contract!Ended
<1> QED
  BY <1>1, <1>2 DEF Advances, Moves, Contract!Step

\* The closing calls: what they remove the application forgets.
LEMMA LifeClose ==
  ASSUME TypeOK, TablesInv, LifeInv, NEW S, Api,
         DOMAIN connections' = DOMAIN connections \ S,
         \A j \in DOMAIN connections \ S : connections'[j] = connections[j],
         \A j \in DOMAIN sock \ S : sock'[j] = sock[j],
         DOMAIN listeners' \subseteq DOMAIN listeners,
         \A i \in Ids :
           \/ i \in S /\ view[i] \in {"new", "connecting", "open"}
              /\ view'[i] = "closed" /\ ~(i >= next_id)
           \/ i \notin S \cap DOMAIN connections /\ view'[i] = view[i],
         UNCHANGED <<next_id, pc, cur, dispatch_events, peer, sent, wire, fed, got>>
  PROVE  \A i \in Ids : Advances(i)
<1> SUFFICES ASSUME NEW i \in Ids PROVE Advances(i)
  OBVIOUS
<1>1. CASE i \in S /\ view[i] \in {"new", "connecting", "open"}
           /\ view'[i] = "closed" /\ ~(i >= next_id)
  BY <1>1, CloseAdvances
<1>2. CASE i \notin S \cap DOMAIN connections /\ view'[i] = view[i]
  <2>1. Contract!Idle(i) /\ SameEvents(i) /\ Onward(i)
    BY <1>2 DEF Contract!Idle, SameEvents, Onward, Used
  <2>2. Frozen(i)
    BY <1>2, <2>1 DEF Frozen, Fresh, TablesInv
  <2> QED
    BY <2>2, FrozenAdvances
<1> QED
  BY <1>1, <1>2

\* send_to and its relatives.
LEMMA LifeSend ==
  ASSUME "early_send" \notin Usage, TypeOK, TablesInv, LifeInv,
         NEW S, NEW n \in Nat, Send(S, n)
  PROVE  \A i \in Ids : Advances(i)
<1> DEFINE T == S \cap DOMAIN connections
<1>1. /\ Api /\ Sendable(S, n) /\ queue_data(S, n)
      /\ UNCHANGED <<listeners, next_id, pc, cur, dispatch_events, peer, view, wire,
                     fed, got>>
  BY DEF Send, thread, round
<1>2. /\ connections' =
           [i \in DOMAIN connections |->
              IF i \in T
              THEN [connections[i] EXCEPT !.send_buf = @ \o NextBytes(sent[i], n),
                                          !.interest = RW]
              ELSE connections[i]]
      /\ sock' = [i \in DOMAIN sock |->
                    IF i \in Reregistered(T) THEN [sock[i] EXCEPT !.interest = RW]
                                             ELSE sock[i]]
      /\ sent' = [i \in Ids |-> IF i \in T THEN sent[i] \o NextBytes(sent[i], n)
                                           ELSE sent[i]]
  BY <1>1 DEF queue_data
<1>3. \A i \in T : connections[i].connected
  BY <1>1 DEF Sendable
<1>4. \A i \in Ids : Onward(i) /\ SameEvents(i) /\ ~Fresh(i) /\ ~Fresh(i)'
  BY <1>1, <1>2 DEF Onward, SameEvents, Fresh, Api, Used
<1> HIDE DEF T
<1> SUFFICES ASSUME NEW i \in Ids PROVE Advances(i)
  OBVIOUS
<1>5. CASE i \in T
  <2>1. i \in DOMAIN connections /\ i \in DOMAIN sock /\ i \in DOMAIN connections'
    BY <1>2, <1>5 DEF T, TablesInv
  <2>2. connections[i] \in ConnectionRecords /\ sock[i] \in SocketRecords
    BY <2>1 DEF TypeOK
  <2>3. connections'[i].connected = connections[i].connected
    <3>1. connections'[i] = [connections[i] EXCEPT
                               !.send_buf = @ \o NextBytes(sent[i], n), !.interest = RW]
      BY <1>2, <1>5, <2>1
    <3> QED
      BY <2>2, <3>1 DEF ConnectionRecords
  <2>4. sock'[i].phase = sock[i].phase /\ sock'[i].rx = sock[i].rx
    <3>1. sock'[i] = [sock[i] EXCEPT !.interest = RW] \/ sock'[i] = sock[i]
      BY <1>2, <2>1
    <3> QED
      BY <2>2, <3>1 DEF SocketRecords
  <2>5. sent'[i] = sent[i] \o NextBytes(sent[i], n) /\ sent[i] \in Seq(Nat)
        /\ NextBytes(sent[i], n) \in Seq(Nat)
    BY <1>2, <1>5, NextBytesType DEF TypeOK
  <2>6. Moves(i)
    <3>1. CASE NextBytes(sent[i], n) = <<>>
      <4>1. sent'[i] = sent[i]
        BY <2>5, <3>1, ConcatEmptySeq
      <4> QED
        BY <1>1, <4>1 DEF Moves, Contract!Idle
    <3>2. CASE NextBytes(sent[i], n) # <<>>
      <4>1. Contract!Grows(sent[i], sent'[i])
        BY <2>5, <3>2, PrefixOfConcat
      <4>2. Contract!Send(i)
        BY <1>1, <2>1, <4>1, LivingView DEF Contract!Send
      <4> QED
        BY <4>2 DEF Moves, Contract!Step
    <3> QED
      BY <3>1, <3>2
  <2>7. /\ sock[i].phase = "err" => peer[i] = "lost"
        /\ Flow(fed[i], got[i], Bytes(dispatch_events, i), sock[i].rx)
    BY <2>1 DEF LifeInv, Story, Living
  <2> QED
    BY <1>1, <1>3, <1>4, <1>5, <2>1, <2>3, <2>4, <2>6, <2>7, LiveAdvances
<1>6. CASE i \notin T
  <2>1. Contract!Idle(i)
    BY <1>1, <1>2, <1>6 DEF Contract!Idle
  <2>2. /\ i \in DOMAIN connections' <=> i \in DOMAIN connections
        /\ i \in DOMAIN connections => connections'[i] = connections[i]
        /\ i \in DOMAIN sock => sock'[i] = sock[i]
    BY <1>2, <1>6 DEF Reregistered
  <2>3. Frozen(i)
    BY <1>4, <2>1, <2>2 DEF Frozen, TablesInv
  <2> QED
    BY <2>3, FrozenAdvances
<1> QED
  BY <1>5, <1>6

\* shutdown_connection and shutdown_all_connections.
LEMMA LifeShutdown ==
  ASSUME TypeOK, TablesInv, LifeInv, NEW S, NEW how, Api, ShutdownConnections(S, how)
  PROVE  \A i \in Ids : Advances(i)
<1>1. /\ UNCHANGED <<connections, listeners, next_id, pc, cur, dispatch_events, view,
                     sent, wire, fed, got>>
      /\ sock' = [i \in DOMAIN sock |-> IF i \in S THEN ShutdownSocket(sock[i], how)
                                                   ELSE sock[i]]
      /\ peer' = [i \in Ids |->
                    IF i \in S \cap DOMAIN sock
                       /\ (how # "Write" \/ sock[i].phase = "syn")
                    THEN "lost" ELSE peer[i]]
  BY DEF ShutdownConnections, tables, thread, round, app, histories
<1>2. \A i \in Ids : Onward(i) /\ SameEvents(i) /\ (Fresh(i)' <=> Fresh(i))
  BY <1>1 DEF Onward, SameEvents, Fresh, Used
<1> SUFFICES ASSUME NEW i \in Ids PROVE Advances(i)
  OBVIOUS
<1>3. CASE i \in S \cap DOMAIN sock
  <2>1. i \in DOMAIN connections /\ i \in DOMAIN connections' /\ sock[i] \in SocketRecords
    BY <1>1, <1>3 DEF TablesInv, TypeOK
  <2>2. /\ sock'[i] = ShutdownSocket(sock[i], how)
        /\ peer'[i] = IF how # "Write" \/ sock[i].phase = "syn" THEN "lost" ELSE peer[i]
    BY <1>1, <1>3
  <2>3. /\ sock'[i].phase = IF sock[i].phase = "syn" THEN "err" ELSE sock[i].phase
        /\ sock'[i].rx = sock[i].rx
    BY <2>1, <2>2 DEF ShutdownSocket, SocketRecords
  <2>4. /\ sock[i].phase = "err" => peer[i] = "lost"
        /\ Flow(fed[i], got[i], Bytes(dispatch_events, i), sock[i].rx)
    BY <2>1 DEF LifeInv, Story, Living
  <2>5. sock'[i].phase = "err" => peer'[i] = "lost"
    BY <2>2, <2>3, <2>4
  <2>6. Moves(i)
    <3>1. peer[i] \in {"up", "fin", "lost"} /\ peer'[i] \in {peer[i], "lost"}
      BY <2>2 DEF TypeOK
    <3>2. CASE peer'[i] = peer[i]
      BY <1>1, <3>2 DEF Moves, Contract!Idle
    <3>3. CASE peer'[i] # peer[i]
      <4>1. Contract!PeerEnds(i)
        BY <1>1, <3>1, <3>3 DEF Contract!PeerEnds
      <4> QED
        BY <4>1 DEF Moves, Contract!Step
    <3> QED
      BY <3>2, <3>3
  <2> QED
    BY <1>1, <1>2, <2>1, <2>3, <2>4, <2>5, <2>6, LiveAdvances
<1>4. CASE i \notin S \cap DOMAIN sock
  <2>1. Contract!Idle(i)
    BY <1>1, <1>4 DEF Contract!Idle
  <2>2. i \in DOMAIN sock => sock'[i] = sock[i]
    BY <1>1, <1>4
  <2>3. Frozen(i)
    BY <1>1, <1>2, <2>1, <2>2 DEF Frozen, TablesInv
  <2> QED
    BY <2>3, FrozenAdvances
<1> QED
  BY <1>3, <1>4

\* Every call of the application is one the contract allows.
LEMMA LifeOperations ==
  ASSUME ReuseIds = FALSE, "early_send" \notin Usage,
         TypeOK, TablesInv, LifeInv, Operations
  PROVE  \A i \in Ids : Advances(i)
<1> USE DEF thread, round, histories
<1>0. view \in [Ids -> {"new", "connecting", "open"} \cup Ended]
      /\ DOMAIN connections \subseteq Ids
  BY DEF TypeOK
<1>1. ASSUME NEW k \in Ids, close_connection(k)
      PROVE  \A i \in Ids : Advances(i)
  <2>1. /\ Api /\ view[k] \in {"connecting", "open"} /\ DropSockets({k})
        /\ view' = [view EXCEPT ![k] = "closed"]
        /\ UNCHANGED <<listeners, next_id, pc, cur, dispatch_events, peer, sent, wire,
                       fed, got>>
    BY <1>1 DEF close_connection
  <2>2. ~(k >= next_id)
    BY <2>1 DEF LifeInv, Unused
  <2> DEFINE S == {k}
  <2>3. /\ DropSockets(S)
        /\ \A i \in Ids :
             \/ i \in S /\ view[i] \in {"new", "connecting", "open"}
                /\ view'[i] = "closed" /\ ~(i >= next_id)
             \/ i \notin S \cap DOMAIN connections /\ view'[i] = view[i]
    BY <1>0, <2>1, <2>2
  <2> HIDE DEF S
  <2> QED
    BY <2>1, <2>3, DropEntries, LifeClose
<1>2. ASSUME Api, DOMAIN connections' = {}, DOMAIN listeners' \subseteq DOMAIN listeners,
             view' = [i \in Ids |-> IF i \in DOMAIN connections
                                    THEN "closed" ELSE view[i]],
             UNCHANGED <<next_id, pc, cur, dispatch_events, peer, sent, wire, fed, got>>
      PROVE  \A i \in Ids : Advances(i)
  <2> DEFINE S == DOMAIN connections
  <2>1. /\ DOMAIN connections' = DOMAIN connections \ S
        /\ \A j \in DOMAIN connections \ S : connections'[j] = connections[j]
        /\ \A j \in DOMAIN sock \ S : sock'[j] = sock[j]
    BY <1>2 DEF TablesInv
  <2>2. \A i \in Ids :
             \/ i \in S /\ view[i] \in {"new", "connecting", "open"}
                /\ view'[i] = "closed" /\ ~(i >= next_id)
             \/ i \notin S \cap DOMAIN connections /\ view'[i] = view[i]
    BY <1>2, LivingView
  <2> HIDE DEF S
  <2> QED
    BY <1>2, <2>1, <2>2, LifeClose
<1>3. CASE close_all_connections
  <2>1. /\ Api /\ DropSockets(DOMAIN connections) /\ listeners' = listeners
        /\ view' = [i \in Ids |-> IF i \in DOMAIN connections
                                  THEN "closed" ELSE view[i]]
        /\ UNCHANGED <<next_id, pc, cur, dispatch_events, peer, sent, wire, fed, got>>
    BY <1>3 DEF close_all_connections, CloseConnections
  <2>2. DOMAIN connections' = {}
    BY <2>1, DropEntries
  <2> QED
    BY <1>2, <2>1, <2>2
<1>4. CASE close_all
  <2>1. /\ Api
        /\ view' = [i \in Ids |-> IF i \in DOMAIN connections
                                  THEN "closed" ELSE view[i]]
        /\ UNCHANGED <<next_id, pc, cur, dispatch_events, peer, sent, wire, fed, got>>
    BY <1>4 DEF close_all
  <2>2. DOMAIN connections' = {} /\ DOMAIN listeners' = {}
    BY <1>4, WithoutEntries, ZenonT(60) DEF close_all
  <2> QED
    BY <1>2, <2>1, <2>2
<1>5. ASSUME NEW S, CloseListeners(S)
      PROVE  \A i \in Ids : Advances(i)
  <2>1. UNCHANGED <<connections, next_id, pc, cur, dispatch_events, sock, peer, view,
                    sent, wire, fed, got>>
    BY <1>5 DEF CloseListeners, app
  <2>2. DOMAIN listeners' \subseteq DOMAIN listeners
    BY <1>5, WithoutEntries DEF CloseListeners
  <2>3. \A i \in Ids : Onward(i)
    BY <2>1, <2>2 DEF Onward, Used
  <2> QED
    BY <2>1, <2>3, QuietAdvances
<1>6. ASSUME NEW S, NEW how, Api, ShutdownConnections(S, how)
      PROVE  \A i \in Ids : Advances(i)
  BY <1>6, LifeShutdown
<1>7. ASSUME NEW S, NEW n \in 0..MaxSend, Send(S, n)
      PROVE  \A i \in Ids : Advances(i)
  <2>1. n \in Nat
    BY LimitAssumption
  <2> QED
    BY <1>7, <2>1, LifeSend
<1> QED
  BY <1>1, <1>3, <1>4, <1>5, <1>6, <1>7, LifeConnect
     DEF Operations, close_listener, close_all_listeners, shutdown_connection,
         shutdown_all_connections, send_to, send_to_many, broadcast,
         broadcast_except, broadcast_except_many

-----------------------------------------------------------------------------
(* The kernel and the peers.                                               *)

\* A step that concerns the socket k only.
LEMMA KernelOthers ==
  ASSUME TypeOK, TablesInv, LifeInv, NEW k, KernelStep, UNCHANGED <<sent, wire, got>>,
         DOMAIN listeners' = DOMAIN listeners,
         \A j \in DOMAIN sock \ {k} : sock'[j] = sock[j],
         \A j \in Ids \ {k} : peer'[j] = peer[j] /\ fed'[j] = fed[j],
         NEW i \in Ids, i # k
  PROVE  Advances(i)
<1>1. UNCHANGED <<connections, next_id, pc, cur, dispatch_events, view>>
  BY DEF KernelStep, thread, round
<1>2. Contract!Idle(i) /\ SameEvents(i) /\ Onward(i) /\ (Fresh(i)' <=> Fresh(i))
  BY <1>1 DEF Contract!Idle, SameEvents, Onward, Fresh, Used
<1>3. Frozen(i)
  BY <1>1, <1>2 DEF Frozen, TablesInv
<1> QED
  BY <1>3, FrozenAdvances

\* What a step of the kernel must say about the socket k.
LEMMA KernelOne ==
  ASSUME TypeOK, TablesInv, LifeInv, NEW k \in Ids, KernelStep, k \in DOMAIN sock,
         UNCHANGED listeners, got'[k] = got[k],
         sock'[k].phase = "err" => peer'[k] = "lost",
         Flow(fed'[k], got[k], Bytes(dispatch_events, k), sock'[k].rx),
         Moves(k)
  PROVE  Advances(k)
<1>1. UNCHANGED <<connections, next_id, pc, cur, dispatch_events, view>>
  BY DEF KernelStep, thread, round
<1>2. SameEvents(k) /\ Onward(k) /\ (Fresh(k)' <=> Fresh(k))
  BY <1>1 DEF SameEvents, Onward, Fresh, Used
<1>3. k \in DOMAIN connections
  BY DEF TablesInv
<1> QED
  BY <1>1, <1>2, <1>3, LiveAdvances

\* Every step of the kernel is one the contract allows.
LEMMA LifeKernel ==
  ASSUME TypeOK, TablesInv, LifeInv, Kernel
  PROVE  \A i \in Ids : Advances(i)
<1> USE DEF histories
<1>1. PICK k \in Ids :
        \/ ConnectCompletes(k) \/ ConnectRefused(k) \/ PeerConnects(k)
        \/ PeerWrites(k) \/ PeerCloses(k) \/ PeerResets(k) \/ RoomFreed(k)
  BY DEF Kernel
<1>2. KernelStep
  BY <1>1 DEF ConnectCompletes, ConnectRefused, PeerConnects, PeerWrites, PeerCloses,
              PeerResets, RoomFreed
<1>3. UNCHANGED <<connections, next_id, pc, cur, dispatch_events, view>>
  BY <1>2 DEF KernelStep, thread, round
<1>4. peer \in [Ids -> {"up", "fin", "lost"}] /\ fed \in [Ids -> Seq(Nat)]
      /\ got \in [Ids -> Seq(Nat)] /\ dispatch_events \in Seq(EventRecords)
  BY DEF TypeOK
<1>5. ASSUME k \in DOMAIN sock
      PROVE  /\ sock[k] \in SocketRecords /\ sock[k].rx \in Seq(Nat)
             /\ sock[k].phase = "err" => peer[k] = "lost"
             /\ Flow(fed[k], got[k], Bytes(dispatch_events, k), sock[k].rx)
  <2>1. sock[k] \in SocketRecords /\ k \in DOMAIN connections
    BY <1>5 DEF TypeOK, TablesInv
  <2> QED
    BY <2>1 DEF SocketRecords, LifeInv, Story, Living
<1>6. CASE PeerConnects(k)
  <2>1. UNCHANGED <<sock, peer, sent, wire, fed, got>> /\ DOMAIN listeners' = DOMAIN listeners
    BY <1>6 DEF PeerConnects
  <2>2. \A i \in Ids : Onward(i)
    BY <1>3, <2>1 DEF Onward, Used
  <2> QED
    BY <1>3, <2>1, <2>2, QuietAdvances
<1>7. CASE ConnectCompletes(k) \/ RoomFreed(k)
  <2>1. k \in DOMAIN sock /\ UNCHANGED <<listeners, peer, sent, wire, fed, got>>
        /\ sock[k].phase # "err"
    BY <1>7 DEF ConnectCompletes, RoomFreed
  <2>2. /\ \A j \in DOMAIN sock \ {k} : sock'[j] = sock[j]
        /\ sock'[k].phase # "err" /\ sock'[k].rx = sock[k].rx
    BY <1>5, <1>7, <2>1 DEF ConnectCompletes, RoomFreed, SocketRecords
  <2>3. Moves(k)
    BY <1>3, <2>1 DEF Moves, Contract!Idle
  <2>4. Advances(k)
    BY <1>2, <1>5, <2>1, <2>2, <2>3, KernelOne
  <2> QED
    BY <1>2, <2>1, <2>2, <2>4, KernelOthers
<1>8. CASE ConnectRefused(k) \/ PeerResets(k)
  <2>1. k \in DOMAIN sock /\ UNCHANGED <<listeners, sent, wire, fed, got>>
        /\ peer' = [peer EXCEPT ![k] = "lost"]
    BY <1>8 DEF ConnectRefused, PeerResets
  <2>2. /\ \A j \in DOMAIN sock \ {k} : sock'[j] = sock[j]
        /\ sock'[k].rx = sock[k].rx
    BY <1>5, <1>8, <2>1 DEF ConnectRefused, PeerResets, SocketRecords
  <2>3. peer'[k] = "lost" /\ \A j \in Ids \ {k} : peer'[j] = peer[j]
    BY <1>4, <2>1
  <2>4. Moves(k)
    <3>1. CASE peer[k] = "lost"
      BY <1>3, <2>1, <2>3, <3>1 DEF Moves, Contract!Idle
    <3>2. CASE peer[k] # "lost"
      <4>1. Contract!PeerEnds(k)
        BY <1>3, <1>4, <2>1, <2>3, <3>2 DEF Contract!PeerEnds
      <4> QED
        BY <4>1 DEF Moves, Contract!Step
    <3> QED
      BY <3>1, <3>2
  <2>5. Advances(k)
    BY <1>2, <1>5, <2>1, <2>2, <2>3, <2>4, KernelOne
  <2> QED
    BY <1>2, <2>1, <2>2, <2>3, <2>5, KernelOthers
<1>9. CASE PeerCloses(k)
  <2>1. k \in DOMAIN sock /\ UNCHANGED <<sock, listeners, sent, wire, fed, got>>
        /\ peer' = [peer EXCEPT ![k] = "fin"] /\ sock[k].phase = "est" /\ peer[k] = "up"
    BY <1>9 DEF PeerCloses
  <2>2. peer'[k] = "fin" /\ \A j \in Ids \ {k} : peer'[j] = peer[j]
    BY <1>4, <2>1
  <2>3. Contract!PeerEnds(k)
    BY <1>3, <2>1, <2>2 DEF Contract!PeerEnds
  <2>4. Moves(k)
    BY <2>3 DEF Moves, Contract!Step
  <2>5. Advances(k)
    BY <1>2, <1>5, <2>1, <2>2, <2>4, KernelOne
  <2> QED
    BY <1>2, <2>1, <2>2, <2>5, KernelOthers
<1>10. CASE PeerWrites(k)
  <2> DEFINE b == NextBytes(fed[k], 1)
  <2>1. k \in DOMAIN sock /\ UNCHANGED <<listeners, peer, sent, wire, got>>
        /\ peer[k] = "up" /\ sock[k].phase = "est"
        /\ sock' = [sock EXCEPT ![k].rx = @ \o b]
        /\ fed' = [fed EXCEPT ![k] = @ \o b]
    BY <1>10 DEF PeerWrites
  <2>2. b \in Seq(Nat) /\ b # <<>>
    <3>1. b \in Seq(Nat)
      BY <1>4, NextBytesType
    <3>2. 1 \in DOMAIN b
      BY DEF NextBytes
    <3> QED
      BY <3>1, <3>2
  <2> HIDE DEF b
  <2>3. /\ \A j \in DOMAIN sock \ {k} : sock'[j] = sock[j]
        /\ sock'[k].rx = sock[k].rx \o b /\ sock'[k].phase = sock[k].phase
    BY <1>5, <2>1 DEF SocketRecords
  <2>4. fed'[k] = fed[k] \o b /\ \A j \in Ids \ {k} : fed'[j] = fed[j]
    BY <1>4, <2>1
  <2>5. Flow(fed[k] \o b, got[k], Bytes(dispatch_events, k), sock[k].rx \o b)
    <3>1. Bytes(dispatch_events, k) \in Seq(Nat)
      BY <1>4, TraceParts
    <3> QED
      BY <1>4, <1>5, <2>1, <2>2, <3>1, FlowFeed
  <2>6. Moves(k)
    <3>1. Contract!Grows(fed[k], fed'[k])
      BY <1>4, <2>2, <2>4, PrefixOfConcat
    <3>2. Contract!PeerWrites(k)
      BY <1>3, <2>1, <3>1 DEF Contract!PeerWrites
    <3> QED
      BY <3>2 DEF Moves, Contract!Step
  <2>7. Advances(k)
    BY <1>2, <1>5, <2>1, <2>3, <2>4, <2>5, <2>6, KernelOne
  <2> QED
    BY <1>2, <2>1, <2>3, <2>4, <2>7, KernelOthers
<1> QED
  BY <1>1, <1>6, <1>7, <1>8, <1>9, <1>10

-----------------------------------------------------------------------------
(* The loop of fetch_events.                                               *)

\* Events added about j only.
LEMMA OnlyAbout ==
  ASSUME TypeOK, NEW j \in Ids, NEW fs \in Seq(EventRecords),
         dispatch_events' = dispatch_events \o fs,
         NEW i, Trace(fs, i) = <<>>, Bytes(fs, i) = <<>>
  PROVE  SameEvents(i)
<1>1. dispatch_events \in Seq(EventRecords)
  BY DEF TypeOK
<1>2. Splits(dispatch_events, fs, i)
  BY <1>1, TraceParts
<1>3. Trace(dispatch_events, i) \in Seq(EventRecords) /\ Bytes(dispatch_events, i) \in Seq(Nat)
  BY <1>1, TraceParts
<1>4. /\ Trace(dispatch_events, i) \o <<>> = Trace(dispatch_events, i)
      /\ Bytes(dispatch_events, i) \o <<>> = Bytes(dispatch_events, i)
  BY <1>3, ConcatEmptySeq
<1> QED
  BY <1>2, <1>4 DEF Splits, SameEvents

\* A connection other than the one that ends.
LEMMA DropOthers ==
  ASSUME TypeOK, TablesInv, LifeInv, NEW j, DropSockets({j}),
         UNCHANGED <<listeners, next_id>>, pc' = "events",
         NEW i \in Ids, i # j, pc = "flush_new" => cur = j,
         Contract!Idle(i), SameEvents(i)
  PROVE  Advances(i)
<1>1. /\ DOMAIN connections' = DOMAIN connections \ {j}
      /\ \A k \in DOMAIN connections \ {j} : connections'[k] = connections[k]
      /\ \A k \in DOMAIN sock \ {j} : sock'[k] = sock[k]
  BY DropEntries
<1>2. Onward(i)
  BY <1>1 DEF Onward, Used
<1>3. Frozen(i)
  BY <1>1, <1>2 DEF Frozen, Fresh, TablesInv
<1> QED
  BY <1>3, FrozenAdvances

\* A connection j ends: fs are the last events about it.
LEMMA LifeEnds ==
  ASSUME TypeOK, TablesInv, LifeInv, NEW j \in Ids, j \in DOMAIN connections,
         DropSockets({j}), UNCHANGED <<listeners, next_id, view, sent, wire, fed, got>>,
         NEW fs \in Seq(EventRecords), dispatch_events' = dispatch_events \o fs,
         pc' = "events", pc = "flush_new" => cur = j,
         \A i \in Ids \ {j} : Trace(fs, i) = <<>> /\ Bytes(fs, i) = <<>>
                              /\ peer'[i] = peer[i],
         Legal(view[j], Trace(dispatch_events, j) \o Trace(fs, j)),
         Gone(peer'[j], fed[j], got[j], Bytes(dispatch_events, j) \o Bytes(fs, j)),
         peer'[j] \in {peer[j], "lost"}
  PROVE  \A i \in Ids : Advances(i)
<1> SUFFICES ASSUME NEW i \in Ids PROVE Advances(i)
  OBVIOUS
<1>1. CASE i # j
  <2>1. Trace(fs, i) = <<>> /\ Bytes(fs, i) = <<>> /\ peer'[i] = peer[i]
    BY <1>1
  <2>2. Contract!Idle(i)
    BY <2>1 DEF Contract!Idle
  <2>3. SameEvents(i)
    BY <2>1, OnlyAbout
  <2> QED
    BY <1>1, <2>2, <2>3, DropOthers
<1>2. CASE i = j
  <2>1. DOMAIN connections' = DOMAIN connections \ {j}
    BY DropEntries
  <2>2. dispatch_events \in Seq(EventRecords) /\ peer[j] \in {"up", "fin", "lost"}
    BY DEF TypeOK
  <2>3. Splits(dispatch_events, fs, j)
    BY <2>2, TraceParts
  <2>4. Story(j)'
    BY <2>1, <2>3 DEF Story, Splits
  <2>5. Moves(j)
    <3>1. CASE peer'[j] = peer[j]
      BY <3>1 DEF Moves, Contract!Idle
    <3>2. CASE peer'[j] # peer[j]
      <4>1. Contract!PeerEnds(j)
        BY <2>2, <3>2 DEF Contract!PeerEnds
      <4> QED
        BY <4>1 DEF Moves, Contract!Step
    <3> QED
      BY <3>1, <3>2
  <2>6. ~(j >= next_id')
    BY LivingView
  <2> QED
    BY <1>2, <2>4, <2>5, <2>6 DEF Advances
<1> QED
  BY <1>1, <1>2

\* What is known of a live connection.
LEMMA LivingParts ==
  ASSUME TypeOK, TablesInv, LifeInv, NEW j \in DOMAIN connections
  PROVE  LET tr == Trace(dispatch_events, j)
             u == Bytes(dispatch_events, j)
         IN
         /\ j \in Ids /\ tr \in Seq(EventRecords) /\ u \in Seq(Nat)
         /\ fed[j] \in Seq(Nat) /\ got[j] \in Seq(Nat) /\ sock[j] \in SocketRecords
         /\ sock[j].rx \in Seq(Nat) /\ connections[j] \in ConnectionRecords
         /\ connections[j].connected /\ ~Fresh(j) => Announced(view[j], tr)
         /\ ~connections[j].connected \/ Fresh(j) =>
              view[j] = "connecting" /\ tr = <<>> /\ connections[j].send_buf = <<>>
         /\ Legal(view[j], tr) /\ Ongoing(tr)
         /\ sock[j].phase = "err" => peer[j] = "lost"
         /\ Flow(fed[j], got[j], u, sock[j].rx)
<1>1. /\ j \in Ids /\ dispatch_events \in Seq(EventRecords) /\ sock[j] \in SocketRecords
      /\ connections[j] \in ConnectionRecords
      /\ fed[j] \in Seq(Nat) /\ got[j] \in Seq(Nat)
  BY DEF TypeOK, TablesInv
<1>2. /\ Trace(dispatch_events, j) \in Seq(EventRecords)
      /\ Bytes(dispatch_events, j) \in Seq(Nat)
  BY <1>1, TraceParts
<1>3. Living(view[j], peer[j], fed[j], got[j], connections[j], Fresh(j), sock[j],
             Trace(dispatch_events, j), Bytes(dispatch_events, j))
  BY <1>1 DEF LifeInv, Story
<1>4. Legal(view[j], Trace(dispatch_events, j))
  BY <1>1, LivingView
<1>5. sock[j].rx \in Seq(Nat)
  BY <1>1 DEF SocketRecords
<1> QED
  BY <1>1, <1>2, <1>3, <1>4, <1>5 DEF Living

\* read_connection and the branches before it.
LEMMA LifeEvent ==
  ASSUME TypeOK, TablesInv, LifeInv, HandleEvent
  PROVE  \A i \in Ids : Advances(i)
<1> USE DEF tables, app, histories, kernel, Take
<1>1. PICK e \in poll_events :
        \/ HandleListener(e) \/ SkipDisconnected(e)
        \/ ReadUnconnected(e) \/ ReadDisconnected(e) \/ ReadData(e)
        \/ HandleWritable(e)
  BY DEF HandleEvent
<1>2. CASE HandleListener(e) \/ SkipDisconnected(e) \/ ReadUnconnected(e)
           \/ HandleWritable(e)
  <2>1. /\ UNCHANGED <<connections, listeners, next_id, sock, dispatch_events, peer,
                       view, sent, wire, fed, got>>
        /\ pc # "flush_new" /\ pc' # "flush_new"
    BY <1>2 DEF HandleListener, SkipDisconnected, ReadUnconnected, HandleWritable, Panic
  <2>2. \A i \in Ids : Onward(i)
    BY <2>1 DEF Onward, Used
  <2> QED
    BY <2>1, <2>2, QuietAdvances
<1>3. PICK j : j = e.id
  OBVIOUS
<1> DEFINE d == sock[j].rx
           u == Bytes(dispatch_events, j)
           tr == Trace(dispatch_events, j)
<1>4. ASSUME pc = "events", j \in DOMAIN connections, connections[j].connected
      PROVE  /\ j \in Ids /\ d \in Seq(Nat) /\ u \in Seq(Nat)
             /\ tr \in Seq(EventRecords) /\ Announced(view[j], tr)
             /\ Legal(view[j], tr) /\ Ongoing(tr) /\ sock[j] \in SocketRecords
             /\ sock[j].phase = "err" => peer[j] = "lost"
             /\ Flow(fed[j], got[j], u \o d, <<>>)
  <2>1. ~Fresh(j)
    BY <1>4 DEF Fresh
  <2>2. /\ j \in Ids /\ d \in Seq(Nat) /\ u \in Seq(Nat)
        /\ tr \in Seq(EventRecords) /\ Announced(view[j], tr)
        /\ Legal(view[j], tr) /\ Ongoing(tr) /\ sock[j] \in SocketRecords
        /\ sock[j].phase = "err" => peer[j] = "lost"
        /\ Flow(fed[j], got[j], u, d) /\ fed[j] \in Seq(Nat) /\ got[j] \in Seq(Nat)
    BY <1>4, <2>1, LivingParts
  <2> HIDE DEF d, u, tr
  <2>3. Flow(fed[j], got[j], u \o d, <<>>)
    BY <2>2, FlowRead
  <2> QED
    BY <2>2, <2>3
<1>5. CASE ReadDisconnected(e)
  <2>1. /\ pc = "events" /\ pc' = "events" /\ j \in DOMAIN connections
        /\ connections[j].connected /\ DropSockets({j})
        /\ dispatch_events' = dispatch_events \o LastEvents(j, d)
        /\ UNCHANGED <<listeners, next_id, peer, view, sent, wire, fed, got>>
    BY <1>3, <1>5 DEF ReadDisconnected, IsConnection
  <2>2. /\ j \in Ids /\ d \in Seq(Nat) /\ u \in Seq(Nat)
        /\ tr \in Seq(EventRecords) /\ Announced(view[j], tr)
        /\ Legal(view[j], tr) /\ Ongoing(tr)
        /\ Flow(fed[j], got[j], u \o d, <<>>)
    BY <1>4, <2>1
  <2> DEFINE fs == LastEvents(j, d)
  <2>3. /\ fs \in Seq(EventRecords) /\ Trace(fs, j) = fs /\ Bytes(fs, j) = d
        /\ \A i \in Ids \ {j} : Trace(fs, i) = <<>> /\ Bytes(fs, i) = <<>>
    <3> HIDE DEF d
    <3>1. Tells(LastEvents(j, d), j, d)
      BY <2>2, ReportsTell
    <3> QED
      BY <3>1 DEF Tells, TellsOf
  <2>4. Legal(view[j], tr \o fs)
    <3> HIDE DEF d, tr
    <3> QED
      BY <2>2, LegalRead
  <2>5. Gone(peer[j], fed[j], got[j], u \o d)
    <3>1. <<>> \in Seq(Nat)
      BY EmptySeq
    <3> QED
      BY <2>2, <3>1 DEF Gone
  <2> HIDE DEF fs
  <2>6. /\ dispatch_events' = dispatch_events \o fs
        /\ Legal(view[j], Trace(dispatch_events, j) \o Trace(fs, j))
        /\ Gone(peer'[j], fed[j], got[j], Bytes(dispatch_events, j) \o Bytes(fs, j))
    BY <2>1, <2>3, <2>4, <2>5 DEF fs
  <2> QED
    BY <2>1, <2>2, <2>3, <2>6, LifeEnds
<1>6. CASE ReadData(e)
  <2>1. /\ pc = "events" /\ pc' # "flush_new" /\ j \in DOMAIN connections
        /\ connections[j].connected /\ connections' = connections
        /\ sock' = [sock EXCEPT ![j].rx = <<>>]
        /\ dispatch_events' = dispatch_events \o DataIfAny(j, d)
        /\ UNCHANGED <<listeners, next_id, peer, view, sent, wire, fed, got>>
    BY <1>3, <1>6 DEF ReadData, IsConnection, track_spurious_wakeup
  <2>2. /\ j \in Ids /\ d \in Seq(Nat) /\ u \in Seq(Nat) /\ sock[j] \in SocketRecords
        /\ tr \in Seq(EventRecords) /\ Announced(view[j], tr)
        /\ Legal(view[j], tr) /\ Ongoing(tr)
        /\ sock[j].phase = "err" => peer[j] = "lost"
        /\ Flow(fed[j], got[j], u \o d, <<>>)
    BY <1>4, <2>1
  <2> DEFINE fs == DataIfAny(j, d)
  <2>3. /\ fs \in Seq(EventRecords) /\ Trace(fs, j) = fs /\ Bytes(fs, j) = d
        /\ \A i \in Ids \ {j} : Trace(fs, i) = <<>> /\ Bytes(fs, i) = <<>>
    <3> HIDE DEF d
    <3>1. Tells(DataIfAny(j, d), j, d)
      BY <2>2, ReportsTell
    <3> QED
      BY <3>1 DEF Tells, TellsOf
  <2>4. /\ Legal(view[j], tr \o fs) /\ Ongoing(tr \o fs)
        /\ Announced(view[j], tr \o fs)
    <3> HIDE DEF d, tr
    <3> QED
      BY <2>2, LegalRead
  <2>5. /\ \A k \in DOMAIN sock \ {j} : sock'[k] = sock[k]
        /\ sock'[j].rx = <<>> /\ sock'[j].phase = sock[j].phase
    <3>1. j \in DOMAIN sock
      BY <2>1 DEF TablesInv
    <3>2. sock'[j] = [sock[j] EXCEPT !.rx = <<>>]
      BY <2>1, <3>1
    <3> QED
      BY <2>1, <2>2, <3>1, <3>2 DEF SocketRecords
  <2>6. dispatch_events' = dispatch_events \o fs
    BY <2>1
  <2> HIDE DEF fs
  <2>7. \A i \in Ids : Contract!Idle(i) /\ Onward(i) /\ ~Fresh(i)' /\ ~Fresh(i)
    BY <2>1 DEF Contract!Idle, Onward, Used, Fresh
  <2>8. ASSUME NEW i \in Ids, i # j
        PROVE  Advances(i)
    <3>1. SameEvents(i)
      BY <2>2, <2>3, <2>6, <2>8, OnlyAbout
    <3>2. Frozen(i)
      BY <2>1, <2>5, <2>7, <2>8, <3>1 DEF Frozen, TablesInv
    <3> QED
      BY <3>2, FrozenAdvances
  <2>9. Advances(j)
    <3>1. Splits(dispatch_events, fs, j)
      BY <2>3, TraceParts DEF TypeOK
    <3>2. Trace(dispatch_events', j) = tr \o fs /\ Bytes(dispatch_events', j) = u \o d
      BY <2>3, <2>6, <3>1 DEF Splits
    <3>3. Story(j)'
      <4> HIDE DEF tr, u, d
      <4> QED
        BY <2>1, <2>2, <2>4, <2>5, <2>7, <3>2 DEF Story, Living
    <3>4. ~(j >= next_id')
      BY <2>1, <2>2, LivingView
    <3> QED
      BY <2>2, <2>7, <3>3, <3>4 DEF Advances, Moves
  <2> QED
    BY <2>8, <2>9
<1> QED
  BY <1>1, <1>2, <1>5, <1>6

\* accept_connections, as long as no accept() and no set_nodelay() fails.
LEMMA LifeAccept ==
  ASSUME ReuseIds = FALSE, Faults \cap {"accept", "nodelay"} = {},
         TypeOK, TablesInv, LifeInv, Accept
  PROVE  \A i \in Ids : Advances(i)
<1> USE DEF tables, app, histories, kernel
<1>1. CASE AcceptStream \/ AcceptWouldBlock \/ RegisterLostStream
  <2>1. /\ UNCHANGED <<connections, next_id, sock, dispatch_events, peer,
                       view, sent, wire, fed, got>>
        /\ DOMAIN listeners' = DOMAIN listeners
        /\ pc # "flush_new" /\ pc' # "flush_new"
    BY <1>1 DEF AcceptStream, AcceptWouldBlock, RegisterLostStream, Panic,
                track_spurious_wakeup
  <2>2. \A i \in Ids : Onward(i)
    BY <2>1 DEF Onward, Used
  <2> QED
    BY <2>1, <2>2, QuietAdvances
<1>2. CASE RegisterStream
  <2> DEFINE c == [connected |-> TRUE, interest |-> {"R"}, send_buf |-> <<>>]
  <2>1. /\ OpenSocket(c, "est", "new") /\ UNCHANGED listeners
        /\ dispatch_events' = Append(dispatch_events, Connected(next_id))
        /\ pc # "flush_new" /\ pc' # "flush_new"
    BY <1>2 DEF RegisterStream, track_spurious_wakeup
  <2>2. c.connected
    OBVIOUS
  <2> HIDE DEF c
  <2>3. PICK n : n = next_id
    OBVIOUS
  <2>4. /\ n \in Ids /\ ~(n >= next_id') /\ n \in DOMAIN connections'
        /\ connections'[n] = c /\ sock'[n].phase = "est" /\ sock'[n].rx = <<>>
        /\ view[n] = "new" /\ view'[n] = "new" /\ peer'[n] = "up"
        /\ peer'[n] = peer[n] /\ sent'[n] = sent[n] /\ wire'[n] = wire[n]
        /\ fed'[n] = <<>> /\ fed'[n] = fed[n] /\ got'[n] = <<>> /\ got'[n] = got[n]
        /\ Trace(dispatch_events, n) = <<>> /\ Bytes(dispatch_events, n) = <<>>
    BY <2>1, <2>3, OpenFirst
  <2>5. PICK ev : ev = Connected(n)
    OBVIOUS
  <2>6. ev \in EventRecords /\ Tells(<<ev>>, n, <<>>) /\ ev.type = "Connected"
    <3>1. <<>> \in Seq(Nat)
      BY EmptySeq
    <3>2. ev.type = "Connected"
      BY <2>5 DEF Connected
    <3> QED
      BY <2>4, <2>5, <3>1, <3>2, ReportsTell
  <2> DEFINE fs == <<ev>>
  <2>7. /\ fs \in Seq(EventRecords) /\ dispatch_events' = dispatch_events \o fs
        /\ \A i : /\ Bytes(fs, i) = <<>> /\ Trace(fs, i) = IF i = n THEN fs ELSE <<>>
        /\ dispatch_events \in Seq(EventRecords)
    <3>1. /\ dispatch_events \in Seq(EventRecords)
          /\ dispatch_events' = Append(dispatch_events, ev)
      BY <2>1, <2>3, <2>5 DEF TypeOK
    <3>2. dispatch_events' = dispatch_events \o fs
      BY <2>6, <3>1, AppendIsConcat
    <3>3. fs \in Seq(EventRecords)
          /\ \A i : /\ Bytes(fs, i) = <<>> /\ Trace(fs, i) = IF i = n THEN fs ELSE <<>>
      BY <2>6, Zenon DEF Tells, TellsOf
    <3> QED
      BY <3>1, <3>2, <3>3
  <2>8. Legal("new", fs) /\ Ongoing(fs) /\ Announced("new", fs)
    BY <2>6, LegalFirst
  <2> HIDE DEF fs
  <2>9. ASSUME NEW i \in Ids, i # n
        PROVE  Advances(i)
    <3>1. SameEvents(i)
      BY <2>4, <2>7, <2>9, OnlyAbout
    <3> QED
      BY <2>1, <2>3, <2>9, <3>1, OpenOthers
  <2>10. Advances(n)
    <3>1. Splits(dispatch_events, fs, n)
      BY <2>7, TraceParts
    <3>2. Trace(dispatch_events', n) = fs /\ Bytes(dispatch_events', n) = <<>>
      BY <2>4, <2>7, <3>1, ConcatEmptySeq, EmptySeq DEF Splits
    <3>f. ~Fresh(n)'
      BY <2>1 DEF Fresh
    <3>3. Story(n)'
      BY <2>2, <2>4, <2>8, <3>f, <3>2, FlowEmpty DEF Story, Living
    <3>4. Contract!Idle(n)
      BY <2>4 DEF Contract!Idle
    <3> QED
      BY <2>4, <3>3, <3>4 DEF Advances, Moves
  <2> QED
    BY <2>9, <2>10
<1> QED
  BY <1>1, <1>2 DEF Accept, AcceptError, NodelayError

\* No event about i, no byte for i.
LEMMA TraceBytes ==
  ASSUME NEW i, NEW es \in Seq(EventRecords), Trace(es, i) = <<>>
  PROVE  Bytes(es, i) = <<>>
<1> DEFINE T == {n \in Nat : \A fs \in Seq(EventRecords) :
                   Len(fs) = n /\ Trace(fs, i) = <<>> => Bytes(fs, i) = <<>>}
<1>1. 0 \in T
  BY EmptySeq, TraceParts
<1>2. ASSUME NEW n \in Nat, n \in T
      PROVE  n + 1 \in T
  <2> SUFFICES ASSUME NEW fs \in Seq(EventRecords), Len(fs) = n + 1,
                      Trace(fs, i) = <<>>
               PROVE  Bytes(fs, i) = <<>>
    OBVIOUS
  <2>1. fs # <<>>
    BY EmptySeq
  <2>2. PICK gs \in Seq(EventRecords), e \in EventRecords : fs = Append(gs, e)
    BY <2>1, SequenceEmptyOrAppend
  <2>3. Len(gs) = n
    <3>1. Len(fs) = Len(gs) + 1 /\ Len(gs) \in Nat
      BY <2>2, AppendProperties, LenProperties
    <3> QED
      BY <3>1
  <2> DEFINE one == <<e>>
  <2>4. fs = gs \o one /\ one \in Seq(EventRecords)
    BY <2>2, AppendIsConcat
  <2>5. /\ Trace(one, i) = IF e.type # "Inactive" /\ e.id = i THEN <<e>> ELSE <<>>
        /\ Bytes(one, i) = IF e.type = "Data" /\ e.id = i THEN e.data ELSE <<>>
    BY TraceParts
  <2>6. one # <<>>
    <3>1. Len(one) = 1
      OBVIOUS
    <3> QED
      BY <3>1, EmptySeq
  <2> HIDE DEF one
  <2>7. Splits(gs, one, i)
    BY <2>4, TraceParts
  <2>8. Trace(gs, i) = <<>> /\ Trace(one, i) = <<>>
    <3>1. Trace(gs, i) \in Seq(EventRecords) /\ Trace(one, i) \in Seq(EventRecords)
      BY <2>4, TraceParts
    <3>2. Trace(gs, i) \o Trace(one, i) = <<>>
      BY <2>4, <2>7 DEF Splits
    <3> QED
      BY <3>1, <3>2, ConcatEmptySeq
  <2>9. Bytes(gs, i) = <<>>
    BY <1>2, <2>3, <2>8
  <2>10. Bytes(one, i) = <<>>
    BY <2>5, <2>6, <2>8 DEF one
  <2> QED
    BY <2>4, <2>7, <2>9, <2>10, ConcatEmptySeq, EmptySeq DEF Splits
<1>3. \A n \in Nat : n \in T
  <2> HIDE DEF T
  <2> QED
    BY <1>1, <1>2, SetInduction
<1>4. Len(es) \in Nat
  BY LenProperties
<1> QED
  BY <1>3, <1>4

\* write_connection: the attempt failed, or writing did.
LEMMA LifeGiveUp ==
  ASSUME TypeOK, TablesInv, RoundInv, LifeInv, ConnectFailed \/ WriteFails
  PROVE  \A i \in Ids : Advances(i)
<1>0. PICK j : j = cur
  OBVIOUS
<1>1. j \in DOMAIN connections
  BY <1>0 DEF ConnectFailed, WriteFails, Flushing, RoundInv
<1> DEFINE tr == Trace(dispatch_events, j)
           u == Bytes(dispatch_events, j)
<1>2. /\ j \in Ids /\ tr \in Seq(EventRecords) /\ u \in Seq(Nat)
      /\ sock[j].rx \in Seq(Nat) /\ connections[j] \in ConnectionRecords
      /\ connections[j].connected /\ ~Fresh(j) => Announced(view[j], tr)
      /\ ~connections[j].connected \/ Fresh(j) =>
           view[j] = "connecting" /\ tr = <<>> /\ connections[j].send_buf = <<>>
      /\ Legal(view[j], tr) /\ Ongoing(tr)
      /\ sock[j].phase = "err" => peer[j] = "lost"
      /\ Flow(fed[j], got[j], u, sock[j].rx)
  BY <1>1, LivingParts
<1>3. dispatch_events \in Seq(EventRecords) /\ peer \in [Ids -> {"up", "fin", "lost"}]
  BY DEF TypeOK
<1>4. Gone("lost", fed[j], got[j], u)
  BY <1>2 DEF Gone
<1>5. ASSUME NEW ev \in {ConnectionFailed(j), Disconnected(j)}, GiveUp(ev),
             Legal(view[j], tr \o <<ev>>), peer'[j] = "lost",
             \A i \in Ids \ {j} : peer'[i] = peer[i]
      PROVE  \A i \in Ids : Advances(i)
  <2>1. /\ ev \in EventRecords /\ <<ev>> \in Seq(EventRecords)
        /\ \A i : /\ Bytes(<<ev>>, i) = <<>>
                  /\ Trace(<<ev>>, i) = IF i = j THEN <<ev>> ELSE <<>>
    <3>1. <<>> \in Seq(Nat)
      BY EmptySeq
    <3>2. \A e \in {Connected(j), ConnectionFailed(j), Disconnected(j)} :
            e \in EventRecords /\ Tells(<<e>>, j, <<>>)
      BY <1>2, <3>1, ReportsTell
    <3>3. ev \in {Connected(j), ConnectionFailed(j), Disconnected(j)}
      BY <1>5
    <3>4. ev \in EventRecords /\ Tells(<<ev>>, j, <<>>)
      BY <3>2, <3>3
    <3> QED
      BY <3>4, Zenon DEF Tells, TellsOf
  <2>2. /\ DropSockets({j}) /\ pc' = "events"
        /\ dispatch_events' = Append(dispatch_events, ev)
        /\ UNCHANGED <<listeners, next_id, view, sent, wire, fed, got>>
    BY <1>0, <1>5 DEF GiveUp, app, histories
  <2> DEFINE fs == <<ev>>
  <2>3. /\ fs \in Seq(EventRecords) /\ dispatch_events' = dispatch_events \o fs
        /\ \A i : Bytes(fs, i) = <<>> /\ Trace(fs, i) = IF i = j THEN fs ELSE <<>>
        /\ Legal(view[j], tr \o fs)
    BY <1>3, <1>5, <2>1, <2>2, AppendIsConcat
  <2> HIDE DEF fs
  <2>4. u \o <<>> = u
    <3> HIDE DEF u
    <3> QED
      BY <1>2, ConcatEmptySeq
  <2>5. /\ Legal(view[j], Trace(dispatch_events, j) \o Trace(fs, j))
        /\ Gone(peer'[j], fed[j], got[j], Bytes(dispatch_events, j) \o Bytes(fs, j))
        /\ \A i \in Ids \ {j} : Trace(fs, i) = <<>> /\ Bytes(fs, i) = <<>>
                                /\ peer'[i] = peer[i]
    BY <1>4, <1>5, <2>3, <2>4
  <2> QED
    BY <1>0, <1>1, <1>2, <1>5, <2>2, <2>3, <2>5, LifeEnds
<1>6. CASE ConnectFailed
  <2>1. /\ ~connections[j].connected /\ sock[j].phase = "err"
        /\ GiveUp(ConnectionFailed(j)) /\ peer' = peer
    BY <1>0, <1>6 DEF ConnectFailed
  <2>2. PICK ev : ev = ConnectionFailed(j)
    OBVIOUS
  <2>3. ev.type = "ConnectionFailed" /\ ev \in EventRecords
    BY <1>2, <2>2, EventTypes DEF ConnectionFailed
  <2>4. view[j] = "connecting" /\ tr = <<>> /\ peer[j] = "lost"
    BY <1>2, <2>1
  <2>5. tr \o <<ev>> = <<ev>>
    <3>1. <<ev>> \in Seq(EventRecords)
      BY <2>3
    <3> QED
      BY <2>4, <3>1, ConcatEmptySeq
  <2>6. Legal(view[j], tr \o <<ev>>)
    BY <2>3, <2>4, <2>5, LegalFirst
  <2> QED
    BY <1>5, <2>1, <2>2, <2>4, <2>6
<1>7. CASE WriteFails
  <2>1. /\ connections[j].connected /\ connections[j].send_buf # <<>>
        /\ GiveUp(Disconnected(j)) /\ peer' = [peer EXCEPT ![j] = "lost"]
    BY <1>0, <1>7 DEF WriteFails, Flushing
  <2>2. PICK ev : ev = Disconnected(j)
    OBVIOUS
  <2>3. ev.type = "Disconnected" /\ ev \in EventRecords
    BY <1>2, <2>2, EventTypes DEF Disconnected
  <2>4. Announced(view[j], tr)
    BY <1>2, <2>1
  <2>5. Legal(view[j], tr \o <<ev>>)
    <3> HIDE DEF tr
    <3> QED
      BY <1>2, <2>3, <2>4, LegalMore
  <2>6. peer'[j] = "lost" /\ \A i \in Ids \ {j} : peer'[i] = peer[i]
    BY <1>2, <1>3, <2>1
  <2> QED
    BY <1>5, <2>1, <2>2, <2>5, <2>6
<1> QED
  BY <1>6, <1>7

\* write_connection finds the connection established.
LEMMA LifeEstablished ==
  ASSUME TypeOK, TablesInv, RoundInv, LifeInv, ConnectEstablished
  PROVE  \A i \in Ids : Advances(i)
<1>0. PICK j : j = cur
  OBVIOUS
<1>1. /\ j \in DOMAIN connections /\ ~connections[j].connected
      /\ connections' = [connections EXCEPT ![j].connected = TRUE]
      /\ pc = "write" /\ pc' = "flush_new" /\ cur' = j
      /\ UNCHANGED <<listeners, next_id, dispatch_events, sock, peer, view, sent, wire,
                     fed, got>>
  BY <1>0 DEF ConnectEstablished, RoundInv, round, kernel, app, histories
<1>2. \A i \in Ids : Contract!Idle(i) /\ SameEvents(i) /\ Onward(i)
  BY <1>1 DEF Contract!Idle, SameEvents, Onward, Used
<1>3. /\ j \in Ids /\ connections[j] \in ConnectionRecords
  BY <1>1 DEF TypeOK
<1>4. /\ DOMAIN connections' = DOMAIN connections
      /\ \A k \in DOMAIN connections \ {j} : connections'[k] = connections[k]
      /\ connections'[j].send_buf = connections[j].send_buf
  BY <1>1, <1>3 DEF ConnectionRecords
<1>5. ASSUME NEW i \in Ids, i # j
      PROVE  Advances(i)
  <2>1. Fresh(i)' <=> Fresh(i)
    BY <1>0, <1>1, <1>5 DEF Fresh
  <2>2. Frozen(i)
    BY <1>1, <1>2, <1>4, <1>5, <2>1 DEF Frozen
  <2> QED
    BY <2>2, FrozenAdvances
<1>6. Advances(j)
  <2>1. Fresh(j)'
    BY <1>1 DEF Fresh
  <2>2. /\ view[j] = "connecting" /\ Trace(dispatch_events, j) = <<>>
        /\ connections[j].send_buf = <<>>
        /\ Legal(view[j], Trace(dispatch_events, j))
        /\ Ongoing(Trace(dispatch_events, j))
        /\ sock[j].phase = "err" => peer[j] = "lost"
        /\ Flow(fed[j], got[j], Bytes(dispatch_events, j), sock[j].rx)
    BY <1>1, LivingParts
  <2>3. Story(j)'
    <3>1. j \in DOMAIN connections' /\ connections'[j].send_buf = <<>>
      BY <1>1, <1>4, <2>2
    <3> QED
      BY <1>1, <2>1, <2>2, <3>1 DEF Story, Living
  <2>4. ~(j >= next_id')
    BY <1>1, <1>3, LivingView
  <2> QED
    BY <1>2, <1>3, <2>3, <2>4 DEF Advances, Moves
<1> QED
  BY <1>5, <1>6

\* The write loop: bytes reach the kernel in order, and a connection found
\* established in this call is announced.
LEMMA LifeWriteData ==
  ASSUME TypeOK, TablesInv, RoundInv, StreamInv, LifeInv, WriteData
  PROVE  \A i \in Ids : Advances(i)
<1>0. PICK j : j = cur
  BY Zenon
<1>1. PICK n \in Nat, in \in SUBSET RW :
           LET buf == connections[cur].send_buf IN
           /\ cur \in DOMAIN connections /\ buf \in Seq(Nat) /\ n <= Len(buf)
           /\ in = InterestAfterWrite(Unsent(buf, n), connections[cur].interest)
           /\ connections' = [connections EXCEPT ![cur] =
                [connections[cur] EXCEPT !.send_buf = Unsent(buf, n),
                                         !.interest = in]]
           /\ sock' = [sock EXCEPT ![cur] =
                [sock[cur] EXCEPT !.room = @ - n,
                                  !.interest = IF in # connections[cur].interest
                                               THEN in ELSE @]]
           /\ sock[cur].room - n \in Nat
           /\ wire' = [wire EXCEPT ![cur] = @ \o SubSeq(buf, 1, n)]
  BY WriteEffect
<1> DEFINE buf == connections[j].send_buf
           tr == Trace(dispatch_events, j)
           u == Bytes(dispatch_events, j)
<1>2. /\ j \in DOMAIN connections /\ buf \in Seq(Nat) /\ n <= Len(buf)
      /\ connections' = [connections EXCEPT ![j] =
           [connections[j] EXCEPT !.send_buf = Unsent(buf, n), !.interest = in]]
      /\ sock' = [sock EXCEPT ![j] =
           [sock[j] EXCEPT !.room = @ - n,
                           !.interest = IF in # connections[j].interest THEN in ELSE @]]
      /\ wire' = [wire EXCEPT ![j] = @ \o SubSeq(buf, 1, n)]
  BY <1>0, <1>1
<1>3. /\ j \in Ids /\ tr \in Seq(EventRecords) /\ u \in Seq(Nat)
      /\ sock[j] \in SocketRecords /\ connections[j] \in ConnectionRecords
      /\ connections[j].connected /\ ~Fresh(j) => Announced(view[j], tr)
      /\ ~connections[j].connected \/ Fresh(j) =>
           view[j] = "connecting" /\ tr = <<>> /\ connections[j].send_buf = <<>>
      /\ Legal(view[j], tr) /\ Ongoing(tr)
      /\ sock[j].phase = "err" => peer[j] = "lost"
      /\ Flow(fed[j], got[j], u, sock[j].rx)
  BY <1>2, LivingParts
<1>4. /\ pc \in {"write", "flush_new"} /\ connections[j].connected /\ cur' = j
      /\ pc' # "flush_new"
      /\ pc = "flush_new" => dispatch_events' = Append(dispatch_events, Connected(j))
      /\ pc # "flush_new" => dispatch_events' = dispatch_events
      /\ UNCHANGED <<listeners, next_id, peer, view, sent, fed, got>>
  BY <1>0 DEF WriteData, Flushing, track_spurious_wakeup
<1>5. /\ DOMAIN connections' = DOMAIN connections
      /\ \A k \in DOMAIN connections \ {j} : connections'[k] = connections[k]
      /\ connections'[j].connected = connections[j].connected
      /\ DOMAIN sock' = DOMAIN sock /\ j \in DOMAIN sock
      /\ \A k \in DOMAIN sock \ {j} : sock'[k] = sock[k]
      /\ sock'[j].phase = sock[j].phase /\ sock'[j].rx = sock[j].rx
  BY <1>2, <1>3 DEF ConnectionRecords, SocketRecords, TablesInv
<1>6. wire'[j] = wire[j] \o SubSeq(buf, 1, n)
      /\ \A i \in Ids \ {j} : wire'[i] = wire[i]
  BY <1>2, <1>3 DEF TypeOK
<1>7. \A i \in Ids : Onward(i) /\ ~Fresh(i)'
  BY <1>4, <1>5 DEF Onward, Used, Fresh
<1>8. PICK ev : ev = Connected(j)
  OBVIOUS
<1> DEFINE fs == IF pc = "flush_new" THEN <<ev>> ELSE <<>>
<1>9. /\ ev.type = "Connected" /\ ev \in EventRecords /\ <<ev>> \in Seq(EventRecords)
      /\ \A i : /\ Bytes(<<ev>>, i) = <<>>
                /\ Trace(<<ev>>, i) = IF i = j THEN <<ev>> ELSE <<>>
  <2>1. <<>> \in Seq(Nat) /\ ev.type = "Connected"
    BY <1>8, EmptySeq DEF Connected
  <2>2. ev \in EventRecords /\ Tells(<<ev>>, j, <<>>)
    BY <1>3, <1>8, <2>1, ReportsTell
  <2> QED
    BY <2>1, <2>2, Zenon DEF Tells, TellsOf
<1>10. /\ fs \in Seq(EventRecords) /\ dispatch_events \in Seq(EventRecords)
       /\ dispatch_events' = dispatch_events \o fs
       /\ \A i : Bytes(fs, i) = <<>> /\ Trace(fs, i) = IF i = j THEN fs ELSE <<>>
  <2>1. dispatch_events \in Seq(EventRecords)
    BY DEF TypeOK
  <2>2. CASE pc = "flush_new"
    BY <1>4, <1>8, <1>9, <2>1, <2>2, AppendIsConcat
  <2>3. CASE pc # "flush_new"
    <3>1. fs = <<>>
      BY <2>3
    <3>2. \A i : Bytes(<<>>, i) = <<>> /\ Trace(<<>>, i) = <<>>
      BY TraceParts
    <3> QED
      BY <1>4, <2>1, <2>3, <3>1, <3>2, ConcatEmptySeq, EmptySeq
  <2> QED
    BY <2>2, <2>3
<1>11. /\ Legal(view[j], tr \o fs) /\ Ongoing(tr \o fs) /\ Announced(view[j], tr \o fs)
  <2>1. CASE pc = "flush_new"
    <3>1. Fresh(j)
      BY <1>0, <2>1 DEF Fresh
    <3>2. tr = <<>> /\ view[j] = "connecting"
      BY <1>3, <3>1
    <3>3. tr \o fs = <<ev>>
      BY <1>9, <2>1, <3>2, ConcatEmptySeq
    <3> QED
      BY <1>9, <3>2, <3>3, LegalFirst
  <2>2. CASE pc # "flush_new"
    <3>1. ~Fresh(j)
      BY <2>2 DEF Fresh
    <3>2. tr \o fs = tr
      <4> HIDE DEF tr
      <4> QED
        BY <1>3, <2>2, ConcatEmptySeq
    <3> QED
      BY <1>3, <1>4, <3>1, <3>2
  <2> QED
    BY <2>1, <2>2
<1> HIDE DEF fs
<1>12. ASSUME NEW i \in Ids, i # j
       PROVE  Advances(i)
  <2>1. SameEvents(i)
    BY <1>3, <1>10, <1>12, OnlyAbout
  <2>2. Contract!Idle(i)
    BY <1>4, <1>6, <1>12 DEF Contract!Idle
  <2>3. ~Fresh(i)
    BY <1>0, <1>12 DEF Fresh
  <2>4. Frozen(i)
    BY <1>5, <1>7, <1>12, <2>1, <2>2, <2>3 DEF Frozen, TablesInv
  <2> QED
    BY <2>4, FrozenAdvances
<1>13. Moves(j)
  <2> DEFINE pre == SubSeq(buf, 1, n)
             rest == Unsent(buf, n)
             w == wire[j]
  <2>1. w \in Seq(Nat) /\ pre \in Seq(Nat) /\ rest \in Seq(Nat) /\ buf = pre \o rest
    <3>1. wire[j] \in Seq(Nat)
      BY <1>3 DEF TypeOK
    <3> HIDE DEF buf
    <3> QED
      BY <1>2, <3>1, SplitBuffer
  <2>2. sent[j] = w \o buf
    BY <1>2 DEF StreamInv, Healthy
  <2>3. wire'[j] = w \o pre
    BY <1>6
  <2> HIDE DEF pre, rest, w, buf
  <2>4. Contract!IsPrefix(w \o pre, sent[j])
    <3>1. Joins(w, pre, rest)
      BY <2>1, JoinsAlways
    <3>2. sent[j] = (w \o pre) \o rest
      BY <2>1, <2>2, <3>1 DEF Joins
    <3>3. w \o pre \in Seq(Nat)
      BY <2>1, ConcatProperties
    <3> DEFINE x == w \o pre
    <3> HIDE DEF x
    <3>4. Contract!IsPrefix(x, x \o rest)
      BY <2>1, <3>3, PrefixOfConcat DEF x
    <3> QED
      BY <3>2, <3>4 DEF x
  <2>5. CASE pre = <<>>
    <3>1. wire'[j] = wire[j]
      BY <2>1, <2>3, <2>5, ConcatEmptySeq DEF w
    <3> QED
      BY <1>4, <3>1 DEF Moves, Contract!Idle
  <2>6. CASE pre # <<>>
    <3>1. Contract!Grows(wire[j], wire'[j])
      BY <2>1, <2>3, <2>6, PrefixOfConcat DEF w
    <3>2. Contract!IsPrefix(wire'[j], sent[j])
      BY <2>3, <2>4
    <3>3. Contract!Transmit(j)
      BY <1>4, <3>1, <3>2 DEF Contract!Transmit
    <3> QED
      BY <3>3 DEF Moves, Contract!Step
  <2> QED
    BY <2>5, <2>6
<1>14. Advances(j)
  <2>1. Splits(dispatch_events, fs, j)
    BY <1>10, TraceParts
  <2>2. u \o <<>> = u
    <3> HIDE DEF u
    <3> QED
      BY <1>3, ConcatEmptySeq
  <2>3. Trace(dispatch_events', j) = tr \o fs /\ Bytes(dispatch_events', j) = u
    BY <1>10, <2>1, <2>2 DEF Splits
  <2>4. Story(j)'
    <3> HIDE DEF tr, u
    <3> QED
      BY <1>2, <1>3, <1>4, <1>5, <1>7, <1>11, <2>3 DEF Story, Living
  <2>5. ~(j >= next_id')
    BY <1>2, <1>3, <1>4, LivingView
  <2> QED
    BY <1>13, <2>4, <2>5 DEF Advances
<1> QED
  BY <1>12, <1>14

\* The application handles an event as the contract describes it.
LEMMA LifeApp ==
  ASSUME TypeOK, TablesInv, LifeInv, AppHandlesEvent
  PROVE  \A i \in Ids : Advances(i)
<1>1. /\ dispatch_events \in Seq(EventRecords) /\ dispatch_events # <<>>
      /\ view \in [Ids -> {"new", "connecting", "open"} \cup Ended]
      /\ fed \in [Ids -> Seq(Nat)] /\ got \in [Ids -> Seq(Nat)]
      /\ pc = "app" /\ pc' = "app" /\ dispatch_events' = Tail(dispatch_events)
      /\ UNCHANGED <<connections, listeners, next_id, sock, peer, sent, wire, fed>>
  BY DEF TypeOK, AppHandlesEvent, tables, thread, kernel
<1>2. PICK e : e = Head(dispatch_events)
  OBVIOUS
<1> DEFINE es == Tail(dispatch_events)
<1>3. /\ e \in EventRecords /\ es \in Seq(EventRecords)
      /\ dispatch_events = <<e>> \o es /\ <<e>> \in Seq(EventRecords)
  BY <1>1, <1>2, HeadTailProperties
<1>4. /\ e.type \in {"Inactive", "Connected", "ConnectionFailed", "Disconnected", "Data"}
      /\ e.type # "Inactive" => e.id \in Ids
      /\ e.type = "Data" => e.data \in Seq(Nat)
  BY <1>3 DEF EventRecords
<1>5. LET live == e.type # "Inactive" /\ view[e.id] # "closed" IN
      /\ view' = IF ~live \/ e.type = "Data" THEN view
                 ELSE [view EXCEPT ![e.id] = ViewAfter[e.type]]
      /\ got' = IF live /\ e.type = "Data"
                THEN [got EXCEPT ![e.id] = @ \o e.data] ELSE got
  BY <1>2 DEF AppHandlesEvent
<1> HIDE DEF es
<1> SUFFICES ASSUME NEW i \in Ids PROVE Advances(i)
  OBVIOUS
<1> DEFINE tr == Trace(es, i)
           u == Bytes(es, i)
<1>6. /\ Trace(dispatch_events, i) = Trace(<<e>>, i) \o tr
      /\ Bytes(dispatch_events, i) = Bytes(<<e>>, i) \o u
      /\ tr \in Seq(EventRecords) /\ u \in Seq(Nat)
      /\ Trace(dispatch_events', i) = tr /\ Bytes(dispatch_events', i) = u
  <2>1. Splits(<<e>>, es, i)
    BY <1>3, TraceParts
  <2>2. tr \in Seq(EventRecords) /\ u \in Seq(Nat)
    BY <1>3, TraceParts
  <2>3. dispatch_events' = es
    BY <1>1 DEF es
  <2> QED
    BY <1>3, <2>1, <2>2, <2>3 DEF Splits
<1>7. /\ Trace(<<e>>, i) = IF e.type # "Inactive" /\ e.id = i THEN <<e>> ELSE <<>>
      /\ Bytes(<<e>>, i) = IF e.type = "Data" /\ e.id = i THEN e.data ELSE <<>>
  BY <1>3, TraceParts
<1>8. Onward(i) /\ ~Fresh(i) /\ ~Fresh(i)'
  BY <1>1 DEF Onward, Used, Fresh
<1>9. <<>> \o tr = tr /\ <<>> \o u = u
  <2> HIDE DEF tr, u
  <2> QED
    BY <1>6, ConcatEmptySeq
<1>10. CASE e.type = "Inactive" \/ e.id # i
  <2>1. SameEvents(i)
    BY <1>6, <1>7, <1>9, <1>10 DEF SameEvents
  <2>2. view'[i] = view[i] /\ got'[i] = got[i]
    BY <1>1, <1>4, <1>5, <1>10
  <2>3. Contract!Idle(i)
    BY <1>1, <2>2 DEF Contract!Idle
  <2>4. Frozen(i)
    BY <1>1, <1>8, <2>1, <2>3 DEF Frozen
  <2> QED
    BY <2>4, FrozenAdvances
<1>11. CASE e.type # "Inactive" /\ e.id = i /\ view[i] = "closed"
  <2>1. view'[i] = "closed" /\ got'[i] = got[i]
    BY <1>5, <1>11
  <2>2. i \notin DOMAIN connections
    BY <1>11, LivingView
  <2>3. Story(i)'
    BY <1>1, <2>1, <2>2 DEF Story
  <2>4. ~(i >= next_id')
    BY <1>1, <1>11 DEF LifeInv, Unused
  <2>5. Contract!Idle(i)
    BY <1>1, <1>11, <2>1 DEF Contract!Idle
  <2> QED
    BY <2>3, <2>4, <2>5 DEF Advances, Moves
<1>12. CASE e.type # "Inactive" /\ e.id = i /\ view[i] # "closed"
  <2>1. Trace(dispatch_events, i) = <<e>> \o tr
    BY <1>6, <1>7, <1>12
  <2>2. Legal(view[i], <<e>> \o tr)
    BY <1>12, <2>1 DEF LifeInv, Story
  <2>3. /\ e.type = "Connected" => view[i] \in {"new", "connecting"} /\ Legal("open", tr)
        /\ e.type = "ConnectionFailed" => view[i] = "connecting" /\ tr = <<>>
        /\ e.type = "Disconnected" => view[i] = "open" /\ tr = <<>>
        /\ e.type = "Data" => view[i] = "open" /\ Legal("open", tr) /\ e.data # <<>>
        /\ Ongoing(<<e>> \o tr) => Ongoing(tr) /\ e.type \in {"Connected", "Data"}
    <3> HIDE DEF tr
    <3> QED
      BY <1>3, <1>6, <1>12, <2>2, LegalLess
  <2>4. ~(i >= next_id')
    <3>1. Trace(dispatch_events, i) # <<>>
      <4>1. Len(<<e>> \o tr) = 1 + Len(tr) /\ Len(tr) \in Nat
        <5> HIDE DEF tr
        <5>1. Len(<<e>> \o tr) = Len(<<e>>) + Len(tr) /\ Len(<<e>>) = 1
          BY <1>3, <1>6, ConcatProperties
        <5> QED
          BY <1>6, <5>1, LenProperties
      <4>2. Len(<<>>) = 0
        BY EmptySeq
      <4> QED
        BY <2>1, <4>1, <4>2
    <3> QED
      BY <1>1, <3>1 DEF LifeInv, Unused
  <2>5. i \in DOMAIN connections =>
          /\ Ongoing(<<e>> \o tr)
          /\ sock[i].phase = "err" => peer[i] = "lost"
          /\ Flow(fed[i], got[i], Bytes(<<e>>, i) \o u, sock[i].rx)
          /\ sock[i].rx \in Seq(Nat)
          /\ connections[i].connected
    <3> SUFFICES ASSUME i \in DOMAIN connections
                 PROVE  /\ Ongoing(<<e>> \o tr)
                        /\ sock[i].phase = "err" => peer[i] = "lost"
                        /\ Flow(fed[i], got[i], Bytes(<<e>>, i) \o u, sock[i].rx)
                        /\ sock[i].rx \in Seq(Nat)
                        /\ connections[i].connected
      OBVIOUS
    <3>1. /\ Ongoing(Trace(dispatch_events, i))
          /\ sock[i].phase = "err" => peer[i] = "lost"
          /\ Flow(fed[i], got[i], Bytes(dispatch_events, i), sock[i].rx)
          /\ sock[i].rx \in Seq(Nat) /\ connections[i] \in ConnectionRecords
          /\ ~connections[i].connected => Trace(dispatch_events, i) = <<>>
      BY LivingParts
    <3>2. Trace(dispatch_events, i) # <<>>
      <4>1. Len(<<e>> \o tr) = 1 + Len(tr) /\ Len(tr) \in Nat
        <5> HIDE DEF tr
        <5>1. Len(<<e>> \o tr) = Len(<<e>>) + Len(tr) /\ Len(<<e>>) = 1
          BY <1>3, <1>6, ConcatProperties
        <5> QED
          BY <1>6, <5>1, LenProperties
      <4>2. Len(<<>>) = 0
        BY EmptySeq
      <4> QED
        BY <2>1, <4>1, <4>2
    <3> QED
      BY <1>6, <2>1, <3>1, <3>2
  <2>6. i \notin DOMAIN connections =>
          Gone(peer[i], fed[i], got[i], Bytes(<<e>>, i) \o u)
    BY <1>6, <1>12 DEF LifeInv, Story
  <2>7. CASE e.type = "Data"
    <3>1. /\ view'[i] = view[i] /\ got'[i] = got[i] \o e.data
          /\ Bytes(<<e>>, i) = e.data
      BY <1>1, <1>5, <1>7, <1>12, <2>7
    <3>2. e.data \in Seq(Nat) /\ fed[i] \in Seq(Nat) /\ got[i] \in Seq(Nat)
      BY <1>1, <1>4, <2>7
    <3> HIDE DEF tr, u
    <3>3. \A r \in Seq(Nat) : Flow(fed[i], got[i], e.data \o u, r) =>
            /\ Flow(fed[i], got[i] \o e.data, u, r)
            /\ Contract!IsPrefix(got[i] \o e.data, fed[i])
            /\ Contract!Grows(got[i], got[i] \o e.data)
      BY <1>6, <2>3, <2>7, <3>2, FlowTake
    <3>4. i \in DOMAIN connections => Flow(fed[i], got'[i], u, sock[i].rx)
      BY <2>5, <3>1, <3>3
    <3>5. i \notin DOMAIN connections => Gone(peer[i], fed[i], got'[i], u)
      BY <2>6, <3>1, <3>3 DEF Gone
    <3>6. Contract!IsPrefix(got'[i], fed[i]) /\ Contract!Grows(got[i], got'[i])
      BY <2>5, <2>6, <3>1, <3>3 DEF Gone
    <3>7. Contract!Data(i)
      BY <1>1, <2>3, <2>7, <3>1, <3>6 DEF Contract!Data
    <3>8. Story(i)'
      BY <1>1, <1>6, <1>8, <2>3, <2>5, <2>7, <3>1, <3>4, <3>5
         DEF Story, Living, Announced
    <3> QED
      BY <2>4, <3>7, <3>8 DEF Advances, Moves, Contract!Step
  <2>8. CASE e.type # "Data"
    <3>1. /\ view'[i] = ViewAfter[e.type] /\ got'[i] = got[i]
          /\ Bytes(<<e>>, i) \o u = u
      BY <1>1, <1>5, <1>7, <1>9, <1>12, <2>8
    <3> HIDE DEF tr, u
    <3>2. CASE e.type = "Connected"
      <4>1. view'[i] = "open"
        BY <3>1, <3>2 DEF ViewAfter
      <4>2. Contract!Connected(i)
        BY <1>1, <2>3, <3>1, <3>2, <4>1 DEF Contract!Connected
      <4>3. Story(i)'
        BY <1>1, <1>6, <1>8, <2>3, <2>5, <2>6, <3>1, <3>2, <4>1
           DEF Story, Living, Announced
      <4> QED
        BY <2>4, <4>2, <4>3 DEF Advances, Moves, Contract!Step
    <3>3. CASE e.type = "ConnectionFailed"
      <4>1. view'[i] = "failed" /\ i \notin DOMAIN connections
        BY <2>3, <2>5, <3>1, <3>3 DEF ViewAfter
      <4>2. Contract!ConnectionFailed(i)
        BY <1>1, <2>3, <3>1, <3>3, <4>1 DEF Contract!ConnectionFailed
      <4>3. Story(i)'
        BY <1>1, <1>6, <2>3, <2>6, <3>1, <3>3, <4>1, NothingYet DEF Story
      <4> QED
        BY <2>4, <4>2, <4>3 DEF Advances, Moves, Contract!Step
    <3>4. CASE e.type = "Disconnected"
      <4>1. view'[i] = "disconnected" /\ i \notin DOMAIN connections
        BY <2>3, <2>5, <3>1, <3>4 DEF ViewAfter
      <4>2. peer[i] = "fin" => got[i] = fed[i]
        <5>1. Trace(es, i) = <<>>
          BY <2>3, <3>4 DEF tr
        <5>2. u = <<>>
          BY <5>1, <1>3, TraceBytes DEF u
        <5>3. <<>> \in Seq(Nat) /\ got[i] \in Seq(Nat)
          BY <1>1, EmptySeq
        <5>4. (got[i] \o <<>>) \o <<>> = got[i]
          BY <5>3, ConcatEmptySeq
        <5> QED
          BY <2>6, <3>1, <4>1, <5>2, <5>4 DEF Gone, Flow
      <4>3. Contract!Disconnected(i)
        BY <1>1, <2>3, <3>1, <3>4, <4>1, <4>2 DEF Contract!Disconnected
      <4>4. Story(i)'
        BY <1>1, <1>6, <2>3, <2>6, <3>1, <3>4, <4>1, NothingYet DEF Story
      <4> QED
        BY <2>4, <4>3, <4>4 DEF Advances, Moves, Contract!Step
    <3> QED
      BY <1>4, <1>12, <2>8, <3>2, <3>3, <3>4
  <2> QED
    BY <2>7, <2>8
<1> QED
  BY <1>10, <1>11, <1>12

\* write_connection.
LEMMA LifeWrite ==
  ASSUME TypeOK, TablesInv, RoundInv, StreamInv, LifeInv, Write
  PROVE  \A i \in Ids : Advances(i)
<1>1. CASE ConnectFailed \/ WriteFails
  BY <1>1, LifeGiveUp
<1>2. CASE ConnectEstablished
  BY <1>2, LifeEstablished
<1>3. CASE WriteData
  BY <1>3, LifeWriteData
<1> QED
  BY <1>1, <1>2, <1>3 DEF Write

\* fetch_events has nothing to watch.
LEMMA LifeIdle ==
  ASSUME TypeOK, InformedInv, LifeInv, ReportInactive
  PROVE  \A i \in Ids : Advances(i)
<1>1. /\ dispatch_events = <<>> /\ dispatch_events' = <<Inactive>>
      /\ pc = "requests" /\ pc' = "app"
      /\ UNCHANGED <<connections, listeners, next_id, sock, peer, view, sent, wire,
                     fed, got>>
  BY DEF ReportInactive, InformedInv, tables, round, kernel, app, histories
<1> SUFFICES ASSUME NEW i \in Ids PROVE Frozen(i)
  BY FrozenAdvances
<1>2. Trace(<<>>, i) = <<>> /\ Bytes(<<>>, i) = <<>>
  BY TraceParts
<1>3. PICK e : e = Inactive
  OBVIOUS
<1>4. e \in EventRecords /\ e.type = "Inactive"
  BY <1>3 DEF EventRecords, Inactive
<1>5. Trace(<<e>>, i) = <<>> /\ Bytes(<<e>>, i) = <<>>
  BY <1>4, TraceParts
<1>6. SameEvents(i)
  BY <1>1, <1>2, <1>3, <1>5 DEF SameEvents
<1>7. Contract!Idle(i) /\ Onward(i) /\ ~Fresh(i) /\ ~Fresh(i)'
  BY <1>1 DEF Contract!Idle, Onward, Used, Fresh
<1> QED
  BY <1>1, <1>6, <1>7 DEF Frozen

\* Every step goes on with the story of each id, and looks to the outside like
\* a step of the contract.
LEMMA LifeStep ==
  ASSUME ReuseIds = FALSE, "early_send" \notin Usage,
         Faults \cap {"accept", "nodelay"} = {}
  PROVE  TypeOK /\ TablesInv /\ RoundInv /\ StreamInv /\ InformedInv /\ LifeInv
           /\ [Next]_vars => LifeInv' /\ [Contract!Next]_(Contract!contract)
<1> SUFFICES ASSUME TypeOK, TablesInv, RoundInv, StreamInv, InformedInv, LifeInv,
                    [Next]_vars
             PROVE  \A i \in Ids : Advances(i)
  BY DEF Advances, Moves, LifeInv, Contract!Next
<1>1. CASE UNCHANGED vars
  <2>1. UNCHANGED <<connections, listeners, next_id, sock, dispatch_events, peer,
                    view, sent, wire, fed, got, pc, cur>>
    BY <1>1 DEF vars, tables, thread, round, kernel, app, histories
  <2>2. \A i \in Ids : Onward(i)
    BY <2>1 DEF Onward, Used
  <2> QED
    BY <2>1, <2>2, QuietAdvances
<1>2. CASE FetchEvents \/ Poll \/ PollFails \/ EventsDone
  <2>1. /\ UNCHANGED <<connections, listeners, next_id, sock, dispatch_events, peer,
                       view, sent, wire, fed, got>>
        /\ pc # "flush_new" /\ pc' # "flush_new"
    BY <1>2 DEF FetchEvents, Poll, PollFails, EventsDone, tables, round, kernel, app,
                histories
  <2>2. \A i \in Ids : Onward(i)
    BY <2>1 DEF Onward, Used
  <2> QED
    BY <2>1, <2>2, QuietAdvances
<1> QED
  BY <1>1, <1>2, LifeOperations, LifeApp, LifeIdle, LifeEvent, LifeAccept, LifeWrite,
     LifeKernel DEF Next, Loop

\* Before the first step no id has a story.
LEMMA LifeInit == Init => LifeInv /\ Contract!Init
<1> SUFFICES ASSUME Init PROVE LifeInv /\ Contract!Init
  OBVIOUS
<1>1. /\ dispatch_events = <<>> /\ Used = {} /\ DOMAIN connections = {}
      /\ \A i \in Ids : /\ view[i] = "new" /\ peer[i] = "up"
                        /\ sent[i] = <<>> /\ wire[i] = <<>>
                        /\ fed[i] = <<>> /\ got[i] = <<>>
  BY DEF Init, Used, EmptyMap
<1>2. \A i : Trace(<<>>, i) = <<>> /\ Bytes(<<>>, i) = <<>>
  BY TraceParts
<1>3. Gone("up", <<>>, <<>>, <<>>)
  BY FlowEmpty, EmptySeq DEF Gone
<1>4. LifeInv
  BY <1>1, <1>2, <1>3, NothingYet DEF LifeInv, Story, Unused
<1>5. Contract!Init
  BY DEF Init, Contract!Init
<1> QED
  BY <1>4, <1>5

\* The life of every id is in order, and its incoming bytes add up, in every
\* state fetch_events and its caller reach.
THEOREM LifeCorrect ==
  ASSUME ReuseIds = FALSE, "early_send" \notin Usage,
         Faults \cap {"accept", "nodelay"} = {}
  PROVE  Spec => []LifeInv
<1>1. TypeOK /\ TablesInv /\ RoundInv /\ StreamInv /\ InformedInv /\ LifeInv
        /\ [Next]_vars => LifeInv'
  BY LifeStep
<1>2. Init => LifeInv
  BY LifeInit
<1>3. Spec => []InformedInv
  BY InformedCorrect
<1> QED
  BY <1>1, <1>2, <1>3, TypeCorrect, TablesCorrect, RoundCorrect, StreamsCorrect, PTL
     DEF Spec

\* TcpTransport implements the contract documented on TransportEvent: for every
\* id one life, from connect() or Connected over Data to one Disconnected or
\* ConnectionFailed, the bytes handed out a prefix of those the peer wrote and
\* all of them if the peer closed in good order, the bytes written a prefix of
\* those queued.  The ids do not wrap around; the application waits for
\* Connected before it sends (a connection that is found established and fails
\* in the same call of write_connection ends unannounced otherwise); accept()
\* and set_nodelay() do not fail (fetch_events throws events away otherwise).
THEOREM ContractKept ==
  ASSUME ReuseIds = FALSE, "early_send" \notin Usage,
         Faults \cap {"accept", "nodelay"} = {}
  PROVE  Spec => KeepsContract
<1>1. TypeOK /\ TablesInv /\ RoundInv /\ StreamInv /\ InformedInv /\ LifeInv
        /\ [Next]_vars => [Contract!Next]_(Contract!contract)
  BY LifeStep
<1>2. Init => Contract!Init
  BY LifeInit
<1>3. Spec => []InformedInv
  BY InformedCorrect
<1>4. Spec => []LifeInv
  BY LifeCorrect
<1> QED
  BY <1>1, <1>2, <1>3, <1>4, TypeCorrect, TablesCorrect, RoundCorrect, StreamsCorrect,
     PTL DEF Spec, KeepsContract, Contract!Spec

\* No byte the peer of a live connection wrote is lost or moved: it was handed
\* to the application, is in an event fetch_events has collected, or still in
\* the kernel.  Where accept() fails this is false: see the run that shows it.
THEOREM IncomingIsIntact ==
  ASSUME ReuseIds = FALSE, "early_send" \notin Usage,
         Faults \cap {"accept", "nodelay"} = {}
  PROVE  Spec => []IncomingIntact
<1>1. TypeOK /\ LifeInv => IncomingIntact
  <2> SUFFICES ASSUME TypeOK, LifeInv, NEW i \in DOMAIN connections
               PROVE  fed[i] = got[i] \o Undelivered(i) \o sock[i].rx
    BY DEF IncomingIntact
  <2>1. Undelivered(i) = Bytes(dispatch_events, i)
    BY UndeliveredBytes
  <2>2. i \in Ids
    BY DEF TypeOK
  <2> QED
    BY <2>1, <2>2 DEF LifeInv, Story, Living, Flow
<1>2. Spec => []LifeInv
  BY LifeCorrect
<1> QED
  BY <1>1, <1>2, TypeCorrect, PTL

=============================================================================
