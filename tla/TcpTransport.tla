---------------------------- MODULE TcpTransport ----------------------------
(***************************************************************************)
(* The TCP transport (src/transport/tcp.rs): one event loop, the kernel's  *)
(* sockets and edge-triggered readiness below it, the application above.   *)
(*                                                                         *)
(* The transport is single-threaded.  pc says where its thread is:         *)
(*   "app"       in the application, between two calls of fetch_events;    *)
(*   "requests"  at the top of fetch_events' loop: executing queued        *)
(*               SendRequests or blocked in poll();                        *)
(*   "events"    iterating over the events poll() returned;                *)
(*   "accept", "register"  in the two loops of accept_connections;         *)
(*   "write"     at the call of write_connection;                          *)
(*   "flush_new" in its write loop, after this very call has found the     *)
(*               connection established;                                   *)
(*   "panic"     an assert!/expect fired (the profiles abort on panic).    *)
(* The API operations run at "app" (called directly) or at "requests"      *)
(* (called by process_interface_requests for another thread).  Kernel and  *)
(* peer act at any time.  A connect or listen that fails with an I/O error *)
(* changes nothing and is a stuttering step.                               *)
(*                                                                         *)
(* Bytes are numbered per connection and direction, so that a lost,        *)
(* repeated or reordered byte shows.                                       *)
(***************************************************************************)
EXTENDS Integers, Sequences, FiniteSets, SequencesExt

CONSTANTS
  IdStart, MaxId,   \* CONNECTION_ID_RANGE_START and usize::MAX
  MaxSpurious,      \* max_spurious_wakeups
  PollCapacity,     \* poll_capacity
  MergedEvents,     \* TRUE: one event per socket (epoll); FALSE: one per
                    \* direction (kqueue)
  Usage,            \* what the application does, beyond the disciplined use
  Faults,           \* what the operating system may do wrong
  ReuseIds,         \* FALSE: stop allocating before the ids wrap around
  MaxBytes,         \* bound: bytes per connection and direction
  MaxSend,          \* bound: bytes per send call
  MaxRoom,          \* size of a socket's send buffer
  MaxBacklog        \* bound: connections waiting in a listener's backlog

ASSUME IdAssumption == /\ IdStart \in Nat /\ MaxId \in Nat
                       /\ IdStart < MaxId
ASSUME LimitAssumption == /\ MaxSpurious \in Nat /\ MaxRoom \in Nat \ {0}
                          /\ PollCapacity \in Nat \ {0}
                          /\ MaxBytes \in Nat /\ MaxSend \in Nat
                          /\ MaxBacklog \in Nat
ASSUME UsageAssumption ==
  /\ Usage \subseteq {"listen", "connect", "send", "multicast", "early_send",
                      "empty_send", "close", "shutdown"}
  /\ Faults \subseteq {"accept", "nodelay", "interrupt", "backlog_reset",
                       "refuse", "reset"}
  /\ MergedEvents \in BOOLEAN /\ ReuseIds \in BOOLEAN

Ids == IdStart..MaxId

VARIABLES
  connections,      \* HashMap<usize, Connection>: id -> record
  listeners,        \* HashMap<usize, TcpListener>: id -> streams waiting in
                    \* the kernel's backlog
  next_id, spurious_wakeups,
  pc, panic,        \* where the thread is, and which assertion killed it
  poll_events,      \* events of this poll() not yet handled
  cur,              \* the id whose event is being handled
  new_streams,      \* streams accepted and not yet registered
  disconnected_ids,
  dispatch_events,  \* events collected; at "app", not yet handled
  sock,             \* kernel: id -> socket
  ready,            \* kernel: ids on the selector's ready list
  peer,             \* the peer's half: "up", "fin" (closed) or "lost"
  view,             \* what the application knows of each id
  sent, wire, fed, got  \* byte histories, see ConnectionContract

\* Groups of variables that change together.
tables == <<connections, listeners, next_id>>
round == <<panic, poll_events, cur, new_streams, disconnected_ids>>
thread == <<pc, round>>
kernel == <<sock, ready, peer>>
histories == <<sent, wire, fed, got>>
app == <<view, histories>>
vars == <<tables, spurious_wakeups, thread, dispatch_events, kernel, app>>

RW == {"R", "W"}

-----------------------------------------------------------------------------
(* Small helpers.                                                          *)

Least(a, b) == IF a < b THEN a ELSE b

\* HashMap::new, HashMap::insert and HashMap::remove
EmptyMap == [i \in {} |-> {}]
With(f, i, v) == [j \in DOMAIN f \cup {i} |-> IF j = i THEN v ELSE f[j]]
Without(f, S) == Restrict(f, DOMAIN f \ S)

Used == DOMAIN connections \cup DOMAIN listeners

\* n bytes that continue the stream s.
NextBytes(s, n) == [k \in 1..n |-> Len(s) + k]

Inactive == [type |-> "Inactive"]
Connected(i) == [type |-> "Connected", id |-> i]
ConnectionFailed(i) == [type |-> "ConnectionFailed", id |-> i]
Disconnected(i) == [type |-> "Disconnected", id |-> i]
Data(i, d) == [type |-> "Data", id |-> i, data |-> d]

\* The events of one poll() carry a token and two flags.
PollEvent(i, r, w) == [id |-> i, readable |-> r, writable |-> w]

\* A Data event only if something was read.
DataIfAny(i, d) == IF d = <<>> THEN <<>> ELSE <<Data(i, d)>>

-----------------------------------------------------------------------------
(* The kernel's readiness.  A socket in "syn" is neither readable nor      *)
(* writable; in "err" (refused, reset, aborted) both, and the next system  *)
(* call on it reports the error.                                           *)

CanRead(i) ==
  \/ sock[i].phase = "err"
  \/ /\ sock[i].phase = "est"
     /\ sock[i].rx # <<>> \/ peer[i] = "fin" \/ sock[i].rdshut

CanWrite(i) ==
  \/ sock[i].phase = "err"
  \/ /\ sock[i].phase = "est"
     /\ sock[i].room > 0 \/ sock[i].wrshut

ReadReady(i) ==
  \/ i \in DOMAIN listeners /\ listeners[i] > 0
  \/ i \in DOMAIN sock /\ "R" \in sock[i].interest /\ CanRead(i)
WriteReady(i) ==
  i \in DOMAIN sock /\ "W" \in sock[i].interest /\ CanWrite(i)

\* The ids poll() can report now.
Reportable == {i \in ready : ReadReady(i) \/ WriteReady(i)}

EventsOf(i) ==
  IF MergedEvents
  THEN {PollEvent(i, ReadReady(i), WriteReady(i))}
  ELSE {e \in {PollEvent(i, TRUE, FALSE), PollEvent(i, FALSE, TRUE)} :
          (e.readable => ReadReady(i)) /\ (e.writable => WriteReady(i))}

-----------------------------------------------------------------------------
(* TcpTransport::new_named.                                                *)

Init ==
  /\ connections = EmptyMap /\ listeners = EmptyMap
  /\ next_id = IdStart
  /\ spurious_wakeups = 0
  /\ pc = "app" /\ panic = "none"
  /\ poll_events = {} /\ cur = IdStart /\ new_streams = 0
  /\ disconnected_ids = {} /\ dispatch_events = <<>>
  /\ sock = EmptyMap /\ ready = {}
  /\ peer = [i \in Ids |-> "up"]
  /\ view = [i \in Ids |-> "new"]
  /\ sent = [i \in Ids |-> <<>>] /\ wire = [i \in Ids |-> <<>>]
  /\ fed = [i \in Ids |-> <<>>] /\ got = [i \in Ids |-> <<>>]

-----------------------------------------------------------------------------
(* Shared steps of the operations.                                         *)

\* The ids that follow a and precede b in the cyclic order of the ids.
Between(a, b) ==
  IF a < b THEN (a + 1)..(b - 1) ELSE ((a + 1)..MaxId) \cup (IdStart..(b - 1))

\* Mutant: no test for ids in use.
advance_connection_id_NoSkip(used) ==
  next_id' = IF next_id = MaxId THEN IdStart ELSE next_id + 1

\* The loop of advance_connection_id stops at the first id that is free; with
\* no free id it never stops, and the step is disabled.
advance_connection_id(used) ==
  \E j \in Ids \ used : Between(next_id, j) \subseteq used /\ next_id' = j

\* Bound: without reuse the ids do not wrap around.  IdsLeft below keeps an id
\* for every stream that may still be accepted, so this never holds a step up.
NoWrap == ReuseIds \/ next_id < MaxId

\* The id next_id is given to a new socket: a fresh chapter for that number.
OpenSocket(conn, phase, v) ==
  /\ NoWrap
  /\ connections' = With(connections, next_id, conn)
  /\ sock' = With(sock, next_id,
                    [phase |-> phase, rx |-> <<>>, room |-> MaxRoom,
                     rdshut |-> FALSE, wrshut |-> FALSE,
                     interest |-> conn.interest])
  /\ peer' = [peer EXCEPT ![next_id] = "up"]
  /\ view' = [view EXCEPT ![next_id] = v]
  /\ sent' = [sent EXCEPT ![next_id] = <<>>]
  /\ wire' = [wire EXCEPT ![next_id] = <<>>]
  /\ fed' = [fed EXCEPT ![next_id] = <<>>]
  /\ got' = [got EXCEPT ![next_id] = <<>>]
  /\ advance_connection_id(Used \cup {next_id})

\* Deregister and drop the streams of the connections in S.
DropSockets(S) ==
  /\ connections' = Without(connections, S)
  /\ sock' = Without(sock, S)
  /\ ready' = ready \ (S \cap DOMAIN connections)

\* assert!(spurious_wakeups <= max_spurious_wakeups), else go on at next.
track_spurious_wakeup(is_spurious, next) ==
  LET count == IF is_spurious THEN spurious_wakeups + 1 ELSE 0 IN
  /\ spurious_wakeups' = count
  /\ IF count > MaxSpurious THEN pc' = "panic" /\ panic' = "spurious"
                            ELSE pc' = next /\ panic' = panic

Panic(reason) ==
  /\ pc' = "panic" /\ panic' = reason

-----------------------------------------------------------------------------
(* The operations of the application or of process_interface_requests.     *)

Api == pc \in {"app", "requests"}

\* Bound: streams not yet registered will need an id each.
Pending == SumFunction(listeners) + new_streams
IdsLeft ==
  IF ReuseIds THEN Cardinality(Used) + Pending + 1 < Cardinality(Ids)
              ELSE next_id + Pending < MaxId

\* Mutant: wait for the wrong readiness.
ConnectInterest_Readable == {"R"}

\* A connection in progress is only polled for WRITABLE.
ConnectInterest == {"W"}

connect ==
  /\ Api /\ "connect" \in Usage /\ IdsLeft
  /\ OpenSocket([connected |-> FALSE, interest |-> ConnectInterest,
               send_buf |-> <<>>], "syn", "connecting")
  /\ UNCHANGED <<listeners, spurious_wakeups, thread, dispatch_events, ready>>

listen ==
  /\ Api /\ "listen" \in Usage /\ IdsLeft /\ NoWrap
  /\ listeners' = With(listeners, next_id, 0)
  /\ advance_connection_id(Used \cup {next_id})
  /\ UNCHANGED <<connections, spurious_wakeups, thread, dispatch_events,
                 kernel, app>>

CloseConnections(S) ==
  /\ DropSockets(S)
  /\ view' = [i \in Ids |-> IF i \in S \cap DOMAIN connections
                            THEN "closed" ELSE view[i]]
  /\ UNCHANGED <<next_id, spurious_wakeups, thread, dispatch_events, peer,
                 histories>>

\* A close of an id the transport no longer holds only warns.  The
\* application forgets the id all the same.
close_connection(i) ==
  /\ Api /\ "close" \in Usage
  /\ view[i] \in {"connecting", "open"}
  /\ DropSockets({i})
  /\ view' = [view EXCEPT ![i] = "closed"]
  /\ UNCHANGED <<listeners, next_id, spurious_wakeups, thread, dispatch_events,
                 peer, histories>>

close_all_connections ==
  /\ Api /\ "close" \in Usage
  /\ CloseConnections(DOMAIN connections)
  /\ UNCHANGED listeners

CloseListeners(S) ==
  /\ listeners' = Without(listeners, S)
  /\ ready' = ready \ (S \cap DOMAIN listeners)
  /\ UNCHANGED <<connections, next_id, spurious_wakeups, thread,
                 dispatch_events, sock, peer, app>>

close_listener(i) ==
  /\ Api /\ "close" \in Usage /\ i \in DOMAIN listeners
  /\ CloseListeners({i})

close_all_listeners ==
  /\ Api /\ "close" \in Usage
  /\ CloseListeners(DOMAIN listeners)

close_all ==
  /\ Api /\ "close" \in Usage
  /\ listeners' = Without(listeners, DOMAIN listeners)
  /\ connections' = Without(connections, DOMAIN connections)
  /\ sock' = Without(sock, DOMAIN connections)
  /\ ready' = ready \ Used
  /\ view' = [i \in Ids |-> IF i \in DOMAIN connections
                            THEN "closed" ELSE view[i]]
  /\ UNCHANGED <<next_id, spurious_wakeups, thread, dispatch_events, peer,
                 histories>>

\* shutdown(2): a socket still connecting is aborted, an established one
\* reads end-of-file or refuses to write, a broken one reports ENOTCONN,
\* which is only logged.  The kernel wakes whoever polls the socket.
ShutdownSocket(s, how) ==
  [s EXCEPT !.phase = IF @ = "syn" THEN "err" ELSE @,
            !.rdshut = @ \/ (s.phase = "est" /\ how # "Write"),
            !.wrshut = @ \/ (s.phase = "est" /\ how # "Read")]

ShutdownConnections(S, how) ==
  /\ sock' = [i \in DOMAIN sock |-> IF i \in S THEN ShutdownSocket(sock[i], how)
                                               ELSE sock[i]]
  /\ ready' = ready \cup (S \cap DOMAIN sock)
  /\ peer' = [i \in Ids |->
                IF i \in S \cap DOMAIN sock
                   /\ (how # "Write" \/ sock[i].phase = "syn")
                THEN "lost" ELSE peer[i]]
  /\ UNCHANGED <<tables, spurious_wakeups, thread, dispatch_events, app>>

shutdown_connection(i, how) ==
  /\ Api /\ "shutdown" \in Usage /\ i \in DOMAIN connections
  /\ ShutdownConnections({i}, how)

shutdown_all_connections(how) ==
  /\ Api /\ "shutdown" \in Usage
  /\ ShutdownConnections(DOMAIN connections, how)

-----------------------------------------------------------------------------
(* Sending.                                                                *)

\* Mutant: the selector is never told.
Reregistered_None(T) == {}

\* The connections of T whose registration queue_data has to update.
Reregistered(T) == {i \in T : connections[i].interest # RW}

\* queue_data for each id of S: an id without a connection is skipped; the
\* data is appended, the interest becomes READABLE|WRITABLE, and the selector
\* is told when that is a change.
queue_data(S, n) ==
  LET T == S \cap DOMAIN connections
      changed == Reregistered(T)
  IN
  /\ connections' =
       [i \in DOMAIN connections |->
          IF i \in T
          THEN [connections[i] EXCEPT !.send_buf = @ \o NextBytes(sent[i], n),
                                      !.interest = RW]
          ELSE connections[i]]
  /\ sock' = [i \in DOMAIN sock |->
                IF i \in changed THEN [sock[i] EXCEPT !.interest = RW]
                                 ELSE sock[i]]
  /\ ready' = ready \cup changed
  /\ sent' = [i \in Ids |-> IF i \in T THEN sent[i] \o NextBytes(sent[i], n)
                                       ELSE sent[i]]

\* The disciplined application sends no empty buffer, and nothing over a
\* connection that is not yet established.
Sendable(S, n) ==
  /\ n > 0 \/ "empty_send" \in Usage
  /\ \A i \in S \cap DOMAIN connections :
       /\ Len(sent[i]) + n <= MaxBytes
       /\ connections[i].connected \/ "early_send" \in Usage

Send(S, n) ==
  /\ Api /\ Sendable(S, n)
  /\ queue_data(S, n)
  /\ UNCHANGED <<listeners, next_id, spurious_wakeups, thread, dispatch_events,
                 peer, view, wire, fed, got>>

send_to(i, n) == "send" \in Usage /\ Send({i}, n)

send_to_many(S, n) == "multicast" \in Usage /\ Send(S, n)

broadcast(n) ==
  "multicast" \in Usage /\ Send(DOMAIN connections, n)

broadcast_except(n, i) ==
  "multicast" \in Usage /\ Send(DOMAIN connections \ {i}, n)

broadcast_except_many(n, S) ==
  "multicast" \in Usage /\ Send(DOMAIN connections \ S, n)

-----------------------------------------------------------------------------
(* fetch_events.                                                           *)

\* What the application makes of an event.
ViewAfter == [Connected |-> "open", ConnectionFailed |-> "failed",
              Disconnected |-> "disconnected"]

\* The application handles the events it was given one by one.  Events about
\* an id it has closed meanwhile are stale and ignored.
AppHandlesEvent ==
  /\ pc = "app" /\ dispatch_events # <<>>
  /\ LET e == Head(dispatch_events)
         live == e.type # "Inactive" /\ view[e.id] # "closed"
     IN
     /\ view' = IF ~live \/ e.type = "Data" THEN view
                ELSE [view EXCEPT ![e.id] = ViewAfter[e.type]]
     /\ got' = IF live /\ e.type = "Data"
               THEN [got EXCEPT ![e.id] = @ \o e.data] ELSE got
  /\ dispatch_events' = Tail(dispatch_events)
  /\ UNCHANGED <<tables, spurious_wakeups, thread, kernel, sent, wire, fed>>

FetchEvents ==
  /\ pc = "app" /\ dispatch_events = <<>>
  /\ pc' = "requests"
  /\ UNCHANGED <<tables, spurious_wakeups, round, dispatch_events, kernel,
                 app>>

\* Nothing to do: report Inactive and return.
ReportInactive ==
  /\ pc = "requests" /\ Used = {}
  /\ dispatch_events' = <<Inactive>>
  /\ pc' = "app"
  /\ UNCHANGED <<tables, spurious_wakeups, round, kernel, app>>

\* poll() returns up to PollCapacity events; entries of the ready list that
\* are no longer ready are dropped by the kernel.
Poll ==
  /\ pc = "requests" /\ Used # {}
  /\ Reportable # {}
  /\ \E S \in SUBSET Reportable :
       /\ Cardinality(S) = Least(PollCapacity, Cardinality(Reportable))
       /\ poll_events' = UNION {EventsOf(i) : i \in S}
       /\ ready' = Reportable \ S
  /\ disconnected_ids' = {}
  /\ pc' = "events"
  /\ UNCHANGED <<tables, spurious_wakeups, panic, cur, new_streams,
                 dispatch_events, sock, peer, app>>

\* poll() fails (EINTR) and fetch_events returns the error.
PollFails ==
  /\ pc = "requests" /\ Used # {} /\ "interrupt" \in Faults
  /\ pc' = "app"
  /\ UNCHANGED <<tables, spurious_wakeups, round, dispatch_events, kernel,
                 app>>

\* The for loop is done: return the events, or go round the while loop again.
EventsDone ==
  /\ pc = "events" /\ poll_events = {}
  /\ pc' = IF dispatch_events = <<>> THEN "requests" ELSE "app"
  /\ UNCHANGED <<tables, spurious_wakeups, round, dispatch_events, kernel,
                 app>>

\* Mutant: the round does not remember whom it has disconnected.
MarkDisconnected_Not(i) == disconnected_ids' = disconnected_ids

MarkDisconnected(i) == disconnected_ids' = disconnected_ids \cup {i}

\* The event e is taken from the poll() result; the selector's order is
\* arbitrary.
Take(e) ==
  /\ pc = "events" /\ e \in poll_events
  /\ poll_events' = poll_events \ {e}
  /\ cur' = e.id

\* The branches of the if/else chain: a listener; an id disconnected earlier in
\* this round or unknown; a connection.
IsListener(e) == e.id \in DOMAIN listeners
IsConnection(e) ==
  /\ ~IsListener(e)
  /\ e.id \notin disconnected_ids /\ e.id \in DOMAIN connections

HandleListener(e) ==
  /\ Take(e) /\ IsListener(e)
  /\ pc' = "accept"
  /\ UNCHANGED <<tables, spurious_wakeups, panic, new_streams,
                 disconnected_ids, dispatch_events, kernel, app>>

\* continue, or assert!(self.connections.contains_key(&id))
SkipDisconnected(e) ==
  /\ Take(e) /\ ~IsListener(e) /\ ~IsConnection(e)
  /\ IF e.id \in disconnected_ids THEN UNCHANGED <<pc, panic>>
                                  ELSE Panic("unknown_id")
  /\ UNCHANGED <<tables, spurious_wakeups, new_streams, disconnected_ids,
                 dispatch_events, kernel, app>>

-----------------------------------------------------------------------------
(* accept_connections: first accept until it would block, then register.   *)

\* Mutant: one accept() per event, although the edge is reported once.
AcceptStream_Once ==
  /\ pc = "accept" /\ listeners[cur] > 0
  /\ listeners' = [listeners EXCEPT ![cur] = @ - 1]
  /\ new_streams' = 1 /\ pc' = "register"
  /\ UNCHANGED <<connections, next_id, spurious_wakeups, panic, poll_events,
                 cur, disconnected_ids, dispatch_events, kernel, app>>

AcceptStream ==
  /\ pc = "accept" /\ listeners[cur] > 0
  /\ listeners' = [listeners EXCEPT ![cur] = @ - 1]
  /\ new_streams' = new_streams + 1
  /\ UNCHANGED <<connections, next_id, spurious_wakeups, pc, panic,
                 poll_events, cur, disconnected_ids, dispatch_events, kernel,
                 app>>

\* An error return of accept_connections leaves fetch_events through its `?`:
\* the streams just accepted, the events collected so far and the rest of the
\* poll() result are dropped.
ReturnError ==
  /\ new_streams' = 0 /\ dispatch_events' = <<>> /\ poll_events' = {}
  /\ pc' = "app"
  /\ UNCHANGED <<connections, next_id, spurious_wakeups, panic, cur,
                 disconnected_ids, sock, peer, app>>

\* accept() fails for good: the listener is removed as well.
AcceptError ==
  /\ pc = "accept" /\ "accept" \in Faults
  /\ listeners' = Without(listeners, {cur})
  /\ ready' = ready \ {cur}
  /\ ReturnError

\* stream.set_nodelay(true)? fails for the stream just accepted.
NodelayError ==
  /\ pc = "accept" /\ "nodelay" \in Faults /\ listeners[cur] > 0
  /\ listeners' = [listeners EXCEPT ![cur] = @ - 1]
  /\ ReturnError
  /\ UNCHANGED ready

AcceptWouldBlock ==
  /\ pc = "accept" /\ listeners[cur] = 0
  /\ IF new_streams = 0
     THEN track_spurious_wakeup(TRUE, "events")
     ELSE pc' = "register" /\ UNCHANGED <<spurious_wakeups, panic>>
  /\ UNCHANGED <<tables, poll_events, cur, new_streams, disconnected_ids,
                 dispatch_events, kernel, app>>

\* One accepted stream becomes a connection; the last one ends the call.
RegisterStream ==
  /\ pc = "register"
  /\ OpenSocket([connected |-> TRUE, interest |-> {"R"}, send_buf |-> <<>>],
                "est", "new")
  /\ dispatch_events' = Append(dispatch_events, Connected(next_id))
  /\ new_streams' = new_streams - 1
  /\ IF new_streams = 1
     THEN track_spurious_wakeup(FALSE, "events")
     ELSE UNCHANGED <<spurious_wakeups, pc, panic>>
  /\ UNCHANGED <<listeners, poll_events, cur, disconnected_ids, ready>>

\* The peer has reset the connection while it sat in the backlog:
\* stream.peer_addr().expect(..) fails.
RegisterLostStream ==
  /\ pc = "register" /\ "backlog_reset" \in Faults
  /\ Panic("peer_addr")
  /\ UNCHANGED <<tables, spurious_wakeups, poll_events, cur, new_streams,
                 disconnected_ids, dispatch_events, kernel, app>>

-----------------------------------------------------------------------------
(* read_connection, called for a readable event.                           *)

\* assert!(conn.connected)
ReadUnconnected(e) ==
  /\ Take(e) /\ IsConnection(e) /\ e.readable
  /\ ~connections[e.id].connected
  /\ Panic("read_before_connected")
  /\ UNCHANGED <<tables, spurious_wakeups, new_streams, disconnected_ids,
                 dispatch_events, kernel, app>>

\* What the read loop meets once the data is drained: end of file or an error
\* (TRUE), or WouldBlock (FALSE).
ReadEnds(i) ==
  sock[i].phase = "err" \/ peer[i] = "fin" \/ sock[i].rdshut

\* Mutant: the end is reported before the last data.
LastEvents_EndFirst(i, d) == <<Disconnected(i)>> \o DataIfAny(i, d)

\* The data read before the end of the stream, then the end.
LastEvents(i, d) == DataIfAny(i, d) \o <<Disconnected(i)>>

ReadDisconnected(e) ==
  /\ Take(e) /\ IsConnection(e) /\ e.readable
  /\ connections[e.id].connected /\ ReadEnds(e.id)
  /\ DropSockets({e.id})
  /\ dispatch_events' = dispatch_events \o LastEvents(e.id, sock[e.id].rx)
  /\ MarkDisconnected(e.id)
  /\ UNCHANGED <<listeners, next_id, spurious_wakeups, pc, panic, new_streams,
                 peer, app>>

ReadData(e) ==
  /\ Take(e) /\ IsConnection(e) /\ e.readable
  /\ connections[e.id].connected /\ ~ReadEnds(e.id)
  /\ sock' = [sock EXCEPT ![e.id].rx = <<>>]
  /\ dispatch_events' = dispatch_events \o DataIfAny(e.id, sock[e.id].rx)
  /\ track_spurious_wakeup(sock[e.id].rx = <<>>,
                           IF e.writable THEN "write" ELSE "events")
  /\ UNCHANGED <<tables, new_streams, disconnected_ids, ready, peer, app>>

-----------------------------------------------------------------------------
(* write_connection, called for a writable event (after read_connection if *)
(* the event is readable too).                                             *)

HandleWritable(e) ==
  /\ Take(e) /\ IsConnection(e) /\ ~e.readable
  /\ pc' = "write"
  /\ UNCHANGED <<tables, spurious_wakeups, panic, new_streams,
                 disconnected_ids, dispatch_events, kernel, app>>

\* Mutant: the connection is removed and nobody is told.
GiveUp_Silent(event) ==
  /\ DropSockets({cur})
  /\ MarkDisconnected(cur)
  /\ pc' = "events"
  /\ UNCHANGED <<listeners, next_id, spurious_wakeups, panic, poll_events, cur,
                 new_streams, dispatch_events, app>>

\* The connection is removed and event is reported.
GiveUp(event) ==
  /\ DropSockets({cur})
  /\ dispatch_events' = Append(dispatch_events, event)
  /\ MarkDisconnected(cur)
  /\ pc' = "events"
  /\ UNCHANGED <<listeners, next_id, spurious_wakeups, panic, poll_events, cur,
                 new_streams, app>>

\* Mutant: a failed attempt is reported like a lost connection.
ConnectFailed_Disconnected ==
  /\ pc = "write" /\ ~connections[cur].connected /\ sock[cur].phase = "err"
  /\ GiveUp(Disconnected(cur))
  /\ UNCHANGED peer

\* take_error() tells how the connection attempt ended.
ConnectFailed ==
  /\ pc = "write" /\ ~connections[cur].connected /\ sock[cur].phase = "err"
  /\ GiveUp(ConnectionFailed(cur))
  /\ UNCHANGED peer

ConnectEstablished ==
  /\ pc = "write" /\ ~connections[cur].connected /\ sock[cur].phase # "err"
  /\ connections' = [connections EXCEPT ![cur].connected = TRUE]
  /\ pc' = "flush_new"
  /\ UNCHANGED <<listeners, next_id, spurious_wakeups, round, dispatch_events,
                 kernel, app>>

\* write() fails: reset, or shut down for writing.
WriteError(i) == sock[i].phase = "err" \/ sock[i].wrshut

\* The connection was established before this call, or by it.
Flushing == pc \in {"write", "flush_new"} /\ connections[cur].connected

WriteFails ==
  /\ Flushing
  /\ connections[cur].send_buf # <<>> /\ WriteError(cur)
  /\ GiveUp(Disconnected(cur))
  /\ peer' = [peer EXCEPT ![cur] = "lost"]

\* Mutants: a partial write empties the buffer; the interest never falls back
\* to READABLE.
Unsent_None(buf, n) == <<>>
InterestAfterWrite_Kept(rest, old) == old

\* send_buf.drain(..send_pos)
Unsent(buf, n) == SubSeq(buf, n + 1, Len(buf))

\* READABLE when nothing is left; a call that found the connection established
\* has set both; otherwise as before.
InterestAfterWrite(rest, old) ==
  IF rest = <<>> THEN {"R"} ELSE IF pc = "flush_new" THEN RW ELSE old

\* The write loop: as much as the kernel takes.  The selector is told when
\* the interest differs from what it was on entry.
WriteData ==
  /\ Flushing
  /\ connections[cur].send_buf = <<>> \/ ~WriteError(cur)
  /\ LET conn == connections[cur]
         n == Least(sock[cur].room, Len(conn.send_buf))
         rest == Unsent(conn.send_buf, n)
         interest == InterestAfterWrite(rest, conn.interest)
         changed == interest # conn.interest
     IN
     /\ connections' = [connections EXCEPT ![cur].send_buf = rest,
                                           ![cur].interest = interest]
     /\ sock' = [sock EXCEPT ![cur].room = @ - n,
                             ![cur].interest = IF changed THEN interest ELSE @]
     /\ ready' = IF changed THEN ready \cup {cur} ELSE ready
     /\ wire' = [wire EXCEPT ![cur] = @ \o SubSeq(conn.send_buf, 1, n)]
     /\ IF pc = "flush_new"
        THEN /\ dispatch_events' = Append(dispatch_events, Connected(cur))
             /\ pc' = "events"
             /\ UNCHANGED <<spurious_wakeups, panic>>
        ELSE /\ track_spurious_wakeup(n = 0, "events")
             /\ UNCHANGED dispatch_events
  /\ UNCHANGED <<listeners, next_id, poll_events, cur, new_streams,
                 disconnected_ids, peer, view, sent, fed, got>>

-----------------------------------------------------------------------------
(* The kernel and the peers.                                               *)

KernelStep ==
  /\ pc # "panic"
  /\ UNCHANGED <<connections, next_id, spurious_wakeups, thread, dispatch_events,
                 view>>

ConnectCompletes(i) ==
  /\ i \in DOMAIN sock /\ sock[i].phase = "syn"
  /\ sock' = [sock EXCEPT ![i].phase = "est"]
  /\ ready' = ready \cup {i}
  /\ KernelStep /\ UNCHANGED <<listeners, peer, histories>>

ConnectRefused(i) ==
  /\ "refuse" \in Faults
  /\ i \in DOMAIN sock /\ sock[i].phase = "syn"
  /\ sock' = [sock EXCEPT ![i].phase = "err"]
  /\ ready' = ready \cup {i}
  /\ peer' = [peer EXCEPT ![i] = "lost"]
  /\ KernelStep /\ UNCHANGED <<listeners, histories>>

PeerConnects(i) ==
  /\ i \in DOMAIN listeners /\ listeners[i] < MaxBacklog /\ IdsLeft
  /\ listeners' = [listeners EXCEPT ![i] = @ + 1]
  /\ ready' = ready \cup {i}
  /\ KernelStep /\ UNCHANGED <<sock, peer, histories>>

PeerWrites(i) ==
  /\ i \in DOMAIN sock /\ sock[i].phase = "est" /\ peer[i] = "up"
  /\ Len(fed[i]) < MaxBytes
  /\ sock' = [sock EXCEPT ![i].rx = @ \o NextBytes(fed[i], 1)]
  /\ fed' = [fed EXCEPT ![i] = @ \o NextBytes(fed[i], 1)]
  /\ ready' = ready \cup {i}
  /\ KernelStep /\ UNCHANGED <<listeners, peer, sent, wire, got>>

PeerCloses(i) ==
  /\ i \in DOMAIN sock /\ sock[i].phase = "est" /\ peer[i] = "up"
  /\ peer' = [peer EXCEPT ![i] = "fin"]
  /\ ready' = ready \cup {i}
  /\ KernelStep /\ UNCHANGED <<listeners, sock, histories>>

PeerResets(i) ==
  /\ "reset" \in Faults
  /\ i \in DOMAIN sock /\ sock[i].phase = "est"
  /\ sock' = [sock EXCEPT ![i].phase = "err"]
  /\ peer' = [peer EXCEPT ![i] = "lost"]
  /\ ready' = ready \cup {i}
  /\ KernelStep /\ UNCHANGED <<listeners, histories>>

\* The peer acknowledges a byte: room in the socket's send buffer.
RoomFreed(i) ==
  /\ i \in DOMAIN sock /\ sock[i].phase = "est" /\ sock[i].room < MaxRoom
  /\ sock' = [sock EXCEPT ![i].room = @ + 1]
  /\ ready' = ready \cup {i}
  /\ KernelStep /\ UNCHANGED <<listeners, peer, histories>>

-----------------------------------------------------------------------------

Operations ==
  \/ connect \/ listen
  \/ \E i \in Ids : close_connection(i) \/ close_listener(i)
  \/ close_all_connections \/ close_all_listeners \/ close_all
  \/ \E how \in {"Read", "Write", "Both"} :
       \/ \E i \in Ids : shutdown_connection(i, how)
       \/ shutdown_all_connections(how)
  \/ \E n \in 0..MaxSend :
       \/ \E i \in Ids : send_to(i, n) \/ broadcast_except(n, i)
       \/ \E S \in SUBSET Ids : send_to_many(S, n) \/ broadcast_except_many(n, S)
       \/ broadcast(n)

HandleEvent ==
  \E e \in poll_events :
    \/ HandleListener(e) \/ SkipDisconnected(e)
    \/ ReadUnconnected(e) \/ ReadDisconnected(e) \/ ReadData(e)
    \/ HandleWritable(e)

Accept ==
  \/ AcceptStream \/ AcceptError \/ NodelayError \/ AcceptWouldBlock
  \/ RegisterStream \/ RegisterLostStream

Write ==
  \/ ConnectFailed \/ ConnectEstablished
  \/ WriteFails \/ WriteData

\* One step of fetch_events, once called.
Loop ==
  ReportInactive \/ Poll \/ PollFails \/ EventsDone
  \/ HandleEvent \/ Accept \/ Write

Kernel ==
  \E i \in Ids :
    \/ ConnectCompletes(i) \/ ConnectRefused(i) \/ PeerConnects(i)
    \/ PeerWrites(i) \/ PeerCloses(i) \/ PeerResets(i) \/ RoomFreed(i)

Next ==
  Operations \/ AppHandlesEvent \/ FetchEvents \/ Loop \/ Kernel

Spec == Init /\ [][Next]_vars

-----------------------------------------------------------------------------
(* Properties.                                                             *)

\* A connection is over for the application: it closed it, or was told.
Ended == {"closed", "failed", "disconnected"}

ConnectionRecords ==
  [connected : BOOLEAN, interest : SUBSET RW, send_buf : Seq(Nat)]
SocketRecords ==
  [phase : {"syn", "est", "err"}, rx : Seq(Nat), room : Nat,
   rdshut : BOOLEAN, wrshut : BOOLEAN, interest : SUBSET RW]
EventRecords ==
  [type : {"Inactive"}]
    \cup [type : {"Connected", "ConnectionFailed", "Disconnected"}, id : Ids]
    \cup [type : {"Data"}, id : Ids, data : Seq(Nat)]

\* Every variable keeps its type: next_id stays in the range
\* advance_connection_id wraps around in, counts never go below zero, and events
\* name ids of the range.
TypeOK ==
  /\ DOMAIN connections \subseteq Ids
  /\ \A i \in DOMAIN connections : connections[i] \in ConnectionRecords
  /\ DOMAIN listeners \subseteq Ids
  /\ \A i \in DOMAIN listeners : listeners[i] \in Nat
  /\ DOMAIN sock \subseteq Ids
  /\ \A i \in DOMAIN sock : sock[i] \in SocketRecords
  /\ next_id \in Ids /\ spurious_wakeups \in Nat
  /\ pc \in {"app", "requests", "events", "accept", "register", "write",
             "flush_new", "panic"}
  /\ panic \in {"none", "spurious", "unknown_id", "read_before_connected",
                "peer_addr"}
  /\ poll_events \subseteq [id : Ids, readable : BOOLEAN, writable : BOOLEAN]
  /\ cur \in Ids /\ new_streams \in Nat /\ disconnected_ids \subseteq Ids
  /\ dispatch_events \in Seq(EventRecords)
  /\ ready \subseteq Ids
  /\ peer \in [Ids -> {"up", "fin", "lost"}]
  /\ view \in [Ids -> {"new", "connecting", "open"} \cup Ended]
  /\ sent \in [Ids -> Seq(Nat)] /\ wire \in [Ids -> Seq(Nat)]
  /\ fed \in [Ids -> Seq(Nat)] /\ got \in [Ids -> Seq(Nat)]

\* Used as it is meant to be (nothing is sent over a connection that is not
\* established, no empty buffer, no connection reset in the backlog), the
\* transport never trips one of its own assertions: not the lookups in
\* fetch_events, not read_connection's assert!(conn.connected), not the
\* spurious-wakeup limit.
NoPanic == panic = "none"

\* Every event poll() returned that is still to be handled names a listener, a
\* live connection or an id disconnected in this very round: the question left
\* open by the comment on disconnected_ids.
PendingEventsKnown ==
  \A e \in poll_events : e.id \in Used \cup disconnected_ids

\* advance_connection_id: an id never names two sockets at a time, and the next
\* one to be handed out is free, also after the ids wrapped around.
IdsDistinct ==
  /\ DOMAIN connections \cap DOMAIN listeners = {}
  /\ next_id \notin Used

\* The interest the transport remembers is the interest registered with the
\* selector, for exactly the sockets it holds, and covers WRITABLE as long as
\* there is something to write.
InterestRegistered ==
  /\ DOMAIN sock = DOMAIN connections
  /\ \A i \in DOMAIN connections :
       /\ connections[i].interest = sock[i].interest
       /\ connections[i].send_buf # <<>> => "W" \in connections[i].interest

\* What was queued on a connection is what reached the kernel followed by what
\* is still in send_buf, byte for byte.
OutgoingIntact ==
  \A i \in DOMAIN connections : sent[i] = wire[i] \o connections[i].send_buf

\* The bytes of the Data events for id i still to be handled.
Undelivered(i) ==
  FlattenSeq([k \in 1..Len(dispatch_events) |->
                IF dispatch_events[k].type = "Data" /\ dispatch_events[k].id = i
                THEN dispatch_events[k].data ELSE <<>>])

\* Whatever the peer of a live connection wrote has been handed to the
\* application, waits in the events being collected, or is still in the kernel.
IncomingIntact ==
  \A i \in DOMAIN connections :
    fed[i] = got[i] \o Undelivered(i) \o sock[i].rx

Reported(i, types) ==
  \E k \in 1..Len(dispatch_events) :
    dispatch_events[k].type \in types /\ dispatch_events[k].id = i

\* The application and the transport agree on which connections exist: one the
\* application believes in is alive or its end is about to be reported, and one
\* it has not heard of is about to be announced.
NoSilentLoss ==
  pc # "panic" =>
    \A i \in Ids :
      /\ view[i] \in {"connecting", "open"} /\ i \notin DOMAIN connections
           => Reported(i, {"Disconnected", "ConnectionFailed"})
      /\ view[i] = "new" /\ i \in DOMAIN connections
           => Reported(i, {"Connected"})

\* Each id obeys the documented life cycle, and its two byte streams are
\* reliable.
Contract == INSTANCE ConnectionContract

KeepsContract == Contract!Spec

-----------------------------------------------------------------------------
(* Liveness.  The application keeps handling events and calling            *)
(* fetch_events, as every example's main loop does; the thread of the loop *)
(* runs; poll() reports what is ready; the network answers a connection    *)
(* attempt and drains a socket's send buffer in the end.                   *)

Fairness ==
  /\ WF_vars(AppHandlesEvent \/ FetchEvents)
  /\ WF_vars(Loop)
  /\ \A i \in Ids : /\ WF_vars(ConnectCompletes(i) \/ ConnectRefused(i))
                    /\ WF_vars(RoomFreed(i))

FairSpec == Spec /\ Fairness

\* connect() is answered: Connected, ConnectionFailed, or the application
\* closed the connection itself.
ConnectAnswered ==
  \A i \in Ids : view[i] = "connecting" ~> view[i] # "connecting"

\* Every byte the peer writes reaches the application in a Data event, unless
\* the connection ends first.
DataDelivered ==
  \A i \in Ids, n \in 1..MaxBytes :
    Len(fed[i]) >= n ~> Len(got[i]) >= n \/ view[i] \in Ended

\* Every byte queued by send_to or broadcast is written to the socket, unless
\* the connection ends first: the WRITABLE interest is never given up early.
DataWritten ==
  \A i \in Ids, n \in 1..MaxBytes :
    Len(sent[i]) >= n ~> Len(wire[i]) >= n \/ view[i] \in Ended

\* A peer that closes, refuses or resets is noticed: the application hears
\* Disconnected or ConnectionFailed (or has closed the connection itself).
EndNoticed ==
  \A i \in Ids :
    peer[i] # "up" /\ i \in DOMAIN connections ~> view[i] \in Ended

\* No connection is left waiting in a listener's backlog.
BacklogAccepted ==
  \A i \in Ids : i \in DOMAIN listeners /\ listeners[i] > 0
                   ~> i \notin DOMAIN listeners \/ listeners[i] = 0

=============================================================================
