---------------------------- MODULE TlsTransport ----------------------------
(***************************************************************************)
(* The TLS transport (src/transport/tls.rs).  Its event loop, tables,      *)
(* listeners and socket calls are those of the TCP transport, taken from   *)
(* TcpTransport (instance Tcp) with the same variables; what differs is    *)
(* the connection: a rustls session between socket and application, three  *)
(* states instead of two, and other read and write loops.                  *)
(*                                                                         *)
(* The session (external) is tls[i]: the role played here, the number of   *)
(* handshake flights it has sent or received (1 ClientHello, 2 the         *)
(* server's flight, 3 the client's Finished), what it wants to write, and  *)
(* how far the peer has come (far).  Sockets carry units instead of bytes: *)
(*   hs     the end of handshake flight n;                                 *)
(*   data   the end of a record with the byte n of plaintext;              *)
(*   empty  input that yields no plaintext: the first part of a long       *)
(*          record or flight, a session ticket, a close_notify;            *)
(*   bad    an alert or a record that does not decrypt.                    *)
(***************************************************************************)
EXTENDS Integers, Sequences, FiniteSets, SequencesExt

CONSTANTS
  IdStart, MaxId, MaxSpurious, PollCapacity, MergedEvents, Usage, Faults,
  ReuseIds, MaxBytes, MaxSend, MaxRoom, MaxBacklog,  \* see TcpTransport
  Handshake,    \* what peers do beyond a plain handshake
  ReadSize,     \* units one read_tls() takes from the socket
  MaxRead,      \* max_read_size: plaintext one reader().read() returns
  SessionRoom,  \* units rustls buffers for writing
  Parts         \* numbers of units a record or flight from the peer may have

ASSUME TlsIdAssumption ==
  IdStart \in Nat /\ MaxId \in Nat /\ IdStart < MaxId
ASSUME TlsLimitAssumption ==
  /\ MaxSpurious \in Nat /\ MaxRoom \in Nat \ {0}
  /\ PollCapacity \in Nat \ {0}
  /\ MaxBytes \in Nat /\ MaxSend \in Nat /\ MaxBacklog \in Nat
  /\ ReadSize \in Nat \ {0} /\ MaxRead \in Nat \ {0}
  /\ SessionRoom \in Nat \ {0} /\ Parts \subseteq Nat \ {0}
ASSUME TlsUsageAssumption ==
  /\ Handshake \subseteq {"reject", "abandon", "ticket", "notify"}
  /\ MergedEvents \in BOOLEAN /\ ReuseIds \in BOOLEAN

Ids == IdStart..MaxId

VARIABLES
  connections, listeners, next_id, spurious_wakeups, pc, panic, poll_events,
  cur, new_streams, disconnected_ids, dispatch_events, sock, ready, peer,
  view, sent, wire, fed, got,  \* as in TcpTransport
  tls,                         \* the rustls session of each connection
  failed                       \* history: accept_connections has returned Err

Tcp == INSTANCE TcpTransport

\* Groups of variables that change together.
tables == <<connections, listeners, next_id>>
round == <<panic, poll_events, cur, new_streams, disconnected_ids>>
thread == <<pc, round>>
kernel == <<sock, ready, peer>>
app == <<view, sent, wire, fed, got>>
state == <<tables, spurious_wakeups, thread, dispatch_events, kernel, app, tls>>
vars == <<state, failed>>

-----------------------------------------------------------------------------
(* Units and sessions (rustls).                                            *)

Unit(kind, n) == [kind |-> kind, n |-> n]
DataUnits(bytes) == [k \in 1..Len(bytes) |-> Unit("data", bytes[k])]

IsData(u) == u.kind = "data"

\* The plaintext in a sequence of units.
DataOf(units) ==
  LET plain[k \in 0..Len(units)] ==
        IF k = 0 THEN <<>>
        ELSE plain[k - 1] \o IF IsData(units[k]) THEN <<units[k].n>> ELSE <<>>
  IN plain[Len(units)]

\* A record or flight of p units: the last one, u, makes it complete.
Fragments(u, p) == [k \in 1..p |-> IF k = p THEN u ELSE Unit("empty", 0)]

\* A client starts with its hello, a server waits for one.
ClientSession ==
  [role |-> "client", flights |-> 1, out |-> <<Unit("hs", 1)>>, far |-> 0]
ServerSession == [role |-> "server", flights |-> 0, out |-> <<>>, far |-> 0]

is_handshaking(s) == s.flights < 3
wants_write(s) == s.out # <<>>

\* process_new_packets() on one unit: a flight is answered by the next one, the
\* last by a session ticket.
Process(s, u) ==
  CASE u.kind # "hs" -> s
    [] u.kind = "hs" /\ u.n < 3 ->
         [s EXCEPT !.flights = u.n + 1, !.out = Append(@, Unit("hs", u.n + 1))]
    [] OTHER -> [s EXCEPT !.flights = 3, !.out = Append(@, Unit("empty", 0))]

ProcessAll(s, units) ==
  LET after[k \in 0..Len(units)] ==
        IF k = 0 THEN s ELSE Process(after[k - 1], units[k])
  IN after[Len(units)]

\* The peer has received these units: it is as far as the last flight in them.
Advance(far, units) ==
  LET flights == {k \in 1..Len(units) : units[k].kind = "hs"}
  IN IF flights = {} THEN far ELSE units[Max(flights)].n

-----------------------------------------------------------------------------
(* TlsTransport::new_named, with both TLS configurations loaded.           *)

Init == Tcp!Init /\ tls = Tcp!EmptyMap /\ failed = FALSE

-----------------------------------------------------------------------------
(* The operations.  Without its TLS configuration connect or listen fails  *)
(* and changes nothing.                                                    *)

connect ==
  /\ Tcp!Api /\ "connect" \in Usage /\ Tcp!IdsLeft
  /\ Tcp!OpenSocket([connected |-> "NotConnected", interest |-> {"W"},
                     send_buf |-> <<>>], "syn", "connecting")
  /\ tls' = Tcp!With(tls, next_id, ClientSession)
  /\ UNCHANGED <<listeners, spurious_wakeups, thread, dispatch_events,
                 ready>>

listen == Tcp!listen /\ UNCHANGED tls

close_connection(i) ==
  Tcp!close_connection(i) /\ tls' = Tcp!Without(tls, {i})

close_all_connections == Tcp!close_all_connections /\ tls' = Tcp!EmptyMap

close_listener(i) == Tcp!close_listener(i) /\ UNCHANGED tls

close_all_listeners == Tcp!close_all_listeners /\ UNCHANGED tls

close_all == Tcp!close_all /\ tls' = Tcp!EmptyMap

\* The socket is shut down, the session is not told.
shutdown_connection(i, how) == Tcp!shutdown_connection(i, how) /\ UNCHANGED tls

shutdown_all_connections(how) ==
  Tcp!shutdown_all_connections(how) /\ UNCHANGED tls

\* Mutant: the selector is not told about the new interest.
Reregistered_None(T) == {}

\* The connections of T whose registration queue_data has to update.
Reregistered(T) == {i \in T : "W" \notin connections[i].interest}

\* queue_data for each id of S.  WRITABLE is added to the interest: unlike with
\* TCP, a connection being established does not become READABLE.
queue_data(S, n) ==
  LET T == S \cap DOMAIN connections
      changed == Reregistered(T)
  IN
  /\ connections' =
       [i \in DOMAIN connections |->
          IF i \in T
          THEN [connections[i] EXCEPT
                  !.send_buf = @ \o Tcp!NextBytes(sent[i], n),
                  !.interest = @ \cup {"W"}]
          ELSE connections[i]]
  /\ sock' = [i \in DOMAIN sock |->
                IF i \in changed THEN [sock[i] EXCEPT !.interest = @ \cup {"W"}]
                                 ELSE sock[i]]
  /\ ready' = ready \cup changed
  /\ sent' = [i \in Ids |-> IF i \in T
                            THEN sent[i] \o Tcp!NextBytes(sent[i], n)
                            ELSE sent[i]]

Send(S, n) ==
  /\ Tcp!Api
  /\ n > 0 \/ "empty_send" \in Usage
  /\ \A i \in S \cap DOMAIN connections : Len(sent[i]) + n <= MaxBytes
  /\ queue_data(S, n)
  /\ UNCHANGED <<listeners, next_id, spurious_wakeups, thread,
                 dispatch_events, peer, view, wire, fed, got, tls>>

\* The ids an application names: those it knows as established, or also those
\* it has asked to connect to.
Addressable(S) ==
  \A i \in S : view[i] # "new" /\ (view[i] # "connecting" \/ "early_send" \in Usage)

send_to(i, n) == "send" \in Usage /\ Addressable({i}) /\ Send({i}, n)

send_to_many(S, n) == "multicast" \in Usage /\ Addressable(S) /\ Send(S, n)

\* A broadcast goes to every connection of the table, in the handshake or not.
broadcast(n) == "multicast" \in Usage /\ Send(DOMAIN connections, n)

broadcast_except(n, i) ==
  "multicast" \in Usage /\ Send(DOMAIN connections \ {i}, n)

broadcast_except_many(n, S) ==
  "multicast" \in Usage /\ Send(DOMAIN connections \ S, n)

-----------------------------------------------------------------------------
(* fetch_events and accept_connections.                                    *)

AppHandlesEvent == Tcp!AppHandlesEvent /\ UNCHANGED tls
FetchEvents == Tcp!FetchEvents /\ UNCHANGED tls
ReportInactive == Tcp!ReportInactive /\ UNCHANGED tls
Poll == Tcp!Poll /\ UNCHANGED tls
PollFails == Tcp!PollFails /\ UNCHANGED tls
EventsDone == Tcp!EventsDone /\ UNCHANGED tls
HandleListener(e) == Tcp!HandleListener(e) /\ UNCHANGED tls
HandleWritable(e) == Tcp!HandleWritable(e) /\ UNCHANGED tls

\* continue, or assert!(self.connections.contains_key(&id))
SkipDisconnected(e) == Tcp!SkipDisconnected(e) /\ UNCHANGED tls

AcceptStream == Tcp!AcceptStream /\ UNCHANGED tls
AcceptError == Tcp!AcceptError /\ UNCHANGED tls
NodelayError == Tcp!NodelayError /\ UNCHANGED tls
AcceptWouldBlock == Tcp!AcceptWouldBlock /\ UNCHANGED tls
RegisterLostStream == Tcp!RegisterLostStream /\ UNCHANGED tls

\* Mutant: the state is that of a TCP connection just accepted.
AcceptedStatus_Done == "TlsConnected"

AcceptedStatus == "TcpConnected"

\* An accepted stream becomes a connection in its handshake; nothing is
\* reported yet.  ServerConnection::new does not fail with a configuration that
\* has been built.
RegisterStream ==
  /\ pc = "register"
  /\ Tcp!OpenSocket([connected |-> AcceptedStatus, interest |-> {"R"},
                     send_buf |-> <<>>], "est", "new")
  /\ tls' = Tcp!With(tls, next_id, ServerSession)
  /\ new_streams' = new_streams - 1
  /\ IF new_streams = 1
     THEN Tcp!track_spurious_wakeup(FALSE, "events")
     ELSE UNCHANGED <<spurious_wakeups, pc, panic>>
  /\ UNCHANGED <<listeners, poll_events, cur, disconnected_ids, ready,
                 dispatch_events>>

-----------------------------------------------------------------------------
(* What reading and writing share.                                         *)

\* READABLE; WRITABLE too while the session wants to write or, once the
\* handshake is over, while there is data queued.
InterestOf(status, s, buf) ==
  {"R"} \cup IF wants_write(s) \/ (status = "TlsConnected" /\ buf # <<>>)
             THEN {"W"} ELSE {}

\* Mutant: the end of the handshake is not noticed here.
StatusOf_Same(conn, s) == conn.connected

\* A connection whose handshake is over is TlsConnected from now on.
StatusOf(conn, s) ==
  IF is_handshaking(s) THEN conn.connected ELSE "TlsConnected"

\* Mutant: a session with something left to write is not announced.
ConnectedIfNew_Idle(i, conn, s) ==
  IF conn.connected = "TcpConnected" /\ ~is_handshaking(s) /\ ~wants_write(s)
  THEN <<Tcp!Connected(i)>> ELSE <<>>

\* Connected is reported by the call that finds the handshake over.
ConnectedIfNew(i, conn, s) ==
  IF conn.connected = "TcpConnected" /\ ~is_handshaking(s)
  THEN <<Tcp!Connected(i)>> ELSE <<>>

\* Mutant: old_interest is taken after the change, and the selector is not told.
Settle_ComparesLate(i, s, buf, k) ==
  LET status == StatusOf(connections[i], s) IN
  /\ connections' = [connections EXCEPT
                       ![i] = [connected |-> status, send_buf |-> buf,
                               interest |-> InterestOf(status, s, buf)]]
  /\ tls' = [tls EXCEPT ![i] = s]
  /\ sock' = [sock EXCEPT ![i] = k]
  /\ ready' = ready

\* The end of both calls: session s, send buffer buf and socket k of
\* connection i; state and interest are brought up to date, and the selector is
\* told when the interest has changed.
Settle(i, s, buf, k) ==
  LET conn == connections[i]
      status == StatusOf(conn, s)
      interest == InterestOf(status, s, buf)
      changed == interest # conn.interest
  IN
  /\ connections' = [connections EXCEPT
                       ![i] = [connected |-> status, interest |-> interest,
                               send_buf |-> buf]]
  /\ tls' = [tls EXCEPT ![i] = s]
  /\ sock' = [sock EXCEPT
                ![i] = [k EXCEPT !.interest = IF changed THEN interest ELSE @]]
  /\ ready' = IF changed THEN ready \cup {i} ELSE ready

\* Mutant: the round does not remember whom it has disconnected.
MarkDisconnected_Not(i) == disconnected_ids' = disconnected_ids

MarkDisconnected(i) == disconnected_ids' = disconnected_ids \cup {i}

DropConnection(i) == Tcp!DropSockets({i}) /\ tls' = Tcp!Without(tls, {i})

-----------------------------------------------------------------------------
(* read_connection.                                                        *)

\* The loop, from the state with p units read from the socket and d bytes
\* handed out: read_tls, process_new_packets, reader().read.  It ends at the
\* end of the stream, at an error, or when a turn yields no plaintext, whether
\* or not the socket is drained.
ReadLoop(i) ==
  LET rx == sock[i].rx
      loop[at \in (0..Len(rx)) \X (0..Len(rx))] ==
        LET p == at[1]
            d == at[2]
            q == Tcp!Least(p + ReadSize, Len(rx))
            chunk == SubSeq(rx, p + 1, q)
            n == Tcp!Least(MaxRead, Len(DataOf(SubSeq(rx, 1, q))) - d)
        IN
        IF \/ p = Len(rx) /\ Tcp!ReadEnds(i)
           \/ \E k \in 1..Len(chunk) : chunk[k].kind = "bad"
        THEN [units |-> p, bytes |-> d, disconnect |-> TRUE]
        ELSE IF n <= 0 THEN [units |-> q, bytes |-> d, disconnect |-> FALSE]
                       ELSE loop[<<q, d + n>>]
  IN loop[<<0, 0>>]

\* Mutant: the plaintext of the last turn is not handed out.
Received_DropsLast(i, r) ==
  SubSeq(DataOf(sock[i].rx), 1, IF r.bytes > 0 THEN r.bytes - 1 ELSE 0)

\* recv_buf after the loop r
Received(i, r) == SubSeq(DataOf(sock[i].rx), 1, r.bytes)

\* The session after the loop r
SessionAfter(i, r) == ProcessAll(tls[i], SubSeq(sock[i].rx, 1, r.units))

\* assert_ne!(conn.connected, NotConnected), and assert!(recv_buf.is_empty())
\* for a handshake that has failed or goes on.
ReadAsserts(i, r) ==
  /\ connections[i].connected # "NotConnected"
  /\ r.bytes > 0 => \/ connections[i].connected = "TlsConnected"
                    \/ ~r.disconnect /\ ~is_handshaking(SessionAfter(i, r))

ReadConnection(e) == Tcp!Take(e) /\ Tcp!IsConnection(e) /\ e.readable

\* A disconnect in the handshake: the connection is removed and Ok is returned,
\* so that nothing is reported, the id is not marked as disconnected and
\* write_connection is still called for an event that is writable as well.
HandshakeFails(e) ==
  /\ ReadConnection(e) /\ connections[e.id].connected # "TlsConnected"
  /\ ReadLoop(e.id).disconnect
  /\ DropConnection(e.id)
  /\ IF ReadAsserts(e.id, ReadLoop(e.id))
     THEN pc' = (IF e.writable THEN "write" ELSE "events") /\ panic' = panic
     ELSE Tcp!Panic("read_assertion")
  /\ UNCHANGED <<listeners, next_id, spurious_wakeups, new_streams,
                 disconnected_ids, dispatch_events, peer, app>>

\* Mutant: the end is reported before the last data.
LastEvents_EndFirst(i, d) == <<Tcp!Disconnected(i)>> \o Tcp!DataIfAny(i, d)

\* The data read before the end of the stream, then the end.
LastEvents(i, d) == Tcp!DataIfAny(i, d) \o <<Tcp!Disconnected(i)>>

\* Mutant: the writable half of the event is handled after the end.
ReadDisconnected_Writes(e) ==
  /\ ReadConnection(e) /\ connections[e.id].connected = "TlsConnected"
  /\ ReadLoop(e.id).disconnect
  /\ DropConnection(e.id)
  /\ dispatch_events' =
       dispatch_events \o LastEvents(e.id, Received(e.id, ReadLoop(e.id)))
  /\ MarkDisconnected(e.id)
  /\ pc' = IF e.writable THEN "write" ELSE "events"
  /\ UNCHANGED <<listeners, next_id, spurious_wakeups, panic, new_streams,
                 peer, app>>

ReadDisconnected(e) ==
  /\ ReadConnection(e) /\ connections[e.id].connected = "TlsConnected"
  /\ ReadLoop(e.id).disconnect
  /\ DropConnection(e.id)
  /\ dispatch_events' =
       dispatch_events \o LastEvents(e.id, Received(e.id, ReadLoop(e.id)))
  /\ MarkDisconnected(e.id)
  /\ UNCHANGED <<listeners, next_id, spurious_wakeups, pc, panic, new_streams,
                 peer, app>>

\* The data of the round in which the handshake ends comes before Connected.
ReadData(e) ==
  /\ ReadConnection(e) /\ ~ReadLoop(e.id).disconnect
  /\ LET i == e.id
         r == ReadLoop(i)
         s == SessionAfter(i, r)
     IN
     /\ Settle(i, s, connections[i].send_buf,
               [sock[i] EXCEPT !.rx = SubSeq(@, r.units + 1, Len(@))])
     /\ dispatch_events' = dispatch_events \o Tcp!DataIfAny(i, Received(i, r))
                             \o ConnectedIfNew(i, connections[i], s)
     /\ IF ReadAsserts(i, r)
        THEN Tcp!track_spurious_wakeup(r.units = 0,
                                       IF e.writable THEN "write" ELSE "events")
        ELSE Tcp!Panic("read_assertion") /\ UNCHANGED spurious_wakeups
  /\ UNCHANGED <<listeners, next_id, new_streams, disconnected_ids, peer,
                 app>>

-----------------------------------------------------------------------------
(* write_connection.                                                       *)

\* expect("Connection should exist for writable event"), after a read of the
\* same event has removed the connection without a word.
WriteUnknown ==
  /\ pc = "write" /\ cur \notin DOMAIN connections
  /\ Tcp!Panic("unknown_id")
  /\ UNCHANGED <<tables, spurious_wakeups, poll_events, cur, new_streams,
                 disconnected_ids, dispatch_events, kernel, app, tls>>

\* Mutant: the connection is removed and nobody is told.
GiveUp_Silent(event) ==
  /\ DropConnection(cur) /\ MarkDisconnected(cur)
  /\ pc' = "events"
  /\ UNCHANGED <<listeners, next_id, spurious_wakeups, panic, poll_events, cur,
                 new_streams, peer, app, dispatch_events>>

\* The connection is removed and event is reported.
GiveUp(event) ==
  /\ DropConnection(cur) /\ MarkDisconnected(cur)
  /\ dispatch_events' = Append(dispatch_events, event)
  /\ pc' = "events"
  /\ UNCHANGED <<listeners, next_id, spurious_wakeups, panic, poll_events, cur,
                 new_streams, peer, app>>

\* The call is in its loop, or before it, with the connection in one of these
\* states.
Writing(status) ==
  /\ pc \in {"write", "flush_new"} /\ cur \in DOMAIN connections
  /\ connections[cur].connected \in status

\* take_error() tells how the TCP connection attempt ended.
ConnectFailed ==
  /\ Writing({"NotConnected"}) /\ sock[cur].phase = "err"
  /\ GiveUp(Tcp!ConnectionFailed(cur))

ConnectEstablished ==
  /\ Writing({"NotConnected"}) /\ sock[cur].phase # "err"
  /\ connections' = [connections EXCEPT ![cur].connected = "TcpConnected"]
  /\ pc' = "flush_new"
  /\ UNCHANGED <<listeners, next_id, spurious_wakeups, round,
                 dispatch_events, kernel, app, tls>>

\* Mutant: data is given to the session in the handshake as well.
Plaintext_Always(i) == DataUnits(connections[i].send_buf)

\* The data queued, once the session takes it.
Plaintext(i) ==
  IF connections[i].connected = "TlsConnected"
  THEN DataUnits(connections[i].send_buf) ELSE <<>>

\* write_tls() has something to write and fails.  A socket shut down for
\* writing reports BrokenPipe, which is taken for "would block".
WriteFails ==
  /\ Writing({"TcpConnected", "TlsConnected"})
  /\ tls[cur].out \o Plaintext(cur) # <<>> /\ sock[cur].phase = "err"
  /\ GiveUp(IF connections[cur].connected = "TcpConnected"
            THEN Tcp!ConnectionFailed(cur) ELSE Tcp!Disconnected(cur))

\* Mutant: what the session has taken stays in the send buffer.
Unsent_All(buf, k) == buf

\* send_buf.drain(..send_pos)
Unsent(buf, k) == SubSeq(buf, k + 1, Len(buf))

\* The loop fills the session with plaintext and writes it out, again and
\* again, until the kernel takes no more or nothing is left.  A session that
\* cannot be emptied stays filled.
WriteData ==
  /\ Writing({"TcpConnected", "TlsConnected"})
  /\ \/ tls[cur].out \o Plaintext(cur) = <<>>
     \/ sock[cur].phase # "err"
  /\ LET s == tls[cur]
         buf == connections[cur].send_buf
         all == s.out \o Plaintext(cur)
         n == IF sock[cur].wrshut THEN 0
              ELSE Tcp!Least(sock[cur].room, Len(all))
         full == IF Len(s.out) - n > SessionRoom THEN Len(s.out) - n
                                                 ELSE SessionRoom
         kept == Tcp!Least(Len(all) - n, full)
         moved == IF n + kept > Len(s.out) THEN n + kept - Len(s.out) ELSE 0
         written == SubSeq(all, 1, n)
         t == [s EXCEPT !.out = SubSeq(all, n + 1, n + kept),
                        !.far = Advance(@, written)]
     IN
     /\ Settle(cur, t, Unsent(buf, moved), [sock[cur] EXCEPT !.room = @ - n])
     /\ wire' = [wire EXCEPT ![cur] = @ \o DataOf(written)]
     /\ dispatch_events' =
          dispatch_events \o ConnectedIfNew(cur, connections[cur], t)
     /\ Tcp!track_spurious_wakeup(pc = "write" /\ n = 0 /\ moved = 0, "events")
  /\ UNCHANGED <<listeners, next_id, poll_events, cur, new_streams,
                 disconnected_ids, peer, view, sent, fed, got>>

-----------------------------------------------------------------------------
(* The kernel and the peers.                                               *)

ConnectCompletes(i) == Tcp!ConnectCompletes(i) /\ UNCHANGED tls
ConnectRefused(i) == Tcp!ConnectRefused(i) /\ UNCHANGED tls
PeerConnects(i) == Tcp!PeerConnects(i) /\ UNCHANGED tls
PeerResets(i) == Tcp!PeerResets(i) /\ UNCHANGED tls

\* The peer acknowledges a unit; a send buffer that was full becomes writable.
RoomFreed(i) ==
  /\ i \in DOMAIN sock /\ sock[i].phase = "est" /\ sock[i].room < MaxRoom
  /\ sock' = [sock EXCEPT ![i].room = @ + 1]
  /\ ready' = IF sock[i].room = 0 THEN ready \cup {i} ELSE ready
  /\ Tcp!KernelStep /\ UNCHANGED <<listeners, peer, sent, wire, fed, got, tls>>

\* The peer's handshake is over: it may send data.
PeerReady(i) == tls[i].far >= 3

\* An orderly close, by a peer that may give up in the handshake.
PeerCloses(i) ==
  /\ Tcp!PeerCloses(i)
  /\ PeerReady(i) \/ "abandon" \in Handshake
  /\ UNCHANGED tls

\* Units of an up and running peer arrive.
Arrive(i, units, far) ==
  /\ i \in DOMAIN sock /\ sock[i].phase = "est" /\ peer[i] = "up"
  /\ sock' = [sock EXCEPT ![i].rx = @ \o units]
  /\ tls' = [tls EXCEPT ![i].far = far]
  /\ ready' = ready \cup {i}
  /\ Tcp!KernelStep /\ UNCHANGED <<listeners, sent, wire, got>>

PeerWrites(i) ==
  /\ i \in DOMAIN tls /\ PeerReady(i) /\ Len(fed[i]) < MaxBytes
  /\ \E p \in Parts :
       Arrive(i, Fragments(Unit("data", Len(fed[i]) + 1), p), tls[i].far)
  /\ fed' = [fed EXCEPT ![i] = @ \o Tcp!NextBytes(@, 1)]
  /\ UNCHANGED peer

\* The peer's next flight: a server answers the hello; a client begins, and
\* answers the server's flight.
PeerHandshakes(i) ==
  /\ i \in DOMAIN tls
  /\ tls[i].far \in (IF tls[i].role = "client" THEN {1} ELSE {0, 2})
  /\ \E p \in Parts :
       Arrive(i, Fragments(Unit("hs", tls[i].far + 1), p), tls[i].far + 1)
  /\ UNCHANGED <<peer, fed>>

\* A server sends a session ticket after the handshake.
PeerSendsTicket(i) ==
  /\ i \in DOMAIN tls /\ "ticket" \in Handshake
  /\ tls[i].role = "client" /\ tls[i].far = 3
  /\ Arrive(i, <<Unit("empty", 0)>>, 4)
  /\ UNCHANGED <<peer, fed>>

\* The peer refuses the certificate, or what it sends cannot be decrypted.
PeerRejects(i) ==
  /\ i \in DOMAIN tls /\ "reject" \in Handshake
  /\ Arrive(i, <<Unit("bad", 0)>>, tls[i].far)
  /\ peer' = [peer EXCEPT ![i] = "lost"]
  /\ UNCHANGED fed

\* The peer says goodbye with a close_notify and closes.
PeerNotifies(i) ==
  /\ i \in DOMAIN tls /\ "notify" \in Handshake /\ PeerReady(i)
  /\ Arrive(i, <<Unit("empty", 0)>>, tls[i].far)
  /\ peer' = [peer EXCEPT ![i] = "fin"]
  /\ UNCHANGED fed

-----------------------------------------------------------------------------

Operations ==
  \/ connect \/ listen
  \/ \E i \in Ids : close_connection(i) \/ close_listener(i)
  \/ close_all_connections \/ close_all_listeners \/ close_all
  \/ \E how \in {"Read", "Write", "Both"} :
       \/ \E i \in Ids : shutdown_connection(i, how)
       \/ shutdown_all_connections(how)
  \/ \E n \in 0..MaxSend :
       \/ \E i \in Ids : send_to(i, n) \/ broadcast_except(n, i)
       \/ \E S \in SUBSET Ids : send_to_many(S, n) \/ broadcast_except_many(n, S)
       \/ broadcast(n)

HandleEvent ==
  \E e \in poll_events :
    \/ HandleListener(e) \/ SkipDisconnected(e)
    \/ HandshakeFails(e) \/ ReadDisconnected(e) \/ ReadData(e)
    \/ HandleWritable(e)

Accept ==
  AcceptStream \/ AcceptWouldBlock \/ RegisterStream \/ RegisterLostStream

AcceptFails == AcceptError \/ NodelayError

Write ==
  \/ WriteUnknown \/ ConnectFailed \/ ConnectEstablished
  \/ WriteFails \/ WriteData

\* One step of fetch_events, once called.
Loop ==
  ReportInactive \/ Poll \/ PollFails \/ EventsDone
  \/ HandleEvent \/ Accept \/ Write

Peers ==
  \E i \in Ids :
    \/ ConnectCompletes(i) \/ ConnectRefused(i) \/ PeerConnects(i)
    \/ PeerWrites(i) \/ PeerCloses(i) \/ PeerResets(i) \/ RoomFreed(i)
    \/ PeerHandshakes(i) \/ PeerSendsTicket(i) \/ PeerRejects(i)
    \/ PeerNotifies(i)

Next ==
  \/ /\ Operations \/ AppHandlesEvent \/ FetchEvents \/ Loop \/ Peers
     /\ UNCHANGED failed
  \/ AcceptFails /\ failed' = TRUE

Spec == Init /\ [][Next]_vars

-----------------------------------------------------------------------------
(* Properties.                                                             *)

Statuses == {"NotConnected", "TcpConnected", "TlsConnected"}
Units == [kind : {"hs", "data", "empty", "bad"}, n : Nat]

\* Every variable keeps its type; a session and a socket exist for exactly the
\* connections in the table, whatever closes or fails.
TypeOK ==
  /\ DOMAIN connections \subseteq Ids /\ DOMAIN listeners \subseteq Ids
  /\ \A i \in DOMAIN connections :
       connections[i] \in [connected : Statuses, interest : SUBSET Tcp!RW,
                           send_buf : Seq(Nat)]
  /\ \A i \in DOMAIN listeners : listeners[i] \in Nat
  /\ DOMAIN sock = DOMAIN connections
  /\ \A i \in DOMAIN sock :
       sock[i] \in [phase : {"syn", "est", "err"}, rx : Seq(Units), room : Nat,
                    rdshut : BOOLEAN, wrshut : BOOLEAN,
                    interest : SUBSET Tcp!RW]
  /\ DOMAIN tls = DOMAIN connections
  /\ \A i \in DOMAIN tls :
       tls[i] \in [role : {"client", "server"}, flights : 0..3,
                   out : Seq(Units), far : 0..4]
  /\ next_id \in Ids /\ spurious_wakeups \in Nat
  /\ pc \in {"app", "requests", "events", "accept", "register", "write",
             "flush_new", "panic"}
  /\ panic \in {"none", "spurious", "unknown_id", "read_assertion", "peer_addr"}
  /\ poll_events \subseteq [id : Ids, readable : BOOLEAN, writable : BOOLEAN]
  /\ cur \in Ids /\ new_streams \in Nat /\ disconnected_ids \subseteq Ids
  /\ dispatch_events \in Seq(Tcp!EventRecords)
  /\ ready \subseteq Ids
  /\ peer \in [Ids -> {"up", "fin", "lost"}]
  /\ view \in [Ids -> {"new", "connecting", "open"} \cup Tcp!Ended]
  /\ sent \in [Ids -> Seq(Nat)] /\ wire \in [Ids -> Seq(Nat)]
  /\ fed \in [Ids -> Seq(Nat)] /\ got \in [Ids -> Seq(Nat)]

\* The interest remembered is the one registered.  It covers WRITABLE while the
\* session has something to write (a handshake flight would wait for ever) and
\* while data is queued on an established connection, and READABLE exactly
\* when the TCP connection is known to be up.
InterestRegistered ==
  \A i \in DOMAIN connections :
    LET conn == connections[i] IN
    /\ conn.interest = sock[i].interest
    /\ wants_write(tls[i]) => "W" \in conn.interest
    /\ conn.connected = "TlsConnected" /\ conn.send_buf # <<>>
         => "W" \in conn.interest
    /\ "R" \in conn.interest <=>
         conn.connected # "NotConnected" /\ ~(pc = "flush_new" /\ i = cur)

\* A connection counts as established exactly when its session has completed
\* the handshake: read_connection and write_connection never miss the moment
\* nor anticipate it.
StatusFollowsSession ==
  \A i \in DOMAIN connections :
    connections[i].connected = "TlsConnected" <=> ~is_handshaking(tls[i])

\* What was queued during the handshake stays out of the session until the
\* handshake is over, also when a broadcast finds the connection half-way.
NoDataInHandshake ==
  \A i \in DOMAIN connections :
    connections[i].connected # "TlsConnected" =>
      wire[i] = <<>> /\ DataOf(tls[i].out) = <<>>

\* Through send buffer, session and socket nothing is lost, repeated or
\* reordered.
OutgoingIntact ==
  \A i \in DOMAIN connections :
    sent[i] = wire[i] \o DataOf(tls[i].out) \o connections[i].send_buf

\* What the peer of a live connection wrote has been handed to the application,
\* waits in the events being collected, or is still in the kernel: the session
\* holds no plaintext back between two calls of read_connection.  An error of
\* accept_connections drops the events collected (see TcpTransport).
IncomingIntact ==
  pc # "panic" /\ ~failed =>
    \A i \in DOMAIN connections :
      fed[i] = got[i] \o Tcp!Undelivered(i) \o DataOf(sock[i].rx)

\* The application and the transport agree on the established connections: one
\* the application holds for open is alive or its end is about to be reported,
\* and one that has completed its handshake has been announced or is about to.
EstablishedNotLost ==
  pc # "panic" /\ ~failed =>
    \A i \in Ids :
      /\ view[i] = "open" /\ i \notin DOMAIN connections
           => Tcp!Reported(i, {"Disconnected"})
      /\ i \in DOMAIN connections
           => (connections[i].connected = "TlsConnected" <=>
                 view[i] = "open" \/ Tcp!Reported(i, {"Connected"}))

\* Events about an id that are still to be handled, and the view of it.
EndReported(i) ==
  view[i] \in {"failed", "disconnected"}
    \/ Tcp!Reported(i, {"Disconnected", "ConnectionFailed"})

\* Nothing follows an end: once Disconnected or ConnectionFailed is reported no
\* other event names the id, no second end is reported (read_connection and
\* write_connection of one round do not both give up), and the id is out of the
\* tables.
NothingAfterEnd ==
  /\ \A j, k \in 1..Len(dispatch_events) :
       j < k /\ dispatch_events[j].type \in {"Disconnected", "ConnectionFailed"}
         => dispatch_events[k].id # dispatch_events[j].id
  /\ \A i \in Ids : EndReported(i) => i \notin DOMAIN connections
  /\ \A k \in 1..Len(dispatch_events) :
       dispatch_events[k].type # "Inactive" =>
         view[dispatch_events[k].id] \notin {"failed", "disconnected"}

\* A lookup or an assertion of read_connection and write_connection can only
\* fail over a connection still in its handshake, never over one the
\* application has been told about.
AbortsOnlyInHandshake ==
  panic \in {"unknown_id", "read_assertion"} =>
    view[cur] # "open" /\ ~Tcp!Reported(cur, {"Connected", "Disconnected"})

\* The assertions and lookups of fetch_events, read_connection and
\* write_connection ("Connection should exist for writable event",
\* assert!(recv_buf.is_empty())) never fail.
NoPanic == panic = "none"

\* Data of the round in which the handshake ends is handed out before Connected,
\* for an id the application has not heard of.  It never has to wait for the
\* announcement, though: Connected is the very next event.
DataAnnounced ==
  ~failed =>
    \A k \in 1..Len(dispatch_events) :
      LET e == dispatch_events[k] IN
      e.type = "Data" /\ view[e.id] = "new" =>
        \E j \in 1..Tcp!Least(k + 1, Len(dispatch_events)) :
          dispatch_events[j] = Tcp!Connected(e.id)

-----------------------------------------------------------------------------
(* Liveness: as for TCP; besides, a peer that is up goes on with the       *)
(* handshake.                                                              *)

\* The ids sockets are given: unless ids are reused the last one is never
\* reached (NoWrap).
GivenIds == IF ReuseIds THEN Ids ELSE IdStart..(MaxId - 1)

Fairness ==
  /\ WF_state(AppHandlesEvent \/ FetchEvents)
  /\ WF_state(Loop \/ AcceptFails)
  /\ \A i \in GivenIds :
       /\ WF_state(ConnectCompletes(i) \/ ConnectRefused(i))
       /\ WF_state(RoomFreed(i))
       /\ WF_state(PeerHandshakes(i))

FairSpec == Spec /\ Fairness

Gone(i) == i \notin DOMAIN connections \/ pc = "panic"

\* The application has shut down its sending side.
ShutDown(i) == i \in DOMAIN sock /\ sock[i].wrshut

\* Leaving the read loop for want of plaintext, "we didn't make any progress and
\* exit the loop", costs nothing: what is still in the socket is noticed, the
\* end of the stream too.
EndNoticed ==
  \A i \in GivenIds : peer[i] # "up" /\ i \in DOMAIN connections ~> Gone(i)

=============================================================================
