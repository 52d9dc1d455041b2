------------------------ MODULE TlsTransport_proofs -------------------------
(***************************************************************************)
(* Proofs about TlsTransport: its inductive invariant Inv, that every step *)
(* keeps it, and the safety properties that follow from it; then, for ids  *)
(* that are not used again, the story of each id (LifeInv), what the       *)
(* lookups of a round meet (AbortInv), and what follows from them.         *)
(***************************************************************************)
EXTENDS TlsSessions_proofs

-----------------------------------------------------------------------------
(* The tables: which ids are in use.                                       *)

\* HashMap::insert and HashMap::remove.
LEMMA WithEntries ==
  ASSUME NEW f, NEW i, NEW v
  PROVE  /\ DOMAIN Tcp!With(f, i, v) = DOMAIN f \cup {i}
         /\ \A j \in DOMAIN f \cup {i} :
              Tcp!With(f, i, v)[j] = IF j = i THEN v ELSE f[j]
  BY DEF Tcp!With

\* The entries of a map some keys were removed from.
LEMMA WithoutEntries ==
  ASSUME NEW f, NEW S
  PROVE  /\ DOMAIN Tcp!Without(f, S) = DOMAIN f \ S
         /\ \A j \in DOMAIN f \ S : Tcp!Without(f, S)[j] = f[j]
  BY DEF Tcp!Without, Tcp!Restrict

\* A session and a socket for exactly the connections; no id names a connection
\* and a listener, and the next one is free.
TablesInv ==
  /\ DOMAIN connections \subseteq Ids /\ DOMAIN listeners \subseteq Ids
  /\ DOMAIN sock = DOMAIN connections /\ DOMAIN tls = DOMAIN connections
  /\ next_id \in Ids
  /\ DOMAIN connections \cap DOMAIN listeners = {}
  /\ next_id \notin DOMAIN connections \cup DOMAIN listeners

\* Steps that allocate no id and keep or shrink the tables.
LEMMA TablesShrink ==
  ASSUME TablesInv,
         DOMAIN connections' \subseteq DOMAIN connections,
         DOMAIN listeners' \subseteq DOMAIN listeners,
         DOMAIN sock' = DOMAIN connections', DOMAIN tls' = DOMAIN connections',
         next_id' = next_id
  PROVE  TablesInv'
  BY DEF TablesInv

\* Connections are removed with their sockets and their sessions.
LEMMA DropEntries ==
  ASSUME TablesInv, NEW S, Tcp!DropSockets(S), tls' = Tcp!Without(tls, S)
  PROVE  /\ DOMAIN connections' = DOMAIN connections \ S
         /\ DOMAIN sock' = DOMAIN connections' /\ DOMAIN tls' = DOMAIN connections'
         /\ \A j \in DOMAIN connections \ S :
              connections'[j] = connections[j] /\ sock'[j] = sock[j] /\ tls'[j] = tls[j]
         /\ ready' \subseteq ready
<1>1. connections' = Tcp!Without(connections, S) /\ sock' = Tcp!Without(sock, S)
      /\ ready' \subseteq ready
  BY DEF Tcp!DropSockets
<1>2. DOMAIN sock = DOMAIN connections /\ DOMAIN tls = DOMAIN connections
  BY DEF TablesInv
<1>3. DOMAIN connections' = DOMAIN connections \ S
      /\ \A j \in DOMAIN connections \ S : connections'[j] = connections[j]
  BY <1>1, WithoutEntries
<1>4. DOMAIN sock' = DOMAIN connections \ S
      /\ \A j \in DOMAIN connections \ S : sock'[j] = sock[j]
  <2>1. DOMAIN Tcp!Without(sock, S) = DOMAIN sock \ S
        /\ \A j \in DOMAIN sock \ S : Tcp!Without(sock, S)[j] = sock[j]
    BY WithoutEntries, Zenon
  <2> QED
    BY <1>1, <1>2, <2>1
<1>5. DOMAIN tls' = DOMAIN connections \ S
      /\ \A j \in DOMAIN connections \ S : tls'[j] = tls[j]
  <2>1. DOMAIN Tcp!Without(tls, S) = DOMAIN tls \ S
        /\ \A j \in DOMAIN tls \ S : Tcp!Without(tls, S)[j] = tls[j]
    BY WithoutEntries, Zenon
  <2> QED
    BY <1>2, <2>1
<1> QED
  BY <1>1, <1>3, <1>4, <1>5

\* close_all_connections and close_all leave no session behind.
LEMMA DropAll ==
  ASSUME TablesInv, tls' = Tcp!EmptyMap
  PROVE  tls' = Tcp!Without(tls, DOMAIN connections)
<1>1. DOMAIN tls \ DOMAIN connections = {}
  BY DEF TablesInv
<1> QED
  BY <1>1 DEF Tcp!EmptyMap, Tcp!Without, Tcp!Restrict

\* Removing connections keeps the tables consistent;
LEMMA TablesDrop ==
  ASSUME TablesInv, NEW S, Tcp!DropSockets(S), tls' = Tcp!Without(tls, S),
         UNCHANGED <<listeners, next_id>>
  PROVE  TablesInv'
<1>1. /\ DOMAIN connections' \subseteq DOMAIN connections
      /\ DOMAIN sock' = DOMAIN connections' /\ DOMAIN tls' = DOMAIN connections'
  BY DropEntries
<1> QED
  BY <1>1, TablesShrink

\* so does removing listeners,
LEMMA TablesDropListeners ==
  ASSUME TablesInv, NEW S, listeners' = Tcp!Without(listeners, S),
         UNCHANGED <<connections, sock, tls, next_id>>
  PROVE  TablesInv'
<1>1. DOMAIN listeners' = DOMAIN listeners \ S
  BY WithoutEntries
<1> QED
  BY <1>1, TablesShrink DEF TablesInv

\* advance_connection_id
LEMMA NextFree ==
  ASSUME NEW S, Tcp!advance_connection_id(S)
  PROVE  next_id' \in Ids \ S
  BY DEF Tcp!advance_connection_id, Tcp!Ids, Ids

\* A new connection has an entry in all three tables.
LEMMA OpenEntries ==
  ASSUME TablesInv, NEW c, NEW p, NEW v, Tcp!OpenSocket(c, p, v), NEW s,
         tls' = Tcp!With(tls, next_id, s)
  PROVE  /\ DOMAIN connections' = DOMAIN connections \cup {next_id}
         /\ DOMAIN sock' = DOMAIN connections' /\ DOMAIN tls' = DOMAIN connections'
         /\ connections'[next_id] = c /\ tls'[next_id] = s
         /\ sock'[next_id] = Fresh(p, c.interest)
         /\ \A j \in DOMAIN connections :
              connections'[j] = connections[j] /\ sock'[j] = sock[j] /\ tls'[j] = tls[j]
         /\ next_id' \in Ids \ (DOMAIN connections \cup DOMAIN listeners \cup {next_id})
<1>1. /\ connections' = Tcp!With(connections, next_id, c)
      /\ sock' = Tcp!With(sock, next_id, Fresh(p, c.interest))
  BY DEF Tcp!OpenSocket, Fresh
<1>2. DOMAIN sock = DOMAIN connections /\ DOMAIN tls = DOMAIN connections
      /\ next_id \notin DOMAIN connections
  BY DEF TablesInv
<1>3. next_id' \in Ids \ (Tcp!Used \cup {next_id})
  BY NextFree DEF Tcp!OpenSocket
<1>4. /\ DOMAIN connections' = DOMAIN connections \cup {next_id}
      /\ connections'[next_id] = c
      /\ \A j \in DOMAIN connections : connections'[j] = connections[j]
  BY <1>1, <1>2 DEF Tcp!With
<1>5. /\ DOMAIN sock' = DOMAIN connections \cup {next_id}
      /\ sock'[next_id] = Fresh(p, c.interest)
      /\ \A j \in DOMAIN connections : sock'[j] = sock[j]
  BY <1>1, <1>2 DEF Tcp!With
<1>6. /\ DOMAIN tls' = DOMAIN connections \cup {next_id}
      /\ tls'[next_id] = s
      /\ \A j \in DOMAIN connections : tls'[j] = tls[j]
  BY <1>2 DEF Tcp!With
<1> QED
  BY <1>3, <1>4, <1>5, <1>6 DEF Tcp!Used

\* a new connection under an unused id,
LEMMA TablesOpen ==
  ASSUME TablesInv, NEW c, NEW p, NEW v, Tcp!OpenSocket(c, p, v), NEW s,
         tls' = Tcp!With(tls, next_id, s), UNCHANGED listeners
  PROVE  TablesInv'
<1>1. /\ DOMAIN connections' = DOMAIN connections \cup {next_id}
      /\ DOMAIN sock' = DOMAIN connections' /\ DOMAIN tls' = DOMAIN connections'
      /\ next_id' \in Ids \ (DOMAIN connections \cup DOMAIN listeners \cup {next_id})
  BY OpenEntries
<1> QED
  BY <1>1 DEF TablesInv

\* and a new listener under an unused id.
LEMMA TablesListen ==
  ASSUME TablesInv, listen
  PROVE  TablesInv'
<1>1. DOMAIN listeners' = DOMAIN listeners \cup {next_id}
  BY WithEntries DEF listen, Tcp!listen
<1>2. next_id' \in Ids \ (Tcp!Used \cup {next_id})
  BY NextFree DEF listen, Tcp!listen
<1>3. UNCHANGED <<connections, sock, tls>>
  BY DEF listen, Tcp!listen, Tcp!kernel
<1> QED
  BY <1>1, <1>2, <1>3 DEF TablesInv, Tcp!Used

\* Settle changes one entry of each table.
LEMMA SettleEntries ==
  ASSUME TablesInv, NEW i \in DOMAIN connections, NEW s, NEW buf, NEW k,
         Settle(i, s, buf, k)
  PROVE  /\ DOMAIN connections' = DOMAIN connections
         /\ DOMAIN sock' = DOMAIN connections /\ DOMAIN tls' = DOMAIN connections
         /\ connections'[i] = SettledConnection(connections[i], s, buf)
         /\ sock'[i] = SettledSocket(connections[i], k, s, buf) /\ tls'[i] = s
         /\ \A j \in DOMAIN connections \ {i} :
              connections'[j] = connections[j] /\ sock'[j] = sock[j] /\ tls'[j] = tls[j]
         /\ ready' \subseteq ready \cup {i}
<1>1. /\ connections' = [connections EXCEPT ![i] = SettledConnection(connections[i], s, buf)]
      /\ sock' = [sock EXCEPT ![i] = SettledSocket(connections[i], k, s, buf)]
      /\ tls' = [tls EXCEPT ![i] = s]
      /\ ready' \subseteq ready \cup {i}
  BY DEF Settle, SettledConnection, SettledSocket
<1>2. i \in DOMAIN sock /\ i \in DOMAIN tls /\ DOMAIN sock = DOMAIN connections
      /\ DOMAIN tls = DOMAIN connections
  BY DEF TablesInv
<1> QED
  BY <1>1, <1>2

\* The operations of the interface keep the tables consistent,
LEMMA TablesOperations ==
  ASSUME TablesInv, Operations
  PROVE  TablesInv'
<1> USE DEF Tcp!tables, Tcp!kernel, Tcp!thread, Tcp!app
<1>1. CASE connect
  BY <1>1, TablesOpen DEF connect
<1>2. CASE listen
  BY <1>2, TablesListen
<1>3. ASSUME NEW i \in Ids, close_connection(i)
      PROVE  TablesInv'
  BY <1>3, TablesDrop DEF close_connection, Tcp!close_connection
<1>4. ASSUME NEW i \in Ids, close_listener(i)
      PROVE  TablesInv'
  BY <1>4, TablesDropListeners DEF close_listener, Tcp!close_listener, Tcp!CloseListeners
<1>5. CASE close_all_connections
  BY <1>5, DropAll, TablesDrop
     DEF close_all_connections, Tcp!close_all_connections, Tcp!CloseConnections
<1>6. CASE close_all_listeners
  BY <1>6, TablesDropListeners
     DEF close_all_listeners, Tcp!close_all_listeners, Tcp!CloseListeners
<1>7. CASE close_all
  <2>1. /\ DOMAIN connections' = {} /\ DOMAIN listeners' = {}
        /\ DOMAIN sock' = DOMAIN sock \ DOMAIN connections
        /\ DOMAIN tls' = {} /\ next_id' = next_id
    BY <1>7, WithoutEntries, ZenonT(60) DEF close_all, Tcp!close_all, Tcp!EmptyMap
  <2> QED
    BY <2>1, TablesShrink DEF TablesInv
<1>8. ASSUME NEW how, NEW S, Tcp!ShutdownConnections(S, how), UNCHANGED tls
      PROVE  TablesInv'
  BY <1>8, TablesShrink DEF Tcp!ShutdownConnections, TablesInv
<1>9. ASSUME NEW S, NEW n, Send(S, n)
      PROVE  TablesInv'
  BY <1>9, TablesShrink, Zenon DEF Send, queue_data, TablesInv
<1> QED
  BY <1>1, <1>2, <1>3, <1>4, <1>5, <1>6, <1>7, <1>8, <1>9
     DEF Operations, shutdown_connection, shutdown_all_connections,
         Tcp!shutdown_connection, Tcp!shutdown_all_connections, send_to,
         send_to_many, broadcast, broadcast_except, broadcast_except_many

\* so do the steps of the loop,
LEMMA TablesLoop ==
  ASSUME TablesInv, Loop \/ AcceptFails \/ AppHandlesEvent \/ FetchEvents
  PROVE  TablesInv'
<1> USE DEF Tcp!tables, Tcp!kernel, Tcp!thread, Tcp!app
<1>1. CASE ReportInactive \/ Poll \/ PollFails \/ EventsDone
           \/ AppHandlesEvent \/ FetchEvents
  BY <1>1, TablesShrink DEF ReportInactive, Poll, PollFails, EventsDone,
       AppHandlesEvent, FetchEvents, TablesInv,
       Tcp!ReportInactive, Tcp!Poll, Tcp!PollFails, Tcp!EventsDone,
       Tcp!AppHandlesEvent, Tcp!FetchEvents
<1>2. ASSUME NEW e \in poll_events,
             HandleListener(e) \/ SkipDisconnected(e) \/ HandleWritable(e)
      PROVE  TablesInv'
  BY <1>2, TablesShrink DEF HandleListener, SkipDisconnected, HandleWritable,
       TablesInv, Tcp!HandleListener, Tcp!SkipDisconnected, Tcp!HandleWritable
<1>3. ASSUME NEW e \in poll_events, HandshakeFails(e) \/ ReadDisconnected(e)
      PROVE  TablesInv'
  BY <1>3, TablesDrop DEF HandshakeFails, ReadDisconnected, DropConnection
<1>4. ASSUME NEW e \in poll_events, ReadData(e)
      PROVE  TablesInv'
  <2>1. e.id \in DOMAIN connections /\ UNCHANGED <<listeners, next_id>>
    BY <1>4 DEF ReadData, ReadConnection, Tcp!IsConnection
  <2>2. PICK s, k : Settle(e.id, s, connections[e.id].send_buf, k)
    BY <1>4 DEF ReadData
  <2>3. DOMAIN connections' = DOMAIN connections /\ DOMAIN sock' = DOMAIN connections
        /\ DOMAIN tls' = DOMAIN connections
    BY <2>1, <2>2, SettleEntries
  <2> QED
    BY <2>1, <2>3, TablesShrink
<1>5. CASE AcceptStream \/ AcceptWouldBlock \/ RegisterLostStream
  BY <1>5, TablesShrink DEF AcceptStream, AcceptWouldBlock, RegisterLostStream,
       TablesInv, Tcp!AcceptStream, Tcp!AcceptWouldBlock, Tcp!RegisterLostStream
<1>6. CASE AcceptError
  BY <1>6, TablesDropListeners DEF AcceptError, Tcp!AcceptError, Tcp!ReturnError
<1>7. CASE NodelayError
  BY <1>7, TablesShrink DEF NodelayError, Tcp!NodelayError, Tcp!ReturnError, TablesInv
<1>8. CASE RegisterStream
  BY <1>8, TablesOpen DEF RegisterStream
<1>9. CASE ConnectFailed \/ WriteFails
  BY <1>9, TablesDrop DEF ConnectFailed, WriteFails, GiveUp, DropConnection
<1>10. CASE ConnectEstablished \/ WriteUnknown
  BY <1>10, TablesShrink DEF ConnectEstablished, WriteUnknown, TablesInv, tables, kernel
<1>11. CASE WriteData
  <2>1. cur \in DOMAIN connections /\ UNCHANGED <<listeners, next_id>>
    BY <1>11, Zenon DEF WriteData, Writing
  <2>2. PICK s, k, buf : Settle(cur, s, buf, k)
    BY <1>11, ZenonT(60) DEF WriteData
  <2>3. DOMAIN connections' = DOMAIN connections /\ DOMAIN sock' = DOMAIN connections
        /\ DOMAIN tls' = DOMAIN connections
    BY <2>1, <2>2, SettleEntries
  <2> QED
    BY <2>1, <2>3, TablesShrink
<1> QED
  BY <1>1, <1>2, <1>3, <1>4, <1>5, <1>6, <1>7, <1>8, <1>9, <1>10, <1>11
     DEF Loop, HandleEvent, Accept, AcceptFails, Write

\* those of the peers and of the kernel,
LEMMA TablesPeers ==
  ASSUME TablesInv, Peers
  PROVE  TablesInv'
  BY TablesShrink, ZenonT(60) DEF Peers, ConnectCompletes, ConnectRefused, PeerConnects,
     PeerWrites, PeerCloses, PeerResets, RoomFreed, PeerHandshakes,
     PeerSendsTicket, PeerRejects, PeerNotifies, Arrive, TablesInv,
     Tcp!KernelStep, Tcp!ConnectCompletes, Tcp!ConnectRefused, Tcp!PeerConnects,
     Tcp!PeerCloses, Tcp!PeerResets

\* and so does every step.
LEMMA TablesStep == TablesInv /\ [Next]_vars => TablesInv'
<1>1. ASSUME TablesInv, UNCHANGED vars
      PROVE  TablesInv'
  BY <1>1, TablesShrink DEF vars, state, tables, kernel, TablesInv
<1> QED
  BY <1>1, TablesOperations, TablesLoop, TablesPeers DEF Next

-----------------------------------------------------------------------------
(* All connections.                                                        *)

\* write_connection has just found the TCP connection i up.
NewNow(i) == pc = "flush_new" /\ i = cur

Sound(i) ==
  ConnectionInv(connections[i], sock[i], tls[i], wire[i], sent[i], NewNow(i))

ConnsInv == \A i \in DOMAIN connections : Sound(i)

\* A step that leaves connection i alone.
Untouched(i) ==
  /\ connections'[i] = connections[i] /\ sock'[i] = sock[i] /\ tls'[i] = tls[i]
  /\ wire'[i] = wire[i] /\ sent'[i] = sent[i]

\* The call of write_connection goes on, or there is none before and after.
SameCall ==
  UNCHANGED <<pc, cur>> \/ (pc # "flush_new" /\ pc' # "flush_new")

\* A connection that a step leaves alone stays sound.
LEMMA UntouchedSound ==
  ASSUME NEW i, Sound(i), Untouched(i), NewNow(i)' = NewNow(i)
  PROVE  Sound(i)'
  BY DEF Sound, Untouched

\* Within a call nothing changes for the connection being flushed.
LEMMA SameCallNew ==
  ASSUME SameCall, NEW i
  PROVE  NewNow(i)' = NewNow(i)
  BY DEF SameCall, NewNow

\* Only write_connection, in the middle of a flush, has found a connection new.
LEMMA NewNowBoolean ==
  ASSUME NEW i
  PROVE  NewNow(i) \in BOOLEAN /\ (pc # "flush_new" => NewNow(i) = FALSE)
  BY DEF NewNow

\* Steps that change no connection.
LEMMA ConnsCalm ==
  ASSUME ConnsInv, UNCHANGED <<connections, sock, tls, wire, sent>>, SameCall
  PROVE  ConnsInv'
<1> SUFFICES ASSUME NEW i \in DOMAIN connections'
             PROVE  Sound(i)'
  BY DEF ConnsInv
<1>1. Sound(i)
  BY DEF ConnsInv
<1>2. Untouched(i)
  BY DEF Untouched
<1> QED
  BY <1>1, <1>2, UntouchedSound, SameCallNew

\* Steps that remove connections.
LEMMA ConnsDrop ==
  ASSUME TablesInv, ConnsInv, NEW S, Tcp!DropSockets(S), tls' = Tcp!Without(tls, S),
         UNCHANGED <<wire, sent>>,
         \A j \in DOMAIN connections \ S : NewNow(j)' = NewNow(j)
  PROVE  ConnsInv'
<1> SUFFICES ASSUME NEW i \in DOMAIN connections'
             PROVE  Sound(i)'
  BY DEF ConnsInv
<1>1. i \in DOMAIN connections \ S
      /\ connections'[i] = connections[i] /\ sock'[i] = sock[i] /\ tls'[i] = tls[i]
  BY DropEntries
<1>2. Sound(i)
  BY <1>1 DEF ConnsInv
<1>3. Untouched(i)
  BY <1>1 DEF Untouched
<1> QED
  BY <1>1, <1>2, <1>3, UntouchedSound

\* Steps that change one connection.
LEMMA ConnsOne ==
  ASSUME ConnsInv, DOMAIN connections' = DOMAIN connections,
         NEW i, i \in DOMAIN connections => Sound(i)',
         \A j \in DOMAIN connections \ {i} : Untouched(j) /\ NewNow(j)' = NewNow(j)
  PROVE  ConnsInv'
<1> SUFFICES ASSUME NEW j \in DOMAIN connections'
             PROVE  Sound(j)'
  BY DEF ConnsInv
<1>1. CASE j = i
  BY <1>1
<1>2. CASE j # i
  <2>1. Sound(j) /\ Untouched(j) /\ NewNow(j)' = NewNow(j)
    BY <1>2 DEF ConnsInv
  <2> QED
    BY <2>1, UntouchedSound
<1> QED
  BY <1>1, <1>2

\* A new connection.
LEMMA ConnsOpen ==
  ASSUME TablesInv, ConnsInv, NEW c, NEW p, NEW v, Tcp!OpenSocket(c, p, v), NEW s,
         tls' = Tcp!With(tls, next_id, s),
         ConnectionInv(c, Fresh(p, c.interest), s, <<>>, <<>>, FALSE),
         wire \in [Ids -> Seq(Nat)], sent \in [Ids -> Seq(Nat)],
         pc # "flush_new", pc' # "flush_new"
  PROVE  ConnsInv'
<1>1. /\ DOMAIN connections' = DOMAIN connections \cup {next_id}
      /\ connections'[next_id] = c /\ tls'[next_id] = s
      /\ sock'[next_id] = Fresh(p, c.interest)
      /\ \A j \in DOMAIN connections :
           connections'[j] = connections[j] /\ sock'[j] = sock[j] /\ tls'[j] = tls[j]
  BY OpenEntries
<1>2. next_id \in Ids /\ DOMAIN connections \subseteq Ids /\ next_id \notin DOMAIN connections
  BY DEF TablesInv
<1>3. /\ wire' = [wire EXCEPT ![next_id] = <<>>]
      /\ sent' = [sent EXCEPT ![next_id] = <<>>]
  BY DEF Tcp!OpenSocket
<1>4. wire'[next_id] = <<>> /\ sent'[next_id] = <<>>
      /\ \A j \in DOMAIN connections : wire'[j] = wire[j] /\ sent'[j] = sent[j]
  BY <1>2, <1>3
<1>5. \A j : NewNow(j)' = FALSE /\ NewNow(j) = FALSE
  BY DEF NewNow
<1> SUFFICES ASSUME NEW j \in DOMAIN connections'
             PROVE  Sound(j)'
  BY DEF ConnsInv
<1>6. CASE j = next_id
  BY <1>1, <1>4, <1>5, <1>6 DEF Sound
<1>7. CASE j # next_id
  <2>1. j \in DOMAIN connections
    BY <1>1, <1>7
  <2>2. Sound(j) /\ Untouched(j)
    BY <1>1, <1>4, <2>1 DEF ConnsInv, Untouched
  <2> QED
    BY <1>5, <2>2, UntouchedSound
<1> QED
  BY <1>6, <1>7

\* Steps that only change what lies outside the invariant in the sockets.
LEMMA ConnsSocket ==
  ASSUME TablesInv, ConnsInv, UNCHANGED <<connections, tls, wire, sent>>, SameCall,
         \A j \in DOMAIN connections :
           /\ sock'[j] \in SocketRecords
           /\ sock'[j].rx = sock[j].rx /\ sock'[j].interest = sock[j].interest
  PROVE  ConnsInv'
<1> SUFFICES ASSUME NEW j \in DOMAIN connections
             PROVE  Sound(j)'
  BY DEF ConnsInv
<1>1. Sound(j) /\ NewNow(j) \in BOOLEAN /\ NewNow(j)' = NewNow(j)
  BY SameCallNew, NewNowBoolean DEF ConnsInv
<1>2. ConnectionInv(connections[j], sock'[j], tls[j], wire[j], sent[j], NewNow(j))
  BY <1>1, OtherSocket DEF Sound
<1> QED
  BY <1>1, <1>2 DEF Sound

\* The types that go with a sound connection.
LEMMA SoundTypes ==
  ASSUME NEW i, Sound(i)
  PROVE  /\ connections[i] \in ConnectionRecords /\ sock[i] \in SocketRecords
         /\ tls[i] \in Sessions /\ sock[i].rx \in Seq(Units) /\ sock[i].room \in Nat
         /\ connections[i].send_buf \in Seq(Nat) /\ tls[i].out \in Seq(Units)
         /\ wire[i] \in Seq(Nat) /\ sent[i] \in Seq(Nat)
  BY DEF Sound, ConnectionInv, Typed, ConnectionRecords, SocketRecords, Sessions

-----------------------------------------------------------------------------
(* The other variables.                                                    *)

ListenerTypes == \A i \in DOMAIN listeners : listeners[i] \in Nat

LoopTypes ==
  /\ spurious_wakeups \in Nat
  /\ pc \in {"app", "requests", "events", "accept", "register", "write",
             "flush_new", "panic"}
  /\ panic \in {"none", "spurious", "unknown_id", "read_assertion", "peer_addr"}
  /\ poll_events \subseteq [id : Ids, readable : BOOLEAN, writable : BOOLEAN]
  /\ cur \in Ids /\ new_streams \in Nat /\ disconnected_ids \subseteq Ids
  /\ dispatch_events \in Seq(Tcp!EventRecords)

WorldTypes ==
  /\ ready \subseteq Ids
  /\ peer \in [Ids -> {"up", "fin", "lost"}]
  /\ view \in [Ids -> {"new", "connecting", "open"} \cup Tcp!Ended]
  /\ sent \in [Ids -> Seq(Nat)] /\ wire \in [Ids -> Seq(Nat)]
  /\ fed \in [Ids -> Seq(Nat)] /\ got \in [Ids -> Seq(Nat)]

\* The events of a round are gone between two rounds, there are streams to
\* register, and poll() has found nothing to read where the TCP connection was
\* not known to be up.
RoundInv ==
  /\ pc \in {"app", "requests"} => poll_events = {}
  /\ pc = "register" => new_streams > 0
  /\ \A e \in poll_events :
       e.readable /\ e.id \in DOMAIN connections
         => connections[e.id].connected # "NotConnected"

Inv ==
  /\ TablesInv /\ ListenerTypes /\ LoopTypes /\ WorldTypes /\ RoundInv /\ ConnsInv

-----------------------------------------------------------------------------
(* The application's calls.                                                *)

\* The operations run between two calls of fetch_events and leave the loop alone.
LEMMA OperationsCall ==
  ASSUME Operations
  PROVE  Tcp!Api /\ UNCHANGED <<spurious_wakeups, pc, panic, poll_events, cur,
                                new_streams, disconnected_ids, dispatch_events>>
  BY DEF Operations, connect, listen, close_connection, close_listener,
     close_all_connections, close_all_listeners, close_all,
     shutdown_connection, shutdown_all_connections, send_to, send_to_many,
     broadcast, broadcast_except, broadcast_except_many, Send,
     Tcp!listen, Tcp!close_connection, Tcp!close_listener,
     Tcp!close_all_connections, Tcp!close_all_listeners, Tcp!close_all,
     Tcp!shutdown_connection, Tcp!shutdown_all_connections,
     Tcp!ShutdownConnections, Tcp!CloseConnections, Tcp!CloseListeners,
     Tcp!thread, Tcp!round, thread, round

\* The bytes that follow in a stream are numbers.
LEMMA NextBytesType ==
  ASSUME NEW s \in Seq(Nat), NEW n \in Nat
  PROVE  Tcp!NextBytes(s, n) \in Seq(Nat)
<1>1. Len(s) \in Nat
  BY LenProperties
<1>2. Tcp!NextBytes(s, n) \in [1..n -> Nat]
  BY <1>1 DEF Tcp!NextBytes
<1> QED
  BY <1>2, SeqDef

\* shutdown leaves what has arrived and the registered interest alone.
LEMMA ShutdownType ==
  ASSUME NEW s \in SocketRecords, NEW how
  PROVE  /\ Tcp!ShutdownSocket(s, how) \in SocketRecords
         /\ Tcp!ShutdownSocket(s, how).rx = s.rx
         /\ Tcp!ShutdownSocket(s, how).interest = s.interest
  BY DEF Tcp!ShutdownSocket, SocketRecords

\* queue_data
LEMMA ConnsQueue ==
  ASSUME Inv, NEW S, NEW n \in Nat, queue_data(S, n), UNCHANGED <<tls, wire, pc, cur>>,
         pc # "flush_new"
  PROVE  ConnsInv'
<1>0. TablesInv /\ ConnsInv /\ WorldTypes
  BY DEF Inv
<1> SUFFICES ASSUME NEW i \in DOMAIN connections'
             PROVE  Sound(i)'
  BY DEF ConnsInv
<1>1. i \in DOMAIN connections /\ i \in DOMAIN sock /\ i \in Ids
  BY <1>0, Zenon DEF queue_data, TablesInv
<1>2. Sound(i) /\ NewNow(i) = FALSE /\ NewNow(i)' = FALSE
  BY <1>0, <1>1 DEF ConnsInv, NewNow
<1>3. CASE i \in S
  <2> DEFINE b == Tcp!NextBytes(sent[i], n)
             c2 == [connections[i] EXCEPT !.send_buf = @ \o b, !.interest = @ \cup {"W"}]
             k2 == IF "W" \notin connections[i].interest
                   THEN [sock[i] EXCEPT !.interest = @ \cup {"W"}] ELSE sock[i]
  <2>1. b \in Seq(Nat)
    BY <1>2, SoundTypes, NextBytesType
  <2>2. connections'[i] = c2 /\ sock'[i] = k2 /\ sent'[i] = sent[i] \o b
    BY <1>1, <1>3, Zenon DEF queue_data, Reregistered
  <2>3. ConnectionInv(connections[i], sock[i], tls[i], wire[i], sent[i], FALSE)
    BY <1>2 DEF Sound
  <2> HIDE DEF b
  <2>4. ConnectionInv(c2, k2, tls[i], wire[i], sent[i] \o b, FALSE)
    <3> DEFINE c == connections[i]
               k == sock[i]
    <3>1. c2 = [c EXCEPT !.send_buf = @ \o b, !.interest = @ \cup {"W"}]
          /\ k2 = IF "W" \notin c.interest THEN [k EXCEPT !.interest = @ \cup {"W"}] ELSE k
      OBVIOUS
    <3>2. ConnectionInv(c, k, tls[i], wire[i], sent[i], FALSE)
      BY <2>3
    <3> HIDE DEF c, k, c2, k2
    <3> QED
      BY <2>1, <3>1, <3>2, Queued, Zenon
  <2> HIDE DEF c2, k2
  <2> QED
    BY <1>2, <2>2, <2>4 DEF Sound
<1>4. CASE i \notin S
  <2>1. Untouched(i)
    BY <1>1, <1>4, Zenon DEF queue_data, Reregistered, Untouched
  <2> QED
    BY <1>2, <2>1, UntouchedSound
<1> QED
  BY <1>3, <1>4

\* The operations of the interface keep the connections sound.
LEMMA ConnsOperations ==
  ASSUME Inv, Operations
  PROVE  ConnsInv'
<1>0. TablesInv /\ ConnsInv /\ WorldTypes
  BY DEF Inv
<1>00. /\ pc \in {"app", "requests"} /\ UNCHANGED <<pc, cur>> /\ SameCall
       /\ pc # "flush_new" /\ pc' # "flush_new"
       /\ \A j : NewNow(j)' = NewNow(j)
  BY OperationsCall DEF Tcp!Api, SameCall, NewNow
<1> USE <1>0, <1>00 DEF Tcp!tables, Tcp!kernel, Tcp!app, Tcp!histories
<1>1. CASE connect
  <2> DEFINE c == [connected |-> "NotConnected", interest |-> {"W"}, send_buf |-> <<>>]
  <2>1. Tcp!OpenSocket(c, "syn", "connecting") /\ tls' = Tcp!With(tls, next_id, ClientSession)
    BY <1>1 DEF connect
  <2>2. ConnectionInv(c, Fresh("syn", c.interest), ClientSession, <<>>, <<>>, FALSE)
    BY NewClient
  <2> HIDE DEF c
  <2> QED
    BY <2>1, <2>2, ConnsOpen DEF WorldTypes
<1>2. CASE listen
  BY <1>2, ConnsCalm DEF listen, Tcp!listen
<1>3. ASSUME NEW i \in Ids, close_connection(i)
      PROVE  ConnsInv'
  BY <1>3, ConnsDrop DEF close_connection, Tcp!close_connection
<1>4. ASSUME NEW S, Tcp!CloseListeners(S), UNCHANGED tls
      PROVE  ConnsInv'
  BY <1>4, ConnsCalm DEF Tcp!CloseListeners
<1>5. CASE close_all_connections
  BY <1>5, DropAll, ConnsDrop
     DEF close_all_connections, Tcp!close_all_connections, Tcp!CloseConnections
<1>6. CASE close_all
  <2>1. DOMAIN connections' = {}
    BY <1>6, WithoutEntries, ZenonT(60) DEF close_all, Tcp!close_all
  <2> QED
    BY <2>1 DEF ConnsInv
<1>7. ASSUME NEW how, NEW S, Tcp!ShutdownConnections(S, how), UNCHANGED tls
      PROVE  ConnsInv'
  <2>1. ASSUME NEW j \in DOMAIN connections
        PROVE  /\ sock'[j] \in SocketRecords
               /\ sock'[j].rx = sock[j].rx /\ sock'[j].interest = sock[j].interest
    <3>1. sock[j] \in SocketRecords /\ j \in DOMAIN sock
      BY SoundTypes DEF ConnsInv, TablesInv
    <3>2. sock'[j] = sock[j] \/ sock'[j] = Tcp!ShutdownSocket(sock[j], how)
      BY <1>7, <3>1 DEF Tcp!ShutdownConnections
    <3> QED
      BY <3>1, <3>2, ShutdownType
  <2> QED
    BY <1>7, <2>1, ConnsSocket DEF Tcp!ShutdownConnections
<1>8. ASSUME NEW S, NEW n \in 0..MaxSend, Send(S, n)
      PROVE  ConnsInv'
  <2>1. n \in Nat
    BY TlsLimitAssumption, SMTT(60)
  <2> QED
    BY <1>8, <2>1, ConnsQueue DEF Send
<1> QED
  BY <1>1, <1>2, <1>3, <1>4, <1>5, <1>6, <1>7, <1>8
     DEF Operations, close_listener, close_all_listeners, shutdown_connection,
         shutdown_all_connections, Tcp!close_listener, Tcp!close_all_listeners,
         Tcp!shutdown_connection, Tcp!shutdown_all_connections, send_to,
         send_to_many, broadcast, broadcast_except, broadcast_except_many

-----------------------------------------------------------------------------
(* The kernel and the peers.                                               *)

\* The peers and the kernel change nothing but sockets, sessions, listeners and
\* the selector.
LEMMA PeersCall ==
  ASSUME Peers
  PROVE  UNCHANGED <<connections, next_id, spurious_wakeups, pc, panic, poll_events,
                     cur, new_streams, disconnected_ids, dispatch_events, view,
                     sent, wire, got>>
  BY ZenonT(60) DEF Peers, ConnectCompletes, ConnectRefused, PeerConnects, PeerWrites,
     PeerCloses, PeerResets, RoomFreed, PeerHandshakes, PeerSendsTicket,
     PeerRejects, PeerNotifies, Arrive, Tcp!KernelStep, Tcp!ConnectCompletes,
     Tcp!ConnectRefused, Tcp!PeerConnects, Tcp!PeerCloses, Tcp!PeerResets,
     Tcp!thread, Tcp!round, Tcp!histories

\* A socket with another phase or more room.
Alike(k, s) == k \in SocketRecords /\ k.rx = s.rx /\ k.interest = s.interest

\* What the kernel does to a socket on its own is none of the session's concern.
LEMMA SocketUpdate ==
  ASSUME NEW s \in SocketRecords
  PROVE  /\ Alike(s, s)
         /\ \A ph \in {"est", "err"} : Alike([s EXCEPT !.phase = ph], s)
         /\ Alike([s EXCEPT !.room = @ + 1], s)
<1>1. ASSUME NEW ph \in {"est", "err"}
      PROVE  Alike([s EXCEPT !.phase = ph], s)
  BY DEF SocketRecords, Alike
<1>2. ASSUME NEW r \in Nat
      PROVE  Alike([s EXCEPT !.room = r], s)
  BY DEF SocketRecords, Alike
<1>3. s.room + 1 \in Nat
  BY DEF SocketRecords
<1> QED
  BY <1>1, <1>2, <1>3 DEF Alike

\* The kernel keeps the connections sound when it moves a socket on,
LEMMA ConnsSocketStep ==
  ASSUME Inv, NEW i, i \in DOMAIN sock, Peers, UNCHANGED tls,
         \/ \E ph \in {"est", "err"} : sock' = [sock EXCEPT ![i].phase = ph]
         \/ sock' = [sock EXCEPT ![i].room = @ + 1]
  PROVE  ConnsInv'
<1>0. TablesInv /\ ConnsInv
  BY DEF Inv
<1>1. UNCHANGED <<connections, tls, wire, sent>> /\ SameCall
  BY PeersCall DEF SameCall
<1>2. ASSUME NEW j \in DOMAIN connections
      PROVE  /\ sock'[j] \in SocketRecords
             /\ sock'[j].rx = sock[j].rx /\ sock'[j].interest = sock[j].interest
  <2>1. sock[j] \in SocketRecords /\ j \in DOMAIN sock
    BY <1>0, SoundTypes DEF ConnsInv, TablesInv
  <2>2. \/ sock'[j] = sock[j]
        \/ \E ph \in {"est", "err"} : sock'[j] = [sock[j] EXCEPT !.phase = ph]
        \/ sock'[j] = [sock[j] EXCEPT !.room = @ + 1]
    BY <2>1
  <2>3. Alike(sock'[j], sock[j])
    BY <2>1, <2>2, SocketUpdate, SMTT(60)
  <2> QED
    BY <2>3 DEF Alike
<1> QED
  BY <1>0, <1>1, <1>2, ConnsSocket

\* and when it appends what the peer sends in turn.
LEMMA ConnsArrive ==
  ASSUME Inv, NEW i, NEW units, NEW far, Arrive(i, units, far), Peers,
         MayArrive(sock[i], tls[i], units, far)
  PROVE  ConnsInv'
<1>0. TablesInv /\ ConnsInv
  BY DEF Inv
<1>1. UNCHANGED <<connections, wire, sent>> /\ SameCall
  BY PeersCall DEF SameCall
<1>2. i \in DOMAIN sock /\ i \in DOMAIN connections /\ i \in DOMAIN tls
      /\ DOMAIN sock = DOMAIN connections /\ DOMAIN tls = DOMAIN connections
  BY <1>0 DEF Arrive, TablesInv
<1> DEFINE k == sock[i]
           s == tls[i]
           k2 == Fed(k, units)
           s2 == Ahead(s, far)
<1>3. /\ sock'[i] = k2 /\ tls'[i] = s2
      /\ \A j \in DOMAIN connections \ {i} : sock'[j] = sock[j] /\ tls'[j] = tls[j]
  BY <1>2 DEF Arrive, Fed, Ahead
<1>4. \A j \in DOMAIN connections \ {i} : Untouched(j) /\ NewNow(j)' = NewNow(j)
  BY <1>1, <1>3, SameCallNew DEF Untouched
<1>5. Sound(i)'
  <2>1. Sound(i) /\ NewNow(i) \in BOOLEAN /\ NewNow(i)' = NewNow(i)
    BY <1>0, <1>1, <1>2, SameCallNew, NewNowBoolean DEF ConnsInv
  <2>3. ConnectionInv(connections[i], k, s, wire[i], sent[i], NewNow(i))
    BY <2>1 DEF Sound
  <2>5. ConnectionInv(connections[i], k2, s2, wire[i], sent[i], NewNow(i))
    <3> DEFINE c == connections[i]
               w == wire[i]
               t == sent[i]
               new == NewNow(i)
    <3>1. ConnectionInv(c, k, s, w, t, new) /\ new \in BOOLEAN
      BY <2>1, <2>3
    <3>2. MayArrive(k, s, units, far)
      OBVIOUS
    <3> HIDE DEF k, s, c, w, t, new
    <3>3. ConnectionInv(c, k2, s2, w, t, new)
      BY <3>1, <3>2, Arrived
    <3> QED
      BY <3>3 DEF c, w, t, new
  <2> HIDE DEF k, s, k2, s2
  <2> QED
    BY <1>1, <1>3, <2>1, <2>5 DEF Sound
<1> QED
  BY <1>0, <1>1, <1>4, <1>5, ConnsOne

\* The handshake of a sound connection.
LEMMA SoundHandshake ==
  ASSUME NEW i, Sound(i)
  PROVE  /\ Stage(tls[i].role, tls[i].flights, Flights(tls[i].out), tls[i].far,
                  Flights(sock[i].rx))
         /\ tls[i].far \in 0..4 /\ tls[i].flights \in 0..3
         /\ Flights(sock[i].rx) \in Seq(Nat)
  BY SoundTypes, FlightsParts DEF Sound, ConnectionInv, Handshaken, Sessions

\* A peer through with the handshake sends data in turn.
LEMMA MayWrite ==
  ASSUME NEW i, Sound(i), tls[i].far >= 3, NEW n \in Nat, NEW p \in Parts
  PROVE  MayArrive(sock[i], tls[i], Fragments(Unit("data", n), p), tls[i].far)
<1> DEFINE u == Unit("data", n)
           units == Fragments(u, p)
           s == tls[i]
           k == sock[i]
<1>1. /\ Stage(s.role, s.flights, Flights(s.out), s.far, Flights(k.rx))
      /\ s.far \in 0..4 /\ s.flights \in 0..3 /\ Flights(k.rx) \in Seq(Nat)
  BY SoundHandshake
<1>2. u \in Units /\ u.kind = "data"
  BY SingleUnit
<1> HIDE DEF u
<1>3. units \in Seq(Units) /\ Flights(units) = <<>>
  BY <1>2, FragmentsParts
<1>4. Flights(k.rx) \o Flights(units) = Flights(k.rx)
  BY <1>1, <1>3, ConcatEmptySeq
<1> HIDE DEF units, s, k
<1>5. is_handshaking(s) => s.far = 3 /\ Flights(k.rx) # <<>>
  <2> DEFINE r == s.role
             f == s.flights
             far == s.far
             o == Flights(s.out)
             x == Flights(k.rx)
  <2>1. Stage(r, f, o, far, x) /\ far >= 3
    BY <1>1 DEF s
  <2> HIDE DEF r, f, far, o, x
  <2>2. f # 3 => far = 3 /\ x = <<3>>
    BY <2>1 DEF Stage
  <2>3. <<3>> # <<>>
    OBVIOUS
  <2> QED
    BY <2>2, <2>3 DEF is_handshaking, f, far, x
<1>6. MayArrive(k, s, units, s.far)
  BY <1>1, <1>3, <1>4, <1>5 DEF MayArrive
<1> QED
  BY <1>6 DEF k, s, units, u

\* A peer that has received a flight sends the next one in turn.
LEMMA MayHandshake ==
  ASSUME NEW i, Sound(i),
         tls[i].far \in (IF tls[i].role = "client" THEN {1} ELSE {0, 2}),
         NEW p \in Parts
  PROVE  MayArrive(sock[i], tls[i], Fragments(Unit("hs", tls[i].far + 1), p),
                   tls[i].far + 1)
<1> DEFINE s == tls[i]
           k == sock[i]
           u == Unit("hs", s.far + 1)
           units == Fragments(u, p)
<1>1. /\ Stage(s.role, s.flights, Flights(s.out), s.far, Flights(k.rx))
      /\ s.far \in 0..4 /\ s.flights \in 0..3 /\ Flights(k.rx) \in Seq(Nat)
  BY SoundHandshake
<1>2. s.far \in (IF s.role = "client" THEN {1} ELSE {0, 2})
  OBVIOUS
<1>3. u \in Units /\ u.kind = "hs" /\ u.n = s.far + 1
  BY <1>1, SingleUnit
<1> HIDE DEF u
<1>4. units \in Seq(Units) /\ Flights(units) = <<s.far + 1>> /\ DataOf(units) = <<>>
  BY <1>3, FragmentsParts
<1> HIDE DEF units, s, k
<1>5. Flights(k.rx) = <<>>
  BY <1>1, <1>2 DEF Stage
<1>6. <<s.far + 1>> \in Seq(Nat)
  BY <1>1
<1>7. Flights(k.rx) \o Flights(units) = <<s.far + 1>>
  BY <1>4, <1>5, <1>6, ConcatEmptySeq
<1>8. Stage(s.role, s.flights, Flights(s.out), s.far + 1, <<s.far + 1>>)
  <2>1. CASE s.role = "client"
    <3>1. s.far = 1 /\ s.flights = 1 /\ Flights(s.out) = <<>>
      BY <1>1, <1>2, <2>1 DEF Stage
    <3> QED
      BY <2>1, <3>1 DEF Stage
  <2>2. CASE s.role # "client" /\ s.far = 0
    <3>1. s.role = "server" /\ s.flights = 0 /\ Flights(s.out) = <<>>
      BY <1>1, <1>5, <2>2 DEF Stage
    <3> QED
      BY <2>2, <3>1 DEF Stage
  <2>3. CASE s.role # "client" /\ s.far = 2
    <3>1. s.role = "server" /\ s.flights = 2 /\ Flights(s.out) = <<>>
      BY <1>1, <1>5, <2>3 DEF Stage
    <3> QED
      BY <2>3, <3>1 DEF Stage
  <2> QED
    BY <1>2, <2>1, <2>2, <2>3
<1>9. s.far + 1 \in 0..4 /\ s.far <= s.far + 1
  BY <1>1, <1>2
<1>10. MayArrive(k, s, units, s.far + 1)
  BY <1>4, <1>7, <1>8, <1>9 DEF MayArrive
<1> QED
  BY <1>10 DEF k, s, units, u

\* Tickets and garbage change the stage of no handshake.
LEMMA MayAppend ==
  ASSUME NEW i, Sound(i), NEW kind \in {"empty", "bad"}, NEW far,
         far = tls[i].far \/ (tls[i].role = "client" /\ tls[i].far = 3 /\ far = 4)
  PROVE  MayArrive(sock[i], tls[i], <<Unit(kind, 0)>>, far)
<1> DEFINE s == tls[i]
           k == sock[i]
           units == <<Unit(kind, 0)>>
<1>1. /\ Stage(s.role, s.flights, Flights(s.out), s.far, Flights(k.rx))
      /\ s.far \in 0..4 /\ s.flights \in 0..3 /\ Flights(k.rx) \in Seq(Nat)
  BY SoundHandshake
<1>2. units \in Seq(Units) /\ Flights(units) = <<>> /\ DataOf(units) = <<>>
  BY OneUnit
<1>3. far = s.far \/ (s.role = "client" /\ s.far = 3 /\ far = 4)
  OBVIOUS
<1> HIDE DEF units, s, k
<1>4. Flights(k.rx) \o Flights(units) = Flights(k.rx)
  BY <1>1, <1>2, ConcatEmptySeq
<1>5. Stage(s.role, s.flights, Flights(s.out), far, Flights(k.rx))
  <2>1. CASE far = s.far
    BY <1>1, <2>1
  <2>2. CASE s.role = "client" /\ s.far = 3 /\ far = 4
    <3>1. s.flights = 3 /\ Flights(s.out) = <<>> /\ Flights(k.rx) = <<>>
      BY <1>1, <2>2 DEF Stage
    <3> QED
      BY <2>2, <3>1 DEF Stage
  <2> QED
    BY <1>3, <2>1, <2>2
<1>6. far \in 0..4 /\ s.far <= far
  BY <1>1, <1>3
<1>7. MayArrive(k, s, units, far)
  BY <1>2, <1>4, <1>5, <1>6 DEF MayArrive
<1> QED
  BY <1>7 DEF k, s, units

\* The peers keep the connections sound.
LEMMA ConnsPeers ==
  ASSUME Inv, Peers
  PROVE  ConnsInv'
<1>0. TablesInv /\ ConnsInv /\ WorldTypes
  BY DEF Inv
<1>1. UNCHANGED <<connections, wire, sent>> /\ SameCall
  BY PeersCall DEF SameCall
<1>2. PICK i \in Ids :
        \/ ConnectCompletes(i) \/ ConnectRefused(i) \/ PeerConnects(i)
        \/ PeerWrites(i) \/ PeerCloses(i) \/ PeerResets(i) \/ RoomFreed(i)
        \/ PeerHandshakes(i) \/ PeerSendsTicket(i) \/ PeerRejects(i)
        \/ PeerNotifies(i)
  BY DEF Peers
<1>3. i \in DOMAIN tls => Sound(i)
  BY <1>0 DEF TablesInv, ConnsInv
<1>4. CASE PeerConnects(i) \/ PeerCloses(i)
  BY <1>0, <1>1, <1>4, ConnsCalm DEF PeerConnects, PeerCloses, Tcp!PeerConnects,
     Tcp!PeerCloses
<1>5. CASE ConnectCompletes(i) \/ ConnectRefused(i) \/ PeerResets(i)
  BY <1>5, ConnsSocketStep DEF ConnectCompletes, ConnectRefused, PeerResets,
     Tcp!ConnectCompletes, Tcp!ConnectRefused, Tcp!PeerResets
<1>6. CASE RoomFreed(i)
  BY <1>6, ConnsSocketStep DEF RoomFreed
<1>7. CASE PeerWrites(i)
  <2>1. Len(fed[i]) + 1 \in Nat
    BY <1>0, LenProperties DEF WorldTypes
  <2>2. Sound(i) /\ tls[i].far >= 3
    BY <1>3, <1>7 DEF PeerWrites, PeerReady
  <2>3. PICK p \in Parts :
          Arrive(i, Fragments(Unit("data", Len(fed[i]) + 1), p), tls[i].far)
    BY <1>7 DEF PeerWrites
  <2>4. MayArrive(sock[i], tls[i], Fragments(Unit("data", Len(fed[i]) + 1), p), tls[i].far)
    BY <2>1, <2>2, MayWrite
  <2> QED
    BY <1>7, <2>3, <2>4, ConnsArrive DEF PeerWrites
<1>8. CASE PeerHandshakes(i)
  <2>1. PICK p \in Parts :
          Arrive(i, Fragments(Unit("hs", tls[i].far + 1), p), tls[i].far + 1)
    BY <1>8 DEF PeerHandshakes
  <2>2. MayArrive(sock[i], tls[i], Fragments(Unit("hs", tls[i].far + 1), p), tls[i].far + 1)
    BY <1>3, <1>8, MayHandshake DEF PeerHandshakes
  <2> QED
    BY <1>8, <2>1, <2>2, ConnsArrive DEF PeerHandshakes
<1>9. CASE PeerSendsTicket(i)
  <2>1. MayArrive(sock[i], tls[i], <<Unit("empty", 0)>>, 4)
    BY <1>3, <1>9, MayAppend DEF PeerSendsTicket
  <2> QED
    BY <1>9, <2>1, ConnsArrive DEF PeerSendsTicket
<1>10. CASE PeerRejects(i)
  <2>1. MayArrive(sock[i], tls[i], <<Unit("bad", 0)>>, tls[i].far)
    BY <1>3, <1>10, MayAppend DEF PeerRejects
  <2> QED
    BY <1>10, <2>1, ConnsArrive DEF PeerRejects
<1>11. CASE PeerNotifies(i)
  <2>1. MayArrive(sock[i], tls[i], <<Unit("empty", 0)>>, tls[i].far)
    BY <1>3, <1>11, MayAppend DEF PeerNotifies
  <2> QED
    BY <1>11, <2>1, ConnsArrive DEF PeerNotifies
<1> QED
  BY <1>2, <1>4, <1>5, <1>6, <1>7, <1>8, <1>9, <1>10, <1>11

-----------------------------------------------------------------------------
(* fetch_events, read_connection and write_connection.                     *)

\* What read_connection makes of one connection.
LEMMA ConnsRead ==
  ASSUME Inv, NEW e \in poll_events, ReadData(e)
  PROVE  ConnsInv'
<1>0. TablesInv /\ ConnsInv /\ RoundInv
  BY DEF Inv
<1> DEFINE i == e.id
           r == ReadLoop(i)
           s == SessionAfter(i, r)
           c == connections[i]
           k == sock[i]
<1>1. i \in DOMAIN connections /\ c.connected # "NotConnected" /\ pc = "events"
      /\ UNCHANGED <<wire, sent>>
  BY <1>0 DEF ReadData, ReadConnection, Tcp!IsConnection, Tcp!Take, RoundInv, app
<1>2. pc' # "flush_new"
  BY DEF ReadData, Tcp!track_spurious_wakeup, Tcp!Panic
<1>3. \A j : NewNow(j)' = FALSE /\ NewNow(j) = FALSE
  BY <1>1, <1>2 DEF NewNow
<1>4. Sound(i)
  BY <1>0, <1>1 DEF ConnsInv
<1>5. r.units \in 0..Len(k.rx)
  <2>1. sock[i].rx \in Seq(Units)
    BY <1>4, SoundTypes
  <2> HIDE DEF i
  <2> QED
    BY <2>1, ReadLoopFacts
<1>6. Settle(i, s, c.send_buf, SocketRead(k, r.units))
  BY DEF ReadData, SocketRead
<1>7. s = ProcessAll(tls[i], SubSeq(k.rx, 1, r.units))
  BY DEF SessionAfter
<1>8. ConnectionInv(c, k, tls[i], wire[i], sent[i], FALSE)
  BY <1>3, <1>4 DEF Sound
<1> DEFINE u == r.units
<1> HIDE DEF u, r
<1>9. ConnectionInv(SettledConnection(c, s, c.send_buf),
                    SettledSocket(c, SocketRead(k, u), s, c.send_buf),
                    s, wire[i], sent[i], FALSE)
  <2>1. u \in 0..Len(k.rx) /\ s = ProcessAll(tls[i], SubSeq(k.rx, 1, u))
    BY <1>5, <1>7 DEF u
  <2> HIDE DEF s, c, k
  <2>2. FALSE \in BOOLEAN /\ c.connected # "NotConnected"
    BY <1>1 DEF c
  <2> QED
    BY <1>8, <2>1, <2>2, ReadSettled
<1>10. /\ DOMAIN connections' = DOMAIN connections
       /\ connections'[i] = SettledConnection(c, s, c.send_buf)
       /\ sock'[i] = SettledSocket(c, SocketRead(k, u), s, c.send_buf) /\ tls'[i] = s
       /\ \A j \in DOMAIN connections \ {i} :
            connections'[j] = connections[j] /\ sock'[j] = sock[j] /\ tls'[j] = tls[j]
  <2> HIDE DEF s, k, i
  <2> QED
    BY <1>0, <1>1, <1>6, SettleEntries DEF u
<1> HIDE DEF s, c, k, i
<1>11. Sound(i)'
  BY <1>1, <1>3, <1>9, <1>10 DEF Sound
<1>12. \A j \in DOMAIN connections \ {i} : Untouched(j) /\ NewNow(j)' = NewNow(j)
  BY <1>1, <1>3, <1>10 DEF Untouched
<1> QED
  BY <1>0, <1>10, <1>11, <1>12, ConnsOne

\* What write_connection's loop does: n units written, m bytes moved.
WriteStep(i, n, m) ==
  LET p == Plaintext(i)
      s == tls[i]
      t == SessionWritten(s, p, n, m)
  IN /\ WriteRange(sock[i], s, p, n, m)
     /\ Settle(i, t, Unsent(connections[i].send_buf, m), SocketWritten(sock[i], n))
     /\ wire' = [wire EXCEPT ![i] = @ \o DataOf(Written(s, p, n))]
     /\ dispatch_events' = dispatch_events \o ConnectedIfNew(i, connections[i], t)

\* The plaintext offered to a session is a sequence of units.
LEMMA PlaintextType ==
  ASSUME NEW i, Sound(i)
  PROVE  Plaintext(i) \in Seq(Units)
<1>1. connections[i].send_buf \in Seq(Nat) /\ <<>> \in Seq(Units)
  BY SoundTypes, EmptySeq
<1>2. DataUnits(connections[i].send_buf) \in Seq(Units)
  BY <1>1, DataUnitsParts
<1> QED
  BY <1>1, <1>2 DEF Plaintext

\* write_connection is a step of WriteStep's form: it writes n units and moves m.
LEMMA WriteEffect ==
  ASSUME Inv, WriteData
  PROVE  cur \in DOMAIN connections /\ \E n, m \in Nat : WriteStep(cur, n, m)
<1>0. TablesInv /\ ConnsInv
  BY DEF Inv
<1>1. cur \in DOMAIN connections
  BY Zenon DEF WriteData, Writing
<1>2. Sound(cur)
  BY <1>0, <1>1 DEF ConnsInv
<1> DEFINE s == tls[cur]
           p == Plaintext(cur)
           buf == connections[cur].send_buf
           all == s.out \o p
           n == IF sock[cur].wrshut THEN 0 ELSE Tcp!Least(sock[cur].room, Len(all))
           o == Len(s.out)
           full == IF o - n > SessionRoom THEN o - n ELSE SessionRoom
           kept == Tcp!Least(Len(all) - n, full)
           m == IF n + kept > o THEN n + kept - o ELSE 0
           written == SubSeq(all, 1, n)
           t == [s EXCEPT !.out = SubSeq(all, n + 1, n + kept), !.far = Advance(@, written)]
<1>3. /\ Settle(cur, t, Unsent(buf, m), [sock[cur] EXCEPT !.room = @ - n])
      /\ wire' = [wire EXCEPT ![cur] = @ \o DataOf(written)]
      /\ dispatch_events' = dispatch_events \o ConnectedIfNew(cur, connections[cur], t)
  BY Zenon DEF WriteData
<1>4. s.out \in Seq(Units) /\ p \in Seq(Units) /\ sock[cur].room \in Nat
  BY <1>2, SoundTypes, PlaintextType
<1>5. o \in Nat /\ Len(p) \in Nat /\ Len(all) = o + Len(p)
  BY <1>4, ConcatProperties, LenProperties
<1>6. n \in Nat /\ n <= Len(all) /\ n <= sock[cur].room
  <2> HIDE DEF all, o
  <2> QED
    BY <1>4, <1>5 DEF Tcp!Least
<1>7. m \in 0..Len(p) /\ n + kept = o + m /\ n <= o + m
  <2> DEFINE q == Len(p)
  <2> HIDE DEF n, o, q, all
  <2>1. o \in Nat /\ q \in Nat /\ n \in Nat /\ n <= o + q /\ Len(all) = o + q
    BY <1>5, <1>6 DEF q
  <2>2. SessionRoom \in Nat
    BY TlsLimitAssumption
  <2>3. full \in Nat /\ full >= o - n
    BY <2>1, <2>2
  <2> HIDE DEF full
  <2>4. kept \in Nat /\ n + kept <= o + q /\ n + kept >= o
    BY <2>1, <2>3 DEF Tcp!Least
  <2> HIDE DEF kept
  <2>5. m \in 0..q /\ n + kept = o + m /\ n <= o + m
    BY <2>1, <2>4
  <2> QED
    BY <2>5 DEF q
<1> HIDE DEF n, m, kept
<1>8. m \in Nat /\ WriteRange(sock[cur], s, p, n, m)
  BY <1>5, <1>6, <1>7 DEF WriteRange
<1>9. t = SessionWritten(s, p, n, m) /\ written = Written(s, p, n)
  BY <1>7 DEF SessionWritten, Written
<1>10. [sock[cur] EXCEPT !.room = @ - n] = SocketWritten(sock[cur], n)
  BY DEF SocketWritten
<1>11. WriteStep(cur, n, m)
  BY <1>3, <1>8, <1>9, <1>10 DEF WriteStep
<1> QED
  BY <1>1, <1>6, <1>8, <1>11

\* write_connection keeps the connections sound,
LEMMA ConnsWrite ==
  ASSUME Inv, WriteData
  PROVE  ConnsInv'
<1>0. TablesInv /\ ConnsInv /\ WorldTypes
  BY DEF Inv
<1>1. PICK n \in Nat, m \in Nat : WriteStep(cur, n, m)
  BY WriteEffect
<1> DEFINE c == connections[cur]
           k == sock[cur]
           s == tls[cur]
           p == Plaintext(cur)
           s2 == SessionWritten(s, p, n, m)
           buf == Unsent(c.send_buf, m)
           w2 == wire[cur] \o DataOf(Written(s, p, n))
<1>2. cur \in DOMAIN connections /\ c.connected # "NotConnected"
      /\ pc' # "flush_new" /\ UNCHANGED <<cur, sent>>
  BY Zenon DEF WriteData, Writing, Tcp!track_spurious_wakeup
<1>3. Sound(cur)
  BY <1>0, <1>2 DEF ConnsInv
<1>4. ConnectionInv(c, k, s, wire[cur], sent[cur], NewNow(cur)) /\ NewNow(cur) \in BOOLEAN
  BY <1>3, NewNowBoolean DEF Sound
<1>5. p = (IF c.connected = "TlsConnected" THEN DataUnits(c.send_buf) ELSE <<>>)
  BY DEF Plaintext
<1>6. WriteRange(k, s, p, n, m)
  BY <1>1 DEF WriteStep
<1>7. ConnectionInv(SettledConnection(c, s2, buf),
                    SettledSocket(c, SocketWritten(k, n), s2, buf),
                    s2, w2, sent[cur], FALSE)
  <2>1. s2 = SessionWritten(s, p, n, m) /\ buf = Unsent(c.send_buf, m)
    OBVIOUS
  <2> HIDE DEF s2, buf, p, c, k, s
  <2>2. c.connected # "NotConnected"
    BY <1>2 DEF c
  <2> QED
    BY <1>4, <1>5, <1>6, <2>1, <2>2, WriteSettled
<1>8. Settle(cur, s2, buf, SocketWritten(k, n))
  BY <1>1 DEF WriteStep
<1>9. wire'[cur] = w2 /\ \A j \in DOMAIN connections \ {cur} : wire'[j] = wire[j]
  <2>1. wire' = [wire EXCEPT ![cur] = @ \o DataOf(Written(s, p, n))]
    BY <1>1 DEF WriteStep
  <2>2. cur \in Ids /\ DOMAIN connections \subseteq Ids /\ DOMAIN wire = Ids
    BY <1>0, <1>2 DEF TablesInv, WorldTypes
  <2> HIDE DEF s, p
  <2> QED
    BY <2>1, <2>2
<1>10. /\ DOMAIN connections' = DOMAIN connections
       /\ connections'[cur] = SettledConnection(c, s2, buf)
       /\ sock'[cur] = SettledSocket(c, SocketWritten(k, n), s2, buf) /\ tls'[cur] = s2
       /\ \A j \in DOMAIN connections \ {cur} :
            connections'[j] = connections[j] /\ sock'[j] = sock[j] /\ tls'[j] = tls[j]
  <2> HIDE DEF s2, buf, k
  <2> QED
    BY <1>0, <1>2, <1>8, SettleEntries
<1> HIDE DEF s2, buf, k, c, w2
<1>11. Sound(cur)'
  <2>1. NewNow(cur)' = FALSE
    BY <1>2 DEF NewNow
  <2> QED
    BY <1>2, <1>7, <1>9, <1>10, <2>1 DEF Sound
<1>12. \A j \in DOMAIN connections \ {cur} : Untouched(j) /\ NewNow(j)' = NewNow(j)
  BY <1>2, <1>9, <1>10 DEF Untouched, NewNow
<1>13. PICK i : i = cur
  OBVIOUS
<1>14. Sound(i)'
  BY <1>2, <1>11, <1>13 DEF Sound, NewNow
<1> QED
  BY <1>0, <1>10, <1>12, <1>13, <1>14, ConnsOne

\* so does the end of a non-blocking connect,
LEMMA ConnsEstablished ==
  ASSUME Inv, ConnectEstablished
  PROVE  ConnsInv'
<1>0. TablesInv /\ ConnsInv
  BY DEF Inv
<1> DEFINE c == connections[cur]
           c2 == [c EXCEPT !.connected = "TcpConnected"]
<1>1. /\ cur \in DOMAIN connections /\ c.connected = "NotConnected"
      /\ connections' = [connections EXCEPT ![cur] = c2]
      /\ pc' = "flush_new" /\ UNCHANGED <<cur, sock, tls, wire, sent>>
  BY DEF ConnectEstablished, Writing, kernel, app, round
<1>2. Sound(cur) /\ NewNow(cur)' = TRUE /\ NewNow(cur) \in BOOLEAN
  BY <1>0, <1>1, NewNowBoolean DEF ConnsInv, NewNow
<1>3. ConnectionInv(c2, sock[cur], tls[cur], wire[cur], sent[cur], TRUE)
  <2>1. c2 = [c EXCEPT !.connected = "TcpConnected"]
        /\ ConnectionInv(c, sock[cur], tls[cur], wire[cur], sent[cur], NewNow(cur))
    BY <1>2 DEF Sound
  <2> HIDE DEF c2, c
  <2>2. c.connected = "NotConnected"
    BY <1>1 DEF c
  <2> QED
    BY <1>2, <2>1, <2>2, FoundUp
<1> HIDE DEF c2
<1>4. DOMAIN connections' = DOMAIN connections /\ connections'[cur] = c2
      /\ \A j \in DOMAIN connections \ {cur} : connections'[j] = connections[j]
  BY <1>1
<1>5. Sound(cur)'
  BY <1>1, <1>2, <1>3, <1>4 DEF Sound
<1>6. \A j \in DOMAIN connections \ {cur} : Untouched(j) /\ NewNow(j)' = NewNow(j)
  BY <1>1, <1>4 DEF Untouched, NewNow
<1>7. PICK i : i = cur
  OBVIOUS
<1>8. Sound(i)'
  BY <1>1, <1>5, <1>7 DEF Sound, NewNow
<1> QED
  BY <1>0, <1>4, <1>6, <1>7, <1>8, ConnsOne

\* every other step of the loop,
LEMMA ConnsLoop ==
  ASSUME Inv, Loop \/ AcceptFails \/ AppHandlesEvent \/ FetchEvents
  PROVE  ConnsInv'
<1>0. TablesInv /\ ConnsInv /\ WorldTypes
  BY SMTT(60) DEF Inv
<1> USE <1>0 DEF Tcp!tables, Tcp!kernel, Tcp!thread, Tcp!round, Tcp!app, Tcp!histories
<1>1. CASE ReportInactive \/ Poll \/ PollFails \/ EventsDone
           \/ AppHandlesEvent \/ FetchEvents
  BY <1>1, ConnsCalm DEF ReportInactive, Poll, PollFails, EventsDone,
       AppHandlesEvent, FetchEvents, SameCall,
       Tcp!ReportInactive, Tcp!Poll, Tcp!PollFails, Tcp!EventsDone,
       Tcp!AppHandlesEvent, Tcp!FetchEvents
<1>2. ASSUME NEW e \in poll_events,
             HandleListener(e) \/ SkipDisconnected(e) \/ HandleWritable(e)
      PROVE  ConnsInv'
  BY <1>2, ConnsCalm DEF HandleListener, SkipDisconnected, HandleWritable, SameCall,
       Tcp!HandleListener, Tcp!SkipDisconnected, Tcp!HandleWritable, Tcp!Take, Tcp!Panic
<1>3. ASSUME NEW e \in poll_events, HandshakeFails(e) \/ ReadDisconnected(e)
      PROVE  ConnsInv'
  <2>1. \A j : NewNow(j)' = NewNow(j)
    BY <1>3 DEF HandshakeFails, ReadDisconnected, ReadConnection, Tcp!Take, Tcp!Panic, NewNow
  <2> QED
    BY <1>3, <2>1, ConnsDrop DEF HandshakeFails, ReadDisconnected, DropConnection, app
<1>4. ASSUME NEW e \in poll_events, ReadData(e)
      PROVE  ConnsInv'
  BY <1>4, ConnsRead
<1>5. CASE AcceptStream \/ AcceptWouldBlock \/ RegisterLostStream \/ AcceptError
           \/ NodelayError
  BY <1>5, ConnsCalm DEF AcceptStream, AcceptWouldBlock, RegisterLostStream,
       AcceptError, NodelayError, SameCall, Tcp!AcceptStream, Tcp!AcceptWouldBlock,
       Tcp!RegisterLostStream, Tcp!AcceptError, Tcp!NodelayError, Tcp!ReturnError,
       Tcp!track_spurious_wakeup, Tcp!Panic
<1>6. CASE RegisterStream
  <2> DEFINE c == [connected |-> AcceptedStatus, interest |-> {"R"}, send_buf |-> <<>>]
  <2>1. Tcp!OpenSocket(c, "est", "new") /\ tls' = Tcp!With(tls, next_id, ServerSession)
        /\ pc # "flush_new" /\ pc' # "flush_new"
    BY <1>6 DEF RegisterStream, Tcp!track_spurious_wakeup
  <2>2. ConnectionInv(c, Fresh("est", c.interest), ServerSession, <<>>, <<>>, FALSE)
    BY NewServer
  <2> HIDE DEF c
  <2> QED
    BY <2>1, <2>2, ConnsOpen DEF WorldTypes
<1>7. CASE ConnectFailed \/ WriteFails
  <2>1. DropConnection(cur) /\ UNCHANGED <<cur, wire, sent>> /\ pc' = "events"
    BY <1>7 DEF ConnectFailed, WriteFails, GiveUp, app
  <2>2. \A j \in DOMAIN connections \ {cur} : NewNow(j)' = NewNow(j)
    BY <2>1 DEF NewNow
  <2> QED
    BY <2>1, <2>2, ConnsDrop DEF DropConnection
<1>8. CASE WriteUnknown
  BY <1>8, ConnsCalm DEF WriteUnknown, Tcp!Panic, SameCall, tables, kernel, app
<1> QED
  BY <1>1, <1>2, <1>3, <1>4, <1>5, <1>6, <1>7, <1>8, ConnsEstablished, ConnsWrite
     DEF Loop, HandleEvent, Accept, AcceptFails, Write

\* and every step.
LEMMA ConnsStep == Inv /\ [Next]_vars => ConnsInv'
<1>1. ASSUME Inv, UNCHANGED vars
      PROVE  ConnsInv'
  BY <1>1, ConnsCalm DEF Inv, vars, state, tables, kernel, app, thread, round, SameCall
<1> QED
  BY <1>1, ConnsOperations, ConnsLoop, ConnsPeers DEF Next

-----------------------------------------------------------------------------
(* The round.                                                              *)

\* Connections do not go back to the beginning of the handshake.
GoOn ==
  \A j \in DOMAIN connections' :
    \/ connections'[j].connected # "NotConnected"
    \/ j \in DOMAIN connections /\ connections[j].connected = "NotConnected"

\* A step that drops no connection but those it removes, and takes events of
\* the round without adding any, keeps the round consistent.
LEMMA RoundGoesOn ==
  ASSUME RoundInv, GoOn, poll_events' \subseteq poll_events,
         pc' \in {"app", "requests"} => poll_events' = {},
         pc' = "register" => new_streams' > 0
  PROVE  RoundInv'
  BY DEF RoundInv, GoOn

\* The connections that stay stay as they are.
LEMMA GoOnKept ==
  ASSUME \A j \in DOMAIN connections' :
           j \in DOMAIN connections /\ connections'[j] = connections[j]
  PROVE  GoOn
  BY DEF GoOn

\* Settling a connection leaves the others and their status alone.
LEMMA GoOnSettled ==
  ASSUME TablesInv, NEW i \in DOMAIN connections, NEW s, NEW buf, NEW k,
         Settle(i, s, buf, k)
  PROVE  GoOn
<1>1. /\ DOMAIN connections' = DOMAIN connections
      /\ connections'[i] = SettledConnection(connections[i], s, buf)
      /\ \A j \in DOMAIN connections \ {i} : connections'[j] = connections[j]
  BY SettleEntries
<1>2. connections'[i].connected \in {connections[i].connected, "TlsConnected"}
  BY <1>1 DEF SettledConnection, StatusOf
<1> QED
  BY <1>1, <1>2 DEF GoOn

\* A new round only has events of registered sources.
LEMMA RoundPoll ==
  ASSUME Inv, Poll
  PROVE  RoundInv'
<1>0. TablesInv /\ ConnsInv
  BY DEF Inv
<1>1. PICK S \in SUBSET Tcp!Reportable :
        poll_events' = UNION {Tcp!EventsOf(i) : i \in S}
  BY DEF Poll, Tcp!Poll
<1>2. ASSUME NEW i, NEW e \in Tcp!EventsOf(i), e.readable
      PROVE  e.id = i /\ Tcp!ReadReady(i)
  BY <1>2 DEF Tcp!EventsOf, Tcp!PollEvent
<1>3. ASSUME NEW i \in DOMAIN connections, Tcp!ReadReady(i)
      PROVE  connections[i].connected # "NotConnected"
  <2>1. "R" \in sock[i].interest
    BY <1>0, <1>3 DEF Tcp!ReadReady, TablesInv
  <2>2. Sound(i)
    BY <1>0 DEF ConnsInv
  <2> QED
    BY <2>1, <2>2 DEF Sound, ConnectionInv, Registered
<1>4. \A e \in poll_events' : e.readable /\ e.id \in DOMAIN connections
        => connections[e.id].connected # "NotConnected"
  BY <1>1, <1>2, <1>3
<1>5. pc' = "events" /\ UNCHANGED connections
  BY DEF Poll, Tcp!Poll, Tcp!tables
<1> QED
  BY <1>4, <1>5 DEF RoundInv

\* The operations leave the round alone,
LEMMA RoundOperations ==
  ASSUME Inv, Operations
  PROVE  RoundInv'
<1>1. Tcp!Api /\ UNCHANGED <<pc, poll_events, new_streams>>
  BY OperationsCall
<1> QED
  BY <1>1 DEF Tcp!Api, RoundInv, Inv

\* so do the peers,
LEMMA RoundPeers ==
  ASSUME Inv, Peers
  PROVE  RoundInv'
<1>1. UNCHANGED <<connections, pc, poll_events, new_streams>>
  BY PeersCall
<1> QED
  BY <1>1 DEF RoundInv, Inv

\* The connections after a step of the loop.
LEMMA LoopGoesOn ==
  ASSUME Inv, Loop \/ AcceptFails \/ AppHandlesEvent \/ FetchEvents
  PROVE  GoOn
<1>0. TablesInv
  BY DEF Inv
<1> USE <1>0 DEF Tcp!tables
<1>1. CASE UNCHANGED connections
  BY <1>1, GoOnKept, SMTT(60)
<1>2. CASE ReportInactive \/ Poll \/ PollFails \/ EventsDone
           \/ AppHandlesEvent \/ FetchEvents
  BY <1>1, <1>2 DEF ReportInactive, Poll, PollFails, EventsDone,
       AppHandlesEvent, FetchEvents, Tcp!ReportInactive, Tcp!Poll, Tcp!PollFails,
       Tcp!EventsDone, Tcp!AppHandlesEvent, Tcp!FetchEvents
<1>3. ASSUME NEW e \in poll_events,
             HandleListener(e) \/ SkipDisconnected(e) \/ HandleWritable(e)
      PROVE  GoOn
  BY <1>1, <1>3 DEF HandleListener, SkipDisconnected, HandleWritable,
       Tcp!HandleListener, Tcp!SkipDisconnected, Tcp!HandleWritable
<1>4. ASSUME NEW i, DropConnection(i)
      PROVE  GoOn
  BY <1>4, DropEntries, GoOnKept DEF DropConnection
<1>5. ASSUME NEW e \in poll_events,
             HandshakeFails(e) \/ ReadDisconnected(e) \/ ReadData(e)
      PROVE  GoOn
  <2>1. CASE ReadData(e)
    <3>1. e.id \in DOMAIN connections
      BY <2>1 DEF ReadData, ReadConnection, Tcp!IsConnection
    <3>2. PICK s, k : Settle(e.id, s, connections[e.id].send_buf, k)
      BY <2>1 DEF ReadData
    <3> QED
      BY <3>1, <3>2, GoOnSettled
  <2> QED
    BY <1>4, <1>5, <2>1 DEF HandshakeFails, ReadDisconnected
<1>6. CASE AcceptStream \/ AcceptWouldBlock \/ RegisterLostStream \/ AcceptError
           \/ NodelayError \/ WriteUnknown
  BY <1>1, <1>6 DEF AcceptStream, AcceptWouldBlock, RegisterLostStream,
       AcceptError, NodelayError, WriteUnknown, Tcp!AcceptStream,
       Tcp!AcceptWouldBlock, Tcp!RegisterLostStream, Tcp!AcceptError,
       Tcp!NodelayError, Tcp!ReturnError, tables
<1>7. CASE RegisterStream
  <2> DEFINE c == [connected |-> AcceptedStatus, interest |-> {"R"}, send_buf |-> <<>>]
  <2>1. Tcp!OpenSocket(c, "est", "new") /\ tls' = Tcp!With(tls, next_id, ServerSession)
    BY <1>7 DEF RegisterStream
  <2>2. c.connected # "NotConnected"
    BY DEF AcceptedStatus
  <2> HIDE DEF c
  <2>3. /\ DOMAIN connections' = DOMAIN connections \cup {next_id}
        /\ connections'[next_id] = c
        /\ \A j \in DOMAIN connections : connections'[j] = connections[j]
    BY <2>1, OpenEntries
  <2> QED
    BY <2>2, <2>3 DEF GoOn
<1>8. CASE ConnectFailed \/ WriteFails
  BY <1>4, <1>8 DEF ConnectFailed, WriteFails, GiveUp
<1>9. CASE ConnectEstablished
  <2>1. /\ DOMAIN connections' = DOMAIN connections
        /\ \A j \in DOMAIN connections \ {cur} : connections'[j] = connections[j]
        /\ cur \in DOMAIN connections /\ connections[cur].connected = "NotConnected"
    BY <1>9 DEF ConnectEstablished, Writing
  <2> QED
    BY <2>1 DEF GoOn
<1>10. CASE WriteData
  <2>1. PICK n \in Nat, m \in Nat : WriteStep(cur, n, m) /\ cur \in DOMAIN connections
    BY <1>10, WriteEffect
  <2>2. PICK s, buf, k : Settle(cur, s, buf, k)
    BY <2>1 DEF WriteStep
  <2> QED
    BY <2>1, <2>2, GoOnSettled
<1> QED
  BY <1>2, <1>3, <1>5, <1>6, <1>7, <1>8, <1>9, <1>10
     DEF Loop, HandleEvent, Accept, AcceptFails, Write

\* the loop works it off,
LEMMA RoundLoop ==
  ASSUME Inv, Loop \/ AcceptFails \/ AppHandlesEvent \/ FetchEvents, ~Poll
  PROVE  RoundInv'
<1>0. RoundInv /\ new_streams \in Nat
  BY DEF Inv, LoopTypes
<1>1. GoOn
  BY LoopGoesOn
<1>2. /\ poll_events' \subseteq poll_events
      /\ pc' \in {"app", "requests"} => poll_events' = {}
      /\ pc' = "register" => new_streams' > 0
  <2> USE <1>0 DEF RoundInv, Tcp!thread, Tcp!round, round, Tcp!track_spurious_wakeup, Tcp!Panic
  <2>1. CASE ReportInactive \/ PollFails \/ EventsDone \/ AppHandlesEvent \/ FetchEvents
    BY <2>1 DEF ReportInactive, PollFails, EventsDone, AppHandlesEvent, FetchEvents,
       Tcp!ReportInactive, Tcp!PollFails, Tcp!EventsDone, Tcp!AppHandlesEvent,
       Tcp!FetchEvents
  <2>2. CASE HandleEvent
    BY <2>2 DEF HandleEvent, HandleListener, SkipDisconnected, HandleWritable,
       HandshakeFails, ReadDisconnected, ReadData, ReadConnection, Tcp!Take,
       Tcp!HandleListener, Tcp!SkipDisconnected, Tcp!HandleWritable
  <2>3. CASE AcceptStream \/ AcceptError \/ NodelayError \/ RegisterLostStream
    BY <2>3 DEF AcceptStream, AcceptError, NodelayError, RegisterLostStream,
       Tcp!AcceptStream, Tcp!AcceptError, Tcp!NodelayError, Tcp!ReturnError,
       Tcp!RegisterLostStream
  <2>4. CASE AcceptWouldBlock
    BY <2>4 DEF AcceptWouldBlock, Tcp!AcceptWouldBlock
  <2>5. CASE RegisterStream
    BY <2>5 DEF RegisterStream
  <2>6. CASE Write
    BY <2>6, Zenon DEF Write, WriteUnknown, ConnectFailed, ConnectEstablished, WriteFails,
       WriteData, GiveUp
  <2> QED
    BY <2>1, <2>2, <2>3, <2>4, <2>5, <2>6, SMTT(60) DEF Loop, Accept, AcceptFails
<1> QED
  BY <1>0, <1>1, <1>2, RoundGoesOn

\* and every step keeps it consistent.
LEMMA RoundStep == Inv /\ [Next]_vars => RoundInv'
<1>1. ASSUME Inv, UNCHANGED vars
      PROVE  RoundInv'
  BY <1>1 DEF Inv, RoundInv, vars, state, tables, thread, round
<1> QED
  BY <1>1, RoundOperations, RoundPeers, RoundLoop, RoundPoll DEF Next

-----------------------------------------------------------------------------
(* The types of the other variables.                                       *)

Types == ListenerTypes /\ LoopTypes /\ WorldTypes

\* The types are kept by a step that changes the tables only.
LEMMA TypesKept ==
  ASSUME Types,
         UNCHANGED <<listeners, spurious_wakeups, pc, panic, poll_events, cur,
                     new_streams, disconnected_ids, dispatch_events, peer, view,
                     sent, wire, fed, got>>,
         ready' \subseteq Ids
  PROVE  Types'
  BY DEF Types, ListenerTypes, LoopTypes, WorldTypes

\* The types of the events of a connection,
LEMMA EventTypes ==
  ASSUME NEW i \in Ids
  PROVE  /\ Tcp!Connected(i) \in Tcp!EventRecords
         /\ Tcp!ConnectionFailed(i) \in Tcp!EventRecords
         /\ Tcp!Disconnected(i) \in Tcp!EventRecords
         /\ \A d \in Seq(Nat) : Tcp!Data(i, d) \in Tcp!EventRecords
<1>1. i \in Tcp!Ids
  BY DEF Tcp!Ids, Ids
<1> QED
  BY <1>1 DEF Tcp!Connected, Tcp!ConnectionFailed, Tcp!Disconnected, Tcp!Data,
     Tcp!EventRecords

\* of those read_connection appends,
LEMMA ReadEventTypes ==
  ASSUME NEW i \in Ids, NEW d \in Seq(Nat)
  PROVE  /\ Tcp!DataIfAny(i, d) \in Seq(Tcp!EventRecords)
         /\ LastEvents(i, d) \in Seq(Tcp!EventRecords)
<1>1. Tcp!DataIfAny(i, d) \in Seq(Tcp!EventRecords)
  BY EventTypes, EmptySeq DEF Tcp!DataIfAny
<1>2. <<Tcp!Disconnected(i)>> \in Seq(Tcp!EventRecords)
  BY EventTypes
<1> QED
  BY <1>1, <1>2, ConcatProperties DEF LastEvents

\* and of the one that announces it.
LEMMA AnnounceTypes ==
  ASSUME NEW i \in Ids, NEW c, NEW s
  PROVE  ConnectedIfNew(i, c, s) \in Seq(Tcp!EventRecords)
  BY EventTypes, EmptySeq DEF ConnectedIfNew

\* What read_connection hands out.
LEMMA ReceivedType ==
  ASSUME Inv, NEW i \in DOMAIN connections
  PROVE  Received(i, ReadLoop(i)) \in Seq(Nat)
<1> DEFINE rx == sock[i].rx
           r == ReadLoop(i)
           d == DataOf(rx)
<1>1. rx \in Seq(Units)
  BY SoundTypes DEF Inv, ConnsInv
<1>2. r.units \in 0..Len(rx) /\ r.bytes \in 0..Available(rx, r.units)
  BY <1>1, ReadLoopFacts
<1>3. d \in Seq(Nat)
  BY <1>1, DataOfParts
<1> HIDE DEF r, rx
<1>4. Len(rx) \in Nat /\ Len(d) \in Nat
  BY <1>1, <1>3, LenProperties
<1>5. Available(rx, r.units) \in 0..r.units /\ Available(rx, r.units) <= Available(rx, Len(rx))
      /\ Available(rx, Len(rx)) = Len(d)
  BY <1>1, <1>2, <1>4, DataCount
<1> HIDE DEF d
<1>6. r.bytes \in 0..Len(d)
  BY <1>2, <1>4, <1>5
<1>7. SubSeq(d, 1, r.bytes) \in Seq(Nat)
  BY <1>3, <1>6, SplitAt
<1> QED
  BY <1>7 DEF Received, d, rx, r

\* track_spurious_wakeup counts, and may panic.
LEMMA TrackTypes ==
  ASSUME LoopTypes, NEW b \in BOOLEAN, NEW next, Tcp!track_spurious_wakeup(b, next)
  PROVE  /\ spurious_wakeups' \in Nat
         /\ pc' \in {next, "panic"}
         /\ panic' \in {panic, "spurious"}
  BY DEF LoopTypes, Tcp!track_spurious_wakeup

\* A new connection.
LEMMA OpenWorld ==
  ASSUME TablesInv, WorldTypes, NEW c, NEW p, NEW v \in {"new", "connecting"},
         Tcp!OpenSocket(c, p, v), UNCHANGED ready
  PROVE  WorldTypes'
  BY EmptySeq DEF WorldTypes, Tcp!OpenSocket, TablesInv

\* The types are kept by the operations of the interface,
LEMMA OperationsTypes ==
  ASSUME Inv, Operations
  PROVE  Types'
<1>0. TablesInv /\ ListenerTypes /\ LoopTypes /\ WorldTypes
  BY DEF Inv
<1>loop. LoopTypes'
  BY <1>0, OperationsCall DEF LoopTypes
<1> USE <1>0, <1>loop DEF Types, Tcp!tables, Tcp!kernel, Tcp!app, Tcp!histories
<1>1. CASE connect
  BY <1>1, OpenWorld DEF connect, ListenerTypes
<1>2. CASE listen
  <2>1. /\ DOMAIN listeners' = DOMAIN listeners \cup {next_id}
        /\ \A j \in DOMAIN listeners' :
             listeners'[j] = IF j = next_id THEN 0 ELSE listeners[j]
    BY <1>2 DEF listen, Tcp!listen, Tcp!With
  <2>2. ListenerTypes'
    BY <2>1 DEF ListenerTypes
  <2>3. WorldTypes'
    BY <1>2 DEF listen, Tcp!listen, WorldTypes
  <2> QED
    BY <2>2, <2>3
<1>3. ASSUME NEW i \in Ids, close_connection(i)
      PROVE  Types'
  BY <1>3 DEF close_connection, Tcp!close_connection, Tcp!DropSockets, ListenerTypes,
     WorldTypes, Tcp!Ended
<1>4. ASSUME NEW S, Tcp!CloseListeners(S)
      PROVE  Types'
  <2>1. /\ DOMAIN listeners' = DOMAIN listeners \ S
        /\ \A j \in DOMAIN listeners \ S : listeners'[j] = listeners[j]
    BY <1>4, WithoutEntries DEF Tcp!CloseListeners
  <2> QED
    BY <1>4, <2>1 DEF Tcp!CloseListeners, ListenerTypes, WorldTypes
<1>idset. Tcp!Ids = Ids
  BY DEF Tcp!Ids, Ids
<1>5. CASE close_all_connections
  BY <1>5, <1>idset DEF close_all_connections, Tcp!close_all_connections,
     Tcp!CloseConnections, Tcp!DropSockets, ListenerTypes, WorldTypes, Tcp!Ended
<1>6. CASE close_all
  <2>1. DOMAIN listeners' = {}
    BY <1>6, WithoutEntries, ZenonT(60) DEF close_all, Tcp!close_all
  <2> QED
    BY <1>6, <1>idset, <2>1 DEF close_all, Tcp!close_all, ListenerTypes, WorldTypes, Tcp!Ended
<1>7. ASSUME NEW how, NEW S, Tcp!ShutdownConnections(S, how)
      PROVE  Types'
  BY <1>7, <1>idset DEF Tcp!ShutdownConnections, ListenerTypes, WorldTypes, TablesInv
<1>8. ASSUME NEW S, NEW n \in 0..MaxSend, Send(S, n)
      PROVE  Types'
  <2>1. n \in Nat
    BY TlsLimitAssumption
  <2>2. sent' \in [Ids -> Seq(Nat)]
    <3>1. ASSUME NEW i \in Ids
          PROVE  sent[i] \o Tcp!NextBytes(sent[i], n) \in Seq(Nat) /\ sent[i] \in Seq(Nat)
      BY <2>1, NextBytesType, ConcatProperties DEF WorldTypes
    <3> QED
      BY <1>8, <3>1, Zenon DEF Send, queue_data
  <2>3. ready' \subseteq Ids
    BY <1>8, Zenon DEF Send, queue_data, Reregistered, WorldTypes, TablesInv
  <2> QED
    BY <1>8, <2>2, <2>3 DEF Send, ListenerTypes, WorldTypes
<1> QED
  BY <1>1, <1>2, <1>3, <1>4, <1>5, <1>6, <1>7, <1>8
     DEF Operations, close_listener, close_all_listeners, shutdown_connection,
         shutdown_all_connections, Tcp!close_listener, Tcp!close_all_listeners,
         Tcp!shutdown_connection, Tcp!shutdown_all_connections, send_to,
         send_to_many, broadcast, broadcast_except, broadcast_except_many

\* by the peers and the kernel,
LEMMA PeersTypes ==
  ASSUME Inv, Peers
  PROVE  Types'
<1>0. TablesInv /\ ListenerTypes /\ LoopTypes /\ WorldTypes
  BY DEF Inv
<1>1. LoopTypes' /\ UNCHANGED <<view, sent, wire, got>>
  BY <1>0, PeersCall DEF LoopTypes
<1>2. PICK i \in Ids :
        \/ ConnectCompletes(i) \/ ConnectRefused(i) \/ PeerConnects(i)
        \/ PeerWrites(i) \/ PeerCloses(i) \/ PeerResets(i) \/ RoomFreed(i)
        \/ PeerHandshakes(i) \/ PeerSendsTicket(i) \/ PeerRejects(i)
        \/ PeerNotifies(i)
  BY DEF Peers
<1>3. fed[i] \o Tcp!NextBytes(fed[i], 1) \in Seq(Nat)
  BY <1>0, NextBytesType, ConcatProperties DEF WorldTypes
<1>4. ListenerTypes'
  <2>1. \/ listeners' = listeners
        \/ (i \in DOMAIN listeners /\ listeners' = [listeners EXCEPT ![i] = @ + 1])
    BY <1>2 DEF ConnectCompletes, ConnectRefused, PeerConnects,
       PeerWrites, PeerCloses, PeerResets, RoomFreed, PeerHandshakes, PeerSendsTicket,
       PeerRejects, PeerNotifies, Arrive, Tcp!ConnectCompletes, Tcp!ConnectRefused, Tcp!PeerConnects,
       Tcp!PeerCloses, Tcp!PeerResets
  <2> QED
    BY <1>0, <2>1, SMTT(60) DEF ListenerTypes
<1>5. ready' \subseteq Ids /\ peer' \in [Ids -> {"up", "fin", "lost"}]
  BY <1>0, <1>2 DEF WorldTypes, ConnectCompletes, ConnectRefused, PeerConnects,
     PeerWrites, PeerCloses, PeerResets, RoomFreed, PeerHandshakes, PeerSendsTicket,
     PeerRejects, PeerNotifies, Arrive, Tcp!ConnectCompletes, Tcp!ConnectRefused, Tcp!PeerConnects,
     Tcp!PeerCloses, Tcp!PeerResets
<1>6. fed' = fed \/ fed' = [fed EXCEPT ![i] = @ \o Tcp!NextBytes(@, 1)]
  BY <1>2 DEF ConnectCompletes, ConnectRefused, PeerConnects,
     PeerWrites, PeerCloses, PeerResets, RoomFreed, PeerHandshakes, PeerSendsTicket,
     PeerRejects, PeerNotifies, Tcp!ConnectCompletes, Tcp!ConnectRefused, Tcp!PeerConnects,
     Tcp!PeerCloses, Tcp!PeerResets, Tcp!histories
<1>7. fed' \in [Ids -> Seq(Nat)]
  BY <1>0, <1>3, <1>6 DEF WorldTypes
<1> QED
  BY <1>0, <1>1, <1>4, <1>5, <1>7 DEF Types, WorldTypes

\* by poll,
LEMMA PollTypes ==
  ASSUME Inv, Poll
  PROVE  Types'
<1>0. TablesInv /\ ListenerTypes /\ LoopTypes /\ WorldTypes
  BY DEF Inv
<1>1. PICK S \in SUBSET Tcp!Reportable :
        /\ poll_events' = UNION {Tcp!EventsOf(i) : i \in S}
        /\ ready' = Tcp!Reportable \ S
  BY DEF Poll, Tcp!Poll
<1>2. Tcp!Reportable \subseteq Ids
  BY <1>0 DEF Tcp!Reportable, WorldTypes
<1>3. ASSUME NEW i \in Ids, NEW e \in Tcp!EventsOf(i)
      PROVE  e \in [id : Ids, readable : BOOLEAN, writable : BOOLEAN]
  <2>1. CASE MergedEvents
    <3>1. Tcp!ReadReady(i) \in BOOLEAN /\ Tcp!WriteReady(i) \in BOOLEAN
      BY DEF Tcp!ReadReady, Tcp!WriteReady
    <3>2. e = Tcp!PollEvent(i, Tcp!ReadReady(i), Tcp!WriteReady(i))
      BY <1>3, <2>1 DEF Tcp!EventsOf
    <3> QED
      BY <3>1, <3>2, Zenon DEF Tcp!PollEvent
  <2>2. CASE ~MergedEvents
    <3>1. e = Tcp!PollEvent(i, TRUE, FALSE) \/ e = Tcp!PollEvent(i, FALSE, TRUE)
      BY <1>3, <2>2 DEF Tcp!EventsOf
    <3>2. \A r, w \in BOOLEAN :
            Tcp!PollEvent(i, r, w) \in [id : Ids, readable : BOOLEAN, writable : BOOLEAN]
      BY DEF Tcp!PollEvent
    <3>3. TRUE \in BOOLEAN /\ FALSE \in BOOLEAN
      OBVIOUS
    <3> QED
      BY <3>1, <3>2, <3>3, Zenon
  <2> QED
    BY <2>1, <2>2
<1>4. poll_events' \subseteq [id : Ids, readable : BOOLEAN, writable : BOOLEAN]
  BY <1>1, <1>2, <1>3
<1>5. LoopTypes'
  BY <1>0, <1>4 DEF Poll, Tcp!Poll, LoopTypes
<1>6. ListenerTypes' /\ WorldTypes'
  BY <1>0, <1>1, <1>2 DEF Poll, Tcp!Poll, ListenerTypes, WorldTypes, Tcp!tables,
     Tcp!app, Tcp!histories
<1> QED
  BY <1>5, <1>6 DEF Types

\* by the application handling an event,
LEMMA AppTypes ==
  ASSUME Inv, AppHandlesEvent
  PROVE  Types'
<1>0. TablesInv /\ ListenerTypes /\ LoopTypes /\ WorldTypes
  BY DEF Inv
<1>idset. Tcp!Ids = Ids
  BY DEF Tcp!Ids, Ids
<1> DEFINE e == Head(dispatch_events)
<1>1. e \in Tcp!EventRecords /\ Tail(dispatch_events) \in Seq(Tcp!EventRecords)
  BY <1>0, HeadTailProperties DEF AppHandlesEvent, Tcp!AppHandlesEvent, LoopTypes
<1>2. /\ e.type \in {"Inactive", "Connected", "ConnectionFailed", "Disconnected",
                     "Data"}
      /\ e.type # "Inactive" => e.id \in Ids
      /\ e.type = "Data" => e.data \in Seq(Nat)
  BY <1>1, <1>idset DEF Tcp!EventRecords
<1>3. ListenerTypes' /\ LoopTypes'
  BY <1>0, <1>1 DEF AppHandlesEvent, Tcp!AppHandlesEvent, ListenerTypes, LoopTypes,
     Tcp!tables, Tcp!thread, Tcp!round
<1>4. view' \in [Ids -> {"new", "connecting", "open"} \cup Tcp!Ended]
  <2>1. view' = view \/ \E v \in {"open", "failed", "disconnected"} :
                          view' = [view EXCEPT ![e.id] = v]
    <3>1. \A x \in {"Connected", "ConnectionFailed", "Disconnected"} :
            Tcp!ViewAfter[x] \in {"open", "failed", "disconnected"}
      BY DEF Tcp!ViewAfter
    <3>2. CASE e.type \in {"Inactive", "Data"}
      BY <3>2 DEF AppHandlesEvent, Tcp!AppHandlesEvent
    <3>3. CASE e.type \in {"Connected", "ConnectionFailed", "Disconnected"}
      <4>1. view' = view \/ view' = [view EXCEPT ![e.id] = Tcp!ViewAfter[e.type]]
        BY <3>3 DEF AppHandlesEvent, Tcp!AppHandlesEvent
      <4> QED
        BY <3>1, <3>3, <4>1
    <3> QED
      BY <1>2, <3>2, <3>3
  <2> QED
    BY <1>0, <2>1 DEF WorldTypes, Tcp!Ended
<1>5. got' \in [Ids -> Seq(Nat)]
  <2>1. CASE got' = got
    BY <1>0, <2>1 DEF WorldTypes
  <2>2. CASE got' # got
    <3>1. e.type = "Data" /\ got' = [got EXCEPT ![e.id] = @ \o e.data]
      BY <2>2 DEF AppHandlesEvent, Tcp!AppHandlesEvent
    <3> QED
      BY <1>0, <1>2, <3>1, ConcatProperties, SMTT(60) DEF WorldTypes
  <2> QED
    BY <2>1, <2>2
<1>6. WorldTypes'
  BY <1>0, <1>4, <1>5 DEF AppHandlesEvent, Tcp!AppHandlesEvent, WorldTypes, Tcp!kernel
<1> QED
  BY <1>3, <1>6 DEF Types

\* by the steps around a round,
LEMMA IdleTypes ==
  ASSUME Inv, FetchEvents \/ ReportInactive \/ PollFails \/ EventsDone
  PROVE  Types'
<1>0. TablesInv /\ ListenerTypes /\ LoopTypes /\ WorldTypes
  BY DEF Inv
<1> USE DEF FetchEvents, ReportInactive, PollFails, EventsDone,
            Tcp!FetchEvents, Tcp!ReportInactive, Tcp!PollFails, Tcp!EventsDone
<1>1. ListenerTypes' /\ WorldTypes'
  BY <1>0 DEF ListenerTypes, WorldTypes, Tcp!tables, Tcp!kernel, Tcp!app, Tcp!histories
<1>2. <<Tcp!Inactive>> \in Seq(Tcp!EventRecords)
  <2>1. Tcp!Inactive \in Tcp!EventRecords
    BY DEF Tcp!Inactive, Tcp!EventRecords
  <2> QED
    BY <2>1
<1>3. LoopTypes'
  BY <1>0, <1>2 DEF LoopTypes, Tcp!round
<1> QED
  BY <1>1, <1>3 DEF Types

\* by accepting and registering streams,
LEMMA AcceptTypes ==
  ASSUME Inv, Accept \/ AcceptFails
  PROVE  Types'
<1>0. TablesInv /\ ListenerTypes /\ LoopTypes /\ WorldTypes /\ RoundInv
  BY DEF Inv
<1> USE <1>0 DEF Types, Tcp!tables, Tcp!kernel, Tcp!app, Tcp!histories
<1>1. ASSUME listeners[cur] > 0, listeners' = [listeners EXCEPT ![cur] = @ - 1]
      PROVE  ListenerTypes'
  BY <1>1 DEF ListenerTypes
<1>2. CASE AcceptStream
  <2>1. ListenerTypes'
    BY <1>1, <1>2 DEF AcceptStream, Tcp!AcceptStream
  <2>2. LoopTypes' /\ WorldTypes'
    BY <1>2 DEF AcceptStream, Tcp!AcceptStream, LoopTypes, WorldTypes
  <2> QED
    BY <2>1, <2>2
<1>3. CASE AcceptError
  <2>1. /\ DOMAIN listeners' = DOMAIN listeners \ {cur}
        /\ \A j \in DOMAIN listeners \ {cur} : listeners'[j] = listeners[j]
    BY <1>3, WithoutEntries DEF AcceptError, Tcp!AcceptError
  <2>2. ListenerTypes'
    BY <2>1 DEF ListenerTypes
  <2>3. LoopTypes' /\ WorldTypes'
    BY <1>3, EmptySeq DEF AcceptError, Tcp!AcceptError, Tcp!ReturnError, LoopTypes, WorldTypes
  <2> QED
    BY <2>2, <2>3
<1>4. CASE NodelayError
  <2>1. ListenerTypes'
    BY <1>1, <1>4 DEF NodelayError, Tcp!NodelayError
  <2>2. LoopTypes' /\ WorldTypes'
    BY <1>4, EmptySeq DEF NodelayError, Tcp!NodelayError, Tcp!ReturnError, LoopTypes, WorldTypes
  <2> QED
    BY <2>1, <2>2
<1>5. CASE AcceptWouldBlock
  <2>1. ListenerTypes' /\ WorldTypes'
    BY <1>5 DEF AcceptWouldBlock, Tcp!AcceptWouldBlock, ListenerTypes, WorldTypes
  <2>2. /\ spurious_wakeups' \in Nat /\ pc' \in {"events", "panic", "register"}
        /\ panic' \in {panic, "spurious"}
    BY <1>5, TrackTypes DEF AcceptWouldBlock, Tcp!AcceptWouldBlock, LoopTypes
  <2>3. LoopTypes'
    BY <1>5, <2>2 DEF AcceptWouldBlock, Tcp!AcceptWouldBlock, LoopTypes
  <2> QED
    BY <2>1, <2>3
<1>6. CASE RegisterStream
  <2>1. WorldTypes' /\ ListenerTypes'
    BY <1>6, OpenWorld DEF RegisterStream, ListenerTypes
  <2>2. /\ spurious_wakeups' \in Nat /\ pc' \in {"events", "panic", "register"}
        /\ panic' \in {panic, "spurious"}
    BY <1>6, TrackTypes DEF RegisterStream, LoopTypes
  <2>3. new_streams' \in Nat
    BY <1>6 DEF RegisterStream, RoundInv, LoopTypes
  <2>4. LoopTypes'
    BY <1>6, <2>2, <2>3 DEF RegisterStream, LoopTypes
  <2> QED
    BY <2>1, <2>4
<1>7. CASE RegisterLostStream
  BY <1>7 DEF RegisterLostStream, Tcp!RegisterLostStream, Tcp!Panic, ListenerTypes,
     WorldTypes, LoopTypes
<1> QED
  BY <1>2, <1>3, <1>4, <1>5, <1>6, <1>7 DEF Accept, AcceptFails

\* by handling an event of the round,
LEMMA HandleTypes ==
  ASSUME Inv, HandleEvent
  PROVE  Types'
<1>0. TablesInv /\ ListenerTypes /\ LoopTypes /\ WorldTypes
  BY DEF Inv
<1>1. PICK e \in poll_events :
        \/ HandleListener(e) \/ SkipDisconnected(e)
        \/ HandshakeFails(e) \/ ReadDisconnected(e) \/ ReadData(e)
        \/ HandleWritable(e)
  BY DEF HandleEvent
<1>2. e \in [id : Ids, readable : BOOLEAN, writable : BOOLEAN]
  BY <1>0 DEF LoopTypes
<1>3. e.id \in Ids
  BY <1>2
<1> USE <1>0 DEF Types, Tcp!tables, Tcp!kernel, Tcp!app, Tcp!histories, app, Tcp!Take,
                 ReadConnection
<1>4. CASE HandleListener(e) \/ SkipDisconnected(e) \/ HandleWritable(e)
  <2> USE DEF HandleListener, SkipDisconnected, HandleWritable,
              Tcp!HandleListener, Tcp!SkipDisconnected, Tcp!HandleWritable
  <2>1. UNCHANGED <<Tcp!tables, Tcp!kernel, Tcp!app, spurious_wakeups, new_streams,
                    disconnected_ids, dispatch_events>>
        /\ poll_events' \subseteq poll_events /\ cur' = e.id
    BY <1>4
  <2>2. /\ pc' \in {"events", "accept", "write", "panic"}
        /\ panic' \in {panic, "unknown_id"}
    BY <1>4 DEF Tcp!Panic
  <2>3. ListenerTypes' /\ WorldTypes'
    BY <2>1 DEF ListenerTypes, WorldTypes
  <2>4. LoopTypes'
    BY <1>3, <2>1, <2>2 DEF LoopTypes
  <2> QED
    BY <2>3, <2>4
<1>5. CASE HandshakeFails(e)
  <2>1. ready' \subseteq ready
    BY <1>5 DEF HandshakeFails, DropConnection, Tcp!DropSockets
  <2>2. ListenerTypes' /\ WorldTypes'
    BY <1>5, <2>1 DEF HandshakeFails, ListenerTypes, WorldTypes
  <2>3. /\ pc' \in {"events", "write", "panic"}
        /\ panic' \in {panic, "read_assertion"}
    BY <1>5 DEF HandshakeFails, Tcp!Panic
  <2>4. LoopTypes'
    BY <1>3, <1>5, <2>3 DEF HandshakeFails, LoopTypes
  <2> QED
    BY <2>2, <2>4
<1>6. CASE ReadDisconnected(e)
  <2>1. ready' \subseteq ready /\ e.id \in DOMAIN connections
    BY <1>6 DEF ReadDisconnected, DropConnection, Tcp!DropSockets, Tcp!IsConnection
  <2>2. ListenerTypes' /\ WorldTypes'
    BY <1>6, <2>1 DEF ReadDisconnected, ListenerTypes, WorldTypes
  <2>3. Received(e.id, ReadLoop(e.id)) \in Seq(Nat)
    BY <2>1, ReceivedType
  <2>4. LastEvents(e.id, Received(e.id, ReadLoop(e.id))) \in Seq(Tcp!EventRecords)
    BY <1>3, <2>3, ReadEventTypes
  <2>5. dispatch_events' \in Seq(Tcp!EventRecords)
    BY <1>6, <2>4, ConcatProperties DEF ReadDisconnected, LoopTypes
  <2>6. LoopTypes'
    BY <1>3, <1>6, <2>5 DEF ReadDisconnected, MarkDisconnected, LoopTypes
  <2> QED
    BY <2>2, <2>6
<1>7. CASE ReadData(e)
  <2> DEFINE i == e.id
             r == ReadLoop(i)
             s == SessionAfter(i, r)
             d == Tcp!DataIfAny(i, Received(i, r))
             n == ConnectedIfNew(i, connections[i], s)
  <2>1. i \in DOMAIN connections
    BY <1>7 DEF ReadData, Tcp!IsConnection
  <2>2. PICK k : Settle(i, s, connections[i].send_buf, k)
    BY <1>7 DEF ReadData
  <2>3. ready' \subseteq ready \cup {i}
    BY <2>2 DEF Settle
  <2>4. ListenerTypes' /\ WorldTypes'
    BY <1>3, <1>7, <2>3 DEF ReadData, ListenerTypes, WorldTypes
  <2>5. d \in Seq(Tcp!EventRecords) /\ n \in Seq(Tcp!EventRecords)
    <3>1. Received(i, r) \in Seq(Nat)
      BY <2>1, ReceivedType
    <3> QED
      BY <1>3, <3>1, ReadEventTypes, AnnounceTypes
  <2>6. dispatch_events' = dispatch_events \o d \o n
    BY <1>7 DEF ReadData
  <2>7. dispatch_events' \in Seq(Tcp!EventRecords)
    <3> HIDE DEF d, n
    <3> QED
      BY <2>5, <2>6, ConcatProperties DEF LoopTypes
  <2>8. /\ spurious_wakeups' \in Nat /\ pc' \in {"events", "panic", "write"}
        /\ panic' \in {panic, "spurious", "read_assertion"}
    <3>1. CASE ReadAsserts(i, r)
      <4>1. \E b \in BOOLEAN, next \in {"write", "events"} :
              Tcp!track_spurious_wakeup(b, next)
        BY <1>7, <3>1 DEF ReadData
      <4> QED
        BY <4>1, TrackTypes
    <3>2. CASE ~ReadAsserts(i, r)
      BY <1>7, <3>2 DEF ReadData, Tcp!Panic, LoopTypes
    <3> QED
      BY <3>1, <3>2
  <2>9. LoopTypes'
    BY <1>3, <1>7, <2>7, <2>8 DEF ReadData, LoopTypes
  <2> QED
    BY <2>4, <2>9
<1> QED
  BY <1>1, <1>4, <1>5, <1>6, <1>7

\* by write_connection,
LEMMA WriteTypes ==
  ASSUME Inv, Write
  PROVE  Types'
<1>0. TablesInv /\ ConnsInv /\ ListenerTypes /\ LoopTypes /\ WorldTypes
  BY DEF Inv
<1> USE <1>0 DEF Types, tables, kernel, app
<1>1. cur \in Ids /\ Tcp!ConnectionFailed(cur) \in Tcp!EventRecords
      /\ Tcp!Disconnected(cur) \in Tcp!EventRecords
  BY EventTypes DEF LoopTypes
<1>2. ASSUME NEW ev \in Tcp!EventRecords, GiveUp(ev)
      PROVE  Types'
  <2>1. ready' \subseteq ready
    BY <1>2 DEF GiveUp, DropConnection, Tcp!DropSockets
  <2>2. ListenerTypes' /\ WorldTypes'
    BY <1>2, <2>1 DEF GiveUp, ListenerTypes, WorldTypes
  <2>3. dispatch_events' \in Seq(Tcp!EventRecords)
    BY <1>2, AppendProperties DEF GiveUp, LoopTypes
  <2>4. LoopTypes'
    BY <1>1, <1>2, <2>3 DEF GiveUp, MarkDisconnected, LoopTypes
  <2> QED
    BY <2>2, <2>4
<1>3. CASE ConnectFailed \/ WriteFails
  BY <1>1, <1>2, <1>3 DEF ConnectFailed, WriteFails
<1>4. CASE WriteUnknown \/ ConnectEstablished
  BY <1>4 DEF WriteUnknown, ConnectEstablished, Tcp!Panic, ListenerTypes, LoopTypes,
     WorldTypes, round
<1>5. CASE WriteData
  <2>1. PICK n \in Nat, m \in Nat : WriteStep(cur, n, m)
    BY <1>5, WriteEffect
  <2> DEFINE p == Plaintext(cur)
             s == tls[cur]
             t == SessionWritten(s, p, n, m)
             a == ConnectedIfNew(cur, connections[cur], t)
             w == DataOf(Written(s, p, n))
  <2>2. cur \in DOMAIN connections
    BY <1>5, Zenon DEF WriteData, Writing
  <2>3. s.out \in Seq(Units) /\ p \in Seq(Units)
    BY <2>2, SoundTypes, PlaintextType DEF ConnsInv
  <2>4. w \in Seq(Nat)
    <3>1. s.out \o p \in Seq(Units) /\ n \in 0..Len(s.out \o p)
      BY <2>1, <2>3, ConcatProperties DEF WriteStep, WriteRange
    <3> DEFINE all == s.out \o p
    <3> HIDE DEF all
    <3>2. all \in Seq(Units) /\ n \in 0..Len(all)
      BY <3>1 DEF all
    <3>3. SubSeq(all, 1, n) \in Seq(Units)
      BY <3>2, SplitAt
    <3>4. DataOf(SubSeq(all, 1, n)) \in Seq(Nat)
      BY <3>3, DataOfParts
    <3> QED
      BY <3>4 DEF Written, all
  <2>5. a \in Seq(Tcp!EventRecords)
    BY <1>1, AnnounceTypes
  <2>6. wire' = [wire EXCEPT ![cur] = @ \o w] /\ dispatch_events' = dispatch_events \o a
    BY <2>1 DEF WriteStep
  <2>7. ready' \subseteq ready \cup {cur}
    BY <2>1 DEF WriteStep, Settle
  <2> HIDE DEF w, a
  <2>8. wire' \in [Ids -> Seq(Nat)] /\ dispatch_events' \in Seq(Tcp!EventRecords)
    <3>1. wire[cur] \in Seq(Nat) /\ dispatch_events \in Seq(Tcp!EventRecords)
      BY <1>1 DEF WorldTypes, LoopTypes
    <3>2. wire[cur] \o w \in Seq(Nat)
      BY <2>4, <3>1, ConcatProperties
    <3>3. dispatch_events \o a \in Seq(Tcp!EventRecords)
      BY <2>5, <3>1, ConcatProperties
    <3> QED
      BY <2>6, <3>2, <3>3 DEF WorldTypes
  <2>9. ListenerTypes' /\ WorldTypes'
    BY <1>1, <1>5, <2>7, <2>8, Zenon DEF WriteData, ListenerTypes, WorldTypes
  <2>10. /\ spurious_wakeups' \in Nat /\ pc' \in {"events", "panic"}
         /\ panic' \in {panic, "spurious"}
    <3>1. \E b \in BOOLEAN : Tcp!track_spurious_wakeup(b, "events")
      BY <1>5, Zenon DEF WriteData
    <3> QED
      BY <3>1, TrackTypes
  <2>11. LoopTypes'
    BY <1>5, <2>8, <2>10, Zenon DEF WriteData, LoopTypes
  <2> QED
    BY <2>9, <2>11
<1> QED
  BY <1>3, <1>4, <1>5 DEF Write

\* and by every step.
LEMMA TypesStep == Inv /\ [Next]_vars => Types'
<1>1. ASSUME Inv, UNCHANGED vars
      PROVE  Types'
  BY <1>1, TypesKept DEF Inv, Types, WorldTypes, vars, state, tables, kernel, app, thread, round
<1> QED
  BY <1>1, OperationsTypes, PeersTypes, PollTypes, AppTypes, IdleTypes, AcceptTypes,
     HandleTypes, WriteTypes DEF Next, Loop

-----------------------------------------------------------------------------
(* The theorems about the tables, the sessions and the outgoing bytes.     *)

\* The invariant holds initially,
LEMMA InvInit == Init => Inv
<1> SUFFICES ASSUME Init PROVE Inv
  OBVIOUS
<1>1. IdStart \in Ids /\ Tcp!Ids = Ids
  BY TlsIdAssumption DEF Ids, Tcp!Ids
<1> USE DEF Init, Tcp!Init, Tcp!EmptyMap
<1>2. TablesInv /\ ListenerTypes /\ ConnsInv
  BY <1>1 DEF TablesInv, ListenerTypes, ConnsInv
<1>3. LoopTypes /\ RoundInv
  BY <1>1, EmptySeq DEF LoopTypes, RoundInv
<1>4. WorldTypes
  BY <1>1, EmptySeq DEF WorldTypes
<1> QED
  BY <1>2, <1>3, <1>4 DEF Inv

\* and every step keeps it.
LEMMA InvStep == Inv /\ [Next]_vars => Inv'
<1>1. Inv => TablesInv
  BY DEF Inv
<1> QED
  BY <1>1, TablesStep, ConnsStep, RoundStep, TypesStep DEF Inv, Types

\* The inductive invariant holds: tables, listeners, loop, round and every
\* connection with its session and its streams are consistent.
THEOREM InvCorrect == Spec => []Inv
  BY InvInit, InvStep, PTL DEF Spec

\* Every variable of the TLS transport keeps its type.
THEOREM TypeCorrect == Spec => []TypeOK
<1>1. Inv => TypeOK
  <2> SUFFICES ASSUME Inv PROVE TypeOK
    OBVIOUS
  <2>1. \A i \in DOMAIN connections :
          connections[i] \in ConnectionRecords /\ sock[i] \in SocketRecords
          /\ tls[i] \in Sessions
    BY SoundTypes DEF Inv, ConnsInv
  <2> QED
    BY <2>1 DEF Inv, TablesInv, ListenerTypes, LoopTypes, WorldTypes, TypeOK,
       ConnectionRecords, SocketRecords, Sessions
<1> QED
  BY <1>1, InvCorrect, PTL

\* The interest a connection remembers is the one registered with the selector,
\* and covers what its session and its buffer still have to write (tls.rs,
\* update_interest): no byte and no flight waits unnoticed.
THEOREM InterestStaysRegistered == Spec => []InterestRegistered
<1>1. Inv => InterestRegistered
  BY DEF Inv, ConnsInv, Sound, ConnectionInv, Registered, InterestRegistered, NewNow
<1> QED
  BY <1>1, InvCorrect, PTL

\* A connection is TlsConnected exactly when its session is through with the
\* handshake (tls.rs, check_handshake_completion).
THEOREM StatusAlwaysFollows == Spec => []StatusFollowsSession
<1>1. Inv => StatusFollowsSession
  BY DEF Inv, ConnsInv, Sound, ConnectionInv, InStep, StatusFollowsSession
<1> QED
  BY <1>1, InvCorrect, PTL

\* Application data queued during the handshake is neither written nor given to
\* the session before the handshake is over (tls.rs, write_connection).
THEOREM HandshakeCarriesNoData == Spec => []NoDataInHandshake
<1>1. Inv => NoDataInHandshake
  BY DEF Inv, ConnsInv, Sound, ConnectionInv, Silent, NoDataInHandshake
<1> QED
  BY <1>1, InvCorrect, PTL

\* All that was queued on a connection is, in order, on the wire, in its session
\* or in its send buffer: partial writes and a full session lose, repeat and
\* reorder nothing (tls.rs, write_connection).
THEOREM OutgoingStaysIntact == Spec => []OutgoingIntact
<1>1. Inv => OutgoingIntact
  BY DEF Inv, ConnsInv, Sound, ConnectionInv, Intact, OutgoingIntact
<1> QED
  BY <1>1, InvCorrect, PTL

-----------------------------------------------------------------------------
(* The events the application is yet to handle.                            *)

Ends == {"Disconnected", "ConnectionFailed"}
Kinds == {"Connected", "Data", "Disconnected", "ConnectionFailed"}

Is(es, k, types, i) == es[k].type \in types /\ es[k].id = i
Has(es, types, i) == \E k \in 1..Len(es) : Is(es, k, types, i)

\* All of the events es are about i.
About(es, i) == \A k \in 1..Len(es) : Is(es, k, Kinds, i)

\* No event is about an id whose end comes before it.
EndsLast(es) ==
  \A j, k \in 1..Len(es) : j < k /\ es[j].type \in Ends => es[k].id # es[j].id

\* Data for an id nobody has heard of is announced by the next event at the latest.
Announces(es, v) ==
  \A k \in 1..Len(es) : es[k].type = "Data" /\ v[es[k].id] = "new" =>
    \E l \in 1..Len(es) : l <= k + 1 /\ Is(es, l, {"Connected"}, es[k].id)

\* The bytes for i in the events es.
Payload(i) == [e \in Tcp!EventRecords |->
                 IF e.type = "Data" /\ e.id = i THEN e.data ELSE <<>>]
Bytes(es, i) == FlatMap(Payload(i), es)

\* Data is about an id.
LEMMA EventIds ==
  ASSUME NEW es \in Seq(Tcp!EventRecords), NEW k \in 1..Len(es), es[k].type # "Inactive"
  PROVE  es[k].id \in Ids /\ es[k].type \in Kinds
<1>1. es[k] \in Tcp!EventRecords
  BY ElementOfSeq
<1> QED
  BY <1>1 DEF Tcp!EventRecords, Tcp!Ids, Ids, Kinds

\* Where the events of a concatenation come from.
LEMMA ConcatEvents ==
  ASSUME NEW es \in Seq(Tcp!EventRecords), NEW fs \in Seq(Tcp!EventRecords)
  PROVE  /\ es \o fs \in Seq(Tcp!EventRecords) /\ Len(es) \in Nat /\ Len(fs) \in Nat
         /\ Len(es \o fs) = Len(es) + Len(fs)
         /\ \A k \in 1..Len(es) : k \in 1..Len(es \o fs) /\ (es \o fs)[k] = es[k]
         /\ \A k \in 1..Len(fs) : Len(es) + k \in 1..Len(es \o fs)
                                  /\ (es \o fs)[Len(es) + k] = fs[k]
         /\ \A k \in 1..Len(es \o fs) : k \in 1..Len(es)
              \/ \E l \in 1..Len(fs) : k = Len(es) + l
<1> DEFINE gs == es \o fs
<1>1. /\ gs \in Seq(Tcp!EventRecords) /\ Len(es) \in Nat /\ Len(fs) \in Nat
      /\ Len(gs) = Len(es) + Len(fs)
      /\ \A k \in 1..Len(es) : gs[k] = es[k]
      /\ \A k \in 1..Len(fs) : gs[Len(es) + k] = fs[k]
  BY ConcatParts, LenProperties
<1> HIDE DEF gs
<1>2. ASSUME NEW k \in 1..Len(gs), k \notin 1..Len(es)
      PROVE  \E l \in 1..Len(fs) : k = Len(es) + l
  <2>1. k - Len(es) \in 1..Len(fs) /\ k = Len(es) + (k - Len(es))
    BY <1>1, <1>2
  <2> QED
    BY <2>1
<1>3. /\ \A k \in 1..Len(es) : k \in 1..Len(gs)
      /\ \A k \in 1..Len(fs) : Len(es) + k \in 1..Len(gs)
  BY <1>1
<1> QED
  BY <1>1, <1>2, <1>3 DEF gs

\* Which events there are in sequences of events.
LEMMA HasParts ==
  ASSUME NEW types, NEW i
  PROVE  /\ ~Has(<<>>, types, i)
         /\ \A e : Has(<<e>>, types, i) <=> e.type \in types /\ e.id = i
         /\ \A es, fs \in Seq(Tcp!EventRecords) :
              Has(es \o fs, types, i) <=> Has(es, types, i) \/ Has(fs, types, i)
<1>1. ~Has(<<>>, types, i)
  BY EmptySeq DEF Has
<1>2. ASSUME NEW e
      PROVE  Has(<<e>>, types, i) <=> e.type \in types /\ e.id = i
  <2>1. Len(<<e>>) = 1 /\ <<e>>[1] = e /\ 1..1 = {1}
    OBVIOUS
  <2> QED
    BY <2>1 DEF Has, Is
<1>3. ASSUME NEW es \in Seq(Tcp!EventRecords), NEW fs \in Seq(Tcp!EventRecords)
      PROVE  Has(es \o fs, types, i) <=> Has(es, types, i) \/ Has(fs, types, i)
  <2> DEFINE gs == es \o fs
  <2>1. /\ \A k \in 1..Len(es) : k \in 1..Len(gs) /\ gs[k] = es[k]
        /\ \A k \in 1..Len(fs) : Len(es) + k \in 1..Len(gs) /\ gs[Len(es) + k] = fs[k]
        /\ \A k \in 1..Len(gs) : k \in 1..Len(es) \/ \E l \in 1..Len(fs) : k = Len(es) + l
    BY ConcatEvents
  <2> HIDE DEF gs
  <2>2. Has(es, types, i) \/ Has(fs, types, i) => Has(gs, types, i)
    BY <2>1 DEF Has, Is
  <2>3. ASSUME NEW k \in 1..Len(gs), Is(gs, k, types, i), ~Has(es, types, i)
        PROVE  Has(fs, types, i)
    <3>1. k \notin 1..Len(es)
      BY <2>1, <2>3 DEF Has, Is
    <3>2. PICK l \in 1..Len(fs) : k = Len(es) + l
      BY <2>1, <3>1
    <3> QED
      BY <2>1, <2>3, <3>2 DEF Has, Is
  <2> QED
    BY <2>2, <2>3 DEF gs, Has
<1> QED
  BY <1>1, <1>2, <1>3

\* Events about j say nothing of another id.
LEMMA AboutOthers ==
  ASSUME NEW fs, NEW j, About(fs, j), NEW i, i # j, NEW types
  PROVE  ~Has(fs, types, i)
  BY DEF About, Has, Is

\* The bytes in sequences of events.
LEMMA BytesParts ==
  ASSUME NEW i
  PROVE  /\ Bytes(<<>>, i) = <<>>
         /\ \A e \in Tcp!EventRecords :
              Bytes(<<e>>, i) = IF e.type = "Data" /\ e.id = i THEN e.data ELSE <<>>
         /\ \A es \in Seq(Tcp!EventRecords) :
              /\ Bytes(es, i) \in Seq(Nat)
              /\ ~Has(es, Kinds, i) => Bytes(es, i) = <<>>
         /\ \A es, fs \in Seq(Tcp!EventRecords) :
              Bytes(es \o fs, i) = Bytes(es, i) \o Bytes(fs, i)
<1>1. Payload(i) \in [Tcp!EventRecords -> Seq(Nat)]
  <2>1. \A e \in Tcp!EventRecords : e.type = "Data" => e.data \in Seq(Nat)
    BY DEF Tcp!EventRecords
  <2>2. <<>> \in Seq(Nat)
    BY EmptySeq
  <2> QED
    BY <2>1, <2>2 DEF Payload
<1>2. Flattened(Payload(i), Tcp!EventRecords, Nat)
  BY <1>1, FlatMapParts
<1>3. \A e \in Tcp!EventRecords :
        Payload(i)[e] = IF e.type = "Data" /\ e.id = i THEN e.data ELSE <<>>
  BY DEF Payload
<1>4. ASSUME NEW es \in Seq(Tcp!EventRecords), ~Has(es, Kinds, i)
      PROVE  Bytes(es, i) = <<>>
  <2>1. ASSUME NEW k \in 1..Len(es)
        PROVE  Payload(i)[es[k]] = <<>>
    <3>1. es[k] \in Tcp!EventRecords
      BY ElementOfSeq
    <3>2. ~(es[k].type = "Data" /\ es[k].id = i)
      BY <1>4 DEF Has, Is, Kinds
    <3> QED
      BY <1>3, <3>1, <3>2
  <2> QED
    BY <1>2, <2>1, FlatMapNone DEF Bytes
<1> QED
  BY <1>2, <1>3, <1>4 DEF Flattened, Bytes

\* Undelivered is the bytes of the events collected.
LEMMA UndeliveredBytes ==
  ASSUME dispatch_events \in Seq(Tcp!EventRecords), NEW i
  PROVE  Tcp!Undelivered(i) = Bytes(dispatch_events, i)
<1>1. \A k \in 1..Len(dispatch_events) : dispatch_events[k] \in Tcp!EventRecords
  BY ElementOfSeq
<1> DEFINE s == [k \in 1..Len(dispatch_events) |->
                   IF dispatch_events[k].type = "Data" /\ dispatch_events[k].id = i
                   THEN dispatch_events[k].data ELSE <<>>]
           t == [k \in 1..Len(dispatch_events) |-> Payload(i)[dispatch_events[k]]]
<1>2. s = t
  BY <1>1 DEF Payload
<1>3. Tcp!Undelivered(i) = Tcp!FlattenSeq(s) /\ Bytes(dispatch_events, i) = FlattenSeq(t)
  BY DEF Tcp!Undelivered, Bytes, FlatMap
<1> HIDE DEF s, t
<1>4. Tcp!FlattenSeq(s) = FlattenSeq(s)
  BY Zenon DEF Tcp!FlattenSeq, FlattenSeq
<1> QED
  BY <1>2, <1>3, <1>4

\* Events are added about an id that has not ended.
LEMMA EndsLastGrows ==
  ASSUME NEW es \in Seq(Tcp!EventRecords), NEW fs \in Seq(Tcp!EventRecords), NEW i,
         EndsLast(es), EndsLast(fs), About(fs, i), ~Has(es, Ends, i)
  PROVE  EndsLast(es \o fs)
<1> DEFINE gs == es \o fs
<1>1. /\ Len(es) \in Nat /\ Len(fs) \in Nat
      /\ \A k \in 1..Len(es) : k \in 1..Len(gs) /\ gs[k] = es[k]
      /\ \A k \in 1..Len(fs) : Len(es) + k \in 1..Len(gs) /\ gs[Len(es) + k] = fs[k]
      /\ \A k \in 1..Len(gs) : k \in 1..Len(es) \/ \E l \in 1..Len(fs) : k = Len(es) + l
  BY ConcatEvents
<1> HIDE DEF gs
<1> SUFFICES ASSUME NEW j \in 1..Len(gs), NEW k \in 1..Len(gs), j < k, gs[j].type \in Ends
             PROVE  gs[k].id # gs[j].id
  BY DEF EndsLast, gs
<1>2. CASE k \in 1..Len(es)
  <2>1. j \in 1..Len(es)
    BY <1>1, <1>2
  <2> QED
    BY <1>1, <1>2, <2>1 DEF EndsLast
<1>3. CASE k \notin 1..Len(es)
  <2>1. PICK l \in 1..Len(fs) : k = Len(es) + l
    BY <1>1, <1>3
  <2>2. gs[k] = fs[l] /\ gs[k].id = i
    BY <1>1, <2>1 DEF About, Is
  <2>3. CASE j \in 1..Len(es)
    BY <1>1, <2>2, <2>3 DEF Has, Is
  <2>4. CASE j \notin 1..Len(es)
    <3>1. PICK m \in 1..Len(fs) : j = Len(es) + m
      BY <1>1, <2>4
    <3>2. gs[j] = fs[m] /\ m < l
      BY <1>1, <2>1, <3>1
    <3> QED
      BY <2>2, <3>2 DEF EndsLast
  <2> QED
    BY <2>3, <2>4
<1> QED
  BY <1>2, <1>3

\* Data that is added is for an id already announced, or announced with it.
LEMMA AnnouncesGrow ==
  ASSUME NEW es \in Seq(Tcp!EventRecords), NEW fs \in Seq(Tcp!EventRecords), NEW i,
         NEW v, Announces(es, v), About(fs, i),
         v[i] = "new" => Has(es, {"Connected"}, i) \/ Announces(fs, v)
  PROVE  Announces(es \o fs, v)
<1> DEFINE gs == es \o fs
<1>1. /\ Len(es) \in Nat /\ Len(fs) \in Nat
      /\ \A k \in 1..Len(es) : k \in 1..Len(gs) /\ gs[k] = es[k]
      /\ \A k \in 1..Len(fs) : Len(es) + k \in 1..Len(gs) /\ gs[Len(es) + k] = fs[k]
      /\ \A k \in 1..Len(gs) : k \in 1..Len(es) \/ \E l \in 1..Len(fs) : k = Len(es) + l
  BY ConcatEvents
<1> HIDE DEF gs
<1> SUFFICES ASSUME NEW k \in 1..Len(gs), gs[k].type = "Data", v[gs[k].id] = "new"
             PROVE  \E l \in 1..Len(gs) : l <= k + 1 /\ Is(gs, l, {"Connected"}, gs[k].id)
  BY DEF Announces, gs
<1>2. CASE k \in 1..Len(es)
  <2>1. PICK l \in 1..Len(es) : l <= k + 1 /\ Is(es, l, {"Connected"}, es[k].id)
    BY <1>1, <1>2 DEF Announces
  <2> QED
    BY <1>1, <1>2, <2>1 DEF Is
<1>3. CASE k \notin 1..Len(es)
  <2>1. PICK m \in 1..Len(fs) : k = Len(es) + m
    BY <1>1, <1>3
  <2>2. gs[k] = fs[m] /\ gs[k].id = i
    BY <1>1, <2>1 DEF About, Is
  <2>3. CASE Has(es, {"Connected"}, i)
    <3>1. PICK l \in 1..Len(es) : Is(es, l, {"Connected"}, i)
      BY <2>3 DEF Has
    <3>2. l <= k + 1 /\ l \in 1..Len(gs)
      BY <1>1, <2>1
    <3> QED
      BY <1>1, <2>2, <3>1, <3>2 DEF Is
  <2>4. CASE Announces(fs, v)
    <3>1. PICK l \in 1..Len(fs) : l <= m + 1 /\ Is(fs, l, {"Connected"}, fs[m].id)
      BY <2>2, <2>4 DEF Announces
    <3>2. Len(es) + l <= k + 1 /\ Len(es) + l \in 1..Len(gs) /\ gs[Len(es) + l] = fs[l]
      BY <1>1, <2>1, <3>1
    <3>3. Is(gs, Len(es) + l, {"Connected"}, gs[k].id)
      BY <2>2, <3>1, <3>2 DEF Is
    <3> QED
      BY <3>2, <3>3
  <2> QED
    BY <2>2, <2>3, <2>4
<1> QED
  BY <1>2, <1>3

\* The application takes the first event.
LEMMA TailEvents ==
  ASSUME NEW es \in Seq(Tcp!EventRecords), es # <<>>
  PROVE  /\ Head(es) \in Tcp!EventRecords /\ Tail(es) \in Seq(Tcp!EventRecords)
         /\ \A types, i : Has(es, types, i) <=>
              (Head(es).type \in types /\ Head(es).id = i) \/ Has(Tail(es), types, i)
         /\ \A i : Bytes(es, i) = Bytes(<<Head(es)>>, i) \o Bytes(Tail(es), i)
         /\ EndsLast(es) => EndsLast(Tail(es))
         /\ EndsLast(es) /\ Head(es).type \in Ends => ~Has(Tail(es), Kinds, Head(es).id)
<1> DEFINE e == Head(es)
           fs == Tail(es)
<1>1. /\ e \in Tcp!EventRecords /\ fs \in Seq(Tcp!EventRecords) /\ e = es[1]
      /\ Len(es) \in Nat \ {0} /\ Len(fs) \in Nat /\ Len(fs) = Len(es) - 1
      /\ \A k \in 1..Len(fs) : fs[k] = es[k + 1]
  BY HeadTailProperties, LenProperties, EmptySeq
<1>2. <<e>> \in Seq(Tcp!EventRecords)
  BY <1>1
<1>3. es = <<e>> \o fs
  <2>1. /\ Len(<<e>> \o fs) = Len(es) /\ <<e>> \o fs \in Seq(Tcp!EventRecords)
        /\ \A k \in 1..1 : (<<e>> \o fs)[k] = <<e>>[k]
        /\ \A k \in 1..Len(fs) : (<<e>> \o fs)[1 + k] = fs[k]
    <3> HIDE DEF e, fs
    <3> QED
      BY <1>1, <1>2, ConcatParts
  <2> HIDE DEF e, fs
  <2>2. ASSUME NEW k \in 1..Len(es)
        PROVE  es[k] = (<<e>> \o fs)[k]
    <3>1. CASE k = 1
      BY <1>1, <2>1, <3>1
    <3>2. CASE k # 1
      <4>1. k - 1 \in 1..Len(fs) /\ 1 + (k - 1) = k /\ (k - 1) + 1 = k
        BY <1>1, <3>2
      <4> QED
        BY <1>1, <2>1, <4>1
    <3> QED
      BY <3>1, <3>2
  <2> QED
    BY <2>1, <2>2, SeqEqual
<1> HIDE DEF e, fs
<1>4. ASSUME NEW types, NEW i
      PROVE  Has(es, types, i) <=> (e.type \in types /\ e.id = i) \/ Has(fs, types, i)
  <2>1. Has(<<e>> \o fs, types, i) <=> Has(<<e>>, types, i) \/ Has(fs, types, i)
    BY <1>1, <1>2, HasParts
  <2>2. Has(<<e>>, types, i) <=> e.type \in types /\ e.id = i
    BY HasParts
  <2> QED
    BY <1>3, <2>1, <2>2, Zenon
<1>5. ASSUME NEW i
      PROVE  Bytes(es, i) = Bytes(<<e>>, i) \o Bytes(fs, i)
  <2>1. Bytes(<<e>> \o fs, i) = Bytes(<<e>>, i) \o Bytes(fs, i)
    BY <1>1, <1>2, BytesParts
  <2> QED
    BY <1>3, <2>1, Zenon
<1>6. ASSUME EndsLast(es)
      PROVE  EndsLast(fs)
  <2> SUFFICES ASSUME NEW j \in 1..Len(fs), NEW k \in 1..Len(fs), j < k, fs[j].type \in Ends
               PROVE  fs[k].id # fs[j].id
    BY DEF EndsLast
  <2>1. j + 1 \in 1..Len(es) /\ k + 1 \in 1..Len(es) /\ j + 1 < k + 1
    BY <1>1
  <2> QED
    BY <1>1, <1>6, <2>1, SMTT(60) DEF EndsLast
<1>7. ASSUME EndsLast(es), e.type \in Ends
      PROVE  ~Has(fs, Kinds, e.id)
  <2> SUFFICES ASSUME NEW k \in 1..Len(fs), Is(fs, k, Kinds, e.id)
               PROVE  FALSE
    BY DEF Has
  <2>1. 1 \in 1..Len(es) /\ k + 1 \in 1..Len(es) /\ 1 < k + 1
    BY <1>1
  <2> QED
    BY <1>1, <1>7, <2>1 DEF EndsLast, Is
<1> QED
  BY <1>1, <1>4, <1>5, <1>6, <1>7 DEF e, fs

\* What is announced by the first event is known from then on.
LEMMA AnnouncesShrink ==
  ASSUME NEW es \in Seq(Tcp!EventRecords), es # <<>>, NEW v, NEW w, Announces(es, v),
         \A i \in Ids : w[i] = "new" => v[i] = "new",
         Head(es).type = "Connected" => w[Head(es).id] # "new"
  PROVE  Announces(Tail(es), w)
<1> DEFINE e == Head(es)
           fs == Tail(es)
<1>1. /\ e = es[1] /\ Len(es) \in Nat \ {0} /\ Len(fs) \in Nat /\ Len(fs) = Len(es) - 1
      /\ \A k \in 1..Len(fs) : fs[k] = es[k + 1]
  BY HeadTailProperties, LenProperties, EmptySeq
<1>2. e.type = "Connected" => w[e.id] # "new"
  OBVIOUS
<1> HIDE DEF e, fs
<1> SUFFICES ASSUME NEW k \in 1..Len(fs), fs[k].type = "Data", w[fs[k].id] = "new"
             PROVE  \E l \in 1..Len(fs) : l <= k + 1 /\ Is(fs, l, {"Connected"}, fs[k].id)
  BY DEF Announces, fs
<1>3. k + 1 \in 1..Len(es) /\ fs[k] = es[k + 1]
  BY <1>1
<1>i. fs[k].id \in Ids
  BY <1>3, EventIds
<1>4. PICK l \in 1..Len(es) : l <= (k + 1) + 1 /\ Is(es, l, {"Connected"}, fs[k].id)
  BY <1>3, <1>i DEF Announces
<1>5. l # 1
  BY <1>1, <1>2, <1>4 DEF Is
<1>6. l - 1 \in 1..Len(fs) /\ l - 1 <= k + 1 /\ fs[l - 1] = es[(l - 1) + 1] /\ (l - 1) + 1 = l
  BY <1>1, <1>4, <1>5
<1> QED
  BY <1>4, <1>6 DEF Is

\* What the events es say of i, all of them about i: whether they announce it,
\* whether and how they end it, and the bytes they carry.
Says(es, i, announced, over, lost, d) ==
  /\ es \in Seq(Tcp!EventRecords) /\ About(es, i) /\ EndsLast(es)
  /\ Has(es, {"Connected"}, i) <=> announced
  /\ Has(es, Ends, i) <=> over
  /\ Has(es, {"Disconnected"}, i) <=> lost
  /\ Bytes(es, i) = d

\* A single event.
LEMMA OneSays ==
  ASSUME NEW e \in Tcp!EventRecords, NEW i, e.type \in Kinds, e.id = i
  PROVE  Says(<<e>>, i, e.type = "Connected", e.type \in Ends, e.type = "Disconnected",
              IF e.type = "Data" THEN e.data ELSE <<>>)
<1>1. <<e>> \in Seq(Tcp!EventRecords) /\ Len(<<e>>) = 1 /\ <<e>>[1] = e
  OBVIOUS
<1> DEFINE es == <<e>>
<1>h. ASSUME NEW types
      PROVE  Has(es, types, i) <=> e.type \in types
  BY HasParts
<1>2. Has(es, {"Connected"}, i) <=> e.type \in {"Connected"}
  BY <1>h
<1>3. Has(es, Ends, i) <=> e.type \in Ends
  BY <1>h
<1>4. Has(es, {"Disconnected"}, i) <=> e.type \in {"Disconnected"}
  BY <1>h
<1>5. Bytes(es, i) = IF e.type = "Data" THEN e.data ELSE <<>>
  BY BytesParts
<1> HIDE DEF es
<1>6. About(es, i) /\ EndsLast(es)
  BY <1>1 DEF About, EndsLast, Is, es
<1> QED
  BY <1>1, <1>2, <1>3, <1>4, <1>5, <1>6 DEF Says, es

\* What the transport reports.
LEMMA Reports ==
  ASSUME NEW i \in Ids, NEW d \in Seq(Nat)
  PROVE  /\ Says(<<>>, i, FALSE, FALSE, FALSE, <<>>)
         /\ Says(<<Tcp!Connected(i)>>, i, TRUE, FALSE, FALSE, <<>>)
         /\ Says(<<Tcp!Disconnected(i)>>, i, FALSE, TRUE, TRUE, <<>>)
         /\ Says(<<Tcp!ConnectionFailed(i)>>, i, FALSE, TRUE, FALSE, <<>>)
         /\ Says(Tcp!DataIfAny(i, d), i, FALSE, FALSE, FALSE, d)
<1>1. Says(<<>>, i, FALSE, FALSE, FALSE, <<>>)
  <2>1. Len(<<>>) = 0 /\ <<>> \in Seq(Tcp!EventRecords) /\ 1..0 = {}
    BY EmptySeq
  <2>2. About(<<>>, i) /\ EndsLast(<<>>)
    BY <2>1 DEF About, EndsLast
  <2> QED
    BY <2>1, <2>2, HasParts, BytesParts DEF Says
<1>2. ASSUME NEW e \in {Tcp!Connected(i), Tcp!Disconnected(i), Tcp!ConnectionFailed(i)}
      PROVE  Says(<<e>>, i, e.type = "Connected", e.type \in Ends,
                  e.type = "Disconnected", <<>>)
  <2>1. e \in Tcp!EventRecords
    BY EventTypes
  <2>2. e.id = i /\ e.type \in {"Connected", "Disconnected", "ConnectionFailed"}
    BY DEF Tcp!Connected, Tcp!Disconnected, Tcp!ConnectionFailed
  <2>3. e.type \in Kinds /\ e.type # "Data"
    BY <2>2 DEF Kinds
  <2> QED
    BY <2>1, <2>2, <2>3, OneSays
<1>3. Says(<<Tcp!Connected(i)>>, i, TRUE, FALSE, FALSE, <<>>)
  <2> DEFINE e == Tcp!Connected(i)
  <2>1. e.type = "Connected"
    BY DEF Tcp!Connected
  <2>2. Says(<<e>>, i, e.type = "Connected", e.type \in Ends, e.type = "Disconnected", <<>>)
    BY <1>2
  <2> HIDE DEF e
  <2>3. Says(<<e>>, i, TRUE, FALSE, FALSE, <<>>)
    BY <2>1, <2>2 DEF Says, Ends
  <2> QED
    BY <2>3 DEF e
<1>4. Says(<<Tcp!Disconnected(i)>>, i, FALSE, TRUE, TRUE, <<>>)
  <2> DEFINE e == Tcp!Disconnected(i)
  <2>1. e.type = "Disconnected"
    BY DEF Tcp!Disconnected
  <2>2. Says(<<e>>, i, e.type = "Connected", e.type \in Ends, e.type = "Disconnected", <<>>)
    BY <1>2
  <2> HIDE DEF e
  <2>3. Says(<<e>>, i, FALSE, TRUE, TRUE, <<>>)
    BY <2>1, <2>2 DEF Says, Ends
  <2> QED
    BY <2>3 DEF e
<1>5. Says(<<Tcp!ConnectionFailed(i)>>, i, FALSE, TRUE, FALSE, <<>>)
  <2> DEFINE e == Tcp!ConnectionFailed(i)
  <2>1. e.type = "ConnectionFailed"
    BY DEF Tcp!ConnectionFailed
  <2>2. Says(<<e>>, i, e.type = "Connected", e.type \in Ends, e.type = "Disconnected", <<>>)
    BY <1>2
  <2> HIDE DEF e
  <2>3. Says(<<e>>, i, FALSE, TRUE, FALSE, <<>>)
    BY <2>1, <2>2 DEF Says, Ends
  <2> QED
    BY <2>3 DEF e
<1>6. Says(Tcp!DataIfAny(i, d), i, FALSE, FALSE, FALSE, d)
  <2> DEFINE e == Tcp!Data(i, d)
  <2>1. e \in Tcp!EventRecords /\ e.type = "Data" /\ e.id = i /\ e.data = d
    BY EventTypes DEF Tcp!Data
  <2> HIDE DEF e
  <2>2. Says(<<e>>, i, FALSE, FALSE, FALSE, d)
    BY <2>1, OneSays DEF Says, Ends, Kinds
  <2> QED
    BY <1>1, <2>2 DEF Tcp!DataIfAny, e
<1> QED
  BY <1>1, <1>3, <1>4, <1>5, <1>6

\* Two reports about the same id, the first no end.
LEMMA BothSay ==
  ASSUME NEW i, NEW es, NEW fs, NEW a \in BOOLEAN, NEW b \in BOOLEAN, NEW o \in BOOLEAN,
         NEW l \in BOOLEAN, NEW d, NEW f,
         Says(es, i, a, FALSE, FALSE, d), Says(fs, i, b, o, l, f)
  PROVE  Says(es \o fs, i, a \/ b, o, l, d \o f)
<1>1. es \in Seq(Tcp!EventRecords) /\ fs \in Seq(Tcp!EventRecords)
      /\ About(es, i) /\ About(fs, i) /\ EndsLast(es) /\ EndsLast(fs) /\ ~Has(es, Ends, i)
  BY DEF Says
<1> DEFINE gs == es \o fs
<1>2. EndsLast(gs)
  BY <1>1, EndsLastGrows
<1>3. /\ gs \in Seq(Tcp!EventRecords)
      /\ \A k \in 1..Len(es) : gs[k] = es[k]
      /\ \A k \in 1..Len(fs) : gs[Len(es) + k] = fs[k]
      /\ \A k \in 1..Len(gs) : k \in 1..Len(es) \/ \E m \in 1..Len(fs) : k = Len(es) + m
  BY <1>1, ConcatEvents
<1>4. \A types : Has(gs, types, i) <=> Has(es, types, i) \/ Has(fs, types, i)
  BY <1>1, HasParts
<1>5. Bytes(gs, i) = Bytes(es, i) \o Bytes(fs, i)
  BY <1>1, BytesParts
<1> HIDE DEF gs
<1>6. About(gs, i)
  BY <1>1, <1>3, ZenonT(60) DEF About, Is
<1>7. /\ Has(gs, {"Connected"}, i) <=> a \/ b
      /\ Has(gs, Ends, i) <=> o
      /\ Has(gs, {"Disconnected"}, i) <=> l
  BY <1>4 DEF Says
<1> QED
  BY <1>2, <1>3, <1>5, <1>6, <1>7 DEF Says, gs

\* Data followed by Connected, or no data at all, leaves nothing unannounced.
LEMMA AnnouncedAtOnce ==
  ASSUME NEW i \in Ids, NEW d \in Seq(Nat), NEW v
  PROVE  /\ Announces(Tcp!DataIfAny(i, d) \o <<Tcp!Connected(i)>>, v)
         /\ Announces(<<>>, v)
         /\ Announces(<<Tcp!Connected(i)>>, v)
<1> DEFINE c == Tcp!Connected(i)
           e == Tcp!Data(i, d)
<1>1. c.type = "Connected" /\ c.id = i /\ e.type = "Data" /\ e.id = i
  BY DEF Tcp!Connected, Tcp!Data
<1>2. c \in Tcp!EventRecords /\ e \in Tcp!EventRecords
  BY EventTypes
<1> HIDE DEF c, e
<1>3. Announces(<<>>, v)
  BY EmptySeq DEF Announces
<1>4. Announces(<<c>>, v)
  <2>1. Len(<<c>>) = 1 /\ <<c>>[1] = c
    OBVIOUS
  <2> QED
    BY <1>1, <2>1 DEF Announces
<1>5. Announces(<<e, c>>, v)
  <2> DEFINE g == <<e, c>>
  <2>1. Len(g) = 2 /\ g[1] = e /\ g[2] = c
    OBVIOUS
  <2> HIDE DEF g
  <2>2. ASSUME NEW k \in 1..Len(g), g[k].type = "Data"
        PROVE  \E l \in 1..Len(g) : l <= k + 1 /\ Is(g, l, {"Connected"}, g[k].id)
    <3>1. k = 1
      BY <1>1, <2>1, <2>2
    <3>2. 2 \in 1..Len(g) /\ 2 <= k + 1 /\ Is(g, 2, {"Connected"}, g[k].id)
      BY <1>1, <2>1, <3>1 DEF Is
    <3> QED
      BY <3>2
  <2> QED
    BY <2>2 DEF Announces, g
<1>6. <<>> \o <<c>> = <<c>> /\ <<e>> \o <<c>> = <<e, c>>
  <2>1. <<c>> \in Seq(Tcp!EventRecords) /\ <<e>> \in Seq(Tcp!EventRecords)
        /\ Len(<<c>>) = 1 /\ Len(<<e>>) = 1 /\ <<c>>[1] = c /\ <<e>>[1] = e
    BY <1>2
  <2>2. PICK x, y \in Seq(Tcp!EventRecords) : x = <<e>> /\ y = <<c>>
    BY <2>1
  <2>3. /\ x \o y \in Seq(Tcp!EventRecords) /\ Len(x \o y) = 2
        /\ (x \o y)[1] = e /\ (x \o y)[1 + 1] = c
    BY <2>1, <2>2, ConcatParts
  <2>4. <<e, c>> \in Seq(Tcp!EventRecords) /\ Len(<<e, c>>) = 2
        /\ <<e, c>>[1] = e /\ <<e, c>>[2] = c
    BY <1>2
  <2>5. \A k \in 1..Len(x \o y) : (x \o y)[k] = <<e, c>>[k]
    BY <2>3, <2>4
  <2>6. x \o y = <<e, c>>
    BY <2>3, <2>4, <2>5, SeqEqual
  <2> QED
    BY <2>1, <2>2, <2>6, ConcatEmptySeq
<1> QED
  BY <1>3, <1>4, <1>5, <1>6 DEF Tcp!DataIfAny, c, e

-----------------------------------------------------------------------------
(* The story of an id, as the application hears it.                        *)

\* The application knows of i, or is about to.
Known(v, es, i) == v = "open" \/ Has(es, {"Connected"}, i)

\* i is in the table or not, its handshake is over or not (up), the application
\* believes v and is yet to handle es; lost: events have been dropped.
Story(i, alive, up, v, es, lost) ==
  /\ alive =>
       /\ v \in {"new", "connecting", "open"} /\ ~Has(es, Ends, i)
       /\ Known(v, es, i) => up
       /\ up /\ ~lost => Known(v, es, i)
  /\ ~alive /\ v # "closed" /\ ~lost /\ Known(v, es, i) => Has(es, {"Disconnected"}, i)
  /\ v \in {"failed", "disconnected"} => ~Has(es, Kinds, i)

\* An end or an announcement is an event about i.
LEMMA HasSome ==
  ASSUME NEW es, NEW i, ~Has(es, Kinds, i)
  PROVE  ~Has(es, Ends, i) /\ ~Has(es, {"Connected"}, i) /\ ~Has(es, {"Disconnected"}, i)
  BY DEF Has, Is, Kinds, Ends

\* A new connection,
LEMMA StoryBegins ==
  ASSUME NEW i, NEW v \in {"new", "connecting"}, NEW es, NEW lost, ~Has(es, Kinds, i)
  PROVE  Story(i, TRUE, FALSE, v, es, lost)
  BY HasSome DEF Story, Known

\* data, and the announcement when the handshake is over,
LEMMA StoryGrows ==
  ASSUME NEW i, NEW up \in BOOLEAN, NEW v, NEW es \in Seq(Tcp!EventRecords),
         NEW lost \in BOOLEAN, Story(i, TRUE, up, v, es, lost),
         NEW fs, NEW a \in BOOLEAN, NEW d, Says(fs, i, a, FALSE, FALSE, d),
         NEW up2 \in BOOLEAN, up => up2, a => up2, up2 => up \/ a
  PROVE  Story(i, TRUE, up2, v, es \o fs, lost)
<1> DEFINE gs == es \o fs
<1>1. fs \in Seq(Tcp!EventRecords) /\ ~Has(fs, Ends, i) /\ (Has(fs, {"Connected"}, i) <=> a)
  BY DEF Says
<1>2. /\ Has(gs, Ends, i) <=> Has(es, Ends, i) \/ Has(fs, Ends, i)
      /\ Has(gs, {"Connected"}, i) <=> Has(es, {"Connected"}, i) \/ Has(fs, {"Connected"}, i)
  BY <1>1, HasParts
<1> HIDE DEF gs
<1>3. Story(i, TRUE, up2, v, gs, lost)
  BY <1>1, <1>2 DEF Story, Known
<1> QED
  BY <1>3 DEF gs

\* an end that is reported,
LEMMA StoryEnds ==
  ASSUME NEW i, NEW up \in BOOLEAN, NEW v, NEW es \in Seq(Tcp!EventRecords),
         NEW lost \in BOOLEAN, Story(i, TRUE, up, v, es, lost),
         NEW fs, NEW l \in BOOLEAN, NEW d, Says(fs, i, FALSE, TRUE, l, d),
         up => l, NEW up2
  PROVE  Story(i, FALSE, up2, v, es \o fs, lost)
<1> DEFINE gs == es \o fs
<1>1. /\ fs \in Seq(Tcp!EventRecords) /\ ~Has(fs, {"Connected"}, i)
      /\ Has(fs, {"Disconnected"}, i) <=> l
  BY DEF Says
<1>2. /\ Has(gs, {"Disconnected"}, i)
           <=> Has(es, {"Disconnected"}, i) \/ Has(fs, {"Disconnected"}, i)
      /\ Has(gs, {"Connected"}, i) <=> Has(es, {"Connected"}, i) \/ Has(fs, {"Connected"}, i)
  BY <1>1, HasParts
<1> HIDE DEF gs
<1>3. Story(i, FALSE, up2, v, gs, lost)
  BY <1>1, <1>2 DEF Story, Known
<1> QED
  BY <1>3 DEF gs

\* one that is not, in the handshake,
LEMMA StoryDrops ==
  ASSUME NEW i, NEW v, NEW es, NEW lost, Story(i, TRUE, FALSE, v, es, lost), NEW up2
  PROVE  Story(i, FALSE, up2, v, es, lost)
  BY DEF Story

\* a connection the application has closed,
LEMMA StoryClosed ==
  ASSUME NEW i, NEW es, NEW lost, NEW up
  PROVE  Story(i, FALSE, up, "closed", es, lost)
  BY DEF Story

\* and events that are dropped.
LEMMA StoryLost ==
  ASSUME NEW i, NEW alive \in BOOLEAN, NEW up \in BOOLEAN, NEW v, NEW es,
         NEW lost \in BOOLEAN, Story(i, alive, up, v, es, lost)
  PROVE  Story(i, alive, up, v, <<>>, TRUE)
<1>1. \A types : ~Has(<<>>, types, i)
  BY HasParts
<1> QED
  BY <1>1 DEF Story, Known

\* What the application makes of the first event.
Told(v, e) ==
  IF e.type = "Inactive" \/ e.type = "Data" \/ v = "closed" THEN v ELSE Tcp!ViewAfter[e.type]

\* It takes an event about i.
LEMMA StoryGoesOn ==
  ASSUME NEW i, NEW alive \in BOOLEAN, NEW up \in BOOLEAN, NEW v,
         NEW es \in Seq(Tcp!EventRecords), es # <<>>, EndsLast(es),
         NEW lost \in BOOLEAN, Story(i, alive, up, v, es, lost),
         Head(es).type # "Inactive", Head(es).id = i
  PROVE  Story(i, alive, up, Told(v, Head(es)), Tail(es), lost)
<1> DEFINE e == Head(es)
           fs == Tail(es)
<1>1. /\ e \in Tcp!EventRecords
      /\ \A types : Has(es, types, i) <=> e.type \in types \/ Has(fs, types, i)
      /\ e.type \in Ends => ~Has(fs, Kinds, i)
  BY TailEvents
<1>2. e.type \in {"Connected", "Data", "ConnectionFailed", "Disconnected"}
  BY <1>1 DEF Tcp!EventRecords
<1> SUFFICES Story(i, alive, up, Told(v, e), fs, lost)
  OBVIOUS
<1> HIDE DEF e, fs
<1>3. /\ Has(es, {"Connected"}, i) <=> e.type = "Connected" \/ Has(fs, {"Connected"}, i)
      /\ Has(es, {"Disconnected"}, i)
           <=> e.type = "Disconnected" \/ Has(fs, {"Disconnected"}, i)
      /\ Has(es, Ends, i) <=> e.type \in Ends \/ Has(fs, Ends, i)
      /\ Has(es, Kinds, i)
  <2>1. Has(es, {"Connected"}, i) <=> e.type \in {"Connected"} \/ Has(fs, {"Connected"}, i)
    BY <1>1
  <2>2. Has(es, {"Disconnected"}, i)
          <=> e.type \in {"Disconnected"} \/ Has(fs, {"Disconnected"}, i)
    BY <1>1
  <2>3. Has(es, Ends, i) <=> e.type \in Ends \/ Has(fs, Ends, i)
    BY <1>1
  <2>4. Has(es, Kinds, i)
    BY <1>1, <1>2 DEF Kinds
  <2> QED
    BY <2>1, <2>2, <2>3, <2>4
<1>4. Told(v, e) = CASE v = "closed" -> v [] v # "closed" /\ e.type = "Data" -> v
        [] v # "closed" /\ e.type = "Connected" -> "open"
        [] v # "closed" /\ e.type = "ConnectionFailed" -> "failed"
        [] v # "closed" /\ e.type = "Disconnected" -> "disconnected"
  BY <1>2 DEF Told, Tcp!ViewAfter
<1>5. CASE v = "closed"
  BY <1>4, <1>5 DEF Story
<1>6. CASE v # "closed" /\ e.type = "Data"
  BY <1>3, <1>4, <1>6 DEF Story, Known, Ends
<1>7. CASE v # "closed" /\ e.type = "Connected"
  BY <1>3, <1>4, <1>7 DEF Story, Known, Ends
<1>8. CASE v # "closed" /\ e.type \in Ends
  <2>1. ~Has(fs, Kinds, i) /\ ~Has(fs, {"Connected"}, i)
    BY <1>1, <1>8, HasSome
  <2>2. Told(v, e) \in {"failed", "disconnected"}
    BY <1>4, <1>8 DEF Ends
  <2>3. ~alive
    BY <1>3, <1>8 DEF Story
  <2> QED
    BY <2>1, <2>2, <2>3 DEF Story, Known
<1> QED
  BY <1>2, <1>5, <1>6, <1>7, <1>8 DEF Ends

-----------------------------------------------------------------------------
(* The bytes on their way to the application.                              *)

\* f is what was handed out, what is in an event, and what is in the kernel.
Flow(f, g, u, r) == f = (g \o u) \o r

\* Reading moves the first of the bytes in the kernel into an event,
LEMMA FlowRead ==
  ASSUME NEW f \in Seq(Nat), NEW g \in Seq(Nat), NEW u \in Seq(Nat),
         NEW a \in Seq(Nat), NEW b \in Seq(Nat), Flow(f, g, u, a \o b)
  PROVE  Flow(f, g, u \o a, b)
<1> DEFINE h == g \o u
<1>1. h \in Seq(Nat)
  BY ConcatProperties
<1>2. Joins(g, u, a)
  BY JoinsAlways
<1> HIDE DEF h
<1>3. Joins(h, a, b)
  BY <1>1, JoinsAlways
<1> QED
  BY <1>2, <1>3 DEF Flow, Joins, h

\* the application takes those of an event,
LEMMA FlowTake ==
  ASSUME NEW f, NEW g \in Seq(Nat), NEW d \in Seq(Nat), NEW u \in Seq(Nat), NEW r,
         Flow(f, g, d \o u, r)
  PROVE  Flow(f, g \o d, u, r)
<1>1. Joins(g, d, u)
  BY JoinsAlways
<1> QED
  BY <1>1 DEF Flow, Joins

\* and what the peer writes waits in the kernel.
LEMMA FlowFeed ==
  ASSUME NEW f, NEW g \in Seq(Nat), NEW u \in Seq(Nat), NEW r \in Seq(Nat),
         NEW b \in Seq(Nat), Flow(f, g, u, r)
  PROVE  Flow(f \o b, g, u, r \o b)
<1> DEFINE h == g \o u
<1>1. h \in Seq(Nat)
  BY ConcatProperties
<1> HIDE DEF h
<1>2. Joins(h, r, b)
  BY <1>1, JoinsAlways
<1> QED
  BY <1>2 DEF Flow, Joins, h

-----------------------------------------------------------------------------
(* The state: the story of every id, and the queue of events.              *)

InUse(i) == i \in DOMAIN connections \/ i \in DOMAIN listeners
Up(i) == connections[i].connected = "TlsConnected"

StoryOf(i) ==
  Story(i, i \in DOMAIN connections, Up(i), view[i], dispatch_events, failed)

FlowOf(i) ==
  i \in DOMAIN connections /\ ~failed =>
    Flow(fed[i], got[i], Bytes(dispatch_events, i), DataOf(sock[i].rx))

\* Ids from next_id on have not been given away.
UnusedOf(i) ==
  i >= next_id => view[i] = "new" /\ ~InUse(i) /\ ~Has(dispatch_events, Kinds, i)

LifeOf(i) == StoryOf(i) /\ FlowOf(i) /\ UnusedOf(i)

QueueInv ==
  /\ failed \in BOOLEAN
  /\ pc = "requests" => dispatch_events = <<>>
  /\ EndsLast(dispatch_events)
  /\ ~failed => Announces(dispatch_events, view)

LifeInv == QueueInv /\ \A i \in Ids : LifeOf(i)

\* The events about i are the same as before.
SameWords(i) ==
  /\ \A types : types \subseteq Kinds =>
       (Has(dispatch_events', types, i) <=> Has(dispatch_events, types, i))
  /\ Bytes(dispatch_events', i) = Bytes(dispatch_events, i)

\* No id is given away again.
Onward(i) == i >= next_id' => i >= next_id /\ (InUse(i)' => InUse(i))

\* A step that leaves the connection i and what is known of it alone.
Aside(i) ==
  /\ view'[i] = view[i] /\ (i \in DOMAIN connections') = (i \in DOMAIN connections)
  /\ i \in DOMAIN connections =>
       /\ Up(i)' = Up(i) /\ sock'[i].rx = sock[i].rx
       /\ fed'[i] = fed[i] /\ got'[i] = got[i]
  /\ Onward(i)

\* It keeps the story of i.
LEMMA AsideLife ==
  ASSUME NEW i, LifeOf(i), Aside(i), SameWords(i), UNCHANGED failed
  PROVE  LifeOf(i)'
<1>1. /\ Has(dispatch_events', {"Connected"}, i) <=> Has(dispatch_events, {"Connected"}, i)
      /\ Has(dispatch_events', {"Disconnected"}, i)
           <=> Has(dispatch_events, {"Disconnected"}, i)
      /\ Has(dispatch_events', Ends, i) <=> Has(dispatch_events, Ends, i)
      /\ Has(dispatch_events', Kinds, i) <=> Has(dispatch_events, Kinds, i)
  <2>1. {"Connected"} \subseteq Kinds /\ {"Disconnected"} \subseteq Kinds
        /\ Ends \subseteq Kinds /\ Kinds \subseteq Kinds
    BY DEF Kinds, Ends
  <2> QED
    BY <2>1 DEF SameWords
<1>2. StoryOf(i)'
  BY <1>1 DEF LifeOf, StoryOf, Story, Known, Aside
<1>3. FlowOf(i)'
  BY DEF LifeOf, FlowOf, Aside, SameWords
<1>4. UnusedOf(i)'
  BY <1>1 DEF LifeOf, UnusedOf, Aside, Onward
<1> QED
  BY <1>2, <1>3, <1>4 DEF LifeOf

\* Events about another id change nothing for i.
LEMMA OtherWords ==
  ASSUME dispatch_events \in Seq(Tcp!EventRecords), NEW fs \in Seq(Tcp!EventRecords),
         NEW j, About(fs, j), NEW i, i # j, dispatch_events' = dispatch_events \o fs
  PROVE  SameWords(i)
<1>1. \A types : ~Has(fs, types, i)
  BY AboutOthers
<1>2. Bytes(fs, i) = <<>> /\ Bytes(dispatch_events, i) \in Seq(Nat)
  BY <1>1, BytesParts
<1>3. Bytes(dispatch_events', i) = Bytes(dispatch_events, i) \o Bytes(fs, i)
  BY BytesParts
<1>4. Bytes(dispatch_events, i) \o <<>> = Bytes(dispatch_events, i)
  BY <1>2, ConcatEmptySeq
<1>5. ASSUME NEW types
      PROVE  Has(dispatch_events', types, i) <=> Has(dispatch_events, types, i)
  BY <1>1, HasParts
<1> QED
  BY <1>2, <1>3, <1>4, <1>5 DEF SameWords

\* The queue stays as it is, and nobody becomes unknown.
LEMMA QueueStays ==
  ASSUME QueueInv, dispatch_events \in Seq(Tcp!EventRecords),
         UNCHANGED <<dispatch_events, failed>>,
         pc' = "requests" => pc = "requests" \/ dispatch_events = <<>>,
         \A i \in Ids : view'[i] = "new" => view[i] = "new"
  PROVE  QueueInv'
<1>1. \A k \in 1..Len(dispatch_events) :
        dispatch_events[k].type = "Data" => dispatch_events[k].id \in Ids
  BY EventIds
<1>2. Announces(dispatch_events, view) => Announces(dispatch_events, view')
  BY <1>1 DEF Announces
<1> QED
  BY <1>2 DEF QueueInv

\* Steps that touch at most one connection, and say nothing.
LEMMA LifeStays ==
  ASSUME LifeInv, dispatch_events \in Seq(Tcp!EventRecords),
         UNCHANGED <<dispatch_events, failed>>,
         pc' = "requests" => pc = "requests" \/ dispatch_events = <<>>,
         \A i \in Ids : view'[i] = "new" => view[i] = "new",
         \A i \in Ids : Aside(i) \/ LifeOf(i)'
  PROVE  LifeInv'
<1>1. QueueInv'
  BY QueueStays DEF LifeInv
<1>2. ASSUME NEW i \in Ids, Aside(i)
      PROVE  LifeOf(i)'
  <2>1. SameWords(i)
    BY DEF SameWords
  <2> QED
    BY <1>2, <2>1, AsideLife DEF LifeInv
<1> QED
  BY <1>1, <1>2 DEF LifeInv

\* Steps that report something of one connection.
LEMMA LifeGrows ==
  ASSUME LifeInv, dispatch_events \in Seq(Tcp!EventRecords), NEW j \in Ids, NEW fs,
         j \in DOMAIN connections, UNCHANGED <<view, failed>>,
         NEW a, NEW o, NEW l, NEW d, Says(fs, j, a, o, l, d),
         dispatch_events' = dispatch_events \o fs, pc' # "requests",
         ~failed /\ view[j] = "new" =>
           Has(dispatch_events, {"Connected"}, j) \/ Announces(fs, view),
         LifeOf(j)', \A i \in Ids \ {j} : Aside(i)
  PROVE  LifeInv'
<1>1. fs \in Seq(Tcp!EventRecords) /\ About(fs, j) /\ EndsLast(fs)
  BY DEF Says
<1>2. QueueInv /\ StoryOf(j)
  BY DEF LifeInv, LifeOf
<1>3. ~Has(dispatch_events, Ends, j)
  BY <1>2 DEF StoryOf, Story
<1>4. EndsLast(dispatch_events')
  BY <1>1, <1>2, <1>3, EndsLastGrows DEF QueueInv
<1>5. ~failed => Announces(dispatch_events', view)
  BY <1>1, <1>2, AnnouncesGrow DEF QueueInv
<1>6. QueueInv'
  BY <1>2, <1>4, <1>5 DEF QueueInv
<1>7. ASSUME NEW i \in Ids, i # j
      PROVE  LifeOf(i)'
  <2>1. SameWords(i)
    BY <1>1, <1>7, OtherWords
  <2> QED
    BY <1>7, <2>1, AsideLife DEF LifeInv
<1> QED
  BY <1>6, <1>7 DEF LifeInv

-----------------------------------------------------------------------------
(* The application's calls.                                                *)

\* advance_connection_id gives every id away once.
LEMMA NextIdGrows ==
  ASSUME ReuseIds = FALSE, TablesInv, LifeInv, Tcp!NoWrap,
         Tcp!advance_connection_id(Tcp!Used \cup {next_id})
  PROVE  \A i \in Ids : i >= next_id' => i >= next_id /\ i # next_id
<1>1. PICK j \in Ids \ (Tcp!Used \cup {next_id}) :
        Tcp!Between(next_id, j) \subseteq Tcp!Used \cup {next_id} /\ next_id' = j
  BY DEF Tcp!advance_connection_id, Tcp!Ids, Ids
<1>2. /\ next_id \in Ids /\ next_id < MaxId /\ next_id \in Int /\ j \in Int
      /\ IdStart \in Int /\ MaxId \in Int /\ next_id >= IdStart
  BY TlsIdAssumption DEF TablesInv, Tcp!NoWrap, Ids
<1> DEFINE n == next_id + 1
<1>3. n \in Ids /\ n >= next_id /\ n # next_id
  BY <1>2, TlsIdAssumption DEF Ids
<1>4. n \notin Tcp!Used
  BY <1>3 DEF LifeInv, LifeOf, UnusedOf, InUse, Tcp!Used
<1>5. n \notin Tcp!Between(next_id, j)
  BY <1>1, <1>3, <1>4
<1>6. j > next_id
  <2> SUFFICES ASSUME ~(next_id < j) PROVE FALSE
    BY <1>2
  <2>1. Tcp!Between(next_id, j) = ((next_id + 1)..MaxId) \cup (IdStart..(j - 1))
    BY DEF Tcp!Between
  <2>2. n \in (next_id + 1)..MaxId
    BY <1>2
  <2> QED
    BY <1>5, <2>1, <2>2
<1> QED
  BY <1>1, <1>2, <1>6 DEF Ids

\* A new connection, accepted or asked for.
LEMMA LifeOpen ==
  ASSUME ReuseIds = FALSE, Inv, LifeInv, NEW c, NEW p, NEW v \in {"new", "connecting"},
         Tcp!OpenSocket(c, p, v), NEW s, tls' = Tcp!With(tls, next_id, s),
         c.connected # "TlsConnected", UNCHANGED <<listeners, dispatch_events, failed>>,
         pc' = "requests" => pc = "requests"
  PROVE  LifeInv'
<1>0. TablesInv /\ WorldTypes /\ dispatch_events \in Seq(Tcp!EventRecords)
  BY DEF Inv, LoopTypes
<1>1. /\ DOMAIN connections' = DOMAIN connections \cup {next_id}
      /\ connections'[next_id] = c /\ sock'[next_id] = Fresh(p, c.interest)
      /\ \A j \in DOMAIN connections : connections'[j] = connections[j] /\ sock'[j] = sock[j]
  BY <1>0, OpenEntries
<1>2. \A i \in Ids : i >= next_id' => i >= next_id /\ i # next_id
  BY <1>0, NextIdGrows DEF Tcp!OpenSocket
<1>3. next_id \in Ids /\ next_id >= next_id /\ next_id \notin DOMAIN connections
  BY <1>0, TlsIdAssumption DEF TablesInv, Ids
<1>4. /\ view' = [view EXCEPT ![next_id] = v] /\ fed' = [fed EXCEPT ![next_id] = <<>>]
      /\ got' = [got EXCEPT ![next_id] = <<>>]
  BY DEF Tcp!OpenSocket
<1>5. /\ view'[next_id] = v /\ fed'[next_id] = <<>> /\ got'[next_id] = <<>>
      /\ \A i \in Ids \ {next_id} :
           view'[i] = view[i] /\ fed'[i] = fed[i] /\ got'[i] = got[i]
  BY <1>0, <1>3, <1>4 DEF WorldTypes
<1>6. view[next_id] = "new" /\ ~Has(dispatch_events, Kinds, next_id)
  BY <1>3 DEF LifeInv, LifeOf, UnusedOf
<1>7. ASSUME NEW i \in Ids, i # next_id
      PROVE  Aside(i)
  BY <1>1, <1>2, <1>5, <1>7 DEF Aside, Up, Onward, InUse
<1>8. ASSUME NEW i \in Ids, i = next_id
      PROVE  LifeOf(i)'
  <2>1. ~Has(dispatch_events, Kinds, i) /\ Bytes(dispatch_events, i) = <<>>
    BY <1>0, <1>6, <1>8, BytesParts
  <2>2. StoryOf(i)'
    <3>1. (i \in DOMAIN connections)' = TRUE /\ Up(i)' = FALSE /\ view'[i] = v
      BY <1>1, <1>5, <1>8 DEF Up
    <3>2. Story(i, TRUE, FALSE, v, dispatch_events', failed')
      BY <2>1, StoryBegins
    <3> QED
      BY <3>1, <3>2 DEF StoryOf
  <2>3. FlowOf(i)'
    <3>1. DataOf(sock'[i].rx) = <<>> /\ <<>> \o <<>> = <<>>
      BY <1>1, <1>8, DataOfParts, EmptySeq, ConcatEmptySeq DEF Fresh
    <3> QED
      BY <1>5, <1>8, <2>1, <3>1 DEF FlowOf, Flow
  <2>4. UnusedOf(i)'
    BY <1>2, <1>8 DEF UnusedOf
  <2> QED
    BY <2>2, <2>3, <2>4 DEF LifeOf
<1>9. \A i \in Ids : view'[i] = "new" => view[i] = "new"
  BY <1>5, <1>6
<1> QED
  BY <1>0, <1>7, <1>8, <1>9, LifeStays

\* An id the application has closed.
LEMMA LifeClosed ==
  ASSUME NEW i, i \notin DOMAIN connections', view'[i] = "closed", ~(i >= next_id')
  PROVE  LifeOf(i)'
<1>1. StoryOf(i)'
  <2>1. Story(i, FALSE, Up(i)', "closed", dispatch_events', failed')
    BY StoryClosed
  <2>2. (i \in DOMAIN connections)' = FALSE
    OBVIOUS
  <2> QED
    BY <2>1, <2>2 DEF StoryOf
<1> QED
  BY <1>1 DEF LifeOf, FlowOf, UnusedOf

\* Connections are closed; view forgets them, and perhaps others.
LEMMA LifeCloses ==
  ASSUME Inv, LifeInv, NEW S,
         UNCHANGED <<next_id, pc, dispatch_events, fed, got, failed>>,
         DOMAIN connections' = DOMAIN connections \ S,
         \A j \in DOMAIN connections \ S :
           connections'[j] = connections[j] /\ sock'[j] = sock[j],
         DOMAIN listeners' \subseteq DOMAIN listeners,
         \A j \in S \cap Ids : view'[j] = "closed" /\ (InUse(j) \/ view[j] # "new"),
         \A j \in Ids \ S : view'[j] = view[j]
  PROVE  LifeInv'
<1>0. dispatch_events \in Seq(Tcp!EventRecords)
  BY DEF Inv, LoopTypes
<1>1. ASSUME NEW i \in Ids, i \in S
      PROVE  LifeOf(i)'
  <2>1. ~(i >= next_id)
    BY <1>1 DEF LifeInv, LifeOf, UnusedOf
  <2> QED
    BY <1>1, <2>1, LifeClosed
<1>2. ASSUME NEW i \in Ids, i \notin S
      PROVE  Aside(i)
  BY <1>2 DEF Aside, Up, Onward, InUse
<1>3. \A i \in Ids : view'[i] = "new" => view[i] = "new"
  OBVIOUS
<1> QED
  BY <1>0, <1>1, <1>2, <1>3, LifeStays

\* Steps that touch neither the application's view nor its bytes.
Quiet ==
  /\ UNCHANGED <<next_id, dispatch_events, view, fed, got, failed>>
  /\ DOMAIN connections' = DOMAIN connections
  /\ DOMAIN listeners' \subseteq DOMAIN listeners
  /\ pc' = "requests" => pc = "requests" \/ dispatch_events = <<>>

LEMMA LifeQuiet ==
  ASSUME Inv, LifeInv, Quiet,
         \A j \in DOMAIN connections : Up(j)' = Up(j) /\ sock'[j].rx = sock[j].rx
  PROVE  LifeInv'
<1>0. dispatch_events \in Seq(Tcp!EventRecords)
  BY DEF Inv, LoopTypes
<1>1. ASSUME NEW i \in Ids
      PROVE  Aside(i)
  BY DEF Aside, Onward, InUse, Quiet
<1> QED
  BY <1>0, <1>1, LifeStays DEF Quiet

\* queue_data changes no status and touches nothing received.
LEMMA LifeQueue ==
  ASSUME Inv, LifeInv, NEW S, NEW n, Send(S, n), UNCHANGED failed
  PROVE  LifeInv'
<1>0. TablesInv /\ ConnsInv
  BY DEF Inv
<1>1. /\ UNCHANGED <<listeners, next_id, dispatch_events, view, fed, got, pc>>
      /\ queue_data(S, n)
  BY DEF Send, thread
<1>2. DOMAIN connections' = DOMAIN connections
  BY <1>1, Zenon DEF queue_data
<1>3. Quiet
  BY <1>1, <1>2 DEF Quiet
<1>4. ASSUME NEW j \in DOMAIN connections
      PROVE  Up(j)' = Up(j) /\ sock'[j].rx = sock[j].rx
  <2>1. j \in DOMAIN sock
    BY <1>0 DEF TablesInv
  <2>2. connections[j] \in ConnectionRecords /\ sock[j] \in SocketRecords
    BY <1>0, SoundTypes DEF ConnsInv
  <2>3. CASE j \in S
    <3> DEFINE b == Tcp!NextBytes(sent[j], n)
               c2 == [connections[j] EXCEPT !.send_buf = @ \o b, !.interest = @ \cup {"W"}]
               k2 == IF "W" \notin connections[j].interest
                     THEN [sock[j] EXCEPT !.interest = @ \cup {"W"}] ELSE sock[j]
    <3>1. connections'[j] = c2 /\ sock'[j] = k2
      BY <1>1, <2>1, <2>3, Zenon DEF queue_data, Reregistered
    <3> HIDE DEF b
    <3>2. c2.connected = connections[j].connected /\ k2.rx = sock[j].rx
      BY <2>2 DEF ConnectionRecords, SocketRecords
    <3> QED
      BY <3>1, <3>2 DEF Up
  <2>4. CASE j \notin S
    <3>1. connections'[j] = connections[j] /\ sock'[j] = sock[j]
      BY <1>1, <2>1, <2>4, Zenon DEF queue_data, Reregistered
    <3> QED
      BY <3>1 DEF Up
  <2> QED
    BY <2>3, <2>4
<1> QED
  BY <1>3, <1>4, LifeQuiet

\* The operations of the interface keep the stories true.
LEMMA LifeOperations ==
  ASSUME ReuseIds = FALSE, Inv, LifeInv, Operations, UNCHANGED failed
  PROVE  LifeInv'
<1>0. /\ TablesInv /\ ConnsInv /\ view \in [Ids -> {"new", "connecting", "open"} \cup Tcp!Ended]
      /\ DOMAIN connections \subseteq Ids
  BY DEF Inv, TablesInv, WorldTypes
<1>00. UNCHANGED <<pc, dispatch_events>>
  BY OperationsCall
<1> USE <1>0, <1>00 DEF Tcp!tables, Tcp!kernel, Tcp!app, Tcp!histories
<1>1. CASE connect
  <2> DEFINE c == [connected |-> "NotConnected", interest |-> {"W"}, send_buf |-> <<>>]
  <2>1. Tcp!OpenSocket(c, "syn", "connecting") /\ tls' = Tcp!With(tls, next_id, ClientSession)
        /\ UNCHANGED listeners
    BY <1>1 DEF connect
  <2>2. c.connected # "TlsConnected"
    OBVIOUS
  <2> HIDE DEF c
  <2> QED
    BY <2>1, <2>2, LifeOpen
<1>2. CASE listen
  <2>1. UNCHANGED <<connections, sock, view, fed, got>>
    BY <1>2 DEF listen, Tcp!listen
  <2>2. DOMAIN listeners' = DOMAIN listeners \cup {next_id}
    BY <1>2, WithEntries DEF listen, Tcp!listen
  <2>3. \A i \in Ids : i >= next_id' => i >= next_id /\ i # next_id
    BY <1>2, NextIdGrows DEF listen, Tcp!listen
  <2>4. \A i \in Ids : Aside(i)
    BY <2>1, <2>2, <2>3 DEF Aside, Up, Onward, InUse
  <2> QED
    BY <2>1, <2>4, LifeStays DEF Inv, LoopTypes
<1>3. ASSUME NEW i \in Ids, close_connection(i)
      PROVE  LifeInv'
  <2>1. /\ view[i] \in {"connecting", "open"} /\ view' = [view EXCEPT ![i] = "closed"]
        /\ Tcp!DropSockets({i}) /\ tls' = Tcp!Without(tls, {i})
        /\ UNCHANGED <<listeners, next_id, fed, got>>
    BY <1>3 DEF close_connection, Tcp!close_connection
  <2>2. /\ DOMAIN connections' = DOMAIN connections \ {i}
        /\ \A j \in DOMAIN connections \ {i} :
             connections'[j] = connections[j] /\ sock'[j] = sock[j]
    BY <2>1, DropEntries
  <2>3. /\ \A j \in {i} \cap Ids : view'[j] = "closed" /\ (InUse(j) \/ view[j] # "new")
        /\ \A j \in Ids \ {i} : view'[j] = view[j]
    BY <2>1
  <2> QED
    BY <2>1, <2>2, <2>3, LifeCloses
<1>4. ASSUME NEW S, Tcp!CloseListeners(S), UNCHANGED tls
      PROVE  LifeInv'
  <2>1. UNCHANGED <<connections, next_id, sock, view, fed, got>>
        /\ DOMAIN listeners' = DOMAIN listeners \ S
    BY <1>4, WithoutEntries DEF Tcp!CloseListeners
  <2>2. Quiet /\ \A j \in DOMAIN connections : Up(j)' = Up(j) /\ sock'[j].rx = sock[j].rx
    BY <2>1 DEF Quiet, Up
  <2> QED
    BY <2>2, LifeQuiet
<1>5. ASSUME DOMAIN connections' = {}, DOMAIN listeners' \subseteq DOMAIN listeners,
             UNCHANGED <<next_id, fed, got>>,
             view' = [i \in Ids |-> IF i \in DOMAIN connections THEN "closed" ELSE view[i]]
      PROVE  LifeInv'
  <2> DEFINE S == DOMAIN connections
  <2>1. /\ DOMAIN connections' = DOMAIN connections \ S
        /\ \A j \in DOMAIN connections \ S :
             connections'[j] = connections[j] /\ sock'[j] = sock[j]
        /\ \A j \in S \cap Ids : view'[j] = "closed" /\ (InUse(j) \/ view[j] # "new")
        /\ \A j \in Ids \ S : view'[j] = view[j]
    BY <1>5 DEF InUse
  <2> HIDE DEF S
  <2> QED
    BY <1>5, <2>1, LifeCloses
<1>6. CASE close_all_connections
  <2>1. /\ Tcp!DropSockets(DOMAIN connections) /\ UNCHANGED <<listeners, next_id, fed, got>>
        /\ view' = [i \in Ids |-> IF i \in DOMAIN connections THEN "closed" ELSE view[i]]
    BY <1>6 DEF close_all_connections, Tcp!close_all_connections, Tcp!CloseConnections,
       Tcp!Ids, Ids
  <2>2. DOMAIN connections' = {}
    <3>1. connections' = Tcp!Without(connections, DOMAIN connections)
      BY <2>1 DEF Tcp!DropSockets
    <3>2. DOMAIN Tcp!Without(connections, DOMAIN connections)
            = DOMAIN connections \ DOMAIN connections
      BY WithoutEntries, Zenon
    <3> QED
      BY <3>1, <3>2
  <2> QED
    BY <1>5, <2>1, <2>2
<1>7. CASE close_all
  <2>1. DOMAIN connections' = {} /\ DOMAIN listeners' = {}
    <3>1. /\ connections' = Tcp!Without(connections, DOMAIN connections)
          /\ listeners' = Tcp!Without(listeners, DOMAIN listeners)
      BY <1>7, Zenon DEF close_all, Tcp!close_all
    <3>2. \A f : DOMAIN Tcp!Without(f, DOMAIN f) = DOMAIN f \ DOMAIN f
      BY WithoutEntries, Zenon
    <3> QED
      BY <3>1, <3>2
  <2>2. /\ UNCHANGED <<next_id, fed, got>>
        /\ view' = [i \in Ids |-> IF i \in DOMAIN connections THEN "closed" ELSE view[i]]
    BY <1>7 DEF close_all, Tcp!close_all, Tcp!Ids, Ids
  <2> QED
    BY <1>5, <2>1, <2>2
<1>8. ASSUME NEW how, NEW S, Tcp!ShutdownConnections(S, how)
      PROVE  LifeInv'
  <2>1. UNCHANGED <<connections, listeners, next_id, view, fed, got>>
    BY <1>8 DEF Tcp!ShutdownConnections
  <2>2. ASSUME NEW j \in DOMAIN connections
        PROVE  sock'[j].rx = sock[j].rx
    <3>1. sock[j] \in SocketRecords /\ j \in DOMAIN sock
      BY SoundTypes DEF ConnsInv, TablesInv
    <3>2. sock'[j] = sock[j] \/ sock'[j] = Tcp!ShutdownSocket(sock[j], how)
      BY <1>8, <3>1 DEF Tcp!ShutdownConnections
    <3> QED
      BY <3>1, <3>2, ShutdownType
  <2>3. Quiet /\ \A j \in DOMAIN connections : Up(j)' = Up(j)
    BY <2>1 DEF Quiet, Up
  <2> QED
    BY <2>2, <2>3, LifeQuiet
<1>9. ASSUME NEW S, NEW n, Send(S, n)
      PROVE  LifeInv'
  BY <1>9, LifeQueue
<1> QED
  BY <1>1, <1>2, <1>3, <1>4, <1>6, <1>7, <1>8, <1>9
     DEF Operations, close_listener, close_all_listeners, shutdown_connection,
         shutdown_all_connections, Tcp!close_listener, Tcp!close_all_listeners,
         Tcp!shutdown_connection, Tcp!shutdown_all_connections, send_to,
         send_to_many, broadcast, broadcast_except, broadcast_except_many

-----------------------------------------------------------------------------
(* The kernel and the peers.                                               *)

\* The kernel leaves what has arrived alone,
LEMMA LifeKernel ==
  ASSUME Inv, LifeInv, Peers, UNCHANGED <<fed, failed>>,
         DOMAIN listeners' \subseteq DOMAIN listeners,
         \A j \in DOMAIN connections : sock'[j].rx = sock[j].rx
  PROVE  LifeInv'
<1>1. UNCHANGED <<connections, next_id, pc, dispatch_events, view, got>>
  BY PeersCall
<1>2. Quiet /\ \A j \in DOMAIN connections : Up(j)' = Up(j)
  BY <1>1 DEF Quiet, Up
<1> QED
  BY <1>2, LifeQuiet

\* what the peer writes is in the kernel until it is read,
LEMMA LifeArrives ==
  ASSUME Inv, LifeInv, NEW i \in Ids, NEW units \in Seq(Units), NEW far, Arrive(i, units, far),
         Peers, NEW b \in Seq(Nat), DataOf(units) = b, fed'[i] = fed[i] \o b,
         \A j \in Ids \ {i} : fed'[j] = fed[j], UNCHANGED failed
  PROVE  LifeInv'
<1>0. /\ TablesInv /\ ConnsInv /\ dispatch_events \in Seq(Tcp!EventRecords)
      /\ got \in [Ids -> Seq(Nat)]
  BY DEF Inv, LoopTypes, WorldTypes
<1>1. UNCHANGED <<connections, next_id, pc, dispatch_events, view, got, listeners>>
  BY PeersCall DEF Arrive
<1>2. i \in DOMAIN sock /\ i \in DOMAIN connections /\ DOMAIN sock = DOMAIN connections
      /\ sock' = [sock EXCEPT ![i].rx = @ \o units]
  BY <1>0 DEF Arrive, TablesInv
<1>3. sock[i] \in SocketRecords /\ sock[i].rx \in Seq(Units)
  BY <1>0, <1>2, SoundTypes DEF ConnsInv
<1>4. /\ sock'[i].rx = sock[i].rx \o units
      /\ \A j \in DOMAIN connections \ {i} : sock'[j] = sock[j]
  BY <1>2, <1>3 DEF SocketRecords
<1>5. ASSUME NEW j \in Ids, j # i
      PROVE  Aside(j)
  BY <1>1, <1>4, <1>5 DEF Aside, Up, Onward, InUse
<1>6. StoryOf(i) /\ UnusedOf(i) /\ FlowOf(i)
  BY DEF LifeInv, LifeOf
<1>7. StoryOf(i)' /\ UnusedOf(i)'
  BY <1>1, <1>6 DEF StoryOf, UnusedOf, Up, InUse
<1>8. FlowOf(i)'
  <2> DEFINE u == Bytes(dispatch_events, i)
             r == DataOf(sock[i].rx)
             g == got[i]
             f == fed[i]
  <2>1. u \in Seq(Nat) /\ r \in Seq(Nat) /\ g \in Seq(Nat)
    BY <1>0, <1>3, BytesParts, DataOfParts
  <2>2. DataOf(sock'[i].rx) = r \o b
    BY <1>3, <1>4, DataOfParts
  <2>3. CASE ~failed
    <3>1. Flow(f, g, u, r)
      BY <1>2, <1>6, <2>3 DEF FlowOf
    <3> HIDE DEF u, r, g, f
    <3>2. Flow(f \o b, g, u, r \o b)
      BY <2>1, <3>1, FlowFeed
    <3> QED
      BY <1>1, <2>2, <3>2 DEF FlowOf, u, r, g, f
  <2>4. CASE failed
    BY <2>4 DEF FlowOf
  <2> QED
    BY <2>3, <2>4
<1>9. LifeOf(i)'
  BY <1>7, <1>8 DEF LifeOf
<1> QED
  BY <1>0, <1>1, <1>5, <1>9, LifeStays

\* and so the stories stay true.
LEMMA LifePeers ==
  ASSUME Inv, LifeInv, Peers, UNCHANGED failed
  PROVE  LifeInv'
<1>0. TablesInv /\ ConnsInv /\ fed \in [Ids -> Seq(Nat)] /\ MaxBytes \in Nat
      /\ DOMAIN listeners = DOMAIN listeners
  BY TlsLimitAssumption DEF Inv, WorldTypes
<1>1. PICK i \in Ids :
        \/ ConnectCompletes(i) \/ ConnectRefused(i) \/ PeerConnects(i)
        \/ PeerWrites(i) \/ PeerCloses(i) \/ PeerResets(i) \/ RoomFreed(i)
        \/ PeerHandshakes(i) \/ PeerSendsTicket(i) \/ PeerRejects(i)
        \/ PeerNotifies(i)
  BY DEF Peers
<1>2. i \in DOMAIN tls => tls[i] \in Sessions
  BY <1>0, SoundTypes DEF TablesInv, ConnsInv
<1>3. CASE PeerConnects(i) \/ PeerCloses(i)
  <2>1. UNCHANGED <<fed, sock>> /\ DOMAIN listeners' \subseteq DOMAIN listeners
    BY <1>3 DEF PeerConnects, PeerCloses, Tcp!PeerConnects, Tcp!PeerCloses, Tcp!histories
  <2> QED
    BY <2>1, LifeKernel
<1>4. CASE ConnectCompletes(i) \/ ConnectRefused(i) \/ PeerResets(i) \/ RoomFreed(i)
  <2>1. /\ UNCHANGED <<fed, listeners>> /\ i \in DOMAIN sock
        /\ \/ \E ph \in {"est", "err"} : sock' = [sock EXCEPT ![i].phase = ph]
           \/ sock' = [sock EXCEPT ![i].room = @ + 1]
    BY <1>4 DEF ConnectCompletes, ConnectRefused, PeerResets, RoomFreed,
       Tcp!ConnectCompletes, Tcp!ConnectRefused, Tcp!PeerResets, Tcp!histories
  <2>2. ASSUME NEW j \in DOMAIN connections
        PROVE  sock'[j].rx = sock[j].rx
    <3>1. sock[j] \in SocketRecords /\ j \in DOMAIN sock
      BY <1>0, SoundTypes DEF ConnsInv, TablesInv
    <3>2. \/ sock'[j] = sock[j]
          \/ \E ph \in {"est", "err"} : sock'[j] = [sock[j] EXCEPT !.phase = ph]
          \/ sock'[j] = [sock[j] EXCEPT !.room = @ + 1]
      BY <2>1, <3>1
    <3> DEFINE k == sock[j]
               k2 == sock'[j]
    <3>3. \/ k2 = k
          \/ \E ph \in {"est", "err"} : k2 = [k EXCEPT !.phase = ph]
          \/ k2 = [k EXCEPT !.room = @ + 1]
      BY <3>2
    <3>4. k \in SocketRecords
      BY <3>1
    <3> HIDE DEF k, k2
    <3>5. k2.rx = k.rx
      BY <3>3, <3>4 DEF SocketRecords
    <3> QED
      BY <3>5 DEF k, k2
  <2> QED
    BY <2>1, <2>2, LifeKernel
<1>5. CASE PeerWrites(i)
  <2> DEFINE u == Unit("data", Len(fed[i]) + 1)
             b == <<Len(fed[i]) + 1>>
  <2>1. PICK p \in Parts :
          /\ Arrive(i, Fragments(u, p), tls[i].far)
          /\ fed' = [fed EXCEPT ![i] = @ \o Tcp!NextBytes(@, 1)]
    BY <1>5 DEF PeerWrites
  <2>2. Len(fed[i]) + 1 \in Nat
    BY <1>0, LenProperties
  <2>3. u \in Units /\ u.kind = "data" /\ u.n = Len(fed[i]) + 1
    BY <2>2, SingleUnit
  <2>4. Tcp!NextBytes(fed[i], 1) = b
    BY DEF Tcp!NextBytes
  <2>5. fed'[i] = fed[i] \o b /\ \A j \in Ids \ {i} : fed'[j] = fed[j]
    BY <1>0, <2>1, <2>4
  <2>6. b \in Seq(Nat)
    BY <2>2
  <2> HIDE DEF u
  <2>7. Fragments(u, p) \in Seq(Units) /\ DataOf(Fragments(u, p)) = b
    BY <2>3, FragmentsParts
  <2> HIDE DEF b
  <2> QED
    BY <2>1, <2>5, <2>6, <2>7, LifeArrives
<1>6. ASSUME NEW units \in Seq(Units), DataOf(units) = <<>>, NEW far, Arrive(i, units, far),
             UNCHANGED fed
      PROVE  LifeInv'
  <2>1. fed'[i] = fed[i] \o <<>> /\ <<>> \in Seq(Nat)
    BY <1>0, <1>6, ConcatEmptySeq, EmptySeq
  <2> QED
    BY <1>6, <2>1, LifeArrives
<1>7. CASE PeerHandshakes(i)
  <2> DEFINE u == Unit("hs", tls[i].far + 1)
  <2>1. PICK p \in Parts :
          i \in DOMAIN tls /\ Arrive(i, Fragments(u, p), tls[i].far + 1) /\ UNCHANGED fed
    BY <1>7 DEF PeerHandshakes
  <2>2. tls[i].far + 1 \in Nat
    BY <1>2, <2>1 DEF Sessions
  <2>3. u \in Units /\ u.kind = "hs"
    BY <2>2, SingleUnit
  <2> HIDE DEF u
  <2>4. Fragments(u, p) \in Seq(Units) /\ DataOf(Fragments(u, p)) = <<>>
    BY <2>3, FragmentsParts
  <2> QED
    BY <1>6, <2>1, <2>4
<1>8. CASE PeerSendsTicket(i) \/ PeerRejects(i) \/ PeerNotifies(i)
  <2>1. PICK kind \in {"empty", "bad"} :
          \E far : Arrive(i, <<Unit(kind, 0)>>, far) /\ UNCHANGED fed
    BY <1>8 DEF PeerSendsTicket, PeerRejects, PeerNotifies
  <2>2. PICK far : Arrive(i, <<Unit(kind, 0)>>, far) /\ UNCHANGED fed
    BY <2>1
  <2>3. <<Unit(kind, 0)>> \in Seq(Units) /\ DataOf(<<Unit(kind, 0)>>) = <<>>
    BY OneUnit
  <2> QED
    BY <1>6, <2>2, <2>3
<1> QED
  BY <1>1, <1>3, <1>4, <1>5, <1>7, <1>8

-----------------------------------------------------------------------------
(* fetch_events.                                                           *)

\* The steps of the loop that report nothing and keep the connections as they are.
Calm ==
  \/ FetchEvents \/ Poll \/ PollFails \/ EventsDone
  \/ AcceptStream \/ AcceptWouldBlock \/ RegisterLostStream \/ WriteUnknown
  \/ \E e \in poll_events : HandleListener(e) \/ SkipDisconnected(e) \/ HandleWritable(e)

\* They change no story.
LEMMA LifeCalm ==
  ASSUME Inv, LifeInv, Calm, UNCHANGED failed
  PROVE  LifeInv'
<1> USE DEF Tcp!tables, Tcp!kernel, Tcp!thread, Tcp!round, Tcp!app, Tcp!histories
<1>0. QueueInv
  BY DEF LifeInv
<1> DEFINE Same == /\ UNCHANGED <<connections, sock, next_id, dispatch_events, view, fed, got>>
                   /\ DOMAIN listeners' \subseteq DOMAIN listeners
                   /\ pc' = "requests" => pc = "requests" \/ dispatch_events = <<>>
<1>1. CASE FetchEvents \/ Poll \/ PollFails \/ EventsDone
  <2>1. Same
    BY <1>1 DEF FetchEvents, Poll, PollFails, EventsDone, Tcp!FetchEvents, Tcp!Poll,
       Tcp!PollFails, Tcp!EventsDone
  <2> QED
    BY <2>1, LifeQuiet DEF Quiet, Up
<1>2. CASE AcceptStream \/ AcceptWouldBlock \/ RegisterLostStream
  <2>1. Same
    BY <1>2 DEF AcceptStream, AcceptWouldBlock, RegisterLostStream, Tcp!AcceptStream,
       Tcp!AcceptWouldBlock, Tcp!RegisterLostStream, Tcp!track_spurious_wakeup, Tcp!Panic
  <2> QED
    BY <2>1, LifeQuiet DEF Quiet, Up
<1>3. CASE WriteUnknown
  <2>1. Same
    BY <1>3 DEF WriteUnknown, Tcp!Panic, tables, kernel, app
  <2> QED
    BY <2>1, LifeQuiet DEF Quiet, Up
<1>4. ASSUME NEW e \in poll_events,
             HandleListener(e) \/ SkipDisconnected(e) \/ HandleWritable(e)
      PROVE  LifeInv'
  <2>1. Same
    BY <1>4 DEF HandleListener, SkipDisconnected, HandleWritable, Tcp!HandleListener,
       Tcp!SkipDisconnected, Tcp!HandleWritable, Tcp!Take, Tcp!Panic
  <2> QED
    BY <2>1, LifeQuiet DEF Quiet, Up
<1> QED
  BY <1>1, <1>2, <1>3, <1>4 DEF Calm

\* Inactive is about nobody.
LEMMA LifeInactive ==
  ASSUME Inv, LifeInv, ReportInactive, UNCHANGED failed
  PROVE  LifeInv'
<1> DEFINE e == Tcp!Inactive
<1>1. /\ UNCHANGED <<connections, listeners, sock, next_id, view, fed, got>>
      /\ pc = "requests" /\ pc' = "app" /\ dispatch_events' = <<e>>
  BY DEF ReportInactive, Tcp!ReportInactive, Tcp!tables, Tcp!kernel, Tcp!app, Tcp!histories
<1>2. dispatch_events = <<>>
  BY <1>1 DEF LifeInv, QueueInv
<1>3. e.type = "Inactive" /\ e \in Tcp!EventRecords
  BY DEF Tcp!Inactive, Tcp!EventRecords
<1> HIDE DEF e
<1>4. Len(<<e>>) = 1 /\ <<e>>[1] = e
  OBVIOUS
<1>5. EndsLast(<<e>>) /\ Announces(<<e>>, view)
  BY <1>3, <1>4 DEF EndsLast, Announces
<1>6. QueueInv'
  BY <1>1, <1>5 DEF QueueInv, LifeInv
<1>7. ASSUME NEW i \in Ids
      PROVE  LifeOf(i)'
  <2>1. \A types : types \subseteq Kinds =>
          ~Has(dispatch_events, types, i) /\ ~Has(dispatch_events', types, i)
    BY <1>1, <1>2, <1>3, HasParts DEF Kinds
  <2>2. Bytes(dispatch_events, i) = <<>> /\ Bytes(dispatch_events', i) = <<>>
    BY <1>1, <1>2, <1>3, BytesParts
  <2>3. SameWords(i)
    BY <2>1, <2>2 DEF SameWords
  <2>4. Aside(i)
    BY <1>1 DEF Aside, Up, Onward, InUse
  <2> QED
    BY <2>3, <2>4, AsideLife DEF LifeInv
<1> QED
  BY <1>6, <1>7 DEF LifeInv

\* A connection is removed and its end is reported.
LEMMA LifeEnds ==
  ASSUME Inv, LifeInv, NEW i \in DOMAIN connections, DropConnection(i),
         UNCHANGED <<listeners, next_id, view, fed, got, failed>>,
         NEW fs, NEW l \in BOOLEAN, NEW d, Says(fs, i, FALSE, TRUE, l, d), Up(i) => l,
         dispatch_events' = dispatch_events \o fs, pc' # "requests",
         Up(i) \/ Announces(fs, view)
  PROVE  LifeInv'
<1>0. TablesInv /\ dispatch_events \in Seq(Tcp!EventRecords) /\ i \in Ids
  BY DEF Inv, LoopTypes, TablesInv
<1>1. StoryOf(i) /\ UnusedOf(i) /\ failed \in BOOLEAN
  BY <1>0 DEF LifeInv, LifeOf, QueueInv
<1>2. /\ DOMAIN connections' = DOMAIN connections \ {i}
      /\ \A j \in DOMAIN connections \ {i} :
           connections'[j] = connections[j] /\ sock'[j] = sock[j]
  BY <1>0, DropEntries DEF DropConnection
<1>3. ASSUME NEW j \in Ids \ {i}
      PROVE  Aside(j)
  BY <1>2 DEF Aside, Up, Onward, InUse
<1>4. StoryOf(i)'
  <2>1. Story(i, TRUE, Up(i), view[i], dispatch_events, failed) /\ Up(i) \in BOOLEAN
    BY <1>1 DEF StoryOf, Up
  <2>2. Story(i, FALSE, Up(i)', view[i], dispatch_events \o fs, failed)
    BY <1>0, <1>1, <2>1, StoryEnds
  <2>3. (i \in DOMAIN connections)' = FALSE
    BY <1>2
  <2> QED
    BY <2>2, <2>3 DEF StoryOf
<1>5. LifeOf(i)'
  <2>1. ~(i >= next_id)
    BY <1>1 DEF UnusedOf, InUse
  <2> QED
    BY <1>2, <1>4, <2>1 DEF LifeOf, FlowOf, UnusedOf
<1>6. ~failed /\ view[i] = "new" =>
        Has(dispatch_events, {"Connected"}, i) \/ Announces(fs, view)
  BY <1>1 DEF StoryOf, Story, Known
<1> QED
  BY <1>0, <1>3, <1>5, <1>6, LifeGrows

\* An event that carries no data needs no announcement.
LEMMA NothingToAnnounce ==
  ASSUME NEW e, e.type # "Data", NEW v
  PROVE  Announces(<<e>>, v)
<1>1. Len(<<e>>) = 1 /\ <<e>>[1] = e
  OBVIOUS
<1> QED
  BY <1>1 DEF Announces

\* write_connection gives up,
LEMMA LifeGivesUp ==
  ASSUME Inv, LifeInv, ConnectFailed \/ WriteFails, UNCHANGED failed
  PROVE  LifeInv'
<1>0. TablesInv /\ dispatch_events \in Seq(Tcp!EventRecords) /\ cur \in Ids
  BY DEF Inv, LoopTypes, TablesInv
<1>1. PICK e \in {Tcp!Disconnected(cur), Tcp!ConnectionFailed(cur)} :
        GiveUp(e) /\ cur \in DOMAIN connections /\ (Up(cur) => e = Tcp!Disconnected(cur))
  BY DEF ConnectFailed, WriteFails, Writing, Up
<1>2. /\ DropConnection(cur) /\ dispatch_events' = Append(dispatch_events, e)
      /\ pc' = "events" /\ UNCHANGED <<listeners, next_id, view, fed, got>>
  BY <1>1 DEF GiveUp, app
<1>3. e \in Tcp!EventRecords /\ e.type # "Data"
  <2>1. e \in Tcp!EventRecords
    BY <1>0, <1>1, EventTypes
  <2>2. e.type # "Data"
    BY <1>1 DEF Tcp!Disconnected, Tcp!ConnectionFailed
  <2> QED
    BY <2>1, <2>2
<1>4. dispatch_events' = dispatch_events \o <<e>>
  BY <1>0, <1>2, <1>3, AppendIsConcat
<1>5. <<>> \in Seq(Nat)
  BY EmptySeq
<1>6. Announces(<<e>>, view)
  BY <1>3, NothingToAnnounce
<1>7. CASE e = Tcp!Disconnected(cur)
  <2>1. Says(<<e>>, cur, FALSE, TRUE, TRUE, <<>>)
    BY <1>0, <1>5, <1>7, Reports
  <2> QED
    BY <1>1, <1>2, <1>4, <1>6, <2>1, LifeEnds
<1>8. CASE e = Tcp!ConnectionFailed(cur) /\ ~Up(cur)
  <2>1. Says(<<e>>, cur, FALSE, TRUE, FALSE, <<>>)
    BY <1>0, <1>5, <1>8, Reports
  <2> QED
    BY <1>1, <1>2, <1>4, <1>6, <1>8, <2>1, LifeEnds
<1> QED
  BY <1>1, <1>7, <1>8

\* read_connection finds the end of the stream,
LEMMA LifeReadEnd ==
  ASSUME Inv, LifeInv, NEW e \in poll_events, ReadDisconnected(e), UNCHANGED failed
  PROVE  LifeInv'
<1> DEFINE i == e.id
           d == Received(i, ReadLoop(i))
           f == Tcp!DataIfAny(i, d)
           g == <<Tcp!Disconnected(i)>>
<1>1. /\ i \in DOMAIN connections /\ Up(i) /\ DropConnection(i) /\ pc = "events"
      /\ dispatch_events' = dispatch_events \o (f \o g)
      /\ UNCHANGED <<listeners, next_id, view, fed, got, pc>>
  BY DEF ReadDisconnected, ReadConnection, LastEvents, Tcp!IsConnection, Tcp!Take, Up, app
<1>2. i \in Ids
  BY <1>1 DEF Inv, TablesInv
<1>3. d \in Seq(Nat)
  <2> HIDE DEF i
  <2> QED
    BY <1>1, ReceivedType
<1>4. Says(f, i, FALSE, FALSE, FALSE, d) /\ Says(g, i, FALSE, TRUE, TRUE, <<>>)
  <2> HIDE DEF i, d
  <2> QED
    BY <1>2, <1>3, Reports
<1> HIDE DEF i, d, f, g
<1>5. Says(f \o g, i, FALSE, TRUE, TRUE, d \o <<>>)
  <2>1. Says(f \o g, i, FALSE \/ FALSE, TRUE, TRUE, d \o <<>>)
    BY <1>4, BothSay
  <2>2. (FALSE \/ FALSE) = FALSE
    OBVIOUS
  <2> QED
    BY <2>1, <2>2
<1> QED
  BY <1>1, <1>5, LifeEnds

\* or that the handshake has failed.
LEMMA LifeHandshakeFails ==
  ASSUME Inv, LifeInv, NEW e \in poll_events, HandshakeFails(e), UNCHANGED failed
  PROVE  LifeInv'
<1>0. TablesInv /\ dispatch_events \in Seq(Tcp!EventRecords)
  BY DEF Inv, LoopTypes
<1>1. PICK i : i = e.id
  OBVIOUS
<1>2. /\ i \in DOMAIN connections /\ ~Up(i) /\ DropConnection(i) /\ pc' # "requests"
      /\ UNCHANGED <<listeners, next_id, view, fed, got, dispatch_events>>
  BY <1>1 DEF HandshakeFails, ReadConnection, Tcp!IsConnection, Up, app, Tcp!Panic
<1>3. /\ DOMAIN connections' = DOMAIN connections \ {i} /\ i \in Ids
      /\ \A j \in DOMAIN connections \ {i} :
           connections'[j] = connections[j] /\ sock'[j] = sock[j]
  BY <1>0, <1>2, DropEntries DEF DropConnection, TablesInv
<1>4. ASSUME NEW j \in Ids, j # i
      PROVE  Aside(j)
  BY <1>2, <1>3, <1>4 DEF Aside, Up, Onward, InUse
<1>5. StoryOf(i) /\ UnusedOf(i)
  BY <1>3 DEF LifeInv, LifeOf
<1>6. StoryOf(i)'
  <2>1. Story(i, TRUE, FALSE, view[i], dispatch_events, failed)
    BY <1>2, <1>5 DEF StoryOf, Up
  <2>2. Story(i, FALSE, Up(i)', view[i], dispatch_events, failed)
    BY <2>1, StoryDrops
  <2>3. (i \in DOMAIN connections)' = FALSE
    BY <1>3
  <2> QED
    BY <1>2, <2>2, <2>3 DEF StoryOf
<1>7. LifeOf(i)'
  <2>1. ~(i >= next_id)
    BY <1>2, <1>5 DEF UnusedOf, InUse
  <2> QED
    BY <1>2, <1>3, <1>6, <2>1 DEF LifeOf, FlowOf, UnusedOf
<1> QED
  BY <1>0, <1>2, <1>4, <1>7, LifeStays

-----------------------------------------------------------------------------
(* read_connection and write_connection go on.                             *)

\* The bytes d are handed out in the events fs, which announce the connection if
\* this call finds its handshake over.
Reported(i, s, fs, d) ==
  LET new == connections[i].connected = "TcpConnected" /\ ~is_handshaking(s)
  IN /\ Says(fs, i, new, FALSE, FALSE, d)
     /\ Up(i) \/ Announces(fs, view)

\* A connection is brought up to date.
LEMMA LifeSettled ==
  ASSUME Inv, LifeInv, NEW i \in DOMAIN connections, NEW s, NEW buf,
         NEW k \in SocketRecords, Settle(i, s, buf, k), NEW fs, NEW d \in Seq(Nat),
         connections[i].connected # "NotConnected", Reported(i, s, fs, d),
         DataOf(sock[i].rx) = d \o DataOf(k.rx),
         dispatch_events' = dispatch_events \o fs, pc' # "requests",
         UNCHANGED <<listeners, next_id, view, fed, got, failed>>
  PROVE  LifeInv'
<1>0. /\ TablesInv /\ ConnsInv /\ dispatch_events \in Seq(Tcp!EventRecords) /\ i \in Ids
      /\ fed \in [Ids -> Seq(Nat)] /\ got \in [Ids -> Seq(Nat)]
  BY DEF Inv, LoopTypes, TablesInv, WorldTypes
<1> DEFINE c == connections[i]
           new == c.connected = "TcpConnected" /\ ~is_handshaking(s)
           up2 == c.connected = "TlsConnected" \/ ~is_handshaking(s)
<1>1. /\ DOMAIN connections' = DOMAIN connections
      /\ connections'[i] = SettledConnection(c, s, buf)
      /\ sock'[i] = SettledSocket(c, k, s, buf)
      /\ \A j \in DOMAIN connections \ {i} :
           connections'[j] = connections[j] /\ sock'[j] = sock[j]
  BY <1>0, SettleEntries
<1>2. /\ c.connected \in Statuses /\ sock[i].rx \in Seq(Units) /\ k.rx \in Seq(Units)
  BY <1>0, SoundTypes DEF ConnsInv, ConnectionRecords, SocketRecords
<1>3. /\ Says(fs, i, new, FALSE, FALSE, d) /\ new \in BOOLEAN /\ up2 \in BOOLEAN
      /\ Up(i) \/ Announces(fs, view)
      /\ c.connected # "NotConnected"
  BY DEF Reported
<1>4. (Up(i)' <=> up2) /\ sock'[i].rx = k.rx
  <2>1. Up(i)' <=> SettledConnection(c, s, buf).connected = "TlsConnected"
    BY <1>1 DEF Up
  <2>2. SettledConnection(c, s, buf).connected = "TlsConnected" <=> up2
    BY DEF SettledConnection, StatusOf
  <2>3. SettledSocket(c, k, s, buf).rx = k.rx
    BY DEF SettledSocket, SocketRecords
  <2> HIDE DEF c, up2
  <2> QED
    BY <1>1, <2>1, <2>2, <2>3
<1>5. (Up(i) => up2) /\ (new => up2) /\ (up2 => Up(i) \/ new) /\ Up(i) \in BOOLEAN
  BY <1>2, <1>3 DEF Up, Statuses
<1> HIDE DEF c, new, up2
<1>6. ASSUME NEW j \in Ids \ {i}
      PROVE  Aside(j)
  BY <1>1 DEF Aside, Up, Onward, InUse
<1>7. StoryOf(i) /\ FlowOf(i) /\ UnusedOf(i) /\ failed \in BOOLEAN
  BY <1>0 DEF LifeInv, LifeOf, QueueInv
<1>8. StoryOf(i)'
  <2>1. Story(i, TRUE, Up(i), view[i], dispatch_events, failed)
    BY <1>7 DEF StoryOf
  <2>2. Story(i, TRUE, up2, view[i], dispatch_events \o fs, failed)
    BY <1>0, <1>3, <1>5, <1>7, <2>1, StoryGrows, ZenonT(60)
  <2>3. (i \in DOMAIN connections)' = TRUE /\ Up(i)' = up2
    BY <1>1, <1>3, <1>4 DEF Up
  <2> QED
    BY <2>2, <2>3 DEF StoryOf
<1>9. FlowOf(i)'
  <2> DEFINE u == Bytes(dispatch_events, i)
             b == DataOf(k.rx)
             f == fed[i]
             g == got[i]
  <2>1. u \in Seq(Nat) /\ b \in Seq(Nat) /\ g \in Seq(Nat) /\ f \in Seq(Nat)
    BY <1>0, <1>2, BytesParts, DataOfParts
  <2>2. Bytes(dispatch_events', i) = u \o d
    BY <1>0, <1>3, BytesParts DEF Says
  <2>3. CASE ~failed
    <3>1. Flow(f, g, u, d \o b)
      BY <1>7, <2>3 DEF FlowOf
    <3> HIDE DEF u, b, f, g
    <3>2. Flow(f, g, u \o d, b)
      BY <2>1, <3>1, FlowRead
    <3> QED
      BY <1>4, <2>2, <3>2 DEF FlowOf, u, b, f, g
  <2>4. CASE failed
    BY <2>4 DEF FlowOf
  <2> QED
    BY <2>3, <2>4
<1>10. UnusedOf(i)'
  <2>1. ~(i >= next_id)
    BY <1>7 DEF UnusedOf, InUse
  <2> QED
    BY <2>1 DEF UnusedOf
<1>11. LifeOf(i)'
  BY <1>8, <1>9, <1>10 DEF LifeOf
<1>12. ~failed /\ view[i] = "new" =>
         Has(dispatch_events, {"Connected"}, i) \/ Announces(fs, view)
  BY <1>3, <1>7 DEF StoryOf, Story, Known
<1> QED
  BY <1>0, <1>3, <1>6, <1>11, <1>12, LifeGrows

\* The announcement says what it should.
LEMMA Announcement ==
  ASSUME NEW i \in Ids, NEW c, NEW s
  PROVE  Says(ConnectedIfNew(i, c, s), i,
              c.connected = "TcpConnected" /\ ~is_handshaking(s), FALSE, FALSE, <<>>)
<1> DEFINE new == c.connected = "TcpConnected" /\ ~is_handshaking(s)
<1>1. <<>> \in Seq(Nat) /\ new \in BOOLEAN
  BY EmptySeq
<1>2. CASE new
  <2>1. Says(<<Tcp!Connected(i)>>, i, TRUE, FALSE, FALSE, <<>>)
    BY <1>1, Reports
  <2>2. new = TRUE
    BY <1>2
  <2> HIDE DEF new
  <2>3. ConnectedIfNew(i, c, s) = <<Tcp!Connected(i)>>
    BY <2>2 DEF ConnectedIfNew, new
  <2>4. Says(ConnectedIfNew(i, c, s), i, new, FALSE, FALSE, <<>>)
    BY <2>1, <2>2, <2>3
  <2> QED
    BY <2>4 DEF new
<1>3. CASE ~new
  <2>1. Says(<<>>, i, FALSE, FALSE, FALSE, <<>>)
    BY <1>1, Reports
  <2>2. new = FALSE
    BY <1>3
  <2> HIDE DEF new
  <2>3. ConnectedIfNew(i, c, s) = <<>>
    BY <2>2 DEF ConnectedIfNew, new
  <2>4. Says(ConnectedIfNew(i, c, s), i, new, FALSE, FALSE, <<>>)
    BY <2>1, <2>2, <2>3
  <2> QED
    BY <2>4 DEF new
<1> QED
  BY <1>2, <1>3

\* write_connection reads nothing.
LEMMA LifeWrite ==
  ASSUME Inv, LifeInv, WriteData, UNCHANGED failed
  PROVE  LifeInv'
<1>0. TablesInv /\ ConnsInv /\ cur \in Ids
  BY DEF Inv, LoopTypes
<1>1. cur \in DOMAIN connections /\ \E n, m \in Nat : WriteStep(cur, n, m)
  BY WriteEffect
<1>2. PICK n \in Nat, m \in Nat : WriteStep(cur, n, m)
  BY <1>1
<1> DEFINE s == SessionWritten(tls[cur], Plaintext(cur), n, m)
           k == SocketWritten(sock[cur], n)
           c == connections[cur]
           fs == ConnectedIfNew(cur, c, s)
<1>3. /\ WriteRange(sock[cur], tls[cur], Plaintext(cur), n, m)
      /\ Settle(cur, s, Unsent(c.send_buf, m), k)
      /\ dispatch_events' = dispatch_events \o fs
  BY <1>2 DEF WriteStep
<1>4. /\ c.connected # "NotConnected" /\ pc' # "requests"
      /\ UNCHANGED <<listeners, next_id, view, fed, got>>
  BY Zenon DEF WriteData, Writing, Tcp!track_spurious_wakeup
<1>5. sock[cur] \in SocketRecords /\ sock[cur].rx \in Seq(Units) /\ sock[cur].room \in Nat
  BY <1>0, <1>1, SoundTypes DEF ConnsInv
<1>6. k \in SocketRecords /\ k.rx = sock[cur].rx
  <2>1. n <= sock[cur].room
    BY <1>3 DEF WriteRange
  <2>2. sock[cur].room - n \in Nat
    BY <1>5, <2>1
  <2> QED
    BY <1>5, <2>2 DEF SocketWritten, SocketRecords
<1> HIDE DEF k, s
<1>7. DataOf(sock[cur].rx) = <<>> \o DataOf(k.rx) /\ <<>> \in Seq(Nat)
  BY <1>5, <1>6, DataOfParts, ConcatEmptySeq, EmptySeq
<1>8. Reported(cur, s, fs, <<>>)
  <2>1. Says(fs, cur, c.connected = "TcpConnected" /\ ~is_handshaking(s), FALSE, FALSE, <<>>)
    BY <1>0, Announcement
  <2>2. Announces(fs, view)
    BY <1>0, <1>7, AnnouncedAtOnce DEF ConnectedIfNew
  <2> QED
    BY <2>1, <2>2 DEF Reported
<1> HIDE DEF fs
<1> QED
  BY <1>1, <1>3, <1>4, <1>6, <1>7, <1>8, LifeSettled

\* read_connection hands out what it takes from the socket, and nothing before the
\* handshake is over.
LEMMA LifeRead ==
  ASSUME Inv, LifeInv, NEW e \in poll_events, ReadData(e), UNCHANGED failed
  PROVE  LifeInv'
<1>0. TablesInv /\ ConnsInv /\ RoundInv /\ dispatch_events \in Seq(Tcp!EventRecords)
  BY DEF Inv, LoopTypes
<1>1. PICK i : i = e.id
  OBVIOUS
<1> DEFINE r == ReadLoop(i)
           rx == sock[i].rx
           s == SessionAfter(i, r)
           c == connections[i]
           k == SocketRead(sock[i], r.units)
           d == Received(i, r)
           f == Tcp!DataIfAny(i, d)
           g == ConnectedIfNew(i, c, s)
<1>2. /\ i \in DOMAIN connections /\ c.connected # "NotConnected" /\ ~r.disconnect
      /\ Settle(i, s, c.send_buf, k) /\ pc' # "requests"
      /\ dispatch_events' = (dispatch_events \o f) \o g
      /\ UNCHANGED <<listeners, next_id, view, fed, got>>
  BY <1>0, <1>1 DEF ReadData, ReadConnection, Tcp!IsConnection, RoundInv, SocketRead, app,
     Tcp!track_spurious_wakeup, Tcp!Panic, Tcp!Take
<1>3. i \in Ids /\ Sound(i)
  BY <1>0, <1>2 DEF TablesInv, ConnsInv
<1>4. /\ sock[i] \in SocketRecords /\ tls[i] \in Sessions /\ rx \in Seq(Units)
      /\ Handshaken(sock[i], tls[i]) /\ Ordered(sock[i], tls[i])
  BY <1>3, SoundTypes DEF Sound, ConnectionInv
<1>5. r.units \in 0..Len(rx) /\ r.bytes = Available(rx, r.units)
  BY <1>2, <1>4, ReadLoopFacts
<1>6. s = ProcessAll(tls[i], SubSeq(rx, 1, r.units)) /\ d = SubSeq(DataOf(rx), 1, r.bytes)
      /\ k = SocketRead(sock[i], r.units)
  BY DEF SessionAfter, Received
<1> DEFINE u == r.units
<1> HIDE DEF r, u, s, d
<1>7. u \in 0..Len(rx) /\ d = SubSeq(DataOf(rx), 1, Available(rx, u))
      /\ s = ProcessAll(tls[i], SubSeq(rx, 1, u)) /\ k = SocketRead(sock[i], u)
  BY <1>5, <1>6 DEF u
<1>8. k.rx = SubSeq(rx, u + 1, Len(rx))
  BY <1>4, <1>7 DEF SocketRead, SocketRecords
<1>9. /\ d = DataOf(SubSeq(rx, 1, u)) /\ DataOf(rx) = d \o DataOf(k.rx)
  BY <1>4, <1>7, <1>8, DataCount
<1>10. ReadsWell(sock[i], tls[i], u, k, s)
  BY <1>4, <1>7, Reads
<1>11. k \in SocketRecords /\ (is_handshaking(s) => d = <<>>)
  BY <1>9, <1>10 DEF ReadsWell
<1>12. d \in Seq(Nat)
  <2>1. SubSeq(rx, 1, u) \in Seq(Units)
    BY <1>4, <1>7, SplitAt
  <2> QED
    BY <1>9, <2>1, DataOfParts
<1> HIDE DEF rx, k
<1>13. Says(f, i, FALSE, FALSE, FALSE, d)
  BY <1>3, <1>12, Reports
<1> DEFINE new == c.connected = "TcpConnected" /\ ~is_handshaking(s)
<1>14. Says(g, i, new, FALSE, FALSE, <<>>)
  BY <1>3, Announcement
<1>15. Says(f \o g, i, new, FALSE, FALSE, d)
  <2>1. new \in BOOLEAN /\ d \o <<>> = d
    BY <1>12, ConcatEmptySeq
  <2> HIDE DEF f, g, new
  <2>2. Says(f \o g, i, FALSE \/ new, FALSE, FALSE, d \o <<>>)
    BY <1>13, <1>14, <2>1, BothSay
  <2>3. (FALSE \/ new) = new
    BY <2>1
  <2> QED
    BY <2>1, <2>2, <2>3
<1>16. Up(i) \/ Announces(f \o g, view)
  <2>1. CASE new
    <3>1. g = <<Tcp!Connected(i)>>
      BY <2>1 DEF ConnectedIfNew
    <3>2. Announces(Tcp!DataIfAny(i, d) \o <<Tcp!Connected(i)>>, view)
      BY <1>3, <1>12, AnnouncedAtOnce
    <3> QED
      BY <3>1, <3>2
  <2>2. CASE ~new /\ ~Up(i)
    <3>1. is_handshaking(s)
      <4>1. c.connected \in Statuses
        BY <1>3, SoundTypes DEF ConnectionRecords
      <4> QED
        BY <1>2, <2>2, <4>1 DEF Up, Statuses
    <3>2. f = <<>> /\ g = <<>>
      BY <1>11, <3>1 DEF Tcp!DataIfAny, ConnectedIfNew
    <3>3. Announces(<<>>, view) /\ <<>> \o <<>> = <<>>
      BY <1>3, <1>12, AnnouncedAtOnce, EmptySeq, ConcatEmptySeq
    <3> QED
      BY <3>2, <3>3
  <2> QED
    BY <2>1, <2>2
<1>17. Reported(i, s, f \o g, d)
  BY <1>15, <1>16 DEF Reported
<1>18. dispatch_events' = dispatch_events \o (f \o g)
  <2>1. f \in Seq(Tcp!EventRecords) /\ g \in Seq(Tcp!EventRecords)
    BY <1>13, <1>14 DEF Says
  <2>2. Joins(dispatch_events, f, g)
    BY <1>0, <2>1, JoinsAlways
  <2> QED
    BY <1>2, <2>2 DEF Joins
<1> HIDE DEF f, g, new
<1>19. DataOf(sock[i].rx) = d \o DataOf(k.rx)
  BY <1>9 DEF rx
<1> QED
  BY <1>2, <1>11, <1>12, <1>17, <1>18, <1>19, LifeSettled

-----------------------------------------------------------------------------
(* The application takes an event; events are dropped; every step.         *)

\* What it does to the queue and to what the application believes.
LEMMA AppEffect ==
  ASSUME Inv, AppHandlesEvent
  PROVE  LET e == Head(dispatch_events) IN
         /\ dispatch_events # <<>> /\ dispatch_events' = Tail(dispatch_events)
         /\ e \in Tcp!EventRecords /\ (e.type # "Inactive" => e.id \in Ids)
         /\ UNCHANGED <<connections, listeners, next_id, sock, fed, pc>> /\ pc = "app"
         /\ \A i \in Ids :
              IF e.type # "Inactive" /\ e.id = i
              THEN /\ view'[i] = Told(view[i], e)
                   /\ e.type = "Data" => e.data \in Seq(Nat)
                   /\ got'[i] = IF e.type = "Data" /\ view[i] # "closed"
                                THEN got[i] \o e.data ELSE got[i]
              ELSE view'[i] = view[i] /\ got'[i] = got[i]
<1> DEFINE e == Head(dispatch_events)
<1>0. /\ dispatch_events \in Seq(Tcp!EventRecords) /\ got \in [Ids -> Seq(Nat)]
      /\ view \in [Ids -> {"new", "connecting", "open"} \cup Tcp!Ended]
  BY DEF Inv, LoopTypes, WorldTypes
<1>1. /\ dispatch_events # <<>> /\ dispatch_events' = Tail(dispatch_events) /\ pc = "app"
      /\ UNCHANGED <<connections, listeners, next_id, sock, fed, pc>>
  BY DEF AppHandlesEvent, Tcp!AppHandlesEvent, Tcp!tables, Tcp!kernel, Tcp!thread
<1> DEFINE live == e.type # "Inactive" /\ view[e.id] # "closed"
<1>2. /\ view' = (IF ~live \/ e.type = "Data" THEN view
                  ELSE [view EXCEPT ![e.id] = Tcp!ViewAfter[e.type]])
      /\ got' = (IF live /\ e.type = "Data" THEN [got EXCEPT ![e.id] = @ \o e.data] ELSE got)
  BY DEF AppHandlesEvent, Tcp!AppHandlesEvent
<1>3. e \in Tcp!EventRecords
  BY <1>0, <1>1, TailEvents
<1> HIDE DEF e
<1>4. (e.type # "Inactive" => e.id \in Ids) /\ (e.type = "Data" => e.data \in Seq(Nat))
  BY <1>3 DEF Tcp!EventRecords, Tcp!Ids, Ids
<1>5. ASSUME NEW i \in Ids
      PROVE  IF e.type # "Inactive" /\ e.id = i
             THEN /\ view'[i] = Told(view[i], e)
                  /\ e.type = "Data" => e.data \in Seq(Nat)
                  /\ got'[i] = IF e.type = "Data" /\ view[i] # "closed"
                               THEN got[i] \o e.data ELSE got[i]
             ELSE view'[i] = view[i] /\ got'[i] = got[i]
  <2>1. CASE e.type # "Inactive" /\ e.id = i
    <3>1. view'[i] = Told(view[i], e)
      BY <1>0, <1>2, <2>1 DEF Told
    <3>2. got'[i] = IF e.type = "Data" /\ view[i] # "closed"
                    THEN got[i] \o e.data ELSE got[i]
      BY <1>0, <1>2, <2>1
    <3> QED
      BY <1>4, <2>1, <3>1, <3>2
  <2>2. CASE ~(e.type # "Inactive" /\ e.id = i)
    <3>1. view'[i] = view[i] /\ got'[i] = got[i]
      BY <1>0, <1>2, <2>2
    <3> QED
      BY <2>2, <3>1
  <2> QED
    BY <2>1, <2>2
<1> QED
  BY <1>1, <1>3, <1>4, <1>5 DEF e

\* The story goes on as the application is told,
LEMMA LifeHandled ==
  ASSUME Inv, LifeInv, AppHandlesEvent, UNCHANGED failed
  PROVE  LifeInv'
<1> DEFINE e == Head(dispatch_events)
           es == dispatch_events
           fs == Tail(dispatch_events)
<1>0. /\ es \in Seq(Tcp!EventRecords) /\ got \in [Ids -> Seq(Nat)]
  BY DEF Inv, LoopTypes, WorldTypes
<1>1. /\ es # <<>> /\ dispatch_events' = fs
      /\ e \in Tcp!EventRecords /\ (e.type # "Inactive" => e.id \in Ids)
      /\ UNCHANGED <<connections, listeners, next_id, sock, fed, pc>> /\ pc = "app"
      /\ \A i \in Ids :
           IF e.type # "Inactive" /\ e.id = i
           THEN /\ view'[i] = Told(view[i], e)
                /\ e.type = "Data" => e.data \in Seq(Nat)
                /\ got'[i] = IF e.type = "Data" /\ view[i] # "closed"
                             THEN got[i] \o e.data ELSE got[i]
           ELSE view'[i] = view[i] /\ got'[i] = got[i]
  BY AppEffect
<1>2. /\ fs \in Seq(Tcp!EventRecords)
      /\ \A types, i : Has(es, types, i) <=>
           (e.type \in types /\ e.id = i) \/ Has(fs, types, i)
      /\ \A i : Bytes(es, i) = Bytes(<<e>>, i) \o Bytes(fs, i)
      /\ EndsLast(es) => EndsLast(fs)
  BY <1>0, <1>1, TailEvents
<1>3. QueueInv
  BY DEF LifeInv
<1>4. \A i \in Ids : /\ Bytes(<<e>>, i) = IF e.type = "Data" /\ e.id = i THEN e.data ELSE <<>>
                     /\ Bytes(fs, i) \in Seq(Nat)
  BY <1>1, <1>2, BytesParts
<1>5. e.type \in {"Connected", "Data", "ConnectionFailed", "Disconnected", "Inactive"}
  BY <1>1 DEF Tcp!EventRecords
<1>6. ASSUME NEW i \in Ids
      PROVE  (view'[i] = "new" => view[i] = "new")
             /\ (e.type = "Connected" /\ e.id = i => view'[i] # "new")
  <2> HIDE DEF e
  <2> QED
    BY <1>1, <1>5 DEF Told, Tcp!ViewAfter
<1>7. QueueInv'
  <2>1. Announces(es, view) => Announces(fs, view')
    BY <1>0, <1>1, <1>6, AnnouncesShrink
  <2> QED
    BY <1>1, <1>2, <1>3, <2>1 DEF QueueInv
<1>8. ASSUME NEW i \in Ids, e.type = "Inactive" \/ e.id # i
      PROVE  LifeOf(i)'
  <2> HIDE DEF e, es, fs
  <2>1. \A types : types \subseteq Kinds => (Has(es, types, i) <=> Has(fs, types, i))
    BY <1>2, <1>8 DEF Kinds
  <2>2. Bytes(es, i) = Bytes(fs, i)
    <3>1. Bytes(<<e>>, i) = <<>>
      BY <1>4, <1>8
    <3> QED
      BY <1>2, <1>4, <3>1, ConcatEmptySeq
  <2>3. SameWords(i)
    BY <1>1, <2>1, <2>2 DEF SameWords, es
  <2>4. Aside(i)
    BY <1>1, <1>8 DEF Aside, Up, Onward, InUse
  <2> QED
    BY <2>3, <2>4, AsideLife DEF LifeInv
<1>9. ASSUME NEW i \in Ids, e.type # "Inactive", e.id = i
      PROVE  LifeOf(i)'
  <2> DEFINE alive == i \in DOMAIN connections
             v2 == Told(view[i], e)
  <2>0. LifeOf(i) /\ failed \in BOOLEAN /\ alive \in BOOLEAN /\ Up(i) \in BOOLEAN
        /\ EndsLast(es)
    BY <1>3 DEF LifeInv, QueueInv, Up
  <2>1. /\ view'[i] = v2
        /\ e.type = "Data" => e.data \in Seq(Nat)
        /\ got'[i] = IF e.type = "Data" /\ view[i] # "closed"
                     THEN got[i] \o e.data ELSE got[i]
    BY <1>1, <1>9
  <2>2. StoryOf(i)'
    <3>1. Story(i, alive, Up(i), view[i], es, failed)
      BY <2>0 DEF LifeOf, StoryOf
    <3> DEFINE v == view[i]
               u == Up(i)
    <3>2. /\ es \in Seq(Tcp!EventRecords) /\ es # <<>> /\ EndsLast(es)
          /\ alive \in BOOLEAN /\ u \in BOOLEAN /\ failed \in BOOLEAN
          /\ Head(es).type # "Inactive" /\ Head(es).id = i
          /\ Story(i, alive, u, v, es, failed)
      BY <1>0, <1>1, <1>9, <2>0, <3>1
    <3> HIDE DEF es, alive, v, u
    <3>3. Story(i, alive, u, Told(v, Head(es)), Tail(es), failed)
      BY <3>2, StoryGoesOn
    <3> QED
      BY <1>1, <2>1, <3>3 DEF StoryOf, Up, es, alive, v, u
  <2>3. FlowOf(i)'
    <3>1. CASE alive /\ ~failed
      <4>1. Flow(fed[i], got[i], Bytes(es, i), DataOf(sock[i].rx)) /\ view[i] # "closed"
        BY <2>0, <3>1 DEF LifeOf, FlowOf, StoryOf, Story
      <4>2. Bytes(es, i) = Bytes(<<e>>, i) \o Bytes(fs, i) /\ Bytes(fs, i) \in Seq(Nat)
            /\ got[i] \in Seq(Nat)
        BY <1>0, <1>2, <1>4
      <4> DEFINE u == Bytes(fs, i)
                 b == Bytes(<<e>>, i)
                 g == got[i]
                 x == DataOf(sock[i].rx)
      <4>3. /\ Flow(fed[i], g, b \o u, x) /\ u \in Seq(Nat) /\ g \in Seq(Nat)
        BY <4>1, <4>2
      <4>4. b = (IF e.type = "Data" THEN e.data ELSE <<>>)
        BY <1>4, <1>9
      <4> HIDE DEF u, b, g, x
      <4>5. Flow(fed[i], got'[i], u, x)
        <5>1. CASE e.type = "Data"
          <6>1. b \in Seq(Nat) /\ got'[i] = g \o b
            BY <2>1, <4>1, <4>4, <5>1 DEF g
          <6> QED
            BY <4>3, <6>1, FlowTake
        <5>2. CASE e.type # "Data"
          <6>1. b \o u = u /\ got'[i] = g
            BY <2>1, <4>3, <4>4, <5>2, ConcatEmptySeq DEF g
          <6> QED
            BY <4>3, <6>1
        <5> QED
          BY <5>1, <5>2
      <4> QED
        BY <1>1, <4>5 DEF FlowOf, u, x
    <3>2. CASE ~alive \/ failed
      BY <1>1, <3>2 DEF FlowOf
    <3> QED
      BY <3>1, <3>2
  <2>4. UnusedOf(i)'
    <3>1. Has(es, Kinds, i)
      <4>1. e.type \in Kinds
        BY <1>5, <1>9 DEF Kinds
      <4> QED
        BY <1>2, <1>9, <4>1
    <3> QED
      BY <1>1, <2>0, <3>1 DEF LifeOf, UnusedOf
  <2> QED
    BY <2>2, <2>3, <2>4 DEF LifeOf
<1> QED
  BY <1>7, <1>8, <1>9 DEF LifeInv

\* or breaks off when accept_connections fails.
LEMMA LifeLost ==
  ASSUME Inv, LifeInv, AcceptFails, failed' = TRUE
  PROVE  LifeInv'
<1>1. /\ UNCHANGED <<connections, next_id, sock, view, fed, got>>
      /\ DOMAIN listeners' \subseteq DOMAIN listeners
      /\ dispatch_events' = <<>> /\ pc' = "app"
  BY WithoutEntries, ZenonT(60) DEF AcceptFails, AcceptError, NodelayError, Tcp!AcceptError,
     Tcp!NodelayError, Tcp!ReturnError, Tcp!app, Tcp!histories
<1>2. \A types, i : ~Has(<<>>, types, i)
  BY HasParts
<1>3. QueueInv'
  <2>1. EndsLast(<<>>)
    BY EmptySeq DEF EndsLast
  <2> QED
    BY <1>1, <2>1 DEF QueueInv
<1>4. ASSUME NEW i \in Ids
      PROVE  LifeOf(i)'
  <2>1. LifeOf(i) /\ failed \in BOOLEAN
    BY DEF LifeInv, QueueInv
  <2>2. StoryOf(i)'
    <3> DEFINE alive == i \in DOMAIN connections
    <3>1. Story(i, alive, Up(i), view[i], dispatch_events, failed)
          /\ alive \in BOOLEAN /\ Up(i) \in BOOLEAN
      BY <2>1 DEF LifeOf, StoryOf, Up
    <3>2. Story(i, alive, Up(i), view[i], <<>>, TRUE)
      BY <2>1, <3>1, StoryLost, ZenonT(60)
    <3> QED
      BY <1>1, <3>2 DEF StoryOf, Up
  <2>3. FlowOf(i)'
    BY DEF FlowOf
  <2>4. UnusedOf(i)'
    BY <1>1, <1>2, <2>1 DEF LifeOf, UnusedOf, InUse
  <2> QED
    BY <2>2, <2>3, <2>4 DEF LifeOf
<1> QED
  BY <1>3, <1>4 DEF LifeInv

\* The steps of the loop keep the stories true,
LEMMA LifeLoop ==
  ASSUME ReuseIds = FALSE, Inv, LifeInv, Loop, UNCHANGED failed
  PROVE  LifeInv'
<1>1. CASE RegisterStream
  <2> DEFINE c == [connected |-> AcceptedStatus, interest |-> {"R"}, send_buf |-> <<>>]
  <2>1. /\ Tcp!OpenSocket(c, "est", "new") /\ tls' = Tcp!With(tls, next_id, ServerSession)
        /\ pc' # "requests" /\ UNCHANGED <<listeners, dispatch_events>>
    BY <1>1 DEF RegisterStream, Tcp!track_spurious_wakeup
  <2>2. c.connected # "TlsConnected"
    BY DEF AcceptedStatus
  <2> HIDE DEF c
  <2> QED
    BY <2>1, <2>2, LifeOpen
<1>2. ASSUME NEW e \in poll_events, HandshakeFails(e) \/ ReadDisconnected(e) \/ ReadData(e)
      PROVE  LifeInv'
  BY <1>2, LifeHandshakeFails, LifeReadEnd, LifeRead
<1>3. CASE ConnectEstablished
  <2>1. /\ UNCHANGED <<listeners, sock, next_id, dispatch_events, view, fed, got>>
        /\ pc' # "requests" /\ connections[cur].connected = "NotConnected"
        /\ connections' = [connections EXCEPT ![cur].connected = "TcpConnected"]
    BY <1>3 DEF ConnectEstablished, Writing, kernel, app
  <2>2. \A j \in DOMAIN connections : Up(j)' = Up(j)
    BY <2>1 DEF Up
  <2>3. Quiet
    BY <2>1 DEF Quiet
  <2> QED
    BY <2>1, <2>2, <2>3, LifeQuiet
<1> QED
  BY <1>1, <1>2, <1>3, LifeInactive, LifeCalm, LifeGivesUp, LifeWrite
     DEF Loop, HandleEvent, Accept, Write, Calm

\* and so does every step.
LEMMA LifeStep ==
  ASSUME ReuseIds = FALSE, Inv, LifeInv, [Next]_vars
  PROVE  LifeInv'
<1>1. CASE UNCHANGED vars
  <2>1. Quiet /\ \A j \in DOMAIN connections : Up(j)' = Up(j) /\ sock'[j].rx = sock[j].rx
    BY <1>1 DEF Quiet, Up, vars, state, tables, kernel, app, thread
  <2> QED
    BY <2>1, LifeQuiet
<1>2. CASE FetchEvents /\ UNCHANGED failed
  BY <1>2, LifeCalm DEF Calm
<1> QED
  BY <1>1, <1>2, LifeOperations, LifeHandled, LifeLoop, LifePeers, LifeLost DEF Next

\* At the beginning no id has a story.
LEMMA LifeInit == Init => LifeInv
<1> SUFFICES ASSUME Init PROVE LifeInv
  OBVIOUS
<1>1. /\ DOMAIN connections = {} /\ DOMAIN listeners = {} /\ dispatch_events = <<>>
      /\ pc = "app" /\ failed = FALSE /\ \A i \in Ids : view[i] = "new"
  BY DEF Init, Tcp!Init, Tcp!EmptyMap, Tcp!Ids, Ids
<1>2. \A types, i : ~Has(dispatch_events, types, i)
  BY <1>1, HasParts
<1>3. QueueInv
  <2>1. EndsLast(<<>>) /\ Announces(<<>>, view)
    BY EmptySeq DEF EndsLast, Announces
  <2> QED
    BY <1>1, <2>1 DEF QueueInv
<1>4. ASSUME NEW i \in Ids
      PROVE  LifeOf(i)
  BY <1>1, <1>2 DEF LifeOf, StoryOf, Story, Known, FlowOf, UnusedOf, InUse
<1> QED
  BY <1>3, <1>4 DEF LifeInv

\* LifeInv is invariant, as long as ids are not used again.
THEOREM LifeCorrect ==
  ASSUME ReuseIds = FALSE
  PROVE  Spec => []LifeInv
<1>1. Inv /\ LifeInv /\ [Next]_vars => LifeInv'
  BY LifeStep
<1> QED
  BY <1>1, LifeInit, InvCorrect, PTL DEF Spec

-----------------------------------------------------------------------------
(* Lookups and assertions that fail.                                       *)

\* The application does not believe in i, and is not going to.
Unheard(i) ==
  view[i] # "open" /\ ~Has(dispatch_events, {"Connected", "Disconnected"}, i)

\* fetch_events knows what to do with an event about i, or stumbles over an id the
\* application has not been told about.
Expected(i) == InUse(i) \/ i \in disconnected_ids \/ Unheard(i)

AbortInv ==
  /\ \A e \in poll_events : Expected(e.id)
  /\ pc = "write" => cur \in DOMAIN connections \/ Unheard(cur)
  /\ panic \in {"unknown_id", "read_assertion"} => Unheard(cur)
  /\ panic # "none" => pc = "panic"

\* Whoever has not completed the handshake has not been announced, nor its end.
LEMMA NotUpUnheard ==
  ASSUME LifeInv, NEW i \in Ids, i \in DOMAIN connections, ~Up(i)
  PROVE  Unheard(i)
<1>1. /\ ~Known(view[i], dispatch_events, i) /\ ~Has(dispatch_events, Ends, i)
  BY DEF LifeInv, LifeOf, StoryOf, Story
<1> QED
  BY <1>1 DEF Unheard, Known, Has, Is, Ends

\* Events about somebody else, or none.
LEMMA UnheardStays ==
  ASSUME dispatch_events \in Seq(Tcp!EventRecords), NEW i, NEW j, i # j,
         NEW fs \in Seq(Tcp!EventRecords), About(fs, j),
         dispatch_events' = dispatch_events \o fs,
         view'[i] = view[i]
  PROVE  Unheard(i)' <=> Unheard(i)
<1>1. {"Connected", "Disconnected"} \subseteq Kinds
  BY DEF Kinds
<1>2. SameWords(i)
  BY OtherWords
<1> QED
  BY <1>1, <1>2 DEF Unheard, SameWords

\* A step goes on expecting the ids of the round, and panics for a reason.
LEMMA AbortGoesOn ==
  ASSUME AbortInv, LoopTypes, pc # "panic", poll_events' \subseteq poll_events,
         \A i \in Ids : Expected(i) => Expected(i)',
         pc' = "write" => cur' \in DOMAIN connections' \/ Unheard(cur)',
         panic' \in {"unknown_id", "read_assertion"} => Unheard(cur)',
         panic' # "none" => pc' = "panic"
  PROVE  AbortInv'
<1>1. \A e \in poll_events : e.id \in Ids
  BY DEF LoopTypes
<1> QED
  BY <1>1 DEF AbortInv

\* Steps that report nothing and keep the tables.
LEMMA AbortQuiet ==
  ASSUME AbortInv, LoopTypes, pc # "panic", poll_events' \subseteq poll_events,
         UNCHANGED dispatch_events, disconnected_ids \subseteq disconnected_ids',
         \A i \in Ids : view'[i] = view[i] \/ view'[i] # "open",
         DOMAIN connections \subseteq DOMAIN connections',
         DOMAIN listeners \subseteq DOMAIN listeners',
         pc' = "write" => cur' \in DOMAIN connections' \/ (UNCHANGED cur /\ pc = "write"),
         panic' \in {"unknown_id", "read_assertion"} => cur' \in Ids /\ Unheard(cur'),
         panic' # "none" => pc' = "panic"
  PROVE  AbortInv'
<1>1. cur \in Ids
  BY DEF LoopTypes
<1>2. \A i \in Ids : Unheard(i) => Unheard(i)'
  BY DEF Unheard
<1>3. \A i \in Ids : Expected(i) => Expected(i)'
  BY <1>2 DEF Expected, InUse
<1>4. pc' = "write" => cur' \in DOMAIN connections' \/ Unheard(cur)'
  BY <1>1, <1>2 DEF AbortInv
<1>5. panic' \in {"unknown_id", "read_assertion"} => Unheard(cur)'
  <2> SUFFICES ASSUME panic' \in {"unknown_id", "read_assertion"}
               PROVE  Unheard(cur)'
    OBVIOUS
  <2>1. PICK i \in Ids : i = cur' /\ Unheard(i)
    OBVIOUS
  <2>2. Unheard(i)'
    BY <1>2, <2>1
  <2> QED
    BY <2>1, <2>2 DEF Unheard
<1> QED
  BY <1>3, <1>4, <1>5, AbortGoesOn

\* Steps that report something about one connection, which stays in the table or
\* is known to be gone.
LEMMA AbortReports ==
  ASSUME Inv, AbortInv, pc # "panic", poll_events' \subseteq poll_events,
         NEW j, NEW fs, NEW a, NEW o, NEW l, NEW d, Says(fs, j, a, o, l, d),
         dispatch_events' = dispatch_events \o fs,
         UNCHANGED <<view, listeners>>, disconnected_ids \subseteq disconnected_ids',
         DOMAIN connections \ {j} \subseteq DOMAIN connections',
         j \in DOMAIN connections' \/ j \in disconnected_ids',
         pc' = "write" => cur' \in DOMAIN connections',
         panic' \in {"unknown_id", "read_assertion"} => Unheard(cur)',
         panic' # "none" => pc' = "panic"
  PROVE  AbortInv'
<1>1. LoopTypes /\ dispatch_events \in Seq(Tcp!EventRecords)
  BY DEF Inv, LoopTypes
<1>2. fs \in Seq(Tcp!EventRecords) /\ About(fs, j)
  BY DEF Says
<1>3. ASSUME NEW i \in Ids, Expected(i)
      PROVE  Expected(i)'
  <2>1. CASE i = j
    BY <2>1 DEF Expected, InUse
  <2>2. CASE i # j
    <3>1. Unheard(i)' <=> Unheard(i)
      BY <1>1, <1>2, <2>2, UnheardStays
    <3> QED
      BY <1>3, <2>2, <3>1 DEF Expected, InUse
  <2> QED
    BY <2>1, <2>2
<1> QED
  BY <1>1, <1>3, AbortGoesOn

\* No events are left to be handled.
LEMMA AbortIdle ==
  ASSUME AbortInv, pc # "panic", poll_events' = {}, UNCHANGED panic, pc' # "write"
  PROVE  AbortInv'
  BY DEF AbortInv

\* A round begins with events of registered sources.
LEMMA AbortPoll ==
  ASSUME Inv, AbortInv, Poll
  PROVE  AbortInv'
<1>1. PICK S \in SUBSET Tcp!Reportable :
        poll_events' = UNION {Tcp!EventsOf(i) : i \in S}
  BY DEF Poll, Tcp!Poll
<1>2. ASSUME NEW i, NEW e \in Tcp!EventsOf(i)
      PROVE  e.id = i
  BY <1>2 DEF Tcp!EventsOf, Tcp!PollEvent
<1>3. \A i \in Tcp!Reportable : InUse(i)
  BY DEF Tcp!Reportable, Tcp!ReadReady, Tcp!WriteReady, Inv, TablesInv, InUse
<1>4. UNCHANGED <<connections, listeners, panic>> /\ pc = "requests" /\ pc' = "events"
  BY DEF Poll, Tcp!Poll, Tcp!tables
<1>5. \A e \in poll_events' : InUse(e.id)
  BY <1>1, <1>2, <1>3
<1>6. \A e \in poll_events' : Expected(e.id)'
  BY <1>4, <1>5 DEF Expected, InUse
<1> QED
  BY <1>4, <1>6 DEF AbortInv

\* Between two rounds nothing is left of the last one.
LEMMA AbortBetween ==
  ASSUME Inv, AbortInv,
         Operations \/ AppHandlesEvent \/ FetchEvents \/ ReportInactive \/ PollFails
           \/ EventsDone \/ AcceptFails
  PROVE  AbortInv'
<1>0. RoundInv
  BY DEF Inv
<1>1. pc # "panic" /\ poll_events' = {} /\ UNCHANGED panic /\ pc' # "write"
  <2>1. CASE Operations
    <3>1. Tcp!Api /\ UNCHANGED <<pc, panic, poll_events>>
      BY <2>1, OperationsCall, SMTT(60)
    <3> QED
      BY <1>0, <3>1 DEF Tcp!Api, RoundInv
  <2>2. CASE AppHandlesEvent \/ FetchEvents \/ ReportInactive \/ PollFails \/ EventsDone
    BY <1>0, <2>2 DEF AppHandlesEvent, FetchEvents, ReportInactive, PollFails, EventsDone,
       Tcp!AppHandlesEvent, Tcp!FetchEvents, Tcp!ReportInactive, Tcp!PollFails,
       Tcp!EventsDone, Tcp!thread, Tcp!round, RoundInv
  <2>3. CASE AcceptFails
    BY <2>3 DEF AcceptFails, AcceptError, NodelayError, Tcp!AcceptError, Tcp!NodelayError,
       Tcp!ReturnError
  <2> QED
    BY <2>1, <2>2, <2>3
<1> QED
  BY <1>1, AbortIdle

\* An event is passed on, or leads to an id that is unknown.
LEMMA AbortPassesOn ==
  ASSUME Inv, AbortInv, NEW e \in poll_events,
         HandleListener(e) \/ SkipDisconnected(e) \/ HandleWritable(e)
  PROVE  AbortInv'
<1>1. PICK i : i = e.id
  OBVIOUS
<1>2. LoopTypes /\ i \in Ids /\ Expected(i)
  BY <1>1 DEF Inv, LoopTypes, AbortInv
<1>3. /\ pc = "events" /\ poll_events' \subseteq poll_events /\ cur' = i
      /\ UNCHANGED <<connections, listeners, dispatch_events, disconnected_ids, view>>
  BY <1>1 DEF HandleListener, SkipDisconnected, HandleWritable, Tcp!HandleListener,
     Tcp!SkipDisconnected, Tcp!HandleWritable, Tcp!Take, Tcp!tables, Tcp!kernel, Tcp!app
<1>4. panic = "none"
  BY <1>3 DEF AbortInv
<1>5. /\ pc' = "write" => i \in DOMAIN connections
      /\ panic' # "none" =>
           pc' = "panic" /\ i \notin disconnected_ids /\ ~InUse(i)
  BY <1>1, <1>3, <1>4 DEF HandleListener, SkipDisconnected, HandleWritable,
     Tcp!HandleListener, Tcp!SkipDisconnected, Tcp!HandleWritable, Tcp!IsConnection,
     Tcp!IsListener, Tcp!Panic, InUse
<1>6. panic' \in {"unknown_id", "read_assertion"} => cur' \in Ids /\ Unheard(cur')
  <2> SUFFICES ASSUME panic' \in {"unknown_id", "read_assertion"}
               PROVE  cur' \in Ids /\ Unheard(cur')
    OBVIOUS
  <2>1. Unheard(i)
    BY <1>2, <1>5 DEF Expected
  <2> QED
    BY <1>2, <1>3, <2>1
<1> QED
  BY <1>2, <1>3, <1>5, <1>6, AbortQuiet

\* Streams are accepted,
LEMMA AbortAccepts ==
  ASSUME Inv, AbortInv, Accept
  PROVE  AbortInv'
<1>0. LoopTypes /\ TablesInv /\ WorldTypes
  BY DEF Inv
<1>1. /\ pc \in {"accept", "register"} /\ poll_events' = poll_events
      /\ UNCHANGED <<cur, dispatch_events, disconnected_ids>>
      /\ pc' # "write"
  BY DEF Accept, AcceptStream, AcceptWouldBlock, RegisterStream, RegisterLostStream,
     Tcp!AcceptStream, Tcp!AcceptWouldBlock, Tcp!RegisterLostStream, Tcp!Panic,
     Tcp!track_spurious_wakeup
<1>2. panic = "none"
  BY <1>1 DEF AbortInv
<1>3. /\ panic' \notin {"unknown_id", "read_assertion"}
      /\ panic' # "none" => pc' = "panic"
  BY <1>2 DEF Accept, AcceptStream, AcceptWouldBlock, RegisterStream, RegisterLostStream,
     Tcp!AcceptStream, Tcp!AcceptWouldBlock, Tcp!RegisterLostStream, Tcp!Panic,
     Tcp!track_spurious_wakeup
<1>4. /\ DOMAIN connections \subseteq DOMAIN connections'
      /\ DOMAIN listeners \subseteq DOMAIN listeners'
      /\ \A i \in Ids : view'[i] = view[i] \/ view'[i] # "open"
  <2>1. CASE AcceptStream \/ AcceptWouldBlock \/ RegisterLostStream
    BY <2>1 DEF AcceptStream, AcceptWouldBlock, RegisterLostStream, Tcp!AcceptStream,
       Tcp!AcceptWouldBlock, Tcp!RegisterLostStream, Tcp!tables, Tcp!app
  <2>2. CASE RegisterStream
    <3> DEFINE c == [connected |-> AcceptedStatus, interest |-> {"R"}, send_buf |-> <<>>]
    <3>1. Tcp!OpenSocket(c, "est", "new") /\ UNCHANGED listeners
      BY <2>2 DEF RegisterStream
    <3> HIDE DEF c
    <3>2. connections' = Tcp!With(connections, next_id, c)
          /\ view' = [view EXCEPT ![next_id] = "new"]
      BY <3>1 DEF Tcp!OpenSocket
    <3> QED
      BY <1>0, <3>1, <3>2 DEF Tcp!With, WorldTypes
  <2> QED
    BY <2>1, <2>2 DEF Accept
<1> QED
  BY <1>0, <1>1, <1>3, <1>4, AbortQuiet

\* the handshake of a connection fails, and its removal leads to a lookup that fails
\* if the event is writable as well,
LEMMA AbortHandshakeFails ==
  ASSUME Inv, LifeInv, AbortInv, NEW e \in poll_events, HandshakeFails(e)
  PROVE  AbortInv'
<1>0. LoopTypes /\ TablesInv
  BY DEF Inv
<1>1. PICK i : i = e.id
  OBVIOUS
<1>2. /\ i \in DOMAIN connections /\ ~Up(i) /\ DropConnection(i)
      /\ pc = "events" /\ cur' = i /\ poll_events' \subseteq poll_events
      /\ UNCHANGED <<listeners, view, dispatch_events, disconnected_ids>>
  BY <1>1 DEF HandshakeFails, ReadConnection, Tcp!IsConnection, Tcp!Take, Up, app
<1>3. panic' # "none" => pc' = "panic"
  <2>1. panic = "none"
    BY <1>2 DEF AbortInv
  <2> QED
    BY <2>1 DEF HandshakeFails, Tcp!Panic
<1>4. DOMAIN connections' = DOMAIN connections \ {i} /\ i \in Ids
  BY <1>0, <1>2, DropEntries DEF DropConnection, TablesInv
<1>5. Unheard(i)
  BY <1>2, <1>4, NotUpUnheard
<1>6. \A j \in Ids : Unheard(j)' <=> Unheard(j)
  BY <1>2 DEF Unheard
<1>7. \A j \in Ids : Expected(j) => Expected(j)'
  BY <1>2, <1>4, <1>5, <1>6 DEF Expected, InUse
<1>8. Unheard(cur)'
  BY <1>2, <1>5 DEF Unheard
<1> QED
  BY <1>0, <1>2, <1>3, <1>7, <1>8, AbortGoesOn

\* or an established one has ended.
LEMMA AbortReadEnd ==
  ASSUME Inv, AbortInv, NEW e \in poll_events, ReadDisconnected(e)
  PROVE  AbortInv'
<1>1. PICK i : i = e.id
  OBVIOUS
<1> DEFINE d == Received(i, ReadLoop(i))
           f == Tcp!DataIfAny(i, d)
           g == <<Tcp!Disconnected(i)>>
<1>2. /\ i \in DOMAIN connections /\ DropConnection(i) /\ pc = "events"
      /\ poll_events' \subseteq poll_events
      /\ dispatch_events' = dispatch_events \o (f \o g)
      /\ disconnected_ids' = disconnected_ids \cup {i}
      /\ UNCHANGED <<listeners, view, pc, panic>>
  BY <1>1 DEF ReadDisconnected, ReadConnection, LastEvents, MarkDisconnected,
     Tcp!IsConnection, Tcp!Take, app
<1>3. i \in Ids /\ d \in Seq(Nat)
  BY <1>2, ReceivedType DEF Inv, TablesInv
<1>4. Says(f, i, FALSE, FALSE, FALSE, d) /\ Says(g, i, FALSE, TRUE, TRUE, <<>>)
  <2> HIDE DEF d
  <2> QED
    BY <1>3, Reports
<1> HIDE DEF d, f, g
<1>5. Says(f \o g, i, FALSE \/ FALSE, TRUE, TRUE, d \o <<>>)
  BY <1>4, BothSay
<1>6. DOMAIN connections' = DOMAIN connections \ {i}
  BY <1>2, DropEntries DEF DropConnection, Inv, TablesInv
<1>7. panic = "none"
  BY <1>2 DEF AbortInv
<1> QED
  BY <1>2, <1>5, <1>6, <1>7, AbortReports

\* read_connection goes on, or asserts that there are no data while the handshake
\* lasts.
LEMMA AbortRead ==
  ASSUME Inv, LifeInv, AbortInv, NEW e \in poll_events, ReadData(e)
  PROVE  AbortInv'
<1>0. TablesInv /\ RoundInv /\ dispatch_events \in Seq(Tcp!EventRecords)
  BY DEF Inv, LoopTypes
<1>1. PICK i : i = e.id
  OBVIOUS
<1> DEFINE r == ReadLoop(i)
           s == SessionAfter(i, r)
           c == connections[i]
           k == [sock[i] EXCEPT !.rx = SubSeq(@, r.units + 1, Len(@))]
           d == Received(i, r)
           f == Tcp!DataIfAny(i, d)
           g == ConnectedIfNew(i, c, s)
<1>2. /\ i \in DOMAIN connections /\ c.connected # "NotConnected" /\ ~r.disconnect
      /\ Settle(i, s, c.send_buf, k) /\ pc = "events" /\ cur' = i
      /\ poll_events' \subseteq poll_events
      /\ dispatch_events' = (dispatch_events \o f) \o g
      /\ UNCHANGED <<listeners, view, disconnected_ids>>
  BY <1>0, <1>1 DEF ReadData, ReadConnection, Tcp!IsConnection, RoundInv, app, Tcp!Take
<1>3. panic = "none"
  BY <1>2 DEF AbortInv
<1>4. /\ panic' # "none" => pc' = "panic"
      /\ panic' \in {"unknown_id", "read_assertion"} => ~ReadAsserts(i, r)
  <2> HIDE DEF s, k, d, f, g
  <2>1. IF ReadAsserts(i, r)
        THEN Tcp!track_spurious_wakeup(r.units = 0, IF e.writable THEN "write" ELSE "events")
        ELSE Tcp!Panic("read_assertion")
    BY <1>1 DEF ReadData
  <2> HIDE DEF r
  <2> QED
    BY <1>3, <2>1 DEF Tcp!track_spurious_wakeup, Tcp!Panic
<1>5. i \in Ids /\ d \in Seq(Nat)
  BY <1>0, <1>2, ReceivedType DEF TablesInv
<1>6. ~ReadAsserts(i, r) => ~Up(i) /\ is_handshaking(s)
  <2> HIDE DEF r, s
  <2>1. ReadAsserts(i, r) <=>
          /\ c.connected # "NotConnected"
          /\ r.bytes > 0 => \/ c.connected = "TlsConnected"
                            \/ ~r.disconnect /\ ~is_handshaking(SessionAfter(i, r))
    BY DEF ReadAsserts
  <2>2. s = SessionAfter(i, r)
    BY DEF s
  <2> QED
    BY <1>2, <2>1, <2>2 DEF Up
<1>7. DOMAIN connections' = DOMAIN connections
  <2> DEFINE buf == c.send_buf
  <2>1. Settle(i, s, buf, k)
    BY <1>2
  <2> HIDE DEF k, s, buf
  <2> QED
    BY <1>0, <1>2, <2>1, SettleEntries
<1> HIDE DEF r, s, k, d
<1> DEFINE new == c.connected = "TcpConnected" /\ ~is_handshaking(s)
<1>8. /\ Says(f, i, FALSE, FALSE, FALSE, d) /\ Says(g, i, new, FALSE, FALSE, <<>>)
      /\ new \in BOOLEAN
  BY <1>5, Reports, Announcement
<1>9. ~ReadAsserts(i, r) => ~new
  BY <1>6
<1> HIDE DEF f, g, new
<1>10. Says(f \o g, i, FALSE \/ new, FALSE, FALSE, d \o <<>>)
  BY <1>8, BothSay
<1>11. dispatch_events' = dispatch_events \o (f \o g)
  <2>1. f \in Seq(Tcp!EventRecords) /\ g \in Seq(Tcp!EventRecords)
    BY <1>8 DEF Says
  <2>2. Joins(dispatch_events, f, g)
    BY <1>0, <2>1, JoinsAlways
  <2> QED
    BY <1>2, <2>2 DEF Joins
<1>12. panic' \in {"unknown_id", "read_assertion"} => Unheard(cur)'
  <2> SUFFICES ASSUME ~ReadAsserts(i, r)
               PROVE  Unheard(cur)'
    BY <1>4
  <2> DEFINE T == {"Connected", "Disconnected"}
             fs == f \o g
  <2>1. Unheard(i)
    BY <1>2, <1>5, <1>6, <1>9, NotUpUnheard
  <2>2. ~Has(fs, T, i)
    <3>1. Says(fs, i, FALSE, FALSE, FALSE, d \o <<>>)
      BY <1>9, <1>10
    <3> QED
      BY <3>1 DEF Says, Has, Is
  <2>3. fs \in Seq(Tcp!EventRecords)
    BY <1>10 DEF Says
  <2>4. ~Has(dispatch_events, T, i)
    BY <2>1 DEF Unheard
  <2> HIDE DEF fs, T
  <2>5. ~Has(dispatch_events \o fs, T, i)
    BY <1>0, <2>2, <2>3, <2>4, HasParts
  <2>6. ~Has(dispatch_events', T, i)
    BY <1>11, <2>5 DEF fs
  <2> QED
    BY <1>2, <2>1, <2>6 DEF Unheard, T
<1> DEFINE fs == f \o g
<1>13. /\ Says(fs, i, FALSE \/ new, FALSE, FALSE, d \o <<>>)
       /\ dispatch_events' = dispatch_events \o fs
  BY <1>10, <1>11
<1> HIDE DEF fs
<1> QED
  BY <1>2, <1>4, <1>7, <1>12, <1>13, AbortReports

\* write_connection does not find the connection, gives it up, or goes on.
LEMMA AbortWrite ==
  ASSUME Inv, LifeInv, AbortInv, Write
  PROVE  AbortInv'
<1>0. LoopTypes /\ TablesInv /\ cur \in Ids /\ dispatch_events \in Seq(Tcp!EventRecords)
  BY DEF Inv, LoopTypes
<1>1. ASSUME pc # "panic"
      PROVE  panic = "none"
  BY <1>1 DEF AbortInv
<1>2. CASE WriteUnknown
  <2>1. /\ pc = "write" /\ cur \notin DOMAIN connections /\ pc' = "panic"
        /\ UNCHANGED <<connections, listeners, cur, poll_events, disconnected_ids,
                       dispatch_events, view>>
    BY <1>2 DEF WriteUnknown, Tcp!Panic, tables, app
  <2>2. Unheard(cur)
    BY <2>1 DEF AbortInv
  <2>3. cur' \in Ids /\ Unheard(cur')
    BY <1>0, <2>1, <2>2
  <2> QED
    BY <1>0, <2>1, <2>3, AbortQuiet
<1>3. CASE ConnectEstablished
  <2>1. /\ pc = "write" \/ pc = "flush_new"
        /\ pc' = "flush_new" /\ DOMAIN connections' = DOMAIN connections
        /\ UNCHANGED <<listeners, panic, poll_events, disconnected_ids, dispatch_events, view>>
    BY <1>3 DEF ConnectEstablished, Writing, round, app
  <2>2. panic = "none"
    BY <1>1, <2>1
  <2> QED
    BY <1>0, <2>1, <2>2, AbortQuiet
<1>4. CASE ConnectFailed \/ WriteFails
  <2>1. PICK e \in {Tcp!Disconnected(cur), Tcp!ConnectionFailed(cur)} :
          GiveUp(e) /\ cur \in DOMAIN connections /\ pc # "panic"
    BY <1>4 DEF ConnectFailed, WriteFails, Writing
  <2>2. /\ DropConnection(cur) /\ dispatch_events' = Append(dispatch_events, e)
        /\ disconnected_ids' = disconnected_ids \cup {cur} /\ pc' = "events"
        /\ UNCHANGED <<listeners, panic, poll_events, view>>
    BY <2>1 DEF GiveUp, MarkDisconnected, app
  <2>3. e \in Tcp!EventRecords
    BY <1>0, <2>1, EventTypes
  <2>4. dispatch_events' = dispatch_events \o <<e>>
    BY <1>0, <2>2, <2>3, AppendIsConcat
  <2>5. DOMAIN connections' = DOMAIN connections \ {cur}
    BY <1>0, <2>1, <2>2, DropEntries DEF DropConnection, TablesInv
  <2>6. \E o, l : Says(<<e>>, cur, FALSE, o, l, <<>>)
    <3>1. <<>> \in Seq(Nat)
      BY EmptySeq
    <3> QED
      BY <1>0, <2>1, <3>1, Reports
  <2>7. panic = "none"
    BY <1>1, <2>1
  <2> QED
    BY <2>1, <2>2, <2>4, <2>5, <2>6, <2>7, AbortReports
<1>5. CASE WriteData
  <2>1. cur \in DOMAIN connections /\ \E n, m \in Nat : WriteStep(cur, n, m)
    BY <1>5, WriteEffect
  <2>2. PICK s : /\ DOMAIN connections' = DOMAIN connections
                 /\ dispatch_events' =
                      dispatch_events \o ConnectedIfNew(cur, connections[cur], s)
    <3>1. PICK n \in Nat, m \in Nat : WriteStep(cur, n, m)
      BY <2>1
    <3> DEFINE t == SessionWritten(tls[cur], Plaintext(cur), n, m)
               buf == Unsent(connections[cur].send_buf, m)
               k == SocketWritten(sock[cur], n)
    <3>2. /\ Settle(cur, t, buf, k)
          /\ dispatch_events' = dispatch_events \o ConnectedIfNew(cur, connections[cur], t)
      BY <3>1 DEF WriteStep
    <3> HIDE DEF t, buf, k
    <3>3. DOMAIN connections' = DOMAIN connections
      BY <1>0, <2>1, <3>2, SettleEntries
    <3> QED
      BY <3>2, <3>3
  <2>3. /\ pc # "panic" /\ pc' \in {"events", "panic"}
        /\ panic' = panic \/ (pc' = "panic" /\ panic' = "spurious")
        /\ UNCHANGED <<listeners, poll_events, disconnected_ids, view>>
    BY <1>5, ZenonT(60) DEF WriteData, Writing, Tcp!track_spurious_wakeup
  <2> DEFINE fs == ConnectedIfNew(cur, connections[cur], s)
             a == connections[cur].connected = "TcpConnected" /\ ~is_handshaking(s)
  <2>4. Says(fs, cur, a, FALSE, FALSE, <<>>) /\ dispatch_events' = dispatch_events \o fs
    BY <1>0, <2>2, Announcement
  <2>5. panic = "none"
    BY <1>1, <2>3
  <2> HIDE DEF fs, a
  <2> QED
    BY <2>1, <2>2, <2>3, <2>4, <2>5, AbortReports
<1> QED
  BY <1>2, <1>3, <1>4, <1>5 DEF Write

\* Every step keeps aborts within the handshake.
LEMMA AbortStep ==
  ASSUME Inv, LifeInv, AbortInv, [Next]_vars
  PROVE  AbortInv'
<1>1. CASE UNCHANGED vars
  BY <1>1 DEF AbortInv, Expected, InUse, Unheard, Has, Is, vars, state, tables, thread,
     round, app, kernel
<1>2. CASE Peers
  <2>0. LoopTypes
    BY DEF Inv
  <2>1. /\ pc # "panic"
        /\ UNCHANGED <<connections, pc, panic, poll_events, cur, disconnected_ids,
                       dispatch_events, view>>
        /\ DOMAIN listeners' = DOMAIN listeners
    BY <1>2, ZenonT(60) DEF Peers, ConnectCompletes, ConnectRefused, PeerConnects, PeerWrites,
       PeerCloses, PeerResets, RoomFreed, PeerHandshakes, PeerSendsTicket, PeerRejects, PeerNotifies,
       Arrive, Tcp!ConnectCompletes, Tcp!ConnectRefused, Tcp!PeerConnects,
       Tcp!PeerCloses, Tcp!PeerResets, Tcp!KernelStep, Tcp!thread, Tcp!round
  <2>2. panic = "none"
    BY <2>1 DEF AbortInv
  <2> QED
    BY <2>0, <2>1, <2>2, AbortQuiet
<1>3. CASE HandleEvent
  <2>1. PICK e \in poll_events :
          \/ HandleListener(e) \/ SkipDisconnected(e) \/ HandleWritable(e)
          \/ HandshakeFails(e) \/ ReadDisconnected(e) \/ ReadData(e)
    BY <1>3 DEF HandleEvent
  <2> QED
    BY <2>1, AbortPassesOn, AbortHandshakeFails, AbortReadEnd, AbortRead
<1> QED
  BY <1>1, <1>2, <1>3, AbortBetween, AbortPoll, AbortAccepts, AbortWrite DEF Next, Loop

\* AbortInv is invariant, as long as ids are not used again.
THEOREM AbortsCorrect ==
  ASSUME ReuseIds = FALSE
  PROVE  Spec => []AbortInv
<1>1. Inv /\ LifeInv /\ AbortInv /\ [Next]_vars => AbortInv'
  BY AbortStep
<1>2. Init => AbortInv
  BY DEF Init, Tcp!Init, AbortInv
<1>3. Spec => []LifeInv
  BY LifeCorrect
<1> QED
  BY <1>1, <1>2, <1>3, InvCorrect, PTL DEF Spec

-----------------------------------------------------------------------------
(* What follows for the application.                                       *)

\* Has is Reported of the model, on the events collected.
LEMMA ReportedHas ==
  ASSUME NEW types, NEW i
  PROVE  Tcp!Reported(i, types) <=> Has(dispatch_events, types, i)
  BY DEF Tcp!Reported, Has, Is

\* Nothing follows Disconnected or ConnectionFailed: no event of that id, no second
\* end, no entry in the tables, whichever of read_connection and write_connection
\* finds the end first, and also where accept() fails and events are dropped.
THEOREM NothingComesAfterEnd ==
  ASSUME ReuseIds = FALSE
  PROVE  Spec => []NothingAfterEnd
<1>1. Inv /\ LifeInv => NothingAfterEnd
  <2> SUFFICES ASSUME Inv, LifeInv PROVE NothingAfterEnd
    OBVIOUS
  <2>1. \A j, k \in 1..Len(dispatch_events) :
          j < k /\ dispatch_events[j].type \in {"Disconnected", "ConnectionFailed"}
            => dispatch_events[k].id # dispatch_events[j].id
    BY DEF LifeInv, QueueInv, EndsLast, Ends
  <2>2. \A i \in Ids : Story(i, i \in DOMAIN connections, Up(i), view[i], dispatch_events,
                             failed)
    BY DEF LifeInv, LifeOf, StoryOf
  <2>3. ASSUME NEW i \in Ids, EndReported(i)
        PROVE  i \notin DOMAIN connections
    <3>1. view[i] \in {"failed", "disconnected"} \/ Has(dispatch_events, Ends, i)
      BY <2>3, ReportedHas DEF EndReported, Ends
    <3> QED
      BY <2>2, <3>1 DEF Story
  <2>4. ASSUME NEW k \in 1..Len(dispatch_events), dispatch_events[k].type # "Inactive"
        PROVE  view[dispatch_events[k].id] \notin {"failed", "disconnected"}
    <3>1. dispatch_events[k].id \in Ids /\ dispatch_events[k].type \in Kinds
      BY <2>4, EventIds DEF Inv, LoopTypes
    <3>2. Has(dispatch_events, Kinds, dispatch_events[k].id)
      BY <3>1, SMTT(60) DEF Has, Is
    <3> QED
      BY <2>2, <3>1, <3>2 DEF Story
  <2> QED
    BY <2>1, <2>3, <2>4 DEF NothingAfterEnd
<1>2. Spec => []LifeInv
  BY LifeCorrect
<1> QED
  BY <1>1, <1>2, InvCorrect, PTL

\* A connection the application holds for open is in the table or its Disconnected
\* is among the events collected, and one that has completed its handshake has been
\* announced or is about to.
THEOREM EstablishedIsNotLost ==
  ASSUME ReuseIds = FALSE
  PROVE  Spec => []EstablishedNotLost
<1>1. Inv /\ LifeInv => EstablishedNotLost
  <2> SUFFICES ASSUME Inv, LifeInv, ~failed, NEW i \in Ids
               PROVE  /\ view[i] = "open" /\ i \notin DOMAIN connections
                           => Tcp!Reported(i, {"Disconnected"})
                      /\ i \in DOMAIN connections
                           => (connections[i].connected = "TlsConnected" <=>
                                 view[i] = "open" \/ Tcp!Reported(i, {"Connected"}))
    BY DEF EstablishedNotLost
  <2>1. Story(i, i \in DOMAIN connections, Up(i), view[i], dispatch_events, failed)
    BY DEF LifeInv, LifeOf, StoryOf
  <2>2. /\ Tcp!Reported(i, {"Disconnected"}) <=> Has(dispatch_events, {"Disconnected"}, i)
        /\ Tcp!Reported(i, {"Connected"}) <=> Has(dispatch_events, {"Connected"}, i)
    BY ReportedHas, SMTT(60)
  <2> QED
    BY <2>1, <2>2 DEF Story, Known, Up
<1>2. Spec => []LifeInv
  BY LifeCorrect
<1> QED
  BY <1>1, <1>2, InvCorrect, PTL

\* Data handed out before Connected, in the round the handshake ends in, is followed
\* by Connected at once.
THEOREM DataIsAnnounced ==
  ASSUME ReuseIds = FALSE
  PROVE  Spec => []DataAnnounced
<1>1. Inv /\ LifeInv => DataAnnounced
  <2> SUFFICES ASSUME Inv, LifeInv, ~failed, NEW k \in 1..Len(dispatch_events),
                      dispatch_events[k].type = "Data",
                      view[dispatch_events[k].id] = "new"
               PROVE  \E j \in 1..Tcp!Least(k + 1, Len(dispatch_events)) :
                        dispatch_events[j] = Tcp!Connected(dispatch_events[k].id)
    BY DEF DataAnnounced
  <2> DEFINE i == dispatch_events[k].id
  <2>1. Announces(dispatch_events, view)
    BY DEF LifeInv, QueueInv
  <2>2. PICK j \in 1..Len(dispatch_events) :
          j <= k + 1 /\ Is(dispatch_events, j, {"Connected"}, i)
    BY <2>1 DEF Announces
  <2>3. dispatch_events[j] \in Tcp!EventRecords
    BY ElementOfSeq DEF Inv, LoopTypes
  <2>4. dispatch_events[j] = Tcp!Connected(i)
    BY <2>2, <2>3 DEF Is, Tcp!EventRecords, Tcp!Connected
  <2>5. j \in 1..Tcp!Least(k + 1, Len(dispatch_events))
    <3>1. Len(dispatch_events) \in Nat
      BY LenProperties, SMTT(60) DEF Inv, LoopTypes
    <3> QED
      BY <2>2, <3>1 DEF Tcp!Least
  <2> QED
    BY <2>4, <2>5
<1>2. Spec => []LifeInv
  BY LifeCorrect
<1> QED
  BY <1>1, <1>2, InvCorrect, PTL

\* No plaintext byte the peer of a live connection sent is lost or moved: it was
\* handed to the application, is in an event that fetch_events has collected, or in
\* a record the session has not been given.
THEOREM IncomingStaysIntact ==
  ASSUME ReuseIds = FALSE
  PROVE  Spec => []IncomingIntact
<1>1. Inv /\ LifeInv => IncomingIntact
  <2> SUFFICES ASSUME Inv, LifeInv, ~failed, NEW i \in DOMAIN connections
               PROVE  fed[i] = got[i] \o Tcp!Undelivered(i) \o DataOf(sock[i].rx)
    BY DEF IncomingIntact
  <2>1. Tcp!Undelivered(i) = Bytes(dispatch_events, i)
    BY UndeliveredBytes DEF Inv, LoopTypes
  <2>2. FlowOf(i)
    BY SMTT(60) DEF LifeInv, LifeOf, Inv, TablesInv
  <2> QED
    BY <2>1, <2>2 DEF FlowOf, Flow
<1>2. Spec => []LifeInv
  BY LifeCorrect
<1> QED
  BY <1>1, <1>2, InvCorrect, PTL

\* The lookup of write_connection and the assertion of read_connection fail only
\* over a connection in its handshake, which the application has not been told of.
THEOREM AbortsInHandshakeOnly ==
  ASSUME ReuseIds = FALSE
  PROVE  Spec => []AbortsOnlyInHandshake
<1>1. AbortInv => AbortsOnlyInHandshake
  BY ReportedHas, SMTT(60) DEF AbortInv, AbortsOnlyInHandshake, Unheard
<1>2. Spec => []AbortInv
  BY AbortsCorrect
<1> QED
  BY <1>1, <1>2, PTL

=============================================================================
