----------------------------- MODULE Messenger ------------------------------
(***************************************************************************)
(* The messenger (src/messenger/mod.rs): messages on top of the byte       *)
(* streams of a transport, one receive buffer per connection.              *)
(*                                                                         *)
(* The transport below is the one ConnectionContract promises: per id      *)
(* Connected, then Data in any pieces, then Disconnected, or               *)
(* ConnectionFailed, several events per call of fetch_events.  The peer    *)
(* is another messenger that serializes registered messages, or something  *)
(* that writes other bytes (Malformed).                                    *)
(*                                                                         *)
(* pc: "app" in the application, "fetch" in transport.fetch_events(),      *)
(* "process" in the loop over transport_events.                            *)
(***************************************************************************)
EXTENDS Framing, FiniteSets

CONSTANTS
  Ids,            \* connection ids
  Messages,       \* the messages peers send
  Malformed,      \* byte sequences that are no serialized message
  MaxFrames,      \* bound: frames a peer writes per connection
  InterfaceCalls  \* do other threads use a MessengerInterface?

\* The first frame of buf is complete.
Complete(buf) == Len(buf) >= WORD /\ Len(buf) >= FrameSize(buf)

ASSUME MessengerAssumption == MaxFrames \in Nat /\ InterfaceCalls \in BOOLEAN
ASSUME MessagesAssumption == Messages \subseteq Serializable
ASSUME MalformedAssumption ==
  \A b \in Malformed : /\ b \in Seq(Bytes) /\ Complete(b)
                       /\ deserialize_message(b).kind # "message"

VARIABLES
  recv_buffers,     \* HashMap<usize, Vec<u8>>
  pc, transport_events, dispatch_events,
  conn,             \* transport: "new", "connecting", "open"; "gone", "cut" by
                    \* an interface call or "dropped" by fetch_events
  listening,        \* transport: it has a listener
  inflight,         \* bytes the peer wrote, not yet in a Data event
  view,             \* what the application knows of each id
  written,          \* the messages the peer wrote, up to the first malformed
                    \* frame
  frames,           \* how many frames the peer wrote, and whether all of them
                    \* were messages
  stream, messages  \* bytes taken from Data events, messages made of them

transport == <<conn, listening, inflight, written, frames>>
vars == <<recv_buffers, pc, transport_events, dispatch_events, transport, view,
          stream, messages>>

Without(f, S) == Restrict(f, DOMAIN f \ S)

Event(type, i) == [type |-> type, id |-> i]
Live(i) == conn[i] \in {"connecting", "open"}

Init ==
  /\ recv_buffers = <<>>
  /\ pc = "app" /\ transport_events = <<>> /\ dispatch_events = <<>>
  /\ conn = [i \in Ids |-> "new"] /\ listening = TRUE
  /\ inflight = [i \in Ids |-> <<>>]
  /\ view = [i \in Ids |-> "new"]
  /\ written = [i \in Ids |-> <<>>]
  /\ frames = [i \in Ids |-> [count |-> 0, clean |-> TRUE]]
  /\ stream = [i \in Ids |-> <<>>] /\ messages = [i \in Ids |-> <<>>]

-----------------------------------------------------------------------------
(* The peers.                                                              *)

PeerWrites(i, bytes, clean) ==
  /\ conn[i] = "open" /\ frames[i].count < MaxFrames
  /\ inflight' = [inflight EXCEPT ![i] = @ \o bytes]
  /\ frames' = [frames EXCEPT ![i] = [count |-> @.count + 1,
                                      clean |-> @.clean /\ clean]]
  /\ UNCHANGED <<recv_buffers, pc, transport_events, dispatch_events, conn,
                 listening, view, stream, messages>>

\* send_to_with_context and its relatives on the peer's side: serialize and
\* hand the bytes to the transport.
PeerSends(i, m) ==
  /\ PeerWrites(i, serialize_message(m), TRUE)
  /\ written' = IF frames[i].clean THEN [written EXCEPT ![i] = Append(@, m)]
                                   ELSE written

PeerSendsMalformed(i, bytes) ==
  /\ PeerWrites(i, bytes, FALSE)
  /\ UNCHANGED written

-----------------------------------------------------------------------------
(* The application's calls.                                                *)

\* Calls of MessengerInterface go to the transport alone, which executes them at
\* the start of its fetch_events.
InterfaceCall == InterfaceCalls /\ pc = "fetch" /\ transport_events = <<>>

\* connect and the listener calls are passed on to the transport, from either
\* side, and touch nothing of the messenger.
PassedOn == pc = "app" \/ InterfaceCall

connect(i) ==
  /\ PassedOn /\ conn[i] = "new"
  /\ conn' = [conn EXCEPT ![i] = "connecting"]
  /\ view' = [view EXCEPT ![i] = "connecting"]
  /\ UNCHANGED <<recv_buffers, pc, transport_events, dispatch_events, listening,
                 inflight, written, frames, stream, messages>>

SetListening(on) ==
  /\ PassedOn
  /\ listening' = on
  /\ UNCHANGED <<recv_buffers, pc, transport_events, dispatch_events, conn,
                 inflight, written, frames, view, stream, messages>>

listen == ~listening /\ SetListening(TRUE)

\* There is one listener: close_listener closes it, close_all_listeners too.
close_listener == listening /\ SetListening(FALSE)
close_all_listeners == pc = "app" /\ SetListening(FALSE)

\* The transport closes the connections in S: it reports nothing.
CloseIn(S, how) ==
  /\ conn' = [i \in Ids |-> IF i \in S /\ Live(i) THEN how ELSE conn[i]]
  /\ view' = [i \in Ids |-> IF i \in S /\ (Live(i) \/ view[i] # "new")
                            THEN "closed" ELSE view[i]]
  /\ UNCHANGED <<pc, transport_events, dispatch_events, inflight, written,
                 frames, stream, messages>>

close_connection(i) ==
  /\ pc = "app" /\ view[i] \in {"connecting", "open"}
  /\ recv_buffers' = Without(recv_buffers, {i})
  /\ CloseIn({i}, "gone")
  /\ UNCHANGED listening

close_all_connections ==
  /\ pc = "app"
  /\ recv_buffers' = Without(recv_buffers, DOMAIN recv_buffers)
  /\ CloseIn({i \in Ids : Live(i)}, "gone")
  /\ UNCHANGED listening

close_all ==
  /\ pc = "app"
  /\ recv_buffers' = Without(recv_buffers, DOMAIN recv_buffers)
  /\ CloseIn({i \in Ids : Live(i)}, "gone")
  /\ listening' = FALSE

\* The interface's close calls leave the receive buffers alone.
InterfaceClosesConnection(i) ==
  /\ InterfaceCall /\ view[i] \in {"connecting", "open"} /\ Live(i)
  /\ CloseIn({i}, "cut")
  /\ UNCHANGED <<recv_buffers, listening>>

InterfaceClosesAll ==
  /\ InterfaceCall
  /\ CloseIn({i \in Ids : Live(i)}, "cut")
  /\ listening' = FALSE
  /\ UNCHANGED recv_buffers

\* The application handles one event; those of an id it closed are stale.
AppHandlesEvent ==
  /\ pc = "app" /\ dispatch_events # <<>>
  /\ LET e == Head(dispatch_events) IN
     view' = IF e.type \in {"Inactive", "Message"} \/ view[e.id] = "closed"
             THEN view
             ELSE [view EXCEPT ![e.id] =
                     IF e.type = "Connected" THEN "open" ELSE "closed"]
  /\ dispatch_events' = Tail(dispatch_events)
  /\ UNCHANGED <<recv_buffers, pc, transport_events, transport, stream,
                 messages>>

FetchEvents ==
  /\ pc = "app" /\ dispatch_events = <<>>
  /\ pc' = "fetch"
  /\ UNCHANGED <<recv_buffers, transport_events, dispatch_events, transport,
                 view, stream, messages>>

-----------------------------------------------------------------------------
(* transport.fetch_events() collects events.                               *)

Report(e) ==
  /\ pc = "fetch"
  /\ transport_events' = Append(transport_events, e)
  /\ UNCHANGED <<recv_buffers, pc, dispatch_events, listening, written, frames,
                 view, stream, messages>>

TransportConnected(i) ==
  /\ conn[i] = "connecting" \/ (conn[i] = "new" /\ listening)
  /\ conn' = [conn EXCEPT ![i] = "open"]
  /\ Report(Event("Connected", i))
  /\ UNCHANGED inflight

TransportFails(i) ==
  /\ conn[i] = "connecting"
  /\ conn' = [conn EXCEPT ![i] = "gone"]
  /\ Report(Event("ConnectionFailed", i))
  /\ UNCHANGED inflight

\* One round of poll() yields at most one Data event per connection.
HasData(i) ==
  \E k \in 1..Len(transport_events) :
    transport_events[k].type = "Data" /\ transport_events[k].id = i

TransportData(i, n) ==
  /\ conn[i] = "open" /\ n <= Len(inflight[i]) /\ ~HasData(i)
  /\ inflight' = [inflight EXCEPT ![i] = From(@, n)]
  /\ Report([type |-> "Data", id |-> i, data |-> SubSeq(inflight[i], 1, n)])
  /\ UNCHANGED conn

TransportDisconnected(i) ==
  /\ conn[i] = "open"
  /\ conn' = [conn EXCEPT ![i] = "gone"]
  /\ Report(Event("Disconnected", i))
  /\ UNCHANGED inflight

TransportInactive ==
  /\ ~listening /\ transport_events = <<>>
  /\ \A i \in Ids : ~Live(i)
  /\ Report([type |-> "Inactive"])
  /\ UNCHANGED <<conn, inflight>>

TransportReturns ==
  /\ pc = "fetch" /\ transport_events # <<>>
  /\ pc' = "process"
  /\ UNCHANGED <<recv_buffers, transport_events, dispatch_events, transport,
                 view, stream, messages>>

-----------------------------------------------------------------------------
(* The loop over transport_events.                                         *)

\* Each step handles the first of the remaining events.
Handle(types) ==
  /\ pc = "process" /\ transport_events # <<>>
  /\ Head(transport_events).type \in types
  /\ transport_events' = Tail(transport_events)
  /\ UNCHANGED <<pc, listening, inflight, written, frames, view>>

HandleInactive ==
  /\ Handle({"Inactive"})
  /\ recv_buffers' = Without(recv_buffers, DOMAIN recv_buffers)
  /\ dispatch_events' = Append(dispatch_events, Head(transport_events))
  /\ UNCHANGED <<conn, stream, messages>>

HandleConnected ==
  /\ Handle({"Connected"})
  /\ dispatch_events' = Append(dispatch_events, Head(transport_events))
  /\ UNCHANGED <<recv_buffers, conn, stream, messages>>

\* Mutants: the receive buffer stays; the end is not passed on.
HandleEnd_KeepsBuffer ==
  /\ Handle({"ConnectionFailed", "Disconnected"})
  /\ dispatch_events' = Append(dispatch_events, Head(transport_events))
  /\ UNCHANGED <<recv_buffers, conn, stream, messages>>
HandleEnd_Silent ==
  /\ Handle({"ConnectionFailed", "Disconnected"})
  /\ recv_buffers' = Without(recv_buffers, {Head(transport_events).id})
  /\ UNCHANGED <<dispatch_events, conn, stream, messages>>

HandleEnd ==
  /\ Handle({"ConnectionFailed", "Disconnected"})
  /\ recv_buffers' = Without(recv_buffers, {Head(transport_events).id})
  /\ dispatch_events' = Append(dispatch_events, Head(transport_events))
  /\ UNCHANGED <<conn, stream, messages>>

\* Mutants: processed bytes stay in the buffer; the rest is thrown away too.
Drained_Not(buf, pos) == buf
Drained_All(buf, pos) == <<>>

\* recv_buf.drain(..recv_pos)
Drained(buf, pos) == From(buf, pos)

\* Mutant: data is taken for a message of its own.
Received_Only(i, data) == data

\* The receive buffer with the data appended.
Received(i, data) ==
  (IF i \in DOMAIN recv_buffers THEN recv_buffers[i] ELSE <<>>) \o data

\* Append the data, deserialize what is complete, keep the rest; on an error
\* drop the buffer and close the connection, without an event.
HandleData ==
  /\ Handle({"Data"})
  /\ LET e == Head(transport_events)
         i == e.id
         buf == Received(i, e.data)
         r == deserialize_all(buf)
     IN
     /\ dispatch_events' =
          dispatch_events \o [k \in 1..Len(r.msgs) |-> Event("Message", i)]
     /\ messages' = [messages EXCEPT ![i] = @ \o r.msgs]
     /\ stream' = [stream EXCEPT ![i] = @ \o e.data]
     /\ IF r.had_error
        THEN /\ recv_buffers' = Without(recv_buffers, {i})
             /\ conn' = [conn EXCEPT ![i] = IF Live(i) THEN "dropped" ELSE @]
        ELSE /\ recv_buffers' = [j \in DOMAIN recv_buffers \cup {i} |->
                                   IF j = i THEN Drained(buf, r.pos)
                                            ELSE recv_buffers[j]]
             /\ UNCHANGED conn

ProcessDone ==
  /\ pc = "process" /\ transport_events = <<>>
  /\ pc' = IF dispatch_events = <<>> THEN "fetch" ELSE "app"
  /\ UNCHANGED <<recv_buffers, transport_events, dispatch_events, transport,
                 view, stream, messages>>

-----------------------------------------------------------------------------

Peer(i) ==
  \/ \E m \in Messages : PeerSends(i, m)
  \/ \E b \in Malformed : PeerSendsMalformed(i, b)

Operations(i) ==
  \/ connect(i) \/ close_connection(i) \/ InterfaceClosesConnection(i)

Transport(i) ==
  \/ TransportConnected(i) \/ TransportFails(i) \/ TransportDisconnected(i)
  \/ \E n \in 1..Len(inflight[i]) : TransportData(i, n)

Process ==
  \/ TransportReturns \/ HandleInactive \/ HandleConnected \/ HandleEnd
  \/ HandleData \/ ProcessDone

Next ==
  \/ \E i \in Ids : Peer(i) \/ Operations(i) \/ Transport(i)
  \/ listen \/ close_listener \/ close_all_listeners
  \/ close_all_connections \/ close_all \/ InterfaceClosesAll
  \/ AppHandlesEvent \/ FetchEvents
  \/ TransportInactive \/ Process

Spec == Init /\ [][Next]_vars

-----------------------------------------------------------------------------
(* Properties.                                                             *)

Buffer(i) == IF i \in DOMAIN recv_buffers THEN recv_buffers[i] ELSE <<>>

\* However the transport cut the stream into Data events, the messages handed
\* out are the messages the peer wrote, in order, none twice, none made up.
MessagesAsWritten == \A i \in Ids : IsPrefix(messages[i], written[i])

\* No byte is lost or consumed twice between Data events: what was received is
\* the frames of the messages handed out followed by the receive buffer, and
\* the buffer holds no complete message.
Reassembly ==
  \A i \in Ids : conn[i] = "open" /\ frames[i].clean =>
    /\ stream[i] = serialize_all(messages[i]) \o Buffer(i)
    /\ deserialize_message(Buffer(i)).kind # "message"

EndPending(i) ==
  \E es \in {transport_events, dispatch_events} : \E k \in 1..Len(es) :
    es[k].type \in {"Disconnected", "ConnectionFailed"} /\ es[k].id = i

\* The receive buffers are per connection: none outlives its connection, except
\* until the Disconnected event that is about to remove it, and those of
\* connections closed behind the messenger's back by an interface call.
BuffersHaveConnections ==
  \A i \in DOMAIN recv_buffers : Live(i) \/ EndPending(i) \/ conn[i] = "cut"

\* A connection the application believes open is open, or its end is about to
\* be reported.  The one exception is a connection fetch_events itself has
\* closed because of an undecodable message, for which no event exists.
EndsAreReported ==
  \A i \in Ids :
    view[i] = "open" /\ ~Live(i) => EndPending(i) \/ conn[i] = "dropped"

\* deserialize_message answers None when there is "not enough data available"
\* and an error for what is malformed: a buffer that is kept waiting has an
\* incomplete frame at its front.
NoneMeansIncomplete ==
  \A i \in Ids :
    Live(i) /\ Len(Buffer(i)) >= WORD => Len(Buffer(i)) < FrameSize(Buffer(i))

-----------------------------------------------------------------------------
(* Liveness: the application keeps fetching, and the transport delivers    *)
(* the bytes it has (DataDelivered of TcpTransport).                       *)

Fairness ==
  /\ WF_vars(AppHandlesEvent \/ FetchEvents)
  /\ WF_vars(Process)
  /\ \A i \in Ids : WF_vars(\E n \in 1..Len(inflight[i]) : TransportData(i, n))

FairSpec == Spec /\ Fairness

\* Every message a peer wrote is handed out, unless the connection ends first.
MessagesArrive ==
  \A i \in Ids, n \in 1..MaxFrames :
    Len(written[i]) >= n ~> Len(messages[i]) >= n \/ (conn[i] # "new" /\ ~Live(i))

=============================================================================
