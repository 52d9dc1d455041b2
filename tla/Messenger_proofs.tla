-------------------------- MODULE Messenger_proofs --------------------------
(***************************************************************************)
(* The messenger hands out what the peers wrote, for any ids, messages,    *)
(* malformed frames and pieces of data, and any calls in between.          *)
(*                                                                         *)
(* Inv is inductive.  Its parts say where the bytes of a connection are    *)
(* (BytesKept), how far they have been turned into messages (BufferFits),  *)
(* and in which order the events of a connection can lie in the two        *)
(* queues (DataBeforeEnd, EndFollows).                                     *)
(***************************************************************************)
EXTENDS Messenger, Framing_proofs

Ends == {"Disconnected", "ConnectionFailed"}

TransportEvent ==
  [type : {"Inactive"}] \cup [type : {"Connected"} \cup Ends, id : Ids]
    \cup [type : {"Data"}, id : Ids, data : Seq(Bytes)]
DispatchEvent ==
  [type : {"Inactive"}] \cup [type : {"Connected", "Message"} \cup Ends, id : Ids]

Types ==
  /\ DOMAIN recv_buffers \subseteq Ids
  /\ \A i \in DOMAIN recv_buffers : recv_buffers[i] \in Seq(Bytes)
  /\ pc \in {"app", "fetch", "process"}
  /\ transport_events \in Seq(TransportEvent)
  /\ dispatch_events \in Seq(DispatchEvent)
  /\ conn \in [Ids -> {"new", "connecting", "open", "gone", "cut", "dropped"}]
  /\ listening \in BOOLEAN
  /\ inflight \in [Ids -> Seq(Bytes)]
  /\ view \in [Ids -> {"new", "connecting", "open", "closed"}]
  /\ written \in [Ids -> Seq(Serializable)]
  /\ frames \in [Ids -> [count : Nat, clean : BOOLEAN]]
  /\ stream \in [Ids -> Seq(Bytes)]
  /\ messages \in [Ids -> Seq(Serializable)]

\* Events are collected and processed between two calls of the application.
Phases ==
  /\ pc = "app" => transport_events = <<>>
  /\ pc = "fetch" => dispatch_events = <<>>

\* The k-th event of es has that type and id.
Is(es, k, types, i) ==
  k \in 1..Len(es) /\ es[k].type \in types /\ es[k].id = i
Has(es, types, i) == \E k \in 1..Len(es) : Is(es, k, types, i)

AnyType == {"Connected", "Message", "Data"} \cup Ends

\* Nothing is known of an id before its connection, and no data of one that
\* is still being opened.
Fresh ==
  \A i \in Ids :
    /\ conn[i] \in {"new", "connecting"} =>
         /\ stream[i] = <<>> /\ messages[i] = <<>> /\ inflight[i] = <<>>
         /\ i \notin DOMAIN recv_buffers
         /\ ~Has(transport_events, {"Data"}, i)
    /\ conn[i] = "new" =>
         /\ view[i] # "open"
         /\ ~Has(transport_events, AnyType, i)
         /\ ~Has(dispatch_events, AnyType, i)

\* The tail of a stream that no message begins with: empty, or, once a
\* malformed frame was written, a complete frame that is no message.
NoMessageTail(tail, clean) ==
  IF clean THEN tail = <<>>
  ELSE Complete(tail) /\ deserialize_message(tail).kind # "message"

\* The bytes the peer wrote, w and a tail, are those taken from Data events,
\* s, those in the Data event d and those in flight, f.
AddUp(w, clean, s, d, f) ==
  \E tail \in Seq(Bytes) :
    /\ NoMessageTail(tail, clean)
    /\ serialize_all(w) \o tail = s \o (d \o f)
Accounted(i, d) ==
  AddUp(written[i], frames[i].clean, stream[i], d, inflight[i])

BytesKept ==
  \A i \in Ids :
    /\ ~Has(transport_events, {"Data"}, i) => Accounted(i, <<>>)
    /\ \A k \in 1..Len(transport_events) :
         Is(transport_events, k, {"Data"}, i) =>
           Accounted(i, transport_events[k].data)

\* A buffer is what the messages made of the stream leave over.
BufferFits ==
  \A i \in Ids :
    /\ deserialize_message(Buffer(i)).kind = "none"
    /\ \E rest \in Seq(Bytes) : stream[i] = serialize_all(messages[i]) \o rest
    /\ conn[i] = "open" \/ Has(transport_events, {"Data"}, i) =>
         stream[i] = serialize_all(messages[i]) \o Buffer(i)

\* An end of i behind position k.
EndBehind(es, k, i) == \E l \in 1..Len(es) : l > k /\ Is(es, l, Ends, i)

\* One Data event per connection at most, and its end, if it has one, later.
Ordered(es, i, status) ==
  \A k \in 1..Len(es) :
    /\ Is(es, k, {"Data"}, i) =>
         /\ \A l \in 1..Len(es) : Is(es, l, {"Data"}, i) => l = k
         /\ status \in {"connecting", "open"} \/ EndBehind(es, k, i)
    /\ Is(es, k, Ends, i) =>
         /\ status = "gone"
         /\ \A l \in 1..Len(es) : l > k => ~Is(es, l, {"Data"}, i)
DataBeforeEnd == \A i \in Ids : Ordered(transport_events, i, conn[i])

\* Inactive comes alone.
InactiveAlone ==
  (\E k \in 1..Len(transport_events) : transport_events[k].type = "Inactive")
    => /\ Len(transport_events) = 1 /\ ~listening
       /\ \A i \in Ids : ~Live(i)

BufferOwned ==
  \A i \in DOMAIN recv_buffers :
    Live(i) \/ Has(transport_events, Ends, i) \/ conn[i] = "cut"

\* The end of a connection the application knows, or is about to be told of,
\* is in a queue, behind its Connected event.
EndQueued(es, ds, i, known) ==
  /\ known = "open" => Has(es, Ends, i) \/ Has(ds, Ends, i)
  /\ \A k \in 1..Len(es) : Is(es, k, {"Connected"}, i) => EndBehind(es, k, i)
  /\ \A k \in 1..Len(ds) : Is(ds, k, {"Connected"}, i) =>
       Has(es, Ends, i) \/ EndBehind(ds, k, i)
EndFollows ==
  \A i \in Ids : view[i] # "closed" /\ ~Live(i) /\ conn[i] # "dropped" =>
    EndQueued(transport_events, dispatch_events, i, view[i])

Inv ==
  /\ Types /\ Phases /\ Fresh /\ BytesKept /\ BufferFits /\ DataBeforeEnd
  /\ InactiveAlone /\ BufferOwned /\ EndFollows

-----------------------------------------------------------------------------
(* The queues.                                                             *)

\* An event at the end of a queue.
LEMMA EventAppended ==
  ASSUME NEW S, NEW es \in Seq(S), NEW e \in S
  PROVE  /\ Append(es, e) \in Seq(S) /\ Len(Append(es, e)) = Len(es) + 1
         /\ Len(es) \in Nat
         /\ \A k \in 1..Len(es) : Append(es, e)[k] = es[k]
         /\ Append(es, e)[Len(es) + 1] = e
         /\ \A k, types, i : Is(Append(es, e), k, types, i) <=>
              \/ Is(es, k, types, i)
              \/ k = Len(es) + 1 /\ e.type \in types /\ e.id = i
         /\ \A types, i : Has(Append(es, e), types, i) <=>
              Has(es, types, i) \/ (e.type \in types /\ e.id = i)
<1> DEFINE fs == Append(es, e)
<1>1. fs \in Seq(S) /\ Len(fs) = Len(es) + 1 /\ Len(es) \in Nat
      /\ (\A k \in 1..Len(es) : fs[k] = es[k]) /\ fs[Len(es) + 1] = e
  BY AppendProperties, LenProperties
<1> HIDE DEF fs
<1>2. \A k : k \in 1..Len(fs) <=> k \in 1..Len(es) \/ k = Len(es) + 1
  BY <1>1
<1>3. \A k, types, i : Is(fs, k, types, i) <=>
        \/ Is(es, k, types, i)
        \/ k = Len(es) + 1 /\ e.type \in types /\ e.id = i
  <2> SUFFICES ASSUME NEW k, NEW types, NEW i
               PROVE  Is(fs, k, types, i) <=>
                        \/ Is(es, k, types, i)
                        \/ k = Len(es) + 1 /\ e.type \in types /\ e.id = i
    OBVIOUS
  <2>1. CASE k \in 1..Len(es)
    <3>1. fs[k] = es[k] /\ k # Len(es) + 1 /\ k \in 1..Len(fs)
      BY <1>1, <1>2, <2>1
    <3> QED
      BY <2>1, <3>1 DEF Is
  <2>2. CASE k \notin 1..Len(es)
    BY <1>1, <1>2, <2>2 DEF Is
  <2> QED
    BY <2>1, <2>2
<1>4. \A types, i : Has(fs, types, i) <=>
        Has(es, types, i) \/ (e.type \in types /\ e.id = i)
  <2>1. \A k, types, i : /\ Is(fs, k, types, i) => k \in 1..Len(fs)
                         /\ Is(es, k, types, i) => k \in 1..Len(es)
    BY DEF Is
  <2> QED
    BY <1>2, <1>3, <2>1 DEF Has
<1> QED
  BY <1>1, <1>3, <1>4 DEF fs

\* A queue without its first event.
LEMMA EventRemoved ==
  ASSUME NEW S, NEW es \in Seq(S), es # <<>>
  PROVE  /\ Tail(es) \in Seq(S) /\ Len(Tail(es)) = Len(es) - 1
         /\ Len(es) \in Nat \ {0} /\ Head(es) \in S /\ Head(es) = es[1]
         /\ \A k \in 1..Len(Tail(es)) : Tail(es)[k] = es[k + 1]
         /\ \A k \in 1..Len(Tail(es)) : \A types, i :
              Is(Tail(es), k, types, i) <=> Is(es, k + 1, types, i)
         /\ \A types, i : Is(es, 1, types, i) <=>
              Head(es).type \in types /\ Head(es).id = i
         /\ \A types, i : Has(es, types, i) <=>
              Has(Tail(es), types, i) \/ Is(es, 1, types, i)
<1> DEFINE fs == Tail(es)
           e == Head(es)
<1>1. /\ fs \in Seq(S) /\ Len(fs) = Len(es) - 1 /\ Len(es) \in Nat \ {0}
      /\ e \in S /\ e = es[1] /\ \A k \in 1..Len(fs) : fs[k] = es[k + 1]
  BY HeadTailProperties, EmptySeq
<1> HIDE DEF fs, e
<1>2. ASSUME NEW k \in 1..Len(fs), NEW types, NEW i
      PROVE  Is(fs, k, types, i) <=> Is(es, k + 1, types, i)
  <2>1. k + 1 \in 1..Len(es) /\ fs[k] = es[k + 1]
    BY <1>1
  <2> QED
    BY <2>1 DEF Is
<1>3. \A types, i : Is(es, 1, types, i) <=> e.type \in types /\ e.id = i
  BY <1>1 DEF Is
<1>4. ASSUME NEW types, NEW i
      PROVE  Has(es, types, i) <=> Has(fs, types, i) \/ Is(es, 1, types, i)
  <2>1. Has(fs, types, i) => Has(es, types, i)
    <3> SUFFICES ASSUME NEW k \in 1..Len(fs), Is(fs, k, types, i)
                 PROVE  Has(es, types, i)
      BY DEF Has
    <3>1. Is(es, k + 1, types, i) /\ k + 1 \in 1..Len(es)
      BY <1>1, <1>2
    <3> QED
      BY <3>1 DEF Has
  <2>2. Is(es, 1, types, i) => Has(es, types, i)
    BY <1>1 DEF Has
  <2>3. Has(es, types, i) => Has(fs, types, i) \/ Is(es, 1, types, i)
    <3> SUFFICES ASSUME NEW k \in 1..Len(es), Is(es, k, types, i), k # 1
                 PROVE  Has(fs, types, i)
      BY DEF Has
    <3> DEFINE l == k - 1
    <3>1. l \in 1..Len(fs) /\ l + 1 = k
      BY <1>1
    <3> HIDE DEF l
    <3>2. Is(fs, l, types, i)
      BY <1>2, <3>1
    <3> QED
      BY <3>1, <3>2 DEF Has
  <2> QED
    BY <2>1, <2>2, <2>3
<1> QED
  BY <1>1, <1>2, <1>3, <1>4 DEF fs, e

\* An empty queue has no event.
LEMMA NoEvents ==
  \A types, i : ~Has(<<>>, types, i) /\ \A k : ~Is(<<>>, k, types, i)
<1>1. Len(<<>>) = 0
  BY EmptySeq
<1> QED
  BY <1>1 DEF Has, Is

\* What is found is in the queue.
LEMMA FoundThere ==
  \A es, k, types, i :
    Is(es, k, types, i) => k \in 1..Len(es) /\ Has(es, types, i)
  BY DEF Is, Has

\* The fields of the events.
LEMMA EventFields ==
  /\ \A i \in Ids : /\ Event("Connected", i) \in TransportEvent
                    /\ Event("ConnectionFailed", i) \in TransportEvent
                    /\ Event("Disconnected", i) \in TransportEvent
                    /\ Event("Message", i) \in DispatchEvent
  /\ [type |-> "Inactive"] \in TransportEvent
  /\ \A i \in Ids : \A d \in Seq(Bytes) :
       [type |-> "Data", id |-> i, data |-> d] \in TransportEvent
  /\ \A e \in TransportEvent :
       /\ e.type \in {"Inactive", "Connected", "Data"} \cup Ends
       /\ e.type # "Inactive" => e.id \in Ids
       /\ e.type = "Data" => e.data \in Seq(Bytes)
       /\ e.type # "Data" => e \in DispatchEvent
  /\ \A e \in DispatchEvent :
       /\ e.type \in {"Inactive", "Connected", "Message"} \cup Ends
       /\ e.type # "Inactive" => e.id \in Ids
  BY DEF Event, TransportEvent, DispatchEvent, Ends

\* The initial state.
LEMMA InitInv == Init => Inv
<1> SUFFICES ASSUME Init PROVE Inv
  OBVIOUS
<1> USE DEF Init
<1>0. DOMAIN recv_buffers = {} /\ \A S : <<>> \in Seq(S)
  BY EmptySeq
<1>1. Types
  BY <1>0 DEF Types
<1>2. Phases
  BY DEF Phases
<1>3. Fresh
  BY <1>0, NoEvents DEF Fresh
<1>a. serialize_all(<<>>) = <<>> /\ <<>> \o <<>> = <<>> /\ <<>> \in Seq(Bytes)
  <2>1. <<>> \in Seq(Serializable) /\ <<>> \in Seq(Bytes)
    BY EmptySeq
  <2> QED
    BY <2>1, SerializeAll, ConcatEmptySeq
<1>4. BytesKept
  <2>1. \A i \in Ids : Accounted(i, <<>>)
    BY <1>a DEF Accounted, AddUp, NoMessageTail
  <2> QED
    BY <2>1, NoEvents DEF BytesKept
<1>5. BufferFits
  <2>1. \A i \in Ids : Buffer(i) = <<>>
    BY <1>0 DEF Buffer
  <2>2. deserialize_message(<<>>).kind = "none"
    BY EmptySeq DEF deserialize_message, None, WORD
  <2> QED
    BY <1>a, <2>1, <2>2 DEF BufferFits
<1>6. DataBeforeEnd /\ InactiveAlone /\ BufferOwned /\ EndFollows
  <2>1. 1..Len(transport_events) = {} /\ 1..Len(dispatch_events) = {}
    BY EmptySeq
  <2> QED
    BY <1>0, <2>1 DEF DataBeforeEnd, Ordered, InactiveAlone, BufferOwned,
                      EndFollows, EndQueued
<1> QED
  BY <1>1, <1>2, <1>3, <1>4, <1>5, <1>6 DEF Inv

-----------------------------------------------------------------------------
(* What a step leaves alone.                                               *)

\* A part of the invariant holds while its variables stay the same.
LEMMA PartsKept ==
  /\ Fresh /\ UNCHANGED <<conn, stream, messages, inflight, recv_buffers, view,
                          transport_events, dispatch_events>> => Fresh'
  /\ BytesKept /\ UNCHANGED <<stream, inflight, written, frames,
                              transport_events>> => BytesKept'
  /\ BufferFits /\ UNCHANGED <<stream, messages, recv_buffers, conn,
                               transport_events>> => BufferFits'
  /\ DataBeforeEnd /\ UNCHANGED <<conn, transport_events>> => DataBeforeEnd'
  /\ InactiveAlone /\ UNCHANGED <<conn, transport_events, listening>>
       => InactiveAlone'
  /\ BufferOwned /\ UNCHANGED <<recv_buffers, conn, transport_events>>
       => BufferOwned'
  /\ EndFollows /\ UNCHANGED <<view, conn, transport_events, dispatch_events>>
       => EndFollows'
<1>1. Fresh /\ UNCHANGED <<conn, stream, messages, inflight, recv_buffers, view,
                          transport_events, dispatch_events>> => Fresh'
  BY DEF Fresh
<1>2. BytesKept /\ UNCHANGED <<stream, inflight, written, frames,
                              transport_events>> => BytesKept'
  BY DEF BytesKept, Accounted
<1>3. BufferFits /\ UNCHANGED <<stream, messages, recv_buffers, conn,
                               transport_events>> => BufferFits'
  BY DEF BufferFits, Buffer
<1>4. DataBeforeEnd /\ UNCHANGED <<conn, transport_events>> => DataBeforeEnd'
  BY DEF DataBeforeEnd
<1>5. InactiveAlone /\ UNCHANGED <<conn, transport_events, listening>>
       => InactiveAlone'
  BY DEF InactiveAlone, Live
<1>6. BufferOwned /\ UNCHANGED <<recv_buffers, conn, transport_events>>
       => BufferOwned'
  BY DEF BufferOwned, Live
<1>7. EndFollows /\ UNCHANGED <<view, conn, transport_events, dispatch_events>>
       => EndFollows'
  BY DEF EndFollows, Live
<1> QED
  BY <1>1, <1>2, <1>3, <1>4, <1>5, <1>6, <1>7

\* A step that changes at most pc and listening.
LEMMA IdleStep ==
  ASSUME Inv,
         UNCHANGED <<recv_buffers, transport_events, dispatch_events, conn,
                     inflight, written, frames, view, stream, messages>>,
         pc' \in {"app", "fetch", "process"}, listening' \in BOOLEAN, Phases',
         listening' = listening \/ transport_events = <<>>
  PROVE  Inv'
<1> USE DEF Inv
<1>1. Types'
  BY DEF Types
<1>2. Fresh' /\ BytesKept' /\ BufferFits' /\ DataBeforeEnd' /\ BufferOwned'
      /\ EndFollows'
  BY PartsKept
<1>3. InactiveAlone'
  <2>1. CASE listening' = listening
    BY <2>1 DEF InactiveAlone, Live
  <2>2. CASE transport_events = <<>>
    BY <2>2, EmptySeq DEF InactiveAlone
  <2> QED
    BY <2>1, <2>2
<1> QED
  BY <1>1, <1>2, <1>3

\* The transport is called, returns, and its events have been processed; the
\* listener is opened or closed.
LEMMA PhaseSteps ==
  ASSUME Inv,
         \/ FetchEvents \/ TransportReturns \/ ProcessDone
         \/ listen \/ close_listener \/ close_all_listeners
  PROVE  Inv'
<1>0. Types /\ Phases
  BY DEF Inv
<1>1. CASE FetchEvents
  <2>1. Phases'
    BY <1>1 DEF FetchEvents, Phases
  <2> QED
    BY <1>0, <1>1, <2>1, IdleStep DEF FetchEvents, transport, Types
<1>2. CASE TransportReturns
  <2>1. Phases'
    BY <1>2 DEF TransportReturns, Phases
  <2> QED
    BY <1>0, <1>2, <2>1, IdleStep DEF TransportReturns, transport, Types
<1>3. CASE ProcessDone
  <2>1. Phases'
    BY <1>3 DEF ProcessDone, Phases
  <2> QED
    BY <1>0, <1>3, <2>1, IdleStep DEF ProcessDone, transport, Types
<1>4. ASSUME NEW on \in BOOLEAN, SetListening(on)
      PROVE  Inv'
  <2>1. Phases'
    BY <1>0, <1>4 DEF SetListening, Phases
  <2>2. transport_events = <<>>
    BY <1>0, <1>4 DEF SetListening, PassedOn, InterfaceCall, Phases
  <2> QED
    BY <1>0, <1>4, <2>1, <2>2, IdleStep DEF SetListening, Types
<1> QED
  BY <1>1, <1>2, <1>3, <1>4 DEF listen, close_listener, close_all_listeners

-----------------------------------------------------------------------------
(* The peers.                                                              *)

\* Bytes appended to a tail no message begins with.
LEMMA TailGrows ==
  ASSUME NEW tail \in Seq(Bytes), NEW b \in Seq(Bytes),
         Complete(tail), deserialize_message(tail).kind # "message"
  PROVE  tail \o b \in Seq(Bytes) /\ Complete(tail \o b)
         /\ deserialize_message(tail \o b).kind # "message"
<1>1. Len(tail) \in Nat /\ Len(b) \in Nat /\ from_le_bytes(tail) \in Nat
  BY LenProperties, FieldLength DEF Complete
<1>2. tail \o b \in Seq(Bytes) /\ Len(tail \o b) = Len(tail) + Len(b)
      /\ \A k \in 1..Len(tail) : (tail \o b)[k] = tail[k]
  BY ConcatParts
<1>3. FrameSize(tail \o b) = FrameSize(tail) /\ FrameSize(tail) \in Nat
  BY <1>1, <1>2 DEF FrameSize, from_le_bytes, Complete, WORD
<1>4. deserialize_message(tail \o b) = deserialize_message(tail)
  BY FrameLocal DEF Complete
<1> QED
  BY <1>1, <1>2, <1>3, <1>4 DEF Complete, WORD

\* A frame written is accounted for: a message ends the tail's absence only if
\* a malformed frame was written before.
LEMMA WriteAccounted ==
  ASSUME Types, NEW i \in Ids, NEW d \in Seq(Bytes), Accounted(i, d),
         NEW b \in Seq(Bytes), NEW w \in Seq(Serializable), NEW c \in BOOLEAN,
         \/ /\ frames[i].clean /\ c
            /\ \E m \in Serializable : b = serialize_message(m)
                                       /\ w = Append(written[i], m)
         \/ /\ frames[i].clean /\ ~c /\ w = written[i]
            /\ Complete(b) /\ deserialize_message(b).kind # "message"
         \/ ~frames[i].clean /\ ~c /\ w = written[i]
  PROVE  AddUp(w, c, stream[i], d, inflight[i] \o b)
<1> DEFINE sw == serialize_all(written[i])
           f == inflight[i]
           st == stream[i]
<1>1. PICK tail \in Seq(Bytes) :
        NoMessageTail(tail, frames[i].clean) /\ sw \o tail = st \o (d \o f)
  BY DEF Accounted, AddUp
<1>2. written[i] \in Seq(Serializable) /\ f \in Seq(Bytes) /\ st \in Seq(Bytes)
      /\ frames[i].clean \in BOOLEAN
  BY DEF Types
<1>3. sw \in Seq(Bytes)
  BY <1>2, SerializeAll
<1> HIDE DEF f, st, sw
<1>4. (sw \o tail) \o b = st \o (d \o (f \o b))
  <2>1. d \o f \in Seq(Bytes) /\ f \o b \in Seq(Bytes)
    BY <1>2, ConcatProperties
  <2>2. (st \o (d \o f)) \o b = st \o ((d \o f) \o b)
    <3>1. Joins(st, d \o f, b)
      BY <1>2, <2>1, BytesAssociative
    <3> QED
      BY <3>1 DEF Joins
  <2>3. (d \o f) \o b = d \o (f \o b)
    <3>1. Joins(d, f, b)
      BY <1>2, BytesAssociative
    <3> QED
      BY <3>1 DEF Joins
  <2> QED
    BY <1>1, <2>2, <2>3
<1>5. (sw \o tail) \o b = sw \o (tail \o b)
  <2>1. Joins(sw, tail, b)
    BY <1>3, BytesAssociative
  <2> QED
    BY <2>1 DEF Joins
<1>6. CASE /\ frames[i].clean /\ c
           /\ \E m \in Serializable : b = serialize_message(m)
                                      /\ w = Append(written[i], m)
  <2>1. PICK m \in Serializable : b = serialize_message(m)
                                  /\ w = Append(written[i], m)
    BY <1>6
  <2>2. tail = <<>> /\ tail \o b = b
    BY <1>1, <1>6, ConcatEmptySeq DEF NoMessageTail
  <2>3. serialize_all(w) = sw \o b
    <3> DEFINE one == <<m>>
    <3>1. one \in Seq(Serializable) /\ serialize_all(one) = b
      BY <1>2, <2>1, SerializeAll
    <3>2. w = written[i] \o one
      BY <1>2, <2>1, AppendIsConcat
    <3> HIDE DEF one
    <3>3. serialize_all(written[i] \o one)
            = serialize_all(written[i]) \o serialize_all(one)
      BY <1>2, <3>1, SerializeAll
    <3> QED
      BY <3>1, <3>2, <3>3 DEF sw
  <2>4. <<>> \in Seq(Bytes) /\ serialize_all(w) \o <<>> = serialize_all(w)
    <3>1. serialize_all(w) \in Seq(Bytes)
      BY SerializeAll
    <3> QED
      BY <3>1, ConcatEmptySeq, EmptySeq
  <2>5. serialize_all(w) \o <<>> = st \o (d \o (f \o b))
    BY <1>4, <1>5, <2>2, <2>3, <2>4
  <2>6. NoMessageTail(<<>>, c)
    BY <1>6 DEF NoMessageTail
  <2> QED
    BY <2>4, <2>5, <2>6 DEF AddUp, f, st
<1>7. CASE /\ frames[i].clean /\ ~c /\ w = written[i]
           /\ Complete(b) /\ deserialize_message(b).kind # "message"
  <2>1. tail = <<>> /\ tail \o b = b
    BY <1>1, <1>7, ConcatEmptySeq DEF NoMessageTail
  <2>2. NoMessageTail(b, c)
    BY <1>7 DEF NoMessageTail
  <2> QED
    BY <1>4, <1>5, <1>7, <2>1, <2>2 DEF AddUp, f, st, sw
<1>8. CASE ~frames[i].clean /\ ~c /\ w = written[i]
  <2>1. Complete(tail) /\ deserialize_message(tail).kind # "message"
    BY <1>1, <1>8 DEF NoMessageTail
  <2>2. tail \o b \in Seq(Bytes) /\ NoMessageTail(tail \o b, c)
    BY <1>8, <2>1, TailGrows DEF NoMessageTail
  <2> QED
    BY <1>4, <1>5, <1>8, <2>2 DEF AddUp, f, st, sw
<1> QED
  BY <1>6, <1>7, <1>8

\* The data of an event.
LEMMA DataType ==
  ASSUME Types, NEW i, NEW k, Is(transport_events, k, {"Data"}, i)
  PROVE  /\ k \in 1..Len(transport_events) /\ i \in Ids
         /\ transport_events[k] \in TransportEvent
         /\ transport_events[k].type = "Data" /\ transport_events[k].id = i
         /\ transport_events[k].data \in Seq(Bytes)
<1>1. k \in 1..Len(transport_events) /\ transport_events[k].type = "Data"
      /\ transport_events[k].id = i
  BY DEF Is
<1>2. transport_events[k] \in TransportEvent
  BY <1>1, ElementOfSeq DEF Types
<1> QED
  BY <1>1, <1>2, EventFields

\* The peer writes a message or something else.
LEMMA PeerSteps ==
  ASSUME Inv, NEW i \in Ids, Peer(i)
  PROVE  Inv'
<1> USE DEF Inv
<1>1. PICK b \in Seq(Bytes), c \in BOOLEAN, w \in Seq(Serializable) :
        /\ PeerWrites(i, b, c) /\ written' = [written EXCEPT ![i] = w]
        /\ \/ /\ frames[i].clean /\ c
              /\ \E m \in Serializable : b = serialize_message(m)
                                         /\ w = Append(written[i], m)
           \/ /\ frames[i].clean /\ ~c /\ w = written[i]
              /\ Complete(b) /\ deserialize_message(b).kind # "message"
           \/ ~frames[i].clean /\ w = written[i]
  <2>0. written[i] \in Seq(Serializable) /\ written \in [Ids -> Seq(Serializable)]
        /\ frames[i].clean \in BOOLEAN
    BY DEF Types
  <2>1. ASSUME NEW m \in Messages, PeerSends(i, m)
        PROVE  \E b \in Seq(Bytes), w \in Seq(Serializable) :
                 /\ PeerWrites(i, b, TRUE) /\ written' = [written EXCEPT ![i] = w]
                 /\ \/ /\ frames[i].clean
                       /\ b = serialize_message(m) /\ m \in Serializable
                       /\ w = Append(written[i], m)
                    \/ ~frames[i].clean /\ w = written[i]
    <3>1. m \in Serializable
      BY MessagesAssumption
    <3>2. serialize_message(m) \in Seq(Bytes)
      BY <3>1, FrameParts
    <3>3. Append(written[i], m) \in Seq(Serializable)
      BY <2>0, <3>1, AppendProperties
    <3>4. [written EXCEPT ![i] = written[i]] = written
      BY <2>0
    <3>5. CASE frames[i].clean
      BY <2>1, <3>1, <3>2, <3>3, <3>5 DEF PeerSends
    <3>6. CASE ~frames[i].clean
      BY <2>0, <2>1, <3>2, <3>4, <3>6 DEF PeerSends
    <3> QED
      BY <3>5, <3>6
  <2>2. ASSUME NEW b \in Malformed, PeerSendsMalformed(i, b)
        PROVE  /\ b \in Seq(Bytes) /\ PeerWrites(i, b, FALSE)
               /\ written' = [written EXCEPT ![i] = written[i]]
               /\ Complete(b) /\ deserialize_message(b).kind # "message"
    BY <2>0, <2>2, MalformedAssumption DEF PeerSendsMalformed
  <2>3. CASE \E m \in Messages : PeerSends(i, m)
    <3>1. PICK m \in Messages : PeerSends(i, m)
      BY <2>3
    <3>2. PICK b \in Seq(Bytes), w \in Seq(Serializable) :
                 /\ PeerWrites(i, b, TRUE) /\ written' = [written EXCEPT ![i] = w]
                 /\ \/ /\ frames[i].clean
                       /\ b = serialize_message(m) /\ m \in Serializable
                       /\ w = Append(written[i], m)
                    \/ ~frames[i].clean /\ w = written[i]
      BY <2>1, <3>1
    <3> WITNESS b \in Seq(Bytes), TRUE \in BOOLEAN, w \in Seq(Serializable)
    <3> QED
      BY <3>2
  <2>4. CASE \E b \in Malformed : PeerSendsMalformed(i, b)
    <3>1. PICK b \in Malformed : PeerSendsMalformed(i, b)
      BY <2>4
    <3>2. /\ b \in Seq(Bytes) /\ PeerWrites(i, b, FALSE)
          /\ written' = [written EXCEPT ![i] = written[i]]
          /\ Complete(b) /\ deserialize_message(b).kind # "message"
      BY <2>2, <3>1
    <3>3. written[i] \in Seq(Serializable) /\ FALSE \in BOOLEAN
      BY <2>0
    <3> QED
      BY <3>2, <3>3
  <2> QED
    BY <2>3, <2>4 DEF Peer
<1> DEFINE cl == frames[i].clean /\ c
<1>2. /\ conn[i] = "open" /\ inflight' = [inflight EXCEPT ![i] = @ \o b]
      /\ frames' = [frames EXCEPT ![i] = [count |-> @.count + 1, clean |-> cl]]
      /\ UNCHANGED <<recv_buffers, pc, transport_events, dispatch_events, conn,
                     listening, view, stream, messages>>
  BY <1>1 DEF PeerWrites
<1>3. cl \in BOOLEAN
  BY DEF Types
<1>4. ASSUME NEW d \in Seq(Bytes), Accounted(i, d)
      PROVE  AddUp(w, cl, stream[i], d, inflight[i] \o b)
  BY <1>1, <1>3, <1>4, WriteAccounted
<1> HIDE DEF cl
<1>5. /\ inflight[i] \o b \in Seq(Bytes) /\ frames[i].count + 1 \in Nat
      /\ inflight'[i] = inflight[i] \o b /\ frames'[i].clean = cl
      /\ written'[i] = w
      /\ \A j \in Ids \ {i} : /\ inflight'[j] = inflight[j]
                              /\ frames'[j] = frames[j]
                              /\ written'[j] = written[j]
  <2>1. /\ inflight \in [Ids -> Seq(Bytes)] /\ written \in [Ids -> Seq(Serializable)]
        /\ frames \in [Ids -> [count : Nat, clean : BOOLEAN]]
    BY DEF Types
  <2>2. inflight[i] \o b \in Seq(Bytes)
    BY <2>1, ConcatProperties
  <2> QED
    BY <1>1, <1>2, <2>1, <2>2
<1>6. Types'
  <2>1. inflight' \in [Ids -> Seq(Bytes)]
    BY <1>2, <1>5 DEF Types
  <2>2. frames' \in [Ids -> [count : Nat, clean : BOOLEAN]]
    BY <1>2, <1>3, <1>5 DEF Types
  <2>3. written' \in [Ids -> Seq(Serializable)]
    BY <1>1 DEF Types
  <2> QED
    BY <1>2, <2>1, <2>2, <2>3 DEF Types
<1>7. Fresh'
  BY <1>2, <1>5 DEF Fresh
<1>8. ASSUME NEW j \in Ids, NEW d \in Seq(Bytes), Accounted(j, d)
      PROVE  AddUp(written'[j], frames'[j].clean, stream'[j], d, inflight'[j])
  <2>1. CASE j = i
    BY <1>2, <1>4, <1>5, <1>8, <2>1
  <2>2. CASE j # i
    BY <1>2, <1>5, <1>8, <2>2 DEF Accounted
  <2> QED
    BY <2>1, <2>2
<1>9. BytesKept'
  <2> SUFFICES ASSUME NEW j \in Ids
               PROVE  /\ ~Has(transport_events, {"Data"}, j) => Accounted(j, <<>>)'
                      /\ \A k \in 1..Len(transport_events) :
                           Is(transport_events, k, {"Data"}, j) =>
                             Accounted(j, transport_events[k].data)'
    BY <1>2 DEF BytesKept
  <2>1. ~Has(transport_events, {"Data"}, j) => Accounted(j, <<>>)'
    BY <1>8, EmptySeq DEF BytesKept, Accounted
  <2>2. ASSUME NEW k \in 1..Len(transport_events),
               Is(transport_events, k, {"Data"}, j)
        PROVE  Accounted(j, transport_events[k].data)'
    <3>1. transport_events[k].data \in Seq(Bytes)
          /\ Accounted(j, transport_events[k].data)
      BY <2>2, DataType DEF BytesKept
    <3>2. AddUp(written'[j], frames'[j].clean, stream'[j],
                transport_events[k].data, inflight'[j])
      BY <1>8, <3>1
    <3> QED
      BY <1>2, <3>2 DEF Accounted
  <2> QED
    BY <2>1, <2>2
<1>10. Phases'
  BY <1>2 DEF Phases
<1>11. BufferFits' /\ DataBeforeEnd' /\ InactiveAlone' /\ BufferOwned'
       /\ EndFollows'
  BY <1>2, PartsKept
<1> QED
  BY <1>6, <1>7, <1>9, <1>10, <1>11

-----------------------------------------------------------------------------
(* The application's calls.                                                *)

\* connect() and accepting leave the streams alone.
LEMMA ConnectStep ==
  ASSUME Inv, NEW i \in Ids, connect(i)
  PROVE  Inv'
<1> USE DEF Inv
<1>1. /\ conn[i] = "new" /\ transport_events = <<>>
      /\ conn' = [conn EXCEPT ![i] = "connecting"]
      /\ view' = [view EXCEPT ![i] = "connecting"]
      /\ UNCHANGED <<recv_buffers, pc, transport_events, dispatch_events,
                     listening, inflight, written, frames, stream, messages>>
  BY DEF connect, PassedOn, InterfaceCall, Phases
<1>2. /\ conn'[i] = "connecting" /\ view'[i] = "connecting"
      /\ \A j \in Ids \ {i} : conn'[j] = conn[j] /\ view'[j] = view[j]
  BY <1>1 DEF Types
<1>3. Types'
  BY <1>1 DEF Types
<1>4. Phases'
  BY <1>1 DEF Phases
<1>5. Fresh'
  BY <1>1, <1>2 DEF Fresh
<1>6. BytesKept'
  BY <1>1, PartsKept
<1>7. BufferFits'
  BY <1>1, <1>2, NoEvents DEF BufferFits, Buffer
<1>8. 1..Len(transport_events) = {}
  BY <1>1, EmptySeq
<1>9. DataBeforeEnd' /\ InactiveAlone'
  BY <1>1, <1>8 DEF DataBeforeEnd, Ordered, InactiveAlone
<1>10. BufferOwned'
  BY <1>1, <1>2 DEF BufferOwned, Live, Types
<1>11. EndFollows'
  BY <1>1, <1>2 DEF EndFollows, Live
<1> QED
  BY <1>3, <1>4, <1>5, <1>6, <1>7, <1>9, <1>10, <1>11

\* The transport closes the connections in S, with their receive buffers or
\* behind the messenger's back; the buffers in D stay.
LEMMA CloseStep ==
  ASSUME Inv, NEW S \in SUBSET Ids, NEW how \in {"gone", "cut"},
         CloseIn(S, how), transport_events = <<>>,
         listening' \in BOOLEAN,
         NEW D \in SUBSET DOMAIN recv_buffers, DOMAIN recv_buffers' = D,
         \A i \in D : recv_buffers'[i] = recv_buffers[i],
         \A i \in DOMAIN recv_buffers \ D : i \in S \/ ~Live(i),
         how = "gone" => D \cap S = {}
  PROVE  Inv'
<1> USE DEF Inv
<1>1. /\ conn' = [i \in Ids |-> IF i \in S /\ Live(i) THEN how ELSE conn[i]]
      /\ view' = [i \in Ids |-> IF i \in S /\ (Live(i) \/ view[i] # "new")
                                THEN "closed" ELSE view[i]]
      /\ UNCHANGED <<pc, transport_events, dispatch_events, inflight, written,
                     frames, stream, messages>>
  BY DEF CloseIn
<1>3. Types'
  <2>1. conn' \in [Ids -> {"new", "connecting", "open", "gone", "cut", "dropped"}]
        /\ view' \in [Ids -> {"new", "connecting", "open", "closed"}]
    BY <1>1 DEF Types
  <2> QED
    BY <1>1, <2>1 DEF Types
<1>4. Phases'
  BY <1>1 DEF Phases
<1>5. ASSUME NEW i \in Ids
      PROVE  /\ \/ conn'[i] = conn[i] /\ ~(i \in S /\ Live(i))
                \/ ~Live(i)' /\ Live(i) /\ i \in S /\ conn'[i] = how
             /\ view'[i] = view[i] \/ view'[i] = "closed"
             /\ Live(i) /\ ~Live(i)' => view'[i] = "closed"
  BY <1>1 DEF Types, Live
<1>6. Fresh'
  <2> SUFFICES ASSUME NEW i \in Ids
               PROVE  /\ conn'[i] \in {"new", "connecting"} =>
                           /\ stream[i] = <<>> /\ messages[i] = <<>>
                           /\ inflight[i] = <<>>
                           /\ i \notin DOMAIN recv_buffers'
                           /\ ~Has(transport_events, {"Data"}, i)
                      /\ conn'[i] = "new" =>
                           /\ view'[i] # "open"
                           /\ ~Has(transport_events, AnyType, i)
                           /\ ~Has(dispatch_events, AnyType, i)
    BY <1>1 DEF Fresh
  <2>1. conn'[i] \in {"new", "connecting"} => conn'[i] = conn[i]
    BY <1>5
  <2> QED
    BY <1>5, <2>1 DEF Fresh
<1>7. BytesKept'
  BY <1>1, PartsKept
<1>8. BufferFits'
  <2> SUFFICES ASSUME NEW i \in Ids
               PROVE  /\ deserialize_message(Buffer(i)').kind = "none"
                      /\ conn'[i] = "open" =>
                           stream[i] = serialize_all(messages[i]) \o Buffer(i)'
    BY <1>1, NoEvents DEF BufferFits
  <2>1. Buffer(i)' = IF i \in D THEN Buffer(i) ELSE <<>>
    BY DEF Buffer
  <2>2. deserialize_message(<<>>).kind = "none"
    BY EmptySeq DEF deserialize_message, None, WORD
  <2>3. deserialize_message(Buffer(i)').kind = "none"
    BY <2>1, <2>2 DEF BufferFits
  <2>4. ASSUME conn'[i] = "open"
        PROVE  conn[i] = "open" /\ Buffer(i)' = Buffer(i)
    <3>1. conn[i] = "open" /\ Live(i) /\ i \notin S
      BY <1>5, <2>4 DEF Live
    <3>2. i \in D \/ i \notin DOMAIN recv_buffers
      BY <3>1
    <3> QED
      BY <3>1, <3>2 DEF Buffer
  <2> QED
    BY <2>3, <2>4 DEF BufferFits
<1>9. 1..Len(transport_events) = {}
  BY EmptySeq
<1>10. DataBeforeEnd' /\ InactiveAlone'
  BY <1>1, <1>9 DEF DataBeforeEnd, Ordered, InactiveAlone
<1>11. BufferOwned'
  <2> SUFFICES ASSUME NEW i \in D PROVE Live(i)' \/ conn'[i] = "cut"
    BY <1>1 DEF BufferOwned
  <2>1. i \in Ids /\ (Live(i) \/ conn[i] = "cut")
    BY NoEvents DEF BufferOwned, Types
  <2> QED
    BY <1>5, <2>1 DEF Live
<1>12. EndFollows'
  <2> SUFFICES ASSUME NEW i \in Ids, view'[i] # "closed", ~Live(i)',
                      conn'[i] # "dropped"
               PROVE  view[i] # "closed" /\ ~Live(i) /\ conn[i] # "dropped"
                      /\ view'[i] = view[i]
    BY <1>1 DEF EndFollows
  <2> QED
    BY <1>5
<1> QED
  BY <1>3, <1>4, <1>6, <1>7, <1>8, <1>10, <1>11, <1>12

\* Every call that closes connections.
LEMMA CloseSteps ==
  ASSUME Inv,
         \/ \E i \in Ids : close_connection(i) \/ InterfaceClosesConnection(i)
         \/ close_all_connections \/ close_all \/ InterfaceClosesAll
  PROVE  Inv'
<1>0. Types /\ Phases
  BY DEF Inv
<1>1. ASSUME NEW i \in Ids, close_connection(i) PROVE Inv'
  <2> DEFINE D == DOMAIN recv_buffers \ {i}
  <2>1. DOMAIN recv_buffers' = D /\ \A j \in D : recv_buffers'[j] = recv_buffers[j]
    BY <1>1 DEF close_connection, Without, Restrict
  <2>2. CloseIn({i}, "gone") /\ transport_events = <<>> /\ listening' \in BOOLEAN
    BY <1>0, <1>1 DEF close_connection, Phases, Types
  <2>3. {i} \in SUBSET Ids /\ "gone" \in {"gone", "cut"}
        /\ D \in SUBSET DOMAIN recv_buffers /\ D \cap {i} = {}
        /\ \A j \in DOMAIN recv_buffers \ D : j \in {i} \/ ~Live(j)
    OBVIOUS
  <2> HIDE DEF D
  <2> QED
    BY <2>1, <2>2, <2>3, CloseStep
<1>2. ASSUME close_all_connections \/ close_all PROVE Inv'
  <2> DEFINE S == {i \in Ids : Live(i)}
             D == DOMAIN recv_buffers \ DOMAIN recv_buffers
  <2>1. DOMAIN recv_buffers' = D /\ \A j \in D : recv_buffers'[j] = recv_buffers[j]
    BY <1>2 DEF close_all_connections, close_all, Without, Restrict
  <2>2. CloseIn(S, "gone") /\ transport_events = <<>> /\ listening' \in BOOLEAN
    BY <1>0, <1>2 DEF close_all_connections, close_all, Phases, Types
  <2>3. S \in SUBSET Ids /\ "gone" \in {"gone", "cut"}
        /\ D \in SUBSET DOMAIN recv_buffers /\ D \cap S = {}
        /\ \A j \in DOMAIN recv_buffers \ D : j \in S \/ ~Live(j)
    BY <1>0 DEF Types
  <2> HIDE DEF D, S
  <2> QED
    BY <2>1, <2>2, <2>3, CloseStep
<1>3. ASSUME NEW S \in SUBSET Ids, CloseIn(S, "cut"), InterfaceCall,
             UNCHANGED recv_buffers, listening' \in BOOLEAN
      PROVE  Inv'
  <2> DEFINE D == DOMAIN recv_buffers
  <2>1. DOMAIN recv_buffers' = D /\ \A j \in D : recv_buffers'[j] = recv_buffers[j]
    BY <1>3
  <2>2. transport_events = <<>>
    BY <1>3 DEF InterfaceCall
  <2>3. "cut" \in {"gone", "cut"} /\ "cut" # "gone"
        /\ D \in SUBSET DOMAIN recv_buffers
        /\ \A j \in DOMAIN recv_buffers \ D : j \in S \/ ~Live(j)
    OBVIOUS
  <2> HIDE DEF D
  <2> QED
    BY <1>3, <2>1, <2>2, <2>3, CloseStep
<1>4. ASSUME NEW i \in Ids, InterfaceClosesConnection(i) PROVE Inv'
  <2>1. /\ CloseIn({i}, "cut") /\ InterfaceCall /\ UNCHANGED recv_buffers
        /\ listening' \in BOOLEAN /\ {i} \in SUBSET Ids
    BY <1>0, <1>4 DEF InterfaceClosesConnection, Types
  <2> QED
    BY <1>3, <2>1
<1>5. ASSUME InterfaceClosesAll PROVE Inv'
  <2> DEFINE S == {i \in Ids : Live(i)}
  <2>1. /\ CloseIn(S, "cut") /\ InterfaceCall /\ UNCHANGED recv_buffers
        /\ listening' \in BOOLEAN /\ S \in SUBSET Ids
    BY <1>0, <1>5 DEF InterfaceClosesAll, Types
  <2> HIDE DEF S
  <2> QED
    BY <1>3, <2>1
<1> QED
  BY <1>1, <1>2, <1>4, <1>5

\* The application handles an event.
LEMMA AppStep ==
  ASSUME Inv, AppHandlesEvent
  PROVE  Inv'
<1> USE DEF Inv
<1> DEFINE e == Head(dispatch_events)
<1>1. /\ pc = "app" /\ dispatch_events # <<>>
      /\ view' = IF e.type \in {"Inactive", "Message"} \/ view[e.id] = "closed"
                 THEN view
                 ELSE [view EXCEPT ![e.id] =
                         IF e.type = "Connected" THEN "open" ELSE "closed"]
      /\ dispatch_events' = Tail(dispatch_events)
      /\ UNCHANGED <<recv_buffers, pc, transport_events, conn, listening,
                     inflight, written, frames, stream, messages>>
  BY DEF AppHandlesEvent, transport
<1>2. dispatch_events \in Seq(DispatchEvent) /\ transport_events = <<>>
  BY <1>1 DEF Types, Phases
<1> DEFINE ds == dispatch_events
           fs == Tail(dispatch_events)
<1>3. /\ fs \in Seq(DispatchEvent) /\ Len(fs) = Len(ds) - 1
      /\ Len(ds) \in Nat \ {0} /\ e \in DispatchEvent
      /\ \A k \in 1..Len(fs) : \A types, i :
           Is(fs, k, types, i) <=> Is(ds, k + 1, types, i)
      /\ \A types, i : Is(ds, 1, types, i) <=> e.type \in types /\ e.id = i
      /\ \A types, i : Has(ds, types, i) <=>
           Has(fs, types, i) \/ Is(ds, 1, types, i)
  BY <1>1, <1>2, EventRemoved
<1>4. e.type \in {"Inactive", "Connected", "Message"} \cup Ends
      /\ (e.type # "Inactive" => e.id \in Ids)
  BY <1>3, EventFields
<1> HIDE DEF e, fs, ds
<1>5. Types'
  <2>1. view' \in [Ids -> {"new", "connecting", "open", "closed"}]
    BY <1>1, <1>4 DEF Types
  <2> QED
    BY <1>1, <1>3, <2>1 DEF Types, fs
<1>6. Phases'
  BY <1>1 DEF Phases
<1>7. ASSUME NEW i \in Ids
      PROVE  \/ /\ view'[i] = view[i]
                /\ view[i] = "closed" \/ ~Is(ds, 1, {"Connected"} \cup Ends, i)
             \/ /\ view[i] # "closed" /\ view'[i] = "open"
                /\ e.type = "Connected" /\ e.id = i
             \/ view'[i] = "closed"
  <2>1. Is(ds, 1, {"Connected"} \cup Ends, i) <=>
          e.type \in {"Connected"} \cup Ends /\ e.id = i
    BY <1>3
  <2>2. view \in [Ids -> {"new", "connecting", "open", "closed"}]
    BY DEF Types
  <2>3. CASE e.type \in {"Inactive", "Message"}
    BY <1>1, <2>1, <2>3 DEF Ends
  <2>4. CASE e.type \in {"Connected"} \cup Ends
    <3>1. e.id \in Ids /\ e.type \notin {"Inactive", "Message"}
      BY <1>4, <2>4 DEF Ends
    <3> QED
      BY <1>1, <2>1, <2>2, <3>1
  <2> QED
    BY <1>4, <2>3, <2>4
<1>8. Fresh'
  <2> SUFFICES ASSUME NEW i \in Ids, conn[i] = "new"
               PROVE  view'[i] # "open" /\ ~Has(fs, AnyType, i)
    BY <1>1 DEF Fresh, fs
  <2>1. ~Has(ds, AnyType, i) /\ view[i] # "open"
    BY DEF Fresh, ds
  <2>2. ~Has(fs, AnyType, i) /\ ~Is(ds, 1, AnyType, i)
    BY <1>3, <2>1
  <2>3. ~(e.type = "Connected" /\ e.id = i)
    BY <1>3, <2>2 DEF AnyType
  <2> QED
    BY <1>7, <2>1, <2>2, <2>3
<1>9. BytesKept' /\ BufferFits' /\ DataBeforeEnd' /\ InactiveAlone' /\ BufferOwned'
  BY <1>1, PartsKept
<1>10. EndFollows'
  <2> SUFFICES ASSUME NEW i \in Ids, view'[i] # "closed", ~Live(i), conn[i] # "dropped"
               PROVE  /\ view'[i] = "open" => Has(fs, Ends, i)
                      /\ \A k \in 1..Len(fs) :
                           Is(fs, k, {"Connected"}, i) => EndBehind(fs, k, i)
    <3>1. 1..Len(transport_events) = {}
      BY <1>2, EmptySeq
    <3> QED
      BY <1>1, <3>1 DEF EndFollows, EndQueued, Live, fs
  <2>1. view[i] # "closed"
    BY <1>7
  <2>2. /\ view[i] = "open" => Has(ds, Ends, i)
        /\ \A k \in 1..Len(ds) :
             Is(ds, k, {"Connected"}, i) => EndBehind(ds, k, i)
    BY <1>2, <2>1, NoEvents DEF EndFollows, EndQueued, ds
  <2>3. ASSUME NEW k \in 1..Len(fs), Is(fs, k, {"Connected"}, i)
        PROVE  EndBehind(fs, k, i)
    <3>1. k + 1 \in 1..Len(ds) /\ Is(ds, k + 1, {"Connected"}, i)
      BY <1>3, <2>3
    <3>2. PICK l \in 1..Len(ds) : l > k + 1 /\ Is(ds, l, Ends, i)
      BY <2>2, <3>1 DEF EndBehind
    <3>3. l - 1 \in 1..Len(fs) /\ l - 1 > k /\ (l - 1) + 1 = l
      BY <1>3, <3>2
    <3>4. Is(fs, l - 1, Ends, i)
      BY <1>3, <3>2, <3>3
    <3> QED
      BY <3>3, <3>4 DEF EndBehind
  <2>4. ASSUME view'[i] = "open" PROVE Has(fs, Ends, i)
    <3>1. CASE view'[i] = view[i] /\ ~Is(ds, 1, {"Connected"} \cup Ends, i)
      <4>1. Has(ds, Ends, i) /\ ~Is(ds, 1, Ends, i)
        BY <1>3, <2>2, <2>4, <3>1
      <4> QED
        BY <1>3, <4>1
    <3>2. CASE e.type = "Connected" /\ e.id = i
      <4>1. Is(ds, 1, {"Connected"}, i) /\ 1 \in 1..Len(ds)
        BY <1>3, <3>2
      <4>2. PICK l \in 1..Len(ds) : l > 1 /\ Is(ds, l, Ends, i)
        BY <2>2, <4>1 DEF EndBehind
      <4>3. l - 1 \in 1..Len(fs) /\ (l - 1) + 1 = l
        BY <1>3, <4>2
      <4>4. Is(fs, l - 1, Ends, i)
        BY <1>3, <4>2, <4>3
      <4> QED
        BY <4>4, FoundThere
    <3> QED
      BY <1>7, <2>1, <2>4, <3>1, <3>2
  <2> QED
    BY <2>3, <2>4
<1> QED
  BY <1>5, <1>6, <1>8, <1>9, <1>10

-----------------------------------------------------------------------------
(* The transport reports events.                                           *)

\* The queue after Report(e).
Reported(e) ==
  /\ transport_events' \in Seq(TransportEvent) /\ Len(transport_events) \in Nat
  /\ Len(transport_events') = Len(transport_events) + 1
  /\ \A k \in 1..Len(transport_events) :
       transport_events'[k] = transport_events[k]
  /\ transport_events'[Len(transport_events) + 1] = e
  /\ \A k, types, i : Is(transport_events', k, types, i) <=>
       \/ Is(transport_events, k, types, i)
       \/ k = Len(transport_events) + 1 /\ e.type \in types /\ e.id = i
  /\ \A types, i : Has(transport_events', types, i) <=>
       Has(transport_events, types, i) \/ (e.type \in types /\ e.id = i)
  /\ pc = "fetch" /\ dispatch_events = <<>>
  /\ UNCHANGED <<recv_buffers, pc, dispatch_events, listening, written, frames,
                 view, stream, messages>>

\* What the transport reporting one event changes.
LEMMA ReportEffect ==
  ASSUME Inv, NEW e \in TransportEvent, Report(e)
  PROVE  Reported(e)
<1>1. /\ transport_events \in Seq(TransportEvent) /\ pc = "fetch"
      /\ dispatch_events = <<>>
      /\ transport_events' = Append(transport_events, e)
      /\ UNCHANGED <<recv_buffers, pc, dispatch_events, listening, written,
                     frames, view, stream, messages>>
  BY DEF Report, Inv, Types, Phases
<1> QED
  BY <1>1, EventAppended DEF Reported

\* What is accounted for stays so when an event that is no Data is reported.
LEMMA ReportKeepsBytes ==
  ASSUME Inv, NEW e \in TransportEvent, Reported(e), e.type # "Data",
         UNCHANGED inflight
  PROVE  BytesKept'
<1>1. \A j \in Ids : Has(transport_events', {"Data"}, j) <=>
                       Has(transport_events, {"Data"}, j)
  BY DEF Reported
<1>2. \A j \in Ids : \A k \in 1..Len(transport_events') :
        Is(transport_events', k, {"Data"}, j) =>
          /\ Is(transport_events, k, {"Data"}, j)
          /\ k \in 1..Len(transport_events)
          /\ transport_events'[k] = transport_events[k]
  BY FoundThere DEF Reported
<1>3. UNCHANGED <<written, frames, stream, inflight>>
  BY DEF Reported
<1>4. \A j \in Ids : ~Has(transport_events', {"Data"}, j) => Accounted(j, <<>>)'
  BY <1>1, <1>3 DEF Inv, BytesKept, Accounted
<1> QED
  BY <1>4, <1>2, <1>3 DEF Inv, BytesKept, Accounted

\* The order within a connection stays when the event reported is neither data
\* nor an end of it.
LEMMA OrderKept ==
  ASSUME NEW e, Reported(e), NEW j, NEW old, NEW new,
         e.type \notin {"Data"} \cup Ends \/ e.id # j,
         Ordered(transport_events, j, old),
         new = old \/ (old # "gone" /\ new \in {"connecting", "open"})
  PROVE  Ordered(transport_events', j, new)
<1>1. \A l : Is(transport_events', l, {"Data"}, j) <=>
               Is(transport_events, l, {"Data"}, j)
  BY DEF Reported
<1>2. \A l : Is(transport_events', l, Ends, j) <=>
               Is(transport_events, l, Ends, j)
  BY DEF Reported
<1>3. \A l, types : Is(transport_events, l, types, j) =>
                      /\ l \in 1..Len(transport_events)
                      /\ l \in 1..Len(transport_events')
  BY FoundThere DEF Reported
<1>4. \A k : EndBehind(transport_events, k, j) => EndBehind(transport_events', k, j)
  BY <1>2, <1>3 DEF EndBehind
<1> QED
  BY <1>1, <1>2, <1>3, <1>4 DEF Ordered

\* The ends stay queued when the event reported is not Connected of j.
LEMMA FollowKept ==
  ASSUME NEW e, Reported(e), NEW j, ~(e.type \in {"Connected"} /\ e.id = j),
         EndQueued(transport_events, dispatch_events, j, view[j])
  PROVE  EndQueued(transport_events', dispatch_events', j, view'[j])
<1>1. \A l : Is(transport_events', l, {"Connected"}, j) <=>
               Is(transport_events, l, {"Connected"}, j)
  BY DEF Reported
<1>2. /\ \A l : Is(transport_events, l, Ends, j) => Is(transport_events', l, Ends, j)
      /\ Has(transport_events, Ends, j) => Has(transport_events', Ends, j)
  BY DEF Reported
<1>3. \A l, types : Is(transport_events, l, types, j) =>
                      /\ l \in 1..Len(transport_events)
                      /\ l \in 1..Len(transport_events')
  BY FoundThere DEF Reported
<1>4. \A k : EndBehind(transport_events, k, j) => EndBehind(transport_events', k, j)
  BY <1>2, <1>3 DEF EndBehind
<1>5. dispatch_events' = dispatch_events /\ view' = view
  BY DEF Reported
<1> QED
  BY <1>1, <1>2, <1>3, <1>4, <1>5 DEF EndQueued

\* While a connection is live, or can become so, Inactive is not queued.
LEMMA NoInactive ==
  ASSUME Inv, NEW e, Reported(e), e.type # "Inactive",
         listening \/ \E i \in Ids : Live(i)
  PROVE  InactiveAlone'
<1> SUFFICES ASSUME NEW k \in 1..Len(transport_events'),
                    transport_events'[k].type = "Inactive"
             PROVE  FALSE
  BY DEF InactiveAlone
<1>1. k # Len(transport_events) + 1
  BY DEF Reported
<1>2. k \in 1..Len(transport_events) /\ transport_events[k].type = "Inactive"
  BY <1>1 DEF Reported
<1> QED
  BY <1>2 DEF Inv, InactiveAlone

\* A connection is open.
LEMMA ConnectedStep ==
  ASSUME Inv, NEW i \in Ids, TransportConnected(i)
  PROVE  Inv'
<1> USE DEF Inv
<1> DEFINE e == Event("Connected", i)
<1>1. /\ conn[i] = "connecting" \/ (conn[i] = "new" /\ listening)
      /\ conn' = [conn EXCEPT ![i] = "open"] /\ UNCHANGED inflight
      /\ Report(e)
  BY DEF TransportConnected
<1>2. e \in TransportEvent /\ e.type = "Connected" /\ e.id = i
  BY EventFields DEF Event
<1> HIDE DEF e
<1>3. Reported(e)
  BY <1>1, <1>2, ReportEffect
<1>4. conn'[i] = "open" /\ \A j \in Ids \ {i} : conn'[j] = conn[j]
  BY <1>1 DEF Types
<1>5. Types'
  BY <1>1, <1>3 DEF Types, Reported
<1>6. Phases'
  BY <1>3 DEF Phases, Reported
<1>7. Fresh'
  BY <1>1, <1>2, <1>3, <1>4 DEF Fresh, Reported
<1>8. BytesKept'
  BY <1>1, <1>2, <1>3, ReportKeepsBytes
<1>9. BufferFits'
  <2> SUFFICES ASSUME NEW j \in Ids,
                      conn'[j] = "open" \/ Has(transport_events', {"Data"}, j)
               PROVE  stream[j] = serialize_all(messages[j]) \o Buffer(j)
    BY <1>3 DEF BufferFits, Buffer, Reported
  <2>1. CASE j = i
    <3>1. stream[i] = <<>> /\ messages[i] = <<>> /\ Buffer(i) = <<>>
      BY <1>1 DEF Fresh, Buffer
    <3>2. serialize_all(<<>>) = <<>> /\ <<>> \o <<>> = <<>>
      <4>1. <<>> \in Seq(Serializable) /\ <<>> \in Seq(Bytes)
        BY EmptySeq
      <4> QED
        BY <4>1, SerializeAll, ConcatEmptySeq
    <3> QED
      BY <2>1, <3>1, <3>2
  <2>2. CASE j # i
    <3>1. conn[j] = "open" \/ Has(transport_events, {"Data"}, j)
      BY <1>2, <1>3, <1>4, <2>2 DEF Reported
    <3> QED
      BY <3>1 DEF BufferFits
  <2> QED
    BY <2>1, <2>2
<1>10. DataBeforeEnd'
  <2> SUFFICES ASSUME NEW j \in Ids
               PROVE  Ordered(transport_events', j, conn'[j])
    BY DEF DataBeforeEnd
  <2>1. e.type \notin {"Data"} \cup Ends
    BY <1>2 DEF Ends
  <2>2. \/ conn'[j] = conn[j]
        \/ conn[j] # "gone" /\ conn'[j] \in {"connecting", "open"}
    BY <1>1, <1>4
  <2> QED
    BY <1>3, <2>1, <2>2, OrderKept DEF DataBeforeEnd
<1>11. InactiveAlone'
  <2>1. e.type # "Inactive" /\ (listening \/ Live(i))
    BY <1>1, <1>2 DEF Live
  <2> QED
    BY <1>3, <2>1, NoInactive
<1>12. BufferOwned'
  BY <1>3, <1>4 DEF BufferOwned, Reported, Live, Types
<1>13. EndFollows'
  <2> SUFFICES ASSUME NEW j \in Ids, view'[j] # "closed", ~Live(j)',
                      conn'[j] # "dropped"
               PROVE  EndQueued(transport_events', dispatch_events', j, view'[j])
    BY DEF EndFollows
  <2>1. j # i /\ view[j] # "closed" /\ ~Live(j) /\ conn[j] # "dropped"
    BY <1>3, <1>4 DEF Live, Reported
  <2>2. ~(e.type \in {"Connected"} /\ e.id = j)
    BY <1>2, <2>1
  <2> QED
    BY <1>3, <2>1, <2>2, FollowKept DEF EndFollows
<1> QED
  BY <1>5, <1>6, <1>7, <1>8, <1>9, <1>10, <1>11, <1>12, <1>13

\* A connection ends.
LEMMA EndStep ==
  ASSUME Inv, NEW i \in Ids, TransportFails(i) \/ TransportDisconnected(i)
  PROVE  Inv'
<1> USE DEF Inv
<1>1. PICK e \in TransportEvent :
        /\ e.type \in Ends /\ e.id = i /\ Live(i)
        /\ conn' = [conn EXCEPT ![i] = "gone"] /\ UNCHANGED inflight
        /\ Report(e)
  <2>1. /\ Event("ConnectionFailed", i) \in TransportEvent
        /\ Event("Disconnected", i) \in TransportEvent
    BY EventFields
  <2>2. CASE TransportFails(i)
    BY <2>1, <2>2 DEF TransportFails, Event, Live, Ends
  <2>3. CASE TransportDisconnected(i)
    BY <2>1, <2>3 DEF TransportDisconnected, Event, Live, Ends
  <2> QED
    BY <2>2, <2>3
<1>2. Reported(e) /\ e.type \notin {"Data", "Connected", "Inactive"}
  BY <1>1, ReportEffect DEF Ends
<1>3. conn'[i] = "gone" /\ \A j \in Ids \ {i} : conn'[j] = conn[j]
  BY <1>1 DEF Types
<1>4. Types'
  BY <1>1, <1>2 DEF Types, Reported
<1>5. Phases'
  BY <1>2 DEF Phases, Reported
<1>6. Fresh'
  BY <1>1, <1>2, <1>3 DEF Fresh, Reported
<1>7. BytesKept'
  BY <1>1, <1>2, ReportKeepsBytes
<1>8. BufferFits'
  BY <1>2, <1>3, ZenonT(60) DEF BufferFits, Buffer, Reported
<1>9. DataBeforeEnd'
  <2> SUFFICES ASSUME NEW j \in Ids
               PROVE  Ordered(transport_events', j, conn'[j])
    BY DEF DataBeforeEnd
  <2>1. CASE j # i
    <3>1. e.id # j /\ conn'[j] = conn[j]
      BY <1>1, <1>3, <2>1
    <3> QED
      BY <1>2, <3>1, OrderKept DEF DataBeforeEnd
  <2>2. CASE j = i
    <3> DEFINE n == Len(transport_events)
    <3>1. n \in Nat /\ Len(transport_events') = n + 1
      BY <1>2 DEF Reported
    <3>2. \A l : Is(transport_events', l, {"Data"}, i) <=>
                   Is(transport_events, l, {"Data"}, i)
      BY <1>2 DEF Reported
    <3>3. \A l : Is(transport_events, l, {"Data"}, i) => l \in 1..n
      BY FoundThere
    <3>4. \A l : ~Is(transport_events, l, Ends, i)
      BY <1>1, FoundThere DEF DataBeforeEnd, Ordered, Live
    <3>5. \A l : Is(transport_events', l, Ends, i) <=> l = n + 1
      BY <1>1, <1>2, <3>4 DEF Reported
    <3> HIDE DEF n
    <3>6. \A k \in 1..n : EndBehind(transport_events', k, i)
      BY <3>1, <3>5 DEF EndBehind
    <3>7. \A k, l \in 1..n : Is(transport_events, k, {"Data"}, i)
                             /\ Is(transport_events, l, {"Data"}, i) => l = k
      BY DEF DataBeforeEnd, Ordered, n
    <3>8. \A k \in 1..Len(transport_events') :
            Is(transport_events', k, {"Data"}, i) =>
              /\ \A l \in 1..Len(transport_events') :
                   Is(transport_events', l, {"Data"}, i) => l = k
              /\ EndBehind(transport_events', k, i)
      BY <3>2, <3>3, <3>6, <3>7 DEF n
    <3>9. \A k \in 1..Len(transport_events') :
            Is(transport_events', k, Ends, i) =>
              \A l \in 1..Len(transport_events') : l > k =>
                ~Is(transport_events', l, {"Data"}, i)
      BY <3>1, <3>5
    <3> QED
      BY <1>3, <2>2, <3>8, <3>9 DEF Ordered
  <2> QED
    BY <2>1, <2>2
<1>10. InactiveAlone'
  BY <1>1, <1>2, NoInactive
<1>11. BufferOwned'
  <2> SUFFICES ASSUME NEW j \in DOMAIN recv_buffers
               PROVE  Live(j)' \/ Has(transport_events', Ends, j) \/ conn'[j] = "cut"
    BY <1>2 DEF BufferOwned, Reported
  <2>1. CASE j = i
    BY <1>1, <1>2, <2>1 DEF Reported
  <2>2. CASE j # i
    BY <1>2, <1>3, <2>2 DEF BufferOwned, Reported, Live, Types
  <2> QED
    BY <2>1, <2>2
<1>12. EndFollows'
  <2> SUFFICES ASSUME NEW j \in Ids, view'[j] # "closed", ~Live(j)',
                      conn'[j] # "dropped"
               PROVE  EndQueued(transport_events', dispatch_events', j, view'[j])
    BY DEF EndFollows
  <2>1. CASE j # i
    <3>1. view[j] # "closed" /\ ~Live(j) /\ conn[j] # "dropped"
      BY <1>2, <1>3, <2>1 DEF Live, Reported
    <3> QED
      BY <1>2, <3>1, FollowKept DEF EndFollows
  <2>2. CASE j = i
    <3> DEFINE n == Len(transport_events)
    <3>1. n \in Nat /\ Len(transport_events') = n + 1
          /\ Is(transport_events', n + 1, Ends, i)
          /\ Has(transport_events', Ends, i)
      BY <1>1, <1>2 DEF Reported
    <3>2. \A k : Is(transport_events', k, {"Connected"}, i) => k \in 1..n
      BY <1>2, FoundThere DEF Reported
    <3> HIDE DEF n
    <3>3. \A k \in 1..n : EndBehind(transport_events', k, i)
      BY <3>1 DEF EndBehind
    <3> QED
      BY <2>2, <3>1, <3>2, <3>3 DEF EndQueued
  <2> QED
    BY <2>1, <2>2
<1> QED
  BY <1>4, <1>5, <1>6, <1>7, <1>8, <1>9, <1>10, <1>11, <1>12

\* Data arrives.
LEMMA DataStep ==
  ASSUME Inv, NEW i \in Ids, NEW n \in 1..Len(inflight[i]), TransportData(i, n)
  PROVE  Inv'
<1> USE DEF Inv
<1> DEFINE f == inflight[i]
           d == SubSeq(f, 1, n)
           g == From(f, n)
           e == [type |-> "Data", id |-> i, data |-> d]
<1>1. /\ conn[i] = "open" /\ ~Has(transport_events, {"Data"}, i)
      /\ inflight' = [inflight EXCEPT ![i] = g] /\ UNCHANGED conn
      /\ Report(e)
  BY DEF TransportData, HasData, Has, Is
<1>2. d \in Seq(Bytes) /\ g \in Seq(Bytes) /\ d \o g = f /\ f \in Seq(Bytes)
  <2>1. f \in Seq(Bytes) /\ Len(f) \in Nat
    BY LenProperties DEF Types
  <2> HIDE DEF f
  <2>2. n \in 0..Len(f)
    BY <2>1 DEF f
  <2> QED
    BY <2>1, <2>2, SplitAt DEF From
<1> HIDE DEF d, g, f
<1>3. e \in TransportEvent /\ e.type = "Data" /\ e.id = i /\ e.data = d
  BY <1>2, EventFields
<1> HIDE DEF e
<1>4. Reported(e)
  BY <1>1, <1>3, ReportEffect
<1>5. inflight'[i] = g /\ \A j \in Ids \ {i} : inflight'[j] = inflight[j]
  BY <1>1 DEF Types
<1>6. Types'
  <2>1. inflight' \in [Ids -> Seq(Bytes)]
    BY <1>1, <1>2 DEF Types
  <2> QED
    BY <1>1, <1>4, <2>1 DEF Types, Reported
<1>7. Phases'
  BY <1>4 DEF Phases, Reported
<1>8. Fresh'
  BY <1>1, <1>3, <1>4, <1>5 DEF Fresh, Reported
<1>9. BytesKept'
  <2>1. UNCHANGED <<written, frames, stream>>
    BY <1>4 DEF Reported
  <2>2. ASSUME NEW j \in Ids, ~Has(transport_events', {"Data"}, j)
        PROVE  Accounted(j, <<>>)'
    <3>1. j # i /\ ~Has(transport_events, {"Data"}, j)
      BY <1>3, <1>4, <2>2 DEF Reported
    <3> QED
      BY <1>5, <2>1, <3>1 DEF BytesKept, Accounted
  <2>4. ASSUME NEW j \in Ids, NEW k \in 1..Len(transport_events'),
               Is(transport_events', k, {"Data"}, j)
        PROVE  AddUp(written[j], frames[j].clean, stream[j],
                     transport_events'[k].data, inflight'[j])
    <3>1. CASE j # i
      <4>1. Is(transport_events, k, {"Data"}, j) /\ k \in 1..Len(transport_events)
            /\ transport_events'[k] = transport_events[k]
        BY <1>3, <1>4, <2>4, <3>1, FoundThere DEF Reported
      <4> QED
        BY <1>5, <3>1, <4>1 DEF BytesKept, Accounted
    <3>2. CASE j = i
      <4>1. ~Is(transport_events, k, {"Data"}, j)
        BY <1>1, <3>2, FoundThere
      <4>2. transport_events'[k] = e
        BY <1>4, <2>4, <4>1 DEF Reported
      <4>3. Accounted(i, <<>>)
        BY <1>1 DEF BytesKept
      <4>4. <<>> \o f = d \o g
        BY <1>2, ConcatEmptySeq
      <4>5. AddUp(written[i], frames[i].clean, stream[i], d, g)
        BY <4>3, <4>4 DEF Accounted, AddUp, f
      <4> QED
        BY <1>3, <1>5, <3>2, <4>2, <4>5
    <3> QED
      BY <3>1, <3>2
  <2> QED
    BY <2>1, <2>2, <2>4 DEF BytesKept, Accounted
<1>10. BufferFits'
  <2> SUFFICES ASSUME NEW j \in Ids,
                      conn'[j] = "open" \/ Has(transport_events', {"Data"}, j)
               PROVE  stream[j] = serialize_all(messages[j]) \o Buffer(j)
    BY <1>4 DEF BufferFits, Buffer, Reported
  <2>1. conn[j] = "open" \/ Has(transport_events, {"Data"}, j)
    BY <1>1, <1>3, <1>4 DEF Reported
  <2> QED
    BY <2>1 DEF BufferFits
<1>11. DataBeforeEnd'
  <2> SUFFICES ASSUME NEW j \in Ids
               PROVE  Ordered(transport_events', j, conn'[j])
    BY DEF DataBeforeEnd
  <2>1. CASE j # i
    BY <1>1, <1>3, <1>4, <2>1, OrderKept DEF DataBeforeEnd
  <2>2. CASE j = i
    <3> DEFINE m == Len(transport_events) + 1
    <3>1. \A l : Is(transport_events', l, {"Data"}, i) <=> l = m
      BY <1>1, <1>3, <1>4, FoundThere DEF Reported
    <3>2. \A l : ~Is(transport_events', l, Ends, i)
      <4>1. \A l : ~Is(transport_events, l, Ends, i)
        BY <1>1, FoundThere DEF DataBeforeEnd, Ordered
      <4> QED
        BY <1>3, <1>4, <4>1 DEF Reported, Ends
    <3> QED
      BY <1>1, <2>2, <3>1, <3>2 DEF Ordered
  <2> QED
    BY <2>1, <2>2
<1>12. InactiveAlone'
  <2>1. Live(i) /\ e.type # "Inactive"
    BY <1>1, <1>3 DEF Live
  <2> QED
    BY <1>4, <2>1, NoInactive
<1>13. BufferOwned'
  BY <1>1, <1>4 DEF BufferOwned, Reported, Live
<1>14. EndFollows'
  <2> SUFFICES ASSUME NEW j \in Ids, view'[j] # "closed", ~Live(j)',
                      conn'[j] # "dropped"
               PROVE  EndQueued(transport_events', dispatch_events', j, view'[j])
    BY DEF EndFollows
  <2>1. view[j] # "closed" /\ ~Live(j) /\ conn[j] # "dropped"
        /\ e.type \notin {"Connected"}
    BY <1>1, <1>3, <1>4 DEF Live, Reported
  <2> QED
    BY <1>4, <2>1, FollowKept DEF EndFollows
<1> QED
  BY <1>6, <1>7, <1>8, <1>9, <1>10, <1>11, <1>12, <1>13, <1>14

\* Nothing is left.
LEMMA InactiveStep ==
  ASSUME Inv, TransportInactive
  PROVE  Inv'
<1> USE DEF Inv
<1> DEFINE e == [type |-> "Inactive"]
<1>1. /\ ~listening /\ transport_events = <<>> /\ \A i \in Ids : ~Live(i)
      /\ UNCHANGED <<conn, inflight>> /\ Report(e)
  BY DEF TransportInactive
<1>2. e \in TransportEvent /\ e.type = "Inactive"
  BY EventFields
<1> HIDE DEF e
<1>3. Reported(e)
  BY <1>1, <1>2, ReportEffect
<1>4. Types'
  BY <1>1, <1>3 DEF Types, Reported
<1>5. Phases'
  BY <1>3 DEF Phases, Reported
<1>6. \A types, j : "Inactive" \notin types =>
        /\ Has(transport_events', types, j) <=> Has(transport_events, types, j)
        /\ \A k : Is(transport_events', k, types, j) <=>
                    Is(transport_events, k, types, j)
  BY <1>2, <1>3 DEF Reported
<1>7. "Inactive" \notin {"Data"} /\ "Inactive" \notin AnyType
      /\ "Inactive" \notin Ends /\ "Inactive" \notin {"Connected"}
  BY DEF AnyType, Ends
<1>8. Fresh'
  BY <1>1, <1>3, <1>6, <1>7 DEF Fresh, Reported
<1>9. BytesKept'
  BY <1>1, <1>2, <1>3, ReportKeepsBytes
<1>10. BufferFits'
  BY <1>1, <1>3, <1>6, <1>7 DEF BufferFits, Buffer, Reported
<1>11. DataBeforeEnd'
  <2>1. e.type \notin {"Data"} \cup Ends
    BY <1>2, <1>7
  <2> QED
    BY <1>1, <1>3, <2>1, OrderKept DEF DataBeforeEnd
<1>12. InactiveAlone'
  <2>1. Len(transport_events') = 1
    BY <1>1, <1>3, EmptySeq DEF Reported
  <2> QED
    BY <1>1, <1>3, <2>1 DEF InactiveAlone, Live, Reported
<1>13. BufferOwned'
  BY <1>1, <1>3, <1>6, <1>7 DEF BufferOwned, Live, Reported
<1>14. EndFollows'
  <2> SUFFICES ASSUME NEW j \in Ids, view'[j] # "closed", ~Live(j)',
                      conn'[j] # "dropped"
               PROVE  EndQueued(transport_events', dispatch_events', j, view'[j])
    BY DEF EndFollows
  <2>1. view[j] # "closed" /\ ~Live(j) /\ conn[j] # "dropped"
        /\ e.type \notin {"Connected"}
    BY <1>1, <1>2, <1>3 DEF Live, Reported
  <2> QED
    BY <1>3, <2>1, FollowKept DEF EndFollows
<1> QED
  BY <1>4, <1>5, <1>8, <1>9, <1>10, <1>11, <1>12, <1>13, <1>14

-----------------------------------------------------------------------------
(* The loop over the events.                                               *)

\* The queue after Handle, whose event is e.
Taken(e) ==
  /\ transport_events' \in Seq(TransportEvent) /\ e \in TransportEvent
  /\ Len(transport_events) \in Nat \ {0}
  /\ Len(transport_events') = Len(transport_events) - 1
  /\ e = transport_events[1]
  /\ \A k \in 1..Len(transport_events') :
       transport_events'[k] = transport_events[k + 1]
  /\ \A k \in 1..Len(transport_events') : \A types, i :
       Is(transport_events', k, types, i) <=> Is(transport_events, k + 1, types, i)
  /\ \A types, i : Is(transport_events, 1, types, i) <=>
       e.type \in types /\ e.id = i
  /\ \A types, i : Has(transport_events, types, i) <=>
       Has(transport_events', types, i) \/ (e.type \in types /\ e.id = i)
  /\ pc = "process"
  /\ UNCHANGED <<pc, listening, inflight, written, frames, view>>

\* What handling one transport event changes in the queue.
LEMMA HandleEffect ==
  ASSUME Inv, NEW types, Handle(types)
  PROVE  Taken(Head(transport_events)) /\ Head(transport_events).type \in types
<1>1. /\ transport_events \in Seq(TransportEvent) /\ pc = "process"
      /\ transport_events # <<>> /\ Head(transport_events).type \in types
      /\ transport_events' = Tail(transport_events)
      /\ UNCHANGED <<pc, listening, inflight, written, frames, view>>
  BY DEF Handle, Inv, Types
<1> DEFINE es == transport_events
           fs == Tail(transport_events)
<1>2. /\ fs \in Seq(TransportEvent) /\ Len(fs) = Len(es) - 1
      /\ Len(es) \in Nat \ {0} /\ Head(es) \in TransportEvent /\ Head(es) = es[1]
      /\ \A k \in 1..Len(fs) : fs[k] = es[k + 1]
      /\ \A k \in 1..Len(fs) : \A ts, i : Is(fs, k, ts, i) <=> Is(es, k + 1, ts, i)
      /\ \A ts, i : Is(es, 1, ts, i) <=> Head(es).type \in ts /\ Head(es).id = i
      /\ \A ts, i : Has(es, ts, i) <=> Has(fs, ts, i) \/ Is(es, 1, ts, i)
  BY <1>1, EventRemoved
<1>3. \A ts, i : Has(es, ts, i) <=>
        Has(fs, ts, i) \/ (Head(es).type \in ts /\ Head(es).id = i)
  BY <1>2
<1>4. transport_events' = fs
  BY <1>1
<1> HIDE DEF fs
<1> QED
  <2> DEFINE ts == transport_events'
  <2>1. /\ ts \in Seq(TransportEvent) /\ Head(es) \in TransportEvent
        /\ Len(es) \in Nat \ {0} /\ Len(ts) = Len(es) - 1 /\ Head(es) = es[1]
        /\ pc = "process"
        /\ UNCHANGED <<pc, listening, inflight, written, frames, view>>
        /\ Head(es).type \in types
    BY <1>1, <1>2, <1>4
  <2>2. \A k \in 1..Len(ts) : ts[k] = es[k + 1]
    BY <1>2, <1>4
  <2>3. \A k \in 1..Len(ts) : \A us, i : Is(ts, k, us, i) <=> Is(es, k + 1, us, i)
    BY <1>2, <1>4
  <2>4. /\ \A us, i : Is(es, 1, us, i) <=> Head(es).type \in us /\ Head(es).id = i
        /\ \A us, i : Has(es, us, i) <=>
             Has(ts, us, i) \/ (Head(es).type \in us /\ Head(es).id = i)
    BY <1>2, <1>3, <1>4
  <2> QED
    BY <2>1, <2>2, <2>3, <2>4, Zenon DEF Taken

\* What is behind the first event stays.
LEMMA EndsShift ==
  ASSUME NEW e, Taken(e), NEW j
  PROVE  /\ \A k \in 1..Len(transport_events') :
              EndBehind(transport_events, k + 1, j) =>
                EndBehind(transport_events', k, j)
         /\ EndBehind(transport_events, 1, j) => Has(transport_events', Ends, j)
<1>1. ASSUME NEW k \in Nat, EndBehind(transport_events, k + 1, j)
      PROVE  \E l \in 1..Len(transport_events') :
               l > k /\ Is(transport_events', l, Ends, j)
  <2>1. PICK m \in 1..Len(transport_events) :
          m > k + 1 /\ Is(transport_events, m, Ends, j)
    BY <1>1 DEF EndBehind
  <2>2. m - 1 \in 1..Len(transport_events') /\ m - 1 > k /\ (m - 1) + 1 = m
    BY <2>1 DEF Taken
  <2>3. Is(transport_events', m - 1, Ends, j)
    BY <2>1, <2>2 DEF Taken
  <2> QED
    BY <2>2, <2>3
<1>2. \A k \in 1..Len(transport_events') :
        EndBehind(transport_events, k + 1, j) => EndBehind(transport_events', k, j)
  BY <1>1 DEF EndBehind
<1>3. EndBehind(transport_events, 1, j) => Has(transport_events', Ends, j)
  <2>1. 0 \in Nat /\ 0 + 1 = 1
    OBVIOUS
  <2> QED
    BY <1>1, <2>1 DEF Has
<1> QED
  BY <1>2, <1>3

\* Handling an event leaves the bytes of other connections accounted for.
LEMMA TakenBytes ==
  ASSUME Inv, NEW e, Taken(e), NEW j \in Ids, stream'[j] = stream[j],
         ~(e.type \in {"Data"} /\ e.id = j)
  PROVE  /\ ~Has(transport_events', {"Data"}, j) => Accounted(j, <<>>)'
         /\ \A k \in 1..Len(transport_events') :
              Is(transport_events', k, {"Data"}, j) =>
                Accounted(j, transport_events[k].data)'
<1>1. \A k \in 1..Len(transport_events') : k + 1 \in 1..Len(transport_events)
  BY DEF Taken
<1>2. \A d : Accounted(j, d) => AddUp(written'[j], frames'[j].clean, stream'[j], d,
                                     inflight'[j])
  BY DEF Accounted, Taken
<1>3. ~Has(transport_events', {"Data"}, j) => Accounted(j, <<>>)'
  BY <1>2 DEF Inv, BytesKept, Taken, Accounted
<1>4. ASSUME NEW k \in 1..Len(transport_events'), Is(transport_events', k, {"Data"}, j)
      PROVE  AddUp(written'[j], frames'[j].clean, stream'[j],
                   transport_events'[k].data, inflight'[j])
  <2>1. /\ Is(transport_events, k + 1, {"Data"}, j)
        /\ transport_events'[k] = transport_events[k + 1]
    BY <1>4 DEF Taken
  <2> QED
    BY <1>1, <1>2, <2>1 DEF Inv, BytesKept
<1> QED
  BY <1>3, <1>4 DEF Accounted

\* Handling an event keeps the order of the events left in the queue.
LEMMA TakenOrder ==
  ASSUME NEW e, Taken(e), NEW j, NEW status, Ordered(transport_events, j, status)
  PROVE  Ordered(transport_events', j, status)
<1> SUFFICES ASSUME NEW k \in 1..Len(transport_events')
             PROVE  /\ Is(transport_events', k, {"Data"}, j) =>
                         /\ \A l \in 1..Len(transport_events') :
                              Is(transport_events', l, {"Data"}, j) => l = k
                         /\ \/ status \in {"connecting", "open"}
                            \/ EndBehind(transport_events', k, j)
                    /\ Is(transport_events', k, Ends, j) =>
                         /\ status = "gone"
                         /\ \A l \in 1..Len(transport_events') : l > k =>
                              ~Is(transport_events', l, {"Data"}, j)
  BY DEF Ordered
<1>1. \A l \in 1..Len(transport_events') :
        /\ l + 1 \in 1..Len(transport_events)
        /\ \A types : Is(transport_events', l, types, j) =>
                        Is(transport_events, l + 1, types, j)
  BY DEF Taken
<1>2. ASSUME Is(transport_events', k, {"Data"}, j)
      PROVE  /\ \A l \in 1..Len(transport_events') :
                  Is(transport_events', l, {"Data"}, j) => l = k
             /\ \/ status \in {"connecting", "open"}
                \/ EndBehind(transport_events', k, j)
  <2>1. Is(transport_events, k + 1, {"Data"}, j)
        /\ k + 1 \in 1..Len(transport_events)
    BY <1>1, <1>2
  <2>2. ASSUME NEW l \in 1..Len(transport_events'),
               Is(transport_events', l, {"Data"}, j)
        PROVE  l = k
    <3>1. l + 1 = k + 1
      BY <1>1, <2>1, <2>2 DEF Ordered
    <3> QED
      BY <3>1
  <2>3. \/ status \in {"connecting", "open"}
        \/ EndBehind(transport_events, k + 1, j)
    BY <2>1 DEF Ordered
  <2> QED
    BY <2>2, <2>3, EndsShift
<1>3. ASSUME Is(transport_events', k, Ends, j)
      PROVE  /\ status = "gone"
             /\ \A l \in 1..Len(transport_events') : l > k =>
                  ~Is(transport_events', l, {"Data"}, j)
  <2>1. Is(transport_events, k + 1, Ends, j) /\ k + 1 \in 1..Len(transport_events)
    BY <1>1, <1>3
  <2>2. ASSUME NEW l \in 1..Len(transport_events'), l > k,
               Is(transport_events', l, {"Data"}, j)
        PROVE  FALSE
    <3>1. l + 1 > k + 1
      BY <2>2
    <3> QED
      BY <1>1, <2>1, <2>2, <3>1 DEF Ordered
  <2> QED
    BY <2>1, <2>2 DEF Ordered
<1> QED
  BY <1>2, <1>3

\* Handling an event leaves no Inactive event behind another.
LEMMA TakenInactive ==
  ASSUME Inv, NEW e, Taken(e)
  PROVE  InactiveAlone'
<1> SUFFICES ASSUME NEW k \in 1..Len(transport_events'),
                    transport_events'[k].type = "Inactive"
             PROVE  FALSE
  BY DEF InactiveAlone
<1>1. k + 1 \in 1..Len(transport_events) /\ k + 1 > 1
      /\ transport_events[k + 1].type = "Inactive"
  BY DEF Taken
<1>2. Len(transport_events) = 1
  BY <1>1 DEF Inv, InactiveAlone
<1> QED
  BY <1>1, <1>2

\* Ends stay queued when the event moves from one queue to the other.
LEMMA TakenFollow ==
  ASSUME NEW e, Taken(e), NEW j, NEW known, NEW ds, NEW fs,
         Len(ds) \in Nat, Len(fs) \in Nat, Len(fs) >= Len(ds),
         EndQueued(transport_events, ds, j, known),
         \A types : \A k \in 1..Len(ds) : Is(fs, k, types, j) <=> Is(ds, k, types, j),
         \A k \in 1..Len(fs) : Is(fs, k, {"Connected"}, j) =>
           k \in 1..Len(ds) \/ (e.type \in {"Connected"} /\ e.id = j),
         e.type \in Ends /\ e.id = j => EndBehind(fs, Len(ds), j)
  PROVE  EndQueued(transport_events', fs, j, known)
<1>1. Has(transport_events, Ends, j) =>
        Has(transport_events', Ends, j) \/ EndBehind(fs, Len(ds), j)
  BY DEF Taken
<1>2. \A k \in 1..Len(ds) : k \in 1..Len(fs)
  OBVIOUS
<1>3. \A k : EndBehind(ds, k, j) => EndBehind(fs, k, j)
  BY <1>2 DEF EndBehind
<1>4. \A k \in 1..Len(ds) : EndBehind(fs, Len(ds), j) => EndBehind(fs, k, j)
  BY DEF EndBehind
<1>5. \A k : EndBehind(fs, k, j) => Has(fs, Ends, j)
  BY DEF EndBehind, Has
<1>6. Has(ds, Ends, j) => Has(fs, Ends, j)
  BY <1>2 DEF Has
<1>7. known = "open" => Has(transport_events', Ends, j) \/ Has(fs, Ends, j)
  BY <1>1, <1>5, <1>6 DEF EndQueued
<1>8. ASSUME NEW k \in 1..Len(transport_events'),
             Is(transport_events', k, {"Connected"}, j)
      PROVE  EndBehind(transport_events', k, j)
  <2>1. k + 1 \in 1..Len(transport_events)
        /\ Is(transport_events, k + 1, {"Connected"}, j)
    BY <1>8 DEF Taken
  <2> QED
    BY <2>1, EndsShift DEF EndQueued
<1>9. ASSUME NEW k \in 1..Len(fs), Is(fs, k, {"Connected"}, j)
      PROVE  Has(transport_events', Ends, j) \/ EndBehind(fs, k, j)
  <2>1. CASE k \in 1..Len(ds)
    <3>1. Has(transport_events, Ends, j) \/ EndBehind(ds, k, j)
      BY <1>9, <2>1 DEF EndQueued
    <3> QED
      BY <1>1, <1>3, <1>4, <2>1, <3>1
  <2>2. CASE e.type \in {"Connected"} /\ e.id = j
    <3>1. Is(transport_events, 1, {"Connected"}, j) /\ 1 \in 1..Len(transport_events)
      BY <2>2 DEF Taken
    <3> QED
      BY <3>1, EndsShift DEF EndQueued
  <2> QED
    BY <1>9, <2>1, <2>2
<1> QED
  BY <1>7, <1>8, <1>9 DEF EndQueued

\* An event is passed on; the buffers of S, which will see no more data, go.
LEMMA PassStep ==
  ASSUME Inv, NEW e, Taken(e), e.type # "Data", NEW S,
         dispatch_events' = Append(dispatch_events, e),
         DOMAIN recv_buffers' = DOMAIN recv_buffers \ S,
         \A j \in DOMAIN recv_buffers' : recv_buffers'[j] = recv_buffers[j],
         UNCHANGED <<conn, stream, messages>>,
         \A j \in Ids \cap S :
           conn[j] # "open" /\ ~Has(transport_events', {"Data"}, j),
         \A j \in Ids \ S : ~(e.type \in Ends /\ e.id = j)
  PROVE  Inv'
<1> USE DEF Inv
<1>1. e \in DispatchEvent /\ dispatch_events \in Seq(DispatchEvent)
  BY EventFields DEF Taken, Types
<1>2. /\ dispatch_events' \in Seq(DispatchEvent)
      /\ Len(dispatch_events') = Len(dispatch_events) + 1
      /\ Len(dispatch_events) \in Nat
      /\ \A k, types, i : Is(dispatch_events', k, types, i) <=>
           \/ Is(dispatch_events, k, types, i)
           \/ k = Len(dispatch_events) + 1 /\ e.type \in types /\ e.id = i
      /\ \A types, i : Has(dispatch_events', types, i) <=>
           Has(dispatch_events, types, i) \/ (e.type \in types /\ e.id = i)
  BY <1>1, EventAppended
<1>3. \A types, j : Has(transport_events', types, j) => Has(transport_events, types, j)
  BY DEF Taken
<1>4. \A j \in Ids : Buffer(j)' = IF j \in S THEN <<>> ELSE Buffer(j)
  BY DEF Buffer
<1>5. Types'
  BY <1>2 DEF Types, Taken
<1>6. Phases'
  BY DEF Phases, Taken
<1>7. Fresh'
  <2> SUFFICES ASSUME NEW j \in Ids
               PROVE  /\ conn[j] \in {"new", "connecting"} =>
                           /\ j \notin DOMAIN recv_buffers'
                           /\ ~Has(transport_events', {"Data"}, j)
                      /\ conn[j] = "new" =>
                           /\ ~Has(transport_events', AnyType, j)
                           /\ ~Has(dispatch_events', AnyType, j)
    BY DEF Fresh, Taken
  <2>1. e.type \in AnyType /\ e.id = j => Has(transport_events, AnyType, j)
    BY DEF Taken
  <2> QED
    BY <1>2, <1>3, <2>1 DEF Fresh
<1>8. BytesKept'
  <2>1. \A j \in Ids : stream'[j] = stream[j] /\ ~(e.type \in {"Data"} /\ e.id = j)
    OBVIOUS
  <2> QED
    BY <2>1, TakenBytes DEF BytesKept
<1>9. BufferFits'
  <2> SUFFICES ASSUME NEW j \in Ids
               PROVE  /\ deserialize_message(Buffer(j)').kind = "none"
                      /\ conn[j] = "open" \/ Has(transport_events', {"Data"}, j) =>
                           stream[j] = serialize_all(messages[j]) \o Buffer(j)'
    BY DEF BufferFits
  <2>1. deserialize_message(<<>>).kind = "none"
    BY EmptySeq DEF deserialize_message, None, WORD
  <2>2. CASE j \in S
    BY <1>4, <2>1, <2>2
  <2>3. CASE j \notin S
    BY <1>3, <1>4, <2>3 DEF BufferFits
  <2> QED
    BY <2>2, <2>3
<1>10. DataBeforeEnd'
  BY TakenOrder DEF DataBeforeEnd
<1>11. InactiveAlone'
  BY TakenInactive
<1>12. BufferOwned'
  <2> SUFFICES ASSUME NEW j \in DOMAIN recv_buffers, j \notin S
               PROVE  Live(j) \/ Has(transport_events', Ends, j) \/ conn[j] = "cut"
    BY DEF BufferOwned, Live
  <2>1. j \in Ids
    BY DEF Types
  <2> QED
    BY <2>1 DEF BufferOwned, Taken
<1>13. EndFollows'
  <2> SUFFICES ASSUME NEW j \in Ids, view[j] # "closed", ~Live(j), conn[j] # "dropped"
               PROVE  EndQueued(transport_events', dispatch_events', j, view[j])
    BY DEF EndFollows, Live, Taken
  <2> DEFINE ds == dispatch_events
             fs == dispatch_events'
             n == Len(ds)
  <2>1. n \in Nat /\ Len(fs) = n + 1 /\ EndQueued(transport_events, ds, j, view[j])
    BY <1>2 DEF EndFollows
  <2>2. \A types : \A k \in 1..n : Is(fs, k, types, j) <=> Is(ds, k, types, j)
    BY <1>2
  <2>3. \A k \in 1..Len(fs) : Is(fs, k, {"Connected"}, j) =>
          k \in 1..n \/ (e.type \in {"Connected"} /\ e.id = j)
    BY <1>2, FoundThere
  <2>4. e.type \in Ends /\ e.id = j => EndBehind(fs, n, j)
    BY <1>2 DEF EndBehind
  <2> HIDE DEF ds, fs, n
  <2>5. Len(ds) = n /\ Len(fs) \in Nat /\ Len(fs) >= Len(ds)
    BY <2>1 DEF n
  <2>6. EndQueued(transport_events', fs, j, view[j])
    BY <2>1, <2>2, <2>3, <2>4, <2>5, TakenFollow
  <2> QED
    BY <2>6 DEF fs
<1> QED
  BY <1>5, <1>6, <1>7, <1>8, <1>9, <1>10, <1>11, <1>12, <1>13

\* Events other than data.
LEMMA PassSteps ==
  ASSUME Inv, HandleInactive \/ HandleConnected \/ HandleEnd
  PROVE  Inv'
<1> DEFINE e == Head(transport_events)
<1>1. CASE HandleInactive
  <2>1. /\ Taken(e) /\ e.type = "Inactive"
        /\ dispatch_events' = Append(dispatch_events, e)
        /\ recv_buffers' = Without(recv_buffers, DOMAIN recv_buffers)
        /\ UNCHANGED <<conn, stream, messages>>
    BY <1>1, HandleEffect DEF HandleInactive
  <2> HIDE DEF e
  <2>2. Len(transport_events) = 1 /\ \A j \in Ids : ~Live(j)
    BY <2>1 DEF Inv, InactiveAlone, Taken
  <2>3. \A j : ~Has(transport_events', {"Data"}, j)
    BY <2>1, <2>2 DEF Taken, Has
  <2>4. \A j \in Ids : conn[j] # "open" /\ ~(e.type \in Ends /\ e.id = j)
    BY <2>1, <2>2 DEF Live, Ends
  <2> QED
    BY <2>1, <2>3, <2>4, PassStep DEF Without, Restrict
<1>2. CASE HandleConnected
  <2>1. /\ Taken(e) /\ e.type = "Connected"
        /\ dispatch_events' = Append(dispatch_events, e)
        /\ UNCHANGED <<recv_buffers, conn, stream, messages>>
    BY <1>2, HandleEffect DEF HandleConnected
  <2> HIDE DEF e
  <2>2. e.type # "Data" /\ \A j \in Ids \ {} : ~(e.type \in Ends /\ e.id = j)
    BY <2>1 DEF Ends
  <2>3. DOMAIN recv_buffers' = DOMAIN recv_buffers \ {}
        /\ \A j \in DOMAIN recv_buffers' : recv_buffers'[j] = recv_buffers[j]
    BY <2>1
  <2>4. \A j \in Ids \cap {} :
          conn[j] # "open" /\ ~Has(transport_events', {"Data"}, j)
    OBVIOUS
  <2> QED
    BY <2>1, <2>2, <2>3, <2>4, PassStep
<1>3. CASE HandleEnd
  <2>1. /\ Taken(e) /\ e.type \in Ends
        /\ dispatch_events' = Append(dispatch_events, e)
        /\ recv_buffers' = Without(recv_buffers, {e.id})
        /\ UNCHANGED <<conn, stream, messages>>
    BY <1>3, HandleEffect DEF HandleEnd, Ends
  <2> HIDE DEF e
  <2>2. e.type # "Data" /\ e.type # "Inactive" /\ e.id \in Ids
    BY <2>1, EventFields DEF Ends, Taken
  <2>3. Is(transport_events, 1, Ends, e.id) /\ 1 \in 1..Len(transport_events)
    BY <2>1 DEF Taken
  <2>4. conn[e.id] = "gone" /\ \A l \in 1..Len(transport_events) :
          l > 1 => ~Is(transport_events, l, {"Data"}, e.id)
    BY <2>2, <2>3 DEF Inv, DataBeforeEnd, Ordered
  <2>5. ~Has(transport_events', {"Data"}, e.id)
    <3> SUFFICES ASSUME NEW k \in 1..Len(transport_events'),
                        Is(transport_events', k, {"Data"}, e.id)
                 PROVE  FALSE
      BY DEF Has
    <3>1. k + 1 \in 1..Len(transport_events) /\ k + 1 > 1
          /\ Is(transport_events, k + 1, {"Data"}, e.id)
      BY <2>1 DEF Taken
    <3> QED
      BY <2>4, <3>1
  <2>6. DOMAIN recv_buffers' = DOMAIN recv_buffers \ {e.id}
        /\ \A j \in DOMAIN recv_buffers' : recv_buffers'[j] = recv_buffers[j]
    BY <2>1 DEF Without, Restrict
  <2> QED
    BY <2>1, <2>2, <2>4, <2>5, <2>6, PassStep
<1> QED
  BY <1>1, <1>2, <1>3

\* Message events at the end of a queue.
MessagesAdded(es, fs, i) ==
  /\ fs \in Seq(DispatchEvent) /\ Len(es) \in Nat /\ Len(fs) \in Nat
  /\ Len(fs) >= Len(es)
  /\ \A k \in 1..Len(es) : \A types, j :
       Is(fs, k, types, j) <=> Is(es, k, types, j)
  /\ \A k \in 1..Len(fs) : \A types, j : Is(fs, k, types, j) =>
       k \in 1..Len(es) \/ ("Message" \in types /\ i = j)

\* What the messages of one Data event add to the events of the application.
LEMMA MessagesAppended ==
  ASSUME NEW es \in Seq(DispatchEvent), NEW n \in Nat, NEW i \in Ids, NEW fs,
         fs = es \o [k \in 1..n |-> Event("Message", i)]
  PROVE  MessagesAdded(es, fs, i)
<1> DEFINE ms == [k \in 1..n |-> Event("Message", i)]
<1>0. fs = es \o ms
  OBVIOUS
<1>1. ms \in Seq(DispatchEvent) /\ Len(ms) = n
      /\ \A k \in 1..n : ms[k].type = "Message" /\ ms[k].id = i
  <2>1. Event("Message", i) \in DispatchEvent /\ Event("Message", i).type = "Message"
        /\ Event("Message", i).id = i
    BY EventFields DEF Event
  <2>2. ms \in Seq(DispatchEvent)
    BY <2>1, IsASeq
  <2> QED
    BY <2>1, <2>2, LenProperties
<1> HIDE DEF ms
<1>2. /\ fs \in Seq(DispatchEvent) /\ Len(fs) = Len(es) + n
      /\ \A k \in 1..Len(es) : fs[k] = es[k]
      /\ \A k \in 1..n : fs[Len(es) + k] = ms[k]
  <2>1. ms \in Seq(DispatchEvent)
    BY <1>1
  <2>2. /\ es \o ms \in Seq(DispatchEvent) /\ Len(es \o ms) = Len(es) + Len(ms)
        /\ \A k \in 1..Len(es) : (es \o ms)[k] = es[k]
        /\ \A k \in 1..Len(ms) : (es \o ms)[Len(es) + k] = ms[k]
    BY <2>1, ConcatParts
  <2> QED
    BY <1>0, <1>1, <2>2
<1>3. Len(es) \in Nat
  BY LenProperties
<1>4. \A k \in 1..Len(es) : k \in 1..Len(fs)
  BY <1>2, <1>3
<1>5. \A k \in 1..Len(es) : \A types, j : Is(fs, k, types, j) <=> Is(es, k, types, j)
  BY <1>2, <1>4 DEF Is
<1>6. ASSUME NEW k \in 1..Len(fs), NEW types, NEW j, Is(fs, k, types, j),
             k \notin 1..Len(es)
      PROVE  "Message" \in types /\ i = j
  <2> DEFINE l == k - Len(es)
  <2>1. l \in 1..n /\ Len(es) + l = k
    BY <1>2, <1>3, <1>6
  <2> HIDE DEF l
  <2>2. fs[k] = ms[l]
    BY <1>2, <2>1
  <2> QED
    BY <1>1, <1>6, <2>1, <2>2 DEF Is
<1>7. Len(fs) \in Nat /\ Len(fs) >= Len(es)
  BY <1>2, <1>3
<1> QED
  BY <1>2, <1>3, <1>5, <1>6, <1>7 DEF MessagesAdded

\* The bytes of a Data event become part of the stream.
LEMMA DataTaken ==
  ASSUME NEW w, NEW clean, NEW s \in Seq(Bytes), NEW d \in Seq(Bytes),
         NEW f \in Seq(Bytes), AddUp(w, clean, s, d, f)
  PROVE  AddUp(w, clean, s \o d, <<>>, f)
<1>1. (s \o d) \o f = s \o (d \o f)
  <2>1. Joins(s, d, f)
    BY BytesAssociative
  <2> QED
    BY <2>1 DEF Joins
<1>2. <<>> \o f = f
  BY ConcatEmptySeq
<1> QED
  BY <1>1, <1>2 DEF AddUp

\* Two ways to cut the same bytes in two.
SameBytes(a, b, c, d) == a \o b = c \o d

\* Bytes parsed from the front of a stream may be moved to what was parsed before.
LEMMA BytesMoved ==
  ASSUME NEW x \in Seq(Bytes), NEW y \in Seq(Bytes), NEW z \in Seq(Bytes),
         NEW b \in Seq(Bytes), NEW d \in Seq(Bytes), SameBytes(b, d, y, z)
  PROVE  SameBytes(x \o b, d, x \o y, z)
<1>1. (x \o b) \o d = x \o (b \o d)
  <2>1. Joins(x, b, d)
    BY BytesAssociative
  <2> QED
    BY <2>1 DEF Joins
<1>2. (x \o y) \o z = x \o (y \o z)
  <2>1. Joins(x, y, z)
    BY BytesAssociative
  <2> QED
    BY <2>1 DEF Joins
<1> QED
  BY <1>1, <1>2 DEF SameBytes

\* Data appended to a stream whose rest is the buffer b: the messages of the
\* loop are cut off, the rest stays.
Extended(s, ms, d, r, rest) ==
  /\ rest \in Seq(Bytes) /\ s \o d \in Seq(Bytes)
  /\ r.msgs \in Seq(Serializable) /\ r.had_error \in BOOLEAN
  /\ ms \o r.msgs \in Seq(Serializable)
  /\ s \o d = serialize_all(ms \o r.msgs) \o rest
  /\ deserialize_message(rest).kind = IF r.had_error THEN "error" ELSE "none"

\* The receive loop extends the messages of a stream and keeps the unparsed rest.
LEMMA LoopExtends ==
  ASSUME NEW s \in Seq(Bytes), NEW ms \in Seq(Serializable), NEW b \in Seq(Bytes),
         NEW d \in Seq(Bytes), s = serialize_all(ms) \o b,
         NEW r, r = deserialize_all(b \o d), NEW rest, rest = From(b \o d, r.pos)
  PROVE  Extended(s, ms, d, r, rest)
<1> DEFINE buf == b \o d
           x == serialize_all(ms)
           y == serialize_all(r.msgs)
<1>0. r = deserialize_all(buf) /\ rest = From(buf, r.pos) /\ s = x \o b
  OBVIOUS
<1>1. buf \in Seq(Bytes) /\ s \o d \in Seq(Bytes)
  BY ConcatParts
<1> HIDE DEF buf
<1>2. Splits(r, buf)
  BY <1>0, <1>1, LoopSplitsBuffer
<1>3. /\ r.msgs \in Seq(Serializable) /\ r.had_error \in BOOLEAN
      /\ r.pos \in 0..Len(buf) /\ buf = y \o rest
      /\ deserialize_message(rest).kind = IF r.had_error THEN "error" ELSE "none"
  BY <1>0, <1>2 DEF Splits, Outcomes
<1>4. rest \in Seq(Bytes)
  <2>1. SubSeq(buf, r.pos + 1, Len(buf)) \in Seq(Bytes)
    BY <1>1, <1>3, SplitAt
  <2> QED
    BY <1>0, <2>1 DEF From
<1>5. x \in Seq(Bytes) /\ y \in Seq(Bytes)
      /\ serialize_all(ms \o r.msgs) = x \o y /\ ms \o r.msgs \in Seq(Serializable)
  BY <1>3, SerializeAll, ConcatParts
<1> HIDE DEF x, y
<1>6. s \o d = serialize_all(ms \o r.msgs) \o rest
  <2>1. SameBytes(b, d, y, rest)
    BY <1>3 DEF buf, SameBytes
  <2>2. SameBytes(x \o b, d, x \o y, rest)
    BY <1>4, <1>5, <2>1, BytesMoved
  <2> QED
    BY <1>0, <1>5, <2>2 DEF SameBytes
<1> QED
  BY <1>1, <1>3, <1>4, <1>5, <1>6 DEF Extended

\* What HandleData does with a Data event of i, whose buffer is b.
Looped(i, d, b, r, rest) ==
  /\ dispatch_events' =
       dispatch_events \o [k \in 1..Len(r.msgs) |-> Event("Message", i)]
  /\ messages' = [messages EXCEPT ![i] = @ \o r.msgs]
  /\ stream' = [stream EXCEPT ![i] = @ \o d]
  /\ IF r.had_error
     THEN /\ recv_buffers' = Without(recv_buffers, {i})
          /\ conn' = [conn EXCEPT ![i] = IF Live(i) THEN "dropped" ELSE @]
     ELSE /\ recv_buffers' = [j \in DOMAIN recv_buffers \cup {i} |->
                                IF j = i THEN rest ELSE recv_buffers[j]]
          /\ UNCHANGED conn

\* Data is turned into messages.
LEMMA LoopStep ==
  ASSUME Inv, NEW e, Taken(e), e.type = "Data",
         NEW i \in Ids, i = e.id, NEW d \in Seq(Bytes), d = e.data,
         NEW b \in Seq(Bytes), b = Buffer(i), NEW r, r = deserialize_all(b \o d),
         NEW rest, rest = From(b \o d, r.pos), Looped(i, d, b, r, rest)
  PROVE  Inv'
<1> USE DEF Inv
<1> DEFINE n == Len(r.msgs)
<1>1. Taken(e) /\ e.type = "Data" /\ e.id = i /\ e.data = d
  OBVIOUS
<1>2. i \in Ids /\ d \in Seq(Bytes) /\ b \in Seq(Bytes)
  OBVIOUS
<1>3. Has(transport_events, {"Data"}, i) /\ Is(transport_events, 1, {"Data"}, i)
      /\ 1 \in 1..Len(transport_events)
  BY <1>1 DEF Taken
<1>4. /\ stream[i] \in Seq(Bytes) /\ messages[i] \in Seq(Serializable)
      /\ stream[i] = serialize_all(messages[i]) \o b
  BY <1>2, <1>3 DEF Types, BufferFits
<1>5. /\ rest \in Seq(Bytes) /\ stream[i] \o d \in Seq(Bytes)
      /\ r.msgs \in Seq(Serializable) /\ r.had_error \in BOOLEAN
      /\ messages[i] \o r.msgs \in Seq(Serializable)
      /\ stream[i] \o d = serialize_all(messages[i] \o r.msgs) \o rest
      /\ deserialize_message(rest).kind = IF r.had_error THEN "error" ELSE "none"
  <2>1. Extended(stream[i], messages[i], d, r, rest)
    BY <1>4, LoopExtends
  <2> QED
    BY <2>1 DEF Extended
<1>6. /\ stream'[i] = stream[i] \o d /\ messages'[i] = messages[i] \o r.msgs
      /\ \A j \in Ids \ {i} : stream'[j] = stream[j] /\ messages'[j] = messages[j]
      /\ stream' \in [Ids -> Seq(Bytes)] /\ messages' \in [Ids -> Seq(Serializable)]
  BY <1>2, <1>5 DEF Types, Looped
<1>7. /\ \A j \in Ids \ {i} : conn'[j] = conn[j]
      /\ conn'[i] = IF r.had_error /\ Live(i) THEN "dropped" ELSE conn[i]
      /\ conn' \in [Ids -> {"new", "connecting", "open", "gone", "cut", "dropped"}]
  <2>1. CASE r.had_error
    <3>1. conn' = [conn EXCEPT ![i] = IF Live(i) THEN "dropped" ELSE @]
      BY <2>1 DEF Looped
    <3>2. conn \in [Ids -> {"new", "connecting", "open", "gone", "cut", "dropped"}]
      BY DEF Types
    <3> QED
      BY <2>1, <3>1, <3>2
  <2>2. CASE ~r.had_error
    BY <2>2 DEF Types, Looped
  <2> QED
    BY <2>1, <2>2, SMTT(60)
<1>8. DOMAIN recv_buffers' = (IF r.had_error THEN DOMAIN recv_buffers \ {i}
                                             ELSE DOMAIN recv_buffers \cup {i})
      /\ (~r.had_error => recv_buffers'[i] = rest)
      /\ \A j \in DOMAIN recv_buffers \ {i} : recv_buffers'[j] = recv_buffers[j]
  <2>1. CASE r.had_error
    BY <2>1 DEF Without, Restrict, Looped
  <2>2. CASE ~r.had_error
    BY <2>2 DEF Looped
  <2> QED
    BY <2>1, <2>2
<1>9. Buffer(i)' = (IF r.had_error THEN <<>> ELSE rest)
      /\ \A j \in Ids \ {i} : Buffer(j)' = Buffer(j)
  BY <1>8 DEF Buffer
<1>10. n \in Nat
  BY <1>5, LenProperties
<1> HIDE DEF n
<1>11. /\ dispatch_events' \in Seq(DispatchEvent) /\ Len(dispatch_events) \in Nat
       /\ Len(dispatch_events') \in Nat
       /\ Len(dispatch_events') >= Len(dispatch_events)
       /\ \A k \in 1..Len(dispatch_events) : \A types, j :
            Is(dispatch_events', k, types, j) <=> Is(dispatch_events, k, types, j)
       /\ \A k \in 1..Len(dispatch_events') : \A types, j :
            Is(dispatch_events', k, types, j) =>
              k \in 1..Len(dispatch_events) \/ ("Message" \in types /\ i = j)
  <2>1. dispatch_events \in Seq(DispatchEvent)
    BY DEF Types
  <2>2. dispatch_events' = dispatch_events \o [k \in 1..n |-> Event("Message", i)]
    BY DEF n, Looped
  <2> QED
    <3>1. MessagesAdded(dispatch_events, dispatch_events', i)
      BY <1>10, <2>1, <2>2, MessagesAppended
    <3> QED
      BY <3>1 DEF MessagesAdded
<1>12. \A types, j : Has(transport_events', types, j) => Has(transport_events, types, j)
  BY <1>1 DEF Taken
<1>13. ~Has(transport_events', {"Data"}, i)
  <2> SUFFICES ASSUME NEW k \in 1..Len(transport_events'),
                      Is(transport_events', k, {"Data"}, i)
               PROVE  FALSE
    BY DEF Has
  <2>1. k + 1 \in 1..Len(transport_events) /\ k + 1 # 1
        /\ Is(transport_events, k + 1, {"Data"}, i)
    BY <1>1, SMTT(60) DEF Taken
  <2> QED
    BY <1>2, <1>3, <2>1 DEF DataBeforeEnd, Ordered
<1>14. Types'
  <2>1. DOMAIN recv_buffers' \subseteq Ids
        /\ \A j \in DOMAIN recv_buffers' : recv_buffers'[j] \in Seq(Bytes)
    <3>1. DOMAIN recv_buffers \subseteq Ids
          /\ \A j \in DOMAIN recv_buffers : recv_buffers[j] \in Seq(Bytes)
      BY DEF Types
    <3> SUFFICES ASSUME NEW j \in DOMAIN recv_buffers'
                 PROVE  j \in Ids /\ recv_buffers'[j] \in Seq(Bytes)
      OBVIOUS
    <3> HIDE DEF Inv
    <3>2. CASE j = i
      BY <1>2, <1>5, <1>8, <3>2
    <3>3. CASE j # i
      BY <1>8, <3>1, <3>3
    <3> QED
      BY <3>2, <3>3
  <2> QED
    <3>1. /\ transport_events' \in Seq(TransportEvent) /\ pc = "process"
          /\ UNCHANGED <<pc, listening, inflight, written, frames, view>>
      BY <1>1 DEF Taken
    <3>2. /\ transport_events' \in Seq(TransportEvent) /\ pc' = pc
          /\ listening' = listening /\ inflight' = inflight /\ written' = written
          /\ frames' = frames /\ view' = view
      BY <3>1
    <3>3. /\ pc' \in {"app", "fetch", "process"} /\ listening' \in BOOLEAN
          /\ inflight' \in [Ids -> Seq(Bytes)]
          /\ view' \in [Ids -> {"new", "connecting", "open", "closed"}]
          /\ written' \in [Ids -> Seq(Serializable)]
          /\ frames' \in [Ids -> [count : Nat, clean : BOOLEAN]]
      BY <3>2, Zenon DEF Types
    <3> HIDE DEF Inv
    <3> QED
      BY <1>6, <1>7, <1>11, <2>1, <3>2, <3>3, Zenon DEF Types
<1>15. Phases'
  BY <1>1 DEF Phases, Taken
<1>16. Fresh'
  <2> SUFFICES ASSUME NEW j \in Ids
               PROVE  /\ conn'[j] \in {"new", "connecting"} =>
                           /\ stream'[j] = <<>> /\ messages'[j] = <<>>
                           /\ inflight'[j] = <<>> /\ j \notin DOMAIN recv_buffers'
                           /\ ~Has(transport_events', {"Data"}, j)
                      /\ conn'[j] = "new" =>
                           /\ view'[j] # "open"
                           /\ ~Has(transport_events', AnyType, j)
                           /\ ~Has(dispatch_events', AnyType, j)
    BY DEF Fresh
  <2>1. conn[i] \notin {"new", "connecting"}
    BY <1>2, <1>3 DEF Fresh
  <2>2. CASE j = i
    BY <1>7, <2>1, <2>2
  <2>3. CASE j # i
    <3>1. inflight' = inflight /\ view' = view
      BY <1>1 DEF Taken
    <3>2. j \in DOMAIN recv_buffers' => j \in DOMAIN recv_buffers
      BY <1>8, <2>3
    <3>3. Has(dispatch_events', AnyType, j) => Has(dispatch_events, AnyType, j)
      BY <1>11, <2>3 DEF Has
    <3> QED
      BY <1>6, <1>7, <1>12, <2>3, <3>1, <3>2, <3>3 DEF Fresh
  <2> QED
    BY <2>2, <2>3
<1>17. BytesKept'
  <2>1. ASSUME NEW j \in Ids, j # i
        PROVE  /\ ~Has(transport_events', {"Data"}, j) => Accounted(j, <<>>)'
               /\ \A k \in 1..Len(transport_events') :
                    Is(transport_events', k, {"Data"}, j) =>
                      Accounted(j, transport_events[k].data)'
    <3>1. stream'[j] = stream[j] /\ ~(e.type \in {"Data"} /\ e.id = j)
      BY <1>1, <1>6, <2>1
    <3>2. Inv /\ Taken(e) /\ j \in Ids
      BY <2>1
    <3> HIDE DEF Inv
    <3> QED
      BY <3>1, <3>2, TakenBytes
  <2>2. Accounted(i, <<>>)'
    <3>1. AddUp(written[i], frames[i].clean, stream[i], d, inflight[i])
      <4>1. Accounted(i, transport_events[1].data)
        BY <1>2, <1>3 DEF BytesKept
      <4> QED
        BY <1>1, <4>1 DEF Taken, Accounted
    <3>2. inflight[i] \in Seq(Bytes)
      BY <1>2 DEF Types
    <3>3. AddUp(written[i], frames[i].clean, stream[i] \o d, <<>>, inflight[i])
      BY <1>4, <3>1, <3>2, DataTaken
    <3> QED
      BY <1>1, <1>6, <3>3 DEF Accounted, Taken
  <2>3. \A k : ~Is(transport_events', k, {"Data"}, i)
    BY <1>13, FoundThere
  <2> QED
    BY <2>1, <2>2, <2>3 DEF BytesKept
<1>18. BufferFits'
  <2> SUFFICES ASSUME NEW j \in Ids
               PROVE  /\ deserialize_message(Buffer(j)').kind = "none"
                      /\ \E x \in Seq(Bytes) :
                           stream'[j] = serialize_all(messages'[j]) \o x
                      /\ conn'[j] = "open" \/ Has(transport_events', {"Data"}, j) =>
                           stream'[j] = serialize_all(messages'[j]) \o Buffer(j)'
    BY DEF BufferFits
  <2>1. CASE j # i
    <3>1. Buffer(j)' = Buffer(j) /\ stream'[j] = stream[j]
          /\ messages'[j] = messages[j] /\ conn'[j] = conn[j]
      BY <1>6, <1>7, <1>9, <2>1
    <3> QED
      BY <1>12, <3>1 DEF BufferFits
  <2>2. CASE j = i
    <3>1. deserialize_message(<<>>).kind = "none"
      BY EmptySeq DEF deserialize_message, None, WORD
    <3>2. conn'[i] = "open" => ~r.had_error
      BY <1>7 DEF Live
    <3>3. stream'[i] = serialize_all(messages'[i]) \o rest
      BY <1>5, <1>6
    <3> QED
      BY <1>5, <1>9, <1>13, <2>2, <3>1, <3>2, <3>3
  <2> QED
    BY <2>1, <2>2
<1>19. DataBeforeEnd'
  <2> SUFFICES ASSUME NEW j \in Ids
               PROVE  Ordered(transport_events', j, conn'[j])
    BY DEF DataBeforeEnd
  <2>1. Ordered(transport_events', j, conn[j])
    BY <1>1, TakenOrder DEF DataBeforeEnd
  <2>2. CASE conn'[j] = conn[j]
    BY <2>1, <2>2
  <2>3. CASE j = i /\ Live(i)
    <3>1. \A k : ~Is(transport_events', k, {"Data"}, i)
      BY <1>13, FoundThere
    <3>2. \A k \in 1..Len(transport_events') : ~Is(transport_events', k, Ends, i)
      BY <2>1, <2>3 DEF Ordered, Live
    <3> QED
      BY <2>3, <3>1, <3>2 DEF Ordered
  <2> QED
    BY <1>7, <2>2, <2>3
<1>20. InactiveAlone'
  BY <1>1, TakenInactive
<1>21. BufferOwned'
  <2> SUFFICES ASSUME NEW j \in DOMAIN recv_buffers'
               PROVE  Live(j)' \/ Has(transport_events', Ends, j) \/ conn'[j] = "cut"
    BY DEF BufferOwned
  <2>1. CASE j # i
    <3>1. j \in DOMAIN recv_buffers
      BY <1>8, <2>1
    <3>2. conn'[j] = conn[j]
      BY <1>7, <2>1, <3>1 DEF Types
    <3>3. e.type \notin Ends
      BY <1>1 DEF Ends
    <3>4. Has(transport_events, Ends, j) => Has(transport_events', Ends, j)
      BY <1>1, <3>3 DEF Taken
    <3> QED
      BY <3>1, <3>2, <3>4 DEF BufferOwned, Live
  <2>2. CASE j = i
    <3>1. ~r.had_error /\ conn'[i] = conn[i]
      BY <1>7, <1>8, <2>2
    <3>2. conn[i] \in {"connecting", "open"} \/ EndBehind(transport_events, 1, i)
      BY <1>2, <1>3 DEF DataBeforeEnd, Ordered
    <3> QED
      BY <1>1, <2>2, <3>1, <3>2, EndsShift DEF Live
  <2> QED
    BY <2>1, <2>2
<1>22. EndFollows'
  <2> SUFFICES ASSUME NEW j \in Ids, view'[j] # "closed", ~Live(j)',
                      conn'[j] # "dropped"
               PROVE  EndQueued(transport_events', dispatch_events', j, view'[j])
    BY DEF EndFollows
  <2>1. view'[j] = view[j] /\ view[j] # "closed" /\ ~Live(j) /\ conn[j] # "dropped"
    BY <1>1, <1>7 DEF Live, Taken
  <2>2. EndQueued(transport_events, dispatch_events, j, view[j])
    BY <2>1 DEF EndFollows
  <2>3. \A k \in 1..Len(dispatch_events') : Is(dispatch_events', k, {"Connected"}, j) =>
          k \in 1..Len(dispatch_events)
    <3>1. "Message" \notin {"Connected"}
      OBVIOUS
    <3> QED
      BY <1>11, <3>1, Zenon
  <2>4. e.type \notin Ends
    BY <1>1 DEF Ends
  <2> DEFINE ds == dispatch_events
             fs == dispatch_events'
  <2>5. /\ Len(ds) \in Nat /\ Len(fs) \in Nat /\ Len(fs) >= Len(ds)
        /\ \A types : \A k \in 1..Len(ds) : Is(fs, k, types, j) <=> Is(ds, k, types, j)
        /\ \A k \in 1..Len(fs) : Is(fs, k, {"Connected"}, j) =>
             k \in 1..Len(ds) \/ (e.type \in {"Connected"} /\ e.id = j)
        /\ e.type \in Ends /\ e.id = j => EndBehind(fs, Len(ds), j)
        /\ EndQueued(transport_events, ds, j, view[j])
    BY <1>11, <2>2, <2>3, <2>4
  <2> HIDE DEF ds, fs
  <2>6. EndQueued(transport_events', fs, j, view[j])
    BY <1>1, <2>5, TakenFollow
  <2> QED
    BY <2>1, <2>6 DEF fs
<1> QED
  BY <1>14, <1>15, <1>16, <1>17, <1>18, <1>19, <1>20, <1>21, <1>22

\* Handling a Data event preserves the invariant.
LEMMA LoopSteps ==
  ASSUME Inv, HandleData
  PROVE  Inv'
<1> DEFINE e == Head(transport_events)
           b == Buffer(e.id)
           r == deserialize_all(b \o e.data)
           rest == From(b \o e.data, r.pos)
<1>1. Taken(e) /\ e.type = "Data" /\ Looped(e.id, e.data, b, r, rest)
  <2>1. Handle({"Data"})
    BY DEF HandleData
  <2>2. Taken(e) /\ e.type = "Data"
    BY <2>1, HandleEffect
  <2> DEFINE i == e.id
             buf == Received(i, e.data)
             s == deserialize_all(buf)
  <2>3. /\ dispatch_events' =
             dispatch_events \o [k \in 1..Len(s.msgs) |-> Event("Message", i)]
        /\ messages' = [messages EXCEPT ![i] = @ \o s.msgs]
        /\ stream' = [stream EXCEPT ![i] = @ \o e.data]
        /\ IF s.had_error
           THEN /\ recv_buffers' = Without(recv_buffers, {i})
                /\ conn' = [conn EXCEPT ![i] = IF Live(i) THEN "dropped" ELSE @]
           ELSE /\ recv_buffers' = [j \in DOMAIN recv_buffers \cup {i} |->
                                      IF j = i THEN Drained(buf, s.pos)
                                               ELSE recv_buffers[j]]
                /\ UNCHANGED conn
    BY DEF HandleData
  <2>4. Looped(i, e.data, b, s, Drained(buf, s.pos))
    BY <2>3 DEF Looped
  <2>5. buf = b \o e.data
    BY DEF Received, Buffer
  <2> HIDE DEF i, b, buf
  <2>6. s = r /\ Drained(buf, s.pos) = rest
    BY <2>5 DEF Drained
  <2> HIDE DEF s, r, rest
  <2>7. Looped(i, e.data, b, r, rest)
    BY <2>4, <2>6
  <2> QED
    BY <2>2, <2>7 DEF i
<1>2. e.id \in Ids /\ e.data \in Seq(Bytes) /\ b \in Seq(Bytes)
  <2>1. e \in TransportEvent
    BY <1>1 DEF Taken
  <2>2. e.id \in Ids /\ e.data \in Seq(Bytes)
    BY <1>1, <2>1, EventFields
  <2> QED
    BY <2>2, EmptySeq DEF Inv, Types, Buffer
<1> HIDE DEF e, b, r, rest
<1>3. b = Buffer(e.id) /\ r = deserialize_all(b \o e.data)
      /\ rest = From(b \o e.data, r.pos)
  BY DEF b, r, rest
<1> QED
  BY <1>1, <1>2, <1>3, LoopStep, SMTT(60)

-----------------------------------------------------------------------------
(* The invariant, and what follows from it.                                *)

\* Every step preserves the invariant.
LEMMA InvStep == Inv /\ [Next]_vars => Inv'
<1> SUFFICES ASSUME Inv, [Next]_vars PROVE Inv'
  OBVIOUS
<1>1. ASSUME NEW i \in Ids, Transport(i) PROVE Inv'
  BY <1>1, ConnectedStep, EndStep, DataStep DEF Transport
<1>2. ASSUME NEW i \in Ids, Operations(i) PROVE Inv'
  BY <1>2, ConnectStep, CloseSteps DEF Operations
<1>3. CASE Process
  BY <1>3, PhaseSteps, PassSteps, LoopSteps DEF Process
<1>4. CASE UNCHANGED vars
  <2>1. UNCHANGED <<recv_buffers, transport_events, dispatch_events, conn,
                    inflight, written, frames, view, stream, messages, pc,
                    listening>>
    BY <1>4 DEF vars, transport
  <2>2. pc' \in {"app", "fetch", "process"} /\ listening' \in BOOLEAN /\ Phases'
    BY <2>1 DEF Inv, Types, Phases
  <2> QED
    BY <2>1, <2>2, IdleStep
<1> QED
  BY <1>1, <1>2, <1>3, <1>4, PeerSteps, PhaseSteps, CloseSteps, AppStep,
     InactiveStep DEF Next

\* Inv holds in every state: types, where the bytes of a connection are, how
\* far they have become messages, and the order of its events in the queues.
THEOREM InvAlways == Spec => []Inv
<1> QED
  BY InitInv, InvStep, PTL DEF Spec

\* The messages handed out are a prefix of those written.
LEMMA InvWritten == Inv => MessagesAsWritten
<1> SUFFICES ASSUME Inv, NEW i \in Ids
             PROVE  IsPrefix(messages[i], written[i])
  BY DEF MessagesAsWritten
<1> DEFINE ms == messages[i]
           ws == written[i]
           s == stream[i]
           f == inflight[i]
<1>1. /\ ms \in Seq(Serializable) /\ ws \in Seq(Serializable)
      /\ s \in Seq(Bytes) /\ f \in Seq(Bytes)
  BY DEF Inv, Types
<1>2. PICK rest \in Seq(Bytes) : s = serialize_all(ms) \o rest
  BY DEF Inv, BufferFits
<1>3. PICK d \in Seq(Bytes) : AddUp(ws, frames[i].clean, s, d, f)
  <2>1. CASE ~Has(transport_events, {"Data"}, i)
    <3>1. Accounted(i, <<>>) /\ <<>> \in Seq(Bytes)
      BY <2>1, EmptySeq DEF Inv, BytesKept
    <3> QED
      BY <3>1 DEF Accounted
  <2>2. CASE Has(transport_events, {"Data"}, i)
    <3>1. PICK k \in 1..Len(transport_events) : Is(transport_events, k, {"Data"}, i)
      BY <2>2 DEF Has
    <3>2. transport_events[k].data \in Seq(Bytes)
      BY <3>1, DataType DEF Inv
    <3>3. Accounted(i, transport_events[k].data)
      BY <3>1 DEF Inv, BytesKept
    <3> QED
      BY <3>2, <3>3 DEF Accounted
  <2> QED
    BY <2>1, <2>2
<1>4. PICK tail \in Seq(Bytes) :
        /\ deserialize_message(tail).kind # "message"
        /\ serialize_all(ws) \o tail = s \o (d \o f)
  <2>1. deserialize_message(<<>>).kind = "none"
    BY EmptySeq DEF deserialize_message, None, WORD
  <2> QED
    BY <1>3, <2>1 DEF AddUp, NoMessageTail
<1> HIDE DEF ms, ws, s, f
<1> DEFINE x == serialize_all(ms)
           y == d \o f
           z == rest \o y
<1>5. x \in Seq(Bytes) /\ y \in Seq(Bytes)
  BY <1>1, SerializeAll, ConcatParts
<1>6. z \in Seq(Bytes)
  BY <1>5, ConcatParts
<1>7. (x \o rest) \o y = x \o z
  <2> HIDE DEF x, y
  <2> QED
    <3>1. Joins(x, rest, y)
      BY <1>5, BytesAssociative
    <3> QED
      BY <3>1 DEF Joins
<1>8. serialize_all(ms) \o z = serialize_all(ws) \o tail
  BY <1>2, <1>4, <1>7
<1> HIDE DEF z
<1>9. PICK c \in Seq(Serializable) : ws = ms \o c
  BY <1>1, <1>4, <1>6, <1>8, Unambiguous
<1>10. /\ Len(ws) = Len(ms) + Len(c) /\ SubSeq(ws, 1, Len(ms)) = ms
       /\ Len(ms) \in Nat /\ Len(c) \in Nat
  BY <1>1, <1>9, ConcatParts, LenProperties
<1>11. SubSeq(ms, 1, Len(ms)) = ms
  BY <1>1, SubSeqFull
<1> QED
  BY <1>10, <1>11 DEF IsPrefix, ms, ws

\* However the transport cuts a stream into Data events, whatever is malformed
\* in it, and whenever the application or another thread closes connections, the
\* messages fetch_events hands out for a connection are those its peer wrote, in
\* order, none twice, none made up.
THEOREM MessagesAreThoseWritten == Spec => []MessagesAsWritten
<1> QED
  BY InvAlways, InvWritten, PTL

\* On an open connection every byte taken from a Data event is in a message
\* handed out or in the receive buffer, which holds no complete message.
THEOREM StreamReassembled == Spec => []Reassembly
<1>1. Inv => Reassembly
  BY DEF Inv, BufferFits, Reassembly
<1> QED
  BY <1>1, InvAlways, PTL

\* A queued end of i.
LEMMA EndIsPending ==
  \A i : Has(transport_events, Ends, i) \/ Has(dispatch_events, Ends, i)
          => EndPending(i)
  BY DEF Has, Is, Ends, EndPending

\* No receive buffer outlives its connection longer than the end that will
\* remove it, except where an interface call closed the connection.
THEOREM BuffersOwned == Spec => []BuffersHaveConnections
<1>1. Inv => BuffersHaveConnections
  BY EndIsPending DEF Inv, BufferOwned, BuffersHaveConnections
<1> QED
  BY <1>1, InvAlways, PTL

\* The application learns of the end of every connection it believes open,
\* unless fetch_events closed it itself.
THEOREM EndsReach == Spec => []EndsAreReported
<1>1. Inv => EndsAreReported
  <2> SUFFICES ASSUME Inv, NEW i \in Ids, view[i] = "open", ~Live(i),
                      conn[i] # "dropped"
               PROVE  EndPending(i)
    BY DEF EndsAreReported
  <2>1. EndQueued(transport_events, dispatch_events, i, view[i])
    BY DEF Inv, EndFollows
  <2> QED
    BY <2>1, EndIsPending DEF EndQueued
<1> QED
  BY <1>1, InvAlways, PTL

=============================================================================
