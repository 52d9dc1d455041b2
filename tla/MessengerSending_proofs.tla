---------------------- MODULE MessengerSending_proofs -----------------------
(***************************************************************************)
(* Any number of threads send to any number of connections: every thread's *)
(* messages arrive in the order of its calls, two connections see what     *)
(* they share in the same order, and a close overtakes nothing.            *)
(*                                                                         *)
(* Inv is inductive: the bytes handed to a connection are whole frames     *)
(* (Whole), so that the receiver's messages grow by one message at a time, *)
(* no message is in two places (Apart), and the three properties hold,     *)
(* CloseComesLast with what it rests on while a close still waits          *)
(* (CloseWaits).                                                           *)
(***************************************************************************)
EXTENDS MessengerSending, Framing_proofs, FiniteSetTheorems

\* The messages that can be sent.
Sendable == {Message(c, t, k) : c \in Contexts, t \in Callers, k \in 1..MaxCalls}

CallRecords ==
  [op : {"send", "broadcast"}, ids : SUBSET Ids, msg : Sendable]
    \cup [op : {"close"}, ids : SUBSET Ids, msg : {"none"}]

\* A request with a message carries its frame.
Requests ==
  [op : {"send", "broadcast"}, ids : SUBSET Ids,
   data : {serialize_message(m) : m \in Sendable}]
    \cup [op : {"close"}, ids : SUBSET Ids, data : {<<>>}]

Carried(r) == deserialize_message(r.data).msg

\* What the receiver at the other end of i has made of the bytes.
Got(i) == Received(i).msgs

Types ==
  /\ pc \in {"app", "fetch"} /\ live \subseteq Ids /\ ended \subseteq Ids
  /\ requests \in Seq(Requests)
  /\ out \in [Ids -> Seq(Bytes)]
  /\ calls \in [Callers -> Seq(CallRecords)]

\* The bytes on a connection are whole frames.
Whole == \A i \in Ids : Got(i) \in Seq(Sendable) /\ out[i] = serialize_all(Got(i))

\* The call that sends m has been made.
Called(m) == m.body[2] <= Len(calls[m.body[1]])

Numbered ==
  /\ \A i \in Ids : \A l \in 1..Len(Got(i)) : Called(Got(i)[l])
  /\ \A p \in 1..Len(requests) :
       requests[p].op # "close" => Called(Carried(requests[p]))

\* A message that waits is nowhere else.
Apart ==
  \A p \in 1..Len(requests) : requests[p].op # "close" =>
    /\ \A i \in Ids : ~In(Carried(requests[p]), Got(i))
    /\ \A q \in 1..Len(requests) : requests[q].op # "close" /\ q # p =>
         Carried(requests[q]) # Carried(requests[p])

\* The owner's calls are executed at once.
OwnerNeverWaits == \A i \in Ids : Waiting(Owner, i) = <<>>

\* A close waits behind what its thread sent before.
ClosesAt(t, k, ids, before) ==
  /\ k \in 1..Len(calls[t])
  /\ calls[t][k].op = "close" /\ calls[t][k].ids = ids
  /\ \A i \in live :
       MessagesFor(i, SubSeq(calls[t], 1, k))
         = Arrived(t, i) \o SentBy(t, MessagesIn(i, before))
CloseWaits ==
  \A p \in 1..Len(requests) : requests[p].op = "close" =>
    \E t \in Others : \E k \in 1..Len(calls[t]) :
      ClosesAt(t, k, requests[p].ids, SubSeq(requests, 1, p - 1))

Inv ==
  /\ Types /\ Whole /\ Numbered /\ Apart /\ OwnerNeverWaits
  /\ CallersServedInOrder /\ SameOrderEverywhere /\ CloseWaits /\ CloseComesLast

-----------------------------------------------------------------------------
(* Selections from sequences.                                              *)

\* Every message the callers send is serializable and names its sender and number.
LEMMA SendableFields ==
  /\ Sendable \subseteq Serializable
  /\ \A m \in Sendable : m.body[1] \in Callers /\ m.body[2] \in 1..MaxCalls
  BY SentAssumption DEF Sendable, Message

\* What the records of calls and the queued requests consist of.
LEMMA RecordFields ==
  /\ \A c \in CallRecords :
       /\ c.op \in {"send", "broadcast", "close"} /\ c.ids \subseteq Ids
       /\ c.op # "close" => c.msg \in Sendable
  /\ \A r \in Requests :
       /\ r.op \in {"send", "broadcast", "close"} /\ r.ids \subseteq Ids
       /\ r.op # "close" =>
            Carried(r) \in Sendable /\ r.data = serialize_message(Carried(r))
  /\ \A r, i : IsFor(i, r) => r.op # "close"
<1>1. \A m \in Sendable : deserialize_message(serialize_message(m)).msg = m
  <2> SUFFICES ASSUME NEW m \in Sendable
               PROVE  deserialize_message(serialize_message(m)).msg = m
    OBVIOUS
  <2>1. m \in Serializable /\ <<>> \in Seq(Bytes)
    BY SendableFields, EmptySeq
  <2>2. serialize_message(m) \in Seq(Bytes)
    BY <2>1, FrameParts
  <2>3. serialize_message(m) \o <<>> = serialize_message(m)
    BY <2>2, ConcatEmptySeq
  <2>4. deserialize_message(serialize_message(m) \o <<>>)
          = Some(m, Len(serialize_message(m)))
    BY <2>1, RoundTrip
  <2> QED
    BY <2>3, <2>4 DEF Some
<1>2. ASSUME NEW r \in Requests, r.op # "close"
      PROVE  Carried(r) \in Sendable /\ r.data = serialize_message(Carried(r))
  <2>1. PICK m \in Sendable : r.data = serialize_message(m)
    BY <1>2 DEF Requests
  <2> QED
    BY <1>1, <2>1 DEF Carried
<1>3. \A c \in CallRecords :
       /\ c.op \in {"send", "broadcast", "close"} /\ c.ids \subseteq Ids
       /\ c.op # "close" => c.msg \in Sendable
  BY DEF CallRecords
<1>4. \A r \in Requests :
        r.op \in {"send", "broadcast", "close"} /\ r.ids \subseteq Ids
  BY DEF Requests
<1>5. \A r, i : IsFor(i, r) => r.op # "close"
  BY DEF IsFor
<1> QED
  BY <1>2, <1>3, <1>4, <1>5

\* The messages for i among the calls a and b.
LEMMA CallParts ==
  ASSUME NEW i
  PROVE  /\ MessagesFor(i, <<>>) = <<>>
         /\ \A a \in Seq(CallRecords) : MessagesFor(i, a) \in Seq(Sendable)
         /\ \A c \in CallRecords : MessagesFor(i, <<c>>) =
              IF IsFor(i, c) THEN <<c.msg>> ELSE <<>>
         /\ \A a, b \in Seq(CallRecords) :
              MessagesFor(i, a \o b) = MessagesFor(i, a) \o MessagesFor(i, b)
<1> DEFINE f == [c \in CallRecords |-> IF IsFor(i, c) THEN <<c.msg>> ELSE <<>>]
<1>1. f \in [CallRecords -> Seq(Sendable)]
  <2>1. \A c \in CallRecords : IsFor(i, c) => c.msg \in Sendable
    BY RecordFields
  <2>2. <<>> \in Seq(Sendable) /\ \A m \in Sendable : <<m>> \in Seq(Sendable)
    BY EmptySeq
  <2> QED
    BY <2>1, <2>2
<1>2. ASSUME NEW a \in Seq(CallRecords)
      PROVE  MessagesFor(i, a) = FlatMap(f, a)
  <2>1. \A k \in 1..Len(a) :
          (IF IsFor(i, a[k]) THEN <<a[k].msg>> ELSE <<>>) = f[a[k]]
    BY ElementOfSeq
  <2> HIDE DEF f
  <2>2. [k \in 1..Len(a) |-> IF IsFor(i, a[k]) THEN <<a[k].msg>> ELSE <<>>]
          = [k \in 1..Len(a) |-> f[a[k]]]
    BY <2>1
  <2> QED
    BY <2>2 DEF MessagesFor, FlatMap
<1>3. \A c \in CallRecords : f[c] = IF IsFor(i, c) THEN <<c.msg>> ELSE <<>>
  OBVIOUS
<1> HIDE DEF f
<1>4. /\ FlatMap(f, <<>>) = <<>>
      /\ \A c \in CallRecords : FlatMap(f, <<c>>) = f[c]
      /\ \A a \in Seq(CallRecords) : FlatMap(f, a) \in Seq(Sendable)
      /\ \A a, b \in Seq(CallRecords) :
           FlatMap(f, a \o b) = FlatMap(f, a) \o FlatMap(f, b)
  <2>1. Flattened(f, CallRecords, Sendable)
    BY <1>1, FlatMapParts
  <2> QED
    BY <2>1 DEF Flattened
<1>5. /\ \A a, b \in Seq(CallRecords) : a \o b \in Seq(CallRecords)
      /\ <<>> \in Seq(CallRecords)
      /\ \A c \in CallRecords : <<c>> \in Seq(CallRecords)
  BY ConcatParts, EmptySeq
<1> QED
  BY <1>2, <1>3, <1>4, <1>5, ZenonT(60)

\* The messages for i in the queues a and b.
LEMMA QueueParts ==
  ASSUME NEW i
  PROVE  /\ MessagesIn(i, <<>>) = <<>>
         /\ \A a \in Seq(Requests) : MessagesIn(i, a) \in Seq(Sendable)
         /\ \A r \in Requests : MessagesIn(i, <<r>>) =
              IF IsFor(i, r) THEN <<Carried(r)>> ELSE <<>>
         /\ \A a, b \in Seq(Requests) :
              MessagesIn(i, a \o b) = MessagesIn(i, a) \o MessagesIn(i, b)
<1> DEFINE f == [r \in Requests |-> IF IsFor(i, r) THEN <<Carried(r)>> ELSE <<>>]
<1>1. f \in [Requests -> Seq(Sendable)]
  <2>1. \A r \in Requests : IsFor(i, r) => Carried(r) \in Sendable
    BY RecordFields
  <2>2. <<>> \in Seq(Sendable) /\ \A m \in Sendable : <<m>> \in Seq(Sendable)
    BY EmptySeq
  <2> QED
    BY <2>1, <2>2
<1>2. ASSUME NEW a \in Seq(Requests)
      PROVE  MessagesIn(i, a) = FlatMap(f, a)
  <2>1. \A k \in 1..Len(a) :
          (IF IsFor(i, a[k]) THEN <<Carried(a[k])>> ELSE <<>>) = f[a[k]]
    BY ElementOfSeq
  <2> HIDE DEF f
  <2>2. [k \in 1..Len(a) |-> IF IsFor(i, a[k]) THEN <<Carried(a[k])>> ELSE <<>>]
          = [k \in 1..Len(a) |-> f[a[k]]]
    BY <2>1
  <2> QED
    BY <2>2 DEF MessagesIn, FlatMap, Carried
<1>3. \A r \in Requests : f[r] = IF IsFor(i, r) THEN <<Carried(r)>> ELSE <<>>
  OBVIOUS
<1> HIDE DEF f
<1>4. /\ FlatMap(f, <<>>) = <<>>
      /\ \A r \in Requests : FlatMap(f, <<r>>) = f[r]
      /\ \A a \in Seq(Requests) : FlatMap(f, a) \in Seq(Sendable)
      /\ \A a, b \in Seq(Requests) :
           FlatMap(f, a \o b) = FlatMap(f, a) \o FlatMap(f, b)
  <2>1. Flattened(f, Requests, Sendable)
    BY <1>1, FlatMapParts
  <2> QED
    BY <2>1 DEF Flattened
<1>5. /\ \A a, b \in Seq(Requests) : a \o b \in Seq(Requests)
      /\ <<>> \in Seq(Requests)
      /\ \A r \in Requests : <<r>> \in Seq(Requests)
  BY ConcatParts, EmptySeq
<1> QED
  BY <1>2, <1>3, <1>4, <1>5, ZenonT(60)

\* The messages of thread t among a and b.
LEMMA ThreadParts ==
  ASSUME NEW t
  PROVE  /\ SentBy(t, <<>>) = <<>>
         /\ \A a \in Seq(Sendable) : SentBy(t, a) \in Seq(Sendable)
         /\ \A m \in Sendable : SentBy(t, <<m>>) =
              IF m.body[1] = t THEN <<m>> ELSE <<>>
         /\ \A a, b \in Seq(Sendable) : SentBy(t, a \o b) = SentBy(t, a) \o SentBy(t, b)
<1> DEFINE f == [m \in Sendable |-> IF m.body[1] = t THEN <<m>> ELSE <<>>]
<1>0. <<>> \in Seq(Sendable) /\ \A m \in Sendable : <<m>> \in Seq(Sendable)
  BY EmptySeq
<1>1. f \in [Sendable -> Seq(Sendable)]
  BY <1>0
<1>2. ASSUME NEW a \in Seq(Sendable)
      PROVE  SentBy(t, a) = FlatMap(f, a)
  <2>1. \A k \in 1..Len(a) :
          (IF a[k].body[1] = t THEN <<a[k]>> ELSE <<>>) = f[a[k]]
    BY ElementOfSeq
  <2> HIDE DEF f
  <2>2. [k \in 1..Len(a) |-> IF a[k].body[1] = t THEN <<a[k]>> ELSE <<>>]
          = [k \in 1..Len(a) |-> f[a[k]]]
    BY <2>1
  <2> QED
    BY <2>2 DEF SentBy, FlatMap
<1>3. \A m \in Sendable : f[m] = IF m.body[1] = t THEN <<m>> ELSE <<>>
  OBVIOUS
<1> HIDE DEF f
<1>4. /\ FlatMap(f, <<>>) = <<>>
      /\ \A m \in Sendable : FlatMap(f, <<m>>) = f[m]
      /\ \A a \in Seq(Sendable) : FlatMap(f, a) \in Seq(Sendable)
      /\ \A a, b \in Seq(Sendable) :
           FlatMap(f, a \o b) = FlatMap(f, a) \o FlatMap(f, b)
  <2>1. Flattened(f, Sendable, Sendable)
    BY <1>1, FlatMapParts
  <2> QED
    BY <2>1 DEF Flattened
<1>5. \A a, b \in Seq(Sendable) : a \o b \in Seq(Sendable)
  BY ConcatParts
<1>6. \A m \in Sendable : FlatMap(f, <<m>>) = f[m] /\ <<m>> \in Seq(Sendable)
  BY <1>0, <1>4
<1>7. \A m \in Sendable : SentBy(t, <<m>>) = f[m]
  BY <1>2, <1>6
<1>8. SentBy(t, <<>>) = <<>>
  BY <1>0, <1>2, <1>4
<1>9. \A a, b \in Seq(Sendable) : SentBy(t, a \o b) = SentBy(t, a) \o SentBy(t, b)
  BY <1>2, <1>4, <1>5
<1> QED
  BY <1>2, <1>3, <1>4, <1>7, <1>8, <1>9

\* The messages of a and b that are also in o.
LEMMA AmongParts ==
  ASSUME NEW o
  PROVE  /\ Among(<<>>, o) = <<>>
         /\ \A m \in Sendable : Among(<<m>>, o) = IF In(m, o) THEN <<m>> ELSE <<>>
         /\ \A a, b \in Seq(Sendable) : Among(a \o b, o) = Among(a, o) \o Among(b, o)
         /\ \A a \in Seq(Sendable) : Among(a, o) \in Seq(Sendable)
<1> DEFINE f == [m \in Sendable |-> IF In(m, o) THEN <<m>> ELSE <<>>]
<1>0. <<>> \in Seq(Sendable) /\ \A m \in Sendable : <<m>> \in Seq(Sendable)
  BY EmptySeq
<1>1. f \in [Sendable -> Seq(Sendable)]
  BY <1>0
<1>2. ASSUME NEW a \in Seq(Sendable)
      PROVE  Among(a, o) = FlatMap(f, a)
  <2>1. \A k \in 1..Len(a) : (IF In(a[k], o) THEN <<a[k]>> ELSE <<>>) = f[a[k]]
    BY ElementOfSeq
  <2> HIDE DEF f
  <2>2. [k \in 1..Len(a) |-> IF In(a[k], o) THEN <<a[k]>> ELSE <<>>]
          = [k \in 1..Len(a) |-> f[a[k]]]
    BY <2>1
  <2> QED
    BY <2>2 DEF Among, FlatMap
<1>3. \A m \in Sendable : f[m] = IF In(m, o) THEN <<m>> ELSE <<>>
  OBVIOUS
<1> HIDE DEF f
<1>4. /\ FlatMap(f, <<>>) = <<>>
      /\ \A m \in Sendable : FlatMap(f, <<m>>) = f[m]
      /\ \A a \in Seq(Sendable) : FlatMap(f, a) \in Seq(Sendable)
      /\ \A a, b \in Seq(Sendable) :
           FlatMap(f, a \o b) = FlatMap(f, a) \o FlatMap(f, b)
  <2>1. Flattened(f, Sendable, Sendable)
    BY <1>1, FlatMapParts
  <2> QED
    BY <2>1 DEF Flattened
<1>5. \A a, b \in Seq(Sendable) : a \o b \in Seq(Sendable)
  BY ConcatParts
<1>6. \A m \in Sendable : FlatMap(f, <<m>>) = f[m] /\ <<m>> \in Seq(Sendable)
  BY <1>0, <1>4
<1>7. \A m \in Sendable : Among(<<m>>, o) = f[m]
  BY <1>2, <1>6
<1>8. Among(<<>>, o) = <<>>
  BY <1>0, <1>2, <1>4
<1>9. \A a, b \in Seq(Sendable) : Among(a \o b, o) = Among(a, o) \o Among(b, o)
  BY <1>2, <1>4, <1>5
<1> QED
  BY <1>2, <1>3, <1>4, <1>7, <1>8, <1>9

-----------------------------------------------------------------------------
(* The receiver's messages.                                                *)

\* What was serialized is read back.
LEMMA ReadsBack ==
  ASSUME NEW ms \in Seq(Serializable)
  PROVE  /\ serialize_all(ms) \in Seq(Bytes)
         /\ deserialize_all(serialize_all(ms)).msgs = ms
<1> DEFINE buf == serialize_all(ms)
           r == deserialize_all(buf)
           y == From(buf, r.pos)
<1>1. buf \in Seq(Bytes)
  BY SerializeAll
<1>2. Splits(r, buf)
  <2> HIDE DEF buf
  <2> QED
    BY <1>1, LoopSplitsBuffer
<1>3. r.msgs \in Seq(Serializable) /\ r.pos \in 0..Len(buf)
      /\ buf = serialize_all(r.msgs) \o y
      /\ deserialize_message(y).kind # "message"
  <2> HIDE DEF buf
  <2> QED
    BY <1>2 DEF Splits, Outcomes
<1>4. y \in Seq(Bytes)
  <2> HIDE DEF buf, r
  <2> QED
    BY <1>1, <1>3, SplitAt DEF From
<1>5. <<>> \in Seq(Bytes) /\ deserialize_message(<<>>).kind # "message"
  BY EmptySeq DEF deserialize_message, None, WORD
<1>6. serialize_all(ms) \o <<>> = serialize_all(r.msgs) \o y
  <2>1. buf \o <<>> = buf
    BY <1>1, ConcatEmptySeq
  <2> QED
    BY <1>3, <2>1
<1> HIDE DEF r, y, buf
<1>7. ms = r.msgs
  BY <1>3, <1>4, <1>5, <1>6, SplitUnique
<1> QED
  BY <1>1, <1>7 DEF r, buf

\* One more frame is one more message.
LEMMA OneMore ==
  ASSUME NEW ms \in Seq(Sendable), NEW m \in Sendable
  PROVE  LET buf == serialize_all(ms) \o serialize_message(m)
         IN /\ buf \in Seq(Bytes) /\ ms \o <<m>> \in Seq(Sendable)
            /\ buf = serialize_all(ms \o <<m>>)
            /\ deserialize_all(buf).msgs = ms \o <<m>>
<1>1. Sendable \subseteq Serializable
  BY SendableFields
<1>2. ms \in Seq(Serializable) /\ m \in Serializable /\ <<m>> \in Seq(Serializable)
      /\ <<m>> \in Seq(Sendable)
  BY <1>1, SeqMonotonic
<1>3. ms \o <<m>> \in Seq(Serializable)
  BY <1>2, ConcatParts
<1>4. ms \o <<m>> \in Seq(Sendable)
  BY <1>2, ConcatParts
<1>5. serialize_all(ms \o <<m>>) = serialize_all(ms) \o serialize_message(m)
  BY <1>2, SerializeAll
<1>6. /\ serialize_all(ms \o <<m>>) \in Seq(Bytes)
      /\ deserialize_all(serialize_all(ms \o <<m>>)).msgs = ms \o <<m>>
  BY <1>3, ReadsBack
<1> QED
  BY <1>4, <1>5, <1>6

\* What executing the request r adds on connection i.
Gain(i, r) == IF i \in live THEN MessagesIn(i, <<r>>) ELSE <<>>

Gains(r) == \A i \in Ids : Got(i)' = Got(i) \o Gain(i, r)

\* A request is executed: its message arrives, or its connections are gone.
LEMMA ExecuteEffect ==
  ASSUME Types, Whole, NEW r \in Requests, Execute(r)
  PROVE  /\ live' = IF r.op = "close" THEN live \ r.ids ELSE live
         /\ out' \in [Ids -> Seq(Bytes)]
         /\ Whole' /\ Gains(r)
<1>1. /\ r.op \in {"send", "broadcast", "close"}
      /\ r.op # "close" => Carried(r) \in Sendable
                           /\ r.data = serialize_message(Carried(r))
      /\ \A i \in Ids : MessagesIn(i, <<r>>) =
           IF IsFor(i, r) THEN <<Carried(r)>> ELSE <<>>
  BY RecordFields, QueueParts
<1>2. \A i \in Ids : Got(i) \in Seq(Sendable) /\ out[i] = serialize_all(Got(i))
                     /\ Got(i) \o <<>> = Got(i)
  BY ConcatEmptySeq DEF Whole
<1>3. out \in [Ids -> Seq(Bytes)]
  BY DEF Types
<1>4. CASE r.op = "close"
  <2>1. live' = live \ r.ids /\ out' = out
    BY <1>4 DEF Execute
  <2>2. \A i : Got(i)' = Got(i)
    BY <2>1 DEF Got, Received
  <2>3. \A i \in Ids : Gain(i, r) = <<>>
    BY <1>1, <1>4 DEF Gain, IsFor
  <2> QED
    BY <1>2, <1>3, <1>4, <2>1, <2>2, <2>3 DEF Whole, Gains
<1>5. CASE r.op # "close"
  <2>1. live' = live
        /\ out' = [i \in Ids |-> IF i \in Targets(r) THEN out[i] \o r.data
                                                     ELSE out[i]]
    BY <1>5 DEF Execute
  <2>2. ASSUME NEW i \in Ids
        PROVE  /\ out'[i] \in Seq(Bytes) /\ Got(i)' = Got(i) \o Gain(i, r)
               /\ Got(i)' \in Seq(Sendable) /\ out'[i] = serialize_all(Got(i)')
    <3>1. Got(i)' = deserialize_all(out'[i]).msgs
      BY DEF Got, Received
    <3>2. i \in Targets(r) <=> i \in live /\ IsFor(i, r)
      BY <1>1, <1>5 DEF Targets, IsFor
    <3>3. CASE i \in Targets(r)
      <4>1. out'[i] = serialize_all(Got(i)) \o serialize_message(Carried(r))
        BY <1>1, <1>2, <1>5, <2>1, <3>3
      <4>2. Gain(i, r) = <<Carried(r)>>
        BY <1>1, <3>2, <3>3 DEF Gain
      <4>3. Got(i) \in Seq(Sendable) /\ Carried(r) \in Sendable
        BY <1>1, <1>2, <1>5
      <4>4. PICK ms \in Seq(Sendable), m \in Sendable : ms = Got(i) /\ m = Carried(r)
        BY <4>3
      <4>5. LET buf == serialize_all(ms) \o serialize_message(m)
            IN /\ buf \in Seq(Bytes) /\ ms \o <<m>> \in Seq(Sendable)
               /\ buf = serialize_all(ms \o <<m>>)
               /\ deserialize_all(buf).msgs = ms \o <<m>>
        BY OneMore
      <4>6. out'[i] = serialize_all(ms) \o serialize_message(m)
        BY <4>1, <4>4
      <4>7. Got(i)' = ms \o <<m>>
        BY <3>1, <4>5, <4>6
      <4> QED
        BY <4>2, <4>4, <4>5, <4>6, <4>7
    <3>4. CASE i \notin Targets(r)
      <4>1. out'[i] = out[i]
        BY <2>1, <3>4
      <4>2. Gain(i, r) = <<>>
        BY <1>1, <3>2, <3>4 DEF Gain
      <4>3. Got(i)' = Got(i)
        BY <3>1, <4>1 DEF Got, Received
      <4> QED
        BY <1>2, <1>3, <4>1, <4>2, <4>3
    <3> QED
      BY <3>3, <3>4
  <2>3. out' \in [Ids -> Seq(Bytes)]
    BY <2>1, <2>2
  <2> QED
    BY <1>5, <2>1, <2>2, <2>3 DEF Whole, Gains
<1> QED
  BY <1>4, <1>5

-----------------------------------------------------------------------------
(* Calls.                                                                  *)

\* Below the bound there is a number left for the next message.
LEMMA NumberLeft ==
  ASSUME Types, Total < MaxCalls, NEW t \in Callers
  PROVE  Len(calls[t]) + 1 \in 1..MaxCalls
<1> DEFINE n == Len(calls[t])
           all == Callers \X (1..MaxCalls)
           made == {c \in all : c[2] <= Len(calls[c[1]])}
           own == {t} \X (1..MaxCalls)
<1>1. n \in Nat /\ MaxCalls \in Nat
  BY LenProperties, SendingAssumption DEF Types
<1>2. SUFFICES ASSUME n >= MaxCalls PROVE FALSE
  BY <1>1
<1>3. IsFiniteSet(1..MaxCalls) /\ Cardinality(1..MaxCalls) = MaxCalls
  BY <1>1, FS_Interval
<1>4. IsFiniteSet(Callers)
  <2>1. IsFiniteSet(0..(Base - 1))
    BY FramingAssumption, FS_Interval
  <2> QED
    BY <2>1, SendingAssumption, FS_Subset DEF Bytes
<1>5. IsFiniteSet(all)
  BY <1>3, <1>4, FS_Product
<1>6. made \in SUBSET all
  OBVIOUS
<1>7. own \in SUBSET made
  BY <1>1, <1>2
<1>8. Cardinality(own) = 1 * MaxCalls
  <2>1. IsFiniteSet({t}) /\ Cardinality({t}) = 1
    BY FS_Singleton
  <2>2. Cardinality({t} \X (1..MaxCalls)) = Cardinality({t}) * Cardinality(1..MaxCalls)
    BY <1>3, <2>1, FS_Product
  <2> QED
    BY <1>3, <2>1, <2>2
<1>9. Total = Cardinality(made)
  BY DEF Total
<1> HIDE DEF made, own, all
<1>10. IsFiniteSet(made)
  BY <1>5, <1>6, FS_Subset
<1>11. Cardinality(own) <= Cardinality(made) /\ Cardinality(made) \in Nat
  BY <1>7, <1>10, FS_Subset, FS_CardinalityType
<1> QED
  BY <1>1, <1>8, <1>9, <1>11

\* Thread t has called c, which is the request r: the owner's is executed,
\* another's is queued.
Made(t, c, r) ==
  /\ calls' = [calls EXCEPT ![t] = Append(@, c)]
  /\ IF t = Owner THEN Execute(r) /\ requests' = requests
                  ELSE /\ requests' = Append(requests, r)
                       /\ live' = live /\ out' = out
  /\ pc' = pc /\ ended' = ended

\* c and r are the same, and the message is the next one of t.
Same(t, c, r) ==
  /\ c.op = r.op /\ c.ids = r.ids
  /\ r.op # "close" => /\ c.msg = Carried(r) /\ c.msg.body[1] = t
                       /\ c.msg.body[2] = Len(calls[t]) + 1

\* Every call is of this form.
LEMMA CallEffect ==
  ASSUME Types, Calls
  PROVE  \E t \in Callers, c \in CallRecords, r \in Requests :
           Made(t, c, r) /\ Same(t, c, r)
<1>1. ASSUME NEW t \in Callers, NEW ctx \in Contexts, NEW op \in {"send", "broadcast"},
             NEW ids \in SUBSET Ids, Send(t, op, ids, ctx)
      PROVE  \E c \in CallRecords, r \in Requests : Made(t, c, r) /\ Same(t, c, r)
  <2> DEFINE m == NewMessage(t, ctx)
             r == Request(op, ids, serialize_message(m))
             c == [op |-> op, ids |-> ids, msg |-> m]
  <2>1. Call(t, r, m)
    BY <1>1 DEF Send
  <2>2. Total < MaxCalls
    BY <2>1 DEF Call
  <2>3. Len(calls[t]) + 1 \in 1..MaxCalls
    BY <2>2, NumberLeft
  <2>4. m \in Sendable /\ m.body[1] = t /\ m.body[2] = Len(calls[t]) + 1
    BY <2>3 DEF NewMessage, Sendable, Message
  <2> HIDE DEF m
  <2>5. r \in Requests /\ c \in CallRecords /\ r.op = op /\ r.ids = ids
        /\ r.data = serialize_message(m)
    BY <2>4 DEF Requests, CallRecords, Request
  <2>6. Made(t, c, r)
    BY <2>1, <2>5 DEF Call, Made, Enqueue
  <2>7. Carried(r) = m
    <3>1. m \in Serializable /\ <<>> \in Seq(Bytes)
      BY <2>4, SendableFields, EmptySeq
    <3>2. serialize_message(m) \o <<>> = serialize_message(m)
      BY <3>1, FrameParts, ConcatEmptySeq
    <3>3. deserialize_message(serialize_message(m) \o <<>>)
            = Some(m, Len(serialize_message(m)))
      BY <3>1, RoundTrip
    <3> QED
      BY <2>5, <3>2, <3>3 DEF Carried, Some
  <2>8. Same(t, c, r)
    BY <2>4, <2>5, <2>7 DEF Same
  <2> QED
    BY <2>5, <2>6, <2>8
<1>2. ASSUME NEW t \in Callers, NEW i \in Ids, close_connection(t, i)
      PROVE  \E c \in CallRecords, r \in Requests : Made(t, c, r) /\ Same(t, c, r)
  <2> DEFINE r == Request("close", {i}, <<>>)
             c == [op |-> "close", ids |-> {i}, msg |-> "none"]
  <2>1. Call(t, r, "none")
    BY <1>2 DEF close_connection
  <2>2. r \in Requests /\ c \in CallRecords /\ r.op = "close" /\ r.ids = {i}
    BY DEF Requests, CallRecords, Request
  <2>3. Made(t, c, r)
    BY <2>1, <2>2 DEF Call, Made, Enqueue
  <2>4. Same(t, c, r)
    BY <2>2 DEF Same
  <2> QED
    BY <2>2, <2>3, <2>4
<1>3. PICK t \in Callers :
        \/ \E ctx \in Contexts, op \in {"send", "broadcast"}, ids \in SUBSET Ids :
             Send(t, op, ids, ctx)
        \/ \E i \in Ids : close_connection(t, i)
  BY DEF Calls, send_to_with_context, send_to_many_with_context,
         broadcast_with_context, broadcast_except_with_context,
         broadcast_except_many_with_context
<1> QED
  BY <1>1, <1>2, <1>3

\* The messages of a call for i are those of its request, sent by its thread.
OwnMessages(t, c, r, i) ==
  /\ MessagesFor(i, <<c>>) = MessagesIn(i, <<r>>)
  /\ MessagesIn(i, <<r>>) \in Seq(Sendable)
  /\ SentBy(t, MessagesIn(i, <<r>>)) = MessagesIn(i, <<r>>)
  /\ \A u : u # t => SentBy(u, MessagesIn(i, <<r>>)) = <<>>

\* A request carries, to every connection, exactly the messages of its call.
LEMMA SameMessages ==
  ASSUME NEW t, NEW c \in CallRecords, NEW r \in Requests, Same(t, c, r)
  PROVE  \A i : OwnMessages(t, c, r, i)
<1> SUFFICES ASSUME NEW i PROVE OwnMessages(t, c, r, i)
  OBVIOUS
<1>1. MessagesFor(i, <<c>>) = IF IsFor(i, c) THEN <<c.msg>> ELSE <<>>
  BY CallParts
<1>2. MessagesIn(i, <<r>>) = IF IsFor(i, r) THEN <<Carried(r)>> ELSE <<>>
  BY QueueParts
<1>3. /\ IsFor(i, c) <=> IsFor(i, r)
      /\ IsFor(i, r) => /\ c.msg = Carried(r) /\ Carried(r).body[1] = t
                        /\ Carried(r) \in Sendable
  BY RecordFields DEF Same, IsFor
<1>4. MessagesFor(i, <<c>>) = MessagesIn(i, <<r>>)
  BY <1>1, <1>2, <1>3
<1>5. MessagesIn(i, <<r>>) \in Seq(Sendable)
  <2>1. <<r>> \in Seq(Requests)
    OBVIOUS
  <2> QED
    BY <2>1, QueueParts
<1>6. ASSUME NEW u
      PROVE  SentBy(u, MessagesIn(i, <<r>>)) = IF u = t THEN MessagesIn(i, <<r>>) ELSE <<>>
  <2>1. CASE IsFor(i, r)
    <3>1. SentBy(u, <<Carried(r)>>) = IF t = u THEN <<Carried(r)>> ELSE <<>>
      BY <1>3, <2>1, ThreadParts
    <3> QED
      BY <1>2, <2>1, <3>1
  <2>2. CASE ~IsFor(i, r)
    BY <1>2, <2>2, ThreadParts
  <2> QED
    BY <2>1, <2>2
<1> QED
  BY <1>4, <1>5, <1>6 DEF OwnMessages

-----------------------------------------------------------------------------
(* The order on two connections.                                           *)

\* What is in a concatenation.
LEMMA InParts ==
  /\ \A m : ~In(m, <<>>)
  /\ \A m, n \in Sendable : In(m, <<n>>) <=> m = n
  /\ \A m : \A a, b \in Seq(Sendable) : In(m, a \o b) <=> In(m, a) \/ In(m, b)
<1>1. \A m : ~In(m, <<>>)
  BY EmptySeq DEF In
<1>2. \A m, n \in Sendable : In(m, <<n>>) <=> m = n
  BY DEF In
<1>3. ASSUME NEW m, NEW a \in Seq(Sendable), NEW b \in Seq(Sendable)
      PROVE  In(m, a \o b) <=> In(m, a) \/ In(m, b)
  <2>1. /\ Len(a) \in Nat /\ Len(b) \in Nat /\ Len(a \o b) = Len(a) + Len(b)
        /\ \A k \in 1..Len(a) : (a \o b)[k] = a[k]
        /\ \A k \in 1..Len(b) : (a \o b)[Len(a) + k] = b[k]
    BY ConcatParts, LenProperties
  <2>2. \A k \in 1..Len(a) : k \in 1..Len(a \o b)
    BY <2>1
  <2>3. \A k \in 1..Len(b) : Len(a) + k \in 1..Len(a \o b)
    BY <2>1
  <2>4. \A k \in 1..Len(a \o b) :
          k \in 1..Len(a) \/ (k - Len(a) \in 1..Len(b) /\ Len(a) + (k - Len(a)) = k)
    BY <2>1
  <2>5. \A k \in 1..Len(a \o b) : (a \o b)[k] = m => In(m, a) \/ In(m, b)
    <3> SUFFICES ASSUME NEW k \in 1..Len(a \o b), (a \o b)[k] = m
                 PROVE  In(m, a) \/ In(m, b)
      OBVIOUS
    <3>1. CASE k \in 1..Len(a)
      BY <2>1, <3>1 DEF In
    <3>2. CASE k - Len(a) \in 1..Len(b) /\ Len(a) + (k - Len(a)) = k
      <4>1. PICK l \in 1..Len(b) : Len(a) + l = k
        BY <3>2
      <4>2. b[l] = m
        BY <2>1, <4>1
      <4> QED
        BY <4>2 DEF In
    <3> QED
      BY <2>4, <3>1, <3>2
  <2>6. In(m, a) => In(m, a \o b)
    BY <2>1, <2>2 DEF In
  <2>7. In(m, b) => In(m, a \o b)
    BY <2>1, <2>3 DEF In
  <2> QED
    BY <2>5, <2>6, <2>7 DEF In
<1> QED
  BY <1>1, <1>2, <1>3

\* A step adds at most one message to a connection.
LEMMA AtMostOne ==
  \A m \in Sendable : {<<>>, <<m>>} \subseteq Seq(Sendable)
<1>1. <<>> \in Seq(Sendable) /\ \A m \in Sendable : <<m>> \in Seq(Sendable)
  BY EmptySeq
<1> QED
  BY <1>1

\* A message that is not in a adds nothing to what a shares with others.
LEMMA AmongSame ==
  ASSUME NEW a \in Seq(Sendable), NEW b \in Seq(Sendable), NEW m \in Sendable,
         NEW y \in {<<>>, <<m>>}, ~In(m, a)
  PROVE  Among(a, b \o y) = Among(a, b)
<1>1. ASSUME NEW k \in 1..Len(a)
      PROVE  In(a[k], b \o y) <=> In(a[k], b)
  <2>1. a[k] \in Sendable /\ a[k] # m
    BY ElementOfSeq DEF In
  <2>2. y \in Seq(Sendable)
    BY AtMostOne
  <2>3. In(a[k], b \o y) <=> In(a[k], b) \/ In(a[k], y)
    BY <2>2, InParts
  <2>4. ~In(a[k], y)
    BY <2>1, InParts
  <2> QED
    BY <2>3, <2>4
<1>2. [k \in 1..Len(a) |-> IF In(a[k], b \o y) THEN <<a[k]>> ELSE <<>>]
        = [k \in 1..Len(a) |-> IF In(a[k], b) THEN <<a[k]>> ELSE <<>>]
  BY <1>1
<1> QED
  BY <1>2 DEF Among

\* A new message at the end of one, of both, or of none.
LEMMA AmongGrow ==
  ASSUME NEW a \in Seq(Sendable), NEW b \in Seq(Sendable), NEW m \in Sendable,
         NEW x \in {<<>>, <<m>>}, NEW y \in {<<>>, <<m>>}, ~In(m, a), ~In(m, b),
         Among(a, b) = Among(b, a)
  PROVE  Among(a \o x, b \o y) = Among(b \o y, a \o x)
<1>1. ASSUME NEW u \in Seq(Sendable), NEW v \in Seq(Sendable), ~In(m, u), ~In(m, v),
             NEW p \in {<<>>, <<m>>}, NEW q \in {<<>>, <<m>>}
      PROVE  Among(u \o p, v \o q) = Among(u, v)
               \o (IF p = <<m>> /\ q = <<m>> THEN <<m>> ELSE <<>>)
  <2>1. p \in Seq(Sendable) /\ q \in Seq(Sendable)
    BY AtMostOne
  <2>2. Among(u \o p, v \o q) = Among(u, v \o q) \o Among(p, v \o q)
    BY <2>1, AmongParts, ZenonT(60)
  <2>3. Among(u, v \o q) = Among(u, v)
    BY <1>1, AmongSame
  <2>4. In(m, v \o q) <=> q = <<m>>
    <3>1. In(m, v \o q) <=> In(m, v) \/ In(m, q)
      BY <2>1, InParts
    <3>2. In(m, q) <=> q = <<m>>
      <4>1. ~In(m, <<>>) /\ In(m, <<m>>)
        BY InParts
      <4>2. <<>> # <<m>>
        OBVIOUS
      <4> QED
        BY <4>1, <4>2
    <3> QED
      BY <1>1, <3>1, <3>2
  <2>5. Among(p, v \o q) = IF p = <<m>> /\ q = <<m>> THEN <<m>> ELSE <<>>
    <3>1. CASE p = <<>>
      <4>1. <<>> # <<m>>
        OBVIOUS
      <4> QED
        BY <3>1, <4>1, AmongParts
    <3>2. CASE p = <<m>>
      <4>1. Among(<<m>>, v \o q) = IF In(m, v \o q) THEN <<m>> ELSE <<>>
        BY AmongParts
      <4> QED
        BY <2>4, <3>2, <4>1
    <3> QED
      BY <3>1, <3>2
  <2> QED
    BY <2>2, <2>3, <2>5
<1>2. Among(a \o x, b \o y) = Among(a, b)
        \o (IF x = <<m>> /\ y = <<m>> THEN <<m>> ELSE <<>>)
  BY <1>1, ZenonT(60)
<1>3. Among(b \o y, a \o x) = Among(b, a)
        \o (IF y = <<m>> /\ x = <<m>> THEN <<m>> ELSE <<>>)
  BY <1>1
<1>4. (IF x = <<m>> /\ y = <<m>> THEN <<m>> ELSE <<>>)
        = (IF y = <<m>> /\ x = <<m>> THEN <<m>> ELSE <<>>)
  OBVIOUS
<1> QED
  BY <1>2, <1>3, <1>4

-----------------------------------------------------------------------------
(* Beginnings of sequences.                                                *)

\* A new last element leaves the beginnings alone.
LEMMA BeginningOfAppend ==
  ASSUME NEW S, NEW s \in Seq(S), NEW e \in S
  PROVE  /\ \A k \in 0..Len(s) : SubSeq(Append(s, e), 1, k) = SubSeq(s, 1, k)
         /\ SubSeq(Append(s, e), 1, Len(s) + 1) = Append(s, e)
<1>1. Len(s) \in Nat /\ Append(s, e) = s \o <<e>> /\ Append(s, e) \in Seq(S)
      /\ Len(Append(s, e)) = Len(s) + 1 /\ <<e>> \in Seq(S)
  BY LenProperties, AppendIsConcat, AppendProperties
<1>2. ASSUME NEW k \in 0..Len(s)
      PROVE  SubSeq(Append(s, e), 1, k) = SubSeq(s, 1, k)
  <2>1. CASE k = 0
    BY <2>1, SubSeqEmpty
  <2>2. CASE k # 0
    <3>1. 1 \in 1..Len(s) /\ k \in 1..Len(s)
      BY <1>1, <2>2
    <3> QED
      BY <1>1, <3>1, SubSeqOfConcat1
  <2> QED
    BY <2>1, <2>2
<1>3. SubSeq(Append(s, e), 1, Len(s) + 1) = Append(s, e)
  BY <1>1, SubSeqFull
<1> QED
  BY <1>2, <1>3

\* A beginning is the head and a beginning of the tail.
LEMMA BeginningOfTail ==
  ASSUME NEW S, NEW s \in Seq(S), s # <<>>
  PROVE  \A k \in 1..Len(s) :
           SubSeq(s, 1, k) = <<Head(s)>> \o SubSeq(Tail(s), 1, k - 1)
<1>1. /\ Head(s) \in S /\ Tail(s) \in Seq(S) /\ Len(Tail(s)) = Len(s) - 1
      /\ \A i \in 1..Len(Tail(s)) : Tail(s)[i] = s[i + 1]
      /\ Len(s) \in Nat \ {0} /\ Head(s) = s[1]
  BY HeadTailProperties, EmptySeq
<1> SUFFICES ASSUME NEW k \in 1..Len(s)
             PROVE  SubSeq(s, 1, k) = <<Head(s)>> \o SubSeq(Tail(s), 1, k - 1)
  OBVIOUS
<1>2. SubSeq(s, 1, k) = <<s[1]>> \o SubSeq(s, 2, k)
  <2>1. 1 \in 1..Len(s) /\ k \in 1..Len(s) /\ 1 + 1 = 2
    BY <1>1
  <2> QED
    BY <2>1, SubSeqRecursiveFirst
<1>3. /\ SubSeq(Tail(s), 1, k - 1) \in Seq(S) /\ Len(SubSeq(Tail(s), 1, k - 1)) = k - 1
      /\ \A j \in 1..(k - 1) : SubSeq(Tail(s), 1, k - 1)[j] = Tail(s)[j]
  <2>1. k - 1 \in 0..Len(Tail(s))
    BY <1>1
  <2> QED
    BY <1>1, <2>1, SplitAt
<1>4. /\ SubSeq(s, 2, k) \in Seq(S) /\ Len(SubSeq(s, 2, k)) = k - 1
      /\ \A j \in 1..(k - 1) : SubSeq(s, 2, k)[j] = s[j + 1]
  <2>1. 2 \in Int /\ k \in Int /\ \A j \in 2..k : s[j] \in S
    BY <1>1, ElementOfSeq
  <2>2. /\ SubSeq(s, 2, k) \in Seq(S)
        /\ Len(SubSeq(s, 2, k)) = IF 2 <= k THEN k - 2 + 1 ELSE 0
        /\ \A j \in 1..(k - 2 + 1) : SubSeq(s, 2, k)[j] = s[2 + j - 1]
    BY <2>1, SubSeqProperties
  <2>3. k - 2 + 1 = k - 1 /\ \A j \in 1..(k - 1) : 2 + j - 1 = j + 1
    BY <1>1
  <2> QED
    BY <2>2, <2>3, <1>1
<1>5. \A j \in 1..(k - 1) : j \in 1..Len(Tail(s))
  BY <1>1
<1>6. SubSeq(Tail(s), 1, k - 1) = SubSeq(s, 2, k)
  BY <1>1, <1>3, <1>4, <1>5, SeqEqual
<1> QED
  BY <1>1, <1>2, <1>6

-----------------------------------------------------------------------------
(* What a request does to each part of the invariant.                      *)

\* What arrives, by thread.
LEMMA ArrivedGrows ==
  ASSUME Types, Whole, NEW r \in Requests, Gains(r), NEW i \in Ids, NEW t
  PROVE  /\ Gain(i, r) \in Seq(Sendable) /\ Arrived(t, i) \in Seq(Sendable)
         /\ SentBy(t, Gain(i, r)) \in Seq(Sendable)
         /\ Arrived(t, i)' = Arrived(t, i) \o SentBy(t, Gain(i, r))
<1>1. Gain(i, r) \in Seq(Sendable)
  <2>1. <<r>> \in Seq(Requests) /\ <<>> \in Seq(Sendable)
    BY EmptySeq
  <2> QED
    BY <2>1, QueueParts DEF Gain
<1>2. Got(i) \in Seq(Sendable) /\ Got(i)' = Got(i) \o Gain(i, r)
  BY DEF Whole, Gains
<1>3. Arrived(t, i) = SentBy(t, Got(i)) /\ Arrived(t, i)' = SentBy(t, Got(i)')
  BY DEF Arrived, Got
<1>4. SentBy(t, Got(i) \o Gain(i, r)) = SentBy(t, Got(i)) \o SentBy(t, Gain(i, r))
      /\ SentBy(t, Got(i)) \in Seq(Sendable) /\ SentBy(t, Gain(i, r)) \in Seq(Sendable)
  BY <1>1, <1>2, ThreadParts
<1> QED
  BY <1>1, <1>2, <1>3, <1>4

\* What was there, and the message of the request.
LEMMA GotParts ==
  ASSUME Types, Whole, NEW r \in Requests, Gains(r), NEW i \in Ids, NEW m,
         In(m, Got(i)')
  PROVE  In(m, Got(i)) \/ (r.op # "close" /\ m = Carried(r))
<1>1. PICK a \in Seq(Sendable) : a = Got(i)
  BY DEF Whole
<1>2. Got(i)' = a \o Gain(i, r)
  BY <1>1 DEF Gains
<1>3. CASE Gain(i, r) = <<>>
  <2>1. a \o <<>> = a
    BY ConcatEmptySeq
  <2> QED
    BY <1>1, <1>2, <1>3, <2>1
<1>4. CASE r.op # "close" /\ Gain(i, r) = <<Carried(r)>>
  <2>1. PICK n \in Sendable : n = Carried(r)
    BY <1>4, RecordFields
  <2>2. <<n>> \in Seq(Sendable) /\ In(m, a \o <<n>>)
    BY <1>2, <1>4, <2>1
  <2>3. In(m, a) \/ In(m, <<n>>)
    BY <2>2, InParts
  <2>4. In(m, <<n>>) => m = n
    BY DEF In
  <2> QED
    BY <1>1, <1>4, <2>1, <2>3, <2>4
<1>5. Gain(i, r) = <<>> \/ (r.op # "close" /\ Gain(i, r) = <<Carried(r)>>)
  BY QueueParts, RecordFields DEF Gain
<1> QED
  BY <1>3, <1>4, <1>5

\* One message for several connections does not disturb their order.
LEMMA OrderKept ==
  ASSUME Types, Whole, SameOrderEverywhere, NEW r \in Requests, Gains(r),
         live' \subseteq live,
         r.op # "close" => \A i \in Ids : ~In(Carried(r), Got(i))
  PROVE  SameOrderEverywhere'
<1>1. SUFFICES ASSUME NEW i \in live', NEW j \in live'
               PROVE  Among(Got(i)', Got(j)') = Among(Got(j)', Got(i)')
  BY DEF SameOrderEverywhere, Got
<1>2. i \in live /\ j \in live /\ i \in Ids /\ j \in Ids
  BY DEF Types
<1>3. Got(i) \in Seq(Sendable) /\ Got(j) \in Seq(Sendable)
      /\ Got(i)' = Got(i) \o Gain(i, r) /\ Got(j)' = Got(j) \o Gain(j, r)
  BY <1>2 DEF Whole, Gains
<1>4. Among(Got(i), Got(j)) = Among(Got(j), Got(i))
  BY <1>2 DEF SameOrderEverywhere, Got
<1>5. CASE r.op = "close"
  <2>1. Gain(i, r) = <<>> /\ Gain(j, r) = <<>>
    BY <1>5, QueueParts DEF Gain, IsFor
  <2>2. Got(i)' = Got(i) /\ Got(j)' = Got(j)
    BY <1>3, <2>1, ConcatEmptySeq
  <2> QED
    BY <1>4, <2>2
<1>6. CASE r.op # "close"
  <2>1. Carried(r) \in Sendable /\ ~In(Carried(r), Got(i)) /\ ~In(Carried(r), Got(j))
    BY <1>2, <1>6, RecordFields
  <2>2. Gain(i, r) \in {<<>>, <<Carried(r)>>} /\ Gain(j, r) \in {<<>>, <<Carried(r)>>}
    BY QueueParts DEF Gain
  <2>3. PICK a \in Seq(Sendable), b \in Seq(Sendable), m \in Sendable :
          a = Got(i) /\ b = Got(j) /\ m = Carried(r)
    BY <1>3, <2>1
  <2>x. PICK x \in {<<>>, <<m>>}, y \in {<<>>, <<m>>} :
          x = Gain(i, r) /\ y = Gain(j, r)
    BY <2>2, <2>3
  <2>4. ~In(m, a) /\ ~In(m, b) /\ Among(a, b) = Among(b, a)
    BY <1>4, <2>1, <2>3
  <2>5. Among(a \o x, b \o y) = Among(b \o y, a \o x)
    BY <2>4, AmongGrow
  <2>6. Got(i)' = a \o x /\ Got(j)' = b \o y
    BY <1>3, <2>3, <2>x
  <2> QED
    BY <2>5, <2>6
<1> QED
  BY <1>5, <1>6

\* A new message is in no place yet.
LEMMA NewIsNew ==
  ASSUME Types, Whole, Numbered, NEW t \in Callers, NEW m, m.body[1] = t,
         m.body[2] = Len(calls[t]) + 1
  PROVE  /\ ~Called(m) /\ \A i \in Ids : ~In(m, Got(i))
         /\ \A p \in 1..Len(requests) :
              requests[p].op # "close" => Carried(requests[p]) # m
<1>1. Len(calls[t]) \in Nat
  BY LenProperties DEF Types
<1>2. ~Called(m)
  BY <1>1 DEF Called
<1> QED
  BY <1>2 DEF Numbered, In

\* A call leaves earlier calls alone.
LEMMA CalledStays ==
  ASSUME Types, NEW t \in Callers, NEW c \in CallRecords,
         calls' = [calls EXCEPT ![t] = Append(@, c)]
  PROVE  /\ calls' \in [Callers -> Seq(CallRecords)]
         /\ \A m \in Sendable : Called(m) => Called(m)'
         /\ \A m \in Sendable : m.body[1] = t /\ m.body[2] = Len(calls[t]) + 1
                                  => Called(m)'
<1>1. \A u \in Callers : calls[u] \in Seq(CallRecords) /\ Len(calls[u]) \in Nat
  BY LenProperties DEF Types
<1>2. /\ Append(calls[t], c) \in Seq(CallRecords)
      /\ Len(Append(calls[t], c)) = Len(calls[t]) + 1
  BY <1>1, AppendProperties
<1>3. calls' \in [Callers -> Seq(CallRecords)]
  BY <1>1, <1>2 DEF Types
<1>4. \A u \in Callers : Len(calls'[u]) = IF u = t THEN Len(calls[u]) + 1 ELSE Len(calls[u])
  BY <1>2 DEF Types
<1>5. \A m \in Sendable : m.body[1] \in Callers /\ m.body[2] \in Nat
  BY SendableFields
<1> QED
  BY <1>1, <1>3, <1>4, <1>5 DEF Called

-----------------------------------------------------------------------------
(* The owner calls.                                                        *)

\* The owner's request and its message.
LEMMA OwnerFacts ==
  ASSUME Inv, NEW c \in CallRecords, NEW r \in Requests, Made(Owner, c, r),
         Same(Owner, c, r)
  PROVE  /\ Types' /\ Whole' /\ Gains(r)
         /\ live' = IF r.op = "close" THEN live \ r.ids ELSE live
         /\ live' \subseteq live /\ Owner \in Callers
         /\ r.op # "close" => \A i \in Ids : ~In(Carried(r), Got(i))
<1>1. Types /\ Whole /\ Numbered /\ Owner \in Callers
  BY DEF Inv, Callers
<1>2. /\ calls' = [calls EXCEPT ![Owner] = Append(@, c)]
      /\ Execute(r) /\ requests' = requests /\ pc' = pc /\ ended' = ended
  BY DEF Made
<1>3. /\ live' = IF r.op = "close" THEN live \ r.ids ELSE live
      /\ out' \in [Ids -> Seq(Bytes)] /\ Whole' /\ Gains(r)
  BY <1>1, <1>2, ExecuteEffect
<1>4. calls' \in [Callers -> Seq(CallRecords)]
  BY <1>1, <1>2, CalledStays
<1>5. live' \subseteq live
  BY <1>3
<1>6. Types'
  BY <1>1, <1>2, <1>3, <1>4, <1>5 DEF Types
<1>7. ASSUME r.op # "close" PROVE \A i \in Ids : ~In(Carried(r), Got(i))
  <2>1. Carried(r).body[1] = Owner /\ Carried(r).body[2] = Len(calls[Owner]) + 1
    BY <1>7 DEF Same
  <2> QED
    BY <1>1, <2>1, NewIsNew
<1> QED
  BY <1>1, <1>3, <1>5, <1>6, <1>7

\* A call of the owner keeps messages numbered and apart, and nothing of its own
\* in the queue: it executes in the call.
LEMMA OwnerNumbered ==
  ASSUME Inv, NEW c \in CallRecords, NEW r \in Requests, Made(Owner, c, r),
         Same(Owner, c, r)
  PROVE  Numbered' /\ Apart' /\ OwnerNeverWaits'
<1>1. Types /\ Whole /\ Numbered /\ Apart /\ OwnerNeverWaits /\ Owner \in Callers
  BY DEF Inv, Callers
<1>2. Gains(r) /\ Whole'
  BY OwnerFacts
<1>3. calls' = [calls EXCEPT ![Owner] = Append(@, c)] /\ requests' = requests
  BY DEF Made
<1>4. /\ \A m \in Sendable : Called(m) => Called(m)'
      /\ \A m \in Sendable : m.body[1] = Owner /\ m.body[2] = Len(calls[Owner]) + 1
                               => Called(m)'
  BY <1>1, <1>3, CalledStays
<1>5. ASSUME NEW i \in Ids, NEW m \in Sendable, In(m, Got(i)'), ~Called(m)
      PROVE  r.op # "close" /\ m = Carried(r)
  <2>1. ~In(m, Got(i))
    BY <1>1, <1>5 DEF Numbered, In
  <2> QED
    BY <1>1, <1>2, <1>5, <2>1, GotParts
<1>6. ASSUME NEW i \in Ids, NEW m \in Sendable, In(m, Got(i)')
      PROVE  Called(m)'
  <2>1. CASE Called(m)
    BY <1>4, <2>1
  <2>2. CASE ~Called(m)
    <3>1. r.op # "close" /\ m = Carried(r)
      BY <1>5, <1>6, <2>2
    <3>2. m.body[1] = Owner /\ m.body[2] = Len(calls[Owner]) + 1
      BY <3>1 DEF Same
    <3> QED
      BY <1>4, <3>2
  <2> QED
    BY <2>1, <2>2
<1>7. ASSUME NEW p \in 1..Len(requests), requests[p].op # "close"
      PROVE  Called(Carried(requests[p]))'
  <2>1. requests[p] \in Requests
    BY <1>1, ElementOfSeq DEF Types
  <2>2. PICK m \in Sendable : m = Carried(requests[p])
    BY <1>7, <2>1, RecordFields
  <2>3. Called(m)
    BY <1>1, <1>7, <2>2 DEF Numbered
  <2>4. Called(m)'
    BY <1>4, <2>3
  <2> QED
    BY <1>3, <2>2, <2>4 DEF Called, Carried
<1>8. Numbered'
  <2>1. \A i \in Ids : Got(i)' \in Seq(Sendable)
    BY <1>2 DEF Whole
  <2>2. \A i \in Ids : \A l \in 1..Len(Got(i)') :
          Got(i)'[l] \in Sendable /\ In(Got(i)'[l], Got(i)')
    BY <2>1, ElementOfSeq DEF In
  <2> QED
    BY <1>3, <1>6, <1>7, <2>2 DEF Numbered, Called, Carried
<1>9. Apart'
  <2> SUFFICES ASSUME NEW p \in 1..Len(requests), requests[p].op # "close",
                      NEW i \in Ids, In(Carried(requests[p]), Got(i)')
               PROVE  FALSE
    BY <1>1, <1>3 DEF Apart, Carried
  <2>1. ~In(Carried(requests[p]), Got(i))
    BY <1>1 DEF Apart
  <2>2. r.op # "close" /\ Carried(requests[p]) = Carried(r)
    BY <1>1, <1>2, <2>1, GotParts
  <2>3. Carried(r).body[1] = Owner /\ Carried(r).body[2] = Len(calls[Owner]) + 1
    BY <2>2 DEF Same
  <2> QED
    BY <1>1, <2>2, <2>3, NewIsNew
<1>10. OwnerNeverWaits'
  BY <1>1, <1>3 DEF OwnerNeverWaits, Waiting
<1> QED
  BY <1>8, <1>9, <1>10

\* A call of the owner keeps every caller served in order.
LEMMA OwnerServed ==
  ASSUME Inv, NEW c \in CallRecords, NEW r \in Requests, Made(Owner, c, r),
         Same(Owner, c, r)
  PROVE  CallersServedInOrder'
<1>1. /\ Types /\ Whole /\ Gains(r) /\ Owner \in Callers /\ live' \subseteq live
      /\ live \subseteq Ids /\ OwnerNeverWaits
  BY OwnerFacts DEF Inv, Types
<1>2. calls' = [calls EXCEPT ![Owner] = Append(@, c)] /\ requests' = requests
  BY DEF Made
<1> SUFFICES ASSUME NEW t \in Callers, NEW i \in live'
             PROVE  MessagesFor(i, calls'[t]) = Arrived(t, i)' \o Waiting(t, i)'
  BY DEF CallersServedInOrder
<1>3. i \in Ids /\ i \in live /\ Waiting(t, i)' = Waiting(t, i)
  BY <1>1, <1>2 DEF Waiting
<1>4. MessagesFor(i, calls[t]) = Arrived(t, i) \o Waiting(t, i)
  BY <1>3 DEF Inv, CallersServedInOrder
<1> DEFINE d == MessagesIn(i, <<r>>)
<1>5. /\ MessagesFor(i, <<c>>) = d /\ d \in Seq(Sendable) /\ SentBy(Owner, d) = d
      /\ \A u : u # Owner => SentBy(u, d) = <<>>
  <2>1. OwnMessages(Owner, c, r, i)
    BY SameMessages
  <2> QED
    BY <2>1 DEF OwnMessages
<1>6. Arrived(t, i) \in Seq(Sendable) /\ Arrived(t, i)' = Arrived(t, i) \o SentBy(t, d)
  BY <1>1, <1>3, ArrivedGrows DEF Gain
<1> HIDE DEF d
<1>7. CASE t = Owner
  <2>1. Waiting(t, i) = <<>>
    BY <1>1, <1>3, <1>7 DEF OwnerNeverWaits
  <2>2. MessagesFor(i, calls[t]) = Arrived(t, i)
    BY <1>4, <1>6, <2>1, ConcatEmptySeq
  <2>3. MessagesFor(i, calls'[t]) = MessagesFor(i, calls[t]) \o d
    <3>1. calls[t] \in Seq(CallRecords) /\ <<c>> \in Seq(CallRecords)
      BY <1>1 DEF Types
    <3>2. calls'[t] = calls[t] \o <<c>>
      BY <1>1, <1>2, <1>7, <3>1, AppendIsConcat DEF Types
    <3>3. MessagesFor(i, calls[t] \o <<c>>)
            = MessagesFor(i, calls[t]) \o MessagesFor(i, <<c>>)
      BY <3>1, CallParts
    <3> QED
      BY <1>5, <3>2, <3>3
  <2>4. Arrived(t, i) \o d \in Seq(Sendable)
    BY <1>5, <1>6, ConcatParts
  <2>5. Arrived(t, i)' \o <<>> = Arrived(t, i)'
    BY <1>5, <1>6, <1>7, <2>4, ConcatEmptySeq
  <2> QED
    BY <1>3, <1>5, <1>6, <1>7, <2>1, <2>2, <2>3, <2>5
<1>8. CASE t # Owner
  <2>1. calls'[t] = calls[t]
    BY <1>1, <1>2, <1>8 DEF Types
  <2>2. Arrived(t, i)' = Arrived(t, i)
    BY <1>5, <1>6, <1>8, ConcatEmptySeq
  <2> QED
    BY <1>3, <1>4, <2>1, <2>2
<1> QED
  BY <1>7, <1>8

\* A call of the owner keeps every close behind the messages before it.
LEMMA OwnerCloses ==
  ASSUME Inv, NEW c \in CallRecords, NEW r \in Requests, Made(Owner, c, r),
         Same(Owner, c, r)
  PROVE  CloseWaits' /\ CloseComesLast'
<1>1. /\ Types /\ Whole /\ Gains(r) /\ Owner \in Callers /\ live' \subseteq live
      /\ live \subseteq Ids /\ OwnerNeverWaits
      /\ live' = IF r.op = "close" THEN live \ r.ids ELSE live
  BY OwnerFacts DEF Inv, Types
<1>2. calls' = [calls EXCEPT ![Owner] = Append(@, c)] /\ requests' = requests
      /\ ended' = ended
  BY DEF Made
<1>3. \A t \in Others : t # Owner /\ t \in Callers
  BY SendingAssumption DEF Callers
<1>4. ASSUME NEW t, t # Owner, NEW i \in Ids
      PROVE  Arrived(t, i)' = Arrived(t, i)
  <2>1. SentBy(t, Gain(i, r)) = <<>>
    <3>1. SentBy(t, MessagesIn(i, <<r>>)) = <<>>
      <4>1. OwnMessages(Owner, c, r, i)
        BY SameMessages
      <4> QED
        BY <1>4, <4>1 DEF OwnMessages
    <3> QED
      BY <3>1, ThreadParts DEF Gain
  <2> QED
    BY <1>1, <2>1, ArrivedGrows, ConcatEmptySeq
<1>5. CloseWaits'
  <2> SUFFICES ASSUME NEW p \in 1..Len(requests), requests[p].op = "close"
               PROVE  \E t \in Others : \E k \in 1..Len(calls'[t]) :
                 ClosesAt(t, k, requests[p].ids, SubSeq(requests, 1, p - 1))'
    BY <1>2 DEF CloseWaits, ClosesAt
  <2>1. PICK t \in Others : \E k \in 1..Len(calls[t]) :
          ClosesAt(t, k, requests[p].ids, SubSeq(requests, 1, p - 1))
    BY DEF Inv, CloseWaits
  <2>2. PICK k \in 1..Len(calls[t]) :
          ClosesAt(t, k, requests[p].ids, SubSeq(requests, 1, p - 1))
    BY <2>1
  <2>3. calls'[t] = calls[t]
    BY <1>1, <1>2, <1>3 DEF Types
  <2>4. \A i \in live' : i \in live /\ Arrived(t, i)' = Arrived(t, i)
    BY <1>1, <1>3, <1>4
  <2>5. ClosesAt(t, k, requests[p].ids, SubSeq(requests, 1, p - 1))'
    BY <1>2, <2>2, <2>3, <2>4 DEF ClosesAt
  <2> QED
    BY <2>3, <2>5
<1>6. CloseComesLast'
  <2> SUFFICES ASSUME NEW i \in Ids \ (live' \cup ended)
               PROVE  \E t \in Callers : \E k \in 1..Len(calls'[t]) :
                 /\ calls'[t][k].op = "close" /\ i \in calls'[t][k].ids
                 /\ MessagesFor(i, SubSeq(calls'[t], 1, k)) = Arrived(t, i)'
    BY <1>2 DEF CloseComesLast
  <2>1. CASE i \notin live
    <3>1. PICK t \in Callers : \E k \in 1..Len(calls[t]) :
                 /\ calls[t][k].op = "close" /\ i \in calls[t][k].ids
                 /\ MessagesFor(i, SubSeq(calls[t], 1, k)) = Arrived(t, i)
      BY <2>1 DEF Inv, CloseComesLast
    <3>2. PICK k \in 1..Len(calls[t]) :
                 /\ calls[t][k].op = "close" /\ i \in calls[t][k].ids
                 /\ MessagesFor(i, SubSeq(calls[t], 1, k)) = Arrived(t, i)
      BY <3>1
    <3>3. Arrived(t, i)' = Arrived(t, i)
      <4>1. Gain(i, r) = <<>> /\ SentBy(t, <<>>) = <<>>
        BY <2>1, ThreadParts DEF Gain
      <4> QED
        BY <1>1, <4>1, ArrivedGrows, ConcatEmptySeq, SMTT(60)
    <3>4. /\ k \in 1..Len(calls'[t]) /\ calls'[t][k] = calls[t][k]
          /\ SubSeq(calls'[t], 1, k) = SubSeq(calls[t], 1, k)
      <4>1. calls[t] \in Seq(CallRecords) /\ Len(calls[t]) \in Nat
        BY <1>1, LenProperties DEF Types
      <4>2. calls'[t] = calls[t] \/ calls'[t] = Append(calls[t], c)
        BY <1>1, <1>2 DEF Types
      <4>3. /\ Len(Append(calls[t], c)) = Len(calls[t]) + 1
            /\ Append(calls[t], c)[k] = calls[t][k]
        BY <4>1, AppendProperties
      <4>4. SubSeq(Append(calls[t], c), 1, k) = SubSeq(calls[t], 1, k)
        BY <4>1, BeginningOfAppend
      <4> QED
        BY <4>1, <4>2, <4>3, <4>4, SMTT(60)
    <3> QED
      BY <3>2, <3>3, <3>4
  <2>2. CASE i \in live
    <3>1. r.op = "close" /\ i \in r.ids /\ c.op = "close" /\ i \in c.ids
      BY <1>1, <2>2 DEF Same
    <3> DEFINE s == calls[Owner]
               k == Len(s) + 1
    <3>2. s \in Seq(CallRecords) /\ Len(s) \in Nat /\ calls'[Owner] = Append(s, c)
      BY <1>1, <1>2, LenProperties DEF Types
    <3> HIDE DEF s
    <3>3. Len(Append(s, c)) = k /\ k \in 1..k /\ Append(s, c)[k] = c
      BY <3>2, AppendProperties
    <3>4. SubSeq(Append(s, c), 1, k) = Append(s, c) /\ Append(s, c) = s \o <<c>>
          /\ <<c>> \in Seq(CallRecords)
      BY <3>2, BeginningOfAppend, AppendIsConcat
    <3>5. MessagesFor(i, s \o <<c>>) = MessagesFor(i, s) \o <<>>
      <4>1. MessagesFor(i, <<c>>) = <<>>
        BY <3>1, CallParts DEF IsFor
      <4>2. MessagesFor(i, s \o <<c>>) = MessagesFor(i, s) \o MessagesFor(i, <<c>>)
        <5>1. s \in Seq(CallRecords) /\ <<c>> \in Seq(CallRecords)
          BY <3>2, <3>4
        <5> QED
          BY <5>1, CallParts
      <4> QED
        BY <4>1, <4>2
    <3>6. MessagesFor(i, s) = Arrived(Owner, i) \o <<>>
      BY <1>1, <2>2 DEF Inv, CallersServedInOrder, OwnerNeverWaits, s
    <3>7. Arrived(Owner, i)' = Arrived(Owner, i) \o <<>>
      <4>1. Gain(i, r) = <<>> /\ SentBy(Owner, <<>>) = <<>>
        BY <3>1, QueueParts, ThreadParts DEF Gain, IsFor
      <4> QED
        BY <1>1, <4>1, ArrivedGrows
    <3>8. MessagesFor(i, s) \o <<>> = MessagesFor(i, s)
      BY <3>2, CallParts, ConcatEmptySeq
    <3>9. /\ k \in 1..Len(calls'[Owner])
          /\ calls'[Owner][k].op = "close" /\ i \in calls'[Owner][k].ids
          /\ MessagesFor(i, SubSeq(calls'[Owner], 1, k)) = Arrived(Owner, i)'
      BY <3>1, <3>2, <3>3, <3>4, <3>5, <3>6, <3>7, <3>8
    <3> QED
      BY <1>1, <3>9
  <2> QED
    BY <2>1, <2>2
<1> QED
  BY <1>5, <1>6

\* The owner's calls keep the invariant.
LEMMA OwnerStep ==
  ASSUME Inv, NEW c \in CallRecords, NEW r \in Requests, Made(Owner, c, r),
         Same(Owner, c, r)
  PROVE  Inv'
<1>1. /\ Types' /\ Whole' /\ Gains(r) /\ live' \subseteq live
      /\ r.op # "close" => \A i \in Ids : ~In(Carried(r), Got(i))
  BY OwnerFacts
<1>2. SameOrderEverywhere'
  BY <1>1, OrderKept DEF Inv
<1> QED
  BY <1>1, <1>2, OwnerNumbered, OwnerServed, OwnerCloses DEF Inv

-----------------------------------------------------------------------------
(* Another thread calls.                                                   *)

\* The request is queued; nothing arrives.
Queued(t, c, r) ==
  /\ Types /\ Whole /\ Numbered /\ Apart /\ OwnerNeverWaits /\ CallersServedInOrder
  /\ t \in Callers /\ t # Owner /\ t \in Others
  /\ calls' = [calls EXCEPT ![t] = Append(@, c)] /\ requests' = Append(requests, r)
  /\ live' = live /\ out' = out /\ pc' = pc /\ ended' = ended
  /\ \A i : Got(i)' = Got(i) /\ \A u : Arrived(u, i)' = Arrived(u, i)
  /\ \A u \in Callers : calls[u] \in Seq(CallRecords) /\ Len(calls[u]) \in Nat
  /\ requests \in Seq(Requests) /\ Len(requests) \in Nat
  /\ requests' \in Seq(Requests) /\ Len(requests') = Len(requests) + 1
  /\ \A p \in 1..Len(requests) : requests'[p] = requests[p]
  /\ requests'[Len(requests) + 1] = r

\* A call of another thread only appends its request to the queue.
LEMMA OtherFacts ==
  ASSUME Inv, NEW t \in Callers, t # Owner, NEW c \in CallRecords, NEW r \in Requests,
         Made(t, c, r), Same(t, c, r)
  PROVE  Queued(t, c, r) /\ Types'
<1>1. /\ Types /\ Whole /\ Numbered /\ Apart /\ OwnerNeverWaits /\ CallersServedInOrder
      /\ t \in Others
  BY DEF Inv, Callers
<1>2. /\ calls' = [calls EXCEPT ![t] = Append(@, c)] /\ requests' = Append(requests, r)
      /\ live' = live /\ out' = out /\ pc' = pc /\ ended' = ended
  BY DEF Made
<1>3. \A i : Got(i)' = Got(i) /\ \A u : Arrived(u, i)' = Arrived(u, i)
  BY <1>2 DEF Got, Arrived, Received
<1>4. \A u \in Callers : calls[u] \in Seq(CallRecords) /\ Len(calls[u]) \in Nat
  BY <1>1, LenProperties DEF Types
<1>5. requests \in Seq(Requests) /\ Len(requests) \in Nat
  BY <1>1, LenProperties DEF Types
<1>6. /\ requests' \in Seq(Requests) /\ Len(requests') = Len(requests) + 1
      /\ \A p \in 1..Len(requests) : requests'[p] = requests[p]
      /\ requests'[Len(requests) + 1] = r
  BY <1>2, <1>5, AppendProperties
<1>7. calls' \in [Callers -> Seq(CallRecords)]
  BY <1>1, <1>2, CalledStays
<1>8. Types'
  BY <1>1, <1>2, <1>6, <1>7 DEF Types
<1> QED
  BY <1>1, <1>2, <1>3, <1>4, <1>5, <1>6, <1>8 DEF Queued

\* A call of another thread keeps messages whole, numbered and apart.
LEMMA OtherNumbered ==
  ASSUME NEW t, NEW c \in CallRecords, NEW r \in Requests, Queued(t, c, r),
         Same(t, c, r)
  PROVE  Whole' /\ Numbered' /\ Apart'
<1>1. Types /\ Whole /\ Numbered /\ Apart /\ t \in Callers /\ out' = out
      /\ \A i : Got(i)' = Got(i)
  BY DEF Queued
<1>2. /\ \A m \in Sendable : Called(m) => Called(m)'
      /\ \A m \in Sendable : m.body[1] = t /\ m.body[2] = Len(calls[t]) + 1
                               => Called(m)'
  BY <1>1, CalledStays DEF Queued
<1>3. /\ Len(requests) \in Nat /\ Len(requests') = Len(requests) + 1
      /\ \A p \in 1..Len(requests) : requests'[p] = requests[p] /\ requests[p] \in Requests
      /\ requests'[Len(requests) + 1] = r
  BY ElementOfSeq DEF Queued
<1>4. \A p \in 1..Len(requests') : p \in 1..Len(requests) \/ p = Len(requests) + 1
  BY <1>3
<1>5. Whole'
  BY <1>1 DEF Whole
<1>6. ASSUME NEW m \in Sendable, m.body[1] = t, m.body[2] = Len(calls[t]) + 1
      PROVE  /\ \A i \in Ids : ~In(m, Got(i))
             /\ \A p \in 1..Len(requests) :
                  requests[p].op # "close" => Carried(requests[p]) # m
  BY <1>1, <1>6, NewIsNew
<1>7. r.op # "close" =>
        /\ Carried(r) \in Sendable /\ Carried(r).body[1] = t
        /\ Carried(r).body[2] = Len(calls[t]) + 1
  BY RecordFields DEF Same
<1>8. Numbered'
  <2>1. ASSUME NEW i \in Ids, NEW l \in 1..Len(Got(i))
        PROVE  Called(Got(i)[l])'
    <3>1. PICK m \in Sendable : m = Got(i)[l]
      BY <1>1, ElementOfSeq DEF Whole
    <3>2. Called(m)'
      BY <1>1, <1>2, <3>1 DEF Numbered
    <3> QED
      BY <1>1, <3>1, <3>2 DEF Called
  <2>2. ASSUME NEW q \in Requests, q.op # "close",
               Called(Carried(q)) \/ (Carried(q) = Carried(r) /\ r.op # "close")
        PROVE  Called(Carried(q))'
    <3>1. PICK m \in Sendable : m = Carried(q)
      BY <2>2, RecordFields
    <3>2. Called(m)'
      BY <1>2, <1>7, <2>2, <3>1
    <3> QED
      BY <3>1, <3>2
  <2>3. ASSUME NEW p \in 1..Len(requests'), requests'[p].op # "close"
        PROVE  \E q \in Requests : q = requests'[p] /\ Called(Carried(q))'
    <3>1. CASE p \in 1..Len(requests)
      <4>1. PICK q \in Requests : q = requests[p] /\ q = requests'[p]
        BY <1>3, <3>1
      <4>2. Called(Carried(q))
        BY <1>1, <2>3, <3>1, <4>1 DEF Numbered
      <4> QED
        BY <2>2, <2>3, <4>1, <4>2
    <3>2. CASE p = Len(requests) + 1
      BY <1>3, <2>2, <2>3, <3>2
    <3> QED
      BY <1>4, <3>1, <3>2
  <2> QED
    BY <1>1, <2>1, <2>3 DEF Numbered, Called, Carried
<1>9. Apart'
  <2>1. ASSUME NEW p \in 1..Len(requests'), requests'[p].op # "close", NEW i \in Ids
        PROVE  ~In(Carried(requests'[p]), Got(i))
    <3>1. CASE p \in 1..Len(requests)
      BY <1>1, <1>3, <2>1, <3>1 DEF Apart
    <3>2. CASE p = Len(requests) + 1
      BY <1>3, <1>6, <1>7, <2>1, <3>2
    <3> QED
      BY <1>4, <3>1, <3>2
  <2>2. ASSUME NEW p \in 1..Len(requests'), requests'[p].op # "close",
               NEW q \in 1..Len(requests'), requests'[q].op # "close", q # p
        PROVE  Carried(requests'[q]) # Carried(requests'[p])
    <3>1. CASE p \in 1..Len(requests) /\ q \in 1..Len(requests)
      BY <1>1, <1>3, <2>2, <3>1 DEF Apart
    <3>2. CASE p = Len(requests) + 1 /\ q \in 1..Len(requests)
      BY <1>3, <1>6, <1>7, <2>2, <3>2
    <3>3. CASE q = Len(requests) + 1 /\ p \in 1..Len(requests)
      BY <1>3, <1>6, <1>7, <2>2, <3>3
    <3> QED
      BY <1>4, <2>2, <3>1, <3>2, <3>3
  <2> QED
    BY <1>1, <2>1, <2>2 DEF Apart, Carried
<1> QED
  BY <1>5, <1>8, <1>9

\* A call of another thread keeps every caller served in order.
LEMMA OtherServed ==
  ASSUME NEW t, NEW c \in CallRecords, NEW r \in Requests, Queued(t, c, r),
         Same(t, c, r)
  PROVE  CallersServedInOrder' /\ OwnerNeverWaits'
<1>1. /\ \A i : \A u : Arrived(u, i)' = Arrived(u, i)
      /\ live' = live /\ live \subseteq Ids /\ t \in Callers /\ t # Owner
      /\ calls \in [Callers -> Seq(CallRecords)]
      /\ calls' = [calls EXCEPT ![t] = Append(@, c)]
      /\ requests \in Seq(Requests) /\ requests' = Append(requests, r)
  BY DEF Queued, Types
<1>2. requests' = requests \o <<r>> /\ <<r>> \in Seq(Requests)
  BY <1>1, AppendIsConcat
<1>3. ASSUME NEW u, NEW i
      PROVE  /\ Waiting(u, i) \in Seq(Sendable)
             /\ Waiting(u, i)' = Waiting(u, i) \o SentBy(u, MessagesIn(i, <<r>>))
  <2>1. /\ MessagesIn(i, requests \o <<r>>)
             = MessagesIn(i, requests) \o MessagesIn(i, <<r>>)
        /\ MessagesIn(i, requests) \in Seq(Sendable)
        /\ MessagesIn(i, <<r>>) \in Seq(Sendable)
    BY <1>1, <1>2, QueueParts
  <2>2. /\ SentBy(u, MessagesIn(i, requests) \o MessagesIn(i, <<r>>))
             = SentBy(u, MessagesIn(i, requests)) \o SentBy(u, MessagesIn(i, <<r>>))
        /\ SentBy(u, MessagesIn(i, requests)) \in Seq(Sendable)
    BY <2>1, ThreadParts
  <2> QED
    BY <1>2, <2>1, <2>2 DEF Waiting
<1>4. \A i : /\ MessagesFor(i, <<c>>) = MessagesIn(i, <<r>>)
             /\ MessagesIn(i, <<r>>) \in Seq(Sendable)
             /\ SentBy(t, MessagesIn(i, <<r>>)) = MessagesIn(i, <<r>>)
             /\ \A u : u # t => SentBy(u, MessagesIn(i, <<r>>)) = <<>>
  BY SameMessages DEF OwnMessages
<1>5. OwnerNeverWaits'
  <2> SUFFICES ASSUME NEW i \in Ids PROVE Waiting(Owner, i)' = <<>>
    BY DEF OwnerNeverWaits
  <2>1. Waiting(Owner, i) = <<>>
    BY DEF Queued, OwnerNeverWaits
  <2>2. SentBy(Owner, MessagesIn(i, <<r>>)) = <<>>
    BY <1>1, <1>4
  <2> QED
    BY <1>3, <2>1, <2>2, ConcatEmptySeq
<1>6. CallersServedInOrder'
  <2> SUFFICES ASSUME NEW u \in Callers, NEW i \in live
               PROVE  MessagesFor(i, calls'[u]) = Arrived(u, i)' \o Waiting(u, i)'
    BY <1>1 DEF CallersServedInOrder
  <2>1. MessagesFor(i, calls[u]) = Arrived(u, i) \o Waiting(u, i)
    BY DEF Queued, CallersServedInOrder
  <2>2. CASE u # t
    <3>1. calls'[u] = calls[u]
      BY <1>1, <2>2
    <3>2. Waiting(u, i)' = Waiting(u, i) /\ Arrived(u, i)' = Arrived(u, i)
      <4>1. SentBy(u, MessagesIn(i, <<r>>)) = <<>>
        BY <1>4, <2>2
      <4>2. Waiting(u, i) \in Seq(Sendable) /\ Waiting(u, i)' = Waiting(u, i) \o <<>>
        BY <1>3, <4>1
      <4> QED
        BY <1>1, <4>2, ConcatEmptySeq
    <3> QED
      BY <2>1, <3>1, <3>2
  <2>3. CASE u = t
    <3>1. calls[u] \in Seq(CallRecords) /\ <<c>> \in Seq(CallRecords)
      BY <1>1
    <3>2. calls'[u] = calls[u] \o <<c>>
      BY <1>1, <2>3, <3>1, AppendIsConcat
    <3>3. MessagesFor(i, calls[u] \o <<c>>)
            = MessagesFor(i, calls[u]) \o MessagesFor(i, <<c>>)
      BY <3>1, CallParts
    <3>4. Arrived(u, i) \in Seq(Sendable)
      <4>1. Got(i) \in Seq(Sendable)
        BY <1>1 DEF Queued, Whole
      <4> QED
        BY <4>1, ThreadParts DEF Arrived, Got
    <3>5. Joins(Arrived(u, i), Waiting(u, i), MessagesIn(i, <<r>>))
      BY <1>3, <1>4, <3>4, JoinsAlways
    <3>6. Waiting(u, i)' = Waiting(u, i) \o MessagesIn(i, <<r>>)
      BY <1>3, <1>4, <2>3
    <3> QED
      BY <1>1, <1>4, <2>1, <3>2, <3>3, <3>5, <3>6 DEF Joins
  <2> QED
    BY <2>2, <2>3
<1> QED
  BY <1>5, <1>6

\* A call of another thread keeps every close behind the messages before it.
LEMMA OtherCloses ==
  ASSUME Inv, NEW t, NEW c \in CallRecords, NEW r \in Requests, Queued(t, c, r),
         Same(t, c, r)
  PROVE  CloseWaits' /\ CloseComesLast'
<1>1. /\ \A i : \A u : Arrived(u, i)' = Arrived(u, i)
      /\ live' = live /\ live \subseteq Ids /\ t \in Callers /\ t \in Others
      /\ calls \in [Callers -> Seq(CallRecords)] /\ ended' = ended
      /\ calls' = [calls EXCEPT ![t] = Append(@, c)]
      /\ requests \in Seq(Requests) /\ requests' = Append(requests, r)
      /\ Len(requests) \in Nat /\ Len(requests') = Len(requests) + 1
      /\ \A p \in 1..Len(requests) : requests'[p] = requests[p]
      /\ requests'[Len(requests) + 1] = r
  BY DEF Queued, Types
<1>2. ASSUME NEW u \in Callers, NEW k \in 1..Len(calls[u])
      PROVE  /\ k \in 1..Len(calls'[u]) /\ calls'[u][k] = calls[u][k]
             /\ SubSeq(calls'[u], 1, k) = SubSeq(calls[u], 1, k)
  <2>1. calls[u] \in Seq(CallRecords) /\ Len(calls[u]) \in Nat
    BY <1>1, LenProperties
  <2>2. calls'[u] = calls[u] \/ calls'[u] = Append(calls[u], c)
    BY <1>1
  <2>3. /\ Len(Append(calls[u], c)) = Len(calls[u]) + 1
        /\ Append(calls[u], c)[k] = calls[u][k]
    BY <2>1, AppendProperties
  <2>4. SubSeq(Append(calls[u], c), 1, k) = SubSeq(calls[u], 1, k)
    BY <2>1, BeginningOfAppend
  <2>5. CASE calls'[u] = calls[u]
    BY <2>5
  <2>6. CASE calls'[u] = Append(calls[u], c)
    <3>1. Len(calls'[u]) = Len(calls[u]) + 1 /\ calls'[u][k] = calls[u][k]
      BY <2>3, <2>6
    <3>2. SubSeq(calls'[u], 1, k) = SubSeq(calls[u], 1, k)
      BY <2>4, <2>6
    <3>3. k \in 1..Len(calls'[u])
      BY <2>1, <3>1
    <3> QED
      BY <3>1, <3>2, <3>3
  <2> QED
    BY <2>2, <2>5, <2>6
<1>3. CloseComesLast'
  BY <1>1, <1>2, ZenonT(60) DEF Inv, CloseComesLast
<1>4. CloseWaits'
  <2> SUFFICES ASSUME NEW p \in 1..Len(requests'), requests'[p].op = "close"
               PROVE  \E u \in Others : \E k \in 1..Len(calls'[u]) :
                 ClosesAt(u, k, requests[p].ids, SubSeq(requests, 1, p - 1))'
    BY DEF CloseWaits
  <2>1. CASE p \in 1..Len(requests)
    <3>1. PICK u \in Others : \E k \in 1..Len(calls[u]) :
            ClosesAt(u, k, requests[p].ids, SubSeq(requests, 1, p - 1))
      BY <1>1, <2>1 DEF Inv, CloseWaits
    <3>2. PICK k \in 1..Len(calls[u]) :
            ClosesAt(u, k, requests[p].ids, SubSeq(requests, 1, p - 1))
      BY <3>1
    <3>3. u \in Callers
      BY DEF Callers
    <3>4. SubSeq(requests', 1, p - 1) = SubSeq(requests, 1, p - 1)
      <4>1. p - 1 \in 0..Len(requests)
        BY <1>1, <2>1
      <4> QED
        BY <1>1, <4>1, BeginningOfAppend
    <3>5. requests'[p] = requests[p]
      BY <1>1, <2>1
    <3>6. ClosesAt(u, k, requests[p].ids, SubSeq(requests, 1, p - 1))'
      BY <1>1, <1>2, <3>2, <3>3, <3>4, <3>5 DEF ClosesAt
    <3> QED
      BY <1>2, <3>3, <3>6
  <2>2. CASE p = Len(requests) + 1
    <3>0. PICK s, k : s = calls[t] /\ k = Len(s) + 1
      OBVIOUS
    <3>1. s \in Seq(CallRecords) /\ Len(s) \in Nat /\ calls'[t] = Append(s, c)
      BY <1>1, <3>0, LenProperties
    <3>2. r.op = "close" /\ c.op = "close" /\ c.ids = r.ids /\ requests'[p] = r
      BY <1>1, <2>2 DEF Same
    <3>3. SubSeq(requests', 1, p - 1) = requests
      <4>1. p - 1 = Len(requests) /\ Len(requests) \in 0..Len(requests)
        BY <1>1, <2>2
      <4>2. SubSeq(Append(requests, r), 1, Len(requests)) = SubSeq(requests, 1, Len(requests))
        BY <1>1, <4>1, BeginningOfAppend
      <4> QED
        BY <1>1, <4>1, <4>2, SubSeqFull
    <3>4. ASSUME NEW i \in live
          PROVE  MessagesFor(i, Append(s, c)) = Arrived(t, i) \o Waiting(t, i)
      <4>1. MessagesFor(i, s) = Arrived(t, i) \o Waiting(t, i)
        BY <1>1, <3>0 DEF Queued, CallersServedInOrder
      <4>2. MessagesFor(i, <<c>>) = <<>> /\ MessagesFor(i, s) \in Seq(Sendable)
        BY <3>1, <3>2, CallParts DEF IsFor
      <4>3. Append(s, c) = s \o <<c>> /\ <<c>> \in Seq(CallRecords)
            /\ s \in Seq(CallRecords)
        BY <3>1, AppendIsConcat
      <4>4. MessagesFor(i, s \o <<c>>) = MessagesFor(i, s) \o MessagesFor(i, <<c>>)
        BY <4>3, CallParts
      <4> QED
        BY <4>1, <4>2, <4>3, <4>4, ConcatEmptySeq
    <3>5. Len(Append(s, c)) = k /\ k \in 1..k /\ Append(s, c)[k] = c
      BY <3>0, <3>1, AppendProperties
    <3>6. SubSeq(Append(s, c), 1, k) = Append(s, c)
      BY <3>0, <3>1, BeginningOfAppend
    <3>7. \A i \in live : Waiting(t, i) = SentBy(t, MessagesIn(i, requests))
      BY DEF Waiting
    <3>8. ClosesAt(t, k, requests[p].ids, SubSeq(requests, 1, p - 1))'
      BY <1>1, <3>1, <3>2, <3>3, <3>4, <3>5, <3>6, <3>7 DEF ClosesAt
    <3> QED
      BY <1>1, <3>1, <3>5, <3>8
  <2> QED
    BY <1>1, <2>1, <2>2
<1> QED
  BY <1>3, <1>4

\* The calls of the other threads keep the invariant.
LEMMA OtherStep ==
  ASSUME Inv, NEW t \in Callers, t # Owner, NEW c \in CallRecords, NEW r \in Requests,
         Made(t, c, r), Same(t, c, r)
  PROVE  Inv'
<1>1. Queued(t, c, r) /\ Types'
  BY OtherFacts
<1>2. SameOrderEverywhere'
  BY <1>1 DEF Queued, Inv, SameOrderEverywhere, Got
<1> QED
  BY <1>1, <1>2, OtherNumbered, OtherServed, OtherCloses DEF Inv

-----------------------------------------------------------------------------
(* The owner works off a request.                                          *)

\* r was the first request and has been executed.
Worked(r) ==
  /\ Types /\ Whole /\ Gains(r) /\ r \in Requests /\ live' \subseteq live
  /\ live \subseteq Ids /\ requests \in Seq(Requests) /\ requests # <<>>
  /\ live' = IF r.op = "close" THEN live \ r.ids ELSE live
  /\ requests' = Tail(requests) /\ r = Head(requests)
  /\ requests' \in Seq(Requests) /\ Len(requests') = Len(requests) - 1
  /\ Len(requests) \in Nat \ {0} /\ requests[1] = r
  /\ \A p \in 1..Len(requests') : /\ p + 1 \in 1..Len(requests)
                                  /\ requests'[p] = requests[p + 1]
  /\ calls' = calls /\ ended' = ended /\ pc' = pc

\* Executing a request takes it from the front of the queue.
LEMMA WorkedFacts ==
  ASSUME Inv, ExecuteRequest
  PROVE  Worked(Head(requests)) /\ Types' /\ Whole'
<1>1. Types /\ Whole /\ live \subseteq Ids /\ requests \in Seq(Requests)
      /\ requests # <<>> /\ Execute(Head(requests)) /\ requests' = Tail(requests)
      /\ calls' = calls /\ ended' = ended /\ pc' = pc
  BY DEF Inv, Types, ExecuteRequest
<1>2. /\ Head(requests) \in Requests /\ Tail(requests) \in Seq(Requests)
      /\ Len(Tail(requests)) = Len(requests) - 1
      /\ \A p \in 1..Len(Tail(requests)) : Tail(requests)[p] = requests[p + 1]
      /\ Len(requests) \in Nat \ {0} /\ requests[1] = Head(requests)
  BY <1>1, HeadTailProperties, EmptySeq
<1>3. \A p \in 1..Len(Tail(requests)) : p + 1 \in 1..Len(requests)
  BY <1>2
<1>4. PICK r \in Requests : r = Head(requests)
  BY <1>2
<1>5. /\ live' = IF r.op = "close" THEN live \ r.ids ELSE live
      /\ out' \in [Ids -> Seq(Bytes)] /\ Whole' /\ Gains(r)
  BY <1>1, <1>4, ExecuteEffect
<1>6. live' \subseteq live
  BY <1>5
<1>7. Worked(r)
  BY <1>1, <1>2, <1>3, <1>4, <1>5, <1>6 DEF Worked
<1>8. Types'
  BY <1>1, <1>2, <1>5, <1>6 DEF Types
<1> QED
  BY <1>4, <1>5, <1>7, <1>8

\* Executing a request keeps messages numbered and apart.
LEMMA WorkedNumbered ==
  ASSUME NEW r, Worked(r), Numbered, Apart, Whole'
  PROVE  Numbered' /\ Apart'
<1>1. /\ Types /\ Whole /\ Gains(r) /\ r \in Requests /\ calls' = calls
      /\ requests[1] = r /\ 1 \in 1..Len(requests)
      /\ \A p \in 1..Len(requests') : /\ p + 1 \in 1..Len(requests) /\ p + 1 # 1
                                      /\ requests'[p] = requests[p + 1]
  BY DEF Worked
<1>2. \A m : Called(m)' <=> Called(m)
  BY <1>1 DEF Called
<1>3. r.op # "close" => Called(Carried(r))
  BY <1>1 DEF Numbered
<1>4. ASSUME NEW i \in Ids, NEW m, In(m, Got(i)')
      PROVE  In(m, Got(i)) \/ (r.op # "close" /\ m = Carried(r))
  BY <1>1, <1>4, GotParts
<1>5. Numbered'
  <2>1. \A i \in Ids : \A m : In(m, Got(i)') => Called(m)
    BY <1>3, <1>4 DEF Numbered, In
  <2>2. \A i \in Ids : \A l \in 1..Len(Got(i)') : Called(Got(i)'[l])
    BY <2>1 DEF In
  <2>3. \A p \in 1..Len(requests') :
          requests'[p].op # "close" => Called(Carried(requests'[p]))
    BY <1>1 DEF Numbered
  <2> QED
    BY <1>1, <2>2, <2>3 DEF Numbered, Called, Carried
<1>6. Apart'
  <2>1. ASSUME NEW p \in 1..Len(requests'), requests'[p].op # "close", NEW i \in Ids,
               In(Carried(requests'[p]), Got(i)')
        PROVE  FALSE
    <3>1. In(Carried(requests[p + 1]), Got(i))
          \/ (r.op # "close" /\ Carried(requests[p + 1]) = Carried(r))
      BY <1>1, <1>4, <2>1
    <3>2. ~In(Carried(requests[p + 1]), Got(i))
      BY <1>1, <2>1 DEF Apart
    <3>3. r.op # "close" => Carried(requests[p + 1]) # Carried(r)
      BY <1>1, <2>1 DEF Apart
    <3> QED
      BY <3>1, <3>2, <3>3
  <2>2. ASSUME NEW p \in 1..Len(requests'), requests'[p].op # "close",
               NEW q \in 1..Len(requests'), requests'[q].op # "close", q # p
        PROVE  Carried(requests'[q]) # Carried(requests'[p])
    <3>1. p + 1 # q + 1
      BY <2>2
    <3> QED
      BY <1>1, <2>2, <3>1 DEF Apart
  <2> QED
    BY <2>1, <2>2 DEF Apart, Carried
<1> QED
  BY <1>5, <1>6

\* What waited for i is the request and what still waits.
LEMMA WaitingParts ==
  ASSUME NEW r \in Requests, NEW q \in Seq(Requests), NEW i, NEW t
  PROVE  /\ SentBy(t, MessagesIn(i, <<r>> \o q))
              = SentBy(t, MessagesIn(i, <<r>>)) \o SentBy(t, MessagesIn(i, q))
         /\ SentBy(t, MessagesIn(i, <<r>>)) \in Seq(Sendable)
         /\ SentBy(t, MessagesIn(i, q)) \in Seq(Sendable)
<1>1. <<r>> \in Seq(Requests)
  OBVIOUS
<1>2. /\ MessagesIn(i, <<r>> \o q) = MessagesIn(i, <<r>>) \o MessagesIn(i, q)
      /\ MessagesIn(i, <<r>>) \in Seq(Sendable) /\ MessagesIn(i, q) \in Seq(Sendable)
  BY <1>1, QueueParts
<1>3. PICK a \in Seq(Sendable), b \in Seq(Sendable) :
        a = MessagesIn(i, <<r>>) /\ b = MessagesIn(i, q)
  BY <1>2
<1>4. SentBy(t, a \o b) = SentBy(t, a) \o SentBy(t, b)
      /\ SentBy(t, a) \in Seq(Sendable) /\ SentBy(t, b) \in Seq(Sendable)
  BY ThreadParts
<1> QED
  BY <1>2, <1>3, <1>4

\* What arrives now was waiting: together they are the same.
LEMMA Moves ==
  ASSUME NEW r, Worked(r), NEW i \in live, NEW t, NEW q \in Seq(Requests)
  PROVE  Arrived(t, i) \o SentBy(t, MessagesIn(i, <<r>> \o q))
           = Arrived(t, i)' \o SentBy(t, MessagesIn(i, q))
<1>1. Types /\ Whole /\ Gains(r) /\ r \in Requests /\ i \in Ids
  BY DEF Worked
<1>2. /\ Arrived(t, i) \in Seq(Sendable)
      /\ Arrived(t, i)' = Arrived(t, i) \o SentBy(t, MessagesIn(i, <<r>>))
  <2>1. Gain(i, r) = MessagesIn(i, <<r>>)
    BY DEF Gain
  <2> QED
    BY <1>1, <2>1, ArrivedGrows
<1> DEFINE a == Arrived(t, i)
           b == SentBy(t, MessagesIn(i, <<r>>))
           e == SentBy(t, MessagesIn(i, q))
<1>3. /\ SentBy(t, MessagesIn(i, <<r>> \o q)) = b \o e
      /\ b \in Seq(Sendable) /\ e \in Seq(Sendable)
  BY <1>1, WaitingParts
<1>4. a \in Seq(Sendable) /\ Arrived(t, i)' = a \o b
  BY <1>2
<1>5. Joins(a, b, e)
  <2> HIDE DEF a, b, e
  <2> QED
    BY <1>3, <1>4, JoinsAlways
<1> QED
  BY <1>3, <1>4, <1>5 DEF Joins

\* Executing a request moves its message from the queue to the connections,
\* so that the caller stays served in order.
LEMMA WorkedServed ==
  ASSUME NEW r, Worked(r), CallersServedInOrder, OwnerNeverWaits
  PROVE  CallersServedInOrder' /\ OwnerNeverWaits'
<1>1. /\ requests' \in Seq(Requests) /\ r \in Requests /\ calls' = calls
      /\ live' \subseteq live
  BY DEF Worked
<1>2. requests = <<r>> \o requests'
  <2>1. requests \in Seq(Requests) /\ requests # <<>>
        /\ requests' = Tail(requests) /\ r = Head(requests)
    BY DEF Worked
  <2>2. Len(requests) \in 1..Len(requests) /\ Len(requests) - 1 = Len(requests')
    BY DEF Worked
  <2>3. SubSeq(requests, 1, Len(requests))
          = <<Head(requests)>> \o SubSeq(Tail(requests), 1, Len(requests) - 1)
    BY <2>1, <2>2, BeginningOfTail
  <2>4. SubSeq(requests, 1, Len(requests)) = requests
    BY <2>1, SubSeqFull
  <2>5. SubSeq(requests', 1, Len(requests')) = requests'
    BY <1>1, SubSeqFull
  <2> QED
    BY <2>1, <2>2, <2>3, <2>4, <2>5
<1>3. CallersServedInOrder'
  <2> SUFFICES ASSUME NEW t \in Callers, NEW i \in live'
               PROVE  MessagesFor(i, calls[t]) = Arrived(t, i)' \o Waiting(t, i)'
    BY <1>1 DEF CallersServedInOrder
  <2>1. i \in live
    BY <1>1
  <2>2. MessagesFor(i, calls[t]) = Arrived(t, i) \o Waiting(t, i)
    BY <2>1 DEF CallersServedInOrder
  <2>3. Waiting(t, i) = SentBy(t, MessagesIn(i, <<r>> \o requests'))
    BY <1>2 DEF Waiting
  <2>4. Waiting(t, i)' = SentBy(t, MessagesIn(i, requests'))
    BY DEF Waiting
  <2>5. Arrived(t, i) \o SentBy(t, MessagesIn(i, <<r>> \o requests'))
          = Arrived(t, i)' \o SentBy(t, MessagesIn(i, requests'))
    <3>1. PICK q \in Seq(Requests) : q = requests'
      BY <1>1
    <3> QED
      BY <2>1, <3>1, Moves, SMTT(60)
  <2> QED
    BY <2>2, <2>3, <2>4, <2>5
<1>4. OwnerNeverWaits'
  <2> SUFFICES ASSUME NEW i \in Ids PROVE Waiting(Owner, i)' = <<>>
    BY DEF OwnerNeverWaits
  <2>1. PICK q \in Seq(Requests) : q = requests'
    BY <1>1
  <2>2. SentBy(Owner, MessagesIn(i, <<r>> \o q)) = <<>>
    BY <1>2, <2>1 DEF OwnerNeverWaits, Waiting
  <2>3. /\ SentBy(Owner, MessagesIn(i, <<r>> \o q))
             = SentBy(Owner, MessagesIn(i, <<r>>)) \o SentBy(Owner, MessagesIn(i, q))
        /\ SentBy(Owner, MessagesIn(i, <<r>>)) \in Seq(Sendable)
        /\ SentBy(Owner, MessagesIn(i, q)) \in Seq(Sendable)
    BY <1>1, WaitingParts
  <2>4. SentBy(Owner, MessagesIn(i, q)) = <<>>
    <3>1. PICK a \in Seq(Sendable), b \in Seq(Sendable) :
            a = SentBy(Owner, MessagesIn(i, <<r>>)) /\ b = SentBy(Owner, MessagesIn(i, q))
      BY <2>3
    <3>2. a \o b = <<>>
      BY <2>2, <2>3, <3>1
    <3>3. b = <<>>
      BY <3>2, ConcatEqualIffEmpty
    <3> QED
      BY <3>1, <3>3
  <2> QED
    BY <2>1, <2>4 DEF Waiting
<1> QED
  BY <1>3, <1>4

\* Executing a request keeps every close behind the messages before it.
LEMMA WorkedCloses ==
  ASSUME NEW r, Worked(r), CloseWaits, CloseComesLast
  PROVE  CloseWaits' /\ CloseComesLast'
<1>1. /\ Types /\ Whole /\ Gains(r) /\ r \in Requests /\ live' \subseteq live
      /\ live \subseteq Ids /\ requests \in Seq(Requests) /\ requests # <<>>
      /\ requests' = Tail(requests) /\ r = Head(requests)
      /\ calls' = calls /\ ended' = ended
      /\ live' = IF r.op = "close" THEN live \ r.ids ELSE live
  BY DEF Worked
<1>2. /\ requests' \in Seq(Requests) /\ Len(requests') = Len(requests) - 1
      /\ Len(requests) \in Nat \ {0} /\ requests[1] = r
      /\ \A p \in 1..Len(requests') : /\ p + 1 \in 1..Len(requests)
                                      /\ requests'[p] = requests[p + 1]
  BY DEF Worked
<1>3. CloseWaits'
  <2> SUFFICES ASSUME NEW p \in 1..Len(requests'), requests'[p].op = "close"
               PROVE  \E t \in Others : \E k \in 1..Len(calls[t]) :
                 ClosesAt(t, k, requests[p].ids, SubSeq(requests, 1, p - 1))'
    BY <1>1 DEF CloseWaits, ClosesAt
  <2>1. p + 1 \in 1..Len(requests) /\ (p + 1) - 1 = p /\ requests[p + 1].op = "close"
        /\ requests'[p] = requests[p + 1] /\ p \in 1..Len(requests)
    BY <1>2
  <2>2. PICK t \in Others : \E k \in 1..Len(calls[t]) :
          ClosesAt(t, k, requests[p + 1].ids, SubSeq(requests, 1, p))
    BY <2>1 DEF CloseWaits
  <2>3. PICK k \in 1..Len(calls[t]) :
          ClosesAt(t, k, requests[p + 1].ids, SubSeq(requests, 1, p))
    BY <2>2
  <2>4. PICK q \in Seq(Requests) : q = SubSeq(Tail(requests), 1, p - 1)
    <3>1. p - 1 \in 0..Len(requests') /\ requests' \in Seq(Requests)
      BY <1>2
    <3>2. SubSeq(requests', 1, p - 1) \in Seq(Requests)
      BY <3>1, SplitAt
    <3> QED
      BY <1>1, <3>2
  <2>5. SubSeq(requests, 1, p) = <<r>> \o q
    BY <1>1, <2>1, <2>4, BeginningOfTail
  <2>6. \A i \in live : Arrived(t, i) \o SentBy(t, MessagesIn(i, <<r>> \o q))
                          = Arrived(t, i)' \o SentBy(t, MessagesIn(i, q))
    <3> SUFFICES ASSUME NEW i \in live
                 PROVE  Arrived(t, i) \o SentBy(t, MessagesIn(i, <<r>> \o q))
                          = Arrived(t, i)' \o SentBy(t, MessagesIn(i, q))
      OBVIOUS
    <3> QED
      BY Moves, ZenonT(60)
  <2>7. SubSeq(requests', 1, p - 1) = q
    BY <1>1, <2>4
  <2>8. ClosesAt(t, k, requests[p].ids, SubSeq(requests, 1, p - 1))'
    <3>1. /\ calls' = calls /\ k \in 1..Len(calls[t])
          /\ calls[t][k].op = "close" /\ calls[t][k].ids = requests[p + 1].ids
          /\ requests'[p] = requests[p + 1] /\ live' \subseteq live
      BY <1>1, <2>1, <2>3 DEF ClosesAt
    <3>2. \A i \in live : MessagesFor(i, SubSeq(calls[t], 1, k))
                            = Arrived(t, i) \o SentBy(t, MessagesIn(i, <<r>> \o q))
      BY <2>3, <2>5 DEF ClosesAt
    <3>3. \A i \in live : MessagesFor(i, SubSeq(calls[t], 1, k))
                            = Arrived(t, i)' \o SentBy(t, MessagesIn(i, q))
      BY <2>6, <3>2
    <3>4. \A i \in live' : MessagesFor(i, SubSeq(calls'[t], 1, k))
            = Arrived(t, i)' \o SentBy(t, MessagesIn(i, SubSeq(requests', 1, p - 1)))
      BY <2>7, <3>1, <3>3
    <3> QED
      BY <3>1, <3>4 DEF ClosesAt
  <2> QED
    BY <2>8
<1>4. CloseComesLast'
  <2> SUFFICES ASSUME NEW i \in Ids \ (live' \cup ended)
               PROVE  \E t \in Callers : \E k \in 1..Len(calls[t]) :
                 /\ calls[t][k].op = "close" /\ i \in calls[t][k].ids
                 /\ MessagesFor(i, SubSeq(calls[t], 1, k)) = Arrived(t, i)'
    BY <1>1 DEF CloseComesLast
  <2>1. ASSUME Gain(i, r) = <<>>, NEW t
        PROVE  Arrived(t, i)' = Arrived(t, i) /\ Arrived(t, i) \o <<>> = Arrived(t, i)
    <3>1. SentBy(t, <<>>) = <<>>
      BY ThreadParts
    <3>2. Arrived(t, i) \in Seq(Sendable) /\ Arrived(t, i)' = Arrived(t, i) \o <<>>
      BY <1>1, <2>1, <3>1, ArrivedGrows
    <3> QED
      BY <3>2, ConcatEmptySeq
  <2>2. CASE i \notin live
    <3>1. Gain(i, r) = <<>>
      BY <2>2 DEF Gain
    <3> QED
      BY <2>1, <2>2, <3>1 DEF CloseComesLast
  <2>3. CASE i \in live
    <3>1. r.op = "close" /\ i \in r.ids
      BY <1>1, <2>3
    <3>2. Gain(i, r) = <<>>
      BY <1>1, <3>1, QueueParts DEF Gain, IsFor
    <3>3. 1 \in 1..Len(requests) /\ SubSeq(requests, 1, 1 - 1) = <<>>
      BY <1>2, SubSeqEmpty
    <3>4. PICK t \in Others : \E k \in 1..Len(calls[t]) : ClosesAt(t, k, r.ids, <<>>)
      BY <1>2, <3>1, <3>3 DEF CloseWaits
    <3>5. PICK k \in 1..Len(calls[t]) : ClosesAt(t, k, r.ids, <<>>)
      BY <3>4
    <3>6. SentBy(t, MessagesIn(i, <<>>)) = <<>>
      BY QueueParts, ThreadParts
    <3>7. MessagesFor(i, SubSeq(calls[t], 1, k)) = Arrived(t, i) \o <<>>
          /\ calls[t][k].op = "close" /\ i \in calls[t][k].ids
      BY <2>3, <3>1, <3>5, <3>6 DEF ClosesAt
    <3>8. t \in Callers
      BY DEF Callers
    <3> QED
      BY <2>1, <3>2, <3>7, <3>8
  <2> QED
    BY <2>2, <2>3
<1> QED
  BY <1>3, <1>4

\* Working off a request keeps the invariant.
LEMMA WorkedStep ==
  ASSUME Inv, ExecuteRequest
  PROVE  Inv'
<1>1. PICK r : Worked(r) /\ Types' /\ Whole'
  BY WorkedFacts
<1>2. /\ Numbered /\ Apart /\ OwnerNeverWaits /\ CallersServedInOrder
      /\ SameOrderEverywhere /\ CloseWaits /\ CloseComesLast
  BY DEF Inv
<1>3. SameOrderEverywhere'
  <2>1. Types /\ Whole /\ Gains(r) /\ r \in Requests /\ live' \subseteq live
        /\ 1 \in 1..Len(requests) /\ requests[1] = r
    BY <1>1 DEF Worked
  <2>2. r.op # "close" => \A i \in Ids : ~In(Carried(r), Got(i))
    BY <1>2, <2>1 DEF Apart
  <2> QED
    BY <1>2, <2>1, <2>2, OrderKept
<1> QED
  BY <1>1, <1>2, <1>3, WorkedNumbered, WorkedServed, WorkedCloses DEF Inv

-----------------------------------------------------------------------------
(* The theorem.                                                            *)

\* A connection ends: its messages no longer count, and a close of it need
\* not be found.
LEMMA EndStep ==
  ASSUME Inv, NEW i \in Ids, ConnectionEnds(i)
  PROVE  Inv'
<1>1. /\ live' = live \ {i} /\ ended' = ended \cup {i} /\ live' \subseteq live
      /\ pc' = pc /\ requests' = requests /\ out' = out /\ calls' = calls
  BY DEF ConnectionEnds
<1>2. /\ \A j : Got(j)' = Got(j)
      /\ \A j : \A t : Arrived(t, j)' = Arrived(t, j) /\ Waiting(t, j)' = Waiting(t, j)
  BY <1>1 DEF Got, Arrived, Waiting, Received
<1>3. Types' /\ Whole'
  BY <1>1, <1>2 DEF Inv, Types, Whole
<1>4. Numbered' /\ Apart' /\ OwnerNeverWaits'
  BY <1>1, <1>2, ZenonT(60) DEF Inv, Numbered, Called, Apart, OwnerNeverWaits, Carried
<1>5. CallersServedInOrder'
  BY <1>1, <1>2 DEF Inv, CallersServedInOrder
<1>6. SameOrderEverywhere'
  BY <1>1, <1>2 DEF Inv, SameOrderEverywhere, Got
<1>7. CloseWaits'
  <2> SUFFICES ASSUME NEW p \in 1..Len(requests), requests[p].op = "close"
               PROVE  \E t \in Others : \E k \in 1..Len(calls[t]) :
                 ClosesAt(t, k, requests[p].ids, SubSeq(requests, 1, p - 1))'
    BY <1>1 DEF CloseWaits, ClosesAt
  <2>1. PICK t \in Others : \E k \in 1..Len(calls[t]) :
          ClosesAt(t, k, requests[p].ids, SubSeq(requests, 1, p - 1))
    BY DEF Inv, CloseWaits
  <2>2. PICK k \in 1..Len(calls[t]) :
          ClosesAt(t, k, requests[p].ids, SubSeq(requests, 1, p - 1))
    BY <2>1
  <2>3. ClosesAt(t, k, requests[p].ids, SubSeq(requests, 1, p - 1))'
    BY <1>1, <1>2, <2>2 DEF ClosesAt
  <2> QED
    BY <2>3
<1>8. CloseComesLast'
  BY <1>1, <1>2 DEF Inv, CloseComesLast
<1> QED
  BY <1>3, <1>4, <1>5, <1>6, <1>7, <1>8 DEF Inv

\* The invariant holds initially.
LEMMA InitInv == Init => Inv
<1> SUFFICES ASSUME Init PROVE Inv
  OBVIOUS
<1>1. /\ pc = "app" /\ live = Ids /\ ended = {} /\ requests = <<>>
      /\ out = [i \in Ids |-> <<>>] /\ calls = [t \in Callers |-> <<>>]
  BY DEF Init
<1>2. /\ <<>> \in Seq(Sendable) /\ <<>> \in Seq(Serializable)
      /\ <<>> \in Seq(Bytes) /\ <<>> \in Seq(Requests)
      /\ <<>> \in Seq(CallRecords) /\ Len(<<>>) = 0
  BY EmptySeq
<1>3. serialize_all(<<>>) = <<>> /\ deserialize_all(<<>>).msgs = <<>>
  <2>1. serialize_all(<<>>) = <<>>
    BY <1>2, SerializeAll
  <2>2. deserialize_all(serialize_all(<<>>)).msgs = <<>>
    BY <1>2, ReadsBack
  <2> QED
    BY <2>1, <2>2
<1>4. Types
  BY <1>1, <1>2 DEF Types
<1>5. \A i \in Ids : out[i] = <<>> /\ Got(i) = <<>>
  BY <1>1, <1>3 DEF Got, Received
<1>6. Whole
  BY <1>2, <1>3, <1>5 DEF Whole
<1>7. Numbered /\ Apart /\ CloseWaits
  BY <1>1, <1>2, <1>5 DEF Numbered, Apart, CloseWaits
<1>8. \A i : MessagesIn(i, <<>>) = <<>> /\ MessagesFor(i, <<>>) = <<>>
  BY QueueParts, CallParts
<1>9. \A t : SentBy(t, <<>>) = <<>>
  BY ThreadParts
<1>10. \A t : \A i \in Ids : Waiting(t, i) = <<>> /\ Arrived(t, i) = <<>>
  BY <1>1, <1>5, <1>8, <1>9 DEF Waiting, Arrived, Got
<1>11. OwnerNeverWaits
  BY <1>10 DEF OwnerNeverWaits
<1>12. CallersServedInOrder
  <2>1. <<>> \o <<>> = <<>>
    BY <1>2, ConcatEmptySeq
  <2> QED
    BY <1>1, <1>8, <1>10, <2>1 DEF CallersServedInOrder
<1>13. SameOrderEverywhere
  BY <1>1, <1>5 DEF SameOrderEverywhere, Got
<1>14. CloseComesLast
  BY <1>1 DEF CloseComesLast
<1> QED
  BY <1>4, <1>6, <1>7, <1>11, <1>12, <1>13, <1>14 DEF Inv

\* Every step preserves the invariant.
LEMMA InvStep == Inv /\ [Next]_vars => Inv'
<1> SUFFICES ASSUME Inv, [Next]_vars PROVE Inv'
  OBVIOUS
<1>1. CASE Calls
  <2>1. Types
    BY DEF Inv
  <2>2. PICK t \in Callers, c \in CallRecords, r \in Requests :
          Made(t, c, r) /\ Same(t, c, r)
    BY <1>1, <2>1, CallEffect
  <2>3. CASE t = Owner
    BY <2>2, <2>3, OwnerStep
  <2>4. CASE t # Owner
    BY <2>2, <2>4, OtherStep
  <2> QED
    BY <2>3, <2>4
<1>2. CASE ExecuteRequest
  BY <1>2, WorkedStep
<1>3. CASE \E i \in Ids : ConnectionEnds(i)
  BY <1>3, EndStep
<1>4. CASE FetchEvents \/ EventsReturned \/ UNCHANGED vars
  <2>1. /\ pc' \in {pc, "app", "fetch"} /\ live' = live /\ ended' = ended
        /\ requests' = requests /\ out' = out /\ calls' = calls
    BY <1>4 DEF FetchEvents, EventsReturned, vars
  <2>2. /\ \A j : Got(j)' = Got(j)
        /\ \A j : \A t : Arrived(t, j)' = Arrived(t, j) /\ Waiting(t, j)' = Waiting(t, j)
    BY <2>1 DEF Got, Arrived, Waiting, Received
  <2>3. Types' /\ Whole'
    BY <2>1, <2>2 DEF Inv, Types, Whole
  <2>4. Numbered' /\ Apart' /\ OwnerNeverWaits'
    BY <2>1, <2>2, ZenonT(60) DEF Inv, Numbered, Called, Apart, OwnerNeverWaits, Carried
  <2>5. CallersServedInOrder' /\ SameOrderEverywhere'
    <3>1. CallersServedInOrder'
      BY <2>1, <2>2 DEF Inv, CallersServedInOrder
    <3>2. SameOrderEverywhere'
      BY <2>1, <2>2 DEF Inv, SameOrderEverywhere, Got
    <3> QED
      BY <3>1, <3>2
  <2>6. CloseWaits' /\ CloseComesLast'
    <3>1. CloseWaits'
      BY <2>1, <2>2 DEF Inv, CloseWaits, ClosesAt
    <3>2. CloseComesLast'
      BY <2>1, <2>2 DEF Inv, CloseComesLast
    <3> QED
      BY <3>1, <3>2
  <2> QED
    BY <2>3, <2>4, <2>5, <2>6 DEF Inv
<1> QED
  BY <1>1, <1>2, <1>3, <1>4 DEF Next

\* The invariant holds of every execution, with any number of threads,
\* connections and contexts.
THEOREM InvAlways == Spec => []Inv
  BY InitInv, InvStep, PTL DEF Spec

\* Every thread's messages reach every live connection they are for, and no
\* other, in the order of its calls, none lost and none twice, whether they
\* went straight to the transport or through the request channel.
THEOREM ServedInOrder == Spec => []CallersServedInOrder
<1>1. Inv => CallersServedInOrder
  BY DEF Inv
<1> QED
  BY <1>1, InvAlways, PTL

\* Two live connections see the messages they share in the same order.
THEOREM OneOrder == Spec => []SameOrderEverywhere
<1>1. Inv => SameOrderEverywhere
  BY DEF Inv
<1> QED
  BY <1>1, InvAlways, PTL

\* A connection closed by close_connection has been given all its closer sent
\* it before, and nothing of what it sent after.
THEOREM NoOvertaking == Spec => []CloseComesLast
<1>1. Inv => CloseComesLast
  BY DEF Inv
<1> QED
  BY <1>1, InvAlways, PTL

=============================================================================
