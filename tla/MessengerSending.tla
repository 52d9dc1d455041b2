-------------------------- MODULE MessengerSending --------------------------
(***************************************************************************)
(* The sending half of the messenger: the send and broadcast methods of    *)
(* Messenger (src/messenger/mod.rs), called by the thread that owns it,    *)
(* and of MessengerInterface (src/messenger/interface.rs), called by any   *)
(* other thread.                                                           *)
(*                                                                         *)
(* Either way the caller serializes the message into one buffer.  A direct *)
(* call hands the buffer to the transport at once.  An interface call puts *)
(* it in the transport's request channel, one ordered queue as             *)
(* RequestService promises, which the owner works off inside fetch_events. *)
(* out[i] is what the transport has queued on connection i; it reaches the *)
(* peer byte for byte (OutgoingIntact of the transports).                  *)
(*                                                                         *)
(* The body of a message is its caller and the number of the call, so that *)
(* a message in the wrong place shows.                                     *)
(***************************************************************************)
EXTENDS Framing, FiniteSets

CONSTANTS
  Ids,       \* connections, open from the start
  Owner,     \* the thread that runs fetch_events
  Others,    \* the threads with a MessengerInterface
  Contexts,  \* the contexts messages are sent with, C::default() among them
  MaxCalls   \* bound: calls in all

Callers == {Owner} \cup Others

ASSUME SendingAssumption ==
  /\ MaxCalls \in Nat /\ MaxCalls < Base
  /\ Callers \subseteq Bytes /\ Owner \notin Others

\* The k-th message of thread t.
Message(ctx, t, k) == [ctx |-> ctx, id |-> <<0>>, body |-> <<t, k>>]

\* Its type is registered, and it fits a length field.
ASSUME SentAssumption ==
  \A c \in Contexts, t \in Callers, k \in 1..MaxCalls :
    Message(c, t, k) \in Serializable

VARIABLES
  pc,        \* "app": between two fetch_events, "fetch": inside
  live,      \* ids in the transport's table
  ended,     \* history: ids whose connection ended by itself
  requests,  \* the channel of SendRequests
  out,       \* bytes handed to send_buf, per connection
  calls      \* what each thread has called, in order

vars == <<pc, live, ended, requests, out, calls>>

\* A SendRequest: sends name the ids that get the data, broadcasts those that
\* do not; a close has no data.
Request(op, ids, data) == [op |-> op, ids |-> ids, data |-> data]

Init ==
  /\ pc = "app" /\ live = Ids /\ ended = {}
  /\ requests = <<>>
  /\ out = [i \in Ids |-> <<>>]
  /\ calls = [t \in Callers |-> <<>>]

-----------------------------------------------------------------------------
(* The transport executes a request.                                       *)

\* Mutant: the exceptions of a broadcast are ignored.
Targets_NoExcept(r) == IF r.op = "send" THEN r.ids \cap live ELSE live

\* Ids that are no longer there are skipped with a warning.
Targets(r) == IF r.op = "send" THEN r.ids \cap live ELSE live \ r.ids

Execute(r) ==
  IF r.op = "close"
  THEN live' = live \ r.ids /\ UNCHANGED out
  ELSE /\ out' = [i \in Ids |-> IF i \in Targets(r) THEN out[i] \o r.data
                                                    ELSE out[i]]
       /\ UNCHANGED live

-----------------------------------------------------------------------------
(* The calls.                                                              *)

Total == Cardinality({c \in Callers \X (1..MaxCalls) : c[2] <= Len(calls[c[1]])})

\* Mutant: a request goes ahead of those that wait.
Enqueue_Front(r) == requests' = <<r>> \o requests

\* transport_interface.send_to(..) and so on: send the request, wake the owner.
Enqueue(r) == requests' = Append(requests, r)

\* Thread t makes a call: the owner's is executed, another's is queued.
Call(t, r, msg) ==
  /\ Total < MaxCalls
  /\ calls' = [calls EXCEPT ![t] = Append(@, [op |-> r.op, ids |-> r.ids,
                                             msg |-> msg])]
  /\ IF t = Owner THEN pc = "app" /\ Execute(r) /\ UNCHANGED requests
                  ELSE Enqueue(r) /\ UNCHANGED <<live, out>>
  /\ UNCHANGED <<pc, ended>>

\* The next message of thread t.
NewMessage(t, ctx) == Message(ctx, t, Len(calls[t]) + 1)

Send(t, op, ids, ctx) ==
  LET m == NewMessage(t, ctx) IN
  Call(t, Request(op, ids, serialize_message(m)), m)

\* The variants without a context pass C::default().
send_to_with_context(t, i, ctx) == Send(t, "send", {i}, ctx)

send_to_many_with_context(t, S, ctx) == Send(t, "send", S, ctx)

broadcast_with_context(t, ctx) == Send(t, "broadcast", {}, ctx)

broadcast_except_with_context(t, i, ctx) == Send(t, "broadcast", {i}, ctx)

broadcast_except_many_with_context(t, S, ctx) == Send(t, "broadcast", S, ctx)

close_connection(t, i) == Call(t, Request("close", {i}, <<>>), "none")

-----------------------------------------------------------------------------
(* fetch_events: the transport works off the requests; a connection may    *)
(* end.                                                                    *)

FetchEvents == pc = "app" /\ pc' = "fetch" /\ UNCHANGED <<live, ended, requests, out, calls>>

\* Mutant: one connection per turn, the others wait behind the next requests.
ExecuteRequest_OneTarget ==
  /\ pc = "fetch" /\ requests # <<>>
  /\ LET r == Head(requests)
         i == CHOOSE j \in Targets(r) : TRUE
     IN IF r.op = "close" \/ Cardinality(Targets(r)) < 2
        THEN Execute(r) /\ requests' = Tail(requests)
        ELSE /\ Execute(Request("send", {i}, r.data))
             /\ requests' = Append(Tail(requests),
                                   Request("send", Targets(r) \ {i}, r.data))
  /\ UNCHANGED <<pc, ended, calls>>

ExecuteRequest ==
  /\ pc = "fetch" /\ requests # <<>>
  /\ Execute(Head(requests))
  /\ requests' = Tail(requests)
  /\ UNCHANGED <<pc, ended, calls>>

ConnectionEnds(i) ==
  /\ pc = "fetch" /\ i \in live
  /\ live' = live \ {i} /\ ended' = ended \cup {i}
  /\ UNCHANGED <<pc, requests, out, calls>>

EventsReturned == pc = "fetch" /\ pc' = "app" /\ UNCHANGED <<live, ended, requests, out, calls>>

-----------------------------------------------------------------------------

Calls ==
  \E t \in Callers :
    \/ \E ctx \in Contexts :
         \/ \E i \in Ids : \/ send_to_with_context(t, i, ctx)
                           \/ broadcast_except_with_context(t, i, ctx)
         \/ \E S \in SUBSET Ids : \/ send_to_many_with_context(t, S, ctx)
                                  \/ broadcast_except_many_with_context(t, S, ctx)
         \/ broadcast_with_context(t, ctx)
    \/ \E i \in Ids : close_connection(t, i)

Next ==
  \/ Calls \/ FetchEvents \/ ExecuteRequest \/ EventsReturned
  \/ \E i \in Ids : ConnectionEnds(i)

Spec == Init /\ [][Next]_vars

-----------------------------------------------------------------------------
(* Properties.                                                             *)

\* What the messenger at the other end of connection i makes of the bytes.
Received(i) == deserialize_all(out[i])

\* Is a call or a request addressed to connection i?
IsFor(i, r) ==
  (r.op = "send" /\ i \in r.ids) \/ (r.op = "broadcast" /\ i \notin r.ids)

\* The messages for i among some calls, and in a queue of requests.
MessagesFor(i, called) ==
  FlattenSeq([k \in 1..Len(called) |->
                IF IsFor(i, called[k]) THEN <<called[k].msg>> ELSE <<>>])
MessagesIn(i, queue) ==
  FlattenSeq([k \in 1..Len(queue) |->
                IF IsFor(i, queue[k])
                THEN <<deserialize_message(queue[k].data).msg>> ELSE <<>>])

\* Those of thread t among some messages.
SentBy(t, msgs) ==
  FlattenSeq([k \in 1..Len(msgs) |->
                IF msgs[k].body[1] = t THEN <<msgs[k]>> ELSE <<>>])

\* The messages of thread t for i that have arrived, and those that wait.
Arrived(t, i) == SentBy(t, Received(i).msgs)
Waiting(t, i) == SentBy(t, MessagesIn(i, requests))

\* On a live connection every thread's messages arrive in the order of its
\* calls, none lost, none twice, with its context, and on no connection it
\* did not address.
CallersServedInOrder ==
  \A t \in Callers, i \in live :
    MessagesFor(i, calls[t]) = Arrived(t, i) \o Waiting(t, i)

\* The messages of msgs that are also in others.
In(m, msgs) == \E k \in 1..Len(msgs) : msgs[k] = m
Among(msgs, others) ==
  FlattenSeq([k \in 1..Len(msgs) |->
                IF In(msgs[k], others) THEN <<msgs[k]>> ELSE <<>>])

\* Mixed senders or not, two connections see the messages they share in the
\* same order: nothing comes between the parts of a broadcast.
SameOrderEverywhere ==
  \A i, j \in live :
    Among(Received(i).msgs, Received(j).msgs) = Among(Received(j).msgs, Received(i).msgs)

\* A close does not overtake: a connection that was closed, and did not end by
\* itself, was closed by a thread whose earlier messages for it had all been
\* handed to the transport, and none of its later ones.
CloseComesLast ==
  \A i \in Ids \ (live \cup ended) :
    \E t \in Callers : \E k \in 1..Len(calls[t]) :
      /\ calls[t][k].op = "close" /\ i \in calls[t][k].ids
      /\ MessagesFor(i, SubSeq(calls[t], 1, k)) = Arrived(t, i)

=============================================================================
