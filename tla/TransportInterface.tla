------------------------- MODULE TransportInterface -------------------------
(***************************************************************************)
(* The thread-safe interface (src/transport/interface.rs): any number of   *)
(* threads hand requests to the thread that owns the transport through an  *)
(* mpsc channel and a mio Waker.  Every call is two steps, send() and      *)
(* wake(), and a blocking call (connect, listen, get_listener_addresses)   *)
(* then waits on a response channel of its own.                            *)
(*                                                                         *)
(* The owner's side is fetch_events of tcp.rs, reduced to what matters     *)
(* here: the sockets are a count, and what poll() reports about them is    *)
(* arbitrary (TcpTransport models it).  owner says where that thread is:   *)
(*   "app"     in the application;  "collect", "execute"  in the two loops *)
(*   of process_interface_requests;  "poll"  in poll();  "gone"  the       *)
(*   transport was dropped, which closes the request channel and, with the *)
(*   requests in it, their response channels.                              *)
(***************************************************************************)
EXTENDS Naturals, Sequences, FiniteSets

CONSTANTS
  Threads,          \* the threads that hold a TransportInterface
  MaxCalls,         \* bound: calls per thread
  MaxSockets        \* bound: connections and listeners

ASSUME BoundsAssumption == MaxCalls \in Nat /\ MaxSockets \in Nat

VARIABLES
  state,     \* per thread: "idle"; "sent" or "asked", between send() and
             \* wake() of a non-blocking or a blocking call; "wait", in
             \* recv(); "panic", an expect() on a closed channel
  calls,     \* per thread: how many it has made
  queue,     \* the mpsc channel of SendRequests
  send_requests,  \* the requests collected in this round
  response,  \* threads whose response channel holds an answer
  wake,      \* the waker's event is pending in the selector
  owner, sockets, inactive

threads == <<state, calls>>
loop == <<owner, sockets, inactive>>
vars == <<threads, queue, send_requests, response, wake, loop>>

\* SendRequest, its variants told apart by what they do: Connect and Listen
\* open a socket, GetListenerAddresses asks, the Send, Broadcast and Shutdown
\* variants leave the sockets alone, the Close variants close some or all.
Blocking == {"Open", "Query"}
NonBlocking == {"Send", "Close"}
Requests == Blocking \cup NonBlocking
Waking == {"sent", "asked"}

Init ==
  /\ state = [t \in Threads |-> "idle"]
  /\ calls = [t \in Threads |-> 0]
  /\ queue = <<>> /\ send_requests = <<>>
  /\ response = {} /\ wake = FALSE
  /\ owner = "app" /\ sockets = 0 /\ inactive = FALSE

-----------------------------------------------------------------------------
(* The calling threads.                                                    *)

\* self.sender.send(..).expect(..)
SendRequest(t, op) ==
  /\ state[t] = "idle" /\ calls[t] < MaxCalls
  /\ calls' = [calls EXCEPT ![t] = @ + 1]
  /\ IF owner = "gone"
     THEN state' = [state EXCEPT ![t] = "panic"] /\ UNCHANGED queue
     ELSE /\ state' = [state EXCEPT ![t] = IF op \in Blocking THEN "asked"
                                                             ELSE "sent"]
          /\ queue' = Append(queue, [from |-> t, op |-> op])
  /\ UNCHANGED <<send_requests, response, wake, loop>>

\* Mutant: a blocking call goes straight to its response channel.
Wake_NotWhenBlocking(t) ==
  /\ state[t] \in Waking
  /\ wake' = (wake \/ state[t] = "sent")
  /\ state' = [state EXCEPT ![t] = IF @ = "asked" THEN "wait" ELSE "idle"]
  /\ UNCHANGED <<calls, queue, send_requests, response, loop>>

\* self.waker.wake(); a non-blocking call returns.
Wake(t) ==
  /\ state[t] \in Waking
  /\ wake' = TRUE
  /\ state' = [state EXCEPT ![t] = IF @ = "asked" THEN "wait" ELSE "idle"]
  /\ UNCHANGED <<calls, queue, send_requests, response, loop>>

\* rx.recv().expect(..)
Receive(t) ==
  /\ state[t] = "wait" /\ t \in response
  /\ state' = [state EXCEPT ![t] = "idle"]
  /\ response' = response \ {t}
  /\ UNCHANGED <<calls, queue, send_requests, wake, loop>>

\* The sending half of the response channel was dropped unanswered.
ReceiveFails(t) ==
  /\ state[t] = "wait" /\ t \notin response /\ owner = "gone"
  /\ state' = [state EXCEPT ![t] = "panic"]
  /\ UNCHANGED <<calls, queue, send_requests, response, wake, loop>>

-----------------------------------------------------------------------------
(* The owner of the transport.                                             *)

\* A call of connect or listen on the transport itself.
OwnerConnects ==
  /\ owner = "app" /\ sockets < MaxSockets
  /\ sockets' = sockets + 1
  /\ UNCHANGED <<threads, queue, send_requests, response, wake, owner, inactive>>

FetchEvents ==
  /\ owner = "app"
  /\ owner' = "collect" /\ inactive' = FALSE
  /\ UNCHANGED <<threads, queue, send_requests, response, wake, sockets>>

\* The applications stop when they are told Inactive, and drop the transport.
DropTransport ==
  /\ owner = "app" /\ inactive
  /\ owner' = "gone"
  /\ queue' = <<>>
  /\ UNCHANGED <<threads, send_requests, response, wake, sockets, inactive>>

\* Mutant: each request taken replaces the one before.
CollectOne_Overwrites ==
  /\ owner = "collect" /\ queue # <<>>
  /\ send_requests' = <<Head(queue)>>
  /\ queue' = Tail(queue)
  /\ UNCHANGED <<threads, response, wake, loop>>

\* self.receiver.try_iter().collect() takes what is there, and what arrives
\* while it is at it.
CollectOne ==
  /\ owner = "collect" /\ queue # <<>>
  /\ send_requests' = Append(send_requests, Head(queue))
  /\ queue' = Tail(queue)
  /\ UNCHANGED <<threads, response, wake, loop>>

CollectDone ==
  /\ owner = "collect" /\ queue = <<>>
  /\ owner' = "execute"
  /\ UNCHANGED <<threads, queue, send_requests, response, wake, sockets,
                 inactive>>

\* What a request does to the sockets: a connect or listen may fail.
Outcomes(op) ==
  CASE op = "Open" -> {sockets} \cup {n \in {sockets + 1} : n <= MaxSockets}
    [] op = "Close" -> 0..sockets
    [] OTHER -> {sockets}

\* Mutant: the requests are popped off the end of the Vec.
ExecuteOne_Last ==
  /\ owner = "execute" /\ send_requests # <<>>
  /\ LET n == Len(send_requests)
         r == send_requests[n]
     IN
     /\ sockets' \in Outcomes(r.op)
     /\ response' = IF r.op \in Blocking THEN response \cup {r.from}
                                         ELSE response
     /\ send_requests' = SubSeq(send_requests, 1, n - 1)
  /\ UNCHANGED <<threads, queue, wake, owner, inactive>>

ExecuteOne ==
  /\ owner = "execute" /\ send_requests # <<>>
  /\ LET r == Head(send_requests) IN
     /\ sockets' \in Outcomes(r.op)
     /\ response' = IF r.op \in Blocking THEN response \cup {r.from}
                                         ELSE response
  /\ send_requests' = Tail(send_requests)
  /\ UNCHANGED <<threads, queue, wake, owner, inactive>>

\* Nothing left to execute: block in poll(), or report Inactive.
ExecuteDone ==
  /\ owner = "execute" /\ send_requests = <<>>
  /\ IF sockets = 0 THEN owner' = "app" /\ inactive' = TRUE
                    ELSE owner' = "poll" /\ UNCHANGED inactive
  /\ UNCHANGED <<threads, queue, send_requests, response, wake, sockets>>

\* Mutant: requests are looked at once per fetch_events, not once per poll().
PollWoken_NoCollect ==
  /\ owner = "poll" /\ wake
  /\ wake' = FALSE
  /\ UNCHANGED <<threads, queue, send_requests, response, loop>>

\* poll() returns with the waker's event alone: nothing to do, next round.
PollWoken ==
  /\ owner = "poll" /\ wake
  /\ wake' = FALSE
  /\ owner' = "collect"
  /\ UNCHANGED <<threads, queue, send_requests, response, sockets, inactive>>

\* poll() returns with events of sockets, and the waker's if it fits in.
\* Sockets come and go, and the application is told or the loop goes round.
PollSockets ==
  /\ owner = "poll"
  /\ wake' \in {wake, FALSE}
  /\ sockets' \in {n \in 0..MaxSockets : n <= sockets + 1 /\ sockets <= n + 1}
  /\ owner' \in {"app", "collect"}
  /\ UNCHANGED <<threads, queue, send_requests, response, inactive>>

-----------------------------------------------------------------------------

Caller(t) ==
  \/ \E op \in Requests : SendRequest(t, op)
  \/ Wake(t) \/ Receive(t) \/ ReceiveFails(t)

Owner ==
  \/ OwnerConnects \/ FetchEvents \/ DropTransport
  \/ CollectOne \/ CollectDone \/ ExecuteOne \/ ExecuteDone
  \/ PollWoken \/ PollSockets

Next == Owner \/ \E t \in Threads : Caller(t)

Spec == Init /\ [][Next]_vars

-----------------------------------------------------------------------------
(* Properties.                                                             *)

RequestRecords == [from : Threads, op : Requests]

\* Every variable keeps its type: the channels hold whole requests, and closing
\* never counts more sockets than process_interface_requests has.
TypeOK ==
  /\ state \in [Threads -> {"idle", "sent", "asked", "wait", "panic"}]
  /\ calls \in [Threads -> 0..MaxCalls]
  /\ queue \in Seq(RequestRecords)
  /\ send_requests \in Seq(RequestRecords)
  /\ response \subseteq Threads
  /\ wake \in BOOLEAN
  /\ owner \in {"app", "collect", "execute", "poll", "gone"}
  /\ sockets \in 0..MaxSockets
  /\ inactive \in BOOLEAN

\* The owner never sleeps in poll() over a request: if one is in the channel,
\* the waker's event is pending or its sender is just about to raise it.  This
\* is why process_interface_requests can run before poll(), and send() before
\* wake(), without a lock.
NoLostWakeup ==
  owner = "poll" /\ queue # <<>> => wake \/ \E t \in Threads : state[t] \in Waking

\* Requests handed over and not yet executed.
Outstanding == send_requests \o queue

\* A thread that waits for an answer has one coming: it is there, or its
\* request is still to be executed, or the transport is gone and the wait ends
\* with a closed channel.
WaitsForSomething ==
  \A t \in Threads : state[t] = "wait" =>
    \/ t \in response \/ owner = "gone"
    \/ \E k \in 1..Len(Outstanding) :
         Outstanding[k].from = t /\ Outstanding[k].op \in Blocking

\* The two hand-over queues act as one: each request is executed exactly once,
\* in the order of the send() calls of all threads.
Service ==
  INSTANCE RequestService WITH
    pending <- Outstanding, owned <- owner # "gone", answered <- response

ImplementsService == Service!Spec

-----------------------------------------------------------------------------
(* Liveness: the calling threads and the owner's thread are scheduled, and *)
(* the application keeps calling fetch_events while it owns the transport. *)
(* Nothing is assumed about sockets becoming ready.                        *)

Fairness ==
  /\ \A t \in Threads : WF_vars(Wake(t)) /\ WF_vars(Receive(t) \/ ReceiveFails(t))
  /\ WF_vars(FetchEvents \/ CollectOne \/ CollectDone \/ ExecuteOne
             \/ ExecuteDone \/ PollWoken)

FairSpec == Spec /\ Fairness

\* A call returns, or panics because the transport is gone; it never hangs.
CallReturns ==
  \A t \in Threads :
    state[t] \in {"sent", "asked", "wait"} ~> state[t] \in {"idle", "panic"}

=============================================================================
