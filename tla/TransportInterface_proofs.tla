---------------------- MODULE TransportInterface_proofs ----------------------
(***************************************************************************)
(* Proofs about TransportInterface, for any set of threads and any bounds: *)
(* its type invariant, that no wakeup is lost, that a waiting thread has   *)
(* something to wait for, and that the two hand-over queues implement the  *)
(* single queue of RequestService.                                         *)
(***************************************************************************)
EXTENDS TransportInterface, SequenceTheorems, TLAPS

-----------------------------------------------------------------------------
(* Sequences: what moving the boundary between two queues does to their    *)
(* concatenation.                                                          *)

\* Moving the first request of the channel to the collected ones changes
\* nothing in their concatenation (CollectOne).
LEMMA MoveKeepsConcat ==
  ASSUME NEW S, NEW s \in Seq(S), NEW q \in Seq(S), q # <<>>
  PROVE  Append(s, Head(q)) \o Tail(q) = s \o q
<1>1. Head(q) \in S /\ Tail(q) \in Seq(S)
  BY HeadTailProperties
<1>2. Append(s, Head(q)) = s \o <<Head(q)>>
  BY <1>1, AppendIsConcat
<1>3. <<Head(q)>> \in Seq(S)
  BY <1>1
<1>4. (s \o <<Head(q)>>) \o Tail(q) = s \o (<<Head(q)>> \o Tail(q))
  BY <1>1, <1>3, ConcatAssociative
<1>5. <<Head(q)>> \o Tail(q) = q
  BY <1>1, HeadTailProperties
<1> QED
  BY <1>2, <1>4, <1>5

\* Executing the first collected request takes the first of all (ExecuteOne).
LEMMA HeadTailOfConcat ==
  ASSUME NEW S, NEW s \in Seq(S), NEW q \in Seq(S), s # <<>>
  PROVE  /\ s \o q # <<>>
         /\ Head(s \o q) = Head(s)
         /\ Tail(s \o q) = Tail(s) \o q
<1>1. Head(s) \in S /\ Tail(s) \in Seq(S) /\ Len(s) \in Nat \ {0}
  BY HeadTailProperties, EmptySeq
<1>2. s \o q \in Seq(S) /\ Len(s \o q) = Len(s) + Len(q) /\ Len(q) \in Nat
  BY ConcatProperties, LenProperties
<1>3. s \o q # <<>>
  BY <1>1, <1>2
<1>4. Head(s \o q) = Head(s)
  BY <1>1, <1>2, <1>3, ConcatProperties
<1>5. Tail(s \o q) = Tail(s) \o q
  <2>1. Tail(s \o q) \in Seq(S) /\ Tail(s) \o q \in Seq(S)
    BY <1>1, <1>2, <1>3, HeadTailProperties, ConcatProperties
  <2>2. Len(Tail(s \o q)) = Len(Tail(s) \o q)
    BY <1>1, <1>2, <1>3, HeadTailProperties, ConcatProperties
  <2>3. ASSUME NEW i \in 1..Len(Tail(s \o q))
        PROVE  Tail(s \o q)[i] = (Tail(s) \o q)[i]
    BY <1>1, <1>2, <1>3, HeadTailProperties, ConcatProperties
  <2> QED
    BY <2>1, <2>2, <2>3, SeqEqual
<1> QED
  BY <1>3, <1>4, <1>5

\* A request sent now comes after all that are outstanding (SendRequest).
LEMMA ConcatAppend ==
  ASSUME NEW S, NEW s \in Seq(S), NEW q \in Seq(S), NEW e \in S
  PROVE  s \o Append(q, e) = Append(s \o q, e)
<1>1. <<e>> \in Seq(S) /\ s \o q \in Seq(S)
  BY ConcatProperties
<1>2. Append(q, e) = q \o <<e>> /\ Append(s \o q, e) = (s \o q) \o <<e>>
  BY <1>1, AppendIsConcat
<1> QED
  BY <1>1, <1>2, ConcatAssociative

-----------------------------------------------------------------------------
(* Type correctness.                                                       *)

\* The initial state has the types.
LEMMA TypeInit == Init => TypeOK
<1>1. <<>> \in Seq(RequestRecords)
  BY EmptySeq
<1>2. 0 \in 0..MaxCalls /\ 0 \in 0..MaxSockets
  BY BoundsAssumption
<1> QED
  BY <1>1, <1>2, Zenon DEF Init, TypeOK

\* No step of a calling thread leaves the types.
LEMMA TypeCaller ==
  ASSUME TypeOK, NEW t \in Threads, Caller(t)
  PROVE  TypeOK'
<1>1. ASSUME NEW op \in Requests, SendRequest(t, op)
      PROVE  TypeOK'
  <2>1. [from |-> t, op |-> op] \in RequestRecords
    BY <1>1 DEF RequestRecords
  <2>2. calls' \in [Threads -> 0..MaxCalls]
    BY <1>1, BoundsAssumption DEF TypeOK, SendRequest
  <2>3. queue' \in Seq(RequestRecords)
    <3>1. queue \in Seq(RequestRecords)
      BY DEF TypeOK
    <3>2. Append(queue, [from |-> t, op |-> op]) \in Seq(RequestRecords)
      BY <2>1, <3>1, AppendProperties
    <3> QED
      BY <1>1, <3>1, <3>2 DEF SendRequest
  <2> QED
    BY <1>1, <2>2, <2>3 DEF TypeOK, SendRequest, loop
<1>2. CASE Wake(t)
  BY <1>2 DEF TypeOK, Wake, loop
<1>3. CASE Receive(t)
  BY <1>3 DEF TypeOK, Receive, loop
<1>4. CASE ReceiveFails(t)
  BY <1>4 DEF TypeOK, ReceiveFails, loop
<1> QED
  BY <1>1, <1>2, <1>3, <1>4 DEF Caller

\* No step of the owner leaves the types.
LEMMA TypeOwner ==
  ASSUME TypeOK, Owner
  PROVE  TypeOK'
<1> USE DEF TypeOK, threads, loop
<1>1. CASE OwnerConnects
  BY <1>1, BoundsAssumption DEF OwnerConnects
<1>2. CASE FetchEvents
  BY <1>2 DEF FetchEvents
<1>3. CASE DropTransport
  BY <1>3 DEF DropTransport
<1>4. CASE CollectOne
  <2>1. Head(queue) \in RequestRecords /\ Tail(queue) \in Seq(RequestRecords)
    BY <1>4, HeadTailProperties DEF CollectOne
  <2>2. send_requests' \in Seq(RequestRecords)
    BY <1>4, <2>1, AppendProperties DEF CollectOne
  <2> QED
    BY <1>4, <2>1, <2>2 DEF CollectOne
<1>5. CASE CollectDone
  BY <1>5 DEF CollectDone
<1>6. CASE ExecuteOne
  <2>1. /\ Head(send_requests) \in RequestRecords
        /\ Tail(send_requests) \in Seq(RequestRecords)
    BY <1>6, HeadTailProperties DEF ExecuteOne
  <2>2. Outcomes(Head(send_requests).op) \subseteq 0..MaxSockets
    BY BoundsAssumption DEF Outcomes
  <2>3. response' \subseteq Threads
    BY <1>6, <2>1 DEF ExecuteOne, RequestRecords
  <2> QED
    BY <1>6, <2>1, <2>2, <2>3 DEF ExecuteOne
<1>7. CASE ExecuteDone
  BY <1>7 DEF ExecuteDone
<1>8. CASE PollWoken
  BY <1>8 DEF PollWoken
<1>9. CASE PollSockets
  BY <1>9 DEF PollSockets
<1> QED
  BY <1>1, <1>2, <1>3, <1>4, <1>5, <1>6, <1>7, <1>8, <1>9 DEF Owner

\* Every step keeps the types.
LEMMA TypeStep == TypeOK /\ [Next]_vars => TypeOK'
<1>1. CASE UNCHANGED vars
  BY <1>1 DEF TypeOK, vars, threads, loop
<1>2. CASE Next
  BY <1>2, TypeCaller, TypeOwner DEF Next
<1> QED
  BY <1>1, <1>2

\* The type invariant of the interface and of the owner's loop.
THEOREM TypeCorrect == Spec => []TypeOK
  BY TypeInit, TypeStep, PTL DEF Spec

-----------------------------------------------------------------------------
(* No lost wakeup.  The inductive invariant extends the property from      *)
(* "poll" to "execute": the last moment at which the channel is known to   *)
(* be empty is the end of the collecting loop.                             *)

Announced == wake \/ \E t \in Threads : state[t] \in Waking

WakeupInv == owner \in {"execute", "poll"} /\ queue # <<>> => Announced

\* Every step keeps a pending wakeup for the requests in the channel.
LEMMA WakeupStep == TypeOK /\ WakeupInv /\ [Next]_vars => WakeupInv'
<1> SUFFICES ASSUME TypeOK, WakeupInv, [Next]_vars
             PROVE  WakeupInv'
  OBVIOUS
<1> USE DEF TypeOK, WakeupInv, Announced, Waking, threads, loop
<1>1. ASSUME NEW t \in Threads, NEW op \in Requests, SendRequest(t, op)
      PROVE  WakeupInv'
  BY <1>1 DEF SendRequest
<1>2. ASSUME NEW t \in Threads, Wake(t)
      PROVE  WakeupInv'
  BY <1>2 DEF Wake
<1>3. ASSUME NEW t \in Threads, Receive(t)
      PROVE  WakeupInv'
  BY <1>3 DEF Receive
<1>4. ASSUME NEW t \in Threads, ReceiveFails(t)
      PROVE  WakeupInv'
  BY <1>4 DEF ReceiveFails
<1>5. CASE OwnerConnects
  BY <1>5 DEF OwnerConnects
<1>6. CASE FetchEvents
  BY <1>6 DEF FetchEvents
<1>7. CASE DropTransport
  BY <1>7 DEF DropTransport
<1>8. CASE CollectOne
  BY <1>8 DEF CollectOne
<1>9. CASE CollectDone
  BY <1>9 DEF CollectDone
<1>10. CASE ExecuteOne
  BY <1>10 DEF ExecuteOne
<1>11. CASE ExecuteDone
  BY <1>11 DEF ExecuteDone
<1>12. CASE PollWoken
  BY <1>12 DEF PollWoken
<1>13. CASE PollSockets
  BY <1>13 DEF PollSockets
<1>14. CASE UNCHANGED vars
  BY <1>14 DEF vars
<1> QED
  BY <1>1, <1>2, <1>3, <1>4, <1>5, <1>6, <1>7, <1>8, <1>9, <1>10, <1>11,
     <1>12, <1>13, <1>14 DEF Next, Owner, Caller

\* fetch_events never blocks in poll() over a request nobody will announce,
\* however many threads send and wake in whatever order.
THEOREM WakeupsReachOwner == Spec => []NoLostWakeup
<1>1. Init => WakeupInv
  BY DEF Init, WakeupInv
<1>2. WakeupInv => NoLostWakeup
  BY DEF WakeupInv, NoLostWakeup, Announced
<1> QED
  BY <1>1, <1>2, WakeupStep, TypeCorrect, PTL DEF Spec

-----------------------------------------------------------------------------
(* The two queues seen as one.  Between two rounds nothing is left in      *)
(* send_requests, so dropping the transport loses no collected request.    *)

CollectedInv == owner \notin {"collect", "execute"} => send_requests = <<>>

\* Only the two loops of process_interface_requests hold collected requests.
LEMMA CollectedStep == CollectedInv /\ [Next]_vars => CollectedInv'
<1> SUFFICES ASSUME CollectedInv, [Next]_vars
             PROVE  CollectedInv'
  OBVIOUS
<1> USE DEF CollectedInv, threads, loop
<1>1. ASSUME NEW t \in Threads, Caller(t)
      PROVE  CollectedInv'
  BY <1>1 DEF Caller, SendRequest, Wake, Receive, ReceiveFails
<1>2. CASE Owner
  BY <1>2 DEF Owner, OwnerConnects, FetchEvents, DropTransport, CollectOne,
              CollectDone, ExecuteOne, ExecuteDone, PollWoken, PollSockets
<1>3. CASE UNCHANGED vars
  BY <1>3 DEF vars
<1> QED
  BY <1>1, <1>2, <1>3 DEF Next

\* Whenever the owner is outside process_interface_requests it has executed
\* everything it has collected.
THEOREM RoundsAreComplete == Spec => []CollectedInv
<1>1. Init => CollectedInv
  BY DEF Init, CollectedInv
<1> QED
  BY <1>1, CollectedStep, PTL DEF Spec

\* What each step does to the concatenation of the two queues.
LEMMA SendOutstanding ==
  ASSUME TypeOK, NEW t \in Threads, NEW op \in Requests, SendRequest(t, op),
         owner # "gone"
  PROVE  Outstanding' = Append(Outstanding, [from |-> t, op |-> op])
<1>1. [from |-> t, op |-> op] \in RequestRecords
  BY DEF RequestRecords
<1>2. queue' = Append(queue, [from |-> t, op |-> op])
      /\ send_requests' = send_requests
  BY DEF SendRequest
<1> QED
  BY <1>1, <1>2, ConcatAppend, SMTT(60) DEF Outstanding, TypeOK

\* Collecting moves a request from one queue to the other and leaves the
\* sequence of outstanding requests as it is.
LEMMA CollectOutstanding ==
  ASSUME TypeOK, CollectOne
  PROVE  Outstanding' = Outstanding
  BY MoveKeepsConcat DEF Outstanding, TypeOK, CollectOne

\* Executing takes the oldest outstanding request.
LEMMA ExecuteOutstanding ==
  ASSUME TypeOK, ExecuteOne
  PROVE  /\ Outstanding # <<>>
         /\ Head(Outstanding) = Head(send_requests)
         /\ Outstanding' = Tail(Outstanding)
  BY HeadTailOfConcat, ZenonT(60) DEF Outstanding, TypeOK, ExecuteOne

\* Dropping the transport drops every outstanding request.
LEMMA DropOutstanding ==
  ASSUME CollectedInv, DropTransport
  PROVE  Outstanding' = <<>>
<1>1. send_requests' = <<>> /\ queue' = <<>>
  BY DEF DropTransport, CollectedInv
<1>2. <<>> \o <<>> = <<>>
  BY EmptySeq, ConcatEmptySeq
<1> QED
  BY <1>1, <1>2 DEF Outstanding

\* The outstanding requests are requests.
LEMMA OutstandingType == TypeOK => Outstanding \in Seq(RequestRecords)
  BY ConcatProperties DEF TypeOK, Outstanding

-----------------------------------------------------------------------------
(* A waiting thread has something to wait for.  Inductively the claim      *)
(* begins with the send(), before the thread calls wake() and recv().      *)

Asks(s, t) == \E k \in 1..Len(s) : s[k].from = t /\ s[k].op \in Blocking

\* A new request takes no request of a waiting thread away.
LEMMA AsksAppend ==
  ASSUME NEW s \in Seq(RequestRecords), NEW e \in RequestRecords, NEW t,
         Asks(s, t) \/ (e.from = t /\ e.op \in Blocking)
  PROVE  Asks(Append(s, e), t)
<1>1. /\ Len(Append(s, e)) = Len(s) + 1 /\ Len(s) \in Nat
      /\ \A k \in 1..Len(s) : Append(s, e)[k] = s[k]
      /\ Append(s, e)[Len(s) + 1] = e
  BY AppendProperties, LenProperties
<1> QED
  BY <1>1 DEF Asks

\* Executing a request takes only that request away.
LEMMA AsksTail ==
  ASSUME NEW s \in Seq(RequestRecords), s # <<>>, NEW t, Asks(s, t)
  PROVE  Asks(Tail(s), t) \/ (Head(s).from = t /\ Head(s).op \in Blocking)
<1>1. /\ Len(s) \in Nat /\ Head(s) = s[1] /\ Len(Tail(s)) = Len(s) - 1
      /\ \A k \in 1..Len(Tail(s)) : Tail(s)[k] = s[k + 1]
  BY HeadTailProperties, LenProperties
<1>2. PICK k \in 1..Len(s) : s[k].from = t /\ s[k].op \in Blocking
  BY DEF Asks
<1>3. CASE k = 1
  BY <1>1, <1>2, <1>3
<1>4. CASE k # 1
  <2>1. k - 1 \in 1..Len(Tail(s)) /\ Tail(s)[k - 1] = s[k]
    BY <1>1, <1>4
  <2> QED
    BY <1>2, <2>1 DEF Asks
<1> QED
  BY <1>3, <1>4

Expecting(t) == t \in response \/ owner = "gone" \/ Asks(Outstanding, t)

WaitInv == \A t \in Threads : state[t] \in {"asked", "wait"} => Expecting(t)

\* Every step keeps something to wait for.
LEMMA WaitStep ==
  TypeOK /\ CollectedInv /\ WaitInv /\ [Next]_vars => WaitInv'
<1> SUFFICES ASSUME TypeOK, CollectedInv, WaitInv, [Next]_vars,
                    NEW u \in Threads, (state[u] \in {"asked", "wait"})'
             PROVE  Expecting(u)'
  BY DEF WaitInv
<1> USE DEF Expecting, threads, loop
<1>0. /\ state \in [Threads -> {"idle", "sent", "asked", "wait", "panic"}]
      /\ state[u] \in {"asked", "wait"} => Expecting(u)
  BY DEF TypeOK, WaitInv
\* Steps that leave the queues, the answers and the owner's presence alone.
<1>same. ASSUME UNCHANGED <<queue, send_requests>>, response \subseteq response',
                owner = "gone" => owner' = "gone", state'[u] = state[u]
         PROVE  Expecting(u)'
  BY <1>0, <1>same DEF Outstanding
<1>1. ASSUME NEW t \in Threads, NEW op \in Requests, SendRequest(t, op)
      PROVE  Expecting(u)'
  <2>1. CASE owner = "gone"
    BY <1>1, <2>1 DEF SendRequest
  <2>2. CASE owner # "gone"
    <3>1. Outstanding' = Append(Outstanding, [from |-> t, op |-> op])
      BY <1>1, <2>2, SendOutstanding
    <3>2. /\ Outstanding \in Seq(RequestRecords)
          /\ [from |-> t, op |-> op] \in RequestRecords
      BY OutstandingType DEF RequestRecords
    <3>3. CASE u = t
      BY <1>0, <1>1, <2>2, <3>1, <3>2, <3>3, AsksAppend DEF SendRequest
    <3>4. CASE u # t
      BY <1>0, <1>1, <2>2, <3>1, <3>2, <3>4, AsksAppend DEF SendRequest
    <3> QED
      BY <3>3, <3>4
  <2> QED
    BY <2>1, <2>2
<1>2. ASSUME NEW t \in Threads, Wake(t)
      PROVE  Expecting(u)'
  BY <1>0, <1>2 DEF Wake, Waking, Outstanding
<1>3. ASSUME NEW t \in Threads, Receive(t)
      PROVE  Expecting(u)'
  <2>1. u # t /\ state'[u] = state[u]
    BY <1>0, <1>3 DEF Receive
  <2> QED
    BY <1>0, <1>3, <2>1 DEF Receive, Outstanding
<1>4. ASSUME NEW t \in Threads, ReceiveFails(t)
      PROVE  Expecting(u)'
  BY <1>0, <1>4 DEF ReceiveFails, Outstanding
<1>5. CASE OwnerConnects \/ FetchEvents \/ CollectDone \/ ExecuteDone
           \/ PollWoken \/ PollSockets
  BY <1>5, <1>same DEF OwnerConnects, FetchEvents, CollectDone, ExecuteDone,
                       PollWoken, PollSockets
<1>6. CASE DropTransport
  BY <1>6 DEF DropTransport
<1>7. CASE CollectOne
  <2>1. Outstanding' = Outstanding
    BY <1>7, CollectOutstanding
  <2> QED
    BY <1>0, <1>7, <2>1 DEF CollectOne
<1>8. CASE ExecuteOne
  <2>1. /\ Outstanding # <<>> /\ Outstanding' = Tail(Outstanding)
        /\ Head(Outstanding) = Head(send_requests)
    BY <1>8, ExecuteOutstanding
  <2>2. Asks(Outstanding, u) =>
          \/ Asks(Tail(Outstanding), u)
          \/ Head(send_requests).from = u /\ Head(send_requests).op \in Blocking
    BY <2>1, OutstandingType, AsksTail
  <2>3. response \subseteq response'
        /\ (Head(send_requests).from = u /\ Head(send_requests).op \in Blocking
              => u \in response')
        /\ state'[u] = state[u] /\ owner' = owner
    BY <1>8 DEF ExecuteOne
  <2> QED
    BY <1>0, <2>1, <2>2, <2>3
<1>9. CASE UNCHANGED vars
  BY <1>9, <1>same DEF vars
<1> QED
  BY <1>1, <1>2, <1>3, <1>4, <1>5, <1>6, <1>7, <1>8, <1>9
     DEF Next, Owner, Caller

\* A thread blocked in the recv() of connect, listen or get_listener_addresses
\* never waits for an answer that cannot come.
THEOREM WaitersAreServed == Spec => []WaitsForSomething
<1>1. Init => WaitInv
  BY DEF Init, WaitInv
<1>2. WaitInv => WaitsForSomething
  BY DEF WaitInv, WaitsForSomething, Expecting, Asks
<1> QED
  BY <1>1, <1>2, WaitStep, TypeCorrect, RoundsAreComplete, PTL DEF Spec

-----------------------------------------------------------------------------
(* Refinement.                                                             *)

\* The initial state is one of the service.
LEMMA RefinesInit == Init => Service!Init
<1>1. <<>> \o <<>> = <<>>
  BY EmptySeq, ConcatEmptySeq
<1> QED
  BY <1>1 DEF Init, Service!Init, Outstanding

\* Every step is a step of RequestService or leaves its variables unchanged:
\* SendRequest submits, ExecuteOne executes, Receive returns, DropTransport
\* goes away, and all others are invisible.
LEMMA RefinesStep ==
  TypeOK /\ CollectedInv /\ [Next]_vars => [Service!Next]_(Service!service)
<1> SUFFICES ASSUME TypeOK, CollectedInv, [Next]_vars
             PROVE  Service!Next \/ UNCHANGED Service!service
  OBVIOUS
<1> USE DEF threads, loop
<1>same. ASSUME UNCHANGED <<Outstanding, owner # "gone", response>>
         PROVE  UNCHANGED Service!service
  BY <1>same DEF Service!service
<1>1. ASSUME NEW t \in Threads, NEW op \in Requests, SendRequest(t, op)
      PROVE  Service!Next \/ UNCHANGED Service!service
  <2>1. CASE owner = "gone"
    BY <1>1, <2>1, <1>same DEF SendRequest, Outstanding
  <2>2. CASE owner # "gone"
    <3>1. Outstanding' = Append(Outstanding, [from |-> t, op |-> op])
      BY <1>1, <2>2, SendOutstanding
    <3>2. Service!Submit
      BY <1>1, <2>2, <3>1 DEF Service!Submit, SendRequest, Requests
    <3> QED
      BY <3>2 DEF Service!Next
  <2> QED
    BY <2>1, <2>2
<1>2. ASSUME NEW t \in Threads, Wake(t) \/ ReceiveFails(t)
      PROVE  UNCHANGED Service!service
  BY <1>2, <1>same DEF Wake, ReceiveFails, Outstanding
<1>3. ASSUME NEW t \in Threads, Receive(t)
      PROVE  Service!Next
  <2>1. Service!Return(t)
    BY <1>3 DEF Receive, Service!Return, Outstanding
  <2> QED
    BY <2>1 DEF Service!Next
<1>4. CASE OwnerConnects \/ FetchEvents \/ CollectDone \/ ExecuteDone
           \/ PollWoken \/ PollSockets
  BY <1>4, <1>same DEF OwnerConnects, FetchEvents, CollectDone, ExecuteDone,
                       PollWoken, PollSockets, Outstanding
<1>5. CASE DropTransport
  <2>1. Outstanding' = <<>>
    BY <1>5, DropOutstanding
  <2>2. Service!GoAway
    BY <1>5, <2>1 DEF DropTransport, Service!GoAway
  <2> QED
    BY <2>2 DEF Service!Next
<1>6. CASE CollectOne
  BY <1>6, <1>same, CollectOutstanding DEF CollectOne
<1>7. CASE ExecuteOne
  <2>1. Service!Execute
    BY <1>7, ExecuteOutstanding DEF ExecuteOne, Service!Execute
  <2> QED
    BY <2>1 DEF Service!Next
<1>8. CASE UNCHANGED vars
  BY <1>8, <1>same DEF vars, Outstanding
<1> QED
  BY <1>1, <1>2, <1>3, <1>4, <1>5, <1>6, <1>7, <1>8 DEF Next, Owner, Caller

\* The channel, the collected requests and the response channels together are
\* the first-come-first-served service that RequestService describes.
THEOREM InterfaceImplementsService == Spec => ImplementsService
  BY RefinesInit, RefinesStep, TypeCorrect, RoundsAreComplete, PTL
     DEF Spec, ImplementsService, Service!Spec

=============================================================================
