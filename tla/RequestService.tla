--------------------------- MODULE RequestService ---------------------------
(***************************************************************************)
(* What the thread-safe interface promises: the calls of all threads are   *)
(* executed one at a time by the owner of the transport, each exactly once *)
(* and in the order in which they were handed over; a blocking call is     *)
(* answered only after it was executed.  The owner may go away, and the    *)
(* calls still waiting go with it.                                         *)
(***************************************************************************)
EXTENDS Naturals, Sequences

CONSTANTS Threads, Blocking, NonBlocking

VARIABLES
  pending,   \* the calls handed over and not yet executed, oldest first
  owned,     \* is the transport still there?
  answered   \* the threads whose blocking call was executed

service == <<pending, owned, answered>>

Init ==
  /\ pending = <<>>
  /\ owned = TRUE
  /\ answered = {}

Submit ==
  /\ owned
  /\ \E t \in Threads, op \in Blocking \cup NonBlocking :
       pending' = Append(pending, [from |-> t, op |-> op])
  /\ UNCHANGED <<owned, answered>>

Execute ==
  /\ owned /\ pending # <<>>
  /\ pending' = Tail(pending)
  /\ answered' = IF Head(pending).op \in Blocking
                 THEN answered \cup {Head(pending).from} ELSE answered
  /\ UNCHANGED owned

Return(t) ==
  /\ t \in answered
  /\ answered' = answered \ {t}
  /\ UNCHANGED <<pending, owned>>

GoAway ==
  /\ owned
  /\ owned' = FALSE /\ pending' = <<>>
  /\ UNCHANGED answered

Next == Submit \/ Execute \/ GoAway \/ \E t \in Threads : Return(t)

Spec == Init /\ [][Next]_service
=============================================================================
