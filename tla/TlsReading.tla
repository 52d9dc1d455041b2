------------------------------ MODULE TlsReading ------------------------------
(***************************************************************************)
(* What the TLS transport must bring about in the end, for records and     *)
(* flights that may be longer than what one read takes.                    *)
(*                                                                         *)
(* read_connection leaves its loop when a turn yields no plaintext, even   *)
(* if the socket is not drained, and what it leaves there has no edge of   *)
(* its own.  The history variable left holds the connections whose last    *)
(* read ended that way; they are the exception the properties name.        *)
(***************************************************************************)
EXTENDS TlsTransport

VARIABLE left

\* The loop of read_connection breaks for want of plaintext before it has met
\* the end of the stream or taken everything there is.
LeavesRest(i) ==
  /\ ~ReadLoop(i).disconnect
  /\ ReadLoop(i).units < Len(sock[i].rx) \/ Tcp!ReadEnds(i)

\* The connections read_connection reads in this step, and keeps
ReadNow == {e.id : e \in {x \in poll_events : ReadData(x)}}

Observe ==
  left' = {i \in DOMAIN connections' :
             IF i \in ReadNow THEN LeavesRest(i) ELSE i \in left}

ReadingSpec ==
  Init /\ left = {} /\ [][Next /\ Observe]_<<vars, left>> /\ Fairness

-----------------------------------------------------------------------------
(* Properties.                                                             *)

\* Nothing reads the connection again: the last read has left something in the
\* socket, and no later one takes it.
Stranded(i) == [](i \in left)

\* Every byte queued, during the handshake too, reaches the socket, unless the
\* connection is gone or shut down first, or its handshake is stranded.  (At
\* most MaxBytes are queued in all, so that writing each of them is to catch up
\* with the application.)
DataWritten ==
  \A i \in GivenIds :
    Len(wire[i]) < Len(sent[i])
      ~> Len(wire[i]) = Len(sent[i]) \/ Gone(i) \/ ShutDown(i) \/ Stranded(i)

\* Every byte the peer wrote reaches the application, however records are cut
\* by the reads and whatever precedes them in the socket, unless the connection
\* is gone first or stranded.
DataDelivered ==
  \A i \in GivenIds :
    Len(got[i]) < Len(fed[i])
      ~> Len(got[i]) = Len(fed[i]) \/ Gone(i) \/ Stranded(i)

\* A connection attempt is left in limbo only by a read in the middle of a
\* flight: otherwise the handshake is completed and announced, or the
\* connection is removed (without a word if the handshake fails while reading).
AttemptsEnd ==
  \A i \in GivenIds :
    view[i] = "connecting"
      ~> view[i] # "connecting" \/ Gone(i) \/ ShutDown(i) \/ Stranded(i)

\* A connection whose peer is gone stays in the table only if the application
\* has shut it down, or the last read left the end behind: after a ticket, a
\* close_notify, or the first part of a record or flight.
EndNoticedUnlessLeft ==
  \A i \in GivenIds :
    peer[i] # "up" /\ i \in DOMAIN connections
      ~> Gone(i) \/ ShutDown(i) \/ Stranded(i)

=============================================================================
