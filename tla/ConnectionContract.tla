------------------------- MODULE ConnectionContract -------------------------
(***************************************************************************)
(* What a transport promises about each connection id, seen from outside:  *)
(* the application on one side, the remote peer on the other.  This is the *)
(* contract documented on TransportEvent and on the Transport methods      *)
(* (src/transport/mod.rs); TcpTransport is shown to implement it as long   *)
(* as no id is used twice.                                                 *)
(*                                                                         *)
(* Streams are sequences of byte values.  "sent" is what the application   *)
(* handed to send_to/broadcast, "wire" what reached the kernel, "fed" what *)
(* the peer wrote, "got" what Data events handed to the application.       *)
(***************************************************************************)
EXTENDS Naturals, Sequences, SequencesExt

CONSTANT Ids

VARIABLES
  view,   \* the life cycle of each id as the application knows it
  peer,   \* how the peer's half of the stream stands
  sent, wire, fed, got

contract == <<view, peer, sent, wire, fed, got>>

\* Closed by the application; ended by a ConnectionFailed or Disconnected event.
Ended == {"closed", "failed", "disconnected"}

\* s grows to t by appending at least one byte.
Grows(s, t) == IsStrictPrefix(s, t)

Init ==
  /\ view = [i \in Ids |-> "new"]
  /\ peer = [i \in Ids |-> "up"]
  /\ sent = [i \in Ids |-> <<>>] /\ wire = [i \in Ids |-> <<>>]
  /\ fed = [i \in Ids |-> <<>>] /\ got = [i \in Ids |-> <<>>]

-----------------------------------------------------------------------------
(* The application's calls.                                                *)

Connect(i) ==
  /\ view[i] = "new"
  /\ view'[i] = "connecting"
  /\ UNCHANGED <<peer[i], sent[i], wire[i], fed[i], got[i]>>

Send(i) ==
  /\ view[i] \notin Ended
  /\ Grows(sent[i], sent'[i])
  /\ UNCHANGED <<view[i], peer[i], wire[i], fed[i], got[i]>>

\* close_connection and its relatives are immediate and report nothing.
Close(i) ==
  /\ view[i] \notin Ended
  /\ view'[i] = "closed"
  /\ UNCHANGED <<peer[i], sent[i], wire[i], fed[i], got[i]>>

-----------------------------------------------------------------------------
(* The events the application receives.                                    *)

\* An accepted connection goes from "new" to "open", an outgoing one from
\* "connecting" to "open"; either happens once.
Connected(i) ==
  /\ view[i] \in {"new", "connecting"}
  /\ view'[i] = "open"
  /\ UNCHANGED <<peer[i], sent[i], wire[i], fed[i], got[i]>>

ConnectionFailed(i) ==
  /\ view[i] = "connecting"
  /\ view'[i] = "failed"
  /\ UNCHANGED <<peer[i], sent[i], wire[i], fed[i], got[i]>>

\* Data arrives between Connected and Disconnected only, in the order the
\* peer wrote it and without a gap.
Data(i) ==
  /\ view[i] = "open"
  /\ Grows(got[i], got'[i]) /\ IsPrefix(got'[i], fed[i])
  /\ UNCHANGED <<view[i], peer[i], sent[i], wire[i], fed[i]>>

\* When the peer closed in an orderly way nothing it wrote is lost.
Disconnected(i) ==
  /\ view[i] = "open"
  /\ peer[i] = "fin" => got[i] = fed[i]
  /\ view'[i] = "disconnected"
  /\ UNCHANGED <<peer[i], sent[i], wire[i], fed[i], got[i]>>

-----------------------------------------------------------------------------
(* The network.                                                            *)

Transmit(i) ==
  /\ Grows(wire[i], wire'[i]) /\ IsPrefix(wire'[i], sent[i])
  /\ UNCHANGED <<view[i], peer[i], sent[i], fed[i], got[i]>>

PeerWrites(i) ==
  /\ peer[i] = "up"
  /\ Grows(fed[i], fed'[i])
  /\ UNCHANGED <<view[i], peer[i], sent[i], wire[i], got[i]>>

\* "fin": the peer closed its half; "lost": reset, refused or shut down here.
PeerEnds(i) ==
  /\ \/ peer[i] = "up" /\ peer'[i] \in {"fin", "lost"}
     \/ peer[i] = "fin" /\ peer'[i] = "lost"
  /\ UNCHANGED <<view[i], sent[i], wire[i], fed[i], got[i]>>

-----------------------------------------------------------------------------

Step(i) ==
  \/ Connect(i) \/ Send(i) \/ Close(i)
  \/ Connected(i) \/ ConnectionFailed(i) \/ Data(i) \/ Disconnected(i)
  \/ Transmit(i) \/ PeerWrites(i) \/ PeerEnds(i)

Idle(i) == UNCHANGED <<view[i], peer[i], sent[i], wire[i], fed[i], got[i]>>

\* One call or event may concern several connections (broadcast, close_all).
Next == \A i \in Ids : Step(i) \/ Idle(i)

Spec == Init /\ [][Next]_contract
=============================================================================
