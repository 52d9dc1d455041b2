------------------------ MODULE MCTransportInterface ------------------------
(* Model-checking instance of TransportInterface: two threads are enough   *)
(* for one to act between the steps of the other.                          *)
EXTENDS TransportInterface
=============================================================================
