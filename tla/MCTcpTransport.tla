--------------------------- MODULE MCTcpTransport ---------------------------
(* Model-checking instances of TcpTransport.                               *)
EXTENDS TcpTransport

=============================================================================
