--------------------------- MODULE MCTlsTransport ---------------------------
(* Model-checking instances of TlsTransport.                               *)
EXTENDS TlsTransport

=============================================================================
