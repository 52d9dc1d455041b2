--------------------------- MODULE MCTlsReading ---------------------------
(* Model-checking instance of TlsReading.                                  *)
EXTENDS TlsReading

=============================================================================
