------------------------- MODULE MCMessengerSending -------------------------
(* Model-checking instance of MessengerSending: one message type, whose    *)
(* body is a thread and a number, and a one-byte context.                  *)
EXTENDS MessengerSending, TLC

MCCodec == (<<0>> :> {<<t, k>> : t \in 0..2, k \in 1..3})
MCContexts == {<<1>>}

=============================================================================
