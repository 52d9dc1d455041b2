---------------------------- MODULE MCMessenger -----------------------------
(* Model-checking instances of Messenger: a registry with one message type *)
(* whose body is empty or one byte.                                        *)
EXTENDS Messenger, TLC

MCCodec == (<<0>> :> {<<>>, <<1>>})

\* The registered messages, with a one-byte context.
ContextMessages ==
  {[ctx |-> <<1>>, id |-> <<0>>, body |-> b] : b \in MCCodec[<<0>>]}

\* Complete frames that are no message: an msg_id nobody registered, a payload
\* shorter than its msg_id length says, no room for the context.
NotMessages ==
  {serialize_message([ctx |-> <<1>>, id |-> <<1>>, body |-> <<>>]),
   to_le_bytes(3) \o <<1>> \o to_le_bytes(3), to_le_bytes(0)}

=============================================================================
