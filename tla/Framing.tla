------------------------------ MODULE Framing -------------------------------
(***************************************************************************)
(* serialize_message and deserialize_message (src/messenger/message.rs):   *)
(* the frame  [length][context][msg_id length][msg_id][body]  as functions *)
(* on sequences of bytes.                                                  *)
(*                                                                         *)
(* A byte is a number below Base, and a length field has WORD = 2 bytes,   *)
(* little-endian, instead of four: it can be cut in two by the stream, and *)
(* it wraps around at Base * Base as `as u32` does at 2^32.  Contexts have *)
(* a fixed size; codecs and UTF-8 are external and given by Codec.         *)
(***************************************************************************)
EXTENDS Integers, Sequences, SequencesExt

CONSTANTS
  Base,     \* number of byte values; Base - 1 is no valid UTF-8
  CtxSize,  \* bytes of a serialized context, 0 for EmptyContext
  Codec     \* MessageRegistry: registered msg_id -> bodies it can decode

ASSUME FramingAssumption == Base \in Nat \ {0, 1} /\ CtxSize \in Nat

Bytes == 0..(Base - 1)

\* FRAME_SIZE_BYTES, also the size of the msg_id length.
WORD == 2

\* (n as u32).to_le_bytes() and u32::from_le_bytes
to_le_bytes(n) == <<n % Base, (n \div Base) % Base>>
from_le_bytes(w) == w[1] + Base * w[2]

From(s, n) == SubSeq(s, n + 1, Len(s))

Payload(m) == m.ctx \o to_le_bytes(Len(m.id)) \o m.id \o m.body

\* registry.get(msg_id).expect(..) makes an unregistered message a panic of
\* the sender; the messages serialized here are registered.
serialize_message(m) == to_le_bytes(Len(Payload(m))) \o Payload(m)

\* The bytes of the messages ms, one frame after the other.
serialize_all(ms) ==
  FlattenSeq([k \in 1..Len(ms) |-> serialize_message(ms[k])])

None == [kind |-> "none"]
Error == [kind |-> "error"]
Some(m, n) == [kind |-> "message", msg |-> m, size |-> n]

Utf8(s) == \A k \in 1..Len(s) : s[k] # Base - 1

\* The messages a sender can serialize: registered, with a context of the
\* agreed size, and small enough for the length field, which is not checked
\* when it is written.
Serializable ==
  {m \in [ctx : Seq(Bytes), id : Seq(Bytes), body : Seq(Bytes)] :
     /\ Len(m.ctx) = CtxSize
     /\ m.id \in DOMAIN Codec /\ Utf8(m.id) /\ m.body \in Codec[m.id]
     /\ Len(Payload(m)) < Base * Base}

FrameSize(buf) == WORD + from_le_bytes(buf)

\* The payload of a complete frame.  A payload too short for the msg_id its
\* length field announces is answered like an incomplete frame.
deserialize_payload(payload, size) ==
  IF Len(payload) < CtxSize THEN Error
  ELSE LET ctx == SubSeq(payload, 1, CtxSize)
           rest == From(payload, CtxSize)
       IN
       IF Len(rest) < WORD \/ Len(rest) < WORD + from_le_bytes(rest) THEN None
       ELSE LET n == from_le_bytes(rest)
                id == SubSeq(rest, WORD + 1, WORD + n)
                body == From(rest, WORD + n)
            IN
            IF Utf8(id) /\ id \in DOMAIN Codec /\ body \in Codec[id]
            THEN Some([ctx |-> ctx, id |-> id, body |-> body], size)
            ELSE Error

deserialize_message(buf) ==
  IF Len(buf) < WORD \/ Len(buf) < FrameSize(buf) THEN None
  ELSE deserialize_payload(SubSeq(buf, WORD + 1, FrameSize(buf)),
                           FrameSize(buf))

\* The while loop of Messenger::fetch_events from position pos on: the
\* messages found, where it stopped, and whether it met an error.
deserialize_all(buf) ==
  LET scan[pos \in 0..Len(buf)] ==
        LET r == deserialize_message(From(buf, pos)) IN
        IF pos = Len(buf) \/ r.kind = "none"
        THEN [msgs |-> <<>>, pos |-> pos, had_error |-> FALSE]
        ELSE IF r.kind = "error"
        THEN [msgs |-> <<>>, pos |-> pos, had_error |-> TRUE]
        ELSE LET more == scan[pos + r.size] IN
             [more EXCEPT !.msgs = <<r.msg>> \o @]
  IN scan[0]

=============================================================================
