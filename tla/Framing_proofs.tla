--------------------------- MODULE Framing_proofs ---------------------------
(***************************************************************************)
(* The wire format: deserialize_message is the inverse of                  *)
(* serialize_message, in both directions and whatever follows the frame,   *)
(* and the loop of Messenger::fetch_events splits a buffer into exactly    *)
(* the messages whose frames it begins with, however the bytes arrived.    *)
(***************************************************************************)
EXTENDS Framing, StreamLemmas

\* Concatenation of bytes is associative.
LEMMA BytesAssociative == \A a, b, c \in Seq(Bytes) : Joins(a, b, c)
  BY JoinsAlways

-----------------------------------------------------------------------------
(* Length fields.                                                          *)

\* What from_le_bytes reads is what to_le_bytes wrote, below Base * Base.
LEMMA LengthField ==
  ASSUME NEW n \in Nat
  PROVE  /\ to_le_bytes(n) \in Seq(Bytes) /\ Len(to_le_bytes(n)) = WORD
         /\ n < Base * Base => from_le_bytes(to_le_bytes(n)) = n
<1> USE FramingAssumption
<1> DEFINE q == n \div Base
           r == n % Base
<1>1. q \in Nat /\ r \in 0..(Base - 1) /\ n = Base * q + r
  OBVIOUS
<1>2. q % Base \in 0..(Base - 1)
  BY <1>1
<1>3. n < Base * Base => q % Base = q
  <2> SUFFICES ASSUME n < Base * Base PROVE q % Base = q
    OBVIOUS
  <2>1. q < Base
    OBVIOUS
  <2> HIDE DEF q
  <2> QED
    BY <1>1, <2>1
<1> HIDE DEF q, r
<1>4. to_le_bytes(n) = <<r, q % Base>>
  BY DEF to_le_bytes, q, r
<1> DEFINE u == q % Base
<1>5. u \in 0..(Base - 1) /\ (n < Base * Base => u = q)
  BY <1>2, <1>3
<1>6. to_le_bytes(n) = <<r, u>>
  BY <1>4
<1> HIDE DEF u
<1>7. <<r, u>> \in Seq(Bytes) /\ Len(<<r, u>>) = WORD
  BY <1>1, <1>5 DEF Bytes, WORD
<1>8. from_le_bytes(<<r, u>>) = r + Base * u
  BY DEF from_le_bytes
<1>9. n < Base * Base => r + Base * u = n
  BY <1>1, <1>5
<1> QED
  BY <1>6, <1>7, <1>8, <1>9

\* And the other way round, for the first two bytes of any sequence.
LEMMA FieldLength ==
  ASSUME NEW s \in Seq(Bytes), Len(s) >= WORD
  PROVE  /\ from_le_bytes(s) \in Nat /\ from_le_bytes(s) < Base * Base
         /\ to_le_bytes(from_le_bytes(s)) = SubSeq(s, 1, WORD)
<1> USE FramingAssumption
<1>0. Len(s) \in Nat
  BY LenProperties
<1>1. s[1] \in 0..(Base - 1) /\ s[2] \in 0..(Base - 1)
  <2>1. 1 \in 1..Len(s) /\ 2 \in 1..Len(s)
    BY <1>0 DEF WORD
  <2> QED
    BY <2>1, ElementOfSeq DEF Bytes
<1> DEFINE x == s[1]
           y == s[2]
           n == x + Base * y
<1>2. n \in Nat /\ n < Base * Base /\ n % Base = x /\ n \div Base = y
      /\ y % Base = y
  <2>1. x \in 0..(Base - 1) /\ y \in 0..(Base - 1)
    BY <1>1
  <2> HIDE DEF x, y
  <2> QED
    BY <2>1
<1>3. from_le_bytes(s) = n
  BY DEF from_le_bytes
<1>4. to_le_bytes(n) = <<x, y>>
  <2> HIDE DEF n
  <2> QED
    BY <1>2 DEF to_le_bytes
<1>5. SubSeq(s, 1, WORD) = <<x, y>>
  <2>1. WORD \in 0..Len(s)
    BY <1>0 DEF WORD
  <2>2. SubSeq(s, 1, WORD) \in Seq(Bytes) /\ Len(SubSeq(s, 1, WORD)) = 2
        /\ SubSeq(s, 1, WORD)[1] = x /\ SubSeq(s, 1, WORD)[2] = y
    BY <2>1, SplitAt DEF WORD
  <2>3. x \in Bytes /\ y \in Bytes
    BY <1>1 DEF Bytes
  <2> DEFINE t == SubSeq(s, 1, WORD)
             u == <<x, y>>
  <2> HIDE DEF x, y
  <2>4. u \in Seq(Bytes) /\ Len(u) = 2 /\ u[1] = x /\ u[2] = y
    BY <2>3
  <2>5. t \in Seq(Bytes) /\ Len(t) = 2 /\ t[1] = x /\ t[2] = y
    BY <2>2
  <2> HIDE DEF t, u
  <2>6. t = u
    BY <2>4, <2>5, SeqEqual
  <2> QED
    BY <2>6 DEF t, u
<1> QED
  BY <1>2, <1>3, <1>4, <1>5

-----------------------------------------------------------------------------
(* One frame.                                                              *)

\* The second of three parts, and what follows it.
LEMMA MiddlePart ==
  ASSUME NEW S, NEW a \in Seq(S), NEW b \in Seq(S), NEW c \in Seq(S)
  PROVE  /\ SubSeq(a \o (b \o c), Len(a) + 1, Len(a) + Len(b)) = b
         /\ From(a \o (b \o c), Len(a) + Len(b)) = c
<1>1. Len(a) \in Nat /\ Len(b) \in Nat /\ Len(c) \in Nat
  BY LenProperties
<1> DEFINE d == a \o b
<1>2. d \in Seq(S) /\ Len(d) = Len(a) + Len(b)
      /\ SubSeq(d, Len(a) + 1, Len(d)) = b
  BY ConcatParts
<1>3. a \o (b \o c) = d \o c
  BY ConcatAssociative, SMTT(60)
<1> HIDE DEF d
<1>4. SubSeq(d \o c, Len(d) + 1, Len(d \o c)) = c
  BY <1>2, ConcatParts
<1>5. SubSeq(d \o c, Len(a) + 1, Len(d)) = SubSeq(d, Len(a) + 1, Len(d))
  <2>1. Len(a) + 1 \in 1..(Len(d) + 1) /\ Len(d) \in (Len(a) + 1 - 1)..Len(d)
    BY <1>1, <1>2
  <2> QED
    BY <1>2, <2>1, SubSeqOfConcat1
<1> QED
  BY <1>2, <1>3, <1>4, <1>5 DEF From

\* The parts of a payload.
LEMMA PayloadParts ==
  ASSUME NEW m \in Serializable
  PROVE  LET p == Payload(m)
             rest == From(p, CtxSize)
         IN /\ p \in Seq(Bytes) /\ Len(p) \in Nat /\ Len(p) < Base * Base
            /\ Len(p) >= CtxSize /\ SubSeq(p, 1, CtxSize) = m.ctx
            /\ Len(rest) = WORD + Len(m.id) + Len(m.body)
            /\ from_le_bytes(rest) = Len(m.id)
            /\ SubSeq(rest, WORD + 1, WORD + Len(m.id)) = m.id
            /\ From(rest, WORD + Len(m.id)) = m.body
<1> DEFINE ctx == m.ctx
           id == m.id
           body == m.body
           w == to_le_bytes(Len(id))
<1>1. /\ ctx \in Seq(Bytes) /\ id \in Seq(Bytes) /\ body \in Seq(Bytes)
      /\ Len(ctx) = CtxSize /\ Len(Payload(m)) < Base * Base
  BY DEF Serializable
<1>2. Len(ctx) \in Nat /\ Len(id) \in Nat /\ Len(body) \in Nat
  BY <1>1, LenProperties
<1>3. w \in Seq(Bytes) /\ Len(w) = WORD
      /\ (Len(id) < Base * Base => from_le_bytes(w) = Len(id))
  BY <1>2, LengthField
<1>4. Payload(m) = ((ctx \o w) \o id) \o body
  BY DEF Payload
<1> HIDE DEF ctx, id, body, w
<1>t. ctx \in Seq(Bytes) /\ w \in Seq(Bytes) /\ id \in Seq(Bytes)
      /\ body \in Seq(Bytes)
  BY <1>1, <1>3
<1> DEFINE rest == w \o (id \o body)
<1>5. id \o body \in Seq(Bytes) /\ Len(id \o body) = Len(id) + Len(body)
  BY <1>t, ConcatParts
<1>6. rest \in Seq(Bytes) /\ Len(rest) = WORD + Len(id) + Len(body)
      /\ rest[1] = w[1] /\ rest[2] = w[2]
  <2>0. id \o body \in Seq(Bytes)
    BY <1>5
  <2>1. w \o (id \o body) \in Seq(Bytes)
        /\ Len(w \o (id \o body)) = Len(w) + Len(id \o body)
        /\ \A k \in 1..Len(w) : (w \o (id \o body))[k] = w[k]
    BY <1>t, <2>0, ConcatParts
  <2> QED
    BY <1>2, <1>3, <1>5, <2>1 DEF WORD
<1>7. Payload(m) = ctx \o rest
  <2>1. ctx \o w \in Seq(Bytes) /\ id \o body \in Seq(Bytes)
    BY <1>t, ConcatParts
  <2>2. ((ctx \o w) \o id) \o body = (ctx \o w) \o (id \o body)
    <3>1. Joins(ctx \o w, id, body)
      BY <1>t, <2>1, BytesAssociative
    <3> QED
      BY <3>1 DEF Joins
  <2>3. (ctx \o w) \o (id \o body) = ctx \o (w \o (id \o body))
    <3>1. Joins(ctx, w, id \o body)
      BY <1>t, <2>1, BytesAssociative
    <3> QED
      BY <3>1 DEF Joins
  <2> QED
    BY <1>4, <2>2, <2>3
<1>8. SubSeq(rest, WORD + 1, WORD + Len(id)) = id
      /\ From(rest, WORD + Len(id)) = body
  BY <1>1, <1>3, MiddlePart, ZenonT(60)
<1> HIDE DEF rest
<1>9. /\ Payload(m) \in Seq(Bytes) /\ Len(Payload(m)) = Len(ctx) + Len(rest)
      /\ SubSeq(Payload(m), 1, Len(ctx)) = ctx
      /\ SubSeq(Payload(m), Len(ctx) + 1, Len(Payload(m))) = rest
  <2>1. rest \in Seq(Bytes)
    BY <1>6
  <2> QED
    BY <1>t, <1>7, <2>1, ConcatParts
<1>10. From(Payload(m), CtxSize) = rest
  BY <1>1, <1>9 DEF From
<1>11. Len(Payload(m)) \in Nat /\ Len(Payload(m)) >= CtxSize
       /\ Len(id) < Base * Base
  <2>1. WORD \in Nat /\ Base * Base \in Nat
    BY FramingAssumption DEF WORD
  <2> QED
    BY <1>1, <1>2, <1>6, <1>9, <2>1, SMTT(60)
<1>12. from_le_bytes(rest) = Len(id)
  <2>1. from_le_bytes(rest) = from_le_bytes(w)
    BY <1>6 DEF from_le_bytes
  <2> QED
    BY <1>3, <1>11, <2>1
<1> QED
  BY <1>1, <1>6, <1>8, <1>9, <1>10, <1>11, <1>12 DEF ctx, id, body

\* The frame of a message is its payload after its length.
LEMMA FrameParts ==
  ASSUME NEW m \in Serializable
  PROVE  LET s == serialize_message(m)
         IN /\ s \in Seq(Bytes) /\ Len(s) = WORD + Len(Payload(m))
            /\ FrameSize(s) = Len(s)
            /\ SubSeq(s, WORD + 1, Len(s)) = Payload(m)
<1> DEFINE p == Payload(m)
           w == to_le_bytes(Len(p))
<1>1. p \in Seq(Bytes) /\ Len(p) \in Nat /\ Len(p) < Base * Base
  BY PayloadParts
<1>2. w \in Seq(Bytes) /\ Len(w) = WORD /\ from_le_bytes(w) = Len(p)
  BY <1>1, LengthField
<1>3. serialize_message(m) = w \o p
  BY DEF serialize_message
<1> HIDE DEF p, w
<1>4. /\ w \o p \in Seq(Bytes) /\ Len(w \o p) = Len(w) + Len(p)
      /\ SubSeq(w \o p, Len(w) + 1, Len(w \o p)) = p
      /\ \A k \in 1..Len(w) : (w \o p)[k] = w[k]
  <2>1. w \in Seq(Bytes) /\ p \in Seq(Bytes)
    BY <1>1, <1>2
  <2> QED
    BY <2>1, ConcatParts
<1>5. from_le_bytes(w \o p) = from_le_bytes(w)
  BY <1>2, <1>4 DEF from_le_bytes, WORD
<1> QED
  BY <1>2, <1>3, <1>4, <1>5 DEF FrameSize, p

\* Nothing after a complete frame changes what is read.
LEMMA FrameLocal ==
  ASSUME NEW a \in Seq(Bytes), NEW b \in Seq(Bytes),
         Len(a) >= WORD, Len(a) >= FrameSize(a)
  PROVE  deserialize_message(a \o b) = deserialize_message(a)
<1>1. Len(a) \in Nat /\ Len(b) \in Nat /\ from_le_bytes(a) \in Nat
  BY LenProperties, FieldLength
<1>2. /\ Len(a \o b) = Len(a) + Len(b)
      /\ \A k \in 1..Len(a) : (a \o b)[k] = a[k]
  BY ConcatParts
<1>3. from_le_bytes(a \o b) = from_le_bytes(a)
  BY <1>1, <1>2 DEF from_le_bytes, WORD
<1>4. FrameSize(a \o b) = FrameSize(a) /\ FrameSize(a) \in Nat
      /\ FrameSize(a) >= WORD
  BY <1>1, <1>3 DEF FrameSize, WORD
<1>5. SubSeq(a \o b, WORD + 1, FrameSize(a)) = SubSeq(a, WORD + 1, FrameSize(a))
  <2>1. WORD + 1 \in 1..(Len(a) + 1)
        /\ FrameSize(a) \in (WORD + 1 - 1)..Len(a)
    BY <1>1, <1>4 DEF WORD
  <2> QED
    BY <2>1, SubSeqOfConcat1, SMTT(60)
<1>6. ~(Len(a) < WORD \/ Len(a) < FrameSize(a))
      /\ ~(Len(a \o b) < WORD \/ Len(a \o b) < FrameSize(a \o b))
  BY <1>1, <1>2, <1>4 DEF WORD
<1> QED
  BY <1>4, <1>5, <1>6 DEF deserialize_message

\* deserialize_message returns the message that was serialized, and the size
\* of its frame, whatever bytes follow.
THEOREM RoundTrip ==
  ASSUME NEW m \in Serializable, NEW rest \in Seq(Bytes)
  PROVE  deserialize_message(serialize_message(m) \o rest)
           = Some(m, Len(serialize_message(m)))
<1> DEFINE s == serialize_message(m)
           p == Payload(m)
           n == Len(m.id)
<1>1. /\ s \in Seq(Bytes) /\ Len(s) = WORD + Len(p) /\ FrameSize(s) = Len(s)
      /\ SubSeq(s, WORD + 1, Len(s)) = p
  BY FrameParts
<1>2. /\ p \in Seq(Bytes) /\ Len(p) \in Nat
      /\ Len(p) >= CtxSize /\ SubSeq(p, 1, CtxSize) = m.ctx
      /\ Len(From(p, CtxSize)) = WORD + n + Len(m.body)
      /\ from_le_bytes(From(p, CtxSize)) = n
      /\ SubSeq(From(p, CtxSize), WORD + 1, WORD + n) = m.id
      /\ From(From(p, CtxSize), WORD + n) = m.body
  BY PayloadParts
<1>3. /\ m \in [ctx : Seq(Bytes), id : Seq(Bytes), body : Seq(Bytes)]
      /\ Utf8(m.id) /\ m.id \in DOMAIN Codec /\ m.body \in Codec[m.id]
  BY DEF Serializable
<1>4. n \in Nat /\ Len(m.body) \in Nat
  BY <1>3, LenProperties
<1> HIDE DEF s, p, n
<1>5. deserialize_payload(p, Len(s)) = Some(m, Len(s))
  <2>1. ~(Len(p) < CtxSize)
    BY <1>2, FramingAssumption
  <2>2. ~(\/ Len(From(p, CtxSize)) < WORD
          \/ Len(From(p, CtxSize)) < WORD + from_le_bytes(From(p, CtxSize)))
    <3> DEFINE l == Len(From(p, CtxSize))
               f == from_le_bytes(From(p, CtxSize))
               k == Len(m.body)
    <3>1. l = WORD + n + k /\ f = n /\ n \in Nat /\ k \in Nat
      BY <1>2, <1>4
    <3> HIDE DEF l, f, k
    <3>2. ~(l < WORD \/ l < WORD + f)
      BY <3>1 DEF WORD
    <3> QED
      BY <3>2 DEF l, f
  <2>3. m = [ctx |-> m.ctx, id |-> m.id, body |-> m.body]
    BY <1>3
  <2> QED
    BY <1>2, <1>3, <2>1, <2>2, <2>3 DEF deserialize_payload
<1>6. deserialize_message(s) = Some(m, Len(s))
  <2>1. ~(Len(s) < WORD \/ Len(s) < FrameSize(s))
    BY <1>1, <1>2 DEF WORD
  <2> QED
    BY <1>1, <1>5, <2>1 DEF deserialize_message
<1>7. Len(s) >= WORD /\ Len(s) >= FrameSize(s)
  BY <1>1, <1>2 DEF WORD
<1>8. deserialize_message(s \o rest) = deserialize_message(s)
  BY <1>1, <1>7, FrameLocal
<1> QED
  BY <1>6, <1>8 DEF s

\* The first n bytes, and the rest as a function of the buffer and n.
LEMMA FromRest ==
  ASSUME NEW s \in Seq(Bytes), NEW n \in 0..Len(s)
  PROVE  /\ SubSeq(s, 1, n) \in Seq(Bytes) /\ Len(SubSeq(s, 1, n)) = n
         /\ From(s, n) \in Seq(Bytes) /\ s = SubSeq(s, 1, n) \o From(s, n)
<1> DEFINE x == SubSeq(s, 1, n)
           y == SubSeq(s, n + 1, Len(s))
<1>1. /\ x \in Seq(Bytes) /\ Len(x) = n
      /\ y \in Seq(Bytes)
      /\ Len(y) = Len(s) - n
      /\ s = x \o y
      /\ \A k \in 1..n : x[k] = s[k]
      /\ \A k \in 1..(Len(s) - n) : y[k] = s[n + k]
  BY SplitAt
<1> HIDE DEF x, y
<1>2. From(s, n) = y
  BY DEF From, y
<1> QED
  BY <1>1, <1>2 DEF x

\* What deserialize_message returns was serialized from that message: every
\* frame it accepts is the one serialize_message writes.
THEOREM OnlySerialized ==
  ASSUME NEW buf \in Seq(Bytes), deserialize_message(buf).kind = "message"
  PROVE  LET r == deserialize_message(buf)
         IN /\ r.msg \in Serializable /\ r = Some(r.msg, r.size)
            /\ r.size \in WORD..Len(buf)
            /\ SubSeq(buf, 1, r.size) = serialize_message(r.msg)
<1>0. Len(buf) \in Nat /\ CtxSize \in Nat /\ WORD \in Nat /\ WORD = 2
  BY LenProperties, FramingAssumption DEF WORD
<1>1. ~(Len(buf) < WORD \/ Len(buf) < FrameSize(buf))
  BY DEF deserialize_message, None
<1> DEFINE N == FrameSize(buf)
           l == from_le_bytes(buf)
           p == SubSeq(buf, WORD + 1, N)
<1>2. deserialize_message(buf) = deserialize_payload(p, N)
  BY <1>1 DEF deserialize_message
<1>3. Len(buf) >= WORD
  BY <1>0, <1>1
<1>4. /\ l \in Nat /\ l < Base * Base
      /\ to_le_bytes(l) = SubSeq(buf, 1, WORD)
  BY <1>3, FieldLength
<1>5. N = WORD + l /\ N \in WORD..Len(buf)
  BY <1>0, <1>1, <1>4 DEF FrameSize
<1>6. p \in Seq(Bytes) /\ Len(p) = l /\ SubSeq(buf, 1, N) = SubSeq(buf, 1, WORD) \o p
  <2>1. \A i \in (WORD + 1)..N : buf[i] \in Bytes
    BY <1>0, <1>5, ElementOfSeq
  <2>2. WORD + 1 \in Int /\ N \in Int
    BY <1>0, <1>5
  <2>3. p \in Seq(Bytes)
        /\ Len(p) = IF WORD + 1 <= N THEN N - (WORD + 1) + 1 ELSE 0
    BY <2>1, <2>2, SubSeqProperties
  <2>4. Len(p) = l
    BY <1>0, <1>4, <1>5, <2>3
  <2>5. 1 \in 1..Len(buf)+1 /\ WORD \in 1-1..Len(buf) /\ N \in WORD..Len(buf)
    BY <1>0, <1>5
  <2>6. SubSeq(buf, 1, WORD) \o SubSeq(buf, WORD + 1, N) = SubSeq(buf, 1, N)
    BY <2>5, ConcatAdjacentSubSeq
  <2> QED
    BY <2>3, <2>4, <2>6
<1> HIDE DEF N, l, p
<1> DEFINE ctx == SubSeq(p, 1, CtxSize)
           rest == From(p, CtxSize)
           k == from_le_bytes(rest)
           id == SubSeq(rest, WORD + 1, WORD + k)
           body == From(rest, WORD + k)
           m == [ctx |-> ctx, id |-> id, body |-> body]
<1>7. /\ ~(Len(p) < CtxSize)
      /\ ~(Len(rest) < WORD \/ Len(rest) < WORD + k)
      /\ Utf8(id) /\ id \in DOMAIN Codec /\ body \in Codec[id]
      /\ deserialize_message(buf) = Some(m, N)
  <2> DEFINE r == deserialize_payload(p, N)
  <2>0. r.kind = "message"
    BY <1>2
  <2>1. ~(Len(p) < CtxSize)
    BY <2>0 DEF deserialize_payload, Error
  <2>2. r = IF Len(rest) < WORD \/ Len(rest) < WORD + k THEN None
            ELSE IF Utf8(id) /\ id \in DOMAIN Codec /\ body \in Codec[id]
            THEN Some(m, N) ELSE Error
    BY <2>1 DEF deserialize_payload
  <2> HIDE DEF r, rest, k, id, body, m
  <2> QED
    BY <1>2, <2>0, <2>1, <2>2 DEF None, Error, r
<1>8. CtxSize \in 0..Len(p)
  BY <1>0, <1>4, <1>6, <1>7
<1>9. /\ ctx \in Seq(Bytes) /\ Len(ctx) = CtxSize /\ rest \in Seq(Bytes)
      /\ p = ctx \o rest
  <2>1. p \in Seq(Bytes)
    BY <1>6
  <2> QED
    BY <1>8, <2>1, FromRest
<1> HIDE DEF ctx, rest
<1>10. Len(rest) \in Nat /\ Len(rest) >= WORD
  <2>1. Len(rest) \in Nat
    BY <1>9, LenProperties
  <2> QED
    BY <1>0, <1>7, <2>1
<1>11. k \in Nat /\ to_le_bytes(k) = SubSeq(rest, 1, WORD)
  BY <1>9, <1>10, FieldLength
<1> HIDE DEF k
<1>12. WORD + k \in WORD..Len(rest)
  BY <1>0, <1>7, <1>10, <1>11
<1> DEFINE w == SubSeq(rest, 1, WORD)
<1>13. /\ id \in Seq(Bytes) /\ Len(id) = k /\ body \in Seq(Bytes)
       /\ w \in Seq(Bytes) /\ rest = (w \o id) \o body
  <2>0. rest \in Seq(Bytes)
    BY <1>9
  <2> DEFINE hi == WORD + k
  <2>1. \A i \in 3..hi : rest[i] \in Bytes
    BY <1>0, <1>10, <1>12, <2>0, ElementOfSeq
  <2>2. hi \in Int /\ id = SubSeq(rest, 3, hi)
    BY <1>0, <1>12
  <2> HIDE DEF hi, id
  <2>3. id \in Seq(Bytes) /\ Len(id) = IF 3 <= hi THEN hi - 3 + 1 ELSE 0
    BY <2>1, <2>2, SubSeqProperties
  <2>4. Len(id) = k
    BY <1>0, <1>11, <2>3 DEF hi
  <2>5. 1 \in 1..Len(rest)+1 /\ WORD \in 1-1..Len(rest)
        /\ WORD + k \in WORD..Len(rest)
    BY <1>0, <1>10, <1>12
  <2>6. w \o id = SubSeq(rest, 1, WORD + k)
    BY <2>0, <2>5, ConcatAdjacentSubSeq DEF id
  <2>7. WORD + k \in 0..Len(rest) /\ WORD \in 0..Len(rest)
    BY <1>0, <1>10, <1>12
  <2>8. rest = SubSeq(rest, 1, WORD + k) \o body /\ body \in Seq(Bytes)
    BY <2>0, <2>7, SplitAt DEF From
  <2>9. w \in Seq(Bytes)
    BY <2>0, <2>7, SplitAt
  <2> QED
    BY <2>3, <2>4, <2>6, <2>8, <2>9
<1> HIDE DEF id, body, w
<1>14. m.ctx = ctx /\ m.id = id /\ m.body = body
       /\ m \in [ctx : Seq(Bytes), id : Seq(Bytes), body : Seq(Bytes)]
  BY <1>9, <1>13
<1>15. Payload(m) = p
  <2>1. Payload(m) = ((ctx \o w) \o id) \o body
    BY <1>11, <1>13, <1>14 DEF Payload, w
  <2>2. ctx \in Seq(Bytes) /\ w \in Seq(Bytes) /\ id \in Seq(Bytes)
        /\ body \in Seq(Bytes)
    BY <1>9, <1>13
  <2>3. ctx \o w \in Seq(Bytes) /\ w \o id \in Seq(Bytes)
    BY <2>2, ConcatParts
  <2>4. (ctx \o w) \o id = ctx \o (w \o id)
    <3>1. Joins(ctx, w, id)
      BY <2>2, BytesAssociative
    <3> QED
      BY <3>1 DEF Joins
  <2>5. (ctx \o (w \o id)) \o body = ctx \o ((w \o id) \o body)
    <3>1. Joins(ctx, w \o id, body)
      BY <2>2, <2>3, BytesAssociative
    <3> QED
      BY <3>1 DEF Joins
  <2> QED
    BY <1>9, <1>13, <2>1, <2>4, <2>5
<1> HIDE DEF m
<1>16. m \in Serializable
  BY <1>4, <1>6, <1>7, <1>9, <1>14, <1>15 DEF Serializable
<1>17. serialize_message(m) = SubSeq(buf, 1, N)
  BY <1>4, <1>6, <1>15 DEF serialize_message
<1>18. deserialize_message(buf).msg = m /\ deserialize_message(buf).size = N
  BY <1>7 DEF Some
<1> QED
  BY <1>5, <1>7, <1>16, <1>17, <1>18

-----------------------------------------------------------------------------
(* Many frames.                                                            *)

\* serialize_all yields bytes, and follows the structure of its argument.
LEMMA SerializeAll ==
  ASSUME NEW a \in Seq(Serializable), NEW b \in Seq(Serializable)
  PROVE  /\ serialize_all(a) \in Seq(Bytes)
         /\ serialize_all(<<>>) = <<>>
         /\ \A m \in Serializable : serialize_all(<<m>>) = serialize_message(m)
         /\ serialize_all(a \o b) = serialize_all(a) \o serialize_all(b)
<1> DEFINE f == [m \in Serializable |-> serialize_message(m)]
<1>1. f \in [Serializable -> Seq(Bytes)]
  BY FrameParts
<1>2. ASSUME NEW ms \in Seq(Serializable)
      PROVE  serialize_all(ms) = FlatMap(f, ms)
  <2>1. \A k \in 1..Len(ms) : serialize_message(ms[k]) = f[ms[k]]
    BY ElementOfSeq
  <2> HIDE DEF f
  <2>2. [k \in 1..Len(ms) |-> serialize_message(ms[k])]
          = [k \in 1..Len(ms) |-> f[ms[k]]]
    BY <2>1
  <2> QED
    BY <2>2 DEF serialize_all, FlatMap
<1>3. \A m \in Serializable : f[m] = serialize_message(m)
  OBVIOUS
<1> HIDE DEF f
<1>4. /\ FlatMap(f, <<>>) = <<>>
      /\ \A m \in Serializable : FlatMap(f, <<m>>) = f[m]
      /\ \A ms \in Seq(Serializable) : FlatMap(f, ms) \in Seq(Bytes)
      /\ FlatMap(f, a \o b) = FlatMap(f, a) \o FlatMap(f, b)
  <2>1. Flattened(f, Serializable, Bytes)
    BY <1>1, FlatMapParts
  <2> QED
    BY <2>1 DEF Flattened
<1>5. a \o b \in Seq(Serializable) /\ <<>> \in Seq(Serializable)
      /\ \A m \in Serializable : <<m>> \in Seq(Serializable)
  BY ConcatParts, EmptySeq
<1> QED
  BY <1>2, <1>3, <1>4, <1>5

\* The frames of a sequence of messages begin with the frame of the first.
LEMMA SerializeFirst ==
  ASSUME NEW a \in Seq(Serializable), a # <<>>, NEW x \in Seq(Bytes)
  PROVE  \E m \in Serializable, c \in Seq(Serializable) :
           /\ a = <<m>> \o c /\ Len(a) = Len(c) + 1
           /\ serialize_all(c) \o x \in Seq(Bytes)
           /\ serialize_all(a) \o x
                = serialize_message(m) \o (serialize_all(c) \o x)
<1>1. Head(a) \in Serializable /\ Tail(a) \in Seq(Serializable)
      /\ Len(Tail(a)) = Len(a) - 1 /\ Len(a) \in Nat
      /\ \A i \in 1..Len(Tail(a)) : Tail(a)[i] = a[i + 1]
  BY HeadTailProperties, LenProperties
<1>2. PICK m, c : m = Head(a) /\ c = Tail(a)
  OBVIOUS
<1>3. m \in Serializable /\ c \in Seq(Serializable) /\ Len(a) = Len(c) + 1
  BY <1>1, <1>2
<1> DEFINE one == <<m>>
<1>4. one \in Seq(Serializable)
  BY <1>3
<1>5. a = one \o c
  <2>1. Len(a) # 0
    BY EmptySeq
  <2>2. 1 \in 1..Len(a) /\ Len(a) \in 1..Len(a)
    BY <1>1, <2>1
  <2>3. SubSeq(a, 1, Len(a)) = <<a[1]>> \o SubSeq(a, 1 + 1, Len(a))
    BY <2>2, SubSeqRecursiveFirst
  <2>4. SubSeq(a, 1, Len(a)) = a /\ Tail(a) = SubSeq(a, 2, Len(a))
        /\ Head(a) = a[1]
    BY SubSeqFull, TailIsSubSeq
  <2> QED
    BY <1>2, <2>3, <2>4
<1> HIDE DEF one
<1>6. serialize_all(a) = serialize_all(one) \o serialize_all(c)
  BY <1>3, <1>4, <1>5, SerializeAll
<1>7. serialize_all(one) = serialize_message(m)
  BY <1>3, SerializeAll DEF one
<1>8. serialize_message(m) \in Seq(Bytes) /\ serialize_all(c) \in Seq(Bytes)
  BY <1>3, FrameParts, SerializeAll
<1>9. serialize_all(c) \o x \in Seq(Bytes)
      /\ (serialize_message(m) \o serialize_all(c)) \o x
           = serialize_message(m) \o (serialize_all(c) \o x)
  <2>1. serialize_all(c) \o x \in Seq(Bytes)
    BY <1>8, ConcatProperties
  <2>2. Joins(serialize_message(m), serialize_all(c), x)
    BY <1>8, BytesAssociative
  <2> QED
    BY <2>1, <2>2 DEF Joins
<1> QED
  BY <1>3, <1>5, <1>6, <1>7, <1>9 DEF one

\* Prepending to a concatenation.
LEMMA PrependAssociative ==
  \A m \in Serializable : \A a, b \in Seq(Serializable) :
    (<<m>> \o a) \o b = <<m>> \o (a \o b)
<1> SUFFICES ASSUME NEW m \in Serializable, NEW a \in Seq(Serializable),
                    NEW b \in Seq(Serializable)
             PROVE  (<<m>> \o a) \o b = <<m>> \o (a \o b)
  OBVIOUS
<1>1. <<m>> \in Seq(Serializable)
  OBVIOUS
<1> QED
  BY <1>1, ConcatAssociative

\* A stream is cut into messages in one way only: if it is the frames of a
\* and something, and the frames of b and something that does not begin with
\* a message, then a is a prefix of b.
THEOREM Unambiguous ==
  ASSUME NEW a \in Seq(Serializable), NEW b \in Seq(Serializable),
         NEW x \in Seq(Bytes), NEW y \in Seq(Bytes),
         serialize_all(a) \o x = serialize_all(b) \o y,
         deserialize_message(y).kind # "message"
  PROVE  \E c \in Seq(Serializable) : b = a \o c
<1> DEFINE P(n) ==
             \A r, s \in Seq(Serializable) : \A u \in Seq(Bytes) :
               /\ Len(r) = n
               /\ serialize_all(r) \o u = serialize_all(s) \o y
               => \E c \in Seq(Serializable) : s = r \o c
           T == {n \in Nat : P(n)}
<1>1. P(0)
  <2> SUFFICES ASSUME NEW r \in Seq(Serializable), NEW s \in Seq(Serializable),
                      Len(r) = 0
               PROVE  \E c \in Seq(Serializable) : s = r \o c
    OBVIOUS
  <2>1. r = <<>>
    BY EmptySeq
  <2>2. s = r \o s
    BY <2>1, ConcatEmptySeq
  <2> QED
    BY <2>2
<1>2. ASSUME NEW n \in Nat, P(n)
      PROVE  P(n + 1)
  <2> SUFFICES ASSUME NEW r \in Seq(Serializable), NEW s \in Seq(Serializable),
                      NEW u \in Seq(Bytes), Len(r) = n + 1,
                      serialize_all(r) \o u = serialize_all(s) \o y
               PROVE  \E c \in Seq(Serializable) : s = r \o c
    OBVIOUS
  <2>1. r # <<>>
    BY EmptySeq
  <2>2. PICK m \in Serializable, d \in Seq(Serializable) :
          /\ r = <<m>> \o d /\ Len(r) = Len(d) + 1
          /\ serialize_all(d) \o u \in Seq(Bytes)
          /\ serialize_all(r) \o u
               = serialize_message(m) \o (serialize_all(d) \o u)
    BY <2>1, SerializeFirst
  <2>3. deserialize_message(serialize_all(r) \o u)
          = Some(m, Len(serialize_message(m)))
    BY <2>2, RoundTrip
  <2>4. s # <<>>
    <3> SUFFICES ASSUME s = <<>> PROVE FALSE
      OBVIOUS
    <3>1. serialize_all(s) \o y = y
      <4>1. serialize_all(<<>>) = <<>>
        BY <2>2, SerializeAll
      <4> QED
        BY <4>1, ConcatEmptySeq
    <3>2. deserialize_message(y) = Some(m, Len(serialize_message(m)))
      BY <2>3, <3>1, Zenon
    <3> QED
      BY <3>2 DEF Some
  <2>5. PICK w \in Serializable, e \in Seq(Serializable) :
          /\ s = <<w>> \o e /\ Len(s) = Len(e) + 1
          /\ serialize_all(e) \o y \in Seq(Bytes)
          /\ serialize_all(s) \o y
               = serialize_message(w) \o (serialize_all(e) \o y)
    BY <2>4, SerializeFirst
  <2>6. deserialize_message(serialize_all(s) \o y)
          = Some(w, Len(serialize_message(w)))
    BY <2>5, RoundTrip
  <2>7. m = w
    BY <2>3, <2>6 DEF Some
  <2>8. serialize_all(d) \o u = serialize_all(e) \o y
    <3>1. serialize_message(m) \in Seq(Bytes)
      BY FrameParts
    <3>2. serialize_all(d) \o u \in Seq(Bytes) /\ serialize_all(e) \o y \in Seq(Bytes)
      BY <2>2, <2>5
    <3>3. serialize_message(m) \o (serialize_all(d) \o u)
            = serialize_message(m) \o (serialize_all(e) \o y)
      BY <2>2, <2>5, <2>7
    <3> QED
      BY <3>1, <3>2, <3>3, ConcatCancel, ZenonT(60)
  <2>9. Len(d) = n
    <3>1. Len(d) \in Nat
      BY LenProperties
    <3> QED
      BY <2>2, <3>1
  <2>10. PICK c \in Seq(Serializable) : e = d \o c
    BY <1>2, <2>8, <2>9
  <2>11. s = r \o c
    <3>1. r = <<m>> \o d /\ s = <<m>> \o (d \o c)
      BY <2>2, <2>5, <2>7, <2>10
    <3>2. (<<m>> \o d) \o c = <<m>> \o (d \o c)
      BY PrependAssociative, Zenon
    <3> QED
      BY <3>1, <3>2
  <2> QED
    BY <2>11
<1>3. \A n \in Nat : n \in T
  <2> HIDE DEF P
  <2>1. 0 \in T /\ \A n \in Nat : n \in T => n + 1 \in T
    BY <1>1, <1>2
  <2> HIDE DEF T
  <2> QED
    BY <2>1, SetInduction
<1>4. P(Len(a))
  <2> HIDE DEF P
  <2> QED
    BY <1>3, LenProperties
<1> QED
  BY <1>4

-----------------------------------------------------------------------------
(* The loop of fetch_events.                                               *)

\* One round of the loop at position pos, with g for the rounds after it.
ScanAt(g, buf, pos) ==
  LET r == deserialize_message(From(buf, pos)) IN
  IF pos = Len(buf) \/ r.kind = "none"
  THEN [msgs |-> <<>>, pos |-> pos, had_error |-> FALSE]
  ELSE IF r.kind = "error"
  THEN [msgs |-> <<>>, pos |-> pos, had_error |-> TRUE]
  ELSE LET more == g[pos + r.size] IN
       [more EXCEPT !.msgs = <<r.msg>> \o @]

\* g describes the rounds from position lo on.
Scans(g, buf, lo) == g = [pos \in lo..Len(buf) |-> ScanAt(g, buf, pos)]

\* deserialize_message answers in one of three ways.
LEMMA Answers ==
  ASSUME NEW buf
  PROVE  deserialize_message(buf).kind \in {"none", "error", "message"}
<1>1. None.kind = "none" /\ Error.kind = "error"
      /\ \A m, n : Some(m, n).kind = "message"
  BY DEF None, Error, Some
<1>2. \A p, n : deserialize_payload(p, n).kind \in {"none", "error", "message"}
  BY <1>1 DEF deserialize_payload
<1> QED
  BY <1>1, <1>2 DEF deserialize_message

\* A round that finds a message moves on, and not beyond the end.
LEMMA RoundAdvances ==
  ASSUME NEW buf \in Seq(Bytes), NEW pos \in 0..Len(buf)
  PROVE  LET b == From(buf, pos)
             r == deserialize_message(b)
         IN /\ b \in Seq(Bytes) /\ Len(b) = Len(buf) - pos
            /\ r.kind = "message" => /\ pos + r.size \in (pos + 1)..Len(buf)
                                     /\ r.size \in 0..Len(b)
<1> DEFINE b == From(buf, pos)
           r == deserialize_message(b)
<1>1. Len(buf) \in Nat
  BY LenProperties
<1>2. b \in Seq(Bytes) /\ Len(b) = Len(buf) - pos
  BY SplitAt DEF From
<1> HIDE DEF b
<1>3. ASSUME r.kind = "message" PROVE r.size \in WORD..Len(b)
  BY <1>2, <1>3, OnlySerialized
<1>4. ASSUME r.kind = "message"
      PROVE  pos + r.size \in (pos + 1)..Len(buf) /\ r.size \in 0..Len(b)
  <2> HIDE DEF r
  <2> QED
    BY <1>1, <1>2, <1>3, <1>4 DEF WORD
<1> QED
  BY <1>2, <1>4 DEF b

\* The rounds after a position decide the round at it.
LEMMA ScanDepends ==
  ASSUME NEW buf \in Seq(Bytes), NEW pos \in 0..Len(buf), NEW g, NEW h,
         \A q \in (pos + 1)..Len(buf) : g[q] = h[q]
  PROVE  ScanAt(g, buf, pos) = ScanAt(h, buf, pos)
<1> DEFINE r == deserialize_message(From(buf, pos))
<1>1. r.kind \in {"none", "error", "message"}
  BY Answers
<1>2. r.kind = "message" => pos + r.size \in (pos + 1)..Len(buf)
  BY RoundAdvances
<1>3. r.kind = "message" => g[pos + r.size] = h[pos + r.size]
  BY <1>2
<1> HIDE DEF r
<1>4. \A f : ScanAt(f, buf, pos) =
        IF pos = Len(buf) \/ r.kind = "none"
        THEN [msgs |-> <<>>, pos |-> pos, had_error |-> FALSE]
        ELSE IF r.kind = "error"
        THEN [msgs |-> <<>>, pos |-> pos, had_error |-> TRUE]
        ELSE [f[pos + r.size] EXCEPT !.msgs = <<r.msg>> \o @]
  BY DEF ScanAt, r
<1> QED
  BY <1>1, <1>3, <1>4, ZenonT(60)

\* The loop has a description from every position on.
LEMMA ScansExist ==
  ASSUME NEW buf \in Seq(Bytes)
  PROVE  \E g : Scans(g, buf, 0)
<1> DEFINE L == Len(buf)
           P(n) == n <= L => \E g : Scans(g, buf, L - n)
           T == {n \in Nat : P(n)}
<1>0. L \in Nat
  BY LenProperties
<1>1. P(0)
  <2> DEFINE g == [pos \in L..L |-> ScanAt(<<>>, buf, pos)]
  <2>1. \A pos \in L..L : ScanAt(<<>>, buf, pos) = ScanAt(g, buf, pos)
    <3> SUFFICES ASSUME NEW pos \in L..L
                 PROVE  ScanAt(<<>>, buf, pos) = ScanAt(g, buf, pos)
      OBVIOUS
    <3>1. pos \in 0..Len(buf) /\ (pos + 1)..Len(buf) = {}
      BY <1>0
    <3> HIDE DEF g
    <3> QED
      BY <3>1, ScanDepends
  <2>2. g = [pos \in L..L |-> ScanAt(g, buf, pos)]
    BY <2>1
  <2>3. Scans(g, buf, L)
    BY <2>2 DEF Scans
  <2> QED
    BY <1>0, <2>3
<1>2. ASSUME NEW n \in Nat, P(n)
      PROVE  P(n + 1)
  <2> SUFFICES ASSUME n + 1 <= L
               PROVE  \E g : Scans(g, buf, L - (n + 1))
    OBVIOUS
  <2> DEFINE lo == L - (n + 1)
  <2>1. lo \in 0..L /\ L - n = lo + 1 /\ n <= L
    BY <1>0
  <2>2. PICK g : Scans(g, buf, lo + 1)
    BY <1>2, <2>1
  <2> HIDE DEF lo, L
  <2> DEFINE h == [pos \in lo..L |-> IF pos = lo THEN ScanAt(g, buf, lo)
                                                 ELSE g[pos]]
  <2>3. \A q \in (lo + 1)..L : g[q] = ScanAt(g, buf, q) /\ q \in lo..L /\ q # lo
    <3> SUFFICES ASSUME NEW q \in (lo + 1)..L
                 PROVE  g[q] = ScanAt(g, buf, q) /\ q \in lo..L /\ q # lo
      OBVIOUS
    <3>1. g = [pos \in (lo + 1)..L |-> ScanAt(g, buf, pos)]
      BY <2>2 DEF Scans, L
    <3>2. q \in lo..L /\ q # lo
      BY <1>0, <2>1
    <3> QED
      BY <3>1, <3>2
  <2>4. \A q \in (lo + 1)..L : h[q] = g[q]
    BY <2>3
  <2>5. \A pos \in lo..L : ScanAt(h, buf, pos) = ScanAt(g, buf, pos)
    <3> SUFFICES ASSUME NEW pos \in lo..L
                 PROVE  ScanAt(h, buf, pos) = ScanAt(g, buf, pos)
      OBVIOUS
    <3>1. pos \in 0..Len(buf) /\ \A q \in (pos + 1)..Len(buf) : q \in (lo + 1)..L
      BY <1>0, <2>1 DEF L
    <3>2. \A q \in (pos + 1)..Len(buf) : h[q] = g[q]
      BY <2>4, <3>1
    <3> HIDE DEF h
    <3> QED
      BY <3>1, <3>2, ScanDepends
  <2>6. \A pos \in lo..L : h[pos] = ScanAt(h, buf, pos)
    <3> SUFFICES ASSUME NEW pos \in lo..L
                 PROVE  h[pos] = ScanAt(g, buf, pos)
      BY <2>5
    <3>1. pos = lo \/ pos \in (lo + 1)..L
      BY <1>0, <2>1
    <3> QED
      BY <2>3, <3>1
  <2>7. h = [pos \in lo..L |-> ScanAt(h, buf, pos)]
    BY <2>6
  <2>8. Scans(h, buf, lo)
    BY <2>7 DEF Scans, L
  <2> QED
    BY <2>8 DEF lo
<1>3. \A n \in Nat : n \in T
  <2> HIDE DEF P
  <2>1. 0 \in T /\ \A n \in Nat : n \in T => n + 1 \in T
    BY <1>1, <1>2
  <2> HIDE DEF T
  <2> QED
    BY <2>1, SetInduction
<1>4. P(L)
  <2> HIDE DEF P, L
  <2> QED
    BY <1>0, <1>3
<1>5. L - L = 0 /\ L <= L
  BY <1>0
<1> QED
  BY <1>4, <1>5

\* deserialize_all is the round at position 0 of such a description.
LEMMA DeserializeAllScans ==
  ASSUME NEW buf \in Seq(Bytes)
  PROVE  \E g : Scans(g, buf, 0) /\ deserialize_all(buf) = g[0]
<1> DEFINE f == CHOOSE g : Scans(g, buf, 0)
<1>1. Scans(f, buf, 0)
  BY ScansExist
<1>2. deserialize_all(buf) = f[0]
  BY DEF deserialize_all, Scans, ScanAt
<1> QED
  BY <1>1, <1>2

\* What the loop reports.
Outcomes == [msgs : Seq(Serializable), pos : Nat, had_error : BOOLEAN]

\* r cuts buf at r.pos: the frames of its messages come before, and no message
\* follows.
Splits(r, buf) ==
  /\ r \in Outcomes /\ r.pos \in 0..Len(buf)
  /\ buf = serialize_all(r.msgs) \o From(buf, r.pos)
  /\ deserialize_message(From(buf, r.pos)).kind
       = IF r.had_error THEN "error" ELSE "none"

\* From of From.
LEMMA FromFrom ==
  ASSUME NEW buf \in Seq(Bytes), NEW pos \in 0..Len(buf),
         NEW n \in 0..(Len(buf) - pos)
  PROVE  /\ From(From(buf, pos), n) = From(buf, pos + n)
         /\ From(buf, pos) = SubSeq(From(buf, pos), 1, n) \o From(buf, pos + n)
<1> DEFINE b == From(buf, pos)
           x == From(b, n)
           y == From(buf, pos + n)
<1>1. Len(buf) \in Nat /\ pos \in Nat /\ n \in Nat
  BY LenProperties
<1>2. b \in Seq(Bytes) /\ Len(b) = Len(buf) - pos
      /\ \A k \in 1..(Len(buf) - pos) : b[k] = buf[pos + k]
  BY SplitAt DEF From
<1> HIDE DEF b
<1>3. n \in 0..Len(b) /\ pos + n \in 0..Len(buf)
  BY <1>1, <1>2
<1>4. x \in Seq(Bytes) /\ Len(x) = Len(b) - n /\ b = SubSeq(b, 1, n) \o x
      /\ \A k \in 1..(Len(b) - n) : x[k] = b[n + k]
  BY <1>2, <1>3, SplitAt, ZenonT(60) DEF From
<1>5. y \in Seq(Bytes) /\ Len(y) = Len(buf) - (pos + n)
      /\ \A k \in 1..(Len(buf) - (pos + n)) : y[k] = buf[(pos + n) + k]
  <2> DEFINE q == pos + n
  <2>1. q \in 0..Len(buf)
    BY <1>3
  <2> HIDE DEF q
  <2>2. From(buf, q) \in Seq(Bytes) /\ Len(From(buf, q)) = Len(buf) - q
        /\ \A k \in 1..(Len(buf) - q) : From(buf, q)[k] = buf[q + k]
    BY <2>1, SplitAt DEF From
  <2> QED
    BY <2>2 DEF q
<1> HIDE DEF x, y
<1>6. Len(x) = Len(y)
  BY <1>1, <1>2, <1>4, <1>5
<1>7. \A k \in 1..Len(x) : x[k] = y[k]
  <2> SUFFICES ASSUME NEW k \in 1..Len(x) PROVE x[k] = y[k]
    OBVIOUS
  <2>1. k \in Nat /\ k \in 1..(Len(b) - n) /\ n + k \in 1..(Len(buf) - pos)
        /\ k \in 1..(Len(buf) - (pos + n))
    BY <1>1, <1>2, <1>4
  <2>2. x[k] = buf[pos + (n + k)] /\ y[k] = buf[(pos + n) + k]
    BY <1>2, <1>4, <1>5, <2>1
  <2>3. pos + (n + k) = (pos + n) + k
    BY <1>1, <2>1
  <2> QED
    BY <2>2, <2>3
<1>8. x = y
  BY <1>4, <1>5, <1>6, <1>7, SeqEqual
<1> QED
  BY <1>4, <1>8 DEF b, x, y

\* A round that finds a message prepends it to what the rounds after it find.
LEMMA RoundSplits ==
  ASSUME NEW buf \in Seq(Bytes), NEW pos \in 0..Len(buf), NEW g,
         \A q \in (pos + 1)..Len(buf) :
           /\ Splits([g[q] EXCEPT !.pos = @ - q], From(buf, q))
           /\ g[q] \in Outcomes /\ g[q].pos \in q..Len(buf)
  PROVE  LET r == ScanAt(g, buf, pos)
         IN /\ Splits([r EXCEPT !.pos = @ - pos], From(buf, pos))
            /\ r \in Outcomes /\ r.pos \in pos..Len(buf)
<1> DEFINE b == From(buf, pos)
           a == deserialize_message(b)
           r == ScanAt(g, buf, pos)
           r0 == [r EXCEPT !.pos = @ - pos]
<1>0. Len(buf) \in Nat /\ pos \in Nat
  BY LenProperties
<1>1. /\ b \in Seq(Bytes) /\ Len(b) = Len(buf) - pos
      /\ a.kind = "message" => /\ pos + a.size \in (pos + 1)..Len(buf)
                               /\ a.size \in 0..Len(b)
  BY RoundAdvances
<1>2. a.kind \in {"none", "error", "message"}
  BY Answers
<1>3. From(b, 0) = b /\ serialize_all(<<>>) \o b = b
  <2>1. b \in Seq(Bytes)
    BY <1>1
  <2> HIDE DEF b
  <2>2. From(b, 0) = b
    BY <2>1, SubSeqFull DEF From
  <2>3. serialize_all(<<>>) = <<>>
    BY FlattenEmpty, EmptySeq DEF serialize_all
  <2> QED
    BY <2>1, <2>2, <2>3, ConcatEmptySeq
<1>4. r = IF pos = Len(buf) \/ a.kind = "none"
          THEN [msgs |-> <<>>, pos |-> pos, had_error |-> FALSE]
          ELSE IF a.kind = "error"
          THEN [msgs |-> <<>>, pos |-> pos, had_error |-> TRUE]
          ELSE [g[pos + a.size] EXCEPT !.msgs = <<a.msg>> \o @]
  BY DEF ScanAt
<1>5. pos = Len(buf) => a.kind = "none"
  <2> SUFFICES ASSUME pos = Len(buf) PROVE a.kind = "none"
    OBVIOUS
  <2>1. Len(b) < WORD
    BY <1>0, <1>1 DEF WORD
  <2> HIDE DEF b
  <2> QED
    BY <2>1 DEF deserialize_message, None
<1> HIDE DEF b, a, r
<1>6. CASE pos = Len(buf) \/ a.kind = "none" \/ a.kind = "error"
  <2> DEFINE e == a.kind = "error"
  <2>1. r = [msgs |-> <<>>, pos |-> pos, had_error |-> e]
    BY <1>4, <1>5, <1>6
  <2>2. <<>> \in Seq(Serializable) /\ pos - pos = 0 /\ e \in BOOLEAN
    BY <1>0, EmptySeq
  <2>3. r \in Outcomes /\ r.pos \in pos..Len(buf)
    BY <1>0, <2>1, <2>2 DEF Outcomes
  <2>4. r0 = [msgs |-> <<>>, pos |-> 0, had_error |-> e]
    BY <2>1, <2>2
  <2>6. 0 \in 0..Len(b)
    BY <1>0, <1>1
  <2>7. a.kind = IF e THEN "error" ELSE "none"
    BY <1>5, <1>6
  <2> HIDE DEF e, r0
  <2>5. r0 \in Outcomes /\ r0.pos = 0 /\ r0.msgs = <<>> /\ r0.had_error = e
    BY <2>2, <2>4 DEF Outcomes
  <2>8. Splits(r0, b)
    BY <1>3, <2>5, <2>6, <2>7 DEF Splits, a
  <2> QED
    BY <2>3, <2>8 DEF r, b, r0
<1>7. CASE pos # Len(buf) /\ a.kind = "message"
  <2> DEFINE q == pos + a.size
             m == a.msg
             s == g[q]
             s0 == [s EXCEPT !.pos = @ - q]
  <2>1. r = [s EXCEPT !.msgs = <<m>> \o @]
    BY <1>4, <1>7
  <2>2. /\ q \in (pos + 1)..Len(buf) /\ a.size \in 0..Len(b)
        /\ a.size \in 0..(Len(buf) - pos)
    BY <1>1, <1>7
  <2>3. Splits(s0, From(buf, q)) /\ s \in Outcomes /\ s.pos \in q..Len(buf)
    BY <2>2
  <2>4. m \in Serializable /\ SubSeq(b, 1, a.size) = serialize_message(m)
    BY <1>1, <1>7, OnlySerialized DEF a
  <2>5. b = serialize_message(m) \o From(buf, q)
    <3>1. From(buf, pos) = SubSeq(From(buf, pos), 1, a.size) \o From(buf, pos + a.size)
      BY <2>2, FromFrom
    <3> QED
      BY <2>4, <3>1 DEF b
  <2>6. q \in Nat /\ a.size \in Nat /\ q = pos + a.size
    BY <1>0, <2>2
  <2> HIDE DEF q, m, s
  <2> DEFINE ms == s.msgs
             p == s.pos
             e == s.had_error
             mm == <<m>> \o ms
  <2>7. s = [msgs |-> ms, pos |-> p, had_error |-> e] /\ ms \in Seq(Serializable)
        /\ p \in Nat /\ e \in BOOLEAN /\ p \in q..Len(buf)
    BY <2>3 DEF Outcomes
  <2> HIDE DEF ms, p, e
  <2>8. /\ mm \in Seq(Serializable)
        /\ serialize_all(mm) = serialize_message(m) \o serialize_all(ms)
    <3> DEFINE one == <<m>>
    <3>1. one \in Seq(Serializable)
      BY <2>4
    <3>2. serialize_all(one) = serialize_message(m)
      BY <2>4, <2>7, SerializeAll
    <3> HIDE DEF one
    <3>3. one \o ms \in Seq(Serializable)
      BY <2>7, <3>1, ConcatProperties
    <3>4. serialize_all(one \o ms) = serialize_all(one) \o serialize_all(ms)
      BY <2>4, <2>7, <3>1, SerializeAll
    <3> QED
      BY <3>2, <3>3, <3>4 DEF one
  <2> HIDE DEF mm
  <2>9. r = [msgs |-> mm, pos |-> p, had_error |-> e]
    BY <2>1, <2>7 DEF mm
  <2>10. r \in Outcomes /\ r.pos \in pos..Len(buf)
    BY <1>0, <2>2, <2>6, <2>7, <2>8, <2>9 DEF Outcomes
  <2>11. s0 = [msgs |-> ms, pos |-> p - q, had_error |-> e]
    BY <2>7
  <2>12. /\ p - q \in 0..Len(From(buf, q))
         /\ From(buf, q) = serialize_all(ms) \o From(From(buf, q), p - q)
         /\ deserialize_message(From(From(buf, q), p - q)).kind
              = IF e THEN "error" ELSE "none"
    BY <2>3, <2>11 DEF Splits
  <2>13. q \in 0..Len(buf) /\ p - q \in 0..(Len(buf) - q) /\ q + (p - q) = p
         /\ p - pos \in 0..(Len(buf) - pos) /\ pos + (p - pos) = p
    <3>1. q \in (pos + 1)..Len(buf) /\ p \in q..Len(buf) /\ p \in Nat /\ q \in Nat
      BY <2>2, <2>6, <2>7
    <3> DEFINE L == Len(buf)
    <3>2. L \in Nat /\ pos \in Nat /\ q \in (pos + 1)..L /\ p \in q..L
          /\ p \in Nat /\ q \in Nat
      BY <1>0, <3>1
    <3> HIDE DEF L
    <3>3. q \in 0..L /\ p - q \in 0..(L - q) /\ q + (p - q) = p
          /\ p - pos \in 0..(L - pos) /\ pos + (p - pos) = p
      BY <3>2
    <3> QED
      BY <3>3 DEF L
  <2>14. From(From(buf, q), p - q) = From(buf, p)
    <3> DEFINE d == p - q
    <3>1. d \in 0..(Len(buf) - q) /\ q + d = p
      BY <2>13
    <3> HIDE DEF d
    <3>2. From(From(buf, q), d) = From(buf, q + d)
      BY <2>13, <3>1, FromFrom
    <3> QED
      BY <3>1, <3>2 DEF d
  <2>15. From(b, p - pos) = From(buf, p)
    <3> DEFINE d == p - pos
    <3>1. d \in 0..(Len(buf) - pos) /\ pos + d = p
      BY <2>13
    <3> HIDE DEF d
    <3>2. From(From(buf, pos), d) = From(buf, pos + d)
      BY <3>1, FromFrom
    <3> QED
      BY <3>1, <3>2 DEF d, b
  <2>16. r0 = [msgs |-> mm, pos |-> p - pos, had_error |-> e]
    BY <2>9
  <2>17. b = serialize_all(mm) \o From(buf, p)
    <3>1. p \in 0..Len(buf)
      BY <1>0, <2>2, <2>6, <2>7
    <3>2. /\ serialize_message(m) \in Seq(Bytes) /\ serialize_all(ms) \in Seq(Bytes)
          /\ From(buf, p) \in Seq(Bytes)
      BY <2>4, <2>7, <3>1, FrameParts, SerializeAll, RoundAdvances
    <3> DEFINE x == serialize_message(m)
               y == serialize_all(ms)
               z == From(buf, p)
    <3>3. x \in Seq(Bytes) /\ y \in Seq(Bytes) /\ z \in Seq(Bytes)
      BY <3>2
    <3>4. b = x \o (y \o z) /\ serialize_all(mm) = x \o y
      BY <2>5, <2>8, <2>12, <2>14
    <3> HIDE DEF x, y, z
    <3>5. (x \o y) \o z = x \o (y \o z)
      <4>1. Joins(x, y, z)
        BY <3>3, BytesAssociative
      <4> QED
        BY <4>1 DEF Joins
    <3> QED
      BY <3>4, <3>5 DEF z
  <2>18. r0 \in Outcomes /\ r0.pos = p - pos /\ r0.msgs = mm /\ r0.had_error = e
         /\ p - pos \in 0..Len(b)
    <3> DEFINE d == p - pos
    <3>1. d \in Nat /\ d \in 0..Len(b)
      BY <1>0, <1>1, <2>7, <2>13
    <3> HIDE DEF d, r0, b
    <3>2. r0 = [msgs |-> mm, pos |-> d, had_error |-> e]
      BY <2>16 DEF d
    <3>3. r0 \in Outcomes /\ r0.pos = d /\ r0.msgs = mm /\ r0.had_error = e
      BY <2>7, <2>8, <3>1, <3>2 DEF Outcomes
    <3> QED
      BY <3>1, <3>3 DEF d
  <2> HIDE DEF r0
  <2>19. Splits(r0, b)
    BY <2>12, <2>14, <2>15, <2>17, <2>18 DEF Splits
  <2> QED
    BY <2>10, <2>19 DEF r, b, r0
<1> QED
  BY <1>2, <1>6, <1>7

\* The loop of fetch_events splits the buffer into the frames of the messages
\* it hands out and a rest that does not begin with a message; it reports an
\* error exactly when the rest begins with a frame that cannot be decoded.
THEOREM LoopSplitsBuffer ==
  ASSUME NEW buf \in Seq(Bytes)
  PROVE  Splits(deserialize_all(buf), buf)
<1> DEFINE L == Len(buf)
<1>0. L \in Nat
  BY LenProperties
<1>1. PICK g : Scans(g, buf, 0) /\ deserialize_all(buf) = g[0]
  BY DeserializeAllScans
<1>2. \A pos \in 0..L : g[pos] = ScanAt(g, buf, pos)
  BY <1>1 DEF Scans
<1> DEFINE Q(pos) == /\ Splits([g[pos] EXCEPT !.pos = @ - pos], From(buf, pos))
                     /\ g[pos] \in Outcomes /\ g[pos].pos \in pos..L
           P(n) == \A pos \in 0..L : L - pos < n => Q(pos)
           T == {n \in Nat : P(n)}
<1>3. P(0)
  <2> HIDE DEF Q
  <2> QED
    BY <1>0
<1>4. ASSUME NEW n \in Nat, P(n)
      PROVE  P(n + 1)
  <2> SUFFICES ASSUME NEW pos \in 0..L, L - pos < n + 1 PROVE Q(pos)
    BY DEF P
  <2>1. \A q \in (pos + 1)..L : q \in 0..L /\ L - q < n
    BY <1>0
  <2>2. \A q \in (pos + 1)..L : Q(q)
    <3> HIDE DEF Q
    <3> QED
      BY <1>4, <2>1
  <2>3. LET r == ScanAt(g, buf, pos)
        IN /\ Splits([r EXCEPT !.pos = @ - pos], From(buf, pos))
           /\ r \in Outcomes /\ r.pos \in pos..L
    BY <2>2, RoundSplits
  <2> QED
    BY <1>2, <2>3
<1>5. \A n \in Nat : n \in T
  <2> HIDE DEF P
  <2>1. 0 \in T /\ \A n \in Nat : n \in T => n + 1 \in T
    BY <1>3, <1>4
  <2> HIDE DEF T
  <2> QED
    BY <2>1, SetInduction
<1>6. Q(0)
  <2> HIDE DEF Q
  <2>1. P(L + 1)
    BY <1>0, <1>5
  <2>2. 0 \in 0..L /\ L - 0 < L + 1
    BY <1>0
  <2> QED
    BY <2>1, <2>2
<1>7. From(buf, 0) = buf
  BY SubSeqFull DEF From
<1>8. [g[0] EXCEPT !.pos = @ - 0] = g[0]
  BY <1>6 DEF Outcomes
<1> QED
  BY <1>1, <1>6, <1>7, <1>8

\* Two splits of the same bytes are the same.
LEMMA SplitUnique ==
  ASSUME NEW a \in Seq(Serializable), NEW b \in Seq(Serializable),
         NEW x \in Seq(Bytes), NEW y \in Seq(Bytes),
         serialize_all(a) \o x = serialize_all(b) \o y,
         deserialize_message(x).kind # "message",
         deserialize_message(y).kind # "message"
  PROVE  a = b /\ x = y
<1>1. PICK c \in Seq(Serializable) : b = a \o c
  BY Unambiguous
<1>2. PICK d \in Seq(Serializable) : a = b \o d
  BY Unambiguous
<1>3. Len(a) \in Nat /\ Len(b) \in Nat /\ Len(c) \in Nat /\ Len(d) \in Nat
  BY LenProperties
<1>4. Len(b) = Len(a) + Len(c)
  BY <1>1, ConcatProperties, Zenon
<1>5. Len(a) = Len(b) + Len(d)
  BY <1>2, ConcatProperties, Zenon
<1>6. Len(c) = 0
  BY <1>3, <1>4, <1>5
<1>7. c = <<>>
  BY <1>6, EmptySeq
<1>8. a = b
  BY <1>1, <1>7, ConcatEmptySeq
<1>9. serialize_all(a) \in Seq(Bytes)
  BY SerializeAll
<1>10. x = y
  <2> DEFINE s == serialize_all(a)
  <2>1. s \in Seq(Bytes) /\ s \o x = s \o y
    BY <1>8, <1>9
  <2> HIDE DEF s
  <2> QED
    BY <2>1, ConcatCancel
<1> QED
  BY <1>8, <1>10

\* However the bytes of a stream are cut into pieces, the same messages come
\* out: what the loop finds in a buffer and, in the rest of it with more data
\* appended, after that, is what it finds in all the data at once.
THEOREM PiecesDoNotMatter ==
  ASSUME NEW buf \in Seq(Bytes), NEW data \in Seq(Bytes)
  PROVE  LET r == deserialize_all(buf)
             rest == From(buf, r.pos) \o data
             more == deserialize_all(rest)
             all == deserialize_all(buf \o data)
         IN /\ all.msgs = r.msgs \o more.msgs
            /\ From(buf \o data, all.pos) = From(rest, more.pos)
            /\ all.had_error = more.had_error
<1> DEFINE r == deserialize_all(buf)
           kept == From(buf, r.pos)
           rest == kept \o data
           more == deserialize_all(rest)
           full == buf \o data
           all == deserialize_all(full)
           x == From(full, all.pos)
           y == From(rest, more.pos)
<1>1. Splits(r, buf)
  BY LoopSplitsBuffer
<1>2. /\ r.msgs \in Seq(Serializable) /\ r.pos \in 0..Len(buf)
      /\ buf = serialize_all(r.msgs) \o kept
  BY <1>1 DEF Splits, Outcomes
<1>3. kept \in Seq(Bytes)
  BY <1>2, RoundAdvances
<1> HIDE DEF r, kept
<1>4. rest \in Seq(Bytes) /\ full \in Seq(Bytes)
  BY <1>3, ConcatProperties
<1> HIDE DEF rest, full
<1>5. Splits(more, rest) /\ Splits(all, full)
  BY <1>4, LoopSplitsBuffer
<1> HIDE DEF more, all
<1>6. /\ more.msgs \in Seq(Serializable) /\ more.pos \in 0..Len(rest)
      /\ rest = serialize_all(more.msgs) \o y
      /\ deserialize_message(y).kind = IF more.had_error THEN "error" ELSE "none"
      /\ more.had_error \in BOOLEAN
  BY <1>5 DEF Splits, Outcomes
<1>7. /\ all.msgs \in Seq(Serializable) /\ all.pos \in 0..Len(full)
      /\ full = serialize_all(all.msgs) \o x
      /\ deserialize_message(x).kind = IF all.had_error THEN "error" ELSE "none"
      /\ all.had_error \in BOOLEAN
  BY <1>5 DEF Splits, Outcomes
<1>8. x \in Seq(Bytes) /\ y \in Seq(Bytes)
  BY <1>4, <1>6, <1>7, RoundAdvances
<1> HIDE DEF x, y
<1> DEFINE a == r.msgs
           b == more.msgs
           ab == a \o b
           sa == serialize_all(a)
           sb == serialize_all(b)
<1>9. /\ a \in Seq(Serializable) /\ b \in Seq(Serializable)
      /\ ab \in Seq(Serializable) /\ sa \in Seq(Bytes) /\ sb \in Seq(Bytes)
      /\ serialize_all(ab) = sa \o sb
  BY <1>2, <1>6, SerializeAll, ConcatProperties
<1>10. full = (sa \o kept) \o data /\ kept \o data = sb \o y
  BY <1>2, <1>6 DEF full, rest
<1> HIDE DEF a, b, ab, sa, sb
<1>11. full = serialize_all(ab) \o y
  <2>0. sa \in Seq(Bytes) /\ sb \in Seq(Bytes) /\ y \in Seq(Bytes)
        /\ kept \in Seq(Bytes)
    BY <1>3, <1>8, <1>9
  <2>1. (sa \o kept) \o data = sa \o (kept \o data)
    <3>1. Joins(sa, kept, data)
      BY <2>0, BytesAssociative
    <3> QED
      BY <3>1 DEF Joins
  <2>2. (sa \o sb) \o y = sa \o (sb \o y)
    <3>1. Joins(sa, sb, y)
      BY <2>0, BytesAssociative
    <3> QED
      BY <3>1 DEF Joins
  <2> QED
    BY <1>9, <1>10, <2>1, <2>2
<1>12. deserialize_message(x).kind # "message"
       /\ deserialize_message(y).kind # "message"
  BY <1>6, <1>7
<1>13. all.msgs = ab /\ x = y
  <2> DEFINE c == all.msgs
  <2>1. c \in Seq(Serializable) /\ serialize_all(c) \o x = serialize_all(ab) \o y
    BY <1>7, <1>11
  <2> HIDE DEF c
  <2>2. c = ab /\ x = y
    BY <1>8, <1>9, <1>12, <2>1, SplitUnique, ZenonT(60)
  <2> QED
    BY <2>2 DEF c
<1>14. all.had_error = more.had_error
  BY <1>6, <1>7, <1>13
<1> QED
  BY <1>13, <1>14 DEF ab, a, b, r, kept, rest, more, full, all, x, y

=============================================================================
