------------------------- MODULE TlsSessions_proofs -------------------------
(***************************************************************************)
(* Lemmas about one TLS connection of TlsTransport: the units in its       *)
(* streams, the flights of its handshake, the loop of read_connection, and *)
(* the invariant ConnectionInv that ties a connection, its socket, its     *)
(* session and its outgoing stream together. Every operation on one        *)
(* connection is shown to keep it; TlsTransport_proofs applies that to the *)
(* steps of the specification.                                             *)
(***************************************************************************)
EXTENDS TlsTransport, StreamLemmas

-----------------------------------------------------------------------------
(* Units.                                                                  *)

\* The plaintext of a unit, and the handshake flight it completes.
Plain == [u \in Units |-> IF u.kind = "data" THEN <<u.n>> ELSE <<>>]
Flight == [u \in Units |-> IF u.kind = "hs" THEN <<u.n>> ELSE <<>>]

\* The numbers of the flights completed in a sequence of units.
Flights(units) == FlatMap(Flight, units)

\* Both can be taken apart.
LEMMA UnitMaps == Flattened(Plain, Units, Nat) /\ Flattened(Flight, Units, Nat)
<1>1. \A u \in Units : u.n \in Nat /\ <<u.n>> \in Seq(Nat) /\ <<>> \in Seq(Nat)
  BY EmptySeq DEF Units
<1>2. Plain \in [Units -> Seq(Nat)] /\ Flight \in [Units -> Seq(Nat)]
  BY <1>1 DEF Plain, Flight
<1> QED
  BY <1>2, FlatMapParts

\* The first k elements of a sequence, one by one.
LEMMA FirstOnes ==
  ASSUME NEW D, NEW s \in Seq(D)
  PROVE  /\ \A k \in 0..Len(s) : SubSeq(s, 1, k) \in Seq(D)
         /\ SubSeq(s, 1, 0) = <<>> /\ SubSeq(s, 1, Len(s)) = s
         /\ \A k \in 1..Len(s) :
              /\ SubSeq(s, 1, k) = SubSeq(s, 1, k - 1) \o <<s[k]>>
              /\ s[k] \in D /\ k - 1 \in 0..Len(s)
<1>1. Len(s) \in Nat
  BY LenProperties
<1>2. \A k \in 0..Len(s) : SubSeq(s, 1, k) \in Seq(D) /\ Len(SubSeq(s, 1, k)) = k
                           /\ \A j \in 1..k : SubSeq(s, 1, k)[j] = s[j]
  BY SplitAt
<1>3. SubSeq(s, 1, 0) = <<>>
  BY <1>1, <1>2, EmptySeq
<1>4. SubSeq(s, 1, Len(s)) = s
  BY SubSeqFull
<1>5. ASSUME NEW k \in 1..Len(s)
      PROVE  /\ SubSeq(s, 1, k) = SubSeq(s, 1, k - 1) \o <<s[k]>>
             /\ s[k] \in D /\ k - 1 \in 0..Len(s)
  <2>1. k \in 0..Len(s) /\ k - 1 \in 0..Len(s) /\ k \in Nat /\ k - 1 \in Nat
    BY <1>1
  <2>2. s[k] \in D
    BY ElementOfSeq
  <2> DEFINE x == SubSeq(s, 1, k)
             y == SubSeq(s, 1, k - 1)
             one == <<s[k]>>
  <2>3. /\ x \in Seq(D) /\ Len(x) = k /\ \A j \in 1..k : x[j] = s[j]
        /\ y \in Seq(D) /\ Len(y) = k - 1 /\ \A j \in 1..(k - 1) : y[j] = s[j]
    BY <1>2, <2>1
  <2>4. one \in Seq(D) /\ Len(one) = 1 /\ one[1] = s[k]
    BY <2>2
  <2> HIDE DEF x, y, one
  <2>5. /\ y \o one \in Seq(D) /\ Len(y \o one) = Len(y) + Len(one)
        /\ \A j \in 1..Len(y) : (y \o one)[j] = y[j]
        /\ \A j \in 1..Len(one) : (y \o one)[Len(y) + j] = one[j]
    <3>1. y \in Seq(D) /\ one \in Seq(D)
      BY <2>3, <2>4
    <3> QED
      BY <3>1, ConcatParts
  <2> DEFINE z == y \o one
  <2>6. z \in Seq(D) /\ Len(z) = k /\ \A j \in 1..k : z[j] = x[j]
    <3>1. Len(z) = k
      BY <2>1, <2>3, <2>4, <2>5
    <3>2. \A j \in 1..(k - 1) : z[j] = x[j]
      BY <2>1, <2>3, <2>5
    <3>3. z[k] = x[k]
      <4>1. 1 \in 1..Len(one) /\ Len(y) + 1 = k /\ k \in 1..k
        BY <2>1, <2>3, <2>4
      <4> QED
        BY <2>3, <2>4, <2>5, <4>1
    <3>4. \A j \in 1..k : j \in 1..(k - 1) \/ j = k
      BY <2>1
    <3> QED
      BY <2>5, <3>1, <3>2, <3>3, <3>4
  <2> HIDE DEF z
  <2>7. x = z
    BY <2>3, <2>6, SeqEqual
  <2> QED
    BY <2>1, <2>2, <2>7 DEF x, y, z, one
<1> QED
  BY <1>2, <1>3, <1>4, <1>5

\* Nothing comes of a sequence when nothing comes of its elements.
LEMMA FlatMapNone ==
  ASSUME NEW D, NEW S, NEW f, Flattened(f, D, S), NEW s \in Seq(D),
         \A k \in 1..Len(s) : f[s[k]] = <<>>
  PROVE  FlatMap(f, s) = <<>>
<1> DEFINE T == {k \in Nat : k \in 0..Len(s) => FlatMap(f, SubSeq(s, 1, k)) = <<>>}
<1>0. Len(s) \in Nat
  BY LenProperties
<1>1. 0 \in T
  BY FirstOnes DEF Flattened
<1>2. ASSUME NEW k \in Nat, k \in T
      PROVE  k + 1 \in T
  <2> SUFFICES ASSUME k + 1 \in 0..Len(s)
               PROVE  FlatMap(f, SubSeq(s, 1, k + 1)) = <<>>
    OBVIOUS
  <2>1. k + 1 \in 1..Len(s) /\ k \in 0..Len(s) /\ (k + 1) - 1 = k
    BY <1>0
  <2>2. /\ SubSeq(s, 1, k + 1) = SubSeq(s, 1, k) \o <<s[k + 1]>>
        /\ s[k + 1] \in D /\ SubSeq(s, 1, k) \in Seq(D)
    <3>1. /\ SubSeq(s, 1, k + 1) = SubSeq(s, 1, (k + 1) - 1) \o <<s[k + 1]>>
          /\ s[k + 1] \in D /\ SubSeq(s, 1, k) \in Seq(D)
      BY <2>1, FirstOnes
    <3> QED
      BY <2>1, <3>1
  <2>3. <<s[k + 1]>> \in Seq(D)
    BY <2>2
  <2>4. FlatMap(f, SubSeq(s, 1, k + 1)) = <<>> \o <<>>
    <3>1. FlatMap(f, SubSeq(s, 1, k) \o <<s[k + 1]>>) =
            FlatMap(f, SubSeq(s, 1, k)) \o FlatMap(f, <<s[k + 1]>>)
      BY <2>2, <2>3 DEF Flattened
    <3>2. FlatMap(f, <<s[k + 1]>>) = f[s[k + 1]]
      BY <2>2 DEF Flattened
    <3>3. f[s[k + 1]] = <<>>
      BY <2>1
    <3>4. FlatMap(f, SubSeq(s, 1, k)) = <<>>
      BY <1>2, <2>1
    <3> QED
      BY <2>2, <3>1, <3>2, <3>3, <3>4
  <2> QED
    BY <2>4, ConcatEmptySeq, EmptySeq
<1>3. \A k \in Nat : k \in T
  <2> HIDE DEF T
  <2> QED
    BY <1>1, <1>2, SetInduction
<1>4. FlatMap(f, SubSeq(s, 1, Len(s))) = <<>>
  <2>1. Len(s) \in 0..Len(s) /\ Len(s) \in T
    BY <1>0, <1>3
  <2> QED
    BY <2>1
<1>5. SubSeq(s, 1, Len(s)) = s
  BY FirstOnes
<1> QED
  BY <1>4, <1>5

\* DataOf is the plaintext of the units, one after the other.
LEMMA DataOfUnits ==
  ASSUME NEW units \in Seq(Units)
  PROVE  DataOf(units) = FlatMap(Plain, units)
<1> DEFINE n == Len(units)
           F(g) == [k \in 0..n |->
                      IF k = 0 THEN <<>>
                      ELSE g[k - 1] \o IF IsData(units[k]) THEN <<units[k].n>> ELSE <<>>]
           w == [k \in 0..n |-> FlatMap(Plain, SubSeq(units, 1, k))]
           h == CHOOSE g : g = F(g)
<1>0. n \in Nat
  BY LenProperties
<1>1. w[0] = <<>> /\ w[n] = FlatMap(Plain, units)
  <2>1. SubSeq(units, 1, 0) = <<>> /\ SubSeq(units, 1, n) = units
    BY FirstOnes
  <2>2. FlatMap(Plain, <<>>) = <<>>
    BY UnitMaps DEF Flattened
  <2>3. 0 \in 0..n /\ n \in 0..n
    BY <1>0
  <2> QED
    BY <2>1, <2>2, <2>3
<1>2. ASSUME NEW k \in 1..n
      PROVE  w[k] = w[k - 1] \o IF IsData(units[k]) THEN <<units[k].n>> ELSE <<>>
  <2>1. /\ SubSeq(units, 1, k) = SubSeq(units, 1, k - 1) \o <<units[k]>>
        /\ units[k] \in Units /\ k - 1 \in 0..n /\ k \in 0..n
        /\ SubSeq(units, 1, k - 1) \in Seq(Units)
    BY <1>0, FirstOnes
  <2>2. <<units[k]>> \in Seq(Units)
    BY <2>1
  <2>3. FlatMap(Plain, SubSeq(units, 1, k)) =
          FlatMap(Plain, SubSeq(units, 1, k - 1)) \o Plain[units[k]]
    BY <2>1, <2>2, UnitMaps, ZenonT(60) DEF Flattened
  <2>4. Plain[units[k]] = IF IsData(units[k]) THEN <<units[k].n>> ELSE <<>>
    BY <2>1 DEF Plain, IsData
  <2> QED
    BY <2>1, <2>3, <2>4
<1>3. w = F(w)
  <2>1. \A k \in 0..n : k = 0 \/ k \in 1..n
    BY <1>0
  <2> QED
    BY <1>1, <1>2, <2>1
<1>4. h = F(h)
  BY <1>3, Zenon
<1>5. DataOf(units) = h[n]
  BY DEF DataOf
<1> HIDE DEF w, h
<1>6. h[0] = <<>> /\ \A k \in 1..n :
        h[k] = h[k - 1] \o IF IsData(units[k]) THEN <<units[k].n>> ELSE <<>>
  <2>1. 0 \in 0..n /\ \A k \in 1..n : k \in 0..n /\ k # 0
    BY <1>0
  <2> QED
    BY <1>4, <2>1
<1> DEFINE T == {k \in Nat : k \in 0..n => h[k] = w[k]}
<1>7. 0 \in T
  BY <1>1, <1>6
<1>8. ASSUME NEW k \in Nat, k \in T
      PROVE  k + 1 \in T
  <2> SUFFICES ASSUME k + 1 \in 0..n PROVE h[k + 1] = w[k + 1]
    OBVIOUS
  <2>1. k + 1 \in 1..n /\ k \in 0..n /\ (k + 1) - 1 = k
    BY <1>0
  <2>2. h[k] = w[k]
    BY <1>8, <2>1
  <2> QED
    BY <1>2, <1>6, <2>1, <2>2
<1>9. \A k \in Nat : k \in T
  <2> HIDE DEF T
  <2> QED
    BY <1>7, <1>8, SetInduction
<1> QED
  BY <1>0, <1>1, <1>5, <1>9

\* The plaintext of sequences of units.
LEMMA DataOfParts ==
  /\ DataOf(<<>>) = <<>>
  /\ \A u \in Units : DataOf(<<u>>) = IF u.kind = "data" THEN <<u.n>> ELSE <<>>
  /\ \A a \in Seq(Units) : DataOf(a) \in Seq(Nat)
  /\ \A a, b \in Seq(Units) : DataOf(a \o b) = DataOf(a) \o DataOf(b)
<1>1. <<>> \in Seq(Units) /\ \A u \in Units : <<u>> \in Seq(Units)
  BY EmptySeq
<1>2. \A a, b \in Seq(Units) : a \o b \in Seq(Units)
  BY ConcatProperties
<1>3. \A u \in Units : Plain[u] = IF u.kind = "data" THEN <<u.n>> ELSE <<>>
  BY DEF Plain
<1>4. DataOf(<<>>) = <<>>
  BY <1>1, DataOfUnits, UnitMaps DEF Flattened
<1>5. \A u \in Units : DataOf(<<u>>) = IF u.kind = "data" THEN <<u.n>> ELSE <<>>
  <2> SUFFICES ASSUME NEW u \in Units
               PROVE  DataOf(<<u>>) = Plain[u]
    BY <1>3, Zenon
  <2>1. DataOf(<<u>>) = FlatMap(Plain, <<u>>)
    BY <1>1, DataOfUnits
  <2> QED
    BY <2>1, UnitMaps DEF Flattened
<1>6. \A a \in Seq(Units) : DataOf(a) \in Seq(Nat)
  BY DataOfUnits, UnitMaps DEF Flattened
<1>7. ASSUME NEW a \in Seq(Units), NEW b \in Seq(Units)
      PROVE  DataOf(a \o b) = DataOf(a) \o DataOf(b)
  <2>1. /\ DataOf(a) = FlatMap(Plain, a) /\ DataOf(b) = FlatMap(Plain, b)
        /\ DataOf(a \o b) = FlatMap(Plain, a \o b)
    BY <1>2, DataOfUnits
  <2> QED
    BY <2>1, UnitMaps DEF Flattened
<1> QED
  BY <1>4, <1>5, <1>6, <1>7

\* The flights completed in sequences of units.
LEMMA FlightsParts ==
  /\ Flights(<<>>) = <<>>
  /\ \A u \in Units : Flights(<<u>>) = IF u.kind = "hs" THEN <<u.n>> ELSE <<>>
  /\ \A a \in Seq(Units) : Flights(a) \in Seq(Nat)
  /\ \A a, b \in Seq(Units) : Flights(a \o b) = Flights(a) \o Flights(b)
<1>1. \A u \in Units : Flight[u] = IF u.kind = "hs" THEN <<u.n>> ELSE <<>>
  BY DEF Flight
<1> QED
  BY <1>1, UnitMaps DEF Flattened, Flights

\* Bytes in records are only plaintext.
LEMMA DataUnitsParts ==
  ASSUME NEW b \in Seq(Nat)
  PROVE  /\ DataUnits(b) \in Seq(Units) /\ Len(DataUnits(b)) = Len(b)
         /\ DataOf(DataUnits(b)) = b /\ Flights(DataUnits(b)) = <<>>
<1> DEFINE d == DataUnits(b)
           n == Len(b)
<1>0. n \in Nat
  BY LenProperties
<1>1. \A k \in 1..n : /\ b[k] \in Nat /\ Unit("data", b[k]) \in Units
                      /\ Unit("data", b[k]).kind = "data" /\ Unit("data", b[k]).n = b[k]
  BY ElementOfSeq DEF Unit, Units
<1>2. d \in [1..n -> Units] /\ \A k \in 1..n : d[k] = Unit("data", b[k])
  BY <1>1 DEF DataUnits
<1>3. d \in Seq(Units) /\ Len(d) = n
  <2>1. d \in Seq(Units)
    BY <1>0, <1>2, SeqDef
  <2>2. DOMAIN d = 1..Len(d) /\ DOMAIN d = 1..n /\ Len(d) \in Nat
    BY <1>2, <2>1, LenProperties
  <2> QED
    BY <1>0, <2>1, <2>2
<1> HIDE DEF d
<1>4. Flights(d) = <<>>
  <2>1. \A k \in 1..Len(d) : Flight[d[k]] = <<>>
    BY <1>1, <1>2, <1>3 DEF Flight
  <2> QED
    BY <1>3, <2>1, UnitMaps, FlatMapNone DEF Flights
<1> DEFINE T == {k \in Nat : k \in 0..n => DataOf(SubSeq(d, 1, k)) = SubSeq(b, 1, k)}
<1>5. 0 \in T
  BY <1>3, FirstOnes, DataOfParts
<1>6. ASSUME NEW k \in Nat, k \in T
      PROVE  k + 1 \in T
  <2> SUFFICES ASSUME k + 1 \in 0..n
               PROVE  DataOf(SubSeq(d, 1, k + 1)) = SubSeq(b, 1, k + 1)
    OBVIOUS
  <2>1. k + 1 \in 1..n /\ k \in 0..n /\ (k + 1) - 1 = k
    BY <1>0
  <2>2. /\ SubSeq(d, 1, k + 1) = SubSeq(d, 1, (k + 1) - 1) \o <<d[k + 1]>>
        /\ d[k + 1] \in Units /\ SubSeq(d, 1, k) \in Seq(Units)
    BY <1>3, <2>1, FirstOnes
  <2>3. SubSeq(b, 1, k + 1) = SubSeq(b, 1, (k + 1) - 1) \o <<b[k + 1]>>
    BY <2>1, FirstOnes
  <2>4. <<d[k + 1]>> \in Seq(Units) /\ DataOf(<<d[k + 1]>>) = <<b[k + 1]>>
    <3>1. d[k + 1] = Unit("data", b[k + 1])
      BY <1>2, <2>1
    <3>2. d[k + 1].kind = "data" /\ d[k + 1].n = b[k + 1]
      BY <1>1, <2>1, <3>1
    <3>3. DataOf(<<d[k + 1]>>) = IF d[k + 1].kind = "data" THEN <<d[k + 1].n>> ELSE <<>>
      BY <2>2, DataOfParts
    <3> QED
      BY <2>2, <3>2, <3>3
  <2>5. DataOf(SubSeq(d, 1, k) \o <<d[k + 1]>>) = SubSeq(b, 1, k) \o <<b[k + 1]>>
    <3>1. DataOf(SubSeq(d, 1, k)) = SubSeq(b, 1, k)
      BY <1>6, <2>1
    <3> QED
      BY <2>2, <2>4, <3>1, DataOfParts
  <2> QED
    BY <2>1, <2>2, <2>3, <2>5
<1>7. \A k \in Nat : k \in T
  <2> HIDE DEF T
  <2> QED
    BY <1>5, <1>6, SetInduction
<1>8. DataOf(SubSeq(d, 1, n)) = SubSeq(b, 1, n)
  <2>1. n \in 0..n
    BY <1>0
  <2> QED
    BY <1>0, <1>7, <2>1
<1>9. SubSeq(d, 1, n) = d /\ SubSeq(b, 1, n) = b
  <2>1. SubSeq(d, 1, Len(d)) = d
    BY <1>3, SubSeqFull
  <2>2. SubSeq(b, 1, n) = b
    BY SubSeqFull
  <2> QED
    BY <1>3, <2>1, <2>2
<1> QED
  BY <1>3, <1>4, <1>8, <1>9 DEF d

-----------------------------------------------------------------------------
(* The flights in a part of a stream, and what processing it does.         *)

\* The flights of a part of a sequence with at most one flight.
LEMMA FlightsSplit ==
  ASSUME NEW a \in Seq(Units), NEW b \in Seq(Units)
  PROVE  /\ Flights(a \o b) = <<>> => Flights(a) = <<>> /\ Flights(b) = <<>>
         /\ \A n : Flights(a \o b) = <<n>> =>
              \/ Flights(a) = <<n>> /\ Flights(b) = <<>>
              \/ Flights(a) = <<>> /\ Flights(b) = <<n>>
<1> DEFINE x == Flights(a)
           y == Flights(b)
<1>1. Flights(a \o b) = x \o y /\ x \in Seq(Nat) /\ y \in Seq(Nat)
  BY FlightsParts
<1> HIDE DEF x, y
<1>2. Len(x \o y) = Len(x) + Len(y) /\ Len(x) \in Nat /\ Len(y) \in Nat
  BY <1>1, ConcatProperties, LenProperties
<1>3. ASSUME x \o y = <<>>
      PROVE  x = <<>> /\ y = <<>>
  <2>1. Len(x \o y) = 0
    BY <1>3
  <2>2. Len(x) = 0 /\ Len(y) = 0
    BY <1>2, <2>1
  <2> QED
    BY <1>1, <2>2, EmptySeq
<1>4. ASSUME NEW n, x \o y = <<n>>
      PROVE  (x = <<n>> /\ y = <<>>) \/ (x = <<>> /\ y = <<n>>)
  <2>1. Len(x \o y) = 1
    BY <1>4
  <2>2. Len(x) = 0 \/ Len(y) = 0
    BY <1>2, <2>1
  <2>3. CASE Len(x) = 0
    <3>1. x = <<>>
      BY <1>1, <2>3, EmptySeq
    <3> QED
      BY <1>1, <1>4, <3>1, ConcatEmptySeq
  <2>4. CASE Len(y) = 0
    <3>1. y = <<>>
      BY <1>1, <2>4, EmptySeq
    <3> QED
      BY <1>1, <1>4, <3>1, ConcatEmptySeq
  <2> QED
    BY <2>2, <2>3, <2>4
<1> QED
  BY <1>1, <1>3, <1>4 DEF x, y

\* A sequence and one of its elements: the flights before it, its own and the
\* flights after it.
LEMMA FlightsAt ==
  ASSUME NEW a \in Seq(Units), NEW k \in 1..Len(a)
  PROVE  /\ Flights(SubSeq(a, 1, k)) =
              Flights(SubSeq(a, 1, k - 1)) \o IF a[k].kind = "hs" THEN <<a[k].n>> ELSE <<>>
         /\ a[k] \in Units
         /\ \A j \in 0..Len(a) :
              /\ Flights(a) = <<>> => Flights(SubSeq(a, 1, j)) = <<>>
              /\ \A n : Flights(a) = <<n>> => Flights(SubSeq(a, 1, j)) \in {<<>>, <<n>>}
<1>1. /\ SubSeq(a, 1, k) = SubSeq(a, 1, k - 1) \o <<a[k]>>
      /\ a[k] \in Units /\ SubSeq(a, 1, k - 1) \in Seq(Units)
  BY FirstOnes
<1>2. <<a[k]>> \in Seq(Units) /\ Flights(<<a[k]>>) = IF a[k].kind = "hs" THEN <<a[k].n>> ELSE <<>>
  BY <1>1, FlightsParts
<1>3. Flights(SubSeq(a, 1, k)) = Flights(SubSeq(a, 1, k - 1)) \o Flights(<<a[k]>>)
  BY <1>1, <1>2, FlightsParts
<1>4. ASSUME NEW j \in 0..Len(a)
      PROVE  /\ Flights(a) = <<>> => Flights(SubSeq(a, 1, j)) = <<>>
             /\ \A n : Flights(a) = <<n>> => Flights(SubSeq(a, 1, j)) \in {<<>>, <<n>>}
  <2>1. /\ SubSeq(a, 1, j) \in Seq(Units) /\ SubSeq(a, j + 1, Len(a)) \in Seq(Units)
        /\ a = SubSeq(a, 1, j) \o SubSeq(a, j + 1, Len(a))
    BY SplitAt
  <2> DEFINE b == SubSeq(a, 1, j)
             c == SubSeq(a, j + 1, Len(a))
  <2>2. /\ Flights(b \o c) = <<>> => Flights(b) = <<>>
        /\ \A n : Flights(b \o c) = <<n>> => Flights(b) \in {<<>>, <<n>>}
    <3>1. b \in Seq(Units) /\ c \in Seq(Units)
      BY <2>1
    <3> HIDE DEF b, c
    <3> QED
      BY <3>1, FlightsSplit
  <2>3. Flights(b \o c) = Flights(a)
    BY <2>1
  <2> QED
    BY <2>2, <2>3
<1> QED
  BY <1>1, <1>2, <1>3, <1>4

\* A flight in a sequence is among its flights.
LEMMA FlightFound ==
  ASSUME NEW a \in Seq(Units), NEW k \in 1..Len(a), a[k].kind = "hs"
  PROVE  /\ Flights(a) # <<>>
         /\ \A n : Flights(a) = <<n>> => a[k].n = n
<1>1. Len(a) \in Nat /\ k \in 0..Len(a) /\ k - 1 \in 0..Len(a)
  BY LenProperties
<1> DEFINE x == Flights(SubSeq(a, 1, k - 1))
           y == Flights(SubSeq(a, 1, k))
<1>2. y = x \o <<a[k].n>> /\ a[k].n \in Nat
  BY FlightsAt DEF Units
<1>3. x \in Seq(Nat) /\ y \in Seq(Nat)
  BY <1>1, FirstOnes, FlightsParts
<1>4. /\ Flights(a) = <<>> => y = <<>>
      /\ \A n : Flights(a) = <<n>> => y \in {<<>>, <<n>>}
  BY <1>1, FlightsAt
<1> HIDE DEF x, y
<1>5. Len(y) = Len(x) + 1 /\ y[Len(x) + 1] = a[k].n /\ Len(x) \in Nat
  <2>1. y = Append(x, a[k].n)
    BY <1>2, <1>3, AppendIsConcat
  <2> QED
    BY <1>2, <1>3, <2>1, AppendProperties, LenProperties
<1>6. y # <<>>
  BY <1>5
<1>7. ASSUME NEW n, y = <<n>>
      PROVE  a[k].n = n
  BY <1>5, <1>7
<1> QED
  BY <1>4, <1>6, <1>7

\* What the peer has received of a flight: how far it has come.
LEMMA AdvanceParts ==
  ASSUME NEW far, NEW a \in Seq(Units)
  PROVE  /\ Flights(a) = <<>> => Advance(far, a) = far
         /\ \A n : Flights(a) = <<n>> => Advance(far, a) = n
<1> DEFINE fs == {k \in 1..Len(a) : a[k].kind = "hs"}
<1>0. Len(a) \in Nat
  BY LenProperties
<1>1. Advance(far, a) = IF fs = {} THEN far ELSE a[Max(fs)].n
  BY DEF Advance
<1>2. ASSUME Flights(a) = <<>>
      PROVE  Advance(far, a) = far
  BY <1>1, <1>2, FlightFound
<1>3. ASSUME NEW n, Flights(a) = <<n>>
      PROVE  Advance(far, a) = n
  <2>1. fs # {}
    <3> SUFFICES ASSUME fs = {} PROVE FALSE
      OBVIOUS
    <3>1. \A k \in 1..Len(a) : a[k] \in Units /\ a[k].kind # "hs"
      BY ElementOfSeq
    <3>2. \A k \in 1..Len(a) : Flight[a[k]] = <<>>
      BY <3>1 DEF Flight
    <3>3. Flights(a) = <<>>
      BY <3>2, UnitMaps, FlatMapNone DEF Flights
    <3> QED
      BY <1>3, <3>3
  <2>2. \E k \in fs : \A j \in fs : k >= j
    <3> DEFINE T == {Len(a) - k : k \in fs}
    <3>1. T \subseteq Nat /\ T # {}
      BY <1>0, <2>1
    <3>2. PICK x \in T : \A y \in T : ~(y < x)
      <4> HIDE DEF T
      <4> QED
        BY <3>1, LeastNumber
    <3>3. PICK k \in fs : x = Len(a) - k
      BY <3>2
    <3>4. ASSUME NEW j \in fs
          PROVE  k >= j
      <4>1. ~(Len(a) - j < Len(a) - k)
        BY <3>2, <3>3
      <4> QED
        BY <1>0, <4>1
    <3> QED
      BY <3>3, <3>4
  <2>3. Max(fs) \in fs
    <3> HIDE DEF fs
    <3> QED
      BY <2>2 DEF Max
  <2>4. a[Max(fs)].n = n
    <3> DEFINE m == Max(fs)
    <3>1. m \in 1..Len(a) /\ a[m].kind = "hs"
      BY <2>3
    <3> HIDE DEF m
    <3>2. a[m].n = n
      BY <1>3, <3>1, FlightFound
    <3> QED
      BY <3>2 DEF m
  <2> QED
    BY <1>1, <2>1, <2>4
<1> QED
  BY <1>2, <1>3

\* process_new_packets() on input with at most one complete flight.
LEMMA ProcessAllParts ==
  ASSUME NEW s, NEW a \in Seq(Units)
  PROVE  /\ Flights(a) = <<>> => ProcessAll(s, a) = s
         /\ \A n : Flights(a) = <<n>> => ProcessAll(s, a) = Process(s, Unit("hs", n))
<1> DEFINE m == Len(a)
           F(g) == [k \in 0..m |-> IF k = 0 THEN s ELSE Process(g[k - 1], a[k])]
           h == CHOOSE g : g = F(g)
<1>0. m \in Nat
  BY LenProperties
<1>1. ProcessAll(s, a) = h[m]
  BY DEF ProcessAll
<1>2. ASSUME NEW w, w = F(w)
      PROVE  h[m] = w[m]
  <2>1. h = F(h)
    BY <1>2
  <2> HIDE DEF h
  <2>2. h[0] = s /\ \A k \in 1..m : h[k] = Process(h[k - 1], a[k])
    <3>1. 0 \in 0..m /\ \A k \in 1..m : k \in 0..m /\ k # 0
      BY <1>0
    <3> QED
      BY <2>1, <3>1
  <2>3. w[0] = s /\ \A k \in 1..m : w[k] = Process(w[k - 1], a[k])
    <3>1. 0 \in 0..m /\ \A k \in 1..m : k \in 0..m /\ k # 0
      BY <1>0
    <3> QED
      BY <1>2, <3>1
  <2> DEFINE T == {k \in Nat : k \in 0..m => h[k] = w[k]}
  <2>4. 0 \in T
    BY <2>2, <2>3
  <2>5. ASSUME NEW k \in Nat, k \in T
        PROVE  k + 1 \in T
    <3> SUFFICES ASSUME k + 1 \in 0..m PROVE h[k + 1] = w[k + 1]
      OBVIOUS
    <3>1. k + 1 \in 1..m /\ k \in 0..m /\ (k + 1) - 1 = k
      BY <1>0
    <3>2. h[k] = w[k]
      BY <2>5, <3>1
    <3>3. h[k + 1] = Process(h[k], a[k + 1]) /\ w[k + 1] = Process(w[k], a[k + 1])
      <4>1. h[k + 1] = Process(h[(k + 1) - 1], a[k + 1])
            /\ w[k + 1] = Process(w[(k + 1) - 1], a[k + 1])
        BY <2>2, <2>3, <3>1
      <4> QED
        BY <3>1, <4>1
    <3> QED
      BY <3>2, <3>3
  <2>6. \A k \in Nat : k \in T
    <3> HIDE DEF T
    <3> QED
      BY <2>4, <2>5, SetInduction
  <2> QED
    BY <1>0, <2>6
<1> DEFINE fl(k) == Flights(SubSeq(a, 1, k))
<1>3. fl(0) = <<>> /\ fl(m) = Flights(a)
  BY FirstOnes, FlightsParts
<1>4. \A k \in 1..m : /\ fl(k) = fl(k - 1) \o IF a[k].kind = "hs" THEN <<a[k].n>> ELSE <<>>
                      /\ a[k] \in Units /\ fl(k - 1) \in Seq(Nat) /\ k - 1 \in 0..m
  BY FlightsAt, FirstOnes, FlightsParts
<1>5. \A k \in 1..m : a[k].kind # "hs" => fl(k) = fl(k - 1)
  BY <1>4, ConcatEmptySeq
<1>6. ASSUME Flights(a) = <<>>
      PROVE  ProcessAll(s, a) = s
  <2> DEFINE w == [k \in 0..m |-> s]
  <2>1. \A k \in 1..m : a[k].kind # "hs"
    BY <1>6, FlightFound
  <2>2. \A k \in 1..m : Process(s, a[k]) = s
    BY <2>1 DEF Process
  <2>3. w = F(w)
    <3>1. \A k \in 0..m : k # 0 => k \in 1..m /\ k - 1 \in 0..m
      BY <1>0
    <3>2. \A k \in 0..m : k # 0 => Process(w[k - 1], a[k]) = s
      BY <2>2, <3>1
    <3> QED
      BY <3>2
  <2>4. w[m] = s
    BY <1>0
  <2> HIDE DEF w
  <2> QED
    BY <1>1, <1>2, <2>3, <2>4
<1>7. ASSUME NEW n, Flights(a) = <<n>>
      PROVE  ProcessAll(s, a) = Process(s, Unit("hs", n))
  <2> DEFINE t == Process(s, Unit("hs", n))
             w == [k \in 0..m |-> IF fl(k) = <<>> THEN s ELSE t]
  <2>1. ASSUME NEW k \in 1..m
        PROVE  w[k] = Process(w[k - 1], a[k])
    <3>1. k \in 0..m /\ k - 1 \in 0..m
      BY <1>0
    <3>2. CASE a[k].kind # "hs"
      <4>1. Process(w[k - 1], a[k]) = w[k - 1]
        BY <3>2 DEF Process
      <4>2. w[k] = w[k - 1]
        BY <1>5, <3>1, <3>2
      <4> QED
        BY <4>1, <4>2
    <3>3. CASE a[k].kind = "hs"
      <4>1. a[k].n = n /\ a[k] = Unit("hs", n)
        BY <1>4, <1>7, <3>3, FlightFound DEF Unit, Units
      <4>2. fl(k) = fl(k - 1) \o <<n>> /\ n \in Nat /\ fl(k - 1) \in Seq(Nat)
        BY <1>4, <3>3, <4>1 DEF Units
      <4>3. fl(k) \in {<<>>, <<n>>}
        BY <1>7, <3>1, FlightsAt
      <4>4. fl(k - 1) = <<>> /\ fl(k) # <<>>
        <5> DEFINE x == fl(k - 1)
                   y == fl(k)
        <5>1. y = Append(x, n) /\ x \in Seq(Nat) /\ y \in {<<>>, <<n>>}
          BY <4>2, <4>3, AppendIsConcat
        <5> HIDE DEF x, y
        <5>2. Len(y) = Len(x) + 1 /\ Len(x) \in Nat
          BY <4>2, <5>1, AppendProperties, LenProperties
        <5>3. Len(<<>>) = 0 /\ Len(<<n>>) = 1
          OBVIOUS
        <5>4. Len(x) = 0 /\ y # <<>>
          <6> DEFINE l == Len(y)
                     m0 == Len(x)
          <6>1. l = 0 \/ l = 1
            BY <5>1, <5>3, Zenon
          <6>2. l = m0 + 1 /\ m0 \in Nat
            BY <5>2
          <6>3. l = 1 /\ m0 = 0
            <7> HIDE DEF l, m0
            <7> QED
              BY <6>1, <6>2
          <6>4. Len(y) # Len(<<>>)
            BY <5>3, <6>3
          <6> QED
            BY <6>3, <6>4, Zenon
        <5>5. x = <<>>
          BY <5>1, <5>4, EmptySeq
        <5> QED
          BY <5>4, <5>5 DEF x, y
      <4>5. w[k - 1] = s /\ w[k] = t
        BY <3>1, <4>4
      <4> QED
        BY <4>1, <4>5
    <3> QED
      BY <3>2, <3>3
  <2>2. w[0] = s /\ w[m] = t
    <3>1. Flights(a) # <<>>
      BY <1>7
    <3> QED
      BY <1>0, <1>3, <3>1
  <2>3. w = F(w)
    <3>1. \A k \in 0..m : k # 0 => k \in 1..m
      BY <1>0
    <3>2. \A k \in 0..m : w[k] = IF k = 0 THEN s ELSE Process(w[k - 1], a[k])
      BY <2>1, <2>2, <3>1
    <3>3. DOMAIN w = 0..m /\ w = [k \in 0..m |-> w[k]]
      OBVIOUS
    <3> HIDE DEF w
    <3> QED
      BY <3>2, <3>3
  <2> HIDE DEF w
  <2> QED
    BY <1>1, <1>2, <2>2, <2>3
<1> QED
  BY <1>6, <1>7

-----------------------------------------------------------------------------
(* The loop of read_connection.                                            *)

\* The plaintext of the first k units.
Available(a, k) == Len(DataOf(SubSeq(a, 1, k)))

\* Every unit adds at most one byte of plaintext to that of the units before.
LEMMA DataCount ==
  ASSUME NEW a \in Seq(Units)
  PROVE  /\ \A k \in 0..Len(a) : Available(a, k) \in 0..k
         /\ \A k, l \in 0..Len(a) : k <= l => Available(a, k) <= Available(a, l)
         /\ Available(a, Len(a)) = Len(DataOf(a))
         /\ \A k \in 0..Len(a) :
              /\ DataOf(a) = DataOf(SubSeq(a, 1, k)) \o DataOf(SubSeq(a, k + 1, Len(a)))
              /\ DataOf(SubSeq(a, 1, k)) = SubSeq(DataOf(a), 1, Available(a, k))
<1> DEFINE L == Len(a)
<1>0. L \in Nat
  BY LenProperties
<1>1. Available(a, 0) = 0 /\ Available(a, L) = Len(DataOf(a))
  <2>1. SubSeq(a, 1, 0) = <<>> /\ SubSeq(a, 1, L) = a
    BY FirstOnes
  <2>2. DataOf(<<>>) = <<>>
    BY DataOfParts
  <2> QED
    BY <2>1, <2>2, EmptySeq DEF Available
<1>2. ASSUME NEW k \in 1..L
      PROVE  /\ Available(a, k) \in Nat /\ Available(a, k - 1) \in Nat
             /\ Available(a, k - 1) <= Available(a, k)
             /\ Available(a, k) <= Available(a, k - 1) + 1
  <2> DEFINE x == DataOf(SubSeq(a, 1, k - 1))
             y == DataOf(<<a[k]>>)
  <2>1. /\ SubSeq(a, 1, k) = SubSeq(a, 1, k - 1) \o <<a[k]>>
        /\ a[k] \in Units /\ SubSeq(a, 1, k - 1) \in Seq(Units)
    BY FirstOnes
  <2>2. <<a[k]>> \in Seq(Units) /\ y \in {<<a[k].n>>, <<>>}
    <3>1. DataOf(<<a[k]>>) = IF a[k].kind = "data" THEN <<a[k].n>> ELSE <<>>
      BY <2>1, DataOfParts
    <3> QED
      BY <2>1, <3>1
  <2>3. DataOf(SubSeq(a, 1, k)) = x \o y /\ x \in Seq(Nat) /\ y \in Seq(Nat)
    BY <2>1, <2>2, DataOfParts
  <2>4. Len(<<a[k].n>>) = 1 /\ Len(<<>>) = 0
    OBVIOUS
  <2> HIDE DEF x, y
  <2>5. Len(x \o y) = Len(x) + Len(y) /\ Len(x) \in Nat /\ Len(y) \in 0..1
    BY <2>2, <2>3, <2>4, ConcatProperties, LenProperties
  <2>6. Available(a, k) = Len(x \o y)
    BY <2>3 DEF Available
  <2>7. Available(a, k - 1) = Len(x)
    BY DEF Available, x
  <2> DEFINE e == Len(y)
             f == Available(a, k)
             g == Available(a, k - 1)
  <2>8. f = g + e /\ g \in Nat /\ e \in 0..1
    BY <2>5, <2>6, <2>7
  <2> HIDE DEF e, f, g
  <2>9. f \in Nat /\ g \in Nat /\ g <= f /\ f <= g + 1
    BY <2>8
  <2> QED
    BY <2>9 DEF f, g
<1> DEFINE T == {k \in Nat : k \in 0..L => Available(a, k) \in 0..k}
<1>3. 0 \in T
  BY <1>1
<1>4. ASSUME NEW k \in Nat, k \in T
      PROVE  k + 1 \in T
  <2> SUFFICES ASSUME k + 1 \in 0..L PROVE Available(a, k + 1) \in 0..(k + 1)
    OBVIOUS
  <2>1. k + 1 \in 1..L /\ k \in 0..L /\ (k + 1) - 1 = k
    BY <1>0
  <2>2. Available(a, k) \in 0..k
    BY <1>4, <2>1
  <2>3. Available(a, k + 1) \in Nat /\ Available(a, k + 1) <= Available(a, k) + 1
    <3>1. Available(a, k + 1) \in Nat
          /\ Available(a, k + 1) <= Available(a, (k + 1) - 1) + 1
      BY <1>2, <2>1
    <3> QED
      BY <2>1, <3>1
  <2> QED
    BY <2>2, <2>3
<1>5. \A k \in 0..L : Available(a, k) \in 0..k
  <2>1. \A k \in Nat : k \in T
    <3> HIDE DEF T
    <3> QED
      BY <1>3, <1>4, SetInduction
  <2> QED
    BY <2>1
<1>6. ASSUME NEW k \in 0..L, NEW l \in 0..L, k <= l
      PROVE  Available(a, k) <= Available(a, l)
  <2> DEFINE U == {j \in Nat : k + j \in 0..L => Available(a, k) <= Available(a, k + j)}
  <2>1. 0 \in U
    <3>1. k + 0 = k /\ Available(a, k) \in 0..k
      BY <1>5
    <3> QED
      BY <3>1
  <2>2. ASSUME NEW j \in Nat, j \in U
        PROVE  j + 1 \in U
    <3> SUFFICES ASSUME k + (j + 1) \in 0..L
                 PROVE  Available(a, k) <= Available(a, k + (j + 1))
      OBVIOUS
    <3>1. k + (j + 1) \in 1..L /\ k + j \in 0..L /\ (k + (j + 1)) - 1 = k + j
      BY <1>0
    <3>2. Available(a, k) <= Available(a, k + j)
      BY <2>2, <3>1
    <3>3. Available(a, k + j) <= Available(a, k + (j + 1))
      <4>1. Available(a, (k + (j + 1)) - 1) <= Available(a, k + (j + 1))
        BY <1>2, <3>1
      <4> QED
        BY <3>1, <4>1
    <3>4. Available(a, k) \in Int /\ Available(a, k + j) \in Int
          /\ Available(a, k + (j + 1)) \in Int
      <4>1. k + (j + 1) \in 0..L
        OBVIOUS
      <4> QED
        BY <1>5, <3>1, <4>1
    <3> QED
      BY <3>2, <3>3, <3>4
  <2>3. \A j \in Nat : j \in U
    <3> HIDE DEF U
    <3> QED
      BY <2>1, <2>2, SetInduction
  <2>4. l - k \in Nat /\ k + (l - k) = l
    BY <1>0, <1>6
  <2> QED
    BY <2>3, <2>4
<1>7. ASSUME NEW k \in 0..L
      PROVE  /\ DataOf(a) = DataOf(SubSeq(a, 1, k)) \o DataOf(SubSeq(a, k + 1, L))
             /\ DataOf(SubSeq(a, 1, k)) = SubSeq(DataOf(a), 1, Available(a, k))
  <2> DEFINE b == SubSeq(a, 1, k)
             c == SubSeq(a, k + 1, L)
  <2>1. b \in Seq(Units) /\ c \in Seq(Units) /\ a = b \o c
    BY SplitAt
  <2>2. DataOf(a) = DataOf(b) \o DataOf(c)
    <3>1. DataOf(b \o c) = DataOf(b) \o DataOf(c)
      <4> HIDE DEF b, c
      <4> QED
        BY <2>1, DataOfParts
    <3> QED
      BY <2>1, <3>1
  <2>3. DataOf(b) \in Seq(Nat) /\ DataOf(c) \in Seq(Nat)
    BY <2>1, DataOfParts
  <2>4. SubSeq(DataOf(b) \o DataOf(c), 1, Len(DataOf(b))) = DataOf(b)
    BY <2>3, ConcatParts
  <2> QED
    BY <2>2, <2>4 DEF Available
<1> QED
  BY <1>1, <1>5, <1>6, <1>7

\* What the loop of read_connection returns: how many units it has taken from
\* the socket and how much plaintext it has handed out, never more than there
\* is in them.  If it ends without a disconnect it has handed out all of it.
LEMMA ReadLoopFacts ==
  ASSUME NEW i, sock[i].rx \in Seq(Units)
  PROVE  LET rx == sock[i].rx
             r == ReadLoop(i)
         IN /\ r.units \in 0..Len(rx)
            /\ r.bytes \in 0..Available(rx, r.units)
            /\ r.disconnect \in BOOLEAN
            /\ ~r.disconnect => r.bytes = Available(rx, r.units)
<1> DEFINE rx == sock[i].rx
           L == Len(rx)
           D == (0..L) \X (0..L)
           q(p) == Tcp!Least(p + ReadSize, L)
           n(p, d) == Tcp!Least(MaxRead, Len(DataOf(SubSeq(rx, 1, q(p)))) - d)
           stop(p) == \/ p = L /\ Tcp!ReadEnds(i)
                      \/ \E k \in 1..Len(SubSeq(rx, p + 1, q(p))) :
                           SubSeq(rx, p + 1, q(p))[k].kind = "bad"
           turn(g, at) ==
             IF stop(at[1]) THEN [units |-> at[1], bytes |-> at[2], disconnect |-> TRUE]
             ELSE IF n(at[1], at[2]) <= 0
                  THEN [units |-> q(at[1]), bytes |-> at[2], disconnect |-> FALSE]
                  ELSE g[<<q(at[1]), at[2] + n(at[1], at[2])>>]
           F(g) == [at \in D |-> turn(g, at)]
           h == CHOOSE g : g = F(g)
<1>1. ReadLoop(i) = h[<<0, 0>>]
  BY DEF ReadLoop
<1>2. L \in Nat
  BY LenProperties
<1>3. \A p \in 0..L : q(p) \in p..L
  BY <1>2, TlsLimitAssumption DEF Tcp!Least
<1>4. /\ \A k \in 0..L : Available(rx, k) \in 0..k
      /\ \A k, l \in 0..L : k <= l => Available(rx, k) <= Available(rx, l)
  BY DataCount
<1>5. \A p \in 0..L, d \in 0..L :
        /\ n(p, d) <= Available(rx, q(p)) - d /\ n(p, d) \in Int
        /\ n(p, d) <= 0 => Available(rx, q(p)) <= d
  <2> SUFFICES ASSUME NEW p \in 0..L, NEW d \in 0..L
               PROVE  /\ n(p, d) <= Available(rx, q(p)) - d /\ n(p, d) \in Int
                      /\ n(p, d) <= 0 => Available(rx, q(p)) <= d
    OBVIOUS
  <2>1. q(p) \in 0..L
    BY <1>2, <1>3
  <2>2. Available(rx, q(p)) \in Nat
    BY <1>4, <2>1
  <2>3. n(p, d) = Tcp!Least(MaxRead, Available(rx, q(p)) - d)
    BY DEF Available
  <2> HIDE DEF n, q
  <2> QED
    BY <1>2, <2>2, <2>3, TlsLimitAssumption DEF Tcp!Least
<1>6. \A p \in 0..L, d \in 0..L :
        ~(n(p, d) <= 0) => d + n(p, d) \in 0..L /\ d + n(p, d) > d
                           /\ d + n(p, d) <= Available(rx, q(p)) /\ q(p) \in 0..L
  <2> SUFFICES ASSUME NEW p \in 0..L, NEW d \in 0..L, ~(n(p, d) <= 0)
               PROVE  /\ d + n(p, d) \in 0..L /\ d + n(p, d) > d
                      /\ d + n(p, d) <= Available(rx, q(p)) /\ q(p) \in 0..L
    OBVIOUS
  <2>1. q(p) \in 0..L
    BY <1>2, <1>3
  <2>2. Available(rx, q(p)) \in 0..L
    BY <1>2, <1>4, <2>1
  <2>3. n(p, d) <= Available(rx, q(p)) - d /\ n(p, d) \in Int
    BY <1>5
  <2> HIDE DEF n, q
  <2> QED
    BY <1>2, <2>1, <2>2, <2>3, SMTT(60)
<1>7. \A at \in D : at[1] \in 0..L /\ at[2] \in 0..L /\ at = <<at[1], at[2]>>
  OBVIOUS
<1> HIDE DEF n, q, stop
<1> DEFINE next(at) == <<q(at[1]), at[2] + n(at[1], at[2])>>
           goes(at) == ~stop(at[1]) /\ ~(n(at[1], at[2]) <= 0)
<1>8. ASSUME NEW at \in D, goes(at)
      PROVE  /\ next(at) \in D
             /\ L - next(at)[2] < L - at[2] /\ next(at)[2] <= Available(rx, next(at)[1])
  <2>1. /\ at[2] + n(at[1], at[2]) \in 0..L
        /\ at[2] + n(at[1], at[2]) > at[2] /\ q(at[1]) \in 0..L
        /\ at[2] + n(at[1], at[2]) <= Available(rx, q(at[1]))
    BY <1>6, <1>7, <1>8
  <2>2. next(at)[1] = q(at[1]) /\ next(at)[2] = at[2] + n(at[1], at[2])
    OBVIOUS
  <2>3. at[2] \in 0..L
    BY <1>7
  <2>4. L - (at[2] + n(at[1], at[2])) < L - at[2]
    BY <1>2, <2>1, <2>3
  <2> QED
    BY <2>1, <2>2, <2>4
<1>9. \A g, at : turn(g, at) =
        IF goes(at) THEN g[next(at)]
        ELSE IF stop(at[1]) THEN [units |-> at[1], bytes |-> at[2], disconnect |-> TRUE]
        ELSE [units |-> q(at[1]), bytes |-> at[2], disconnect |-> FALSE]
  OBVIOUS
<1>a. ASSUME NEW at \in D, ~goes(at), at[2] <= Available(rx, at[1])
      PROVE  \A g : LET r == turn(g, at) IN
               /\ r.units \in 0..L /\ r.bytes \in 0..Available(rx, r.units)
               /\ r.disconnect \in BOOLEAN
               /\ ~r.disconnect => r.bytes = Available(rx, r.units)
  <2> SUFFICES ASSUME NEW g, NEW r, r = turn(g, at)
               PROVE  /\ r.units \in 0..L /\ r.bytes \in 0..Available(rx, r.units)
                      /\ r.disconnect \in BOOLEAN
                      /\ ~r.disconnect => r.bytes = Available(rx, r.units)
    OBVIOUS
  <2>1. at[1] \in 0..L /\ at[2] \in 0..L /\ q(at[1]) \in 0..L /\ at[1] <= q(at[1])
    BY <1>2, <1>3, <1>7
  <2>2. /\ Available(rx, at[1]) \in Nat /\ Available(rx, q(at[1])) \in Nat
        /\ Available(rx, at[1]) <= Available(rx, q(at[1]))
    BY <1>4, <2>1
  <2>3. CASE stop(at[1])
    <3>1. r = [units |-> at[1], bytes |-> at[2], disconnect |-> TRUE]
      BY <2>3
    <3>2. r.units = at[1] /\ r.bytes = at[2] /\ r.disconnect = TRUE
      BY <3>1
    <3>3. at[2] \in 0..Available(rx, at[1])
      BY <1>a, <2>1, <2>2
    <3> HIDE DEF turn
    <3> QED
      BY <2>1, <3>2, <3>3
  <2>4. CASE ~stop(at[1])
    <3>1. n(at[1], at[2]) <= 0
      BY <1>a, <2>4
    <3>2. r = [units |-> q(at[1]), bytes |-> at[2], disconnect |-> FALSE]
      BY <2>4, <3>1
    <3>3. r.units = q(at[1]) /\ r.bytes = at[2] /\ r.disconnect = FALSE
      BY <3>2
    <3>4. Available(rx, q(at[1])) <= at[2]
      BY <1>5, <2>1, <3>1
    <3>5. at[2] = Available(rx, q(at[1]))
      BY <1>a, <2>1, <2>2, <3>4
    <3>6. at[2] \in 0..Available(rx, q(at[1]))
      BY <2>2, <3>5
    <3> HIDE DEF turn
    <3> QED
      BY <2>1, <3>3, <3>5, <3>6
  <2> QED
    BY <2>3, <2>4
<1> HIDE DEF turn, goes, next
<1>b. h = F(h)
  <2> DEFINE T == {m \in Nat : \E g : \A at \in D : L - at[2] < m => g[at] = turn(g, at)}
  <2>1. 0 \in T
    <3>1. \A at \in D : ~(L - at[2] < 0)
      BY <1>2, <1>7
    <3> QED
      BY <3>1
  <2>2. ASSUME NEW m \in Nat, m \in T
        PROVE  m + 1 \in T
    <3>1. PICK g : \A at \in D : L - at[2] < m => g[at] = turn(g, at)
      BY <2>2
    <3> DEFINE g2 == [at \in D |-> turn(g, at)]
    <3>2. \A at \in D : g2[at] = turn(g, at)
      OBVIOUS
    <3> HIDE DEF g2
    <3>3. ASSUME NEW at \in D, L - at[2] < m + 1
          PROVE  g2[at] = turn(g2, at)
      <4>1. CASE goes(at)
        <5>1. next(at) \in D /\ L - next(at)[2] < L - at[2]
          BY <1>8, <4>1
        <5>2. L - next(at)[2] < m
          <6>1. at[2] \in 0..L /\ next(at)[2] \in 0..L
            BY <1>7, <5>1
          <6> QED
            BY <1>2, <3>3, <5>1, <6>1, SMTT(60)
        <5>3. g[next(at)] = turn(g, next(at))
          BY <3>1, <5>1, <5>2
        <5>4. g2[next(at)] = g[next(at)]
          BY <3>2, <5>1, <5>3
        <5> QED
          BY <1>9, <3>2, <4>1, <5>4
      <4>2. CASE ~goes(at)
        BY <1>9, <3>2, <4>2
      <4> QED
        BY <4>1, <4>2
    <3> QED
      BY <3>3
  <2>3. L + 1 \in T
    <3>1. \A m \in Nat : m \in T
      <4> HIDE DEF T
      <4> QED
        BY <2>1, <2>2, SetInduction
    <3> QED
      <4> HIDE DEF T
      <4> QED
        BY <1>2, <3>1
  <2>4. PICK g : \A at \in D : g[at] = turn(g, at)
    <3>1. PICK g : \A at \in D : L - at[2] < L + 1 => g[at] = turn(g, at)
      BY <2>3
    <3>2. \A at \in D : L - at[2] < L + 1
      BY <1>2, <1>7, SMTT(60)
    <3> QED
      BY <3>1, <3>2
  <2> DEFINE w == [at \in D |-> g[at]]
  <2>5. w = F(w)
    <3>1. \A at \in D : w[at] = g[at]
      OBVIOUS
    <3> HIDE DEF w
    <3>2. ASSUME NEW at \in D
          PROVE  turn(w, at) = g[at]
      <4>1. CASE goes(at)
        <5>1. next(at) \in D
          BY <1>8, <4>1
        <5>2. w[next(at)] = g[next(at)]
          BY <3>1, <5>1
        <5> QED
          BY <1>9, <2>4, <4>1, <5>2
      <4>2. CASE ~goes(at)
        BY <1>9, <2>4, <4>2
      <4> QED
        BY <4>1, <4>2
    <3> QED
      BY <3>2 DEF w
  <2> HIDE DEF w
  <2> QED
    BY <2>5
<1> HIDE DEF h
<1>c. \A at \in D : h[at] = turn(h, at)
  BY <1>b
<1> DEFINE good(r) == /\ r.units \in 0..L /\ r.bytes \in 0..Available(rx, r.units)
                      /\ r.disconnect \in BOOLEAN
                      /\ ~r.disconnect => r.bytes = Available(rx, r.units)
           T == {m \in Nat : \A at \in D :
                   L - at[2] < m /\ at[2] <= Available(rx, at[1]) => good(h[at])}
<1>d. 0 \in T
  <2>1. \A at \in D : ~(L - at[2] < 0)
    BY <1>2, <1>7
  <2> QED
    BY <2>1
<1>e. ASSUME NEW m \in Nat, m \in T
      PROVE  m + 1 \in T
  <2> SUFFICES ASSUME NEW at \in D, L - at[2] < m + 1, at[2] <= Available(rx, at[1])
               PROVE  good(h[at])
    OBVIOUS
  <2>1. CASE goes(at)
    <3>1. /\ next(at) \in D /\ L - next(at)[2] < L - at[2]
          /\ next(at)[2] <= Available(rx, next(at)[1])
      BY <1>8, <2>1
    <3>2. L - next(at)[2] < m
      <4>1. at[2] \in 0..L /\ next(at)[2] \in 0..L
        BY <1>7, <3>1
      <4> QED
        BY <1>2, <3>1, <4>1, SMTT(60)
    <3>3. good(h[next(at)])
      <4> HIDE DEF good
      <4> QED
        BY <1>e, <3>1, <3>2
    <3>4. h[at] = h[next(at)]
      BY <1>9, <1>c, <2>1
    <3> HIDE DEF good
    <3> QED
      BY <3>3, <3>4
  <2>2. CASE ~goes(at)
    BY <1>a, <1>c, <2>2
  <2> QED
    BY <2>1, <2>2
<1>f. L + 1 \in T
  <2>1. \A m \in Nat : m \in T
    <3> HIDE DEF T
    <3> QED
      BY <1>d, <1>e, SetInduction
  <2> HIDE DEF T
  <2> QED
    BY <1>2, <2>1
<1>g. good(h[<<0, 0>>])
  <2> DEFINE o == <<0, 0>>
  <2>1. o \in D /\ o[1] = 0 /\ o[2] = 0
    BY <1>2
  <2>2. 0 \in 0..L /\ Available(rx, 0) \in 0..0 /\ L - 0 < L + 1
    BY <1>2, <1>4
  <2> HIDE DEF o, good
  <2>3. good(h[o])
    BY <1>f, <2>1, <2>2
  <2> QED
    BY <2>3 DEF o
<1> QED
  BY <1>1, <1>g

-----------------------------------------------------------------------------
(* One connection.                                                         *)

ConnectionRecords ==
  [connected : Statuses, interest : SUBSET Tcp!RW, send_buf : Seq(Nat)]
SocketRecords ==
  [phase : {"syn", "est", "err"}, rx : Seq(Units), room : Nat,
   rdshut : BOOLEAN, wrshut : BOOLEAN, interest : SUBSET Tcp!RW]
Sessions ==
  [role : {"client", "server"}, flights : 0..3, out : Seq(Units), far : 0..4]

\* The handshake, flight by flight: the flights the session has sent or
\* received, those it still has to write, how far the peer has come, and the
\* flights on their way from it.
Stage(role, flights, out, far, rx) ==
  \/ /\ role = "client"
     /\ \/ flights = 1 /\ out = <<1>> /\ far = 0 /\ rx = <<>>
        \/ flights = 1 /\ out = <<>> /\ far = 1 /\ rx = <<>>
        \/ flights = 1 /\ out = <<>> /\ far = 2 /\ rx = <<2>>
        \/ flights = 3 /\ out = <<3>> /\ far = 2 /\ rx = <<>>
        \/ flights = 3 /\ out = <<>> /\ far \in {3, 4} /\ rx = <<>>
  \/ /\ role = "server"
     /\ \/ flights = 0 /\ out = <<>> /\ far = 0 /\ rx = <<>>
        \/ flights = 0 /\ out = <<>> /\ far = 1 /\ rx = <<1>>
        \/ flights = 2 /\ out = <<2>> /\ far = 1 /\ rx = <<>>
        \/ flights = 2 /\ out = <<>> /\ far = 2 /\ rx = <<>>
        \/ flights = 2 /\ out = <<>> /\ far = 3 /\ rx = <<3>>
        \/ flights = 3 /\ out = <<>> /\ far = 3 /\ rx = <<>>

\* The types of a connection, its socket k, its session s, the bytes w written
\* to the socket and t queued.
Typed(c, k, s, w, t) ==
  /\ c \in ConnectionRecords /\ k \in SocketRecords /\ s \in Sessions
  /\ w \in Seq(Nat) /\ t \in Seq(Nat)

Handshaken(k, s) ==
  Stage(s.role, s.flights, Flights(s.out), s.far, Flights(k.rx))

\* No plaintext comes before the end of the handshake: before the peer is
\* through, none is on its way, and then it follows the last flight.
Ordered(k, s) ==
  is_handshaking(s) =>
    /\ s.far < 3 => DataOf(k.rx) = <<>>
    /\ \A n \in 0..Len(k.rx) : Flights(SubSeq(k.rx, 1, n)) = <<>>
                                 => DataOf(SubSeq(k.rx, 1, n)) = <<>>

\* InterestRegistered; new: write_connection has just found the TCP connection
\* up and has not registered READABLE yet.
Registered(c, k, s, new) ==
  /\ c.interest = k.interest
  /\ wants_write(s) => "W" \in c.interest
  /\ c.connected = "TlsConnected" /\ c.send_buf # <<>> => "W" \in c.interest
  /\ "R" \in c.interest <=> c.connected # "NotConnected" /\ ~new

\* StatusFollowsSession, NoDataInHandshake and OutgoingIntact
InStep(c, s) == c.connected = "TlsConnected" <=> ~is_handshaking(s)
Silent(c, s, w) ==
  c.connected # "TlsConnected" => w = <<>> /\ DataOf(s.out) = <<>>
Intact(c, s, w, t) == t = w \o DataOf(s.out) \o c.send_buf

ConnectionInv(c, k, s, w, t, new) ==
  /\ Typed(c, k, s, w, t) /\ Handshaken(k, s) /\ Ordered(k, s)
  /\ Registered(c, k, s, new)
  /\ InStep(c, s) /\ Silent(c, s, w) /\ Intact(c, s, w, t)

\* A new socket.
Fresh(phase, interest) ==
  [phase |-> phase, rx |-> <<>>, room |-> MaxRoom,
   rdshut |-> FALSE, wrshut |-> FALSE, interest |-> interest]

\* A new socket has the type of sockets and nothing to read.
LEMMA FreshTyped ==
  ASSUME NEW phase \in {"syn", "est", "err"}, NEW int \in SUBSET Tcp!RW
  PROVE  Fresh(phase, int) \in SocketRecords /\ Fresh(phase, int).rx = <<>>
         /\ Fresh(phase, int).interest = int
<1>1. MaxRoom \in Nat /\ <<>> \in Seq(Units)
  BY TlsLimitAssumption, EmptySeq
<1> QED
  BY <1>1 DEF Fresh, SocketRecords

\* The kind and the number a unit is made of.
LEMMA SingleUnit ==
  /\ \A n \in Nat : Unit("hs", n) \in Units /\ Unit("hs", n).kind = "hs" /\ Unit("hs", n).n = n
  /\ \A n \in Nat : Unit("data", n) \in Units /\ Unit("data", n).kind = "data" /\ Unit("data", n).n = n
  /\ \A n \in Nat : Unit("empty", n) \in Units /\ Unit("empty", n).kind = "empty" /\ Unit("empty", n).n = n
  /\ \A n \in Nat : Unit("bad", n) \in Units /\ Unit("bad", n).kind = "bad" /\ Unit("bad", n).n = n
  BY DEF Unit, Units

\* The flight and the plaintext of a sequence of one unit.
LEMMA OneUnit ==
  ASSUME NEW n \in Nat
  PROVE  /\ <<Unit("hs", n)>> \in Seq(Units) /\ Flights(<<Unit("hs", n)>>) = <<n>>
         /\ DataOf(<<Unit("hs", n)>>) = <<>>
         /\ \A kind \in {"empty", "bad"} :
              /\ <<Unit(kind, n)>> \in Seq(Units) /\ Flights(<<Unit(kind, n)>>) = <<>>
              /\ DataOf(<<Unit(kind, n)>>) = <<>>
         /\ <<Unit("data", n)>> \in Seq(Units) /\ Flights(<<Unit("data", n)>>) = <<>>
         /\ DataOf(<<Unit("data", n)>>) = <<n>>
<1>1. \A u \in Units : <<u>> \in Seq(Units)
  OBVIOUS
<1>2. \A u \in Units : u.kind # "data" => DataOf(<<u>>) = <<>>
  BY DataOfParts
<1>3. \A u \in Units : u.kind # "hs" => Flights(<<u>>) = <<>>
  BY FlightsParts
<1>4. \A u \in Units : u.kind = "data" => DataOf(<<u>>) = <<u.n>>
  BY DataOfParts
<1>5. \A u \in Units : u.kind = "hs" => Flights(<<u>>) = <<u.n>>
  BY FlightsParts
<1>6. /\ <<Unit("hs", n)>> \in Seq(Units) /\ Flights(<<Unit("hs", n)>>) = <<n>>
      /\ DataOf(<<Unit("hs", n)>>) = <<>>
  <2> DEFINE u == Unit("hs", n)
  <2>1. u \in Units /\ u.kind = "hs" /\ u.n = n
    BY SingleUnit
  <2> HIDE DEF u
  <2>2. <<u>> \in Seq(Units)
    BY <2>1, <1>1
  <2>3. Flights(<<u>>) = <<n>>
    BY <2>1, <1>5
  <2>4. DataOf(<<u>>) = <<>>
    BY <2>1, <1>2
  <2> QED
    BY <2>2, <2>3, <2>4 DEF u
<1>7. ASSUME NEW kind \in {"empty", "bad"}
      PROVE  /\ <<Unit(kind, n)>> \in Seq(Units) /\ Flights(<<Unit(kind, n)>>) = <<>>
             /\ DataOf(<<Unit(kind, n)>>) = <<>>
  <2> DEFINE u == Unit(kind, n)
  <2>1. u \in Units /\ u.kind # "hs" /\ u.kind # "data"
    BY SingleUnit
  <2> HIDE DEF u
  <2>2. <<u>> \in Seq(Units)
    BY <2>1, <1>1
  <2>3. Flights(<<u>>) = <<>>
    BY <2>1, <1>3
  <2>4. DataOf(<<u>>) = <<>>
    BY <2>1, <1>2
  <2> QED
    BY <2>2, <2>3, <2>4 DEF u
<1>8. /\ <<Unit("data", n)>> \in Seq(Units) /\ Flights(<<Unit("data", n)>>) = <<>>
      /\ DataOf(<<Unit("data", n)>>) = <<n>>
  <2> DEFINE u == Unit("data", n)
  <2>1. u \in Units /\ u.kind = "data" /\ u.n = n
    BY SingleUnit
  <2> HIDE DEF u
  <2>2. <<u>> \in Seq(Units)
    BY <2>1, <1>1
  <2>3. Flights(<<u>>) = <<>>
    BY <2>1, <1>3
  <2>4. DataOf(<<u>>) = <<n>>
    BY <2>1, <1>4
  <2> QED
    BY <2>2, <2>3, <2>4 DEF u
<1> QED
  BY <1>6, <1>7, <1>8

\* Nothing is put together from nothing only.
LEMMA EmptyParts ==
  ASSUME NEW S, NEW x \in Seq(S), NEW y \in Seq(S), x \o y = <<>>
  PROVE  x = <<>> /\ y = <<>>
<1>1. Len(x) \in Nat /\ Len(y) \in Nat /\ Len(x) + Len(y) = 0
  BY ConcatProperties, LenProperties, EmptySeq
<1> QED
  BY <1>1, EmptySeq

\* The beginning of two sequences in a row.
Begins(a, b) ==
  /\ \A n \in 0..Len(a) : SubSeq(a \o b, 1, n) = SubSeq(a, 1, n)
  /\ \A n \in 0..Len(b) : SubSeq(a \o b, 1, Len(a) + n) = a \o SubSeq(b, 1, n)

\* The beginnings of two sequences in a row are those of the first, and then
\* the first followed by those of the second.
LEMMA SubSeqOfConcat ==
  ASSUME NEW S, NEW a \in Seq(S), NEW b \in Seq(S)
  PROVE  Begins(a, b)
<1>1. /\ Len(a) \in Nat /\ Len(b) \in Nat /\ a \o b \in Seq(S)
      /\ Len(a \o b) = Len(a) + Len(b)
      /\ \A k \in 1..Len(a) : (a \o b)[k] = a[k]
      /\ \A k \in 1..Len(b) : (a \o b)[Len(a) + k] = b[k]
  BY ConcatParts, LenProperties
<1> DEFINE c == a \o b
<1> HIDE DEF c
<1>2. ASSUME NEW n \in 0..Len(a)
      PROVE  SubSeq(c, 1, n) = SubSeq(a, 1, n)
  <2> DEFINE x == SubSeq(c, 1, n)
             y == SubSeq(a, 1, n)
  <2>1. c \in Seq(S) /\ n \in 0..Len(c)
    BY <1>1 DEF c
  <2>2. x \in Seq(S) /\ Len(x) = n /\ \A k \in 1..n : x[k] = c[k]
    BY <2>1, SplitAt
  <2>3. y \in Seq(S) /\ Len(y) = n /\ \A k \in 1..n : y[k] = a[k]
    BY SplitAt
  <2> HIDE DEF x, y
  <2>4. \A k \in 1..n : x[k] = y[k]
    BY <1>1, <2>2, <2>3 DEF c
  <2>5. x = y
    BY <2>2, <2>3, <2>4, SeqEqual
  <2> QED
    BY <2>5 DEF x, y
<1>3. ASSUME NEW n \in 0..Len(b)
      PROVE  SubSeq(c, 1, Len(a) + n) = a \o SubSeq(b, 1, n)
  <2> DEFINE x == SubSeq(c, 1, Len(a) + n)
             z == SubSeq(b, 1, n)
             y == a \o z
  <2>1. c \in Seq(S) /\ Len(a) + n \in 0..Len(c)
    BY <1>1 DEF c
  <2>2. x \in Seq(S) /\ Len(x) = Len(a) + n /\ \A k \in 1..(Len(a) + n) : x[k] = c[k]
    BY <2>1, SplitAt
  <2>3. z \in Seq(S) /\ Len(z) = n /\ \A k \in 1..n : z[k] = b[k]
    BY SplitAt
  <2> HIDE DEF x, z
  <2>4. /\ y \in Seq(S) /\ Len(y) = Len(a) + n
        /\ \A k \in 1..Len(a) : y[k] = a[k]
        /\ \A k \in 1..n : y[Len(a) + k] = z[k]
    <3>0. z \in Seq(S)
      BY <2>3
    <3> HIDE DEF y
    <3>1. a \o z \in Seq(S) /\ Len(a \o z) = Len(a) + Len(z)
      BY <3>0, ConcatProperties
    <3>2. \A k \in 1..(Len(a) + Len(z)) :
            (a \o z)[k] = IF k <= Len(a) THEN a[k] ELSE z[k - Len(a)]
      BY <3>0, ConcatProperties
    <3>3. \A k \in 1..Len(a) : k \in 1..(Len(a) + n) /\ k <= Len(a)
      BY <1>1
    <3>4. \A k \in 1..n : Len(a) + k \in 1..(Len(a) + n) /\ ~(Len(a) + k <= Len(a))
                          /\ (Len(a) + k) - Len(a) = k
      BY <1>1
    <3> QED
      BY <3>1, <3>2, <3>3, <3>4, <2>3 DEF y
  <2> HIDE DEF y
  <2>5. ASSUME NEW k \in 1..(Len(a) + n)
        PROVE  x[k] = y[k]
    <3>1. CASE k \in 1..Len(a)
      BY <3>1, <1>1, <2>2, <2>4 DEF c
    <3>2. CASE k \notin 1..Len(a)
      <4>1. k - Len(a) \in 1..n /\ k - Len(a) \in 1..Len(b) /\ k = Len(a) + (k - Len(a))
        BY <3>2, <1>1
      <4> DEFINE j == k - Len(a)
      <4>2. j \in 1..n /\ j \in 1..Len(b) /\ k = Len(a) + j
        BY <4>1
      <4> HIDE DEF j
      <4>3. y[k] = b[j] /\ c[k] = b[j]
        BY <4>2, <1>1, <2>3, <2>4 DEF c
      <4> QED
        BY <4>3, <2>2
    <3> QED
      BY <3>1, <3>2
  <2>6. x = y
    BY <2>2, <2>4, <2>5, SeqEqual
  <2> QED
    BY <2>6 DEF x, y, z
<1> QED
  BY <1>2, <1>3 DEF c, Begins

\* No plaintext is early where nothing is on its way.
LEMMA NothingThere ==
  ASSUME NEW k, NEW s, k.rx = <<>>
  PROVE  Ordered(k, s)
<1>1. \A n \in 0..Len(k.rx) : n = 0
  BY EmptySeq
<1>2. <<>> \in Seq(Units) /\ SubSeq(<<>>, 1, 0) = <<>> /\ DataOf(<<>>) = <<>>
  BY FirstOnes, EmptySeq, DataOfParts
<1> QED
  BY <1>1, <1>2 DEF Ordered

\* The connection that connect() makes is sound.
LEMMA NewClient ==
  ConnectionInv([connected |-> "NotConnected", interest |-> {"W"}, send_buf |-> <<>>],
                Fresh("syn", {"W"}), ClientSession, <<>>, <<>>, FALSE)
<1> DEFINE c == [connected |-> "NotConnected", interest |-> {"W"}, send_buf |-> <<>>]
           k == Fresh("syn", {"W"})
           s == ClientSession
           hello == <<Unit("hs", 1)>>
<1>1. k \in SocketRecords /\ k.rx = <<>> /\ k.interest = {"W"}
  BY FreshTyped DEF Tcp!RW
<1>2. hello \in Seq(Units) /\ Flights(hello) = <<1>> /\ DataOf(hello) = <<>>
  BY OneUnit
<1>3. s.role = "client" /\ s.flights = 1 /\ s.out = hello /\ s.far = 0
  BY DEF ClientSession
<1>4. s \in Sessions
  BY <1>2 DEF ClientSession, Sessions
<1>5. c.connected = "NotConnected" /\ c.interest = {"W"} /\ c.send_buf = <<>>
  OBVIOUS
<1>6. c \in ConnectionRecords /\ <<>> \in Seq(Nat)
  BY EmptySeq DEF ConnectionRecords, Statuses, Tcp!RW
<1>7. Flights(<<>>) = <<>> /\ <<>> \o <<>> \o <<>> = <<>>
  BY FlightsParts, EmptySeq, ConcatEmptySeq
<1> HIDE DEF c, k, s, hello
<1>8. Typed(c, k, s, <<>>, <<>>)
  BY <1>1, <1>4, <1>6 DEF Typed
<1>9. Handshaken(k, s)
  BY <1>1, <1>2, <1>3, <1>7 DEF Handshaken, Stage
<1>10. Registered(c, k, s, FALSE)
  BY <1>1, <1>5 DEF Registered
<1>11. InStep(c, s) /\ Silent(c, s, <<>>) /\ Intact(c, s, <<>>, <<>>)
  BY <1>2, <1>3, <1>5, <1>7 DEF InStep, Silent, Intact, is_handshaking
<1>12. Ordered(k, s)
  BY <1>1, NothingThere
<1> QED
  BY <1>8, <1>9, <1>10, <1>11, <1>12 DEF ConnectionInv, c, k, s

\* So is the one that register_connection makes of an accepted stream.
LEMMA NewServer ==
  ConnectionInv([connected |-> AcceptedStatus, interest |-> {"R"}, send_buf |-> <<>>],
                Fresh("est", {"R"}), ServerSession, <<>>, <<>>, FALSE)
<1> DEFINE c == [connected |-> AcceptedStatus, interest |-> {"R"}, send_buf |-> <<>>]
           k == Fresh("est", {"R"})
           s == ServerSession
<1>1. k \in SocketRecords /\ k.rx = <<>> /\ k.interest = {"R"}
  BY FreshTyped DEF Tcp!RW
<1>2. <<>> \in Seq(Units) /\ Flights(<<>>) = <<>> /\ DataOf(<<>>) = <<>>
  BY FlightsParts, DataOfParts, EmptySeq
<1>3. s.role = "server" /\ s.flights = 0 /\ s.out = <<>> /\ s.far = 0
  BY DEF ServerSession
<1>4. s \in Sessions
  BY <1>2 DEF ServerSession, Sessions
<1>5. c.connected = "TcpConnected" /\ c.interest = {"R"} /\ c.send_buf = <<>>
  BY DEF AcceptedStatus
<1>6. c \in ConnectionRecords /\ <<>> \in Seq(Nat)
  BY EmptySeq DEF ConnectionRecords, Statuses, Tcp!RW, AcceptedStatus
<1>7. <<>> \o <<>> \o <<>> = <<>>
  BY EmptySeq, ConcatEmptySeq
<1> HIDE DEF c, k, s
<1>8. Typed(c, k, s, <<>>, <<>>)
  BY <1>1, <1>4, <1>6 DEF Typed
<1>9. Handshaken(k, s)
  BY <1>1, <1>2, <1>3, <1>7 DEF Handshaken, Stage
<1>10. Registered(c, k, s, FALSE)
  BY <1>1, <1>3, <1>5 DEF Registered, wants_write
<1>11. InStep(c, s) /\ Silent(c, s, <<>>) /\ Intact(c, s, <<>>, <<>>)
  BY <1>2, <1>3, <1>5, <1>7 DEF InStep, Silent, Intact, is_handshaking
<1>12. Ordered(k, s)
  BY <1>1, NothingThere
<1> QED
  BY <1>8, <1>9, <1>10, <1>11, <1>12 DEF ConnectionInv, c, k, s

\* What else happens to the socket does not matter.
LEMMA OtherSocket ==
  ASSUME NEW c, NEW k, NEW s, NEW w, NEW t, NEW new \in BOOLEAN,
         ConnectionInv(c, k, s, w, t, new),
         NEW k2 \in SocketRecords, k2.rx = k.rx, k2.interest = k.interest
  PROVE  ConnectionInv(c, k2, s, w, t, new)
  BY DEF ConnectionInv, Typed, Handshaken, Ordered, Registered

\* queue_data
LEMMA Queued ==
  ASSUME NEW c, NEW k, NEW s, NEW w, NEW t,
         ConnectionInv(c, k, s, w, t, FALSE), NEW b \in Seq(Nat),
         NEW c2, c2 = [c EXCEPT !.send_buf = @ \o b, !.interest = @ \cup {"W"}],
         NEW k2, k2 = IF "W" \notin c.interest
                      THEN [k EXCEPT !.interest = @ \cup {"W"}] ELSE k
  PROVE  ConnectionInv(c2, k2, s, w, t \o b, FALSE)
<1>1. /\ c \in ConnectionRecords /\ k \in SocketRecords /\ s \in Sessions
      /\ w \in Seq(Nat) /\ t \in Seq(Nat) /\ c.interest = k.interest
      /\ DataOf(s.out) \in Seq(Nat) /\ c.send_buf \in Seq(Nat)
  <2>1. /\ c \in ConnectionRecords /\ k \in SocketRecords /\ s \in Sessions
        /\ w \in Seq(Nat) /\ t \in Seq(Nat) /\ c.interest = k.interest
    BY DEF ConnectionInv, Typed, Registered
  <2>2. s.out \in Seq(Units) /\ c.send_buf \in Seq(Nat)
    BY <2>1 DEF Sessions, ConnectionRecords
  <2> QED
    BY <2>1, <2>2, DataOfParts
<1>2. t \o b \in Seq(Nat) /\ c.send_buf \o b \in Seq(Nat)
  BY <1>1, ConcatProperties
<1>3. c2 \in ConnectionRecords
  BY <1>1, <1>2 DEF ConnectionRecords, Tcp!RW
<1>4. k2 \in SocketRecords /\ k2.rx = k.rx
  BY <1>1 DEF SocketRecords, Tcp!RW
<1>5. /\ c2.connected = c.connected /\ c2.send_buf = c.send_buf \o b
      /\ c2.interest = c.interest \cup {"W"} /\ k2.interest = c2.interest
  BY <1>1 DEF ConnectionRecords, SocketRecords
<1>6. Typed(c2, k2, s, w, t \o b)
  BY <1>1, <1>2, <1>3, <1>4 DEF Typed
<1>7. Handshaken(k2, s) /\ Ordered(k2, s)
  BY <1>4 DEF ConnectionInv, Handshaken, Ordered
<1>8. Registered(c2, k2, s, FALSE)
  BY <1>5 DEF ConnectionInv, Registered
<1>9. InStep(c2, s) /\ Silent(c2, s, w)
  BY <1>5 DEF ConnectionInv, InStep, Silent
<1>10. Intact(c2, s, w, t \o b)
  <2> DEFINE o == DataOf(s.out)
             d == c.send_buf
  <2>1. t = w \o o \o d /\ w \in Seq(Nat) /\ o \in Seq(Nat) /\ d \in Seq(Nat)
    BY <1>1 DEF ConnectionInv, Intact
  <2> HIDE DEF o, d
  <2>2. w \o o \in Seq(Nat)
    BY <2>1, ConcatProperties
  <2>3. (w \o o \o d) \o b = w \o o \o (d \o b)
    <3> DEFINE x == w \o o
    <3>1. x \in Seq(Nat)
      BY <2>2
    <3> HIDE DEF x
    <3>2. Joins(x, d, b)
      BY <3>1, <2>1, JoinsAlways
    <3> QED
      BY <3>2 DEF Joins, x
  <2>4. t \o b = w \o o \o (d \o b)
    BY <2>1, <2>3
  <2> QED
    BY <1>5, <2>4 DEF Intact, o, d
<1> QED
  BY <1>6, <1>7, <1>8, <1>9, <1>10 DEF ConnectionInv

\* take_error() has found the TCP connection up.
LEMMA FoundUp ==
  ASSUME NEW c, NEW k, NEW s, NEW w, NEW t, NEW new \in BOOLEAN,
         ConnectionInv(c, k, s, w, t, new), c.connected = "NotConnected",
         NEW c2, c2 = [c EXCEPT !.connected = "TcpConnected"]
  PROVE  ConnectionInv(c2, k, s, w, t, TRUE)
<1>1. c \in ConnectionRecords
  BY DEF ConnectionInv, Typed
<1>2. c2 \in ConnectionRecords /\ c2.connected = "TcpConnected"
      /\ c2.interest = c.interest /\ c2.send_buf = c.send_buf
  BY <1>1 DEF ConnectionRecords, Statuses
<1> QED
  BY <1>2 DEF ConnectionInv, Typed, Registered, InStep, Silent, Intact

\* Units from the peer.
MayArrive(k, s, units, far) ==
  /\ units \in Seq(Units) /\ far \in 0..4 /\ s.far <= far
  /\ Stage(s.role, s.flights, Flights(s.out), far, Flights(k.rx) \o Flights(units))
  /\ is_handshaking(s) => DataOf(units) = <<>> \/ (far = 3 /\ Flights(k.rx) # <<>>)

\* The socket and the session when they have arrived.
Fed(k, units) == [k EXCEPT !.rx = @ \o units]
Ahead(s, far) == [s EXCEPT !.far = far]

\* What the peer sends in turn keeps a connection sound.
LEMMA Arrived ==
  ASSUME NEW c, NEW k, NEW s, NEW w, NEW t, NEW new \in BOOLEAN,
         ConnectionInv(c, k, s, w, t, new),
         NEW units, NEW far, MayArrive(k, s, units, far)
  PROVE  ConnectionInv(c, Fed(k, units), Ahead(s, far), w, t, new)
<1> DEFINE k2 == Fed(k, units)
           s2 == Ahead(s, far)
<1>0. /\ units \in Seq(Units) /\ far \in 0..4 /\ s.far <= far
      /\ Stage(s.role, s.flights, Flights(s.out), far, Flights(k.rx) \o Flights(units))
      /\ is_handshaking(s) => DataOf(units) = <<>> \/ (far = 3 /\ Flights(k.rx) # <<>>)
  BY DEF MayArrive
<1> USE <1>0
<1>1. c \in ConnectionRecords /\ k \in SocketRecords /\ s \in Sessions
  BY DEF ConnectionInv, Typed
<1>2. k.rx \in Seq(Units) /\ s.out \in Seq(Units)
  BY <1>1 DEF SocketRecords, Sessions
<1>3. /\ k.rx \o units \in Seq(Units)
      /\ Flights(k.rx \o units) = Flights(k.rx) \o Flights(units)
      /\ DataOf(k.rx \o units) = DataOf(k.rx) \o DataOf(units)
  BY <1>2, FlightsParts, DataOfParts, ConcatProperties
<1>4. k2 \in SocketRecords /\ k2.rx = k.rx \o units /\ k2.interest = k.interest
  BY <1>1, <1>3 DEF SocketRecords, Fed
<1>5. s2 \in Sessions /\ s2.role = s.role /\ s2.flights = s.flights /\ s2.out = s.out
      /\ s2.far = far
  BY <1>1 DEF Sessions, Ahead
<1> HIDE DEF k2, s2
<1>6. Handshaken(k2, s2)
  BY <1>3, <1>4, <1>5 DEF Handshaken
<1>7. Ordered(k2, s2)
  <2> DEFINE a == k.rx
             b == k.rx \o units
  <2>0. is_handshaking(s2) <=> is_handshaking(s)
    BY <1>5 DEF is_handshaking
  <2> SUFFICES ASSUME is_handshaking(s)
               PROVE  /\ far < 3 => DataOf(b) = <<>>
                      /\ \A n \in 0..Len(b) : Flights(SubSeq(b, 1, n)) = <<>>
                                                => DataOf(SubSeq(b, 1, n)) = <<>>
    BY <1>4, <1>5, <2>0 DEF Ordered
  <2>1. /\ s.far < 3 => DataOf(a) = <<>>
        /\ \A n \in 0..Len(a) : Flights(SubSeq(a, 1, n)) = <<>>
                                  => DataOf(SubSeq(a, 1, n)) = <<>>
    BY DEF ConnectionInv, Ordered
  <2>2. s.far \in 0..4 /\ a \in Seq(Units) /\ b \in Seq(Units) /\ b = a \o units
        /\ Len(b) = Len(a) + Len(units) /\ Len(a) \in Nat /\ Len(units) \in Nat
    BY <1>1, <1>2, <1>3, ConcatProperties, LenProperties DEF Sessions
  <2>3. /\ Flights(b) = Flights(a) \o Flights(units)
        /\ DataOf(b) = DataOf(a) \o DataOf(units)
    BY <1>3
  <2> HIDE DEF a, b
  <2>4. far < 3 => DataOf(b) = <<>>
    <3>1. far < 3 => DataOf(a) = <<>> /\ DataOf(units) = <<>>
      BY <2>1, <2>2
    <3>2. <<>> \o <<>> = <<>>
      BY ConcatEmptySeq, EmptySeq
    <3> QED
      BY <3>1, <3>2, <2>3
  <2>5. ASSUME NEW n \in 0..Len(b), Flights(SubSeq(b, 1, n)) = <<>>
        PROVE  DataOf(SubSeq(b, 1, n)) = <<>>
    <3>1. CASE n <= Len(a)
      <4>1. n \in 0..Len(a)
        BY <3>1, <2>2
      <4>2. SubSeq(b, 1, n) = SubSeq(a, 1, n)
        BY <4>1, <2>2, SubSeqOfConcat DEF Begins
      <4> QED
        BY <4>1, <4>2, <2>1, <2>5
    <3>2. CASE n > Len(a)
      <4> DEFINE u == SubSeq(units, 1, n - Len(a))
                 v == SubSeq(units, n - Len(a) + 1, Len(units))
      <4>1. n - Len(a) \in 0..Len(units) /\ n \in Nat
        BY <3>2, <2>2
      <4>2. SubSeq(b, 1, n) = a \o u
        <5> DEFINE m == n - Len(a)
        <5>1. m \in 0..Len(units) /\ n = Len(a) + m
          BY <4>1, <2>2
        <5> HIDE DEF m
        <5>2. \A j \in 0..Len(units) :
                SubSeq(a \o units, 1, Len(a) + j) = a \o SubSeq(units, 1, j)
          <6>1. a \in Seq(Units)
            BY <2>2
          <6>2. Begins(a, units)
            BY <6>1, SubSeqOfConcat
          <6> QED
            BY <6>2 DEF Begins
        <5> QED
          BY <5>1, <5>2, <2>2 DEF m
      <4>3. u \in Seq(Units) /\ v \in Seq(Units) /\ units = u \o v
        BY <4>1, SplitAt
      <4> HIDE DEF u, v
      <4>4. Flights(a \o u) = <<>>
        BY <4>2, <2>5
      <4>5. Flights(a) = <<>> /\ Flights(u) = <<>>
        BY <4>4, <4>3, <2>2, FlightsSplit
      <4>6. DataOf(units) = <<>>
        BY <4>5 DEF a
      <4>7. DataOf(u) = <<>>
        <5>1. DataOf(u) \o DataOf(v) = <<>> /\ DataOf(u) \in Seq(Nat) /\ DataOf(v) \in Seq(Nat)
          BY <4>3, <4>6, DataOfParts
        <5> DEFINE x == DataOf(u)
                   y == DataOf(v)
        <5> HIDE DEF x, y
        <5>2. x \in Seq(Nat) /\ y \in Seq(Nat) /\ x \o y = <<>>
          BY <5>1 DEF x, y
        <5>3. x = <<>>
          BY <5>2, EmptyParts
        <5> QED
          BY <5>3 DEF x
      <4>8. SubSeq(a, 1, Len(a)) = a
        BY <2>2, FirstOnes
      <4>9. DataOf(a) = <<>>
        <5>1. Len(a) \in 0..Len(a)
          BY <2>2
        <5>2. Flights(SubSeq(a, 1, Len(a))) = <<>>
                => DataOf(SubSeq(a, 1, Len(a))) = <<>>
          BY <5>1, <2>1
        <5> QED
          BY <4>5, <4>8, <5>2
      <4>10. DataOf(a \o u) = DataOf(a) \o DataOf(u)
        BY <4>3, <2>2, DataOfParts
      <4> QED
        BY <4>2, <4>7, <4>9, <4>10, ConcatEmptySeq, EmptySeq
    <3> QED
      BY <3>1, <3>2, <2>2
  <2> QED
    BY <2>4, <2>5
<1>8. ConnectionInv(c, k2, s2, w, t, new)
  BY <1>4, <1>5, <1>6, <1>7
     DEF ConnectionInv, Typed, Registered, InStep, Silent, Intact, wants_write, is_handshaking
<1> QED
  BY <1>8 DEF k2, s2

-----------------------------------------------------------------------------
(* The end of read_connection and of write_connection.                     *)

\* Connection and socket at the end of read_connection and write_connection.
SettledConnection(c, s, buf) ==
  [connected |-> StatusOf(c, s), interest |-> InterestOf(StatusOf(c, s), s, buf),
   send_buf |-> buf]
SettledSocket(c, k, s, buf) ==
  LET int == InterestOf(StatusOf(c, s), s, buf)
  IN [k EXCEPT !.interest = IF int # c.interest THEN int ELSE @]

\* What has been read or written before: session s has become s2, socket k k2,
\* of the bytes t w2 have been written and buf is left.
Moved(k, s, t, k2, s2, w2, buf) ==
  /\ s2 \in Sessions /\ buf \in Seq(Nat) /\ w2 \in Seq(Nat)
  /\ k2 \in SocketRecords /\ k2.interest = k.interest
  /\ Handshaken(k2, s2) /\ Ordered(k2, s2)
  /\ is_handshaking(s2) => is_handshaking(s)
  /\ is_handshaking(s2) => w2 = <<>> /\ DataOf(s2.out) = <<>>
  /\ t = w2 \o DataOf(s2.out) \o buf

\* The end of read_connection and of write_connection.
LEMMA Settled ==
  ASSUME NEW c, NEW k, NEW s, NEW w, NEW t, NEW new \in BOOLEAN,
         ConnectionInv(c, k, s, w, t, new), c.connected # "NotConnected",
         NEW s2, NEW buf, NEW w2, NEW k2, Moved(k, s, t, k2, s2, w2, buf)
  PROVE  ConnectionInv(SettledConnection(c, s2, buf), SettledSocket(c, k2, s2, buf),
                       s2, w2, t, FALSE)
<1> DEFINE status == StatusOf(c, s2)
           int == InterestOf(status, s2, buf)
           c3 == SettledConnection(c, s2, buf)
           k3 == SettledSocket(c, k2, s2, buf)
<1>0. /\ s2 \in Sessions /\ buf \in Seq(Nat) /\ w2 \in Seq(Nat)
      /\ k2 \in SocketRecords /\ k2.interest = k.interest
      /\ Handshaken(k2, s2) /\ Ordered(k2, s2)
      /\ is_handshaking(s2) => is_handshaking(s)
      /\ is_handshaking(s2) => w2 = <<>> /\ DataOf(s2.out) = <<>>
      /\ t = w2 \o DataOf(s2.out) \o buf
  BY DEF Moved
<1>1. c \in ConnectionRecords /\ t \in Seq(Nat) /\ c.interest = k.interest
      /\ (c.connected = "TlsConnected" <=> ~is_handshaking(s))
  BY DEF ConnectionInv, Typed, Registered, InStep
<1>2. c.connected \in Statuses \ {"NotConnected"}
  BY <1>1 DEF ConnectionRecords
<1>3. status \in Statuses \ {"NotConnected"}
      /\ (status = "TlsConnected" <=> ~is_handshaking(s2))
  BY <1>0, <1>1, <1>2 DEF StatusOf, Statuses
<1>4. /\ int \subseteq Tcp!RW /\ "R" \in int
      /\ wants_write(s2) => "W" \in int
      /\ status = "TlsConnected" /\ buf # <<>> => "W" \in int
  BY DEF InterestOf, Tcp!RW
<1>5. c3 \in ConnectionRecords /\ c3.connected = status /\ c3.interest = int
      /\ c3.send_buf = buf
  BY <1>0, <1>3, <1>4 DEF ConnectionRecords, SettledConnection
<1>6. k3 \in SocketRecords /\ k3.interest = int /\ k3.rx = k2.rx
  BY <1>0, <1>1, <1>4 DEF SocketRecords, SettledSocket
<1> HIDE DEF status, int, c3, k3
<1>7. Typed(c3, k3, s2, w2, t)
  BY <1>0, <1>1, <1>5, <1>6 DEF Typed
<1>8. Handshaken(k3, s2) /\ Ordered(k3, s2)
  BY <1>0, <1>6 DEF Handshaken, Ordered
<1>9. Registered(c3, k3, s2, FALSE)
  BY <1>3, <1>4, <1>5, <1>6 DEF Registered
<1>10. InStep(c3, s2) /\ Silent(c3, s2, w2) /\ Intact(c3, s2, w2, t)
  BY <1>0, <1>3, <1>5 DEF InStep, Silent, Intact
<1> QED
  BY <1>7, <1>8, <1>9, <1>10 DEF ConnectionInv, c3, k3

\* Sequences of one element are equal when the elements are.
LEMMA SingletonEqual == \A n, m : <<n>> = <<m>> => n = m
<1> SUFFICES ASSUME NEW n, NEW m, <<n>> = <<m>> PROVE n = m
  OBVIOUS
<1>1. <<n>>[1] = n /\ <<m>>[1] = m
  OBVIOUS
<1> QED
  BY <1>1

\* Process on the flights of a handshake.
LEMMA ProcessOne ==
  ASSUME NEW s \in Sessions, NEW n \in 1..3, NEW s2, s2 = Process(s, Unit("hs", n))
  PROVE  /\ s2 \in Sessions /\ s2.role = s.role /\ s2.far = s.far
         /\ s2.flights = IF n < 3 THEN n + 1 ELSE 3
         /\ Flights(s2.out) = Flights(s.out) \o IF n < 3 THEN <<n + 1>> ELSE <<>>
         /\ DataOf(s2.out) = DataOf(s.out)
<1> DEFINE u == IF n < 3 THEN Unit("hs", n + 1) ELSE Unit("empty", 0)
           one == <<u>>
<1>1. Unit("hs", n).kind = "hs" /\ Unit("hs", n).n = n
  BY SingleUnit
<1>2. s2 = [s EXCEPT !.flights = IF n < 3 THEN n + 1 ELSE 3, !.out = Append(@, u)]
  <2>1. CASE n < 3
    BY <1>1, <2>1 DEF Process
  <2>2. CASE ~(n < 3)
    BY <1>1, <2>2 DEF Process
  <2> QED
    BY <2>1, <2>2
<1>3. /\ one \in Seq(Units) /\ DataOf(one) = <<>>
      /\ Flights(one) = IF n < 3 THEN <<n + 1>> ELSE <<>>
  <2>1. CASE n < 3
    <3> DEFINE m == n + 1
    <3>1. m \in Nat /\ one = <<Unit("hs", m)>>
      BY <2>1
    <3> HIDE DEF one, m
    <3>2. one \in Seq(Units) /\ DataOf(one) = <<>> /\ Flights(one) = <<m>>
      BY <3>1, OneUnit
    <3> QED
      BY <2>1, <3>2 DEF m
  <2>2. CASE ~(n < 3)
    BY <2>2, OneUnit
  <2> QED
    BY <2>1, <2>2
<1>4. s.out \in Seq(Units) /\ u \in Units
  BY SingleUnit DEF Sessions
<1> HIDE DEF u
<1>5. Append(s.out, u) = s.out \o one
  BY <1>4, AppendIsConcat
<1> HIDE DEF one
<1>6. /\ s.out \o one \in Seq(Units)
      /\ Flights(s.out \o one) = Flights(s.out) \o Flights(one)
      /\ DataOf(s.out \o one) = DataOf(s.out) \o DataOf(one)
  BY <1>3, <1>4, FlightsParts, DataOfParts, ConcatProperties
<1>7. DataOf(s.out) \o <<>> = DataOf(s.out)
  BY <1>4, DataOfParts, ConcatEmptySeq
<1>8. s2 \in Sessions /\ s2.role = s.role /\ s2.far = s.far
      /\ s2.flights = (IF n < 3 THEN n + 1 ELSE 3) /\ s2.out = s.out \o one
  <2> DEFINE f == IF n < 3 THEN n + 1 ELSE 3
             o == s.out \o one
  <2>1. f \in 0..3 /\ o \in Seq(Units)
    BY <1>6
  <2>2. s2 = [s EXCEPT !.flights = f, !.out = o]
    BY <1>2, <1>5
  <2> HIDE DEF f, o
  <2>3. s2 \in Sessions /\ s2.role = s.role /\ s2.far = s.far /\ s2.flights = f /\ s2.out = o
    BY <2>1, <2>2 DEF Sessions
  <2> QED
    BY <2>3 DEF f, o
<1> QED
  BY <1>3, <1>6, <1>7, <1>8


\* The socket after read_tls() of u units.
SocketRead(k, u) == [k EXCEPT !.rx = SubSeq(@, u + 1, Len(@))]

\* What becomes of session and socket.
ReadsWell(k, s, u, k2, s2) ==
  /\ s2 \in Sessions /\ k2 \in SocketRecords /\ k2.interest = k.interest
  /\ Handshaken(k2, s2) /\ Ordered(k2, s2)
  /\ is_handshaking(s2) => is_handshaking(s)
  /\ is_handshaking(s2) => DataOf(SubSeq(k.rx, 1, u)) = <<>>
  /\ DataOf(s2.out) = DataOf(s.out)

\* Processing the units read from the socket takes the handshake to its next
\* stage, and hands out no plaintext before its end.
LEMMA Reads ==
  ASSUME NEW k \in SocketRecords, NEW s \in Sessions, Handshaken(k, s), Ordered(k, s),
         NEW u \in 0..Len(k.rx)
  PROVE  ReadsWell(k, s, u, SocketRead(k, u), ProcessAll(s, SubSeq(k.rx, 1, u)))
<1> DEFINE s2 == ProcessAll(s, SubSeq(k.rx, 1, u))
           k2 == SocketRead(k, u)
<1> SUFFICES /\ s2 \in Sessions /\ k2 \in SocketRecords /\ k2.interest = k.interest
             /\ Handshaken(k2, s2) /\ Ordered(k2, s2)
             /\ is_handshaking(s2) => is_handshaking(s)
             /\ is_handshaking(s2) => DataOf(SubSeq(k.rx, 1, u)) = <<>>
             /\ DataOf(s2.out) = DataOf(s.out)
  BY DEF ReadsWell
<1> DEFINE rx == k.rx
           a == SubSeq(rx, 1, u)
           b == SubSeq(rx, u + 1, Len(rx))
<1>1. rx \in Seq(Units) /\ s.out \in Seq(Units) /\ s.far \in 0..4
  BY DEF SocketRecords, Sessions
<1>2. a \in Seq(Units) /\ b \in Seq(Units) /\ rx = a \o b
  BY <1>1, SplitAt
<1>3. k2 \in SocketRecords /\ k2.interest = k.interest /\ k2.rx = b
  BY <1>2 DEF SocketRecords, SocketRead
<1>4. s2 = ProcessAll(s, a)
  OBVIOUS
<1>5. u \in 0..Len(rx) /\ a = SubSeq(rx, 1, u) /\ rx = k.rx
  OBVIOUS
<1>p. Flights(a) \in Seq(Nat) /\ Flights(b) \in Seq(Nat)
      /\ Flights(s.out) \in Seq(Nat) /\ Flights(rx) \in Seq(Nat)
      /\ Flights(rx) = Flights(a) \o Flights(b) /\ DataOf(rx) = DataOf(a) \o DataOf(b)
      /\ DataOf(a) \in Seq(Nat) /\ DataOf(b) \in Seq(Nat)
  BY <1>1, <1>2, FlightsParts, DataOfParts, ZenonT(60)
<1>s. Stage(s.role, s.flights, Flights(s.out), s.far, Flights(rx))
  BY DEF Handshaken
<1> HIDE DEF rx, a, b, s2, k2
<1>6. CASE Flights(a) = <<>>
  <2>1. s2 = s
    BY <1>2, <1>4, <1>6, ProcessAllParts
  <2>2. Flights(b) = Flights(rx)
    BY <1>6, <1>p, ConcatEmptySeq
  <2>3. Handshaken(k2, s2)
    BY <2>1, <2>2, <1>s, <1>3 DEF Handshaken
  <2>4. ASSUME is_handshaking(s)
        PROVE  /\ DataOf(a) = <<>>
               /\ s.far < 3 => DataOf(b) = <<>>
               /\ \A n \in 0..Len(b) : Flights(SubSeq(b, 1, n)) = <<>>
                                         => DataOf(SubSeq(b, 1, n)) = <<>>
    <3>1. /\ s.far < 3 => DataOf(rx) = <<>>
          /\ \A n \in 0..Len(rx) : Flights(SubSeq(rx, 1, n)) = <<>>
                                     => DataOf(SubSeq(rx, 1, n)) = <<>>
      BY <2>4, <1>5 DEF Ordered
    <3>2. DataOf(a) = <<>>
      BY <3>1, <1>5, <1>6
    <3>3. s.far < 3 => DataOf(b) = <<>>
      <4> DEFINE x == DataOf(a)
                 y == DataOf(b)
      <4>1. x \in Seq(Nat) /\ y \in Seq(Nat) /\ (s.far < 3 => x \o y = <<>>)
        BY <3>1, <1>p
      <4> HIDE DEF x, y
      <4>2. s.far < 3 => y = <<>>
        BY <4>1, EmptyParts
      <4> QED
        BY <4>2 DEF y
    <3>4. ASSUME NEW n \in 0..Len(b), Flights(SubSeq(b, 1, n)) = <<>>
          PROVE  DataOf(SubSeq(b, 1, n)) = <<>>
      <4> DEFINE p == SubSeq(b, 1, n)
                 q == SubSeq(rx, 1, u + n)
      <4>0. Len(a) = u
        BY <1>1, <1>5, SplitAt
      <4>1. p \in Seq(Units) /\ u + n \in 0..Len(rx)
        <5>1. Len(rx) = Len(a) + Len(b) /\ Len(b) \in Nat
          BY <1>2, ConcatProperties, LenProperties
        <5>2. p \in Seq(Units)
          BY <1>2, SplitAt
        <5> QED
          BY <5>1, <5>2, <4>0, <1>5
      <4>2. q = a \o p
        <5>1. Begins(a, b)
          BY <1>2, SubSeqOfConcat
        <5>2. SubSeq(a \o b, 1, Len(a) + n) = a \o SubSeq(b, 1, n)
          BY <5>1 DEF Begins
        <5> QED
          BY <5>2, <4>0, <1>2
      <4>3. Flights(p) = <<>> /\ (Flights(q) = <<>> => DataOf(q) = <<>>)
        BY <3>1, <3>4, <4>1
      <4> HIDE DEF p, q
      <4>4. Flights(q) = Flights(a) \o Flights(p) /\ DataOf(q) = DataOf(a) \o DataOf(p)
            /\ DataOf(p) \in Seq(Nat)
        BY <4>1, <4>2, <1>2, FlightsParts, DataOfParts
      <4>5. Flights(q) = <<>>
        BY <4>3, <4>4, <1>6, ConcatEmptySeq, EmptySeq
      <4>6. <<>> \o DataOf(p) = <<>>
        BY <4>3, <4>4, <4>5, <3>2
      <4>7. DataOf(p) = <<>>
        BY <4>4, <4>6, ConcatEmptySeq
      <4> QED
        BY <4>7 DEF p
    <3> QED
      BY <3>2, <3>3, <3>4
  <2>5. Ordered(k2, s2)
    BY <2>1, <2>4, <1>3 DEF Ordered
  <2> QED
    BY <2>1, <2>3, <2>4, <2>5, <1>3 DEF a, rx
<1>7. ASSUME NEW n \in 1..3, Flights(a) = <<n>>, Flights(b) = <<>>, Flights(rx) = <<n>>
      PROVE  /\ s2 \in Sessions /\ Handshaken(k2, s2) /\ Ordered(k2, s2)
             /\ is_handshaking(s2) => is_handshaking(s)
             /\ is_handshaking(s2) => DataOf(a) = <<>>
             /\ DataOf(s2.out) = DataOf(s.out)
  <2>1. s2 = Process(s, Unit("hs", n))
    BY <1>2, <1>4, <1>7, ProcessAllParts
  <2>2. /\ s2 \in Sessions /\ s2.role = s.role /\ s2.far = s.far
        /\ s2.flights = IF n < 3 THEN n + 1 ELSE 3
        /\ Flights(s2.out) = Flights(s.out) \o IF n < 3 THEN <<n + 1>> ELSE <<>>
        /\ DataOf(s2.out) = DataOf(s.out)
    BY <2>1, ProcessOne, ZenonT(60)
  <2>3. /\ Flights(s.out) = <<>> /\ s.far = n
        /\ \/ s.role = "client" /\ n = 2 /\ s.flights = 1
           \/ s.role = "server" /\ n = 1 /\ s.flights = 0
           \/ s.role = "server" /\ n = 3 /\ s.flights = 2
    <3>0. <<n>> # <<>> /\ \A m \in Nat : <<n>> = <<m>> => n = m
      BY SingletonEqual
    <3>1. \/ /\ s.role = "client" /\ s.flights = 1 /\ Flights(s.out) = <<>> /\ s.far = 2
             /\ <<n>> = <<2>>
          \/ /\ s.role = "server" /\ s.flights = 0 /\ Flights(s.out) = <<>> /\ s.far = 1
             /\ <<n>> = <<1>>
          \/ /\ s.role = "server" /\ s.flights = 2 /\ Flights(s.out) = <<>> /\ s.far = 3
             /\ <<n>> = <<3>>
      BY <1>s, <1>7, <3>0, Zenon DEF Stage
    <3> QED
      BY <3>0, <3>1
  <2>4. <<>> \o <<>> = <<>> /\ \A m \in Nat : <<>> \o <<m>> = <<m>>
    BY ConcatEmptySeq, EmptySeq
  <2>5. Handshaken(k2, s2)
    <3>1. CASE s.role = "client" /\ n = 2
      <4>1. s2.flights = 3 /\ Flights(s2.out) = <<3>> /\ s2.far = 2 /\ s2.role = "client"
        BY <3>1, <2>2, <2>3, <2>4
      <4> QED
        BY <4>1, <1>3, <1>7 DEF Handshaken, Stage
    <3>2. CASE s.role = "server" /\ n = 1
      <4>1. s2.flights = 2 /\ Flights(s2.out) = <<2>> /\ s2.far = 1 /\ s2.role = "server"
        BY <3>2, <2>2, <2>3, <2>4
      <4> QED
        BY <4>1, <1>3, <1>7 DEF Handshaken, Stage
    <3>3. CASE s.role = "server" /\ n = 3
      <4>1. s2.flights = 3 /\ Flights(s2.out) = <<>> /\ s2.far = 3 /\ s2.role = "server"
        BY <3>3, <2>2, <2>3, <2>4
      <4> QED
        BY <4>1, <1>3, <1>7 DEF Handshaken, Stage
    <3> QED
      BY <3>1, <3>2, <3>3, <2>3
  <2>6. is_handshaking(s)
    BY <2>3 DEF is_handshaking
  <2>7. ASSUME is_handshaking(s2)
        PROVE  DataOf(a) = <<>> /\ DataOf(b) = <<>>
    <3>1. s.far < 3
      BY <2>7, <2>2, <2>3 DEF is_handshaking
    <3>2. DataOf(rx) = <<>>
      BY <3>1, <2>6, <1>5 DEF Ordered
    <3> DEFINE x == DataOf(a)
               y == DataOf(b)
    <3>3. x \in Seq(Nat) /\ y \in Seq(Nat) /\ x \o y = <<>>
      BY <3>2, <1>p
    <3> HIDE DEF x, y
    <3>4. x = <<>> /\ y = <<>>
      BY <3>3, EmptyParts
    <3> QED
      BY <3>4 DEF x, y
  <2>8. ASSUME is_handshaking(s2), NEW m \in 0..Len(b)
        PROVE  DataOf(SubSeq(b, 1, m)) = <<>>
    <3> DEFINE x == DataOf(SubSeq(b, 1, m))
               y == DataOf(SubSeq(b, m + 1, Len(b)))
    <3>1. x \in Seq(Nat) /\ y \in Seq(Nat) /\ x \o y = <<>>
      <4>1. SubSeq(b, 1, m) \in Seq(Units) /\ SubSeq(b, m + 1, Len(b)) \in Seq(Units)
            /\ b = SubSeq(b, 1, m) \o SubSeq(b, m + 1, Len(b))
        BY <1>2, SplitAt
      <4>2. DataOf(b) = x \o y
        BY <1>2, DataCount
      <4> QED
        BY <4>1, <4>2, <2>7, <2>8, DataOfParts
    <3> HIDE DEF x, y
    <3>2. x = <<>>
      BY <3>1, EmptyParts
    <3> QED
      BY <3>2 DEF x
  <2>9. Ordered(k2, s2)
    BY <2>7, <2>8, <1>3 DEF Ordered
  <2> QED
    BY <2>2, <2>5, <2>6, <2>7, <2>9
<1>8. CASE Flights(a) # <<>>
  <2>1. PICK n \in 1..3 : Flights(rx) = <<n>>
    <3>1. Flights(rx) # <<>>
      BY <1>8, <1>2, FlightsSplit
    <3>2. Flights(rx) = <<1>> \/ Flights(rx) = <<2>> \/ Flights(rx) = <<3>>
      BY <3>1, <1>s, Zenon DEF Stage
    <3> QED
      BY <3>2
  <2>2. Flights(a) = <<n>> /\ Flights(b) = <<>>
    BY <2>1, <1>8, <1>2, FlightsSplit
  <2> QED
    BY <2>1, <2>2, <1>3, <1>7 DEF a, rx
<1> QED
  BY <1>6, <1>8

-----------------------------------------------------------------------------
(* What write_connection moves into the session and onto the wire.         *)

\* The records of the first bytes are the first records.
LEMMA DataUnitsSplit ==
  ASSUME NEW b \in Seq(Nat), NEW m \in 0..Len(b)
  PROVE  DataOf(SubSeq(DataUnits(b), 1, m)) = SubSeq(b, 1, m)
<1> DEFINE d == DataUnits(b)
           x == SubSeq(b, 1, m)
           y == SubSeq(d, 1, m)
           z == DataUnits(x)
<1>1. d \in Seq(Units) /\ Len(d) = Len(b)
  BY DataUnitsParts
<1>2. x \in Seq(Nat) /\ Len(x) = m /\ \A k \in 1..m : x[k] = b[k]
  BY SplitAt
<1>3. \A k \in 1..Len(b) : d[k] = Unit("data", b[k])
  BY DEF DataUnits
<1>4. \A k \in 1..Len(x) : z[k] = Unit("data", x[k])
  BY DEF DataUnits
<1> HIDE DEF d, x
<1>5. y \in Seq(Units) /\ Len(y) = m /\ \A k \in 1..m : y[k] = d[k]
  BY <1>1, SplitAt
<1>6. z \in Seq(Units) /\ Len(z) = m /\ DataOf(z) = x
  BY <1>2, DataUnitsParts
<1> HIDE DEF y, z
<1>7. Len(b) \in Nat
  BY LenProperties
<1>8. \A k \in 1..m : y[k] = z[k]
  <2> SUFFICES ASSUME NEW k \in 1..m PROVE y[k] = z[k]
    OBVIOUS
  <2>1. k \in 1..Len(b) /\ k \in 1..Len(x)
    BY <1>2, <1>7
  <2> QED
    BY <2>1, <1>2, <1>3, <1>4, <1>5
<1>9. y = z
  BY <1>5, <1>6, <1>8, SeqEqual
<1> QED
  BY <1>6, <1>9 DEF x, y, d

\* Two sequences that agree up to l have the same parts up to l.
Agree(x, y, l) == l = Len(x) /\ l <= Len(y) /\ \A j \in 1..l : x[j] = y[j]
SameSplit(x, y, n, l) ==
  SubSeq(x, 1, n) = SubSeq(y, 1, n) /\ SubSeq(x, n + 1, l) = SubSeq(y, n + 1, l)

\* Two sequences that agree up to l split alike up to l.
LEMMA SameParts ==
  ASSUME NEW S, NEW x \in Seq(S), NEW y \in Seq(S), NEW l \in Nat, NEW n \in 0..l,
         Agree(x, y, l)
  PROVE  SameSplit(x, y, n, l)
<1>0. Len(y) \in Nat /\ n \in Nat /\ l = Len(x) /\ l <= Len(y) /\ \A j \in 1..l : x[j] = y[j]
  BY LenProperties DEF Agree
<1>1. ASSUME NEW a \in 1..(l + 1), NEW b \in 0..l
      PROVE  SubSeq(x, a, b) = SubSeq(y, a, b)
  <2> DEFINE u == SubSeq(x, a, b)
             v == SubSeq(y, a, b)
             h == IF a <= b THEN b - a + 1 ELSE 0
  <2>1. /\ \A j \in a..b : j \in 1..l /\ j \in 1..Len(y)
        /\ \A j \in a..b : x[j] \in S /\ y[j] \in S
    <3>1. \A j \in a..b : j \in 1..l /\ j \in 1..Len(y)
      BY <1>0
    <3>2. \A j \in 1..Len(x) : x[j] \in S
      BY ElementOfSeq
    <3>3. \A j \in 1..Len(y) : y[j] \in S
      BY ElementOfSeq
    <3> QED
      BY <1>0, <3>1, <3>2, <3>3
  <2>2. u \in Seq(S) /\ Len(u) = h /\ \A j \in 1..h : u[j] = x[a + j - 1]
    BY <2>1, SubSeqProperties
  <2>3. v \in Seq(S) /\ Len(v) = h /\ \A j \in 1..h : v[j] = y[a + j - 1]
    BY <2>1, SubSeqProperties
  <2>4. \A j \in 1..h : a + j - 1 \in 1..l
    OBVIOUS
  <2>5. \A j \in 1..h : u[j] = v[j]
    BY <1>0, <2>2, <2>3, <2>4
  <2>6. h \in Nat
    OBVIOUS
  <2> HIDE DEF u, v, h
  <2>7. u = v
    BY <2>2, <2>3, <2>5, <2>6, SeqEqual
  <2> QED
    BY <2>7 DEF u, v
<1>2. 1 \in 1..(l + 1) /\ n + 1 \in 1..(l + 1) /\ n \in 0..l /\ l \in 0..l
  BY <1>0
<1> QED
  BY <1>1, <1>2 DEF SameSplit

\* The beginning of a sequence with one flight has it when it has any.
LEMMA TakesFlight ==
  ASSUME NEW a \in Seq(Units), NEW b \in Seq(Units), NEW n,
         Flights(a \o b) = <<n>>, Flights(a) # <<>>
  PROVE  Flights(a) = <<n>> /\ Flights(b) = <<>>
  BY FlightsSplit

\* The session and the socket after the write loop: n units of what the session
\* wants to write, out, followed by the records p, are written, kept stay in it.
Written(s, p, n) == SubSeq(s.out \o p, 1, n)
SessionWritten(s, p, n, m) ==
  [s EXCEPT !.out = SubSeq(s.out \o p, n + 1, Len(s.out) + m),
            !.far = Advance(@, Written(s, p, n))]
SocketWritten(k, n) == [k EXCEPT !.room = @ - n]

\* The numbers that can occur.
WriteRange(k, s, p, n, m) ==
  /\ n \in 0..Len(s.out \o p) /\ m \in 0..Len(p)
  /\ n <= Len(s.out) + m /\ n <= k.room

WritesWell(k, s, p, m, w, k2, s2) ==
  /\ s2 \in Sessions /\ k2 \in SocketRecords /\ k2.interest = k.interest
  /\ Handshaken(k2, s2) /\ Ordered(k2, s2)
  /\ is_handshaking(s2) <=> is_handshaking(s)
  /\ DataOf(w) \in Seq(Nat) /\ DataOf(s2.out) \in Seq(Nat)
  /\ DataOf(s.out) \o DataOf(SubSeq(p, 1, m)) = DataOf(w) \o DataOf(s2.out)

\* Writing to the socket and moving plaintext into the session keep the stage
\* of the handshake and all the plaintext.
LEMMA Writes ==
  ASSUME NEW k \in SocketRecords, NEW s \in Sessions, Handshaken(k, s), Ordered(k, s),
         NEW p \in Seq(Units), Flights(p) = <<>>,
         NEW n, NEW m, WriteRange(k, s, p, n, m)
  PROVE  WritesWell(k, s, p, m, Written(s, p, n), SocketWritten(k, n),
                    SessionWritten(s, p, n, m))
<1> DEFINE written == Written(s, p, n)
           out == SubSeq(s.out \o p, n + 1, Len(s.out) + m)
           s2 == SessionWritten(s, p, n, m)
           k2 == SocketWritten(k, n)
<1>0. /\ n \in 0..Len(s.out \o p) /\ m \in 0..Len(p)
      /\ n <= Len(s.out) + m /\ n <= k.room
  BY DEF WriteRange
<1>w. /\ written = SubSeq(s.out \o p, 1, n)
      /\ s2 = [s EXCEPT !.out = out, !.far = Advance(@, written)]
      /\ k2 = [k EXCEPT !.room = @ - n]
  BY DEF Written, SessionWritten, SocketWritten
<1> HIDE DEF written, s2, k2
<1> DEFINE o == s.out
           all == o \o p
           q == SubSeq(p, 1, m)
           f == Advance(s.far, written)
<1>1. o \in Seq(Units) /\ s.far \in 0..4 /\ Len(o) \in Nat /\ Len(p) \in Nat
      /\ all \in Seq(Units) /\ Len(all) = Len(o) + Len(p)
  BY ConcatProperties, LenProperties DEF Sessions
<1>2. q \in Seq(Units)
  BY <1>0, SplitAt
<1>3. written \in Seq(Units) /\ out \in Seq(Units) /\ written \o out = o \o q
  <2> DEFINE l == Len(o) + m
             x == SubSeq(all, 1, l)
  <2>1. l \in 0..Len(all) /\ n \in 0..l /\ n \in Nat /\ l \in Nat
    BY <1>0, <1>1
  <2>2. Begins(o, p)
    BY <1>1, SubSeqOfConcat
  <2>3. x = o \o q
    BY <1>0, <2>2 DEF Begins
  <2>4. written = SubSeq(all, 1, n) /\ out = SubSeq(all, n + 1, l)
    BY <1>w
  <2> HIDE DEF all, o, q, l
  <2>5. x \in Seq(Units) /\ Len(x) = l /\ \A j \in 1..l : x[j] = all[j]
    BY <2>1, <1>1, SplitAt
  <2> HIDE DEF x
  <2>6. /\ SubSeq(x, 1, n) \in Seq(Units) /\ SubSeq(x, n + 1, l) \in Seq(Units)
        /\ x = SubSeq(x, 1, n) \o SubSeq(x, n + 1, l)
    BY <2>1, <2>5, SplitAt
  <2>7. SubSeq(x, 1, n) = SubSeq(all, 1, n) /\ SubSeq(x, n + 1, l) = SubSeq(all, n + 1, l)
    <3>1. all \in Seq(Units) /\ x \in Seq(Units) /\ l \in Nat /\ n \in 0..l
      BY <1>1, <2>1, <2>5
    <3>2. Agree(x, all, l)
      BY <1>1, <2>1, <2>5 DEF Agree
    <3>3. SameSplit(x, all, n, l)
      BY <3>1, <3>2, SameParts
    <3> QED
      BY <3>3 DEF SameSplit
  <2> QED
    BY <2>3, <2>4, <2>6, <2>7
<1> HIDE DEF all, q, out
<1>4. /\ Flights(q) = <<>>
      /\ Flights(written \o out) = Flights(o)
  <2> DEFINE r == SubSeq(p, m + 1, Len(p))
  <2>1. q \in Seq(Units) /\ r \in Seq(Units) /\ p = q \o r
    BY <1>0, SplitAt DEF q
  <2> HIDE DEF r
  <2>2. Flights(q) = <<>>
    BY <2>1, FlightsSplit
  <2>3. Flights(o \o q) = Flights(o) \o Flights(q) /\ Flights(o) \in Seq(Nat)
    BY <1>1, <1>2, FlightsParts
  <2>4. Flights(o \o q) = Flights(o)
    BY <2>2, <2>3, ConcatEmptySeq
  <2> QED
    BY <2>2, <2>4, <1>3
<1>5. DataOf(o) \o DataOf(q) = DataOf(written) \o DataOf(out)
      /\ DataOf(written) \in Seq(Nat) /\ DataOf(out) \in Seq(Nat)
  <2>1. DataOf(o \o q) = DataOf(o) \o DataOf(q)
    BY <1>1, <1>2, DataOfParts
  <2>2. DataOf(written \o out) = DataOf(written) \o DataOf(out)
        /\ DataOf(written) \in Seq(Nat) /\ DataOf(out) \in Seq(Nat)
    BY <1>3, DataOfParts
  <2> QED
    BY <2>1, <2>2, <1>3
<1>6. Stage(s.role, s.flights, Flights(o), s.far, Flights(k.rx))
  BY DEF Handshaken
<1>7. /\ f \in 0..4 /\ s.far <= f
      /\ Stage(s.role, s.flights, Flights(out), f, Flights(k.rx))
  <2>0. Flights(o) \in {<<>>, <<1>>, <<2>>, <<3>>}
    BY <1>6, Zenon DEF Stage
  <2>1. CASE Flights(written) = <<>>
    <3>1. f = s.far
      BY <2>1, <1>3, AdvanceParts
    <3>2. Flights(out) = Flights(o)
      <4>1. Flights(written \o out) = Flights(written) \o Flights(out) /\ Flights(out) \in Seq(Nat)
        BY <1>3, FlightsParts
      <4> QED
        BY <4>1, <2>1, <1>4, ConcatEmptySeq
    <3> QED
      BY <3>1, <3>2, <1>1, <1>6
  <2>2. ASSUME NEW j \in 1..3, Flights(o) = <<j>>, Flights(written) # <<>>
        PROVE  /\ f \in 0..4 /\ s.far <= f
               /\ Stage(s.role, s.flights, Flights(out), f, Flights(k.rx))
    <3>1. Flights(written) = <<j>> /\ Flights(out) = <<>>
      <4>1. Flights(written \o out) = <<j>>
        BY <2>2, <1>4
      <4>2. written \in Seq(Units) /\ out \in Seq(Units) /\ Flights(written) # <<>>
        BY <1>3, <2>2
      <4> QED
        BY <4>1, <4>2, TakesFlight, Zenon
    <3>2. f = j
      BY <3>1, <1>3, AdvanceParts
    <3>3. <<j>> # <<>> /\ (<<j>> = <<1>> => j = 1) /\ (<<j>> = <<2>> => j = 2) /\ (<<j>> = <<3>> => j = 3)
      BY SingletonEqual
    <3>4. \/ s.role = "client" /\ s.flights = 1 /\ <<j>> = <<1>> /\ s.far = 0 /\ Flights(k.rx) = <<>>
          \/ s.role = "client" /\ s.flights = 3 /\ <<j>> = <<3>> /\ s.far = 2 /\ Flights(k.rx) = <<>>
          \/ s.role = "server" /\ s.flights = 2 /\ <<j>> = <<2>> /\ s.far = 1 /\ Flights(k.rx) = <<>>
      BY <1>6, <2>2, <3>3, Zenon DEF Stage
    <3>5. \/ s.role = "client" /\ s.flights = 1 /\ j = 1 /\ s.far = 0 /\ Flights(k.rx) = <<>>
          \/ s.role = "client" /\ s.flights = 3 /\ j = 3 /\ s.far = 2 /\ Flights(k.rx) = <<>>
          \/ s.role = "server" /\ s.flights = 2 /\ j = 2 /\ s.far = 1 /\ Flights(k.rx) = <<>>
      BY <3>3, <3>4
    <3>6. f \in 0..4 /\ s.far <= f
      BY <3>2, <3>5
    <3>7. Stage(s.role, s.flights, <<>>, j, Flights(k.rx))
      BY <3>5 DEF Stage
    <3> QED
      BY <3>1, <3>2, <3>6, <3>7
  <2>3. CASE Flights(written) # <<>>
    <3>1. Flights(o) # <<>>
      BY <2>3, <1>3, <1>4, FlightsSplit
    <3>2. CASE Flights(o) = <<1>>
      BY <3>2, <2>3, <2>2
    <3>3. CASE Flights(o) = <<2>>
      BY <3>3, <2>3, <2>2
    <3>4. CASE Flights(o) = <<3>>
      BY <3>4, <2>3, <2>2
    <3> QED
      BY <3>1, <3>2, <3>3, <3>4, <2>0
  <2> QED
    BY <2>1, <2>3
<1>8. s2 \in Sessions /\ s2.role = s.role /\ s2.flights = s.flights /\ s2.out = out /\ s2.far = f
  BY <1>w, <1>3, <1>7 DEF Sessions
<1>9. k2 \in SocketRecords /\ k2.interest = k.interest /\ k2.rx = k.rx
  <2>1. k.room - n \in Nat
    BY <1>0 DEF SocketRecords
  <2> QED
    BY <1>w, <2>1 DEF SocketRecords
<1>10. Handshaken(k2, s2)
  BY <1>7, <1>8, <1>9 DEF Handshaken
<1>11. is_handshaking(s2) <=> is_handshaking(s)
  BY <1>8 DEF is_handshaking
<1>12. Ordered(k2, s2)
  <2>1. f < 3 => s.far < 3
    BY <1>1, <1>7
  <2> QED
    BY <2>1, <1>8, <1>9, <1>11 DEF Ordered
<1> QED
  BY <1>5, <1>8, <1>9, <1>10, <1>11, <1>12 DEF q, WritesWell, written, k2, s2

-----------------------------------------------------------------------------
(* What the two leave of a sound connection.                               *)

\* What read_connection leaves.
LEMMA ReadSettled ==
  ASSUME NEW c, NEW k, NEW s, NEW w, NEW t, NEW new \in BOOLEAN,
         ConnectionInv(c, k, s, w, t, new), c.connected # "NotConnected",
         NEW u \in 0..Len(k.rx),
         NEW s2, s2 = ProcessAll(s, SubSeq(k.rx, 1, u))
  PROVE  ConnectionInv(SettledConnection(c, s2, c.send_buf),
                       SettledSocket(c, SocketRead(k, u), s2, c.send_buf),
                       s2, w, t, FALSE)
<1> DEFINE k2 == SocketRead(k, u)
<1>1. /\ k \in SocketRecords /\ s \in Sessions /\ Handshaken(k, s) /\ Ordered(k, s)
      /\ w \in Seq(Nat) /\ c \in ConnectionRecords
      /\ (c.connected = "TlsConnected" <=> ~is_handshaking(s))
      /\ (c.connected # "TlsConnected" => w = <<>> /\ DataOf(s.out) = <<>>)
      /\ t = w \o DataOf(s.out) \o c.send_buf
  BY DEF ConnectionInv, Typed, InStep, Silent, Intact
<1>2. ReadsWell(k, s, u, k2, s2)
  BY <1>1, Reads
<1> HIDE DEF k2
<1>3. Moved(k, s, t, k2, s2, w, c.send_buf)
  BY <1>1, <1>2 DEF Moved, ReadsWell, ConnectionRecords
<1>4. ConnectionInv(SettledConnection(c, s2, c.send_buf),
                    SettledSocket(c, k2, s2, c.send_buf), s2, w, t, FALSE)
  BY <1>3, Settled
<1> QED
  BY <1>4 DEF k2

\* What write_connection leaves.
LEMMA WriteSettled ==
  ASSUME NEW c, NEW k, NEW s, NEW w, NEW t, NEW new \in BOOLEAN,
         ConnectionInv(c, k, s, w, t, new), c.connected # "NotConnected",
         NEW p, p = (IF c.connected = "TlsConnected" THEN DataUnits(c.send_buf) ELSE <<>>),
         NEW n, NEW m, WriteRange(k, s, p, n, m),
         NEW s2, s2 = SessionWritten(s, p, n, m),
         NEW buf, buf = Unsent(c.send_buf, m)
  PROVE  ConnectionInv(SettledConnection(c, s2, buf),
                       SettledSocket(c, SocketWritten(k, n), s2, buf),
                       s2, w \o DataOf(Written(s, p, n)), t, FALSE)
<1> DEFINE k2 == SocketWritten(k, n)
           written == Written(s, p, n)
<1> DEFINE b == c.send_buf
           d == DataOf(s.out)
           x == DataOf(written)
           y == DataOf(s2.out)
           z == SubSeq(b, 1, m)
<1>1. /\ k \in SocketRecords /\ s \in Sessions /\ Handshaken(k, s) /\ Ordered(k, s)
      /\ w \in Seq(Nat) /\ c \in ConnectionRecords
      /\ (c.connected = "TlsConnected" <=> ~is_handshaking(s))
      /\ (c.connected # "TlsConnected" => w = <<>> /\ d = <<>>)
      /\ t = w \o d \o b
  BY DEF ConnectionInv, Typed, InStep, Silent, Intact
<1>2. b \in Seq(Nat) /\ s.out \in Seq(Units) /\ d \in Seq(Nat)
  BY <1>1, DataOfParts DEF ConnectionRecords, Sessions
<1> HIDE DEF b
<1>3. /\ p \in Seq(Units) /\ Flights(p) = <<>>
      /\ c.connected = "TlsConnected" => Len(p) = Len(b) /\ p = DataUnits(b)
      /\ c.connected # "TlsConnected" => p = <<>> /\ Len(p) = 0
  <2>1. DataUnits(b) \in Seq(Units) /\ Len(DataUnits(b)) = Len(b)
        /\ Flights(DataUnits(b)) = <<>>
    BY <1>2, DataUnitsParts
  <2>2. <<>> \in Seq(Units) /\ Len(<<>>) = 0 /\ Flights(<<>>) = <<>>
    BY EmptySeq, FlightsParts
  <2>3. p = IF c.connected = "TlsConnected" THEN DataUnits(b) ELSE <<>>
    BY DEF b
  <2> QED
    BY <2>1, <2>2, <2>3
<1>m. m \in 0..Len(p)
  BY DEF WriteRange
<1>w. WritesWell(k, s, p, m, written, k2, s2)
  BY <1>1, <1>3, Writes
<1> HIDE DEF k2, written
<1>4. /\ s2 \in Sessions /\ k2 \in SocketRecords /\ k2.interest = k.interest
      /\ Handshaken(k2, s2) /\ Ordered(k2, s2)
      /\ is_handshaking(s2) <=> is_handshaking(s)
      /\ x \in Seq(Nat) /\ y \in Seq(Nat)
      /\ d \o DataOf(SubSeq(p, 1, m)) = x \o y
  BY <1>w DEF WritesWell
<1> HIDE DEF d, x, y, z
<1>5. m \in 0..Len(b) /\ DataOf(SubSeq(p, 1, m)) = z
  <2>1. CASE c.connected = "TlsConnected"
    BY <2>1, <1>m, <1>2, <1>3, DataUnitsSplit DEF z
  <2>2. CASE c.connected # "TlsConnected"
    <3>1. m = 0 /\ p = <<>> /\ Len(b) \in Nat
      BY <2>2, <1>m, <1>2, <1>3, LenProperties
    <3>2. SubSeq(<<>>, 1, 0) = <<>> /\ SubSeq(b, 1, 0) = <<>> /\ DataOf(<<>>) = <<>>
      BY <1>2, FirstOnes, EmptySeq, DataOfParts
    <3>3. DataOf(SubSeq(p, 1, m)) = <<>> /\ z = <<>>
      BY <3>1, <3>2 DEF z
    <3> QED
      BY <3>1, <3>3
  <2> QED
    BY <2>1, <2>2
<1>6. z \in Seq(Nat) /\ buf \in Seq(Nat) /\ b = z \o buf
  <2>1. buf = SubSeq(b, m + 1, Len(b))
    BY DEF Unsent, b
  <2> QED
    <3>1. \A S : \A q \in Seq(S) : \A j \in 0..Len(q) :
            /\ SubSeq(q, 1, j) \in Seq(S) /\ SubSeq(q, j + 1, Len(q)) \in Seq(S)
            /\ q = SubSeq(q, 1, j) \o SubSeq(q, j + 1, Len(q))
      BY SplitAt, Zenon
    <3>2. /\ SubSeq(b, 1, m) \in Seq(Nat) /\ SubSeq(b, m + 1, Len(b)) \in Seq(Nat)
          /\ b = SubSeq(b, 1, m) \o SubSeq(b, m + 1, Len(b))
      BY <1>2, <1>5, <3>1, Zenon
    <3>3. z = SubSeq(b, 1, m)
      BY DEF z
    <3> HIDE DEF z
    <3> QED
      BY <2>1, <3>2, <3>3
<1>7. t = (w \o x) \o y \o buf
  <2>1. t = w \o d \o (z \o buf) /\ d \o z = x \o y
    BY <1>1, <1>4, <1>5, <1>6
  <2>2. w \o d \in Seq(Nat) /\ w \o x \in Seq(Nat)
    BY <1>1, <1>2, <1>4, ConcatProperties
  <2> DEFINE wd == w \o d
  <2>3. wd \o (z \o buf) = (wd \o z) \o buf
    <3>1. wd \in Seq(Nat)
      BY <2>2
    <3> HIDE DEF wd
    <3>2. Joins(wd, z, buf)
      BY <3>1, <1>6, JoinsAlways
    <3> QED
      BY <3>2 DEF Joins
  <2>4. (w \o d) \o z = w \o (d \o z)
    <3>1. Joins(w, d, z)
      BY <1>1, <1>2, <1>6, JoinsAlways
    <3> QED
      BY <3>1 DEF Joins
  <2>5. (w \o x) \o y = w \o (x \o y)
    <3>1. Joins(w, x, y)
      BY <1>1, <1>4, JoinsAlways
    <3> QED
      BY <3>1 DEF Joins
  <2> QED
    BY <2>1, <2>3, <2>4, <2>5
<1>8. is_handshaking(s2) => w \o x = <<>> /\ y = <<>>
  <2> SUFFICES ASSUME is_handshaking(s2) PROVE w \o x = <<>> /\ y = <<>>
    OBVIOUS
  <2>1. w = <<>> /\ d = <<>> /\ p = <<>> /\ m = 0
    BY <1>m, <1>1, <1>3, <1>4
  <2>2. z = <<>>
    BY <2>1, <1>2, FirstOnes DEF z
  <2>3. x \o y = <<>>
    BY <2>1, <2>2, <1>4, <1>5, ConcatEmptySeq, EmptySeq
  <2>4. x = <<>> /\ y = <<>>
    BY <2>3, <1>4, EmptyParts
  <2> QED
    BY <2>1, <2>4, ConcatEmptySeq, EmptySeq
<1>9. w \o x \in Seq(Nat)
  BY <1>1, <1>4, ConcatProperties
<1> DEFINE w2 == w \o x
<1>10. w2 \in Seq(Nat) /\ t = w2 \o y \o buf /\ (is_handshaking(s2) => w2 = <<>> /\ y = <<>>)
  BY <1>7, <1>8, <1>9, SMTT(60)
<1> HIDE DEF w2
<1>11. Moved(k, s, t, k2, s2, w2, buf)
  BY <1>4, <1>6, <1>10 DEF y, Moved
<1>12. ConnectionInv(SettledConnection(c, s2, buf), SettledSocket(c, k2, s2, buf),
                     s2, w2, t, FALSE)
  BY <1>11, Settled
<1> QED
  BY <1>12 DEF w2, x, k2, written

\* A flight or record from the peer.
LEMMA FragmentsParts ==
  ASSUME NEW u \in Units, NEW p \in Parts
  PROVE  /\ Fragments(u, p) \in Seq(Units)
         /\ Flights(Fragments(u, p)) = IF u.kind = "hs" THEN <<u.n>> ELSE <<>>
         /\ DataOf(Fragments(u, p)) = IF u.kind = "data" THEN <<u.n>> ELSE <<>>
<1> DEFINE f == Fragments(u, p)
           e == Unit("empty", 0)
           a == SubSeq(f, 1, p - 1)
           one == <<u>>
<1>1. p \in Nat /\ p >= 1 /\ p \in 1..p
  BY TlsLimitAssumption
<1>2. e \in Units /\ e.kind = "empty"
  BY SingleUnit
<1>3. f \in Seq(Units) /\ Len(f) = p
      /\ \A k \in 1..p : f[k] = IF k = p THEN u ELSE e
  <2>1. f = [k \in 1..p |-> IF k = p THEN u ELSE e]
    BY DEF Fragments
  <2> HIDE DEF f, e
  <2> QED
    BY <2>1, <1>1, <1>2
<1> HIDE DEF f, e
<1>4. p \in 1..Len(f) /\ p - 1 \in 0..Len(f)
  BY <1>1, <1>3
<1>5. /\ a \in Seq(Units) /\ SubSeq(f, 1, Len(f)) = f
      /\ SubSeq(f, 1, p) = a \o <<f[p]>>
  BY <1>3, <1>4, FirstOnes
<1>6. Len(a) = p - 1 /\ \A k \in 1..(p - 1) : a[k] = f[k]
  BY <1>3, <1>4, SplitAt
<1>7. f = a \o one
  BY <1>1, <1>3, <1>5
<1>8. \A k \in 1..Len(a) : a[k] = e
  BY <1>1, <1>3, <1>6
<1> HIDE DEF a
<1>9. Flights(a) = <<>> /\ DataOf(a) = <<>>
  <2>1. Plain[e] = <<>> /\ Flight[e] = <<>>
    BY <1>2 DEF Plain, Flight, IsData
  <2>2. FlatMap(Plain, a) = <<>>
    BY <2>1, <1>5, <1>8, UnitMaps, FlatMapNone
  <2>3. FlatMap(Flight, a) = <<>>
    BY <2>1, <1>5, <1>8, UnitMaps, FlatMapNone
  <2> QED
    BY <2>2, <2>3, <1>5, DataOfUnits DEF Flights
<1>10. one \in Seq(Units)
  OBVIOUS
<1>11. /\ Flights(one) = IF u.kind = "hs" THEN <<u.n>> ELSE <<>>
       /\ DataOf(one) = IF u.kind = "data" THEN <<u.n>> ELSE <<>>
  BY FlightsParts, DataOfParts
<1>12. Flights(one) \in Seq(Nat) /\ DataOf(one) \in Seq(Nat)
  BY <1>10, FlightsParts, DataOfParts
<1> HIDE DEF one
<1>13. Flights(f) = Flights(one) /\ DataOf(f) = DataOf(one)
  <2>1. Flights(a \o one) = Flights(a) \o Flights(one)
        /\ DataOf(a \o one) = DataOf(a) \o DataOf(one)
    BY <1>5, <1>10, FlightsParts, DataOfParts
  <2> QED
    BY <2>1, <1>7, <1>9, <1>12, ConcatEmptySeq
<1> QED
  BY <1>3, <1>11, <1>13 DEF f

=============================================================================
