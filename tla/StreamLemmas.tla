---------------------------- MODULE StreamLemmas ----------------------------
(***************************************************************************)
(* Facts about sequences that the proofs of the other modules share:       *)
(* induction over the natural numbers for a set, what FlattenSeq computes, *)
(* prefixes and the cancellation of a common beginning.                    *)
(*                                                                         *)
(* Induction is stated for a set instead of a predicate, so that it can be *)
(* used with any set the provers can write down; it rests on the fact of   *)
(* WellFoundedInduction that a set of numbers has a least element.         *)
(***************************************************************************)
EXTENDS Integers, Sequences, SequencesExt, SequenceTheorems,
        WellFoundedInduction, TLAPS

-----------------------------------------------------------------------------
(* Induction.                                                              *)

\* A set of natural numbers that is not empty has a least element.
LEMMA LeastNumber ==
  ASSUME NEW T, T \subseteq Nat, T # {}
  PROVE  \E x \in T : \A y \in T : ~(y < x)
<1> DEFINE R == OpToRel(<, Nat)
<1>1. IsWellFoundedOn(R, Nat)
  BY NatLessThanWellFounded
<1>2. \A x, y \in Nat : y < x => <<y, x>> \in R
  BY DEF OpToRel
<1> HIDE DEF R
<1>3. \E x \in T : \A y \in T : ~(<<y, x>> \in R)
  BY <1>1, WFMin
<1> QED
  BY <1>2, <1>3

\* A set with 0, and with every successor of a number in it, has all numbers.
LEMMA SetInduction ==
  ASSUME NEW S, 0 \in S, \A n \in Nat : n \in S => n + 1 \in S
  PROVE  \A n \in Nat : n \in S
<1> SUFFICES ASSUME Nat \ S # {} PROVE FALSE
  OBVIOUS
<1>1. PICK x \in Nat \ S : \A y \in Nat \ S : ~(y < x)
  BY LeastNumber
<1>2. x - 1 \in Nat /\ x - 1 < x /\ (x - 1) + 1 = x
  OBVIOUS
<1>3. x - 1 \in S
  BY <1>1, <1>2
<1>4. (x - 1) + 1 \in S
  BY <1>2, <1>3
<1> QED
  BY <1>2, <1>4

-----------------------------------------------------------------------------
(* Concatenation and prefixes.                                             *)

\* The beginning of a concatenation, and what is left.
LEMMA ConcatParts ==
  ASSUME NEW S, NEW a \in Seq(S), NEW b \in Seq(S)
  PROVE  /\ a \o b \in Seq(S) /\ Len(a \o b) = Len(a) + Len(b)
         /\ SubSeq(a \o b, 1, Len(a)) = a
         /\ SubSeq(a \o b, Len(a) + 1, Len(a \o b)) = b
         /\ \A k \in 1..Len(a) : (a \o b)[k] = a[k]
         /\ \A k \in 1..Len(b) : (a \o b)[Len(a) + k] = b[k]
<1>1. Len(a) \in Nat /\ Len(b) \in Nat
  BY LenProperties
<1>2. /\ a \o b \in Seq(S) /\ Len(a \o b) = Len(a) + Len(b)
      /\ \A i \in 1..(Len(a) + Len(b)) :
           (a \o b)[i] = IF i <= Len(a) THEN a[i] ELSE b[i - Len(a)]
  BY ConcatProperties
<1>3. SubSeq(a \o b, 1, Len(a)) = a
  BY SubSeqOfConcat1, SubSeqFull, <1>1
<1>4. SubSeq(a \o b, Len(a) + 1, Len(a \o b)) = b
  BY SubSeqOfConcat2, SubSeqFull, <1>1, <1>2
<1>5. \A k \in 1..Len(a) : (a \o b)[k] = a[k]
  BY <1>1, <1>2
<1>6. \A k \in 1..Len(b) : (a \o b)[Len(a) + k] = b[k]
  <2> SUFFICES ASSUME NEW k \in 1..Len(b)
               PROVE  (a \o b)[Len(a) + k] = b[k]
    OBVIOUS
  <2>1. Len(a) + k \in 1..(Len(a) + Len(b)) /\ ~(Len(a) + k <= Len(a))
        /\ (Len(a) + k) - Len(a) = k
    BY <1>1
  <2> QED
    BY <1>2, <2>1
<1> QED
  BY <1>2, <1>3, <1>4, <1>5, <1>6

\* Three sequences can be joined in either order.
Joins(a, b, c) == (a \o b) \o c = a \o (b \o c)

\* Concatenation is associative.
LEMMA JoinsAlways ==
  ASSUME NEW S
  PROVE  \A a, b, c \in Seq(S) : Joins(a, b, c)
  BY ConcatAssociative DEF Joins

\* A common beginning cancels.
LEMMA ConcatCancel ==
  ASSUME NEW S, NEW a \in Seq(S), NEW b \in Seq(S), NEW c \in Seq(S),
         a \o b = a \o c
  PROVE  b = c
<1>1. SubSeq(a \o b, Len(a) + 1, Len(a \o b)) = b
  BY ConcatParts, SMTT(60)
<1>2. SubSeq(a \o c, Len(a) + 1, Len(a \o c)) = c
  BY ConcatParts
<1> QED
  BY <1>1, <1>2

\* A sequence split at a position.
LEMMA SplitAt ==
  ASSUME NEW S, NEW s \in Seq(S), NEW n \in 0..Len(s)
  PROVE  /\ SubSeq(s, 1, n) \in Seq(S) /\ Len(SubSeq(s, 1, n)) = n
         /\ SubSeq(s, n + 1, Len(s)) \in Seq(S)
         /\ Len(SubSeq(s, n + 1, Len(s))) = Len(s) - n
         /\ s = SubSeq(s, 1, n) \o SubSeq(s, n + 1, Len(s))
         /\ \A k \in 1..n : SubSeq(s, 1, n)[k] = s[k]
         /\ \A k \in 1..(Len(s) - n) : SubSeq(s, n + 1, Len(s))[k] = s[n + k]
<1>1. Len(s) \in Nat /\ \A i \in 1..Len(s) : s[i] \in S
  BY LenProperties, ElementOfSeq
<1>2. /\ SubSeq(s, 1, n) \in Seq(S) /\ Len(SubSeq(s, 1, n)) = n
      /\ \A k \in 1..n : SubSeq(s, 1, n)[k] = s[k]
  <2>1. 1 \in Int /\ n \in Int /\ \A i \in 1..n : s[i] \in S
    BY <1>1
  <2>2. /\ SubSeq(s, 1, n) \in Seq(S)
        /\ Len(SubSeq(s, 1, n)) = IF 1 <= n THEN n - 1 + 1 ELSE 0
        /\ \A i \in 1..(n - 1 + 1) : SubSeq(s, 1, n)[i] = s[1 + i - 1]
    BY <2>1, SubSeqProperties
  <2> QED
    BY <2>2, <1>1
<1>3. /\ SubSeq(s, n + 1, Len(s)) \in Seq(S)
      /\ Len(SubSeq(s, n + 1, Len(s))) = Len(s) - n
      /\ \A k \in 1..(Len(s) - n) : SubSeq(s, n + 1, Len(s))[k] = s[n + k]
  <2>1. /\ n + 1 \in Int /\ Len(s) \in Int
        /\ \A i \in (n + 1)..Len(s) : s[i] \in S
    BY <1>1
  <2>2. LET m == n + 1 IN
        /\ SubSeq(s, m, Len(s)) \in Seq(S)
        /\ Len(SubSeq(s, m, Len(s))) = IF m <= Len(s) THEN Len(s) - m + 1 ELSE 0
        /\ \A i \in 1..(Len(s) - m + 1) :
             SubSeq(s, m, Len(s))[i] = s[m + i - 1]
    BY <2>1, SubSeqProperties
  <2> QED
    BY <2>2, <1>1
<1>4. SubSeq(s, 1, Len(s)) = SubSeq(s, 1, n) \o SubSeq(s, n + 1, Len(s))
  <2>1. 1 \in 1..Len(s)+1 /\ n \in 1-1..Len(s) /\ Len(s) \in n..Len(s)
    BY <1>1
  <2> QED
    BY <2>1, ConcatAdjacentSubSeq
<1>5. SubSeq(s, 1, Len(s)) = s
  BY SubSeqFull
<1> QED
  BY <1>2, <1>3, <1>4, <1>5

-----------------------------------------------------------------------------
(* FlattenSeq.                                                             *)

\* g is the function FlattenSeq builds for the first n of the sequences ss.
Flattens(g, ss, n) ==
  g = [i \in 1..n |-> IF i = 1 THEN ss[i] ELSE g[i - 1] \o ss[i]]

\* There is such a function.
LEMMA FlattensExists ==
  ASSUME NEW ss
  PROVE  \A n \in Nat : \E g : Flattens(g, ss, n)
<1> DEFINE S == {n \in Nat : \E g : Flattens(g, ss, n)}
<1>1. 0 \in S
  <2>1. Flattens([i \in 1..0 |-> <<>>], ss, 0)
    BY DEF Flattens
  <2> QED
    BY <2>1
<1>2. ASSUME NEW n \in Nat, n \in S
      PROVE  n + 1 \in S
  <2>1. PICK g : Flattens(g, ss, n)
    BY <1>2
  <2> DEFINE h == [i \in 1..(n + 1) |->
                     IF i = 1 THEN ss[i] ELSE g[i - 1] \o ss[i]]
  <2>2. \A i \in 1..n : h[i] = g[i]
    <3>1. \A i \in 1..n :
            g[i] = IF i = 1 THEN ss[i] ELSE g[i - 1] \o ss[i]
      BY <2>1, Zenon DEF Flattens
    <3>2. \A i \in 1..n : i \in 1..(n + 1)
      OBVIOUS
    <3> QED
      BY <3>1, <3>2, Zenon
  <2>3. \A i \in 1..(n + 1) : i # 1 => i - 1 \in 1..n
    OBVIOUS
  <2>4. h = [i \in 1..(n + 1) |-> IF i = 1 THEN ss[i] ELSE h[i - 1] \o ss[i]]
    BY <2>2, <2>3
  <2>5. Flattens(h, ss, n + 1)
    BY <2>4 DEF Flattens
  <2> QED
    BY <2>5
<1>3. \A n \in Nat : n \in S
  <2> HIDE DEF S
  <2> QED
    BY <1>1, <1>2, SetInduction
<1> QED
  BY <1>3

\* FlattenSeq returns the last value of any such function.
LEMMA FlattensValue ==
  ASSUME NEW S, NEW ss \in Seq(Seq(S)), NEW g, Flattens(g, ss, Len(ss)),
         ss # <<>>
  PROVE  FlattenSeq(ss) = g[Len(ss)]
<1>1. Len(ss) \in Nat /\ Len(ss) # 0
  BY LenProperties, EmptySeq
<1> DEFINE f == CHOOSE h : Flattens(h, ss, Len(ss))
<1>2. Flattens(f, ss, Len(ss))
  OBVIOUS
<1>3. FlattenSeq(ss) = f[Len(ss)]
  BY <1>1 DEF FlattenSeq, Flattens
<1> HIDE DEF f
<1> DEFINE T == {n \in Nat : n \in 1..Len(ss) => f[n] = g[n]}
<1>4. 0 \in T
  OBVIOUS
<1>5. ASSUME NEW n \in Nat, n \in T
      PROVE  n + 1 \in T
  <2> SUFFICES ASSUME n + 1 \in 1..Len(ss)
               PROVE  f[n + 1] = g[n + 1]
    OBVIOUS
  <2>1. CASE n = 0
    BY <1>2, <2>1 DEF Flattens
  <2>2. CASE n # 0
    <3>1. n \in 1..Len(ss) /\ (n + 1) - 1 = n /\ n + 1 # 1
      BY <1>1, <2>2
    <3>2. f[n + 1] = f[n] \o ss[n + 1] /\ g[n + 1] = g[n] \o ss[n + 1]
      BY <1>2, <3>1 DEF Flattens
    <3> QED
      BY <1>5, <3>1, <3>2
  <2> QED
    BY <2>1, <2>2
<1>6. \A n \in Nat : n \in T
  <2> HIDE DEF T
  <2> QED
    BY <1>4, <1>5, SetInduction
<1> QED
  BY <1>1, <1>3, <1>6

\* Flattening no sequence yields the empty one.
LEMMA FlattenEmpty == FlattenSeq(<<>>) = <<>>
  BY EmptySeq DEF FlattenSeq

\* Flattening one sequence yields that sequence.
LEMMA FlattenOne ==
  ASSUME NEW S, NEW s \in Seq(S)
  PROVE  FlattenSeq(<<s>>) = s
<1> DEFINE g == [i \in 1..1 |-> s]
           ss == <<s>>
<1>1. ss \in Seq(Seq(S)) /\ Len(ss) = 1 /\ ss[1] = s /\ ss # <<>>
  OBVIOUS
<1>2. Flattens(g, ss, Len(ss))
  BY <1>1 DEF Flattens
<1> HIDE DEF ss
<1>3. FlattenSeq(ss) = g[Len(ss)]
  BY <1>1, <1>2, FlattensValue
<1> QED
  BY <1>1, <1>3 DEF ss

\* A sequence at the end comes last.
LEMMA FlattenAppend ==
  ASSUME NEW S, NEW ss \in Seq(Seq(S)), NEW s \in Seq(S)
  PROVE  FlattenSeq(Append(ss, s)) = FlattenSeq(ss) \o s
<1> DEFINE tt == Append(ss, s)
           n == Len(ss)
<1>1. n \in Nat
  BY LenProperties
<1>2. /\ tt \in Seq(Seq(S)) /\ tt # <<>> /\ Len(tt) = n + 1
      /\ \A i \in 1..n : tt[i] = ss[i]
      /\ tt[n + 1] = s
  BY AppendProperties
<1> HIDE DEF tt, n
<1>3. PICK h : Flattens(h, tt, n + 1)
  <2>1. n + 1 \in Nat
    BY <1>1
  <2>2. \A k \in Nat : \E h : Flattens(h, tt, k)
    BY FlattensExists
  <2> QED
    BY <2>1, <2>2
<1>h. \A i \in 1..(n + 1) :
        h[i] = IF i = 1 THEN tt[i] ELSE h[i - 1] \o tt[i]
  BY <1>3, Zenon DEF Flattens
<1>4. FlattenSeq(tt) = h[n + 1]
  BY <1>2, <1>3, FlattensValue
<1>5. CASE n = 0
  <2>1. ss = <<>>
    BY <1>5, EmptySeq DEF n
  <2>2. h[n + 1] = s
    <3>1. n + 1 \in 1..(n + 1) /\ n + 1 = 1
      BY <1>5
    <3> QED
      BY <1>2, <1>h, <3>1
  <2> QED
    BY <1>4, <2>1, <2>2, FlattenEmpty, ConcatEmptySeq DEF tt
<1>6. CASE n # 0
  <2> DEFINE g == [i \in 1..n |-> h[i]]
  <2>1. Flattens(g, ss, n)
    <3>1. \A i \in 1..n : i # 1 => i - 1 \in 1..n
      BY <1>1
    <3>2. \A i \in 1..n : h[i] = IF i = 1 THEN tt[i] ELSE h[i - 1] \o tt[i]
      BY <1>1, <1>h
    <3>3. g = [i \in 1..n |-> IF i = 1 THEN ss[i] ELSE g[i - 1] \o ss[i]]
      BY <1>2, <3>1, <3>2, SMTT(60)
    <3> QED
      BY <3>3 DEF Flattens
  <2>2. FlattenSeq(ss) = g[n] /\ g[n] = h[n]
    <3>1. ss # <<>>
      BY <1>6, EmptySeq DEF n
    <3>2. FlattenSeq(ss) = g[n]
      BY <2>1, <3>1, FlattensValue DEF n
    <3> QED
      BY <1>1, <1>6, <3>2
  <2>3. h[n + 1] = h[n] \o s
    <3>1. n + 1 \in 1..(n + 1) /\ n + 1 # 1 /\ (n + 1) - 1 = n
      BY <1>1, <1>6
    <3>2. h[n + 1] = h[(n + 1) - 1] \o tt[n + 1]
      BY <1>h, <3>1
    <3> QED
      BY <1>2, <3>1, <3>2
  <2> QED
    BY <1>4, <2>2, <2>3 DEF tt
<1> QED
  BY <1>5, <1>6

\* What is flattened is a sequence of the elements, and flattening a
\* concatenation concatenates.
LEMMA FlattenConcat ==
  ASSUME NEW S, NEW ss \in Seq(Seq(S)), NEW tt \in Seq(Seq(S))
  PROVE  /\ FlattenSeq(ss) \in Seq(S)
         /\ FlattenSeq(ss \o tt) = FlattenSeq(ss) \o FlattenSeq(tt)
<1>a. Len(tt) \in Nat /\ Len(ss) \in Nat
  BY LenProperties
<1>1. \A rr \in Seq(Seq(S)) : FlattenSeq(rr) \in Seq(S)
  <2> DEFINE T == {n \in Nat : \A rr \in Seq(Seq(S)) :
                      Len(rr) = n => FlattenSeq(rr) \in Seq(S)}
  <2>1. 0 \in T
    BY EmptySeq, FlattenEmpty
  <2>2. ASSUME NEW n \in Nat, n \in T
        PROVE  n + 1 \in T
    <3> SUFFICES ASSUME NEW rr \in Seq(Seq(S)), Len(rr) = n + 1
                 PROVE  FlattenSeq(rr) \in Seq(S)
      OBVIOUS
    <3>1. rr # <<>>
      BY EmptySeq
    <3>2. PICK r \in Seq(Seq(S)), s \in Seq(S) : rr = Append(r, s)
      BY <3>1, SequenceEmptyOrAppend
    <3>3. Len(r) \in Nat /\ Len(r) + 1 = n + 1
      BY <3>2, AppendProperties, LenProperties
    <3>4. Len(r) = n
      BY <3>3
    <3>5. FlattenSeq(r) \in Seq(S)
      BY <2>2, <3>4
    <3> QED
      BY <3>2, <3>5, FlattenAppend, ConcatProperties
  <2>3. \A n \in Nat : n \in T
    <3> HIDE DEF T
    <3> QED
      BY <2>1, <2>2, SetInduction
  <2> QED
    BY <2>3, LenProperties
<1>2. \A rr \in Seq(Seq(S)) :
        FlattenSeq(ss \o rr) = FlattenSeq(ss) \o FlattenSeq(rr)
  <2> DEFINE T == {n \in Nat : \A rr \in Seq(Seq(S)) : Len(rr) = n =>
                     FlattenSeq(ss \o rr) = FlattenSeq(ss) \o FlattenSeq(rr)}
  <2>1. 0 \in T
    <3> SUFFICES ASSUME NEW rr \in Seq(Seq(S)), Len(rr) = 0
                 PROVE  FlattenSeq(ss \o rr) = FlattenSeq(ss) \o FlattenSeq(rr)
      OBVIOUS
    <3>1. rr = <<>>
      BY EmptySeq
    <3>2. ss \o rr = ss
      BY <3>1, ConcatEmptySeq
    <3>3. FlattenSeq(ss) \o FlattenSeq(rr) = FlattenSeq(ss)
      BY <1>1, <3>1, FlattenEmpty, ConcatEmptySeq
    <3> QED
      BY <3>2, <3>3
  <2>2. ASSUME NEW n \in Nat, n \in T
        PROVE  n + 1 \in T
    <3> SUFFICES ASSUME NEW rr \in Seq(Seq(S)), Len(rr) = n + 1
                 PROVE  FlattenSeq(ss \o rr) = FlattenSeq(ss) \o FlattenSeq(rr)
      OBVIOUS
    <3>1. rr # <<>>
      BY EmptySeq
    <3>2. PICK r \in Seq(Seq(S)), s \in Seq(S) : rr = Append(r, s)
      BY <3>1, SequenceEmptyOrAppend
    <3>3. Len(r) \in Nat /\ Len(r) + 1 = n + 1
      BY <3>2, AppendProperties, LenProperties
    <3>4. Len(r) = n
      BY <3>3
    <3>5. FlattenSeq(ss \o r) = FlattenSeq(ss) \o FlattenSeq(r)
      BY <2>2, <3>4
    <3>6. ss \o rr = Append(ss \o r, s)
      <4>1. ss \o r \in Seq(Seq(S)) /\ <<s>> \in Seq(Seq(S))
        BY ConcatProperties
      <4>2. rr = r \o <<s>> /\ Append(ss \o r, s) = (ss \o r) \o <<s>>
        BY <3>2, <4>1, AppendIsConcat
      <4>3. Joins(ss, r, <<s>>)
        BY <4>1, JoinsAlways
      <4> QED
        BY <4>2, <4>3 DEF Joins
    <3>7. FlattenSeq(ss \o rr) = (FlattenSeq(ss) \o FlattenSeq(r)) \o s
      <4>1. ss \o r \in Seq(Seq(S))
        BY ConcatProperties
      <4>2. FlattenSeq(Append(ss \o r, s)) = FlattenSeq(ss \o r) \o s
        BY <4>1, FlattenAppend
      <4> QED
        BY <3>5, <3>6, <4>2
    <3>8. FlattenSeq(rr) = FlattenSeq(r) \o s
      BY <3>2, FlattenAppend
    <3>9. FlattenSeq(ss) \in Seq(S) /\ FlattenSeq(r) \in Seq(S)
      BY <1>1
    <3> DEFINE a == FlattenSeq(ss)
               b == FlattenSeq(r)
    <3>10. (a \o b) \o s = a \o (b \o s)
      <4>1. a \in Seq(S) /\ b \in Seq(S)
        BY <3>9
      <4> HIDE DEF a, b
      <4>2. Joins(a, b, s)
        BY <4>1, JoinsAlways
      <4> QED
        BY <4>2 DEF Joins
    <3> QED
      BY <3>7, <3>8, <3>10
  <2>3. \A n \in Nat : n \in T
    <3> HIDE DEF T
    <3> QED
      BY <2>1, <2>2, SetInduction
  <2> QED
    BY <2>3, LenProperties
<1> QED
  BY <1>1, <1>2

\* The sequences f makes of the elements of s, one after the other.
FlatMap(f, s) == FlattenSeq([k \in 1..Len(s) |-> f[s[k]]])

Flattened(f, D, S) ==
  /\ FlatMap(f, <<>>) = <<>>
  /\ \A m \in D : FlatMap(f, <<m>>) = f[m]
  /\ \A a \in Seq(D) : FlatMap(f, a) \in Seq(S)
  /\ \A a, b \in Seq(D) : FlatMap(f, a \o b) = FlatMap(f, a) \o FlatMap(f, b)

\* Mapping and flattening distributes over concatenation.
LEMMA FlatMapParts ==
  ASSUME NEW D, NEW S, NEW f \in [D -> Seq(S)]
  PROVE  Flattened(f, D, S)
<1> DEFINE F(ms) == [k \in 1..Len(ms) |-> f[ms[k]]]
<1>1. \A ms \in Seq(D) :
        F(ms) \in Seq(Seq(S)) /\ Len(F(ms)) = Len(ms)
        /\ \A k \in 1..Len(ms) : F(ms)[k] = f[ms[k]]
  <2> SUFFICES ASSUME NEW ms \in Seq(D)
               PROVE  F(ms) \in Seq(Seq(S)) /\ Len(F(ms)) = Len(ms)
    OBVIOUS
  <2>1. Len(ms) \in Nat
    BY LenProperties
  <2>2. \A k \in 1..Len(ms) : f[ms[k]] \in Seq(S)
    BY ElementOfSeq
  <2>3. F(ms) \in [1..Len(ms) -> Seq(S)]
    BY <2>2
  <2>4. F(ms) \in Seq(Seq(S))
    BY <2>1, <2>3, SeqDef
  <2> HIDE DEF F
  <2>5. DOMAIN F(ms) = 1..Len(F(ms)) /\ Len(F(ms)) \in Nat
        /\ DOMAIN F(ms) = 1..Len(ms)
    BY <2>3, <2>4, LenProperties
  <2> QED
    BY <2>1, <2>4, <2>5
<1>2. \A ms \in Seq(D) : FlatMap(f, ms) = FlattenSeq(F(ms))
  BY DEF FlatMap
<1>3. FlatMap(f, <<>>) = <<>>
  <2>1. <<>> \in Seq(D) /\ Len(<<>>) = 0
    BY EmptySeq
  <2>2. F(<<>>) \in Seq(Seq(S)) /\ Len(F(<<>>)) = 0
    BY <1>1, <2>1
  <2>3. F(<<>>) = <<>>
    <3> HIDE DEF F
    <3> QED
      BY <2>2, EmptySeq
  <2> QED
    BY <1>2, <2>1, <2>3, FlattenEmpty
<1>4. ASSUME NEW m \in D
      PROVE  FlatMap(f, <<m>>) = f[m]
  <2>1. <<m>> \in Seq(D) /\ Len(<<m>>) = 1 /\ <<m>>[1] = m
    OBVIOUS
  <2>2. F(<<m>>) \in Seq(Seq(S)) /\ Len(F(<<m>>)) = 1
        /\ F(<<m>>)[1] = f[m]
    <3> DEFINE one == <<m>>
    <3>1. one \in Seq(D) /\ Len(one) = 1 /\ one[1] = m
      BY <2>1
    <3> HIDE DEF one, F
    <3>2. F(one) \in Seq(Seq(S)) /\ Len(F(one)) = 1
          /\ F(one)[1] = f[m]
      BY <1>1, <3>1, SMTT(60)
    <3> QED
      BY <3>2 DEF one
  <2>3. f[m] \in Seq(S)
    OBVIOUS
  <2>4. F(<<m>>) = <<f[m]>>
    <3> DEFINE x == F(<<m>>)
               s == f[m]
               y == <<s>>
    <3>1. x \in Seq(Seq(S)) /\ Len(x) = 1 /\ x[1] = s /\ s \in Seq(S)
      BY <2>2, <2>3
    <3> HIDE DEF x, s
    <3>2. y \in Seq(Seq(S)) /\ Len(y) = 1 /\ y[1] = s
      BY <3>1
    <3> HIDE DEF y
    <3>3. x = y
      BY <3>1, <3>2, SeqEqual
    <3> QED
      BY <3>3 DEF x, y, s
  <2> HIDE DEF F
  <2> QED
    BY <1>2, <2>1, <2>3, <2>4, FlattenOne
<1>5. ASSUME NEW a \in Seq(D), NEW b \in Seq(D)
      PROVE  F(a \o b) = F(a) \o F(b)
  <2>1. a \o b \in Seq(D) /\ Len(a \o b) = Len(a) + Len(b)
        /\ (\A k \in 1..Len(a) : (a \o b)[k] = a[k])
        /\ (\A k \in 1..Len(b) : (a \o b)[Len(a) + k] = b[k])
    BY ConcatParts
  <2>2. Len(a) \in Nat /\ Len(b) \in Nat
    BY LenProperties
  <2> DEFINE x == F(a \o b)
             y == F(a) \o F(b)
  <2>3. x \in Seq(Seq(S)) /\ Len(x) = Len(a) + Len(b)
        /\ \A k \in 1..(Len(a) + Len(b)) : x[k] = f[(a \o b)[k]]
    BY <1>1, <2>1
  <2>4. /\ F(a) \in Seq(Seq(S)) /\ Len(F(a)) = Len(a)
        /\ F(b) \in Seq(Seq(S)) /\ Len(F(b)) = Len(b)
        /\ \A k \in 1..Len(a) : F(a)[k] = f[a[k]]
        /\ \A k \in 1..Len(b) : F(b)[k] = f[b[k]]
    BY <1>1
  <2> HIDE DEF F
  <2>5. y \in Seq(Seq(S)) /\ Len(y) = Len(a) + Len(b)
        /\ (\A k \in 1..Len(a) : y[k] = F(a)[k])
        /\ (\A k \in 1..Len(b) : y[Len(a) + k] = F(b)[k])
    <3>1. F(a) \in Seq(Seq(S)) /\ F(b) \in Seq(Seq(S))
      BY <2>4
    <3>2. y \in Seq(Seq(S)) /\ Len(y) = Len(F(a)) + Len(F(b))
          /\ (\A k \in 1..Len(F(a)) : y[k] = F(a)[k])
          /\ (\A k \in 1..Len(F(b)) : y[Len(F(a)) + k] = F(b)[k])
      BY <3>1, ConcatParts
    <3> QED
      BY <2>4, <3>2
  <2> HIDE DEF x, y
  <2>6. \A i \in 1..Len(x) : x[i] = y[i]
    <3> SUFFICES ASSUME NEW i \in 1..(Len(a) + Len(b)) PROVE x[i] = y[i]
      BY <2>3
    <3>1. CASE i <= Len(a)
      <4>1. i \in 1..Len(a)
        BY <2>2, <3>1
      <4> QED
        BY <2>1, <2>3, <2>4, <2>5, <4>1
    <3>2. CASE i > Len(a)
      <4> DEFINE k == i - Len(a)
      <4>1. k \in 1..Len(b) /\ i = Len(a) + k
        BY <2>2, <3>2
      <4> HIDE DEF k
      <4>2. x[i] = f[(a \o b)[Len(a) + k]]
        BY <2>3, <4>1
      <4>3. y[i] = F(b)[k] /\ F(b)[k] = f[b[k]]
        BY <2>4, <2>5, <4>1
      <4> QED
        BY <2>1, <4>1, <4>2, <4>3
    <3> QED
      BY <2>2, <3>1, <3>2
  <2>7. x = y
    BY <2>3, <2>5, <2>6, SeqEqual
  <2> QED
    BY <2>7 DEF x, y
<1> HIDE DEF F
<1>6. ASSUME NEW a \in Seq(D), NEW b \in Seq(D)
      PROVE  /\ FlatMap(f, a) \in Seq(S)
             /\ FlatMap(f, a \o b) = FlatMap(f, a) \o FlatMap(f, b)
  <2>1. F(a) \in Seq(Seq(S)) /\ F(b) \in Seq(Seq(S)) /\ a \o b \in Seq(D)
    BY <1>1, ConcatParts
  <2>2. FlattenSeq(F(a)) \in Seq(S)
        /\ FlattenSeq(F(a) \o F(b)) = FlattenSeq(F(a)) \o FlattenSeq(F(b))
    BY <2>1, FlattenConcat
  <2>3. F(a \o b) = F(a) \o F(b)
    BY <1>5
  <2> QED
    BY <1>2, <2>1, <2>2, <2>3
<1> QED
  BY <1>3, <1>4, <1>6 DEF Flattened

=============================================================================
