------------------------------ MODULE FoldLemmas ------------------------------
(***************************************************************************)
(* Induction on numbers and on sequences, as statements about sets: a set  *)
(* that has the first and with each the next has all.  And what FlattenSeq *)
(* is, by induction: the concatenation of the parts, one after the other.  *)
(***************************************************************************)
EXTENDS Integers, Sequences, FiniteSets, SequencesExt, SequenceTheorems, FiniteSetTheorems,
        WellFoundedInduction, TLAPS

-----------------------------------------------------------------------------
(* Induction.                                                              *)

\* A set that contains zero and with each number the next contains every number: the
\* numbers outside would have a least one.
LEMMA NatSetInduction ==
  ASSUME NEW T, 0 \in T, \A n \in Nat : n \in T => n + 1 \in T
  PROVE  Nat \subseteq T
<1> DEFINE R == OpToRel(<, Nat)
           C == Nat \ T
<1>1. R = {ss \in Nat \X Nat : ss[1] < ss[2]}
  BY Zenon DEF OpToRel
<1>2. IsWellFoundedOn(R, Nat)
  BY NatLessThanWellFounded, Zenon
<1> HIDE DEF R
<1> SUFFICES ASSUME C # {} PROVE FALSE
  OBVIOUS
<1>3. PICK x \in C : \A y \in C : <<y, x>> \notin R
  <2>1. C \subseteq Nat
    OBVIOUS
  <2> HIDE DEF C
  <2>2. QED
    BY <1>2, <2>1, WFMin
<1>4. x \in Nat /\ x # 0 /\ x \notin T
  OBVIOUS
<1>5. x - 1 \in Nat /\ x - 1 < x /\ (x - 1) + 1 = x
  BY <1>4
<1>6. <<x - 1, x>> \in R
  BY <1>1, <1>4, <1>5
<1>7. x - 1 \in T
  BY <1>3, <1>5, <1>6
<1>8. QED
  BY <1>4, <1>5, <1>7

\* A set that contains the empty sequence and with each sequence those that are longer by
\* one element contains every sequence.
LEMMA SeqSetInduction ==
  ASSUME NEW S, NEW T, <<>> \in T,
         \A s \in Seq(S), x \in S : s \in T => Append(s, x) \in T
  PROVE  Seq(S) \subseteq T
<1> DEFINE N == {n \in Nat : \A s \in Seq(S) : Len(s) = n => s \in T}
<1>1. 0 \in N
  <2>1. \A s \in Seq(S) : Len(s) = 0 => s = <<>>
    BY EmptySeq
  <2>2. QED
    BY <2>1
<1>2. ASSUME NEW n \in Nat, n \in N PROVE n + 1 \in N
  <2> SUFFICES ASSUME NEW s \in Seq(S), Len(s) = n + 1 PROVE s \in T
    OBVIOUS
  <2>1. s # <<>>
    OBVIOUS
  <2>2. PICK r \in Seq(S), x \in S : s = Append(r, x)
    BY <2>1, SequenceEmptyOrAppend
  <2>3. Len(r) = n
    <3>1. Len(s) = Len(r) + 1 /\ Len(r) \in Nat
      BY <2>2, AppendProperties
    <3>2. QED
      BY <3>1
  <2>4. r \in T
    BY <1>2, <2>3
  <2>5. QED
    BY <2>2, <2>4
<1>3. Nat \subseteq N
  <2> HIDE DEF N
  <2>1. QED
    BY <1>1, <1>2, NatSetInduction
<1>4. \A s \in Seq(S) : Len(s) \in N
  BY <1>3
<1>5. QED
  BY <1>4

-----------------------------------------------------------------------------
(* Putting sequences together.                                             *)

\* What is appended to the second part is appended to the whole.
LEMMA ConcatOfAppend ==
  ASSUME NEW S, NEW s \in Seq(S), NEW u \in Seq(S), NEW x \in S
  PROVE  s \o Append(u, x) = Append(s \o u, x)
<1>1. Append(u, x) = u \o <<x>> /\ <<x>> \in Seq(S) /\ s \o u \in Seq(S)
  BY AppendIsConcat, ConcatProperties
<1>2. Append(s \o u, x) = (s \o u) \o <<x>>
  BY <1>1, AppendIsConcat
<1>3. (s \o u) \o <<x>> = s \o (u \o <<x>>)
  BY <1>1, ConcatAssociative
<1>4. QED
  BY <1>1, <1>2, <1>3

\* The elements of two sequences, one after the other.
LEMMA ConcatShape ==
  ASSUME NEW S, NEW s \in Seq(S), NEW w \in Seq(S), NEW z, z = s \o w
  PROVE  /\ z \in Seq(S) /\ Len(s) \in Nat /\ Len(w) \in Nat /\ Len(z) = Len(s) + Len(w)
         /\ DOMAIN s = 1 .. Len(s) /\ DOMAIN w = 1 .. Len(w) /\ DOMAIN z = 1 .. Len(s) + Len(w)
         /\ \A i \in 1 .. Len(s) + Len(w) : z[i] = IF i <= Len(s) THEN s[i] ELSE w[i - Len(s)]
<1>1. z \in Seq(S) /\ Len(z) = Len(s) + Len(w)
  BY ConcatProperties
<1>2. \A i \in 1 .. Len(s) + Len(w) : z[i] = IF i <= Len(s) THEN s[i] ELSE w[i - Len(s)]
  BY ConcatProperties
<1>3. QED
  BY <1>1, <1>2, LenProperties

\* A sequence is its head and then its tail.
LEMMA HeadThenTail ==
  ASSUME NEW S, NEW s \in Seq(S), s # <<>> PROVE s = <<Head(s)>> \o Tail(s)
<1> DEFINE h == Head(s)
           t == Tail(s)
<1>1. h \in S /\ t \in Seq(S) /\ <<h>> \in Seq(S)
  BY HeadTailProperties
<1>2. Len(t) = Len(s) - 1 /\ Len(s) \in Nat /\ \A i \in 1 .. Len(t) : t[i] = s[i + 1]
  BY HeadTailProperties, LenProperties
<1>3. /\ <<h>> \o t \in Seq(S) /\ Len(<<h>> \o t) = 1 + Len(t)
      /\ \A i \in 1 .. 1 + Len(t) : (<<h>> \o t)[i] = IF i <= 1 THEN <<h>>[i] ELSE t[i - 1]
  <2>1. Len(<<h>>) = 1
    OBVIOUS
  <2> HIDE DEF h, t
  <2>2. QED
    BY <1>1, <2>1, ConcatProperties
<1>4. h = s[1]
  OBVIOUS
<1>5. ASSUME NEW i \in 1 .. Len(s) PROVE s[i] = (<<h>> \o t)[i]
  <2>1. CASE i = 1
    <3>1. (<<h>> \o t)[1] = <<h>>[1]
      BY <1>2, <1>3
    <3>2. QED
      BY <1>4, <2>1, <3>1
  <2>2. CASE i # 1
    <3>1. i - 1 \in 1 .. Len(t) /\ (i - 1) + 1 = i /\ ~(i <= 1) /\ i \in 1 .. 1 + Len(t)
      BY <1>2, <2>2
    <3>2. QED
      BY <1>2, <1>3, <3>1
  <2>3. QED
    BY <2>1, <2>2
<1>6. Len(s) = Len(<<h>> \o t)
  BY <1>2, <1>3
<1> HIDE DEF h, t
<1>7. s = <<h>> \o t
  BY <1>3, <1>5, <1>6, SeqEqual
<1>8. QED
  BY <1>7 DEF h, t

-----------------------------------------------------------------------------
(* FlattenSeq.                                                             *)

\* The function that FlattenSeq defines by recursion.
Parts(s, n, f) == f = [i \in 1 .. n |-> IF i = 1 THEN s[i] ELSE f[i - 1] \o s[i]]

\* There is one, for any number of parts.
LEMMA PartsExist == ASSUME NEW s, NEW m \in Nat PROVE \E f : Parts(s, m, f)
<1> DEFINE T == {n \in Nat : \E f : Parts(s, n, f)}
<1>1. 0 \in T
  <2> DEFINE f == [i \in 1 .. 0 |-> IF i = 1 THEN s[i] ELSE <<>>]
  <2>1. f = [i \in 1 .. 0 |-> IF i = 1 THEN s[i] ELSE f[i - 1] \o s[i]]
    OBVIOUS
  <2> HIDE DEF f
  <2>2. Parts(s, 0, f)
    BY <2>1 DEF Parts
  <2>3. QED
    BY <2>2
<1>2. ASSUME NEW n \in Nat, n \in T PROVE n + 1 \in T
  <2>1. PICK f : Parts(s, n, f)
    BY <1>2
  <2> DEFINE e(i) == IF i <= n THEN f[i] ELSE IF n = 0 THEN s[i] ELSE f[n] \o s[i]
             g == [i \in 1 .. n + 1 |-> e(i)]
  <2>2. ASSUME NEW i \in 1 .. n + 1
        PROVE  e(i) = IF i = 1 THEN s[i] ELSE g[i - 1] \o s[i]
    <3>1. CASE i <= n
      <4>1. i \in 1 .. n /\ e(i) = f[i]
        BY <3>1
      <4>2. f[i] = IF i = 1 THEN s[i] ELSE f[i - 1] \o s[i]
        BY <2>1, <4>1 DEF Parts
      <4>3. i # 1 => i - 1 \in 1 .. n + 1 /\ i - 1 <= n
        BY <3>1
      <4>4. i # 1 => g[i - 1] = f[i - 1]
        BY <4>3
      <4>5. QED
        BY <4>1, <4>2, <4>4
    <3>2. CASE i = n + 1 /\ n = 0
      BY <3>2
    <3>3. CASE i = n + 1 /\ n # 0
      <4>1. ~(i <= n) /\ i # 1 /\ i - 1 = n /\ n \in 1 .. n + 1 /\ n <= n
        BY <3>3
      <4>2. e(i) = f[n] \o s[i]
        BY <3>3, <4>1
      <4>3. g[n] = f[n]
        BY <4>1
      <4>4. g[i - 1] = f[n]
        BY <4>1, <4>3
      <4> HIDE DEF e, g
      <4>5. QED
        BY <4>1, <4>2, <4>4
    <3>4. QED
      BY <3>1, <3>2, <3>3
  <2>3. g = [i \in 1 .. n + 1 |-> IF i = 1 THEN s[i] ELSE g[i - 1] \o s[i]]
    <3> HIDE DEF e
    <3>1. g = [i \in 1 .. n + 1 |-> e(i)]
      OBVIOUS
    <3> HIDE DEF g
    <3>2. QED
      BY <2>2, <3>1
  <2> HIDE DEF g
  <2>4. Parts(s, n + 1, g)
    BY <2>3 DEF Parts
  <2>5. QED
    BY <2>4
<1>3. Nat \subseteq T
  <2> HIDE DEF T
  <2>1. QED
    BY <1>1, <1>2, NatSetInduction
<1>4. QED
  BY <1>3

Agree(s, t, n) == \A i \in 1 .. n : s[i] = t[i]

\* Two sequences with a common beginning have the same parts there.
LEMMA PartsAgree ==
  ASSUME NEW s, NEW t, NEW n \in Nat, NEW m \in Nat, n <= m, NEW f, NEW g,
         Agree(s, t, n), Parts(s, n, f), Parts(t, m, g)
  PROVE  Agree(f, g, n)
<1> DEFINE T == {i \in Nat : i \in 1 .. n => f[i] = g[i]}
<1>1. 0 \in T
  OBVIOUS
<1>2. ASSUME NEW i \in Nat, i \in T PROVE i + 1 \in T
  <2> SUFFICES ASSUME i + 1 \in 1 .. n PROVE f[i + 1] = g[i + 1]
    OBVIOUS
  <2>1. f[i + 1] = IF i + 1 = 1 THEN s[i + 1] ELSE f[(i + 1) - 1] \o s[i + 1]
    BY DEF Parts
  <2>2. i + 1 \in 1 .. m
    OBVIOUS
  <2>3. g[i + 1] = IF i + 1 = 1 THEN t[i + 1] ELSE g[(i + 1) - 1] \o t[i + 1]
    BY <2>2 DEF Parts
  <2>4. s[i + 1] = t[i + 1]
    BY DEF Agree
  <2>5. i + 1 # 1 => f[i] = g[i]
    BY <1>2
  <2>6. (i + 1) - 1 = i
    OBVIOUS
  <2>7. QED
    BY <2>1, <2>3, <2>4, <2>5, <2>6
<1>3. Nat \subseteq T
  <2> HIDE DEF T
  <2>1. QED
    BY <1>1, <1>2, NatSetInduction
<1>4. QED
  BY <1>3 DEF Agree

\* FlattenSeq is the last of its parts.
LEMMA FlattenIsLastPart ==
  ASSUME NEW s, Len(s) \in Nat, Len(s) # 0
  PROVE  \E f : Parts(s, Len(s), f) /\ FlattenSeq(s) = f[Len(s)]
<1> DEFINE f[i \in 1 .. Len(s)] == IF i = 1 THEN s[i] ELSE f[i - 1] \o s[i]
<1>1. FlattenSeq(s) = f[Len(s)]
  BY DEF FlattenSeq
<1>2. f = CHOOSE h : h = [i \in 1 .. Len(s) |-> IF i = 1 THEN s[i] ELSE h[i - 1] \o s[i]]
  OBVIOUS
<1>3. f = CHOOSE h : Parts(s, Len(s), h)
  BY <1>2 DEF Parts
<1> HIDE DEF f
<1>4. Parts(s, Len(s), f)
  BY <1>3, PartsExist
<1>5. QED
  BY <1>1, <1>4

\* FlattenSeq part by part.
LEMMA FlattenEmpty == FlattenSeq(<<>>) = <<>>
BY DEF FlattenSeq

\* Another part comes last.
LEMMA FlattenAppend ==
  ASSUME NEW S, NEW s \in Seq(Seq(S)), NEW x \in Seq(S)
  PROVE  FlattenSeq(Append(s, x)) = FlattenSeq(s) \o x
<1> DEFINE t == Append(s, x)
           n == Len(s)
<1>1. /\ Len(t) = n + 1 /\ n \in Nat
      /\ \A i \in 1 .. n : t[i] = s[i]
      /\ t[n + 1] = x
  BY AppendProperties, LenProperties
<1> HIDE DEF t
<1>2. PICK g : Parts(t, n + 1, g) /\ FlattenSeq(t) = g[n + 1]
  <2>1. Len(t) \in Nat /\ Len(t) # 0
    BY <1>1
  <2>2. QED
    BY <1>1, <2>1, FlattenIsLastPart
<1>3. CASE n = 0
  <2>1. s = <<>>
    BY <1>3, EmptySeq
  <2>2. g[1] = t[1]
    BY <1>2, <1>3 DEF Parts
  <2>3. FlattenSeq(t) = x
    BY <1>1, <1>2, <1>3, <2>2
  <2>4. <<>> \o x = x
    BY ConcatEmptySeq
  <2>5. QED
    BY <2>1, <2>3, <2>4, FlattenEmpty DEF t
<1>4. CASE n # 0
  <2>1. PICK f : Parts(s, n, f) /\ FlattenSeq(s) = f[n]
    BY <1>1, <1>4, FlattenIsLastPart
  <2>2. f[n] = g[n]
    <3>1. n \in Nat /\ n + 1 \in Nat /\ n <= n + 1 /\ n \in 1 .. n
      BY <1>1, <1>4
    <3>2. Agree(s, t, n)
      BY <1>1 DEF Agree
    <3>3. Parts(s, n, f)
      BY <2>1
    <3>4. Parts(t, n + 1, g)
      BY <1>2
    <3> HIDE DEF n
    <3>5. PICK m \in Nat : m = n + 1
      BY <3>1
    <3>6. n <= m /\ Parts(t, m, g)
      BY <3>1, <3>4, <3>5
    <3>7. Agree(f, g, n)
      BY <3>1, <3>2, <3>3, <3>6, PartsAgree
    <3>8. QED
      BY <3>1, <3>7 DEF Agree
  <2>3. g[n + 1] = g[(n + 1) - 1] \o t[n + 1]
    <3>1. n + 1 \in 1 .. n + 1 /\ n + 1 # 1
      BY <1>1, <1>4
    <3>2. QED
      BY <1>2, <3>1 DEF Parts
  <2>4. (n + 1) - 1 = n
    BY <1>1
  <2>5. QED
    BY <1>1, <1>2, <2>1, <2>2, <2>3, <2>4 DEF t
<1>5. QED
  BY <1>3, <1>4

\* The whole is a sequence of what the parts are sequences of.
LEMMA FlattenType ==
  ASSUME NEW S, NEW s \in Seq(Seq(S)) PROVE FlattenSeq(s) \in Seq(S)
<1> DEFINE T == {r \in Seq(Seq(S)) : FlattenSeq(r) \in Seq(S)}
<1>1. <<>> \in T
  BY FlattenEmpty, EmptySeq
<1>2. ASSUME NEW r \in Seq(Seq(S)), NEW x \in Seq(S), r \in T PROVE Append(r, x) \in T
  <2>1. FlattenSeq(Append(r, x)) = FlattenSeq(r) \o x
    BY FlattenAppend
  <2>2. FlattenSeq(r) \o x \in Seq(S)
    BY <1>2, ConcatProperties
  <2>3. Append(r, x) \in Seq(Seq(S))
    BY AppendProperties
  <2>4. QED
    BY <2>1, <2>2, <2>3
<1>3. Seq(Seq(S)) \subseteq T
  <2> HIDE DEF T
  <2>1. QED
    BY <1>1, <1>2, SeqSetInduction
<1>4. QED
  BY <1>3

\* What holds of the elements of every part holds of all elements of the whole.
LEMMA FlattenElements ==
  ASSUME NEW S, NEW s \in Seq(Seq(S)), NEW E,
         \A k \in DOMAIN s : \A i \in DOMAIN s[k] : s[k][i] \in E
  PROVE  \A i \in DOMAIN FlattenSeq(s) : FlattenSeq(s)[i] \in E
<1> DEFINE R == S \cap E
<1>1. s \in Seq(Seq(R))
  <2>1. DOMAIN s = 1 .. Len(s) /\ Len(s) \in Nat
    BY LenProperties
  <2>2. ASSUME NEW k \in 1 .. Len(s) PROVE s[k] \in Seq(R)
    <3>1. s[k] \in Seq(S)
      BY <2>2, ElementOfSeq
    <3>2. Len(s[k]) \in Nat /\ DOMAIN s[k] = 1 .. Len(s[k]) /\ s[k] \in [1 .. Len(s[k]) -> S]
      BY <3>1, LenProperties
    <3>3. s[k] \in [1 .. Len(s[k]) -> R]
      BY <2>1, <2>2, <3>2
    <3>4. QED
      BY <3>2, <3>3, SeqDef
  <2>3. s \in [1 .. Len(s) -> Seq(R)]
    BY <2>2, LenProperties
  <2> HIDE DEF R
  <2>4. s \in UNION {[1 .. n -> Seq(R)] : n \in Nat}
    BY <2>1, <2>3
  <2>5. QED
    BY <2>4, SeqDef
<1>2. FlattenSeq(s) \in Seq(R)
  BY <1>1, FlattenType
<1>3. QED
  BY <1>2, LenProperties

-----------------------------------------------------------------------------
(* Last elements and enumerations.                                         *)

\* Some indices of a sequence have a last one among them.
LEMMA HasLast ==
  ASSUME NEW m \in Nat, NEW K \in SUBSET (1 .. m), K # {}
  PROVE  \E i \in K : \A j \in K : j <= i
<1> DEFINE T == {n \in Nat : \A I \in SUBSET (1 .. n) :
                   I # {} => \E i \in I : \A j \in I : j <= i}
<1>1. 0 \in T
  <2>1. 1 .. 0 = {}
    OBVIOUS
  <2>2. QED
    BY <2>1
<1>2. ASSUME NEW n \in Nat, n \in T PROVE n + 1 \in T
  <2> SUFFICES ASSUME NEW I \in SUBSET (1 .. n + 1), I # {}
               PROVE  \E i \in I : \A j \in I : j <= i
    OBVIOUS
  <2>1. CASE n + 1 \in I
    <3>1. \A j \in I : j <= n + 1
      OBVIOUS
    <3>2. QED
      BY <2>1, <3>1
  <2>2. CASE n + 1 \notin I
    <3>1. I \in SUBSET (1 .. n)
      BY <2>2
    <3>2. QED
      BY <1>2, <3>1
  <2>3. QED
    BY <2>1, <2>2
<1>3. Nat \subseteq T
  <2> HIDE DEF T
  <2>1. QED
    BY <1>1, <1>2, NatSetInduction
<1>4. m \in T
  BY <1>3
<1>5. QED
  BY <1>4

\* SetToSeq of a finite set has each of its elements once.
LEMMA SetToSeqOnce ==
  ASSUME NEW S, IsFiniteSet(S)
  PROVE  /\ SetToSeq(S) \in Seq(S)
         /\ \A x \in S : \E i \in DOMAIN SetToSeq(S) : SetToSeq(S)[i] = x
         /\ \A i, j \in DOMAIN SetToSeq(S) :
              SetToSeq(S)[i] = SetToSeq(S)[j] => i = j
<1> DEFINE n == Cardinality(S)
           q == SetToSeq(S)
<1>1. n \in Nat /\ \E f : f \in Bijection(1 .. n, S)
  <2>1. n \in Nat /\ ExistsBijection(1 .. n, S)
    BY FS_CardinalityType
  <2>2. QED
    BY <2>1 DEF ExistsBijection
<1>2. \E f \in [1 .. n -> S] : IsInjective(f)
  BY <1>1, Zenon DEF Bijection, Injection
<1>3. q \in [1 .. n -> S] /\ IsInjective(q)
  BY <1>2, Zenon DEF SetToSeq
<1> HIDE DEF q
<1>4. q \in Injection(1 .. n, S)
  BY <1>3, Zenon DEF Injection
<1>5. q \in Surjection(1 .. n, S)
  <2>1. IsFiniteSet(1 .. n) /\ Cardinality(1 .. n) = n
    <3>1. IsFiniteSet(1 .. n) /\ Cardinality(1 .. n) = IF 1 > n THEN 0 ELSE n - 1 + 1
      BY <1>1, FS_Interval
    <3>2. QED
      BY <1>1, <3>1
  <2>2. QED
    BY <1>4, <2>1, FS_Injection
<1>6. q \in Seq(S) /\ DOMAIN q = 1 .. n
  BY <1>1, <1>3, SeqDef
<1>7. \A x \in S : \E i \in DOMAIN q : q[i] = x
  BY <1>5, <1>6, Zenon DEF Surjection
<1>8. \A i, j \in DOMAIN q : q[i] = q[j] => i = j
  BY <1>3, Zenon DEF IsInjective
<1>9. QED
  BY <1>6, <1>7, <1>8 DEF q
=============================================================================
