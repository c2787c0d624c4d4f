---------------------------- MODULE CommentsProofs ----------------------------
(***************************************************************************)
(* Proofs about the comments of a post, for any comments, any number of    *)
(* versions and any interleaving of readers, deletions and appends.        *)
(***************************************************************************)
EXTENDS Comments, FoldLemmas, SequenceTheorems, TLAPS

USE BoundsAssumption, NullAssumption

Queries == [append : BOOLEAN, list : Seq(Text)]

-----------------------------------------------------------------------------
(* Types.                                                                  *)

\* A comment as typed is at least one text, each another one.
LEMMA TypedType ==
  ASSUME NEW c \in Typed
  PROVE  c \in Seq(Text) /\ c # <<>> /\ \A i, j \in DOMAIN c : c[i] = c[j] => i = j
  BY TextAssumption

\* What TypeOK needs to be inductive: a commit is only pending on a text that was pushed.
TypeInv ==
  /\ TypeOK
  /\ pool = "commit" => Len(array) > 1

\* The version a reader is pointed to exists.
LEMMA VersionType == ASSUME TypeInv PROVE version \in Nat /\ version <= Len(array)
<1>1. Len(array) \in Nat
  BY DEF TypeInv, TypeOK
<1>2. QED
  BY <1>1 DEF TypeInv, TypeOK

\* The text a reader holds a pointer to is a list of at least one comment.
LEMMA PointedType ==
  ASSUME TypeInv, at # NULL
  PROVE  /\ at \in 1 .. Len(array) /\ array[at] \in Seq(Text) /\ Len(array[at]) \in Nat \ {0}
         /\ array[at][1] \in Text
<1>1. at \in 1 .. version
  BY DEF TypeInv, TypeOK
<1>2. at \in 1 .. Len(array)
  BY <1>1, VersionType DEF TypeInv, TypeOK
<1>3. array[at] \in Lists
  BY <1>2 DEF TypeInv, TypeOK
<1>4. QED
  BY <1>2, <1>3 DEF Lists

\* splitString leaves the first part of one version and no other trace.
LEMMA CutEffect ==
  ASSUME TypeInv, at # NULL, Cut
  PROVE  /\ array' \in Seq(Lists) /\ Len(array') = Len(array)
         /\ DOMAIN array' = DOMAIN array
         /\ array'[at] = <<array[at][1]>>
         /\ \A v \in DOMAIN array : v # at => array'[v] = array[v]
<1>1. array \in Seq(Lists)
  BY DEF TypeInv, TypeOK
<1>2. at \in 1 .. Len(array) /\ <<array[at][1]>> \in Lists
  BY PointedType DEF Lists
<1>3. array' = [array EXCEPT ![at] = <<array[at][1]>>]
  BY DEF Cut
<1>4. QED
  BY <1>1, <1>2, <1>3, ExceptSeq

\* The text an executed put stores.
LEMMA NewTextType ==
  ASSUME TypeInv, queue # <<>>, ~Crashes(Head(queue))
  PROVE  /\ Head(queue) \in Queries /\ Tail(queue) \in Seq(Queries)
         /\ NewText(Head(queue)) \in Lists
<1> DEFINE q == Head(queue)
<1>0. queue \in Seq(Queries)
  BY DEF TypeInv, TypeOK, Queries
<1>1. q \in Queries /\ Tail(queue) \in Seq(Queries)
  BY <1>0
<1>2. q.list \in Seq(Text) /\ q.list # <<>>
  BY <1>1 DEF Crashes, Queries
<1>3. CASE q.append /\ version # 0
  <2>1. version \in 1 .. Len(array) /\ array \in Seq(Lists)
    BY <1>3, VersionType DEF TypeInv, TypeOK
  <2>2. array[version] \in Seq(Text)
    BY <2>1 DEF Lists
  <2> HIDE DEF q
  <2>3. array[version] \o q.list \in Seq(Text) /\ array[version] \o q.list # <<>>
    BY <1>2, <2>2, ConcatProperties, ConcatEqualIffEmpty
  <2>4. QED
    BY <1>1, <1>3, <2>3 DEF NewText, Lists, q
<1>4. CASE ~(q.append /\ version # 0)
  BY <1>1, <1>2, <1>4 DEF NewText, Lists
<1>5. QED
  BY <1>3, <1>4

LEMMA TypeInvInit == Init => TypeInv
<1> SUFFICES ASSUME Init PROVE TypeInv
  OBVIOUS
<1>1. array \in Seq(Lists) /\ queue \in Seq(Queries) /\ given \in Seq(Text)
  BY DEF Init
<1>2. version = Len(array)
  BY DEF Init
<1>3. QED
  BY <1>1, <1>2 DEF Init, TypeInv, TypeOK, Queries

LEMMA TypeInvStep == TypeInv /\ [Next]_vars => TypeInv'
<1> SUFFICES ASSUME TypeInv, [Next]_vars PROVE TypeInv'
  OBVIOUS
<1>0. /\ array \in Seq(Lists) /\ queue \in Seq(Queries) /\ given \in Seq(Text)
      /\ version \in Nat /\ version <= Len(array) /\ Len(array) \in Nat
  BY VersionType DEF TypeInv, TypeOK, Queries
<1>1. ASSUME NEW c \in Typed, Comment(c) PROVE TypeInv'
  <2>0. c \in Seq(Text)
    BY TypedType
  <2>1. append(c) \in Queries
    BY <2>0 DEF append, Queries
  <2>4. given \o c \in Seq(Text)
    BY <1>0, <2>0, ConcatProperties
  <2>2. queue' \in Seq(Queries) /\ given' \in Seq(Text)
    BY <1>0, <1>1, <2>1, <2>4 DEF Comment
  <2>3. QED
    BY <1>1, <2>2 DEF Comment, TypeInv, TypeOK, Queries
<1>2. CASE ViewGet
  <2>1. at' = version /\ version \in 1 .. version /\ version # NULL
    BY <1>0, <1>2 DEF ViewGet
  <2>2. QED
    BY <1>2, <2>1 DEF ViewGet, TypeInv, TypeOK
<1>3. CASE ViewSplit
  <2>1. at # NULL
    BY <1>3 DEF ViewSplit, TypeInv, TypeOK
  <2>2. array' \in Seq(Lists) /\ Len(array') = Len(array)
    BY <1>3, <2>1, CutEffect DEF ViewSplit
  <2>3. broken' \in BOOLEAN
    BY <1>3 DEF ViewSplit
  <2>4. QED
    BY <1>3, <2>2, <2>3 DEF ViewSplit, TypeInv, TypeOK
<1>4. ASSUME NEW k \in 1 .. MaxNumber, DeleteGet(k) PROVE TypeInv'
  <2>1. at' = version /\ version \in 1 .. version /\ version # NULL
    BY <1>0, <1>4 DEF DeleteGet
  <2>2. number' = k /\ k # NULL
    BY <1>4 DEF DeleteGet
  <2>3. QED
    BY <1>4, <2>1, <2>2 DEF DeleteGet, TypeInv, TypeOK
<1>5. CASE DeleteSplit
  <2>1. at # NULL
    BY <1>5 DEF DeleteSplit, TypeInv, TypeOK
  <2>2. array' \in Seq(Lists) /\ Len(array') = Len(array)
    BY <1>5, <2>1, CutEffect DEF DeleteSplit
  <2>3. array[at] \in Seq(Text)
    BY <2>1, PointedType
  <2>4. Without(array[at], number) \in Seq(Text)
    BY <2>3 DEF Without
  <2> DEFINE q == replace(Without(array[at], number))
  <2>8. q \in Queries
    BY <2>4 DEF replace, Queries
  <2>9. queue' \in {queue, Append(queue, q)}
    BY <1>5 DEF DeleteSplit
  <2> HIDE DEF q
  <2>5. queue' \in Seq(Queries)
    BY <1>0, <2>8, <2>9
  <2>6. deleted' \subseteq Text /\ broken' \in BOOLEAN
    BY <1>5, <2>3 DEF DeleteSplit, TypeInv, TypeOK
  <2>7. QED
    BY <1>5, <2>2, <2>5, <2>6 DEF DeleteSplit, TypeInv, TypeOK, Queries
<1>6. CASE ExecuteDropped
  <2>1. queue' \in Seq(Queries)
    BY <1>0, <1>6 DEF ExecuteDropped
  <2>2. QED
    BY <1>6, <2>1 DEF ExecuteDropped, TypeInv, TypeOK, Queries
<1>7. CASE ExecutePush
  <2>1. NewText(Head(queue)) \in Lists /\ queue' \in Seq(Queries)
    BY <1>7, NewTextType DEF ExecutePush
  <2>2. array' \in Seq(Lists) /\ Len(array') = Len(array) + 1
    BY <1>0, <1>7, <2>1 DEF ExecutePush
  <2>3. pool = "ready" /\ version = Len(array)
    BY <1>7 DEF ExecutePush, TypeInv, TypeOK
  <2>4. \/ version = 0 /\ version' = 1 /\ pool' = "ready"
        \/ version # 0 /\ version' = version /\ pool' = "commit"
    BY <1>7, <2>3 DEF ExecutePush
  <2>5. /\ version' = IF pool' = "commit" THEN Len(array') - 1 ELSE Len(array')
        /\ pool' = "commit" => Len(array') > 1
        /\ version <= version'
    BY <1>0, <2>2, <2>3, <2>4
  <2>6. UNCHANGED <<ui, at, number, given, deleted, broken>>
    BY <1>7 DEF ExecutePush
  <2>7. at' # NULL => at' \in 1 .. version'
    BY <1>0, <2>4, <2>5, <2>6 DEF TypeInv, TypeOK
  <2>8. QED
    BY <2>1, <2>2, <2>4, <2>5, <2>6, <2>7 DEF TypeInv, TypeOK, Queries
<1>8. CASE ExecuteCrash
  BY <1>8 DEF ExecuteCrash, TypeInv, TypeOK
<1>9. CASE Commit
  <2>1. version = Len(array) - 1 /\ version' = version + 1 /\ pool' = "ready"
    BY <1>9 DEF Commit, TypeInv, TypeOK
  <2>2. UNCHANGED <<array, queue, ui, at, number, given, deleted, broken>>
    BY <1>9 DEF Commit
  <2>3. at' # NULL => at' \in 1 .. version'
    BY <1>0, <2>1, <2>2 DEF TypeInv, TypeOK
  <2>4. QED
    BY <1>0, <2>1, <2>2, <2>3 DEF TypeInv, TypeOK
<1>10. CASE UNCHANGED vars
  BY <1>10 DEF vars, TypeInv, TypeOK
<1>11. QED
  BY <1>1, <1>2, <1>3, <1>4, <1>5, <1>6, <1>7, <1>8, <1>9, <1>10 DEF Next

LEMMA TypeInvariance == Spec => []TypeInv
  BY TypeInvInit, TypeInvStep, PTL DEF Spec

\* Every variable keeps its type: a reader's pointer is to a version that is committed and
\* not empty, however many cuts, pushes and commits fall between its get and its split.
THEOREM TypeCorrect == Spec => []TypeOK
<1>1. TypeInv => TypeOK
  BY DEF TypeInv
<1>2. QED
  BY <1>1, TypeInvariance, PTL

-----------------------------------------------------------------------------
(* Order.                                                                  *)

\* A list of comments that were given, in that order.
Ordered(l) ==
  \A i \in DOMAIN l : /\ l[i] \in Given
                      /\ \A j \in DOMAIN l : i < j => Position(l[i]) < Position(l[j])

Precedes(l, c) == \A i \in DOMAIN l : Position(l[i]) < Position(c)
Before(l, m) == \A j \in DOMAIN m : Precedes(l, m[j])

\* What InGivenOrder needs to be inductive: each comment is given once, the texts in the
\* queue are in order as well, and a queued append comes later than every version of the
\* list and everything queued before it.
OrderInv ==
  /\ \A i, j \in DOMAIN given : given[i] = given[j] => i = j
  /\ \A v \in DOMAIN array : Ordered(array[v])
  /\ \A n \in DOMAIN queue : Ordered(queue[n].list)
  /\ \A n \in DOMAIN queue : queue[n].append =>
       /\ \A v \in DOMAIN array : Before(array[v], queue[n].list)
       /\ \A m \in DOMAIN queue : m < n => Before(queue[m].list, queue[n].list)

\* The queue as its first query and the rest.
LEMMA QueueParts ==
  ASSUME TypeInv, queue # <<>>
  PROVE  /\ Head(queue) = queue[1] /\ 1 \in DOMAIN queue
         /\ Tail(queue) \in Seq(Queries)
         /\ \A n \in DOMAIN Tail(queue) : /\ n + 1 \in DOMAIN queue
                                          /\ Tail(queue)[n] = queue[n + 1]
         /\ DOMAIN Tail(queue) \subseteq Nat
<1>1. queue \in Seq(Queries)
  BY DEF TypeInv, TypeOK, Queries
<1>2. QED
  BY <1>1

\* A text keeps its position when another comment is given, and the texts of that one
\* follow it.
LEMMA PositionStable ==
  ASSUME TypeInv, OrderInv, NEW c \in Typed, \A i \in DOMAIN c : c[i] \notin Given,
         given' = given \o c
  PROVE  /\ \A d \in Given : d \in Given' /\ Position(d)' = Position(d)
         /\ \A j \in DOMAIN c : /\ c[j] \in Given'
                                /\ \A d \in Given : Position(d) < Position(c[j])'
         /\ \A i, j \in DOMAIN c : i < j => Position(c[i])' < Position(c[j])'
         /\ \A i, j \in DOMAIN given' : given'[i] = given'[j] => i = j
<1>1. PICK n \in Nat, m \in Nat : /\ n = Len(given) /\ DOMAIN given = 1 .. n
                                  /\ m = Len(c) /\ DOMAIN c = 1 .. m
  <2>1. given \in Seq(Text) /\ c \in Seq(Text)
    BY TypedType DEF TypeInv, TypeOK
  <2>2. QED
    BY <2>1
<1>2. /\ DOMAIN given' = 1 .. n + m
      /\ \A i \in 1 .. n + m : given'[i] = IF i <= n THEN given[i] ELSE c[i - n]
  <2>1. given \in Seq(Text) /\ c \in Seq(Text)
    BY TypedType DEF TypeInv, TypeOK
  <2>2. /\ given' \in Seq(Text) /\ Len(given') = Len(given) + Len(c)
        /\ \A i \in 1 .. Len(given) + Len(c) :
             given'[i] = IF i <= Len(given) THEN given[i] ELSE c[i - Len(given)]
    BY <2>1, ConcatProperties
  <2>3. Len(given') = n + m
    BY <1>1, <2>2
  <2>4. QED
    BY <1>1, <2>2, <2>3
<1>3. /\ \A i \in 1 .. n : i \in DOMAIN given' /\ given'[i] = given[i]
      /\ \A j \in 1 .. m : n + j \in DOMAIN given' /\ given'[n + j] = c[j]
      /\ \A i \in DOMAIN given' : i \in 1 .. n \/ \E j \in 1 .. m : i = n + j
  <2>1. \A i \in 1 .. n : i \in 1 .. n + m /\ i <= n
    OBVIOUS
  <2>2. \A j \in 1 .. m : n + j \in 1 .. n + m /\ ~(n + j <= n) /\ (n + j) - n = j
    OBVIOUS
  <2>3. \A i \in 1 .. n + m : i \in 1 .. n \/ (i - n \in 1 .. m /\ i = n + (i - n))
    OBVIOUS
  <2>4. QED
    BY <1>2, <2>1, <2>2, <2>3
<1>4. /\ \A i, j \in 1 .. m : c[i] = c[j] => i = j
      /\ \A i \in 1 .. n, j \in 1 .. m : given[i] # c[j]
      /\ \A i, j \in 1 .. n : given[i] = given[j] => i = j
  <2>1. \A i, j \in 1 .. m : c[i] = c[j] => i = j
    BY <1>1, TypedType
  <2>2. \A i \in 1 .. n, j \in 1 .. m : given[i] # c[j]
    <3>1. \A i \in 1 .. n : given[i] \in Given
      BY <1>1 DEF Given
    <3>2. QED
      BY <1>1, <3>1
  <2>3. \A i, j \in 1 .. n : given[i] = given[j] => i = j
    BY <1>1 DEF OrderInv
  <2>4. QED
    BY <2>1, <2>2, <2>3
<1>5. ASSUME NEW i \in DOMAIN given', NEW j \in DOMAIN given', given'[i] = given'[j]
      PROVE  i = j
  <2>0. \A a \in 1 .. n, b \in 1 .. m : given'[a] # given'[n + b]
    <3> SUFFICES ASSUME NEW a \in 1 .. n, NEW b \in 1 .. m PROVE given'[a] # given'[n + b]
      OBVIOUS
    <3>1. given'[a] = given[a] /\ given'[n + b] = c[b] /\ given[a] # c[b]
      BY <1>3, <1>4
    <3>2. QED
      BY <3>1
  <2>1. CASE i \in 1 .. n /\ j \in 1 .. n
    <3>1. given'[i] = given[i] /\ given'[j] = given[j]
      BY <1>3, <2>1
    <3>2. QED
      BY <1>4, <1>5, <2>1, <3>1
  <2>2. (i \in 1 .. n) <=> (j \in 1 .. n)
    <3>1. i \in 1 .. n \/ \E k \in 1 .. m : i = n + k
      BY <1>3
    <3>2. j \in 1 .. n \/ \E k \in 1 .. m : j = n + k
      BY <1>3
    <3>3. ~(i \in 1 .. n /\ \E k \in 1 .. m : j = n + k)
      BY <1>5, <2>0
    <3>4. ~(j \in 1 .. n /\ \E k \in 1 .. m : i = n + k)
      BY <1>5, <2>0
    <3>5. QED
      BY <3>1, <3>2, <3>3, <3>4
  <2>3. CASE i \notin 1 .. n /\ j \notin 1 .. n
    <3>1. PICK k \in 1 .. m : i = n + k
      BY <1>3, <2>3
    <3>2. PICK h \in 1 .. m : j = n + h
      BY <1>3, <2>3
    <3>3. given'[i] = c[k] /\ given'[j] = c[h]
      BY <1>3, <3>1, <3>2
    <3>4. QED
      BY <1>4, <1>5, <3>1, <3>2, <3>3
  <2>4. QED
    BY <2>1, <2>2, <2>3
<1>6. \A d, i : i \in DOMAIN given' /\ given'[i] = d => Position(d)' = i /\ d \in Given'
  BY <1>5 DEF Position, Given
<1>7. \A i \in 1 .. n : Position(given[i]) = i
  BY <1>1, <1>4 DEF Position
<1>8. \A d \in Given : \E i \in 1 .. n : d = given[i]
  BY <1>1 DEF Given
<1>9. ASSUME NEW j \in DOMAIN c PROVE c[j] \in Given' /\ Position(c[j])' = n + j
  <2>1. PICK i : i = n + j
    OBVIOUS
  <2>2. i \in DOMAIN given' /\ given'[i] = c[j]
    BY <1>1, <1>3, <2>1
  <2>3. QED
    BY <1>6, <2>1, <2>2
<1>10. ASSUME NEW d \in Given
       PROVE  /\ d \in Given' /\ Position(d)' = Position(d)
              /\ Position(d) \in 1 .. n
  <2>1. PICK i \in 1 .. n : d = given[i]
    BY <1>8
  <2>2. i \in DOMAIN given' /\ given'[i] = d
    BY <1>3, <2>1
  <2>3. Position(d) = i
    BY <1>7, <2>1
  <2>4. QED
    BY <1>6, <2>2, <2>3
<1>11. /\ \A i \in 1 .. n, j \in 1 .. m : i < n + j
       /\ \A i, j \in 1 .. m : i < j => n + i < n + j
  OBVIOUS
<1>12. \A j \in DOMAIN c : \A d \in Given : Position(d) < Position(c[j])'
  BY <1>1, <1>9, <1>10, <1>11
<1>13. \A i, j \in DOMAIN c : i < j => Position(c[i])' < Position(c[j])'
  BY <1>1, <1>9, <1>11
<1>14. QED
  BY <1>5, <1>9, <1>10, <1>12, <1>13

\* A part of an ordered list is ordered, and comes before what the list comes before.
LEMMA OrderedPart ==
  ASSUME NEW l, NEW m, Ordered(l), NEW f \in [DOMAIN m -> DOMAIN l],
         \A i \in DOMAIN m : m[i] = l[f[i]],
         \A i, j \in DOMAIN m : i < j => f[i] < f[j]
  PROVE  Ordered(m) /\ \A c : Precedes(l, c) => Precedes(m, c)
  BY DEF Ordered, Precedes

\* splitString keeps the first part of a list.
LEMMA OrderedFirst ==
  ASSUME NEW l \in Seq(Text), l # <<>>, Ordered(l)
  PROVE  Ordered(<<l[1]>>) /\ \A c : Precedes(l, c) => Precedes(<<l[1]>>, c)
  BY DEF Ordered, Precedes

\* So does a deletion, with one part left out.
LEMMA OrderedWithout ==
  ASSUME NEW l \in Seq(Text), NEW k, Ordered(l)
  PROVE  Ordered(Without(l, k)) /\ \A c : Precedes(l, c) => Precedes(Without(l, k), c)
<1>1. CASE k \in DOMAIN l
  <2> DEFINE m == Without(l, k)
             f == [i \in DOMAIN m |-> IF i < k THEN i ELSE i + 1]
  <2>1. k \in 1 .. Len(l) /\ Len(l) \in Nat
    BY <1>1
  <2> DEFINE a == SubSeq(l, 1, k - 1)
             b == SubSeq(l, k + 1, Len(l))
  <2>2. m = a \o b
    BY <1>1 DEF Without
  <2>3. /\ a \in Seq(Text) /\ Len(a) = k - 1 /\ \A i \in 1 .. k - 1 : a[i] = l[i]
        /\ b \in Seq(Text) /\ Len(b) = Len(l) - k
        /\ \A i \in 1 .. Len(l) - k : b[i] = l[k + i]
    BY <2>1
  <2> HIDE DEF a, b, m
  <2>10. /\ m \in Seq(Text) /\ Len(m) = Len(a) + Len(b)
         /\ \A i \in 1 .. Len(a) + Len(b) : m[i] = IF i <= Len(a) THEN a[i] ELSE b[i - Len(a)]
    BY <2>2, <2>3, ConcatProperties
  <2>11. Len(a) + Len(b) = Len(l) - 1
    BY <2>1, <2>3
  <2>4. /\ m \in Seq(Text) /\ Len(m) = Len(l) - 1
        /\ \A i \in 1 .. Len(l) - 1 : m[i] = IF i <= k - 1 THEN a[i] ELSE b[i - (k - 1)]
    BY <2>3, <2>10, <2>11
  <2>9. DOMAIN m = 1 .. Len(l) - 1
    BY <2>4
  <2>5. ASSUME NEW i \in DOMAIN m PROVE m[i] = IF i < k THEN l[i] ELSE l[i + 1]
    <3>1. CASE i < k
      <4>1. i \in 1 .. Len(l) - 1 /\ i \in 1 .. k - 1 /\ i <= k - 1
        BY <2>1, <2>9, <3>1
      <4>2. m[i] = a[i] /\ a[i] = l[i]
        BY <2>3, <2>4, <4>1
      <4>3. QED
        BY <3>1, <4>2
    <3>2. CASE ~(i < k)
      <4>1. i - (k - 1) \in 1 .. Len(l) - k /\ k + (i - (k - 1)) = i + 1
        BY <2>1, <2>9, <3>2
      <4>2. i \in 1 .. Len(l) - 1 /\ ~(i <= k - 1)
        BY <2>1, <2>9, <3>2
      <4>3. m[i] = b[i - (k - 1)] /\ b[i - (k - 1)] = l[k + (i - (k - 1))]
        BY <2>3, <2>4, <4>1, <4>2
      <4>4. QED
        BY <3>2, <4>1, <4>3
    <3>3. QED
      BY <3>1, <3>2
  <2>6. f \in [DOMAIN m -> DOMAIN l] /\ \A i \in DOMAIN m : m[i] = l[f[i]]
    BY <2>1, <2>5, <2>9
  <2>7. \A i, j \in DOMAIN m : i < j => f[i] < f[j]
    BY <2>1, <2>9
  <2> HIDE DEF f
  <2>8. QED
    BY <2>6, <2>7, OrderedPart DEF m
<1>2. CASE k \notin DOMAIN l
  BY <1>2 DEF Without
<1>3. QED
  BY <1>1, <1>2

LEMMA OrderInvInit == Init => OrderInv
  BY DEF Init, OrderInv

\* A comment that is given comes after everything there is.
LEMMA OrderComment ==
  ASSUME TypeInv, OrderInv, NEW c \in Typed, Comment(c)
  PROVE  OrderInv'
<1>1. /\ \A i \in DOMAIN c : c[i] \notin Given
      /\ given' = given \o c /\ array' = array
      /\ queue' = Append(queue, append(c)) /\ queue \in Seq(Queries)
  BY DEF Comment, TypeInv, TypeOK, Queries
<1>2. /\ \A d \in Given : d \in Given' /\ Position(d)' = Position(d)
      /\ \A j \in DOMAIN c : /\ c[j] \in Given'
                             /\ \A d \in Given : Position(d) < Position(c[j])'
      /\ \A i, j \in DOMAIN c : i < j => Position(c[i])' < Position(c[j])'
      /\ \A i, j \in DOMAIN given' : given'[i] = given'[j] => i = j
  BY <1>1, PositionStable
<1>3. \A l : Ordered(l) => Ordered(l)' /\ Before(l, c)'
  <2> SUFFICES ASSUME NEW l, Ordered(l)
               PROVE  /\ \A i \in DOMAIN l : /\ l[i] \in Given'
                        /\ \A j \in DOMAIN l : i < j => Position(l[i])' < Position(l[j])'
                      /\ \A j \in DOMAIN c : \A i \in DOMAIN l :
                           Position(l[i])' < Position(c[j])'
    BY DEF Ordered, Precedes, Before
  <2>1. QED
    BY <1>2 DEF Ordered
<1>4. \A l, m : Ordered(l) /\ Ordered(m) /\ Before(l, m) => Before(l, m)'
  BY <1>2 DEF Ordered, Precedes, Before
<1>5. PICK q : q = append(c) /\ q.append /\ q.list = c
  <2>1. append(c).append /\ append(c).list = c
    BY DEF append
  <2>2. QED
    BY <2>1
<1>6. Ordered(q.list)'
  BY <1>2, <1>5 DEF Ordered
<1>7. PICK n \in Nat : /\ DOMAIN queue = 1 .. n - 1 /\ DOMAIN queue' = 1 .. n
                       /\ queue'[n] = q /\ \A m \in 1 .. n - 1 : queue'[m] = queue[m]
  <2>1. Len(queue) + 1 \in Nat
    BY <1>1
  <2>2. QED
    BY <1>1, <1>5, <2>1
<1>8. \A v \in DOMAIN array' : Ordered(array[v])' /\ Before(array[v], c)'
  BY <1>1, <1>3 DEF OrderInv
<1>9. \A m \in 1 .. n - 1 : /\ queue'[m] = queue[m]
                            /\ Ordered(queue[m].list)' /\ Before(queue[m].list, c)'
  <2>1. \A m \in 1 .. n - 1 : Ordered(queue[m].list)
    BY <1>7 DEF OrderInv
  <2>2. \A m \in 1 .. n - 1 : \A l : l = queue[m].list => Ordered(l)' /\ Before(l, c)'
    BY <1>3, <2>1
  <2>3. \A m \in 1 .. n - 1 : queue'[m] = queue[m]
    BY <1>7
  <2>4. QED
    BY <2>2, <2>3
<1>10. \A m \in DOMAIN queue' : Ordered(queue[m].list)'
  BY <1>6, <1>7, <1>9
<1>11. ASSUME NEW m \in 1 .. n - 1, queue[m].append
       PROVE  /\ \A v \in DOMAIN array' : Before(array[v], queue[m].list)'
              /\ \A k \in 1 .. n - 1 : k < m => Before(queue[k].list, queue[m].list)'
  <2>1. PICK r : r = queue[m].list
    OBVIOUS
  <2>2. Ordered(r)
    BY <1>7, <1>11, <2>1 DEF OrderInv
  <2>5. /\ \A v \in DOMAIN array : Ordered(array[v]) /\ Before(array[v], r)
        /\ \A k \in 1 .. n - 1 : k < m => Ordered(queue[k].list) /\ Before(queue[k].list, r)
    BY <1>7, <1>11, <2>1 DEF OrderInv
  <2>6. /\ \A v \in DOMAIN array' : Before(array[v], r)'
        /\ \A k \in 1 .. n - 1 : k < m => Before(queue[k].list, r)'
    BY <1>1, <1>4, <1>9, <2>2, <2>5
  <2>7. r = queue'[m].list
    BY <1>9, <2>1
  <2>8. QED
    BY <2>6, <2>7
<1>12. ASSUME NEW m \in DOMAIN queue', queue'[m].append
       PROVE  /\ \A v \in DOMAIN array' : Before(array[v], queue[m].list)'
              /\ \A k \in DOMAIN queue' : k < m => Before(queue[k].list, queue[m].list)'
  <2>1. CASE m = n
    <3>1. c = queue'[m].list
      BY <1>5, <1>7, <2>1
    <3>2. \A k \in DOMAIN queue' : k < m => k \in 1 .. n - 1
      BY <1>7, <2>1
    <3>3. /\ \A v \in DOMAIN array' : Before(array[v], c)'
          /\ \A k \in DOMAIN queue' : k < m => Before(queue[k].list, c)'
      BY <1>8, <1>9, <3>2
    <3>4. QED
      BY <3>1, <3>3
  <2>2. CASE m # n
    <3>1. m \in 1 .. n - 1 /\ queue[m].append
      BY <1>7, <1>9, <1>12, <2>2
    <3>2. \A k \in DOMAIN queue' : k < m => k \in 1 .. n - 1
      BY <1>7, <3>1
    <3>3. QED
      BY <1>9, <1>11, <3>1, <3>2
  <2>3. QED
    BY <2>1, <2>2
<1>13. QED
  BY <1>2, <1>8, <1>10, <1>12 DEF OrderInv

LEMMA GivenKept ==
  ASSUME given' = given
  PROVE  /\ \A l : Ordered(l)' <=> Ordered(l)
         /\ \A l, m : Before(l, m)' <=> Before(l, m)
  BY DEF Ordered, Precedes, Before, Given, Position

\* A cut leaves an ordered part of each version.
LEMMA OrderCut ==
  ASSUME TypeInv, OrderInv, at # NULL, Cut
  PROVE  \A v \in DOMAIN array' : /\ v \in DOMAIN array /\ Ordered(array'[v])
                                  /\ \A m : Before(array[v], m) => Before(array'[v], m)
<1> SUFFICES ASSUME NEW v \in DOMAIN array'
             PROVE  /\ v \in DOMAIN array /\ Ordered(array'[v])
                    /\ \A m : Before(array[v], m) => Before(array'[v], m)
  OBVIOUS
<1>1. v \in DOMAIN array /\ Ordered(array[v])
  BY CutEffect DEF OrderInv
<1>2. CASE v = at
  <2>1. array[at] \in Seq(Text) /\ array[at] # <<>>
    BY PointedType
  <2>2. QED
    BY <1>1, <1>2, <2>1, CutEffect, OrderedFirst DEF Before
<1>3. CASE v # at
  BY <1>1, <1>3, CutEffect
<1>4. QED
  BY <1>2, <1>3

\* Behind the queue any ordered list may replace the text.
LEMMA OrderQueue ==
  ASSUME TypeInv, OrderInv, given' = given, NEW l, Ordered(l),
         \A v \in DOMAIN array' : /\ v \in DOMAIN array /\ Ordered(array'[v])
                                  /\ \A m : Before(array[v], m) => Before(array'[v], m),
         queue' = queue \/ queue' = Append(queue, replace(l))
  PROVE  OrderInv'
<1>1. queue \in Seq(Queries)
  BY DEF TypeInv, TypeOK, Queries
<1>2. DOMAIN queue \subseteq Nat
  BY <1>1
<1>3. \A n \in DOMAIN queue' : \/ n \in DOMAIN queue /\ queue'[n] = queue[n]
                               \/ /\ queue'[n] = replace(l)
                                  /\ \A m \in DOMAIN queue : m < n
  BY <1>1
<1>4. \A n \in DOMAIN queue' : queue'[n].append => n \in DOMAIN queue /\ queue'[n] = queue[n]
  BY <1>3 DEF replace
<1>5. \A n \in DOMAIN queue' : Ordered(queue'[n].list)
  BY <1>3 DEF replace, OrderInv
<1>6. \A n, m \in DOMAIN queue' : queue'[n].append /\ m < n =>
        m \in DOMAIN queue /\ queue'[m] = queue[m]
  <2> SUFFICES ASSUME NEW n \in DOMAIN queue', NEW m \in DOMAIN queue', queue'[n].append, m < n
               PROVE  m \in DOMAIN queue /\ queue'[m] = queue[m]
    OBVIOUS
  <2>1. n \in DOMAIN queue /\ n \in Nat
    BY <1>2, <1>4
  <2>2. DOMAIN queue = 1 .. Len(queue) /\ DOMAIN queue' \subseteq Nat
    BY <1>1
  <2>3. m \in DOMAIN queue
    BY <2>1, <2>2
  <2>4. QED
    BY <1>1, <2>3
<1>7. \A n \in DOMAIN queue' : queue'[n].append =>
        /\ \A v \in DOMAIN array' : Before(array'[v], queue'[n].list)
        /\ \A m \in DOMAIN queue' : m < n => Before(queue'[m].list, queue'[n].list)
  BY <1>4, <1>6 DEF OrderInv
<1> DEFINE Inv(arr, que) ==
      /\ \A v \in DOMAIN arr : Ordered(arr[v])
      /\ \A n \in DOMAIN que : Ordered(que[n].list)
      /\ \A n \in DOMAIN que : que[n].append =>
           /\ \A v \in DOMAIN arr : Before(arr[v], que[n].list)
           /\ \A m \in DOMAIN que : m < n => Before(que[m].list, que[n].list)
<1>8. Inv(array', queue')
  BY <1>5, <1>7
<1>9. QED
  BY <1>8, GivenKept DEF OrderInv

\* A text that is in order and precedes the queued appends may be pushed while the first
\* query is taken from the queue.
LEMMA OrderTake ==
  ASSUME TypeInv, OrderInv, given' = given, queue # <<>>, queue' = Tail(queue),
         \A v \in DOMAIN array' :
           /\ Ordered(array'[v])
           /\ \A n \in DOMAIN queue : n > 1 /\ queue[n].append =>
                Before(array'[v], queue[n].list)
  PROVE  OrderInv'
<1>1. \A n \in DOMAIN queue' : /\ n + 1 \in DOMAIN queue /\ queue'[n] = queue[n + 1]
                               /\ n \in Nat /\ n + 1 > 1
  <2>1. Tail(queue) \in Seq(Queries)
    BY QueueParts
  <2>2. \A n \in DOMAIN Tail(queue) : n \in Nat /\ n + 1 > 1
    BY <2>1
  <2>3. QED
    BY <2>2, QueueParts
<1>2. \A n \in DOMAIN queue' : Ordered(queue'[n].list)
  BY <1>1 DEF OrderInv
<1>3. \A n \in DOMAIN queue' : queue'[n].append =>
        /\ \A v \in DOMAIN array' : Before(array'[v], queue'[n].list)
        /\ \A m \in DOMAIN queue' : m < n => Before(queue'[m].list, queue'[n].list)
  <2> SUFFICES ASSUME NEW n \in DOMAIN queue', queue'[n].append
               PROVE  /\ \A v \in DOMAIN array' : Before(array'[v], queue'[n].list)
                      /\ \A m \in DOMAIN queue' : m < n => Before(queue'[m].list, queue'[n].list)
    OBVIOUS
  <2>1. n + 1 \in DOMAIN queue /\ queue'[n] = queue[n + 1] /\ n + 1 > 1 /\ queue[n + 1].append
    BY <1>1
  <2>2. \A m \in DOMAIN queue' : m < n =>
          m + 1 \in DOMAIN queue /\ queue'[m] = queue[m + 1] /\ m + 1 < n + 1
    BY <1>1
  <2>3. QED
    BY <2>1, <2>2 DEF OrderInv
<1>4. QED
  BY <1>2, <1>3, GivenKept DEF OrderInv

\* Two ordered lists, one before the other, make an ordered list.
LEMMA OrderedConcat ==
  ASSUME NEW l \in Seq(Text), NEW r \in Seq(Text), Ordered(l), Ordered(r), Before(l, r)
  PROVE  /\ Ordered(l \o r)
         /\ \A k : Before(l, k) /\ Before(r, k) => Before(l \o r, k)
<1> DEFINE m == l \o r
<1>1. PICK a \in Nat, b \in Nat : /\ a = Len(l) /\ DOMAIN l = 1 .. a
                                  /\ b = Len(r) /\ DOMAIN r = 1 .. b
  OBVIOUS
<1>2. /\ DOMAIN m = 1 .. a + b
      /\ \A i \in 1 .. a + b : m[i] = IF i <= a THEN l[i] ELSE r[i - a]
  <2>1. /\ m \in Seq(Text) /\ Len(m) = Len(l) + Len(r)
        /\ \A i \in 1 .. Len(l) + Len(r) : m[i] = IF i <= Len(l) THEN l[i] ELSE r[i - Len(l)]
    BY ConcatProperties
  <2> HIDE DEF m
  <2>2. Len(m) = a + b
    BY <1>1, <2>1
  <2>3. QED
    BY <1>1, <2>1, <2>2
<1> HIDE DEF m
<1>3. ASSUME NEW i \in DOMAIN m
      PROVE  \/ i \in 1 .. a /\ i \in DOMAIN l /\ m[i] = l[i]
             \/ i > a /\ i - a \in DOMAIN r /\ m[i] = r[i - a]
  <2>1. CASE i <= a
    BY <1>1, <1>2, <2>1
  <2>2. CASE ~(i <= a)
    <3>1. i - a \in 1 .. b /\ i > a
      BY <1>2, <2>2
    <3>2. m[i] = r[i - a]
      BY <1>2, <2>2
    <3>3. QED
      BY <1>1, <3>1, <3>2
  <2>3. QED
    BY <2>1, <2>2
<1>4. ASSUME NEW i \in DOMAIN m, NEW j \in DOMAIN m, i < j
      PROVE  Position(m[i]) < Position(m[j])
  <2>0. i \in Nat /\ j \in Nat
    BY <1>2
  <2>1. CASE j \in 1 .. a /\ j \in DOMAIN l /\ m[j] = l[j]
    <3>1. i \in DOMAIN l /\ m[i] = l[i]
      BY <1>1, <1>3, <1>4, <2>0, <2>1
    <3>2. QED
      BY <1>4, <2>1, <3>1 DEF Ordered
  <2>2. CASE j > a /\ j - a \in DOMAIN r /\ m[j] = r[j - a]
    <3>1. CASE i \in DOMAIN l /\ m[i] = l[i]
      BY <2>2, <3>1 DEF Before, Precedes
    <3>2. CASE i > a /\ i - a \in DOMAIN r /\ m[i] = r[i - a]
      <4>1. i - a < j - a
        BY <1>1, <1>4, <2>0
      <4>2. QED
        BY <2>2, <3>2, <4>1 DEF Ordered
    <3>3. QED
      BY <1>3, <3>1, <3>2
  <2>3. QED
    BY <1>3, <2>1, <2>2
<1>5. \A i \in DOMAIN m : m[i] \in Given
  BY <1>3 DEF Ordered
<1>6. Ordered(m)
  BY <1>4, <1>5 DEF Ordered
<1>7. ASSUME NEW k, Before(l, k), Before(r, k) PROVE Before(m, k)
  BY <1>3, <1>7 DEF Before, Precedes
<1>8. QED
  BY <1>6, <1>7 DEF m

\* The text an append makes: the committed one, then the new comment.
LEMMA OrderNewText ==
  ASSUME TypeInv, OrderInv, queue # <<>>, ~Crashes(Head(queue))
  PROVE  /\ Ordered(NewText(Head(queue)))
         /\ \A n \in DOMAIN queue : n > 1 /\ queue[n].append =>
              Before(NewText(Head(queue)), queue[n].list)
<1> DEFINE q == Head(queue)
<1>1. q = queue[1] /\ 1 \in DOMAIN queue /\ q.list \in Seq(Text)
  BY QueueParts, NewTextType DEF Queries
<1>2. /\ Ordered(q.list)
      /\ \A n \in DOMAIN queue : n > 1 /\ queue[n].append => Before(q.list, queue[n].list)
  <2>1. \A n \in DOMAIN queue : n > 1 => 1 < n
    <3>1. queue \in Seq(Queries)
      BY DEF TypeInv, TypeOK, Queries
    <3>2. QED
      BY <3>1
  <2>2. QED
    BY <1>1, <2>1 DEF OrderInv
<1>3. CASE q.append /\ version # 0
  <2>1. version \in 1 .. Len(array) /\ array \in Seq(Lists)
    BY <1>3, VersionType DEF TypeInv, TypeOK
  <2>2. PICK l \in Seq(Text) : l = array[version]
    BY <2>1 DEF Lists
  <2>3. PICK r \in Seq(Text) : r = q.list
    BY <1>1
  <2>4. Ordered(l) /\ Ordered(r) /\ Before(l, r)
    BY <1>1, <1>2, <1>3, <2>1, <2>2, <2>3 DEF OrderInv
  <2>5. \A n \in DOMAIN queue : n > 1 /\ queue[n].append =>
          Before(l, queue[n].list) /\ Before(r, queue[n].list)
    BY <1>2, <2>1, <2>2, <2>3 DEF OrderInv
  <2>6. Ordered(l \o r) /\ \A k : Before(l, k) /\ Before(r, k) => Before(l \o r, k)
    BY <2>4, OrderedConcat
  <2>7. NewText(q) = l \o r
    BY <1>3, <2>2, <2>3 DEF NewText
  <2> HIDE DEF q
  <2>8. QED
    BY <2>5, <2>6, <2>7 DEF q
<1>4. CASE ~(q.append /\ version # 0)
  BY <1>2, <1>4 DEF NewText
<1>5. QED
  BY <1>3, <1>4

LEMMA OrderInvStep == TypeInv /\ OrderInv /\ [Next]_vars => OrderInv'
<1> SUFFICES ASSUME TypeInv, OrderInv, [Next]_vars PROVE OrderInv'
  OBVIOUS
<1>1. ASSUME NEW c \in Typed, Comment(c) PROVE OrderInv'
  BY <1>1, OrderComment
<1>2. Ordered(<<>>) /\ \A v \in DOMAIN array : Ordered(array[v])
  BY DEF Ordered, OrderInv
<1>3. CASE ViewSplit
  <2>1. at # NULL /\ Cut /\ given' = given /\ queue' = queue
    BY <1>3 DEF ViewSplit, TypeInv, TypeOK
  <2>2. QED
    BY <1>2, <2>1, OrderCut, OrderQueue
<1>4. CASE DeleteSplit
  <2> DEFINE l == Without(array[at], number)
  <2>1. /\ at # NULL /\ Cut /\ given' = given
        /\ queue' = queue \/ queue' = Append(queue, replace(l))
    BY <1>4 DEF DeleteSplit, TypeInv, TypeOK
  <2>2. array[at] \in Seq(Text) /\ Ordered(array[at])
    BY <1>2, <2>1, PointedType
  <2>3. Ordered(l)
    BY <2>2, OrderedWithout
  <2> HIDE DEF l
  <2>4. QED
    BY <2>1, <2>3, OrderCut, OrderQueue
<1>5. CASE ExecuteDropped
  <2>1. /\ queue # <<>> /\ queue' = Tail(queue) /\ array' = array /\ given' = given
    BY <1>5 DEF ExecuteDropped
  <2>2. QED
    BY <2>1, OrderTake DEF OrderInv
<1>6. CASE ExecutePush
  <2>1. /\ queue # <<>> /\ queue' = Tail(queue) /\ given' = given /\ ~Crashes(Head(queue))
        /\ array' = Append(array, NewText(Head(queue)))
    BY <1>6 DEF ExecutePush
  <2>2. array \in Seq(Lists)
    BY DEF TypeInv, TypeOK
  <2>3. \A v \in DOMAIN array' : \/ v \in DOMAIN array /\ array'[v] = array[v]
                                 \/ array'[v] = NewText(Head(queue))
    BY <2>1, <2>2
  <2>4. \A v \in DOMAIN array' :
          /\ Ordered(array'[v])
          /\ \A n \in DOMAIN queue : n > 1 /\ queue[n].append =>
               Before(array'[v], queue[n].list)
    BY <2>1, <2>3, OrderNewText DEF OrderInv
  <2>5. QED
    BY <2>1, <2>4, OrderTake
<1>7. CASE ViewGet \/ (\E k \in 1 .. MaxNumber : DeleteGet(k)) \/ ExecuteCrash \/ Commit
           \/ UNCHANGED vars
  <2>1. array' = array /\ given' = given /\ queue' = queue
    BY <1>7 DEF ViewGet, DeleteGet, ExecuteCrash, Commit, vars
  <2>2. QED
    BY <1>2, <2>1, OrderQueue
<1>8. QED
  BY <1>1, <1>3, <1>4, <1>5, <1>6, <1>7 DEF Next

\* Every version of the list holds comments in the order in which they were given, each
\* once, for any texts and any interleaving: a reader that cuts the stored text in place
\* and a deletion made from a list read earlier lose comments or bring them back, and
\* never move or double one.
THEOREM OrderIsKept == Spec => []InGivenOrder
<1>1. TypeInv /\ OrderInv => InGivenOrder
  BY DEF OrderInv, Ordered, InGivenOrder
<1>2. QED
  BY <1>1, OrderInvInit, OrderInvStep, TypeInvariance, PTL DEF Spec

-----------------------------------------------------------------------------
(* The first comment.                                                      *)

\* A list begins with the first comment stored, unless a user asked to delete that one.
KeepsFirst(l) == l[1] = array[1][1] \/ array[1][1] \in deleted

\* What FirstStays needs to be inductive: the lists in the queue keep the first comment,
\* too, and there are none before the first text is stored.
FirstInv ==
  /\ \A v \in DOMAIN array : KeepsFirst(array[v])
  /\ \A n \in DOMAIN queue : queue[n].append \/ queue[n].list = <<>> \/
                               (array # <<>> /\ KeepsFirst(queue[n].list))

\* Deletions are only added, and nothing takes the place of the first comment stored.
LEMMA KeepsFirstStable ==
  ASSUME array # <<>>, array'[1][1] = array[1][1], deleted \subseteq deleted'
  PROVE  \A l : KeepsFirst(l) => KeepsFirst(l)'
  BY DEF KeepsFirst

LEMMA CutKeepsFirst ==
  ASSUME TypeInv, FirstInv, at # NULL, Cut, deleted \subseteq deleted'
  PROVE  /\ array # <<>> /\ array' # <<>> /\ array'[1][1] = array[1][1]
         /\ \A v \in DOMAIN array' : KeepsFirst(array[v])'
<1>1. /\ at \in 1 .. Len(array) /\ array \in Seq(Lists)
      /\ array' \in Seq(Lists) /\ DOMAIN array' = DOMAIN array /\ Len(array') = Len(array)
      /\ array'[at] = <<array[at][1]>>
      /\ \A v \in DOMAIN array : v # at => array'[v] = array[v]
  BY PointedType, CutEffect DEF TypeInv, TypeOK
<1>2. \A v \in DOMAIN array : array'[v][1] = array[v][1]
  BY <1>1
<1>3. array # <<>> /\ array' # <<>> /\ 1 \in DOMAIN array
  BY <1>1
<1>4. QED
  BY <1>1, <1>2, <1>3 DEF FirstInv, KeepsFirst

\* A deletion replaces the list by one that has the same first comment, or deletes it.
LEMMA ReplacementKeepsFirst ==
  ASSUME TypeInv, FirstInv, DeleteSplit, Joinable(array[at], number),
         NEW l, l = Without(array[at], number)
  PROVE  l = <<>> \/ KeepsFirst(l)'
<1>1. at # NULL /\ deleted \subseteq deleted'
  BY DEF DeleteSplit, TypeInv, TypeOK
<1>2. array # <<>> /\ array'[1][1] = array[1][1]
  BY <1>1, CutKeepsFirst DEF DeleteSplit
<1>3. PICK old : old = array[at]
  OBVIOUS
<1>4. old \in Seq(Text) /\ KeepsFirst(old) /\ old # <<>> /\ l = Without(old, number)
  BY <1>1, <1>3, PointedType DEF FirstInv
<1>5. CASE number \notin DOMAIN old
  <2>1. l = old
    BY <1>4, <1>5 DEF Without
  <2>2. QED
    BY <1>1, <1>2, <1>4, <2>1 DEF KeepsFirst
<1>6. CASE number \in DOMAIN old
  <2>1. old[number] \in deleted'
    BY <1>3, <1>6 DEF DeleteSplit
  <2>2. CASE Len(old) = 1
    <3>1. number = 1
      BY <1>4, <1>6, <2>2
    <3>2. l = SubSeq(old, 1, 0) \o SubSeq(old, 2, 1)
      <4>1. l = SubSeq(old, 1, number - 1) \o SubSeq(old, number + 1, Len(old))
        BY <1>4, <1>6 DEF Without
      <4>2. number - 1 = 0 /\ number + 1 = 2
        BY <3>1
      <4>3. QED
        BY <2>2, <4>1, <4>2, Zenon
    <3>3. SubSeq(old, 1, 0) = <<>> /\ SubSeq(old, 2, 1) = <<>>
      BY <1>4, SubSeqEmpty
    <3>4. QED
      BY <3>2, <3>3
  <2>3. CASE number = 1
    BY <1>1, <1>2, <1>4, <2>1, <2>3 DEF KeepsFirst
  <2>4. QED
    BY <1>3, <2>2, <2>3 DEF Joinable
<1>7. QED
  BY <1>5, <1>6

LEMMA FirstInvInit == Init => FirstInv
  BY DEF Init, FirstInv

LEMMA FirstInvStep == TypeInv /\ FirstInv /\ [Next]_vars => FirstInv'
<1> SUFFICES ASSUME TypeInv, FirstInv, [Next]_vars PROVE FirstInv'
  OBVIOUS
<1>0. queue \in Seq(Queries) /\ array \in Seq(Lists)
  BY DEF TypeInv, TypeOK, Queries
<1>1. ASSUME NEW c \in Typed, Comment(c) PROVE FirstInv'
  <2>1. /\ array' = array /\ deleted' = deleted /\ queue' = Append(queue, append(c))
        /\ append(c).append
    BY <1>1 DEF Comment, append
  <2>2. \A n \in DOMAIN queue' : queue'[n].append \/ (n \in DOMAIN queue /\ queue'[n] = queue[n])
    BY <1>0, <2>1
  <2>3. QED
    BY <2>1, <2>2 DEF FirstInv, KeepsFirst
<1>2. CASE ViewSplit
  <2>1. at # NULL /\ Cut /\ queue' = queue /\ deleted' = deleted
    BY <1>2 DEF ViewSplit, TypeInv, TypeOK
  <2>2. QED
    BY <2>1, CutKeepsFirst, KeepsFirstStable DEF FirstInv
<1>3. CASE DeleteSplit
  <2> DEFINE l == Without(array[at], number)
  <2>1. at # NULL /\ Cut /\ deleted \subseteq deleted'
    BY <1>3 DEF DeleteSplit, TypeInv, TypeOK
  <2>2. /\ array # <<>> /\ array' # <<>> /\ \A v \in DOMAIN array' : KeepsFirst(array[v])'
        /\ \A m : KeepsFirst(m) => KeepsFirst(m)'
    BY <2>1, CutKeepsFirst, KeepsFirstStable
  <2>3. PICK m : m = l
    OBVIOUS
  <2>4. \/ queue' = queue
        \/ queue' = Append(queue, replace(m)) /\ (m = <<>> \/ KeepsFirst(m)')
    BY <1>3, <2>3, ReplacementKeepsFirst DEF DeleteSplit
  <2>5. \A n \in DOMAIN queue' :
          \/ n \in DOMAIN queue /\ queue'[n] = queue[n]
          \/ queue'[n].list = m /\ (m = <<>> \/ KeepsFirst(m)')
    BY <1>0, <2>4 DEF replace
  <2>6. QED
    BY <2>2, <2>5 DEF FirstInv
<1>4. CASE ExecuteDropped
  <2>1. queue # <<>> /\ array' = array /\ deleted' = deleted /\ queue' = Tail(queue)
    BY <1>4 DEF ExecuteDropped
  <2>2. QED
    BY <2>1, QueueParts DEF FirstInv, KeepsFirst
<1>5. CASE ExecutePush
  <2> DEFINE q == Head(queue)
  <2>1. /\ queue # <<>> /\ queue' = Tail(queue) /\ deleted' = deleted /\ ~Crashes(q)
        /\ array' = Append(array, NewText(q)) /\ pool = "ready"
    BY <1>5 DEF ExecutePush
  <2>2. /\ \A n \in DOMAIN queue' : n + 1 \in DOMAIN queue /\ queue'[n] = queue[n + 1]
        /\ q = queue[1] /\ 1 \in DOMAIN queue /\ q.list # <<>>
    BY <2>1, QueueParts DEF Crashes
  <2>3. CASE array = <<>>
    <3>1. \A n \in DOMAIN queue' : queue'[n].append \/ queue'[n].list = <<>>
      BY <2>2, <2>3 DEF FirstInv
    <3>2. DOMAIN array' = {1}
      BY <2>1, <2>3
    <3>3. QED
      BY <3>1, <3>2 DEF FirstInv, KeepsFirst
  <2>4. CASE array # <<>>
    <3>1. /\ array' # <<>> /\ array'[1] = array[1]
          /\ \A v \in DOMAIN array' : \/ v \in DOMAIN array /\ array'[v] = array[v]
                                      \/ array'[v] = NewText(q)
      BY <1>0, <2>1, <2>4
    <3>2. KeepsFirst(NewText(q))
      <4>1. CASE q.append /\ version # 0
        <5>1. version \in 1 .. Len(array) /\ KeepsFirst(array[version])
          BY <1>0, <4>1, VersionType DEF FirstInv
        <5>2. array[version] \in Seq(Text) /\ array[version] # <<>> /\ q.list \in Seq(Text)
          BY <1>0, <2>1, <5>1, NewTextType DEF Lists, Queries
        <5>3. (array[version] \o q.list)[1] = array[version][1]
          <6> DEFINE a == array[version]
                     r == q.list
          <6>1. a \in Seq(Text) /\ a # <<>> /\ r \in Seq(Text)
            BY <5>2
          <6> HIDE DEF a, r
          <6>2. Len(a) \in Nat /\ Len(a) >= 1 /\ Len(r) \in Nat
            BY <6>1
          <6>3. (a \o r)[1] = a[1]
            BY <6>1, <6>2, ConcatProperties
          <6>4. QED
            BY <6>3 DEF a, r
        <5>4. QED
          BY <4>1, <5>1, <5>3 DEF NewText, KeepsFirst
      <4>2. CASE ~q.append
        BY <2>2, <4>2 DEF NewText, FirstInv
      <4>3. version # 0
        BY <1>0, <2>1, <2>4 DEF TypeInv, TypeOK
      <4>4. QED
        BY <4>1, <4>2, <4>3
    <3>3. QED
      BY <2>1, <2>2, <3>1, <3>2 DEF FirstInv, KeepsFirst
  <2>5. QED
    BY <2>3, <2>4
<1>6. CASE ViewGet \/ (\E k \in 1 .. MaxNumber : DeleteGet(k)) \/ ExecuteCrash \/ Commit
           \/ UNCHANGED vars
  BY <1>6 DEF ViewGet, DeleteGet, ExecuteCrash, Commit, vars, FirstInv, KeepsFirst
<1>7. QED
  BY <1>1, <1>2, <1>3, <1>4, <1>5, <1>6 DEF Next

\* The first comment stored is the first of every version until a user asks to delete it:
\* readers only cut off what follows it, and a deletion made from a list that is out of
\* date still begins with it.
THEOREM FirstCommentStays == Spec => []FirstStays
<1>1. TypeInv /\ FirstInv => FirstStays
  BY DEF FirstInv, KeepsFirst, FirstStays, TypeInv, TypeOK, Lists
<1>2. QED
  BY <1>1, FirstInvInit, FirstInvStep, TypeInvariance, PTL DEF Spec

-----------------------------------------------------------------------------
(* The list the users see.                                                 *)

\* The text of a list once a put of the queue has been executed on it.
AfterOne(l, q) == IF q.append THEN l \o q.list ELSE q.list

\* The function that Outcome defines by recursion, on the first n puts of q.
Afters(l, q, n, f) == f = [i \in 0 .. n |-> IF i = 0 THEN l ELSE AfterOne(f[i - 1], q[i])]

\* There is one, for any number of puts.
LEMMA AftersExist == ASSUME NEW l, NEW q, NEW m \in Nat PROVE \E f : Afters(l, q, m, f)
<1> DEFINE T == {n \in Nat : \E f : Afters(l, q, n, f)}
<1>1. 0 \in T
  <2> DEFINE f == [i \in 0 .. 0 |-> l]
  <2>1. f = [i \in 0 .. 0 |-> IF i = 0 THEN l ELSE AfterOne(f[i - 1], q[i])]
    OBVIOUS
  <2> HIDE DEF f
  <2>2. Afters(l, q, 0, f)
    BY <2>1 DEF Afters
  <2>3. QED
    BY <2>2
<1>2. ASSUME NEW n \in Nat, n \in T PROVE n + 1 \in T
  <2>1. PICK f : Afters(l, q, n, f)
    BY <1>2
  <2> DEFINE e(i) == IF i <= n THEN f[i] ELSE AfterOne(f[n], q[i])
             g == [i \in 0 .. n + 1 |-> e(i)]
  <2>2. ASSUME NEW i \in 0 .. n + 1
        PROVE  e(i) = IF i = 0 THEN l ELSE AfterOne(g[i - 1], q[i])
    <3>1. CASE i <= n
      <4>1. i \in 0 .. n /\ e(i) = f[i]
        BY <3>1
      <4>2. f[i] = IF i = 0 THEN l ELSE AfterOne(f[i - 1], q[i])
        BY <2>1, <4>1 DEF Afters
      <4>3. i # 0 => i - 1 \in 0 .. n + 1 /\ i - 1 <= n
        BY <3>1
      <4>4. i # 0 => g[i - 1] = f[i - 1]
        BY <4>3
      <4> HIDE DEF e, g
      <4>5. QED
        BY <4>1, <4>2, <4>4
    <3>2. CASE i = n + 1
      <4>1. ~(i <= n) /\ i # 0 /\ i - 1 = n /\ n \in 0 .. n + 1 /\ n <= n
        BY <3>2
      <4>2. e(i) = AfterOne(f[n], q[i]) /\ g[n] = f[n]
        BY <4>1
      <4> HIDE DEF e, g
      <4>3. QED
        BY <4>1, <4>2
    <3>3. QED
      BY <3>1, <3>2
  <2>3. g = [i \in 0 .. n + 1 |-> IF i = 0 THEN l ELSE AfterOne(g[i - 1], q[i])]
    <3> HIDE DEF e
    <3>1. g = [i \in 0 .. n + 1 |-> e(i)]
      OBVIOUS
    <3> HIDE DEF g
    <3>2. QED
      BY <2>2, <3>1
  <2> HIDE DEF g
  <2>4. Afters(l, q, n + 1, g)
    BY <2>3 DEF Afters
  <2>5. QED
    BY <2>4
<1>3. Nat \subseteq T
  <2> HIDE DEF T
  <2>1. QED
    BY <1>1, <1>2, NatSetInduction
<1>4. QED
  BY <1>3

\* The puts of one queue that follow each other in another one do the same there.
LEMMA AftersShift ==
  ASSUME NEW q, NEW n \in Nat, NEW l, NEW f, Afters(l, q, n, f),
         NEW r, NEW m \in Nat, NEW k, NEW g, Afters(k, r, m, g),
         NEW d \in Nat, m + d <= n, k = f[d], \A i \in 1 .. m : r[i] = q[i + d]
  PROVE  \A i \in 0 .. m : g[i] = f[i + d]
<1> DEFINE T == {i \in Nat : i \in 0 .. m => g[i] = f[i + d]}
<1>1. 0 \in T
  <2>1. g[0] = k
    BY DEF Afters
  <2>2. QED
    BY <2>1
<1>2. ASSUME NEW i \in Nat, i \in T PROVE i + 1 \in T
  <2> SUFFICES ASSUME i + 1 \in 0 .. m PROVE g[i + 1] = f[(i + 1) + d]
    OBVIOUS
  <2>1. g[i + 1] = AfterOne(g[i], r[i + 1])
    <3>1. i + 1 # 0 /\ (i + 1) - 1 = i
      OBVIOUS
    <3>2. QED
      BY <3>1 DEF Afters
  <2>2. PICK j \in Nat : j = (i + 1) + d
    OBVIOUS
  <2>3. j \in 0 .. n /\ j # 0 /\ j - 1 = i + d
    BY <2>2
  <2>4. f[j] = AfterOne(f[i + d], q[j])
    BY <2>3 DEF Afters
  <2>5. g[i] = f[i + d] /\ r[i + 1] = q[j]
    BY <1>2, <2>2
  <2>6. QED
    BY <2>1, <2>2, <2>4, <2>5
<1>3. Nat \subseteq T
  <2> HIDE DEF T
  <2>1. QED
    BY <1>1, <1>2, NatSetInduction
<1>4. QED
  BY <1>3

\* Outcome, of any list and any queue.
Result(l, q) ==
  LET after[n \in 0 .. Len(q)] ==
        IF n = 0 THEN l
        ELSE IF q[n].append THEN after[n - 1] \o q[n].list ELSE q[n].list
  IN  after[Len(q)]

\* It is the last value of the function.
LEMMA ResultIsLast ==
  ASSUME NEW l, NEW q, NEW n \in Nat, n = Len(q)
  PROVE  \E f : Afters(l, q, n, f) /\ Result(l, q) = f[n]
<1> DEFINE after[i \in 0 .. Len(q)] ==
             IF i = 0 THEN l
             ELSE IF q[i].append THEN after[i - 1] \o q[i].list ELSE q[i].list
<1>1. Result(l, q) = after[Len(q)]
  BY DEF Result
<1>2. after = CHOOSE h : h = [i \in 0 .. Len(q) |->
                 IF i = 0 THEN l
                 ELSE IF q[i].append THEN h[i - 1] \o q[i].list ELSE q[i].list]
  OBVIOUS
<1>3. after = CHOOSE h : Afters(l, q, Len(q), h)
  BY <1>2 DEF Afters, AfterOne
<1> HIDE DEF after
<1>4. Afters(l, q, Len(q), after)
  BY <1>3, AftersExist
<1>5. QED
  BY <1>1, <1>4

\* Without a put the list stays.
LEMMA ResultEmpty == ASSUME NEW l PROVE Result(l, <<>>) = l
<1>1. PICK q \in Seq(Queries) : q = <<>>
  BY EmptySeq
<1>0. PICK n \in Nat : n = 0
  OBVIOUS
<1>5. n = Len(q)
  BY <1>0, <1>1
<1>2. PICK f : Afters(l, q, n, f) /\ Result(l, q) = f[n]
  BY <1>5, ResultIsLast
<1>3. f[0] = l
  BY <1>0, <1>2 DEF Afters
<1>4. QED
  BY <1>0, <1>1, <1>2, <1>3

\* One more put has its effect after those before it.
LEMMA ResultAppend ==
  ASSUME NEW l, NEW q \in Seq(Queries), NEW x \in Queries
  PROVE  Result(l, Append(q, x)) = AfterOne(Result(l, q), x)
<1>1. PICK r \in Seq(Queries), n \in Nat, m \in Nat :
        r = Append(q, x) /\ n = Len(q) /\ m = Len(r) /\ m = n + 1
  <2>1. Append(q, x) \in Seq(Queries) /\ Len(q) \in Nat /\ Len(q) + 1 \in Nat
    BY AppendProperties
  <2>2. Len(Append(q, x)) = Len(q) + 1
    BY AppendProperties
  <2> HIDE DEF Queries
  <2>3. QED
    BY <2>1, <2>2
<1>2. r[m] = x /\ \A i \in 1 .. n : q[i] = r[i + 0]
  BY <1>1
<1>10. m = Len(r)
  BY <1>1
<1>3. PICK f : Afters(l, r, m, f) /\ Result(l, r) = f[m]
  BY <1>10, ResultIsLast
<1>4. PICK g : Afters(l, q, n, g) /\ Result(l, q) = g[n]
  BY <1>1, ResultIsLast
<1>5. f[0] = l /\ f[m] = AfterOne(f[n], x)
  BY <1>1, <1>2, <1>3 DEF Afters
<1>6. n + 0 <= m
  BY <1>1
<1>7. \A i \in 0 .. n : g[i] = f[i + 0]
  BY <1>2, <1>3, <1>4, <1>5, <1>6, AftersShift
<1>8. g[n] = f[n]
  BY <1>7
<1>9. QED
  BY <1>1, <1>3, <1>4, <1>5, <1>8

\* The first put can be executed before the others.
LEMMA ResultTail ==
  ASSUME NEW l, NEW q \in Seq(Queries), q # <<>>
  PROVE  Result(AfterOne(l, Head(q)), Tail(q)) = Result(l, q)
<1>1. PICK r \in Seq(Queries), n \in Nat, m \in Nat, x \in Queries :
        r = Tail(q) /\ n = Len(q) /\ m = Len(r) /\ m + 1 = n /\ x = Head(q)
  <2>1. Tail(q) \in Seq(Queries) /\ Len(Tail(q)) + 1 = Len(q) /\ Head(q) \in Queries
    OBVIOUS
  <2>2. Len(q) \in Nat /\ Len(Tail(q)) \in Nat
    BY <2>1
  <2>3. QED
    BY <2>1, <2>2
<1>2. x = q[1] /\ \A i \in 1 .. m : r[i] = q[i + 1]
  BY <1>1
<1>3. PICK k : k = AfterOne(l, x)
  OBVIOUS
<1>4. PICK f : Afters(l, q, n, f) /\ Result(l, q) = f[n]
  BY <1>1, ResultIsLast
<1>10. m = Len(r)
  BY <1>1
<1>5. PICK g : Afters(k, r, m, g) /\ Result(k, r) = g[m]
  BY <1>10, ResultIsLast
<1>6. f[0] = l /\ f[1] = AfterOne(f[0], q[1])
  BY <1>1, <1>4 DEF Afters
<1>7. k = f[1] /\ m + 1 <= n
  BY <1>1, <1>2, <1>3, <1>6
<1>8. \A i \in 0 .. m : g[i] = f[i + 1]
  BY <1>2, <1>4, <1>5, <1>7, AftersShift
<1>9. QED
  BY <1>1, <1>3, <1>4, <1>5, <1>8

\* The outcome is a list of comments.
LEMMA ResultType ==
  ASSUME NEW l \in Seq(Text), NEW q \in Seq(Queries) PROVE Result(l, q) \in Seq(Text)
<1> DEFINE T == {r \in Seq(Queries) : Result(l, r) \in Seq(Text)}
<1>1. <<>> \in T
  BY ResultEmpty, EmptySeq
<1>2. ASSUME NEW r \in Seq(Queries), NEW x \in Queries, r \in T PROVE Append(r, x) \in T
  <2>1. Result(l, Append(r, x)) = AfterOne(Result(l, r), x)
    BY ResultAppend
  <2>2. x.list \in Seq(Text) /\ Result(l, r) \in Seq(Text)
    BY <1>2 DEF Queries
  <2>3. AfterOne(Result(l, r), x) \in Seq(Text)
    BY <2>2, ConcatProperties DEF AfterOne
  <2> HIDE DEF Queries
  <2>4. Append(r, x) \in Seq(Queries)
    BY AppendProperties
  <2>5. QED
    BY <2>1, <2>3, <2>4
<1>3. Seq(Queries) \subseteq T
  <2> HIDE DEF T
  <2>1. QED
    BY <1>1, <1>2, SeqSetInduction
<1>4. QED
  BY <1>3

\* The newest version of the list, or no list.
Newest == IF array = <<>> THEN <<>> ELSE array[Len(array)]

\* What the queue will make of it, before and after a step.
LEMMA OutcomeIsResult == Outcome = Result(Newest, queue) /\ Outcome' = Result(Newest', queue')
  BY DEF Outcome, Result, Newest

\* While nothing is broken, no comment that was given has a comma.
CommaInv == ~broken => Given \cap WithComma = {}

LEMMA CommaInvInit == Init => CommaInv
  BY DEF Init, CommaInv, Given

\* A comment with a comma breaks the promise as it is given.
LEMMA CommaInvStep == TypeInv /\ CommaInv /\ [Next]_vars => CommaInv'
<1> SUFFICES ASSUME TypeInv, CommaInv, [Next]_vars PROVE CommaInv'
  OBVIOUS
<1>1. ASSUME NEW c \in Typed, Comment(c) PROVE CommaInv'
  <2> SUFFICES ASSUME ~broken' PROVE Given' \cap WithComma = {}
    BY DEF CommaInv
  <2>1. ~broken /\ c[1] \notin WithComma /\ c \in Seq(Text) /\ Len(c) = 1
    <3>1. ~broken /\ c[1] \notin WithComma /\ ~(Len(c) > 1)
      BY <1>1 DEF Comment
    <3>4. c \in Seq(Text) /\ c # <<>>
      BY TypedType
    <3>2. PICK n \in Nat : n = Len(c) /\ n # 0
      BY <3>4
    <3>3. QED
      BY <3>1, <3>2, <3>4
  <2>2. given \in Seq(Text) /\ given' = given \o c
    BY <1>1 DEF Comment, TypeInv, TypeOK
  <2>3. c = <<c[1]>>
    BY <2>1
  <2>4. PICK d \in Text : d = c[1]
    BY <2>1
  <2>5. given' = Append(given, d)
    BY <2>2, <2>3, <2>4, AppendIsConcat
  <2>6. Given' \subseteq Given \cup {d}
    BY <2>2, <2>5 DEF Given
  <2>7. QED
    BY <2>1, <2>4, <2>6 DEF CommaInv
<1>2. CASE ViewSplit \/ DeleteSplit
  <2>1. given' = given
    BY <1>2 DEF ViewSplit, DeleteSplit
  <2>2. ~broken' => ~broken
    BY <1>2 DEF ViewSplit, DeleteSplit
  <2>3. QED
    BY <2>1, <2>2 DEF CommaInv, Given
<1>3. ASSUME \/ ViewGet \/ ExecuteDropped \/ ExecutePush \/ ExecuteCrash \/ Commit
             \/ \E k \in 1 .. MaxNumber : DeleteGet(k)
             \/ UNCHANGED vars
      PROVE  CommaInv'
  <2>1. given' = given /\ broken' = broken
    BY <1>3 DEF ViewGet, ExecuteDropped, ExecutePush, ExecuteCrash, Commit, DeleteGet, vars
  <2>2. QED
    BY <2>1 DEF CommaInv, Given
<1>4. QED
  BY <1>1, <1>2, <1>3 DEF Next

\* So no waiting put is dropped.
LEMMA NothingDropped ==
  ASSUME TypeInv, OrderInv, CommaInv, ~broken, queue # <<>>
  PROVE  ~Drop(Head(queue))
<1>1. Head(queue) = queue[1] /\ 1 \in DOMAIN queue /\ Head(queue).list \in Seq(Text)
  <2>1. Head(queue) = queue[1] /\ 1 \in DOMAIN queue
    BY QueueParts
  <2>2. queue \in Seq(Queries)
    BY DEF TypeInv, TypeOK, Queries
  <2> HIDE DEF Queries
  <2>3. Head(queue) \in Queries
    BY <2>1, <2>2
  <2>4. QED
    BY <2>1, <2>3 DEF Queries
<1>2. Ordered(Head(queue).list)
  BY <1>1 DEF OrderInv
<1>3. \A i \in DOMAIN Head(queue).list : Head(queue).list[i] \in Given
  BY <1>2 DEF Ordered
<1>4. QED
  BY <1>3 DEF CommaInv, Drop

\* It is a list of comments, and empty while there is no version.
LEMMA NewestType ==
  TypeInv => Newest \in Seq(Text) /\ (version = 0 /\ pool = "ready" => Newest = <<>>)
<1> SUFFICES ASSUME TypeInv
             PROVE  Newest \in Seq(Text) /\ (version = 0 /\ pool = "ready" => Newest = <<>>)
  OBVIOUS
<1>1. array \in Seq(Lists) /\ Len(array) \in Nat
  BY DEF TypeInv, TypeOK
<1>2. array # <<>> => array[Len(array)] \in Lists
  BY <1>1
<1>3. Newest \in Seq(Text)
  BY <1>2 DEF Newest, Lists
<1>4. ASSUME version = 0, pool = "ready" PROVE Newest = <<>>
  <2>1. Len(array) = 0
    BY <1>4 DEF TypeInv, TypeOK
  <2>2. array = <<>>
    BY <1>1, <2>1, EmptySeq
  <2>3. QED
    BY <2>2 DEF Newest
<1>5. QED
  BY <1>3, <1>4

\* A cut that does not shorten the newest list leaves it as it is.
LEMMA CutKeepsNewest ==
  ASSUME TypeInv, at # NULL, Cut, ~Shortens
  PROVE  Newest' = Newest
<1>1. /\ DOMAIN array' = DOMAIN array /\ Len(array') = Len(array)
      /\ array'[at] = <<array[at][1]>>
      /\ \A v \in DOMAIN array : v # at => array'[v] = array[v]
  BY CutEffect
<1>2. /\ at \in 1 .. Len(array) /\ array[at] \in Seq(Text) /\ Len(array[at]) \in Nat \ {0}
      /\ array \in Seq(Lists) /\ Len(array) \in Nat
  BY PointedType DEF TypeInv, TypeOK
<1>3. array # <<>> /\ array' # <<>> /\ Len(array) \in DOMAIN array
  <2>1. array' \in Seq(Lists)
    BY CutEffect
  <2>2. QED
    BY <1>1, <1>2, <2>1
<1>4. CASE at = Len(array)
  <2>1. Len(array[at]) = 1
    <3>1. \A n \in Nat \ {0} : ~(n > 1) => n = 1
      OBVIOUS
    <3>2. ~(Len(array[at]) > 1)
      BY <1>4 DEF Shortens
    <3>3. QED
      BY <1>2, <3>1, <3>2, Zenon
  <2>2. PICK l \in Seq(Text) : l = array[at] /\ Len(l) = 1
    BY <1>2, <2>1
  <2>3. l = <<l[1]>>
    BY <2>2
  <2>4. QED
    BY <1>1, <1>3, <1>4, <2>2, <2>3 DEF Newest
<1>5. CASE at # Len(array)
  BY <1>1, <1>3, <1>5 DEF Newest
<1>6. QED
  BY <1>4, <1>5

\* Every step is one of the promised list, or leaves it as it is.
LEMMA StepImplementsList ==
  TypeInv /\ TypeInv' /\ OrderInv /\ CommaInv /\ [Next]_vars
    => [Promise!Next]_<<Outcome, deleted, ~broken /\ pool # "crashed">>
<1> DEFINE Good == ~broken /\ pool # "crashed"
<1> SUFFICES ASSUME TypeInv, TypeInv', OrderInv, CommaInv, Next, Good
             PROVE  \/ Promise!Next
                    \/ Outcome' = Outcome /\ deleted' = deleted /\ Good' = Good
  <2>1. ASSUME UNCHANGED vars PROVE Outcome' = Outcome /\ deleted' = deleted /\ Good' = Good
    BY <2>1 DEF vars, Outcome
  <2>2. ~Good => Promise!Next
    BY DEF Promise!Next
  <2>3. QED
    BY <2>1, <2>2
<1>0. /\ queue \in Seq(Queries) /\ broken \in BOOLEAN
      /\ Outcome = Result(Newest, queue) /\ Outcome' = Result(Newest', queue')
  BY OutcomeIsResult DEF TypeInv, TypeOK, Queries
<1>1. ~Good' => Promise!Next
  BY DEF Promise!Next, Promise!Fail
<1>2. Good' => Good' = Good
  OBVIOUS
<1>3. ASSUME NEW c \in Typed, Comment(c), Good' PROVE Promise!Next
  <2>1. queue' = Append(queue, append(c)) /\ array' = array /\ deleted' = deleted
    BY <1>3 DEF Comment
  <2>2. PICK x \in Queries : x = append(c)
    <3>0. c \in Seq(Text)
      BY TypedType
    <3>1. append(c) \in Queries
      BY <3>0 DEF append, Queries
    <3>2. QED
      BY <3>1
  <2>8. PICK d \in Text : c = <<d>>
    <3>1. ~(Len(c) > 1) /\ c \in Seq(Text) /\ c # <<>>
      BY <1>3, TypedType DEF Comment
    <3>2. PICK n \in Nat : n = Len(c) /\ n # 0
      BY <3>1
    <3>3. Len(c) = 1
      BY <3>1, <3>2
    <3>4. c = <<c[1]>> /\ c[1] \in Text
      BY <3>1, <3>3
    <3>5. QED
      BY <3>4
  <2>3. Outcome' = AfterOne(Outcome, x)
    <3>1. Newest' = Newest /\ queue' = Append(queue, x)
      BY <2>1, <2>2 DEF Newest
    <3>2. Result(Newest, Append(queue, x)) = AfterOne(Result(Newest, queue), x)
      BY <1>0, ResultAppend
    <3>3. QED
      BY <1>0, <3>1, <3>2
  <2>4. AfterOne(Outcome, x) = Outcome \o <<d>>
    BY <2>2, <2>8 DEF AfterOne, append
  <2>5. Outcome \o <<d>> = Append(Outcome, d)
    <3>1. Outcome \in Seq(Text)
      BY <1>0, NewestType, ResultType
    <3>2. QED
      BY <3>1, AppendIsConcat
  <2>6. Promise!Add(d)
    BY <1>2, <1>3, <2>1, <2>3, <2>4, <2>5 DEF Promise!Add
  <2>7. QED
    BY <2>6 DEF Promise!Next
<1>4. ASSUME ViewSplit, Good' PROVE Outcome' = Outcome /\ deleted' = deleted
  <2>1. at # NULL /\ Cut /\ ~Shortens /\ queue' = queue /\ deleted' = deleted
    BY <1>4 DEF ViewSplit, TypeInv, TypeOK
  <2>2. Newest' = Newest
    BY <2>1, CutKeepsNewest
  <2>3. QED
    BY <1>0, <2>1, <2>2
<1>5. ASSUME DeleteSplit, Good'
      PROVE  Promise!Next \/ (Outcome' = Outcome /\ deleted' = deleted)
  <2> DEFINE l == array[at]
             x == replace(Without(l, number))
  <2>1. /\ Joinable(l, number) /\ queue = <<>> /\ at = Len(array)
        /\ deleted' = deleted \cup {l[i] : i \in DOMAIN l \cap {number}}
        /\ queue' = Append(queue, x)
    BY <1>5 DEF DeleteSplit
  <2>2. at # NULL /\ l \in Seq(Text) /\ array # <<>>
    <3>1. at # NULL
      BY <1>5 DEF DeleteSplit, TypeInv, TypeOK
    <3>2. at \in 1 .. Len(array) /\ l \in Seq(Text)
      BY <3>1, PointedType
    <3>3. QED
      BY <3>1, <3>2
  <2>3. Outcome = l
    <3>1. Newest = l
      BY <2>1, <2>2 DEF Newest
    <3>2. Result(Newest, <<>>) = Newest
      BY ResultEmpty
    <3>3. QED
      BY <1>0, <2>1, <3>1, <3>2
  <2>4. Outcome' = Without(l, number)
    <3>1. PICK q \in Queries : q = x
      <4>1. Without(l, number) \in Seq(Text)
        BY <2>2 DEF Without
      <4> HIDE DEF l
      <4>2. QED
        BY <4>1 DEF replace, Queries
    <3>2. PICK n : n = Newest'
      OBVIOUS
    <3>3. Result(n, Append(queue, q)) = AfterOne(Result(n, queue), q)
      BY <1>0, ResultAppend
    <3>4. AfterOne(Result(n, queue), q) = Without(l, number)
      BY <3>1 DEF AfterOne, replace
    <3>5. QED
      BY <1>0, <2>1, <3>1, <3>2, <3>3, <3>4
  <2>5. CASE number \in DOMAIN l
    <3>1. Without(l, number) = SubSeq(l, 1, number - 1) \o SubSeq(l, number + 1, Len(l))
      BY <2>5 DEF Without
    <3>2. deleted' = deleted \cup {l[number]}
      BY <2>1, <2>5
    <3> HIDE DEF l
    <3>3. Promise!Remove(number)
      BY <1>2, <1>5, <2>3, <2>4, <3>1, <3>2 DEF Promise!Remove
    <3>4. number \in DOMAIN Outcome
      BY <2>3, <2>5
    <3>5. QED
      BY <3>3, <3>4 DEF Promise!Next
  <2>6. CASE number \notin DOMAIN l
    <3>1. Without(l, number) = l /\ deleted' = deleted
      BY <2>1, <2>6 DEF Without
    <3>2. QED
      BY <2>3, <2>4, <3>1
  <2>7. QED
    BY <2>5, <2>6
<1>6. ~ExecuteDropped
  BY NothingDropped DEF ExecuteDropped
<1>7. ASSUME ExecutePush PROVE Outcome' = Outcome /\ deleted' = deleted
  <2>1. /\ pool = "ready" /\ queue # <<>> /\ queue' = Tail(queue) /\ deleted' = deleted
        /\ array' = Append(array, NewText(Head(queue))) /\ version = Len(array)
    BY <1>7 DEF ExecutePush, TypeInv, TypeOK
  <2>2. array \in Seq(Lists) /\ NewText(Head(queue)) \in Lists /\ Len(array) \in Nat
    BY <1>7, NewTextType DEF ExecutePush, TypeInv, TypeOK
  <2>3. Newest' = NewText(Head(queue))
    <3>1. array' # <<>> /\ array'[Len(array')] = NewText(Head(queue))
      BY <2>1, <2>2
    <3>2. QED
      BY <3>1 DEF Newest
  <2>4. NewText(Head(queue)) = AfterOne(Newest, Head(queue))
    <3>1. CASE version # 0
      <4>1. Newest = array[version]
        BY <2>1, <2>2, <3>1 DEF Newest
      <4>2. QED
        BY <3>1, <4>1 DEF NewText, AfterOne
    <3>2. CASE version = 0
      <4>1. Newest = <<>>
        BY <2>1, <3>2, NewestType
      <4>2. Head(queue).list \in Seq(Text)
        BY <2>1, NewTextType, <1>7 DEF ExecutePush, Queries
      <4>3. <<>> \o Head(queue).list = Head(queue).list
        BY <4>2, ConcatEmptySeq
      <4>4. QED
        BY <3>2, <4>1, <4>3 DEF NewText, AfterOne
    <3>3. QED
      BY <3>1, <3>2
  <2>5. Result(AfterOne(Newest, Head(queue)), Tail(queue)) = Result(Newest, queue)
    BY <1>0, <2>1, ResultTail
  <2>6. QED
    BY <1>0, <2>1, <2>3, <2>4, <2>5
<1>8. ASSUME ExecuteCrash PROVE ~Good'
  BY <1>8 DEF ExecuteCrash
<1>9. ASSUME ViewGet \/ (\E k \in 1 .. MaxNumber : DeleteGet(k)) \/ Commit
      PROVE  Outcome' = Outcome /\ deleted' = deleted
  <2>1. array' = array /\ queue' = queue /\ deleted' = deleted
    BY <1>9 DEF ViewGet, DeleteGet, Commit
  <2>2. Newest' = Newest
    BY <2>1 DEF Newest
  <2>3. QED
    BY <1>0, <2>1, <2>2
<1> HIDE DEF Good
<1>10. QED
  BY <1>1, <1>2, <1>3, <1>4, <1>5, <1>6, <1>7, <1>8, <1>9 DEF Next

\* The comments implement the list CommentList, for any texts, any number of versions and
\* any interleaving of readers, deletions and appends: a comment is added the moment its
\* put is queued and removed the moment its deletion is, until a reader shortens the list,
\* a comment has a comma or a semicolon, a deletion meets pending puts or cannot be
\* joined, or the process crashes.
THEOREM CommentsImplementList == Spec => ImplementsCommentList
<1>1. Init => Promise!Init
  <2> SUFFICES ASSUME Init PROVE Promise!Init
    OBVIOUS
  <2>1. Newest = <<>> /\ queue = <<>> /\ deleted = {} /\ broken = FALSE /\ pool = "ready"
    BY DEF Init, Newest
  <2>2. Outcome = <<>>
    BY <2>1, OutcomeIsResult, ResultEmpty
  <2>3. QED
    BY <2>1, <2>2 DEF Promise!Init
<1>2. QED
  BY <1>1, CommaInvInit, CommaInvStep, StepImplementsList, OrderInvInit, OrderInvStep,
     TypeInvariance, PTL DEF Spec, ImplementsCommentList, Promise!Spec
=============================================================================
