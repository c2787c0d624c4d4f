---------------------------- MODULE LifecycleProofs ----------------------------
(***************************************************************************)
(* Proofs about the module Lifecycle: what a session leaves behind is what *)
(* the next one begins with, for any users, columns and bounds.            *)
(*                                                                         *)
(* The state that matters is the one that will be there when the pool      *)
(* thread has finished: AfterQueue is the value of a column after the      *)
(* import, if one is pending, and then the queries in the queue.  While    *)
(* nobody acts on a backlog and no dump is torn, it is what the history    *)
(* says, at every moment (AccountsInv, PostsInv); at exit nothing is       *)
(* pending, so the export holds it (ExportInv), the file holds the export  *)
(* (DiskInv), and the import gives it back (ImportInv).                    *)
(***************************************************************************)
EXTENDS Lifecycle, Integers, FoldLemmas, TLAPS

USE PutsAssumption, BoundsAssumption, UserAssumption, NullAssumption

-----------------------------------------------------------------------------
(* What a sequence of lines or queries leaves in a column.                 *)

\* A put on the column, or the deletion of its row.
Hit(x, r, c) == x.row = r /\ x.col \in {c, NULL}

\* The value of column c of row r after the sequence s, if it was v before.
Final(s, r, c, v) ==
  IF \E i \in DOMAIN s : Hit(s[i], r, c)
    THEN s[CHOOSE i \in DOMAIN s : /\ Hit(s[i], r, c)
                                   /\ \A j \in DOMAIN s : j > i => ~Hit(s[j], r, c)].value
    ELSE v

\* The number of lines or queries on posts.
OnPosts(s) == {i \in DOMAIN s : s[i].row \in Id}
Count(s) == Cardinality(OnPosts(s))

-----------------------------------------------------------------------------
(* The inductive invariant.                                                *)

Query ==
  [op : {"put"}, row : Row, col : Col, value : Value] \cup {Del(r) : r \in Row} \cup {Import}
Post == [id : Id, file : File]

\* What is there when the import, and what is there when the whole queue has been executed.
Waiting == queue # <<>> /\ Head(queue) = Import
Importing == importing # <<>> \/ Waiting
AfterImport(r, c) == IF Importing THEN Newest(saved.cell[r][c]) ELSE get(r, c)
AfterQueue(r, c) == Final(queue, r, c, AfterImport(r, c))

TypeInv ==
  /\ phase \in {"off", "auth", "main", "exported", "sized"}
  /\ user \in User \cup {NULL}
  /\ user = NULL <=> phase \in {"off", "auth"}
  /\ cell \in [Row -> [Col -> Seq(Value)]] /\ row_count \in Nat
  /\ queue \in Seq(Query) /\ importing \in Seq(Line)
  /\ export \in Seq(Line) /\ text \in Seq(Line) /\ size \in Nat
  /\ account \in [User -> Password \cup {NULL}] /\ created \in Seq(Post) /\ removed \subseteq Id
  /\ saved \in [cell : [Row -> [Col -> Seq(Value)]], account : [User -> Password \cup {NULL}],
                created : Seq(Post), removed : SUBSET Id]
  /\ events \in [signups : Nat, starts : Nat, hasty : Nat]
  /\ spoilt \in [torn : BOOLEAN, fell : BOOLEAN]
  /\ phase = "off" => cell = NoCells /\ row_count = 0 /\ Idle

\* The import is the first query of a process, which finds empty tables.
ImportIsFirst ==
  \A i \in DOMAIN queue : queue[i] = Import => i = 1 /\ importing = <<>> /\ cell = NoCells

\* Between two processes the history is that of the last complete dump.
OffInv ==
  phase = "off" => account = saved.account /\ created = saved.created /\ removed = saved.removed

\* The size and the lines of filesystem.bin, and what they leave in empty tables.
DiskInv ==
  Patient =>
    /\ size = IF phase = "sized" THEN Len(export) ELSE Len(text)
    /\ \A r \in Row, c \in Col : Final(text, r, c, NULL) = Newest(saved.cell[r][c])
    /\ \A u \in User : saved.account[u] = Newest(saved.cell[u][Puts])

\* The import is on its way to the cells of the last complete dump.
ImportInv ==
  Patient =>
    /\ Waiting => export = text
    /\ importing # <<>> =>
         \A r \in Row, c \in Col : Final(importing, r, c, get(r, c)) = Newest(saved.cell[r][c])

\* What is queued will bring about the accounts.
AccountsInv ==
  Patient /\ phase # "off" => \A u \in User : account[u] = AfterQueue(u, Puts)

\* Nothing changes between the export and the end of the process.
ExportInv == Patient /\ phase \in {"exported", "sized"} => Idle /\ export = ExportLines

\* A row is there; a query of q puts to it, or deletes it and none puts to it again.
HasRow(r) == cell[r] # NoCells[r]
PutsRow(q, i, r) == q[i].op = "put" /\ q[i].row = r
Doomed(q, r) ==
  \E i \in DOMAIN q : q[i] = Del(r) /\ \A j \in DOMAIN q : j > i => q[j].row # r

\* The row of query i is there when its turn comes; if h, it is there now.
Filled(q, i, h) ==
  \/ \E j \in DOMAIN q : /\ j < i /\ PutsRow(q, j, q[i].row)
                         /\ \A k \in DOMAIN q : j < k /\ k < i => q[k].row # q[i].row
  \/ h /\ \A j \in DOMAIN q : j < i => q[j].row # q[i].row

\* A user who is meant to be there will be, and a delete meets its row.
DeletesInv ==
  events.hasty = 0 =>
    /\ \A u \in User : account[u] # NULL => ~Doomed(queue, u)
    /\ phase = "main" /\ account[user] # NULL =>
         HasRow(user) \/ \E i \in DOMAIN queue : PutsRow(queue, i, user)
    /\ \A i \in DOMAIN queue : queue[i].op = "delete" => Filled(queue, i, HasRow(queue[i].row))
    /\ ~spoilt.fell

-----------------------------------------------------------------------------
(* Final and Count, by induction.                                          *)

\* The last hit decides.
LEMMA FinalIsLast ==
  ASSUME NEW s, DOMAIN s \subseteq Nat, NEW r, NEW c, NEW v, NEW i \in DOMAIN s,
         Hit(s[i], r, c), \A j \in DOMAIN s : j > i => ~Hit(s[j], r, c)
  PROVE  Final(s, r, c, v) = s[i].value
<1> DEFINE IsLast(k) == /\ Hit(s[k], r, c)
                        /\ \A j \in DOMAIN s : j > k => ~Hit(s[j], r, c)
           l == CHOOSE k \in DOMAIN s : IsLast(k)
<1>1. l \in DOMAIN s /\ IsLast(l)
  <2>1. IsLast(i)
    OBVIOUS
  <2> HIDE DEF IsLast
  <2>2. QED
    BY <2>1
<1>2. \E k \in DOMAIN s : Hit(s[k], r, c)
  OBVIOUS
<1>3. Final(s, r, c, v) = s[l].value
  BY <1>2 DEF Final
<1> HIDE DEF l
<1>4. l = i
  <2>1. l \in Nat /\ i \in Nat /\ ~(l > i) /\ ~(i > l)
    BY <1>1
  <2>2. QED
    BY <2>1
<1>5. QED
  BY <1>3, <1>4

\* Nothing happens to a column that is not hit.
LEMMA FinalIsFirst ==
  ASSUME NEW s, NEW r, NEW c, NEW v, \A i \in DOMAIN s : ~Hit(s[i], r, c)
  PROVE  Final(s, r, c, v) = v
BY DEF Final

\* Nor when there is nothing.
LEMMA FinalEmpty == ASSUME NEW r, NEW c, NEW v PROVE Final(<<>>, r, c, v) = v
<1>1. DOMAIN <<>> = {}
  OBVIOUS
<1>2. QED
  BY <1>1, FinalIsFirst

\* What is appended takes effect last.
LEMMA FinalAppend ==
  ASSUME NEW S, NEW s \in Seq(S), NEW x \in S, NEW r, NEW c, NEW v
  PROVE  Final(Append(s, x), r, c, v) = IF Hit(x, r, c) THEN x.value ELSE Final(s, r, c, v)
<1> DEFINE t == Append(s, x)
           n == Len(s)
           K == {i \in 1 .. n : Hit(s[i], r, c)}
<1>1. /\ n \in Nat /\ DOMAIN s = 1 .. n /\ DOMAIN t = 1 .. n + 1
      /\ \A i \in 1 .. n : t[i] = s[i]
      /\ t[n + 1] = x
  BY AppendProperties, LenProperties
<1> HIDE DEF t, n
<1>2. CASE Hit(x, r, c)
  <2>1. n + 1 \in DOMAIN t /\ Hit(t[n + 1], r, c) /\ DOMAIN t \subseteq Nat
    BY <1>1, <1>2
  <2>2. \A j \in DOMAIN t : j > n + 1 => ~Hit(t[j], r, c)
    BY <1>1
  <2>3. Final(t, r, c, v) = t[n + 1].value
    BY <2>1, <2>2, FinalIsLast
  <2>4. QED
    BY <1>1, <1>2, <2>3 DEF t
<1>3. CASE ~Hit(x, r, c) /\ K = {}
  <2>1. \A i \in DOMAIN s : ~Hit(s[i], r, c)
    BY <1>1, <1>3
  <2>2. ASSUME NEW i \in DOMAIN t PROVE ~Hit(t[i], r, c)
    <3>1. i \in 1 .. n \/ i = n + 1
      BY <1>1
    <3>2. QED
      BY <1>1, <1>3, <2>1, <3>1
  <2>3. Final(s, r, c, v) = v /\ Final(t, r, c, v) = v
    BY <2>1, <2>2, FinalIsFirst
  <2>4. QED
    BY <1>3, <2>3 DEF t
<1>4. CASE ~Hit(x, r, c) /\ K # {}
  <2>1. PICK i \in K : \A j \in K : j <= i
    BY <1>1, <1>4, HasLast
  <2>2. i \in DOMAIN s /\ Hit(s[i], r, c) /\ DOMAIN s \subseteq Nat
    BY <1>1
  <2>3. \A j \in DOMAIN s : j > i => ~Hit(s[j], r, c)
    BY <1>1, <2>1
  <2>4. Final(s, r, c, v) = s[i].value
    BY <2>2, <2>3, FinalIsLast
  <2>5. i \in DOMAIN t /\ t[i] = s[i] /\ Hit(t[i], r, c) /\ DOMAIN t \subseteq Nat
    BY <1>1, <2>2
  <2>6. ASSUME NEW j \in DOMAIN t, j > i PROVE ~Hit(t[j], r, c)
    <3>1. j \in 1 .. n \/ j = n + 1
      BY <1>1
    <3>2. QED
      BY <1>1, <1>4, <2>3, <2>6, <3>1
  <2>7. Final(t, r, c, v) = t[i].value
    BY <2>5, <2>6, FinalIsLast
  <2>8. QED
    BY <1>4, <2>4, <2>5, <2>7 DEF t
<1>5. QED
  BY <1>2, <1>3, <1>4

\* One sequence after the other.
LEMMA FinalConcat ==
  ASSUME NEW S, NEW s \in Seq(S), NEW w \in Seq(S), NEW r, NEW c, NEW v
  PROVE  Final(s \o w, r, c, v) = Final(w, r, c, Final(s, r, c, v))
<1> DEFINE T == {u \in Seq(S) : Final(s \o u, r, c, v) = Final(u, r, c, Final(s, r, c, v))}
<1>1. <<>> \in T
  <2>1. s \o <<>> = s /\ <<>> \in Seq(S)
    BY ConcatEmptySeq, EmptySeq
  <2>2. QED
    BY <2>1, FinalEmpty
<1>2. ASSUME NEW u \in Seq(S), NEW x \in S, u \in T PROVE Append(u, x) \in T
  <2>1. s \o Append(u, x) = Append(s \o u, x) /\ s \o u \in Seq(S) /\ Append(u, x) \in Seq(S)
    BY ConcatOfAppend, ConcatProperties, AppendProperties
  <2>2. Final(Append(s \o u, x), r, c, v)
          = IF Hit(x, r, c) THEN x.value ELSE Final(s \o u, r, c, v)
    <3>1. PICK t \in Seq(S) : t = s \o u
      BY <2>1
    <3>2. Final(Append(t, x), r, c, v) = IF Hit(x, r, c) THEN x.value ELSE Final(t, r, c, v)
      BY FinalAppend
    <3>3. QED
      BY <3>1, <3>2
  <2>3. Final(Append(u, x), r, c, Final(s, r, c, v))
          = IF Hit(x, r, c) THEN x.value ELSE Final(u, r, c, Final(s, r, c, v))
    BY FinalAppend
  <2>4. Final(s \o u, r, c, v) = Final(u, r, c, Final(s, r, c, v))
    BY <1>2
  <2>5. QED
    BY <2>1, <2>2, <2>3, <2>4
<1>3. Seq(S) \subseteq T
  <2> HIDE DEF T
  <2>1. QED
    BY <1>1, <1>2, SeqSetInduction
<1>4. QED
  BY <1>3

\* The first element takes effect first.
LEMMA FinalTail ==
  ASSUME NEW S, NEW s \in Seq(S), s # <<>>, NEW r, NEW c, NEW v
  PROVE  Final(s, r, c, v)
           = Final(Tail(s), r, c, IF Hit(Head(s), r, c) THEN Head(s).value ELSE v)
<1> DEFINE h == Head(s)
           t == Tail(s)
<1>1. h \in S /\ t \in Seq(S) /\ <<h>> \in Seq(S) /\ <<>> \in Seq(S) /\ s = <<h>> \o t
  BY HeadTailProperties, EmptySeq, HeadThenTail
<1> HIDE DEF h, t
<1>2. PICK e \in Seq(S), o \in Seq(S) : e = <<>> /\ o = <<h>>
  BY <1>1
<1>3. Final(o, r, c, v) = IF Hit(h, r, c) THEN h.value ELSE v
  <2>1. o = Append(e, h)
    BY <1>2
  <2>2. Final(Append(e, h), r, c, v) = IF Hit(h, r, c) THEN h.value ELSE Final(e, r, c, v)
    BY <1>1, FinalAppend
  <2>3. QED
    BY <1>2, <2>1, <2>2, FinalEmpty
<1>4. Final(o \o t, r, c, v) = Final(t, r, c, Final(o, r, c, v))
  BY <1>1, FinalConcat
<1>5. QED
  BY <1>1, <1>2, <1>3, <1>4 DEF h, t

\* The value of the last element, when that is on the column.
LEMMA FinalOfLast ==
  ASSUME NEW S, NEW s \in Seq(S), s # <<>>, NEW r, NEW c, NEW v, Hit(s[Len(s)], r, c)
  PROVE  Final(s, r, c, v) = s[Len(s)].value
<1>1. Len(s) \in Nat \ {0} /\ DOMAIN s = 1 .. Len(s)
  BY EmptySeq, LenProperties
<1>2. Len(s) \in DOMAIN s /\ DOMAIN s \subseteq Nat /\ \A j \in DOMAIN s : ~(j > Len(s))
  BY <1>1
<1>3. QED
  BY <1>2, FinalIsLast

\* The value of all elements on the column, when they have the same and there is one.
LEMMA FinalOfAll ==
  ASSUME NEW S, NEW s \in Seq(S), NEW r, NEW c, NEW v, NEW w,
         \E i \in DOMAIN s : Hit(s[i], r, c),
         \A i \in DOMAIN s : Hit(s[i], r, c) => s[i].value = w
  PROVE  Final(s, r, c, v) = w
<1> DEFINE K == {i \in 1 .. Len(s) : Hit(s[i], r, c)}
<1>1. Len(s) \in Nat /\ DOMAIN s = 1 .. Len(s) /\ K # {}
  BY LenProperties
<1>2. PICK i \in K : \A j \in K : j <= i
  BY <1>1, HasLast
<1>3. i \in DOMAIN s /\ Hit(s[i], r, c) /\ DOMAIN s \subseteq Nat
  BY <1>1
<1>4. \A j \in DOMAIN s : j > i => ~Hit(s[j], r, c)
  BY <1>1, <1>2
<1>5. Final(s, r, c, v) = s[i].value
  BY <1>3, <1>4, FinalIsLast
<1>6. QED
  BY <1>3, <1>5

\* Nothing is counted in an empty sequence.
LEMMA CountEmpty == Count(<<>>) = 0
<1>1. OnPosts(<<>>) = {}
  BY DEF OnPosts
<1>2. QED
  BY <1>1, FS_EmptySet DEF Count

\* There are finitely many elements to count.
LEMMA OnPostsFinite ==
  ASSUME NEW S, NEW s \in Seq(S)
  PROVE  IsFiniteSet(OnPosts(s)) /\ OnPosts(s) \subseteq 1 .. Len(s) /\ Count(s) \in Nat
<1>1. OnPosts(s) \in SUBSET (1 .. Len(s)) /\ Len(s) \in Nat
  BY LenProperties DEF OnPosts
<1>2. IsFiniteSet(1 .. Len(s))
  BY <1>1, FS_Interval
<1>3. IsFiniteSet(OnPosts(s))
  BY <1>1, <1>2, FS_Subset
<1>4. QED
  BY <1>1, <1>3, FS_CardinalityType DEF Count

\* One more is counted if it is on a post.
LEMMA CountAppend ==
  ASSUME NEW S, NEW s \in Seq(S), NEW x \in S
  PROVE  Count(Append(s, x)) = IF x.row \in Id THEN Count(s) + 1 ELSE Count(s)
<1> DEFINE t == Append(s, x)
           n == Len(s)
<1>1. /\ n \in Nat /\ DOMAIN s = 1 .. n /\ DOMAIN t = 1 .. n + 1
      /\ \A i \in 1 .. n : t[i] = s[i]
      /\ t[n + 1] = x
  BY AppendProperties, LenProperties
<1>2. IsFiniteSet(OnPosts(s)) /\ n + 1 \notin OnPosts(s)
  <2>1. n + 1 \notin 1 .. n
    BY <1>1
  <2>2. QED
    BY <2>1, OnPostsFinite
<1> HIDE DEF t, n
<1>3. OnPosts(t) = IF x.row \in Id THEN OnPosts(s) \cup {n + 1} ELSE OnPosts(s)
  <2>1. 1 .. n + 1 = 1 .. n \cup {n + 1} /\ n + 1 \notin 1 .. n
    BY <1>1
  <2>2. QED
    BY <1>1, <2>1, Zenon DEF OnPosts
<1>4. Cardinality(OnPosts(s) \cup {n + 1}) = Cardinality(OnPosts(s)) + 1
  BY <1>2, FS_AddElement
<1>5. QED
  BY <1>3, <1>4 DEF Count, t

\* The count of the whole is the sum of those of its parts.
LEMMA CountConcat ==
  ASSUME NEW S, NEW s \in Seq(S), NEW w \in Seq(S)
  PROVE  Count(s \o w) = Count(s) + Count(w)
<1> DEFINE T == {u \in Seq(S) : Count(s \o u) = Count(s) + Count(u)}
<1>1. <<>> \in T
  <2>1. s \o <<>> = s /\ <<>> \in Seq(S) /\ Count(s) \in Nat
    BY ConcatEmptySeq, EmptySeq, OnPostsFinite
  <2>2. QED
    BY <2>1, CountEmpty
<1>2. ASSUME NEW u \in Seq(S), NEW x \in S, u \in T PROVE Append(u, x) \in T
  <2>1. s \o Append(u, x) = Append(s \o u, x) /\ s \o u \in Seq(S) /\ Append(u, x) \in Seq(S)
    BY ConcatOfAppend, ConcatProperties, AppendProperties
  <2>2. Count(Append(s \o u, x)) = IF x.row \in Id THEN Count(s \o u) + 1 ELSE Count(s \o u)
    <3>1. PICK t \in Seq(S) : t = s \o u
      BY <2>1
    <3>2. Count(Append(t, x)) = IF x.row \in Id THEN Count(t) + 1 ELSE Count(t)
      BY CountAppend
    <3>3. QED
      BY <3>1, <3>2
  <2>3. Count(Append(u, x)) = IF x.row \in Id THEN Count(u) + 1 ELSE Count(u)
    BY CountAppend
  <2>4. Count(s \o u) = Count(s) + Count(u)
    BY <1>2
  <2>5. Count(s) \in Nat /\ Count(u) \in Nat
    BY OnPostsFinite
  <2>6. Count(Append(s \o u, x)) = Count(s) + Count(Append(u, x))
    BY <2>2, <2>3, <2>4, <2>5
  <2>7. QED
    BY <2>1, <2>6
<1>3. Seq(S) \subseteq T
  <2> HIDE DEF T
  <2>1. QED
    BY <1>1, <1>2, SeqSetInduction
<1>4. QED
  BY <1>3

-----------------------------------------------------------------------------
(* Types are kept.                                                         *)

\* Names, ids, columns and values are told apart.
LEMMA DataTypes ==
  /\ NULL \notin Row /\ NULL \notin Col /\ NULL \notin Value
  /\ User \cap Id = {} /\ Row = User \cup Id
  /\ 1 \in Col /\ Puts \in Col /\ Col \subseteq Nat /\ Id \subseteq Nat
  /\ Password \subseteq Value /\ File \subseteq Value /\ Given \in Value
<1>1. Id \subseteq Nat /\ Col \subseteq Nat /\ Password \subseteq Nat /\ File \subseteq Nat
  BY DEF Id, Col, Password, File
<1>2. 1 \in Col /\ Puts \in Col
  BY DEF Col
<1>3. QED
  BY <1>1, <1>2 DEF Row, Value

\* What a query is.
LEMMA QueryTypes ==
  /\ \A r \in Row, c \in Col, v \in Value : Put(r, c, v) \in Query
  /\ \A r \in Row : Del(r) \in Query
  /\ Import \in Query
<1>1. \A r \in Row, c \in Col, v \in Value :
        Put(r, c, v) \in [op : {"put"}, row : Row, col : Col, value : Value]
  BY DEF Put
<1>2. QED
  BY <1>1 DEF Query

\* A put, a delete or the import.
LEMMA QueryKinds ==
  ASSUME NEW q \in Query
  PROVE  \/ q.op = "put" /\ q.row \in Row /\ q.col \in Col /\ q.value \in Value /\ q # Import
         \/ \E r \in Row : q = Del(r) /\ q.op = "delete" /\ q.row = r /\ q.col = NULL
                           /\ q.value = NULL /\ q # Import
         \/ q = Import /\ q.op = "import" /\ q.row = NULL
<1>1. CASE q \in [op : {"put"}, row : Row, col : Col, value : Value]
  BY <1>1 DEF Import
<1>2. CASE q \in {Del(r) : r \in Row}
  BY <1>2 DEF Del, Import
<1>3. CASE q = Import
  BY <1>3 DEF Import
<1>4. QED
  BY <1>1, <1>2, <1>3 DEF Query

\* The sequences that the operations append to the queue.
LEMMA UserPutsType ==
  ASSUME NEW u \in User, NEW p \in Password
  PROVE  /\ UserPuts(u, p) \in Seq(Query)
         /\ DOMAIN UserPuts(u, p) = Col /\ Len(UserPuts(u, p)) = Puts
         /\ \A c \in Col : /\ UserPuts(u, p)[c].op = "put" /\ UserPuts(u, p)[c].row = u
                           /\ UserPuts(u, p)[c].col = c
                           /\ UserPuts(u, p)[c].value = IF c = Puts THEN p ELSE Given
<1> DEFINE e(c) == Put(u, c, IF c = Puts THEN p ELSE Given)
<1>1. \A c \in Col : e(c) \in Query
  BY DataTypes, QueryTypes
<1>2. UserPuts(u, p) = [c \in 1 .. Puts |-> e(c)]
  BY DEF UserPuts, Col
<1> HIDE DEF e
<1>3. UserPuts(u, p) \in [1 .. Puts -> Query]
  BY <1>1, <1>2 DEF Col
<1>4. UserPuts(u, p) \in Seq(Query)
  BY <1>3, SeqDef
<1>5. Len(UserPuts(u, p)) = Puts
  BY <1>3
<1>6. QED
  BY <1>2, <1>4, <1>5 DEF Col, e, Put

PostPuts(id, f) == [c \in Col |-> Put(id, c, f)]

\* The puts of a new post.
LEMMA PostPutsType ==
  ASSUME NEW id \in Id, NEW f \in File
  PROVE  /\ PostPuts(id, f) \in Seq(Query)
         /\ DOMAIN PostPuts(id, f) = Col /\ Len(PostPuts(id, f)) = Puts
         /\ \A c \in Col : /\ PostPuts(id, f)[c].op = "put" /\ PostPuts(id, f)[c].row = id
                           /\ PostPuts(id, f)[c].col = c /\ PostPuts(id, f)[c].value = f
<1> DEFINE e(c) == Put(id, c, f)
<1>1. \A c \in Col : e(c) \in Query
  BY DataTypes, QueryTypes
<1>2. PostPuts(id, f) = [c \in 1 .. Puts |-> e(c)]
  BY DEF PostPuts, Col
<1> HIDE DEF e
<1>3. PostPuts(id, f) \in [1 .. Puts -> Query]
  BY <1>1, <1>2 DEF Col
<1>4. PostPuts(id, f) \in Seq(Query)
  BY <1>3, SeqDef
<1>5. Len(PostPuts(id, f)) = Puts
  BY <1>3
<1>6. QED
  BY <1>2, <1>4, <1>5 DEF Col, e, Put

\* The lines that the export writes for the cells t.
Cells == [Row -> [Col -> Seq(Value)]]
LinesOf(t, r, c) == [v \in DOMAIN t[r][c] |-> [row |-> r, col |-> c, value |-> t[r][c][v]]]
RowParts(t, r) == [c \in Col |-> LinesOf(t, r, c)]
RowLines(t, r) == FlattenSeq(RowParts(t, r))
ExportParts(t) == [i \in DOMAIN RowOrder |-> RowLines(t, RowOrder[i])]

\* The export is written row by row.
LEMMA ExportIsParts == TypeInv => cell \in Cells /\ ExportLines = FlattenSeq(ExportParts(cell))
BY DEF TypeInv, Cells, ExportLines, ExportParts, RowLines, RowParts, Lines, LinesOf

\* The lines of one cell, one for each version.
LEMMA LinesType ==
  ASSUME NEW t \in Cells, NEW r \in Row, NEW c \in Col
  PROVE  /\ LinesOf(t, r, c) \in Seq(Line) /\ Len(LinesOf(t, r, c)) = Len(t[r][c])
         /\ DOMAIN LinesOf(t, r, c) = 1 .. Len(t[r][c])
         /\ \A v \in DOMAIN LinesOf(t, r, c) :
              LinesOf(t, r, c)[v] = [row |-> r, col |-> c, value |-> t[r][c][v]]
<1> DEFINE s == t[r][c]
           e(v) == [row |-> r, col |-> c, value |-> s[v]]
<1>1. s \in Seq(Value)
  BY DEF Cells
<1>2. Len(s) \in Nat /\ DOMAIN s = 1 .. Len(s) /\ \A v \in 1 .. Len(s) : s[v] \in Value
  BY <1>1, LenProperties, ElementOfSeq
<1>3. \A v \in 1 .. Len(s) : e(v) \in Line
  BY <1>2 DEF Line
<1>4. LinesOf(t, r, c) = [v \in 1 .. Len(s) |-> e(v)]
  BY <1>2 DEF LinesOf
<1> HIDE DEF e, s
<1>5. LinesOf(t, r, c) \in [1 .. Len(s) -> Line]
  BY <1>3, <1>4
<1>6. LinesOf(t, r, c) \in Seq(Line)
  BY <1>2, <1>5, SeqDef
<1>7. Len(LinesOf(t, r, c)) = Len(s)
  BY <1>2, <1>5
<1>8. QED
  BY <1>4, <1>6, <1>7 DEF e, s

\* The lines of one row.
LEMMA RowLinesType ==
  ASSUME NEW t \in Cells, NEW r \in Row
  PROVE  /\ RowParts(t, r) \in Seq(Seq(Line)) /\ DOMAIN RowParts(t, r) = Col
         /\ RowLines(t, r) \in Seq(Line)
<1>1. RowParts(t, r) \in [1 .. Puts -> Seq(Line)]
  BY LinesType DEF RowParts, Col
<1>2. RowParts(t, r) \in Seq(Seq(Line))
  BY <1>1, SeqDef
<1>3. QED
  BY <1>1, <1>2, FlattenType DEF RowLines, Col

\* Each row is exported in one place.
LEMMA RowOrderOnce ==
  /\ RowOrder \in Seq(Row)
  /\ \A r \in Row : \E i \in DOMAIN RowOrder : RowOrder[i] = r
  /\ \A i, j \in DOMAIN RowOrder : RowOrder[i] = RowOrder[j] => i = j
<1> DEFINE a == SetToSeq(User)
           b == [i \in Id |-> i]
<1>1. /\ a \in Seq(User)
      /\ \A u \in User : \E i \in DOMAIN a : a[i] = u
      /\ \A i, j \in DOMAIN a : a[i] = a[j] => i = j
  BY SetToSeqOnce
<1>2. b \in Seq(Id) /\ Len(b) = MaxId /\ \A i \in 1 .. MaxId : b[i] = i
  <2>1. b \in [1 .. MaxId -> Id]
    BY DEF Id
  <2>2. b \in Seq(Id)
    BY <2>1, SeqDef
  <2>3. QED
    BY <2>1, <2>2 DEF Id
<1>3. a \in Seq(Row) /\ b \in Seq(Row)
  BY <1>1, <1>2, SeqMonotonic DEF Row
<1>4. RowOrder = a \o b
  BY DEF RowOrder
<1> HIDE DEF a, b
<1>5. /\ RowOrder \in Seq(Row) /\ Len(RowOrder) = Len(a) + MaxId
      /\ \A i \in 1 .. Len(a) + MaxId :
           RowOrder[i] = IF i <= Len(a) THEN a[i] ELSE b[i - Len(a)]
  BY <1>2, <1>3, <1>4, ConcatProperties
<1>6. Len(a) \in Nat /\ DOMAIN a = 1 .. Len(a) /\ DOMAIN RowOrder = 1 .. Len(a) + MaxId
  BY <1>1, <1>5, LenProperties
<1>7. \A i \in DOMAIN RowOrder :
        \/ i \in DOMAIN a /\ RowOrder[i] = a[i] /\ a[i] \in User
        \/ i - Len(a) \in 1 .. MaxId /\ RowOrder[i] = i - Len(a) /\ i - Len(a) \in Id
  <2> SUFFICES ASSUME NEW i \in DOMAIN RowOrder
               PROVE  \/ i \in DOMAIN a /\ RowOrder[i] = a[i] /\ a[i] \in User
                      \/ /\ i - Len(a) \in 1 .. MaxId /\ RowOrder[i] = i - Len(a)
                         /\ i - Len(a) \in Id
    OBVIOUS
  <2>1. CASE i <= Len(a)
    <3>1. i \in 1 .. Len(a) /\ i \in 1 .. Len(a) + MaxId
      BY <1>6, <2>1
    <3>2. QED
      BY <1>1, <1>5, <1>6, <2>1, <3>1, ElementOfSeq
  <2>2. CASE ~(i <= Len(a))
    <3>1. i - Len(a) \in 1 .. MaxId /\ i \in 1 .. Len(a) + MaxId
      BY <1>6, <2>2
    <3>2. RowOrder[i] = b[i - Len(a)]
      BY <1>5, <2>2, <3>1
    <3>3. QED
      BY <1>2, <3>1, <3>2 DEF Id
  <2>3. QED
    BY <2>1, <2>2
<1>8. ASSUME NEW r \in Row PROVE \E i \in DOMAIN RowOrder : RowOrder[i] = r
  <2>1. CASE r \in User
    <3>1. PICK i \in DOMAIN a : a[i] = r
      BY <1>1, <2>1
    <3>2. i \in 1 .. Len(a) + MaxId /\ i <= Len(a)
      BY <1>6
    <3>3. QED
      BY <1>5, <1>6, <3>1, <3>2
  <2>2. CASE r \in Id
    <3>1. r \in 1 .. MaxId
      BY <2>2 DEF Id
    <3>2. r + Len(a) \in 1 .. Len(a) + MaxId /\ ~(r + Len(a) <= Len(a)) /\ (r + Len(a)) - Len(a) = r
      BY <1>6, <3>1
    <3>3. RowOrder[r + Len(a)] = b[r]
      BY <1>5, <3>2
    <3>4. QED
      BY <1>2, <1>6, <3>1, <3>2, <3>3
  <2>3. QED
    BY <2>1, <2>2 DEF Row
<1>9. ASSUME NEW i \in DOMAIN RowOrder, NEW j \in DOMAIN RowOrder, RowOrder[i] = RowOrder[j]
      PROVE  i = j
  <2>1. CASE i \in DOMAIN a /\ j \in DOMAIN a /\ RowOrder[i] = a[i] /\ RowOrder[j] = a[j]
    BY <1>1, <1>9, <2>1
  <2>2. CASE RowOrder[i] = i - Len(a) /\ RowOrder[j] = j - Len(a)
    <3>1. i - Len(a) = j - Len(a)
      BY <1>9, <2>2
    <3>2. i \in Int /\ j \in Int /\ Len(a) \in Int
      BY <1>6
    <3>3. QED
      BY <3>1, <3>2
  <2>3. QED
    BY <1>7, <1>9, <2>1, <2>2, DataTypes
<1>10. QED
  BY <1>5, <1>8, <1>9

\* The lines of all rows.
LEMMA ExportType ==
  ASSUME NEW t \in Cells
  PROVE  /\ ExportParts(t) \in Seq(Seq(Line)) /\ DOMAIN ExportParts(t) = DOMAIN RowOrder
         /\ FlattenSeq(ExportParts(t)) \in Seq(Line)
<1>1. DOMAIN RowOrder = 1 .. Len(RowOrder) /\ Len(RowOrder) \in Nat
      /\ \A i \in DOMAIN RowOrder : RowOrder[i] \in Row
  BY RowOrderOnce, LenProperties
<1>2. ExportParts(t) \in [1 .. Len(RowOrder) -> Seq(Line)]
  BY <1>1, RowLinesType DEF ExportParts
<1>3. ExportParts(t) \in Seq(Seq(Line))
  BY <1>1, <1>2, SeqDef
<1>4. QED
  BY <1>1, <1>2, <1>3, FlattenType

\* A version more in one cell.
LEMMA ApplyEffect ==
  ASSUME TypeInv, NEW r \in Row, NEW c \in Col, NEW v \in Value, Apply(r, c, v)
  PROVE  /\ cell' \in [Row -> [Col -> Seq(Value)]] /\ row_count' \in Nat
         /\ \A q \in Row, d \in Col :
              cell'[q][d] = IF q = r /\ d = c THEN Append(cell[r][c], v) ELSE cell[q][d]
         /\ \A q \in Row \ {r} : cell'[q] = cell[q]
<1>1. cell \in [Row -> [Col -> Seq(Value)]] /\ row_count \in Nat
  BY DEF TypeInv
<1>2. cell' = [cell EXCEPT ![r][c] = Append(@, v)]
  BY DEF Apply
<1>3. Append(cell[r][c], v) \in Seq(Value)
  <2>1. cell[r][c] \in Seq(Value)
    BY <1>1
  <2>2. QED
    BY <2>1, AppendProperties
<1>4. cell'[r] = [cell[r] EXCEPT ![c] = Append(@, v)]
  BY <1>1, <1>2
<1>5. DOMAIN cell' = Row /\ \A q \in Row \ {r} : cell'[q] = cell[q]
  BY <1>1, <1>2
<1>6. /\ DOMAIN cell'[r] = Col
      /\ \A d \in Col : cell'[r][d] = IF d = c THEN Append(cell[r][c], v) ELSE cell[r][d]
  BY <1>1, <1>4
<1>7. cell'[r] \in [Col -> Seq(Value)]
  BY <1>1, <1>3, <1>4, <1>6
<1>8. cell' \in [Row -> [Col -> Seq(Value)]]
  BY <1>1, <1>2, <1>5, <1>7
<1>9. row_count' \in Nat
  BY <1>1 DEF Apply
<1>10. QED
  BY <1>5, <1>6, <1>8, <1>9

\* No version in the cells of one row.
LEMMA ClearEffect ==
  ASSUME TypeInv, NEW r \in Row, cell' = [cell EXCEPT ![r] = NoCells[r]]
  PROVE  /\ cell' \in [Row -> [Col -> Seq(Value)]]
         /\ \A c \in Col : cell'[r][c] = <<>>
         /\ \A q \in Row \ {r} : cell'[q] = cell[q]
<1>1. cell \in [Row -> [Col -> Seq(Value)]]
  BY DEF TypeInv
<1>2. NoCells[r] = [c \in Col |-> <<>>] /\ <<>> \in Seq(Value)
  BY EmptySeq DEF NoCells
<1>3. NoCells[r] \in [Col -> Seq(Value)]
  BY <1>2
<1>4. QED
  BY <1>1, <1>2, <1>3

\* Empty tables are tables.
LEMMA NoCellsType == NoCells \in [Row -> [Col -> Seq(Value)]]
BY EmptySeq DEF NoCells

\* The head of the queue.
LEMMA HeadTypes ==
  ASSUME TypeInv, queue # <<>>
  PROVE  /\ Head(queue) \in Query /\ Tail(queue) \in Seq(Query)
         /\ Head(queue).op = "put" => /\ Head(queue).row \in Row /\ Head(queue).col \in Col
                                      /\ Head(queue).value \in Value
         /\ Head(queue).op = "delete" => \E r \in Row : Head(queue) = Del(r) /\ Head(queue).row = r
         /\ Head(queue).op = "import" <=> Head(queue) = Import
<1>1. Head(queue) \in Query /\ Tail(queue) \in Seq(Query)
  BY HeadTailProperties DEF TypeInv
<1>2. QED
  BY <1>1, QueryKinds

\* The head of the lines to import.
LEMMA LineTypes ==
  ASSUME TypeInv, importing # <<>>
  PROVE  /\ Head(importing) \in Line /\ Tail(importing) \in Seq(Line)
         /\ Head(importing).row \in Row /\ Head(importing).col \in Col
         /\ Head(importing).value \in Value
<1>1. Head(importing) \in Line /\ Tail(importing) \in Seq(Line)
  BY HeadTailProperties DEF TypeInv
<1>2. QED
  BY <1>1 DEF Line

\* The program begins with typed state.
LEMMA InitTyped == Init => TypeInv
<1> SUFFICES ASSUME Init PROVE TypeInv
  OBVIOUS
<1>1. cell \in [Row -> [Col -> Seq(Value)]]
  BY NoCellsType DEF Init
<1>2. account \in [User -> Password \cup {NULL}]
  BY DEF Init
<1>3. /\ queue \in Seq(Query) /\ importing \in Seq(Line) /\ export \in Seq(Line)
      /\ text \in Seq(Line) /\ created \in Seq(Post)
  BY EmptySeq DEF Init
<1>4. saved \in [cell : [Row -> [Col -> Seq(Value)]], account : [User -> Password \cup {NULL}],
                 created : Seq(Post), removed : SUBSET Id]
  BY <1>2, NoCellsType, EmptySeq DEF Init
<1>5. /\ events \in [signups : Nat, starts : Nat, hasty : Nat]
      /\ spoilt \in [torn : BOOLEAN, fell : BOOLEAN]
  BY DEF Init
<1>6. QED
  BY <1>1, <1>2, <1>3, <1>4, <1>5 DEF Init, TypeInv, Idle

\* Memory is empty when the process has ended.
LEMMA LoseMemoryTyped ==
  ASSUME LoseMemory
  PROVE  /\ phase' = "off" /\ user' = NULL /\ cell' \in [Row -> [Col -> Seq(Value)]]
         /\ cell' = NoCells' /\ row_count' = 0 /\ Idle'
         /\ queue' \in Seq(Query) /\ importing' \in Seq(Line)
BY NoCellsType, EmptySeq DEF LoseMemory, Idle, NoCells

\* A process that ends without a dump leaves typed state.
LEMMA RevertTyped ==
  ASSUME TypeInv, Revert, spoilt' \in [torn : BOOLEAN, fell : BOOLEAN] PROVE TypeInv'
<1>1. LoseMemory /\ UNCHANGED <<export, size, text, saved, events>>
  BY DEF Revert, disk
<1>2. /\ account' \in [User -> Password \cup {NULL}] /\ created' \in Seq(Post)
      /\ removed' \subseteq Id
  BY DEF Revert, TypeInv
<1>3. QED
  BY <1>1, <1>2, LoseMemoryTyped DEF TypeInv

\* And so are the sequences that a start reads and an import begins with.
LEMMA StartReads ==
  ASSUME TypeInv
  PROVE  SubSeq(text, 1, IF size < Len(text) THEN size ELSE Len(text)) \in Seq(Line)
<1>1. PICK m \in Nat : m = IF size < Len(text) THEN size ELSE Len(text)
  BY LenProperties DEF TypeInv
<1>2. \A i \in 1 .. m : text[i] \in Line
  <2>1. m <= Len(text) /\ text \in Seq(Line) /\ Len(text) \in Nat
    BY <1>1, LenProperties DEF TypeInv
  <2>2. QED
    BY <2>1, ElementOfSeq
<1>3. SubSeq(text, 1, m) \in Seq(Line)
  BY <1>2, SubSeqProperties
<1>4. QED
  BY <1>1, <1>3

\* What an import begins with are lines.
LEMMA ImportReads ==
  ASSUME TypeInv,
         NEW s \in {export} \cup (IF export = <<>> THEN {} ELSE {Append(export, Last(export))})
  PROVE  s \in Seq(Line)
<1>1. export \in Seq(Line)
  BY DEF TypeInv
<1>2. export # <<>> => Append(export, Last(export)) \in Seq(Line)
  <2>1. ASSUME export # <<>> PROVE Last(export) \in Line
    BY <1>1, <2>1, EmptySeq, ElementOfSeq DEF Last
  <2>2. QED
    BY <1>1, <2>1, AppendProperties
<1>3. QED
  BY <1>1, <1>2

\* Every step keeps the types, one action at a time.
LEMMA NextTyped == TypeInv /\ [Next]_vars => TypeInv'
<1> SUFFICES ASSUME TypeInv, [Next]_vars PROVE TypeInv'
  OBVIOUS
<1>0. UNCHANGED <<Row, Col, Id>> /\ events \in [signups : Nat, starts : Nat, hasty : Nat]
  BY DEF TypeInv
<1>1. CASE Start
  <2>1. export' \in Seq(Line)
    BY <1>1, StartReads DEF Start
  <2>2. queue' \in Seq(Query)
    <3>1. <<Import>> \in Seq(Query)
      BY QueryTypes
    <3>2. QED
      BY <1>1, <3>1 DEF Start
  <2>3. events' \in [signups : Nat, starts : Nat, hasty : Nat]
    BY <1>0, <1>1 DEF Start
  <2>4. QED
    BY <1>1, <2>1, <2>2, <2>3 DEF Start, TypeInv, Idle, history
<1>2. ASSUME NEW b \in BOOLEAN, Hasty(b)
      PROVE  events' \in [signups : Nat, starts : Nat, hasty : Nat]
  BY <1>0, <1>2 DEF Hasty
<1>3. CASE ExitExport
  <2>1. events' \in [signups : Nat, starts : Nat, hasty : Nat]
    BY <1>2, <1>3 DEF ExitExport
  <2>2. QED
    BY <1>3, <2>1, ExportIsParts, ExportType DEF ExitExport, TypeInv, memory, history
<1>4. CASE DumpSize
  BY <1>4, LenProperties DEF DumpSize, TypeInv, memory, history
<1>5. CASE DumpText
  <2>1. saved' \in [cell : [Row -> [Col -> Seq(Value)]], account : [User -> Password \cup {NULL}],
                    created : Seq(Post), removed : SUBSET Id]
    BY <1>5 DEF DumpText, TypeInv
  <2>2. QED
    BY <1>5, <2>1, LoseMemoryTyped DEF DumpText, TypeInv, history
<1>6. CASE Crash
  <2>1. spoilt' \in [torn : BOOLEAN, fell : BOOLEAN]
    BY <1>6 DEF Crash, TypeInv
  <2>2. QED
    BY <1>6, <2>1, RevertTyped DEF Crash
<1>7. ASSUME NEW u \in User, NEW p \in Password, Login(u, p) PROVE TypeInv'
  BY <1>7 DEF Login, TypeInv, memory, disk, history
<1>8. ASSUME NEW u \in User, NEW p \in Password, SignUp(u, p) PROVE TypeInv'
  <2>1. queue' \in Seq(Query)
    BY <1>8, UserPutsType, ConcatProperties DEF SignUp, TypeInv
  <2>2. account' \in [User -> Password \cup {NULL}]
    BY <1>8 DEF SignUp, TypeInv
  <2>3. events' \in [signups : Nat, starts : Nat, hasty : Nat]
    BY <1>0, <1>8 DEF SignUp
  <2>4. phase' = "main" /\ user' = u /\ u # NULL
    BY <1>8 DEF SignUp
  <2>5. QED
    BY <1>8, <2>1, <2>2, <2>3, <2>4 DEF SignUp, TypeInv, disk
<1>9. CASE RemoveUser
  <2>1. user \in User
    BY <1>9 DEF RemoveUser, TypeInv
  <2>2. queue' \in Seq(Query)
    BY <1>9, <2>1, QueryTypes, DataTypes, AppendProperties DEF RemoveUser, TypeInv
  <2>3. account' \in [User -> Password \cup {NULL}]
    BY <1>9 DEF RemoveUser, TypeInv
  <2>4. events' \in [signups : Nat, starts : Nat, hasty : Nat]
    BY <1>2, <1>9 DEF RemoveUser
  <2>5. QED
    BY <1>9, <2>2, <2>3, <2>4 DEF RemoveUser, TypeInv, disk
<1>10. ASSUME NEW f \in File, CreatePost(f) PROVE TypeInv'
  <2> DEFINE id == get_new_post_id
  <2>1. /\ id \in Id /\ queue' = queue \o PostPuts(id, f)
        /\ created' = Append(created, [id |-> id, file |-> f])
    BY <1>10 DEF CreatePost, TypeInv, get_new_post_id, Id, PostPuts
  <2> HIDE DEF id
  <2>2. queue' \in Seq(Query)
    BY <2>1, PostPutsType, ConcatProperties DEF TypeInv
  <2>3. created' \in Seq(Post)
    <3>1. [id |-> id, file |-> f] \in Post
      BY <2>1 DEF Post
    <3>2. QED
      BY <2>1, <3>1, AppendProperties DEF TypeInv
  <2>4. events' \in [signups : Nat, starts : Nat, hasty : Nat]
    BY <1>2, <1>10 DEF CreatePost, PostBacklog
  <2>5. QED
    BY <1>10, <2>2, <2>3, <2>4 DEF CreatePost, TypeInv, disk
<1>11. ASSUME NEW id \in Id, RemovePost(id) PROVE TypeInv'
  <2>1. queue' \in Seq(Query)
    BY <1>11, QueryTypes, DataTypes, AppendProperties DEF RemovePost, TypeInv
  <2>2. events' \in [signups : Nat, starts : Nat, hasty : Nat]
    BY <1>2, <1>11 DEF RemovePost, PostBacklog
  <2>3. QED
    BY <1>11, <2>1, <2>2 DEF RemovePost, TypeInv, disk
<1>12. CASE ExecutePut
  <2>1. /\ cell' \in [Row -> [Col -> Seq(Value)]] /\ row_count' \in Nat /\ queue' \in Seq(Query)
        /\ phase # "off"
    BY <1>12, HeadTypes, ApplyEffect DEF ExecutePut
  <2>2. QED
    BY <1>12, <2>1 DEF ExecutePut, TypeInv, disk, history
<1>13. CASE ExecuteDelete
  <2>1. cell' \in [Row -> [Col -> Seq(Value)]] /\ queue' \in Seq(Query) /\ phase # "off"
    BY <1>13, HeadTypes, ClearEffect DEF ExecuteDelete
  <2>2. QED
    BY <1>13, <2>1 DEF ExecuteDelete, TypeInv, disk, history
<1>14. CASE ExecuteDeleteCrash
  <2>1. spoilt' \in [torn : BOOLEAN, fell : BOOLEAN]
    BY <1>14 DEF ExecuteDeleteCrash, TypeInv
  <2>2. QED
    BY <1>14, <2>1, RevertTyped DEF ExecuteDeleteCrash
<1>15. CASE ExecuteImport
  <2>1. importing' \in Seq(Line) /\ queue' \in Seq(Query) /\ phase # "off"
    BY <1>15, HeadTypes, ImportReads DEF ExecuteImport
  <2>2. QED
    BY <1>15, <2>1 DEF ExecuteImport, TypeInv, disk, history
<1>16. CASE ImportLine
  <2>1. /\ cell' \in [Row -> [Col -> Seq(Value)]] /\ row_count' \in Nat /\ importing' \in Seq(Line)
        /\ phase # "off"
    BY <1>16, LineTypes, ApplyEffect DEF ImportLine
  <2>2. QED
    BY <1>16, <2>1 DEF ImportLine, TypeInv, disk, history
<1>17. CASE UNCHANGED vars
  BY <1>17 DEF vars, memory, disk, history, TypeInv, Idle
<1>18. QED
  BY <1>1, <1>3, <1>4, <1>5, <1>6, <1>7, <1>8, <1>9, <1>10, <1>11, <1>12, <1>13, <1>14, <1>15,
     <1>16, <1>17 DEF Next, PoolStep

\* The invariant is about more than TypeOK, which the runs check.
LEMMA TypeInvTypes == TypeInv => TypeOK
<1> SUFFICES ASSUME TypeInv PROVE TypeOK
  OBVIOUS
<1>1. \A i \in DOMAIN queue : queue[i].op \in {"put", "delete"} => queue[i].row \in Row
  <2>1. \A i \in DOMAIN queue : queue[i] \in Query
    BY LenProperties, ElementOfSeq DEF TypeInv
  <2>2. QED
    BY <2>1, QueryKinds
<1>2. QED
  BY <1>1 DEF TypeInv, TypeOK

\* TypeInv is inductive by itself.
LEMMA Typed == Spec => []TypeInv
<1>1. QED
  BY InitTyped, NextTyped, PTL DEF Spec

\* Every variable keeps its type, for any users, columns and bounds: queries and lines are
\* those of rows and columns there are, and a process that has ended left nothing behind.
THEOREM SessionTypes == Spec => []TypeOK
<1>1. QED
  BY Typed, TypeInvTypes, PTL

-----------------------------------------------------------------------------
(* Deletes and their rows.                                                 *)

\* An operation that keeps the count of hasty operations met no backlog.
LEMMA HastyMeans ==
  ASSUME TypeInv, NEW b \in BOOLEAN, Hasty(b), events'.hasty = 0
  PROVE  ~b /\ events' = events
<1>1. events \in [signups : Nat, starts : Nat, hasty : Nat]
  BY DEF TypeInv
<1>2. CASE b
  <2>1. events' = [events EXCEPT !.hasty = @ + 1]
    BY <1>2 DEF Hasty
  <2>2. events'.hasty = events.hasty + 1 /\ events.hasty \in Nat
    BY <1>1, <2>1
  <2>3. QED
    BY <2>2
<1>3. CASE ~b
  BY <1>3 DEF Hasty
<1>4. QED
  BY <1>2, <1>3

\* Neither that count nor the mark of a torn dump is ever taken back.
LEMMA PatienceLasts ==
  ASSUME TypeInv, [Next]_vars
  PROVE  /\ events'.hasty = 0 => events.hasty = 0
         /\ Patient' => Patient
<1>1. /\ events \in [signups : Nat, starts : Nat, hasty : Nat]
      /\ spoilt \in [torn : BOOLEAN, fell : BOOLEAN]
  BY DEF TypeInv
<1>2. ASSUME NEW b \in BOOLEAN, Hasty(b) PROVE events'.hasty = 0 => events.hasty = 0
  BY <1>2, HastyMeans
<1>3. events'.hasty = 0 => events.hasty = 0
  <2>1. CASE Start
    <3>1. events' = [events EXCEPT !.starts = @ + 1]
      BY <2>1 DEF Start
    <3>2. QED
      BY <1>1, <3>1
  <2>2. ASSUME NEW u \in User, NEW p \in Password, SignUp(u, p)
        PROVE  events'.hasty = 0 => events.hasty = 0
    <3>1. events' = [events EXCEPT !.signups = @ + 1]
      BY <2>2 DEF SignUp
    <3>2. QED
      BY <1>1, <3>1
  <2>3. CASE ExitExport
    BY <1>2, <2>3 DEF ExitExport
  <2>4. CASE RemoveUser
    BY <1>2, <2>4 DEF RemoveUser
  <2>5. ASSUME NEW f \in File, CreatePost(f) PROVE events'.hasty = 0 => events.hasty = 0
    BY <1>2, <2>5 DEF CreatePost, PostBacklog
  <2>6. ASSUME NEW id \in Id, RemovePost(id) PROVE events'.hasty = 0 => events.hasty = 0
    BY <1>2, <2>6 DEF RemovePost, PostBacklog
  <2>7. CASE UNCHANGED events
    BY <2>7
  <2>8. QED
    BY <2>1, <2>2, <2>3, <2>4, <2>5, <2>6, <2>7 DEF Next, PoolStep, DumpSize, DumpText, Crash,
       Login, Revert, ExecutePut, ExecuteDelete, ExecuteDeleteCrash, ExecuteImport, ImportLine, vars
<1>4. spoilt.torn => spoilt'.torn
  <2>1. CASE Crash
    <3>1. spoilt' = [spoilt EXCEPT !.torn = @ \/ phase = "sized"]
      BY <2>1 DEF Crash
    <3>2. QED
      BY <1>1, <3>1
  <2>2. CASE ExecuteDeleteCrash
    <3>1. spoilt' = [spoilt EXCEPT !.fell = TRUE, !.torn = @ \/ phase = "sized"]
      BY <2>2 DEF ExecuteDeleteCrash
    <3>2. QED
      BY <1>1, <3>1
  <2>3. CASE UNCHANGED spoilt
    BY <2>3
  <2>4. QED
    BY <2>1, <2>2, <2>3 DEF Next, PoolStep, Start, ExitExport, DumpSize, DumpText, Login, SignUp,
       RemoveUser, CreatePost, RemovePost, ExecutePut, ExecuteDelete, ExecuteImport, ImportLine,
       vars
<1>5. QED
  BY <1>3, <1>4 DEF Patient

\* A row is there if one of its cells has a version.
LEMMA RowHasCell ==
  ASSUME TypeInv, NEW r \in Row
  PROVE  HasRow(r) <=> \E c \in Col : cell[r][c] # <<>>
<1>1. cell[r] \in [Col -> Seq(Value)] /\ NoCells[r] = [c \in Col |-> <<>>]
  BY DEF TypeInv, NoCells
<1>2. QED
  BY <1>1 DEF HasRow

\* A row that is not doomed and occurs in the queue is put to last.
LEMMA LastOfRow ==
  ASSUME NEW q \in Seq(Query), NEW r \in Row, ~Doomed(q, r), \E i \in DOMAIN q : q[i].row = r
  PROVE  \E k \in DOMAIN q : PutsRow(q, k, r) /\ \A j \in DOMAIN q : j > k => q[j].row # r
<1> DEFINE K == {i \in 1 .. Len(q) : q[i].row = r}
<1>1. /\ Len(q) \in Nat /\ DOMAIN q = 1 .. Len(q) /\ K # {}
      /\ \A i \in DOMAIN q : q[i] \in Query
  BY LenProperties, ElementOfSeq
<1>2. PICK k \in K : \A j \in K : j <= k
  BY <1>1, HasLast
<1>3. k \in DOMAIN q /\ q[k].row = r /\ \A j \in DOMAIN q : j > k => q[j].row # r
  BY <1>1, <1>2
<1>4. q[k] # Del(r)
  BY <1>3 DEF Doomed
<1>5. q[k].op = "put"
  BY <1>1, <1>3, <1>4, QueryKinds, DataTypes
<1>6. QED
  BY <1>3, <1>5 DEF PutsRow

\* What is appended dooms no row that it does not delete, and fills what was filled.
LEMMA DoomedConcat ==
  ASSUME NEW q \in Seq(Query), NEW w \in Seq(Query), NEW r,
         \A i \in DOMAIN w : w[i] # Del(r), Doomed(q \o w, r)
  PROVE  Doomed(q, r)
<1> DEFINE t == q \o w
<1>1. /\ Len(q) \in Nat /\ DOMAIN q = 1 .. Len(q) /\ Len(w) \in Nat /\ DOMAIN w = 1 .. Len(w)
      /\ DOMAIN t = 1 .. Len(q) + Len(w)
      /\ \A i \in 1 .. Len(q) + Len(w) : t[i] = IF i <= Len(q) THEN q[i] ELSE w[i - Len(q)]
  BY LenProperties, ConcatProperties
<1>2. PICK i \in DOMAIN t : t[i] = Del(r) /\ \A j \in DOMAIN t : j > i => t[j].row # r
  BY DEF Doomed
<1> HIDE DEF t
<1>3. i <= Len(q)
  <2>1. CASE ~(i <= Len(q))
    <3>1. i - Len(q) \in DOMAIN w
      BY <1>1, <2>1
    <3>2. t[i] = w[i - Len(q)]
      BY <1>1, <2>1
    <3>3. QED
      BY <1>2, <3>1, <3>2
  <2>2. QED
    BY <2>1
<1>4. i \in DOMAIN q /\ q[i] = Del(r)
  BY <1>1, <1>2, <1>3
<1>5. ASSUME NEW j \in DOMAIN q, j > i PROVE q[j].row # r
  <2>1. j \in DOMAIN t /\ t[j] = q[j]
    BY <1>1
  <2>2. QED
    BY <1>2, <1>5, <2>1
<1>6. QED
  BY <1>4, <1>5 DEF Doomed

\* What was filled stays filled when something is appended.
LEMMA FilledConcat ==
  ASSUME NEW q \in Seq(Query), NEW w \in Seq(Query), NEW h, NEW i \in DOMAIN q, Filled(q, i, h)
  PROVE  i \in DOMAIN (q \o w) /\ (q \o w)[i] = q[i] /\ Filled(q \o w, i, h)
<1> DEFINE t == q \o w
<1>1. /\ Len(q) \in Nat /\ DOMAIN q = 1 .. Len(q) /\ Len(w) \in Nat
      /\ DOMAIN t = 1 .. Len(q) + Len(w)
      /\ \A k \in 1 .. Len(q) + Len(w) : t[k] = IF k <= Len(q) THEN q[k] ELSE w[k - Len(q)]
  BY LenProperties, ConcatProperties
<1> HIDE DEF t
<1>2. i \in DOMAIN t /\ \A k \in DOMAIN q : k \in DOMAIN t /\ t[k] = q[k]
  BY <1>1
<1>3. \A k \in DOMAIN t : k < i => k \in DOMAIN q
  BY <1>1
<1>4. CASE \E j \in DOMAIN q : /\ j < i /\ PutsRow(q, j, q[i].row)
                               /\ \A k \in DOMAIN q : j < k /\ k < i => q[k].row # q[i].row
  <2>1. PICK j \in DOMAIN q : /\ j < i /\ PutsRow(q, j, q[i].row)
                              /\ \A k \in DOMAIN q : j < k /\ k < i => q[k].row # q[i].row
    BY <1>4
  <2>2. j \in DOMAIN t /\ j < i /\ PutsRow(t, j, t[i].row)
    BY <1>2, <2>1 DEF PutsRow
  <2>3. \A k \in DOMAIN t : j < k /\ k < i => t[k].row # t[i].row
    BY <1>2, <1>3, <2>1
  <2>4. Filled(t, i, h)
    BY <2>2, <2>3 DEF Filled
  <2>5. QED
    BY <1>2, <2>4 DEF t
<1>5. CASE h /\ \A j \in DOMAIN q : j < i => q[j].row # q[i].row
  <2>1. \A j \in DOMAIN t : j < i => t[j].row # t[i].row
    BY <1>2, <1>3, <1>5
  <2>2. Filled(t, i, h)
    BY <1>5, <2>1 DEF Filled
  <2>3. QED
    BY <1>2, <2>2 DEF t
<1>6. QED
  BY <1>4, <1>5 DEF Filled

\* A delete that is appended finds a row that is there, or will be, and is not doomed.
LEMMA FilledAppended ==
  ASSUME NEW q \in Seq(Query), NEW r \in Row, NEW h,
         ~Doomed(q, r), h \/ \E i \in DOMAIN q : q[i].row = r
  PROVE  Filled(Append(q, Del(r)), Len(q) + 1, h)
<1> DEFINE t == Append(q, Del(r))
           n == Len(q) + 1
<1>1. /\ Len(q) \in Nat /\ DOMAIN q = 1 .. Len(q) /\ DOMAIN t = 1 .. n
      /\ \A i \in 1 .. Len(q) : t[i] = q[i]
      /\ t[n] = Del(r)
  BY QueryTypes, LenProperties, AppendProperties
<1>2. t[n].row = r
  BY <1>1 DEF Del
<1> HIDE DEF t
<1>3. \A i \in DOMAIN t : i < n => i \in DOMAIN q /\ t[i] = q[i]
  BY <1>1
<1>4. CASE \E i \in DOMAIN q : q[i].row = r
  <2>1. PICK k \in DOMAIN q : PutsRow(q, k, r) /\ \A j \in DOMAIN q : j > k => q[j].row # r
    BY <1>4, LastOfRow
  <2>2. k \in DOMAIN t /\ k < n /\ PutsRow(t, k, t[n].row)
    BY <1>1, <1>2, <2>1 DEF PutsRow
  <2>3. \A j \in DOMAIN t : k < j /\ j < n => t[j].row # t[n].row
    <3>1. \A j \in DOMAIN t : k < j => j > k
      BY <1>1
    <3>2. QED
      BY <1>2, <1>3, <2>1, <3>1
  <2>4. QED
    BY <2>2, <2>3 DEF Filled, t
<1>5. CASE h /\ ~\E i \in DOMAIN q : q[i].row = r
  BY <1>2, <1>3, <1>5 DEF Filled, t
<1>6. QED
  BY <1>4, <1>5

\* When the head has been executed.
LEMMA TailIndices ==
  ASSUME NEW S, NEW q \in Seq(S), q # <<>>
  PROVE  /\ DOMAIN q \subseteq Nat /\ DOMAIN Tail(q) \subseteq Nat /\ 1 \in DOMAIN q
         /\ Head(q) = q[1]
         /\ \A i \in DOMAIN Tail(q) : i + 1 \in DOMAIN q /\ Tail(q)[i] = q[i + 1]
         /\ \A i \in DOMAIN q : i # 1 => i - 1 \in DOMAIN Tail(q) /\ Tail(q)[i - 1] = q[i]
<1>1. /\ Len(q) \in Nat \ {0} /\ DOMAIN q = 1 .. Len(q) /\ Tail(q) \in Seq(S)
      /\ DOMAIN Tail(q) = 1 .. Len(q) - 1
      /\ \A i \in 1 .. Len(q) - 1 : Tail(q)[i] = q[i + 1]
  BY EmptySeq, LenProperties, HeadTailProperties
<1>2. Head(q) = q[1]
  OBVIOUS
<1>3. \A i \in DOMAIN q : i # 1 => i - 1 \in 1 .. Len(q) - 1 /\ (i - 1) + 1 = i
  BY <1>1
<1>4. QED
  BY <1>1, <1>2, <1>3

\* A row doomed by the rest was doomed by the whole.
LEMMA DoomedTail ==
  ASSUME NEW q \in Seq(Query), q # <<>>, NEW r, Doomed(Tail(q), r)
  PROVE  Doomed(q, r)
<1> DEFINE t == Tail(q)
<1>1. /\ DOMAIN q \subseteq Nat /\ DOMAIN t \subseteq Nat
      /\ \A i \in DOMAIN t : i + 1 \in DOMAIN q /\ t[i] = q[i + 1]
      /\ \A i \in DOMAIN q : i # 1 => i - 1 \in DOMAIN t /\ t[i - 1] = q[i]
  BY TailIndices
<1>2. PICK i \in DOMAIN t : t[i] = Del(r) /\ \A j \in DOMAIN t : j > i => t[j].row # r
  BY DEF Doomed
<1> HIDE DEF t
<1>3. i + 1 \in DOMAIN q /\ q[i + 1] = Del(r)
  BY <1>1, <1>2
<1>4. ASSUME NEW j \in DOMAIN q, j > i + 1 PROVE q[j].row # r
  <2>1. j # 1 /\ j - 1 > i
    BY <1>1, <1>4
  <2>2. QED
    BY <1>1, <1>2, <2>1
<1>5. QED
  BY <1>3, <1>4 DEF Doomed

\* What was filled stays filled when the head has been executed, as the row of a put is then there.
LEMMA FilledTail ==
  ASSUME NEW q \in Seq(Query), q # <<>>, NEW i \in DOMAIN Tail(q), NEW h, NEW g,
         Filled(q, i + 1, h),
         PutsRow(q, 1, q[i + 1].row) => g,
         q[1].row # q[i + 1].row /\ h => g
  PROVE  Filled(Tail(q), i, g)
<1> DEFINE t == Tail(q)
           r == q[i + 1].row
<1>1. /\ DOMAIN q \subseteq Nat /\ DOMAIN t \subseteq Nat /\ 1 \in DOMAIN q
      /\ \A k \in DOMAIN t : k + 1 \in DOMAIN q /\ t[k] = q[k + 1]
      /\ \A k \in DOMAIN q : k # 1 => k - 1 \in DOMAIN t /\ t[k - 1] = q[k]
  BY TailIndices
<1> HIDE DEF t
<1>2. t[i].row = r /\ i \in DOMAIN t
  BY <1>1 DEF t
<1>3. CASE \E j \in DOMAIN q : /\ j < i + 1 /\ PutsRow(q, j, r)
                               /\ \A k \in DOMAIN q : j < k /\ k < i + 1 => q[k].row # r
  <2>1. PICK j \in DOMAIN q : /\ j < i + 1 /\ PutsRow(q, j, r)
                              /\ \A k \in DOMAIN q : j < k /\ k < i + 1 => q[k].row # r
    BY <1>3
  <2>2. CASE j = 1
    <3>1. g
      BY <2>1, <2>2
    <3>2. ASSUME NEW k \in DOMAIN t, k < i PROVE t[k].row # r
      <4>1. k + 1 \in DOMAIN q /\ t[k] = q[k + 1] /\ k + 1 < i + 1 /\ (k # 0 => 1 < k + 1)
        BY <1>1, <1>2, <3>2
      <4>2. k # 0
        <5>1. DOMAIN t = 1 .. Len(t)
          BY HeadTailProperties, LenProperties DEF t
        <5>2. QED
          BY <5>1
      <4>3. QED
        BY <2>1, <2>2, <4>1, <4>2
    <3>3. QED
      BY <1>2, <3>1, <3>2 DEF Filled, t
  <2>3. CASE j # 1
    <3>1. j - 1 \in DOMAIN t /\ t[j - 1] = q[j] /\ j - 1 < i
      BY <1>1, <1>2, <2>1, <2>3
    <3>2. PutsRow(t, j - 1, t[i].row)
      BY <1>2, <2>1, <3>1 DEF PutsRow
    <3>3. ASSUME NEW k \in DOMAIN t, j - 1 < k, k < i PROVE t[k].row # r
      <4>1. k + 1 \in DOMAIN q /\ t[k] = q[k + 1] /\ k + 1 < i + 1 /\ j < k + 1
        BY <1>1, <1>2, <3>3
      <4>2. QED
        BY <2>1, <4>1
    <3>4. QED
      BY <1>2, <3>1, <3>2, <3>3 DEF Filled, t
  <2>4. QED
    BY <2>2, <2>3
<1>4. CASE h /\ \A j \in DOMAIN q : j < i + 1 => q[j].row # r
  <2>1. 1 < i + 1
    <3>1. DOMAIN t = 1 .. Len(t)
      BY HeadTailProperties, LenProperties DEF t
    <3>2. QED
      BY <1>2, <3>1
  <2>2. g
    BY <1>1, <1>4, <2>1
  <2>3. ASSUME NEW k \in DOMAIN t, k < i PROVE t[k].row # r
    <3>1. k + 1 \in DOMAIN q /\ t[k] = q[k + 1] /\ k + 1 < i + 1
      BY <1>1, <1>2, <2>3
    <3>2. QED
      BY <1>4, <3>1
  <2>4. QED
    BY <1>2, <2>2, <2>3 DEF Filled, t
<1>5. QED
  BY <1>3, <1>4 DEF Filled

\* More rows do no harm.
LEMMA FilledMore == ASSUME NEW q, NEW i, NEW h, NEW g, Filled(q, i, h), h => g PROVE Filled(q, i, g)
BY DEF Filled

\* A put makes its row, and takes no other away; a delete of the row takes only that.
LEMMA ApplyRows ==
  ASSUME TypeInv, TypeInv', NEW r \in Row, NEW c \in Col, NEW v \in Value, Apply(r, c, v)
  PROVE  HasRow(r)' /\ \A q \in Row : HasRow(q) => HasRow(q)'
<1>1. \A q \in Row, d \in Col :
        cell'[q][d] = IF q = r /\ d = c THEN Append(cell[r][c], v) ELSE cell[q][d]
  BY ApplyEffect
<1>2. Append(cell[r][c], v) # <<>>
  <2>1. cell[r][c] \in Seq(Value)
    BY DEF TypeInv
  <2>2. QED
    BY <2>1, AppendProperties
<1>3. \A q \in Row : HasRow(q) <=> \E d \in Col : cell[q][d] # <<>>
  BY RowHasCell
<1>4. \A q \in Row : HasRow(q)' <=> \E d \in Col : cell'[q][d] # <<>>
  <2>1. /\ \A q \in Row : cell'[q] \in [Col -> Seq(Value)]
        /\ \A q \in Row : NoCells[q] = [d \in Col |-> <<>>]
    BY DEF TypeInv, NoCells
  <2>2. QED
    BY <2>1 DEF HasRow
<1>5. QED
  BY <1>1, <1>2, <1>3, <1>4

\* The state before the step of an operation under which no hasty one is counted.
LEMMA DeletesBefore ==
  ASSUME TypeInv, DeletesInv, [Next]_vars, events'.hasty = 0
  PROVE  /\ events.hasty = 0 /\ ~spoilt.fell
         /\ \A u \in User : account[u] # NULL => ~Doomed(queue, u)
         /\ phase = "main" /\ account[user] # NULL =>
              HasRow(user) \/ \E i \in DOMAIN queue : PutsRow(queue, i, user)
         /\ \A i \in DOMAIN queue :
              queue[i].op = "delete" => Filled(queue, i, HasRow(queue[i].row))
BY PatienceLasts DEF DeletesInv

\* The queue as it was, or a new one, with no fewer rows.
LEMMA DeletesKept ==
  ASSUME TypeInv, DeletesInv, [Next]_vars, UNCHANGED <<queue, account, spoilt>>,
         \A r \in Row : HasRow(r) => HasRow(r)', phase' = "main" => UNCHANGED <<phase, user>>
  PROVE  DeletesInv'
<1> SUFFICES ASSUME events'.hasty = 0 PROVE DeletesInv'
  BY DEF DeletesInv
<1>1. \A i \in DOMAIN queue : queue[i].op = "delete" => queue[i].row \in Row
  <2>1. \A i \in DOMAIN queue : queue[i] \in Query
    BY LenProperties, ElementOfSeq DEF TypeInv
  <2>2. QED
    BY <2>1, QueryKinds
<1>2. \A i \in DOMAIN queue : queue[i].op = "delete" => Filled(queue, i, HasRow(queue[i].row)')
  BY <1>1, DeletesBefore, FilledMore
<1>3. phase' = "main" /\ account[user'] # NULL =>
        HasRow(user)' \/ \E i \in DOMAIN queue : PutsRow(queue, i, user')
  <2>1. phase = "main" => user \in Row
    BY DEF TypeInv, Row
  <2>2. HasRow(user) /\ user' = user /\ user \in Row => HasRow(user)'
    BY DEF HasRow
  <2>3. QED
    BY <2>1, <2>2, DeletesBefore
<1>4. QED
  BY <1>2, <1>3, DeletesBefore DEF DeletesInv, HasRow

\* A process ends or starts.
LEMMA DeletesRestart ==
  ASSUME TypeInv, DeletesInv, [Next]_vars, queue' \in {<<>>, <<Import>>},
         phase' # "main", spoilt'.fell = spoilt.fell
  PROVE  DeletesInv'
<1> SUFFICES ASSUME events'.hasty = 0 PROVE DeletesInv'
  BY DEF DeletesInv
<1>1. \A i \in DOMAIN queue' : queue'[i] = Import
  OBVIOUS
<1>2. Import.op # "delete" /\ \A r \in Row : Import # Del(r)
  BY DEF Import, Del
<1>3. \A u \in User : ~Doomed(queue', u)
  BY <1>1, <1>2 DEF Doomed, Row
<1>4. QED
  BY <1>1, <1>2, <1>3, DeletesBefore DEF DeletesInv

\* Queries that delete nothing are added.
LEMMA DeletesAppended ==
  ASSUME TypeInv, DeletesInv, [Next]_vars, events'.hasty = 0, NEW w \in Seq(Query),
         queue' = queue \o w, UNCHANGED <<cell, spoilt>>,
         \A i \in DOMAIN w : w[i].op = "put"
  PROVE  /\ \A u \in User : account[u] # NULL => ~Doomed(queue', u)
         /\ \A u \in User : ~Doomed(queue, u) => ~Doomed(queue', u)
         /\ \A i \in DOMAIN queue' :
              queue'[i].op = "delete" => Filled(queue', i, HasRow(queue[i].row)')
         /\ \A u \in User : (\E i \in DOMAIN queue : PutsRow(queue, i, u))
                              => \E i \in DOMAIN queue' : PutsRow(queue', i, u)
         /\ \A i \in DOMAIN w : \E j \in DOMAIN queue' : queue'[j] = w[i]
<1>1. /\ queue \in Seq(Query)
      /\ Len(queue) \in Nat /\ DOMAIN queue = 1 .. Len(queue)
      /\ Len(w) \in Nat /\ DOMAIN w = 1 .. Len(w)
      /\ DOMAIN queue' = 1 .. Len(queue) + Len(w)
      /\ \A i \in 1 .. Len(queue) + Len(w) :
           queue'[i] = IF i <= Len(queue) THEN queue[i] ELSE w[i - Len(queue)]
  <2>1. queue \in Seq(Query)
    BY DEF TypeInv
  <2>2. QED
    BY <2>1, ConcatShape
<1>2. ASSUME NEW u \in User, ~Doomed(queue, u) PROVE ~Doomed(queue', u)
  <2>1. \A i \in DOMAIN w : w[i] # Del(u)
    BY DEF Del
  <2>2. QED
    BY <1>1, <1>2, <2>1, DoomedConcat
<1>3. ASSUME NEW i \in DOMAIN queue', queue'[i].op = "delete"
      PROVE  Filled(queue', i, HasRow(queue[i].row)')
  <2>1. i <= Len(queue)
    <3>1. CASE ~(i <= Len(queue))
      <4>1. i - Len(queue) \in DOMAIN w /\ queue'[i] = w[i - Len(queue)]
        BY <1>1, <3>1
      <4>2. QED
        BY <1>3, <4>1
    <3>2. QED
      BY <3>1
  <2>2. i \in DOMAIN queue /\ queue'[i] = queue[i]
    BY <1>1, <2>1
  <2>3. Filled(queue, i, HasRow(queue[i].row))
    BY <1>3, <2>2, DeletesBefore
  <2>4. Filled(queue \o w, i, HasRow(queue[i].row))
    BY <1>1, <2>2, <2>3, FilledConcat
  <2>5. HasRow(queue[i].row)' <=> cell[queue[i].row] # NoCells[queue[i].row]
    BY <2>2 DEF HasRow
  <2>6. QED
    BY <2>4, <2>5 DEF HasRow
<1>4. \A i \in DOMAIN queue : i \in DOMAIN queue' /\ queue'[i] = queue[i]
  BY <1>1
<1>5. ASSUME NEW i \in DOMAIN w PROVE \E j \in DOMAIN queue' : queue'[j] = w[i]
  <2>1. i + Len(queue) \in 1 .. Len(queue) + Len(w) /\ ~(i + Len(queue) <= Len(queue))
        /\ (i + Len(queue)) - Len(queue) = i
    BY <1>1
  <2>2. QED
    BY <1>1, <2>1
<1>6. QED
  BY <1>2, <1>3, <1>4, <1>5, DeletesBefore DEF PutsRow

\* The puts of a sign up make the row of the user, whatever was queued for it.
LEMMA DeletesSignUp ==
  ASSUME TypeInv, DeletesInv, [Next]_vars, NEW u \in User, NEW p \in Password, SignUp(u, p)
  PROVE  DeletesInv'
<1> SUFFICES ASSUME events'.hasty = 0 PROVE DeletesInv'
  BY DEF DeletesInv
<1> DEFINE w == UserPuts(u, p)
<1>1. /\ queue' = queue \o w /\ UNCHANGED <<cell, spoilt>> /\ user' = u
      /\ account' = [account EXCEPT ![u] = p]
  BY DEF SignUp
<1>2. /\ w \in Seq(Query) /\ Len(w) = Puts /\ \A i \in DOMAIN w : w[i].op = "put"
      /\ Puts \in DOMAIN w /\ PutsRow(w, Puts, u)
  BY UserPutsType, DataTypes DEF PutsRow
<1> HIDE DEF w
<1>3. /\ \A v \in User : account[v] # NULL => ~Doomed(queue', v)
      /\ \A v \in User : ~Doomed(queue, v) => ~Doomed(queue', v)
      /\ \A i \in DOMAIN queue' :
           queue'[i].op = "delete" => Filled(queue', i, HasRow(queue[i].row)')
      /\ \A i \in DOMAIN w : \E j \in DOMAIN queue' : queue'[j] = w[i]
  BY <1>1, <1>2, DeletesAppended
<1>4. \E j \in DOMAIN queue' : PutsRow(queue', j, u)
  BY <1>2, <1>3 DEF PutsRow
<1>5. ~Doomed(queue', u)
  <2>1. /\ queue \in Seq(Query) /\ queue' \in Seq(Query)
        /\ Len(queue) \in Nat /\ Len(w) \in Nat /\ DOMAIN w = 1 .. Len(w) /\ Len(w) = Puts
        /\ DOMAIN queue' = 1 .. Len(queue) + Len(w)
        /\ \A i \in 1 .. Len(queue) + Len(w) :
             queue'[i] = IF i <= Len(queue) THEN queue[i] ELSE w[i - Len(queue)]
    <3>1. queue \in Seq(Query) /\ w \in Seq(Query) /\ queue' = queue \o w
      BY <1>1, <1>2 DEF TypeInv
    <3>2. /\ queue' \in Seq(Query) /\ Len(queue) \in Nat /\ Len(w) \in Nat
          /\ DOMAIN w = 1 .. Len(w) /\ DOMAIN queue' = 1 .. Len(queue) + Len(w)
          /\ \A i \in 1 .. Len(queue) + Len(w) :
               queue'[i] = IF i <= Len(queue) THEN queue[i] ELSE w[i - Len(queue)]
      BY <3>1, ConcatShape
    <3>3. QED
      BY <1>2, <3>1, <3>2
  <2>2. Len(queue) + Puts \in DOMAIN queue' /\ queue'[Len(queue) + Puts] = w[Puts]
    <3>1. ~(Len(queue) + Puts <= Len(queue)) /\ (Len(queue) + Puts) - Len(queue) = Puts
      BY <2>1
    <3>2. QED
      BY <2>1, <3>1
  <2>3. ASSUME NEW i \in DOMAIN queue', queue'[i] = Del(u),
               \A j \in DOMAIN queue' : j > i => queue'[j].row # u
        PROVE  FALSE
    <3>1. ~(Len(queue) + Puts > i)
      BY <1>2, <2>2, <2>3 DEF PutsRow
    <3>2. i = Len(queue) + Puts
      BY <2>1, <3>1
    <3>3. queue'[i].op = "put"
      BY <1>2, <2>2, <3>2 DEF PutsRow
    <3>4. QED
      BY <2>3, <3>3 DEF Del
  <2>4. QED
    BY <2>3 DEF Doomed
<1>6. \A v \in User : account'[v] # NULL => ~Doomed(queue', v)
  <2>1. \A v \in User : v # u => account'[v] = account[v]
    BY <1>1 DEF TypeInv
  <2>2. QED
    BY <1>3, <1>5, <2>1
<1>7. ~spoilt'.fell
  BY <1>1, DeletesBefore
<1>8. QED
  BY <1>1, <1>3, <1>4, <1>6, <1>7 DEF DeletesInv, HasRow

\* The puts of a post are on a row that no account has.
LEMMA DeletesCreatePost ==
  ASSUME TypeInv, DeletesInv, [Next]_vars, NEW f \in File, CreatePost(f)
  PROVE  DeletesInv'
<1> SUFFICES ASSUME events'.hasty = 0 PROVE DeletesInv'
  BY DEF DeletesInv
<1>1. PICK id \in Id : id = get_new_post_id
  BY DEF CreatePost, TypeInv, get_new_post_id, Id
<1> DEFINE w == PostPuts(id, f)
<1>2. queue' = queue \o w /\ UNCHANGED <<cell, spoilt, account, phase, user>>
  BY <1>1 DEF CreatePost, PostPuts
<1>3. w \in Seq(Query) /\ \A i \in DOMAIN w : w[i].op = "put"
  BY PostPutsType
<1> HIDE DEF w
<1>4. /\ \A v \in User : account[v] # NULL => ~Doomed(queue', v)
      /\ \A i \in DOMAIN queue' :
           queue'[i].op = "delete" => Filled(queue', i, HasRow(queue[i].row)')
      /\ \A v \in User : (\E i \in DOMAIN queue : PutsRow(queue, i, v))
                           => \E i \in DOMAIN queue' : PutsRow(queue', i, v)
  BY <1>2, <1>3, DeletesAppended
<1>5. phase = "main" /\ account[user] # NULL =>
        HasRow(user) \/ \E i \in DOMAIN queue' : PutsRow(queue', i, user)
  <2>1. phase = "main" => user \in User
    BY DEF TypeInv
  <2>2. QED
    BY <1>4, <2>1, DeletesBefore
<1>6. QED
  BY <1>2, <1>4, <1>5, DeletesBefore DEF DeletesInv, HasRow

\* A delete is added, of a row that will be there and does not matter to any account.
LEMMA DeletesDelete ==
  ASSUME TypeInv, DeletesInv, [Next]_vars, events'.hasty = 0, NEW r \in Row,
         queue' = Append(queue, Del(r)), UNCHANGED <<cell, spoilt>>,
         ~Doomed(queue, r), HasRow(r) \/ \E i \in DOMAIN queue : queue[i].row = r
  PROVE  /\ \A u \in User : u # r /\ ~Doomed(queue, u) => ~Doomed(queue', u)
         /\ \A i \in DOMAIN queue' :
              queue'[i].op = "delete" => Filled(queue', i, HasRow(queue[i].row)')
         /\ \A u \in User : (\E i \in DOMAIN queue : PutsRow(queue, i, u))
                              => \E i \in DOMAIN queue' : PutsRow(queue', i, u)
<1> DEFINE n == Len(queue) + 1
<1>1. /\ queue \in Seq(Query) /\ Del(r) \in Query /\ <<Del(r)>> \in Seq(Query)
      /\ queue' = queue \o <<Del(r)>>
      /\ Len(queue) \in Nat /\ DOMAIN queue = 1 .. Len(queue) /\ DOMAIN queue' = 1 .. n
      /\ \A i \in 1 .. Len(queue) : queue'[i] = queue[i]
      /\ queue'[n] = Del(r) /\ Del(r).row = r
  <2>1. queue \in Seq(Query) /\ Del(r) \in Query
    BY QueryTypes DEF TypeInv
  <2>2. QED
    BY <2>1, LenProperties, AppendProperties, AppendIsConcat DEF Del
<1>2. ASSUME NEW u \in User, u # r, ~Doomed(queue, u) PROVE ~Doomed(queue', u)
  <2>1. PICK d \in Seq(Query) : d = <<Del(r)>>
    BY <1>1
  <2>2. \A i \in DOMAIN d : d[i] # Del(u)
    BY <1>2, <2>1 DEF Del
  <2>3. queue' = queue \o d
    BY <1>1, <2>1
  <2>4. QED
    BY <1>1, <1>2, <2>2, <2>3, DoomedConcat
<1>3. ASSUME NEW i \in DOMAIN queue', queue'[i].op = "delete"
      PROVE  Filled(queue', i, HasRow(queue[i].row)')
  <2>1. CASE i # n
    <3>1. i \in DOMAIN queue /\ queue'[i] = queue[i]
      BY <1>1, <2>1
    <3>2. Filled(queue, i, HasRow(queue[i].row))
      BY <1>3, <3>1, DeletesBefore
    <3>3. Filled(queue \o <<Del(r)>>, i, HasRow(queue[i].row))
      BY <1>1, <3>1, <3>2, FilledConcat
    <3>4. QED
      BY <1>1, <3>1, <3>3 DEF HasRow
  <2>2. CASE i = n
    <3>1. Filled(Append(queue, Del(r)), Len(queue) + 1, HasRow(r))
      BY <1>1, FilledAppended
    <3>2. queue'[i].row = r
      BY <1>1, <2>2
    <3>3. QED
      BY <2>2, <3>1, <3>2 DEF HasRow
  <2>3. QED
    BY <2>1, <2>2
<1>4. \A i \in DOMAIN queue : i \in DOMAIN queue' /\ queue'[i] = queue[i]
  BY <1>1
<1>5. QED
  BY <1>2, <1>3, <1>4 DEF PutsRow

\* The row of the user who is logged in is there, or will be.
LEMMA DeletesRemoveUser ==
  ASSUME TypeInv, DeletesInv, [Next]_vars, RemoveUser PROVE DeletesInv'
<1> SUFFICES ASSUME events'.hasty = 0 PROVE DeletesInv'
  BY DEF DeletesInv
<1>1. /\ phase = "main" /\ user \in User /\ user \in Row /\ Hasty(account[user] = NULL)
      /\ queue' = Append(queue, Del(user)) /\ phase' = "auth" /\ UNCHANGED <<cell, spoilt>>
      /\ account' = [account EXCEPT ![user] = NULL]
  BY DEF RemoveUser, TypeInv, Row
<1>2. account[user] # NULL
  BY <1>1, HastyMeans
<1>3. ~Doomed(queue, user) /\ (HasRow(user) \/ \E i \in DOMAIN queue : queue[i].row = user)
  BY <1>1, <1>2, DeletesBefore DEF PutsRow
<1>4. /\ \A u \in User : u # user /\ ~Doomed(queue, u) => ~Doomed(queue', u)
      /\ \A i \in DOMAIN queue' :
           queue'[i].op = "delete" => Filled(queue', i, HasRow(queue[i].row)')
  BY <1>1, <1>3, DeletesDelete
<1>5. \A u \in User : account'[u] # NULL => ~Doomed(queue', u)
  <2>1. \A u \in User : account'[u] = IF u = user THEN NULL ELSE account[u]
    BY <1>1 DEF TypeInv
  <2>2. QED
    BY <1>4, <2>1, DeletesBefore
<1>6. QED
  BY <1>1, <1>4, <1>5, DeletesBefore DEF DeletesInv, HasRow

\* A post that was looked up has its row, as no query on posts is queued.
LEMMA DeletesRemovePost ==
  ASSUME TypeInv, DeletesInv, [Next]_vars, NEW id \in Id, RemovePost(id) PROVE DeletesInv'
<1> SUFFICES ASSUME events'.hasty = 0 PROVE DeletesInv'
  BY DEF DeletesInv
<1>1. /\ phase = "main" /\ get(id, Puts) # NULL /\ Hasty(PostBacklog)
      /\ queue' = Append(queue, Del(id)) /\ UNCHANGED <<cell, spoilt, account, phase, user>>
  BY DEF RemovePost
<1>2. ~PostBacklog
  <2>1. PostBacklog \in BOOLEAN
    BY DEF PostBacklog
  <2>2. QED
    BY <1>1, <2>1, HastyMeans
<1>3. id \in Row /\ HasRow(id)
  <2>1. cell[id][Puts] # <<>>
    BY <1>1 DEF get
  <2>2. QED
    BY <2>1, RowHasCell, DataTypes
<1>4. ~Doomed(queue, id)
  <2>1. \A i \in DOMAIN queue : queue[i].row \notin Id
    BY <1>2 DEF PostBacklog
  <2>2. QED
    BY <2>1 DEF Doomed, Del
<1>5. /\ \A u \in User : u # id /\ ~Doomed(queue, u) => ~Doomed(queue', u)
      /\ \A i \in DOMAIN queue' :
           queue'[i].op = "delete" => Filled(queue', i, HasRow(queue[i].row)')
      /\ \A u \in User : (\E i \in DOMAIN queue : PutsRow(queue, i, u))
                           => \E i \in DOMAIN queue' : PutsRow(queue', i, u)
  BY <1>1, <1>3, <1>4, DeletesDelete
<1>6. \A u \in User : u # id
  BY DataTypes
<1>7. phase = "main" /\ account[user] # NULL =>
        HasRow(user) \/ \E i \in DOMAIN queue' : PutsRow(queue', i, user)
  <2>1. phase = "main" => user \in User
    BY DEF TypeInv
  <2>2. QED
    BY <1>5, <2>1, DeletesBefore
<1>8. QED
  BY <1>1, <1>5, <1>6, <1>7, DeletesBefore DEF DeletesInv, HasRow

\* The head has been executed, and the rows have changed as it says.
LEMMA DeletesExecuted ==
  ASSUME TypeInv, DeletesInv, [Next]_vars, events'.hasty = 0, queue # <<>>, queue' = Tail(queue),
         UNCHANGED <<account, spoilt, phase, user>>,
         NEW r \in Row, queue[1].row = r,
         \/ queue[1].op = "put" /\ HasRow(r)'
         \/ queue[1] = Del(r),
         \A q \in Row \ {r} : HasRow(q) => HasRow(q)'
  PROVE  DeletesInv'
<1>1. /\ queue \in Seq(Query)
      /\ \A i \in DOMAIN queue : queue[i] \in Query
      /\ DOMAIN queue \subseteq Nat /\ DOMAIN queue' \subseteq Nat /\ 1 \in DOMAIN queue
      /\ \A i \in DOMAIN queue' : i + 1 \in DOMAIN queue /\ queue'[i] = queue[i + 1]
      /\ \A i \in DOMAIN queue : i # 1 => i - 1 \in DOMAIN queue' /\ queue'[i - 1] = queue[i]
  <2>1. queue \in Seq(Query)
    BY DEF TypeInv
  <2>2. QED
    BY <2>1, LenProperties, ElementOfSeq, TailIndices
<1>2. \A u \in User : account'[u] # NULL => ~Doomed(queue', u)
  BY <1>1, DoomedTail, DeletesBefore
<1>3. ASSUME phase = "main", account[user] # NULL
      PROVE  HasRow(user)' \/ \E i \in DOMAIN queue' : PutsRow(queue', i, user)
  <2>1. user \in User /\ user \in Row
    BY <1>3 DEF TypeInv, Row
  <2>2. ~Doomed(queue, user) /\ (HasRow(user) \/ \E i \in DOMAIN queue : PutsRow(queue, i, user))
    BY <1>3, <2>1, DeletesBefore
  <2>3. ASSUME NEW i \in DOMAIN queue, i # 1, PutsRow(queue, i, user)
        PROVE  \E k \in DOMAIN queue' : PutsRow(queue', k, user)
    <3>1. i - 1 \in DOMAIN queue' /\ queue'[i - 1] = queue[i]
      BY <1>1, <2>3
    <3>2. PutsRow(queue', i - 1, user)
      BY <2>3, <3>1 DEF PutsRow
    <3>3. QED
      BY <3>1, <3>2
  <2>4. CASE user # r
    <3>1. CASE HasRow(user)
      <4>1. PICK q \in Row \ {r} : q = user
        BY <2>1, <2>4
      <4>2. HasRow(q) => HasRow(q)'
        OBVIOUS
      <4>3. QED
        BY <3>1, <4>1, <4>2 DEF HasRow
    <3>2. CASE \E i \in DOMAIN queue : PutsRow(queue, i, user)
      <4>1. PICK i \in DOMAIN queue : PutsRow(queue, i, user)
        BY <3>2
      <4>2. i # 1
        BY <2>4, <4>1 DEF PutsRow
      <4>3. QED
        BY <2>3, <4>1, <4>2
    <3>3. QED
      BY <2>2, <3>1, <3>2
  <2>5. CASE user = r /\ queue[1] = Del(r)
    <3>1. \E i \in DOMAIN queue : queue[i].row = user
      BY <1>1, <2>5
    <3>2. PICK k \in DOMAIN queue : PutsRow(queue, k, user)
      BY <1>1, <2>1, <2>2, <3>1, LastOfRow
    <3>3. k # 1
      BY <2>5, <3>2 DEF PutsRow, Del
    <3>4. QED
      BY <2>3, <3>2, <3>3
  <2>6. CASE user = r /\ queue[1].op = "put" /\ HasRow(r)'
    BY <2>6 DEF HasRow
  <2>7. QED
    BY <2>4, <2>5, <2>6
<1>4. ASSUME NEW i \in DOMAIN queue', queue'[i].op = "delete"
      PROVE  Filled(queue', i, HasRow(queue[i].row)')
  <2>1. PICK x \in Row : x = queue[i + 1].row
    BY <1>1, <1>4, QueryKinds
  <2>2. i + 1 \in DOMAIN queue /\ queue'[i] = queue[i + 1] /\ queue[i + 1].op = "delete"
    BY <1>1, <1>4
  <2>3. Filled(queue, i + 1, HasRow(x))
    BY <2>1, <2>2, DeletesBefore
  <2>4. PutsRow(queue, 1, x) => HasRow(x)'
    <3>1. ASSUME PutsRow(queue, 1, x) PROVE x = r /\ queue[1].op = "put"
      BY <3>1 DEF PutsRow
    <3>2. Del(r).op # "put"
      BY DEF Del
    <3>3. QED
      BY <3>1, <3>2 DEF HasRow
  <2>5. queue[1].row # x /\ HasRow(x) => HasRow(x)'
    OBVIOUS
  <2>6. Filled(Tail(queue), i, HasRow(x)')
    <3>1. PICK h \in BOOLEAN, g \in BOOLEAN : (h <=> HasRow(x)) /\ (g <=> HasRow(x)')
      <4>1. HasRow(x) \in BOOLEAN /\ HasRow(x)' \in BOOLEAN
        BY Zenon DEF HasRow
      <4>2. QED
        BY <4>1
    <3>2. Filled(queue, i + 1, h)
      BY <2>3, <3>1, FilledMore
    <3>3. (PutsRow(queue, 1, x) => g) /\ (queue[1].row # x /\ h => g)
      BY <2>4, <2>5, <3>1
    <3>4. i \in DOMAIN Tail(queue)
      OBVIOUS
    <3>5. Filled(Tail(queue), i, g)
      BY <1>1, <2>1, <3>2, <3>3, <3>4, FilledTail
    <3>6. QED
      BY <3>1, <3>5, FilledMore
  <2>7. QED
    BY <2>1, <2>2, <2>6 DEF HasRow
<1>5. QED
  BY <1>2, <1>3, <1>4, DeletesBefore DEF DeletesInv, HasRow

\* The pool executes the head of the queue, or a line of the import.
LEMMA DeletesPool == ASSUME TypeInv, TypeInv', DeletesInv, [Next]_vars, PoolStep PROVE DeletesInv'
<1> SUFFICES ASSUME events'.hasty = 0 PROVE DeletesInv'
  BY DEF DeletesInv
<1>1. CASE ExecutePut
  <2>1. PICK r \in Row, c \in Col, v \in Value :
          Head(queue).row = r /\ Head(queue).col = c /\ Head(queue).value = v
    BY <1>1, HeadTypes DEF ExecutePut
  <2>2. Apply(r, c, v) /\ queue # <<>> /\ queue' = Tail(queue) /\ queue[1].row = r
        /\ queue[1].op = "put" /\ UNCHANGED <<account, spoilt, phase, user>>
    BY <1>1, <2>1 DEF ExecutePut, history
  <2>3. HasRow(r)' /\ \A q \in Row \ {r} : HasRow(q) => HasRow(q)'
    BY <2>2, ApplyRows
  <2>4. QED
    BY <2>2, <2>3, DeletesExecuted
<1>2. CASE ExecuteDelete
  <2>1. PICK r \in Row : Head(queue) = Del(r) /\ Head(queue).row = r
    BY <1>2, HeadTypes DEF ExecuteDelete
  <2>2. queue # <<>> /\ queue' = Tail(queue) /\ queue[1].row = r /\ queue[1] = Del(r)
        /\ UNCHANGED <<account, spoilt, phase, user>>
    BY <1>2, <2>1 DEF ExecuteDelete, history
  <2>3. cell' = [cell EXCEPT ![r] = NoCells[r]]
    BY <1>2, <2>1 DEF ExecuteDelete
  <2>4. \A q \in Row \ {r} : HasRow(q) => HasRow(q)'
    <3>1. \A q \in Row \ {r} : cell'[q] = cell[q]
      BY <2>3, ClearEffect
    <3>2. QED
      BY <3>1 DEF HasRow
  <2>5. QED
    BY <2>2, <2>4, DeletesExecuted
<1>3. CASE ExecuteDeleteCrash
  <2>1. /\ 1 \in DOMAIN queue /\ queue[1].op = "delete" /\ ~HasRow(queue[1].row)
        /\ queue \in Seq(Query)
        /\ queue # <<>>
    <3>1. queue # <<>> /\ queue \in Seq(Query)
      BY <1>3 DEF ExecuteDeleteCrash, TypeInv
    <3>2. 1 \in DOMAIN queue /\ Head(queue) = queue[1]
      BY <3>1, TailIndices
    <3>3. QED
      BY <1>3, <3>1, <3>2 DEF ExecuteDeleteCrash, HasRow
  <2>2. Filled(queue, 1, HasRow(queue[1].row))
    BY <2>1, DeletesBefore
  <2>3. \A j \in DOMAIN queue : ~(j < 1)
    BY <2>1, LenProperties
  <2>4. FALSE
    BY <2>1, <2>2, <2>3 DEF Filled
  <2>5. QED
    BY <2>4
<1>4. CASE ExecuteImport
  <2>1. queue # <<>> /\ queue' = Tail(queue) /\ Head(queue) = Import
        /\ UNCHANGED <<account, spoilt, phase, user, cell>>
    BY <1>4, HeadTypes DEF ExecuteImport, history
  <2>2. /\ queue \in Seq(Query) /\ DOMAIN queue' \subseteq Nat /\ queue[1] = Import
        /\ \A i \in DOMAIN queue : queue[i] \in Query
        /\ \A i \in DOMAIN queue' : i + 1 \in DOMAIN queue /\ queue'[i] = queue[i + 1]
        /\ \A i \in DOMAIN queue : i # 1 => i - 1 \in DOMAIN queue' /\ queue'[i - 1] = queue[i]
    <3>1. queue \in Seq(Query)
      BY DEF TypeInv
    <3>2. QED
      BY <2>1, <3>1, LenProperties, ElementOfSeq, TailIndices
  <2>3. \A u \in User : account'[u] # NULL => ~Doomed(queue', u)
    BY <2>1, <2>2, DoomedTail, DeletesBefore
  <2>4. ASSUME phase = "main", account[user] # NULL
        PROVE  HasRow(user) \/ \E i \in DOMAIN queue' : PutsRow(queue', i, user)
    <3>1. ASSUME NEW i \in DOMAIN queue, PutsRow(queue, i, user)
          PROVE  \E k \in DOMAIN queue' : PutsRow(queue', k, user)
      <4>1. i # 1
        BY <2>2, <3>1 DEF PutsRow, Import
      <4>2. QED
        BY <2>2, <3>1, <4>1 DEF PutsRow
    <3>2. QED
      BY <2>4, <3>1, DeletesBefore
  <2>5. ASSUME NEW i \in DOMAIN queue', queue'[i].op = "delete"
        PROVE  Filled(queue', i, HasRow(queue[i].row)')
    <3>1. i + 1 \in DOMAIN queue /\ queue'[i] = queue[i + 1] /\ i \in DOMAIN Tail(queue)
      BY <2>1, <2>2
    <3>2. PICK h \in BOOLEAN : h <=> HasRow(queue[i + 1].row)
      <4>1. HasRow(queue[i + 1].row) \in BOOLEAN
        BY Zenon DEF HasRow
      <4>2. QED
        BY <4>1
    <3>3. Filled(queue, i + 1, h)
      BY <2>5, <3>1, <3>2, DeletesBefore, FilledMore
    <3>4. ~PutsRow(queue, 1, queue[i + 1].row)
      BY <2>2 DEF PutsRow, Import
    <3>5. Filled(Tail(queue), i, h)
      BY <2>1, <2>2, <3>1, <3>3, <3>4, FilledTail
    <3>6. h => HasRow(queue[i].row)'
      BY <2>1, <3>1, <3>2 DEF HasRow
    <3>7. QED
      BY <2>1, <3>5, <3>6, FilledMore
  <2>6. QED
    BY <2>1, <2>3, <2>4, <2>5, DeletesBefore DEF DeletesInv, HasRow
<1>5. CASE ImportLine
  <2>1. PICK r \in Row, c \in Col, v \in Value :
          Head(importing).row = r /\ Head(importing).col = c /\ Head(importing).value = v
    BY <1>5, LineTypes DEF ImportLine
  <2>2. Apply(r, c, v) /\ UNCHANGED <<queue, account, spoilt, phase, user>>
    BY <1>5, <2>1 DEF ImportLine, history
  <2>3. \A q \in Row : HasRow(q) => HasRow(q)'
    BY <2>2, ApplyRows
  <2>4. QED
    BY <2>2, <2>3, DeletesKept
<1>6. QED
  BY <1>1, <1>2, <1>3, <1>4, <1>5 DEF PoolStep

\* Every step keeps it, one action at a time.
LEMMA DeletesStep == TypeInv /\ DeletesInv /\ [Next]_vars => DeletesInv'
<1> SUFFICES ASSUME TypeInv, DeletesInv, [Next]_vars PROVE DeletesInv'
  OBVIOUS
<1>0. TypeInv'
  BY NextTyped
<1>1. ASSUME UNCHANGED cell PROVE \A r \in Row : HasRow(r) => HasRow(r)'
  BY <1>1 DEF HasRow
<1>2. CASE Start
  <2>1. spoilt'.fell = spoilt.fell /\ phase' # "main" /\ queue' = <<Import>>
    BY <1>2 DEF Start
  <2>2. QED
    BY <2>1, DeletesRestart
<1>3. CASE ExitExport
  BY <1>1, <1>3, DeletesKept DEF ExitExport, memory, history
<1>4. CASE DumpSize
  BY <1>1, <1>4, DeletesKept DEF DumpSize, memory, history
<1>5. CASE DumpText
  <2>1. spoilt'.fell = spoilt.fell /\ phase' # "main" /\ queue' = <<>>
    BY <1>5 DEF DumpText, LoseMemory
  <2>2. QED
    BY <2>1, DeletesRestart
<1>6. CASE Crash
  <2>1. spoilt' = [spoilt EXCEPT !.torn = @ \/ phase = "sized"] /\ phase' # "main" /\ queue' = <<>>
    BY <1>6 DEF Crash, Revert, LoseMemory
  <2>2. spoilt'.fell = spoilt.fell
    BY <2>1 DEF TypeInv
  <2>3. QED
    BY <2>1, <2>2, DeletesRestart
<1>7. ASSUME NEW u \in User, NEW p \in Password, Login(u, p) PROVE DeletesInv'
  <2> SUFFICES ASSUME events'.hasty = 0 PROVE DeletesInv'
    BY DEF DeletesInv
  <2>1. user' = u /\ get(u, Puts) = p /\ UNCHANGED <<cell, queue, account, spoilt, events>>
    BY <1>7 DEF Login, memory, history
  <2>2. p # NULL
    BY DEF Password
  <2>3. cell[u][Puts] # <<>>
    BY <2>1, <2>2 DEF get
  <2>4. HasRow(u)
    BY <2>3, RowHasCell, DataTypes
  <2>5. \A i \in DOMAIN queue' :
          queue'[i].op = "delete" => Filled(queue', i, HasRow(queue[i].row)')
    BY <2>1, DeletesBefore DEF HasRow
  <2>6. QED
    BY <2>1, <2>4, <2>5, DeletesBefore DEF DeletesInv, HasRow
<1>8. CASE UNCHANGED vars
  BY <1>1, <1>8, DeletesKept DEF vars, memory, history
<1>9. QED
  BY <1>0, <1>2, <1>3, <1>4, <1>5, <1>6, <1>7, <1>8, DeletesSignUp, DeletesRemoveUser,
     DeletesCreatePost, DeletesRemovePost, DeletesPool DEF Next

\* It holds at first, when nothing is queued.
LEMMA DeletesInit == Init => DeletesInv
BY DEF Init, DeletesInv, Doomed, Row

\* While nobody removes a user twice, or acts on posts, before the queue has been executed,
\* a delete finds its row, though it runs later than it was asked for and other queries
\* run before it: deleteInTable never reads through NULL.
THEOREM NoDeleteFalls == Spec => []DeletesFindTheirRow
<1>1. Init => TypeInv /\ DeletesInv
  BY InitTyped, DeletesInit
<1>2. TypeInv /\ DeletesInv /\ [Next]_vars => (TypeInv /\ DeletesInv)'
  BY NextTyped, DeletesStep
<1>3. DeletesInv => DeletesFindTheirRow
  BY DEF DeletesInv, DeletesFindTheirRow
<1>4. QED
  BY <1>1, <1>2, <1>3, PTL DEF Spec

-----------------------------------------------------------------------------
(* The export holds every cell.                                            *)

\* If only part k has elements on the column, it decides.
LEMMA FinalOfPart ==
  ASSUME NEW S, NEW s \in Seq(Seq(S)), NEW r, NEW c, NEW v, NEW k \in DOMAIN s,
         \A j \in DOMAIN s : j # k => \A i \in DOMAIN s[j] : ~Hit(s[j][i], r, c)
  PROVE  Final(FlattenSeq(s), r, c, v) = Final(s[k], r, c, v)
<1> DEFINE Misses(w) == \A i \in DOMAIN w : ~Hit(w[i], r, c)
           Others(t, l) == \A j \in DOMAIN t : j # l => Misses(t[j])
           T == {t \in Seq(Seq(S)) : \A l \in DOMAIN t : Others(t, l) =>
                   Final(FlattenSeq(t), r, c, v) = Final(t[l], r, c, v)}
<1>1. <<>> \in T
  BY EmptySeq
<1>2. ASSUME NEW t \in Seq(Seq(S)), NEW x \in Seq(S), t \in T PROVE Append(t, x) \in T
  <2> DEFINE a == Append(t, x)
             n == Len(t)
  <2>1. /\ a \in Seq(Seq(S)) /\ n \in Nat /\ DOMAIN t = 1 .. n /\ DOMAIN a = 1 .. n + 1
        /\ \A i \in 1 .. n : a[i] = t[i]
        /\ a[n + 1] = x
    BY AppendProperties, LenProperties
  <2>2. Final(FlattenSeq(a), r, c, v) = Final(x, r, c, Final(FlattenSeq(t), r, c, v))
    <3>1. FlattenSeq(a) = FlattenSeq(t) \o x
      BY FlattenAppend
    <3>2. PICK f \in Seq(S) : f = FlattenSeq(t)
      BY FlattenType
    <3>3. Final(f \o x, r, c, v) = Final(x, r, c, Final(f, r, c, v))
      BY FinalConcat
    <3>4. QED
      BY <3>1, <3>2, <3>3
  <2> HIDE DEF a, n
  <2> SUFFICES ASSUME NEW l \in DOMAIN a, Others(a, l)
               PROVE  Final(FlattenSeq(a), r, c, v) = Final(a[l], r, c, v)
    BY <2>1 DEF a
  <2>3. CASE l = n + 1
    <3>1. \A j \in DOMAIN t : Misses(t[j])
      <4>1. \A j \in 1 .. n : j \in 1 .. n + 1 /\ j # n + 1
        BY <2>1
      <4>2. QED
        BY <2>1, <2>3, <4>1
    <3>2. \A i \in DOMAIN FlattenSeq(t) : FlattenSeq(t)[i] \in {y \in S : ~Hit(y, r, c)}
      <4> DEFINE E == {y \in S : ~Hit(y, r, c)}
      <4>1. \A j \in DOMAIN t : \A i \in DOMAIN t[j] : t[j][i] \in E
        BY <3>1, LenProperties, ElementOfSeq
      <4> HIDE DEF E
      <4>2. \A i \in DOMAIN FlattenSeq(t) : FlattenSeq(t)[i] \in E
        BY <4>1, FlattenElements
      <4>3. QED
        BY <4>2 DEF E
    <3>3. Final(FlattenSeq(t), r, c, v) = v
      BY <3>2, FinalIsFirst
    <3>4. QED
      BY <2>1, <2>2, <2>3, <3>3
  <2>4. CASE l # n + 1
    <3>1. l \in DOMAIN t /\ n + 1 \in DOMAIN a /\ a[l] = t[l]
      BY <2>1, <2>4
    <3>2. Others(t, l)
      <4>1. \A j \in DOMAIN t : j \in DOMAIN a /\ a[j] = t[j]
        BY <2>1
      <4>2. QED
        BY <4>1
    <3>3. Misses(x)
      BY <2>1, <2>4, <3>1
    <3>4. Final(FlattenSeq(t), r, c, v) = Final(t[l], r, c, v)
      BY <1>2, <3>1, <3>2
    <3>5. \A w : Final(x, r, c, w) = w
      BY <3>3, FinalIsFirst
    <3>6. QED
      BY <2>2, <3>1, <3>4, <3>5
  <2>5. QED
    BY <2>3, <2>4
<1>3. Seq(Seq(S)) \subseteq T
  <2> HIDE DEF T
  <2>1. QED
    BY <1>1, <1>2, SeqSetInduction
<1>4. s \in T /\ Others(s, k)
  BY <1>3
<1>5. QED
  BY <1>4

\* The lines of a row are on that row.
LEMMA RowLinesRow ==
  ASSUME NEW t \in Cells, NEW q \in Row
  PROVE  \A i \in DOMAIN RowLines(t, q) : RowLines(t, q)[i].row = q
<1> DEFINE E == {l \in Line : l.row = q}
<1>1. \A c \in Col : \A i \in DOMAIN LinesOf(t, q, c) : LinesOf(t, q, c)[i] \in E
  <2>1. \A c \in Col : \A i \in DOMAIN LinesOf(t, q, c) : LinesOf(t, q, c)[i].row = q
    BY LinesType
  <2>2. QED
    BY <2>1, LinesType, LenProperties, ElementOfSeq
<1>2. \A c \in DOMAIN RowParts(t, q) :
        \A i \in DOMAIN RowParts(t, q)[c] : RowParts(t, q)[c][i] \in E
  BY <1>1 DEF RowParts
<1> HIDE DEF E
<1>3. \A i \in DOMAIN RowLines(t, q) : RowLines(t, q)[i] \in E
  BY <1>2, RowLinesType, FlattenElements DEF RowLines
<1>4. QED
  BY <1>3 DEF E

\* What an export leaves in empty tables is what a reader gets before it.
LEMMA ExportOfCells ==
  ASSUME NEW t \in Cells, NEW r \in Row, NEW c \in Col
  PROVE  Final(FlattenSeq(ExportParts(t)), r, c, NULL) = Newest(t[r][c])
<1>1. PICK k \in DOMAIN RowOrder : RowOrder[k] = r
  BY RowOrderOnce
<1>2. Final(FlattenSeq(ExportParts(t)), r, c, NULL) = Final(RowLines(t, r), r, c, NULL)
  <2>1. /\ ExportParts(t) \in Seq(Seq(Line)) /\ k \in DOMAIN ExportParts(t)
        /\ ExportParts(t)[k] = RowLines(t, r)
    BY <1>1, ExportType DEF ExportParts
  <2>2. ASSUME NEW j \in DOMAIN ExportParts(t), j # k, NEW i \in DOMAIN ExportParts(t)[j]
        PROVE  ~Hit(ExportParts(t)[j][i], r, c)
    <3>1. PICK q \in Row : q = RowOrder[j] /\ ExportParts(t)[j] = RowLines(t, q)
      BY ExportType, RowOrderOnce, LenProperties DEF ExportParts
    <3>2. q # r
      BY <1>1, <2>2, <3>1, RowOrderOnce, ExportType
    <3>3. QED
      BY <2>2, <3>1, <3>2, RowLinesRow DEF Hit
  <2>3. Final(FlattenSeq(ExportParts(t)), r, c, NULL) = Final(ExportParts(t)[k], r, c, NULL)
    BY <2>1, <2>2, FinalOfPart
  <2>4. QED
    BY <2>1, <2>3
<1>3. Final(RowLines(t, r), r, c, NULL) = Final(LinesOf(t, r, c), r, c, NULL)
  <2>1. /\ RowParts(t, r) \in Seq(Seq(Line)) /\ c \in DOMAIN RowParts(t, r)
        /\ RowParts(t, r)[c] = LinesOf(t, r, c)
    BY RowLinesType DEF RowParts
  <2>2. ASSUME NEW d \in DOMAIN RowParts(t, r), d # c, NEW i \in DOMAIN RowParts(t, r)[d]
        PROVE  ~Hit(RowParts(t, r)[d][i], r, c)
    <3>1. d \in Col /\ RowParts(t, r)[d] = LinesOf(t, r, d)
      BY RowLinesType DEF RowParts
    <3>2. LinesOf(t, r, d)[i].col = d
      BY <2>2, <3>1, LinesType
    <3>3. QED
      BY <2>2, <3>1, <3>2, DataTypes DEF Hit
  <2>3. Final(FlattenSeq(RowParts(t, r)), r, c, NULL) = Final(RowParts(t, r)[c], r, c, NULL)
    BY <2>1, <2>2, FinalOfPart
  <2>4. QED
    BY <2>1, <2>3 DEF RowLines
<1>4. Final(LinesOf(t, r, c), r, c, NULL) = Newest(t[r][c])
  <2>1. /\ LinesOf(t, r, c) \in Seq(Line) /\ Len(LinesOf(t, r, c)) = Len(t[r][c])
        /\ t[r][c] \in Seq(Value)
    BY LinesType DEF Cells
  <2>2. CASE t[r][c] = <<>>
    <3>1. LinesOf(t, r, c) = <<>>
      BY <2>1, <2>2, EmptySeq
    <3>2. QED
      BY <2>2, <3>1, FinalEmpty DEF Newest
  <2>3. CASE t[r][c] # <<>>
    <3>1. Len(t[r][c]) \in Nat \ {0}
      BY <2>1, <2>3, EmptySeq
    <3>2. PICK n \in 1 .. Len(t[r][c]) : n = Len(t[r][c])
      BY <3>1
    <3>3. /\ LinesOf(t, r, c)[n].row = r /\ LinesOf(t, r, c)[n].col = c
          /\ LinesOf(t, r, c)[n].value = t[r][c][n]
      BY LinesType
    <3>4. LinesOf(t, r, c) # <<>>
      BY <2>1, <3>1
    <3>5. Hit(LinesOf(t, r, c)[n], r, c) /\ LinesOf(t, r, c)[n].value = t[r][c][n]
      BY <3>3 DEF Hit
    <3>6. Final(LinesOf(t, r, c), r, c, NULL) = LinesOf(t, r, c)[n].value
      BY <2>1, <3>2, <3>4, <3>5, FinalOfLast
    <3>7. QED
      BY <2>3, <3>2, <3>5, <3>6 DEF Newest, Last
  <2>4. QED
    BY <2>2, <2>3
<1>5. QED
  BY <1>2, <1>3, <1>4

\* So it is for the cells there are.
LEMMA ExportFinal ==
  ASSUME TypeInv, NEW r \in Row, NEW c \in Col
  PROVE  Final(ExportLines, r, c, NULL) = get(r, c)
BY ExportIsParts, ExportOfCells DEF get, Newest

-----------------------------------------------------------------------------
(* What will be there when the queue has been executed.                    *)

\* The import, if it waits, is the head of the queue and of nothing else.
LEMMA ImportWaits ==
  ASSUME TypeInv, ImportIsFirst
  PROVE  /\ Waiting => importing = <<>> /\ cell = NoCells
         /\ \A i \in DOMAIN queue : i # 1 => queue[i] # Import
         /\ queue # <<>> => /\ 1 \in DOMAIN queue /\ Head(queue) = queue[1]
                            /\ \A i \in DOMAIN Tail(queue) : Tail(queue)[i] # Import
<1>1. queue \in Seq(Query)
  BY DEF TypeInv
<1>2. ASSUME queue # <<>>
      PROVE  /\ 1 \in DOMAIN queue /\ Head(queue) = queue[1]
             /\ DOMAIN Tail(queue) \subseteq Nat \ {0}
             /\ \A i \in DOMAIN Tail(queue) :
                  i + 1 \in DOMAIN queue /\ Tail(queue)[i] = queue[i + 1]
  <2>1. DOMAIN Tail(queue) \subseteq Nat \ {0}
    BY <1>1, <1>2, HeadTailProperties, LenProperties
  <2>2. QED
    BY <1>1, <1>2, <2>1, TailIndices
<1>3. \A i \in DOMAIN queue : i # 1 => queue[i] # Import
  BY DEF ImportIsFirst
<1>4. ASSUME queue # <<>>, NEW i \in DOMAIN Tail(queue) PROVE Tail(queue)[i] # Import
  <2>1. i + 1 # 1 /\ i + 1 \in DOMAIN queue /\ Tail(queue)[i] = queue[i + 1]
    BY <1>2, <1>4
  <2>2. QED
    BY <1>3, <2>1
<1>5. Waiting => importing = <<>> /\ cell = NoCells
  BY <1>2 DEF Waiting, ImportIsFirst
<1>6. QED
  BY <1>2, <1>3, <1>4, <1>5

\* What is appended comes last.
LEMMA EnqueueEffect ==
  ASSUME TypeInv, ImportIsFirst, NEW w \in Seq(Query), w # <<>>, \A i \in DOMAIN w : w[i] # Import,
         queue' = queue \o w, UNCHANGED <<cell, importing, saved>>
  PROVE  /\ Waiting' <=> Waiting
         /\ ImportIsFirst'
         /\ \A r \in Row, c \in Col : AfterQueue(r, c)' = Final(w, r, c, AfterQueue(r, c))
<1>1. /\ queue \in Seq(Query) /\ queue' \in Seq(Query)
      /\ Len(queue) \in Nat /\ DOMAIN queue = 1 .. Len(queue)
      /\ Len(w) \in Nat \ {0} /\ DOMAIN w = 1 .. Len(w)
      /\ DOMAIN queue' = 1 .. Len(queue) + Len(w) /\ queue' # <<>>
      /\ \A i \in 1 .. Len(queue) + Len(w) :
           queue'[i] = IF i <= Len(queue) THEN queue[i] ELSE w[i - Len(queue)]
  <2>1. queue \in Seq(Query)
    BY DEF TypeInv
  <2>2. /\ queue \o w \in Seq(Query) /\ Len(queue \o w) = Len(queue) + Len(w)
        /\ \A i \in 1 .. Len(queue) + Len(w) :
             (queue \o w)[i] = IF i <= Len(queue) THEN queue[i] ELSE w[i - Len(queue)]
    BY <2>1, ConcatProperties
  <2>3. DOMAIN queue' = 1 .. Len(queue') /\ queue' # <<>>
    <3>1. Len(w) \in Nat \ {0} /\ Len(queue) \in Nat
      BY <2>1, EmptySeq, LenProperties
    <3>2. Len(queue') # 0
      BY <2>2, <3>1
    <3>3. QED
      BY <2>2, <3>2, LenProperties
  <2>4. QED
    BY <2>1, <2>2, <2>3, EmptySeq, LenProperties
<1>2. \A i \in DOMAIN queue' :
        \/ i \in DOMAIN queue /\ queue'[i] = queue[i]
        \/ i \notin DOMAIN queue /\ i - Len(queue) \in DOMAIN w /\ queue'[i] = w[i - Len(queue)]
  <2> SUFFICES ASSUME NEW i \in DOMAIN queue'
               PROVE  \/ i \in DOMAIN queue /\ queue'[i] = queue[i]
                      \/ /\ i \notin DOMAIN queue /\ i - Len(queue) \in DOMAIN w
                         /\ queue'[i] = w[i - Len(queue)]
    OBVIOUS
  <2>1. CASE i <= Len(queue)
    BY <1>1, <2>1
  <2>2. CASE ~(i <= Len(queue))
    <3>1. i - Len(queue) \in 1 .. Len(w) /\ i \notin 1 .. Len(queue)
      BY <1>1, <2>2
    <3>2. QED
      BY <1>1, <2>2, <3>1
  <2>3. QED
    BY <2>1, <2>2
<1>3. ImportIsFirst'
  <2>1. \A i \in DOMAIN queue' :
          queue'[i] = Import => i \in DOMAIN queue /\ queue[i] = Import
    BY <1>2
  <2>2. QED
    BY <2>1 DEF ImportIsFirst, NoCells
<1>4. Waiting' <=> Waiting
  <2>1. 1 \in DOMAIN queue' /\ Head(queue') = queue'[1]
    <3>1. 1 \in 1 .. Len(queue) + Len(w)
      BY <1>1
    <3>2. QED
      BY <1>1, <3>1, TailIndices
  <2>2. CASE queue = <<>>
    <3>1. 1 \notin DOMAIN queue
      BY <1>1, <2>2
    <3>2. QED
      BY <1>2, <2>1, <2>2, <3>1 DEF Waiting
  <2>3. CASE queue # <<>>
    <3>1. 1 \in DOMAIN queue /\ Head(queue) = queue[1]
      BY <1>1, <2>3, TailIndices
    <3>2. QED
      BY <1>1, <1>2, <2>1, <2>3, <3>1 DEF Waiting
  <2>4. QED
    BY <2>2, <2>3
<1>5. ASSUME NEW r \in Row, NEW c \in Col
      PROVE  AfterQueue(r, c)' = Final(w, r, c, AfterQueue(r, c))
  <2>1. AfterImport(r, c)' = AfterImport(r, c)
    BY <1>4 DEF AfterImport, Importing, get
  <2>2. AfterQueue(r, c)' = Final(queue \o w, r, c, AfterImport(r, c))
    BY <2>1 DEF AfterQueue
  <2>3. PICK v : v = AfterImport(r, c)
    OBVIOUS
  <2>4. Final(queue \o w, r, c, v) = Final(w, r, c, Final(queue, r, c, v))
    BY <1>1, FinalConcat
  <2>5. QED
    BY <2>2, <2>3, <2>4 DEF AfterQueue
<1>6. QED
  BY <1>3, <1>4, <1>5

\* A put that is executed, from the queue or the import, is the value a reader gets.
LEMMA ApplyValue ==
  ASSUME TypeInv, NEW r \in Row, NEW c \in Col, NEW v \in Value, Apply(r, c, v),
         NEW q \in Row, NEW d \in Col
  PROVE  get(q, d)' = IF q = r /\ d = c THEN v ELSE get(q, d)
<1>1. cell'[q][d] = IF q = r /\ d = c THEN Append(cell[r][c], v) ELSE cell[q][d]
  BY ApplyEffect
<1>2. PICK s \in Seq(Value) : s = cell[r][c]
  BY DEF TypeInv
<1>3. Append(s, v) # <<>> /\ Last(Append(s, v)) = v
  BY AppendProperties DEF Last
<1>4. CASE q = r /\ d = c
  BY <1>1, <1>2, <1>3, <1>4 DEF get
<1>5. CASE ~(q = r /\ d = c)
  BY <1>1, <1>5 DEF get
<1>6. QED
  BY <1>4, <1>5

\* What the import begins with leaves the same in the columns as the export.
LEMMA ImportDuplicate ==
  ASSUME TypeInv, NEW r \in Row, NEW c \in Col, NEW v,
         NEW s \in {export} \cup (IF export = <<>> THEN {} ELSE {Append(export, Last(export))})
  PROVE  Final(s, r, c, v) = Final(export, r, c, v) /\ (s = <<>> <=> export = <<>>)
<1>1. export \in Seq(Line)
  BY DEF TypeInv
<1>2. CASE s = export
  BY <1>2
<1>3. CASE export # <<>> /\ s = Append(export, Last(export))
  <2>1. PICK l \in Line : l = Last(export) /\ l = export[Len(export)]
    BY <1>1, <1>3, EmptySeq, ElementOfSeq DEF Last
  <2>2. Final(Append(export, l), r, c, v) = IF Hit(l, r, c) THEN l.value ELSE Final(export, r, c, v)
    BY <1>1, FinalAppend
  <2>3. Hit(l, r, c) => Final(export, r, c, v) = l.value
    BY <1>1, <1>3, <2>1, FinalOfLast
  <2>4. Append(export, l) # <<>>
    BY <1>1, AppendProperties
  <2>5. QED
    BY <1>3, <2>1, <2>2, <2>3, <2>4
<1>4. QED
  BY <1>2, <1>3

\* After a step of the pool no import waits.
LEMMA PoolFirst == ASSUME TypeInv, ImportIsFirst, PoolStep PROVE ImportIsFirst' /\ ~Waiting'
<1>1. \A i \in DOMAIN queue' : queue'[i] # Import
  <2>1. CASE ExecutePut \/ ExecuteDelete \/ ExecuteImport
    BY <2>1, ImportWaits DEF ExecutePut, ExecuteDelete, ExecuteImport
  <2>2. CASE ExecuteDeleteCrash
    <3>1. queue' = <<>>
      BY <2>2 DEF ExecuteDeleteCrash, Revert, LoseMemory
    <3>2. QED
      BY <3>1
  <2>3. CASE ImportLine
    BY <2>3 DEF ImportLine, ImportIsFirst
  <2>4. QED
    BY <2>1, <2>2, <2>3 DEF PoolStep
<1>2. queue' \in Seq(Query)
  <2>1. CASE queue' = Tail(queue) /\ queue # <<>>
    BY <2>1, HeadTailProperties DEF TypeInv
  <2>2. CASE queue' = <<>> \/ queue' = queue
    <3>1. queue \in Seq(Query) /\ <<>> \in Seq(Query)
      BY EmptySeq DEF TypeInv
    <3>2. QED
      BY <2>2, <3>1
  <2>3. QED
    BY <2>1, <2>2 DEF PoolStep, ExecutePut, ExecuteDelete, ExecuteImport, ImportLine,
       ExecuteDeleteCrash, Revert, LoseMemory
<1>3. queue' # <<>> => Head(queue') = queue'[1] /\ 1 \in DOMAIN queue'
  BY <1>2, TailIndices
<1>4. QED
  BY <1>1, <1>3 DEF ImportIsFirst, Waiting

\* A step of the pool brings about what was going to be, and nothing else.
LEMMA PoolEffect ==
  ASSUME TypeInv, ImportIsFirst, DiskInv, ImportInv, PoolStep, ~ExecuteDeleteCrash, Patient
  PROVE  /\ UNCHANGED <<phase, user, export, size, text, account, created, removed, saved, events,
                        spoilt>>
         /\ phase # "off"
         /\ importing' # <<>> =>
              \A r \in Row, c \in Col :
                Final(importing', r, c, get(r, c)') = Newest(saved.cell[r][c])
         /\ \A r \in Row, c \in Col : AfterQueue(r, c)' = AfterQueue(r, c)
<1>1. ~Waiting' /\ queue \in Seq(Query) /\ importing \in Seq(Line)
  BY PoolFirst DEF TypeInv
<1>2. /\ \A r \in Row, c \in Col : Final(text, r, c, NULL) = Newest(saved.cell[r][c])
      /\ Waiting => export = text
      /\ importing # <<>> =>
           \A r \in Row, c \in Col : Final(importing, r, c, get(r, c)) = Newest(saved.cell[r][c])
  BY DEF DiskInv, ImportInv
<1>3. ASSUME ExecutePut \/ ExecuteDelete
      PROVE  ~Importing /\ ~Importing' /\ importing' = <<>> /\ queue # <<>> /\ queue' = Tail(queue)
  <2>1. importing = <<>> /\ importing' = <<>> /\ queue # <<>> /\ Head(queue).op # "import"
        /\ queue' = Tail(queue)
    BY <1>3 DEF ExecutePut, ExecuteDelete
  <2>2. Head(queue) # Import
    BY <2>1 DEF Import
  <2>3. QED
    BY <1>1, <2>1, <2>2 DEF Importing, Waiting
<1>4. ASSUME NEW r \in Row, NEW c \in Col, ~Importing, ~Importing', queue # <<>>,
             queue' = Tail(queue),
             get(r, c)' = IF Hit(Head(queue), r, c) THEN Head(queue).value ELSE get(r, c)
      PROVE  AfterQueue(r, c)' = AfterQueue(r, c)
  <2>1. AfterImport(r, c) = get(r, c) /\ AfterImport(r, c)' = get(r, c)'
    BY <1>4 DEF AfterImport
  <2>2. PICK v, w : v = get(r, c) /\ w = get(r, c)'
    OBVIOUS
  <2>3. Final(queue, r, c, v)
          = Final(Tail(queue), r, c, IF Hit(Head(queue), r, c) THEN Head(queue).value ELSE v)
    BY <1>1, <1>4, FinalTail
  <2>4. AfterQueue(r, c) = Final(queue, r, c, v) /\ AfterQueue(r, c)' = Final(Tail(queue), r, c, w)
    BY <1>4, <2>1, <2>2 DEF AfterQueue
  <2>5. w = IF Hit(Head(queue), r, c) THEN Head(queue).value ELSE v
    BY <1>4, <2>2
  <2>6. QED
    BY <2>3, <2>4, <2>5
<1>5. CASE ExecutePut
  <2>1. PICK q \in Row, d \in Col, x \in Value :
          Head(queue).row = q /\ Head(queue).col = d /\ Head(queue).value = x
    BY <1>5, HeadTypes DEF ExecutePut
  <2>2. Apply(q, d, x)
    BY <1>5, <2>1 DEF ExecutePut
  <2>3. ASSUME NEW r \in Row, NEW c \in Col
        PROVE  get(r, c)' = IF Hit(Head(queue), r, c) THEN Head(queue).value ELSE get(r, c)
    <3>1. get(r, c)' = IF r = q /\ c = d THEN x ELSE get(r, c)
      BY <2>2, ApplyValue
    <3>2. Hit(Head(queue), r, c) <=> r = q /\ c = d
      BY <2>1, DataTypes DEF Hit
    <3>3. QED
      BY <2>1, <3>1, <3>2
  <2>4. \A r \in Row, c \in Col : AfterQueue(r, c)' = AfterQueue(r, c)
    BY <1>3, <1>4, <1>5, <2>3
  <2>5. QED
    BY <1>3, <1>5, <2>4 DEF ExecutePut, disk, history
<1>6. CASE ExecuteDelete
  <2>1. PICK q \in Row : Head(queue) = Del(q) /\ Head(queue).row = q
    BY <1>6, HeadTypes DEF ExecuteDelete
  <2>2. /\ \A c \in Col : cell'[q][c] = <<>>
        /\ \A r \in Row \ {q} : cell'[r] = cell[r]
    BY <1>6, <2>1, ClearEffect DEF ExecuteDelete
  <2>3. ASSUME NEW r \in Row, NEW c \in Col
        PROVE  get(r, c)' = IF Hit(Head(queue), r, c) THEN Head(queue).value ELSE get(r, c)
    <3>1. (Hit(Head(queue), r, c) <=> r = q) /\ Head(queue).value = NULL
      BY <2>1 DEF Hit, Del
    <3>2. r = q => get(r, c)' = NULL
      BY <2>2 DEF get
    <3>3. r # q => get(r, c)' = get(r, c)
      BY <2>2 DEF get
    <3>4. QED
      BY <3>1, <3>2, <3>3
  <2>4. \A r \in Row, c \in Col : AfterQueue(r, c)' = AfterQueue(r, c)
    BY <1>3, <1>4, <1>6, <2>3
  <2>5. QED
    BY <1>3, <1>6, <2>4 DEF ExecuteDelete, disk, history
<1>7. CASE ExecuteImport
  <2>1. /\ queue # <<>> /\ Head(queue) = Import /\ queue' = Tail(queue) /\ Waiting
        /\ importing' \in {export}
                            \cup (IF export = <<>> THEN {} ELSE {Append(export, Last(export))})
        /\ UNCHANGED <<cell, saved>> /\ cell = NoCells /\ export = text
    <3>1. queue # <<>> /\ Head(queue) = Import
      BY <1>7, HeadTypes DEF ExecuteImport
    <3>2. Waiting
      BY <3>1 DEF Waiting
    <3>3. QED
      BY <1>2, <1>7, <3>1, <3>2, ImportWaits DEF ExecuteImport
  <2>2. ASSUME NEW r \in Row, NEW c \in Col
        PROVE  /\ get(r, c) = NULL /\ get(r, c)' = NULL
               /\ Final(importing', r, c, NULL) = Newest(saved.cell[r][c])
               /\ importing' = <<>> => Newest(saved.cell[r][c]) = NULL
    <3>1. cell[r][c] = <<>>
      BY <2>1 DEF NoCells
    <3>2. get(r, c) = NULL /\ get(r, c)' = NULL
      BY <2>1, <3>1 DEF get
    <3>3. Final(importing', r, c, NULL) = Final(export, r, c, NULL)
      BY <2>1, ImportDuplicate
    <3>4. Final(importing', r, c, NULL) = Newest(saved.cell[r][c])
      BY <1>2, <2>1, <3>3
    <3>5. Final(<<>>, r, c, NULL) = NULL
      BY FinalEmpty
    <3>6. QED
      BY <3>2, <3>4, <3>5
  <2>3. ASSUME NEW r \in Row, NEW c \in Col PROVE AfterQueue(r, c)' = AfterQueue(r, c)
    <3>1. /\ AfterImport(r, c) = Newest(saved.cell[r][c])
          /\ AfterImport(r, c)' = Newest(saved.cell[r][c])
      <4>1. AfterImport(r, c) = Newest(saved.cell[r][c])
        BY <2>1 DEF AfterImport, Importing
      <4>2. CASE importing' = <<>>
        BY <1>1, <2>2, <4>1, <4>2 DEF AfterImport, Importing
      <4>3. CASE importing' # <<>>
        BY <2>1, <4>1, <4>3 DEF AfterImport, Importing
      <4>4. QED
        BY <4>1, <4>2, <4>3
    <3>2. PICK v : v = Newest(saved.cell[r][c])
      OBVIOUS
    <3>3. Final(queue, r, c, v)
            = Final(Tail(queue), r, c, IF Hit(Head(queue), r, c) THEN Head(queue).value ELSE v)
      BY <1>1, <2>1, FinalTail
    <3>4. ~Hit(Head(queue), r, c)
      BY <2>1, DataTypes DEF Hit, Import
    <3>5. /\ AfterQueue(r, c) = Final(queue, r, c, v)
          /\ AfterQueue(r, c)' = Final(Tail(queue), r, c, v)
      BY <2>1, <3>1, <3>2 DEF AfterQueue
    <3>6. QED
      BY <3>3, <3>4, <3>5
  <2>4. \A r \in Row, c \in Col : Final(importing', r, c, get(r, c)') = Newest(saved.cell[r][c])
    BY <2>2
  <2>5. QED
    BY <1>7, <2>3, <2>4 DEF ExecuteImport, disk, history
<1>8. CASE ImportLine
  <2>1. PICK q \in Row, d \in Col, x \in Value :
          Head(importing).row = q /\ Head(importing).col = d /\ Head(importing).value = x
    BY <1>8, LineTypes DEF ImportLine
  <2>2. /\ Apply(q, d, x) /\ importing # <<>> /\ importing' = Tail(importing)
        /\ UNCHANGED <<queue, saved>>
    BY <1>8, <2>1 DEF ImportLine
  <2>3. ASSUME NEW r \in Row, NEW c \in Col
        PROVE  Final(importing', r, c, get(r, c)') = Newest(saved.cell[r][c])
    <3>1. get(r, c)' = IF r = q /\ c = d THEN x ELSE get(r, c)
      BY <2>2, ApplyValue
    <3>2. Hit(Head(importing), r, c) <=> r = q /\ c = d
      BY <2>1, DataTypes DEF Hit
    <3>3. PICK v, w : v = get(r, c) /\ w = get(r, c)'
      OBVIOUS
    <3>4. Final(importing, r, c, v)
            = Final(Tail(importing), r, c,
                    IF Hit(Head(importing), r, c) THEN Head(importing).value ELSE v)
      BY <1>1, <2>2, FinalTail
    <3>5. w = IF Hit(Head(importing), r, c) THEN Head(importing).value ELSE v
      BY <2>1, <3>1, <3>2, <3>3
    <3>6. Final(importing, r, c, v) = Newest(saved.cell[r][c])
      BY <1>2, <2>2, <3>3
    <3>7. QED
      BY <2>2, <3>3, <3>4, <3>5, <3>6
  <2>4. ASSUME NEW r \in Row, NEW c \in Col PROVE AfterQueue(r, c)' = AfterQueue(r, c)
    <3>1. AfterImport(r, c) = Newest(saved.cell[r][c])
      BY <2>2 DEF AfterImport, Importing
    <3>2. AfterImport(r, c)' = Newest(saved.cell[r][c])
      <4>1. CASE importing' # <<>>
        BY <2>2, <4>1 DEF AfterImport, Importing
      <4>2. CASE importing' = <<>>
        <5>1. AfterImport(r, c)' = get(r, c)'
          BY <1>1, <4>2 DEF AfterImport, Importing
        <5>2. Final(importing', r, c, get(r, c)') = get(r, c)'
          BY <4>2, FinalEmpty
        <5>3. QED
          BY <2>3, <5>1, <5>2
      <4>3. QED
        BY <4>1, <4>2
    <3>3. QED
      BY <2>2, <3>1, <3>2 DEF AfterQueue
  <2>5. QED
    BY <1>8, <2>3, <2>4 DEF ImportLine, disk, history
<1>9. QED
  BY <1>5, <1>6, <1>7, <1>8 DEF PoolStep

-----------------------------------------------------------------------------
(* Accounts.                                                               *)

KeptInv == ImportIsFirst /\ OffInv /\ DiskInv /\ ImportInv /\ AccountsInv /\ ExportInv

\* When nothing is pending, what is there is what will be.
LEMMA IdleHolds ==
  ASSUME Idle, NEW r \in Row, NEW c \in Col PROVE AfterQueue(r, c) = get(r, c)
<1>1. ~Importing /\ queue = <<>>
  BY DEF Idle, Importing, Waiting
<1>2. QED
  BY <1>1, FinalEmpty DEF AfterQueue, AfterImport

\* Start, between the end of a process and the import.
LEMMA KeptStart ==
  ASSUME TypeInv, KeptInv, [Next]_vars, Start PROVE KeptInv'
<1>1. /\ phase = "off" /\ phase' = "auth" /\ queue' = <<Import>> /\ importing' = <<>>
      /\ cell' = NoCells /\ UNCHANGED <<size, text, account, created, removed, saved, spoilt>>
  BY DEF Start, TypeInv, Idle, history
<1>2. ImportIsFirst' /\ OffInv' /\ ExportInv'
  <2>1. \A i \in DOMAIN queue' : i = 1
    BY <1>1
  <2>2. QED
    BY <1>1, <2>1 DEF ImportIsFirst, OffInv, ExportInv, NoCells
<1>3. Patient' => DiskInv' /\ size = Len(text)
  <2>1. Patient' => Patient
    BY PatienceLasts
  <2>2. QED
    BY <1>1, <2>1 DEF DiskInv, KeptInv
<1>4. Patient' => export' = text
  <2>1. ASSUME Patient' PROVE export' = text
    <3>1. text \in Seq(Line) /\ size = Len(text) /\ Len(text) \in Nat
      BY <1>3, <2>1, LenProperties DEF TypeInv
    <3>2. export' = SubSeq(text, 1, Len(text))
      BY <3>1 DEF Start
    <3>3. QED
      BY <3>1, <3>2, SubSeqFull
  <2>2. QED
    BY <2>1
<1>5. ASSUME Patient', NEW u \in User PROVE account'[u] = AfterQueue(u, Puts)'
  <2>1. Head(queue') = Import /\ queue' # <<>>
    BY <1>1
  <2>2. AfterImport(u, Puts)' = Newest(saved.cell[u][Puts])
    BY <1>1, <2>1 DEF AfterImport, Importing, Waiting
  <2>3. \A i \in DOMAIN queue' : ~Hit(queue'[i], u, Puts)
    <3>1. \A i \in DOMAIN queue' : queue'[i] = Import
      BY <1>1
    <3>2. QED
      BY <3>1 DEF Hit, Import
  <2>4. AfterQueue(u, Puts)' = AfterImport(u, Puts)'
    BY <2>3, FinalIsFirst DEF AfterQueue
  <2>5. Patient
    BY <1>5, PatienceLasts
  <2>6. account[u] = saved.account[u] /\ saved.account[u] = Newest(saved.cell[u][Puts])
    BY <1>1, <2>5 DEF KeptInv, OffInv, DiskInv
  <2>7. QED
    BY <1>1, <2>2, <2>4, <2>6
<1>6. QED
  BY <1>1, <1>2, <1>3, <1>4, <1>5 DEF KeptInv, ImportInv, AccountsInv, DiskInv

\* The process ends, by a dump or without one.
LEMMA KeptOff ==
  ASSUME TypeInv, KeptInv, [Next]_vars, LoseMemory, DiskInv',
         account' = saved'.account, created' = saved'.created, removed' = saved'.removed
  PROVE  KeptInv'
<1>1. queue' = <<>> /\ importing' = <<>> /\ phase' = "off"
  BY DEF LoseMemory
<1>2. QED
  BY <1>1 DEF KeptInv, ImportIsFirst, OffInv, ImportInv, AccountsInv, ExportInv, Waiting

\* A dump writes what the export holds, and nothing was pending at the export.
LEMMA KeptDump == ASSUME TypeInv, KeptInv, [Next]_vars, DumpText PROVE KeptInv'
<1>1. /\ phase = "sized" /\ phase' = "off" /\ text' = export /\ LoseMemory
      /\ UNCHANGED <<size, account, created, removed>>
      /\ saved' = [cell |-> cell, account |-> account, created |-> created, removed |-> removed]
  BY DEF DumpText, LoseMemory, history
<1>2. /\ saved'.cell = cell /\ saved'.account = account /\ saved'.created = created
      /\ saved'.removed = removed
  BY <1>1
<1>3. ASSUME Patient' PROVE DiskInv'
  <2>1. Patient
    BY <1>3, PatienceLasts
  <2>2. size' = Len(text') /\ Idle /\ export = ExportLines
    BY <1>1, <2>1 DEF KeptInv, DiskInv, ExportInv
  <2>3. \A r \in Row, c \in Col : Final(text', r, c, NULL) = Newest(saved'.cell[r][c])
    BY <1>1, <1>2, <2>2, ExportFinal DEF get, Newest
  <2>4. ASSUME NEW u \in User PROVE saved'.account[u] = Newest(saved'.cell[u][Puts])
    <3>1. account[u] = AfterQueue(u, Puts)
      BY <1>1, <2>1 DEF KeptInv, AccountsInv
    <3>2. AfterQueue(u, Puts) = get(u, Puts)
      BY <2>2, IdleHolds, DataTypes
    <3>3. QED
      BY <1>2, <3>1, <3>2 DEF get, Newest
  <2>5. QED
    BY <1>1, <2>2, <2>3, <2>4 DEF DiskInv
<1>4. DiskInv'
  BY <1>3 DEF DiskInv
<1>5. QED
  BY <1>1, <1>2, <1>4, KeptOff

\* A kill leaves the file as it was, unless in the middle of a dump.
LEMMA KeptRevert ==
  ASSUME TypeInv, KeptInv, [Next]_vars, Crash \/ ExecuteDeleteCrash PROVE KeptInv'
<1>1. /\ LoseMemory /\ UNCHANGED <<export, size, text, saved>> /\ phase' = "off"
      /\ account' = saved.account /\ created' = saved.created /\ removed' = saved.removed
  BY DEF Crash, ExecuteDeleteCrash, Revert, LoseMemory, disk
<1>2. phase = "sized" => spoilt'.torn
  <2>1. spoilt \in [torn : BOOLEAN, fell : BOOLEAN]
    BY DEF TypeInv
  <2>2. \/ spoilt' = [spoilt EXCEPT !.torn = @ \/ phase = "sized"]
        \/ spoilt' = [spoilt EXCEPT !.fell = TRUE, !.torn = @ \/ phase = "sized"]
    BY DEF Crash, ExecuteDeleteCrash
  <2>3. QED
    BY <2>1, <2>2
<1>3. Patient' => Patient /\ phase # "sized"
  BY <1>2, PatienceLasts DEF Patient
<1>4. DiskInv'
  BY <1>1, <1>3 DEF DiskInv, KeptInv
<1>5. QED
  BY <1>1, <1>4, KeptOff

\* Exit: the export and the size.
LEMMA KeptExit == ASSUME TypeInv, KeptInv, [Next]_vars, ExitExport \/ DumpSize PROVE KeptInv'
<1>1. /\ phase \in {"main", "exported"} /\ phase' \in {"exported", "sized"}
      /\ UNCHANGED <<cell, queue, importing, text, account, saved, spoilt>>
  BY DEF ExitExport, DumpSize, memory, history
<1>2. ASSUME Patient' PROVE Idle /\ export' = ExportLines
  <2>1. Patient
    BY <1>2, PatienceLasts
  <2>2. CASE ExitExport
    <3>1. events'.hasty = 0
      BY <1>2 DEF Patient
    <3>2. Idle \in BOOLEAN
      BY DEF Idle
    <3>3. Idle
      BY <2>2, <3>1, <3>2, HastyMeans DEF ExitExport
    <3>4. QED
      BY <2>2, <3>3 DEF ExitExport
  <2>3. CASE DumpSize
    BY <2>1, <2>3 DEF DumpSize, KeptInv, ExportInv
  <2>4. QED
    BY <2>2, <2>3
<1>3. ExportLines' = ExportLines
  BY <1>1 DEF ExportLines, Lines, RowOrder
<1>4. ExportInv'
  BY <1>1, <1>2, <1>3 DEF ExportInv, Idle
<1>5. ASSUME Patient' PROVE ImportInv' /\ DiskInv'
  <2>1. Patient
    BY <1>5, PatienceLasts
  <2>2. queue = <<>> /\ importing = <<>>
    BY <1>2, <1>5 DEF Idle
  <2>3. ImportInv'
    BY <1>1, <2>2 DEF ImportInv, Waiting
  <2>4. size' = IF phase' = "sized" THEN Len(export') ELSE Len(text')
    <3>1. CASE ExitExport
      BY <2>1, <3>1 DEF ExitExport, KeptInv, DiskInv
    <3>2. CASE DumpSize
      BY <3>2 DEF DumpSize
    <3>3. QED
      BY <3>1, <3>2
  <2>5. QED
    BY <1>1, <2>1, <2>3, <2>4 DEF DiskInv, KeptInv
<1>6. AccountsInv'
  <2>1. \A u \in User : AfterQueue(u, Puts)' = AfterQueue(u, Puts)
    BY <1>1 DEF AfterQueue, AfterImport, Importing, Waiting, get
  <2>2. phase # "off"
    BY <1>1
  <2>3. Patient' => Patient
    BY PatienceLasts
  <2>4. QED
    BY <1>1, <2>1, <2>2, <2>3 DEF KeptInv, AccountsInv
<1>7. ImportIsFirst' /\ OffInv'
  BY <1>1 DEF KeptInv, ImportIsFirst, OffInv, NoCells
<1>8. QED
  BY <1>4, <1>5, <1>6, <1>7 DEF KeptInv, ImportInv, DiskInv

\* Something is appended to the queue while the menu is open, and the accounts that should
\* be there change as it says.
LEMMA KeptEnqueue ==
  ASSUME TypeInv, KeptInv, [Next]_vars, phase = "main" \/ phase = "auth",
         phase' = "main" \/ phase' = "auth",
         NEW w \in Seq(Query), w # <<>>, \A i \in DOMAIN w : w[i] # Import,
         queue' = queue \o w,
         UNCHANGED <<cell, importing, saved, export, size, text, spoilt>>,
         \A u \in User : account'[u] = Final(w, u, Puts, account[u])
  PROVE  KeptInv'
<1>1. /\ Waiting' <=> Waiting
      /\ ImportIsFirst'
      /\ \A r \in Row, c \in Col : AfterQueue(r, c)' = Final(w, r, c, AfterQueue(r, c))
  BY EnqueueEffect DEF KeptInv
<1>2. Patient' => Patient
  BY PatienceLasts
<1>3. OffInv' /\ ExportInv'
  BY DEF OffInv, ExportInv
<1>4. DiskInv'
  BY <1>2 DEF DiskInv, KeptInv
<1>5. ImportInv'
  BY <1>1, <1>2 DEF ImportInv, KeptInv, get
<1>6. AccountsInv'
  <2>1. ASSUME Patient', NEW u \in User PROVE account'[u] = AfterQueue(u, Puts)'
    <3>1. account[u] = AfterQueue(u, Puts)
      BY <1>2, <2>1 DEF KeptInv, AccountsInv
    <3>2. u \in Row /\ Puts \in Col
      BY DataTypes
    <3>3. QED
      BY <1>1, <3>1, <3>2
  <2>2. QED
    BY <2>1 DEF AccountsInv
<1>7. QED
  BY <1>1, <1>3, <1>4, <1>5, <1>6 DEF KeptInv

\* A sign up will bring about its own account, and no other.
LEMMA KeptSignUp ==
  ASSUME TypeInv, KeptInv, [Next]_vars, NEW u \in User, NEW p \in Password, SignUp(u, p)
  PROVE  KeptInv'
<1> DEFINE w == UserPuts(u, p)
<1>1. /\ w \in Seq(Query) /\ DOMAIN w = Col /\ Len(w) = Puts /\ Puts \in Col
      /\ \A c \in Col : /\ w[c].op = "put" /\ w[c].row = u /\ w[c].col = c
                        /\ w[c].value = IF c = Puts THEN p ELSE Given
  BY UserPutsType, DataTypes
<1>2. /\ queue' = queue \o w /\ Running /\ phase' = "main"
      /\ UNCHANGED <<cell, importing, saved, export, size, text, spoilt>>
      /\ account' = [account EXCEPT ![u] = p]
  BY DEF SignUp, disk
<1> HIDE DEF w
<1>3. w # <<>> /\ \A i \in DOMAIN w : w[i] # Import
  <2>1. Len(w) # 0
    BY <1>1
  <2>2. QED
    BY <1>1, <2>1, EmptySeq DEF Import
<1>4. ASSUME NEW v \in User PROVE account'[v] = Final(w, v, Puts, account[v])
  <2>1. CASE v = u
    <3>1. \E i \in DOMAIN w : Hit(w[i], v, Puts)
      BY <1>1, <2>1 DEF Hit
    <3>2. \A i \in DOMAIN w : Hit(w[i], v, Puts) => w[i].value = p
      BY <1>1, <2>1 DEF Hit
    <3>3. w \in Seq(Query)
      BY <1>1
    <3>4. PICK a : a = account[v]
      OBVIOUS
    <3>5. Final(w, v, Puts, a) = p
      BY <3>1, <3>2, <3>3, FinalOfAll
    <3>6. QED
      BY <1>2, <2>1, <3>4, <3>5 DEF TypeInv
  <2>2. CASE v # u
    <3>1. \A i \in DOMAIN w : ~Hit(w[i], v, Puts)
      BY <1>1, <2>2 DEF Hit
    <3>2. Final(w, v, Puts, account[v]) = account[v]
      BY <3>1, FinalIsFirst
    <3>3. QED
      BY <1>2, <2>2, <3>2 DEF TypeInv
  <2>3. QED
    BY <2>1, <2>2
<1>5. QED
  BY <1>1, <1>2, <1>3, <1>4, KeptEnqueue DEF Running

\* The deletion of one row.
LEMMA DelType ==
  ASSUME NEW r \in Row
  PROVE  /\ <<Del(r)>> \in Seq(Query) /\ <<Del(r)>> # <<>>
         /\ \A i \in DOMAIN <<Del(r)>> : <<Del(r)>>[i] # Import
         /\ \A q \in Row, c \in Col : \A v : Final(<<Del(r)>>, q, c, v) = IF q = r THEN NULL ELSE v
<1> DEFINE d == <<Del(r)>>
<1>1. Del(r) \in Query /\ d \in Seq(Query) /\ DOMAIN d = {1} /\ d[1] = Del(r) /\ d # <<>>
  BY QueryTypes
<1> HIDE DEF d
<1>2. Del(r) # Import
  BY DEF Del, Import
<1>3. ASSUME NEW q \in Row, NEW c \in Col, NEW v
      PROVE  Final(d, q, c, v) = IF q = r THEN NULL ELSE v
  <2>1. Hit(d[1], q, c) <=> q = r
    BY <1>1 DEF Hit, Del
  <2>2. d[1].value = NULL
    BY <1>1 DEF Del
  <2>3. CASE q = r
    <3>1. \E i \in DOMAIN d : Hit(d[i], q, c)
      BY <1>1, <2>1, <2>3
    <3>2. \A i \in DOMAIN d : Hit(d[i], q, c) => d[i].value = NULL
      BY <1>1, <2>2
    <3>3. d \in Seq(Query)
      BY <1>1
    <3>4. Final(d, q, c, v) = NULL
      BY <3>1, <3>2, <3>3, FinalOfAll
    <3>5. QED
      BY <2>3, <3>4
  <2>4. CASE q # r
    BY <1>1, <2>1, <2>4, FinalIsFirst
  <2>5. QED
    BY <2>3, <2>4
<1>4. QED
  BY <1>1, <1>2, <1>3 DEF d

\* A removal will take away its own account, and no other.
LEMMA KeptRemoveUser ==
  ASSUME TypeInv, KeptInv, [Next]_vars, RemoveUser PROVE KeptInv'
<1>1. /\ user \in User /\ user \in Row /\ phase = "main" /\ phase' = "auth"
      /\ queue' = Append(queue, Del(user))
      /\ UNCHANGED <<cell, importing, saved, export, size, text, spoilt>>
      /\ account' = [account EXCEPT ![user] = NULL]
  BY DEF RemoveUser, TypeInv, disk, Row
<1>2. PICK w \in Seq(Query) : w = <<Del(user)>>
  BY <1>1, DelType
<1>3. queue' = queue \o w
  BY <1>1, <1>2, QueryTypes, AppendIsConcat DEF TypeInv
<1>4. w # <<>> /\ \A i \in DOMAIN w : w[i] # Import
  BY <1>1, <1>2, DelType
<1>5. \A v \in User : account'[v] = Final(w, v, Puts, account[v])
  <2>1. \A v \in User : Final(w, v, Puts, account[v]) = IF v = user THEN NULL ELSE account[v]
    BY <1>1, <1>2, DelType, DataTypes
  <2>2. \A v \in User : account'[v] = IF v = user THEN NULL ELSE account[v]
    BY <1>1 DEF TypeInv
  <2>3. QED
    BY <2>1, <2>2
<1>6. QED
  BY <1>1, <1>3, <1>4, <1>5, KeptEnqueue

\* A new post changes no account.
LEMMA KeptCreatePost ==
  ASSUME TypeInv, KeptInv, [Next]_vars, NEW f \in File, CreatePost(f) PROVE KeptInv'
<1>1. PICK id \in Id : id = get_new_post_id
  BY DEF CreatePost, TypeInv, get_new_post_id, Id
<1> DEFINE w == PostPuts(id, f)
<1>2. /\ phase = "main" /\ phase' = "main" /\ queue' = queue \o w
      /\ UNCHANGED <<cell, importing, saved, export, size, text, spoilt, account>>
  BY <1>1 DEF CreatePost, PostPuts, disk
<1>3. /\ w \in Seq(Query) /\ w # <<>>
      /\ \A i \in DOMAIN w : w[i].op = "put" /\ w[i].row = id
  <2>1. /\ w \in Seq(Query) /\ DOMAIN w = Col /\ Len(w) = Puts
        /\ \A i \in Col : w[i].op = "put" /\ w[i].row = id
    BY PostPutsType
  <2> HIDE DEF w
  <2>2. Len(w) # 0
    BY <2>1
  <2>3. w # <<>>
    BY <2>1, <2>2, EmptySeq
  <2>4. QED
    BY <2>1, <2>3
<1> HIDE DEF w
<1>4. \A i \in DOMAIN w : w[i] # Import
  BY <1>3 DEF Import
<1>5. \A v \in User : account'[v] = Final(w, v, Puts, account[v])
  <2>1. \A v \in User : \A i \in DOMAIN w : ~Hit(w[i], v, Puts)
    BY <1>3, DataTypes DEF Hit
  <2>2. QED
    BY <1>2, <2>1, FinalIsFirst
<1>6. QED
  BY <1>2, <1>3, <1>4, <1>5, KeptEnqueue

\* Nor does the removal of one.
LEMMA KeptRemovePost ==
  ASSUME TypeInv, KeptInv, [Next]_vars, NEW id \in Id, RemovePost(id) PROVE KeptInv'
<1>1. /\ id \in Row /\ phase = "main" /\ phase' = "main"
      /\ queue' = Append(queue, Del(id))
      /\ UNCHANGED <<cell, importing, saved, export, size, text, spoilt, account>>
  BY DEF RemovePost, disk, Row
<1>2. PICK w \in Seq(Query) : w = <<Del(id)>>
  BY <1>1, DelType
<1>3. queue' = queue \o w
  BY <1>1, <1>2, QueryTypes, AppendIsConcat DEF TypeInv
<1>4. w # <<>> /\ \A i \in DOMAIN w : w[i] # Import
  BY <1>1, <1>2, DelType
<1>5. \A v \in User : account'[v] = Final(w, v, Puts, account[v])
  <2>1. \A v \in User : v # id /\ v \in Row /\ Puts \in Col
    BY DataTypes
  <2>2. \A v \in User : Final(w, v, Puts, account[v]) = account[v]
    BY <1>1, <1>2, <2>1, DelType
  <2>3. QED
    BY <1>1, <2>2
<1>6. QED
  BY <1>1, <1>3, <1>4, <1>5, KeptEnqueue

\* A step of the pool brings about what was going to be.
LEMMA KeptPool ==
  ASSUME TypeInv, KeptInv, [Next]_vars, PoolStep, ~ExecuteDeleteCrash PROVE KeptInv'
<1>1. ImportIsFirst' /\ ~Waiting'
  BY PoolFirst DEF KeptInv
<1>2. phase # "off" /\ phase' = phase
  BY DEF PoolStep, ExecutePut, ExecuteDelete, ExecuteImport, ImportLine
<1>3. ASSUME Patient' PROVE DiskInv' /\ ImportInv' /\ AccountsInv' /\ ExportInv'
  <2>1. Patient
    BY <1>3, PatienceLasts
  <2>2. /\ UNCHANGED <<phase, user, export, size, text, account, created, removed, saved, events,
                        spoilt>>
        /\ importing' # <<>> =>
             \A r \in Row, c \in Col :
               Final(importing', r, c, get(r, c)') = Newest(saved.cell[r][c])
        /\ \A r \in Row, c \in Col : AfterQueue(r, c)' = AfterQueue(r, c)
    BY <2>1, PoolEffect DEF KeptInv
  <2>3. DiskInv'
    BY <2>1, <2>2 DEF DiskInv, KeptInv
  <2>4. ImportInv'
    BY <1>1, <2>2 DEF ImportInv
  <2>5. AccountsInv'
    <3>1. \A u \in User : account'[u] = AfterQueue(u, Puts)'
      BY <1>2, <2>1, <2>2, DataTypes DEF AccountsInv, KeptInv
    <3>2. QED
      BY <3>1 DEF AccountsInv
  <2>6. ExportInv'
    <3>1. ~Idle
      BY DEF Idle, PoolStep, ExecutePut, ExecuteDelete, ExecuteImport, ImportLine
    <3>2. phase \notin {"exported", "sized"}
      BY <2>1, <3>1 DEF KeptInv, ExportInv
    <3>3. QED
      BY <1>2, <3>2 DEF ExportInv
  <2>7. QED
    BY <2>3, <2>4, <2>5, <2>6
<1>4. DiskInv' /\ ImportInv' /\ AccountsInv' /\ ExportInv'
  BY <1>3 DEF DiskInv, ImportInv, AccountsInv, ExportInv
<1>5. OffInv'
  BY <1>2 DEF OffInv
<1>6. QED
  BY <1>1, <1>4, <1>5 DEF KeptInv

\* Nothing happens, or a login.
LEMMA KeptSame ==
  ASSUME TypeInv, KeptInv, [Next]_vars,
         UNCHANGED <<cell, queue, importing, export, size, text, account, created, removed, saved,
                     spoilt>>,
         phase' = phase \/ (phase = "auth" /\ phase' = "main")
  PROVE  KeptInv'
<1>1. Patient' => Patient
  BY PatienceLasts
<1>2. ExportLines' = ExportLines
  BY DEF ExportLines, Lines, RowOrder
<1>3. \A r \in Row, c \in Col : AfterQueue(r, c)' = AfterQueue(r, c)
  BY DEF AfterQueue, AfterImport, Importing, Waiting, get
<1>4. ImportIsFirst' /\ OffInv'
  BY DEF KeptInv, ImportIsFirst, OffInv, NoCells
<1>5. DiskInv'
  BY <1>1 DEF KeptInv, DiskInv
<1>6. ImportInv'
  BY <1>1 DEF KeptInv, ImportInv, Waiting, get
<1>7. AccountsInv'
  BY <1>1, <1>3, DataTypes DEF KeptInv, AccountsInv
<1>8. ExportInv'
  BY <1>1, <1>2 DEF KeptInv, ExportInv, Idle
<1>9. QED
  BY <1>4, <1>5, <1>6, <1>7, <1>8 DEF KeptInv

\* Every step keeps it, one action at a time.
LEMMA KeptStep == TypeInv /\ KeptInv /\ [Next]_vars => KeptInv'
<1> SUFFICES ASSUME TypeInv, KeptInv, [Next]_vars PROVE KeptInv'
  OBVIOUS
<1>1. ASSUME NEW u \in User, NEW p \in Password, Login(u, p) PROVE KeptInv'
  BY <1>1, KeptSame DEF Login, memory, disk, history
<1>2. CASE UNCHANGED vars
  <2>1. /\ UNCHANGED <<cell, queue, importing, export, size, text, account, created, removed,
                       saved, spoilt>>
        /\ phase' = phase \/ (phase = "auth" /\ phase' = "main")
    BY <1>2 DEF vars, memory, disk, history
  <2>2. QED
    BY <2>1, KeptSame
<1>3. CASE PoolStep
  BY <1>3, KeptPool, KeptRevert
<1>4. QED
  BY <1>1, <1>2, <1>3, KeptStart, KeptExit, KeptDump, KeptRevert, KeptSignUp, KeptRemoveUser,
     KeptCreatePost, KeptRemovePost DEF Next

\* It holds at first, with an empty file.
LEMMA KeptInit == Init => KeptInv
<1> SUFFICES ASSUME Init PROVE KeptInv
  OBVIOUS
<1>1. phase = "off" /\ queue = <<>> /\ importing = <<>> /\ text = <<>> /\ size = 0
      /\ account = saved.account /\ created = saved.created /\ removed = saved.removed
      /\ saved.cell = NoCells /\ saved.account = [u \in User |-> NULL]
  BY DEF Init
<1>2. \A r \in Row, c \in Col : Final(text, r, c, NULL) = NULL /\ Newest(saved.cell[r][c]) = NULL
  BY <1>1, FinalEmpty DEF Newest, NoCells
<1>3. DiskInv
  <2>1. \A u \in User : u \in Row /\ Puts \in Col
    BY DataTypes
  <2>2. QED
    BY <1>1, <1>2, <2>1 DEF DiskInv
<1>4. QED
  BY <1>1, <1>3 DEF KeptInv, ImportIsFirst, OffInv, ImportInv, AccountsInv, ExportInv, Waiting

\* TypeInv and KeptInv are inductive together.
LEMMA Kept == Spec => [](TypeInv /\ KeptInv)
<1>1. Init => TypeInv /\ KeptInv
  BY InitTyped, KeptInit
<1>2. TypeInv /\ KeptInv /\ [Next]_vars => (TypeInv /\ KeptInv)'
  BY NextTyped, KeptStep
<1>3. QED
  BY <1>1, <1>2, PTL DEF Spec

\* When nothing is pending, each user logs in with the password last asked for, and a
\* removed one with none: whatever was signed up or removed while the import was waiting, in
\* this process or one that ended with an exit, as long as nobody acted on a backlog and no
\* process was killed in the middle of a dump.
THEOREM AccountsAreKept == Spec => []AccountsHold
<1>1. TypeInv /\ KeptInv => AccountsHold
  <2> SUFFICES ASSUME TypeInv, KeptInv, Running, Idle, Patient, NEW u \in User
               PROVE  get(u, Puts) = account[u]
    BY DEF AccountsHold
  <2>1. account[u] = AfterQueue(u, Puts)
    BY DEF KeptInv, AccountsInv, Running
  <2>2. QED
    BY <2>1, IdleHolds, DataTypes
<1>2. QED
  BY <1>1, Kept, PTL

\* The import gives back every value that was there at the last complete dump, also after a
\* kill in between.
THEOREM ImportRestores == Spec => RestartRestores
<1> DEFINE A == importing # <<>> /\ importing' = <<>> /\ phase' # "off" /\ Patient =>
                  \A r \in Row, c \in Col : get(r, c)' = Newest(saved.cell[r][c])
<1>1. TypeInv /\ KeptInv /\ [Next]_vars => [A]_vars
  <2> SUFFICES ASSUME TypeInv, KeptInv, Next, importing # <<>>, importing' = <<>>,
                      phase' # "off", Patient, NEW r \in Row, NEW c \in Col
               PROVE  get(r, c)' = Newest(saved.cell[r][c])
    BY DEF vars, memory
  <2>1. ImportLine
    BY DEF Next, PoolStep, Start, ExitExport, DumpSize, DumpText, Crash, Login, SignUp, RemoveUser,
       CreatePost, RemovePost, ExecutePut, ExecuteDelete, ExecuteDeleteCrash, ExecuteImport, Revert,
       LoseMemory, memory
  <2>2. PICK q \in Row, d \in Col, x \in Value :
          Head(importing).row = q /\ Head(importing).col = d /\ Head(importing).value = x
    BY <2>1, LineTypes DEF ImportLine
  <2>3. Apply(q, d, x) /\ importing' = Tail(importing)
    BY <2>1, <2>2 DEF ImportLine
  <2>4. get(r, c)' = IF r = q /\ c = d THEN x ELSE get(r, c)
    BY <2>3, ApplyValue
  <2>5. Hit(Head(importing), r, c) <=> r = q /\ c = d
    BY <2>2, DataTypes DEF Hit
  <2>6. PICK v, w : v = get(r, c) /\ w = get(r, c)'
    OBVIOUS
  <2>7. Final(importing, r, c, v)
          = Final(Tail(importing), r, c,
                  IF Hit(Head(importing), r, c) THEN Head(importing).value ELSE v)
    BY FinalTail DEF TypeInv
  <2>8. w = IF Hit(Head(importing), r, c) THEN Head(importing).value ELSE v
    BY <2>2, <2>4, <2>5, <2>6
  <2>9. Final(Tail(importing), r, c, w) = w
    BY <2>3, FinalEmpty
  <2>10. Final(importing, r, c, v) = Newest(saved.cell[r][c])
    BY <2>6 DEF KeptInv, ImportInv
  <2>11. QED
    BY <2>6, <2>7, <2>8, <2>9, <2>10
<1>2. QED
  BY <1>1, Kept, PTL DEF Spec, RestartRestores

-----------------------------------------------------------------------------
(* The export has one line for each put.                                   *)

\* Nothing is counted when no element is on a post.
LEMMA CountNone == ASSUME NEW s, \A i \in DOMAIN s : s[i].row \notin Id PROVE Count(s) = 0
<1>1. OnPosts(s) = {}
  BY DEF OnPosts
<1>2. QED
  BY <1>1, FS_EmptySet DEF Count

\* The head counts one if it is on a post.
LEMMA CountTail ==
  ASSUME NEW S, NEW s \in Seq(S), s # <<>>
  PROVE  Count(s) = (IF Head(s).row \in Id THEN 1 ELSE 0) + Count(Tail(s))
<1>1. Head(s) \in S /\ Tail(s) \in Seq(S)
  BY HeadTailProperties
<1>2. PICK h \in S, u \in Seq(S) : h = Head(s) /\ u = Tail(s)
  BY <1>1
<1>3. PICK e \in Seq(S) : e = <<>>
  BY EmptySeq
<1>4. PICK w \in Seq(S) : w = Append(e, h)
  BY AppendProperties
<1>5. Count(w) = IF h.row \in Id THEN 1 ELSE 0
  <2>1. Count(Append(e, h)) = IF h.row \in Id THEN Count(e) + 1 ELSE Count(e)
    BY CountAppend
  <2>2. QED
    BY <1>3, <1>4, <2>1, CountEmpty
<1>6. s = w \o u
  <2>1. w = <<h>>
    BY <1>3, <1>4
  <2>2. QED
    BY <1>2, <2>1, HeadThenTail
<1>7. Count(w \o u) = Count(w) + Count(u)
  BY CountConcat
<1>8. QED
  BY <1>2, <1>5, <1>6, <1>7

\* Two sequences of parts that differ in part k at most.
DifferAt(s, t, k) == Len(t) = Len(s) /\ \A j \in DOMAIN s : j # k => t[j] = s[j]

\* A part that changes changes the count of the whole by as much.
LEMMA CountOfPart ==
  ASSUME NEW S, NEW s \in Seq(Seq(S)), NEW t \in Seq(Seq(S)), NEW k \in DOMAIN s, DifferAt(s, t, k)
  PROVE  Count(FlattenSeq(t)) + Count(s[k]) = Count(FlattenSeq(s)) + Count(t[k])
<1> DEFINE Shift(r, q, l) ==
             Count(FlattenSeq(q)) + Count(r[l]) = Count(FlattenSeq(r)) + Count(q[l])
           T == {r \in Seq(Seq(S)) : \A q \in Seq(Seq(S)), l \in DOMAIN r :
                   DifferAt(r, q, l) => Shift(r, q, l)}
<1>1. <<>> \in T
  BY EmptySeq
<1>2. ASSUME NEW r \in Seq(Seq(S)), NEW x \in Seq(S), r \in T PROVE Append(r, x) \in T
  <2> DEFINE a == Append(r, x)
             n == Len(r)
  <2>1. /\ a \in Seq(Seq(S)) /\ n \in Nat /\ DOMAIN r = 1 .. n /\ DOMAIN a = 1 .. n + 1
        /\ Len(a) = n + 1
        /\ \A i \in 1 .. n : a[i] = r[i]
        /\ a[n + 1] = x
    BY AppendProperties, LenProperties
  <2>2. FlattenSeq(a) = FlattenSeq(r) \o x
    BY FlattenAppend
  <2> HIDE DEF a, n
  <2> SUFFICES ASSUME NEW q \in Seq(Seq(S)), NEW l \in DOMAIN a, DifferAt(a, q, l)
               PROVE  Shift(a, q, l)
    BY <2>1 DEF a
  <2>3. Len(q) = n + 1 /\ \A j \in 1 .. n + 1 : j # l => q[j] = a[j]
    BY <2>1 DEF DifferAt
  <2>4. PICK p \in Seq(Seq(S)), y \in Seq(S) : q = Append(p, y)
    <3>1. q # <<>>
      BY <2>1, <2>3
    <3>2. QED
      BY <3>1, SequenceEmptyOrAppend
  <2>5. Len(p) = n /\ DOMAIN p = 1 .. n /\ q[n + 1] = y /\ \A i \in 1 .. n : q[i] = p[i]
    <3>1. Len(q) = Len(p) + 1 /\ Len(p) \in Nat /\ DOMAIN p = 1 .. Len(p)
      BY <2>4, AppendProperties, LenProperties
    <3>2. Len(p) = n
      <4>1. n \in Nat /\ Len(q) = n + 1
        BY <2>1, <2>3
      <4>2. Len(p) + 1 = n + 1
        BY <3>1, <4>1
      <4>3. PICK m \in Nat, j \in Nat : m = n /\ j = Len(p)
        BY <3>1, <4>1
      <4>4. j + 1 = m + 1
        BY <4>2, <4>3
      <4>5. j = m
        BY <4>4
      <4>6. QED
        BY <4>3, <4>5
    <3>3. QED
      BY <2>4, <3>1, <3>2, AppendProperties
  <2>6. FlattenSeq(q) = FlattenSeq(p) \o y
    BY <2>4, FlattenAppend
  <2>7. /\ FlattenSeq(r) \in Seq(S) /\ FlattenSeq(p) \in Seq(S)
        /\ Count(FlattenSeq(a)) = Count(FlattenSeq(r)) + Count(x)
        /\ Count(FlattenSeq(q)) = Count(FlattenSeq(p)) + Count(y)
    <3>1. PICK f \in Seq(S), g \in Seq(S) : f = FlattenSeq(r) /\ g = FlattenSeq(p)
      BY FlattenType
    <3>2. Count(f \o x) = Count(f) + Count(x) /\ Count(g \o y) = Count(g) + Count(y)
      BY CountConcat
    <3>3. QED
      BY <2>2, <2>6, <3>1, <3>2
  <2>8. PICK cr, cp, cx, cy \in Nat : /\ cr = Count(FlattenSeq(r)) /\ cp = Count(FlattenSeq(p))
                                      /\ cx = Count(x) /\ cy = Count(y)
    BY <2>7, OnPostsFinite
  <2>9. CASE l = n + 1
    <3>1. \A j \in 1 .. n : p[j] = r[j]
      <4>1. \A j \in 1 .. n : j \in 1 .. n + 1 /\ j # n + 1
        BY <2>1
      <4>2. QED
        BY <2>1, <2>3, <2>5, <2>9, <4>1
    <3>2. p = r
      BY <2>1, <2>5, <3>1, SeqEqual
    <3>3. a[l] = x /\ q[l] = y
      BY <2>1, <2>5, <2>9
    <3>4. (cp + cy) + cx = (cr + cx) + cy
      BY <2>8, <3>2
    <3>5. QED
      BY <2>7, <2>8, <3>3, <3>4
  <2>10. CASE l # n + 1
    <3>1. l \in DOMAIN r /\ a[l] = r[l] /\ q[l] = p[l] /\ n + 1 \in 1 .. n + 1
      <4>1. n \in Nat /\ l \in 1 .. n + 1
        BY <2>1
      <4>2. l \in 1 .. n /\ n + 1 \in 1 .. n + 1
        BY <2>10, <4>1
      <4>3. QED
        BY <2>1, <2>5, <4>2
    <3>2. y = x
      BY <2>1, <2>3, <2>5, <2>10, <3>1
    <3>3. DifferAt(r, p, l)
      <4>1. \A j \in 1 .. n : j \in 1 .. n + 1
        BY <2>1
      <4>2. QED
        BY <2>1, <2>3, <2>5, <4>1 DEF DifferAt
    <3>4. Shift(r, p, l)
      BY <1>2, <3>1, <3>3
    <3>5. r[l] \in Seq(S) /\ p[l] \in Seq(S)
      BY <2>1, <2>5, <3>1, ElementOfSeq
    <3>6. PICK d, e \in Nat : d = Count(r[l]) /\ e = Count(p[l])
      BY <3>5, OnPostsFinite
    <3>7. cp + d = cr + e
      BY <2>8, <3>4, <3>6
    <3>8. (cp + cy) + d = (cr + cx) + e
      <4>1. cx = cy
        BY <2>8, <3>2
      <4>2. QED
        BY <3>7, <4>1
    <3>9. QED
      BY <2>7, <2>8, <3>1, <3>6, <3>8
  <2>11. QED
    BY <2>9, <2>10
<1>3. Seq(Seq(S)) \subseteq T
  <2> HIDE DEF T
  <2>1. QED
    BY <1>1, <1>2, SeqSetInduction
<1>4. s \in T
  BY <1>3
<1>5. QED
  BY <1>4

\* The lines on posts among those that the export writes for the cells t.
ExportCount(t) == Count(FlattenSeq(ExportParts(t)))

\* A row that changes changes the count of the export by as much.
LEMMA ExportCountRow ==
  ASSUME NEW t \in Cells, NEW u \in Cells, NEW r \in Row, \A q \in Row \ {r} : u[q] = t[q]
  PROVE  ExportCount(u) + Count(RowLines(t, r)) = ExportCount(t) + Count(RowLines(u, r))
<1>1. PICK k \in DOMAIN RowOrder : RowOrder[k] = r
  BY RowOrderOnce
<1>2. PICK p \in Seq(Seq(Line)), q \in Seq(Seq(Line)) : p = ExportParts(t) /\ q = ExportParts(u)
  BY ExportType
<1>3. DOMAIN p = DOMAIN RowOrder /\ DOMAIN q = DOMAIN RowOrder
  BY <1>2, ExportType
<1>4. \A j \in DOMAIN p : p[j] = RowLines(t, RowOrder[j]) /\ q[j] = RowLines(u, RowOrder[j])
  BY <1>2, <1>3 DEF ExportParts
<1>5. ASSUME NEW j \in DOMAIN p, j # k PROVE q[j] = p[j]
  <2>1. PICK x \in Row : x = RowOrder[j]
    BY <1>3, RowOrderOnce, LenProperties
  <2>2. x # r
    BY <1>1, <1>3, <1>5, <2>1, RowOrderOnce
  <2>3. RowLines(u, x) = RowLines(t, x)
    BY <2>2 DEF RowLines, RowParts, LinesOf
  <2>4. QED
    BY <1>4, <2>1, <2>3
<1>6. Len(q) = Len(p)
  BY <1>3, LenProperties
<1>7. DifferAt(p, q, k)
  BY <1>5, <1>6 DEF DifferAt
<1>8. k \in DOMAIN p
  BY <1>3
<1>9. Count(FlattenSeq(q)) + Count(p[k]) = Count(FlattenSeq(p)) + Count(q[k])
  BY <1>7, <1>8, CountOfPart
<1>10. QED
  BY <1>1, <1>2, <1>4, <1>8, <1>9 DEF ExportCount

\* And a cell that of its row.
LEMMA RowCountCell ==
  ASSUME NEW t \in Cells, NEW u \in Cells, NEW r \in Row, NEW c \in Col,
         \A d \in Col \ {c} : u[r][d] = t[r][d]
  PROVE  Count(RowLines(u, r)) + Count(LinesOf(t, r, c))
           = Count(RowLines(t, r)) + Count(LinesOf(u, r, c))
<1>1. PICK p \in Seq(Seq(Line)), q \in Seq(Seq(Line)) : p = RowParts(t, r) /\ q = RowParts(u, r)
  BY RowLinesType
<1>2. DOMAIN p = Col /\ DOMAIN q = Col
  BY <1>1, RowLinesType
<1>3. \A d \in Col : p[d] = LinesOf(t, r, d) /\ q[d] = LinesOf(u, r, d)
  BY <1>1 DEF RowParts
<1>4. \A d \in Col : d # c => q[d] = p[d]
  BY <1>3 DEF LinesOf
<1>5. Len(q) = Len(p)
  BY <1>2, LenProperties
<1>6. DifferAt(p, q, c) /\ c \in DOMAIN p
  BY <1>2, <1>4, <1>5 DEF DifferAt
<1>7. Count(FlattenSeq(q)) + Count(p[c]) = Count(FlattenSeq(p)) + Count(q[c])
  BY <1>6, CountOfPart
<1>8. QED
  BY <1>1, <1>3, <1>7 DEF RowLines

\* One version more in a cell is one line more, on a post if the row is one.
LEMMA ExportCountApply ==
  ASSUME NEW t \in Cells, NEW u \in Cells, NEW r \in Row, NEW c \in Col, NEW v \in Value,
         \A q \in Row \ {r} : u[q] = t[q], \A d \in Col \ {c} : u[r][d] = t[r][d],
         u[r][c] = Append(t[r][c], v)
  PROVE  ExportCount(u) = (IF r \in Id THEN 1 ELSE 0) + ExportCount(t)
<1> DEFINE l == [row |-> r, col |-> c, value |-> v]
<1>1. PICK f \in Seq(Line), g \in Seq(Line) : f = LinesOf(t, r, c) /\ g = LinesOf(u, r, c)
  BY LinesType
<1>2. g = Append(f, l)
  <2>1. PICK s \in Seq(Value) : s = t[r][c]
    BY DEF Cells
  <2>2. /\ Len(s) \in Nat /\ DOMAIN u[r][c] = 1 .. Len(s) + 1 /\ DOMAIN s = 1 .. Len(s)
        /\ \A i \in 1 .. Len(s) : u[r][c][i] = s[i]
        /\ u[r][c][Len(s) + 1] = v
    BY <2>1, AppendProperties, LenProperties
  <2>3. f = [i \in 1 .. Len(s) |-> [row |-> r, col |-> c, value |-> s[i]]]
    BY <1>1, <2>1, <2>2 DEF LinesOf
  <2>4. g = [i \in 1 .. Len(s) + 1 |-> [row |-> r, col |-> c, value |-> u[r][c][i]]]
    BY <1>1, <2>2 DEF LinesOf
  <2>5. Len(f) = Len(s) /\ Len(g) = Len(s) + 1
    BY <2>2, <2>3, <2>4
  <2>6. \A i \in 1 .. Len(s) : i \in 1 .. Len(s) + 1
    BY <2>2
  <2>7. /\ \A i \in 1 .. Len(s) : g[i] = f[i]
        /\ g[Len(s) + 1] = l
    BY <2>2, <2>3, <2>4, <2>6
  <2>8. l \in Line
    BY DEF Line
  <2> HIDE DEF l
  <2>9. PICK h \in Seq(Line) : h = Append(f, l)
    BY <2>8, AppendProperties
  <2>10. Len(h) = Len(s) + 1 /\ h[Len(s) + 1] = l /\ \A i \in 1 .. Len(s) : h[i] = f[i]
    BY <2>5, <2>8, <2>9, AppendProperties
  <2>11. \A i \in 1 .. Len(s) + 1 : g[i] = h[i]
    <3>1. \A i \in 1 .. Len(s) + 1 : i \in 1 .. Len(s) \/ i = Len(s) + 1
      BY <2>2
    <3>2. QED
      BY <2>7, <2>10, <3>1
  <2>12. g = h
    BY <2>5, <2>10, <2>11, SeqEqual
  <2>13. QED
    BY <2>9, <2>12
<1>3. Count(g) = (IF r \in Id THEN 1 ELSE 0) + Count(f)
  <2>1. l \in Line /\ l.row = r
    BY DEF Line
  <2>2. Count(f) \in Nat
    BY OnPostsFinite
  <2> HIDE DEF l
  <2>3. Count(Append(f, l)) = IF l.row \in Id THEN Count(f) + 1 ELSE Count(f)
    BY <2>1, CountAppend
  <2>4. QED
    BY <1>2, <2>1, <2>2, <2>3
<1>4. PICK a, b, e, h, x, y \in Nat :
        /\ a = ExportCount(t) /\ b = ExportCount(u)
        /\ e = Count(RowLines(t, r)) /\ h = Count(RowLines(u, r))
        /\ x = Count(f) /\ y = Count(g)
  <2>1. /\ FlattenSeq(ExportParts(t)) \in Seq(Line) /\ FlattenSeq(ExportParts(u)) \in Seq(Line)
        /\ RowLines(t, r) \in Seq(Line) /\ RowLines(u, r) \in Seq(Line)
    BY ExportType, RowLinesType
  <2>2. \A s \in Seq(Line) : Count(s) \in Nat
    BY OnPostsFinite
  <2>3. QED
    BY <2>1, <2>2 DEF ExportCount
<1>5. b + e = a + h
  BY <1>4, ExportCountRow
<1>6. h + x = e + y
  BY <1>1, <1>4, RowCountCell
<1>7. y = (IF r \in Id THEN 1 ELSE 0) + x
  BY <1>3, <1>4
<1>8. b = (IF r \in Id THEN 1 ELSE 0) + a
  BY <1>5, <1>6, <1>7
<1>9. QED
  BY <1>4, <1>8

\* Nor does it matter to the lines on posts what becomes of a user.
LEMMA ExportCountUser ==
  ASSUME NEW t \in Cells, NEW u \in Cells, NEW r \in User, \A q \in Row \ {r} : u[q] = t[q]
  PROVE  ExportCount(u) = ExportCount(t)
<1>1. r \in Row /\ r \notin Id
  BY DataTypes
<1>2. Count(RowLines(t, r)) = 0 /\ Count(RowLines(u, r)) = 0
  BY <1>1, RowLinesRow, CountNone
<1>3. ExportCount(u) + Count(RowLines(t, r)) = ExportCount(t) + Count(RowLines(u, r))
  BY <1>1, ExportCountRow
<1>4. ExportCount(t) \in Nat /\ ExportCount(u) \in Nat
  <2>1. /\ FlattenSeq(ExportParts(t)) \in Seq(Line) /\ FlattenSeq(ExportParts(u)) \in Seq(Line)
    BY ExportType
  <2>2. \A s \in Seq(Line) : Count(s) \in Nat
    BY OnPostsFinite
  <2>3. QED
    BY <2>1, <2>2 DEF ExportCount
<1>5. QED
  BY <1>2, <1>3, <1>4

\* The export of empty tables is empty.
LEMMA ExportCountEmpty == ExportCount(NoCells) = 0
<1>1. PICK t \in Cells : t = NoCells
  BY NoCellsType DEF Cells
<1>2. ASSUME NEW r \in Row PROVE \A i \in DOMAIN RowLines(t, r) : RowLines(t, r)[i] \in {}
  <2>1. \A c \in Col : LinesOf(t, r, c) = <<>>
    <3>1. \A c \in Col : t[r][c] = <<>>
      BY <1>1 DEF NoCells
    <3>2. \A c \in Col : Len(LinesOf(t, r, c)) = 0 /\ LinesOf(t, r, c) \in Seq(Line)
      BY <3>1, LinesType
    <3>3. QED
      BY <3>2, EmptySeq
  <2>2. \A c \in DOMAIN RowParts(t, r) : \A i \in DOMAIN RowParts(t, r)[c] :
          RowParts(t, r)[c][i] \in {}
    BY <2>1 DEF RowParts
  <2>3. PICK p \in Seq(Seq(Line)) : p = RowParts(t, r)
    BY RowLinesType
  <2>4. QED
    BY <2>2, <2>3, FlattenElements DEF RowLines
<1>3. PICK p \in Seq(Seq(Line)) : p = ExportParts(t)
  BY ExportType
<1>4. \A k \in DOMAIN p : \A i \in DOMAIN p[k] : p[k][i] \in {}
  <2>1. \A k \in DOMAIN p : k \in DOMAIN RowOrder /\ p[k] = RowLines(t, RowOrder[k])
    BY <1>3, ExportType DEF ExportParts
  <2>2. \A k \in DOMAIN RowOrder : RowOrder[k] \in Row
    BY RowOrderOnce, LenProperties
  <2>3. QED
    BY <1>2, <2>1, <2>2
<1>5. \A i \in DOMAIN FlattenSeq(p) : FlattenSeq(p)[i] \in {}
  BY <1>4, FlattenElements
<1>6. QED
  BY <1>1, <1>3, <1>5, CountNone DEF ExportCount

-----------------------------------------------------------------------------
(* Posts.                                                                  *)

\* What row_count will be when the queue has been executed: the lines of the import and the
\* puts in the queue are yet to be counted.
WillCount ==
  row_count + Count(queue) + Count(importing) + IF Waiting THEN Count(text) ELSE 0

\* A delete of a post that is queued is one that the history has.
RemovedInv ==
  /\ saved.removed \subseteq removed
  /\ \A i \in DOMAIN queue :
       queue[i].op = "delete" /\ queue[i].row \in Id => queue[i].row \in removed

\* Until a post is removed row_count is the number of lines that an export would write: this
\* is what makes it right to count the lines imported, and not the posts.
CountInv == removed = {} => row_count = Count(ExportLines)

\* The posts are in the cells of the last complete dump, and it has lines enough.
SavedPostsInv ==
  Patient /\ saved.removed = {} =>
    \A i \in DOMAIN saved.created :
      /\ Newest(saved.cell[saved.created[i].id][1]) = saved.created[i].file
      /\ saved.created[i].id <= Count(text)

\* What is queued will bring about the posts.
PostsInv ==
  Patient /\ phase # "off" /\ removed = {} =>
    \A i \in DOMAIN created :
      AfterQueue(created[i].id, 1) = created[i].file /\ created[i].id <= WillCount

ListedInv == RemovedInv /\ CountInv /\ SavedPostsInv /\ PostsInv

\* A delete of a post is queued by the removal of the post only.
LEMMA RemovedStep ==
  ASSUME TypeInv, RemovedInv, [Next]_vars
  PROVE  RemovedInv'
<1> DEFINE Known(q, d) ==
             \A i \in DOMAIN q : q[i].op = "delete" /\ q[i].row \in Id => q[i].row \in d
<1>1. saved.removed \subseteq removed /\ Known(queue, removed) /\ queue \in Seq(Query)
  BY DEF RemovedInv, TypeInv
<1>2. ASSUME NEW w \in Seq(Query), queue' = queue \o w, removed \subseteq removed', saved' = saved,
             Known(w, removed')
      PROVE  RemovedInv'
  <2>1. ASSUME NEW i \in DOMAIN queue' PROVE \/ i \in DOMAIN queue /\ queue'[i] = queue[i]
                                             \/ \E j \in DOMAIN w : queue'[i] = w[j]
    <3>1. /\ Len(queue) \in Nat /\ Len(w) \in Nat /\ DOMAIN queue = 1 .. Len(queue)
          /\ DOMAIN w = 1 .. Len(w) /\ queue' \in Seq(Query)
          /\ Len(queue') = Len(queue) + Len(w)
          /\ \A k \in 1 .. Len(queue) + Len(w) :
               queue'[k] = IF k <= Len(queue) THEN queue[k] ELSE w[k - Len(queue)]
      BY <1>1, <1>2, ConcatShape
    <3>2. i \in 1 .. Len(queue) + Len(w)
      BY <3>1, LenProperties
    <3>3. CASE i <= Len(queue)
      BY <3>1, <3>2, <3>3
    <3>4. CASE ~(i <= Len(queue))
      <4>1. i - Len(queue) \in 1 .. Len(w)
        BY <3>1, <3>2, <3>4
      <4>2. QED
        BY <3>1, <3>2, <3>4, <4>1
    <3>5. QED
      BY <3>3, <3>4
  <2>2. Known(queue', removed')
    BY <1>1, <1>2, <2>1
  <2>3. QED
    BY <1>1, <1>2, <2>2 DEF RemovedInv
<1>3. ASSUME removed' = saved'.removed, queue' = <<>> PROVE RemovedInv'
  BY <1>3 DEF RemovedInv
<1>4. ASSUME UNCHANGED <<removed, saved>>,
             queue' = queue \/ (queue # <<>> /\ queue' = Tail(queue)) \/ queue' = <<Import>>
      PROVE  RemovedInv'
  <2>1. Known(queue', removed)
    <3>1. CASE queue # <<>> /\ queue' = Tail(queue)
      <4>1. \A i \in DOMAIN queue' : i + 1 \in DOMAIN queue /\ queue'[i] = queue[i + 1]
        BY <1>1, <3>1, TailIndices
      <4>2. QED
        BY <1>1, <4>1
    <3>2. CASE queue' = <<Import>>
      BY <3>2 DEF Import
    <3>3. QED
      BY <1>1, <1>4, <3>1, <3>2
  <2>2. QED
    BY <1>1, <1>4, <2>1 DEF RemovedInv
<1>5. ASSUME NEW u \in User, NEW p \in Password, SignUp(u, p) PROVE RemovedInv'
  <2>1. PICK w \in Seq(Query) : w = UserPuts(u, p) /\ \A i \in DOMAIN w : w[i].op = "put"
    BY UserPutsType
  <2>2. queue' = queue \o w /\ removed' = removed /\ saved' = saved
    BY <1>5, <2>1 DEF SignUp
  <2>3. QED
    BY <1>2, <2>1, <2>2
<1>6. ASSUME NEW r \in Row, queue' = Append(queue, Del(r)), saved' = saved,
             removed \subseteq removed', r \in Id => r \in removed'
      PROVE  RemovedInv'
  <2>1. PICK w \in Seq(Query) : w = <<Del(r)>>
    BY DelType
  <2>2. queue' = queue \o w
    BY <1>1, <1>6, <2>1, QueryTypes, AppendIsConcat
  <2>3. Known(w, removed')
    BY <1>6, <2>1 DEF Del
  <2>4. QED
    BY <1>2, <1>6, <2>2, <2>3
<1>7. CASE RemoveUser
  <2>1. /\ user \in Row /\ user \notin Id /\ queue' = Append(queue, Del(user)) /\ saved' = saved
        /\ removed' = removed
    BY <1>7, DataTypes DEF RemoveUser, TypeInv
  <2>2. PICK r \in Row : r = user
    BY <2>1
  <2>3. QED
    BY <1>6, <2>1, <2>2
<1>8. ASSUME NEW f \in File, CreatePost(f) PROVE RemovedInv'
  <2>1. PICK id \in Id : id = get_new_post_id
    BY <1>8 DEF CreatePost, TypeInv, get_new_post_id, Id
  <2>2. PICK w \in Seq(Query) : w = PostPuts(id, f) /\ \A i \in DOMAIN w : w[i].op = "put"
    BY PostPutsType
  <2>3. queue' = queue \o w /\ removed' = removed /\ saved' = saved
    BY <1>8, <2>1, <2>2 DEF CreatePost, PostPuts
  <2>4. QED
    BY <1>2, <2>2, <2>3
<1>9. ASSUME NEW id \in Id, RemovePost(id) PROVE RemovedInv'
  BY <1>6, <1>9, DataTypes DEF RemovePost
<1>10. CASE DumpText
  BY <1>3, <1>10 DEF DumpText, LoseMemory, history
<1>11. CASE Crash \/ ExecuteDeleteCrash
  BY <1>3, <1>11 DEF Crash, ExecuteDeleteCrash, Revert, LoseMemory
<1>12. CASE Start \/ ExitExport \/ DumpSize
  BY <1>4, <1>12 DEF Start, ExitExport, DumpSize, memory, history
<1>13. CASE ExecutePut \/ ExecuteDelete \/ ExecuteImport \/ ImportLine
  BY <1>4, <1>13 DEF ExecutePut, ExecuteDelete, ExecuteImport, ImportLine, history
<1>14. ASSUME NEW u \in User, NEW p \in Password, Login(u, p) PROVE RemovedInv'
  BY <1>4, <1>14 DEF Login, memory, history
<1>15. CASE UNCHANGED vars
  BY <1>4, <1>15 DEF vars, memory, history
<1>16. QED
  BY <1>5, <1>7, <1>8, <1>9, <1>10, <1>11, <1>12, <1>13, <1>14, <1>15 DEF Next, PoolStep

\* A put adds one to row_count and one line to the export; until a post is removed nothing else
\* touches either, but the end of the process.
LEMMA CountStep ==
  ASSUME TypeInv, TypeInv', RemovedInv, RemovedInv', CountInv, [Next]_vars
  PROVE  CountInv'
<1>1. /\ cell \in Cells /\ cell' \in Cells /\ row_count \in Nat
      /\ ExportLines = FlattenSeq(ExportParts(cell))
      /\ ExportLines' = FlattenSeq(ExportParts(cell'))
  BY DEF TypeInv, Cells, ExportLines, ExportParts, RowLines, RowParts, Lines, LinesOf, RowOrder
<1>2. PICK t \in Cells, u \in Cells : t = cell /\ u = cell'
  BY <1>1
<1>3. /\ removed = {} => row_count = ExportCount(t)
      /\ (removed' = {} => row_count' = ExportCount(u)) => CountInv'
  BY <1>1, <1>2 DEF CountInv, ExportCount
<1>4. ASSUME UNCHANGED <<cell, row_count>>, removed \subseteq removed' PROVE CountInv'
  <2>1. removed' = {} => removed = {}
    BY <1>4
  <2>2. QED
    BY <1>2, <1>3, <1>4, <2>1
<1>5. ASSUME LoseMemory PROVE CountInv'
  BY <1>2, <1>3, <1>5, ExportCountEmpty DEF LoseMemory
<1>6. ASSUME NEW r \in Row, NEW c \in Col, NEW v \in Value, Apply(r, c, v), removed' = removed
      PROVE  CountInv'
  <2>1. /\ \A q \in Row \ {r} : u[q] = t[q]
        /\ \A d \in Col \ {c} : u[r][d] = t[r][d]
        /\ u[r][c] = Append(t[r][c], v)
    <3>1. /\ \A q \in Row, d \in Col :
               cell'[q][d] = IF q = r /\ d = c THEN Append(cell[r][c], v) ELSE cell[q][d]
          /\ \A q \in Row \ {r} : cell'[q] = cell[q]
      BY <1>6, ApplyEffect
    <3>2. QED
      BY <1>2, <3>1
  <2>2. ExportCount(u) = (IF r \in Id THEN 1 ELSE 0) + ExportCount(t)
    BY <2>1, ExportCountApply
  <2>3. row_count' = IF r \in Id THEN row_count + 1 ELSE row_count
    BY <1>6 DEF Apply
  <2>4. removed' = {} => row_count' = ExportCount(u)
    BY <1>1, <1>3, <1>6, <2>2, <2>3
  <2>5. QED
    BY <1>3, <2>4
<1>7. CASE ExecutePut
  <2>1. PICK r \in Row, c \in Col, v \in Value :
          Head(queue).row = r /\ Head(queue).col = c /\ Head(queue).value = v
    BY <1>7, HeadTypes DEF ExecutePut
  <2>2. Apply(r, c, v) /\ removed' = removed
    BY <1>7, <2>1 DEF ExecutePut, history
  <2>3. QED
    BY <1>6, <2>2
<1>8. CASE ImportLine
  <2>1. PICK r \in Row, c \in Col, v \in Value :
          Head(importing).row = r /\ Head(importing).col = c /\ Head(importing).value = v
    BY <1>8, LineTypes DEF ImportLine
  <2>2. Apply(r, c, v) /\ removed' = removed
    BY <1>8, <2>1 DEF ImportLine, history
  <2>3. QED
    BY <1>6, <2>2
<1>9. CASE ExecuteDelete
  <2>1. PICK r \in Row : Head(queue) = Del(r) /\ Head(queue).row = r
    BY <1>9, HeadTypes DEF ExecuteDelete
  <2>2. cell' = [cell EXCEPT ![r] = NoCells[r]] /\ row_count' = row_count /\ removed' = removed
    BY <1>9, <2>1 DEF ExecuteDelete, history
  <2>3. CASE r \in User
    <3>1. \A q \in Row \ {r} : u[q] = t[q]
      BY <1>2, <2>2, ClearEffect
    <3>2. ExportCount(u) = ExportCount(t)
      BY <2>3, <3>1, ExportCountUser
    <3>3. QED
      BY <1>3, <2>2, <3>2
  <2>4. CASE r \in Id
    <3>1. 1 \in DOMAIN queue /\ queue[1] = Head(queue)
      BY <1>9, TailIndices DEF ExecuteDelete, TypeInv
    <3>2. queue[1].op = "delete" /\ queue[1].row = r
      BY <2>1, <3>1 DEF Del
    <3>3. r \in removed
      BY <2>4, <3>1, <3>2 DEF RemovedInv
    <3>4. QED
      BY <1>3, <2>2, <3>3
  <2>5. QED
    BY <2>3, <2>4, DataTypes
<1>10. CASE Start \/ ExitExport \/ DumpSize \/ RemoveUser \/ ExecuteImport
  BY <1>4, <1>10 DEF Start, ExitExport, DumpSize, RemoveUser, ExecuteImport, memory, history
<1>11. ASSUME NEW who \in User, NEW p \in Password, Login(who, p) \/ SignUp(who, p) PROVE CountInv'
  BY <1>4, <1>11 DEF Login, SignUp, memory, history
<1>12. ASSUME NEW f \in File, CreatePost(f) PROVE CountInv'
  BY <1>4, <1>12 DEF CreatePost
<1>13. ASSUME NEW id \in Id, RemovePost(id) PROVE CountInv'
  BY <1>4, <1>13 DEF RemovePost
<1>14. CASE DumpText \/ Crash \/ ExecuteDeleteCrash
  BY <1>5, <1>14 DEF DumpText, Crash, ExecuteDeleteCrash, Revert
<1>15. CASE UNCHANGED vars
  BY <1>4, <1>15 DEF vars, memory, history
<1>16. QED
  BY <1>7, <1>8, <1>9, <1>10, <1>11, <1>12, <1>13, <1>14, <1>15 DEF Next, PoolStep

\* The counts are numbers.
LEMMA CountTypes ==
  ASSUME TypeInv
  PROVE  /\ row_count \in Nat /\ Count(queue) \in Nat /\ Count(importing) \in Nat
         /\ Count(text) \in Nat /\ WillCount \in Nat
<1>1. queue \in Seq(Query) /\ importing \in Seq(Line) /\ text \in Seq(Line) /\ row_count \in Nat
  BY DEF TypeInv
<1>2. Count(queue) \in Nat /\ Count(importing) \in Nat /\ Count(text) \in Nat
  BY <1>1, OnPostsFinite
<1>3. QED
  BY <1>1, <1>2 DEF WillCount

\* A step of the pool takes nothing from what will be counted.
LEMMA PoolCount ==
  ASSUME TypeInv, TypeInv', ImportIsFirst, RemovedInv, removed = {}, Waiting => export = text,
         PoolStep, ~ExecuteDeleteCrash
  PROVE  WillCount <= WillCount'
<1>1. ~Waiting' /\ WillCount' = row_count' + Count(queue') + Count(importing')
  <2>1. /\ row_count' \in Nat /\ queue' \in Seq(Query) /\ importing' \in Seq(Line)
    BY DEF TypeInv
  <2>2. Count(queue') \in Nat /\ Count(importing') \in Nat
    BY <2>1, OnPostsFinite
  <2>3. QED
    BY <2>1, <2>2, PoolFirst DEF WillCount
<1>2. /\ row_count \in Nat /\ Count(queue) \in Nat /\ Count(importing) \in Nat
      /\ Count(text) \in Nat
  BY CountTypes
<1>3. ASSUME queue # <<>>
      PROVE  /\ Count(Tail(queue)) \in Nat
             /\ Count(queue) = (IF Head(queue).row \in Id THEN 1 ELSE 0) + Count(Tail(queue))
  <2>1. queue \in Seq(Query) /\ Tail(queue) \in Seq(Query)
    BY <1>3, HeadTypes DEF TypeInv
  <2>2. QED
    BY <1>3, <2>1, CountTail, OnPostsFinite
<1>4. CASE ExecutePut
  <2>1. /\ queue # <<>> /\ Head(queue).op = "put" /\ queue' = Tail(queue) /\ importing' = importing
        /\ row_count' = IF Head(queue).row \in Id THEN row_count + 1 ELSE row_count
    BY <1>4 DEF ExecutePut, Apply
  <2>2. ~Waiting
    BY <2>1 DEF Waiting, Import
  <2>3. WillCount = row_count + Count(queue) + Count(importing)
    BY <1>2, <2>2 DEF WillCount
  <2>4. QED
    BY <1>1, <1>2, <1>3, <2>1, <2>3
<1>5. CASE ExecuteDelete
  <2>1. /\ queue # <<>> /\ Head(queue).op = "delete" /\ queue' = Tail(queue)
        /\ importing' = importing /\ row_count' = row_count
    BY <1>5 DEF ExecuteDelete
  <2>2. ~Waiting
    BY <2>1 DEF Waiting, Import
  <2>3. WillCount = row_count + Count(queue) + Count(importing)
    BY <1>2, <2>2 DEF WillCount
  <2>4. Head(queue).row \notin Id
    <3>1. 1 \in DOMAIN queue /\ queue[1] = Head(queue)
      BY <2>1, TailIndices DEF TypeInv
    <3>2. QED
      BY <2>1, <3>1 DEF RemovedInv
  <2>5. Count(queue) = Count(Tail(queue))
    BY <1>3, <2>1, <2>4
  <2>6. QED
    BY <1>1, <1>2, <2>1, <2>3, <2>5
<1>6. CASE ExecuteImport
  <2>1. /\ queue # <<>> /\ Head(queue) = Import /\ importing = <<>> /\ queue' = Tail(queue)
        /\ row_count' = row_count
        /\ importing' \in {export}
                            \cup (IF export = <<>> THEN {} ELSE {Append(export, Last(export))})
    BY <1>6, HeadTypes DEF ExecuteImport
  <2>2. Waiting /\ export = text
    BY <2>1 DEF Waiting
  <2>3. WillCount = row_count + Count(queue) + Count(text)
    BY <1>2, <2>1, <2>2, CountEmpty DEF WillCount
  <2>4. Count(queue) = Count(Tail(queue))
    <3>1. Head(queue).row \notin Id
      BY <2>1, DataTypes DEF Import
    <3>2. QED
      BY <1>3, <2>1, <3>1
  <2>5. Count(importing') \in Nat /\ Count(text) <= Count(importing')
    <3>1. CASE importing' = export
      BY <1>2, <2>2, <3>1
    <3>2. CASE export # <<>> /\ importing' = Append(export, Last(export))
      <4>1. export \in Seq(Line) /\ Last(export) \in Line
        <5>1. export \in Seq(Line) /\ Len(export) \in DOMAIN export
          BY <3>2, EmptySeq, LenProperties DEF TypeInv
        <5>2. QED
          BY <5>1, LenProperties, ElementOfSeq DEF Last
      <4>2. PICK l \in Line : l = Last(export)
        BY <4>1
      <4>3. Count(Append(export, l)) = IF l.row \in Id THEN Count(export) + 1 ELSE Count(export)
        BY <4>1, CountAppend
      <4>4. QED
        BY <1>2, <2>2, <3>2, <4>2, <4>3
    <3>3. QED
      BY <2>1, <3>1, <3>2
  <2>6. QED
    BY <1>1, <1>2, <2>1, <2>3, <2>4, <2>5
<1>7. CASE ImportLine
  <2>1. /\ importing # <<>> /\ importing' = Tail(importing) /\ queue' = queue
        /\ row_count' = IF Head(importing).row \in Id THEN row_count + 1 ELSE row_count
    BY <1>7 DEF ImportLine, Apply
  <2>2. ~Waiting
    BY <2>1, ImportWaits
  <2>3. WillCount = row_count + Count(queue) + Count(importing)
    BY <1>2, <2>2 DEF WillCount
  <2>4. /\ Count(Tail(importing)) \in Nat
        /\ Count(importing) = (IF Head(importing).row \in Id THEN 1 ELSE 0) + Count(Tail(importing))
    <3>1. importing \in Seq(Line) /\ Tail(importing) \in Seq(Line)
      BY <2>1, LineTypes DEF TypeInv
    <3>2. QED
      BY <2>1, <3>1, CountTail, OnPostsFinite
  <2>5. QED
    BY <1>1, <1>2, <2>1, <2>3, <2>4
<1>8. QED
  BY <1>4, <1>5, <1>6, <1>7 DEF PoolStep

\* What is appended leaves the posts that it does not put to, and adds its puts to the count.
LEMMA PostStays ==
  ASSUME TypeInv, ImportIsFirst, NEW w \in Seq(Query), w # <<>>, \A i \in DOMAIN w : w[i] # Import,
         queue' = queue \o w, UNCHANGED <<cell, importing, saved, text, row_count>>
  PROVE  /\ WillCount' = WillCount + Count(w)
         /\ \A id \in Id : (\A i \in DOMAIN w : w[i].row # id)
                             => AfterQueue(id, 1)' = AfterQueue(id, 1)
<1>1. /\ Waiting' <=> Waiting
      /\ \A r \in Row, c \in Col : AfterQueue(r, c)' = Final(w, r, c, AfterQueue(r, c))
  BY EnqueueEffect
<1>2. /\ row_count \in Nat /\ Count(queue) \in Nat /\ Count(importing) \in Nat
      /\ Count(text) \in Nat /\ Count(w) \in Nat
  BY CountTypes, OnPostsFinite
<1>3. Count(queue') = Count(queue) + Count(w)
  BY CountConcat DEF TypeInv
<1>4. WillCount' = WillCount + Count(w)
  <2>1. WillCount'
          = row_count + Count(queue') + Count(importing) + IF Waiting THEN Count(text) ELSE 0
    BY <1>1 DEF WillCount
  <2>2. QED
    BY <1>2, <1>3, <2>1 DEF WillCount
<1>5. ASSUME NEW id \in Id, \A i \in DOMAIN w : w[i].row # id
      PROVE  AfterQueue(id, 1)' = AfterQueue(id, 1)
  <2>1. \A i \in DOMAIN w : ~Hit(w[i], id, 1)
    BY <1>5 DEF Hit
  <2>2. Final(w, id, 1, AfterQueue(id, 1)) = AfterQueue(id, 1)
    BY <2>1, FinalIsFirst
  <2>3. QED
    BY <1>1, <2>2, DataTypes
<1>6. QED
  BY <1>4, <1>5

\* The posts of the history are posts.
LEMMA CreatedTypes ==
  ASSUME TypeInv, NEW i \in DOMAIN created PROVE created[i].id \in Id /\ created[i].file \in File
<1>1. created \in Seq(Post)
  BY DEF TypeInv
<1>2. created[i] \in Post
  BY <1>1, LenProperties, ElementOfSeq
<1>3. QED
  BY <1>2 DEF Post

\* The posts before a step of a process that goes on, in which none is removed.
LEMMA PostsBefore ==
  ASSUME TypeInv, ListedInv, [Next]_vars, Patient', phase # "off", removed = {},
         NEW i \in DOMAIN created
  PROVE  /\ created[i].id \in Id /\ AfterQueue(created[i].id, 1) = created[i].file
         /\ created[i].id <= WillCount
<1>1. Patient
  BY PatienceLasts
<1>2. QED
  BY <1>1, CreatedTypes DEF ListedInv, PostsInv

\* A new post takes an id that no post has, since nothing on posts is pending; its puts give it
\* its file and are counted.
LEMMA PostsCreate ==
  ASSUME TypeInv, KeptInv, ListedInv, [Next]_vars, NEW f \in File, CreatePost(f)
  PROVE  PostsInv'
<1> SUFFICES ASSUME Patient', removed' = {}, NEW i \in DOMAIN created'
             PROVE  /\ AfterQueue(created[i].id, 1)' = created'[i].file
                    /\ created'[i].id <= WillCount'
  BY DEF PostsInv
<1>1. PICK id \in Id : id = get_new_post_id
  BY DEF CreatePost, TypeInv, get_new_post_id, Id
<1>2. PICK w \in Seq(Query) : w = PostPuts(id, f)
  BY PostPutsType
<1>3. /\ DOMAIN w = Col /\ Len(w) = Puts
      /\ \A c \in Col : w[c].op = "put" /\ w[c].row = id /\ w[c].col = c /\ w[c].value = f
  BY <1>2, PostPutsType
<1>4. /\ phase = "main" /\ removed = {} /\ queue' = queue \o w
      /\ created' = Append(created, [id |-> id, file |-> f])
      /\ UNCHANGED <<cell, importing, saved, text, row_count>>
  BY <1>1, <1>2 DEF CreatePost, PostPuts, disk
<1>5. w # <<>> /\ \A j \in DOMAIN w : w[j] # Import
  <2>1. Len(w) # 0
    BY <1>3
  <2>2. QED
    BY <1>3, <2>1, EmptySeq DEF Import
<1>6. /\ WillCount' = WillCount + Count(w)
      /\ \A q \in Id : (\A j \in DOMAIN w : w[j].row # q) => AfterQueue(q, 1)' = AfterQueue(q, 1)
  BY <1>4, <1>5, PostStays DEF KeptInv
<1>7. row_count = WillCount /\ WillCount \in Nat
  <2>1. ~PostBacklog
    <3>1. events'.hasty = 0 /\ Hasty(PostBacklog) /\ PostBacklog \in BOOLEAN
      BY DEF Patient, CreatePost, PostBacklog
    <3>2. QED
      BY <3>1, HastyMeans
  <2>2. importing = <<>> /\ \A j \in DOMAIN queue : queue[j].op # "import" /\ queue[j].row \notin Id
    BY <2>1 DEF PostBacklog
  <2>3. ~Waiting
    <3>1. queue # <<>> => 1 \in DOMAIN queue /\ Head(queue) = queue[1]
      BY TailIndices DEF TypeInv
    <3>2. QED
      BY <2>2, <3>1 DEF Waiting, Import
  <2>4. Count(queue) = 0 /\ Count(importing) = 0
    BY <2>2, CountNone, CountEmpty
  <2>5. QED
    BY <2>3, <2>4, CountTypes DEF WillCount
<1>8. WillCount' >= row_count + 1
  <2>1. 1 \in OnPosts(w)
    BY <1>3, DataTypes DEF OnPosts
  <2>2. IsFiniteSet(OnPosts(w)) /\ Count(w) \in Nat
    BY OnPostsFinite
  <2>3. Count(w) # 0
    BY <2>1, <2>2, FS_EmptySet DEF Count
  <2>4. row_count \in Nat /\ WillCount' = row_count + Count(w)
    BY <1>6, <1>7
  <2>5. QED
    BY <2>2, <2>3, <2>4
<1>9. created \in Seq(Post) /\ [id |-> id, file |-> f] \in Post
  BY DEF TypeInv, Post
<1>10. /\ DOMAIN created = 1 .. Len(created) /\ DOMAIN created' = 1 .. Len(created) + 1
       /\ Len(created) \in Nat /\ \A j \in 1 .. Len(created) : created'[j] = created[j]
       /\ created'[Len(created) + 1] = [id |-> id, file |-> f]
  BY <1>4, <1>9, AppendProperties, LenProperties
<1>11. CASE i \in 1 .. Len(created)
  <2>1. PICK q \in Id : /\ q = created[i].id /\ AfterQueue(q, 1) = created[i].file
                        /\ q <= WillCount
    BY <1>4, <1>10, <1>11, PostsBefore
  <2>2. q # id
    <3>1. q <= row_count /\ id = row_count + 1 /\ row_count \in Nat /\ q \in Nat
      BY <1>1, <1>7, <2>1 DEF get_new_post_id, Id
    <3>2. QED
      BY <3>1
  <2>3. AfterQueue(q, 1)' = created[i].file
    BY <1>3, <1>6, <2>1, <2>2
  <2>4. created'[i] = created[i]
    BY <1>10, <1>11
  <2>5. q <= WillCount'
    <3>1. q <= row_count /\ row_count \in Nat /\ q \in Nat
      BY <1>7, <2>1 DEF Id
    <3>2. WillCount' \in Int
      BY <1>6, <1>7, OnPostsFinite
    <3>3. QED
      BY <1>8, <3>1, <3>2
  <2>6. QED
    BY <2>1, <2>3, <2>4, <2>5
<1>12. CASE i = Len(created) + 1
  <2>1. created'[i].id = id /\ created'[i].file = f
    BY <1>10, <1>12
  <2>2. /\ \E j \in DOMAIN w : Hit(w[j], id, 1)
        /\ \A j \in DOMAIN w : Hit(w[j], id, 1) => w[j].value = f
    BY <1>3, DataTypes DEF Hit
  <2>3. PICK v : v = AfterQueue(id, 1)
    OBVIOUS
  <2>4. Final(w, id, 1, v) = f
    BY <2>2, FinalOfAll
  <2>5. AfterQueue(id, 1)' = f
    <3>1. id \in Row /\ 1 \in Col
      BY DataTypes
    <3>2. AfterQueue(id, 1)' = Final(w, id, 1, AfterQueue(id, 1))
      BY <1>4, <1>5, <3>1, EnqueueEffect DEF KeptInv
    <3>3. QED
      BY <2>3, <2>4, <3>2
  <2>6. id <= WillCount'
    BY <1>1, <1>7, <1>8 DEF get_new_post_id
  <2>7. QED
    BY <2>1, <2>5, <2>6
<1>13. QED
  BY <1>10, <1>11, <1>12

\* Queries on a user leave the posts as they are.
LEMMA PostsUser ==
  ASSUME TypeInv, KeptInv, ListedInv, [Next]_vars, phase # "off",
         NEW w \in Seq(Query), w # <<>>, \A i \in DOMAIN w : w[i] # Import,
         \A i \in DOMAIN w : w[i].row \in User, queue' = queue \o w,
         UNCHANGED <<cell, importing, saved, text, row_count, created, removed>>
  PROVE  PostsInv'
<1> SUFFICES ASSUME Patient', removed = {}, NEW i \in DOMAIN created
             PROVE  AfterQueue(created[i].id, 1)' = created[i].file /\ created[i].id <= WillCount'
  BY DEF PostsInv
<1>1. /\ WillCount' = WillCount + Count(w)
      /\ \A q \in Id : (\A j \in DOMAIN w : w[j].row # q) => AfterQueue(q, 1)' = AfterQueue(q, 1)
  BY PostStays DEF KeptInv
<1>2. PICK q \in Id : q = created[i].id /\ AfterQueue(q, 1) = created[i].file /\ q <= WillCount
  BY PostsBefore
<1>3. AfterQueue(q, 1)' = created[i].file
  BY <1>1, <1>2, DataTypes
<1>4. q <= WillCount'
  <2>1. q \in Nat /\ WillCount \in Nat /\ Count(w) \in Nat
    BY CountTypes, OnPostsFinite DEF Id
  <2>2. QED
    BY <1>1, <1>2, <2>1
<1>5. QED
  BY <1>2, <1>3, <1>4

\* Nor does it matter to the posts when nothing is queued or executed.
LEMMA PostsSame ==
  ASSUME TypeInv, ListedInv, [Next]_vars, phase # "off",
         UNCHANGED <<cell, queue, importing, saved, text, row_count, created, removed>>
  PROVE  PostsInv'
<1>1. Patient' => Patient
  BY PatienceLasts
<1>2. \A id \in Id : AfterQueue(id, 1)' = AfterQueue(id, 1)
  BY DEF AfterQueue, AfterImport, Importing, Waiting, get
<1>3. WillCount' = WillCount
  BY DEF WillCount, Waiting
<1>4. \A i \in DOMAIN created : created[i].id \in Id
  BY CreatedTypes
<1>5. QED
  BY <1>1, <1>2, <1>3, <1>4 DEF ListedInv, PostsInv

\* A start has the posts of the last complete dump before it.
LEMMA PostsStart ==
  ASSUME TypeInv, TypeInv', KeptInv, ListedInv, [Next]_vars, Start PROVE PostsInv'
<1>1. /\ phase = "off" /\ queue' = <<Import>> /\ importing' = <<>>
      /\ UNCHANGED <<row_count, text, created, removed, saved>>
  BY DEF Start, TypeInv, Idle, history
<1> SUFFICES ASSUME Patient', removed = {}, NEW i \in DOMAIN created
             PROVE  AfterQueue(created[i].id, 1)' = created[i].file /\ created[i].id <= WillCount'
  BY <1>1 DEF PostsInv
<1>2. Patient /\ created = saved.created /\ saved.removed = {}
  BY <1>1, PatienceLasts DEF KeptInv, OffInv
<1>3. created[i].id \in Id
  BY CreatedTypes
<1>4. PICK id \in Id : /\ id = created[i].id /\ Newest(saved.cell[id][1]) = created[i].file
                       /\ id <= Count(text)
  BY <1>2, <1>3 DEF ListedInv, SavedPostsInv
<1>5. Waiting'
  BY <1>1 DEF Waiting
<1>6. AfterQueue(id, 1)' = created[i].file
  <2>1. AfterImport(id, 1)' = Newest(saved.cell[id][1])
    BY <1>1, <1>5 DEF AfterImport, Importing
  <2>2. \A j \in DOMAIN queue' : ~Hit(queue'[j], id, 1)
    <3>1. \A j \in DOMAIN queue' : queue'[j] = Import
      BY <1>1
    <3>2. QED
      BY <3>1, DataTypes DEF Hit, Import
  <2>3. AfterQueue(id, 1)' = AfterImport(id, 1)'
    BY <2>2, FinalIsFirst DEF AfterQueue
  <2>4. QED
    BY <1>4, <2>1, <2>3
<1>7. id <= WillCount'
  <2>1. row_count \in Nat /\ Count(text) \in Nat
    BY CountTypes
  <2>2. Count(queue') \in Nat /\ Count(importing') = 0
    BY <1>1, OnPostsFinite, CountEmpty DEF TypeInv
  <2>3. WillCount' = row_count + Count(queue') + Count(importing') + Count(text)
    BY <1>1, <1>5 DEF WillCount
  <2>4. id \in Nat
    BY DEF Id
  <2>5. QED
    BY <1>4, <2>1, <2>2, <2>3, <2>4
<1>8. QED
  BY <1>1, <1>4, <1>6, <1>7

\* A step of the pool brings about what was going to be, and counts it.
LEMMA PostsPool ==
  ASSUME TypeInv, TypeInv', KeptInv, ListedInv, [Next]_vars, PoolStep, ~ExecuteDeleteCrash
  PROVE  PostsInv'
<1>1. phase # "off" /\ created' = created /\ removed' = removed
  BY DEF PoolStep, ExecutePut, ExecuteDelete, ExecuteImport, ImportLine, history
<1> SUFFICES ASSUME Patient', removed = {}, NEW i \in DOMAIN created
             PROVE  AfterQueue(created[i].id, 1)' = created[i].file /\ created[i].id <= WillCount'
  BY <1>1 DEF PostsInv
<1>2. Patient
  BY PatienceLasts
<1>3. \A r \in Row, c \in Col : AfterQueue(r, c)' = AfterQueue(r, c)
  BY <1>2, PoolEffect DEF KeptInv
<1>4. PICK q \in Id : q = created[i].id /\ AfterQueue(q, 1) = created[i].file /\ q <= WillCount
  BY <1>1, PostsBefore
<1>5. AfterQueue(q, 1)' = created[i].file
  BY <1>3, <1>4, DataTypes
<1>6. WillCount <= WillCount'
  <2>1. Waiting => export = text
    BY <1>2 DEF KeptInv, ImportInv
  <2>2. QED
    BY <2>1, PoolCount DEF KeptInv, ListedInv
<1>7. q <= WillCount'
  <2>1. q \in Int /\ WillCount \in Int /\ WillCount' \in Int
    <3>1. /\ row_count' \in Nat /\ queue' \in Seq(Query) /\ importing' \in Seq(Line)
          /\ text' \in Seq(Line)
      BY DEF TypeInv
    <3>2. Count(queue') \in Nat /\ Count(importing') \in Nat /\ Count(text') \in Nat
      BY <3>1, OnPostsFinite
    <3>3. WillCount' \in Nat
      BY <3>1, <3>2 DEF WillCount
    <3>4. QED
      BY <3>3, CountTypes DEF Id
  <2>2. QED
    BY <1>4, <1>6, <2>1
<1>8. QED
  BY <1>1, <1>4, <1>5, <1>7

\* Every step keeps the posts, one action at a time.
LEMMA PostsStep ==
  ASSUME TypeInv, TypeInv', KeptInv, ListedInv, [Next]_vars
  PROVE  PostsInv'
<1>1. ASSUME NEW u \in User, NEW p \in Password, SignUp(u, p) PROVE PostsInv'
  <2>1. PICK w \in Seq(Query) : w = UserPuts(u, p)
    BY UserPutsType
  <2>2. /\ Len(w) = Puts /\ DOMAIN w = Col
        /\ \A i \in DOMAIN w : w[i].op = "put" /\ w[i].row = u
    BY <2>1, UserPutsType
  <2>3. w # <<>> /\ \A i \in DOMAIN w : w[i] # Import /\ w[i].row \in User
    <3>1. Len(w) # 0
      BY <2>2
    <3>2. QED
      BY <2>2, <3>1, EmptySeq DEF Import
  <2>4. /\ queue' = queue \o w /\ phase # "off"
        /\ UNCHANGED <<cell, importing, saved, text, row_count, created, removed>>
    BY <1>1, <2>1 DEF SignUp, Running, disk
  <2>5. QED
    BY <2>3, <2>4, PostsUser
<1>2. CASE RemoveUser
  <2>1. /\ user \in User /\ user \in Row /\ phase # "off" /\ queue' = Append(queue, Del(user))
        /\ UNCHANGED <<cell, importing, saved, text, row_count, created, removed>>
    BY <1>2 DEF RemoveUser, TypeInv, disk, Row
  <2>2. PICK w \in Seq(Query) : w = <<Del(user)>> /\ w # <<>> /\ \A i \in DOMAIN w : w[i] # Import
    BY <2>1, DelType
  <2>3. queue' = queue \o w
    BY <2>1, <2>2, QueryTypes, AppendIsConcat DEF TypeInv
  <2>4. \A i \in DOMAIN w : w[i].row \in User
    BY <2>1, <2>2 DEF Del
  <2>5. QED
    BY <2>1, <2>2, <2>3, <2>4, PostsUser
<1>3. ASSUME NEW id \in Id, RemovePost(id) PROVE PostsInv'
  BY <1>3 DEF RemovePost, PostsInv
<1>4. CASE ExitExport \/ DumpSize \/ UNCHANGED vars
  <2>1. UNCHANGED <<cell, queue, importing, saved, text, row_count, created, removed>>
    BY <1>4 DEF ExitExport, DumpSize, vars, memory, disk, history
  <2>2. phase = "off" => phase' = "off"
    BY <1>4 DEF ExitExport, DumpSize, vars
  <2>3. CASE phase # "off"
    BY <2>1, <2>3, PostsSame
  <2>4. CASE phase = "off"
    BY <2>2, <2>4 DEF PostsInv
  <2>5. QED
    BY <2>3, <2>4
<1>5. ASSUME NEW u \in User, NEW p \in Password, Login(u, p) PROVE PostsInv'
  BY <1>5, PostsSame DEF Login, memory, disk, history
<1>6. CASE DumpText \/ Crash \/ ExecuteDeleteCrash
  BY <1>6 DEF DumpText, Crash, ExecuteDeleteCrash, Revert, LoseMemory, PostsInv
<1>7. QED
  BY <1>1, <1>2, <1>3, <1>4, <1>5, <1>6, PostsStart, PostsCreate, PostsPool DEF Next, PoolStep

\* A dump saves the posts, since nothing is pending then.
LEMMA SavedPostsStep ==
  ASSUME TypeInv, KeptInv, ListedInv, [Next]_vars
  PROVE  SavedPostsInv'
<1>1. Patient' => Patient
  BY PatienceLasts
<1>2. CASE DumpText
  <2>1. /\ phase = "sized" /\ text' = export
        /\ saved' = [cell |-> cell, account |-> account, created |-> created, removed |-> removed]
    BY <1>2 DEF DumpText
  <2>2. saved'.cell = cell /\ saved'.created = created /\ saved'.removed = removed
    BY <2>1
  <2> SUFFICES ASSUME Patient', removed = {}, NEW i \in DOMAIN created
               PROVE  /\ Newest(cell[created[i].id][1]) = created[i].file
                      /\ created[i].id <= Count(export)
    BY <2>1, <2>2 DEF SavedPostsInv
  <2>3. Idle /\ export = ExportLines
    BY <1>1, <2>1 DEF KeptInv, ExportInv
  <2>4. PICK q \in Id : q = created[i].id /\ AfterQueue(q, 1) = created[i].file /\ q <= WillCount
    BY <2>1, PostsBefore
  <2>5. AfterQueue(q, 1) = Newest(cell[q][1])
    BY <2>3, IdleHolds, DataTypes DEF get, Newest
  <2>6. WillCount = row_count
    BY <2>3, CountEmpty, CountTypes DEF WillCount, Idle, Waiting
  <2>7. row_count = Count(export)
    BY <2>3 DEF ListedInv, CountInv
  <2>8. QED
    BY <2>4, <2>5, <2>6, <2>7
<1>3. CASE ~DumpText
  <2>1. UNCHANGED <<saved, text>>
    BY <1>3 DEF Next, vars, PoolStep, Start, ExitExport, DumpSize, Crash, Login, SignUp, RemoveUser,
       CreatePost, RemovePost, ExecutePut, ExecuteDelete, ExecuteDeleteCrash, ExecuteImport,
       ImportLine, Revert, disk
  <2>2. QED
    BY <1>1, <2>1 DEF ListedInv, SavedPostsInv
<1>4. QED
  BY <1>2, <1>3

\* At first there are no posts, and no lines.
LEMMA ListedInit == Init => ListedInv
<1> SUFFICES ASSUME Init PROVE ListedInv
  OBVIOUS
<1>1. /\ phase = "off" /\ cell = NoCells /\ row_count = 0 /\ queue = <<>> /\ removed = {}
      /\ saved.created = <<>> /\ saved.removed = {}
  BY DEF Init
<1>2. ExportLines = FlattenSeq(ExportParts(NoCells))
  BY <1>1, InitTyped, ExportIsParts
<1>3. Count(ExportLines) = 0
  BY <1>2, ExportCountEmpty DEF ExportCount
<1>4. QED
  BY <1>1, <1>3 DEF ListedInv, RemovedInv, CountInv, SavedPostsInv, PostsInv

\* The invariants are inductive together.
LEMMA Listed == Spec => [](TypeInv /\ KeptInv /\ ListedInv)
<1>1. Init => ListedInv
  BY ListedInit
<1>2. TypeInv /\ TypeInv' /\ KeptInv /\ ListedInv /\ [Next]_vars => ListedInv'
  <2> SUFFICES ASSUME TypeInv, TypeInv', KeptInv, ListedInv, [Next]_vars PROVE ListedInv'
    OBVIOUS
  <2>1. RemovedInv'
    BY RemovedStep DEF ListedInv
  <2>2. CountInv'
    BY <2>1, CountStep DEF ListedInv
  <2>3. QED
    BY <2>1, <2>2, PostsStep, SavedPostsStep DEF ListedInv
<1>3. QED
  BY <1>1, <1>2, Kept, PTL DEF Spec

\* Until a post is removed every post is listed, under its own file, when nothing is pending:
\* across restarts, after which row_count counts the lines imported and not the posts, and
\* though the id of a new post is taken from row_count; as long as nobody acts on a backlog
\* and no process was killed in the middle of a dump.
THEOREM PostsSurviveRestarts == Spec => []VisibleIfNoneRemoved
<1>1. TypeInv /\ KeptInv /\ ListedInv => VisibleIfNoneRemoved
  <2> SUFFICES ASSUME TypeInv, ListedInv, removed = {}, Running, Idle, Patient,
                      NEW i \in DOMAIN created
               PROVE  get(created[i].id, 1) = created[i].file /\ created[i].id <= row_count
    BY DEF VisibleIfNoneRemoved, VisibleAcrossRestarts
  <2>1. created[i].id \in Id
    BY CreatedTypes
  <2>2. PICK q \in Id : q = created[i].id /\ AfterQueue(q, 1) = created[i].file /\ q <= WillCount
    BY <2>1 DEF ListedInv, PostsInv, Running
  <2>3. AfterQueue(q, 1) = get(q, 1)
    BY IdleHolds, DataTypes
  <2>4. WillCount = row_count
    BY CountEmpty, CountTypes DEF WillCount, Idle, Waiting
  <2>5. QED
    BY <2>2, <2>3, <2>4
<1>2. QED
  BY <1>1, Listed, PTL
=============================================================================
