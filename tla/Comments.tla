-------------------------------- MODULE Comments --------------------------------
(***************************************************************************)
(* The comments of one post (server.h): a list kept as one text in the     *)
(* column 'comments' of its row, its parts separated by semicolons.        *)
(*                                                                         *)
(* The menu adds a comment by a put that appends, and deletes one by a put *)
(* that replaces the list; both wait in the request queue.  It reads the   *)
(* list through a pointer into the version stack and splits it there with  *)
(* strtok, without a lock: the stored text then ends after its first part. *)
(* The pool thread copies the same text when it appends.                   *)
(*                                                                         *)
(* A comment as its author typed it is a sequence of texts: one, or more   *)
(* where it holds semicolons, which the list cannot tell from its own.     *)
(* One text is given once.  Left out is a comment that begins with a       *)
(* semicolon: stored first, its stray quote becomes a part of its own.     *)
(* The row of the post is there throughout (module Posts removes rows),    *)
(* the queue is in order and lossless, and a stack is not full.            *)
(***************************************************************************)
EXTENDS Naturals, Sequences

CONSTANTS
  Text,        \* the texts between semicolons
  Typed,       \* the comments that may be given
  WithComma,   \* the texts that hold a comma
  Empty,       \* those that are empty
  MaxVersions, \* bound of the model on versions, the queued ones included
  MaxNumber,   \* bound of the model on the number typed for a deletion
  NULL

ASSUME TextAssumption ==
  /\ WithComma \subseteq Text /\ Empty \subseteq Text /\ WithComma \cap Empty = {}
  /\ Typed \subseteq Seq(Text) \ {<<>>}
  /\ \A c \in Typed : \A i, j \in DOMAIN c :
       i # j => c[i] # c[j] /\ c[i] \notin Empty
ASSUME BoundsAssumption == MaxVersions \in Nat /\ MaxNumber \in Nat
ASSUME NullAssumption == NULL \notin Nat

VARIABLES
  array, version,  \* the stack of the column: the texts, the committed one
  queue,           \* the puts not executed yet
  pool,            \* the pool thread: ready, commit, or crashed with the process
  ui,              \* the menu, or between get and split of view_comments or delete_comment
  at, number,      \* its locals: the version it holds a pointer to, the comment number
  given,           \* history: the texts queued, in order
  deleted,         \* history: the comments a user asked to delete
  broken           \* history: a reader or a lost query spoilt the list

vars == <<array, version, queue, pool, ui, at, number, given, deleted, broken>>

append(c) == [append |-> TRUE, list |-> c]
replace(l) == [append |-> FALSE, list |-> l]

Init ==
  /\ array = <<>> /\ version = 0
  /\ queue = <<>>
  /\ pool = "ready"
  /\ ui = "menu" /\ at = NULL /\ number = NULL
  /\ given = <<>> /\ deleted = {} /\ broken = FALSE

Given == {given[i] : i \in DOMAIN given}
-----------------------------------------------------------------------------
(* The menu.                                                               *)

\* comment_on_post.  put drops a query of more than four parts, so a comment with a
\* comma is lost; one with a semicolon is listed as several.
Comment(c) ==
  /\ ui = "menu" /\ \A i \in DOMAIN c : c[i] \notin Given
  /\ Len(array) + Len(queue) < MaxVersions
  /\ queue' = Append(queue, append(c))
  /\ given' = given \o c
  /\ broken' = (broken \/ Len(c) > 1 \/ c[1] \in WithComma)
  /\ UNCHANGED <<array, version, pool, ui, at, number, deleted>>

\* view_comments, the get.
ViewGet ==
  /\ ui = "menu" /\ version # 0
  /\ ui' = "view" /\ at' = version
  /\ UNCHANGED <<array, version, queue, pool, number, given, deleted, broken>>

\* Mutants, here and below: wrong variants of the definition they precede, which no
\* specification uses; the properties are tested against them.
\* Mutant of Cut: the reader leaves the last part.
CutToLast == array' = [array EXCEPT ![at] = <<@[Len(@)]>>]

\* splitString: the first call of strtok ends the stored text after its first part.
Cut == array' = [array EXCEPT ![at] = <<@[1]>>]

\* Cutting the newest version shortens what the next append will copy.
Shortens == at = Len(array) /\ Len(array[at]) > 1

ViewSplit ==
  /\ ui = "view"
  /\ Cut
  /\ broken' = (broken \/ Shortens)
  /\ ui' = "menu" /\ at' = NULL
  /\ UNCHANGED <<version, queue, pool, number, given, deleted>>

\* delete_comment, the get.
DeleteGet(k) ==
  /\ ui = "menu" /\ version # 0
  /\ Len(array) + Len(queue) < MaxVersions
  /\ ui' = "delete" /\ at' = version /\ number' = k
  /\ UNCHANGED <<array, version, queue, pool, given, deleted, broken>>

Without(l, k) == IF k \in DOMAIN l THEN SubSeq(l, 1, k - 1) \o SubSeq(l, k + 1, Len(l)) ELSE l

\* The others are joined by commas, one more for each part after the first that is
\* kept, the deleted one included; a comma makes put drop the query.
Joinable(l, k) == Len(l) = 1 \/ (Len(l) = 2 /\ k = 1)

\* Read, split in place and queued without a look at the queue: right only for the
\* first of two comments, or a number out of range, when nothing is pending.
DeleteSplit ==
  LET l == array[at] IN
  /\ ui = "delete"
  /\ Cut
  /\ queue' = IF Joinable(l, number) THEN Append(queue, replace(Without(l, number))) ELSE queue
  /\ deleted' = deleted \cup {l[i] : i \in DOMAIN l \cap {number}}
  /\ broken' = (broken \/ ~Joinable(l, number) \/ queue # <<>> \/ at # Len(array))
  /\ ui' = "menu" /\ at' = NULL /\ number' = NULL
  /\ UNCHANGED <<version, pool, given>>

-----------------------------------------------------------------------------
(* The pool thread: put on the column.                                     *)

\* Mutants of NewText: an appended comment goes to the front; and it replaces the text.
NewTextInFront(q) == IF q.append /\ version # 0 THEN q.list \o array[version] ELSE q.list
NewTextAlone(q) == q.list

\* update_values_into_record: the committed text with the comment, or the new text.
NewText(q) == IF q.append /\ version # 0 THEN array[version] \o q.list ELSE q.list

\* put_wrapper counts the parts of the query.
Drop(q) == \E i \in DOMAIN q.list : q.list[i] \in WithComma

\* sub_string of an empty text is NULL and is copied: the first comment escapes,
\* because a stray quote is stored with it.
Crashes(q) == q.list = <<>> \/ (q.append /\ version # 0 /\ q.list[1] \in Empty)

ExecuteDropped ==
  /\ pool = "ready" /\ queue # <<>> /\ Drop(Head(queue))
  /\ queue' = Tail(queue)
  /\ UNCHANGED <<array, version, pool, ui, at, number, given, deleted, broken>>

\* Mutant of ExecutePush: a new column is left to commit, too.
ExecutePushPending ==
  /\ pool = "ready" /\ queue # <<>> /\ ~Drop(Head(queue)) /\ ~Crashes(Head(queue))
  /\ array' = Append(array, NewText(Head(queue)))
  /\ IF version = 0 THEN version' = 1 ELSE UNCHANGED version
  /\ pool' = "commit"
  /\ queue' = Tail(queue)
  /\ UNCHANGED <<ui, at, number, given, deleted, broken>>

ExecutePush ==
  /\ pool = "ready" /\ queue # <<>> /\ ~Drop(Head(queue)) /\ ~Crashes(Head(queue))
  /\ array' = Append(array, NewText(Head(queue)))
  /\ IF version = 0 THEN version' = 1 /\ UNCHANGED pool
                    ELSE pool' = "commit" /\ UNCHANGED version
  /\ queue' = Tail(queue)
  /\ UNCHANGED <<ui, at, number, given, deleted, broken>>

ExecuteCrash ==
  /\ pool = "ready" /\ queue # <<>> /\ ~Drop(Head(queue)) /\ Crashes(Head(queue))
  /\ pool' = "crashed"
  /\ UNCHANGED <<array, version, queue, ui, at, number, given, deleted, broken>>

Commit ==
  /\ pool = "commit"
  /\ version' = version + 1
  /\ pool' = "ready"
  /\ UNCHANGED <<array, queue, ui, at, number, given, deleted, broken>>

Next ==
  /\ pool # "crashed"
  /\ \/ \E c \in Typed : Comment(c)
     \/ ViewGet
     \/ ViewSplit
     \/ \E k \in 1 .. MaxNumber : DeleteGet(k)
     \/ DeleteSplit
     \/ ExecuteDropped
     \/ ExecutePush
     \/ ExecuteCrash
     \/ Commit

Spec == Init /\ [][Next]_vars
-----------------------------------------------------------------------------
(* Properties.                                                             *)

Lists == Seq(Text) \ {<<>>}

TypeOK ==
  /\ array \in Seq(Lists)
  /\ version = IF pool = "commit" THEN Len(array) - 1 ELSE Len(array)
  /\ queue \in Seq([append : BOOLEAN, list : Seq(Text)])
  /\ pool \in {"ready", "commit", "crashed"}
  /\ ui \in {"menu", "view", "delete"}
  /\ ui = "menu" <=> at = NULL
  /\ at # NULL => at \in 1 .. version
  /\ ui = "delete" <=> number # NULL
  /\ given \in Seq(Text) /\ deleted \subseteq Text /\ broken \in BOOLEAN

\* Every version of the list holds comments in the order in which they were given, each
\* once, however cuts, stale replacements and appends interleave (hash.h:95-108,
\* server.h:352, 376): a comment may get lost or return, never move or double.
Position(c) == CHOOSE i \in DOMAIN given : given[i] = c
InGivenOrder ==
  \A v \in DOMAIN array : \A i, j \in DOMAIN array[v] :
    /\ array[v][i] \in Given
    /\ i < j => Position(array[v][i]) < Position(array[v][j])

\* The first text stored stays first until a user asks to delete it: what the readers
\* cut off is always behind it, and no put overwrites it with a list read before it
\* (server.h:352, 376, 387).
FirstStays ==
  \A v \in DOMAIN array : Head(array[v]) # Head(array[1]) => Head(array[1]) \in deleted

\* What the queue will make of the list.
Outcome ==
  LET newest == IF array = <<>> THEN <<>> ELSE array[Len(array)]
      after[n \in 0 .. Len(queue)] ==
        IF n = 0 THEN newest
        ELSE IF queue[n].append THEN after[n - 1] \o queue[n].list ELSE queue[n].list
  IN  after[Len(queue)]

\* The list is what its users made it, from the moment a request is accepted, until a
\* list of two is read in place, a comment has a comma or a semicolon, a deletion meets
\* pending puts or cannot be joined, or the process crashes.  Readers between a push and
\* its commit, and the deletion of the first of two comments, keep the promise
\* (server.h:309-394).
Promise == INSTANCE CommentList WITH
             list <- Outcome, gone <- deleted,
             reliable <- ~broken /\ pool # "crashed"
ImplementsCommentList == Promise!Spec
=============================================================================
