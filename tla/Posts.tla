-------------------------------- MODULE Posts --------------------------------
(***************************************************************************)
(* Posts and the file store: what the main menu does for a post (client.h, *)
(* server.h), the tables 'post' and 'free_space' it reads at once, and the *)
(* requests by which it changes them later.                                *)
(*                                                                         *)
(* The menu reads the tables without a lock and without a look at the      *)
(* request queue; it writes them only through the queue.  Here the queue   *)
(* is the in-order service of module RequestPipeline and a table the map   *)
(* of module Table (the ids below 20 have different hash codes), with the  *)
(* row_count that counts puts.  A query leaves the queue when it has been  *)
(* executed.                                                               *)
(*                                                                         *)
(* The file store is a row of blocks; a file is a model value that fills   *)
(* the blocks it is written to, and is posted at most once.                *)
(***************************************************************************)
EXTENDS Naturals, Sequences, FiniteSets

CONSTANTS
  File,           \* the files the user posts
  Sizes,          \* the sizes a file may have
  StoreFrom, StoreTo,  \* the default free region (1048576 .. 1073741824 in the code)
  Capacity,       \* of the request queue
  MaxId,          \* bound of the model: ids and row numbers
  MaxRowCount,    \* bound of the model: puts on 'post' by comments stop there
  MaxOverlaps,    \* bound of the model on overlaps
  NULL

ASSUME StoreAssumption == StoreFrom \in Nat \ {0} /\ StoreTo \in Nat /\ StoreFrom < StoreTo
ASSUME SizesAssumption == Sizes \subseteq Nat
ASSUME BoundsAssumption ==
  /\ Capacity \in Nat \ {0} /\ MaxId \in Nat \ {0}
  /\ MaxRowCount \in Nat /\ MaxOverlaps \in Nat
ASSUME NullAssumption ==
  NULL \notin Nat /\ NULL \notin File /\ NULL # "comments"  \* nor the name of a column

VARIABLES
  post, free,         \* the rows of the two tables
  row_count,          \* of 'post'
  queue,              \* the queries accepted and not executed yet
  disk,               \* filesystem.bin
  ui,                 \* the main thread: the menu, or inside an operation
  job,                \* its locals
  todo,               \* the queries it has still to add to the queue
  crashed,
  created,            \* history: the posts made, in order
  removed,            \* history: the ids of the posts deleted
  refused,            \* history: a create found no space where enough was unused
  overlaps            \* history: operations begun on a backlog

vars == <<post, free, row_count, queue, disk, ui, job, todo, crashed,
          created, removed, refused, overlaps>>
histVars == <<created, removed, refused, overlaps>>

Id == 1 .. MaxId
Block == StoreFrom .. StoreTo - 1
PostColumn == {"username", "filename", "filesize", "address", "likes", "comments"}
FreeColumn == {"from", "to"}
NoPost == [c \in PostColumn |-> NULL]
NoRegion == [c \in FreeColumn |-> NULL]
Given == 1         \* a text that nothing depends on
NoJob == [file |-> NULL, size |-> NULL, key |-> NULL, at |-> NULL]

Put(t, k, c, v) == [op |-> "put", table |-> t, key |-> k, column |-> c, value |-> v]
Del(k) == [op |-> "delete", table |-> "post", key |-> k, column |-> NULL, value |-> NULL]

\* _tmain: the default region; the tables are empty but for it.
Init ==
  /\ post = [k \in Id |-> NoPost]
  /\ free = [[k \in Id |-> NoRegion] EXCEPT ![1] = [from |-> StoreFrom, to |-> StoreTo]]
  /\ row_count = 0
  /\ queue = <<>>
  /\ disk = [x \in Block |-> NULL]
  /\ ui = "menu" /\ job = NoJob /\ todo = <<>>
  /\ crashed = FALSE
  /\ created = <<>> /\ removed = {} /\ refused = FALSE /\ overlaps = 0

-----------------------------------------------------------------------------
(* create_post_wrapper.                                                    *)

\* get_free_position looks at the rows '1', '2', ... and stops at the first that is
\* missing.  The test of the size is strict.
HasRow(k) == free[k] # NoRegion
\* Mutants, here and below: wrong variants of the definition they precede, which no
\* specification uses; the properties are tested against them.
\* Mutant of Fits: the size is not looked at.
FitsAnything(k, n) ==
  /\ NULL \notin {free[k].from, free[k].to}
  /\ free[k].from < free[k].to
\* And: one block more than the file is asked for.
FitsWithSpare(k, n) ==
  /\ NULL \notin {free[k].from, free[k].to}
  /\ free[k].from + n + 1 < free[k].to
Fits(k, n) ==
  /\ NULL \notin {free[k].from, free[k].to}
  /\ free[k].from + n < free[k].to
FitsFirst(k, n) ==
  /\ Fits(k, n)
  /\ \A j \in 1 .. k - 1 : HasRow(j) /\ ~Fits(j, n)

Covers(k, x) ==
  /\ NULL \notin {post[k].address, post[k].filesize}
  /\ x \in post[k].address .. post[k].address + post[k].filesize - 1
Unused == {x \in Block : \A k \in Id : ~Covers(k, x)}

\* A create or a delete has not been executed, or six more queries may not fit.
Backlog ==
  \/ \E i \in DOMAIN queue : queue[i].column # "comments"
  \/ Len(queue) + 6 > Capacity

\* The user chooses an operation: the code asks nothing of the queue.  The bound is the
\* model's: at most MaxOverlaps operations, comments too, begin on a backlog.
Begin(next) ==
  /\ ui = "menu" /\ ui' = next
  /\ Backlog => overlaps < MaxOverlaps
  /\ overlaps' = IF Backlog THEN overlaps + 1 ELSE overlaps

CreateFindSpace(f, n) ==
  /\ \A i \in DOMAIN created : created[i].file # f
  /\ Begin("create")
  /\ \E k \in Id : /\ FitsFirst(k, n)
                   /\ job' = [file |-> f, size |-> n, key |-> k, at |-> free[k].from]
  /\ UNCHANGED <<post, free, row_count, queue, disk, todo, crashed, created, removed, refused>>

\* "No Free Space to place the post."
CreateNoSpace(f, n) ==
  /\ ui = "menu"
  /\ \A i \in DOMAIN created : created[i].file # f
  /\ \A k \in Id : ~FitsFirst(k, n)
  /\ refused' = (refused \/ (~Backlog /\ \E x \in Block : x .. x + n \subseteq Unused))
  /\ UNCHANGED <<post, free, row_count, queue, disk, ui, job, todo, crashed,
                 created, removed, overlaps>>

\* Mutant of get_new_post_id: the rows are counted.
CountOfPosts == Cardinality({k \in Id : post[k] # NoPost}) + 1
get_new_post_id == row_count + 1

\* The id, the write of the file, and the six queries.
CreateWrite ==
  LET id == get_new_post_id
      end == job.at + job.size
  IN
  /\ ui = "create"
  /\ id <= MaxId
  /\ disk' = [x \in Block |-> IF x \in job.at .. end - 1 THEN job.file ELSE disk[x]]
  /\ todo' = << Put("free_space", job.key, "from", end),
                Put("post", id, "username", Given),
                Put("post", id, "filename", job.file),
                Put("post", id, "filesize", job.size),
                Put("post", id, "address", job.at),
                Put("post", id, "likes", 0) >>
  /\ created' = Append(created, [id |-> id, file |-> job.file])
  /\ ui' = "submit" /\ job' = NoJob
  /\ UNCHANGED <<post, free, row_count, queue, crashed, removed, refused, overlaps>>

-----------------------------------------------------------------------------
(* delete_post and comment_on_post.                                        *)

DeleteReadSize(k) ==
  /\ post[k].filesize # NULL
  /\ Begin("delete")
  /\ job' = [NoJob EXCEPT !.key = k, !.size = post[k].filesize]
  /\ UNCHANGED <<post, free, row_count, queue, disk, todo, crashed, created, removed, refused>>

\* The freed region becomes the row of 'free_space' that has the id of the post.
DeleteReadAddress ==
  LET k == job.key
      at == post[k].address
  IN
  /\ ui = "delete"
  /\ IF at = NULL
     THEN ui' = "menu" /\ UNCHANGED <<todo, removed>>
     ELSE /\ todo' = << Put("free_space", k, "from", at),
                        Put("free_space", k, "to", at + job.size), Del(k) >>
          /\ removed' = removed \cup {k}
          /\ ui' = "submit"
  /\ job' = NoJob
  /\ UNCHANGED <<post, free, row_count, queue, disk, crashed, created, refused, overlaps>>

\* Mutant of Comment: the post is not looked up.
CommentAnywhere(k) ==
  /\ row_count < MaxRowCount
  /\ Begin("submit")
  /\ todo' = <<Put("post", k, "comments", Given)>>
  /\ UNCHANGED <<post, free, row_count, queue, disk, job, crashed, created, removed, refused>>

Comment(k) ==
  /\ row_count < MaxRowCount
  /\ post[k] # NoPost
  /\ Begin("submit")
  /\ todo' = <<Put("post", k, "comments", Given)>>
  /\ UNCHANGED <<post, free, row_count, queue, disk, job, crashed, created, removed, refused>>

\* Mutant of Submit: the operation returns one query early.
SubmitTooFew ==
  /\ ui = "submit"
  /\ queue' = IF Len(queue) = Capacity THEN queue ELSE Append(queue, Head(todo))
  /\ todo' = Tail(todo)
  /\ ui' = IF Len(todo) <= 2 THEN "menu" ELSE "submit"
  /\ UNCHANGED <<post, free, row_count, disk, job, crashed, histVars>>

\* add_request_query of the next query: dropped when the queue is full.
Submit ==
  /\ ui = "submit"
  /\ queue' = IF Len(queue) = Capacity THEN queue ELSE Append(queue, Head(todo))
  /\ todo' = Tail(todo)
  /\ ui' = IF Len(todo) = 1 THEN "menu" ELSE "submit"
  /\ UNCHANGED <<post, free, row_count, disk, job, crashed, histVars>>

-----------------------------------------------------------------------------
(* process_query, on a pool thread.                                        *)

ExecutePut(q) ==
  /\ q.op = "put"
  /\ IF q.table = "post"
     THEN /\ post' = [post EXCEPT ![q.key] = [@ EXCEPT ![q.column] = q.value]]
          /\ row_count' = row_count + 1
          /\ UNCHANGED free
     ELSE /\ free' = [free EXCEPT ![q.key] = [@ EXCEPT ![q.column] = q.value]]
          /\ UNCHANGED <<post, row_count>>
  /\ UNCHANGED crashed

\* deleteInTable reads the empty bucket of a row that is gone.
ExecuteDelete(q) ==
  /\ q.op = "delete"
  /\ IF post[q.key] = NoPost
     THEN crashed' = TRUE /\ UNCHANGED post
     ELSE post' = [post EXCEPT ![q.key] = NoPost] /\ UNCHANGED crashed
  /\ UNCHANGED <<free, row_count>>

Execute ==
  /\ queue # <<>>
  /\ ExecutePut(Head(queue)) \/ ExecuteDelete(Head(queue))
  /\ queue' = Tail(queue)
  /\ UNCHANGED <<disk, ui, job, todo, histVars>>

Next ==
  /\ ~crashed
  /\ \/ \E f \in File, n \in Sizes : CreateFindSpace(f, n) \/ CreateNoSpace(f, n)
     \/ CreateWrite
     \/ \E k \in Id : DeleteReadSize(k) \/ Comment(k)
     \/ DeleteReadAddress
     \/ Submit
     \/ Execute

Spec == Init /\ [][Next]_vars
-----------------------------------------------------------------------------
(* Properties.                                                             *)

TypeOK ==
  /\ post \in [Id -> [PostColumn -> Nat \cup File \cup {NULL}]]
  /\ free \in [Id -> [FreeColumn -> Nat \cup {NULL}]]
  /\ row_count \in Nat /\ Len(queue) <= Capacity
  /\ disk \in [Block -> File \cup {NULL}]
  /\ ui \in {"menu", "create", "delete", "submit"}
  /\ ui = "submit" <=> todo # <<>>
  /\ job.size \in Sizes \cup {NULL} /\ job.key \in Id \cup {NULL}
  /\ crashed \in BOOLEAN /\ refused \in BOOLEAN /\ overlaps \in 0 .. MaxOverlaps

Quiet == ui = "menu" /\ queue = <<>>
Complete(k) == NULL \notin {post[k].filename, post[k].filesize, post[k].address}

\* download_file_wrapper: the blocks read for a post.
Downloaded(k) == {disk[x] : x \in {y \in Block : Covers(k, y)}}

\* Downloading a post gives the file that was posted, whatever was created and deleted
\* around it, as long as no operation began before the requests of the last one had
\* been executed: the allocator hands no block out twice (client.h:97-111).
DownloadIsOriginal ==
  overlaps = 0 => \A k \in Id : Complete(k) => Downloaded(k) \subseteq {post[k].filename}

\* A new post never takes the id of an earlier one, though the id comes from a count
\* of puts (client.h:57) and deleted posts leave holes; with overlap it may.
IdsNeverReused ==
  overlaps = 0 => \A i, j \in DOMAIN created : created[i].id = created[j].id => i = j

\* Every row of 'post' belongs to a post that can be downloaded: no half-made post and
\* no row brought back by a comment on a deleted one, and a delete never meets a row
\* that is gone (which crashes the pool thread), unless operations overlap.
NoGhosts ==
  overlaps = 0 => ~crashed /\ (Quiet => \A k \in Id : post[k] # NoPost => Complete(k))

\* view_posts_wrapper lists the rows '1' .. row_count.
Listed == {post[k].filename : k \in {j \in Id : j <= row_count}} \ {NULL}

\* "we can make a POST which will be visible to other users" (README.md:6): when all
\* requests are executed, every post is listed until its author removes it.
PostsAreVisible ==
  Quiet => \A i \in DOMAIN created :
             created[i].id \notin removed => created[i].file \in Listed

\* The same, unless operations overlap: the loop to row_count reaches every id, since
\* a post takes five puts and a delete takes none back (client.h:151).
VisibleUntilRemoved == overlaps = 0 => PostsAreVisible

\* "No Free Space to place the post." (client.h:127) is said with room left only after a
\* post was removed: delete_post files the freed region under the id of the post, which
\* for post 1 is the row of the main region, and for others a row behind a missing one,
\* where the search never gets (server.h:414, client.h:9).
RefusedNeedsRemoval == overlaps = 0 /\ removed = {} => ~refused
=============================================================================
