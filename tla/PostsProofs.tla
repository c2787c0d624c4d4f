----------------------------- MODULE PostsProofs -----------------------------
(***************************************************************************)
(* Proofs about the posts and the file store, for any files, sizes and     *)
(* store, any capacity of the request queue and any number of posts.       *)
(*                                                                         *)
(* What an operation has still to do is in two places: the queue and the   *)
(* queries the main thread has not submitted.  The invariant reads them as *)
(* one list, counted from its end, so that a submit changes nothing.       *)
(***************************************************************************)
EXTENDS Posts, SequenceTheorems, TLAPS

USE StoreAssumption, SizesAssumption, BoundsAssumption, NullAssumption

-----------------------------------------------------------------------------
(* Types.                                                                  *)

\* What the puts of a post store in a column.
Values(c) == IF c = "filename" THEN File ELSE IF c = "filesize" THEN Sizes ELSE Nat

PostPut ==
  {q \in [op : {"put"}, table : {"post"}, key : Id, column : PostColumn, value : Nat \cup File] :
     q.value \in Values(q.column)}
FreePut ==
  [op : {"put"}, table : {"free_space"}, key : Id, column : FreeColumn, value : Nat]
PostDelete ==
  [op : {"delete"}, table : {"post"}, key : Id, column : {NULL}, value : {NULL}]
Query == PostPut \cup FreePut \cup PostDelete

TypeInv ==
  /\ post \in [Id -> [PostColumn -> Nat \cup File \cup {NULL}]]
  /\ \A k \in Id, c \in PostColumn : post[k][c] \in Values(c) \cup {NULL}
  /\ free \in [Id -> [FreeColumn -> Nat \cup {NULL}]]
  /\ row_count \in Nat
  /\ queue \in Seq(Query) /\ todo \in Seq(Query) /\ Len(queue) <= Capacity
  /\ disk \in [Block -> File \cup {NULL}]
  /\ ui \in {"menu", "create", "delete", "submit"}
  /\ ui = "submit" <=> todo # <<>>
  /\ job \in [file : File \cup {NULL}, size : Sizes \cup {NULL},
              key : Id \cup {NULL}, at : Nat \cup {NULL}]
  /\ ui = "create" => NULL \notin {job.file, job.size, job.key, job.at}
  /\ ui = "delete" => NULL \notin {job.size, job.key}
  /\ created \in Seq([id : Id, file : File]) /\ removed \subseteq Id
  /\ crashed \in BOOLEAN /\ refused \in BOOLEAN /\ overlaps \in 0 .. MaxOverlaps

-----------------------------------------------------------------------------
(* The inductive invariant.                                                *)

\* The queries that have not been executed, numbered from the last one back.
Left == Len(queue) + Len(todo)
Pending ==
  [d \in 0 .. Left - 1 |-> IF d < Len(todo) THEN todo[Len(todo) - d] ELSE queue[Left - d]]

\* The comments behind the last n queries are on posts that are there.
IsComment(q) == \E k \in Id : Complete(k) /\ q = Put("post", k, "comments", Given)
CommentsFrom(n) == \A d \in n .. Left - 1 : IsComment(Pending[d])

\* Nothing happened that a serial use of the menu could not bring about.
Sound ==
  /\ ~crashed
  /\ Left <= Capacity
  /\ ui \in {"create", "delete"} => todo = <<>> /\ Len(queue) + 6 <= Capacity

\* Ids grow, and only a created post has a row or was removed.
IdsIncrease == \A i, j \in DOMAIN created : i < j => created[i].id < created[j].id
RowsKnown ==
  \A k \in Id : post[k] # NoPost \/ k \in removed => \E i \in DOMAIN created : created[i].id = k

\* The blocks of a post hold its file, and are the blocks of no other post.
DiskHolds == \A k \in Id, x \in Block : Complete(k) /\ Covers(k, x) => disk[x] = post[k].filename
PostsApart == \A j, k \in Id, x \in Block : Covers(j, x) /\ Covers(k, x) => j = k

\* A free region, other than those in except, has no block of a post or another region.
InFree(k, x) ==
  NULL \notin {free[k].from, free[k].to} /\ x \in free[k].from .. free[k].to - 1
FreeApart(except) ==
  /\ \A j, k \in Id \ except, x \in Block : InFree(j, x) /\ InFree(k, x) => j = k
  /\ \A k \in Id \ except, j \in Id, x \in Block : InFree(k, x) => ~Covers(j, x)

\* Before the first removal there is one region, and the posts fill the store up to it.
Packed(to) ==
  /\ \A k \in Id \ {1} : free[k] = NoRegion
  /\ to \in Nat /\ free[1].to = StoreTo
  /\ \A x \in Block : x < to => \E k \in Id : Covers(k, x)

\* The rows of the posts other than those in except.
RowsWhole(except) == \A k \in Id \ except : post[k] = NoPost \/ Complete(k)
RowsKept(except) ==
  \A i \in DOMAIN created :
    created[i].id \notin removed \cup except => post[created[i].id].filename = created[i].file
IdsCounted(except) ==
  \A i \in DOMAIN created : created[i].id \notin except => created[i].id <= row_count

\* No create or delete is pending.
SettledJob ==
  /\ ui = "create" => Fits(job.key, job.size) /\ job.at = free[job.key].from
  /\ ui = "delete" => Complete(job.key) /\ job.size = post[job.key].filesize
SettledTables ==
  /\ RowsWhole({}) /\ RowsKept({}) /\ IdsCounted({})
  /\ FreeApart({})
  /\ removed = {} => Packed(free[1].from)
Settled == CommentsFrom(0) /\ SettledTables /\ SettledJob

\* A create is: of its six queries those below Left are pending, the others executed.
CreateQueries(id, file, size, at, key) ==
  /\ CommentsFrom(6)
  /\ Pending[0] = Put("post", id, "likes", 0)
  /\ Left > 1 => Pending[1] = Put("post", id, "address", at)
  /\ Left > 2 => Pending[2] = Put("post", id, "filesize", size)
  /\ Left > 3 => Pending[3] = Put("post", id, "filename", file)
  /\ Left > 4 => Pending[4] = Put("post", id, "username", Given)
  /\ Left > 5 => Pending[5] = Put("free_space", key, "from", at + size)
CreateRow(id, file, size, at, key) ==
  /\ post[id].address = IF Left > 1 THEN NULL ELSE at
  /\ post[id].filesize = IF Left > 2 THEN NULL ELSE size
  /\ post[id].filename = IF Left > 3 THEN NULL ELSE file
  /\ free[key].from = IF Left > 5 THEN at ELSE at + size
CreateIds(id, file) ==
  /\ created # <<>> /\ created[Len(created)] = [id |-> id, file |-> file]
  /\ id \notin removed
  /\ Left <= 4 => id <= row_count
  /\ RowsWhole({id}) /\ RowsKept({id}) /\ IdsCounted({id})
  /\ id <= row_count + 1
CreateSpace(id, file, size, at, key) ==
  /\ \A x \in Block : x \in at .. at + size - 1 =>
       /\ disk[x] = file
       /\ \A k \in Id \ {id} : ~Covers(k, x)
       /\ \A k \in Id : InFree(k, x) => k = key /\ Left > 5
  /\ \A j, k \in Id, x \in Block : InFree(j, x) /\ InFree(k, x) => j = k
  /\ \A k \in Id, j \in Id \ {id}, x \in Block : InFree(k, x) => ~Covers(j, x)
  /\ removed = {} => key = 1 /\ Packed(at)
Creating(id, file, size, at, key) ==
  /\ ui \in {"menu", "submit"} /\ Left > 0
  /\ CreateQueries(id, file, size, at, key)
  /\ CreateRow(id, file, size, at, key)
  /\ CreateIds(id, file)
  /\ CreateSpace(id, file, size, at, key)

\* A delete is: the same for its three queries.
DeleteQueries(k, at, size) ==
  /\ CommentsFrom(3)
  /\ Pending[0] = Del(k)
  /\ Left > 1 => Pending[1] = Put("free_space", k, "to", at + size)
  /\ Left > 2 => Pending[2] = Put("free_space", k, "from", at)
DeleteRows(k, at, size) ==
  /\ Complete(k) /\ post[k].address = at /\ post[k].filesize = size
  /\ Left <= 2 => free[k].from = at
  /\ Left <= 1 => free[k].to = at + size
  /\ k \in removed
  /\ RowsWhole({}) /\ RowsKept({}) /\ IdsCounted({})
  /\ FreeApart({k})
Deleting(k, at, size) ==
  /\ ui \in {"menu", "submit"} /\ Left > 0
  /\ DeleteQueries(k, at, size)
  /\ DeleteRows(k, at, size)

Phase ==
  \/ Settled
  \/ \E id, key \in Id, file \in File, size \in Sizes, at \in Nat :
       Creating(id, file, size, at, key)
  \/ \E k \in Id, at \in Nat, size \in Sizes : Deleting(k, at, size)

Lasting == IdsIncrease /\ RowsKnown /\ DiskHolds /\ PostsApart

SerialInv ==
  overlaps = 0 => Sound /\ Lasting /\ Phase /\ (removed = {} => ~refused)

Inv == TypeInv /\ SerialInv

-----------------------------------------------------------------------------
(* Types are kept.                                                         *)

\* Sizes are numbers, and no number is NULL.
LEMMA SizeNat == \A n \in Sizes : n \in Nat /\ n # NULL
  BY Zenon

\* The queries the operations put together have the types of queries.
LEMMA QueryTypes ==
  /\ \A k \in Id, v \in Nat : \A c \in FreeColumn : Put("free_space", k, c, v) \in Query
  /\ \A k \in Id, c \in PostColumn : \A v \in Values(c) : Put("post", k, c, v) \in Query
  /\ \A k \in Id : Del(k) \in Query
<1>1. ASSUME NEW k \in Id, NEW v \in Nat, NEW c \in FreeColumn
      PROVE  Put("free_space", k, c, v) \in FreePut
  BY DEF Put, FreePut
<1>2. ASSUME NEW k \in Id, NEW c \in PostColumn, NEW v \in Values(c)
      PROVE  Put("post", k, c, v) \in PostPut
  BY DEF Put, PostPut, Values
<1>3. ASSUME NEW k \in Id PROVE Del(k) \in PostDelete
  BY DEF Del, PostDelete
<1>4. QED
  BY <1>1, <1>2, <1>3 DEF Query

\* A put on 'post' changes one column of one row.
LEMMA PostPutEffect ==
  ASSUME TypeInv, NEW k \in Id, NEW c \in PostColumn, NEW v \in Values(c),
         post' = [post EXCEPT ![k] = [@ EXCEPT ![c] = v]]
  PROVE  /\ post' \in [Id -> [PostColumn -> Nat \cup File \cup {NULL}]]
         /\ \A j \in Id, d \in PostColumn :
              post'[j][d] = IF j = k /\ d = c THEN v ELSE post[j][d]
         /\ \A j \in Id \ {k} : post'[j] = post[j]
<1>1. v \in Nat \cup File \cup {NULL}
  BY DEF Values
<1>2. QED
  BY <1>1 DEF TypeInv

\* And so does one on 'free_space'.
LEMMA FreePutEffect ==
  ASSUME TypeInv, NEW k \in Id, NEW c \in FreeColumn, NEW v \in Nat,
         free' = [free EXCEPT ![k] = [@ EXCEPT ![c] = v]]
  PROVE  /\ free' \in [Id -> [FreeColumn -> Nat \cup {NULL}]]
         /\ \A j \in Id, d \in FreeColumn :
              free'[j][d] = IF j = k /\ d = c THEN v ELSE free[j][d]
         /\ \A j \in Id \ {k} : free'[j] = free[j]
  BY DEF TypeInv

\* The row of a deleted post is empty.
LEMMA DeleteEffect ==
  ASSUME TypeInv, NEW k \in Id, post' = [post EXCEPT ![k] = NoPost]
  PROVE  /\ post' \in [Id -> [PostColumn -> Nat \cup File \cup {NULL}]]
         /\ \A j \in Id, d \in PostColumn :
              post'[j][d] = IF j = k THEN NULL ELSE post[j][d]
         /\ \A j \in Id \ {k} : post'[j] = post[j]
  BY DEF TypeInv, NoPost

\* The program begins with typed state.
LEMMA InitTyped == Init => TypeInv
<1> SUFFICES ASSUME Init PROVE TypeInv
  OBVIOUS
<1>1. 1 \in Id /\ StoreFrom \in Nat /\ StoreTo \in Nat
  BY DEF Id
<1>2. NoRegion \in [FreeColumn -> Nat \cup {NULL}]
  BY DEF NoRegion
<1>3. [from |-> StoreFrom, to |-> StoreTo] \in [FreeColumn -> Nat \cup {NULL}]
  BY DEF FreeColumn
<1>4. free \in [Id -> [FreeColumn -> Nat \cup {NULL}]]
  BY <1>1, <1>2, <1>3 DEF Init
<1>5. NoJob \in [file : File \cup {NULL}, size : Sizes \cup {NULL},
                 key : Id \cup {NULL}, at : Nat \cup {NULL}]
  BY DEF NoJob
<1>6. NoPost \in [PostColumn -> Nat \cup File \cup {NULL}] /\ \A c \in PostColumn : NoPost[c] = NULL
  BY DEF NoPost
<1>7. /\ post \in [Id -> [PostColumn -> Nat \cup File \cup {NULL}]]
      /\ \A k \in Id, c \in PostColumn : post[k][c] \in Values(c) \cup {NULL}
  BY <1>6 DEF Init
<1>8. /\ row_count = 0 /\ queue = <<>> /\ ui = "menu" /\ job = NoJob /\ todo = <<>>
      /\ crashed = FALSE /\ created = <<>> /\ removed = {} /\ refused = FALSE /\ overlaps = 0
      /\ disk = [x \in Block |-> NULL]
  BY DEF Init
<1>9. /\ queue \in Seq(Query) /\ todo \in Seq(Query) /\ Len(queue) <= Capacity
      /\ created \in Seq([id : Id, file : File])
  <2> HIDE DEF Query
  <2>1. Len(queue) = 0 /\ 0 <= Capacity
    BY <1>8
  <2>2. QED
    BY <1>8, <2>1, EmptySeq
<1>10. disk \in [Block -> File \cup {NULL}]
  BY <1>8
<1>11. /\ row_count \in Nat /\ overlaps \in 0 .. MaxOverlaps
       /\ crashed \in BOOLEAN /\ refused \in BOOLEAN
  <2>1. row_count = 0 /\ overlaps = 0
    BY <1>8
  <2>2. crashed \in BOOLEAN /\ refused \in BOOLEAN
    BY <1>8, Zenon
  <2>3. QED
    BY <2>1, <2>2
<1>12. ui \in {"menu", "create", "delete", "submit"} /\ (ui = "submit" <=> todo # <<>>)
      /\ ui # "create" /\ ui # "delete"
  BY <1>8
<1>13. removed \subseteq Id
  BY <1>8
<1>14. QED
  BY <1>4, <1>5, <1>7, <1>8, <1>9, <1>10, <1>11, <1>12, <1>13, Zenon DEF TypeInv

\* Begin moves to the place it names.
LEMMA BeginTyped ==
  ASSUME TypeInv, NEW next, Begin(next)
  PROVE  ui' = next /\ overlaps' \in 0 .. MaxOverlaps
  BY DEF Begin, TypeInv

\* The job of a create is complete: a file, its size, a row and a position.
LEMMA FindSpaceTyped ==
  ASSUME TypeInv, NEW f \in File, NEW n \in Sizes, CreateFindSpace(f, n)
  PROVE  TypeInv'
<1>1. ui' = "create" /\ overlaps' \in 0 .. MaxOverlaps /\ ui = "menu"
  BY BeginTyped DEF CreateFindSpace, Begin
<1>2. PICK k \in Id : /\ FitsFirst(k, n)
                      /\ job' = [file |-> f, size |-> n, key |-> k, at |-> free[k].from]
  BY DEF CreateFindSpace
<1>3. free[k].from \in Nat
  BY <1>2 DEF FitsFirst, Fits, TypeInv, FreeColumn
<1>4. NULL \notin {f, n, k, free[k].from}
  BY <1>3 DEF Id
<1>5. QED
  BY <1>1, <1>2, <1>3, <1>4 DEF TypeInv, CreateFindSpace

\* The six queries are queries, of an id within the bound.
LEMMA CreateWriteTyped ==
  ASSUME TypeInv, CreateWrite
  PROVE  TypeInv'
<1> DEFINE id == get_new_post_id
           end == job.at + job.size
<1>1. id \in Id
  BY DEF CreateWrite, get_new_post_id, TypeInv, Id
<1>2. job.file \in File /\ job.size \in Sizes /\ job.key \in Id /\ job.at \in Nat
  BY DEF CreateWrite, TypeInv
<1>3. end \in Nat
  <2>1. job.size \in Nat
    BY <1>2, SizeNat
  <2>2. QED
    BY <1>2, <2>1
<1>4. /\ Put("free_space", job.key, "from", end) \in Query
      /\ Put("post", id, "username", Given) \in Query
      /\ Put("post", id, "filename", job.file) \in Query
      /\ Put("post", id, "filesize", job.size) \in Query
      /\ Put("post", id, "address", job.at) \in Query
      /\ Put("post", id, "likes", 0) \in Query
  <2>1. "from" \in FreeColumn
    BY DEF FreeColumn
  <2>2. /\ {"username", "filename", "filesize", "address", "likes"} \subseteq PostColumn
        /\ Given \in Values("username") /\ job.file \in Values("filename")
        /\ job.size \in Values("filesize") /\ job.at \in Values("address") /\ 0 \in Values("likes")
    BY <1>2 DEF PostColumn, Values, Given
  <2> HIDE DEF id, end
  <2>3. QED
    BY <1>1, <1>2, <1>3, <2>1, <2>2, QueryTypes
<1>5. todo' \in Seq(Query) /\ todo' # <<>>
  <2> HIDE DEF Query
  <2>1. todo' = << Put("free_space", job.key, "from", end),
                Put("post", id, "username", Given),
                Put("post", id, "filename", job.file),
                Put("post", id, "filesize", job.size),
                Put("post", id, "address", job.at),
                Put("post", id, "likes", 0) >>
    BY DEF CreateWrite
  <2>2. QED
    BY <1>4, <2>1
<1>6. disk' \in [Block -> File \cup {NULL}]
  BY <1>2 DEF CreateWrite, TypeInv
<1>7. created' \in Seq([id : Id, file : File])
  BY <1>1, <1>2 DEF CreateWrite, TypeInv
<1>8. job' \in [file : File \cup {NULL}, size : Sizes \cup {NULL},
                key : Id \cup {NULL}, at : Nat \cup {NULL}]
  BY DEF CreateWrite, NoJob
<1>9. QED
  BY <1>5, <1>6, <1>7, <1>8 DEF TypeInv, CreateWrite

\* A delete takes a size that some post has.
LEMMA ReadSizeTyped ==
  ASSUME TypeInv, NEW k \in Id, DeleteReadSize(k)
  PROVE  TypeInv'
<1>1. ui' = "delete" /\ overlaps' \in 0 .. MaxOverlaps /\ ui = "menu"
  BY BeginTyped DEF DeleteReadSize, Begin
<1>2. post[k].filesize \in Sizes
  BY DEF DeleteReadSize, TypeInv, PostColumn, Values
<1>3. job' = [file |-> NULL, size |-> post[k].filesize, key |-> k, at |-> NULL]
  BY DEF DeleteReadSize, NoJob
<1>4. k # NULL /\ post[k].filesize # NULL
  <2>1. k \in Nat /\ NULL \notin Nat
    BY DEF Id
  <2>2. k # NULL
    BY <2>1, Zenon
  <2>3. QED
    BY <1>2, <2>2, SizeNat
<1>5. job'.size \in Sizes /\ job'.key \in Id /\ job'.size # NULL /\ job'.key # NULL
      /\ job' \in [file : File \cup {NULL}, size : Sizes \cup {NULL},
                  key : Id \cup {NULL}, at : Nat \cup {NULL}]
  BY <1>2, <1>3, <1>4
<1>6. QED
  BY <1>1, <1>5 DEF TypeInv, DeleteReadSize

\* The three queries of a delete are queries, since address and size are numbers.
LEMMA ReadAddressTyped ==
  ASSUME TypeInv, DeleteReadAddress
  PROVE  TypeInv'
<1> DEFINE k == job.key
           at == post[k].address
<1>1. ui = "delete" /\ k \in Id /\ job.size \in Sizes
  BY DEF DeleteReadAddress, TypeInv
<1>2. at \in Nat \cup {NULL}
  BY <1>1 DEF TypeInv, PostColumn, Values
<1>3. job' \in [file : File \cup {NULL}, size : Sizes \cup {NULL},
                key : Id \cup {NULL}, at : Nat \cup {NULL}]
  BY DEF DeleteReadAddress, NoJob
<1>4. CASE at = NULL
  BY <1>1, <1>3, <1>4 DEF TypeInv, DeleteReadAddress
<1>5. CASE at # NULL
  <2>1. at \in Nat /\ at + job.size \in Nat
    <3>1. job.size \in Nat
      BY <1>1, SizeNat
    <3>2. QED
      BY <1>2, <1>5, <3>1
  <2>2. /\ Put("free_space", k, "from", at) \in Query
        /\ Put("free_space", k, "to", at + job.size) \in Query /\ Del(k) \in Query
    <3>1. "from" \in FreeColumn /\ "to" \in FreeColumn
      BY DEF FreeColumn
    <3> HIDE DEF k, at
    <3>2. QED
      BY <1>1, <2>1, <3>1, QueryTypes
  <2>3. /\ todo' = << Put("free_space", k, "from", at),
                      Put("free_space", k, "to", at + job.size), Del(k) >>
        /\ removed' = removed \cup {k} /\ ui' = "submit"
    BY <1>5 DEF DeleteReadAddress
  <2>4. todo' \in Seq(Query) /\ todo' # <<>>
    BY <2>2, <2>3
  <2>5. QED
    BY <1>1, <1>3, <2>3, <2>4 DEF TypeInv, DeleteReadAddress
<1>6. QED
  BY <1>4, <1>5

\* The query of a comment is a query.
LEMMA CommentTyped ==
  ASSUME TypeInv, NEW k \in Id, Comment(k)
  PROVE  TypeInv'
<1>1. ui' = "submit" /\ overlaps' \in 0 .. MaxOverlaps /\ ui = "menu"
  BY BeginTyped DEF Comment, Begin
<1>2. Put("post", k, "comments", Given) \in Query
  <2>1. "comments" \in PostColumn /\ Given \in Values("comments")
    BY DEF PostColumn, Values, Given
  <2>2. QED
    BY <2>1, QueryTypes
<1>3. todo' \in Seq(Query) /\ todo' # <<>>
  BY <1>2 DEF Comment
<1>4. QED
  BY <1>1, <1>3 DEF TypeInv, Comment

\* A query moves from the locals of the main thread to the queue, or is dropped.
LEMMA SubmitTyped ==
  ASSUME TypeInv, Submit
  PROVE  TypeInv'
<1>1. /\ todo \in Seq(Query) /\ todo # <<>> /\ queue \in Seq(Query) /\ Len(queue) <= Capacity
      /\ queue' = IF Len(queue) = Capacity THEN queue ELSE Append(queue, Head(todo))
      /\ todo' = Tail(todo)
      /\ ui' = IF Len(todo) = 1 THEN "menu" ELSE "submit"
  BY DEF TypeInv, Submit
<1>2. queue' \in Seq(Query) /\ Len(queue') <= Capacity
  BY <1>1
<1>3. todo' \in Seq(Query) /\ (ui' = "submit" <=> todo' # <<>>)
  <2> HIDE DEF Query
  <2>1. todo' \in Seq(Query) /\ Len(todo') = Len(todo) - 1 /\ Len(todo) \in Nat
    BY <1>1, HeadTailProperties
  <2>2. todo' = <<>> <=> Len(todo') = 0
    BY <2>1, EmptySeq
  <2>3. QED
    BY <1>1, <2>1, <2>2
<1>4. UNCHANGED <<post, free, row_count, disk, job, crashed, histVars>>
  BY DEF Submit
<1>5. ui' \in {"menu", "submit"}
  BY <1>1
<1>6. QED
  BY <1>2, <1>3, <1>4, <1>5 DEF TypeInv, histVars

\* What a query stores has the type of its column.
LEMMA ExecuteTyped ==
  ASSUME TypeInv, Execute
  PROVE  TypeInv'
<1> DEFINE q == Head(queue)
<1>1. /\ q \in Query /\ queue' \in Seq(Query) /\ Len(queue') <= Capacity
      /\ UNCHANGED <<disk, ui, job, todo, created, removed, refused, overlaps>>
  BY DEF TypeInv, Execute, histVars
<1>2. /\ post' \in [Id -> [PostColumn -> Nat \cup File \cup {NULL}]]
      /\ \A j \in Id, d \in PostColumn : post'[j][d] \in Values(d) \cup {NULL}
      /\ free' \in [Id -> [FreeColumn -> Nat \cup {NULL}]]
      /\ row_count' \in Nat /\ crashed' \in BOOLEAN
  <2> HIDE DEF q
  <2>1. CASE ExecutePut(q)
    <3>1. q \in PostPut \cup FreePut
      BY <1>1, <2>1 DEF ExecutePut, Query, PostDelete
    <3>2. CASE q.table = "post"
      <4>1. q \in PostPut
        BY <3>1, <3>2 DEF FreePut
      <4>2. PICK k \in Id, c \in PostColumn, v \in Nat \cup File :
               q.key = k /\ q.column = c /\ q.value = v /\ v \in Values(c)
        BY <4>1 DEF PostPut
      <4>3. /\ post' = [post EXCEPT ![k] = [@ EXCEPT ![c] = v]]
            /\ row_count' = row_count + 1 /\ free' = free /\ crashed' = crashed
        BY <2>1, <3>2, <4>2 DEF ExecutePut
      <4>4. /\ post' \in [Id -> [PostColumn -> Nat \cup File \cup {NULL}]]
            /\ \A j \in Id, d \in PostColumn :
                 post'[j][d] = IF j = k /\ d = c THEN v ELSE post[j][d]
          <5>1. v \in Values(c) /\ post' = [post EXCEPT ![k] = [@ EXCEPT ![c] = v]]
            BY <4>2, <4>3
          <5>2. QED
            BY <5>1, PostPutEffect
      <4>5. QED
        BY <4>2, <4>3, <4>4 DEF TypeInv
    <3>3. CASE q.table # "post"
      <4>1. q \in FreePut
        BY <3>1, <3>3 DEF PostPut
      <4>2. PICK k \in Id, c \in FreeColumn, v \in Nat :
               q.key = k /\ q.column = c /\ q.value = v
        BY <4>1 DEF FreePut
      <4>3. /\ free' = [free EXCEPT ![k] = [@ EXCEPT ![c] = v]]
            /\ post' = post /\ row_count' = row_count /\ crashed' = crashed
        BY <2>1, <3>3, <4>2 DEF ExecutePut
      <4>4. free' \in [Id -> [FreeColumn -> Nat \cup {NULL}]]
        BY <4>2, <4>3, FreePutEffect
      <4>5. QED
        BY <4>3, <4>4 DEF TypeInv
    <3>4. QED
      BY <3>2, <3>3
  <2>2. CASE ExecuteDelete(q)
    <3>1. q.key \in Id
      BY <1>1, <2>2 DEF ExecuteDelete, Query, PostPut, FreePut, PostDelete
    <3>2. free' = free /\ row_count' = row_count
      BY <2>2 DEF ExecuteDelete
    <3>3. CASE post[q.key] = NoPost
      BY <2>2, <3>2, <3>3 DEF ExecuteDelete, TypeInv
    <3>4. CASE post[q.key] # NoPost
      <4>1. post' = [post EXCEPT ![q.key] = NoPost] /\ crashed' = crashed
        BY <2>2, <3>4 DEF ExecuteDelete
      <4>2. QED
        BY <3>1, <3>2, <4>1, DeleteEffect DEF TypeInv
    <3>5. QED
      BY <3>3, <3>4
  <2>3. QED
    BY <2>1, <2>2 DEF Execute, q
<1>3. QED
  BY <1>1, <1>2 DEF TypeInv

\* Every step keeps the types.
LEMMA NextTyped ==
  ASSUME TypeInv, [Next]_vars
  PROVE  TypeInv'
<1>1. ASSUME NEW f \in File, NEW n \in Sizes, CreateFindSpace(f, n) PROVE TypeInv'
  BY <1>1, FindSpaceTyped
<1>2. ASSUME NEW f \in File, NEW n \in Sizes, CreateNoSpace(f, n) PROVE TypeInv'
  BY <1>2 DEF CreateNoSpace, TypeInv
<1>3. CASE CreateWrite
  BY <1>3, CreateWriteTyped
<1>4. ASSUME NEW k \in Id, DeleteReadSize(k) PROVE TypeInv'
  BY <1>4, ReadSizeTyped
<1>5. ASSUME NEW k \in Id, Comment(k) PROVE TypeInv'
  BY <1>5, CommentTyped
<1>6. CASE DeleteReadAddress
  BY <1>6, ReadAddressTyped
<1>7. CASE Submit
  BY <1>7, SubmitTyped
<1>8. CASE Execute
  BY <1>8, ExecuteTyped
<1>9. CASE UNCHANGED vars
  BY <1>9 DEF vars, TypeInv
<1>10. QED
  BY <1>1, <1>2, <1>3, <1>4, <1>5, <1>6, <1>7, <1>8, <1>9 DEF Next

\* The typing invariant.
LEMMA TypeInvariant == Spec => []TypeInv
<1>1. TypeInv /\ [Next]_vars => TypeInv'
  BY NextTyped
<1>2. QED
  BY InitTyped, <1>1, PTL DEF Spec

\* The types of all variables, overlaps of operations included.
THEOREM PostTypes == Spec => []TypeOK
<1>1. TypeInv => TypeOK
  BY DEF TypeInv, TypeOK
<1>2. QED
  BY <1>1, TypeInvariant, PTL
-----------------------------------------------------------------------------
(* The pending queries.                                                    *)

\* The list of pending queries, as each operation changes it.
LEMMA PendingType ==
  ASSUME TypeInv
  PROVE  /\ Left \in Nat /\ Len(queue) \in Nat /\ Len(todo) \in Nat
         /\ \A d \in 0 .. Left - 1 : Pending[d] \in Query
<1> HIDE DEF Query
<1>1. queue \in Seq(Query) /\ todo \in Seq(Query)
  BY DEF TypeInv
<1>2. /\ Len(queue) \in Nat /\ Len(todo) \in Nat
      /\ \A i \in 1 .. Len(queue) : queue[i] \in Query
      /\ \A i \in 1 .. Len(todo) : todo[i] \in Query
  BY <1>1, LenProperties, ElementOfSeq
<1>3. QED
  BY <1>2 DEF Left, Pending

\* A submit moves a query, and the list stays as it is.
LEMMA SubmitPending ==
  ASSUME TypeInv, Left <= Capacity, Submit
  PROVE  Left' = Left /\ Pending' = Pending
<1> HIDE DEF Query
<1>1. /\ queue \in Seq(Query) /\ todo \in Seq(Query) /\ todo # <<>>
      /\ Len(queue) \in Nat /\ Len(todo) \in Nat
  BY PendingType DEF TypeInv, Submit
<1>2. /\ Head(todo) \in Query /\ Tail(todo) \in Seq(Query)
      /\ Len(Tail(todo)) = Len(todo) - 1
      /\ \A i \in 1 .. Len(todo) - 1 : Tail(todo)[i] = todo[i + 1]
      /\ Head(todo) = todo[1]
  BY <1>1, HeadTailProperties
<1>3. Len(todo) > 0
  BY <1>1, EmptySeq
<1>4. /\ queue' = Append(queue, Head(todo)) /\ todo' = Tail(todo)
  <2>1. Len(queue) # Capacity
    BY <1>1, <1>3 DEF Left
  <2>2. QED
    BY <2>1 DEF Submit
<1>5. /\ Len(queue') = Len(queue) + 1
      /\ \A i \in 1 .. Len(queue) : queue'[i] = queue[i]
      /\ queue'[Len(queue) + 1] = Head(todo)
  BY <1>1, <1>2, <1>4, AppendProperties
<1>6. Left' = Left
  BY <1>1, <1>2, <1>4, <1>5 DEF Left
<1>7. ASSUME NEW d \in 0 .. Left - 1
      PROVE  (IF d < Len(todo') THEN todo'[Len(todo') - d] ELSE queue'[Left - d])
             = IF d < Len(todo) THEN todo[Len(todo) - d] ELSE queue[Left - d]
  <2>1. CASE d < Len(todo) - 1
    <3>1. Len(todo') = Len(todo) - 1 /\ Len(todo) - 1 - d \in 1 .. Len(todo) - 1
      BY <1>1, <1>2, <1>4, <2>1
    <3>2. todo'[Len(todo') - d] = todo[Len(todo) - d]
      BY <1>1, <1>2, <1>4, <3>1
    <3>3. QED
      BY <1>1, <2>1, <3>1, <3>2
  <2>2. CASE d = Len(todo) - 1
    BY <1>1, <1>2, <1>4, <1>5, <2>2 DEF Left
  <2>3. CASE d >= Len(todo)
    <3>1. Left - d \in 1 .. Len(queue)
      BY <1>1, <2>3 DEF Left
    <3>2. QED
      BY <1>1, <1>2, <1>4, <1>5, <2>3, <3>1
  <2>4. QED
    BY <1>1, <2>1, <2>2, <2>3
<1>8. QED
  BY <1>6, <1>7 DEF Pending

\* A pool thread takes the query that is farthest from the end.
LEMMA ExecutePending ==
  ASSUME TypeInv, Execute
  PROVE  /\ Left > 0 /\ Left' = Left - 1 /\ Len(queue') = Len(queue) - 1
         /\ Head(queue) = Pending[Left - 1]
         /\ \A d \in 0 .. Left - 2 : Pending'[d] = Pending[d]
<1> HIDE DEF Query
<1>1. /\ queue \in Seq(Query) /\ queue # <<>> /\ todo' = todo
      /\ queue' = Tail(queue)
      /\ Len(queue) \in Nat /\ Len(todo) \in Nat
  BY PendingType DEF TypeInv, Execute
<1>2. /\ Len(Tail(queue)) = Len(queue) - 1
      /\ \A i \in 1 .. Len(queue) - 1 : Tail(queue)[i] = queue[i + 1]
      /\ Head(queue) = queue[1]
  BY <1>1, HeadTailProperties
<1>3. Len(queue) > 0
  BY <1>1, EmptySeq
<1>4. Left > 0 /\ Left' = Left - 1
  BY <1>1, <1>2, <1>3 DEF Left
<1>5. Head(queue) = Pending[Left - 1]
  BY <1>1, <1>2, <1>3 DEF Left, Pending
<1>6. ASSUME NEW d \in 0 .. Left - 2
      PROVE  Pending'[d] = Pending[d]
  <2>0. Left \in Nat /\ d \in 0 .. Left' - 1 /\ d \in 0 .. Left - 1
    BY <1>1, <1>4, PendingType
  <2>1. /\ Pending'[d] = IF d < Len(todo) THEN todo[Len(todo) - d] ELSE queue'[Left' - d]
        /\ Pending[d] = IF d < Len(todo) THEN todo[Len(todo) - d] ELSE queue[Left - d]
    BY <1>1, <2>0 DEF Pending
  <2>2. CASE d < Len(todo)
    BY <2>1, <2>2
  <2>3. CASE ~(d < Len(todo))
    <3>1. Left - 1 - d \in 1 .. Len(queue) - 1
      BY <1>1, <2>3 DEF Left
    <3>2. Left' - d = Left - 1 - d /\ (Left - 1 - d) + 1 = Left - d
      BY <1>4, <2>0
    <3>3. queue'[Left - 1 - d] = queue[(Left - 1 - d) + 1]
      BY <1>1, <1>2, <3>1
    <3>4. QED
      BY <2>1, <2>3, <3>2, <3>3
  <2>4. QED
    BY <2>2, <2>3
<1>7. QED
  BY <1>1, <1>2, <1>4, <1>5, <1>6

\* An operation puts its queries behind the others.
LEMMA BeginPending ==
  ASSUME TypeInv, todo = <<>>, queue' = queue, NEW s \in Seq(Query), todo' = s
  PROVE  /\ Left = Len(queue) /\ Left' = Left + Len(s) /\ Len(s) \in Nat
         /\ \A d \in 0 .. Left' - 1 :
              Pending'[d] = IF d < Len(s) THEN s[Len(s) - d] ELSE Pending[d - Len(s)]
<1> HIDE DEF Query
<1>1. Len(queue) \in Nat /\ Len(todo) = 0 /\ Len(s) \in Nat
  BY PendingType, EmptySeq, LenProperties
<1>2. Left = Len(queue) /\ Left' = Left + Len(s)
  BY <1>1 DEF Left
<1>3. ASSUME NEW d \in 0 .. Left' - 1
      PROVE  Pending'[d] = IF d < Len(s) THEN s[Len(s) - d] ELSE Pending[d - Len(s)]
  <2>1. Pending'[d] = IF d < Len(s) THEN s[Len(s) - d] ELSE queue[Left' - d]
    BY <1>1, <1>2 DEF Pending
  <2>2. CASE d < Len(s)
    BY <2>1, <2>2
  <2>3. CASE ~(d < Len(s))
    <3>1. d - Len(s) \in 0 .. Left - 1
      BY <1>1, <1>2, <2>3
    <3>2. Pending[d - Len(s)] = queue[Left - (d - Len(s))]
      BY <1>1, <1>2, <3>1 DEF Pending
    <3>3. Left - (d - Len(s)) = Left' - d
      BY <1>1, <1>2
    <3>4. QED
      BY <2>1, <2>3, <3>2, <3>3
  <2>4. QED
    BY <2>2, <2>3
<1>4. QED
  BY <1>1, <1>2, <1>3

\* With nothing left the queue is empty.
LEMMA QuietPending == TypeInv /\ Quiet => Left = 0
<1> SUFFICES ASSUME TypeInv, Quiet PROVE Left = 0
  OBVIOUS
<1>1. todo = <<>> /\ queue = <<>>
  BY DEF TypeInv, Quiet
<1>2. QED
  BY <1>1 DEF Left

-----------------------------------------------------------------------------
(* What stays when nothing changes it.                                     *)

\* Whether a post is complete, and its blocks, depend on three columns.
LEMMA SameRow ==
  ASSUME NEW k, post'[k].filename = post[k].filename,
         post'[k].filesize = post[k].filesize, post'[k].address = post[k].address
  PROVE  (Complete(k)' <=> Complete(k)) /\ \A x : Covers(k, x)' <=> Covers(k, x)
  BY DEF Complete, Covers

\* Pending comments stay comments on rows that are there.
LEMMA SameComments ==
  ASSUME TypeInv, NEW n \in Nat, CommentsFrom(n),
         Left' <= Left, \A d \in 0 .. Left' - 1 : Pending'[d] = Pending[d], Left' \in Nat,
         \A k \in Id : Complete(k) => Complete(k)'
  PROVE  CommentsFrom(n)'
<1>1. Left \in Nat
  BY PendingType
<1>2. ASSUME NEW d \in n .. Left' - 1
      PROVE  \E k \in Id : Complete(k)' /\ Pending'[d] = Put("post", k, "comments", Given)
  <2>1. d \in n .. Left - 1 /\ d \in 0 .. Left' - 1
    <3> DEFINE m == Left'
               l == Left
    <3>1. m \in Nat /\ l \in Nat /\ m <= l /\ d \in n .. m - 1
      BY <1>1
    <3> HIDE DEF m, l
    <3>2. d \in n .. l - 1 /\ d \in 0 .. m - 1
      BY <3>1
    <3>3. QED
      BY <3>2 DEF m, l
  <2>2. IsComment(Pending[d]) /\ Pending'[d] = Pending[d]
    BY <2>1 DEF CommentsFrom
  <2>3. PICK k \in Id : Complete(k) /\ Pending[d] = Put("post", k, "comments", Given)
    BY <2>2 DEF IsComment
  <2>4. QED
    BY <2>2, <2>3
<1>3. QED
  BY <1>2 DEF CommentsFrom, IsComment

\* The rows are described without a look at the queue.
LEMMA SameTables ==
  ASSUME UNCHANGED <<post, free, disk, created, removed, row_count>>
  PROVE  /\ Lasting => Lasting'
         /\ SettledTables => SettledTables'
         /\ \A x : Packed(x) => Packed(x)'
<1>1. /\ post' = post /\ free' = free /\ disk' = disk /\ created' = created
      /\ removed' = removed /\ row_count' = row_count
  OBVIOUS
<1>2. Lasting => Lasting'
  BY <1>1 DEF Lasting, IdsIncrease, RowsKnown, DiskHolds, PostsApart, Complete, Covers
<1>3. ASSUME NEW x, Packed(x) PROVE Packed(x)'
  BY <1>1, <1>3 DEF Packed, Covers
<1>4. SettledTables => SettledTables'
  BY <1>1 DEF SettledTables, Packed, RowsWhole, RowsKept, IdsCounted, FreeApart,
              Complete, Covers, InFree
<1>5. QED
  BY <1>2, <1>3, <1>4

\* The invariant does not depend on where the pending queries are.
LEMMA SamePhase ==
  ASSUME TypeInv, UNCHANGED <<post, free, disk, created, removed, row_count>>,
         Left' = Left, Pending' = Pending
  PROVE  /\ Lasting => Lasting'
         /\ CommentsFrom(0) => CommentsFrom(0)'
         /\ SettledTables => SettledTables'
         /\ \A id, file, size, at, key :
              /\ CreateQueries(id, file, size, at, key) => CreateQueries(id, file, size, at, key)'
              /\ CreateRow(id, file, size, at, key) => CreateRow(id, file, size, at, key)'
              /\ CreateIds(id, file) => CreateIds(id, file)'
              /\ CreateSpace(id, file, size, at, key) => CreateSpace(id, file, size, at, key)'
         /\ \A k, at, size :
              /\ DeleteQueries(k, at, size) => DeleteQueries(k, at, size)'
              /\ DeleteRows(k, at, size) => DeleteRows(k, at, size)'
<1>1. /\ post' = post /\ free' = free /\ disk' = disk /\ created' = created
      /\ removed' = removed /\ row_count' = row_count
  OBVIOUS
<1>2. Lasting => Lasting'
  BY SameTables
<1>3. ASSUME NEW n, CommentsFrom(n) PROVE CommentsFrom(n)'
  BY <1>1, <1>3 DEF CommentsFrom, IsComment, Complete
<1>4. ASSUME NEW x, Packed(x) PROVE Packed(x)'
  BY <1>4, SameTables
<1>5. SettledTables => SettledTables'
  BY SameTables
<1>6. ASSUME NEW id, NEW file, NEW size, NEW at, NEW key
      PROVE  /\ CreateQueries(id, file, size, at, key) => CreateQueries(id, file, size, at, key)'
             /\ CreateRow(id, file, size, at, key) => CreateRow(id, file, size, at, key)'
             /\ CreateIds(id, file) => CreateIds(id, file)'
             /\ CreateSpace(id, file, size, at, key) => CreateSpace(id, file, size, at, key)'
  <2>1. CreateQueries(id, file, size, at, key) => CreateQueries(id, file, size, at, key)'
    BY <1>3 DEF CreateQueries, Put
  <2>2. CreateRow(id, file, size, at, key) => CreateRow(id, file, size, at, key)'
    BY <1>1 DEF CreateRow
  <2>3. CreateIds(id, file) => CreateIds(id, file)'
    BY <1>1 DEF CreateIds, RowsWhole, RowsKept, IdsCounted, Complete
  <2>4. CreateSpace(id, file, size, at, key) => CreateSpace(id, file, size, at, key)'
    BY <1>1, <1>4 DEF CreateSpace, Covers, InFree
  <2>5. QED
    BY <2>1, <2>2, <2>3, <2>4
<1>7. ASSUME NEW k, NEW at, NEW size
      PROVE  /\ DeleteQueries(k, at, size) => DeleteQueries(k, at, size)'
             /\ DeleteRows(k, at, size) => DeleteRows(k, at, size)'
  <2>1. DeleteQueries(k, at, size) => DeleteQueries(k, at, size)'
    BY <1>3 DEF DeleteQueries, Put, Del
  <2>2. DeleteRows(k, at, size) => DeleteRows(k, at, size)'
    BY <1>1 DEF DeleteRows, RowsWhole, RowsKept, IdsCounted, FreeApart, Complete, Covers, InFree
  <2>3. QED
    BY <2>1, <2>2
<1>8. QED
  BY <1>2, <1>3, <1>5, <1>6, <1>7
\* The phase of the creation stays what it was when nothing that it depends on changes.
LEMMA PhaseKept ==
  ASSUME TypeInv, UNCHANGED <<post, free, disk, created, removed, row_count>>,
         Left' = Left, Pending' = Pending, Phase,
         SettledJob => SettledJob', ui \in {"menu", "submit"} => ui' \in {"menu", "submit"}
  PROVE  Phase'
<1>1. CASE Settled
  BY <1>1, SamePhase DEF Phase, Settled
<1>2. ASSUME NEW id \in Id, NEW key \in Id, NEW file \in File, NEW size \in Sizes,
             NEW at \in Nat, Creating(id, file, size, at, key)
      PROVE  Phase'
  <2>1. Creating(id, file, size, at, key)'
    BY <1>2, SamePhase DEF Creating
  <2>2. QED
    BY <2>1 DEF Phase
<1>3. ASSUME NEW k \in Id, NEW at \in Nat, NEW size \in Sizes, Deleting(k, at, size)
      PROVE  Phase'
  <2>1. Deleting(k, at, size)'
    BY <1>3, SamePhase DEF Deleting
  <2>2. QED
    BY <2>1 DEF Phase
<1>4. QED
  BY <1>1, <1>2, <1>3 DEF Phase

-----------------------------------------------------------------------------
(* The operations of the menu, begun with no backlog.                      *)

\* Without a backlog only comments are pending, and there is room for six queries.
LEMMA NoBacklog ==
  ASSUME TypeInv, Phase, ui = "menu", ~Backlog
  PROVE  Settled /\ todo = <<>> /\ Len(queue) + 6 <= Capacity
<1>1. todo = <<>> /\ Len(queue) + 6 <= Capacity /\ Left = Len(queue)
  <2>1. todo = <<>>
    BY DEF TypeInv
  <2>2. QED
    BY <2>1, PendingType DEF Backlog, Left
<1>2. ASSUME Left > 0 PROVE Pending[0].column = "comments"
  <2>1. Pending[0] = queue[Left] /\ Left \in DOMAIN queue
    BY <1>1, <1>2, PendingType DEF Pending, TypeInv
  <2>2. QED
    BY <2>1 DEF Backlog
<1>3. ASSUME NEW id \in Id, NEW key \in Id, NEW file \in File, NEW size \in Sizes, NEW at \in Nat,
             Creating(id, file, size, at, key)
      PROVE  FALSE
  BY <1>2, <1>3 DEF Creating, CreateQueries, Put
<1>4. ASSUME NEW k \in Id, NEW at \in Nat, NEW size \in Sizes, Deleting(k, at, size)
      PROVE  FALSE
  BY <1>2, <1>4 DEF Deleting, DeleteQueries, Del
<1>5. QED
  BY <1>1, <1>3, <1>4 DEF Phase

\* Begin counts no overlap only without a backlog.
LEMMA BeginSerial ==
  ASSUME TypeInv, NEW next, Begin(next), overlaps' = 0
  PROVE  overlaps = 0 /\ ~Backlog /\ ui = "menu" /\ ui' = next
<1>1. overlaps \in Nat
  BY DEF TypeInv
<1>2. QED
  BY <1>1 DEF Begin

\* A create begins: its region fits, and stays where it is until the file is written.
LEMMA FindSpaceSerial ==
  ASSUME TypeInv, SerialInv, NEW f \in File, NEW n \in Sizes, CreateFindSpace(f, n), ~crashed
  PROVE  SerialInv'
<1> SUFFICES ASSUME overlaps' = 0
             PROVE  (Sound /\ Lasting /\ Phase /\ (removed = {} => ~refused))'
  BY DEF SerialInv
<1>1. overlaps = 0 /\ ~Backlog /\ ui = "menu" /\ ui' = "create"
  BY BeginSerial DEF CreateFindSpace
<1>2. Sound /\ Lasting /\ Phase /\ (removed = {} => ~refused)
  BY <1>1 DEF SerialInv
<1>3. Settled /\ todo = <<>> /\ Len(queue) + 6 <= Capacity
  BY <1>1, <1>2, NoBacklog
<1>4. UNCHANGED <<post, free, row_count, queue, disk, todo, crashed, created, removed, refused>>
  BY DEF CreateFindSpace
<1>5. Left' = Left /\ Pending' = Pending
  BY <1>4 DEF Left, Pending
<1>6. PICK k \in Id : /\ FitsFirst(k, n)
                      /\ job' = [file |-> f, size |-> n, key |-> k, at |-> free[k].from]
  BY DEF CreateFindSpace
<1>7. SettledJob'
  BY <1>1, <1>4, <1>6 DEF SettledJob, FitsFirst, Fits
<1>8. Lasting' /\ Settled'
  BY <1>2, <1>3, <1>4, <1>5, <1>7, SamePhase DEF Settled
<1>9. Sound'
  BY <1>2, <1>3, <1>4, <1>5 DEF Sound
<1>10. QED
  BY <1>2, <1>4, <1>8, <1>9 DEF Phase

\* While nothing was removed a refusal means that the space behind the posts is too small.
LEMMA NoSpaceSerial ==
  ASSUME TypeInv, SerialInv, NEW f \in File, NEW n \in Sizes, CreateNoSpace(f, n), ~crashed
  PROVE  SerialInv'
<1> SUFFICES ASSUME overlaps' = 0
             PROVE  (Sound /\ Lasting /\ Phase /\ (removed = {} => ~refused))'
  BY DEF SerialInv
<1>1. UNCHANGED <<post, free, row_count, queue, disk, ui, job, todo, crashed,
                  created, removed, overlaps>>
  BY DEF CreateNoSpace
<1>2. Sound /\ Lasting /\ Phase /\ (removed = {} => ~refused)
  BY <1>1 DEF SerialInv
<1>3. Left' = Left /\ Pending' = Pending
  BY <1>1 DEF Left, Pending
<1>4. Sound' /\ Lasting'
  BY <1>1, <1>2, <1>3, SamePhase DEF Sound
<1>5. Phase'
  <2>1. SettledJob => SettledJob'
    BY <1>1 DEF SettledJob, Fits, Complete
  <2>2. QED
    BY <1>1, <1>2, <1>3, <2>1, PhaseKept
<1>6. ASSUME removed = {}, ~Backlog, NEW x \in Block, x .. x + n \subseteq Unused
      PROVE  FALSE
  <2>1. Settled /\ Packed(free[1].from)
    BY <1>2, <1>6, NoBacklog DEF CreateNoSpace, Settled, SettledTables
  <2>2. n \in Nat /\ x \in Nat /\ 1 \in Id
    BY SizeNat DEF Block, Id
  <2>3. x \in Unused /\ x + n \in Block
    BY <1>6, <2>2 DEF Unused
  <2>4. ~(x < free[1].from)
    BY <2>1, <2>3 DEF Packed, Unused
  <2>5. ~FitsFirst(1, n)
    BY <2>2 DEF CreateNoSpace
  <2>6. free[1].to = StoreTo /\ free[1].from \in Nat
    BY <2>1 DEF Packed
  <2>7. free[1].from + n < free[1].to
    BY <2>2, <2>3, <2>4, <2>6 DEF Block
  <2>8. Fits(1, n)
    BY <2>6, <2>7 DEF Fits
  <2>9. QED
    BY <2>5, <2>8 DEF FitsFirst
<1>7. removed' = {} => ~refused'
  BY <1>1, <1>2, <1>6 DEF CreateNoSpace
<1>8. QED
  BY <1>4, <1>5, <1>7

\* A submit changes only where a pending query is; the queue has room for it.
LEMMA SubmitSerial ==
  ASSUME TypeInv, SerialInv, Submit, ~crashed
  PROVE  SerialInv'
<1> SUFFICES ASSUME overlaps' = 0
             PROVE  (Sound /\ Lasting /\ Phase /\ (removed = {} => ~refused))'
  BY DEF SerialInv
<1>1. UNCHANGED <<post, free, row_count, disk, job, crashed, created, removed, refused, overlaps>>
  BY DEF Submit, histVars
<1>2. Sound /\ Lasting /\ Phase /\ (removed = {} => ~refused)
  BY <1>1 DEF SerialInv
<1>3. Left' = Left /\ Pending' = Pending
  BY <1>2, SubmitPending DEF Sound
<1>4. ui = "submit" /\ ui' \in {"menu", "submit"}
  BY DEF Submit
<1>5. Sound' /\ Lasting'
  BY <1>1, <1>2, <1>3, <1>4, SamePhase DEF Sound
<1>6. Phase'
  <2>1. SettledJob'
    BY <1>4 DEF SettledJob
  <2>2. QED
    BY <1>1, <1>2, <1>3, <1>4, <2>1, PhaseKept
<1>7. QED
  BY <1>1, <1>2, <1>5, <1>6

\* A row that is not empty has a file, a size and an address, when nothing is pending.
LEMMA RowComplete ==
  ASSUME TypeInv, SettledTables, NEW k \in Id, post[k] # NoPost
  PROVE  Complete(k)
  BY DEF SettledTables, RowsWhole

\* A delete begins: a row with a size is a complete post.
LEMMA ReadSizeSerial ==
  ASSUME TypeInv, SerialInv, NEW k \in Id, DeleteReadSize(k), ~crashed
  PROVE  SerialInv'
<1> SUFFICES ASSUME overlaps' = 0
             PROVE  (Sound /\ Lasting /\ Phase /\ (removed = {} => ~refused))'
  BY DEF SerialInv
<1>1. overlaps = 0 /\ ~Backlog /\ ui = "menu" /\ ui' = "delete"
  BY BeginSerial DEF DeleteReadSize
<1>2. Sound /\ Lasting /\ Phase /\ (removed = {} => ~refused)
  BY <1>1 DEF SerialInv
<1>3. Settled /\ todo = <<>> /\ Len(queue) + 6 <= Capacity
  BY <1>1, <1>2, NoBacklog
<1>4. UNCHANGED <<post, free, row_count, queue, disk, todo, crashed, created, removed, refused>>
  BY DEF DeleteReadSize
<1>5. Left' = Left /\ Pending' = Pending
  BY <1>4 DEF Left, Pending
<1>6. Complete(k) /\ job'.key = k /\ job'.size = post[k].filesize
  <2>1. post[k] # NoPost
    BY DEF DeleteReadSize, NoPost, PostColumn
  <2>2. QED
    BY <1>3, <2>1, RowComplete DEF DeleteReadSize, NoJob, Settled
<1>7. SettledJob'
  BY <1>1, <1>4, <1>6 DEF SettledJob, Complete
<1>8. Lasting' /\ Settled'
  BY <1>2, <1>3, <1>4, <1>5, <1>7, SamePhase DEF Settled
<1>9. Sound'
  BY <1>2, <1>3, <1>4, <1>5 DEF Sound
<1>10. QED
  BY <1>2, <1>4, <1>8, <1>9 DEF Phase

\* A comment is on a complete post, and is the last pending query.
LEMMA CommentSerial ==
  ASSUME TypeInv, SerialInv, NEW k \in Id, Comment(k), ~crashed
  PROVE  SerialInv'
<1> SUFFICES ASSUME overlaps' = 0
             PROVE  (Sound /\ Lasting /\ Phase /\ (removed = {} => ~refused))'
  BY DEF SerialInv
<1> DEFINE q == Put("post", k, "comments", Given)
<1>1. overlaps = 0 /\ ~Backlog /\ ui = "menu" /\ ui' = "submit"
  BY BeginSerial DEF Comment
<1>2. Sound /\ Lasting /\ Phase /\ (removed = {} => ~refused)
  BY <1>1 DEF SerialInv
<1>3. Settled /\ todo = <<>> /\ Len(queue) + 6 <= Capacity
  BY <1>1, <1>2, NoBacklog
<1>4. UNCHANGED <<post, free, row_count, queue, disk, job, crashed, created, removed, refused>>
  BY DEF Comment
<1>5. q \in Query /\ Complete(k)
  <2>1. "comments" \in PostColumn /\ Given \in Values("comments")
    BY DEF PostColumn, Values, Given
  <2>2. QED
    BY <1>3, <2>1, QueryTypes, RowComplete DEF Comment, Settled
<1>6. /\ Left = Len(queue) /\ Left' = Left + 1
      /\ Pending'[0] = q
      /\ \A d \in 1 .. Left' - 1 : Pending'[d] = Pending[d - 1]
  <2> HIDE DEF q, Query
  <2>1. <<q>> \in Seq(Query) /\ Len(<<q>>) = 1 /\ <<q>>[1] = q /\ todo' = <<q>> /\ queue' = queue
    BY <1>5 DEF Comment, q
  <2>2. /\ Left = Len(queue) /\ Left' = Left + 1 /\ Left \in Nat
        /\ \A d \in 0 .. Left' - 1 : Pending'[d] = IF d < 1 THEN <<q>>[1 - d] ELSE Pending[d - 1]
    BY <1>3, <2>1, BeginPending, PendingType
  <2>3. QED
    BY <2>1, <2>2
<1>7. CommentsFrom(0)'
  <2>1. ASSUME NEW d \in 0 .. Left' - 1
        PROVE  \E j \in Id : Complete(j) /\ Pending'[d] = Put("post", j, "comments", Given)
    <3>1. CASE d = 0
      BY <1>5, <1>6, <3>1
    <3>2. CASE d # 0
      <4>1. d \in 1 .. Left' - 1 /\ d - 1 \in 0 .. Left - 1
        BY <1>6, <3>2, PendingType
      <4>2. IsComment(Pending[d - 1])
        BY <1>3, <4>1 DEF Settled, CommentsFrom
      <4>3. QED
        BY <1>6, <4>1, <4>2 DEF IsComment
    <3>3. QED
      BY <3>1, <3>2
  <2>2. QED
    BY <1>4, <2>1 DEF CommentsFrom, IsComment, Complete
<1>8. Lasting' /\ SettledTables' /\ SettledJob'
  BY <1>1, <1>2, <1>3, <1>4, SameTables DEF Settled, SettledJob
<1>9. Sound'
  BY <1>1, <1>2, <1>3, <1>4, <1>6, PendingType DEF Sound
<1>10. QED
  BY <1>2, <1>4, <1>7, <1>8, <1>9 DEF Phase, Settled

\* A delete finds the address, and its three queries are the last pending ones.
LEMMA ReadAddressSerial ==
  ASSUME TypeInv, SerialInv, DeleteReadAddress, ~crashed
  PROVE  SerialInv'
<1> SUFFICES ASSUME overlaps' = 0
             PROVE  (Sound /\ Lasting /\ Phase /\ (removed = {} => ~refused))'
  BY DEF SerialInv
<1>1. /\ ui = "delete"
      /\ UNCHANGED <<post, free, row_count, queue, disk, crashed, created, refused, overlaps>>
  BY DEF DeleteReadAddress
<1>2. Sound /\ Lasting /\ Phase /\ (removed = {} => ~refused)
  BY <1>1 DEF SerialInv
<1>3. Settled
  BY <1>1, <1>2 DEF Phase, Creating, Deleting
<1>4. PICK k \in Id : k = job.key
  BY <1>1 DEF TypeInv
<1>5. PICK at \in Nat : at = post[k].address
  BY <1>1, <1>3, <1>4 DEF Settled, SettledJob, Complete, TypeInv, PostColumn, Values
<1>6. PICK size \in Sizes : size = job.size
  BY <1>1 DEF TypeInv
<1>7. Complete(k) /\ size = post[k].filesize
  BY <1>1, <1>3, <1>4, <1>6 DEF Settled, SettledJob
<1> DEFINE s == << Put("free_space", k, "from", at),
                   Put("free_space", k, "to", at + size), Del(k) >>
<1>8. todo' = s /\ removed' = removed \cup {k} /\ ui' = "submit"
  BY <1>4, <1>5, <1>6 DEF DeleteReadAddress
<1>9. todo = <<>> /\ Len(queue) + 6 <= Capacity
  BY <1>1, <1>2 DEF Sound
<1>10. /\ Left = Len(queue) /\ Left' = Left + 3
       /\ Pending'[0] = Del(k)
       /\ Pending'[1] = Put("free_space", k, "to", at + size)
       /\ Pending'[2] = Put("free_space", k, "from", at)
       /\ \A d \in 3 .. Left' - 1 : Pending'[d] = Pending[d - 3]
  <2>1. s \in Seq(Query) /\ Len(s) = 3
    <3>1. at + size \in Nat /\ "from" \in FreeColumn /\ "to" \in FreeColumn
      BY SizeNat DEF FreeColumn
    <3>2. /\ Put("free_space", k, "from", at) \in Query
          /\ Put("free_space", k, "to", at + size) \in Query /\ Del(k) \in Query
      BY <3>1, QueryTypes
    <3> HIDE DEF Query
    <3>3. QED
      BY <3>2
  <2>2. /\ s[3] = Del(k) /\ s[2] = Put("free_space", k, "to", at + size)
        /\ s[1] = Put("free_space", k, "from", at)
    OBVIOUS
  <2> HIDE DEF Query, s
  <2>3. /\ Left = Len(queue) /\ Left' = Left + 3 /\ Left \in Nat
        /\ \A d \in 0 .. Left' - 1 : Pending'[d] = IF d < 3 THEN s[3 - d] ELSE Pending[d - 3]
    BY <1>1, <1>8, <1>9, <2>1, BeginPending, PendingType
  <2>4. QED
    BY <2>2, <2>3
<1>11. DeleteQueries(k, at, size)'
  <2>1. ASSUME NEW d \in 3 .. Left' - 1
        PROVE  \E j \in Id : Complete(j) /\ Pending'[d] = Put("post", j, "comments", Given)
    <3>1. d - 3 \in 0 .. Left - 1
      BY <1>10, PendingType
    <3>2. IsComment(Pending[d - 3])
      BY <1>3, <3>1 DEF Settled, CommentsFrom
    <3>3. QED
      BY <1>10, <3>2 DEF IsComment
  <2>2. CommentsFrom(3)'
    BY <1>1, <2>1 DEF CommentsFrom, IsComment, Complete
  <2>3. QED
    BY <1>10, <2>2 DEF DeleteQueries, Put, Del
<1>12. DeleteRows(k, at, size)'
  <2>1. Left' > 2 /\ Left' \in Nat
    BY <1>10, PendingType
  <2>2. RowsWhole({}) /\ RowsKept({}) /\ IdsCounted({}) /\ FreeApart({})
    BY <1>3 DEF Settled, SettledTables
  <2>3. RowsWhole({})'
    BY <1>1, <2>2 DEF RowsWhole, Complete
  <2>4. RowsKept({})'
    BY <1>1, <1>8, <2>2 DEF RowsKept
  <2>5. IdsCounted({})'
    BY <1>1, <2>2 DEF IdsCounted
  <2>6. FreeApart({k})'
    BY <1>1, <2>2 DEF FreeApart, InFree, Covers
  <2>7. QED
    BY <1>1, <1>5, <1>7, <1>8, <2>1, <2>3, <2>4, <2>5, <2>6 DEF DeleteRows, Complete
<1>13. Phase'
  <2>1. Deleting(k, at, size)'
    BY <1>8, <1>10, <1>11, <1>12, PendingType DEF Deleting
  <2>2. QED
    BY <2>1 DEF Phase
<1>14. Lasting'
  <2>1. post[k] # NoPost
    BY <1>7 DEF Complete, NoPost, PostColumn
  <2>2. RowsKnown'
    BY <1>1, <1>2, <1>8, <2>1 DEF Lasting, RowsKnown
  <2>3. QED
    BY <1>1, <1>2, <2>2 DEF Lasting, IdsIncrease, DiskHolds, PostsApart, Complete, Covers
<1>15. Sound'
  BY <1>1, <1>2, <1>8, <1>9, <1>10, PendingType DEF Sound
<1>16. QED
  BY <1>8, <1>13, <1>14, <1>15

\* The region that get_free_position found is free, and becomes the blocks of the file.
LEMMA CreateWriteSerial ==
  ASSUME TypeInv, SerialInv, CreateWrite, ~crashed
  PROVE  SerialInv'
<1> SUFFICES ASSUME overlaps' = 0
             PROVE  (Sound /\ Lasting /\ Phase /\ (removed = {} => ~refused))'
  BY DEF SerialInv
<1>1. /\ ui = "create" /\ ui' = "submit"
      /\ UNCHANGED <<post, free, row_count, queue, crashed, removed, refused, overlaps>>
  BY DEF CreateWrite
<1>2. Sound /\ Lasting /\ Phase /\ (removed = {} => ~refused)
  BY <1>1 DEF SerialInv
<1>3. Settled
  BY <1>1, <1>2 DEF Phase, Creating, Deleting
<1>4. PICK file \in File, size \in Sizes, key \in Id, at \in Nat :
         file = job.file /\ size = job.size /\ key = job.key /\ at = job.at
  BY <1>1 DEF TypeInv
<1>5. PICK id \in Id : id = row_count + 1
  BY DEF CreateWrite, get_new_post_id, TypeInv, Id
<1>6. size \in Nat /\ at + size \in Nat /\ row_count \in Nat
  BY SizeNat DEF TypeInv
<1> DEFINE s == << Put("free_space", key, "from", at + size),
                   Put("post", id, "username", Given),
                   Put("post", id, "filename", file),
                   Put("post", id, "filesize", size),
                   Put("post", id, "address", at),
                   Put("post", id, "likes", 0) >>
<1>7. /\ todo' = s /\ created' = Append(created, [id |-> id, file |-> file])
      /\ disk' = [x \in Block |-> IF x \in at .. at + size - 1 THEN file ELSE disk[x]]
  <2>1. /\ get_new_post_id = id /\ job.at + job.size = at + size
        /\ job.at = at /\ job.size = size /\ job.key = key /\ job.file = file
    BY <1>4, <1>5 DEF get_new_post_id
  <2>2. todo' = s
    BY <2>1 DEF CreateWrite
  <2>3. created' = Append(created, [id |-> id, file |-> file])
    BY <2>1 DEF CreateWrite
  <2>4. disk' = [x \in Block |-> IF x \in at .. at + size - 1 THEN file ELSE disk[x]]
    BY <2>1 DEF CreateWrite
  <2>5. QED
    BY <2>2, <2>3, <2>4
<1>8. todo = <<>> /\ Len(queue) + 6 <= Capacity
  BY <1>1, <1>2 DEF Sound
<1>9. /\ Left = Len(queue) /\ Left' = Left + 6 /\ Left \in Nat
      /\ Pending'[0] = Put("post", id, "likes", 0)
      /\ Pending'[1] = Put("post", id, "address", at)
      /\ Pending'[2] = Put("post", id, "filesize", size)
      /\ Pending'[3] = Put("post", id, "filename", file)
      /\ Pending'[4] = Put("post", id, "username", Given)
      /\ Pending'[5] = Put("free_space", key, "from", at + size)
      /\ \A d \in 6 .. Left' - 1 : Pending'[d] = Pending[d - 6]
  <2>1. s \in Seq(Query) /\ Len(s) = 6
    <3>1. /\ {"username", "filename", "filesize", "address", "likes"} \subseteq PostColumn
          /\ Given \in Values("username") /\ file \in Values("filename")
          /\ size \in Values("filesize") /\ at \in Values("address") /\ 0 \in Values("likes")
          /\ "from" \in FreeColumn
      BY DEF PostColumn, FreeColumn, Values, Given
    <3>2. /\ s[1] \in Query /\ s[2] \in Query /\ s[3] \in Query
          /\ s[4] \in Query /\ s[5] \in Query /\ s[6] \in Query
      BY <1>6, <3>1, QueryTypes
    <3> HIDE DEF Query
    <3>3. QED
      BY <3>2
  <2>2. /\ s[6] = Put("post", id, "likes", 0) /\ s[5] = Put("post", id, "address", at)
        /\ s[4] = Put("post", id, "filesize", size) /\ s[3] = Put("post", id, "filename", file)
        /\ s[2] = Put("post", id, "username", Given)
        /\ s[1] = Put("free_space", key, "from", at + size)
    OBVIOUS
  <2> HIDE DEF Query, s
  <2>3. /\ Left = Len(queue) /\ Left' = Left + 6 /\ Left \in Nat
        /\ \A d \in 0 .. Left' - 1 : Pending'[d] = IF d < 6 THEN s[6 - d] ELSE Pending[d - 6]
    BY <1>1, <1>7, <1>8, <2>1, BeginPending, PendingType
  <2>4. QED
    BY <2>2, <2>3
<1> HIDE DEF s
<1>10. CreateQueries(id, file, size, at, key)'
  <2>1. ASSUME NEW d \in 6 .. Left' - 1
        PROVE  \E j \in Id : Complete(j) /\ Pending'[d] = Put("post", j, "comments", Given)
    <3>1. d - 6 \in 0 .. Left - 1
      BY <1>9
    <3>2. IsComment(Pending[d - 6])
      BY <1>3, <3>1 DEF Settled, CommentsFrom
    <3>3. QED
      BY <1>9, <3>2 DEF IsComment
  <2>2. CommentsFrom(6)'
    BY <1>1, <2>1 DEF CommentsFrom, IsComment, Complete
  <2>3. QED
    BY <1>9, <2>2 DEF CreateQueries, Put
<1>11. /\ RowsWhole({}) /\ RowsKept({}) /\ IdsCounted({}) /\ FreeApart({})
       /\ removed = {} => Packed(free[1].from)
       /\ Fits(key, size) /\ at = free[key].from
  BY <1>1, <1>3, <1>4 DEF Settled, SettledTables, SettledJob
<1>12. /\ Len(created) \in Nat /\ DOMAIN created = 1 .. Len(created)
       /\ Len(created') = Len(created) + 1 /\ DOMAIN created' = 1 .. Len(created) + 1
       /\ created'[Len(created')] = [id |-> id, file |-> file]
       /\ \A i \in DOMAIN created : created'[i] = created[i] /\ created[i].id \in Nat
       /\ created' # <<>>
  <2> DEFINE S == [id : Id, file : File]
             e == [id |-> id, file |-> file]
  <2>1. created \in Seq(S) /\ e \in S
    BY DEF TypeInv
  <2>2. ASSUME NEW i \in DOMAIN created PROVE created[i].id \in Nat
    <3> HIDE DEF S, e
    <3>1. created[i] \in S
      BY <2>1, LenProperties, ElementOfSeq
    <3>2. created[i].id \in Id
      BY <3>1 DEF S
    <3>3. QED
      BY <3>2 DEF Id
  <2> HIDE DEF S, e
  <2>3. /\ Append(created, e) \in Seq(S) /\ Len(created) \in Nat
        /\ DOMAIN created = 1 .. Len(created) /\ Len(Append(created, e)) = Len(created) + 1
        /\ DOMAIN Append(created, e) = 1 .. Len(Append(created, e))
        /\ \A i \in 1 .. Len(created) : Append(created, e)[i] = created[i]
        /\ Append(created, e)[Len(created) + 1] = e /\ Append(created, e) # <<>>
    BY <2>1, AppendProperties, LenProperties
  <2>4. created' = Append(created, e)
    BY <1>7 DEF e
  <2>5. QED
    BY <2>2, <2>3, <2>4 DEF e
<1>13. \A i \in DOMAIN created : created[i].id <= row_count /\ created[i].id # id
  BY <1>5, <1>6, <1>11, <1>12 DEF IdsCounted
<1>14. post[id] = NoPost /\ id \notin removed
  BY <1>2, <1>13 DEF Lasting, RowsKnown
<1>15. CreateRow(id, file, size, at, key)'
  <2>1. Left' > 5 /\ Left' \in Nat
    BY <1>9
  <2>2. post[id].address = NULL /\ post[id].filesize = NULL /\ post[id].filename = NULL
    BY <1>14 DEF NoPost, PostColumn
  <2>3. QED
    BY <1>1, <1>11, <2>1, <2>2 DEF CreateRow
<1>16. CreateIds(id, file)'
  <2>1. RowsWhole({id})'
    BY <1>1, <1>11 DEF RowsWhole, Complete
  <2>2. RowsKept({id})'
    BY <1>1, <1>11, <1>12 DEF RowsKept
  <2>3. IdsCounted({id})'
    BY <1>1, <1>12, <1>13 DEF IdsCounted
  <2>4. Left' > 4 /\ Left' \in Nat
    BY <1>9
  <2>5. QED
    BY <1>1, <1>5, <1>6, <1>12, <1>14, <2>1, <2>2, <2>3, <2>4 DEF CreateIds
<1>17. ASSUME NEW x \in Block, x \in at .. at + size - 1
       PROVE  InFree(key, x) /\ disk'[x] = file
  <2>1. free[key].to \in Nat /\ x \in Nat /\ at + size < free[key].to
    BY <1>11 DEF Fits, TypeInv, FreeColumn, Block
  <2>2. QED
    BY <1>6, <1>7, <1>11, <1>17, <2>1 DEF InFree, Fits
<1>18. ASSUME NEW k \in Id, NEW x \in Block
       PROVE  (Covers(k, x)' <=> Covers(k, x)) /\ (InFree(k, x)' <=> InFree(k, x))
  BY <1>1 DEF Covers, InFree
<1>19. CreateSpace(id, file, size, at, key)'
  <2>1. Left' > 5
    BY <1>9
  <2>2. removed = {} => key = 1 /\ Packed(at)
    BY <1>11 DEF Packed, NoRegion, FreeColumn, Fits
  <2>3. removed' = {} => key = 1 /\ Packed(at)'
    BY <1>1, <2>2 DEF Packed, Covers
  <2>4. /\ \A j, k \in Id, x \in Block : InFree(j, x) /\ InFree(k, x) => j = k
        /\ \A k \in Id, j \in Id, x \in Block : InFree(k, x) => ~Covers(j, x)
    BY <1>11 DEF FreeApart
  <2>5. QED
    BY <1>17, <1>18, <2>1, <2>3, <2>4 DEF CreateSpace
<1>20. Phase'
  <2>1. Creating(id, file, size, at, key)'
    BY <1>1, <1>9, <1>10, <1>15, <1>16, <1>19 DEF Creating
  <2>2. QED
    BY <2>1 DEF Phase
<1>21. Lasting'
  <2>1. IdsIncrease'
    BY <1>2, <1>5, <1>6, <1>12, <1>13 DEF Lasting, IdsIncrease
  <2>2. RowsKnown'
    BY <1>1, <1>2, <1>12 DEF Lasting, RowsKnown
  <2>3. DiskHolds'
    <3>1. ASSUME NEW k \in Id, NEW x \in Block, Complete(k)', Covers(k, x)'
          PROVE  disk'[x] = post'[k].filename
      <4>1. Complete(k) /\ Covers(k, x)
        BY <1>1, <1>18, <3>1 DEF Complete
      <4>2. ~(x \in at .. at + size - 1)
        BY <1>11, <1>17, <4>1 DEF FreeApart
      <4>3. disk'[x] = disk[x]
        BY <1>7, <4>2
      <4>4. QED
        BY <1>1, <1>2, <4>1, <4>3 DEF Lasting, DiskHolds
    <3>2. QED
      BY <3>1 DEF DiskHolds
  <2>4. PostsApart'
    BY <1>2, <1>18 DEF Lasting, PostsApart
  <2>5. QED
    BY <2>1, <2>2, <2>3, <2>4 DEF Lasting
<1>22. Sound'
  BY <1>1, <1>2, <1>8, <1>9 DEF Sound
<1>23. QED
  BY <1>1, <1>2, <1>20, <1>21, <1>22

-----------------------------------------------------------------------------
(* The execution of a pending query.                                       *)

\* A pool thread executes q, the pending query that is farthest from the end.
Executes(q) ==
  /\ q = Pending[Left - 1] /\ Left > 0 /\ Left \in Nat
  /\ Left' = Left - 1 /\ Len(queue') = Len(queue) - 1 /\ Len(queue) \in Nat
  /\ \A d \in 0 .. Left - 2 : Pending'[d] = Pending[d]
  /\ ExecutePut(q) \/ ExecuteDelete(q)
  /\ UNCHANGED <<disk, ui, job, todo, created, removed, refused, overlaps>>

\* An execution, with the query it executes.
LEMMA ExecuteStep ==
  ASSUME TypeInv, Execute
  PROVE  \E q \in Query : Executes(q)
<1> HIDE DEF Query
<1>1. Head(queue) \in Query
  BY HeadTailProperties DEF TypeInv, Execute
<1>2. /\ Head(queue) = Pending[Left - 1] /\ Left > 0
      /\ Left' = Left - 1 /\ Len(queue') = Len(queue) - 1
      /\ \A d \in 0 .. Left - 2 : Pending'[d] = Pending[d]
  BY ExecutePending
<1>3. /\ ExecutePut(Head(queue)) \/ ExecuteDelete(Head(queue))
      /\ UNCHANGED <<disk, ui, job, todo, created, removed, refused, overlaps>>
  BY DEF Execute, histVars
<1>4. QED
  BY <1>1, <1>2, <1>3, PendingType DEF Executes

\* The effect of each kind of query on the tables.
LEMMA PostPutExecuted ==
  ASSUME TypeInv, NEW k \in Id, NEW c \in PostColumn, NEW v \in Values(c),
         NEW q, q = Put("post", k, c, v), Executes(q)
  PROVE  /\ row_count' = row_count + 1 /\ free' = free /\ crashed' = crashed
         /\ \A j \in Id, d \in PostColumn :
              post'[j][d] = IF j = k /\ d = c THEN v ELSE post[j][d]
         /\ \A j \in Id \ {k} : post'[j] = post[j]
<1>1. /\ q.op = "put" /\ q.table = "post" /\ q.key = k /\ q.column = c /\ q.value = v
  BY DEF Put
<1>2. ExecutePut(q)
  BY <1>1 DEF Executes, ExecuteDelete
<1>3. /\ post' = [post EXCEPT ![k] = [@ EXCEPT ![c] = v]]
      /\ row_count' = row_count + 1 /\ free' = free /\ crashed' = crashed
  BY <1>1, <1>2 DEF ExecutePut
<1>4. QED
  BY <1>3, PostPutEffect

\* A put on 'free_space' changes one bound of one region.
LEMMA FreePutExecuted ==
  ASSUME TypeInv, NEW k \in Id, NEW c \in FreeColumn, NEW v \in Nat,
         NEW q, q = Put("free_space", k, c, v), Executes(q)
  PROVE  /\ row_count' = row_count /\ post' = post /\ crashed' = crashed
         /\ \A j \in Id, d \in FreeColumn :
              free'[j][d] = IF j = k /\ d = c THEN v ELSE free[j][d]
         /\ \A j \in Id \ {k} : free'[j] = free[j]
<1>1. /\ q.op = "put" /\ q.table = "free_space" /\ q.key = k /\ q.column = c /\ q.value = v
  BY DEF Put
<1>2. ExecutePut(q)
  BY <1>1 DEF Executes, ExecuteDelete
<1>3. /\ free' = [free EXCEPT ![k] = [@ EXCEPT ![c] = v]]
      /\ row_count' = row_count /\ post' = post /\ crashed' = crashed
  BY <1>1, <1>2 DEF ExecutePut
<1>4. QED
  BY <1>3, FreePutEffect

\* A delete that finds its row empties it.
LEMMA DeleteExecuted ==
  ASSUME TypeInv, NEW k \in Id, NEW q, q = Del(k), Executes(q),
         post[k] # NoPost
  PROVE  /\ row_count' = row_count /\ free' = free /\ crashed' = crashed
         /\ \A j \in Id, d \in PostColumn :
              post'[j][d] = IF j = k THEN NULL ELSE post[j][d]
         /\ \A j \in Id \ {k} : post'[j] = post[j]
         /\ post'[k] = NoPost
<1>1. q.op = "delete" /\ q.key = k
  BY DEF Del
<1>2. ExecuteDelete(q)
  BY <1>1 DEF Executes, ExecutePut
<1>3. /\ post' = [post EXCEPT ![k] = NoPost]
      /\ row_count' = row_count /\ free' = free /\ crashed' = crashed
  BY <1>1, <1>2 DEF ExecuteDelete
<1>4. QED
  BY <1>3, DeleteEffect DEF TypeInv

\* The pool thread gives room and does not crash.
LEMMA ExecutesSound ==
  ASSUME TypeInv, Sound, NEW q, Executes(q), crashed' = crashed
  PROVE  Sound'
  BY DEF Sound, Executes

\* Comments behind the query executed stay comments, if no complete row is lost.
LEMMA ExecutesComments ==
  ASSUME TypeInv, NEW n \in Nat, CommentsFrom(n), NEW q, Executes(q),
         \A k \in Id : Complete(k) => Complete(k)'
  PROVE  CommentsFrom(n)'
<1>1. /\ Left' <= Left /\ Left' \in Nat
      /\ \A d \in 0 .. Left' - 1 : Pending'[d] = Pending[d]
  BY DEF Executes
<1>2. QED
  BY <1>1, SameComments

\* A comment leaves everything the invariant speaks of as it is.
LEMMA CommentExecuted ==
  ASSUME TypeInv, NEW q, Executes(q), IsComment(q)
  PROVE  /\ crashed' = crashed /\ free' = free /\ row_count' = row_count + 1
         /\ \A j \in Id :
              /\ post'[j].filename = post[j].filename /\ post'[j].filesize = post[j].filesize
              /\ post'[j].address = post[j].address
              /\ post'[j] = NoPost <=> post[j] = NoPost
              /\ Complete(j)' <=> Complete(j)
              /\ \A x : Covers(j, x)' <=> Covers(j, x)
<1>1. PICK k \in Id : Complete(k) /\ q = Put("post", k, "comments", Given)
  BY DEF IsComment
<1>2. /\ "comments" \in PostColumn /\ Given \in Values("comments")
      /\ {"filename", "filesize", "address"} \subseteq PostColumn
  BY DEF PostColumn, Values, Given
<1>3. /\ row_count' = row_count + 1 /\ free' = free /\ crashed' = crashed
      /\ \A j \in Id, d \in PostColumn :
           post'[j][d] = IF j = k /\ d = "comments" THEN Given ELSE post[j][d]
      /\ \A j \in Id \ {k} : post'[j] = post[j]
  BY <1>1, <1>2, PostPutExecuted
<1>4. ASSUME NEW j \in Id
      PROVE  /\ post'[j].filename = post[j].filename /\ post'[j].filesize = post[j].filesize
             /\ post'[j].address = post[j].address
  BY <1>2, <1>3
<1>5. ASSUME NEW j \in Id
      PROVE  /\ Complete(j)' <=> Complete(j)
             /\ \A x : Covers(j, x)' <=> Covers(j, x)
  BY <1>4, SameRow
<1>6. post[k] # NoPost /\ post'[k] # NoPost
  BY <1>1, <1>2, <1>4 DEF Complete, NoPost
<1>7. QED
  BY <1>3, <1>4, <1>5, <1>6

\* Ids, rows and blocks are as before the comment.
LEMMA CommentLasting ==
  ASSUME TypeInv, NEW q, Executes(q), IsComment(q), Lasting
  PROVE  Lasting'
<1>1. /\ created' = created /\ removed' = removed /\ disk' = disk
  BY DEF Executes
<1>2. IdsIncrease' /\ RowsKnown'
  BY <1>1, CommentExecuted DEF Lasting, IdsIncrease, RowsKnown
<1>3. DiskHolds' /\ PostsApart'
  BY <1>1, CommentExecuted DEF Lasting, DiskHolds, PostsApart
<1>4. QED
  BY <1>2, <1>3 DEF Lasting

\* Ids of created posts are ids.
LEMMA CreatedTypes ==
  ASSUME TypeInv
  PROVE  \A i \in DOMAIN created : created[i].id \in Id /\ created[i].id \in Nat
<1>1. created \in Seq([id : Id, file : File])
  BY DEF TypeInv
<1>2. ASSUME NEW i \in DOMAIN created PROVE created[i].id \in Id /\ created[i].id \in Nat
  <2>1. created[i] \in [id : Id, file : File]
    BY <1>1, LenProperties, ElementOfSeq
  <2>2. created[i].id \in Id
    BY <2>1
  <2>3. QED
    BY <2>2 DEF Id
<1>3. QED
  BY <1>2

\* So are the rows that are whole, kept and counted, and the free regions.
LEMMA CommentTables ==
  ASSUME TypeInv, NEW q, Executes(q), IsComment(q), NEW e
  PROVE  /\ RowsWhole(e) => RowsWhole(e)'
         /\ RowsKept(e) => RowsKept(e)'
         /\ IdsCounted(e) => IdsCounted(e)'
         /\ FreeApart(e) => FreeApart(e)'
<1>1. /\ created' = created /\ removed' = removed /\ free' = free
      /\ row_count \in Nat /\ row_count' = row_count + 1
      /\ \A i \in DOMAIN created : created[i].id \in Id /\ created[i].id \in Nat
  BY CreatedTypes, CommentExecuted DEF Executes, TypeInv
<1>2. RowsWhole(e) => RowsWhole(e)'
  BY CommentExecuted DEF RowsWhole
<1>3. RowsKept(e) => RowsKept(e)'
  BY <1>1, CommentExecuted DEF RowsKept
<1>4. IdsCounted(e) => IdsCounted(e)'
  BY <1>1 DEF IdsCounted
<1>5. FreeApart(e) => FreeApart(e)'
  BY <1>1, CommentExecuted DEF FreeApart, InFree
<1>6. QED
  BY <1>2, <1>3, <1>4, <1>5

\* And the part of the store that is filled.
LEMMA CommentPacked ==
  ASSUME TypeInv, NEW q, Executes(q), IsComment(q), NEW x, Packed(x)
  PROVE  Packed(x)'
  BY CommentExecuted DEF Packed

\* The comment executed is one of those behind the last n queries.
LEMMA OldestIsComment ==
  ASSUME TypeInv, NEW n \in Nat, CommentsFrom(n), NEW q, Executes(q), Left > n
  PROVE  IsComment(q)
  BY DEF Executes, CommentsFrom

\* With only comments pending, only comments are executed.
LEMMA SettledExecutes ==
  ASSUME TypeInv, Sound, Lasting, Settled, NEW q, Executes(q)
  PROVE  Sound' /\ Lasting' /\ Phase'
<1>1. IsComment(q)
  BY OldestIsComment DEF Settled, Executes
<1>2. /\ UNCHANGED <<ui, job, removed>> /\ free' = free /\ crashed' = crashed
  BY <1>1, CommentExecuted DEF Executes
<1>3. CommentsFrom(0)'
  BY <1>1, CommentExecuted, ExecutesComments DEF Settled
<1>4. /\ RowsWhole({})' /\ RowsKept({})' /\ IdsCounted({})' /\ FreeApart({})'
  <2>1. /\ RowsWhole({}) /\ RowsKept({}) /\ IdsCounted({}) /\ FreeApart({})
    BY DEF Settled, SettledTables
  <2>2. QED
    BY <1>1, <2>1, CommentTables
<1>5. removed' = {} => Packed(free[1].from)'
  <2>1. PICK x : x = free[1].from
    OBVIOUS
  <2>2. removed = {} => Packed(x)
    BY <2>1 DEF Settled, SettledTables
  <2>3. removed = {} => Packed(x)'
    BY <1>1, <2>2, CommentPacked
  <2>4. QED
    BY <1>2, <2>1, <2>3 DEF Packed
<1>6. SettledJob'
  <2>1. ui = "delete" => job.key \in Id
    BY DEF TypeInv
  <2>2. CASE ui = "delete"
    BY <1>1, <1>2, <2>1, <2>2, CommentExecuted DEF Settled, SettledJob, Complete
  <2>3. CASE ui # "delete"
    BY <1>2, <2>3 DEF Settled, SettledJob, Fits
  <2>4. QED
    BY <2>2, <2>3
<1>7. Sound' /\ Lasting'
  BY <1>1, <1>2, ExecutesSound, CommentLasting
<1>8. QED
  BY <1>3, <1>4, <1>5, <1>6, <1>7 DEF Phase, Settled, SettledTables

\* The comments before a create are executed first.
LEMMA CreatingComment ==
  ASSUME TypeInv, Sound, Lasting, NEW id \in Id, NEW key \in Id, NEW file \in File,
         NEW size \in Sizes, NEW at \in Nat, Creating(id, file, size, at, key),
         NEW q, Executes(q), Left > 6
  PROVE  Sound' /\ Lasting' /\ Phase'
<1>1. IsComment(q)
  BY OldestIsComment DEF Creating, CreateQueries
<1>2. /\ UNCHANGED <<ui, job, created, removed, disk>> /\ free' = free /\ crashed' = crashed
      /\ Left' > 5 /\ Left > 5 /\ row_count' = row_count + 1 /\ row_count \in Nat /\ Left' \in Nat
  BY <1>1, CommentExecuted DEF Executes, TypeInv
<1>3. /\ Left > 1 /\ Left > 2 /\ Left > 3 /\ Left > 4 /\ Left > 5
      /\ Left' > 1 /\ Left' > 2 /\ Left' > 3 /\ Left' > 4 /\ Left' > 5
  BY <1>2 DEF Executes
<1>4. CreateQueries(id, file, size, at, key)'
  <2>1. CommentsFrom(6)'
    BY <1>1, CommentExecuted, ExecutesComments DEF Creating, CreateQueries
  <2>2. \A d \in {0, 1, 2, 3, 4, 5} : Pending'[d] = Pending[d]
    BY <1>2 DEF Executes
  <2>3. /\ Pending[0] = Put("post", id, "likes", 0)
        /\ Pending[1] = Put("post", id, "address", at)
        /\ Pending[2] = Put("post", id, "filesize", size)
        /\ Pending[3] = Put("post", id, "filename", file)
        /\ Pending[4] = Put("post", id, "username", Given)
        /\ Pending[5] = Put("free_space", key, "from", at + size)
    BY <1>3 DEF Creating, CreateQueries
  <2>4. QED
    BY <2>1, <2>2, <2>3 DEF CreateQueries, Put
<1>5. CreateRow(id, file, size, at, key)'
  <2>1. /\ post[id].address = NULL /\ post[id].filesize = NULL /\ post[id].filename = NULL
        /\ free[key].from = at
    BY <1>3 DEF Creating, CreateRow
  <2>2. /\ post'[id].address = NULL /\ post'[id].filesize = NULL /\ post'[id].filename = NULL
        /\ free'[key].from = at
    BY <1>1, <1>2, <2>1, CommentExecuted
  <2>3. QED
    BY <1>3, <2>2 DEF CreateRow
<1>6. CreateIds(id, file)'
  <2>1. RowsWhole({id})' /\ RowsKept({id})' /\ IdsCounted({id})'
    BY <1>1, CommentTables DEF Creating, CreateIds
  <2>2. id \in Nat
    BY DEF Id
  <2>3. QED
    BY <1>2, <2>1, <2>2 DEF Creating, CreateIds
<1>7. CreateSpace(id, file, size, at, key)'
  <2>1. removed = {} => Packed(at)'
    BY <1>1, CommentPacked DEF Creating, CreateSpace
  <2>2. ASSUME NEW j \in Id, NEW x PROVE InFree(j, x)' <=> InFree(j, x)
    BY <1>2 DEF InFree
  <2>3. QED
    BY <1>1, <1>2, <2>1, <2>2, CommentExecuted DEF Creating, CreateSpace
<1>8. Sound' /\ Lasting'
  BY <1>1, <1>2, ExecutesSound, CommentLasting
<1>9. Phase'
  <2>1. Creating(id, file, size, at, key)'
    BY <1>2, <1>4, <1>5, <1>6, <1>7 DEF Creating
  <2>2. QED
    BY <2>1 DEF Phase
<1>10. QED
  BY <1>8, <1>9

\* And those before a delete.
LEMMA DeletingComment ==
  ASSUME TypeInv, Sound, Lasting, NEW k \in Id, NEW at \in Nat, NEW size \in Sizes,
         Deleting(k, at, size), NEW q, Executes(q), Left > 3
  PROVE  Sound' /\ Lasting' /\ Phase'
<1>1. IsComment(q)
  BY OldestIsComment DEF Deleting, DeleteQueries
<1>2. /\ UNCHANGED <<ui, job, created, removed, disk>> /\ free' = free /\ crashed' = crashed
      /\ Left' > 2 /\ Left > 2 /\ Left > 1 /\ Left' \in Nat
  BY <1>1, CommentExecuted DEF Executes
<1>3. DeleteQueries(k, at, size)'
  <2>1. CommentsFrom(3)'
    BY <1>1, CommentExecuted, ExecutesComments DEF Deleting, DeleteQueries
  <2>2. \A d \in {0, 1, 2} : Pending'[d] = Pending[d]
    BY <1>2 DEF Executes
  <2>3. /\ Pending[0] = Del(k) /\ Pending[1] = Put("free_space", k, "to", at + size)
        /\ Pending[2] = Put("free_space", k, "from", at)
    BY <1>2 DEF Deleting, DeleteQueries
  <2>4. QED
    BY <2>1, <2>2, <2>3 DEF DeleteQueries, Put, Del
<1>4. DeleteRows(k, at, size)'
  <2>1. RowsWhole({})' /\ RowsKept({})' /\ IdsCounted({})' /\ FreeApart({k})'
    BY <1>1, CommentTables DEF Deleting, DeleteRows
  <2>2. QED
    BY <1>1, <1>2, <2>1, CommentExecuted DEF Deleting, DeleteRows
<1>5. Sound' /\ Lasting'
  BY <1>1, <1>2, ExecutesSound, CommentLasting
<1>6. Phase'
  <2>1. Deleting(k, at, size)'
    BY <1>2, <1>3, <1>4 DEF Deleting
  <2>2. QED
    BY <2>1 DEF Phase
<1>7. QED
  BY <1>5, <1>6

-----------------------------------------------------------------------------
(* The six queries of a create.                                            *)

\* The puts of the columns change the row of the new post alone.
LEMMA NewRowPut ==
  ASSUME TypeInv, NEW id \in Id, NEW c \in PostColumn, NEW v \in Values(c),
         NEW q, q = Put("post", id, c, v), Executes(q)
  PROVE  /\ row_count' = row_count + 1 /\ row_count \in Nat
         /\ free' = free /\ crashed' = crashed
         /\ created' = created /\ removed' = removed /\ disk' = disk
         /\ \A d \in PostColumn : post'[id][d] = IF d = c THEN v ELSE post[id][d]
         /\ \A j \in Id \ {id} :
              /\ post'[j] = post[j]
              /\ Complete(j)' <=> Complete(j)
              /\ \A x : Covers(j, x)' <=> Covers(j, x)
         /\ Complete(id) => Complete(id)'
         /\ post'[id] # NoPost
<1>1. /\ row_count' = row_count + 1 /\ free' = free /\ crashed' = crashed
      /\ \A j \in Id, d \in PostColumn :
           post'[j][d] = IF j = id /\ d = c THEN v ELSE post[j][d]
      /\ \A j \in Id \ {id} : post'[j] = post[j]
  BY PostPutExecuted
<1>2. ASSUME NEW j \in Id \ {id}
      PROVE  /\ Complete(j)' <=> Complete(j)
             /\ \A x : Covers(j, x)' <=> Covers(j, x)
  BY <1>1 DEF Complete, Covers
<1>3. v # NULL
  BY SizeNat DEF Values
<1>4. Complete(id) => Complete(id)'
  BY <1>1, <1>3 DEF Complete, PostColumn
<1>5. post'[id] # NoPost
  BY <1>1, <1>3 DEF NoPost
<1>6. QED
  BY <1>1, <1>2, <1>4, <1>5 DEF Executes, TypeInv

\* What the invariant says of the other rows stays.
LEMMA NewRowKeeps ==
  ASSUME TypeInv, NEW id \in Id, NEW c \in PostColumn, NEW v \in Values(c),
         NEW q, q = Put("post", id, c, v), Executes(q), NEW file,
         CreateIds(id, file), Lasting
  PROVE  /\ RowsWhole({id})' /\ RowsKept({id})' /\ IdsCounted({id})'
         /\ IdsIncrease' /\ RowsKnown'
         /\ created' # <<>> /\ created'[Len(created')] = [id |-> id, file |-> file]
         /\ id \notin removed' /\ id <= row_count'
<1>1. id \in Nat
  BY DEF Id
<1>2. \A i \in DOMAIN created : created[i].id \in Id /\ created[i].id \in Nat
  BY CreatedTypes
<1>3. /\ row_count' = row_count + 1 /\ row_count \in Nat
      /\ created' = created /\ removed' = removed
      /\ \A j \in Id \ {id} : post'[j] = post[j] /\ (Complete(j)' <=> Complete(j))
  BY NewRowPut
<1>4. RowsWhole({id})'
  BY <1>3 DEF RowsWhole, CreateIds
<1>5. RowsKept({id})'
  BY <1>2, <1>3 DEF RowsKept, CreateIds
<1>6. IdsCounted({id})'
  BY <1>2, <1>3 DEF IdsCounted, CreateIds
<1>7. IdsIncrease'
  BY <1>3 DEF IdsIncrease, Lasting
<1>8. RowsKnown'
  <2>1. PICK i \in DOMAIN created : created[i].id = id
    BY LenProperties, EmptySeq DEF CreateIds, TypeInv
  <2>2. QED
    BY <1>3, <2>1 DEF RowsKnown, Lasting
<1>9. QED
  BY <1>1, <1>3, <1>4, <1>5, <1>6, <1>7, <1>8 DEF CreateIds

\* The put on 'free_space' takes the blocks out of the free region.
LEMMA CreatingFree ==
  ASSUME TypeInv, Sound, Lasting, NEW id \in Id, NEW key \in Id, NEW file \in File,
         NEW size \in Sizes, NEW at \in Nat, Creating(id, file, size, at, key),
         NEW q, Executes(q), Left = 6
  PROVE  Sound' /\ Lasting' /\ Phase'
<1>1. /\ q = Put("free_space", key, "from", at + size)
      /\ at + size \in Nat /\ size \in Nat /\ "from" \in FreeColumn /\ "to" \in FreeColumn
  BY SizeNat DEF Executes, Creating, CreateQueries, FreeColumn
<1>2. /\ row_count' = row_count /\ post' = post /\ crashed' = crashed
      /\ \A j \in Id, d \in FreeColumn :
           free'[j][d] = IF j = key /\ d = "from" THEN at + size ELSE free[j][d]
      /\ \A j \in Id \ {key} : free'[j] = free[j]
  BY <1>1, FreePutExecuted
<1>3. /\ Left' = 5 /\ \A d \in {0, 1, 2, 3, 4} : Pending'[d] = Pending[d]
      /\ UNCHANGED <<ui, created, removed, disk>>
  BY DEF Executes
<1>4. CreateQueries(id, file, size, at, key)'
  <2>1. CommentsFrom(6)'
    BY <1>3 DEF CommentsFrom
  <2>2. /\ Pending[0] = Put("post", id, "likes", 0)
        /\ Pending[1] = Put("post", id, "address", at)
        /\ Pending[2] = Put("post", id, "filesize", size)
        /\ Pending[3] = Put("post", id, "filename", file)
        /\ Pending[4] = Put("post", id, "username", Given)
    BY DEF Creating, CreateQueries
  <2>3. QED
    BY <1>3, <2>1, <2>2 DEF CreateQueries, Put
<1>5. CreateRow(id, file, size, at, key)'
  <2>1. post[id].address = NULL /\ post[id].filesize = NULL /\ post[id].filename = NULL
    BY DEF Creating, CreateRow
  <2>2. free'[key].from = at + size
    BY <1>1, <1>2
  <2>3. QED
    BY <1>2, <1>3, <2>1, <2>2 DEF CreateRow
<1>6. CreateIds(id, file)'
  <2>1. ~(Left' <= 4)
    BY <1>3
  <2>2. CreateIds(id, file)
    BY DEF Creating
  <2>3. QED
    BY <1>2, <1>3, <2>1, <2>2 DEF CreateIds, RowsWhole, RowsKept, IdsCounted, Complete
<1>7. ASSUME NEW k \in Id, NEW x \in Block, InFree(k, x)'
      PROVE  InFree(k, x) /\ ~(x \in at .. at + size - 1)
  <2>1. x \in Nat
    BY DEF Block
  <2>2. CASE k = key
    <3>1. free'[key].from = at + size /\ free'[key].to = free[key].to /\ free[key].from = at
      BY <1>1, <1>2 DEF Creating, CreateRow
    <3>2. free[key].to \in Nat /\ x \in at + size .. free[key].to - 1
      BY <1>1, <1>7, <2>2, <3>1 DEF InFree, TypeInv
    <3>3. QED
      BY <1>1, <2>1, <2>2, <3>1, <3>2 DEF InFree
  <2>3. CASE k # key
    <3>1. InFree(k, x)
      BY <1>2, <1>7, <2>3 DEF InFree
    <3>2. QED
      BY <2>3, <3>1 DEF Creating, CreateSpace
  <2>4. QED
    BY <2>2, <2>3
<1>8. \A k, x : Covers(k, x)' <=> Covers(k, x)
  BY <1>2 DEF Covers
<1>9. CreateSpace(id, file, size, at, key)'
  <2>1. CreateSpace(id, file, size, at, key)
    BY DEF Creating
  <2>2. removed = {} => key = 1 /\ Packed(at)'
    <3>1. 1 \in Id /\ free[1].to = free[1]["to"]
      BY DEF Id
    <3>2. QED
      BY <1>1, <1>2, <1>8, <2>1, <3>1 DEF CreateSpace, Packed
  <2>3. /\ \A x \in Block : x \in at .. at + size - 1 =>
            /\ disk'[x] = file
            /\ \A k \in Id \ {id} : ~Covers(k, x)'
            /\ \A k \in Id : ~InFree(k, x)'
        /\ \A j, k \in Id, x \in Block : InFree(j, x)' /\ InFree(k, x)' => j = k
        /\ \A k \in Id, j \in Id \ {id}, x \in Block : InFree(k, x)' => ~Covers(j, x)'
    BY <1>3, <1>7, <1>8, <2>1 DEF CreateSpace
  <2>4. QED
    BY <1>3, <2>2, <2>3 DEF CreateSpace
<1>10. Lasting'
  BY <1>2, <1>3 DEF Lasting, IdsIncrease, RowsKnown, DiskHolds, PostsApart, Complete, Covers
<1>11. Phase'
  <2>1. Creating(id, file, size, at, key)'
    BY <1>3, <1>4, <1>5, <1>6, <1>9 DEF Creating
  <2>2. QED
    BY <2>1 DEF Phase
<1>12. QED
  BY <1>2, <1>10, <1>11, ExecutesSound

\* The puts of its columns fill in the row; with the address the blocks become the post's.
LEMMA CreatingColumn ==
  ASSUME TypeInv, Sound, Lasting, NEW id \in Id, NEW key \in Id, NEW file \in File,
         NEW size \in Sizes, NEW at \in Nat, Creating(id, file, size, at, key),
         NEW q, Executes(q), Left \in {2, 3, 4, 5}
  PROVE  Sound' /\ Lasting' /\ Phase'
<1>1. PICK c \in PostColumn, v \in Nat \cup File :
         /\ q = Put("post", id, c, v) /\ v \in Values(c)
         /\ \/ Left = 5 /\ c = "username"
            \/ Left = 4 /\ c = "filename" /\ v = file
            \/ Left = 3 /\ c = "filesize" /\ v = size
            \/ Left = 2 /\ c = "address" /\ v = at
  <2>1. /\ {"username", "filename", "filesize", "address"} \subseteq PostColumn
        /\ Given \in Values("username") /\ file \in Values("filename")
        /\ size \in Values("filesize") /\ at \in Values("address")
        /\ {Given, file, size, at} \subseteq Nat \cup File
    BY SizeNat DEF PostColumn, Values, Given
  <2>2. CASE Left = 5
    BY <2>1, <2>2 DEF Executes, Creating, CreateQueries
  <2>3. CASE Left = 4
    BY <2>1, <2>3 DEF Executes, Creating, CreateQueries
  <2>4. CASE Left = 3
    BY <2>1, <2>4 DEF Executes, Creating, CreateQueries
  <2>5. CASE Left = 2
    BY <2>1, <2>5 DEF Executes, Creating, CreateQueries
  <2>6. QED
    BY <2>2, <2>3, <2>4, <2>5
<1>2. /\ row_count' = row_count + 1 /\ row_count \in Nat
      /\ free' = free /\ crashed' = crashed
      /\ created' = created /\ removed' = removed /\ disk' = disk
      /\ \A d \in PostColumn : post'[id][d] = IF d = c THEN v ELSE post[id][d]
      /\ \A j \in Id \ {id} :
           /\ post'[j] = post[j]
           /\ Complete(j)' <=> Complete(j)
           /\ \A x : Covers(j, x)' <=> Covers(j, x)
  <2>1. /\ row_count' = row_count + 1 /\ row_count \in Nat
        /\ free' = free /\ crashed' = crashed
        /\ created' = created /\ removed' = removed /\ disk' = disk
        /\ \A d \in PostColumn : post'[id][d] = IF d = c THEN v ELSE post[id][d]
        /\ \A j \in Id \ {id} : post'[j] = post[j]
    BY <1>1, NewRowPut
  <2>2. ASSUME NEW j \in Id \ {id}
        PROVE  /\ Complete(j)' <=> Complete(j)
               /\ \A x : Covers(j, x)' <=> Covers(j, x)
    BY <2>1 DEF Complete, Covers
  <2>3. QED
    BY <2>1, <2>2
<1>3. /\ Left' \in {1, 2, 3, 4} /\ Left' = Left - 1 /\ ui' = ui
      /\ \A d \in 0 .. Left - 2 : Pending'[d] = Pending[d]
  BY DEF Executes
<1>4. CreateQueries(id, file, size, at, key)'
  <2>1. CommentsFrom(6)'
    BY <1>3 DEF CommentsFrom
  <2>2. /\ Pending'[0] = Put("post", id, "likes", 0)
        /\ Left' > 1 => Pending'[1] = Put("post", id, "address", at)
        /\ Left' > 2 => Pending'[2] = Put("post", id, "filesize", size)
        /\ Left' > 3 => Pending'[3] = Put("post", id, "filename", file)
    BY <1>3 DEF Creating, CreateQueries
  <2>3. ~(Left' > 4) /\ ~(Left' > 5)
    BY <1>3
  <2>4. QED
    BY <2>1, <2>2, <2>3 DEF CreateQueries, Put
<1>5. /\ post'[id].address = IF Left' > 1 THEN NULL ELSE at
      /\ post'[id].filesize = IF Left' > 2 THEN NULL ELSE size
      /\ post'[id].filename = IF Left' > 3 THEN NULL ELSE file
      /\ post[id].address = NULL
  <2>1. /\ post[id].address = NULL
        /\ post[id].filesize = IF Left > 2 THEN NULL ELSE size
        /\ post[id].filename = IF Left > 3 THEN NULL ELSE file
    BY <1>3 DEF Creating, CreateRow
  <2>2. {"filename", "filesize", "address"} \subseteq PostColumn
    BY DEF PostColumn
  <2>3. /\ post'[id].address = IF "address" = c THEN v ELSE post[id].address
        /\ post'[id].filesize = IF "filesize" = c THEN v ELSE post[id].filesize
        /\ post'[id].filename = IF "filename" = c THEN v ELSE post[id].filename
    BY <1>2, <2>2
  <2>4. QED
    BY <1>1, <1>3, <2>1, <2>3
<1>6. CreateRow(id, file, size, at, key)'
  <2>1. free'[key].from = at + size
    BY <1>2, <1>3 DEF Creating, CreateRow
  <2>2. ~(Left' > 5)
    BY <1>3
  <2>3. QED
    BY <1>5, <2>1, <2>2 DEF CreateRow
<1>7. CreateIds(id, file) /\ CreateSpace(id, file, size, at, key) /\ ~(Left > 5)
  BY DEF Creating
<1>8. /\ RowsWhole({id})' /\ RowsKept({id})' /\ IdsCounted({id})'
      /\ IdsIncrease' /\ RowsKnown'
      /\ created' # <<>> /\ created'[Len(created')] = [id |-> id, file |-> file]
      /\ id \notin removed' /\ id <= row_count' /\ id \in Nat
  BY <1>1, <1>7, NewRowKeeps DEF Id
<1>9. CreateIds(id, file)'
  BY <1>2, <1>8 DEF CreateIds
<1>10. \A k, x : InFree(k, x)' <=> InFree(k, x)
  BY <1>2 DEF InFree
<1>11. ASSUME NEW x PROVE ~Covers(id, x)
  BY <1>5 DEF Covers
<1>12. CreateSpace(id, file, size, at, key)'
  <2>1. removed = {} => key = 1 /\ Packed(at)'
    BY <1>2, <1>7, <1>11 DEF CreateSpace, Packed
  <2>2. /\ \A x \in Block : x \in at .. at + size - 1 =>
            /\ disk'[x] = file
            /\ \A k \in Id \ {id} : ~Covers(k, x)'
            /\ \A k \in Id : ~InFree(k, x)'
        /\ \A j, k \in Id, x \in Block : InFree(j, x)' /\ InFree(k, x)' => j = k
        /\ \A k \in Id, j \in Id \ {id}, x \in Block : InFree(k, x)' => ~Covers(j, x)'
    BY <1>2, <1>7, <1>10 DEF CreateSpace
  <2>3. QED
    BY <1>2, <2>1, <2>2 DEF CreateSpace
<1>13. ASSUME NEW x \in Block, Covers(id, x)'
       PROVE  /\ disk'[x] = post'[id].filename
              /\ \A k \in Id \ {id} : ~Covers(k, x)'
  <2>1. ~(Left' > 1) /\ ~(Left' > 2) /\ ~(Left' > 3)
    BY <1>3, <1>5, <1>13 DEF Covers
  <2>2. x \in at .. at + size - 1 /\ post'[id].filename = file
    BY <1>5, <1>13, <2>1 DEF Covers
  <2>3. QED
    BY <1>2, <1>7, <2>2 DEF CreateSpace
<1>14. DiskHolds'
  <2>1. ASSUME NEW k \in Id, NEW x \in Block, Complete(k)', Covers(k, x)'
        PROVE  disk'[x] = post'[k].filename
    BY <1>2, <1>13, <2>1 DEF Lasting, DiskHolds
  <2>2. QED
    BY <2>1 DEF DiskHolds
<1>15. PostsApart'
  BY <1>2, <1>13 DEF Lasting, PostsApart
<1>16. Phase'
  <2>1. Creating(id, file, size, at, key)'
    BY <1>3, <1>4, <1>6, <1>9, <1>12 DEF Creating
  <2>2. QED
    BY <2>1 DEF Phase
<1>17. QED
  BY <1>2, <1>8, <1>14, <1>15, <1>16, ExecutesSound DEF Lasting

\* After the last put, of the likes, the post is one of the others.
LEMMA CreatingLikes ==
  ASSUME TypeInv, Sound, Lasting, NEW id \in Id, NEW key \in Id, NEW file \in File,
         NEW size \in Sizes, NEW at \in Nat, Creating(id, file, size, at, key),
         NEW q, Executes(q), Left = 1
  PROVE  Sound' /\ Lasting' /\ Phase'
<1>1. /\ q = Put("post", id, "likes", 0) /\ "likes" \in PostColumn /\ 0 \in Values("likes")
      /\ {"filename", "filesize", "address"} \subseteq PostColumn
      /\ "likes" \notin {"filename", "filesize", "address"}
  BY DEF Executes, Creating, CreateQueries, PostColumn, Values
<1>2. /\ row_count' = row_count + 1 /\ row_count \in Nat
      /\ free' = free /\ crashed' = crashed
      /\ created' = created /\ removed' = removed /\ disk' = disk
      /\ \A d \in PostColumn : post'[id][d] = IF d = "likes" THEN 0 ELSE post[id][d]
      /\ \A j \in Id \ {id} :
           /\ post'[j] = post[j]
           /\ Complete(j)' <=> Complete(j)
           /\ \A x : Covers(j, x)' <=> Covers(j, x)
  <2>1. /\ row_count' = row_count + 1 /\ row_count \in Nat
        /\ free' = free /\ crashed' = crashed
        /\ created' = created /\ removed' = removed /\ disk' = disk
        /\ \A d \in PostColumn : post'[id][d] = IF d = "likes" THEN 0 ELSE post[id][d]
        /\ \A j \in Id \ {id} : post'[j] = post[j]
    BY <1>1, NewRowPut
  <2>2. ASSUME NEW j \in Id \ {id}
        PROVE  /\ Complete(j)' <=> Complete(j)
               /\ \A x : Covers(j, x)' <=> Covers(j, x)
    BY <2>1 DEF Complete, Covers
  <2>3. QED
    BY <2>1, <2>2
<1>3. Left' = 0 /\ ui' = ui /\ ui \in {"menu", "submit"}
  BY DEF Executes, Creating
<1>4. /\ post'[id].address = at /\ post'[id].filesize = size /\ post'[id].filename = file
      /\ post[id].address = at /\ post[id].filesize = size /\ post[id].filename = file
      /\ free[key].from = at + size
  <2>1. /\ post[id].address = at /\ post[id].filesize = size /\ post[id].filename = file
        /\ free[key].from = at + size
    BY DEF Creating, CreateRow
  <2>2. QED
    BY <1>1, <1>2, <2>1
<1>5. /\ CreateIds(id, file) /\ CreateSpace(id, file, size, at, key) /\ ~(Left > 5)
      /\ size \in Nat /\ at + size \in Nat
  <2>1. size \in Nat
    BY SizeNat
  <2>2. QED
    BY <2>1 DEF Creating
<1>6. /\ RowsWhole({id})' /\ RowsKept({id})' /\ IdsCounted({id})'
      /\ IdsIncrease' /\ RowsKnown'
      /\ created' # <<>> /\ created'[Len(created')] = [id |-> id, file |-> file]
      /\ id \notin removed' /\ id <= row_count'
  BY <1>1, <1>5, NewRowKeeps
<1>7. Complete(id) /\ Complete(id)' /\ \A x : Covers(id, x)' <=> Covers(id, x)
  <2>1. NULL \notin {file, size, at}
    BY SizeNat
  <2>2. QED
    BY <1>4, <2>1 DEF Complete, Covers
<1>8. \A x : Covers(id, x) <=> x \in at .. at + size - 1
  BY <1>4, <1>7 DEF Covers, Complete
<1>9. /\ \A k \in Id : Complete(k)' <=> Complete(k)
      /\ \A k \in Id : post'[k].filename = post[k].filename
      /\ \A k \in Id : \A x : Covers(k, x)' <=> Covers(k, x)
      /\ \A k, x : InFree(k, x)' <=> InFree(k, x)
  BY <1>2, <1>4, <1>7 DEF InFree
<1>10. DiskHolds' /\ PostsApart'
  BY <1>2, <1>9 DEF Lasting, DiskHolds, PostsApart
<1>11. RowsWhole({})' /\ IdsCounted({})'
  BY <1>6, <1>7 DEF RowsWhole, IdsCounted
<1>12. RowsKept({})'
  <2>1. ASSUME NEW i \in DOMAIN created, created[i].id \notin removed'
        PROVE  post'[created[i].id].filename = created[i].file
    <3>1. CASE created[i].id # id
      BY <1>2, <1>6, <2>1, <3>1 DEF RowsKept
    <3>2. CASE created[i].id = id
      <4>1. /\ Len(created) \in DOMAIN created /\ DOMAIN created = 1 .. Len(created)
            /\ Len(created) \in Nat
        BY <1>5, LenProperties, EmptySeq DEF TypeInv, CreateIds
      <4>2. created[Len(created)].id = id /\ created[Len(created)].file = file
        BY <1>5 DEF CreateIds
      <4>3. ~(i < Len(created))
        BY <3>2, <4>1, <4>2 DEF Lasting, IdsIncrease, Id
      <4>4. i = Len(created)
        BY <4>1, <4>3
      <4>5. QED
        BY <1>4, <3>2, <4>2, <4>4
    <3>3. QED
      BY <3>1, <3>2
  <2>2. QED
    BY <1>2, <2>1 DEF RowsKept
<1>13. FreeApart({})'
  <2>1. ASSUME NEW k \in Id, NEW j \in Id, NEW x \in Block, InFree(k, x)
        PROVE  ~Covers(j, x)
    BY <1>5, <1>8, <2>1 DEF CreateSpace
  <2>2. QED
    BY <1>5, <1>9, <2>1 DEF FreeApart, CreateSpace
<1>14. removed' = {} => Packed(free[1].from)'
  <2>1. ASSUME removed = {}
        PROVE  Packed(at + size)
    <3>1. key = 1 /\ Packed(at)
      BY <1>5, <2>1 DEF CreateSpace
    <3>2. ASSUME NEW x \in Block, x < at + size
          PROVE  \E k \in Id : Covers(k, x)
      <4>1. x \in Nat
        BY DEF Block
      <4>2. CASE x < at
        BY <3>1, <4>2 DEF Packed
      <4>3. CASE ~(x < at)
        BY <1>5, <1>8, <3>2, <4>1, <4>3
      <4>4. QED
        BY <4>2, <4>3
    <3>3. QED
      BY <1>5, <3>1, <3>2 DEF Packed
  <2>2. removed = {} => key = 1
    BY <1>5 DEF CreateSpace
  <2>3. removed = {} => Packed(free[1].from)
    BY <1>4, <2>1, <2>2
  <2>4. QED
    BY <1>2, <1>9, <2>3 DEF Packed
<1>15. CommentsFrom(0)' /\ SettledJob'
  BY <1>3 DEF CommentsFrom, SettledJob
<1>16. Settled'
  BY <1>11, <1>12, <1>13, <1>14, <1>15 DEF Settled, SettledTables
<1>17. QED
  BY <1>2, <1>6, <1>10, <1>16, ExecutesSound DEF Lasting, Phase

-----------------------------------------------------------------------------
(* The three queries of a delete.                                          *)

\* The two puts on the region of a delete, whose other regions stay apart.
LEMMA DeletingFree ==
  ASSUME TypeInv, Sound, Lasting, NEW k \in Id, NEW at \in Nat, NEW size \in Sizes,
         Deleting(k, at, size), NEW q, Executes(q), Left \in {2, 3}
  PROVE  Sound' /\ Lasting' /\ Phase'
<1>1. PICK c \in FreeColumn, v \in Nat :
         /\ q = Put("free_space", k, c, v)
         /\ \/ Left = 3 /\ c = "from" /\ v = at
            \/ Left = 2 /\ c = "to" /\ v = at + size
  <2>1. {"from", "to"} \subseteq FreeColumn /\ at + size \in Nat
    BY SizeNat DEF FreeColumn
  <2>2. CASE Left = 3
    BY <2>1, <2>2 DEF Executes, Deleting, DeleteQueries
  <2>3. CASE Left = 2
    BY <2>1, <2>3 DEF Executes, Deleting, DeleteQueries
  <2>4. QED
    BY <2>2, <2>3
<1>2. /\ row_count' = row_count /\ post' = post /\ crashed' = crashed
      /\ \A d \in FreeColumn : free'[k][d] = IF d = c THEN v ELSE free[k][d]
      /\ \A j \in Id \ {k} : free'[j] = free[j]
  BY <1>1, FreePutExecuted
<1>3. /\ Left' \in {1, 2} /\ Left' = Left - 1 /\ ui' = ui
      /\ created' = created /\ removed' = removed /\ disk' = disk
      /\ \A d \in 0 .. Left - 2 : Pending'[d] = Pending[d]
  BY DEF Executes
<1>4. DeleteQueries(k, at, size)'
  <2>1. CommentsFrom(3)'
    BY <1>3 DEF CommentsFrom
  <2>2. /\ Pending'[0] = Del(k)
        /\ Left' > 1 => Pending'[1] = Put("free_space", k, "to", at + size)
    BY <1>3 DEF Deleting, DeleteQueries
  <2>3. ~(Left' > 2)
    BY <1>3
  <2>4. QED
    BY <2>1, <2>2, <2>3 DEF DeleteQueries, Put, Del
<1>5. DeleteRows(k, at, size)'
  <2>1. DeleteRows(k, at, size)
    BY DEF Deleting
  <2>2. Left' <= 2 => free'[k].from = at
    BY <1>1, <1>2, <1>3, <2>1 DEF DeleteRows, FreeColumn
  <2>3. Left' <= 1 => free'[k].to = at + size
    BY <1>1, <1>2, <1>3, <2>1 DEF DeleteRows, FreeColumn
  <2>4. RowsWhole({})' /\ RowsKept({})' /\ IdsCounted({})'
    BY <1>2, <1>3, <2>1 DEF DeleteRows, RowsWhole, RowsKept, IdsCounted, Complete
  <2>5. FreeApart({k})'
    BY <1>2, <2>1 DEF DeleteRows, FreeApart, InFree, Covers
  <2>6. QED
    BY <1>2, <1>3, <2>1, <2>2, <2>3, <2>4, <2>5 DEF DeleteRows, Complete
<1>6. Lasting'
  BY <1>2, <1>3 DEF Lasting, IdsIncrease, RowsKnown, DiskHolds, PostsApart, Complete, Covers
<1>7. Phase'
  <2>1. Deleting(k, at, size)'
    BY <1>3, <1>4, <1>5 DEF Deleting
  <2>2. QED
    BY <2>1 DEF Phase
<1>8. QED
  BY <1>2, <1>6, <1>7, ExecutesSound

\* The row goes last, and leaves its blocks to the region filed under its id.
LEMMA DeletingRow ==
  ASSUME TypeInv, Sound, Lasting, NEW k \in Id, NEW at \in Nat, NEW size \in Sizes,
         Deleting(k, at, size), NEW q, Executes(q), Left = 1
  PROVE  Sound' /\ Lasting' /\ Phase'
<1>1. DeleteRows(k, at, size) /\ q = Del(k) /\ free[k].from = at /\ free[k].to = at + size
  BY DEF Executes, Deleting, DeleteQueries, DeleteRows
<1>2. post[k] # NoPost
  BY <1>1 DEF DeleteRows, Complete, NoPost, PostColumn
<1>3. /\ row_count' = row_count /\ free' = free /\ crashed' = crashed
      /\ \A j \in Id, d \in PostColumn : post'[j][d] = IF j = k THEN NULL ELSE post[j][d]
      /\ \A j \in Id \ {k} : post'[j] = post[j]
      /\ post'[k] = NoPost
  BY <1>1, <1>2, DeleteExecuted
<1>4. /\ Left' = 0 /\ ui' = ui /\ ui \in {"menu", "submit"}
      /\ created' = created /\ removed' = removed /\ disk' = disk
  BY DEF Executes, Deleting
<1>5. /\ \A j \in Id \ {k} : /\ Complete(j)' <=> Complete(j)
                             /\ \A x : Covers(j, x)' <=> Covers(j, x)
      /\ ~Complete(k)' /\ \A x : ~Covers(k, x)'
      /\ \A j, x : InFree(j, x)' <=> InFree(j, x)
  BY <1>3 DEF Complete, Covers, InFree, NoPost, PostColumn
<1>6. \A x : InFree(k, x) => Covers(k, x)
  <2>1. post[k].address = at /\ post[k].filesize = size /\ NULL \notin {at, size}
    BY <1>1, SizeNat DEF DeleteRows
  <2>2. ASSUME NEW x, InFree(k, x) PROVE Covers(k, x)
    <3>1. x \in at .. at + size - 1
      BY <1>1, <2>2 DEF InFree
    <3>2. QED
      BY <2>1, <3>1 DEF Covers
  <2>3. QED
    BY <2>2
<1>7. RowsWhole({})'
  BY <1>1, <1>3, <1>5 DEF DeleteRows, RowsWhole
<1>8. RowsKept({})'
  BY <1>1, <1>3, <1>4, CreatedTypes DEF DeleteRows, RowsKept
<1>9. IdsCounted({})'
  BY <1>1, <1>3, <1>4 DEF DeleteRows, IdsCounted
<1>10. FreeApart({})'
  <2>1. ASSUME NEW j \in Id, NEW x \in Block, InFree(j, x), InFree(k, x)
        PROVE  j = k
    BY <1>1, <1>6, <2>1 DEF DeleteRows, FreeApart
  <2>2. ASSUME NEW i \in Id, NEW j \in Id, NEW x \in Block, InFree(i, x), InFree(j, x)
        PROVE  i = j
    BY <1>1, <2>1, <2>2 DEF DeleteRows, FreeApart
  <2>3. ASSUME NEW i \in Id, NEW j \in Id, NEW x \in Block, InFree(i, x), Covers(j, x)'
        PROVE  FALSE
    <3>1. j # k /\ Covers(j, x)
      BY <1>5, <2>3
    <3>2. i = k
      BY <1>1, <2>3, <3>1 DEF DeleteRows, FreeApart
    <3>3. QED
      BY <1>6, <2>3, <3>1, <3>2 DEF Lasting, PostsApart
  <2>4. QED
    BY <1>5, <2>2, <2>3 DEF FreeApart
<1>11. CommentsFrom(0)' /\ SettledJob' /\ removed' # {}
  BY <1>1, <1>4 DEF CommentsFrom, SettledJob, DeleteRows
<1>12. Settled'
  BY <1>7, <1>8, <1>9, <1>10, <1>11 DEF Settled, SettledTables
<1>13. Lasting'
  <2>1. IdsIncrease'
    BY <1>4 DEF Lasting, IdsIncrease
  <2>2. RowsKnown'
    BY <1>3, <1>4 DEF Lasting, RowsKnown
  <2>3. DiskHolds'
    BY <1>3, <1>4, <1>5 DEF Lasting, DiskHolds
  <2>4. PostsApart'
    BY <1>5 DEF Lasting, PostsApart
  <2>5. QED
    BY <2>1, <2>2, <2>3, <2>4 DEF Lasting
<1>14. QED
  BY <1>3, <1>12, <1>13, ExecutesSound DEF Phase

-----------------------------------------------------------------------------
(* Every step of a serial use.                                             *)

\* An execution, by what is pending.
LEMMA ExecuteSerial ==
  ASSUME TypeInv, SerialInv, Execute, ~crashed
  PROVE  SerialInv'
<1> SUFFICES ASSUME overlaps' = 0
             PROVE  (Sound /\ Lasting /\ Phase /\ (removed = {} => ~refused))'
  BY DEF SerialInv
<1>1. PICK q \in Query : Executes(q)
  BY ExecuteStep
<1>2. overlaps = 0 /\ removed' = removed /\ refused' = refused
  BY <1>1 DEF Executes
<1>3. Sound /\ Lasting /\ Phase /\ (removed = {} => ~refused)
  BY <1>2 DEF SerialInv
<1>4. Left > 0 /\ Left \in Nat
  BY <1>1 DEF Executes
<1>5. ASSUME Settled PROVE Sound' /\ Lasting' /\ Phase'
  BY <1>1, <1>3, <1>5, SettledExecutes
<1>6. ASSUME NEW id \in Id, NEW key \in Id, NEW file \in File, NEW size \in Sizes,
             NEW at \in Nat, Creating(id, file, size, at, key)
      PROVE  Sound' /\ Lasting' /\ Phase'
  <2>1. CASE Left > 6
    BY <1>1, <1>3, <1>6, <2>1, CreatingComment
  <2>2. CASE Left = 6
    BY <1>1, <1>3, <1>6, <2>2, CreatingFree
  <2>3. CASE Left \in {2, 3, 4, 5}
    BY <1>1, <1>3, <1>6, <2>3, CreatingColumn
  <2>4. CASE Left = 1
    BY <1>1, <1>3, <1>6, <2>4, CreatingLikes
  <2>5. QED
    BY <1>4, <2>1, <2>2, <2>3, <2>4
<1>7. ASSUME NEW k \in Id, NEW at \in Nat, NEW size \in Sizes, Deleting(k, at, size)
      PROVE  Sound' /\ Lasting' /\ Phase'
  <2>1. CASE Left > 3
    BY <1>1, <1>3, <1>7, <2>1, DeletingComment
  <2>2. CASE Left \in {2, 3}
    BY <1>1, <1>3, <1>7, <2>2, DeletingFree
  <2>3. CASE Left = 1
    BY <1>1, <1>3, <1>7, <2>3, DeletingRow
  <2>4. QED
    BY <1>4, <2>1, <2>2, <2>3
<1>8. Sound' /\ Lasting' /\ Phase'
  BY <1>3, <1>5, <1>6, <1>7 DEF Phase
<1>9. QED
  BY <1>2, <1>3, <1>8

\* The program begins with an empty store and nothing pending.
LEMMA InitSerial == Init => SerialInv
<1> SUFFICES ASSUME Init PROVE Sound /\ Lasting /\ Phase /\ (removed = {} => ~refused)
  BY DEF SerialInv
<1>1. /\ post = [k \in Id |-> NoPost]
      /\ free = [[k \in Id |-> NoRegion] EXCEPT ![1] = [from |-> StoreFrom, to |-> StoreTo]]
      /\ row_count = 0 /\ queue = <<>> /\ ui = "menu" /\ todo = <<>>
      /\ ~crashed /\ created = <<>> /\ removed = {} /\ ~refused
  BY DEF Init
<1>2. Left = 0 /\ DOMAIN created = {}
  <2>1. Len(queue) = 0 /\ Len(todo) = 0
    BY <1>1
  <2>2. QED
    BY <1>1, <2>1 DEF Left
<1>3. Sound
  BY <1>1, <1>2 DEF Sound
<1>4. \A k \in Id : post[k] = NoPost /\ ~Complete(k) /\ \A x : ~Covers(k, x)
  BY <1>1 DEF NoPost, PostColumn, Complete, Covers
<1>5. 1 \in Id /\ \A k \in Id \ {1} : free[k] = NoRegion
  BY <1>1 DEF Id
<1>6. free[1].from = StoreFrom /\ free[1].to = StoreTo
  BY <1>1, <1>5
<1>7. \A k \in Id \ {1} : \A x : ~InFree(k, x)
  BY <1>5 DEF InFree, NoRegion, FreeColumn
<1>8. Lasting
  BY <1>1, <1>2, <1>4 DEF Lasting, IdsIncrease, RowsKnown, DiskHolds, PostsApart
<1>9. RowsWhole({}) /\ RowsKept({}) /\ IdsCounted({})
  BY <1>2, <1>4 DEF RowsWhole, RowsKept, IdsCounted
<1>10. FreeApart({})
  BY <1>4, <1>7 DEF FreeApart
<1>11. Packed(free[1].from)
  <2>1. \A x \in Block : ~(x < StoreFrom) 
    BY DEF Block
  <2>2. QED
    BY <1>5, <1>6, <2>1 DEF Packed
<1>12. CommentsFrom(0) /\ SettledJob
  BY <1>1, <1>2 DEF CommentsFrom, SettledJob
<1>13. QED
  BY <1>1, <1>3, <1>8, <1>9, <1>10, <1>11, <1>12 DEF Phase, Settled, SettledTables

\* A stuttering step changes nothing.
LEMMA StutterSerial ==
  ASSUME TypeInv, SerialInv, UNCHANGED vars
  PROVE  SerialInv'
<1> SUFFICES ASSUME overlaps' = 0
             PROVE  (Sound /\ Lasting /\ Phase /\ (removed = {} => ~refused))'
  BY DEF SerialInv
<1>1. UNCHANGED <<post, free, row_count, queue, disk, ui, job, todo, crashed,
                  created, removed, refused, overlaps>>
  BY DEF vars
<1>2. Sound /\ Lasting /\ Phase /\ (removed = {} => ~refused)
  BY <1>1 DEF SerialInv
<1>3. Left' = Left /\ Pending' = Pending
  BY <1>1 DEF Left, Pending
<1>4. SettledJob => SettledJob'
  BY <1>1 DEF SettledJob, Fits, Complete
<1>5. Phase'
  BY <1>1, <1>2, <1>3, <1>4, PhaseKept
<1>6. Sound' /\ Lasting'
  BY <1>1, <1>2, <1>3, SamePhase DEF Sound
<1>7. QED
  BY <1>1, <1>2, <1>5, <1>6

\* Every step keeps the invariant.
LEMMA NextSerial ==
  ASSUME TypeInv, SerialInv, [Next]_vars
  PROVE  SerialInv'
<1>1. CASE UNCHANGED vars
  BY <1>1, StutterSerial
<1>2. CASE Next
  <2>1. ~crashed
    BY <1>2 DEF Next
  <2>2. ASSUME NEW f \in File, NEW n \in Sizes, CreateFindSpace(f, n) PROVE SerialInv'
    BY <2>1, <2>2, FindSpaceSerial
  <2>3. ASSUME NEW f \in File, NEW n \in Sizes, CreateNoSpace(f, n) PROVE SerialInv'
    BY <2>1, <2>3, NoSpaceSerial
  <2>4. CASE CreateWrite
    BY <2>1, <2>4, CreateWriteSerial
  <2>5. ASSUME NEW k \in Id, DeleteReadSize(k) PROVE SerialInv'
    BY <2>1, <2>5, ReadSizeSerial
  <2>6. ASSUME NEW k \in Id, Comment(k) PROVE SerialInv'
    BY <2>1, <2>6, CommentSerial
  <2>7. CASE DeleteReadAddress
    BY <2>1, <2>7, ReadAddressSerial
  <2>8. CASE Submit
    BY <2>1, <2>8, SubmitSerial
  <2>9. CASE Execute
    BY <2>1, <2>9, ExecuteSerial
  <2>10. QED
    BY <1>2, <2>2, <2>3, <2>4, <2>5, <2>6, <2>7, <2>8, <2>9 DEF Next
<1>3. QED
  BY <1>1, <1>2

\* The inductive invariant holds always.
LEMMA SerialInvariant == Spec => []Inv
<1>1. Init => Inv
  BY InitTyped, InitSerial DEF Inv
<1>2. Inv /\ [Next]_vars => Inv'
  BY NextTyped, NextSerial DEF Inv
<1>3. QED
  BY <1>1, <1>2, PTL DEF Spec

-----------------------------------------------------------------------------
(* What the invariant says of the posts.                                   *)

\* The allocator of client.h hands out no block twice: a download gives the file that was
\* posted, in any store, for any files and sizes.
THEOREM DownloadsAreOriginal == Spec => []DownloadIsOriginal
<1>1. Inv => DownloadIsOriginal
  <2> SUFFICES ASSUME Inv, overlaps = 0, NEW k \in Id, Complete(k)
               PROVE  Downloaded(k) \subseteq {post[k].filename}
    BY DEF DownloadIsOriginal
  <2>1. DiskHolds
    BY DEF Inv, SerialInv, Lasting
  <2>2. QED
    BY <2>1 DEF Downloaded, DiskHolds
<1>2. QED
  BY <1>1, SerialInvariant, PTL

\* The id of a new post is behind all earlier ones, however many rows were deleted.
THEOREM IdsAreNeverReused == Spec => []IdsNeverReused
<1>1. Inv => IdsNeverReused
  <2> SUFFICES ASSUME Inv, overlaps = 0, NEW i \in DOMAIN created, NEW j \in DOMAIN created,
                      created[i].id = created[j].id
               PROVE  i = j
    BY DEF IdsNeverReused
  <2>1. IdsIncrease
    BY DEF Inv, SerialInv, Lasting
  <2>2. created[i].id \in Nat /\ created[j].id \in Nat
    BY CreatedTypes DEF Inv
  <2>3. i \in Nat /\ j \in Nat
    BY LenProperties DEF Inv, TypeInv
  <2>4. ~(i < j) /\ ~(j < i)
    BY <2>1, <2>2 DEF IdsIncrease
  <2>5. QED
    BY <2>3, <2>4
<1>2. QED
  BY <1>1, SerialInvariant, PTL

\* When all queries are executed no post is half there, and no delete has met an empty row.
THEOREM NoPostIsAGhost == Spec => []NoGhosts
<1>1. Inv => NoGhosts
  <2> SUFFICES ASSUME Inv, overlaps = 0
               PROVE  ~crashed /\ (Quiet => \A k \in Id : post[k] # NoPost => Complete(k))
    BY DEF NoGhosts
  <2>1. Sound /\ Phase
    BY DEF Inv, SerialInv
  <2>2. ASSUME Quiet PROVE SettledTables
    BY <2>1, <2>2, QuietPending DEF Inv, Phase, Settled, Creating, Deleting
  <2>3. QED
    BY <2>1, <2>2, RowComplete DEF Sound, Inv
<1>2. QED
  BY <1>1, SerialInvariant, PTL

\* view_posts_wrapper lists every post that was not removed, when all queries are executed.
THEOREM PostsStayVisible == Spec => []VisibleUntilRemoved
<1>1. Inv => VisibleUntilRemoved
  <2> SUFFICES ASSUME Inv, overlaps = 0, Quiet, NEW i \in DOMAIN created,
                      created[i].id \notin removed
               PROVE  created[i].file \in Listed
    BY DEF VisibleUntilRemoved, PostsAreVisible
  <2>1. SettledTables
    BY QuietPending DEF Inv, SerialInv, Phase, Settled, Creating, Deleting
  <2>2. created[i].id \in Id /\ created[i].id <= row_count
    BY <2>1, CreatedTypes DEF Inv, SettledTables, IdsCounted
  <2>3. post[created[i].id].filename = created[i].file
    BY <2>1 DEF SettledTables, RowsKept
  <2>4. created[i].file # NULL
    <3>1. created \in Seq([id : Id, file : File])
      BY DEF Inv, TypeInv
    <3>2. created[i] \in [id : Id, file : File]
      BY <3>1, LenProperties, ElementOfSeq
    <3>3. created[i].file \in File
      BY <3>2
    <3>4. QED
      BY <3>3
  <2>5. QED
    BY <2>2, <2>3, <2>4 DEF Listed
<1>2. QED
  BY <1>1, SerialInvariant, PTL

\* Until a post is removed, "No Free Space" is said only when the space left is too small.
THEOREM RefusalsNeedRemovals == Spec => []RefusedNeedsRemoval
<1>1. Inv => RefusedNeedsRemoval
  BY DEF Inv, SerialInv, RefusedNeedsRemoval
<1>2. QED
  BY <1>1, SerialInvariant, PTL
=============================================================================
