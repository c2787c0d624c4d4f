# Verification of the social media server

A TLA+ development for the program in `src/` (the "Social Media App": a console client and
server in C over a small key-value database). It models the request pipeline, the table
engine, posts and their file store, comments, the life of the database from one start to the
next, and two peers that exchange messages and sync; it model-checks them with TLC, and
proves the safety properties of the pipeline, the table engine and the comments with TLAPS
for every value of their constants.

Line numbers below are of files in `src/Social Media App/` unless a path is given;
`README.md:n` is `src/README.md`.

## 1. The system

| Component | Source | State | Operations |
|---|---|---|---|
| Request queue and thread pool | `queue.h`, `server.h:4-156` | the ring `my_queue` (front, rear, size, array), the mutex `lock`, `thread_state` of the pool | `add_request_query`, `enqueue`, `dequeue`, `request_processor`, `get_new_thread`, `execute_query_on_thread` |
| Table engine | `hash.h`, `stack_utils.h`, `transaction_utils.h`, `memory_utils.h` | buckets of linked records, a version stack per column, `row_count`, the global transaction holder | `insert_or_update_into_table`, `searchInTable`, `deleteInTable`, `push`, `commit`, `revert_commit` |
| Commands | `command_utils.h`, `query_operations.h`, `utils.h` | tables and their flags | put, get, delete, count, scan, create, list, enable, disable, export, import; `process_query` dispatches |
| Posts and the file store | `client.h:2-252`, `server.h:258-306, 396-433` | tables `post` and `free_space`, `filesystem.bin` | create, view, download, delete; `get_free_position`, `get_new_post_id` |
| Comments | `server.h:309-394`, `string_utils.h` | one column of a post's row: a text whose parts are separated | comment, view, delete a comment |
| Persistence | `server.h:199-256`, `command_utils.h` (export, import), `Social Media App.cpp` | `my_db.nosql`, the size and the text at the start of `filesystem.bin` | export, dump, load, import |
| Users and sessions | `authentication.h`, `server.h:435-440`, `menu_utils.h` | table `profile`, the current user | sign up, log in, remove |
| Messaging | `client.h:254-311`, `server.h:483-508` | table `message` | send, inbox, the peer's handler |
| Sync and sockets | `socket_client.h`, `socket_server.h`, `server.h:446-481`, `client.h` | a connection, `recvbuf`, the counter of the reply, `db.nosql` | `send_request`, `start_Server`, `process_request` |
| Menus, string helpers | `menu_utils.h`, `utils.h`, `string_utils.h` | none kept | prompts, splitting of query strings |

How they interact. Every thread that wants to *change* a table (the menu on the main thread,
a socket thread for a peer) writes a query string and gives it to `add_request_query`, which
puts it in the ring without taking a lock. One thread, `request_processor`, polls the ring,
takes the next query under the mutex, hands it to a pool thread and joins that thread; the
pool thread runs `process_query` under the same mutex. Every thread that wants to *read* a
table calls `get` and the scans directly, with no lock and with no look at the ring. So a
client never reads its own writes at once, and most of what can go wrong between components
comes from that.

### Hard behaviours, and what should hold

* **Pipeline**: `enqueue` and `dequeue` both load and store `size`, and share no lock; two
  callers share `rear`; the test of `isEmpty` is made outside the mutex; a pool thread is
  given the address of a local array and of a local index of the processor; slots of the
  pool are released by the pool threads; a query that does not return stops everything.
  Should hold: each request in order and once; a drop only when the ring is full; a pool that
  does not leak slots. `README.md:17` says that requests are processed concurrently; the code
  processes them one at a time, and much of it relies on that.
* **Tables**: a found record that is not first in its bucket is linked again behind the last
  one; `deleteInTable` compares the key with the first record only; a value is pushed before
  `commit` makes it visible; a stack holds 100 versions and the version number does not stop
  there; the transaction holder is global. Should hold: the table is a map from row and
  column to the last committed value, and commands return.
* **Posts**: the id of a new post is derived from a count of puts, the free region is read
  before the last create's update of it has run, a create is six queries, a delete three,
  freed regions are filed under the id of the post. Should hold: a download is the file that
  was posted, ids are not reused, a post is visible until it is removed, no half-made rows
  remain.
* **Comments**: a reader gets a pointer into the version stack and `strtok` cuts the stored
  text after its first part; an append copies the text that a reader may just have cut; a
  deletion writes back the list it read, joined by commas, which `put` takes for more
  columns. Should hold: comments keep their order and are never doubled, the first one
  stays, and what the queue has accepted is what the list becomes, unless one of these
  things happened.
* **Persistence, users**: the process may be killed anywhere, also between the two writes of
  a dump; the import of the old database is a query like any other, so sign ups, posts,
  removals and even an exit may come before it; ids come from a count that is different
  after a restart. Should hold: whoever signed up can log in with the last password, after a
  restart too; nothing that was there at the last exit is lost; posts stay listed; a delete
  finds its row.
* **Messaging, sync**: each login starts one more server thread on the same port; two
  threads of a peer number the rows of one table, filling each in two steps; the receiving
  buffer keeps what an earlier request left; the sync reply loops over a counter that it
  resets; a client waits for one answer, both peers at once perhaps. Should hold: names and
  messages of a row belong together, the sender keeps what was answered, a copy is the
  other peer's text (it is one reply at most), both sides return.

## 2. The modules

| Module | Role |
|---|---|
| `RequestPipeline` | the ring, its callers, the processor and the pool, access by access |
| `RequestService` | what the queue promises: accepted requests are processed once each, in order |
| `RequestPipelineProofs` | theorems about `RequestPipeline` |
| `Table` | one table: buckets, versions, transactions, put, get, delete, export, import |
| `KeyValueStore` | what a table promises: a map from row and column to the last value |
| `TableProofs` | theorems about `Table` |
| `Posts` | create, delete, comment, list and download over the queue |
| `PostsProofs` | theorems about `Posts` |
| `Comments` | the comments of one post: readers, deletions and appends over the queue |
| `CommentList` | what the comments promise: a list that grows at its end and loses what is deleted |
| `CommentsProofs` | theorems about `Comments` |
| `Lifecycle` | users, posts and the files on disk over starts, exits and kills |
| `LifecycleProofs` | theorems about `Lifecycle` |
| `Peers` | two running programs: connections, server threads, messages, sync |
| `PeersProofs` | theorems about `Peers` |
| `FoldLemmas` | induction over numbers and sequences as statements about sets; what `FlattenSeq` and `SetToSeq` give |
| `MCRequestPipeline`, `MCTable`, `MCPosts`, `MCComments`, `MCLifecycle`, `MCPeers` | instances for TLC |

`RequestPipeline` and `Table` are the two layers everything else stands on. The other
modules use their abstractions: the queue as an in-order, lossless service
(`RequestService`) and a table as a map (`KeyValueStore`), with `row_count`, which no map
has, where ids come from it. Each says at its head what it leaves to another module.

The `map` of `PROJECT.json` gives, for every definition, the lines it stands for.

### RequestPipeline

Threads and their program counters: `prodPc[p]` for each thread inside `add_request_query`,
`procPc` for `request_processor`, `workPc[t]` for the thread in slot `t` of the pool.

* A caller of `enqueue` takes the mutex nowhere, so each load or store of a field that
  another thread writes is an action: the test of `isFull` (`EnqueueFull` or
  `EnqueueBegin`), `RearLoad`, `RearStore`, `ItemStore`, `SizeLoad`, `SizeStore`. The last
  one is the point at which the request counts as *accepted*. `EnqueueFull` drops the query
  and tells nobody, as `queue.h:30` does.
* `request_processor` is `Poll` (the test outside the lock), `PickThread` (`get_new_thread`,
  the first free slot), `LockQueue`, `Take`, `TakeSizeLoad`, `TakeSizeStore`, `UnlockQueue`,
  `CreateThread`, `Join`. `Take` merges the read of the item and the update of `front`: only
  this thread writes `front`. Of the stack array `arr`, element 1 is kept in the variable
  `arr`; element 2 is the address of `thread_index`, so `WorkerReset` reads the *current*
  value of that local, as the code does through the pointer.
* A pool thread is `WorkerReject` (the early returns, which leave the slot busy),
  `WorkerStart`, `WorkerLock`, `WorkerProcess`, `WorkerUnlock`, `WorkerReset`.
  `process_query` is one step that never comes for the requests of `Stuck`; module `Table`
  shows how a query gets there (`PutWalkHangs`, `PutSearchHangs`).
* The array of the ring is not initialised by `createQueue`. `Garbage` is what an unwritten
  slot holds; when a race makes the processor take it, printing it may crash the process
  (`Crash`) or go on, and then it is rejected or matches no command.
* History variables: `submitted`, `accepted`, `executed`, and `raced`, which becomes true
  when an update of a queue field is lost: `size` changed between a load and the store that
  goes with it, or two callers are inside `enqueue` at once.

`raced` splits the properties. Some hold whatever is lost (`SerialExecution`,
`DequeueNeverEmpty`, `TypeOK`, and `SizeWithinCapacity` for one caller); the others hold
until something is lost, and the run `pipeline_lost_update` shows that this really happens.
So `ExactlyOnceInOrder` says more than "no race, no harm": the threads do interleave inside
the ring at every access without `raced`, and the property covers all of those
interleavings; only the overwriting of a counter is excluded.

### Table

The commands run under the mutex, one at a time, while readers run beside them. A put is
therefore two parts: the update with the relinking of the record, and the commit, entry by
entry. A get between the two is what a reader may see. A get that runs *during* the first
part (a list is cut for a moment) is not split.

A list grows at its tail only and a cycle is only ever closed by its last record, so a
bucket is a sequence of keys plus the position `back` its last record points to.
`PutLaterRow` is the relinking that closes a cycle, `PutWalkHangs` and `PutSearchHangs` the
walks that then never end, `DeleteOnlyRow`, `DeleteFirstRow`, `DeleteLaterRow` the three
ends of `deleteInTable`, `DeleteCrashes` the read through NULL on an empty bucket. After
`DeleteFirstRow` the bucket starts with freed memory; the next command on it stops the model
(`UseAfterFree`), because nothing is defined. `damaged` is a history variable: the buckets
in which a delete did not remove exactly the row it names.

`get` compares the key of each record on its way. In a bucket whose first record was freed
it reads freed memory (`Garbage`); in a cyclic bucket a key that is not there is searched for
ever (`Hangs`), so the promise of `KeyValueStore` ends as soon as some key's search would not
end (`SearchesEnd`).

Export and import are functions of the state, because the export changes nothing and an
import runs on an empty table: `ExportedLines` are the lines written for a cell, up to its
version number and so perhaps past the top of its stack, and only for the first record of a
bucket (`Exported`). `ImportedLines` has the last line of the file twice (`feof`,
`command_utils.h:260`); whose line that is depends on the order of tables, buckets and
columns, so `RestartKeepsUnsharedRows` allows for both at every column. `Reimported` folds
the puts over an empty column.

### Posts

The main thread is a small state machine (`ui`): it reads the tables, writes the file store,
then adds its queries one at a time (`Submit`), each dropped if the queue is full, while
`Execute` runs the head of the queue at any moment. `job` holds the locals between two reads
(`DeleteReadSize` and `DeleteReadAddress` are two gets of the same row, with executions in
between). The queue and the tables are used here by their abstractions: the queue in order
and lossless, which is `RequestService`, and a table that is a map, which is
`KeyValueStore`; `row_count` is kept because ids come from it, and it counts puts, not rows,
and never goes down. That abstraction is exact for up to 19 posts: the one- and two-digit
ids below 20 have different hash codes.

`overlaps` counts the operations, comments included, begun while a create or delete was still
in the queue (or with too little room for six queries). The properties speak of
`overlaps = 0`, a user who waits for creates and deletes to drain before the next operation,
and who need not wait for comments. That wait, and `MaxOverlaps`, are a bound of the model
(`Begin`): the code asks nothing of the queue, and the run `posts_visible` shows what happens
to a user who does not wait. It has a queue of 100 as in the code, so that nothing is
dropped.

### Comments

The column is its version stack: `array`, a sequence of texts, and `version`, the committed
one. A text of the column is the sequence of its parts, and a comment as it is typed is a
sequence too: of one part, or of more where it holds semicolons, which nothing tells from the
separators of the list. `ViewGet` and `DeleteGet` leave the menu with a
pointer (`at`) into the stack; `ViewSplit` and `DeleteSplit` are the splitting, which cuts
the stored text (`Cut`), with pushes and commits of the pool thread in between. `NewText` is
what an append makes, from the committed text as it is then. A query whose comment holds a
comma has five parts and is dropped (`ExecuteDropped`); a deletion from more than two
comments, or of the second of two, is joined with a comma and dropped the same way
(`Joinable`); an empty text ends the process (`ExecuteCrash`). `broken` is a history
variable: a reader shortened the newest version, a query was lost or based on a list that
was out of date, or a comment became several. A comment that begins with a semicolon, or
holds nothing else, is left out (section 8).

### Lifecycle

`phase` is the main thread (off, the authentication menu, the main menu, and the two points
inside an exit between which the process can be killed); `cell` holds the versions of each
column of the tables `profile` and `post`, and everything in memory is lost by `Crash` and
at the end of an exit. `export`, `size` and `text` are the files. `Start` loads as many
lines as the size says and queues `import`; `ImportLine` runs one line at a time, under the
mutex but not before the menus, so every operation may find a table half imported. The
mistake of `feof` (`command_utils.h:260`) is the choice in `ExecuteImport`: the last line
once or twice. `account`, `created` and `removed` are what users have asked for; `saved` is
what they had asked for, and what was there, at the last complete dump, and is what a kill
falls back to.

`events.hasty` counts the operations begun on a backlog they should have waited for: an exit
before the queue is empty, a post made or removed while another is pending or the import
runs, a user removed twice. Sign ups, logins and removals of users do not count: the
properties cover them at any time.

### Peers

Each peer is a main thread (`client`), a server thread per login (`server`), a table
`message` with its queue, and `db.nosql` (`copy`, as the number of bytes of the other's text
it begins with). The peers are two builds of the program with the ports 27015 and 27016
exchanged: as it stands the client connects to a port nobody listens on. A thread binds,
fails while another of its program listens, listens, accepts one connection, closes the
listening socket, and serves until the client has shut its side down. `link` is the
connection: whether it is open, and the request on its way. `dirty` says whether `recvbuf`
holds something behind its fourth byte; it is not initialised, so at first the answer is
open (`NULL`) and is chosen when it matters. A sync request that meets a dirty buffer is not
recognised and is stored as a message from `Noise`. `ReplyFullBuffer` is the loop that
starts again from zero; only the first part of an answer is looked at. `overlapped` is a
history variable: an id was read while the puts of the last one were pending.

## 3. Runs

| Run | Bounds | Shows |
|---|---|---|
| `pipeline_one_caller` | 1 caller, 4 requests, ring of 2, pool of 2, fair | types, serial execution, pool, limit of the ring, order, drops, refinement of `RequestService`, and that an accepted request is executed in the end |
| `pipeline_two_callers` | 2 callers, 3 requests, one of them stuck, ring of 2, pool of 2 | what survives races between callers: no dequeue of an empty ring |
| `pipeline_stuck` | 1 caller, 2 requests, one of them stuck, pool of 2, fair | *violation*: a request that is never processed though a thread is free |
| `pipeline_lost_update` | 1 caller, 2 requests | *violation*: a request accepted and never counted |
| `table_colliding` | 3 keys in a bucket, 1 in another, 2 columns, stack of 2, 5 puts | types, well-formed lists, commit, versions, visibility, no harm in a bucket that is not shared, what export and import keep, refinement of `KeyValueStore` |
| `posts_serial` | 3 files, sizes 1 and 2, store of 6 blocks, queue of 8, ids up to 13, `MaxOverlaps` 0 | types, downloads, ids, ghosts, visibility, space refused only after a removal |
| `posts_visible` | the same, queue of 100, `MaxOverlaps` 1 | *violation*: a post that another one replaces |
| `comments` | 6 comments: three plain, one with a comma, one empty, one of two texts, that is with a semicolon; 5 versions, numbers up to 3 | types, order, the first comment, refinement of `CommentList` |
| `lifecycle_kept` | 1 user, 2 sign ups, 2 posts of 2 puts, 3 starts, 1 hasty operation, fair | types, accounts, posts if none was removed, deletes, what a restart restores, usable accounts |
| `lifecycle_visible` | 1 sign up, 2 starts | *violation*: a post that is no longer listed after a restart |
| `peers_served` | 2 peers, 2 and 1 server threads, 2 requests, stores of 3 and 5 bytes, buffer of 4, fair | types, rows of messages, what sync copies, the return of clients and servers |
| `peers_synced` | the same | *violation*: a sync that copies one buffer of a larger store |

Why these bounds are enough to meet the interesting cases:

* A ring of two is full after two accepted requests, wraps, and can be full again while the
  processor is between `front` and `size`; four requests let it do so twice. Two pool slots
  let `get_new_thread` skip one, and leave one free beside a request that does not return.
  Two callers are what a race in `enqueue` takes; two requests from one caller and one of the
  other show every pair of accesses.
* Three keys in a bucket give a record that is first, in the middle and last, and a cycle
  that leaves the first record out; the fourth key shows that other buckets are left alone.
  `VERSION_LIMIT` 2 is passed by a third put on the same column. Two values tell the old
  from the new. `MaxRowCount` bounds the puts.
* Three posts let one be deleted between two others and its space be used by a third; two
  sizes tell a region that fits from one that does not; six queries per create fit into a
  queue of eight but not beside three (a full queue for `posts_serial`; the violation
  has the 100 of the code). Ids reach 13 because each post takes five puts and
  row numbers therefore grow by five; `MaxRowCount` 12 stops comments only.
* Three plain comments are the shortest list that a deletion cannot join; the other three are
  those that `put`, `sub_string` and `strtok` mistreat. Five versions leave room for a
  list of three, a cut and a deletion that is out of date.
* Three starts let a kill fall before, between and after two exits, and the second import
  read what the first one stored and counted. Two puts per row separate a row that is begun
  from one that is complete (the password, which login compares, comes last). Two sign ups
  of one name give a password to be replaced, across a restart as well. A second user would
  only repeat the first: a user's row depends on no other row.
* Two server threads of one peer are what competes for the port and numbers rows at the same
  time; two requests let the second one meet the buffer and the rows the first one left, or
  travel the other way at once. Of the stores one fits a buffer and one does not. Four ids
  are two messages, of two puts each.

Symmetry is used where the constants are interchangeable and the run checks no liveness: the
files of `Posts`, the values and columns of `Table`, the requests of `pipeline_lost_update`.
Passwords and posts of `Lifecycle` and messages of `Peers` are numbered in the order in
which they are given, which identifies behaviours that differ only by their names.

`CHECK_DEADLOCK FALSE` is set where the model may stop: requests, puts and events are
bounded, and a hung or crashed server does stop.

Each property of a passing run has a mutant in `PROJECT.json`: a wrong variant of one
definition, kept beside the definition it varies (`AdvanceWithoutWrap`, `NotFoundFirst`,
`CutToLast`, `ImportLineUncounted`, ...), which no specification uses. With the variant in
place of the definition the same run refutes the property.

## 4. Fairness

`FairSpec` has weak fairness of each caller's steps *inside* `enqueue`, of
`request_processor` and of each pool thread. The threads are ordinary POSIX threads that
never block except on the mutex and in `pthread_join`, so the scheduler runs each that is
runnable. The mutex needs no strong fairness: by `SerialExecution` the processor and a pool
thread never compete for it. No caller is obliged to submit anything. `AcceptedIsExecuted`
takes `Stuck = {}`, which `Table` shows to be a real assumption, and allows for `raced`.
`PoolIsConcurrent` asks the same of the requests that do return when another does not, under
the same fairness; it is violated because `Join` waits for one thread and the mutex is held,
not because a step is left untaken.

In `Lifecycle` only the pool thread is fair (`WF_vars(PoolStep)`), for the same reason; it
is enabled from when a query is queued until it has run. No user is obliged to do anything.
`AccountIsUsable` says that a sign up is followed by a usable login unless the process ends,
the account changes or the user was hasty; with the queue behind it that is all an
asynchronous sign up can promise, and a login at once does fail.

In `Peers` each main thread is fair in what it does once it has connected, and each server
thread in each of its steps; they are threads that block in `recv`, `accept` and `bind`
only. A retried `bind` is weakly fair because the step is enabled whenever no other thread
listens; that a second thread may be overtaken for ever is left possible and `ListensAgain`
speaks of the peer. Whether a user asks, or a put is executed, is not needed.

## 5. Findings

| Run | The repository says | The code does |
|---|---|---|
| `pipeline_lost_update` | `README.md:16`: the request queue "holds all the new requests from the clients" | `queue.h:35` and `queue.h:47` update `size` from two threads, under no common lock: a request is in the array and never counted |
| `pipeline_stuck` | `README.md:17`: "a limited number of threads to process the client requests in the request queue concurrently" | `server.h:133` joins each pool thread before the next query is taken, and the thread holds the mutex (`server.h:48-50`): one request at a time, and none after one that does not return |
| `posts_visible` | `README.md:6`: "a POST which will be visible to other users" | `client.h:57` takes an id from a count that earlier puts have not reached: the second post replaces the first |
| `lifecycle_visible` | `README.md:6`, as above | `client.h:151` lists posts up to `row_count`, which after a restart is the number of lines imported; posts that were removed left none, so a later post lies beyond it |
| `peers_synced` | `README.md:24`: users "have a sync of the database" | `server.h:464-467` resets the counter of the reply at each full buffer and `socket_client.h:130-153` writes the first part: of a store of 512 bytes or more the copy has one buffer. Besides, every copy lacks the last four bytes, and a request hidden in `recvbuf` is answered with nothing |

Disagreements without a run of their own, all of which the models reach:

* `queue.h:14`: "Queue is full when size becomes equal to the capacity". Two callers pass that
  test at the last free slot (`queue.h:30`): `size` becomes `capacity + 1`, and the equality
  fails while waiting requests are overwritten. TLC refutes `SizeWithinCapacity` for two
  callers; with one it holds.
* `README.md:17`, again: a put links a found record behind the last one (`hash.h:159-164`). If
  the record is not the first, that closes a cycle, and the next such put walks it for ever
  (`PutWalkHangs`), holding the mutex: this is how a request gets stuck.
* `README.md:18`: the file is "to store all the data". `command_utils.h:186-192` exports the
  first record of each bucket, so a colliding row is found by every search and lost by a
  restart. `RestartKeepsUnsharedRows` speaks of rows that collide with none.
* `README.md:8`: any user can "delete" a post. `server.h:319-327` looks a post up before its
  delete has run, and a comment queued behind that delete makes the row anew. `NoGhosts` says
  that it takes such an overlap.
* `README.md:9`: users "send and recieve messages". `server.h:494` and `server.h:497` both
  store the name of the sender; the text is never stored, and the receiver's inbox stops there.
* `command_utils.h:154` reports "Deleted Successfully." where `hash.h:191-200` freed a
  record that stays linked, or dropped a whole list. `HarmNeedsCollision` says where that
  cannot be.
* `stack_utils.h:35`: push "increases top by 1". A full stack drops the value, the version
  number moves on (`transaction_utils.h:71`) and get reads past the top.
  `VersionMatchesStack` states what is left.
* `client.h:127`: "No Free Space to place the post." `server.h:414` files the region freed
  by post 1 as row 1 of `free_space`, the only record of the large region.
  `RefusedNeedsRemoval` says that no post is refused before one was removed.
* `client.h:250-260` takes message ids as `client.h:57` takes post ids: rows advance by two
  per message, and the inbox, which stops at the first row missing, ends at message 1.

## 6. What is proved

Thirty-five theorems about the specifications of all six modules, each for every value of the
constants that meets the named assumptions. Every invariant, action property and refinement
that a run checks is the statement of one of them; what is left to the runs alone is in
section 7.

Some of the definitions are recursive functions or folds: what a queue makes of a list
(`Outcome`), what an import makes of the exported lines (`Reimported`), the export itself
(`FlattenSeq`). What they give for inputs of any length is proved by an induction stated with
sets, `NatSetInduction` and `SeqSetInduction` of `FoldLemmas`: a set that has the first
element, and with each the next, has all, because the numbers outside it would have a least
one. First there is a function that satisfies the recursion (`PartsExist`, `ColumnsExist`,
`AftersExist`), then it is compared element by element.

### The pipeline

`RequestPipelineProofs` holds eight theorems, for every `Producer`, `Request`, `Stuck`,
`Capacity` and `NO_OF_THREADS`. The assumptions are those of `RequestPipeline`:
`CapacityAssumption` and `ThreadsAssumption` (both at least one; the code has 100 and 4) and
`RequestAssumption` (`NULL`, `Garbage` and requests differ).

| Theorem | States | Needs |
|---|---|---|
| `TypeCorrect` | `[]TypeOK` | `TypeInv` |
| `NeverDequeuesEmpty` | `[]DequeueNeverEmpty` | `TypeInv` |
| `ExecutionIsSerial` | `[]SerialExecution` | `TypeInv` |
| `PoolStaysIntact` | `[]PoolIntact` | `IInv` |
| `EachRequestOnceInOrder` | `[]ExactlyOnceInOrder` | `IInv` |
| `NoDropWithRoom` | `DropsOnlyWhenFull` | `IInv` |
| `PipelineImplementsService` | `ImplementsService` | `IInv` |
| `OneCallerKeepsTheLimit` | `[]SizeWithinCapacity` if there is one caller | `TypeInv`, `SizeInv` |

The argument:

* `TypeOK` is not inductive: `size - 1` could leave the naturals, and a pool thread could be
  started on `NULL`. `TypeInv` adds that from `Poll` until the decrement `size` is at least
  one, and so is what the processor has loaded of it. This is the proof that the unlocked
  test of `isEmpty` suffices: callers only ever store one more than a natural number, so no
  lost update brings `size` back to zero.
* `SerialExecution` is inductive given `TypeInv`: a pool thread exists only between
  `CreateThread` and `Join`.
* `RingInv`, until `raced`: at most one caller is inside, it found room and still has it,
  and `rear` is as many cells from `front` as there are waiting requests, plus one while an
  item is written that `size` does not count. `CellRing` and `CellInjective` are the
  arithmetic of cells modulo the capacity that it rests on.
* `FifoInv`, until `raced`: `ExactlyOnceInOrder` said element by element, which is what a
  step can be checked against: a store into the ring must not hit a waiting cell
  (`CellInjective`), a dequeue turns the first waiting request into the one in flight, an
  execution turns that into the last executed one. `ThreeParts` puts the elements back
  together as a concatenation.
* `IInv` is the conjunction of `TypeInv`, `SerialExecution`, `RingInv`, `FifoInv` and
  `PoolIntact`; `Invariance` proves it inductive, with one step per action. In-flight
  requests are real ones by `FifoInv` (`InFlightIsRequest`), so until `raced` no pool thread
  rejects its query and keeps its slot, and the process does not crash.
* Refinement: `SizeStore` is `Accept`, `WorkerProcess` is `Execute` of the next accepted
  request, the step that loses an update is `Fail`, every other step stutters.
* `SizeInv`: with one caller a register holds at most what `size` was when it was read, and
  below the capacity while the caller is inside, so lost updates only lower `size`.

### The table engine

`TableProofs` holds eight theorems, for every set of keys, columns, values and buckets,
every `HashCode`, `VERSION_LIMIT` and `MaxRowCount`. The assumptions are `HashAssumption`
(every key has a bucket), `LimitAssumption` (a stack holds at least one value; 100 in the
code) and `ValueAssumption` (`NULL` and `Garbage` are no values).

| Theorem | States |
|---|---|
| `TypeCorrect` | `[]TypeOK` |
| `ListsStayWellFormed` | `[]ChainsWellFormed` |
| `NoCommitConflict` | `[]CommitNeverFails` |
| `VersionsMatch` | `[]VersionMatchesStack` |
| `HarmStaysInSharedBuckets` | `[]HarmNeedsCollision` |
| `ReadersSeeOnlyCommitted` | `UncommittedInvisible` |
| `TableImplementsMap` | `ImplementsMap` |
| `RestartKeepsRows` | `[]RestartKeepsUnsharedRows` |

All rest on one inductive invariant, `TableInv`, the conjunction of

* `TypeOK`;
* `ShapeInv`: `ChainsWellFormed`, and empty lists while `row_count` is 0. `searchInTable`
  gives up on a table whose `row_count` is 0 without looking at its lists, so a put could
  link a key twice if rows were there; because deletes do not lower the count, they are not;
* `HarmNeedsCollision`: a list of two records has two keys with one hash code
  (`LongListShares`), and only such a list gets a cycle or a freed record;
* `DataInv`: `HolderInv` (the transaction holder is empty between commands, and an entry
  names a linked row and the version its column still has; a put that hangs leaves its entry
  behind, and nothing runs after it) and `VersionMatchesStack`.

For the refinement, while every search ends (`SearchesEnd`), `CommitEntry` and the puts that create a cell are `Put` of the map,
deletes that remove just their row are `Delete`. A delete that damages, a stop, a version past
the limit, and a put that closes a cycle in which the search for some key would not end are
`Fail`. All other steps leave every `get` as it was (`SameView`).

For `RestartKeepsRows`, a row that shares its bucket with no key is the only one in its list,
so the export, which writes the first record of a list, writes it (`UnsharedExported`); there
are values enough on its stack for the lines (`VersionMatchesStack`); and as long as the stack
has room, the import of n lines ends with version n over the n-th value (`ImportCounts`). If
the last of the lines is imported twice, its column has the same value one version on, or,
where the stack was full, a version past its top: the one case in which the value is not kept.

### The comments

`CommentsProofs` holds four theorems, for every set of texts and all bounds, from
`TextAssumption`, `BoundsAssumption` and `NullAssumption`.

| Theorem | States | Needs |
|---|---|---|
| `TypeCorrect` | `[]TypeOK` | `TypeInv` |
| `OrderIsKept` | `[]InGivenOrder` | `TypeInv`, `OrderInv` |
| `FirstCommentStays` | `[]FirstStays` | `TypeInv`, `FirstInv` |
| `CommentsImplementList` | `ImplementsCommentList` | `TypeInv`, `OrderInv`, `CommaInv` |

`TypeInv` adds to `TypeOK` that a commit is only pending on a text that was pushed.
`InGivenOrder` is not inductive because it does not speak of the queue: `OrderInv` adds that
the lists waiting there are in order, and that an append comes later than every version of
the list and everything queued before it. A list read long ago and written back is then
still a list in order, and whatever is appended to it is later. `FirstInv` says in the same
way that the lists in the queue begin with the first comment, and that none waits before the
first text is stored.

For the refinement the list is `Outcome`, what the queue will make of the newest version.
Queuing a comment is `Add` of the list (`ResultAppend`), queuing a deletion made from the
newest version with nothing pending is `Remove`, and executing a put changes nothing, because
the version pushed is the newest one after its put (`ResultTail`). `CommaInv` says that until
the promise is broken no text with a comma was given, and a comment that is added is one text
(one with a semicolon breaks the promise); with `OrderInv`, by which every
stored or queued part was given, no put that waits is one that `put_wrapper` drops. A cut
leaves the outcome as it is unless it shortens the newest version (`CutKeepsNewest`).

### Posts

`PostsProofs` holds six theorems, for any store, sizes, files, ids, capacity of the queue and
bounds, from `StoreAssumption` (the store is not empty), `SizesAssumption`,
`BoundsAssumption` and `NullAssumption`.

| Theorem | States | Needs |
|---|---|---|
| `PostTypes` | `[]TypeOK` | `TypeInv` |
| `DownloadsAreOriginal` | `[]DownloadIsOriginal` | `Inv` |
| `IdsAreNeverReused` | `[]IdsNeverReused` | `Inv` |
| `NoPostIsAGhost` | `[]NoGhosts` | `Inv` |
| `PostsStayVisible` | `[]VisibleUntilRemoved` | `Inv` |
| `RefusalsNeedRemovals` | `[]RefusedNeedsRemoval` | `Inv` |

`Inv` is `TypeInv` and, while nothing overlaps, `SerialInv`:

* `Pending` numbers the queries not executed yet, whether queued or still to be submitted,
  from the last one back, so that a submission leaves it as it is and an execution takes its
  far end away.
* `Phase`: either nothing but comments on complete posts is pending (`Settled`), or a create
  is (`Creating`), with as many of its six queries executed as are no longer pending, or a
  delete (`Deleting`), the same for its three. Of the post being made each column is what the
  executed puts give, and its blocks are still in the free region until the first of them.
* `Lasting`: ids increase in the order of creation, every row belongs to a created post, the
  blocks of a complete post hold its file, and no block has two owners.
* `Packed`, until the first removal: there is one free region, and the posts fill the store
  up to it; so a create is refused only where the store is full.

A create takes `row_count + 1` as its id, and `Creating` keeps every id within `row_count`, or
one above it while the put of the file name is pending: that is why a later create cannot
take it again once the queue has drained.

### Users, persistence

`LifecycleProofs` holds five theorems, for any finite set of users, any number of puts per
row, of ids, sign ups, posts and starts, from `PutsAssumption`, `BoundsAssumption`,
`UserAssumption` (names and ids are keys of different tables) and `NullAssumption`.

| Theorem | States | Needs |
|---|---|---|
| `SessionTypes` | `[]TypeOK` | `TypeInv` |
| `NoDeleteFalls` | `[]DeletesFindTheirRow` | `TypeInv`, `DeletesInv` |
| `AccountsAreKept` | `[]AccountsHold` | `TypeInv`, `KeptInv` |
| `ImportRestores` | `RestartRestores` | `TypeInv`, `KeptInv` |
| `PostsSurviveRestarts` | `[]VisibleIfNoneRemoved` | `TypeInv`, `KeptInv`, `ListedInv` |

The properties speak of moments when nothing is pending; the invariants of every moment, by
way of what will be there: `Final(s, r, c, v)` is the value of a column after a sequence `s`
of lines or queries, decided by the last of them that hits it, and `AfterQueue` the value
after the pending import and the whole queue. `FinalConcat`, `FinalTail` and `ExportFinal`
say what it is for two sequences, for a queue whose head is executed, and for an export.

* `KeptInv`, while nobody acts on a backlog and no dump is torn: the accounts are what
  `AfterQueue` says (`AccountsInv`); an export is the cells, with nothing pending
  (`ExportInv`); the lines on disk leave in empty tables what the last complete dump held
  (`DiskInv`); a pending import leads to it (`ImportInv`); the import is the first query of a
  process and finds empty tables (`ImportIsFirst`); between processes the history is that of
  the last dump (`OffInv`).
* `DeletesInv`: an account that should be there has a row or a put on its way that no queued
  delete follows, and before each queued delete its row is there or put again (`Filled`).
  It does not need the dumps to be whole.
* `ListedInv`: until a post is removed `row_count` is the number of lines an export would
  write of the posts (`CountInv`), so counting the lines of an import arrives at the same
  number; each post's id is at most what `row_count` will be when the import and the queue
  are done (`PostsInv`, `WillCount`), and the same holds of the saved ones (`SavedPostsInv`).

### Messages and sync

`PeersProofs` holds four theorems, for any two peers, any server threads and logins, any
sizes of stores, buffer and header, any number of ids and requests, from `PeerAssumption`,
`SizeAssumption`, `BufferAssumption` (the header is shorter than the buffer),
`LoginsAssumption`, `BoundsAssumption` and `NullAssumption`.

| Theorem | States | Needs |
|---|---|---|
| `PeerTypes` | `[]TypeOK` | `TypeInv` |
| `SyncCopiesOneReply` | `CopyIsOneReply` | `TypeInv`, `RepliesWhole`, `RepliesMarked` |
| `InboxNamesMatch` | `[]NamesMatch` | `Inv` |
| `AnsweredIsKept` | `[]SentIsKept` | `Inv` |

* `TypeInv` adds that a thread that serves has an open connection, and what each place in the
  code says of the locals.
* `RepliesWhole`: a sync reply on its way is that of the other peer, and the loop that sends a
  store that fits one buffer is at its first byte.
* `RepliesMarked`: a thread that answers a sync has a clean buffer and one that stores a message
  a dirty one, and it reads no other request while the client has not looked at its answer; so
  an answer still tells the state of the buffer when it is looked at.
* `SentNumbered`: messages are numbered as they are sent, a request being sent or waited for
  is not answered yet, and one that is being stored is.
* `SerialInv`, while ids are read one at a time: rows beyond `row_count` are empty, and either
  nobody holds an id and nothing is queued, or one thread of the peer holds one and its row is
  `Empty` or `Half` written, with the puts it still owes (`OwesTwo`, `OwesOne`, `OwesNone`)
  and those that are queued. `Ledger` says of all other rows that a message in them is the
  peer's own, answered, and there once, and that every answered message is in one of them or
  on its way.

## 7. What is only model-checked

* Liveness: `AcceptedIsExecuted`, `AccountIsUsable`, `ClientReturns` and `ListensAgain` are
  outside the reach of the proof system, which has neither fairness nor `ENABLED`. They rest on
  the runs and the fairness of section 4.
* The five runs that end in a violation: each is one counterexample, and nothing to prove.

## 8. What is not modelled, and abstractions

* **Text.** Query strings are parsed queries. The limits of the buffers (20 bytes for a
  token, 100 for a query) and the separators are left out, but for those of `Comments`; the
  inputs of the models are queries that fit. A comment that begins with a semicolon, or holds
  nothing else, is left out of `Comments` too: stored first, the stray quote of `put` becomes a
  part of its own. Semicolons at the end of a comment, or two in a row, separate nothing
  (`strtok`) and count as none and one. The parts of a message from its text are left
  out as well: a message with a comma is dropped by `put` like such a comment.
* **Commands.** create, list, enable, disable and scan are left out: they change or read the
  name and the flag of a table (`enable_wrapper`, `query_operations.h:74`, calls `disable`),
  which no menu of the program does after the start. The table of tables is a hash table of
  the same kind; the four tables have different hash codes.
* **Not called by anything**: `execute_queries` (`server.h:57-77`), `front` and `rear`
  (`queue.h:51-65`), several realloc helpers of `memory_utils.h`.
* **commit.** Every query of the program changes one column, so a transaction has one entry
  and `revert_commit` nothing to take back; `CommitNeverFails` shows that the holder is
  indeed never longer.
* **Unlocked readers.** A get is atomic. A torn get (a list cut for a moment, a stack being
  pushed) is not split; `Comments` splits what a reader does with the pointer it got.
* **The copy of a query.** `malloc` and `strcpy` (`queue.h:33-34`) are one step, and a slot
  holds the query, not a pointer to it. What this hides (a slot whose string is half copied,
  or written by two callers) needs two callers inside `enqueue` at once. Then `raced` is
  true and only `TypeOK`, `SerialExecution` and `DequeueNeverEmpty` are claimed, none of
  which depends on the content of a slot.
* **Memory order.** Steps interleave as in sequential consistency.
* **Collisions above the table.** `Posts`, `Lifecycle` and `Peers` take rows to have buckets
  of their own. Ids below 20 do; the hash code of 61, the thirteenth post's id, is that of
  16, and two users may collide as well. `Table` shows what such rows suffer.
* **Persistence.** The code exports all tables; `Lifecycle` follows the rows of `profile` and
  `post`. What it leaves out: the rows of `message`, those of `free_space` (each start puts
  the default region once more, one version on top of the imported ones) and the create
  lines, which change nothing on tables that exist.
  Between two lines of an import an older password is the current one for a moment:
  `AccountsHold` speaks of an empty queue.
* **Sockets.** A request fits one send and arrives in one recv, as on the local machine;
  errors other than a refused connect or bind, and peers whose process ends, are left out.
  The store to `send_buf[-1]` after the loop has been reset (`server.h:468`) is undefined
  and not modelled; nor is what the bytes of a copy are (the last four bytes of a text are
  never sent). Nothing in the program reads `db.nosql`.
* **The commit as it stands** calls `start_server_socket_thread` without its argument and
  `get_new_msg_id` before its declaration, which a C++ compiler rejects; the models take the
  evident meaning.
* **Menus and the console** are input and output. A user may choose any operation at any
  time in the models.
* **String helpers** other than the cutting of `splitString` and the NULL of `sub_string`
  are formatting.

## 9. Plan

1. `Server`: `RequestPipeline` with `Table` in place of the step `WorkerProcess`, so that a
   query that hangs is one that closes a cycle and walks it, and the two refinements
   (`RequestService`, `KeyValueStore`) together give what the other modules assume.
2. The abstractions between modules as theorems: that `Posts`, `Comments`, `Lifecycle` and
   `Peers` use a queue that `RequestService` allows, and a table that `KeyValueStore` allows
   for keys of buckets of their own.
3. Two users whose names collide, in `Lifecycle`, on top of what `Table` shows of them.
