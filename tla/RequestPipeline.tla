--------------------------- MODULE RequestPipeline ---------------------------
(***************************************************************************)
(* The request pipeline of the server: the bounded ring my_queue           *)
(* (queue.h), the callers of add_request_query that fill it, the thread    *)
(* request_processor that drains it and the pool threads that run          *)
(* execute_query_on_thread (server.h).                                     *)
(*                                                                         *)
(* add_request_query takes no lock, so enqueue is modelled access by       *)
(* access: every load and store of a field that another thread writes is a *)
(* step of its own, in program order.  dequeue and process_query run under *)
(* the mutex "lock".  process_query itself is one step here: it runs the   *)
(* request, or never returns (Stuck); module Table says when.              *)
(*                                                                         *)
(* A request stands for one submitted query string.  Garbage is what an    *)
(* array slot holds before its first write: createQueue does not           *)
(* initialise the array.                                                   *)
(***************************************************************************)
EXTENDS Naturals, Sequences, FiniteSets

CONSTANTS
  Producer,       \* threads that call add_request_query: the UI, the socket servers
  Request,        \* submissions, each made at most once: the bound of the model
  Stuck,          \* the requests whose process_query does not return
  Capacity,       \* my_queue->capacity (100 in the code)
  NO_OF_THREADS,  \* size of the thread pool (4 in the code)
  NULL, Garbage   \* no query; the content of a slot never written

ASSUME CapacityAssumption == Capacity \in Nat \ {0}
ASSUME ThreadsAssumption == NO_OF_THREADS \in Nat \ {0}
ASSUME RequestAssumption ==
  /\ NULL \notin Request /\ Garbage \notin Request /\ NULL # Garbage
  /\ Stuck \subseteq Request

VARIABLES
  front, rear, size, array,         \* the fields of *my_queue
  lock,                             \* the owner of the mutex
  thread_state,                     \* thread_manager.thread_state
  prodPc, prodQuery, prodReg,       \* a caller of add_request_query
  procPc, procReg, thread_index,    \* request_processor and its locals
  requested_query, arr,             \* arr[1]; arr[2] is the address of thread_index
  workPc, queries,                  \* the pool threads and their copy of arr[1]
  crashed,                          \* the process died on a wild pointer
  submitted, accepted, executed,    \* history: calls made, enqueued, processed
  raced                             \* history: a queue field lost an update

ringVars == <<front, rear, size, array>>
prodVars == <<prodPc, prodQuery, prodReg>>
procVars == <<procPc, procReg, thread_index, requested_query, arr>>
workVars == <<workPc, queries>>
histVars == <<submitted, accepted, executed, raced>>
vars == <<ringVars, lock, thread_state, prodVars, procVars, workVars, crashed, histVars>>

Thread == 0 .. NO_OF_THREADS - 1
Slot == 0 .. Capacity - 1
Processor == NO_OF_THREADS          \* as an owner of the mutex
NoOwner == NO_OF_THREADS + 1

(* Mutants, here and below: wrong variants of the definition they precede,  *)
(* which no specification uses; the properties are tested against them.     *)
AdvanceWithoutWrap(i) == i + 1
Advance(i) == (i + 1) % Capacity
isFullTooLate == size > Capacity
isFullTooEarly == size + 1 >= Capacity
isFull == size = Capacity
isEmpty == size = 0

\* createQueue, initialize_thread_pool and start_server_request_processor_thread.
Init ==
  /\ front = 0 /\ rear = Capacity - 1 /\ size = 0
  /\ array = [s \in Slot |-> Garbage]
  /\ lock = NoOwner
  /\ thread_state = [t \in Thread |-> 0]
  /\ prodPc = [p \in Producer |-> "idle"]
  /\ prodQuery = [p \in Producer |-> NULL]
  /\ prodReg = [p \in Producer |-> 0]
  /\ procPc = "poll" /\ procReg = 0 /\ thread_index = 0
  /\ requested_query = NULL /\ arr = NULL
  /\ workPc = [t \in Thread |-> "none"]
  /\ queries = [t \in Thread |-> NULL]
  /\ crashed = FALSE
  /\ submitted = {} /\ accepted = <<>> /\ executed = <<>>
  /\ raced = FALSE

-----------------------------------------------------------------------------
(* add_request_query and enqueue, on the calling thread.                   *)

Inside(p) == prodPc[p] # "idle"

\* The ring is full: the query is dropped and the caller is not told.
EnqueueFull(p, r) ==
  /\ ~Inside(p) /\ r \notin submitted
  /\ isFull
  /\ submitted' = submitted \cup {r}
  /\ UNCHANGED <<ringVars, lock, thread_state, prodVars, procVars, workVars,
                 crashed, accepted, executed, raced>>

\* The call passes isFull.  Two callers inside enqueue at once is a race.
EnqueueBegin(p, r) ==
  /\ ~Inside(p) /\ r \notin submitted
  /\ ~isFull
  /\ submitted' = submitted \cup {r}
  /\ prodQuery' = [prodQuery EXCEPT ![p] = r]
  /\ prodPc' = [prodPc EXCEPT ![p] = "rear_load"]
  /\ raced' = (raced \/ \E o \in Producer \ {p} : Inside(o))
  /\ UNCHANGED <<ringVars, lock, thread_state, prodReg, procVars, workVars,
                 crashed, accepted, executed>>

RearLoad(p) ==
  /\ prodPc[p] = "rear_load"
  /\ prodReg' = [prodReg EXCEPT ![p] = rear]
  /\ prodPc' = [prodPc EXCEPT ![p] = "rear_store"]
  /\ UNCHANGED <<ringVars, lock, thread_state, prodQuery, procVars, workVars,
                 crashed, histVars>>

RearStore(p) ==
  /\ prodPc[p] = "rear_store"
  /\ rear' = Advance(prodReg[p])
  /\ prodPc' = [prodPc EXCEPT ![p] = "item_store"]
  /\ UNCHANGED <<front, size, array, lock, thread_state, prodQuery, prodReg,
                 procVars, workVars, crashed, histVars>>

\* malloc and strcpy of the copy: both reread queue->rear.  They are one step: another
\* thread comes between them only when two callers are inside, which is a race already.
ItemStore(p) ==
  /\ prodPc[p] = "item_store"
  /\ array' = [array EXCEPT ![rear] = prodQuery[p]]
  /\ prodPc' = [prodPc EXCEPT ![p] = "size_load"]
  /\ UNCHANGED <<front, rear, size, lock, thread_state, prodQuery, prodReg,
                 procVars, workVars, crashed, histVars>>

SizeLoad(p) ==
  /\ prodPc[p] = "size_load"
  /\ prodReg' = [prodReg EXCEPT ![p] = size]
  /\ prodPc' = [prodPc EXCEPT ![p] = "size_store"]
  /\ UNCHANGED <<ringVars, lock, thread_state, prodQuery, procVars, workVars,
                 crashed, histVars>>

\* The request is accepted.  A size that changed since SizeLoad is overwritten.
SizeStore(p) ==
  /\ prodPc[p] = "size_store"
  /\ size' = prodReg[p] + 1
  /\ raced' = (raced \/ size # prodReg[p])
  /\ accepted' = Append(accepted, prodQuery[p])
  /\ prodPc' = [prodPc EXCEPT ![p] = "idle"]
  /\ prodQuery' = [prodQuery EXCEPT ![p] = NULL]
  /\ UNCHANGED <<front, rear, array, lock, thread_state, prodReg, procVars,
                 workVars, crashed, submitted, executed>>

Enqueue(p) ==
  \/ \E r \in Request : EnqueueFull(p, r) \/ EnqueueBegin(p, r)
  \/ RearLoad(p) \/ RearStore(p) \/ ItemStore(p) \/ SizeLoad(p) \/ SizeStore(p)

-----------------------------------------------------------------------------
(* request_processor.                                                      *)

\* Mutant of Poll: the test of isEmpty is missing.
PollAlways ==
  /\ procPc = "poll"
  /\ procPc' = "pick"
  /\ UNCHANGED <<ringVars, lock, thread_state, prodVars, procReg, thread_index,
                 requested_query, arr, workVars, crashed, histVars>>

\* The test of isEmpty in the polling loop; it holds no lock.
Poll ==
  /\ procPc = "poll"
  /\ ~isEmpty
  /\ procPc' = "pick"
  /\ UNCHANGED <<ringVars, lock, thread_state, prodVars, procReg, thread_index,
                 requested_query, arr, workVars, crashed, histVars>>

\* get_new_thread: the first slot whose state is 0; it spins while there is none.
PickThread ==
  /\ procPc = "pick"
  /\ \E t \in Thread :
       /\ thread_state[t] = 0
       /\ \A u \in Thread : u < t => thread_state[u] # 0
       /\ thread_index' = t
  /\ procPc' = "lock"
  /\ UNCHANGED <<ringVars, lock, thread_state, prodVars, procReg,
                 requested_query, arr, workVars, crashed, histVars>>

LockQueue ==
  /\ procPc = "lock"
  /\ lock = NoOwner
  /\ lock' = Processor
  /\ procPc' = "take"
  /\ UNCHANGED <<ringVars, thread_state, prodVars, procReg, thread_index,
                 requested_query, arr, workVars, crashed, histVars>>

\* Mutant of Take: front moves before the item is read.
TakeAfterAdvance ==
  /\ procPc = "take"
  /\ IF isEmpty
     THEN requested_query' = NULL /\ procPc' = "unlock" /\ UNCHANGED front
     ELSE /\ front' = Advance(front)
          /\ requested_query' = array[front']
          /\ procPc' = "size_load"
  /\ UNCHANGED <<rear, size, array, lock, thread_state, prodVars, procReg,
                 thread_index, arr, workVars, crashed, histVars>>

\* dequeue up to the update of front; only this thread writes front.
Take ==
  /\ procPc = "take"
  /\ IF isEmpty
     THEN requested_query' = NULL /\ procPc' = "unlock" /\ UNCHANGED front
     ELSE /\ requested_query' = array[front]
          /\ front' = Advance(front)
          /\ procPc' = "size_load"
  /\ UNCHANGED <<rear, size, array, lock, thread_state, prodVars, procReg,
                 thread_index, arr, workVars, crashed, histVars>>

TakeSizeLoad ==
  /\ procPc = "size_load"
  /\ procReg' = size
  /\ procPc' = "size_store"
  /\ UNCHANGED <<ringVars, lock, thread_state, prodVars, thread_index,
                 requested_query, arr, workVars, crashed, histVars>>

TakeSizeStore ==
  /\ procPc = "size_store"
  /\ size' = procReg - 1
  /\ raced' = (raced \/ size # procReg)
  /\ procPc' = "unlock"
  /\ UNCHANGED <<front, rear, array, lock, thread_state, prodVars, procReg,
                 thread_index, requested_query, arr, workVars, crashed,
                 submitted, accepted, executed>>

UnlockQueue ==
  /\ procPc = "unlock"
  /\ lock' = NoOwner
  /\ procPc' = "create"
  /\ UNCHANGED <<ringVars, thread_state, prodVars, procReg, thread_index,
                 requested_query, arr, workVars, crashed, histVars>>

\* arr is filled, the slot is marked busy and the pool thread is started.
CreateThread ==
  /\ procPc = "create"
  /\ arr' = requested_query
  /\ thread_state' = [thread_state EXCEPT ![thread_index] = 1]
  /\ workPc' = [workPc EXCEPT ![thread_index] = "start"]
  /\ procPc' = "join"
  /\ UNCHANGED <<ringVars, lock, prodVars, procReg, thread_index,
                 requested_query, queries, crashed, histVars>>

\* printf of the query through a pointer that was never set.
Crash ==
  /\ procPc = "create"
  /\ requested_query = Garbage
  /\ crashed' = TRUE
  /\ UNCHANGED <<ringVars, lock, thread_state, prodVars, procVars, workVars, histVars>>

\* Mutant of Join: the pool thread is detached and not waited for.
JoinDetached ==
  /\ procPc = "join"
  /\ procPc' = "poll"
  /\ UNCHANGED <<ringVars, lock, thread_state, prodVars, procReg, thread_index,
                 requested_query, arr, workVars, crashed, histVars>>

\* pthread_join returns; requested_query and arr are dead until the next round.
Join ==
  /\ procPc = "join"
  /\ workPc[thread_index] = "ended"
  /\ workPc' = [workPc EXCEPT ![thread_index] = "none"]
  /\ procPc' = "poll"
  /\ UNCHANGED <<ringVars, lock, thread_state, prodVars, procReg, thread_index,
                 requested_query, arr, queries, crashed, histVars>>

ProcessorStep ==
  \/ Poll \/ PickThread \/ LockQueue \/ Take \/ TakeSizeLoad \/ TakeSizeStore
  \/ UnlockQueue \/ CreateThread \/ Join

-----------------------------------------------------------------------------
(* execute_query_on_thread, on pool thread t.                              *)

\* The guards: a NULL or short query returns at once and keeps the slot busy.
\* A garbage pointer may look like a short string.
WorkerReject(t) ==
  /\ workPc[t] = "start"
  /\ arr \in {NULL, Garbage}
  /\ workPc' = [workPc EXCEPT ![t] = "ended"]
  /\ UNCHANGED <<ringVars, lock, thread_state, prodVars, procVars, queries,
                 crashed, histVars>>

WorkerStart(t) ==
  /\ workPc[t] = "start"
  /\ arr # NULL
  /\ queries' = [queries EXCEPT ![t] = arr]
  /\ workPc' = [workPc EXCEPT ![t] = "acquire"]
  /\ UNCHANGED <<ringVars, lock, thread_state, prodVars, procVars, crashed, histVars>>

WorkerLock(t) ==
  /\ workPc[t] = "acquire"
  /\ lock = NoOwner
  /\ lock' = t
  /\ workPc' = [workPc EXCEPT ![t] = "process"]
  /\ UNCHANGED <<ringVars, thread_state, prodVars, procVars, queries, crashed, histVars>>

\* process_query; garbage matches no command.
WorkerProcess(t) ==
  /\ workPc[t] = "process"
  /\ queries[t] \notin Stuck
  /\ executed' = IF queries[t] = Garbage THEN executed ELSE Append(executed, queries[t])
  /\ workPc' = [workPc EXCEPT ![t] = "release"]
  /\ UNCHANGED <<ringVars, lock, thread_state, prodVars, procVars, queries, crashed,
                 submitted, accepted, raced>>

WorkerUnlock(t) ==
  /\ workPc[t] = "release"
  /\ lock' = NoOwner
  /\ workPc' = [workPc EXCEPT ![t] = "reset"]
  /\ UNCHANGED <<ringVars, thread_state, prodVars, procVars, queries, crashed, histVars>>

\* Mutant of WorkerReset: the slot stays busy.
WorkerResetForgotten(t) ==
  /\ workPc[t] = "reset"
  /\ workPc' = [workPc EXCEPT ![t] = "ended"]
  /\ UNCHANGED <<ringVars, lock, thread_state, prodVars, procVars, queries, crashed,
                 histVars>>

\* thread_state[*thread_index] = 0, through the pointer to the processor's local.
WorkerReset(t) ==
  /\ workPc[t] = "reset"
  /\ thread_state' = [thread_state EXCEPT ![thread_index] = 0]
  /\ workPc' = [workPc EXCEPT ![t] = "ended"]
  /\ UNCHANGED <<ringVars, lock, prodVars, procVars, queries, crashed, histVars>>

WorkerStep(t) ==
  \/ WorkerReject(t) \/ WorkerStart(t) \/ WorkerLock(t) \/ WorkerProcess(t)
  \/ WorkerUnlock(t) \/ WorkerReset(t)

-----------------------------------------------------------------------------

Next ==
  /\ ~crashed
  /\ \/ \E p \in Producer : Enqueue(p)
     \/ ProcessorStep
     \/ Crash
     \/ \E t \in Thread : WorkerStep(t)

\* A caller that entered enqueue finishes it; nobody has to submit.
EnqueueStep(p) ==
  /\ ~crashed
  /\ RearLoad(p) \/ RearStore(p) \/ ItemStore(p) \/ SizeLoad(p) \/ SizeStore(p)

Spec == Init /\ [][Next]_vars

\* The scheduler runs every runnable thread.
FairSpec ==
  /\ Spec
  /\ \A p \in Producer : WF_vars(EnqueueStep(p))
  /\ WF_vars(~crashed /\ ProcessorStep)
  /\ \A t \in Thread : WF_vars(~crashed /\ WorkerStep(t))
-----------------------------------------------------------------------------
(* Properties.                                                             *)

ProducerPc == {"idle", "rear_load", "rear_store", "item_store", "size_load", "size_store"}
ProcessorPc == {"poll", "pick", "lock", "take", "size_load", "size_store",
                "unlock", "create", "join"}
WorkerPc == {"none", "start", "acquire", "process", "release", "reset", "ended"}
Query == Request \cup {Garbage}

TypeOK ==
  /\ front \in Slot /\ rear \in Slot /\ size \in Nat
  /\ array \in [Slot -> Query]
  /\ lock \in Thread \cup {Processor, NoOwner}
  /\ thread_state \in [Thread -> {0, 1}]
  /\ prodPc \in [Producer -> ProducerPc]
  /\ prodQuery \in [Producer -> Request \cup {NULL}]
  /\ prodReg \in [Producer -> Nat]
  /\ procPc \in ProcessorPc /\ procReg \in Nat /\ thread_index \in Thread
  /\ requested_query \in Query \cup {NULL} /\ arr \in Query \cup {NULL}
  /\ workPc \in [Thread -> WorkerPc]
  /\ queries \in [Thread -> Query \cup {NULL}]
  /\ crashed \in BOOLEAN /\ raced \in BOOLEAN
  /\ submitted \subseteq Request
  /\ accepted \in Seq(Request) /\ executed \in Seq(Request)

\* The pool never runs two queries at once, and never one beside a dequeue, though README.md:17
\* says "concurrently" (PoolIsConcurrent): while a pool thread lives, request_processor waits
\* in pthread_join for that very thread.  So the stack array arr and the local thread_index a
\* thread reads through pointers still hold what it was started with (server.h:126-133).
SerialExecution ==
  \A t \in Thread :
    /\ workPc[t] # "none" => procPc = "join" /\ thread_index = t
    /\ workPc[t] = "start" => arr = requested_query
    /\ workPc[t] \in {"acquire", "process", "release", "reset"} =>
         queries[t] = requested_query

\* isEmpty is tested without the lock and acted on four steps later (server.h:117-123),
\* yet dequeue never finds the ring empty and no pool thread is started on NULL: lost
\* updates by the callers of enqueue can shrink size, but not below one.
DequeueNeverEmpty ==
  /\ procPc = "take" => ~isEmpty
  /\ procPc \in {"unlock", "create"} => requested_query # NULL

\* Until an update of the ring is lost, the pool stays whole and the process up: a
\* slot is busy exactly while its thread runs, so get_new_thread never spins for good.
Working(t) == workPc[t] \in {"start", "acquire", "process", "release", "reset"}
PoolIntact ==
  ~raced => /\ ~crashed
            /\ \A t \in Thread : thread_state[t] = 1 <=> Working(t)

\* The dequeued query that has not been processed yet.
InFlight ==
  \/ procPc \in {"size_load", "size_store", "unlock", "create"}
  \/ procPc = "join" /\ workPc[thread_index] \in {"start", "acquire", "process"}

\* The requests in the ring: front has moved before size is decremented.
Waiting == IF procPc \in {"size_load", "size_store"} THEN size - 1 ELSE size
Contents == [i \in 1 .. Waiting |-> array[(front + i - 1) % Capacity]]

\* Until an update of the ring is lost, every accepted request is processed exactly
\* once and in the order of acceptance, though enqueue and dequeue interleave
\* access by access and share no lock (server.h:95, 122-124).
ExactlyOnceInOrder ==
  ~raced =>
    accepted = executed \o (IF InFlight THEN <<requested_query>> ELSE <<>>) \o Contents

\* A query is dropped only while the backlog is at least the capacity: the drop in
\* enqueue (queue.h:30) is never a stale test, until an update of the ring is lost.
Dropped == submitted' # submitted /\ prodPc' = prodPc
DropsOnlyWhenFull ==
  [][ Dropped /\ ~raced => Len(accepted) - Len(executed) >= Capacity ]_vars

\* "Queue is full when size becomes equal to the capacity" (queue.h:14): the test is
\* an equality, so it stops working for good once size exceeds the capacity.  With one
\* caller it never does; two that pass the test at the last free slot bring it there.
SizeWithinCapacity == size <= Capacity

\* "Server has a request queue which holds all the new requests" (README.md:16):
\* whenever no thread is inside the queue, its size counts the unprocessed requests.
Quiescent == procPc = "poll" /\ \A p \in Producer : ~Inside(p)
QueueHoldsAllRequests == Quiescent => size = Len(accepted) - Len(executed)

\* Every accepted request is processed in the end, unless a query never returns or
\* an update of the ring was lost.
Accepted(r) == \E i \in 1 .. Len(accepted) : accepted[i] = r
Executed(r) == \E i \in 1 .. Len(executed) : executed[i] = r
AcceptedIsExecuted == \A r \in Request : Accepted(r) ~> Executed(r) \/ raced

\* "ThreadPoolManager which contains a limited number of threads to process the client
\* requests in the request queue concurrently" (README.md:17): a request that never returns
\* keeps the thread it runs on and holds up no other request, while there are more threads
\* than such requests.
PoolIsConcurrent ==
  Cardinality(Stuck) < NO_OF_THREADS =>
    \A r \in Request \ Stuck : Accepted(r) ~> Executed(r) \/ raced

\* The pipeline implements the in-order, exactly-once service as long as ~raced.
Service == INSTANCE RequestService WITH reliable <- ~raced
ImplementsService == Service!Spec
=============================================================================
