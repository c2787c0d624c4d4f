------------------------ MODULE RequestPipelineProofs ------------------------
(***************************************************************************)
(* Proofs about the request pipeline, for any ring, any pool and any set   *)
(* of callers.                                                             *)
(***************************************************************************)
EXTENDS RequestPipeline, SequenceTheorems, TLAPS

USE CapacityAssumption, ThreadsAssumption, RequestAssumption

-----------------------------------------------------------------------------
(* Types and the emptiness of the ring.                                    *)

\* What TypeOK needs to be inductive: size is positive from the test in Poll on, so
\* dequeue takes a slot and not NULL, and a thread past its guards has a query.
TypeInv ==
  /\ TypeOK
  /\ \A p \in Producer : Inside(p) => prodQuery[p] \in Request
  /\ procPc \in {"pick", "lock", "take", "size_load", "size_store"} => size >= 1
  /\ procPc = "size_store" => procReg >= 1
  /\ procPc \in {"size_load", "size_store", "unlock", "create"} => requested_query \in Query
  /\ \A t \in Thread :
       /\ workPc[t] = "start" => arr \in Query
       /\ workPc[t] \in {"acquire", "process", "release", "reset"} => queries[t] \in Query

\* Advance stays inside the ring.
LEMMA AdvanceType == ASSUME NEW i \in Nat PROVE Advance(i) \in Slot
  BY DEF Advance, Slot

LEMMA TypeInvInit == Init => TypeInv
<1> SUFFICES ASSUME Init PROVE TypeInv
  OBVIOUS
<1>1. front \in Slot /\ rear \in Slot /\ thread_index \in Thread
  BY DEF Init, Slot, Thread
<1>2. lock \in Thread \cup {Processor, NoOwner}
  BY DEF Init
<1>3. array \in [Slot -> Query] /\ accepted \in Seq(Request) /\ executed \in Seq(Request)
  BY DEF Init, Query
<1>4. QED
  BY <1>1, <1>2, <1>3
  DEF Init, TypeInv, TypeOK, Query, ProducerPc, ProcessorPc, WorkerPc, Inside

LEMMA TypeInvStep == TypeInv /\ [Next]_vars => TypeInv'
<1> USE DEF ProducerPc, ProcessorPc, WorkerPc, Query, Inside
<1> SUFFICES ASSUME TypeInv, [Next]_vars PROVE TypeInv'
  OBVIOUS
<1> USE DEF TypeInv, TypeOK
<1>1. ASSUME NEW p \in Producer, NEW r \in Request, EnqueueFull(p, r)
      PROVE  TypeInv'
  BY <1>1 DEF EnqueueFull, ringVars, prodVars, procVars, workVars, histVars
<1>2. ASSUME NEW p \in Producer, NEW r \in Request, EnqueueBegin(p, r)
      PROVE  TypeInv'
  BY <1>2 DEF EnqueueBegin, ringVars, prodVars, procVars, workVars, histVars
<1>3. ASSUME NEW p \in Producer, RearLoad(p)
      PROVE  TypeInv'
  BY <1>3 DEF RearLoad, ringVars, prodVars, procVars, workVars, histVars, Slot
<1>4. ASSUME NEW p \in Producer, RearStore(p)
      PROVE  TypeInv'
  BY <1>4, AdvanceType DEF RearStore, ringVars, prodVars, procVars, workVars, histVars
<1>5. ASSUME NEW p \in Producer, ItemStore(p)
      PROVE  TypeInv'
  BY <1>5 DEF ItemStore, ringVars, prodVars, procVars, workVars, histVars
<1>6. ASSUME NEW p \in Producer, SizeLoad(p)
      PROVE  TypeInv'
  BY <1>6 DEF SizeLoad, ringVars, prodVars, procVars, workVars, histVars
<1>7. ASSUME NEW p \in Producer, SizeStore(p)
      PROVE  TypeInv'
  BY <1>7 DEF SizeStore, ringVars, prodVars, procVars, workVars, histVars
<1>8. CASE Poll
  BY <1>8 DEF Poll, isEmpty, ringVars, prodVars, procVars, workVars, histVars
<1>9. CASE PickThread
  BY <1>9 DEF PickThread, ringVars, prodVars, procVars, workVars, histVars
<1>10. CASE LockQueue
  BY <1>10 DEF LockQueue, Processor, ringVars, prodVars, procVars, workVars, histVars
<1>11. CASE Take
  <2>1. ~isEmpty /\ array[front] \in Query /\ Advance(front) \in Slot
    BY <1>11, AdvanceType DEF Take, isEmpty, Slot
  <2>2. QED
    BY <1>11, <2>1 DEF Take, ringVars, prodVars, procVars, workVars, histVars
<1>12. CASE TakeSizeLoad
  BY <1>12 DEF TakeSizeLoad, ringVars, prodVars, procVars, workVars, histVars
<1>13. CASE TakeSizeStore
  BY <1>13 DEF TakeSizeStore, ringVars, prodVars, procVars, workVars, histVars
<1>14. CASE UnlockQueue
  BY <1>14 DEF UnlockQueue, NoOwner, ringVars, prodVars, procVars, workVars, histVars
<1>15. CASE CreateThread
  BY <1>15 DEF CreateThread, ringVars, prodVars, procVars, workVars, histVars
<1>16. CASE Crash
  BY <1>16 DEF Crash, ringVars, prodVars, procVars, workVars, histVars
<1>17. CASE Join
  BY <1>17 DEF Join, ringVars, prodVars, procVars, workVars, histVars
<1>18. ASSUME NEW t \in Thread, WorkerReject(t)
       PROVE  TypeInv'
  BY <1>18 DEF WorkerReject, ringVars, prodVars, procVars, workVars, histVars
<1>19. ASSUME NEW t \in Thread, WorkerStart(t)
       PROVE  TypeInv'
  BY <1>19 DEF WorkerStart, ringVars, prodVars, procVars, workVars, histVars
<1>20. ASSUME NEW t \in Thread, WorkerLock(t)
       PROVE  TypeInv'
  BY <1>20 DEF WorkerLock, ringVars, prodVars, procVars, workVars, histVars
<1>21. ASSUME NEW t \in Thread, WorkerProcess(t)
       PROVE  TypeInv'
  BY <1>21 DEF WorkerProcess, ringVars, prodVars, procVars, workVars, histVars
<1>22. ASSUME NEW t \in Thread, WorkerUnlock(t)
       PROVE  TypeInv'
  BY <1>22 DEF WorkerUnlock, NoOwner, ringVars, prodVars, procVars, workVars, histVars
<1>23. ASSUME NEW t \in Thread, WorkerReset(t)
       PROVE  TypeInv'
  BY <1>23 DEF WorkerReset, ringVars, prodVars, procVars, workVars, histVars
<1>24. CASE UNCHANGED vars
  BY <1>24 DEF vars, ringVars, prodVars, procVars, workVars, histVars
<1>25. QED
  BY <1>1, <1>2, <1>3, <1>4, <1>5, <1>6, <1>7, <1>8, <1>9, <1>10, <1>11, <1>12, <1>13,
     <1>14, <1>15, <1>16, <1>17, <1>18, <1>19, <1>20, <1>21, <1>22, <1>23, <1>24
  DEF Next, Enqueue, ProcessorStep, WorkerStep

LEMMA TypeInvariance == Spec => []TypeInv
  BY TypeInvInit, TypeInvStep, PTL DEF Spec

\* Every variable keeps its type, whatever the races in enqueue; the sizes that lost
\* updates leave behind are still natural numbers.
THEOREM TypeCorrect == Spec => []TypeOK
<1>1. TypeInv => TypeOK
  BY DEF TypeInv
<1>2. QED
  BY <1>1, TypeInvariance, PTL

\* isEmpty is tested without the lock and long before dequeue, yet dequeue never meets
\* an empty ring, with any number of callers and whatever updates are lost.
THEOREM NeverDequeuesEmpty == Spec => []DequeueNeverEmpty
<1>1. TypeInv => DequeueNeverEmpty
  BY DEF TypeInv, TypeOK, DequeueNeverEmpty, isEmpty, Query
<1>2. QED
  BY <1>1, TypeInvariance, PTL

-----------------------------------------------------------------------------
(* The pool.                                                               *)

LEMMA SerialStep == TypeInv /\ SerialExecution /\ [Next]_vars => SerialExecution'
<1> SUFFICES ASSUME TypeInv, SerialExecution, [Next]_vars PROVE SerialExecution'
  OBVIOUS
<1> USE DEF TypeInv, TypeOK, SerialExecution
<1>1. ASSUME NEW p \in Producer, Enqueue(p)
      PROVE  SerialExecution'
  BY <1>1 DEF Enqueue, EnqueueFull, EnqueueBegin, RearLoad, RearStore, ItemStore,
              SizeLoad, SizeStore, procVars, workVars
<1>2. CASE Poll \/ PickThread \/ LockQueue \/ Take \/ TakeSizeLoad \/ TakeSizeStore
           \/ UnlockQueue
  BY <1>2 DEF Poll, PickThread, LockQueue, Take, TakeSizeLoad, TakeSizeStore,
              UnlockQueue, workVars
<1>3. CASE CreateThread
  BY <1>3 DEF CreateThread
<1>4. CASE Join
  BY <1>4 DEF Join
<1>5. CASE Crash \/ UNCHANGED vars
  BY <1>5 DEF Crash, vars, procVars, workVars
<1>6. ASSUME NEW t \in Thread, WorkerStep(t)
      PROVE  SerialExecution'
  BY <1>6 DEF WorkerStep, WorkerReject, WorkerStart, WorkerLock, WorkerProcess,
              WorkerUnlock, WorkerReset, procVars
<1>7. QED
  BY <1>1, <1>2, <1>3, <1>4, <1>5, <1>6 DEF Next, ProcessorStep

LEMMA SerialInvariance == Spec => [](TypeInv /\ SerialExecution)
<1>1. Init => SerialExecution
  BY DEF Init, SerialExecution
<1>2. QED
  BY <1>1, TypeInvInit, TypeInvStep, SerialStep, PTL DEF Spec

\* Queries are processed one at a time and never beside a dequeue, however large the
\* pool, and a pool thread finds the arguments it was started with.
THEOREM ExecutionIsSerial == Spec => []SerialExecution
  BY SerialInvariance, PTL

-----------------------------------------------------------------------------
(* The ring: slots counted from front.                                     *)

Cell(f, i) == (f + i - 1) % Capacity

LEMMA ModSmall ==
  ASSUME NEW x \in 0 .. Capacity - 1
  PROVE  x % Capacity = x
  OBVIOUS

LEMMA ModOnce ==
  ASSUME NEW x \in Capacity .. 2 * Capacity - 1
  PROVE  x % Capacity = x - Capacity
  OBVIOUS

LEMMA CellValue ==
  ASSUME NEW f \in Slot, NEW i \in 1 .. Capacity + 1
  PROVE  Cell(f, i) = IF f + i - 1 < Capacity THEN f + i - 1 ELSE f + i - 1 - Capacity
<1>1. CASE f + i - 1 < Capacity
  BY <1>1, ModSmall DEF Cell, Slot
<1>2. CASE f + i - 1 >= Capacity
  <2>1. f + i - 1 \in Capacity .. 2 * Capacity - 1
    BY <1>2 DEF Slot
  <2>2. QED
    BY <1>2, <2>1, ModOnce DEF Cell, Slot
<1>3. QED
  BY <1>1, <1>2 DEF Slot

LEMMA AdvanceValue ==
  ASSUME NEW f \in Slot
  PROVE  Advance(f) = IF f + 1 < Capacity THEN f + 1 ELSE 0
<1>1. CASE f + 1 < Capacity
  BY <1>1, ModSmall DEF Advance, Slot
<1>2. CASE f + 1 = Capacity
  BY <1>2, ModOnce DEF Advance, Slot
<1>3. QED
  BY <1>1, <1>2 DEF Slot

\* The cells of a ring: where they are, the next one, the view from the next front.
LEMMA CellRing ==
  ASSUME NEW f \in Slot, NEW i \in 1 .. Capacity
  PROVE  /\ Cell(f, i) \in Slot
         /\ Cell(f, 1) = f
         /\ Advance(Cell(f, i)) = Cell(f, i + 1)
         /\ Cell(Advance(f), i) = Cell(f, i + 1)
<1>1. Cell(f, i) \in Slot /\ Cell(f, 1) = f /\ Advance(f) \in Slot
  BY CellValue, AdvanceValue DEF Slot
<1>2. Advance(Cell(f, i)) = Cell(f, i + 1)
  BY <1>1, CellValue, AdvanceValue DEF Slot
<1>3. Cell(Advance(f), i) = Cell(f, i + 1)
  BY <1>1, CellValue, AdvanceValue DEF Slot
<1>4. QED
  BY <1>1, <1>2, <1>3

LEMMA CellInjective ==
  ASSUME NEW f \in Slot, NEW i \in 1 .. Capacity, NEW j \in 1 .. Capacity,
         Cell(f, i) = Cell(f, j)
  PROVE  i = j
  BY CellValue DEF Slot

-----------------------------------------------------------------------------
(* The ring while no update of it is lost.                                 *)

\* rear has moved for an item that size does not count yet.
Writing(p) == prodPc[p] \in {"item_store", "size_load", "size_store"}

\* One caller at a time; it leaves room; rear is size cells behind front, and one
\* further while an item is written.
RingInv ==
  ~raced =>
    /\ size <= Capacity
    /\ \A p, q \in Producer : Inside(p) /\ Inside(q) => p = q
    /\ \A p \in Producer :
         /\ Inside(p) => size < Capacity
         /\ prodPc[p] = "rear_store" => prodReg[p] = rear
         /\ prodPc[p] \in {"size_load", "size_store"} => array[rear] = prodQuery[p]
         /\ Writing(p) => rear = Cell(front, Waiting + 1)
    /\ (\A p \in Producer : ~Writing(p)) => Advance(rear) = Cell(front, Waiting + 1)

LEMMA WaitingType == TypeInv => Waiting \in 0 .. size
  BY DEF TypeInv, TypeOK, Waiting

LEMMA RingInvInit == Init => RingInv
<1> SUFFICES ASSUME Init PROVE RingInv
  OBVIOUS
<1>1. Advance(Capacity - 1) = Cell(0, 1)
  BY AdvanceValue, CellValue DEF Slot
<1>2. QED
  BY <1>1 DEF Init, RingInv, Waiting, Inside, Writing

LEMMA RingInvStep == TypeInv /\ TypeInv' /\ RingInv /\ [Next]_vars => RingInv'
<1> SUFFICES ASSUME TypeInv, TypeInv', RingInv, [Next]_vars, ~raced' PROVE RingInv'
  BY DEF RingInv
<1> USE DEF TypeInv, TypeOK, RingInv, Inside, Writing
<1>1. ASSUME NEW p \in Producer, NEW r \in Request, EnqueueFull(p, r)
      PROVE  RingInv'
  BY <1>1 DEF EnqueueFull, Waiting, ringVars, prodVars, procVars
<1>2. ASSUME NEW p \in Producer, NEW r \in Request, EnqueueBegin(p, r)
      PROVE  RingInv'
  <2>1. ~raced /\ \A o \in Producer \ {p} : prodPc[o] = "idle"
    BY <1>2 DEF EnqueueBegin
  <2>2. prodPc' = [prodPc EXCEPT ![p] = "rear_load"] /\ prodPc[p] = "idle" /\ size # Capacity
    BY <1>2 DEF EnqueueBegin, isFull
  <2>3. UNCHANGED <<ringVars, prodReg, procPc>> /\ Waiting' = Waiting
    BY <1>2 DEF EnqueueBegin, Waiting, ringVars, procVars
  <2>4. QED
    BY <2>1, <2>2, <2>3 DEF ringVars
<1>3. ASSUME NEW p \in Producer, RearLoad(p)
      PROVE  RingInv'
  BY <1>3 DEF RearLoad, Waiting, ringVars, procVars, histVars
<1>4. ASSUME NEW p \in Producer, RearStore(p)
      PROVE  RingInv'
  <2>1. ~raced /\ Advance(prodReg[p]) = Cell(front, Waiting + 1)
    BY <1>4 DEF RearStore, histVars
  <2>2. QED
    BY <1>4, <2>1 DEF RearStore, Waiting, procVars, histVars
<1>5. ASSUME NEW p \in Producer, ItemStore(p)
      PROVE  RingInv'
  BY <1>5 DEF ItemStore, Waiting, procVars, histVars
<1>6. ASSUME NEW p \in Producer, SizeLoad(p)
      PROVE  RingInv'
  BY <1>6 DEF SizeLoad, Waiting, ringVars, procVars, histVars
<1>7. ASSUME NEW p \in Producer, SizeStore(p)
      PROVE  RingInv'
  <2>1. ~raced /\ size = prodReg[p]
    BY <1>7 DEF SizeStore
  <2>2. size' = size + 1 /\ procPc' = procPc /\ UNCHANGED <<front, rear>>
    BY <1>7, <2>1 DEF SizeStore, procVars
  <2>3. Waiting' = Waiting + 1
    BY <2>2 DEF Waiting
  <2>4. size < Capacity /\ rear = Cell(front, Waiting + 1)
    BY <1>7, <2>1 DEF SizeStore
  <2>5. Waiting + 1 \in 1 .. Capacity /\ Waiting + 1 + 1 = Waiting' + 1
    BY <2>3, <2>4, WaitingType
  <2>6. Advance(rear) = Cell(front, Waiting' + 1)
    BY <2>4, <2>5, CellRing
  <2>7. QED
    BY <1>7, <2>1, <2>2, <2>4, <2>6 DEF SizeStore
<1>8. CASE Poll \/ PickThread \/ LockQueue \/ TakeSizeLoad \/ UnlockQueue \/ CreateThread \/ Join
  <2>1. UNCHANGED <<ringVars, prodVars, raced>> /\ Waiting' = Waiting
    BY <1>8 DEF Poll, PickThread, LockQueue, TakeSizeLoad, UnlockQueue, CreateThread, Join,
                Waiting, histVars, ringVars
  <2>2. QED
    BY <2>1 DEF ringVars, prodVars
<1>9. CASE Take
  <2>1. /\ size >= 1 /\ Waiting = size /\ Waiting' = size - 1
        /\ front' = Advance(front) /\ UNCHANGED <<rear, size, array, prodVars, raced>>
    BY <1>9 DEF Take, isEmpty, Waiting, histVars
  <2>2. Cell(front', Waiting' + 1) = Cell(front, Waiting + 1)
    BY <2>1, CellRing
  <2>3. QED
    BY <2>1, <2>2 DEF prodVars
<1>10. CASE TakeSizeStore
  <2>1. /\ ~raced /\ size' = size - 1 /\ Waiting' = Waiting
        /\ UNCHANGED <<front, rear, array, prodVars>>
    BY <1>10 DEF TakeSizeStore, Waiting
  <2>2. QED
    BY <2>1 DEF prodVars
<1>11. CASE Crash \/ UNCHANGED vars
  BY <1>11 DEF Crash, Waiting, vars, ringVars, prodVars, procVars, histVars
<1>12. ASSUME NEW t \in Thread, WorkerStep(t)
       PROVE  RingInv'
  <2>1. UNCHANGED <<ringVars, prodVars, procVars, raced>>
    BY <1>12 DEF WorkerStep, WorkerReject, WorkerStart, WorkerLock, WorkerProcess,
                 WorkerUnlock, WorkerReset, histVars
  <2>2. QED
    BY <2>1 DEF Waiting, ringVars, prodVars, procVars
<1>13. QED
  BY <1>1, <1>2, <1>3, <1>4, <1>5, <1>6, <1>7, <1>8, <1>9, <1>10, <1>11, <1>12
  DEF Next, Enqueue, ProcessorStep

-----------------------------------------------------------------------------
(* The order of requests.                                                  *)

Inflight == IF InFlight THEN 1 ELSE 0

\* ExactlyOnceInOrder element by element: the accepted requests are the executed ones,
\* the one in flight and those in the ring, in this order.
FifoInv ==
  ~raced =>
    /\ Len(accepted) = Len(executed) + Inflight + Waiting
    /\ \A i \in 1 .. Len(executed) : accepted[i] = executed[i]
    /\ InFlight => accepted[Len(executed) + 1] = requested_query
    /\ \A i \in 1 .. Waiting : accepted[Len(executed) + Inflight + i] = array[Cell(front, i)]

\* The request in flight is a request, never the content of a slot not written.
LEMMA InFlightIsRequest ==
  ASSUME TypeInv, FifoInv, ~raced, InFlight
  PROVE  requested_query \in Request
  BY WaitingType DEF TypeInv, TypeOK, FifoInv, Inflight

LEMMA FifoInvInit == Init => FifoInv
  BY DEF Init, FifoInv, Waiting, InFlight, Inflight

LEMMA FifoInvStep ==
  TypeInv /\ TypeInv' /\ SerialExecution /\ RingInv /\ FifoInv /\ [Next]_vars => FifoInv'
<1> SUFFICES ASSUME TypeInv, TypeInv', SerialExecution, RingInv, FifoInv, [Next]_vars, ~raced'
             PROVE  FifoInv'
  BY DEF FifoInv
<1> USE DEF TypeInv, TypeOK
<1>a. Waiting \in Nat /\ Waiting <= size /\ Inflight \in {0, 1}
  BY WaitingType DEF Inflight
<1>b. Len(accepted) \in Nat /\ Len(executed) \in Nat
  OBVIOUS
<1>1. ASSUME NEW p \in Producer, NEW r \in Request, EnqueueFull(p, r) \/ EnqueueBegin(p, r)
      PROVE  FifoInv'
  <2>1. ~raced /\ UNCHANGED <<ringVars, procVars, workVars, accepted, executed>>
    BY <1>1 DEF EnqueueFull, EnqueueBegin
  <2>2. QED
    BY <2>1 DEF FifoInv, Waiting, InFlight, Inflight, ringVars, procVars, workVars
<1>2. ASSUME NEW p \in Producer, RearLoad(p) \/ RearStore(p) \/ SizeLoad(p)
      PROVE  FifoInv'
  <2>1. ~raced /\ UNCHANGED <<front, size, array, procVars, workVars, accepted, executed>>
    BY <1>2 DEF RearLoad, RearStore, SizeLoad, ringVars, histVars
  <2>2. QED
    BY <2>1 DEF FifoInv, Waiting, InFlight, Inflight, procVars, workVars
<1>3. ASSUME NEW p \in Producer, ItemStore(p)
      PROVE  FifoInv'
  <2>1. /\ ~raced /\ UNCHANGED <<front, size, procVars, workVars, accepted, executed>>
        /\ array' = [array EXCEPT ![rear] = prodQuery[p]]
    BY <1>3 DEF ItemStore, histVars
  <2>2. rear = Cell(front, Waiting + 1) /\ Waiting + 1 \in 1 .. Capacity
    BY <1>3, <1>a, <2>1 DEF ItemStore, RingInv, Writing, Inside
  <2>3. \A i \in 1 .. Waiting : Cell(front, i) # rear /\ Cell(front, i) \in Slot
    BY <1>a, <2>2, CellInjective, CellRing
  <2>4. \A i \in 1 .. Waiting : array'[Cell(front, i)] = array[Cell(front, i)]
    BY <2>1, <2>3
  <2>5. QED
    BY <2>1, <2>4 DEF FifoInv, Waiting, InFlight, Inflight, procVars, workVars
<1>4. ASSUME NEW p \in Producer, SizeStore(p)
      PROVE  FifoInv'
  <2>1. ~raced /\ size = prodReg[p]
    BY <1>4 DEF SizeStore
  <2>2. /\ size' = size + 1 /\ UNCHANGED <<front, array, procVars, workVars, executed>>
        /\ accepted' = Append(accepted, prodQuery[p]) /\ prodQuery[p] \in Request
    BY <1>4, <2>1 DEF SizeStore, Inside
  <2>3. Waiting' = Waiting + 1 /\ InFlight' = InFlight /\ Inflight' = Inflight
    BY <2>2 DEF Waiting, InFlight, Inflight, procVars, workVars
  <2>4. array[Cell(front, Waiting + 1)] = prodQuery[p]
    BY <1>4, <2>1 DEF SizeStore, RingInv, Writing
  <2>5. /\ accepted'[Len(accepted) + 1] = prodQuery[p]
        /\ Len(accepted') = Len(accepted) + 1
        /\ \A i \in 1 .. Len(accepted) : accepted'[i] = accepted[i]
    BY <2>2
  <2>6. Len(accepted) = Len(executed) + Inflight + Waiting
    BY <2>1 DEF FifoInv
  <2>7. \A i \in 1 .. Len(executed) : accepted'[i] = executed'[i]
    BY <1>a, <1>b, <2>1, <2>2, <2>5, <2>6 DEF FifoInv
  <2>8. InFlight => accepted'[Len(executed) + 1] = requested_query
    BY <1>a, <1>b, <2>1, <2>5, <2>6 DEF FifoInv, Inflight
  <2>9. ASSUME NEW i \in 1 .. Waiting + 1
        PROVE  accepted'[Len(executed) + Inflight + i] = array[Cell(front, i)]
    <3>1. CASE i = Waiting + 1
      <4>1. Len(executed) + Inflight + i = Len(accepted) + 1
        BY <1>a, <1>b, <2>6, <3>1
      <4>2. QED
        BY <2>4, <2>5, <3>1, <4>1
    <3>2. CASE i \in 1 .. Waiting
      <4>1. Len(executed) + Inflight + i \in 1 .. Len(accepted)
        BY <1>a, <1>b, <2>6, <3>2
      <4>2. QED
        BY <2>1, <2>5, <3>2, <4>1 DEF FifoInv
    <3>3. QED
      BY <1>a, <3>1, <3>2
  <2>10. Len(accepted') = Len(executed) + Inflight + (Waiting + 1)
    BY <1>a, <1>b, <2>5, <2>6
  <2>11. UNCHANGED <<front, array, executed, requested_query>>
    BY <2>2 DEF procVars
  <2>12. QED
    BY <2>3, <2>7, <2>8, <2>9, <2>10, <2>11 DEF FifoInv
<1>5. CASE Poll \/ PickThread \/ LockQueue \/ TakeSizeLoad \/ UnlockQueue
  <2>1. ~raced /\ UNCHANGED <<ringVars, requested_query, workVars, accepted, executed>>
    BY <1>5 DEF Poll, PickThread, LockQueue, TakeSizeLoad, UnlockQueue, histVars
  <2>2. Waiting' = Waiting /\ InFlight' = InFlight /\ Inflight' = Inflight
    BY <1>5 DEF Poll, PickThread, LockQueue, TakeSizeLoad, UnlockQueue, Waiting, InFlight,
                Inflight, ringVars
  <2>3. QED
    BY <2>1, <2>2 DEF FifoInv, ringVars
<1>6. CASE Take
  <2>1. /\ ~raced /\ Waiting = size /\ size >= 1 /\ Waiting' = size - 1
        /\ ~InFlight /\ InFlight' /\ Inflight = 0 /\ Inflight' = 1
        /\ front' = Advance(front) /\ requested_query' = array[front]
        /\ UNCHANGED <<array, accepted, executed>>
    BY <1>6 DEF Take, isEmpty, Waiting, InFlight, Inflight, histVars
  <2>2. size <= Capacity
    BY <2>1 DEF RingInv
  <2>3. accepted[Len(executed) + 1] = array[front]
    <3>1. Cell(front, 1) = front
      BY CellRing
    <3>2. 1 \in 1 .. Waiting
      BY <2>1
    <3>3. accepted[Len(executed) + Inflight + 1] = array[Cell(front, 1)]
      BY <2>1, <3>2 DEF FifoInv
    <3>4. Len(executed) + Inflight + 1 = Len(executed) + 1
      BY <1>b, <2>1
    <3>5. QED
      BY <3>1, <3>3, <3>4
  <2>4. ASSUME NEW i \in 1 .. size - 1
        PROVE  accepted[Len(executed) + 1 + i] = array[Cell(front', i)]
    <3>1. Cell(front', i) = Cell(front, i + 1)
      BY <2>1, <2>2, CellRing
    <3>2. i + 1 \in 1 .. Waiting /\ Len(executed) + 1 + i = Len(executed) + Inflight + (i + 1)
      BY <2>1
    <3>3. QED
      BY <2>1, <3>1, <3>2 DEF FifoInv
  <2>5. QED
    BY <2>1, <2>3, <2>4 DEF FifoInv
<1>7. CASE TakeSizeStore
  <2>1. ~raced /\ size = procReg
    BY <1>7 DEF TakeSizeStore
  <2>2. /\ Waiting' = Waiting /\ InFlight' = InFlight /\ Inflight' = Inflight
        /\ UNCHANGED <<front, array, requested_query, accepted, executed>>
    BY <1>7, <2>1 DEF TakeSizeStore, Waiting, InFlight, Inflight
  <2>3. QED
    BY <2>1, <2>2 DEF FifoInv
<1>8. CASE CreateThread
  <2>1. /\ ~raced /\ Waiting' = Waiting /\ InFlight' = InFlight /\ Inflight' = Inflight
        /\ UNCHANGED <<front, array, requested_query, accepted, executed>>
    BY <1>8 DEF CreateThread, Waiting, InFlight, Inflight, ringVars, histVars
  <2>2. QED
    BY <2>1 DEF FifoInv
<1>9. CASE Join
  <2>1. /\ ~raced /\ Waiting' = Waiting /\ InFlight' = InFlight /\ Inflight' = Inflight
        /\ UNCHANGED <<front, array, requested_query, accepted, executed>>
    BY <1>9 DEF Join, Waiting, InFlight, Inflight, ringVars, histVars
  <2>2. QED
    BY <2>1 DEF FifoInv
<1>10. CASE Crash \/ UNCHANGED vars
  <2>1. /\ ~raced /\ UNCHANGED <<ringVars, procVars, workVars, accepted, executed>>
    BY <1>10 DEF Crash, vars, histVars
  <2>2. QED
    BY <2>1 DEF FifoInv, Waiting, InFlight, Inflight, ringVars, procVars, workVars
<1>11. ASSUME NEW t \in Thread, WorkerReject(t)
       PROVE  FALSE
  <2>1. ~raced /\ InFlight /\ arr = requested_query
    BY <1>11 DEF WorkerReject, SerialExecution, InFlight, histVars
  <2>2. QED
    BY <1>11, <2>1, InFlightIsRequest DEF WorkerReject
<1>12. ASSUME NEW t \in Thread, WorkerProcess(t)
       PROVE  FifoInv'
  <2>1. /\ ~raced /\ InFlight /\ queries[t] = requested_query /\ procPc = "join"
        /\ thread_index = t
    BY <1>12 DEF WorkerProcess, SerialExecution, InFlight
  <2>2. requested_query \in Request
    BY <2>1, InFlightIsRequest
  <2>3. executed' = Append(executed, requested_query)
    BY <1>12, <2>1, <2>2 DEF WorkerProcess
  <2>4. /\ Waiting' = Waiting /\ ~InFlight' /\ Inflight = 1 /\ Inflight' = 0
        /\ UNCHANGED <<front, array, requested_query, accepted>>
    BY <1>12, <2>1 DEF WorkerProcess, Waiting, InFlight, Inflight, ringVars, procVars
  <2>5. Len(executed') = Len(executed) + 1 /\ executed'[Len(executed) + 1] = requested_query
    BY <2>2, <2>3
  <2>6. \A i \in 1 .. Len(executed) : executed'[i] = executed[i]
    BY <2>2, <2>3
  <2>7. ASSUME NEW i \in 1 .. Len(executed')
        PROVE  accepted[i] = executed'[i]
    <3>1. CASE i \in 1 .. Len(executed)
      BY <2>1, <2>6, <3>1 DEF FifoInv
    <3>2. CASE i = Len(executed) + 1
      BY <2>1, <2>5, <3>2 DEF FifoInv
    <3>3. QED
      BY <1>b, <2>5, <3>1, <3>2
  <2>8. Len(accepted) = Len(executed') + Inflight' + Waiting
    BY <1>a, <1>b, <2>1, <2>4, <2>5 DEF FifoInv
  <2>9. ASSUME NEW i \in 1 .. Waiting
        PROVE  accepted[Len(executed') + Inflight' + i] = array[Cell(front, i)]
    <3>1. Len(executed') + Inflight' + i = Len(executed) + Inflight + i
      BY <1>a, <1>b, <2>4, <2>5
    <3>2. QED
      BY <2>1, <3>1 DEF FifoInv
  <2>10. QED
    BY <2>4, <2>7, <2>8, <2>9 DEF FifoInv
<1>13. ASSUME NEW t \in Thread,
              WorkerStart(t) \/ WorkerLock(t) \/ WorkerUnlock(t) \/ WorkerReset(t)
       PROVE  FifoInv'
  <2>1. ~raced /\ UNCHANGED <<ringVars, procVars, accepted, executed>>
    BY <1>13 DEF WorkerStart, WorkerLock, WorkerUnlock, WorkerReset, histVars
  <2>2. procPc = "join" /\ thread_index = t
    BY <1>13 DEF WorkerStart, WorkerLock, WorkerUnlock, WorkerReset, SerialExecution
  <2>3. Waiting' = Waiting /\ InFlight' = InFlight /\ Inflight' = Inflight
    BY <1>13, <2>1, <2>2
    DEF WorkerStart, WorkerLock, WorkerUnlock, WorkerReset, Waiting, InFlight, Inflight,
        ringVars, procVars
  <2>4. QED
    BY <2>1, <2>3 DEF FifoInv, ringVars, procVars
<1>14. QED
  BY <1>1, <1>2, <1>3, <1>4, <1>5, <1>6, <1>7, <1>8, <1>9, <1>10, <1>11, <1>12, <1>13
  DEF Next, Enqueue, ProcessorStep, WorkerStep

\* A sequence is the concatenation of three if it is so element by element.
ThreePartsOf(a, x, y, z) ==
  /\ Len(a) = Len(x) + Len(y) + Len(z)
  /\ \A i \in 1 .. Len(x) : a[i] = x[i]
  /\ \A i \in 1 .. Len(y) : a[Len(x) + i] = y[i]
  /\ \A i \in 1 .. Len(z) : a[Len(x) + Len(y) + i] = z[i]

LEMMA ThreeParts ==
  ASSUME NEW S, NEW a \in Seq(S), NEW x \in Seq(S), NEW y \in Seq(S), NEW z \in Seq(S),
         ThreePartsOf(a, x, y, z)
  PROVE  a = x \o y \o z
<1> USE DEF ThreePartsOf
<1>1. x \o y \o z \in Seq(S) /\ Len(x \o y \o z) = Len(a)
  OBVIOUS
<1>2. ASSUME NEW i \in 1 .. Len(a)
      PROVE  a[i] = (x \o y \o z)[i]
  <2> DEFINE xy == x \o y
  <2>1. xy \in Seq(S) /\ Len(xy) = Len(x) + Len(y)
    OBVIOUS
  <2>2. CASE i \in 1 .. Len(x)
    <3>1. xy[i] = x[i] /\ (xy \o z)[i] = xy[i]
      BY <2>1, <2>2
    <3>2. QED
      BY <2>2, <3>1
  <2>3. CASE i \in Len(x) + 1 .. Len(x) + Len(y)
    <3> DEFINE j == i - Len(x)
    <3>1. j \in 1 .. Len(y) /\ i = Len(x) + j
      BY <2>3
    <3>2. xy[i] = y[j]
      BY <2>3
    <3>3. (xy \o z)[i] = xy[i]
      BY <2>1, <2>3
    <3>4. a[Len(x) + j] = y[j]
      BY <3>1
    <3>5. QED
      BY <3>1, <3>2, <3>3, <3>4
  <2>4. CASE i \in Len(x) + Len(y) + 1 .. Len(a)
    <3> DEFINE j == i - Len(xy)
    <3>1. j \in 1 .. Len(z) /\ i = Len(x) + Len(y) + j
      BY <2>1, <2>4
    <3>2. (xy \o z)[i] = z[j]
      BY <2>1, <2>4
    <3>3. a[Len(x) + Len(y) + j] = z[j]
      BY <3>1
    <3>4. QED
      BY <3>1, <3>2, <3>3
  <2>5. QED
    BY <2>2, <2>3, <2>4
<1>3. QED
  BY <1>1, <1>2, SeqEqual

\* The inductive invariant of the pipeline.
IInv == TypeInv /\ SerialExecution /\ RingInv /\ FifoInv /\ PoolIntact

LEMMA PoolStep ==
  TypeInv /\ SerialExecution /\ FifoInv /\ PoolIntact /\ [Next]_vars => PoolIntact'
<1> SUFFICES ASSUME TypeInv, SerialExecution, FifoInv, PoolIntact, [Next]_vars, ~raced'
             PROVE  PoolIntact'
  BY DEF PoolIntact
<1> USE DEF TypeInv, TypeOK, Working
<1>1. ASSUME NEW p \in Producer, Enqueue(p)
      PROVE  PoolIntact'
  <2>1. ~raced /\ UNCHANGED <<crashed, thread_state, workVars>>
    BY <1>1 DEF Enqueue, EnqueueFull, EnqueueBegin, RearLoad, RearStore, ItemStore,
                SizeLoad, SizeStore, histVars
  <2>2. QED
    BY <2>1 DEF PoolIntact, workVars
<1>2. CASE Poll \/ PickThread \/ LockQueue \/ Take \/ TakeSizeLoad \/ TakeSizeStore
           \/ UnlockQueue
  <2>1. ~raced /\ UNCHANGED <<crashed, thread_state, workVars>>
    BY <1>2 DEF Poll, PickThread, LockQueue, Take, TakeSizeLoad, TakeSizeStore,
                UnlockQueue, histVars
  <2>2. QED
    BY <2>1 DEF PoolIntact, workVars
<1>3. CASE CreateThread
  BY <1>3 DEF CreateThread, PoolIntact, histVars
<1>4. CASE Join
  BY <1>4 DEF Join, PoolIntact, histVars
<1>5. CASE Crash
  <2>1. ~raced /\ InFlight /\ requested_query = Garbage
    BY <1>5 DEF Crash, InFlight, histVars
  <2>2. QED
    BY <2>1, InFlightIsRequest
<1>6. ASSUME NEW t \in Thread, WorkerReject(t)
      PROVE  FALSE
  <2>1. ~raced /\ InFlight /\ arr = requested_query
    BY <1>6 DEF WorkerReject, SerialExecution, InFlight, histVars
  <2>2. QED
    BY <1>6, <2>1, InFlightIsRequest DEF WorkerReject
<1>7. ASSUME NEW t \in Thread,
             WorkerStart(t) \/ WorkerLock(t) \/ WorkerProcess(t) \/ WorkerUnlock(t)
      PROVE  PoolIntact'
  BY <1>7 DEF WorkerStart, WorkerLock, WorkerProcess, WorkerUnlock, PoolIntact, histVars
<1>8. ASSUME NEW t \in Thread, WorkerReset(t)
      PROVE  PoolIntact'
  <2>1. thread_index = t
    BY <1>8 DEF WorkerReset, SerialExecution
  <2>2. QED
    BY <1>8, <2>1 DEF WorkerReset, PoolIntact, histVars
<1>9. CASE UNCHANGED vars
  BY <1>9 DEF vars, workVars, histVars, PoolIntact
<1>10. QED
  BY <1>1, <1>2, <1>3, <1>4, <1>5, <1>6, <1>7, <1>8, <1>9
  DEF Next, ProcessorStep, WorkerStep

LEMMA Invariance == Spec => []IInv
<1>1. Init => IInv
  <2>1. Init => SerialExecution /\ PoolIntact
    BY DEF Init, SerialExecution, PoolIntact, Working
  <2>2. QED
    BY <2>1, TypeInvInit, RingInvInit, FifoInvInit DEF IInv
<1>2. IInv /\ [Next]_vars => IInv'
  BY TypeInvStep, SerialStep, RingInvStep, FifoInvStep, PoolStep DEF IInv
<1>3. QED
  BY <1>1, <1>2, PTL DEF Spec

\* Until an update of the ring is lost, the process does not crash and a slot of the
\* pool is busy exactly while its thread has work: get_new_thread finds a free one.
THEOREM PoolStaysIntact == Spec => []PoolIntact
  BY Invariance, PTL DEF IInv

\* Until an update of the ring is lost, the accepted requests are the executed ones,
\* the one in flight and those in the ring: none is lost, repeated or overtaken, in a
\* ring of any size and with enqueue and dequeue interleaved at every access.
THEOREM EachRequestOnceInOrder == Spec => []ExactlyOnceInOrder
<1>1. IInv => ExactlyOnceInOrder
  <2> SUFFICES ASSUME IInv, ~raced
               PROVE  accepted = executed \o (IF InFlight THEN <<requested_query>> ELSE <<>>)
                                          \o Contents
    BY DEF ExactlyOnceInOrder
  <2> DEFINE one == IF InFlight THEN <<requested_query>> ELSE <<>>
             S == Query \cup {NULL}
  <2>1. /\ accepted \in Seq(Request) /\ executed \in Seq(Request)
        /\ Waiting \in Nat /\ Len(accepted) = Len(executed) + Inflight + Waiting
    BY WaitingType DEF IInv, TypeInv, TypeOK, FifoInv
  <2>2. accepted \in Seq(S) /\ executed \in Seq(S)
    BY <2>1 DEF Query
  <2>3. one \in Seq(S) /\ Len(one) = Inflight /\ (InFlight => one[1] = requested_query)
    <3>1. requested_query \in S
      BY DEF IInv, TypeInv, TypeOK
    <3>2. CASE InFlight
      <4>1. one = <<requested_query>> /\ Inflight = 1
        BY <3>2 DEF Inflight
      <4> HIDE DEF one
      <4>2. QED
        BY <3>1, <4>1
    <3>3. CASE ~InFlight
      <4>1. one = <<>> /\ Inflight = 0
        BY <3>3 DEF Inflight
      <4>2. QED
        BY <3>3, <4>1
    <3>4. QED
      BY <3>2, <3>3
  <2>4. ASSUME NEW i \in 1 .. Waiting
        PROVE  /\ array[Cell(front, i)] \in S
               /\ accepted[Len(executed) + Inflight + i] = array[Cell(front, i)]
    <3>1. i \in 1 .. Capacity
      BY <2>1, WaitingType DEF IInv, TypeInv, TypeOK, RingInv
    <3>2. Cell(front, i) \in Slot
      BY <3>1, CellRing DEF IInv, TypeInv, TypeOK
    <3>3. QED
      BY <3>2 DEF IInv, TypeInv, TypeOK, FifoInv
  <2>5. /\ Contents \in Seq(S) /\ Len(Contents) = Waiting
        /\ \A i \in 1 .. Waiting : Contents[i] = array[Cell(front, i)]
    <3>1. Contents = [i \in 1 .. Waiting |-> array[Cell(front, i)]]
      BY DEF Contents, Cell
    <3>2. Contents \in [1 .. Waiting -> S]
      BY <2>4, <3>1
    <3>3. QED
      BY <2>1, <3>1, <3>2
  <2>6. \A i \in 1 .. Len(one) : accepted[Len(executed) + i] = one[i]
    BY <2>3 DEF IInv, FifoInv, Inflight
  <2>7. \A i \in 1 .. Len(Contents) : accepted[Len(executed) + Len(one) + i] = Contents[i]
    BY <2>3, <2>4, <2>5
  <2>8. \A i \in 1 .. Len(executed) : accepted[i] = executed[i]
    BY DEF IInv, FifoInv
  <2>9. Len(accepted) = Len(executed) + Len(one) + Len(Contents)
    BY <2>1, <2>3, <2>5
  <2> HIDE DEF one, S
  <2>10. accepted = executed \o one \o Contents
    <3> DEFINE c == Contents
    <3>1. c \in Seq(S) /\ one \in Seq(S)
      BY <2>3, <2>5
    <3>2. ThreePartsOf(accepted, executed, one, c)
      BY <2>6, <2>7, <2>8, <2>9 DEF ThreePartsOf
    <3> HIDE DEF c
    <3>3. accepted = executed \o one \o c
      BY <2>2, <3>1, <3>2, ThreeParts, ZenonT(60)
    <3>4. QED
      BY <3>3 DEF c
  <2>11. QED
    BY <2>10 DEF one
<1>2. QED
  BY <1>1, Invariance, PTL

-----------------------------------------------------------------------------
(* Action properties and refinement.                                       *)

\* Only a call that finds the ring full changes submitted and leaves the caller idle.
LEMMA DropMeansFull ==
  ASSUME TypeInv, [Next]_vars, Dropped
  PROVE  size = Capacity
<1> USE DEF TypeInv, TypeOK, Dropped
<1>1. ASSUME NEW p \in Producer, NEW r \in Request, EnqueueFull(p, r)
      PROVE  size = Capacity
  BY <1>1 DEF EnqueueFull, isFull
<1>2. ASSUME NEW p \in Producer, NEW r \in Request, EnqueueBegin(p, r)
      PROVE  FALSE
  <2>1. prodPc[p] = "idle" /\ prodPc' = [prodPc EXCEPT ![p] = "rear_load"]
    BY <1>2 DEF EnqueueBegin, Inside
  <2>2. prodPc'[p] = "rear_load"
    BY <2>1
  <2>3. QED
    BY <2>1, <2>2
<1>3. ASSUME NEW p \in Producer,
             RearLoad(p) \/ RearStore(p) \/ ItemStore(p) \/ SizeLoad(p) \/ SizeStore(p)
      PROVE  FALSE
  BY <1>3 DEF RearLoad, RearStore, ItemStore, SizeLoad, SizeStore, histVars
<1>4. CASE ProcessorStep \/ Crash
  BY <1>4 DEF ProcessorStep, Poll, PickThread, LockQueue, Take, TakeSizeLoad,
              TakeSizeStore, UnlockQueue, CreateThread, Join, Crash, histVars
<1>5. ASSUME NEW t \in Thread, WorkerStep(t)
      PROVE  FALSE
  BY <1>5 DEF WorkerStep, WorkerReject, WorkerStart, WorkerLock, WorkerProcess,
              WorkerUnlock, WorkerReset, histVars
<1>6. CASE UNCHANGED vars
  BY <1>6 DEF vars, histVars
<1>7. QED
  BY <1>1, <1>2, <1>3, <1>4, <1>5, <1>6 DEF Next, Enqueue

\* A query is dropped only when at least Capacity accepted ones are unprocessed, as
\* long as no update of the ring was lost: the test of isFull is never stale.
THEOREM NoDropWithRoom == Spec => DropsOnlyWhenFull
<1>1. IInv /\ [Next]_vars =>
        [ Dropped /\ ~raced => Len(accepted) - Len(executed) >= Capacity ]_vars
  <2> SUFFICES ASSUME IInv, [Next]_vars, Dropped, ~raced
               PROVE  Len(accepted) - Len(executed) >= Capacity
    OBVIOUS
  <2>1. /\ Len(accepted) \in Nat /\ Len(executed) \in Nat /\ size \in Nat
        /\ Len(accepted) = Len(executed) + Inflight + Waiting
    BY DEF IInv, TypeInv, TypeOK, FifoInv
  <2>2. size = Capacity
    BY DropMeansFull DEF IInv
  <2>3. CASE procPc \in {"size_load", "size_store"}
    <3>1. Waiting = size - 1 /\ Inflight = 1
      BY <2>3 DEF Waiting, Inflight, InFlight
    <3>2. QED
      BY <2>1, <2>2, <3>1
  <2>4. CASE procPc \notin {"size_load", "size_store"}
    <3>1. Waiting = size /\ Inflight \in {0, 1}
      BY <2>4 DEF Waiting, Inflight
    <3>2. QED
      BY <2>1, <2>2, <3>1
  <2>5. QED
    BY <2>3, <2>4
<1>2. QED
  BY <1>1, Invariance, PTL DEF Spec, DropsOnlyWhenFull

\* A step of the pipeline is a step of the service or leaves it alone.
LEMMA StepImplementsService ==
  IInv /\ [Next]_vars => [Service!Next]_Service!svars
<1> SUFFICES ASSUME IInv, [Next]_vars, ~raced, ~(UNCHANGED <<accepted, executed, raced>>)
             PROVE  Service!Next
  BY DEF Service!Next, Service!svars
<1> USE DEF IInv, TypeInv, TypeOK, Service!Next
<1>1. CASE raced'
  BY <1>1 DEF Service!Fail
<1>2. ASSUME NEW p \in Producer, SizeStore(p), ~raced'
      PROVE  Service!Next
  <2>1. prodQuery[p] \in Request
    BY <1>2 DEF SizeStore, Inside
  <2>2. Service!Accept(prodQuery[p])
    BY <1>2 DEF SizeStore, Service!Accept
  <2>3. QED
    BY <2>1, <2>2
<1>3. ASSUME NEW t \in Thread, WorkerProcess(t), ~raced'
      PROVE  Service!Next
  <2>1. InFlight /\ queries[t] = requested_query
    BY <1>3 DEF WorkerProcess, SerialExecution, InFlight
  <2>2. requested_query \in Request
    BY <2>1, InFlightIsRequest
  <2>3. executed' = Append(executed, requested_query) /\ UNCHANGED <<accepted, raced>>
    BY <1>3, <2>1, <2>2 DEF WorkerProcess
  <2>4. requested_query = accepted[Len(executed) + 1]
    BY <2>1 DEF FifoInv
  <2>5. Len(accepted) = Len(executed) + 1 + Waiting /\ Waiting \in Nat
    BY <2>1, WaitingType DEF FifoInv, Inflight
  <2>6. Len(executed) < Len(accepted)
    BY <2>5
  <2>7. QED
    BY <2>3, <2>4, <2>6 DEF Service!Execute
<1>4. ASSUME NEW p \in Producer, NEW r \in Request, EnqueueFull(p, r) \/ EnqueueBegin(p, r),
             ~raced'
      PROVE  FALSE
  BY <1>4 DEF EnqueueFull, EnqueueBegin
<1>5. ASSUME NEW p \in Producer, RearLoad(p) \/ RearStore(p) \/ ItemStore(p) \/ SizeLoad(p)
      PROVE  FALSE
  BY <1>5 DEF RearLoad, RearStore, ItemStore, SizeLoad, histVars
<1>6. ASSUME ProcessorStep \/ Crash, ~raced'
      PROVE  FALSE
  BY <1>6 DEF ProcessorStep, Poll, PickThread, LockQueue, Take, TakeSizeLoad,
              TakeSizeStore, UnlockQueue, CreateThread, Join, Crash, histVars
<1>7. ASSUME NEW t \in Thread,
             WorkerReject(t) \/ WorkerStart(t) \/ WorkerLock(t) \/ WorkerUnlock(t)
             \/ WorkerReset(t)
      PROVE  FALSE
  BY <1>7 DEF WorkerReject, WorkerStart, WorkerLock, WorkerUnlock, WorkerReset, histVars
<1>8. CASE UNCHANGED vars
  BY <1>8 DEF vars, histVars
<1>9. QED
  BY <1>1, <1>2, <1>3, <1>4, <1>5, <1>6, <1>7, <1>8 DEF Next, Enqueue, WorkerStep

\* The pipeline implements the service RequestService: until an update of the ring is
\* lost it takes requests and processes each once, in the order it took them.
THEOREM PipelineImplementsService == Spec => ImplementsService
<1>1. Init => Service!Init
  BY DEF Init, Service!Init
<1>2. QED
  BY <1>1, StepImplementsService, Invariance, PTL DEF Spec, ImplementsService, Service!Spec

-----------------------------------------------------------------------------
(* One caller.                                                             *)

OneCaller == \A p, q \in Producer : p = q

\* With one caller the limit holds although updates of size are lost: a value of size
\* that a register holds is as small as size was when it was read.
SizeInv ==
  /\ size <= Capacity
  /\ procPc = "size_store" => procReg <= Capacity
  /\ \A p \in Producer :
       /\ Inside(p) => size < Capacity
       /\ prodPc[p] = "size_store" => prodReg[p] < Capacity

LEMMA SizeStep ==
  OneCaller /\ TypeInv /\ SizeInv /\ [Next]_vars => SizeInv'
<1> SUFFICES ASSUME OneCaller, TypeInv, SizeInv, [Next]_vars PROVE SizeInv'
  OBVIOUS
<1> USE DEF TypeInv, TypeOK, SizeInv, Inside
<1>1. ASSUME NEW p \in Producer, NEW r \in Request, EnqueueFull(p, r)
      PROVE  SizeInv'
  BY <1>1 DEF EnqueueFull, ringVars, prodVars, procVars
<1>2. ASSUME NEW p \in Producer, NEW r \in Request, EnqueueBegin(p, r)
      PROVE  SizeInv'
  BY <1>2 DEF EnqueueBegin, isFull, ringVars, procVars
<1>3. ASSUME NEW p \in Producer, RearLoad(p) \/ RearStore(p) \/ ItemStore(p) \/ SizeLoad(p)
      PROVE  SizeInv'
  BY <1>3 DEF RearLoad, RearStore, ItemStore, SizeLoad, ringVars, procVars
<1>4. ASSUME NEW p \in Producer, SizeStore(p)
      PROVE  SizeInv'
  <2>1. size' = prodReg[p] + 1 /\ prodReg[p] \in Nat /\ prodReg[p] < Capacity
    BY <1>4 DEF SizeStore
  <2>2. \A q \in Producer : prodPc'[q] = "idle"
    BY <1>4 DEF SizeStore, OneCaller
  <2>3. QED
    BY <1>4, <2>1, <2>2 DEF SizeStore, procVars
<1>5. CASE ProcessorStep \/ Crash
  BY <1>5 DEF ProcessorStep, Poll, PickThread, LockQueue, Take, TakeSizeLoad,
              TakeSizeStore, UnlockQueue, CreateThread, Join, Crash, ringVars, prodVars,
              procVars
<1>6. ASSUME NEW t \in Thread, WorkerStep(t)
      PROVE  SizeInv'
  BY <1>6 DEF WorkerStep, WorkerReject, WorkerStart, WorkerLock, WorkerProcess,
              WorkerUnlock, WorkerReset, ringVars, prodVars, procVars
<1>7. CASE UNCHANGED vars
  BY <1>7 DEF vars, ringVars, prodVars, procVars
<1>8. QED
  BY <1>1, <1>2, <1>3, <1>4, <1>5, <1>6, <1>7 DEF Next, Enqueue

\* With a single caller of add_request_query the size never exceeds the capacity, so the
\* equality that isFull tests keeps its meaning even after lost updates.
THEOREM OneCallerKeepsTheLimit == OneCaller => (Spec => []SizeWithinCapacity)
<1> SUFFICES ASSUME OneCaller PROVE Spec => []SizeWithinCapacity
  OBVIOUS
<1>1. Init => SizeInv
  BY DEF Init, SizeInv, Inside
<1>2. TypeInv /\ SizeInv /\ [Next]_vars => SizeInv'
  BY SizeStep
<1>3. SizeInv => SizeWithinCapacity
  BY DEF SizeInv, SizeWithinCapacity
<1>4. QED
  BY <1>1, <1>2, <1>3, TypeInvariance, PTL DEF Spec
=============================================================================
