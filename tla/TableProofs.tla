----------------------------- MODULE TableProofs -----------------------------
(***************************************************************************)
(* Proofs about a table, for any keys, any hash function, any capacity of  *)
(* the version stacks and any number of puts.                              *)
(***************************************************************************)
EXTENDS Table, FoldLemmas, SequenceTheorems, TLAPS

USE HashAssumption, LimitAssumption, ValueAssumption

-----------------------------------------------------------------------------
(* The stack of a column.                                                  *)

\* push keeps what is on the stack, and drops the value if the stack is full.
LEMMA PushKeeps ==
  ASSUME NEW stack \in Seq(Value), NEW v \in Value
  PROVE  /\ push(stack, v) \in Seq(Value)
         /\ Len(push(stack, v)) = IF Len(stack) = VERSION_LIMIT THEN Len(stack)
                                  ELSE Len(stack) + 1
         /\ \A i \in 1 .. Len(stack) : push(stack, v)[i] = stack[i]
  BY DEF push

\* A new column has one value, under version 1.
LEMMA FirstVersionType ==
  ASSUME NEW v \in Value
  PROVE  /\ FirstVersion(v) \in VersionedColumn
         /\ FirstVersion(v).version = 1 /\ Len(FirstVersion(v).stack) = 1
  BY DEF FirstVersion, VersionedColumn

LEMMA NoColumnsType == /\ NoColumns \in [Column -> VersionedColumn]
                       /\ \A c \in Column : NoColumns[c] = [stack |-> <<>>, version |-> 0]
  BY DEF NoColumns, NoColumn, VersionedColumn

\* update_values_into_record touches one column of one row.
LEMMA UpdateEffect ==
  ASSUME TypeOK, NEW k \in Key, NEW c \in Column, NEW v \in Value, UpdateValues(k, c, v)
  PROVE  /\ cols' \in [Key -> [Column -> VersionedColumn]]
         /\ trans' \in Seq([key : Key, column : Column, version : Nat])
         /\ \A j \in Key, d \in Column : j # k \/ d # c => cols'[j][d] = cols[j][d]
         /\ cols[k][c].version = 0 => /\ cols'[k][c] = FirstVersion(v)
                                      /\ trans' = trans
         /\ cols[k][c].version # 0 =>
              /\ cols'[k][c].stack = push(cols[k][c].stack, v)
              /\ cols'[k][c].version = cols[k][c].version
              /\ trans' = Append(trans, [key |-> k, column |-> c,
                                         version |-> cols[k][c].version])
<1>1. cols[k] \in [Column -> VersionedColumn] /\ cols[k][c] \in VersionedColumn
  BY DEF TypeOK
<1>2. CASE cols[k][c].version = 0
  <2>1. cols' = [cols EXCEPT ![k][c] = FirstVersion(v)] /\ trans' = trans
    BY <1>2 DEF UpdateValues
  <2>2. QED
    BY <1>1, <1>2, <2>1, FirstVersionType DEF TypeOK
<1>3. CASE cols[k][c].version # 0
  <2>1. /\ cols' = [cols EXCEPT ![k][c].stack = push(@, v)]
        /\ trans' = Append(trans, [key |-> k, column |-> c, version |-> cols[k][c].version])
    BY <1>3 DEF UpdateValues
  <2>2. push(cols[k][c].stack, v) \in Seq(Value)
    BY <1>1, PushKeeps DEF VersionedColumn
  <2>3. [cols[k][c] EXCEPT !.stack = push(@, v)] \in VersionedColumn
    BY <1>1, <2>2 DEF VersionedColumn
  <2>4. [key |-> k, column |-> c, version |-> cols[k][c].version]
          \in [key : Key, column : Column, version : Nat]
    BY <1>1 DEF VersionedColumn
  <2> DEFINE col == [cols[k][c] EXCEPT !.stack = push(cols[k][c].stack, v)]
  <2>5. cols' = [cols EXCEPT ![k][c] = col]
    BY <2>1
  <2>7. col \in VersionedColumn
    BY <2>3
  <2> HIDE DEF col
  <2>8. /\ cols' \in [Key -> [Column -> VersionedColumn]]
        /\ \A j \in Key, d \in Column : j # k \/ d # c => cols'[j][d] = cols[j][d]
        /\ cols'[k][c] = col
    BY <1>1, <2>5, <2>7 DEF TypeOK
  <2>6. trans' \in Seq([key : Key, column : Column, version : Nat])
    BY <2>1, <2>4 DEF TypeOK
  <2>9. col.stack = push(cols[k][c].stack, v) /\ col.version = cols[k][c].version
    BY <1>1 DEF col, VersionedColumn
  <2>10. QED
    BY <1>3, <2>1, <2>6, <2>8, <2>9
<1>4. QED
  BY <1>2, <1>3

-----------------------------------------------------------------------------
(* Types.                                                                  *)

LEMMA TypeInit == Init => TypeOK
<1> SUFFICES ASSUME Init PROVE TypeOK
  OBVIOUS
<1>1. cols \in [Key -> [Column -> VersionedColumn]]
  BY NoColumnsType DEF Init
<1>2. chain \in [Bucket -> Seq(Key)]
  BY DEF Init
<1>3. QED
  BY <1>1, <1>2 DEF Init, TypeOK

\* The first position of the record of a key that is linked.
LEMMA PositionType ==
  ASSUME TypeOK, NEW k \in Key, Found(k)
  PROVE  LET b == HashCode[k]
             i == CHOOSE n \in DOMAIN chain[b] : chain[b][n] = k
         IN  i \in 1 .. Len(chain[b]) /\ chain[b][i] = k
<1> DEFINE b == HashCode[k]
<1>1. chain[b] \in Seq(Key)
  BY DEF TypeOK
<1>2. \E n \in DOMAIN chain[b] : chain[b][n] = k
  BY DEF Found, Rows
<1>3. DOMAIN chain[b] = 1 .. Len(chain[b])
  BY <1>1
<1>4. QED
  BY <1>2, <1>3

LEMMA UnlinkType == ASSUME TypeOK, NEW b \in Bucket, Unlink(b)
                    PROVE  /\ chain' \in [Bucket -> Seq(Key)] /\ back' \in [Bucket -> Nat]
                           /\ cols' \in [Key -> [Column -> VersionedColumn]]
<1>1. chain' = [chain EXCEPT ![b] = <<>>] /\ back' = [back EXCEPT ![b] = 0]
  BY DEF Unlink
<1>2. \A j \in Key : cols[j] \in [Column -> VersionedColumn]
  BY DEF TypeOK
<1>3. cols' \in [Key -> [Column -> VersionedColumn]]
  BY <1>2, NoColumnsType DEF Unlink
<1>4. QED
  BY <1>1, <1>3 DEF TypeOK

\* commit moves the version number of the column its entry names, or nothing.
LEMMA CommitEffect ==
  ASSUME TypeOK, CommitEntry
  PROVE  LET t == Head(trans) IN
         /\ t \in [key : Key, column : Column, version : Nat]
         /\ trans' \in Seq([key : Key, column : Column, version : Nat])
         /\ Len(trans') < Len(trans)
         /\ cols' \in [Key -> [Column -> VersionedColumn]]
         /\ \A j \in Key, d \in Column :
              j # t.key \/ d # t.column => cols'[j][d] = cols[j][d]
         /\ Found(t.key) /\ cols[t.key][t.column].version = t.version =>
              /\ cols'[t.key][t.column].stack = cols[t.key][t.column].stack
              /\ cols'[t.key][t.column].version = cols[t.key][t.column].version + 1
<1> DEFINE t == Head(trans)
           Entry == [key : Key, column : Column, version : Nat]
<1>1. trans \in Seq(Entry) /\ trans # <<>> /\ Len(trans) \in Nat
  BY DEF CommitEntry, TypeOK
<1> HIDE DEF Entry
<1>2. /\ t \in Entry /\ Tail(trans) \in Seq(Entry) /\ Len(Tail(trans)) < Len(trans)
      /\ <<>> \in Seq(Entry) /\ Len(<<>>) < Len(trans)
  BY <1>1, EmptySeq, HeadTailProperties
<1>3. t.key \in Key /\ t.column \in Column
  BY <1>2 DEF Entry
<1>4. cols[t.key] \in [Column -> VersionedColumn] /\ cols[t.key][t.column] \in VersionedColumn
  BY <1>3 DEF TypeOK
<1>5. CASE Found(t.key) /\ cols[t.key][t.column].version = t.version
  <2> DEFINE col == [cols[t.key][t.column] EXCEPT !.version = cols[t.key][t.column].version + 1]
  <2>1. cols' = [cols EXCEPT ![t.key][t.column] = col]
    BY <1>5 DEF CommitEntry
  <2>2. /\ col \in VersionedColumn /\ col.stack = cols[t.key][t.column].stack
        /\ col.version = cols[t.key][t.column].version + 1
    BY <1>4 DEF VersionedColumn
  <2>3. trans' = Tail(trans)
    BY <1>5 DEF CommitEntry
  <2> HIDE DEF col, t
  <2>4. /\ cols' \in [Key -> [Column -> VersionedColumn]]
        /\ cols'[t.key][t.column] = col
        /\ \A j \in Key, d \in Column :
              j # t.key \/ d # t.column => cols'[j][d] = cols[j][d]
    BY <1>3, <1>4, <2>1, <2>2 DEF TypeOK
  <2>5. QED
    BY <1>2, <2>2, <2>3, <2>4 DEF t, Entry
<1>6. CASE ~(Found(t.key) /\ cols[t.key][t.column].version = t.version)
  <2>1. cols' = cols /\ trans' \in {Tail(trans), <<>>}
    BY <1>6 DEF CommitEntry
  <2>2. QED
    BY <1>2, <1>6, <2>1 DEF TypeOK, Entry
<1>7. QED
  BY <1>5, <1>6

LEMMA TypeStep == TypeOK /\ [Next]_vars => TypeOK'
<1> SUFFICES ASSUME TypeOK, [Next]_vars PROVE TypeOK'
  OBVIOUS
<1> USE DEF CanPut, CanDelete
<1>1. ASSUME NEW k \in Key, NEW c \in Column, NEW v \in Value, PutNewRow(k, c, v)
      PROVE  TypeOK'
  <2>1. [NoColumns EXCEPT ![c] = FirstVersion(v)] \in [Column -> VersionedColumn]
    BY NoColumnsType, FirstVersionType
  <2>2. cols' \in [Key -> [Column -> VersionedColumn]]
    BY <1>1, <2>1 DEF PutNewRow, TypeOK
  <2>3. chain' \in [Bucket -> Seq(Key)]
    BY <1>1 DEF PutNewRow, TypeOK
  <2>4. QED
    BY <1>1, <2>2, <2>3 DEF PutNewRow, TypeOK
<1>2. ASSUME NEW k \in Key, NEW c \in Column, NEW v \in Value, PutFirstRow(k, c, v)
      PROVE  TypeOK'
  <2>1. /\ cols' \in [Key -> [Column -> VersionedColumn]]
        /\ trans' \in Seq([key : Key, column : Column, version : Nat])
    BY <1>2, UpdateEffect DEF PutFirstRow
  <2>2. QED
    BY <1>2, <2>1 DEF PutFirstRow, TypeOK
<1>3. ASSUME NEW k \in Key, NEW c \in Column, NEW v \in Value, PutLaterRow(k, c, v)
      PROVE  TypeOK'
  <2>1. /\ cols' \in [Key -> [Column -> VersionedColumn]]
        /\ trans' \in Seq([key : Key, column : Column, version : Nat])
    BY <1>3, UpdateEffect DEF PutLaterRow
  <2> DEFINE i == CHOOSE n \in DOMAIN chain[HashCode[k]] : chain[HashCode[k]][n] = k
  <2>2. i \in 1 .. Len(chain[HashCode[k]])
    BY <1>3, PositionType DEF PutLaterRow
  <2>6. i \in Nat
    BY <2>2
  <2>3. back' = [back EXCEPT ![HashCode[k]] = i]
    BY <1>3 DEF PutLaterRow
  <2> HIDE DEF i
  <2>4. back' \in [Bucket -> Nat]
    BY <2>6, <2>3 DEF TypeOK
  <2>5. QED
    BY <1>3, <2>1, <2>4 DEF PutLaterRow, TypeOK
<1>4. ASSUME NEW k \in Key, NEW c \in Column, NEW v \in Value, PutWalkHangs(k, c, v)
      PROVE  TypeOK'
  <2>1. /\ cols' \in [Key -> [Column -> VersionedColumn]]
        /\ trans' \in Seq([key : Key, column : Column, version : Nat])
    BY <1>4, UpdateEffect DEF PutWalkHangs
  <2>2. QED
    BY <1>4, <2>1 DEF PutWalkHangs, TypeOK
<1>5. ASSUME NEW k \in Key, PutSearchHangs(k) PROVE TypeOK'
  BY <1>5 DEF PutSearchHangs, TypeOK
<1>6. ASSUME NEW k \in Key, Delete(k) PROVE TypeOK'
  <2>1. CASE DeleteOnlyRow(k)
    BY <2>1, UnlinkType DEF DeleteOnlyRow, TypeOK
  <2>2. CASE DeleteFirstRow(k)
    BY <2>2 DEF DeleteFirstRow, TypeOK
  <2>3. CASE DeleteLaterRow(k)
    BY <2>3, UnlinkType DEF DeleteLaterRow, TypeOK
  <2>4. CASE DeleteWalkHangs(k) \/ DeleteCrashes(k)
    BY <2>4 DEF DeleteWalkHangs, DeleteCrashes, TypeOK
  <2>5. QED
    BY <1>6, <2>1, <2>2, <2>3, <2>4 DEF Delete
<1>7. ASSUME NEW k \in Key, UseAfterFree(k) PROVE TypeOK'
  BY <1>7 DEF UseAfterFree, TypeOK
<1>8. CASE CommitEntry
  BY <1>8, CommitEffect DEF CommitEntry, TypeOK
<1>9. CASE CommitDone
  BY <1>9 DEF CommitDone, TypeOK
<1>10. CASE UNCHANGED vars
  BY <1>10 DEF vars, TypeOK
<1>11. QED
  BY <1>1, <1>2, <1>3, <1>4, <1>5, <1>6, <1>7, <1>8, <1>9, <1>10 DEF Next

-----------------------------------------------------------------------------
(* The lists.                                                              *)

\* What ChainsWellFormed needs to be inductive: row_count only grows, so a table that
\* searchInTable takes for empty has no list a row could already be in.
ShapeInv ==
  /\ ChainsWellFormed
  /\ row_count = 0 => \A b \in Bucket : chain[b] = <<>>

LEMMA ShapeInit == Init => ShapeInv
  BY DEF Init, ShapeInv, ChainsWellFormed

\* A cut bucket is empty and points nowhere; the others stay as they are.
LEMMA UnlinkShape == ASSUME TypeOK, ShapeInv, NEW b \in Bucket, Unlink(b),
                            UNCHANGED row_count
                     PROVE  ShapeInv'
<1>1. /\ chain'[b] = <<>> /\ back'[b] = 0
      /\ \A a \in Bucket : a # b => chain'[a] = chain[a] /\ back'[a] = back[a]
  BY DEF Unlink, TypeOK
<1>2. QED
  BY <1>1 DEF ShapeInv, ChainsWellFormed

\* A key that is not found is in no list.
LEMMA NotFoundNotLinked == ASSUME TypeOK, ShapeInv, NEW k \in Key, ~Found(k)
                           PROVE  k \notin Rows(HashCode[k])
  BY DEF TypeOK, ShapeInv, Found, Rows

LEMMA ShapeStep == TypeOK /\ ShapeInv /\ [Next]_vars => ShapeInv'
<1> SUFFICES ASSUME TypeOK, ShapeInv, [Next]_vars PROVE ShapeInv'
  OBVIOUS
<1> USE DEF CanPut, CanDelete
<1>1. ASSUME NEW k \in Key, NEW c \in Column, NEW v \in Value, PutNewRow(k, c, v)
      PROVE  ShapeInv'
  <2> DEFINE b == HashCode[k]
             list == chain[b]
  <2>1. b \in Bucket /\ list \in Seq(Key) /\ back[b] \in Nat
    BY DEF TypeOK
  <2>2. /\ chain' = [chain EXCEPT ![b] = Append(list, k)] /\ back' = back
        /\ row_count' = row_count + 1 /\ row_count \in Nat
    BY <1>1 DEF PutNewRow, TypeOK
  <2>3. \A i \in 1 .. Len(list) : list[i] # k
    BY <1>1, <2>1, NotFoundNotLinked DEF PutNewRow, NotFound, Rows
  <2>4. /\ DOMAIN chain'[b] = 1 .. Len(list) + 1 /\ Len(chain'[b]) = Len(list) + 1
        /\ chain'[b][Len(list) + 1] = k
        /\ \A i \in 1 .. Len(list) : chain'[b][i] = list[i]
    BY <2>1, <2>2 DEF TypeOK
  <2>5. \A a \in Bucket : a # b => chain'[a] = chain[a]
    BY <2>1, <2>2 DEF TypeOK
  <2>6. \A i, j \in DOMAIN chain'[b] : chain'[b][i] = chain'[b][j] => i = j
    BY <2>1, <2>3, <2>4 DEF ShapeInv, ChainsWellFormed
  <2>7. \A i \in DOMAIN chain'[b] : HashCode[chain'[b][i]] = b
    BY <2>1, <2>4 DEF ShapeInv, ChainsWellFormed
  <2>8. back[b] # 0 => back[b] \in 2 .. Len(chain'[b])
    BY <2>1, <2>4 DEF ShapeInv, ChainsWellFormed
  <2> HIDE DEF b, list
  <2>9. QED
    BY <2>1, <2>2, <2>5, <2>6, <2>7, <2>8 DEF ShapeInv, ChainsWellFormed
<1>2. ASSUME NEW k \in Key, NEW c \in Column, NEW v \in Value, PutFirstRow(k, c, v)
      PROVE  ShapeInv'
  BY <1>2 DEF PutFirstRow, ShapeInv, ChainsWellFormed, TypeOK
<1>3. ASSUME NEW k \in Key, NEW c \in Column, NEW v \in Value, PutLaterRow(k, c, v)
      PROVE  ShapeInv'
  <2> DEFINE b == HashCode[k]
             i == CHOOSE n \in DOMAIN chain[b] : chain[b][n] = k
  <2>1. i \in 1 .. Len(chain[b]) /\ chain[b][i] = k
    BY <1>3, PositionType DEF PutLaterRow
  <2>2. i # 1 /\ chain' = chain /\ row_count' = row_count + 1 /\ row_count \in Nat
    BY <1>3, <2>1 DEF PutLaterRow, TypeOK
  <2>3. back' = [back EXCEPT ![b] = i]
    BY <1>3 DEF PutLaterRow
  <2>4. b \in Bucket /\ Len(chain[b]) \in Nat
    BY DEF TypeOK
  <2> HIDE DEF i, b
  <2>5. /\ back'[b] \in 2 .. Len(chain[b])
        /\ \A a \in Bucket : a # b => back'[a] = back[a]
    BY <2>1, <2>2, <2>3, <2>4 DEF TypeOK
  <2>6. QED
    BY <2>2, <2>5 DEF ShapeInv, ChainsWellFormed
<1>4. ASSUME NEW k \in Key, NEW c \in Column, NEW v \in Value, PutWalkHangs(k, c, v)
      PROVE  ShapeInv'
  BY <1>4 DEF PutWalkHangs, ShapeInv, ChainsWellFormed
<1>5. ASSUME NEW k \in Key, PutSearchHangs(k) PROVE ShapeInv'
  BY <1>5 DEF PutSearchHangs, ShapeInv, ChainsWellFormed
<1>6. ASSUME NEW k \in Key, Delete(k) PROVE ShapeInv'
  <2>1. CASE DeleteOnlyRow(k) \/ DeleteLaterRow(k)
    BY <2>1, UnlinkShape DEF DeleteOnlyRow, DeleteLaterRow
  <2>2. CASE DeleteFirstRow(k) \/ DeleteWalkHangs(k) \/ DeleteCrashes(k)
    BY <2>2 DEF DeleteFirstRow, DeleteWalkHangs, DeleteCrashes, ShapeInv, ChainsWellFormed
  <2>3. QED
    BY <1>6, <2>1, <2>2 DEF Delete
<1>7. ASSUME NEW k \in Key, UseAfterFree(k) PROVE ShapeInv'
  BY <1>7 DEF UseAfterFree, ShapeInv, ChainsWellFormed
<1>8. CASE CommitEntry \/ CommitDone \/ UNCHANGED vars
  BY <1>8 DEF CommitEntry, CommitDone, vars, ShapeInv, ChainsWellFormed
<1>9. QED
  BY <1>1, <1>2, <1>3, <1>4, <1>5, <1>6, <1>7, <1>8 DEF Next

-----------------------------------------------------------------------------
(* Harm.                                                                   *)

\* A record that was freed and is still linked damages its bucket.
DanglingInv == dangling \subseteq damaged

LEMMA DanglingStep == DanglingInv /\ [Next]_vars => DanglingInv'
  BY DEF DanglingInv, Next, vars, PutNewRow, PutFirstRow, PutLaterRow, PutWalkHangs,
         PutSearchHangs, CommitEntry, CommitDone, UseAfterFree, Delete, DeleteOnlyRow,
         DeleteFirstRow, DeleteLaterRow, DeleteWalkHangs, DeleteCrashes

LEMMA HarmInit == Init => HarmNeedsCollision /\ DanglingInv
  BY DEF Init, HarmNeedsCollision, DanglingInv

\* Two records of a list share its bucket, and so does a key with a record that is not its.
LEMMA TwoRecordsShare ==
  ASSUME TypeOK, ShapeInv, NEW k \in Key, chain[HashCode[k]] # <<>>,
         chain[HashCode[k]] # <<k>>
  PROVE  Shared(HashCode[k])
<1> DEFINE b == HashCode[k]
<1>1. b \in Bucket /\ chain[b] \in Seq(Key) /\ Len(chain[b]) \in Nat \ {0}
  BY DEF TypeOK
<1>2. \A i \in 1 .. Len(chain[b]) : chain[b][i] \in Key /\ HashCode[chain[b][i]] = b
  BY <1>1 DEF ShapeInv, ChainsWellFormed
<1>3. CASE Len(chain[b]) = 1
  <2>1. chain[b][1] # k
    BY <1>1, <1>3
  <2>2. QED
    BY <1>2, <1>3, <2>1 DEF Shared
<1>4. CASE Len(chain[b]) > 1
  <2>1. chain[b][1] # chain[b][2]
    BY <1>1, <1>4 DEF ShapeInv, ChainsWellFormed
  <2>2. QED
    BY <1>1, <1>2, <1>4, <2>1 DEF Shared
<1>5. \A n \in Nat \ {0} : n = 1 \/ n > 1
  OBVIOUS
<1>6. QED
  BY <1>1, <1>3, <1>4, <1>5, Zenon

\* A list with a record that is not this key's, as the conditions of the code say it.
LEMMA LongListShares ==
  ASSUME TypeOK, ShapeInv, NEW k \in Key,
         \/ Len(chain[HashCode[k]]) > 1
         \/ Found(k) /\ chain[HashCode[k]][1] # k
  PROVE  Shared(HashCode[k])
<1>1. chain[HashCode[k]] \in Seq(Key)
  BY DEF TypeOK
<1>2. Len(<<>>) = 0 /\ Len(<<k>>) = 1 /\ <<k>>[1] = k
  OBVIOUS
<1>3. CASE Len(chain[HashCode[k]]) > 1
  <2>1. ~(0 > 1) /\ ~(1 > 1)
    OBVIOUS
  <2>2. chain[HashCode[k]] # <<>> /\ chain[HashCode[k]] # <<k>>
    BY <1>2, <1>3, <2>1, Zenon
  <2>3. QED
    BY <2>2, TwoRecordsShare
<1>4. CASE Found(k) /\ chain[HashCode[k]][1] # k
  <2>1. chain[HashCode[k]] # <<>>
    BY <1>1, <1>4 DEF Found, Rows
  <2>2. QED
    BY <1>2, <1>4, <2>1, TwoRecordsShare
<1>5. QED
  BY <1>3, <1>4

LEMMA HarmStep == TypeOK /\ ShapeInv /\ HarmNeedsCollision /\ [Next]_vars => HarmNeedsCollision'
<1> SUFFICES ASSUME TypeOK, ShapeInv, HarmNeedsCollision, [Next]_vars PROVE HarmNeedsCollision'
  OBVIOUS
<1> USE DEF CanPut, CanDelete
<1>1. ASSUME NEW k \in Key, NEW c \in Column, NEW v \in Value,
             PutNewRow(k, c, v) \/ PutFirstRow(k, c, v)
      PROVE  HarmNeedsCollision'
  BY <1>1 DEF PutNewRow, PutFirstRow, HarmNeedsCollision, Shared
<1>2. ASSUME NEW k \in Key, NEW c \in Column, NEW v \in Value, PutLaterRow(k, c, v)
      PROVE  HarmNeedsCollision'
  <2>1. Shared(HashCode[k])
    BY <1>2, LongListShares DEF PutLaterRow
  <2>2. \A a \in Bucket : a # HashCode[k] => back'[a] = back[a]
    BY <1>2 DEF PutLaterRow, TypeOK
  <2>3. pc' = "commit" /\ dangling' = dangling /\ damaged' = damaged
    BY <1>2 DEF PutLaterRow
  <2>4. QED
    BY <2>1, <2>2, <2>3 DEF HarmNeedsCollision, Shared
<1>3. ASSUME NEW k \in Key, NEW c \in Column, NEW v \in Value, PutWalkHangs(k, c, v)
      PROVE  HarmNeedsCollision'
  BY <1>3 DEF PutWalkHangs, HarmNeedsCollision, Shared
<1>4. ASSUME NEW k \in Key, PutSearchHangs(k) PROVE HarmNeedsCollision'
  <2>1. HashCode[k] \in Bucket /\ back[HashCode[k]] # 0
    BY <1>4 DEF PutSearchHangs, NotFound
  <2>2. QED
    BY <1>4, <2>1 DEF PutSearchHangs, HarmNeedsCollision, Shared
<1>5. ASSUME NEW k \in Key, Delete(k) PROVE HarmNeedsCollision'
  <2> DEFINE b == HashCode[k]
  <2>1. b \in Bucket
    OBVIOUS
  <2>2. CASE DeleteOnlyRow(k)
    <3>1. chain[b] # <<k>> => Shared(b)
      BY <2>2, TwoRecordsShare DEF DeleteOnlyRow
    <3>2. \A a \in Bucket : back'[a] # 0 => back[a] # 0
      BY <2>1, <2>2 DEF DeleteOnlyRow, Unlink, TypeOK
    <3>3. /\ dangling' = dangling /\ pc' = "ready"
          /\ damaged' = damaged \cup {a \in {b} : chain[a] # <<k>>}
      BY <2>2 DEF DeleteOnlyRow
    <3>4. QED
      BY <3>1, <3>2, <3>3 DEF HarmNeedsCollision, Shared
  <2>3. CASE DeleteFirstRow(k)
    <3>1. Shared(b)
      BY <2>3, LongListShares DEF DeleteFirstRow
    <3>2. QED
      BY <2>3, <3>1 DEF DeleteFirstRow, HarmNeedsCollision, Shared
  <2>4. CASE DeleteLaterRow(k)
    <3>1. Shared(b)
      BY <2>4, LongListShares DEF DeleteLaterRow
    <3>2. \A a \in Bucket : back'[a] # 0 => back[a] # 0
      BY <2>1, <2>4 DEF DeleteLaterRow, Unlink, TypeOK
    <3>3. dangling' = dangling /\ damaged' = damaged \cup {b} /\ pc' = "ready"
      BY <2>4 DEF DeleteLaterRow
    <3>4. QED
      BY <3>1, <3>2, <3>3 DEF HarmNeedsCollision, Shared
  <2>5. CASE DeleteWalkHangs(k)
    BY <2>1, <2>5 DEF DeleteWalkHangs, HarmNeedsCollision, Shared
  <2>6. CASE DeleteCrashes(k)
    BY <2>6 DEF DeleteCrashes, HarmNeedsCollision, Shared
  <2>7. QED
    BY <1>5, <2>2, <2>3, <2>4, <2>5, <2>6 DEF Delete
<1>6. ASSUME NEW k \in Key, UseAfterFree(k) PROVE HarmNeedsCollision'
  BY <1>6 DEF UseAfterFree, HarmNeedsCollision, Shared
<1>7. CASE CommitEntry \/ CommitDone \/ UNCHANGED vars
  BY <1>7 DEF CommitEntry, CommitDone, vars, HarmNeedsCollision, Shared
<1>8. QED
  BY <1>1, <1>2, <1>3, <1>4, <1>5, <1>6, <1>7 DEF Next

-----------------------------------------------------------------------------
(* The transaction holder and the version numbers.                         *)

\* What CommitNeverFails needs to be inductive: the holder is empty whenever no put is
\* on its way, and keeps a valid entry when the put hangs after its update.
HolderInv ==
  /\ pc \in {"ready", "crashed"} => trans = <<>>
  /\ Len(trans) <= 1
  /\ trans # <<>> => LET t == Head(trans)
                     IN  Found(t.key) /\ cols[t.key][t.column].version = t.version

DataInv == HolderInv /\ VersionMatchesStack

LEMMA DataInit == Init => DataInv
<1> SUFFICES ASSUME Init PROVE DataInv
  OBVIOUS
<1>1. \A k \in Key, c \in Column : cols[k][c] = [stack |-> <<>>, version |-> 0]
  BY NoColumnsType DEF Init
<1>2. \A k \in Key, c \in Column : ~Pending(k, c)
  BY DEF Init, Pending
<1>3. VersionMatchesStack
  BY <1>1, <1>2 DEF VersionMatchesStack
<1>4. QED
  BY <1>3 DEF Init, DataInv, HolderInv

\* A column on whose stack so many values were pushed.
Matches(col, pushed) ==
  IF pushed <= VERSION_LIMIT THEN Len(col.stack) = pushed
  ELSE Len(col.stack) = VERSION_LIMIT

\* VersionMatchesStack, column by column.
ColumnsMatch ==
  \A k \in Key, c \in Column :
    /\ ~Pending(k, c) => Matches(cols[k][c], cols[k][c].version)
    /\ Pending(k, c)  => Matches(cols[k][c], cols[k][c].version + 1)

LEMMA MatchesColumns == TypeOK => (VersionMatchesStack <=> ColumnsMatch)
<1> SUFFICES ASSUME TypeOK, NEW k \in Key, NEW c \in Column
             PROVE  LET pushed == cols[k][c].version + (IF Pending(k, c) THEN 1 ELSE 0)
                    IN  (/\ pushed <= VERSION_LIMIT => Len(cols[k][c].stack) = pushed
                         /\ pushed > VERSION_LIMIT  => Len(cols[k][c].stack) = VERSION_LIMIT)
                        <=> (/\ ~Pending(k, c) => Matches(cols[k][c], cols[k][c].version)
                             /\ Pending(k, c)  => Matches(cols[k][c], cols[k][c].version + 1))
  BY DEF VersionMatchesStack, ColumnsMatch
<1>1. cols[k][c].version \in Nat
  BY DEF TypeOK, VersionedColumn
<1>2. QED
  BY <1>1 DEF Matches

\* push takes a column with n values to one with n + 1, also when it drops the value.
LEMMA PushMatches ==
  ASSUME NEW col \in VersionedColumn, NEW v \in Value, NEW new \in VersionedColumn,
         Matches(col, col.version), new.stack = push(col.stack, v)
  PROVE  Matches(new, col.version + 1)
<1>1. col.stack \in Seq(Value) /\ col.version \in Nat /\ Len(col.stack) \in Nat
  BY DEF VersionedColumn
<1>2. Len(new.stack) = IF Len(col.stack) = VERSION_LIMIT THEN Len(col.stack)
                       ELSE Len(col.stack) + 1
  BY <1>1, PushKeeps
<1> DEFINE old == Len(col.stack)
           now == Len(new.stack)
           n == col.version
<1> HIDE DEF old, now, n
<1>3. QED
  BY <1>1, <1>2 DEF Matches, old, now, n

\* update_values_into_record leaves a column whose new value is pending, or a new one.
LEMMA UpdateData ==
  ASSUME TypeOK, TypeOK', DataInv, pc = "ready", NEW k \in Key, NEW c \in Column,
         NEW v \in Value, Found(k), Found(k)', UpdateValues(k, c, v),
         pc' \in {"commit", "hung"}
  PROVE  DataInv'
<1>1. trans = <<>> /\ \A j \in Key, d \in Column : ~Pending(j, d)
  BY DEF DataInv, HolderInv, Pending
<1>2. \A j \in Key, d \in Column : Matches(cols[j][d], cols[j][d].version)
  BY <1>1, MatchesColumns DEF DataInv, ColumnsMatch
<1>3. \A j \in Key, d \in Column : cols[j][d] \in VersionedColumn /\ cols'[j][d] \in VersionedColumn
  BY DEF TypeOK
<1>4. \A j \in Key, d \in Column : j # k \/ d # c => cols'[j][d] = cols[j][d]
  BY UpdateEffect
<1>5. ColumnsMatch' => VersionMatchesStack'
  BY MatchesColumns, PTL
<1>6. CASE cols[k][c].version = 0
  <2>1. trans' = <<>> /\ cols'[k][c] = FirstVersion(v)
    BY <1>1, <1>6, UpdateEffect
  <2>2. Matches(FirstVersion(v), FirstVersion(v).version)
    BY DEF Matches, FirstVersion
  <2>3. \A j \in Key, d \in Column : ~Pending(j, d)'
    BY <2>1 DEF Pending
  <2>4. \A j \in Key, d \in Column : Matches(cols'[j][d], cols'[j][d].version)
    BY <1>2, <1>4, <2>1, <2>2
  <2>5. VersionMatchesStack'
    BY <1>5, <2>3, <2>4 DEF ColumnsMatch
  <2>6. QED
    BY <2>1, <2>5 DEF DataInv, HolderInv
<1>7. CASE cols[k][c].version # 0
  <2> DEFINE t == [key |-> k, column |-> c, version |-> cols[k][c].version]
  <2>1. /\ trans' = Append(<<>>, t)
        /\ cols'[k][c].stack = push(cols[k][c].stack, v)
        /\ cols'[k][c].version = cols[k][c].version
    BY <1>1, <1>7, UpdateEffect
  <2>2. trans' # <<>> /\ Len(trans') = 1 /\ Head(trans') = t
    BY <2>1
  <2>3. Matches(cols'[k][c], cols[k][c].version + 1)
    BY <1>2, <1>3, <2>1, PushMatches
  <2>4. \A j \in Key, d \in Column : Pending(j, d)' <=> j = k /\ d = c
    BY <2>2 DEF Pending
  <2>5. VersionMatchesStack'
    BY <1>2, <1>4, <1>5, <2>1, <2>3, <2>4 DEF ColumnsMatch
  <2>6. HolderInv'
    BY <2>1, <2>2 DEF HolderInv
  <2>7. QED
    BY <2>5, <2>6 DEF DataInv
<1>8. QED
  BY <1>6, <1>7

\* Where the holder stays empty, each column has to match its version number.
LEMMA SettledData ==
  ASSUME TypeOK, TypeOK', DataInv, trans = <<>>, trans' = <<>>,
         \A j \in Key, d \in Column :
           cols'[j][d] = cols[j][d] \/ Matches(cols'[j][d], cols'[j][d].version)
  PROVE  DataInv'
<1>1. \A j \in Key, d \in Column : ~Pending(j, d) /\ ~Pending(j, d)'
  BY DEF Pending
<1>2. \A j \in Key, d \in Column : Matches(cols[j][d], cols[j][d].version)
  BY <1>1, MatchesColumns DEF DataInv, ColumnsMatch
<1>3. ColumnsMatch' => VersionMatchesStack'
  BY MatchesColumns, PTL
<1>4. VersionMatchesStack'
  BY <1>1, <1>2, <1>3 DEF ColumnsMatch
<1>5. QED
  BY <1>4 DEF DataInv, HolderInv

LEMMA NoColumnMatches == ASSUME NEW c \in Column
                         PROVE  Matches(NoColumns[c], NoColumns[c].version)
  BY NoColumnsType DEF Matches

LEMMA DataStep == TypeOK /\ TypeOK' /\ ShapeInv /\ DataInv /\ [Next]_vars => DataInv'
<1> SUFFICES ASSUME TypeOK, TypeOK', ShapeInv, DataInv, [Next]_vars PROVE DataInv'
  OBVIOUS
<1> USE DEF CanPut, CanDelete
<1>1. ASSUME NEW k \in Key, NEW c \in Column, NEW v \in Value, PutNewRow(k, c, v)
      PROVE  DataInv'
  <2>1. trans = <<>> /\ trans' = <<>>
    BY <1>1 DEF PutNewRow, DataInv, HolderInv
  <2>2. cols' = [cols EXCEPT ![k] = [NoColumns EXCEPT ![c] = FirstVersion(v)]]
    BY <1>1 DEF PutNewRow
  <2>3. \A j \in Key, d \in Column :
          cols'[j][d] \in {cols[j][d], NoColumns[d], FirstVersion(v)}
    BY <2>2, NoColumnsType DEF TypeOK
  <2>4. Matches(FirstVersion(v), FirstVersion(v).version)
    BY DEF Matches, FirstVersion
  <2>5. QED
    BY <2>1, <2>3, <2>4, NoColumnMatches, SettledData
<1>2. ASSUME NEW k \in Key, NEW c \in Column, NEW v \in Value, PutFirstRow(k, c, v)
      PROVE  DataInv'
  <2>1. Found(k)'
    BY <1>2 DEF PutFirstRow, Found, Rows, TypeOK
  <2>2. QED
    BY <1>2, <2>1, UpdateData DEF PutFirstRow
<1>3. ASSUME NEW k \in Key, NEW c \in Column, NEW v \in Value, PutLaterRow(k, c, v)
      PROVE  DataInv'
  <2>1. Found(k)'
    BY <1>3 DEF PutLaterRow, Found, Rows, TypeOK
  <2>2. QED
    BY <1>3, <2>1, UpdateData DEF PutLaterRow
<1>4. ASSUME NEW k \in Key, NEW c \in Column, NEW v \in Value, PutWalkHangs(k, c, v)
      PROVE  DataInv'
  <2>1. Found(k)'
    BY <1>4 DEF PutWalkHangs, Found, Rows
  <2>2. QED
    BY <1>4, <2>1, UpdateData DEF PutWalkHangs
<1>5. ASSUME NEW k \in Key, PutSearchHangs(k) PROVE DataInv'
  BY <1>5, SettledData DEF PutSearchHangs, DataInv, HolderInv
<1>6. ASSUME NEW k \in Key, Delete(k) PROVE DataInv'
  <2>1. trans = <<>> /\ trans' = <<>>
    BY <1>6 DEF Delete, DeleteOnlyRow, DeleteFirstRow, DeleteLaterRow, DeleteWalkHangs,
                DeleteCrashes, DataInv, HolderInv
  <2>2. \A j \in Key, d \in Column : cols'[j][d] \in {cols[j][d], NoColumns[d]}
    BY <1>6 DEF Delete, DeleteOnlyRow, DeleteFirstRow, DeleteLaterRow, DeleteWalkHangs,
                DeleteCrashes, Unlink
  <2>3. QED
    BY <2>1, <2>2, NoColumnMatches, SettledData
<1>7. ASSUME NEW k \in Key, UseAfterFree(k) PROVE DataInv'
  BY <1>7, SettledData DEF UseAfterFree, DataInv, HolderInv
<1>8. CASE CommitEntry
  <2> DEFINE t == Head(trans)
  <2>1. /\ t.key \in Key /\ t.column \in Column /\ trans # <<>>
        /\ Found(t.key) /\ cols[t.key][t.column].version = t.version
    BY <1>8, CommitEffect DEF CommitEntry, DataInv, HolderInv
  <2> DEFINE Entry == [key : Key, column : Column, version : Nat]
  <2>2. Len(trans) <= 1 /\ Len(trans') < Len(trans) /\ trans \in Seq(Entry) /\ trans' \in Seq(Entry)
    BY <1>8, CommitEffect DEF DataInv, HolderInv, TypeOK
  <2> HIDE DEF Entry
  <2>3. trans' = <<>>
    BY <2>2, EmptySeq, LenProperties
  <2>4. \A j \in Key, d \in Column : Pending(j, d) <=> j = t.key /\ d = t.column
    BY <2>1 DEF Pending
  <2>5. /\ Matches(cols[t.key][t.column], cols[t.key][t.column].version + 1)
        /\ \A j \in Key, d \in Column :
             j # t.key \/ d # t.column => Matches(cols[j][d], cols[j][d].version)
    BY <2>1, <2>4, MatchesColumns DEF DataInv, ColumnsMatch
  <2>6. /\ cols'[t.key][t.column].stack = cols[t.key][t.column].stack
        /\ cols'[t.key][t.column].version = cols[t.key][t.column].version + 1
        /\ \A j \in Key, d \in Column :
             j # t.key \/ d # t.column => cols'[j][d] = cols[j][d]
    BY <1>8, <2>1, CommitEffect
  <2>7. Matches(cols'[t.key][t.column], cols'[t.key][t.column].version)
    BY <2>5, <2>6 DEF Matches
  <2>8. \A j \in Key, d \in Column : ~Pending(j, d)'
    BY <2>3 DEF Pending
  <2>9. ColumnsMatch' => VersionMatchesStack'
    BY MatchesColumns, PTL
  <2> HIDE DEF t
  <2>10. VersionMatchesStack'
    BY <2>5, <2>6, <2>7, <2>8, <2>9 DEF ColumnsMatch
  <2>11. QED
    BY <2>3, <2>10 DEF DataInv, HolderInv
<1>9. CASE CommitDone
  BY <1>9, SettledData DEF CommitDone, DataInv, HolderInv
<1>10. CASE UNCHANGED vars
  BY <1>10 DEF vars, DataInv, HolderInv, VersionMatchesStack, Pending, Found, Rows
<1>11. QED
  BY <1>1, <1>2, <1>3, <1>4, <1>5, <1>6, <1>7, <1>8, <1>9, <1>10 DEF Next

-----------------------------------------------------------------------------
(* The invariant.                                                          *)

TableInv == TypeOK /\ ShapeInv /\ HarmNeedsCollision /\ DanglingInv /\ DataInv

LEMMA TableInvariance == Spec => []TableInv
<1>1. Init => TableInv
  BY TypeInit, ShapeInit, HarmInit, DataInit DEF TableInv
<1>2. TableInv /\ [Next]_vars => TableInv'
  BY TypeStep, ShapeStep, HarmStep, DanglingStep, DataStep DEF TableInv
<1>3. QED
  BY <1>1, <1>2, PTL DEF Spec

\* Every variable keeps its type, whatever keys collide: a record that is linked again
\* has a position in its list, and a committed version is a natural number.
THEOREM TypeCorrect == Spec => []TypeOK
<1>1. TableInv => TypeOK
  BY DEF TableInv
<1>2. QED
  BY <1>1, TableInvariance, PTL

\* A row is linked at most once and only in the bucket of its key, after any sequence of
\* puts and deletes and for any hash function, and a cycle never reaches the first row.
THEOREM ListsStayWellFormed == Spec => []ChainsWellFormed
<1>1. TableInv => ChainsWellFormed
  BY DEF TableInv, ShapeInv
<1>2. QED
  BY <1>1, TableInvariance, PTL

\* The conflict branch of commit is never taken: the column an entry of the global holder
\* names is still linked and still has the version number the entry recorded.
THEOREM NoCommitConflict == Spec => []CommitNeverFails
<1>1. TableInv => CommitNeverFails
  BY DEF TableInv, DataInv, HolderInv, CommitNeverFails
<1>2. QED
  BY <1>1, TableInvariance, PTL

\* Up to the capacity of the stack, for any capacity, a version number is the height of
\* its stack (less the pending value); beyond it the stack stays full.
THEOREM VersionsMatch == Spec => []VersionMatchesStack
<1>1. TableInv => VersionMatchesStack
  BY DEF TableInv, DataInv
<1>2. QED
  BY <1>1, TableInvariance, PTL

\* Only buckets that two keys share are ever damaged, left dangling or made cyclic, and
\* only in a cyclic one does a thread hang, whatever the hash function: without
\* collisions among the keys, no put or delete harms the table.
THEOREM HarmStaysInSharedBuckets == Spec => []HarmNeedsCollision
<1>1. TableInv => HarmNeedsCollision
  BY DEF TableInv
<1>2. QED
  BY <1>1, TableInvariance, PTL

-----------------------------------------------------------------------------
(* What readers see.                                                       *)

\* A new row changes what is stored in one cell, which held nothing.
LEMMA NewRowStored ==
  ASSUME TypeOK, ShapeInv, NEW k \in Key, NEW c \in Column, NEW v \in Value,
         PutNewRow(k, c, v)
  PROVE  /\ Stored(k, c) = NULL /\ Stored(k, c)' = v
         /\ \A j \in Key : j # k => (Found(j)' <=> Found(j))
         /\ \A j \in Key, d \in Column : j # k \/ d # c => Stored(j, d)' = Stored(j, d)
<1> DEFINE b == HashCode[k]
<1>1. b \in Bucket /\ chain[b] \in Seq(Key) /\ row_count \in Nat
  BY DEF TypeOK
<1>2. ~Found(k) /\ row_count' = row_count + 1 /\ chain' = [chain EXCEPT ![b] = Append(@, k)]
  BY DEF PutNewRow, NotFound
<1>3. Rows(b)' = Rows(b) \cup {k} /\ \A a \in Bucket : a # b => Rows(a)' = Rows(a)
  <2>1. chain'[b] = Append(chain[b], k) /\ \A a \in Bucket : a # b => chain'[a] = chain[a]
    BY <1>1, <1>2 DEF TypeOK
  <2>2. /\ DOMAIN chain'[b] = DOMAIN chain[b] \cup {Len(chain[b]) + 1}
        /\ chain'[b][Len(chain[b]) + 1] = k
        /\ \A i \in DOMAIN chain[b] : chain'[b][i] = chain[b][i]
    BY <1>1, <2>1
  <2>3. QED
    BY <2>1, <2>2 DEF Rows
<1>4. row_count < 1 => \A a \in Bucket : Rows(a) = {}
  BY <1>1 DEF ShapeInv, Rows
<1>5. Found(k)' /\ \A j \in Key : j # k => (Found(j)' <=> Found(j))
  BY <1>1, <1>2, <1>3, <1>4 DEF Found
<1>6. cols' = [cols EXCEPT ![k] = [NoColumns EXCEPT ![c] = FirstVersion(v)]]
  BY DEF PutNewRow
<1>7. /\ cols'[k][c] = FirstVersion(v)
      /\ \A d \in Column : d # c => cols'[k][d].version = 0
      /\ \A j \in Key, d \in Column : j # k => cols'[j][d] = cols[j][d]
  BY <1>6, NoColumnsType DEF TypeOK
<1>8. Stored(k, c)' = v
  BY <1>5, <1>7 DEF Stored, Current, FirstVersion
<1>9. \A d \in Column : Stored(k, d) = NULL /\ (d # c => Stored(k, d)' = NULL)
  BY <1>2, <1>7 DEF Stored, Current
<1>10. \A j \in Key, d \in Column : j # k => Stored(j, d)' = Stored(j, d)
  BY <1>5, <1>7 DEF Stored, Current
<1>11. QED
  BY <1>5, <1>8, <1>9, <1>10

\* An update stores a visible value where there was none, or changes no visible value.
LEMMA UpdateStored ==
  ASSUME TypeOK, DataInv, pc = "ready", NEW k \in Key, NEW c \in Column, NEW v \in Value,
         Found(k), \A j \in Key : Found(j)' <=> Found(j), UpdateValues(k, c, v)
  PROVE  /\ \A j \in Key, d \in Column : j # k \/ d # c => Stored(j, d)' = Stored(j, d)
         /\ cols[k][c].version = 0 => Stored(k, c) = NULL /\ Stored(k, c)' = v
         /\ cols[k][c].version # 0 => Stored(k, c)' = Stored(k, c)
<1> DEFINE old == cols[k][c]
           new == cols'[k][c]
<1>1. old.stack \in Seq(Value) /\ old.version \in Nat /\ Len(old.stack) \in Nat
  BY DEF TypeOK, VersionedColumn
<1>2. trans = <<>>
  BY DEF DataInv, HolderInv
<1>3. Matches(old, old.version)
  BY <1>2, MatchesColumns DEF DataInv, ColumnsMatch, Pending
<1>4. \A j \in Key, d \in Column : j # k \/ d # c => Stored(j, d)' = Stored(j, d)
  <2>1. \A j \in Key, d \in Column : j # k \/ d # c => cols'[j][d] = cols[j][d]
    BY UpdateEffect
  <2>2. QED
    BY <2>1 DEF Stored, Current
<1>5. ASSUME old.version = 0 PROVE Stored(k, c) = NULL /\ Stored(k, c)' = v
  <2>1. new = FirstVersion(v)
    BY <1>5, UpdateEffect
  <2>2. QED
    BY <1>5, <2>1 DEF Stored, Current, FirstVersion
<1>6. ASSUME old.version # 0 PROVE Stored(k, c)' = Stored(k, c)
  <2>1. new.stack = push(old.stack, v) /\ new.version = old.version
    BY <1>6, UpdateEffect
  <2>2. CASE old.version <= Len(old.stack)
    <3>1. old.version \in 1 .. Len(old.stack)
      BY <1>1, <1>6, <2>2
    <3>2. /\ Len(push(old.stack, v)) \in {Len(old.stack), Len(old.stack) + 1}
          /\ \A i \in 1 .. Len(old.stack) : push(old.stack, v)[i] = old.stack[i]
      BY <1>1, PushKeeps
    <3>3. /\ new.version <= Len(new.stack)
          /\ new.stack[new.version] = old.stack[old.version]
      BY <1>1, <2>1, <3>1, <3>2
    <3>4. QED
      BY <2>1, <2>2, <3>3 DEF Stored, Current
  <2>3. CASE ~(old.version <= Len(old.stack))
    <3>1. Len(old.stack) = VERSION_LIMIT
      BY <1>1, <1>3, <2>3 DEF Matches
    <3>2. Len(new.stack) = Len(old.stack)
      BY <1>1, <2>1, <3>1, PushKeeps
    <3>3. QED
      BY <2>1, <2>3, <3>2 DEF Stored, Current
  <2>4. QED
    BY <2>2, <2>3
<1>7. QED
  BY <1>4, <1>5, <1>6

\* The puts that update a row that is found leave the set of found rows as it is.
LEMMA UpdateFinds ==
  ASSUME TypeOK, NEW k \in Key, NEW c \in Column, NEW v \in Value,
         PutFirstRow(k, c, v) \/ PutLaterRow(k, c, v) \/ PutWalkHangs(k, c, v)
  PROVE  Found(k) /\ UpdateValues(k, c, v) /\ \A j \in Key : Found(j)' <=> Found(j)
  BY DEF PutFirstRow, PutLaterRow, PutWalkHangs, Found, Rows, TypeOK

\* The outcome of a search that gave a value, or never returned, is the same when the
\* record stays found or not and cycles stay closed.
LEMMA SearchOutcome ==
  ASSUME TypeOK, NEW j \in Key, NEW d \in Column, get(j, d) # NULL,
         Stored(j, d)' = Stored(j, d), Found(j)' <=> Found(j), dangling' = dangling,
         row_count' \in {row_count, row_count + 1},
         \A b \in Bucket : back[b] # 0 => back'[b] # 0
  PROVE  get(j, d)' = get(j, d)
<1>1. CASE HashCode[j] \in dangling \/ Found(j)
  BY <1>1 DEF get
<1>2. CASE HashCode[j] \notin dangling /\ ~Found(j)
  <2>1. ~NotFound(j)
    BY <1>2 DEF get, Stored
  <2>2. ~(row_count < 1) /\ back[HashCode[j]] # 0 /\ row_count \in Nat
    BY <1>2, <2>1 DEF NotFound, TypeOK
  <2>3. ~(row_count' < 1) /\ back'[HashCode[j]] # 0
    BY <2>2
  <2>4. ~NotFound(j)'
    BY <2>3 DEF NotFound
  <2>5. QED
    BY <1>2, <2>1, <2>4 DEF get
<1>3. QED
  BY <1>1, <1>2

\* A put in progress is invisible until its commit wherever there was a value: neither
\* the update nor the relinking of the record changes what an unlocked get returns,
\* even if the thread then hangs.
THEOREM ReadersSeeOnlyCommitted == Spec => UncommittedInvisible
<1> DEFINE Invisible == pc = "ready" /\ pc' \in {"commit", "hung"} =>
             \A k \in Key, c \in Column : get(k, c) # NULL => get(k, c)' = get(k, c)
<1>1. TableInv /\ [Next]_vars => [Invisible]_vars
  <2> SUFFICES ASSUME TableInv, Next, pc = "ready", pc' \in {"commit", "hung"},
                      NEW j \in Key, NEW d \in Column, get(j, d) # NULL
               PROVE  get(j, d)' = get(j, d)
    OBVIOUS
  <2> USE DEF TableInv
  <2>1. ASSUME NEW k \in Key, NEW c \in Column, NEW v \in Value, PutNewRow(k, c, v)
        PROVE  get(j, d)' = get(j, d)
    <3>1. /\ dangling' = dangling /\ back' = back /\ row_count' = row_count + 1
          /\ ~Found(k) /\ NotFound(k) /\ HashCode[k] \notin dangling
      BY <2>1 DEF PutNewRow, NotFound, CanPut
    <3>2. /\ Stored(k, c) = NULL
          /\ \A i \in Key : i # k => (Found(i)' <=> Found(i))
          /\ \A i \in Key, e \in Column : i # k \/ e # c => Stored(i, e)' = Stored(i, e)
      BY <2>1, NewRowStored
    <3>3. get(k, c) = NULL /\ \A e \in Column : get(k, e) = NULL
      BY <3>1 DEF get, Stored
    <3>4. j # k
      BY <3>3
    <3>5. Found(j)' <=> Found(j)
      BY <3>2, <3>4
    <3>6. Stored(j, d)' = Stored(j, d)
      BY <3>2, <3>4
    <3>7. QED
      BY <3>1, <3>5, <3>6, SearchOutcome
  <2>2. ASSUME NEW k \in Key, NEW c \in Column, NEW v \in Value,
               PutFirstRow(k, c, v) \/ PutLaterRow(k, c, v) \/ PutWalkHangs(k, c, v)
        PROVE  get(j, d)' = get(j, d)
    <3>1. Found(k) /\ UpdateValues(k, c, v) /\ \A i \in Key : Found(i)' <=> Found(i)
      BY <2>2, UpdateFinds
    <3>2. cols[k][c].version = 0 \/ cols[k][c].version # 0
      OBVIOUS
    <3>3. /\ dangling' = dangling /\ row_count' \in {row_count, row_count + 1}
          /\ \A b \in Bucket : back[b] # 0 => back'[b] # 0
      <4>1. CASE PutLaterRow(k, c, v)
        BY <4>1 DEF PutLaterRow, TypeOK
      <4>2. CASE PutFirstRow(k, c, v) \/ PutWalkHangs(k, c, v)
        BY <4>2 DEF PutFirstRow, PutWalkHangs, TypeOK
      <4>3. QED
        BY <2>2, <4>1, <4>2
    <3>4. (j = k /\ d = c) \/ Stored(j, d)' = Stored(j, d)
      BY <3>1, UpdateStored
    <3>5. CASE j = k /\ d = c
      <4>1. get(k, c) = Garbage \/ get(k, c) = Stored(k, c)
        BY <3>1 DEF get
      <4>2. QED
        BY <3>1, <3>2, <3>3, <3>5, <4>1, UpdateStored DEF get
    <3>6. CASE Stored(j, d)' = Stored(j, d)
      <4>1. Found(j)' <=> Found(j)
        BY <3>1
      <4>2. QED
        BY <3>3, <3>6, <4>1, SearchOutcome
    <3>7. QED
      BY <3>4, <3>5, <3>6
  <2>3. ASSUME NEW k \in Key, PutSearchHangs(k) \/ DeleteWalkHangs(k)
        PROVE  get(j, d)' = get(j, d)
    BY <2>3 DEF PutSearchHangs, DeleteWalkHangs, get, Stored, Current, Found, NotFound, Rows
  <2>4. ASSUME NEW k \in Key, DeleteOnlyRow(k) \/ DeleteFirstRow(k) \/ DeleteLaterRow(k)
                              \/ DeleteCrashes(k) \/ UseAfterFree(k)
        PROVE  FALSE
    BY <2>4 DEF DeleteOnlyRow, DeleteFirstRow, DeleteLaterRow, DeleteCrashes,
                UseAfterFree, CanDelete
  <2>5. ~CommitEntry /\ ~CommitDone
    BY DEF CommitEntry, CommitDone
  <2>6. QED
    BY <2>1, <2>2, <2>3, <2>4, <2>5 DEF Next, Delete
<1>2. QED
  BY <1>1, TableInvariance, PTL DEF Spec, UncommittedInvisible

-----------------------------------------------------------------------------
(* The table implements the map.                                           *)

\* What the refinement mapping of Table substitutes for the variables of the map.
View == [k \in Key |-> [c \in Column |-> get(k, c)]]
Reliable == pc \in {"ready", "commit"} /\ damaged = {} /\ SearchesEnd /\ ~Overfull

\* While the table is reliable a reader gets what is stored.
Plain == \A k \in Key, c \in Column : get(k, c) = Stored(k, c)

LEMMA ReliablePlain == TableInv /\ Reliable => Plain
  BY DEF TableInv, DanglingInv, Reliable, SearchesEnd, Plain, get

LEMMA SameView ==
  ASSUME Plain, Plain', \A j \in Key, d \in Column : Stored(j, d)' = Stored(j, d)
  PROVE  View' = View
  BY DEF View, Plain

LEMMA ViewPut ==
  ASSUME NEW k \in Key, NEW c \in Column, NEW v \in Value, Stored(k, c)' = v, Reliable, Reliable',
         Plain, Plain',
         \A j \in Key, d \in Column : j # k \/ d # c => Stored(j, d)' = Stored(j, d)
  PROVE  Map!Put(k, c, v)
<1>1. View' = [j \in Key |-> [d \in Column |->
                 IF j = k /\ d = c THEN v ELSE Stored(j, d)]]
  BY DEF View, Plain
<1>2. [View EXCEPT ![k][c] = v] = [j \in Key |-> [d \in Column |->
                 IF j = k /\ d = c THEN v ELSE Stored(j, d)]]
  BY DEF View, Plain
<1>3. QED
  BY <1>1, <1>2 DEF Map!Put, View, Reliable

\* Cutting the list of a bucket whose only row is k's deletes that row.
LEMMA ViewDelete ==
  ASSUME TypeOK, NEW k \in Key, chain[HashCode[k]] = <<k>>, Unlink(HashCode[k]),
         row_count' = row_count, Reliable, Reliable', Plain, Plain'
  PROVE  Map!Delete(k)
<1> DEFINE b == HashCode[k]
<1>1. Rows(b) = {k}
  BY DEF Rows
<1>2. chain' = [chain EXCEPT ![b] = <<>>]
  BY DEF Unlink
<1>3. Rows(b)' = {} /\ \A a \in Bucket : a # b => Rows(a)' = Rows(a)
  BY <1>2 DEF Rows, TypeOK
<1>4. \A j \in Key : j # k => /\ Found(j)' <=> Found(j)
                              /\ cols'[j] = cols[j]
  BY <1>1, <1>3 DEF Found, Unlink
<1>5. \A d \in Column : Stored(k, d)' = NULL
  BY <1>3 DEF Stored, Current, Found
<1>6. \A j \in Key, d \in Column : j # k => Stored(j, d)' = Stored(j, d)
  BY <1>4 DEF Stored, Current
<1>7. View' = [j \in Key |-> [d \in Column |-> IF j = k THEN NULL ELSE Stored(j, d)]]
  BY <1>5, <1>6 DEF View, Plain
<1>8. [View EXCEPT ![k] = [d \in Column |-> NULL]]
        = [j \in Key |-> [d \in Column |-> IF j = k THEN NULL ELSE Stored(j, d)]]
  BY DEF View, Plain
<1>9. QED
  BY <1>7, <1>8 DEF Map!Delete, View, Reliable

\* A commit shows a reader the pending value, if the stack had room for it.
LEMMA CommitStored ==
  ASSUME TableInv, TableInv', CommitEntry, ~Overfull', NEW k \in Key, NEW c \in Column,
         k = Head(trans).key, c = Head(trans).column
  PROVE  /\ Stored(k, c)' \in Value
         /\ \A j \in Key, d \in Column : j # k \/ d # c => Stored(j, d)' = Stored(j, d)
<1> DEFINE new == cols'[k][c]
<1>1. /\ Found(k) /\ cols[k][c].version = Head(trans).version
  BY DEF CommitEntry, TableInv, DataInv, HolderInv
<1>2. /\ new.version = cols[k][c].version + 1
      /\ \A j \in Key, d \in Column : j # k \/ d # c => cols'[j][d] = cols[j][d]
  BY <1>1, CommitEffect DEF TableInv
<1>3. \A j \in Key : Found(j)' <=> Found(j)
  BY DEF CommitEntry, Found, Rows
<1>4. /\ new.version \in Nat /\ cols[k][c].version \in Nat
      /\ new.stack \in Seq(Value) /\ Len(new.stack) \in Nat
  <2>1. cols[k][c] \in VersionedColumn /\ new \in VersionedColumn
    BY DEF TableInv, TypeOK
  <2>2. QED
    BY <2>1 DEF VersionedColumn
<1>5. new.version <= VERSION_LIMIT /\ new.version \in Nat \ {0}
  BY <1>2, <1>4 DEF Overfull
<1>6. \E n \in {0, 1} : /\ new.version + n <= VERSION_LIMIT => Len(new.stack) = new.version + n
                        /\ new.version + n > VERSION_LIMIT => Len(new.stack) = VERSION_LIMIT
  <2>1. VersionMatchesStack'
    BY DEF TableInv, DataInv
  <2>2. QED
    BY <2>1 DEF VersionMatchesStack
<1>7. new.version <= Len(new.stack)
  BY <1>5, <1>6
<1>8. Stored(k, c)' = new.stack[new.version] /\ new.stack[new.version] \in Value
  BY <1>1, <1>3, <1>4, <1>5, <1>7 DEF Stored, Current
<1>9. \A j \in Key, d \in Column : j # k \/ d # c => Stored(j, d)' = Stored(j, d)
  BY <1>2, <1>3 DEF Stored, Current
<1>10. QED
  BY <1>8, <1>9

LEMMA StepImplementsMap ==
  TableInv /\ TableInv' /\ [Next]_vars => [Map!Next]_Map!kvars
<1> SUFFICES ASSUME TableInv, TableInv', Next, Reliable, Reliable'
             PROVE  \/ \E k \in Key, c \in Column, v \in Value : Map!Put(k, c, v)
                    \/ \E k \in Key : Map!Delete(k)
                    \/ View' = View
  <2>1. UNCHANGED vars => View' = View /\ Reliable' = Reliable
    BY DEF vars, View, Reliable, get, Stored, Current, Found, NotFound, Rows, SearchesEnd,
           Overfull
  <2>2. (Reliable /\ ~Reliable') => Map!Fail
    BY DEF Map!Fail, Reliable
  <2>3. QED
    BY <2>1, <2>2 DEF Map!Next, Map!kvars, View, Reliable
<1>0. Plain /\ Plain'
  BY ReliablePlain, PTL
<1>1. /\ TypeOK /\ ShapeInv /\ DataInv
      /\ pc \in {"ready", "commit"} /\ pc' \in {"ready", "commit"}
      /\ damaged = {} /\ damaged' = {} /\ ~Overfull /\ ~Overfull'
  BY DEF TableInv, Reliable
<1>2. ASSUME NEW k \in Key, NEW c \in Column, NEW v \in Value, PutNewRow(k, c, v)
      PROVE  Map!Put(k, c, v)
  BY <1>0, <1>1, <1>2, NewRowStored, ViewPut
<1>3. ASSUME NEW k \in Key, NEW c \in Column, NEW v \in Value,
             PutFirstRow(k, c, v) \/ PutLaterRow(k, c, v)
      PROVE  Map!Put(k, c, v) \/ View' = View
  <2>1. /\ Found(k) /\ UpdateValues(k, c, v) /\ \A i \in Key : Found(i)' <=> Found(i)
        /\ pc = "ready"
    BY <1>1, <1>3, UpdateFinds DEF PutFirstRow, PutLaterRow, CanPut
  <2>2. \A j \in Key, d \in Column : j # k \/ d # c => Stored(j, d)' = Stored(j, d)
    BY <1>1, <2>1, UpdateStored
  <2>3. CASE cols[k][c].version = 0
    <3>1. Stored(k, c)' = v
      BY <1>1, <2>1, <2>3, UpdateStored
    <3>2. QED
      BY <1>0, <2>2, <3>1, ViewPut
  <2>4. CASE cols[k][c].version # 0
    <3>1. Stored(k, c)' = Stored(k, c)
      BY <1>1, <2>1, <2>4, UpdateStored
    <3>2. QED
      BY <1>0, <2>2, <3>1, SameView
  <2>5. QED
    BY <2>3, <2>4
<1>4. ASSUME NEW k \in Key, Delete(k) PROVE Map!Delete(k)
  <2>1. DeleteOnlyRow(k)
    BY <1>1, <1>4 DEF Delete, DeleteFirstRow, DeleteLaterRow, DeleteWalkHangs, DeleteCrashes
  <2>2. chain[HashCode[k]] = <<k>>
    BY <1>1, <2>1 DEF DeleteOnlyRow
  <2>3. QED
    BY <1>0, <1>1, <2>1, <2>2, ViewDelete DEF DeleteOnlyRow
<1>5. CASE CommitEntry
  <2>1. Head(trans).key \in Key /\ Head(trans).column \in Column
    BY <1>1, <1>5, CommitEffect
  <2>2. PICK k \in Key, c \in Column : k = Head(trans).key /\ c = Head(trans).column
    BY <2>1
  <2>3. PICK v \in Value : Stored(k, c)' = v
    BY <1>1, <1>5, <2>2, CommitStored
  <2>4. \A j \in Key, d \in Column : j # k \/ d # c => Stored(j, d)' = Stored(j, d)
    BY <1>1, <1>5, <2>2, CommitStored
  <2>5. Map!Put(k, c, v)
    BY <1>0, <2>3, <2>4, ViewPut
  <2>6. QED
    BY <2>5
<1>6. CASE CommitDone
  BY <1>6 DEF CommitDone, View, get, Stored, Current, Found, NotFound, Rows
<1>7. ~\E k \in Key : \/ PutSearchHangs(k) \/ UseAfterFree(k)
                      \/ \E c \in Column, v \in Value : PutWalkHangs(k, c, v)
  BY <1>1 DEF PutSearchHangs, UseAfterFree, PutWalkHangs
<1>8. QED
  BY <1>2, <1>3, <1>4, <1>5, <1>6, <1>7 DEF Next

\* The table implements the map KeyValueStore, for any hash function and any number of
\* versions: every put, delete and commit maps to one operation of the map or to none,
\* until a delete damages a bucket, a thread stops or a stack has been outrun.
THEOREM TableImplementsMap == Spec => ImplementsMap
<1>1. Init => Map!Init
  <2> SUFFICES ASSUME Init PROVE Map!Init
    OBVIOUS
  <2>1. \A k \in Key, c \in Column : cols[k][c].version = 0 /\ get(k, c) = NULL
    BY NoColumnsType DEF Init, get, Stored, NotFound, Found
  <2>2. ~Overfull /\ SearchesEnd
    BY <2>1 DEF Init, Overfull, SearchesEnd, NotFound, Found
  <2>3. QED
    BY <2>1, <2>2 DEF Init, Map!Init
<1>2. QED
  BY <1>1, StepImplementsMap, TableInvariance, PTL DEF Spec, ImplementsMap, Map!Spec

-----------------------------------------------------------------------------
(* Export and import.                                                      *)

\* The function that Reimported defines by recursion, on the first n lines.
Columns(lines, n, f) ==
  f = [i \in 0 .. n |-> IF i = 0 THEN NoColumn ELSE AfterPut(f[i - 1], lines[i])]

\* There is one, for any number of lines.
LEMMA ColumnsExist == ASSUME NEW lines, NEW m \in Nat PROVE \E f : Columns(lines, m, f)
<1> DEFINE T == {n \in Nat : \E f : Columns(lines, n, f)}
<1>1. 0 \in T
  <2> DEFINE f == [i \in 0 .. 0 |-> NoColumn]
  <2>1. f = [i \in 0 .. 0 |-> IF i = 0 THEN NoColumn ELSE AfterPut(f[i - 1], lines[i])]
    OBVIOUS
  <2> HIDE DEF f
  <2>2. Columns(lines, 0, f)
    BY <2>1 DEF Columns
  <2>3. QED
    BY <2>2
<1>2. ASSUME NEW n \in Nat, n \in T PROVE n + 1 \in T
  <2>1. PICK f : Columns(lines, n, f)
    BY <1>2
  <2> DEFINE e(i) == IF i <= n THEN f[i] ELSE AfterPut(f[n], lines[i])
             g == [i \in 0 .. n + 1 |-> e(i)]
  <2>2. ASSUME NEW i \in 0 .. n + 1
        PROVE  e(i) = IF i = 0 THEN NoColumn ELSE AfterPut(g[i - 1], lines[i])
    <3>1. CASE i <= n
      <4>1. i \in 0 .. n /\ e(i) = f[i]
        BY <3>1
      <4>2. f[i] = IF i = 0 THEN NoColumn ELSE AfterPut(f[i - 1], lines[i])
        BY <2>1, <4>1 DEF Columns
      <4>3. i # 0 => i - 1 \in 0 .. n + 1 /\ i - 1 <= n
        BY <3>1
      <4>4. i # 0 => g[i - 1] = f[i - 1]
        BY <4>3
      <4> HIDE DEF e, g
      <4>5. QED
        BY <4>1, <4>2, <4>4
    <3>2. CASE i = n + 1
      <4>1. ~(i <= n) /\ i # 0 /\ i - 1 = n /\ n \in 0 .. n + 1 /\ n <= n
        BY <3>2
      <4>2. e(i) = AfterPut(f[n], lines[i]) /\ g[n] = f[n]
        BY <4>1
      <4> HIDE DEF e, g
      <4>3. QED
        BY <4>1, <4>2
    <3>3. QED
      BY <3>1, <3>2
  <2>3. g = [i \in 0 .. n + 1 |-> IF i = 0 THEN NoColumn ELSE AfterPut(g[i - 1], lines[i])]
    <3> HIDE DEF e
    <3>1. g = [i \in 0 .. n + 1 |-> e(i)]
      OBVIOUS
    <3> HIDE DEF g
    <3>2. QED
      BY <2>2, <3>1
  <2> HIDE DEF g
  <2>4. Columns(lines, n + 1, g)
    BY <2>3 DEF Columns
  <2>5. QED
    BY <2>4
<1>3. Nat \subseteq T
  <2> HIDE DEF T
  <2>1. QED
    BY <1>1, <1>2, NatSetInduction
<1>4. QED
  BY <1>3

\* So Reimported is its last value.
LEMMA ReimportedIsLast ==
  ASSUME NEW k, NEW c, NEW last \in BOOLEAN, NEW lines, lines = ImportedLines(k, c, last),
         Len(lines) \in Nat
  PROVE  \E f : Columns(lines, Len(lines), f) /\ Reimported(k, c, last) = f[Len(lines)]
<1> DEFINE column[n \in 0 .. Len(lines)] ==
             IF n = 0 THEN NoColumn ELSE AfterPut(column[n - 1], lines[n])
<1>1. Reimported(k, c, last) = column[Len(lines)]
  BY DEF Reimported
<1>2. column = CHOOSE h : h = [n \in 0 .. Len(lines) |->
                                 IF n = 0 THEN NoColumn ELSE AfterPut(h[n - 1], lines[n])]
  OBVIOUS
<1>3. column = CHOOSE h : Columns(lines, Len(lines), h)
  BY <1>2 DEF Columns
<1> HIDE DEF column
<1>4. Columns(lines, Len(lines), column)
  BY <1>3, ColumnsExist
<1>5. QED
  BY <1>1, <1>4

\* As long as the stack has room, line by line the version is the number of lines read
\* and the value on the top is that of the last one.
LEMMA ImportCounts ==
  ASSUME NEW n \in Nat, n <= VERSION_LIMIT, NEW lines, \A i \in 1 .. n : lines[i] \in Value,
         NEW m \in Nat, n <= m, NEW f, Columns(lines, m, f), n # 0
  PROVE  /\ f[n].version = n /\ f[n].stack[n] = lines[n]
         /\ f[n].stack \in Seq(Value) /\ Len(f[n].stack) = n
<1> DEFINE Top(i) == /\ f[i].version = i
                     /\ f[i].stack \in Seq(Value) /\ Len(f[i].stack) = i
                     /\ f[i].stack[i] = lines[i]
           T == {i \in Nat : i \in 1 .. n => Top(i)}
<1>1. 0 \in T
  OBVIOUS
<1>2. ASSUME NEW i \in Nat, i \in T PROVE i + 1 \in T
  <2> SUFFICES ASSUME i + 1 \in 1 .. n PROVE Top(i + 1)
    OBVIOUS
  <2>1. /\ i + 1 \in 0 .. m /\ i + 1 # 0 /\ (i + 1) - 1 = i /\ 0 \in 0 .. m
        /\ lines[i + 1] \in Value /\ i # VERSION_LIMIT
    OBVIOUS
  <2>2. f[i + 1] = AfterPut(f[i], lines[i + 1])
    BY <2>1 DEF Columns
  <2>3. CASE i = 0
    <3>1. f[0].version = 0
      BY <2>1, <2>3 DEF Columns, NoColumn
    <3>2. f[1] = FirstVersion(lines[1])
      BY <2>2, <2>3, <3>1 DEF AfterPut
    <3>3. QED
      BY <2>1, <2>3, <3>2 DEF FirstVersion
  <2>4. CASE i # 0
    <3>1. i \in 1 .. n
      BY <2>1, <2>4
    <3>2. Top(i)
      BY <1>2, <3>1
    <3>3. f[i + 1] = [stack |-> push(f[i].stack, lines[i + 1]), version |-> i + 1]
      BY <2>2, <2>4, <3>2 DEF AfterPut
    <3>4. push(f[i].stack, lines[i + 1]) = Append(f[i].stack, lines[i + 1])
      BY <2>1, <3>2 DEF push
    <3>5. PICK s \in Seq(Value), x \in Value : s = f[i].stack /\ x = lines[i + 1]
      BY <2>1, <3>2
    <3>6. Append(s, x) \in Seq(Value) /\ Len(Append(s, x)) = i + 1 /\ Append(s, x)[i + 1] = x
      BY <3>2, <3>5
    <3>7. QED
      BY <3>3, <3>4, <3>5, <3>6
  <2>5. QED
    BY <2>3, <2>4
<1>3. Nat \subseteq T
  <2> HIDE DEF T
  <2>1. QED
    BY <1>1, <1>2, NatSetInduction
<1>4. QED
  BY <1>3

\* The row of a bucket of its own heads it, so the export writes it.
LEMMA UnsharedExported ==
  ASSUME TypeOK, ShapeInv, NEW k \in Key, Found(k), ~Shared(HashCode[k])
  PROVE  Exported(k)
<1>1. chain[HashCode[k]] # <<>>
  BY DEF Found, Rows
<1>2. chain[HashCode[k]] = <<k>>
  BY <1>1, TwoRecordsShare
<1>3. QED
  BY <1>2 DEF Exported

\* Put back without its last line executed twice, a column has its version and value.
LEMMA LinesRestored ==
  ASSUME NEW n \in 1 .. VERSION_LIMIT, NEW s \in Seq(Value), n <= Len(s),
         NEW lines, lines = [i \in 1 .. n |-> s[i]],
         NEW f, Columns(lines, Len(lines), f)
  PROVE  f[Len(lines)].version = n /\ Current(f[Len(lines)]) = s[n]
<1>1. /\ n \in Nat /\ n # 0 /\ n <= VERSION_LIMIT /\ Len(lines) = n
      /\ \A i \in 1 .. n : lines[i] \in Value /\ lines[i] = s[i]
  OBVIOUS
<1>2. PICK m \in Nat : m = n /\ m # 0 /\ m <= VERSION_LIMIT /\ m <= m
  BY <1>1
<1>3. Columns(lines, m, f) /\ \A i \in 1 .. m : lines[i] \in Value
  BY <1>1, <1>2
<1>4. /\ f[m].version = m /\ f[m].stack[m] = lines[m]
      /\ f[m].stack \in Seq(Value) /\ Len(f[m].stack) = m
  BY <1>2, <1>3, ImportCounts
<1>5. QED
  BY <1>1, <1>2, <1>4 DEF Current

\* With its last line executed twice it is one version ahead; the value is the same if
\* the stack has room for it and unreachable if not.
LEMMA LinesRestoredAhead ==
  ASSUME NEW n \in 1 .. VERSION_LIMIT, NEW s \in Seq(Value), n <= Len(s),
         NEW lines, Len(lines) = n + 1, \A i \in 1 .. n : lines[i] = s[i],
         lines[n + 1] = s[n],
         NEW f, Columns(lines, Len(lines), f)
  PROVE  /\ f[Len(lines)].version = n + 1
         /\ Current(f[Len(lines)]) = IF n + 1 <= VERSION_LIMIT THEN s[n] ELSE Garbage
<1>1. /\ n \in Nat /\ n # 0 /\ n <= VERSION_LIMIT /\ n \in 1 .. n
      /\ \A i \in 1 .. n : s[i] \in Value
  OBVIOUS
<1>2. PICK m \in Nat : m = n + 1 /\ m # 0 /\ m <= m /\ n <= m
  BY <1>1
<1>3. Columns(lines, m, f) /\ Len(lines) = m
  BY <1>2
<1>4. \A i \in 1 .. n : lines[i] \in Value
  BY <1>1
<1>5. CASE m <= VERSION_LIMIT
  <2>1. \A i \in 1 .. m : lines[i] \in Value
    <3>1. \A i \in 1 .. m : i \in 1 .. n \/ i = m
      BY <1>1, <1>2
    <3>2. QED
      BY <1>1, <1>2, <1>4, <3>1
  <2>2. /\ f[m].version = m /\ f[m].stack[m] = lines[m]
        /\ f[m].stack \in Seq(Value) /\ Len(f[m].stack) = m
    BY <1>2, <1>3, <1>5, <2>1, ImportCounts
  <2>3. QED
    BY <1>2, <1>3, <1>5, <2>2 DEF Current
<1>6. CASE ~(m <= VERSION_LIMIT)
  <2>1. n = VERSION_LIMIT
    BY <1>1, <1>2, <1>6
  <2>2. f[n].version = n /\ f[n].stack \in Seq(Value) /\ Len(f[n].stack) = n
    BY <1>1, <1>2, <1>3, <1>4, ImportCounts
  <2>3. f[m] = AfterPut(f[n], lines[m])
    <3>1. m \in 0 .. m /\ m # 0 /\ m - 1 = n
      BY <1>1, <1>2
    <3>2. QED
      BY <1>3, <3>1 DEF Columns
  <2>4. f[m] = [stack |-> f[n].stack, version |-> n + 1]
    BY <1>1, <2>1, <2>2, <2>3 DEF AfterPut, push
  <2>5. f[m].version = n + 1 /\ ~(n + 1 <= Len(f[m].stack)) /\ n + 1 # 0
    BY <1>1, <2>2, <2>4
  <2>6. Current(f[m]) = Garbage
    BY <2>5 DEF Current
  <2>7. QED
    BY <1>2, <1>3, <1>6, <2>5, <2>6
<1>7. QED
  BY <1>5, <1>6

\* Such a row comes back with its version, or one more, and the value a reader gets.
LEMMA UnsharedRestored ==
  ASSUME TableInv, NEW k \in Key, NEW c \in Column, NEW last \in BOOLEAN,
         Found(k), ~Shared(HashCode[k]), cols[k][c].version \in 1 .. VERSION_LIMIT
  PROVE  LET col == Reimported(k, c, last)
         IN  /\ Exported(k)
             /\ col.version = cols[k][c].version + (IF last THEN 1 ELSE 0)
             /\ Current(col) = IF col.version <= VERSION_LIMIT THEN get(k, c) ELSE Garbage
<1>1. Exported(k)
  BY UnsharedExported DEF TableInv
<1>2. PICK n \in Nat, s \in Seq(Value) : n = cols[k][c].version /\ s = cols[k][c].stack
  BY DEF TableInv, TypeOK, VersionedColumn
<1>3. n \in 1 .. VERSION_LIMIT /\ n # 0 /\ n <= VERSION_LIMIT /\ n \in 1 .. n
  BY <1>2
<1>4. n <= Len(s)
  <2>1. ColumnsMatch
    BY MatchesColumns DEF TableInv, DataInv
  <2>2. Matches(cols[k][c], n) \/ Matches(cols[k][c], n + 1)
    BY <1>2, <2>1 DEF ColumnsMatch
  <2>3. Len(s) = n \/ Len(s) = n + 1 \/ Len(s) = VERSION_LIMIT
    BY <1>2, <2>2 DEF Matches
  <2>4. QED
    BY <1>3, <2>3
<1>5. ExportedLines(k, c) = [i \in 1 .. n |-> s[i]]
  <2>1. ExportedLines(k, c) = [i \in 1 .. n |-> IF i <= Len(s) THEN s[i] ELSE Garbage]
    BY <1>2 DEF ExportedLines
  <2>2. \A i \in 1 .. n : i <= Len(s)
    BY <1>4
  <2>3. QED
    BY <2>1, <2>2
<1>6. get(k, c) = s[n]
  <2>1. HashCode[k] \notin dangling
    BY DEF TableInv, HarmNeedsCollision
  <2>2. QED
    BY <1>2, <1>3, <1>4, <2>1 DEF get, Stored, Current
<1>7. PICK lines : lines = ImportedLines(k, c, last)
  OBVIOUS
<1>8. lines = IF last THEN Append([i \in 1 .. n |-> s[i]], s[n]) ELSE [i \in 1 .. n |-> s[i]]
  <2>1. /\ ExportedLines(k, c) # <<>> /\ Len(ExportedLines(k, c)) = n
        /\ ExportedLines(k, c)[n] = s[n]
    BY <1>3, <1>5
  <2>2. QED
    BY <1>5, <1>7, <2>1 DEF ImportedLines
<1>9. Len(lines) \in Nat
  BY <1>3, <1>4, <1>8
<1>10. PICK f : Columns(lines, Len(lines), f) /\ Reimported(k, c, last) = f[Len(lines)]
  BY <1>7, <1>9, ReimportedIsLast
<1>11. n \in 1 .. VERSION_LIMIT
  BY <1>3
<1>12. CASE ~last
  <2>1. lines = [i \in 1 .. n |-> s[i]]
    BY <1>8, <1>12
  <2>2. f[Len(lines)].version = n /\ Current(f[Len(lines)]) = s[n]
    BY <1>4, <1>10, <1>11, <2>1, LinesRestored
  <2>3. QED
    BY <1>1, <1>2, <1>3, <1>6, <1>10, <1>12, <2>2
<1>13. CASE last
  <2>1. /\ Len(lines) = n + 1 /\ \A i \in 1 .. n : lines[i] = s[i]
        /\ lines[n + 1] = s[n]
    <3> DEFINE exported == [i \in 1 .. n |-> s[i]]
    <3>1. exported \in Seq(Value) /\ Len(exported) = n /\ \A i \in 1 .. n : exported[i] = s[i]
      BY <1>4
    <3>2. lines = Append(exported, s[n])
      BY <1>8, <1>13
    <3> HIDE DEF exported
    <3>3. QED
      BY <1>3, <3>1, <3>2
  <2>2. /\ f[Len(lines)].version = n + 1
        /\ Current(f[Len(lines)]) = IF n + 1 <= VERSION_LIMIT THEN s[n] ELSE Garbage
    BY <1>4, <1>10, <1>11, <2>1, LinesRestoredAhead
  <2>3. QED
    BY <1>1, <1>2, <1>3, <1>6, <1>10, <1>13, <2>2
<1>14. QED
  BY <1>12, <1>13

\* Exporting the table at any moment and importing it into an empty one keeps the value
\* and the version of each column of a row that shares its bucket with no key, for any
\* capacity of the stacks and as many versions as fit; the column whose line the file
\* ends with is one version ahead, and past the top of its stack if that was full.
THEOREM RestartKeepsRows == Spec => []RestartKeepsUnsharedRows
<1>1. TableInv => RestartKeepsUnsharedRows
  BY UnsharedRestored DEF RestartKeepsUnsharedRows
<1>2. QED
  BY <1>1, TableInvariance, PTL
=============================================================================
