-------------------------------- MODULE Table --------------------------------
(***************************************************************************)
(* One table of the database: the hash buckets with their linked records   *)
(* (hash.h), the version stack of each column (stack_utils.h), and the     *)
(* transaction holder with commit (transaction_utils.h), driven by the     *)
(* put and delete commands (command_utils.h).                              *)
(*                                                                         *)
(* The commands run on a pool thread under the mutex, one at a time; the   *)
(* readers (get, on the UI thread) take no lock, so a put is split where   *)
(* its effect on them changes: first the update and the relinking, then    *)
(* the commit that moves the version number.                               *)
(*                                                                         *)
(* A list only grows at its tail and a cycle is only closed by its last    *)
(* record, so a bucket is a sequence of keys and the position back of the  *)
(* record its last one points to (0 for NULL).  Linked records have        *)
(* different keys, so a key names its record.                              *)
(***************************************************************************)
EXTENDS Naturals, Sequences, FiniteSets

CONSTANTS
  Key, Column, Value, Bucket,
  HashCode,       \* the bucket of a key: sumOfChars(key) % max_rows
  VERSION_LIMIT,  \* the capacity of a column's stack (100 in the code)
  MaxRowCount,    \* bound of the model: puts stop at this row_count
  NULL, Garbage,  \* no value; what lies past the top of a stack or in a freed record
  Hangs           \* the outcome of a search that never returns

ASSUME HashAssumption == HashCode \in [Key -> Bucket]
ASSUME LimitAssumption == VERSION_LIMIT \in Nat \ {0} /\ MaxRowCount \in Nat
ASSUME ValueAssumption ==
  /\ Value \cap {NULL, Garbage, Hangs} = {}
  /\ NULL # Garbage /\ NULL # Hangs /\ Garbage # Hangs

VARIABLES
  chain, back,    \* my_table->rows and the next pointers
  dangling,       \* buckets whose first record was freed and is still linked
  cols,           \* the columns of each linked record: stack and version_number
  row_count,      \* my_table->row_count
  trans,          \* trans_holder.trans
  pc,             \* the pool thread: ready, commit, or stopped for good
  damaged         \* history: buckets where a delete did not remove exactly its row

vars == <<chain, back, dangling, cols, row_count, trans, pc, damaged>>

NoColumn == [stack |-> <<>>, version |-> 0]
NoColumns == [c \in Column |-> NoColumn]

Rows(b) == {chain[b][i] : i \in DOMAIN chain[b]}

Init ==
  /\ chain = [b \in Bucket |-> <<>>]
  /\ back = [b \in Bucket |-> 0]
  /\ dangling = {}
  /\ cols = [k \in Key |-> NoColumns]
  /\ row_count = 0
  /\ trans = <<>>
  /\ pc = "ready"
  /\ damaged = {}

-----------------------------------------------------------------------------
(* Lookup.                                                                 *)

\* searchInTable finds the record.
Found(k) == row_count >= 1 /\ k \in Rows(HashCode[k])

\* Mutants, here and below: wrong variants of the definition they precede, which no
\* specification uses; the properties are tested against them.
\* Mutant of NotFound: only the first record of the list is looked at.
NotFoundFirst(k) == row_count < 1 \/ k # Head(chain[HashCode[k]] \o <<NULL>>)

\* searchInTable gives up on an empty table or at the end of the list; on a
\* cyclic list it never does.
NotFound(k) == ~Found(k) /\ (row_count < 1 \/ back[HashCode[k]] = 0)

\* The value under the version number of a column.
Current(col) ==
  IF col.version = 0 THEN NULL
  ELSE IF col.version <= Len(col.stack) THEN col.stack[col.version]
  ELSE Garbage

\* What the linked record of a key holds in a column.
Stored(k, c) == IF Found(k) THEN Current(cols[k][c]) ELSE NULL

\* get of one column.  It compares the key of each record on its way: a search that
\* starts at a freed record reads freed memory, one that enters a cycle without
\* finding the key never returns.
get(k, c) ==
  IF HashCode[k] \in dangling THEN Garbage
  ELSE IF Found(k) \/ NotFound(k) THEN Stored(k, c)
  ELSE Hangs

-----------------------------------------------------------------------------
(* put: insert_or_update_into_table, then commit.                          *)

\* Mutants of push: no limit; and the top is overwritten.
pushUnbounded(stack, v) == Append(stack, v)
pushOver(stack, v) == [stack EXCEPT ![Len(stack)] = v]

push(stack, v) == IF Len(stack) = VERSION_LIMIT THEN stack ELSE Append(stack, v)

\* Mutant of FirstVersion: the -1 of createStack is left.
FirstVersionUnset(v) == [stack |-> <<v>>, version |-> 0 - 1]

FirstVersion(v) == [stack |-> <<v>>, version |-> 1]

\* Mutant of UpdateValues: the transaction records the version to come.
UpdateValuesAhead(k, c, v) ==
  IF cols[k][c].version = 0
  THEN /\ cols' = [cols EXCEPT ![k][c] = FirstVersion(v)]
       /\ UNCHANGED trans
  ELSE /\ cols' = [cols EXCEPT ![k][c].stack = push(@, v)]
       /\ trans' = Append(trans, [key |-> k, column |-> c, version |-> cols[k][c].version + 1])

\* update_values_into_record: a new version of an existing column is pushed
\* and left to commit, a new column is visible at once.
UpdateValues(k, c, v) ==
  IF cols[k][c].version = 0
  THEN /\ cols' = [cols EXCEPT ![k][c] = FirstVersion(v)]
       /\ UNCHANGED trans
  ELSE /\ cols' = [cols EXCEPT ![k][c].stack = push(@, v)]
       /\ trans' = Append(trans, [key |-> k, column |-> c, version |-> cols[k][c].version])

CanPut(k) == pc = "ready" /\ row_count < MaxRowCount /\ HashCode[k] \notin dangling

\* Mutant of PutNewRow: the list is replaced.
PutNewRowAlone(k, c, v) ==
  /\ CanPut(k) /\ NotFound(k)
  /\ cols' = [cols EXCEPT ![k] = [NoColumns EXCEPT ![c] = FirstVersion(v)]]
  /\ chain' = [chain EXCEPT ![HashCode[k]] = <<k>>]
  /\ row_count' = row_count + 1
  /\ pc' = "commit"
  /\ UNCHANGED <<back, dangling, trans, damaged>>

\* A new record goes to the end of its list.
PutNewRow(k, c, v) ==
  /\ CanPut(k) /\ NotFound(k)
  /\ cols' = [cols EXCEPT ![k] = [NoColumns EXCEPT ![c] = FirstVersion(v)]]
  /\ chain' = [chain EXCEPT ![HashCode[k]] = Append(@, k)]
  /\ row_count' = row_count + 1
  /\ pc' = "commit"
  /\ UNCHANGED <<back, dangling, trans, damaged>>

\* The record heads its list: linking it again changes nothing but row_count.
PutFirstRow(k, c, v) ==
  /\ CanPut(k) /\ Found(k) /\ chain[HashCode[k]][1] = k
  /\ UpdateValues(k, c, v)
  /\ row_count' = row_count + 1
  /\ pc' = "commit"
  /\ UNCHANGED <<chain, back, dangling, damaged>>

\* The record is further down: the tail of the list is made to point to it.
PutLaterRow(k, c, v) ==
  LET b == HashCode[k] IN
  /\ CanPut(k) /\ Found(k) /\ chain[b][1] # k
  /\ back[b] = 0
  /\ UpdateValues(k, c, v)
  /\ back' = [back EXCEPT ![b] = CHOOSE i \in DOMAIN chain[b] : chain[b][i] = k]
  /\ row_count' = row_count + 1
  /\ pc' = "commit"
  /\ UNCHANGED <<chain, dangling, damaged>>

\* The walk to the tail of a cyclic list does not end; the update was made.
PutWalkHangs(k, c, v) ==
  LET b == HashCode[k] IN
  /\ CanPut(k) /\ Found(k) /\ chain[b][1] # k
  /\ back[b] # 0
  /\ UpdateValues(k, c, v)
  /\ pc' = "hung"
  /\ UNCHANGED <<chain, back, dangling, row_count, damaged>>

\* The search for a key a cyclic list does not hold does not end either.
PutSearchHangs(k) ==
  /\ CanPut(k) /\ ~Found(k) /\ ~NotFound(k)
  /\ pc' = "hung"
  /\ UNCHANGED <<chain, back, dangling, cols, row_count, trans, damaged>>

\* commit, one entry of the holder.  On a conflict the holder is reset; each
\* entry modifies one column, so revert_commit has nothing to take back.
CommitEntry ==
  /\ pc = "commit" /\ trans # <<>>
  /\ LET t == Head(trans) IN
     IF ~Found(t.key)
     THEN trans' = Tail(trans) /\ UNCHANGED cols
     ELSE IF cols[t.key][t.column].version = t.version
     THEN /\ cols' = [cols EXCEPT ![t.key][t.column].version = @ + 1]
          /\ trans' = Tail(trans)
     ELSE trans' = <<>> /\ UNCHANGED cols
  /\ UNCHANGED <<chain, back, dangling, row_count, pc, damaged>>

CommitDone ==
  /\ pc = "commit" /\ trans = <<>>
  /\ pc' = "ready"
  /\ UNCHANGED <<chain, back, dangling, cols, row_count, trans, damaged>>

-----------------------------------------------------------------------------
(* delete: deleteInTable.  It compares the key with the first record only, *)
(* and row_count stays.                                                    *)

Unlink(b) ==
  /\ chain' = [chain EXCEPT ![b] = <<>>]
  /\ back' = [back EXCEPT ![b] = 0]
  /\ cols' = [j \in Key |-> IF j \in Rows(b) THEN NoColumns ELSE cols[j]]

CanDelete(k) == pc = "ready" /\ HashCode[k] \notin dangling

\* One record in the bucket: it is removed, whatever its key.
DeleteOnlyRow(k) ==
  /\ CanDelete(k) /\ Len(chain[HashCode[k]]) = 1
  /\ Unlink(HashCode[k])
  /\ damaged' = damaged \cup {b \in {HashCode[k]} : chain[b] # <<k>>}
  /\ UNCHANGED <<dangling, row_count, trans, pc>>

\* Mutant of DeleteFirstRow: an only record is freed and left linked, too.
DeleteFirstRowAlways(k) ==
  LET b == HashCode[k] IN
  /\ CanDelete(k) /\ Len(chain[b]) > 0 /\ chain[b][1] = k
  /\ dangling' = dangling \cup {b}
  /\ damaged' = damaged \cup {b}
  /\ UNCHANGED <<chain, back, cols, row_count, trans, pc>>

\* The key heads a longer list: the record is freed and stays linked.
DeleteFirstRow(k) ==
  LET b == HashCode[k] IN
  /\ CanDelete(k) /\ Len(chain[b]) > 1 /\ chain[b][1] = k
  /\ dangling' = dangling \cup {b}
  /\ damaged' = damaged \cup {b}
  /\ UNCHANGED <<chain, back, cols, row_count, trans, pc>>

\* The key does not head a longer list: the whole list is dropped.
DeleteLaterRow(k) ==
  LET b == HashCode[k] IN
  /\ CanDelete(k) /\ Len(chain[b]) > 1 /\ chain[b][1] # k
  /\ back[b] = 0
  /\ Unlink(b)
  /\ damaged' = damaged \cup {b}
  /\ UNCHANGED <<dangling, row_count, trans, pc>>

DeleteWalkHangs(k) ==
  LET b == HashCode[k] IN
  /\ CanDelete(k) /\ Len(chain[b]) > 1 /\ chain[b][1] # k
  /\ back[b] # 0
  /\ pc' = "hung"
  /\ UNCHANGED <<chain, back, dangling, cols, row_count, trans, damaged>>

\* An empty bucket: item->next is read through NULL.
DeleteCrashes(k) ==
  /\ CanDelete(k) /\ chain[HashCode[k]] = <<>>
  /\ pc' = "crashed"
  /\ UNCHANGED <<chain, back, dangling, cols, row_count, trans, damaged>>

\* Any command on a bucket whose first record was freed reads freed memory:
\* no outcome is defined and the model stops.
UseAfterFree(k) ==
  /\ pc = "ready" /\ HashCode[k] \in dangling
  /\ pc' = "crashed"
  /\ UNCHANGED <<chain, back, dangling, cols, row_count, trans, damaged>>

Delete(k) ==
  \/ DeleteOnlyRow(k) \/ DeleteFirstRow(k) \/ DeleteLaterRow(k)
  \/ DeleteWalkHangs(k) \/ DeleteCrashes(k)

-----------------------------------------------------------------------------
(* export and import: what a restart makes of the table.                   *)

\* write_records_to_file looks at the first record of each bucket only.
Exported(k) == LET b == HashCode[k] IN chain[b] # <<>> /\ Head(chain[b]) = k

\* Mutant of ExportedLines: the last version is left out.
ExportedLinesButLast(k, c) ==
  [i \in 1 .. cols[k][c].version - 1 |->
     IF i <= Len(cols[k][c].stack) THEN cols[k][c].stack[i] ELSE Garbage]

\* One put per version, up to the version number.
ExportedLines(k, c) ==
  [i \in 1 .. cols[k][c].version |->
     IF i <= Len(cols[k][c].stack) THEN cols[k][c].stack[i] ELSE Garbage]

\* A put with its commit, on a column of a row that is alone in its bucket.
AfterPut(col, v) ==
  IF col.version = 0 THEN FirstVersion(v)
  ELSE [stack |-> push(col.stack, v), version |-> col.version + 1]

\* The loop of import_from_file tests feof before it reads, so the last line of the file
\* is executed twice.  Whose line that is depends on the order of the tables, buckets
\* and columns, which the model leaves open.
ImportedLines(k, c, last) ==
  LET lines == ExportedLines(k, c)
  IN  IF last /\ lines # <<>> THEN Append(lines, lines[Len(lines)]) ELSE lines

\* import_from_file puts the lines into an empty table.
Reimported(k, c, last) ==
  LET lines == ImportedLines(k, c, last)
      column[n \in 0 .. Len(lines)] ==
        IF n = 0 THEN NoColumn ELSE AfterPut(column[n - 1], lines[n])
  IN  column[Len(lines)]

-----------------------------------------------------------------------------

Next ==
  \/ \E k \in Key, c \in Column, v \in Value :
       \/ PutNewRow(k, c, v) \/ PutFirstRow(k, c, v)
       \/ PutLaterRow(k, c, v) \/ PutWalkHangs(k, c, v)
  \/ \E k \in Key : PutSearchHangs(k) \/ Delete(k) \/ UseAfterFree(k)
  \/ CommitEntry
  \/ CommitDone

Spec == Init /\ [][Next]_vars
-----------------------------------------------------------------------------
(* Properties.                                                             *)

VersionedColumn == [stack : Seq(Value), version : Nat]
TypeOK ==
  /\ chain \in [Bucket -> Seq(Key)] /\ back \in [Bucket -> Nat]
  /\ dangling \subseteq Bucket
  /\ cols \in [Key -> [Column -> VersionedColumn]]
  /\ row_count \in Nat
  /\ trans \in Seq([key : Key, column : Column, version : Nat])
  /\ pc \in {"ready", "commit", "hung", "crashed"}
  /\ damaged \subseteq Bucket

\* A row is linked at most once and only in the bucket of its key, whatever puts and
\* deletes came before, so the search of one bucket decides (hash.h:46-58, 151-171).
\* Relinking a found row closes a cycle, and never one through the first row.
ChainsWellFormed ==
  \A b \in Bucket :
    /\ \A i, j \in DOMAIN chain[b] : chain[b][i] = chain[b][j] => i = j
    /\ \A i \in DOMAIN chain[b] : HashCode[chain[b][i]] = b
    /\ back[b] # 0 => back[b] \in 2 .. Len(chain[b])

\* commit never fails: the column a transaction names still has the version number
\* it recorded and its row is still linked, though the holder is global and a delete
\* never clears it (transaction_utils.h:48-83).
CommitNeverFails ==
  /\ Len(trans) <= 1
  /\ pc = "commit" /\ trans # <<>> =>
       LET t == Head(trans)
       IN  Found(t.key) /\ cols[t.key][t.column].version = t.version

\* The version number counts the values pushed, up to the pending one, until the stack
\* is full; from then on it runs past the top (stack_utils.h:38, transaction_utils.h:71).
Pending(k, c) ==
  trans # <<>> /\ Head(trans).key = k /\ Head(trans).column = c
VersionMatchesStack ==
  \A k \in Key, c \in Column :
    LET pushed == cols[k][c].version + (IF Pending(k, c) THEN 1 ELSE 0)
    IN  /\ pushed <= VERSION_LIMIT => Len(cols[k][c].stack) = pushed
        /\ pushed > VERSION_LIMIT  => Len(cols[k][c].stack) = VERSION_LIMIT

\* A reader without the lock sees an old value of an existing column until commit:
\* the update and the relinking, which precede it, change no value that was there.
UncommittedInvisible ==
  [][ pc = "ready" /\ pc' \in {"commit", "hung"} =>
        \A k \in Key, c \in Column : get(k, c) # NULL => get(k, c)' = get(k, c) ]_vars

\* A bucket is damaged, left dangling or made cyclic only if two keys share it, and
\* deleting the row of a bucket of its own removes exactly that row; a thread hangs only
\* in a cyclic bucket.  So what one bucket suffers never spreads to another.
Shared(b) == \E j, k \in Key : j # k /\ HashCode[j] = b /\ HashCode[k] = b
HarmNeedsCollision ==
  /\ \A b \in Bucket : b \in dangling \cup damaged \/ back[b] # 0 => Shared(b)
  /\ pc = "hung" => \E b \in Bucket : back[b] # 0

\* Exporting the table and importing it into an empty one keeps the value a reader gets
\* from a row that shares its bucket with no key, as long as its columns have not had
\* too many versions; also when the export, which takes no lock, falls between an
\* update and its commit, or after a thread has hung (command_utils.h:177-269).  The
\* column of the last line comes back one version ahead, and past the top of its stack
\* if that was full.
RestartKeepsUnsharedRows ==
  \A k \in Key, c \in Column, last \in BOOLEAN :
    Found(k) /\ ~Shared(HashCode[k]) /\ cols[k][c].version \in 1 .. VERSION_LIMIT =>
      LET col == Reimported(k, c, last)
      IN  /\ Exported(k)
          /\ col.version = cols[k][c].version + (IF last THEN 1 ELSE 0)
          /\ Current(col) = IF col.version <= VERSION_LIMIT THEN get(k, c) ELSE Garbage

\* The table is the map its clients see, with readers in between the steps of a put,
\* until a delete damages it, a thread stops, a put closes a cycle that a search for
\* some key never leaves, or a column has had too many versions.
Overfull == \E k \in Key, c \in Column : cols[k][c].version > VERSION_LIMIT
SearchesEnd == \A k \in Key : Found(k) \/ NotFound(k)
Map == INSTANCE KeyValueStore WITH
         store <- [k \in Key |-> [c \in Column |-> get(k, c)]],
         reliable <- pc \in {"ready", "commit"} /\ damaged = {} /\ SearchesEnd /\ ~Overfull
ImplementsMap == Map!Spec
=============================================================================
