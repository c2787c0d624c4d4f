------------------------------- MODULE Lifecycle -------------------------------
(***************************************************************************)
(* Sessions and persistence: start, login, sign up, removal of a user,     *)
(* exit, and what of the users and the posts is there after the next       *)
(* start.  The database lives in memory.  Exit writes it as a list of puts *)
(* to my_db.nosql (export) and copies that into filesystem.bin, size first *)
(* (dump); a start copies it back (load) and leaves the rest to a query    *)
(* 'import', which waits in the request queue like any other while the     *)
(* menu is already open.                                                   *)
(*                                                                         *)
(* A cell is the sequence of its versions, a reader gets the last one.     *)
(* Users have rows of 'profile' and posts rows of 'post'; a row takes Puts *)
(* puts, the password last.  No two rows share a bucket and no stack is    *)
(* full (module Table), the queue is in order and lossless (module         *)
(* RequestPipeline).  The file filesystem.bin exists and is empty at first.*)
(***************************************************************************)
EXTENDS Naturals, Sequences, FiniteSets, SequencesExt

CONSTANTS
  User,
  Puts,           \* the puts of a sign up or a post (5 in the code)
  MaxId,          \* bound of the model: ids of posts
  MaxSignUps,     \* bounds of the model on these events
  MaxPosts, MaxStarts, MaxHasty,
  Given,          \* what is in a column that nothing depends on
  NULL

ASSUME PutsAssumption == Puts \in Nat \ {0}
ASSUME BoundsAssumption ==
  /\ MaxId \in Nat \ {0} /\ MaxSignUps \in Nat
  /\ MaxPosts \in Nat /\ MaxStarts \in Nat /\ MaxHasty \in Nat
\* Names and ids are keys of different tables.
ASSUME UserAssumption == IsFiniteSet(User) /\ User \cap Nat = {}
ASSUME NullAssumption == NULL \notin Nat \cup User /\ Given \notin Nat /\ NULL # Given

VARIABLES
  phase,          \* the main thread: off, auth and main menu, exported, sized
  user,           \* who is logged in
  cell,           \* the tables 'profile' and 'post'
  row_count,      \* of 'post'
  queue,          \* the queries not executed yet
  importing,      \* the lines the pool thread has still to import
  export,         \* my_db.nosql, one line per put
  size, text,     \* filesystem.bin: the size, in lines, and the lines
  account,        \* history: the password each user should log in with
  created,        \* history: the posts that should be there, in order
  removed,        \* history: the ids of posts removed
  saved,          \* history: the above at the last complete dump
  events,         \* history: sign ups, starts, hasty operations
  spoilt          \* history: a crash in the middle of a dump; a crash by a delete

memory == <<cell, row_count, queue, importing>>
disk == <<export, size, text>>
history == <<account, created, removed>>
vars == <<phase, user, memory, disk, history, saved, events, spoilt>>

Id == 1 .. MaxId
Row == User \cup Id
Col == 1 .. Puts

\* Passwords and files are told apart by the order in which they are given.
Password == 1 .. MaxSignUps
File == 1 .. MaxPosts

NoCells == [r \in Row |-> [c \in Col |-> <<>>]]

Put(r, c, v) == [op |-> "put", row |-> r, col |-> c, value |-> v]
Del(r) == [op |-> "delete", row |-> r, col |-> NULL, value |-> NULL]
Import == [op |-> "import", row |-> NULL, col |-> NULL, value |-> NULL]

get(r, c) == IF cell[r][c] = <<>> THEN NULL ELSE Last(cell[r][c])

Running == phase \in {"auth", "main"}
Idle == queue = <<>> /\ importing = <<>>

Init ==
  /\ phase = "off" /\ user = NULL
  /\ cell = NoCells /\ row_count = 0 /\ queue = <<>> /\ importing = <<>>
  /\ export = <<>> /\ size = 0 /\ text = <<>>
  /\ account = [u \in User |-> NULL] /\ created = <<>> /\ removed = {}
  /\ saved = [cell |-> NoCells, account |-> account, created |-> <<>>, removed |-> {}]
  /\ events = [signups |-> 0, starts |-> 0, hasty |-> 0]
  /\ spoilt = [torn |-> FALSE, fell |-> FALSE]

-----------------------------------------------------------------------------
(* start, exit and crash.                                                  *)

\* _tmain: empty tables; load_db_from_filesystem reads as much as the size says.
Start ==
  /\ phase = "off" /\ events.starts < MaxStarts
  /\ phase' = "auth"
  /\ export' = SubSeq(text, 1, IF size < Len(text) THEN size ELSE Len(text))
  /\ queue' = <<Import>>
  /\ events' = [events EXCEPT !.starts = @ + 1]
  /\ UNCHANGED <<user, cell, row_count, importing, size, text, history, saved, spoilt>>

LoseMemory ==
  /\ phase' = "off" /\ user' = NULL
  /\ cell' = NoCells /\ row_count' = 0 /\ queue' = <<>> /\ importing' = <<>>

\* An operation begun on a backlog that it should have waited for.
Hasty(backlog) ==
  /\ backlog => events.hasty < MaxHasty
  /\ events' = IF backlog THEN [events EXCEPT !.hasty = @ + 1] ELSE events

\* Mutants, here and below: wrong variants of the definition they precede, which no
\* specification uses; the properties are tested against them.
\* Mutant of Lines: of each cell, all but the newest version.
OldLines(r, c) == [v \in 1 .. (IF cell[r][c] = <<>> THEN 0 ELSE Len(cell[r][c]) - 1) |->
                    [row |-> r, col |-> c, value |-> cell[r][c][v]]]

\* write_records_to_file: one line for each version of a cell.
Lines(r, c) == [v \in DOMAIN cell[r][c] |-> [row |-> r, col |-> c, value |-> cell[r][c][v]]]

\* 'profile' comes before 'post'; the rows in the order of their hash codes.
RowOrder == SetToSeq(User) \o [i \in Id |-> i]
ExportLines ==
  FlattenSeq([i \in DOMAIN RowOrder |-> FlattenSeq([c \in Col |-> Lines(RowOrder[i], c)])])

\* Menu 14: the export, on the main thread, without the mutex and whatever is queued.
ExitExport ==
  /\ phase = "main"
  /\ Hasty(~Idle)
  /\ export' = ExportLines
  /\ phase' = "exported"
  /\ UNCHANGED <<user, memory, size, text, history, saved, spoilt>>

DumpSize ==
  /\ phase = "exported"
  /\ size' = Len(export)
  /\ phase' = "sized"
  /\ UNCHANGED <<user, memory, export, text, history, saved, events, spoilt>>

DumpText ==
  /\ phase = "sized"
  /\ text' = export
  /\ LoseMemory
  /\ saved' = [cell |-> cell, account |-> account, created |-> created, removed |-> removed]
  /\ UNCHANGED <<export, size, history, events, spoilt>>

\* What should be there is what the last dump holds.
Revert ==
  /\ LoseMemory
  /\ account' = saved.account /\ created' = saved.created /\ removed' = saved.removed
  /\ UNCHANGED <<disk, saved, events>>

\* The process is killed: the window is closed, or it crashes elsewhere.
Crash ==
  /\ phase # "off"
  /\ Revert
  /\ spoilt' = [spoilt EXCEPT !.torn = @ \/ phase = "sized"]

-----------------------------------------------------------------------------
(* The menus.                                                              *)

\* login_wrapper.
Login(u, p) ==
  /\ phase = "auth"
  /\ get(u, Puts) = p
  /\ phase' = "main" /\ user' = u
  /\ UNCHANGED <<memory, disk, history, saved, events, spoilt>>

\* Mutant of UserPuts: the last put is not sent.
UserPutsTooFew(u, p) == [c \in 1 .. Puts - 1 |-> Put(u, c, Given)]

UserPuts(u, p) == [c \in Col |-> Put(u, c, IF c = Puts THEN p ELSE Given)]

\* create_user, from either menu, for a new name or one that is taken.
SignUp(u, p) ==
  /\ Running /\ p = events.signups + 1
  /\ queue' = queue \o UserPuts(u, p)
  /\ phase' = "main" /\ user' = u
  /\ account' = [account EXCEPT ![u] = p]
  /\ events' = [events EXCEPT !.signups = @ + 1]
  /\ UNCHANGED <<cell, row_count, importing, disk, created, removed, saved, spoilt>>

\* Mutant of RemoveUser: the user stays logged in.
RemoveUserStillIn ==
  /\ phase = "main"
  /\ Hasty(account[user] = NULL)
  /\ queue' = Append(queue, Del(user))
  /\ phase' = "auth"
  /\ account' = [account EXCEPT ![user] = NULL]
  /\ UNCHANGED <<user, cell, row_count, importing, disk, created, removed, saved, spoilt>>

\* delete_user, back to the authentication menu.  The row is there until the query has
\* been executed: until then the user can log in, and then be removed, again.
RemoveUser ==
  /\ phase = "main"
  /\ Hasty(account[user] = NULL)
  /\ queue' = Append(queue, Del(user))
  /\ phase' = "auth" /\ user' = NULL
  /\ account' = [account EXCEPT ![user] = NULL]
  /\ UNCHANGED <<cell, row_count, importing, disk, created, removed, saved, spoilt>>

\* The posts are still being imported or changed.
PostBacklog ==
  \/ importing # <<>>
  \/ \E i \in DOMAIN queue : queue[i].op = "import" \/ queue[i].row \in Id

get_new_post_id == row_count + 1

CreatePost(f) ==
  LET id == get_new_post_id IN
  /\ phase = "main" /\ id <= MaxId
  /\ f = Len(created) + 1
  /\ Hasty(PostBacklog)
  /\ queue' = queue \o [c \in Col |-> Put(id, c, f)]
  /\ created' = Append(created, [id |-> id, file |-> f])
  /\ UNCHANGED <<phase, user, cell, row_count, importing, disk, account, removed, saved, spoilt>>

\* Mutant of RemovePost: the row is not looked up.
RemovePostUnseen(id) ==
  /\ phase = "main"
  /\ Hasty(PostBacklog)
  /\ queue' = Append(queue, Del(id))
  /\ removed' = removed \cup {id}
  /\ UNCHANGED <<phase, user, cell, row_count, importing, disk, account, created, saved, spoilt>>

RemovePost(id) ==
  /\ phase = "main" /\ get(id, Puts) # NULL
  /\ Hasty(PostBacklog)
  /\ queue' = Append(queue, Del(id))
  /\ removed' = removed \cup {id}
  /\ UNCHANGED <<phase, user, cell, row_count, importing, disk, account, created, saved, spoilt>>

-----------------------------------------------------------------------------
(* The pool thread, which runs until exit ends the process.                *)

Apply(r, c, v) ==
  /\ cell' = [cell EXCEPT ![r][c] = Append(@, v)]
  /\ row_count' = IF r \in Id THEN row_count + 1 ELSE row_count

ExecutePut ==
  /\ phase # "off" /\ importing = <<>> /\ queue # <<>> /\ Head(queue).op = "put"
  /\ Apply(Head(queue).row, Head(queue).col, Head(queue).value)
  /\ queue' = Tail(queue)
  /\ UNCHANGED <<phase, user, importing, disk, history, saved, events, spoilt>>

ExecuteDelete ==
  /\ phase # "off" /\ importing = <<>> /\ queue # <<>> /\ Head(queue).op = "delete"
  /\ cell[Head(queue).row] # NoCells[Head(queue).row]
  /\ cell' = [cell EXCEPT ![Head(queue).row] = NoCells[Head(queue).row]]
  /\ queue' = Tail(queue)
  /\ UNCHANGED <<phase, user, row_count, importing, disk, history, saved, events, spoilt>>

\* deleteInTable reads through NULL: the process ends.
ExecuteDeleteCrash ==
  /\ phase # "off" /\ importing = <<>> /\ queue # <<>> /\ Head(queue).op = "delete"
  /\ cell[Head(queue).row] = NoCells[Head(queue).row]
  /\ Revert
  /\ spoilt' = [spoilt EXCEPT !.fell = TRUE, !.torn = @ \/ phase = "sized"]

\* import_from_file holds the mutex for all its lines.  It tests feof before a read: if
\* the text ends with its last line, that line is executed twice.
ExecuteImport ==
  /\ phase # "off" /\ importing = <<>> /\ queue # <<>> /\ Head(queue).op = "import"
  /\ importing' \in {export} \cup (IF export = <<>> THEN {} ELSE {Append(export, Last(export))})
  /\ queue' = Tail(queue)
  /\ UNCHANGED <<phase, user, cell, row_count, disk, history, saved, events, spoilt>>

\* Mutant of ImportLine: the lines are not counted.
ImportLineUncounted ==
  /\ phase # "off" /\ importing # <<>>
  /\ LET l == Head(importing)
     IN  cell' = [cell EXCEPT ![l.row][l.col] = Append(@, l.value)]
  /\ importing' = Tail(importing)
  /\ UNCHANGED <<phase, user, row_count, queue, disk, history, saved, events, spoilt>>

ImportLine ==
  /\ phase # "off" /\ importing # <<>>
  /\ LET l == Head(importing) IN Apply(l.row, l.col, l.value)
  /\ importing' = Tail(importing)
  /\ UNCHANGED <<phase, user, queue, disk, history, saved, events, spoilt>>

PoolStep == ExecutePut \/ ExecuteDelete \/ ExecuteDeleteCrash \/ ExecuteImport \/ ImportLine

Next ==
  \/ Start \/ ExitExport \/ DumpSize \/ DumpText \/ Crash
  \/ \E u \in User, p \in Password : Login(u, p) \/ SignUp(u, p)
  \/ RemoveUser
  \/ \E f \in File : CreatePost(f)
  \/ \E id \in Id : RemovePost(id)
  \/ PoolStep

Spec == Init /\ [][Next]_vars

\* The processor and the pool never block on anything but each other.
FairSpec == Spec /\ WF_vars(PoolStep)
-----------------------------------------------------------------------------
(* Properties.                                                             *)

Value == Password \cup File \cup {Given}
Line == [row : Row, col : Col, value : Value]
TypeOK ==
  /\ phase \in {"off", "auth", "main", "exported", "sized"}
  /\ (user = NULL) = (phase \in {"off", "auth"})
  /\ cell \in [Row -> [Col -> Seq(Value)]] /\ row_count \in Nat
  /\ \A i \in DOMAIN queue : queue[i].op \in {"put", "delete"} => queue[i].row \in Row
  /\ importing \in Seq(Line) /\ export \in Seq(Line) /\ text \in Seq(Line) /\ size \in Nat
  /\ account \in [User -> Password \cup {NULL}] /\ removed \subseteq Id
  /\ phase = "off" => cell = NoCells /\ Idle

Patient == events.hasty = 0 /\ ~spoilt.torn

\* When nothing is pending, each user logs in with the password last asked for, in this
\* session or one that ended with an exit, and a removed user with none: whatever was
\* signed up or removed while the import was still waiting (authentication.h, server.h:252).
AccountsHold ==
  Running /\ Idle /\ Patient => \A u \in User : get(u, Puts) = account[u]

\* The import gives back every value that was there at the last complete dump, also after
\* a kill in between (server.h:206-256, command_utils.h:177-269).
Newest(versions) == IF versions = <<>> THEN NULL ELSE Last(versions)
RestartRestores ==
  [][ importing # <<>> /\ importing' = <<>> /\ phase' # "off" /\ Patient =>
        \A r \in Row, c \in Col : get(r, c)' = Newest(saved.cell[r][c]) ]_vars

\* A post is listed (its id is at most row_count) under its own file, across restarts,
\* though row_count is then the number of lines imported, and a later post never takes its
\* id; if no post was removed.
VisibleAcrossRestarts ==
  Running /\ Idle /\ Patient =>
    \A i \in DOMAIN created : created[i].id \notin removed =>
      get(created[i].id, 1) = created[i].file /\ created[i].id <= row_count
VisibleIfNoneRemoved == removed = {} => VisibleAcrossRestarts

\* A delete finds its row, though it runs when the row may have gone, unless a user is
\* removed twice or a post changed on a backlog (hash.h:190).
DeletesFindTheirRow == events.hasty = 0 => ~spoilt.fell

\* A user who signed up can log in in the end, unless the account or the process goes.
AccountIsUsable ==
  \A u \in User, p \in Password :
    (Running /\ account[u] = p) ~>
      (get(u, Puts) = p \/ account[u] # p \/ ~Running \/ ~Patient)
=============================================================================
