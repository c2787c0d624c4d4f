---------------------------------- MODULE Peers ----------------------------------
(***************************************************************************)
(* Two running programs that talk over sockets: messages and sync          *)
(* (socket_client.h, socket_server.h, client.h, server.h).                 *)
(*                                                                         *)
(* Each peer has a main thread, which connects to the other peer, sends    *)
(* one request and waits for the first answer, and a server thread for     *)
(* each login, which listens, accepts one connection, stops listening and  *)
(* serves that connection.  The table 'message' of a peer changes through  *)
(* its request queue, in order and lossless here (module RequestPipeline). *)
(*                                                                         *)
(* The code has the server on port 27015 and the client on 27016: the      *)
(* other peer is built with the two exchanged.  A request fits one send,   *)
(* and a send arrives in one recv; a message has no comma (put drops it,   *)
(* module Comments).  Both files filesystem.bin exist, and nobody's        *)
(* process ends.                                                           *)
(***************************************************************************)
EXTENDS Naturals, Sequences, FiniteSets

CONSTANTS
  Peer,          \* the two peers
  Sync,          \* the request that is not a message
  Thread,        \* server threads
  Logins,        \* bound of the model: the threads each peer may start
  StoreSize,     \* the size each peer's filesystem.bin begins with
  HEADER,        \* the bytes of that size (4 in the code)
  BUFLEN,        \* DEFAULT_BUFLEN (512 in the code)
  MaxId,         \* bound of the model: rows of 'message'
  MaxAsks,       \* bound of the model: messages and syncs asked for
  Noise,         \* a name that no user has
  EOF, NULL

ASSUME PeerAssumption == \A p \in Peer : \E q \in Peer : q # p /\ Peer = {p, q}
ASSUME SizeAssumption == StoreSize \in [Peer -> Nat] /\ HEADER \in Nat /\ BUFLEN \in Nat
ASSUME BufferAssumption == 0 < HEADER /\ HEADER < BUFLEN
ASSUME LoginsAssumption == Logins \in [Peer -> SUBSET Thread]
ASSUME BoundsAssumption == MaxId \in Nat /\ MaxAsks \in Nat

\* Messages are told apart by the order in which they were asked for.
Message == 1 .. MaxAsks

ASSUME NullAssumption ==
  /\ Sync \notin Message /\ {EOF, NULL} \cap (Message \cup {Sync}) = {}
  /\ NULL # EOF /\ Noise \notin Peer /\ NULL \notin Peer \cup {Noise}
  /\ NULL \notin Nat /\ NULL \notin Thread

VARIABLES
  client,     \* the main thread of each peer: where it is, what it sends, to which
              \* thread, and the first part of the answer that reached its socket
  server,     \* each server thread: where it is, the request, the loop of the sync reply
  link,       \* the connection each server thread serves
  dirty,      \* whether recvbuf holds something behind its fourth byte (NULL: not settled)
  row, row_count,  \* the table 'message' of each peer
  queue,      \* its puts not executed yet
  copy,       \* db.nosql of each peer: how many bytes of the other's text it begins with
  sent,       \* history: the messages sent, with their senders
  acked,      \* history: those whose reply the sender got
  syncs,      \* history: how often sync was asked for
  overlapped  \* history: an id was read while puts were pending

vars == <<client, server, link, dirty, row, row_count, queue, copy,
          sent, acked, syncs, overlapped>>
histVars == <<sent, acked, syncs, overlapped>>
tables == <<row, row_count, queue>>

Other(p) == CHOOSE q \in Peer : q # p
Id == 1 .. MaxId
NoLink == [open |-> FALSE, req |-> NULL]
Idle == [pc |-> "menu", req |-> NULL, to |-> NULL, rep |-> NULL, id |-> NULL]
NoRow == [username |-> NULL, message |-> NULL]

\* The recvbuf of a thread is not initialised: what it holds is settled when it matters.
Init ==
  /\ client = [p \in Peer |-> Idle]
  /\ server = [p \in Peer |-> [t \in Thread |->
                [pc |-> "off", name |-> NULL, id |-> NULL, i |-> 0]]]
  /\ link = [p \in Peer |-> [t \in Thread |-> NoLink]]
  /\ dirty = [p \in Peer |-> [t \in Thread |-> NULL]]
  /\ row = [p \in Peer |-> [k \in Id |-> NoRow]] /\ row_count = [p \in Peer |-> 0]
  /\ queue = [p \in Peer |-> <<>>]
  /\ copy = [p \in Peer |-> NULL]
  /\ sent = {} /\ acked = {} /\ syncs = 0 /\ overlapped = FALSE

put(k, c, v) == [id |-> k, column |-> c, value |-> v]

\* Some thread of the peer has read an id whose puts have not all been executed.
Backlog(p) ==
  \/ queue[p] # <<>>
  \/ client[p].id # NULL
  \/ \E t \in Thread : server[p][t].id # NULL

\* Mutants, here and below: wrong variants of the definition they precede, no part of the
\* model.  The next id is the one behind the rows that have a name and a message.
CountOfMessages(p) ==
  LET full == {k \in Id : NULL \notin {row[p][k].username, row[p][k].message}}
  IN  IF full = {} THEN 1 ELSE 1 + CHOOSE k \in full : \A j \in full : j <= k

get_new_msg_id(p) == row_count[p] + 1

\* A thread reads the next id, whatever is pending.
ReadId(p) ==
  /\ get_new_msg_id(p) <= MaxId
  /\ overlapped' = (overlapped \/ Backlog(p))

Submit(p, q) == queue' = [queue EXCEPT ![p] = Append(@, q)]

-----------------------------------------------------------------------------
(* The main thread: send_message_to_user and sync_file_store.              *)

\* Next place of the main thread.
Go(p, pc) == client' = [client EXCEPT ![p].pc = pc]
ToMenu(p) == client' = [client EXCEPT ![p] = Idle]

\* The user, logged in, asks; the history takes note.
Ask(p, m) ==
  /\ client[p].pc = "menu" /\ \E t \in Logins[p] : server[p][t].pc # "off"
  /\ syncs + Cardinality(sent) < MaxAsks
  /\ IF m = Sync THEN syncs' = syncs + 1 /\ UNCHANGED sent
                 ELSE /\ m = Cardinality(sent) + 1
                      /\ sent' = sent \cup {[message |-> m, from |-> p]} /\ UNCHANGED syncs

\* connect succeeds if a thread of the other peer listens; otherwise nothing is stored
\* ("Unable to connect to server!") and nothing changes.
Connect(p, m, t) ==
  /\ Ask(p, m)
  /\ server[Other(p)][t].pc = "listen" /\ ~link[Other(p)][t].open
  /\ link' = [link EXCEPT ![Other(p)][t] = [NoLink EXCEPT !.open = TRUE]]
  /\ client' = [client EXCEPT ![p] = [Idle EXCEPT !.pc = "send", !.req = m, !.to = t]]
  /\ UNCHANGED <<server, dirty, tables, copy, acked, overlapped>>

\* send, and shutdown of the sending side.
Send(p) ==
  /\ client[p].pc = "send"
  /\ link' = [link EXCEPT ![Other(p)][client[p].to].req = client[p].req]
  /\ Go(p, "wait")
  /\ UNCHANGED <<server, dirty, tables, copy, histVars>>

\* The first recv ends send_request; the socket is left open.
ReceiveReply(p) ==
  LET reply == client[p].rep IN
  /\ client[p].pc = "wait" /\ reply # NULL
  /\ IF client[p].req = Sync
     THEN /\ copy' = [copy EXCEPT ![p] = IF reply.echo THEN 0 ELSE reply.bytes - HEADER]
          /\ ToMenu(p) /\ UNCHANGED acked
     ELSE /\ acked' = acked \cup {client[p].req}
          /\ client' = [client EXCEPT ![p].pc = "id", ![p].rep = NULL] /\ UNCHANGED copy
  /\ UNCHANGED <<server, link, dirty, tables, sent, syncs, overlapped>>

\* The sender's own copy of the message: its id, and two puts.
ClientReadId(p) ==
  /\ client[p].pc = "id"
  /\ ReadId(p)
  /\ client' = [client EXCEPT ![p].pc = "message", ![p].id = get_new_msg_id(p)]
  /\ UNCHANGED <<server, link, dirty, tables, copy, sent, acked, syncs>>

ClientPutMessage(p) ==
  /\ client[p].pc = "message"
  /\ Submit(p, put(client[p].id, "message", client[p].req))
  /\ Go(p, "username")
  /\ UNCHANGED <<server, link, dirty, row, row_count, copy, histVars>>

ClientPutUsername(p) ==
  /\ client[p].pc = "username"
  /\ Submit(p, put(client[p].id, "username", p))
  /\ ToMenu(p)
  /\ UNCHANGED <<server, link, dirty, row, row_count, copy, histVars>>

\* What the main thread does once it has connected.
ClientStep(p) ==
  Send(p) \/ ReceiveReply(p) \/ ClientReadId(p) \/ ClientPutMessage(p) \/ ClientPutUsername(p)

-----------------------------------------------------------------------------
(* start_Server and process_request.                                       *)

ServerGo(p, t, pc) == server' = [server EXCEPT ![p][t].pc = pc]

\* A login or a sign up, a choice of the menus, starts one more thread.
StartThread(p, t) ==
  /\ server[p][t].pc = "off" /\ client[p].pc = "menu"
  /\ ServerGo(p, t, "bind")
  /\ UNCHANGED <<client, link, dirty, tables, copy, histVars>>

\* bind fails, and is tried again, while another thread listens on the port.
Bind(p, t) ==
  /\ server[p][t].pc = "bind"
  /\ \A u \in Thread \ {t} : server[p][u].pc # "listen"
  /\ ServerGo(p, t, "listen")
  /\ UNCHANGED <<client, link, dirty, tables, copy, histVars>>

\* Mutant of Accept: a failed accept is not checked.
AcceptUnchecked(p, t) ==
  /\ server[p][t].pc = "listen"
  /\ ServerGo(p, t, "recv")
  /\ UNCHANGED <<client, link, dirty, tables, copy, histVars>>

\* accept, and the listening socket is closed.
Accept(p, t) ==
  /\ server[p][t].pc = "listen" /\ link[p][t].open
  /\ ServerGo(p, t, "recv")
  /\ UNCHANGED <<client, link, dirty, tables, copy, histVars>>

\* strcmp finds "sync" only if the fifth byte of recvbuf is zero: a longer request that
\* the thread received before, or what the stack held, hides it.
ReceiveSync(p, t) ==
  /\ server[p][t].pc = "recv" /\ link[p][t].req = Sync /\ dirty[p][t] # TRUE
  /\ link' = [link EXCEPT ![p][t].req = EOF]
  /\ dirty' = [dirty EXCEPT ![p][t] = FALSE]
  /\ server' = [server EXCEPT ![p][t].pc = "reply", ![p][t].i = HEADER]
  /\ UNCHANGED <<client, tables, copy, histVars>>

\* Anything else is taken for a message; with its sender's name it is longer than "sync".
ReceiveMessage(p, t) ==
  /\ server[p][t].pc = "recv" /\ link[p][t].req \in Message \cup {Sync}
  /\ link[p][t].req = Sync => dirty[p][t] # FALSE
  /\ link' = [link EXCEPT ![p][t].req = EOF]
  /\ dirty' = [dirty EXCEPT ![p][t] = TRUE]
  /\ server' = [server EXCEPT ![p][t].pc = "id",
                   ![p][t].name = IF link[p][t].req = Sync THEN Noise ELSE Other(p)]
  /\ UNCHANGED <<client, tables, copy, histVars>>

ServerReadId(p, t) ==
  /\ server[p][t].pc = "id"
  /\ ReadId(p)
  /\ server' = [server EXCEPT ![p][t].pc = "first", ![p][t].id = get_new_msg_id(p)]
  /\ UNCHANGED <<client, link, dirty, tables, copy, sent, acked, syncs>>

\* Both puts store the name of the sender, none the message.
ServerPutFirst(p, t) ==
  /\ server[p][t].pc = "first"
  /\ Submit(p, put(server[p][t].id, "username", server[p][t].name))
  /\ ServerGo(p, t, "second")
  /\ UNCHANGED <<client, link, dirty, row, row_count, copy, histVars>>

ServerPutSecond(p, t) ==
  /\ server[p][t].pc = "second"
  /\ Submit(p, put(server[p][t].id, "username", server[p][t].name))
  /\ server' = [server EXCEPT ![p][t].pc = "echo", ![p][t].id = NULL, ![p][t].name = NULL]
  /\ UNCHANGED <<client, link, dirty, row, row_count, copy, histVars>>

\* What is sent reaches the socket of the connected client, which looks at the first only.
Deliver(p, t, reply) ==
  client' = IF /\ client[Other(p)].pc = "wait" /\ client[Other(p)].to = t
               /\ client[Other(p)].rep = NULL
            THEN [client EXCEPT ![Other(p)].rep = reply] ELSE client

\* Mutant of Echo: the request is stored and not answered.
EchoForgotten(p, t) ==
  /\ server[p][t].pc = "echo"
  /\ ServerGo(p, t, "recv")
  /\ UNCHANGED <<client, link, dirty, tables, copy, histVars>>

Echo(p, t) ==
  /\ server[p][t].pc = "echo"
  /\ Deliver(p, t, [echo |-> TRUE, bytes |-> 0])
  /\ ServerGo(p, t, "recv")
  /\ UNCHANGED <<link, dirty, tables, copy, histVars>>

\* The sync reply.  The loop compares i with the size and starts again from zero after
\* each full buffer: one send for a small store, sends without end for a larger one.
LastOf(p, t) == IF StoreSize[p] > server[p][t].i THEN StoreSize[p] ELSE server[p][t].i
Bytes(n) == [echo |-> FALSE, bytes |-> n]

\* Mutant of ReplyLast: the loop ends one byte later.
ReplyLastLate(p, t) ==
  /\ server[p][t].pc = "reply" /\ StoreSize[p] < BUFLEN
  /\ Deliver(p, t, Bytes(LastOf(p, t) + 1))
  /\ ServerGo(p, t, "recv")
  /\ UNCHANGED <<link, dirty, tables, copy, histVars>>

ReplyLast(p, t) ==
  /\ server[p][t].pc = "reply" /\ StoreSize[p] < BUFLEN
  /\ Deliver(p, t, Bytes(LastOf(p, t)))
  /\ ServerGo(p, t, "recv")
  /\ UNCHANGED <<link, dirty, tables, copy, histVars>>

ReplyFullBuffer(p, t) ==
  /\ server[p][t].pc = "reply" /\ StoreSize[p] >= BUFLEN
  /\ Deliver(p, t, Bytes(BUFLEN - 1))
  /\ server' = [server EXCEPT ![p][t].i = 0]
  /\ UNCHANGED <<link, dirty, tables, copy, histVars>>

\* Mutant of Close: the thread goes back to the connection.
CloseForgotten(p, t) ==
  /\ server[p][t].pc = "recv" /\ link[p][t].req = EOF
  /\ UNCHANGED vars

\* recv returns zero: shutdown, close, and around to bind.
Close(p, t) ==
  /\ server[p][t].pc = "recv" /\ link[p][t].req = EOF
  /\ server' = [server EXCEPT ![p][t].pc = "bind", ![p][t].i = 0]
  /\ link' = [link EXCEPT ![p][t] = NoLink]
  /\ UNCHANGED <<client, dirty, tables, copy, histVars>>

ServerStep(p, t) ==
  \/ Bind(p, t) \/ Accept(p, t)
  \/ ReceiveSync(p, t) \/ ReceiveMessage(p, t)
  \/ ServerReadId(p, t) \/ ServerPutFirst(p, t) \/ ServerPutSecond(p, t) \/ Echo(p, t)
  \/ ReplyLast(p, t) \/ ReplyFullBuffer(p, t)
  \/ Close(p, t)

-----------------------------------------------------------------------------
(* The pool thread of each peer, and the inbox.                            *)

\* Mutant of ExecutePut: the row is filled in and not counted.
ExecutePutUncounted(p) ==
  /\ queue[p] # <<>>
  /\ LET q == Head(queue[p]) IN row' = [row EXCEPT ![p][q.id][q.column] = q.value]
  /\ queue' = [queue EXCEPT ![p] = Tail(@)]
  /\ UNCHANGED <<client, server, link, dirty, row_count, copy, histVars>>

ExecutePut(p) ==
  /\ queue[p] # <<>>
  /\ LET q == Head(queue[p]) IN row' = [row EXCEPT ![p][q.id][q.column] = q.value]
  /\ row_count' = [row_count EXCEPT ![p] = @ + 1]
  /\ queue' = [queue EXCEPT ![p] = Tail(@)]
  /\ UNCHANGED <<client, server, link, dirty, copy, histVars>>

Complete(p, k) == NULL \notin {row[p][k].username, row[p][k].message}

\* message_inbox: the rows '1', '2', ... up to the first that is not complete.
Inbox(p) == {row[p][k] : k \in {j \in Id : \A i \in 1 .. j : Complete(p, i)}}

Next ==
  \/ \E p \in Peer :
       \/ \E m \in Message \cup {Sync}, t \in Thread : Connect(p, m, t)
       \/ ClientStep(p)
       \/ \E t \in Logins[p] : StartThread(p, t) \/ ServerStep(p, t)
       \/ ExecutePut(p)

Spec == Init /\ [][Next]_vars

\* The main and the server threads run; whether a user asks or logs in is left open, and so
\* is when a put is executed.
FairSpec ==
  /\ Spec
  /\ \A p \in Peer : WF_vars(ClientStep(p))
  /\ \A p \in Peer : \A t \in Logins[p] : WF_vars(ServerStep(p, t))
-----------------------------------------------------------------------------
(* Properties.                                                             *)

Quiet ==
  \A p \in Peer : /\ queue[p] = <<>> /\ client[p].pc = "menu"
                  /\ \A t \in Thread : server[p][t].pc \in {"off", "bind", "listen"}

TypeOK ==
  /\ \A p \in Peer :
       /\ client[p].pc \in {"menu", "send", "wait", "id", "message", "username"}
       /\ (client[p].pc = "menu") = (client[p].req = NULL)
       /\ client[p].pc \in {"send", "wait"} => client[p].to \in Thread
       /\ (client[p].id # NULL) = (client[p].pc \in {"message", "username"})
       /\ copy[p] \in Nat \cup {NULL} /\ row_count[p] \in Nat
       /\ \A k \in Id : /\ row[p][k].username \in Peer \cup {Noise, NULL}
                        /\ row[p][k].message \in Message \cup {NULL}
  /\ \A p \in Peer, t \in Thread :
       /\ server[p][t].pc \in {"off", "bind", "listen", "recv", "id", "first", "second",
                               "echo", "reply"}
       /\ (server[p][t].id # NULL) = (server[p][t].pc \in {"first", "second"})
       /\ link[p][t].req \in Message \cup {Sync, EOF, NULL}
       /\ server[p][t].pc \notin {"off", "bind", "listen"} => link[p][t].open
  /\ dirty \in [Peer -> [Thread -> {TRUE, FALSE, NULL}]]

\* A message in an inbox carries its author's name, though the rows of sent and received
\* messages come from one count, are filled in by two threads and take two puts each; as
\* long as no id is read before the puts of the last one have run (client.h:255).
NamesMatch ==
  ~overlapped =>
    \A p \in Peer, k \in Id : Complete(p, k) =>
      [message |-> row[p][k].message, from |-> row[p][k].username] \in sent

\* The sender keeps exactly one copy of every message that was answered, and no later
\* message or reception overwrites it (client.h:273-279, server.h:492-497).
SentIsKept ==
  ~overlapped /\ Quiet =>
    \A s \in sent : s.message \in acked =>
      \E k \in Id : /\ row[s.from][k] = [username |-> s.from, message |-> s.message]
                    /\ \A j \in Id \ {k} : row[s.from][j].message # s.message

\* What a sync copies of the other peer's store, of that peer's text: the bytes behind the
\* size, whose place is taken by as many of them, and of a large store the first buffer.
Copied(p) ==
  IF StoreSize[p] >= BUFLEN THEN BUFLEN - 1 - HEADER
  ELSE IF StoreSize[p] > HEADER THEN StoreSize[p] - HEADER ELSE 0

\* A sync writes to db.nosql what the other peer's store has for it, unless the thread that
\* answers had received a longer request before, or its stack held one: then nothing, and
\* exactly then, whatever the threads of both peers do between the request and the answer
\* (server.h:449-481, socket_server.h:112, socket_client.h:130-153).
CopyIsOneReply ==
  [][\A p \in Peer : copy'[p] # copy[p] =>
       copy'[p] = IF dirty[Other(p)][client[p].to] = TRUE THEN 0 ELSE Copied(Other(p))]_vars

\* "make users to get connected and have a sync of the database" (README.md:24): after a
\* sync db.nosql has the other peer's text, but for the bytes whose place the size takes.
SyncCopiesDatabase ==
  \A p \in Peer : copy[p] # NULL => copy[p] >= StoreSize[Other(p)] - HEADER

\* A user who sends or syncs gets the menu back, also from a peer whose reply never ends
\* and when both send at once (socket_client.h:128-160); ids permitting.
ClientReturns ==
  \A p \in Peer : client[p].pc = "send" ~> client[p].pc \in {"menu", "id"}

\* A peer that has logged in listens again and again, if its store fits one buffer
\* (socket_server.h:27-157, server.h:461).
ListensAgain ==
  \A p \in Peer : StoreSize[p] < BUFLEN =>
    (\E t \in Thread : server[p][t].pc # "off") ~>
      (\E t \in Thread : server[p][t].pc \in {"listen", "id"})
=============================================================================
