----------------------------- MODULE PeersProofs -----------------------------
(***************************************************************************)
(* Proofs about two peers, for any two peers and any server threads, any   *)
(* sizes of their stores and any number of messages and syncs.             *)
(***************************************************************************)
EXTENDS Peers, SequenceTheorems, FiniteSetTheorems, TLAPS

USE SizeAssumption, BufferAssumption, LoginsAssumption, BoundsAssumption, NullAssumption

-----------------------------------------------------------------------------
(* Types.                                                                  *)

ClientPc == {"menu", "send", "wait", "id", "message", "username"}
ServerPc == {"off", "bind", "listen", "recv", "id", "first", "second", "echo", "reply"}
Reply == [echo : BOOLEAN, bytes : Nat]
Name == Peer \cup {Noise}
Client == [pc : ClientPc, req : Message \cup {Sync, NULL}, to : Thread \cup {NULL},
           rep : Reply \cup {NULL}, id : Id \cup {NULL}]
Server == [pc : ServerPc, name : Name \cup {NULL}, id : Id \cup {NULL}, i : Nat]
Link == [open : BOOLEAN, req : Message \cup {Sync, EOF, NULL}]
Row == [username : Name \cup {NULL}, message : Message \cup {NULL}]
Query == [id : Id, column : {"username"}, value : Name]
         \cup [id : Id, column : {"message"}, value : Message]

\* How the fields of a thread go together.
ClientTyped(c) ==
  /\ c.pc = "menu" <=> c.req = NULL
  /\ c.pc \in {"send", "wait"} => c.to \in Thread
  /\ c.id # NULL <=> c.pc \in {"message", "username"}
  /\ c.pc \in {"id", "message", "username"} => c.req \in Message
ServerTyped(s) ==
  /\ s.id # NULL <=> s.pc \in {"first", "second"}
  /\ s.pc \in {"id", "first", "second"} => s.name \in Name

\* The bytes of a sync reply: the text is not shorter than the size before it.
ReplyBytes(p) ==
  IF StoreSize[p] < BUFLEN THEN IF StoreSize[p] > HEADER THEN StoreSize[p] ELSE HEADER
                           ELSE BUFLEN - 1

ClientTypes == client \in [Peer -> Client] /\ \A p \in Peer : ClientTyped(client[p])
ServerTypes ==
  server \in [Peer -> [Thread -> Server]] /\ \A p \in Peer, t \in Thread : ServerTyped(server[p][t])
LinkTypes ==
  link \in [Peer -> [Thread -> Link]] /\ dirty \in [Peer -> [Thread -> {TRUE, FALSE, NULL}]]
ServesOpen ==
  \A p \in Peer, t \in Thread :
    server[p][t].pc \notin {"off", "bind", "listen"} => link[p][t].open
TableTypes ==
  row \in [Peer -> [Id -> Row]] /\ row_count \in [Peer -> Nat] /\ queue \in [Peer -> Seq(Query)]
HistoryTypes ==
  /\ sent \subseteq [message : Message, from : Peer] /\ acked \subseteq Message
  /\ syncs \in Nat /\ overlapped \in BOOLEAN
CopyTypes == copy \in [Peer -> Nat \cup {NULL}]

TypeInv ==
  ClientTypes /\ ServerTypes /\ LinkTypes /\ ServesOpen /\ TableTypes /\ HistoryTypes /\ CopyTypes

\* A reply on its way, and the loop that sends it.
RepliesWhole ==
  /\ \A p \in Peer : client[p].rep # NULL /\ ~client[p].rep.echo =>
       client[p].rep.bytes = ReplyBytes(Other(p))
  /\ \A p \in Peer, t \in Thread :
       server[p][t].pc = "reply" /\ StoreSize[p] < BUFLEN => server[p][t].i = HEADER

-----------------------------------------------------------------------------
(* The inductive invariant.                                                *)

\* Messages are numbered as they are sent; a message is answered after it was sent.
SentNumbered ==
  /\ IsFiniteSet(sent)
  /\ \A s \in sent : s.message <= Cardinality(sent)
  /\ \A s, r \in sent : s.message = r.message => s = r
  /\ \A m \in acked : \E s \in sent : s.message = m
  /\ \A p \in Peer : client[p].req \in Message =>
       /\ [message |-> client[p].req, from |-> p] \in sent
       /\ client[p].pc \in {"send", "wait"} => client[p].req \notin acked
       /\ client[p].pc \notin {"send", "wait"} => client[p].req \in acked

\* Two puts fill in row n: of a message m of the peer's own and its name u, or for m = NULL
\* twice of the name u of a sender.  Between them the row has the first value.
FirstPut(n, m, u) == IF m = NULL THEN put(n, "username", u) ELSE put(n, "message", m)
NamePut(n, u) == put(n, "username", u)
HalfRow(m, u) ==
  [username |-> IF m = NULL THEN u ELSE NULL, message |-> m]

\* The thread that has the id, and the only one.
ClientHolds(p, pc, n, m, u) ==
  /\ client[p].pc = pc /\ client[p].id = n /\ client[p].req = m /\ m # NULL /\ u = p
  /\ \A t \in Thread : server[p][t].id = NULL
ServerHolds(p, t, pc, n, m, u) ==
  /\ server[p][t].pc = pc /\ server[p][t].id = n /\ server[p][t].name = u /\ m = NULL
  /\ client[p].id = NULL
  /\ \A v \in Thread \ {t} : server[p][v].id = NULL
NobodyHolds(p) == client[p].id = NULL /\ \A t \in Thread : server[p][t].id = NULL

OwesTwo(p, n, m, u) ==
  \/ ClientHolds(p, "message", n, m, u)
  \/ \E t \in Thread : ServerHolds(p, t, "first", n, m, u)
OwesOne(p, n, m, u) ==
  \/ ClientHolds(p, "username", n, m, u)
  \/ \E t \in Thread : ServerHolds(p, t, "second", n, m, u)
OwesNone(p, m, u) == NobodyHolds(p) /\ (m # NULL => u = p)

\* Row n is being written: none of the two puts has been executed, or one.
Empty(p, n, m, u) ==
  /\ n = row_count[p] + 1
  /\ \/ queue[p] = <<>> /\ OwesTwo(p, n, m, u)
     \/ queue[p] = <<FirstPut(n, m, u)>> /\ OwesOne(p, n, m, u)
     \/ queue[p] = <<FirstPut(n, m, u), NamePut(n, u)>> /\ OwesNone(p, m, u)
Half(p, n, m, u) ==
  /\ n = row_count[p] /\ row[p][n] = HalfRow(m, u)
  /\ \/ queue[p] = <<>> /\ OwesOne(p, n, m, u)
     \/ queue[p] = <<NamePut(n, u)>> /\ OwesNone(p, m, u)

\* What the rows but row n have of the messages the peer sent; m is on its way to row n.
Ledger(p, n, m) ==
  /\ \A k \in Id \ {n} : row[p][k].message # NULL =>
       /\ row[p][k].username = p /\ row[p][k].message # m
       /\ [message |-> row[p][k].message, from |-> p] \in sent
       /\ row[p][k].message \in acked
  /\ \A j, k \in Id : row[p][j].message = row[p][k].message /\ row[p][j].message # NULL => j = k
  /\ m # NULL => [message |-> m, from |-> p] \in sent /\ m \in acked
  /\ client[p].pc = "id" =>
       client[p].req # m /\ \A k \in Id : row[p][k].message # client[p].req
  /\ \A s \in sent : s.from = p /\ s.message \in acked =>
       \/ s.message = m
       \/ client[p].pc = "id" /\ client[p].req = s.message
       \/ \E k \in Id \ {n} : row[p][k].message = s.message

Serial(p) ==
  /\ \A k \in Id : k > row_count[p] => row[p][k] = NoRow
  /\ \/ queue[p] = <<>> /\ NobodyHolds(p) /\ Ledger(p, 0, NULL)
     \/ \E n \in Id, m \in Message \cup {NULL}, u \in Name :
          (Empty(p, n, m, u) \/ Half(p, n, m, u)) /\ Ledger(p, n, m)

SerialInv == ~overlapped => \A p \in Peer : Serial(p)

Inv == TypeInv /\ RepliesWhole /\ SentNumbered /\ SerialInv

-----------------------------------------------------------------------------
(* Types are kept.                                                         *)

\* There are two peers.
LEMMA OtherPeer ==
  \A p \in Peer : Other(p) \in Peer /\ Other(p) # p /\ Other(Other(p)) = p
<1> SUFFICES ASSUME NEW p \in Peer
             PROVE  Other(p) \in Peer /\ Other(p) # p /\ Other(Other(p)) = p
  OBVIOUS
<1>1. PICK q \in Peer : q # p /\ Peer = {p, q}
  BY PeerAssumption
<1>2. Other(p) = q
  BY <1>1 DEF Other
<1>3. Other(q) = p
  BY <1>1 DEF Other
<1>4. QED
  BY <1>1, <1>2, <1>3

\* No id, message, peer or name is NULL, nor a message another request.
LEMMA NotNull ==
  /\ \A k \in Id : k \in Nat /\ k # NULL
  /\ \A m \in Message : m # NULL /\ m # Sync /\ m # EOF
  /\ \A u \in Name : u # NULL
  BY DEF Id, Message, Name

\* A reply has at least the bytes of a size; the others are what a sync copies.
LEMMA ReplyNat ==
  \A p \in Peer : /\ ReplyBytes(p) \in Nat /\ ReplyBytes(p) >= HEADER
                  /\ ReplyBytes(p) - HEADER \in Nat /\ ReplyBytes(p) - HEADER = Copied(p)
<1> SUFFICES ASSUME NEW p \in Peer
             PROVE  /\ ReplyBytes(p) \in Nat /\ ReplyBytes(p) >= HEADER
                    /\ ReplyBytes(p) - HEADER \in Nat /\ ReplyBytes(p) - HEADER = Copied(p)
  OBVIOUS
<1>1. StoreSize[p] \in Nat /\ HEADER \in Nat /\ BUFLEN \in Nat /\ HEADER < BUFLEN
  OBVIOUS
<1>2. QED
  BY <1>1 DEF ReplyBytes, Copied

\* The main thread of a peer moves to a typed place.
LEMMA ClientMove ==
  ASSUME ClientTypes, NEW p \in Peer, NEW c \in Client, ClientTyped(c),
         client' = [client EXCEPT ![p] = c]
  PROVE  /\ ClientTypes'
         /\ client'[p] = c /\ \A q \in Peer \ {p} : client'[q] = client[q]
<1>1. /\ client' \in [Peer -> Client]
      /\ client'[p] = c /\ \A q \in Peer \ {p} : client'[q] = client[q]
  <2> HIDE DEF Client
  <2>1. QED
    BY DEF ClientTypes
<1>2. \A q \in Peer : ClientTyped(client'[q])
  BY <1>1 DEF ClientTypes
<1>3. QED
  BY <1>1, <1>2 DEF ClientTypes, ClientTyped

\* And so does a server thread.
LEMMA ServerMove ==
  ASSUME ServerTypes, NEW p \in Peer, NEW t \in Thread, NEW s \in Server, ServerTyped(s),
         server' \in [Peer -> [Thread -> Server]], server'[p][t] = s,
         \A q \in Peer, u \in Thread : q # p \/ u # t => server'[q][u] = server[q][u]
  PROVE  ServerTypes'
<1>1. \A q \in Peer, u \in Thread : ServerTyped(server'[q][u])
  BY DEF ServerTypes
<1>2. QED
  BY <1>1 DEF ServerTypes, ServerTyped

\* A put is appended to the queue of a peer.
LEMMA SubmitTyped ==
  ASSUME TableTypes, NEW p \in Peer, NEW q \in Query, Submit(p, q),
         row' = row, row_count' = row_count
  PROVE  /\ TableTypes'
         /\ queue'[p] = Append(queue[p], q) /\ \A r \in Peer \ {p} : queue'[r] = queue[r]
<1> HIDE DEF Query
<1>1. queue[p] \in Seq(Query)
  BY DEF TableTypes
<1>2. Append(queue[p], q) \in Seq(Query)
  BY <1>1
<1>3. /\ queue' \in [Peer -> Seq(Query)]
      /\ queue'[p] = Append(queue[p], q) /\ \A r \in Peer \ {p} : queue'[r] = queue[r]
  BY <1>2 DEF TableTypes, Submit
<1>4. QED
  BY <1>3 DEF TableTypes

\* The puts of a message are queries.
LEMMA PutTypes ==
  /\ \A k \in Id, u \in Name : put(k, "username", u) \in Query
  /\ \A k \in Id, m \in Message : put(k, "message", m) \in Query
  BY DEF put, Query

\* The program begins with typed state.
LEMMA InitTyped == Init => TypeInv
<1> SUFFICES ASSUME Init PROVE TypeInv
  OBVIOUS
<1>1. ClientTypes
  <2>1. Idle \in Client /\ ClientTyped(Idle)
    BY DEF Idle, Client, ClientTyped, ClientPc
  <2>2. QED
    BY <2>1 DEF Init, ClientTypes
<1>2. ServerTypes /\ ServesOpen
  <2> DEFINE s == [pc |-> "off", name |-> NULL, id |-> NULL, i |-> 0]
  <2>1. s \in Server /\ ServerTyped(s) /\ s.pc = "off"
    BY DEF Server, ServerTyped, ServerPc
  <2>2. server = [p \in Peer |-> [t \in Thread |-> s]]
    BY DEF Init
  <2> HIDE DEF s
  <2>3. QED
    BY <2>1, <2>2 DEF ServerTypes, ServesOpen
<1>3. LinkTypes
  <2>1. NoLink \in Link
    BY DEF NoLink, Link
  <2>2. QED
    BY <2>1 DEF Init, LinkTypes
<1>4. TableTypes
  <2>1. NoRow \in Row
    BY DEF NoRow, Row
  <2> HIDE DEF Query
  <2>2. <<>> \in Seq(Query)
    OBVIOUS
  <2>3. QED
    BY <2>1, <2>2 DEF Init, TableTypes
<1>5. HistoryTypes
  <2>1. overlapped \in BOOLEAN
    BY Zenon DEF Init
  <2>2. QED
    BY <2>1 DEF Init, HistoryTypes
<1>6. CopyTypes
  BY DEF Init, CopyTypes
<1>7. QED
  BY <1>1, <1>2, <1>3, <1>4, <1>5, <1>6 DEF TypeInv

\* The actions of the main thread: its next place, and what else has a type to keep.
LEMMA ConnectTyped ==
  ASSUME TypeInv, NEW p \in Peer, NEW m \in Message \cup {Sync}, NEW t \in Thread,
         Connect(p, m, t)
  PROVE  /\ TypeInv'
         /\ client'[p] = [Idle EXCEPT !.pc = "send", !.req = m, !.to = t]
         /\ \A q \in Peer \ {p} : client'[q] = client[q]
<1> DEFINE c == [Idle EXCEPT !.pc = "send", !.req = m, !.to = t]
           l == [NoLink EXCEPT !.open = TRUE]
<1>1. c \in Client /\ ClientTyped(c)
  BY NotNull DEF Idle, Client, ClientTyped, ClientPc
<1>2. client' = [client EXCEPT ![p] = c]
  BY DEF Connect
<1>3. /\ ClientTypes'
      /\ client'[p] = c /\ \A q \in Peer \ {p} : client'[q] = client[q]
  <2> HIDE DEF c
  <2>1. QED
    BY <1>1, <1>2, ClientMove DEF TypeInv
<1>4. l \in Link /\ l.open
  BY DEF NoLink, Link
<1>5. link' = [link EXCEPT ![Other(p)] = [@ EXCEPT ![t] = l]]
  BY DEF Connect
<1>6. /\ link' \in [Peer -> [Thread -> Link]]
      /\ link'[Other(p)][t].open
      /\ \A q \in Peer, u \in Thread : q # Other(p) \/ u # t => link'[q][u] = link[q][u]
  <2> DEFINE o == Other(p)
  <2>1. o \in Peer /\ LinkTypes /\ link' = [link EXCEPT ![o] = [@ EXCEPT ![t] = l]]
    BY <1>5, OtherPeer DEF TypeInv
  <2> HIDE DEF l, o
  <2>2. /\ link' \in [Peer -> [Thread -> Link]]
        /\ link'[o][t] = l
        /\ \A q \in Peer, u \in Thread : q # o \/ u # t => link'[q][u] = link[q][u]
    BY <1>4, <2>1 DEF LinkTypes
  <2>3. QED
    BY <1>4, <2>2 DEF o
<1>7. LinkTypes' /\ ServesOpen'
  BY <1>6 DEF Connect, TypeInv, LinkTypes, ServesOpen
<1>8. HistoryTypes'
  <2>1. sent' \subseteq [message : Message, from : Peer] /\ syncs' \in Nat
    BY DEF Connect, Ask, TypeInv, HistoryTypes
  <2>2. QED
    BY <2>1 DEF Connect, TypeInv, HistoryTypes
<1>9. ServerTypes' /\ TableTypes' /\ CopyTypes'
  BY DEF Connect, tables, TypeInv, ServerTypes, ServerTyped, TableTypes, CopyTypes
<1>10. QED
  BY <1>3, <1>7, <1>8, <1>9 DEF TypeInv

\* What Send does to its peer or thread, and that the types are kept.
LEMMA SendTyped ==
  ASSUME TypeInv, NEW p \in Peer, Send(p)
  PROVE  /\ TypeInv'
         /\ client'[p] = [client[p] EXCEPT !.pc = "wait"]
         /\ \A q \in Peer \ {p} : client'[q] = client[q]
<1> DEFINE c == [client[p] EXCEPT !.pc = "wait"]
           t == client[p].to
           l == [link[Other(p)][t] EXCEPT !.req = client[p].req]
<1>1. c \in Client /\ ClientTyped(c) /\ t \in Thread /\ client[p].req \in Message \cup {Sync}
  BY DEF Send, TypeInv, ClientTypes, Client, ClientTyped, ClientPc
<1>2. client' = [client EXCEPT ![p] = c]
  BY DEF Send, Go
<1>3. /\ ClientTypes'
      /\ client'[p] = c /\ \A q \in Peer \ {p} : client'[q] = client[q]
  <2> HIDE DEF c
  <2>1. QED
    BY <1>1, <1>2, ClientMove DEF TypeInv
<1>4. l \in Link /\ l.open = link[Other(p)][t].open
  <2>1. Other(p) \in Peer
    BY OtherPeer
  <2>2. link[Other(p)][t] \in Link
    BY <1>1, <2>1 DEF TypeInv, LinkTypes
  <2>3. QED
    BY <1>1, <2>2 DEF Link
<1>5. link' = [link EXCEPT ![Other(p)] = [@ EXCEPT ![t] = l]]
  BY DEF Send
<1>6. /\ link' \in [Peer -> [Thread -> Link]]
      /\ link'[Other(p)][t].open = link[Other(p)][t].open
      /\ \A q \in Peer, u \in Thread : q # Other(p) \/ u # t => link'[q][u] = link[q][u]
  <2> DEFINE o == Other(p)
  <2>1. o \in Peer /\ LinkTypes /\ link' = [link EXCEPT ![o] = [@ EXCEPT ![t] = l]]
    BY <1>5, OtherPeer DEF TypeInv
  <2>2. l.open = link[o][t].open
    BY <1>4
  <2> HIDE DEF l, o, t
  <2>3. /\ link' \in [Peer -> [Thread -> Link]]
        /\ link'[o][t] = l
        /\ \A q \in Peer, u \in Thread : q # o \/ u # t => link'[q][u] = link[q][u]
    BY <1>1, <1>4, <2>1 DEF LinkTypes
  <2>4. QED
    BY <2>2, <2>3 DEF o
<1>7. LinkTypes' /\ ServesOpen'
  BY <1>6 DEF Send, TypeInv, LinkTypes, ServesOpen
<1>8. ServerTypes' /\ TableTypes' /\ CopyTypes' /\ HistoryTypes'
  BY DEF Send, tables, histVars, TypeInv, ServerTypes, ServerTyped, TableTypes, CopyTypes,
         HistoryTypes
<1>9. QED
  BY <1>3, <1>7, <1>8 DEF TypeInv

\* What ReceiveReply does to its peer or thread, and that the types are kept.
LEMMA ReceiveReplyTyped ==
  ASSUME TypeInv, RepliesWhole, NEW p \in Peer, ReceiveReply(p)
  PROVE  /\ TypeInv'
         /\ client'[p] = IF client[p].req = Sync THEN Idle
                         ELSE [client[p] EXCEPT !.pc = "id", !.rep = NULL]
         /\ \A q \in Peer \ {p} : client'[q] = client[q]
         /\ copy' \in [Peer -> Nat \cup {NULL}]
         /\ copy'[p] \in {copy[p], 0, ReplyBytes(Other(p)) - HEADER}
         /\ \A q \in Peer \ {p} : copy'[q] = copy[q]
<1> DEFINE c == IF client[p].req = Sync THEN Idle
                ELSE [client[p] EXCEPT !.pc = "id", !.rep = NULL]
<1>1. client[p].req \in Message \cup {Sync}
  BY DEF ReceiveReply, TypeInv, ClientTypes, Client, ClientTyped
<1>2. c \in Client /\ ClientTyped(c)
  <2>1. CASE client[p].req = Sync
    BY <2>1 DEF Idle, Client, ClientTyped, ClientPc
  <2>2. CASE client[p].req # Sync
    BY <1>1, <2>2, NotNull
    DEF ReceiveReply, TypeInv, ClientTypes, Client, ClientTyped, ClientPc
  <2>3. QED
    BY <2>1, <2>2
<1>3. client' = [client EXCEPT ![p] = c]
  BY DEF ReceiveReply, ToMenu
<1>4. /\ ClientTypes'
      /\ client'[p] = c /\ \A q \in Peer \ {p} : client'[q] = client[q]
  <2> HIDE DEF c
  <2>1. QED
    BY <1>2, <1>3, ClientMove DEF TypeInv
<1>5. /\ copy' \in [Peer -> Nat \cup {NULL}]
      /\ copy'[p] \in {copy[p], 0, ReplyBytes(Other(p)) - HEADER}
      /\ \A q \in Peer \ {p} : copy'[q] = copy[q]
  <2>1. CASE client[p].req # Sync
    BY <2>1 DEF ReceiveReply, TypeInv, CopyTypes
  <2>2. CASE client[p].req = Sync
    <3> DEFINE n == IF client[p].rep.echo THEN 0 ELSE client[p].rep.bytes - HEADER
    <3>1. copy' = [copy EXCEPT ![p] = n]
      BY <2>2 DEF ReceiveReply
    <3>2. n \in {0, ReplyBytes(Other(p)) - HEADER}
      BY DEF ReceiveReply, RepliesWhole
    <3>3. n \in Nat
      BY <3>2, OtherPeer, ReplyNat
    <3> HIDE DEF n
    <3>4. QED
      BY <3>1, <3>2, <3>3 DEF TypeInv, CopyTypes
  <2>3. QED
    BY <2>1, <2>2
<1>6. HistoryTypes'
  BY <1>1 DEF ReceiveReply, TypeInv, HistoryTypes
<1>7. ServerTypes' /\ LinkTypes' /\ ServesOpen' /\ TableTypes'
  BY DEF ReceiveReply, tables, TypeInv, ServerTypes, ServerTyped, LinkTypes, ServesOpen, TableTypes
<1>8. QED
  BY <1>4, <1>5, <1>6, <1>7 DEF TypeInv, CopyTypes

\* The next id is one, and whether it was read early is a truth value.
LEMMA ReadIdTyped ==
  ASSUME TypeInv, NEW p \in Peer, ReadId(p)
  PROVE  get_new_msg_id(p) \in Id /\ overlapped' \in BOOLEAN
<1>1. get_new_msg_id(p) \in Id
  BY DEF ReadId, get_new_msg_id, TypeInv, TableTypes, Id
<1>2. overlapped' \in BOOLEAN
  BY Zenon DEF ReadId
<1>3. QED
  BY <1>1, <1>2

\* What ClientReadId does to its peer or thread, and that the types are kept.
LEMMA ClientReadIdTyped ==
  ASSUME TypeInv, NEW p \in Peer, ClientReadId(p)
  PROVE  /\ TypeInv'
         /\ client'[p] = [client[p] EXCEPT !.pc = "message", !.id = get_new_msg_id(p)]
         /\ \A q \in Peer \ {p} : client'[q] = client[q]
<1> DEFINE n == get_new_msg_id(p)
           c == [client[p] EXCEPT !.pc = "message", !.id = n]
<1>1. n \in Id /\ overlapped' \in BOOLEAN
  BY ReadIdTyped DEF ClientReadId
<1>2. c \in Client /\ ClientTyped(c)
  <2>1. client[p] \in Client /\ client[p].pc = "id" /\ client[p].req \in Message
    BY DEF ClientReadId, TypeInv, ClientTypes, ClientTyped
  <2>2. n # NULL /\ client[p].req # NULL
    BY <1>1, <2>1, NotNull
  <2> HIDE DEF n
  <2>3. QED
    BY <1>1, <2>1, <2>2 DEF Client, ClientTyped, ClientPc
<1>3. client' = [client EXCEPT ![p] = c]
  BY DEF ClientReadId
<1>4. /\ ClientTypes'
      /\ client'[p] = c /\ \A q \in Peer \ {p} : client'[q] = client[q]
  <2> HIDE DEF c
  <2>1. QED
    BY <1>2, <1>3, ClientMove DEF TypeInv
<1>5. HistoryTypes'
  BY <1>1 DEF ClientReadId, TypeInv, HistoryTypes
<1>6. ServerTypes' /\ LinkTypes' /\ ServesOpen' /\ TableTypes' /\ CopyTypes'
  BY DEF ClientReadId, tables, TypeInv, ServerTypes, ServerTyped, LinkTypes, ServesOpen,
         TableTypes, CopyTypes
<1>7. QED
  BY <1>4, <1>5, <1>6 DEF TypeInv

\* What ClientPutMessage does to its peer or thread, and that the types are kept.
LEMMA ClientPutMessageTyped ==
  ASSUME TypeInv, NEW p \in Peer, ClientPutMessage(p)
  PROVE  /\ TypeInv'
         /\ client'[p] = [client[p] EXCEPT !.pc = "username"]
         /\ \A q \in Peer \ {p} : client'[q] = client[q]
         /\ queue'[p] = Append(queue[p], put(client[p].id, "message", client[p].req))
         /\ \A q \in Peer \ {p} : queue'[q] = queue[q]
<1> DEFINE c == [client[p] EXCEPT !.pc = "username"]
           q == put(client[p].id, "message", client[p].req)
<1>1. c \in Client /\ ClientTyped(c)
  BY DEF ClientPutMessage, TypeInv, ClientTypes, Client, ClientTyped, ClientPc
<1>2. client' = [client EXCEPT ![p] = c]
  BY DEF ClientPutMessage, Go
<1>3. /\ ClientTypes'
      /\ client'[p] = c /\ \A r \in Peer \ {p} : client'[r] = client[r]
  <2> HIDE DEF c
  <2>1. QED
    BY <1>1, <1>2, ClientMove DEF TypeInv
<1>4. client[p].id \in Id /\ client[p].req \in Message
  BY DEF ClientPutMessage, TypeInv, ClientTypes, Client, ClientTyped
<1>5. q \in Query
  BY <1>4, PutTypes
<1>6. TableTypes' /\ queue'[p] = Append(queue[p], q) /\ \A r \in Peer \ {p} : queue'[r] = queue[r]
  <2>1. Submit(p, q) /\ row' = row /\ row_count' = row_count
    BY DEF ClientPutMessage
  <2> HIDE DEF q, Query
  <2>2. QED
    BY <1>5, <2>1, SubmitTyped DEF TypeInv
<1>7. ServerTypes' /\ LinkTypes' /\ ServesOpen' /\ CopyTypes' /\ HistoryTypes'
  BY DEF ClientPutMessage, histVars, TypeInv, ServerTypes, ServerTyped, LinkTypes, ServesOpen,
         CopyTypes, HistoryTypes
<1>8. QED
  BY <1>3, <1>6, <1>7 DEF TypeInv

\* What ClientPutUsername does to its peer or thread, and that the types are kept.
LEMMA ClientPutUsernameTyped ==
  ASSUME TypeInv, NEW p \in Peer, ClientPutUsername(p)
  PROVE  /\ TypeInv'
         /\ client'[p] = Idle
         /\ \A q \in Peer \ {p} : client'[q] = client[q]
         /\ queue'[p] = Append(queue[p], put(client[p].id, "username", p))
         /\ \A q \in Peer \ {p} : queue'[q] = queue[q]
<1> DEFINE q == put(client[p].id, "username", p)
<1>1. Idle \in Client /\ ClientTyped(Idle)
  BY DEF Idle, Client, ClientTyped, ClientPc
<1>2. client' = [client EXCEPT ![p] = Idle]
  BY DEF ClientPutUsername, ToMenu
<1>3. /\ ClientTypes'
      /\ client'[p] = Idle /\ \A r \in Peer \ {p} : client'[r] = client[r]
  BY <1>1, <1>2, ClientMove DEF TypeInv
<1>4. client[p].id \in Id
  BY DEF ClientPutUsername, TypeInv, ClientTypes, Client, ClientTyped
<1>5. q \in Query
  BY <1>4, PutTypes DEF Name
<1>6. TableTypes' /\ queue'[p] = Append(queue[p], q) /\ \A r \in Peer \ {p} : queue'[r] = queue[r]
  <2>1. Submit(p, q) /\ row' = row /\ row_count' = row_count
    BY DEF ClientPutUsername
  <2> HIDE DEF q, Query
  <2>2. QED
    BY <1>5, <2>1, SubmitTyped DEF TypeInv
<1>7. ServerTypes' /\ LinkTypes' /\ ServesOpen' /\ CopyTypes' /\ HistoryTypes'
  BY DEF ClientPutUsername, histVars, TypeInv, ServerTypes, ServerTyped, LinkTypes, ServesOpen,
         CopyTypes, HistoryTypes
<1>8. QED
  BY <1>3, <1>6, <1>7 DEF TypeInv

\* The actions of the server threads: the same.
LEMMA StartThreadTyped ==
  ASSUME TypeInv, NEW p \in Peer, NEW t \in Thread, StartThread(p, t)
  PROVE  /\ TypeInv'
         /\ server'[p][t] = [server[p][t] EXCEPT !.pc = "bind"]
         /\ \A q \in Peer, u \in Thread : q # p \/ u # t => server'[q][u] = server[q][u]
<1> DEFINE s == [server[p][t] EXCEPT !.pc = "bind"]
<1>1. s \in Server /\ ServerTyped(s) /\ s.pc = "bind"
  <2>1. server[p][t] \in Server /\ ServerTyped(server[p][t])
    BY DEF TypeInv, ServerTypes
  <2>2. QED
    BY <2>1 DEF StartThread, Server, ServerTyped, ServerPc
<1>2. /\ server' \in [Peer -> [Thread -> Server]]
      /\ server'[p][t] = s
      /\ \A q \in Peer, u \in Thread : q # p \/ u # t => server'[q][u] = server[q][u]
  <2>1. server' = [server EXCEPT ![p] = [@ EXCEPT ![t] = s]]
    BY DEF StartThread, ServerGo, TypeInv, ServerTypes
  <2> HIDE DEF s
  <2>2. QED
    BY <1>1, <2>1 DEF TypeInv, ServerTypes
<1>3. ServerTypes'
  <2> HIDE DEF s
  <2>1. QED
    BY <1>1, <1>2, ServerMove DEF TypeInv
<1>4. ServesOpen'
  <2> HIDE DEF s
  <2>1. QED
    BY <1>1, <1>2 DEF StartThread, TypeInv, ServesOpen
<1>5. ClientTypes' /\ LinkTypes' /\ TableTypes' /\ CopyTypes' /\ HistoryTypes'
  BY DEF StartThread, tables, histVars, TypeInv, ClientTypes, ClientTyped, LinkTypes, TableTypes,
         CopyTypes, HistoryTypes
<1>6. QED
  BY <1>2, <1>3, <1>4, <1>5 DEF TypeInv

\* What Bind does to its peer or thread, and that the types are kept.
LEMMA BindTyped ==
  ASSUME TypeInv, NEW p \in Peer, NEW t \in Thread, Bind(p, t)
  PROVE  /\ TypeInv'
         /\ server'[p][t] = [server[p][t] EXCEPT !.pc = "listen"]
         /\ \A q \in Peer, u \in Thread : q # p \/ u # t => server'[q][u] = server[q][u]
<1> DEFINE s == [server[p][t] EXCEPT !.pc = "listen"]
<1>1. s \in Server /\ ServerTyped(s) /\ s.pc = "listen"
  <2>1. server[p][t] \in Server /\ ServerTyped(server[p][t])
    BY DEF TypeInv, ServerTypes
  <2>2. QED
    BY <2>1 DEF Bind, Server, ServerTyped, ServerPc
<1>2. /\ server' \in [Peer -> [Thread -> Server]]
      /\ server'[p][t] = s
      /\ \A q \in Peer, u \in Thread : q # p \/ u # t => server'[q][u] = server[q][u]
  <2>1. server' = [server EXCEPT ![p] = [@ EXCEPT ![t] = s]]
    BY DEF Bind, ServerGo, TypeInv, ServerTypes
  <2> HIDE DEF s
  <2>2. QED
    BY <1>1, <2>1 DEF TypeInv, ServerTypes
<1>3. ServerTypes'
  <2> HIDE DEF s
  <2>1. QED
    BY <1>1, <1>2, ServerMove DEF TypeInv
<1>4. ServesOpen'
  <2> HIDE DEF s
  <2>1. QED
    BY <1>1, <1>2 DEF Bind, TypeInv, ServesOpen
<1>5. ClientTypes' /\ LinkTypes' /\ TableTypes' /\ CopyTypes' /\ HistoryTypes'
  BY DEF Bind, tables, histVars, TypeInv, ClientTypes, ClientTyped, LinkTypes, TableTypes,
         CopyTypes, HistoryTypes
<1>6. QED
  BY <1>2, <1>3, <1>4, <1>5 DEF TypeInv

\* What Accept does to its peer or thread, and that the types are kept.
LEMMA AcceptTyped ==
  ASSUME TypeInv, NEW p \in Peer, NEW t \in Thread, Accept(p, t)
  PROVE  /\ TypeInv'
         /\ server'[p][t] = [server[p][t] EXCEPT !.pc = "recv"]
         /\ \A q \in Peer, u \in Thread : q # p \/ u # t => server'[q][u] = server[q][u]
<1> DEFINE s == [server[p][t] EXCEPT !.pc = "recv"]
<1>1. s \in Server /\ ServerTyped(s) /\ s.pc = "recv"
  <2>1. server[p][t] \in Server /\ ServerTyped(server[p][t])
    BY DEF TypeInv, ServerTypes
  <2>2. QED
    BY <2>1 DEF Accept, Server, ServerTyped, ServerPc
<1>2. /\ server' \in [Peer -> [Thread -> Server]]
      /\ server'[p][t] = s
      /\ \A q \in Peer, u \in Thread : q # p \/ u # t => server'[q][u] = server[q][u]
  <2>1. server' = [server EXCEPT ![p] = [@ EXCEPT ![t] = s]]
    BY DEF Accept, ServerGo, TypeInv, ServerTypes
  <2> HIDE DEF s
  <2>2. QED
    BY <1>1, <2>1 DEF TypeInv, ServerTypes
<1>3. ServerTypes'
  <2> HIDE DEF s
  <2>1. QED
    BY <1>1, <1>2, ServerMove DEF TypeInv
<1>4. ServesOpen'
  <2> HIDE DEF s
  <2>1. QED
    BY <1>1, <1>2 DEF Accept, TypeInv, ServesOpen
<1>5. ClientTypes' /\ LinkTypes' /\ TableTypes' /\ CopyTypes' /\ HistoryTypes'
  BY DEF Accept, tables, histVars, TypeInv, ClientTypes, ClientTyped, LinkTypes, TableTypes,
         CopyTypes, HistoryTypes
<1>6. QED
  BY <1>2, <1>3, <1>4, <1>5 DEF TypeInv

\* What ReceiveSync does to its peer or thread, and that the types are kept.
LEMMA ReceiveSyncTyped ==
  ASSUME TypeInv, NEW p \in Peer, NEW t \in Thread, ReceiveSync(p, t)
  PROVE  /\ TypeInv'
         /\ server'[p][t] = [server[p][t] EXCEPT !.pc = "reply", !.i = HEADER]
         /\ \A q \in Peer, u \in Thread : q # p \/ u # t => server'[q][u] = server[q][u]
<1> DEFINE s == [server[p][t] EXCEPT !.pc = "reply", !.i = HEADER]
           l == [link[p][t] EXCEPT !.req = EOF]
<1>1. s \in Server /\ ServerTyped(s) /\ s.pc = "reply"
  <2>1. server[p][t] \in Server /\ ServerTyped(server[p][t])
    BY DEF TypeInv, ServerTypes
  <2>2. QED
    BY <2>1 DEF ReceiveSync, Server, ServerTyped, ServerPc
<1>2. /\ server' \in [Peer -> [Thread -> Server]]
      /\ server'[p][t] = s
      /\ \A q \in Peer, u \in Thread : q # p \/ u # t => server'[q][u] = server[q][u]
  <2>1. server' = [server EXCEPT ![p] = [@ EXCEPT ![t] = s]]
    BY DEF ReceiveSync, TypeInv, ServerTypes
  <2> HIDE DEF s
  <2>2. QED
    BY <1>1, <2>1 DEF TypeInv, ServerTypes
<1>3. ServerTypes'
  <2> HIDE DEF s
  <2>1. QED
    BY <1>1, <1>2, ServerMove DEF TypeInv
<1>4. /\ link' \in [Peer -> [Thread -> Link]]
      /\ \A q \in Peer, u \in Thread : link'[q][u].open = link[q][u].open
  <2>1. l \in Link /\ l.open = link[p][t].open
    BY DEF TypeInv, LinkTypes, Link
  <2>2. link' = [link EXCEPT ![p] = [@ EXCEPT ![t] = l]]
    BY DEF ReceiveSync
  <2> HIDE DEF l
  <2>3. QED
    BY <2>1, <2>2 DEF TypeInv, LinkTypes
<1>5. dirty' \in [Peer -> [Thread -> {TRUE, FALSE, NULL}]]
  BY DEF ReceiveSync, TypeInv, LinkTypes
<1>6. LinkTypes' /\ ServesOpen'
  <2>1. LinkTypes'
    BY <1>4, <1>5 DEF LinkTypes
  <2>2. link[p][t].open
    BY DEF ReceiveSync, TypeInv, ServesOpen
  <2> HIDE DEF s
  <2>3. ServesOpen'
    BY <1>2, <1>4, <2>2 DEF TypeInv, ServesOpen
  <2>4. QED
    BY <2>1, <2>3
<1>7. ClientTypes' /\ TableTypes' /\ CopyTypes' /\ HistoryTypes'
  BY DEF ReceiveSync, tables, histVars, TypeInv, ClientTypes, ClientTyped, TableTypes, CopyTypes,
         HistoryTypes
<1>8. QED
  BY <1>2, <1>3, <1>6, <1>7 DEF TypeInv

\* What ReceiveMessage does to its peer or thread, and that the types are kept.
LEMMA ReceiveMessageTyped ==
  ASSUME TypeInv, NEW p \in Peer, NEW t \in Thread, ReceiveMessage(p, t)
  PROVE  /\ TypeInv'
         /\ server'[p][t] = [server[p][t] EXCEPT !.pc = "id",
                                    !.name = IF link[p][t].req = Sync THEN Noise ELSE Other(p)]
         /\ \A q \in Peer, u \in Thread : q # p \/ u # t => server'[q][u] = server[q][u]
<1> DEFINE n == IF link[p][t].req = Sync THEN Noise ELSE Other(p)
           s == [server[p][t] EXCEPT !.pc = "id", !.name = n]
           l == [link[p][t] EXCEPT !.req = EOF]
<1>1. s \in Server /\ ServerTyped(s) /\ s.pc = "id"
  <2>1. n \in Name
    BY OtherPeer DEF Name
  <2>2. server[p][t] \in Server /\ ServerTyped(server[p][t])
    BY DEF TypeInv, ServerTypes
  <2> HIDE DEF n
  <2>3. QED
    BY <2>1, <2>2 DEF ReceiveMessage, Server, ServerTyped, ServerPc
<1>2. /\ server' \in [Peer -> [Thread -> Server]]
      /\ server'[p][t] = s
      /\ \A q \in Peer, u \in Thread : q # p \/ u # t => server'[q][u] = server[q][u]
  <2>1. server' = [server EXCEPT ![p] = [@ EXCEPT ![t] = s]]
    BY DEF ReceiveMessage, TypeInv, ServerTypes
  <2> HIDE DEF s
  <2>2. QED
    BY <1>1, <2>1 DEF TypeInv, ServerTypes
<1>3. ServerTypes'
  <2> HIDE DEF s
  <2>1. QED
    BY <1>1, <1>2, ServerMove DEF TypeInv
<1>4. /\ link' \in [Peer -> [Thread -> Link]]
      /\ \A q \in Peer, u \in Thread : link'[q][u].open = link[q][u].open
  <2>1. l \in Link /\ l.open = link[p][t].open
    BY DEF TypeInv, LinkTypes, Link
  <2>2. link' = [link EXCEPT ![p] = [@ EXCEPT ![t] = l]]
    BY DEF ReceiveMessage
  <2> HIDE DEF l
  <2>3. QED
    BY <2>1, <2>2 DEF TypeInv, LinkTypes
<1>5. dirty' \in [Peer -> [Thread -> {TRUE, FALSE, NULL}]]
  BY DEF ReceiveMessage, TypeInv, LinkTypes
<1>6. LinkTypes' /\ ServesOpen'
  <2>1. LinkTypes'
    BY <1>4, <1>5 DEF LinkTypes
  <2>2. link[p][t].open
    BY DEF ReceiveMessage, TypeInv, ServesOpen
  <2> HIDE DEF s
  <2>3. ServesOpen'
    BY <1>2, <1>4, <2>2 DEF TypeInv, ServesOpen
  <2>4. QED
    BY <2>1, <2>3
<1>7. ClientTypes' /\ TableTypes' /\ CopyTypes' /\ HistoryTypes'
  BY DEF ReceiveMessage, tables, histVars, TypeInv, ClientTypes, ClientTyped, TableTypes, CopyTypes,
         HistoryTypes
<1>8. QED
  BY <1>2, <1>3, <1>6, <1>7 DEF TypeInv

\* What ServerReadId does to its peer or thread, and that the types are kept.
LEMMA ServerReadIdTyped ==
  ASSUME TypeInv, NEW p \in Peer, NEW t \in Thread, ServerReadId(p, t)
  PROVE  /\ TypeInv'
         /\ server'[p][t] = [server[p][t] EXCEPT !.pc = "first", !.id = get_new_msg_id(p)]
         /\ \A q \in Peer, u \in Thread : q # p \/ u # t => server'[q][u] = server[q][u]
<1> DEFINE n == get_new_msg_id(p)
           s == [server[p][t] EXCEPT !.pc = "first", !.id = n]
<1>1. s \in Server /\ ServerTyped(s) /\ s.pc = "first" /\ overlapped' \in BOOLEAN
  <2>1. n \in Id /\ overlapped' \in BOOLEAN
    BY ReadIdTyped DEF ServerReadId
  <2>2. n # NULL
    BY <2>1, NotNull
  <2>3. server[p][t] \in Server /\ ServerTyped(server[p][t])
    BY DEF TypeInv, ServerTypes
  <2> HIDE DEF n
  <2>4. QED
    BY <2>1, <2>2, <2>3 DEF ServerReadId, Server, ServerTyped, ServerPc
<1>2. /\ server' \in [Peer -> [Thread -> Server]]
      /\ server'[p][t] = s
      /\ \A q \in Peer, u \in Thread : q # p \/ u # t => server'[q][u] = server[q][u]
  <2>1. server' = [server EXCEPT ![p] = [@ EXCEPT ![t] = s]]
    BY DEF ServerReadId, TypeInv, ServerTypes
  <2> HIDE DEF s
  <2>2. QED
    BY <1>1, <2>1 DEF TypeInv, ServerTypes
<1>3. ServerTypes'
  <2> HIDE DEF s
  <2>1. QED
    BY <1>1, <1>2, ServerMove DEF TypeInv
<1>4. ServesOpen'
  <2> HIDE DEF s
  <2>1. QED
    BY <1>1, <1>2 DEF ServerReadId, TypeInv, ServesOpen
<1>5. HistoryTypes'
  BY <1>1 DEF ServerReadId, TypeInv, HistoryTypes
<1>6. ClientTypes' /\ LinkTypes' /\ TableTypes' /\ CopyTypes'
  BY DEF ServerReadId, tables, TypeInv, ClientTypes, ClientTyped, LinkTypes, TableTypes, CopyTypes
<1>7. QED
  BY <1>2, <1>3, <1>4, <1>5, <1>6 DEF TypeInv

\* What ServerPutFirst does to its peer or thread, and that the types are kept.
LEMMA ServerPutFirstTyped ==
  ASSUME TypeInv, NEW p \in Peer, NEW t \in Thread, ServerPutFirst(p, t)
  PROVE  /\ TypeInv'
         /\ server'[p][t] = [server[p][t] EXCEPT !.pc = "second"]
         /\ \A q \in Peer, u \in Thread : q # p \/ u # t => server'[q][u] = server[q][u]
         /\ queue'[p] = Append(queue[p], put(server[p][t].id, "username", server[p][t].name))
         /\ \A q \in Peer \ {p} : queue'[q] = queue[q]
<1> DEFINE s == [server[p][t] EXCEPT !.pc = "second"]
           w == put(server[p][t].id, "username", server[p][t].name)
<1>1. s \in Server /\ ServerTyped(s) /\ s.pc = "second"
  <2>1. server[p][t] \in Server /\ ServerTyped(server[p][t])
    BY DEF TypeInv, ServerTypes
  <2>2. QED
    BY <2>1 DEF ServerPutFirst, Server, ServerTyped, ServerPc
<1>2. /\ server' \in [Peer -> [Thread -> Server]]
      /\ server'[p][t] = s
      /\ \A q \in Peer, u \in Thread : q # p \/ u # t => server'[q][u] = server[q][u]
  <2>1. server' = [server EXCEPT ![p] = [@ EXCEPT ![t] = s]]
    BY DEF ServerPutFirst, ServerGo, TypeInv, ServerTypes
  <2> HIDE DEF s
  <2>2. QED
    BY <1>1, <2>1 DEF TypeInv, ServerTypes
<1>3. ServerTypes'
  <2> HIDE DEF s
  <2>1. QED
    BY <1>1, <1>2, ServerMove DEF TypeInv
<1>4. ServesOpen'
  <2> HIDE DEF s
  <2>1. QED
    BY <1>1, <1>2 DEF ServerPutFirst, TypeInv, ServesOpen
<1>5. TableTypes' /\ queue'[p] = Append(queue[p], w) /\ \A r \in Peer \ {p} : queue'[r] = queue[r]
  <2>1. server[p][t].id \in Id /\ server[p][t].name \in Name
    BY DEF ServerPutFirst, TypeInv, ServerTypes, Server, ServerTyped
  <2>2. w \in Query
    BY <2>1, PutTypes
  <2>3. Submit(p, w) /\ row' = row /\ row_count' = row_count
    BY DEF ServerPutFirst
  <2> HIDE DEF w, Query
  <2>4. QED
    BY <2>2, <2>3, SubmitTyped DEF TypeInv
<1>6. ClientTypes' /\ LinkTypes' /\ CopyTypes' /\ HistoryTypes'
  BY DEF ServerPutFirst, histVars, TypeInv, ClientTypes, ClientTyped, LinkTypes, CopyTypes,
         HistoryTypes
<1>7. QED
  BY <1>2, <1>3, <1>4, <1>5, <1>6 DEF TypeInv

\* What ServerPutSecond does to its peer or thread, and that the types are kept.
LEMMA ServerPutSecondTyped ==
  ASSUME TypeInv, NEW p \in Peer, NEW t \in Thread, ServerPutSecond(p, t)
  PROVE  /\ TypeInv'
         /\ server'[p][t] = [server[p][t] EXCEPT !.pc = "echo", !.id = NULL, !.name = NULL]
         /\ \A q \in Peer, u \in Thread : q # p \/ u # t => server'[q][u] = server[q][u]
         /\ queue'[p] = Append(queue[p], put(server[p][t].id, "username", server[p][t].name))
         /\ \A q \in Peer \ {p} : queue'[q] = queue[q]
<1> DEFINE s == [server[p][t] EXCEPT !.pc = "echo", !.id = NULL, !.name = NULL]
           w == put(server[p][t].id, "username", server[p][t].name)
<1>1. s \in Server /\ ServerTyped(s) /\ s.pc = "echo"
  <2>1. server[p][t] \in Server /\ ServerTyped(server[p][t])
    BY DEF TypeInv, ServerTypes
  <2>2. QED
    BY <2>1 DEF ServerPutSecond, Server, ServerTyped, ServerPc
<1>2. /\ server' \in [Peer -> [Thread -> Server]]
      /\ server'[p][t] = s
      /\ \A q \in Peer, u \in Thread : q # p \/ u # t => server'[q][u] = server[q][u]
  <2>1. server' = [server EXCEPT ![p] = [@ EXCEPT ![t] = s]]
    BY DEF ServerPutSecond, TypeInv, ServerTypes
  <2> HIDE DEF s
  <2>2. QED
    BY <1>1, <2>1 DEF TypeInv, ServerTypes
<1>3. ServerTypes'
  <2> HIDE DEF s
  <2>1. QED
    BY <1>1, <1>2, ServerMove DEF TypeInv
<1>4. ServesOpen'
  <2> HIDE DEF s
  <2>1. QED
    BY <1>1, <1>2 DEF ServerPutSecond, TypeInv, ServesOpen
<1>5. TableTypes' /\ queue'[p] = Append(queue[p], w) /\ \A r \in Peer \ {p} : queue'[r] = queue[r]
  <2>1. server[p][t].id \in Id /\ server[p][t].name \in Name
    BY DEF ServerPutSecond, TypeInv, ServerTypes, Server, ServerTyped
  <2>2. w \in Query
    BY <2>1, PutTypes
  <2>3. Submit(p, w) /\ row' = row /\ row_count' = row_count
    BY DEF ServerPutSecond
  <2> HIDE DEF w, Query
  <2>4. QED
    BY <2>2, <2>3, SubmitTyped DEF TypeInv
<1>6. ClientTypes' /\ LinkTypes' /\ CopyTypes' /\ HistoryTypes'
  BY DEF ServerPutSecond, histVars, TypeInv, ClientTypes, ClientTyped, LinkTypes, CopyTypes,
         HistoryTypes
<1>7. QED
  BY <1>2, <1>3, <1>4, <1>5, <1>6 DEF TypeInv

\* What the threads of a peer do to a client.
Answers(p) ==
  /\ client'[p] = client[p]
  /\ \A q \in Peer : \E r \in Reply :
       /\ client'[q] \in {client[q], [client[q] EXCEPT !.rep = r]}
       /\ r.echo \/ r.bytes = ReplyBytes(p)

\* A reply reaches the client, or not; it is the only thing about a client that changes.
LEMMA DeliverTyped ==
  ASSUME TypeInv, NEW p \in Peer, NEW t \in Thread, NEW r \in Reply, Deliver(p, t, r)
  PROVE  /\ ClientTypes'
         /\ \A q \in Peer : client'[q] \in {client[q], [client[q] EXCEPT !.rep = r]}
         /\ client'[p] = client[p]
<1> DEFINE o == Other(p)
<1>1. CASE client' = client
  BY <1>1 DEF TypeInv, ClientTypes, ClientTyped
<1>2. CASE client' # client
  <2> DEFINE c == [client[o] EXCEPT !.rep = r]
  <2>1. client' = [client EXCEPT ![o] = c] /\ o \in Peer /\ o # p
    BY <1>2, OtherPeer DEF Deliver
  <2>2. c \in Client /\ ClientTyped(c)
    <3>1. client[o] \in Client /\ ClientTyped(client[o])
      BY <2>1 DEF TypeInv, ClientTypes
    <3> HIDE DEF o, Reply
    <3>2. QED
      BY <3>1 DEF Client, ClientTyped
  <2>3. /\ ClientTypes'
        /\ client'[o] = c /\ \A q \in Peer \ {o} : client'[q] = client[q]
    <3> HIDE DEF c, o
    <3>1. QED
      BY <2>1, <2>2, ClientMove DEF TypeInv
  <2> HIDE DEF o
  <2>4. QED
    BY <2>1, <2>3
<1>3. QED
  BY <1>1, <1>2

\* It leaves alone where the client is, what it has asked for and the id it holds.
LEMMA AnswersKeep ==
  ASSUME TypeInv, NEW p \in Peer, Answers(p)
  PROVE  \A q \in Peer : /\ client'[q].pc = client[q].pc /\ client'[q].req = client[q].req
                         /\ client'[q].id = client[q].id
<1> SUFFICES ASSUME NEW q \in Peer
             PROVE  /\ client'[q].pc = client[q].pc /\ client'[q].req = client[q].req
                    /\ client'[q].id = client[q].id
  OBVIOUS
<1>1. client[q] \in Client
  BY DEF TypeInv, ClientTypes
<1>2. PICK r \in Reply : client'[q] \in {client[q], [client[q] EXCEPT !.rep = r]}
  BY DEF Answers
<1>3. QED
  BY <1>1, <1>2 DEF Client

\* What Echo does to its peer or thread, and that the types are kept.
LEMMA EchoTyped ==
  ASSUME TypeInv, RepliesWhole, NEW p \in Peer, NEW t \in Thread, Echo(p, t)
  PROVE  /\ TypeInv'
         /\ server'[p][t] = [server[p][t] EXCEPT !.pc = "recv"]
         /\ \A q \in Peer, u \in Thread : q # p \/ u # t => server'[q][u] = server[q][u]
         /\ Answers(p)
<1> DEFINE s == [server[p][t] EXCEPT !.pc = "recv"]
           r == [echo |-> TRUE, bytes |-> 0]
<1>1. s \in Server /\ ServerTyped(s) /\ s.pc = "recv"
  <2>1. server[p][t] \in Server /\ ServerTyped(server[p][t])
    BY DEF TypeInv, ServerTypes
  <2>2. QED
    BY <2>1 DEF Echo, Server, ServerTyped, ServerPc
<1>2. /\ server' \in [Peer -> [Thread -> Server]]
      /\ server'[p][t] = s
      /\ \A q \in Peer, u \in Thread : q # p \/ u # t => server'[q][u] = server[q][u]
  <2>1. server' = [server EXCEPT ![p] = [@ EXCEPT ![t] = s]]
    BY DEF Echo, ServerGo, TypeInv, ServerTypes
  <2> HIDE DEF s
  <2>2. QED
    BY <1>1, <2>1 DEF TypeInv, ServerTypes
<1>3. ServerTypes'
  <2> HIDE DEF s
  <2>1. QED
    BY <1>1, <1>2, ServerMove DEF TypeInv
<1>4. r \in Reply /\ (r.echo \/ r.bytes = ReplyBytes(p))
  BY DEF Reply
<1>5. /\ ClientTypes' /\ client'[p] = client[p]
      /\ \A q \in Peer : client'[q] \in {client[q], [client[q] EXCEPT !.rep = r]}
  <2>1. Deliver(p, t, r)
    BY DEF Echo
  <2> HIDE DEF r, Reply
  <2>2. QED
    BY <1>4, <2>1, DeliverTyped
<1>6. ServesOpen'
  <2>1. link[p][t].open
    BY DEF Echo, TypeInv, ServesOpen
  <2> HIDE DEF s
  <2>2. QED
    BY <1>2, <2>1 DEF Echo, TypeInv, ServesOpen
<1>7. LinkTypes' /\ TableTypes' /\ CopyTypes' /\ HistoryTypes'
  BY DEF Echo, tables, histVars, TypeInv, LinkTypes, TableTypes, CopyTypes, HistoryTypes
<1>8. TypeInv'
  BY <1>3, <1>5, <1>6, <1>7 DEF TypeInv
<1> HIDE DEF r, Reply
<1>9. Answers(p)
  BY <1>4, <1>5 DEF Answers
<1>10. QED
  BY <1>2, <1>8, <1>9

\* What ReplyLast does to its peer or thread, and that the types are kept.
LEMMA ReplyLastTyped ==
  ASSUME TypeInv, RepliesWhole, NEW p \in Peer, NEW t \in Thread, ReplyLast(p, t)
  PROVE  /\ TypeInv'
         /\ server'[p][t] = [server[p][t] EXCEPT !.pc = "recv"]
         /\ \A q \in Peer, u \in Thread : q # p \/ u # t => server'[q][u] = server[q][u]
         /\ Answers(p)
<1> DEFINE s == [server[p][t] EXCEPT !.pc = "recv"]
           r == Bytes(LastOf(p, t))
<1>1. s \in Server /\ ServerTyped(s) /\ s.pc = "recv"
  <2>1. server[p][t] \in Server /\ ServerTyped(server[p][t])
    BY DEF TypeInv, ServerTypes
  <2>2. QED
    BY <2>1 DEF ReplyLast, Server, ServerTyped, ServerPc
<1>2. /\ server' \in [Peer -> [Thread -> Server]]
      /\ server'[p][t] = s
      /\ \A q \in Peer, u \in Thread : q # p \/ u # t => server'[q][u] = server[q][u]
  <2>1. server' = [server EXCEPT ![p] = [@ EXCEPT ![t] = s]]
    BY DEF ReplyLast, ServerGo, TypeInv, ServerTypes
  <2> HIDE DEF s
  <2>2. QED
    BY <1>1, <2>1 DEF TypeInv, ServerTypes
<1>3. ServerTypes'
  <2> HIDE DEF s
  <2>1. QED
    BY <1>1, <1>2, ServerMove DEF TypeInv
<1>4. r \in Reply /\ (r.echo \/ r.bytes = ReplyBytes(p))
  <2>1. StoreSize[p] \in Nat /\ server[p][t].i = HEADER /\ StoreSize[p] < BUFLEN
    BY DEF ReplyLast, RepliesWhole
  <2>2. LastOf(p, t) = ReplyBytes(p)
    BY <2>1 DEF LastOf, ReplyBytes
  <2>3. r = [echo |-> FALSE, bytes |-> ReplyBytes(p)]
    BY <2>2 DEF Bytes
  <2>4. ReplyBytes(p) \in Nat
    BY ReplyNat
  <2> HIDE DEF r
  <2>5. QED
    BY <2>3, <2>4 DEF Reply
<1>5. /\ ClientTypes' /\ client'[p] = client[p]
      /\ \A q \in Peer : client'[q] \in {client[q], [client[q] EXCEPT !.rep = r]}
  <2>1. Deliver(p, t, r)
    BY DEF ReplyLast
  <2> HIDE DEF r, Reply
  <2>2. QED
    BY <1>4, <2>1, DeliverTyped
<1>6. ServesOpen'
  <2>1. link[p][t].open
    BY DEF ReplyLast, TypeInv, ServesOpen
  <2> HIDE DEF s
  <2>2. QED
    BY <1>2, <2>1 DEF ReplyLast, TypeInv, ServesOpen
<1>7. LinkTypes' /\ TableTypes' /\ CopyTypes' /\ HistoryTypes'
  BY DEF ReplyLast, tables, histVars, TypeInv, LinkTypes, TableTypes, CopyTypes, HistoryTypes
<1>8. TypeInv'
  BY <1>3, <1>5, <1>6, <1>7 DEF TypeInv
<1> HIDE DEF r, Reply
<1>9. Answers(p)
  BY <1>4, <1>5 DEF Answers
<1>10. QED
  BY <1>2, <1>8, <1>9

\* What ReplyFullBuffer does to its peer or thread, and that the types are kept.
LEMMA ReplyFullBufferTyped ==
  ASSUME TypeInv, RepliesWhole, NEW p \in Peer, NEW t \in Thread, ReplyFullBuffer(p, t)
  PROVE  /\ TypeInv'
         /\ server'[p][t] = [server[p][t] EXCEPT !.i = 0]
         /\ \A q \in Peer, u \in Thread : q # p \/ u # t => server'[q][u] = server[q][u]
         /\ Answers(p)
<1> DEFINE s == [server[p][t] EXCEPT !.i = 0]
           r == Bytes(BUFLEN - 1)
<1>1. s \in Server /\ ServerTyped(s) /\ s.pc = "reply"
  <2>1. server[p][t] \in Server /\ ServerTyped(server[p][t])
    BY DEF TypeInv, ServerTypes
  <2>2. QED
    BY <2>1 DEF ReplyFullBuffer, Server, ServerTyped, ServerPc
<1>2. /\ server' \in [Peer -> [Thread -> Server]]
      /\ server'[p][t] = s
      /\ \A q \in Peer, u \in Thread : q # p \/ u # t => server'[q][u] = server[q][u]
  <2>1. server' = [server EXCEPT ![p] = [@ EXCEPT ![t] = s]]
    BY DEF ReplyFullBuffer, TypeInv, ServerTypes
  <2> HIDE DEF s
  <2>2. QED
    BY <1>1, <2>1 DEF TypeInv, ServerTypes
<1>3. ServerTypes'
  <2> HIDE DEF s
  <2>1. QED
    BY <1>1, <1>2, ServerMove DEF TypeInv
<1>4. r \in Reply /\ (r.echo \/ r.bytes = ReplyBytes(p))
  <2>1. ~(StoreSize[p] < BUFLEN)
    BY DEF ReplyFullBuffer
  <2>2. BUFLEN - 1 = ReplyBytes(p)
    BY <2>1 DEF ReplyBytes
  <2>3. r = [echo |-> FALSE, bytes |-> ReplyBytes(p)]
    BY <2>2 DEF Bytes
  <2>4. ReplyBytes(p) \in Nat
    BY ReplyNat
  <2> HIDE DEF r
  <2>5. QED
    BY <2>3, <2>4 DEF Reply
<1>5. /\ ClientTypes' /\ client'[p] = client[p]
      /\ \A q \in Peer : client'[q] \in {client[q], [client[q] EXCEPT !.rep = r]}
  <2>1. Deliver(p, t, r)
    BY DEF ReplyFullBuffer
  <2> HIDE DEF r, Reply
  <2>2. QED
    BY <1>4, <2>1, DeliverTyped
<1>6. ServesOpen'
  <2>1. link[p][t].open
    BY DEF ReplyFullBuffer, TypeInv, ServesOpen
  <2> HIDE DEF s
  <2>2. QED
    BY <1>2, <2>1 DEF ReplyFullBuffer, TypeInv, ServesOpen
<1>7. LinkTypes' /\ TableTypes' /\ CopyTypes' /\ HistoryTypes'
  BY DEF ReplyFullBuffer, tables, histVars, TypeInv, LinkTypes, TableTypes, CopyTypes, HistoryTypes
<1>8. TypeInv'
  BY <1>3, <1>5, <1>6, <1>7 DEF TypeInv
<1> HIDE DEF r, Reply
<1>9. Answers(p)
  BY <1>4, <1>5 DEF Answers
<1>10. QED
  BY <1>2, <1>8, <1>9

\* What Close does to its peer or thread, and that the types are kept.
LEMMA CloseTyped ==
  ASSUME TypeInv, NEW p \in Peer, NEW t \in Thread, Close(p, t)
  PROVE  /\ TypeInv'
         /\ server'[p][t] = [server[p][t] EXCEPT !.pc = "bind", !.i = 0]
         /\ \A q \in Peer, u \in Thread : q # p \/ u # t => server'[q][u] = server[q][u]
<1> DEFINE s == [server[p][t] EXCEPT !.pc = "bind", !.i = 0]
<1>1. s \in Server /\ ServerTyped(s) /\ s.pc = "bind"
  <2>1. server[p][t] \in Server /\ ServerTyped(server[p][t])
    BY DEF TypeInv, ServerTypes
  <2>2. QED
    BY <2>1 DEF Close, Server, ServerTyped, ServerPc
<1>2. /\ server' \in [Peer -> [Thread -> Server]]
      /\ server'[p][t] = s
      /\ \A q \in Peer, u \in Thread : q # p \/ u # t => server'[q][u] = server[q][u]
  <2>1. server' = [server EXCEPT ![p] = [@ EXCEPT ![t] = s]]
    BY DEF Close, TypeInv, ServerTypes
  <2> HIDE DEF s
  <2>2. QED
    BY <1>1, <2>1 DEF TypeInv, ServerTypes
<1>3. ServerTypes'
  <2> HIDE DEF s
  <2>1. QED
    BY <1>1, <1>2, ServerMove DEF TypeInv
<1>4. /\ link' \in [Peer -> [Thread -> Link]]
      /\ \A q \in Peer, u \in Thread : q # p \/ u # t => link'[q][u] = link[q][u]
  <2>1. NoLink \in Link
    BY DEF NoLink, Link
  <2>2. link' = [link EXCEPT ![p] = [@ EXCEPT ![t] = NoLink]]
    BY DEF Close
  <2>3. QED
    BY <2>1, <2>2 DEF TypeInv, LinkTypes
<1>5. LinkTypes' /\ ServesOpen'
  <2>1. LinkTypes'
    BY <1>4 DEF Close, TypeInv, LinkTypes
  <2> HIDE DEF s
  <2>2. ServesOpen'
    BY <1>1, <1>2, <1>4 DEF TypeInv, ServesOpen
  <2>3. QED
    BY <2>1, <2>2
<1>6. ClientTypes' /\ TableTypes' /\ CopyTypes' /\ HistoryTypes'
  BY DEF Close, tables, histVars, TypeInv, ClientTypes, ClientTyped, TableTypes, CopyTypes,
         HistoryTypes
<1>7. QED
  BY <1>2, <1>3, <1>5, <1>6 DEF TypeInv

\* The pool thread stores a value of the type of its column.
LEMMA ExecutePutTyped ==
  ASSUME TypeInv, NEW p \in Peer, ExecutePut(p)
  PROVE  /\ TypeInv'
         /\ Head(queue[p]) \in Query
         /\ row'[p] = [row[p] EXCEPT ![Head(queue[p]).id] =
                         [@ EXCEPT ![Head(queue[p]).column] = Head(queue[p]).value]]
         /\ row_count'[p] = row_count[p] + 1 /\ queue'[p] = Tail(queue[p])
         /\ \A q \in Peer \ {p} : /\ row'[q] = row[q] /\ row_count'[q] = row_count[q]
                                  /\ queue'[q] = queue[q]
<1> DEFINE h == Head(queue[p])
           r == [row[p][h.id] EXCEPT ![h.column] = h.value]
<1>1. h \in Query /\ Tail(queue[p]) \in Seq(Query)
  <2> HIDE DEF Query
  <2>1. queue[p] \in Seq(Query) /\ queue[p] # <<>>
    BY DEF ExecutePut, TypeInv, TableTypes
  <2>2. QED
    BY <2>1, HeadTailProperties
<1>2. h.id \in Id
  BY <1>1 DEF Query
<1>3. r \in Row
  <2>1. row[p][h.id] \in Row
    BY <1>2 DEF TypeInv, TableTypes
  <2>2. QED
    BY <1>1, <2>1 DEF Query, Row
<1>4. row' = [row EXCEPT ![p] = [@ EXCEPT ![h.id] = r]]
  BY DEF ExecutePut
<1>5. /\ row' \in [Peer -> [Id -> Row]]
      /\ row'[p] = [row[p] EXCEPT ![h.id] = r] /\ \A q \in Peer \ {p} : row'[q] = row[q]
  <2> HIDE DEF r, h, Row
  <2>1. QED
    BY <1>2, <1>3, <1>4 DEF TypeInv, TableTypes
<1>6. /\ row_count' \in [Peer -> Nat]
      /\ row_count'[p] = row_count[p] + 1
      /\ \A q \in Peer \ {p} : row_count'[q] = row_count[q]
  BY DEF ExecutePut, TypeInv, TableTypes
<1>7. /\ queue' \in [Peer -> Seq(Query)]
      /\ queue'[p] = Tail(queue[p]) /\ \A q \in Peer \ {p} : queue'[q] = queue[q]
  <2> HIDE DEF Query
  <2>1. QED
    BY <1>1 DEF ExecutePut, TypeInv, TableTypes
<1>8. ClientTypes' /\ ServerTypes' /\ LinkTypes' /\ ServesOpen' /\ CopyTypes' /\ HistoryTypes'
  BY DEF ExecutePut, histVars, TypeInv, ClientTypes, ClientTyped, ServerTypes, ServerTyped,
         LinkTypes, ServesOpen, CopyTypes, HistoryTypes
<1>9. TypeInv'
  BY <1>5, <1>6, <1>7, <1>8 DEF TypeInv, TableTypes
<1>10. QED
  BY <1>1, <1>5, <1>6, <1>7, <1>9

\* A step is an action of a peer, of one of its threads or of its pool thread.
LEMMA StepCases ==
  ASSUME Next
  PROVE  \E p \in Peer :
           \/ \E m \in Message \cup {Sync}, t \in Thread : Connect(p, m, t)
           \/ Send(p) \/ ReceiveReply(p)
           \/ ClientReadId(p) \/ ClientPutMessage(p) \/ ClientPutUsername(p)
           \/ \E t \in Thread :
                \/ StartThread(p, t) \/ Bind(p, t) \/ Accept(p, t)
                \/ ReceiveSync(p, t) \/ ReceiveMessage(p, t)
                \/ ServerReadId(p, t) \/ ServerPutFirst(p, t) \/ ServerPutSecond(p, t)
                \/ Echo(p, t) \/ ReplyLast(p, t) \/ ReplyFullBuffer(p, t) \/ Close(p, t)
           \/ ExecutePut(p)
<1>1. PICK p \in Peer :
        \/ \E m \in Message \cup {Sync}, t \in Thread : Connect(p, m, t)
        \/ ClientStep(p)
        \/ \E t \in Logins[p] : StartThread(p, t) \/ ServerStep(p, t)
        \/ ExecutePut(p)
  BY DEF Next
<1>2. \A t \in Logins[p] : t \in Thread
  OBVIOUS
<1>3. CASE \E m \in Message \cup {Sync}, t \in Thread : Connect(p, m, t)
  BY <1>3
<1>4. CASE ClientStep(p)
  BY <1>4 DEF ClientStep
<1>5. CASE \E t \in Logins[p] : StartThread(p, t) \/ ServerStep(p, t)
  BY <1>2, <1>5 DEF ServerStep
<1>6. CASE ExecutePut(p)
  BY <1>6
<1>7. QED
  BY <1>1, <1>3, <1>4, <1>5, <1>6

\* Every step keeps the types.
LEMMA StepTyped ==
  ASSUME TypeInv, RepliesWhole, [Next]_vars
  PROVE  TypeInv'
<1>1. CASE UNCHANGED vars
  BY <1>1 DEF vars, tables, TypeInv, ClientTypes, ClientTyped, ServerTypes, ServerTyped,
              LinkTypes, ServesOpen, TableTypes, HistoryTypes, CopyTypes
<1>2. CASE Next
  <2>1. PICK p \in Peer :
           \/ \E m \in Message \cup {Sync}, t \in Thread : Connect(p, m, t)
           \/ Send(p) \/ ReceiveReply(p)
           \/ ClientReadId(p) \/ ClientPutMessage(p) \/ ClientPutUsername(p)
           \/ \E t \in Thread :
                \/ StartThread(p, t) \/ Bind(p, t) \/ Accept(p, t)
                \/ ReceiveSync(p, t) \/ ReceiveMessage(p, t)
                \/ ServerReadId(p, t) \/ ServerPutFirst(p, t) \/ ServerPutSecond(p, t)
                \/ Echo(p, t) \/ ReplyLast(p, t) \/ ReplyFullBuffer(p, t) \/ Close(p, t)
           \/ ExecutePut(p)
    BY <1>2, StepCases
  <2>2. ASSUME NEW m \in Message \cup {Sync}, NEW t \in Thread, Connect(p, m, t)
        PROVE  TypeInv'
    BY <2>2, ConnectTyped
  <2>3. CASE Send(p)
    BY <2>3, SendTyped
  <2>4. CASE ReceiveReply(p)
    BY <2>4, ReceiveReplyTyped
  <2>5. CASE ClientReadId(p)
    BY <2>5, ClientReadIdTyped
  <2>6. CASE ClientPutMessage(p)
    BY <2>6, ClientPutMessageTyped
  <2>7. CASE ClientPutUsername(p)
    BY <2>7, ClientPutUsernameTyped
  <2>8. ASSUME NEW t \in Thread, StartThread(p, t) PROVE TypeInv'
    BY <2>8, StartThreadTyped
  <2>9. ASSUME NEW t \in Thread, Bind(p, t) PROVE TypeInv'
    BY <2>9, BindTyped
  <2>10. ASSUME NEW t \in Thread, Accept(p, t) PROVE TypeInv'
    BY <2>10, AcceptTyped
  <2>11. ASSUME NEW t \in Thread, ReceiveSync(p, t) PROVE TypeInv'
    BY <2>11, ReceiveSyncTyped
  <2>12. ASSUME NEW t \in Thread, ReceiveMessage(p, t) PROVE TypeInv'
    BY <2>12, ReceiveMessageTyped
  <2>13. ASSUME NEW t \in Thread, ServerReadId(p, t) PROVE TypeInv'
    BY <2>13, ServerReadIdTyped
  <2>14. ASSUME NEW t \in Thread, ServerPutFirst(p, t) PROVE TypeInv'
    BY <2>14, ServerPutFirstTyped
  <2>15. ASSUME NEW t \in Thread, ServerPutSecond(p, t) PROVE TypeInv'
    BY <2>15, ServerPutSecondTyped
  <2>16. ASSUME NEW t \in Thread, Echo(p, t) PROVE TypeInv'
    BY <2>16, EchoTyped
  <2>17. ASSUME NEW t \in Thread, ReplyLast(p, t) PROVE TypeInv'
    BY <2>17, ReplyLastTyped
  <2>18. ASSUME NEW t \in Thread, ReplyFullBuffer(p, t) PROVE TypeInv'
    BY <2>18, ReplyFullBufferTyped
  <2>19. ASSUME NEW t \in Thread, Close(p, t) PROVE TypeInv'
    BY <2>19, CloseTyped
  <2>20. CASE ExecutePut(p)
    BY <2>20, ExecutePutTyped
  <2>21. QED
    BY <2>1, <2>2, <2>3, <2>4, <2>5, <2>6, <2>7, <2>8, <2>9, <2>10, <2>11,
       <2>12, <2>13, <2>14, <2>15, <2>16, <2>17, <2>18, <2>19, <2>20
<1>3. QED
  BY <1>1, <1>2

-----------------------------------------------------------------------------
(* Replies are whole.                                                      *)

\* Initially there is neither.
LEMMA InitWhole == Init => RepliesWhole
  BY DEF Init, Idle, RepliesWhole

\* Only a reply that arrives changes what a client has received, and only a reply that is
\* sent the loop of a thread.
LEMMA WholeKept ==
  ASSUME RepliesWhole,
         \A q \in Peer : client'[q].rep \in {client[q].rep, NULL},
         \A q \in Peer, u \in Thread :
           server'[q][u].pc = "reply" /\ StoreSize[q] < BUFLEN =>
             \/ server'[q][u].i = HEADER
             \/ server[q][u].pc = "reply" /\ server'[q][u].i = server[q][u].i
  PROVE  RepliesWhole'
<1>2. \A q \in Peer : client'[q].rep # NULL /\ ~client'[q].rep.echo =>
        client'[q].rep.bytes = ReplyBytes(Other(q))
  BY DEF RepliesWhole
<1>3. \A q \in Peer, u \in Thread :
        server'[q][u].pc = "reply" /\ StoreSize[q] < BUFLEN => server'[q][u].i = HEADER
  BY DEF RepliesWhole
<1>4. QED
  BY <1>2, <1>3 DEF RepliesWhole, ReplyBytes, Other

\* The main thread, before and after the answer.
LEMMA ClientWhole ==
  ASSUME TypeInv, RepliesWhole, NEW p \in Peer,
         \/ \E m \in Message \cup {Sync}, t \in Thread : Connect(p, m, t)
         \/ Send(p) \/ ClientReadId(p) \/ ClientPutMessage(p) \/ ClientPutUsername(p)
  PROVE  RepliesWhole'
<1>1. client[p] \in Client
  BY DEF TypeInv, ClientTypes
<1>2. \A q \in Peer : client'[q].rep \in {client[q].rep, NULL}
  <2>1. ASSUME NEW m \in Message \cup {Sync}, NEW t \in Thread, Connect(p, m, t)
        PROVE  \A q \in Peer : client'[q].rep \in {client[q].rep, NULL}
    BY <2>1, ConnectTyped DEF Idle
  <2>2. CASE Send(p)
    <3>1. /\ client'[p] = [client[p] EXCEPT !.pc = "wait"]
          /\ \A q \in Peer \ {p} : client'[q] = client[q]
      BY <2>2, SendTyped
    <3>2. QED
      BY <1>1, <3>1 DEF Client
  <2>3. CASE ClientReadId(p)
    <3>1. /\ client'[p] = [client[p] EXCEPT !.pc = "message", !.id = get_new_msg_id(p)]
          /\ \A q \in Peer \ {p} : client'[q] = client[q]
      BY <2>3, ClientReadIdTyped
    <3>2. QED
      BY <1>1, <3>1 DEF Client
  <2>4. CASE ClientPutMessage(p)
    <3>1. /\ client'[p] = [client[p] EXCEPT !.pc = "username"]
          /\ \A q \in Peer \ {p} : client'[q] = client[q]
      BY <2>4, ClientPutMessageTyped
    <3>2. QED
      BY <1>1, <3>1 DEF Client
  <2>5. CASE ClientPutUsername(p)
    BY <2>5, ClientPutUsernameTyped DEF Idle
  <2>6. QED
    BY <2>1, <2>2, <2>3, <2>4, <2>5
<1>3. server' = server
  BY DEF Connect, Send, ClientReadId, ClientPutMessage, ClientPutUsername
<1>4. QED
  BY <1>2, <1>3, WholeKept DEF RepliesWhole

\* An answer that was received is gone.
LEMMA ReceiveReplyWhole ==
  ASSUME TypeInv, RepliesWhole, NEW p \in Peer, ReceiveReply(p)
  PROVE  RepliesWhole'
<1>1. /\ client'[p] = IF client[p].req = Sync THEN Idle
                      ELSE [client[p] EXCEPT !.pc = "id", !.rep = NULL]
      /\ \A q \in Peer \ {p} : client'[q] = client[q]
  BY ReceiveReplyTyped
<1>2. client[p] \in Client
  BY DEF TypeInv, ClientTypes
<1>3. client'[p].rep = NULL
  BY <1>1, <1>2 DEF Idle, Client
<1>4. \A q \in Peer : client'[q].rep # NULL /\ ~client'[q].rep.echo =>
        client'[q].rep.bytes = ReplyBytes(Other(q))
  BY <1>1, <1>3 DEF RepliesWhole
<1>6. server' = server
  BY DEF ReceiveReply
<1>7. QED
  BY <1>4, <1>6 DEF RepliesWhole

\* A server thread, but for the three actions that send.
LEMMA ServerWhole ==
  ASSUME TypeInv, RepliesWhole, NEW p \in Peer, NEW t \in Thread,
         \/ StartThread(p, t) \/ Bind(p, t) \/ Accept(p, t)
         \/ ReceiveSync(p, t) \/ ReceiveMessage(p, t)
         \/ ServerReadId(p, t) \/ ServerPutFirst(p, t) \/ ServerPutSecond(p, t) \/ Close(p, t)
  PROVE  RepliesWhole'
<1>1. server[p][t] \in Server
  BY DEF TypeInv, ServerTypes
<1>2. /\ server'[p][t].pc = "reply" => server'[p][t].i = HEADER
      /\ \A q \in Peer, u \in Thread : q # p \/ u # t => server'[q][u] = server[q][u]
  <2>1. CASE StartThread(p, t)
    <3>1. /\ server'[p][t] = [server[p][t] EXCEPT !.pc = "bind"]
          /\ \A q \in Peer, u \in Thread : q # p \/ u # t => server'[q][u] = server[q][u]
      BY <2>1, StartThreadTyped
    <3>2. QED
      BY <1>1, <3>1 DEF Server
  <2>2. CASE Bind(p, t)
    <3>1. /\ server'[p][t] = [server[p][t] EXCEPT !.pc = "listen"]
          /\ \A q \in Peer, u \in Thread : q # p \/ u # t => server'[q][u] = server[q][u]
      BY <2>2, BindTyped
    <3>2. QED
      BY <1>1, <3>1 DEF Server
  <2>3. CASE Accept(p, t)
    <3>1. /\ server'[p][t] = [server[p][t] EXCEPT !.pc = "recv"]
          /\ \A q \in Peer, u \in Thread : q # p \/ u # t => server'[q][u] = server[q][u]
      BY <2>3, AcceptTyped
    <3>2. QED
      BY <1>1, <3>1 DEF Server
  <2>4. CASE ReceiveSync(p, t)
    <3>1. /\ server'[p][t] = [server[p][t] EXCEPT !.pc = "reply", !.i = HEADER]
          /\ \A q \in Peer, u \in Thread : q # p \/ u # t => server'[q][u] = server[q][u]
      BY <2>4, ReceiveSyncTyped
    <3>2. QED
      BY <1>1, <3>1 DEF Server
  <2>5. CASE ReceiveMessage(p, t)
    <3>1. /\ server'[p][t] = [server[p][t] EXCEPT !.pc = "id",
                             !.name = IF link[p][t].req = Sync THEN Noise ELSE Other(p)]
          /\ \A q \in Peer, u \in Thread : q # p \/ u # t => server'[q][u] = server[q][u]
      BY <2>5, ReceiveMessageTyped
    <3>2. QED
      BY <1>1, <3>1 DEF Server
  <2>6. CASE ServerReadId(p, t)
    <3>1. /\ server'[p][t] = [server[p][t] EXCEPT !.pc = "first", !.id = get_new_msg_id(p)]
          /\ \A q \in Peer, u \in Thread : q # p \/ u # t => server'[q][u] = server[q][u]
      BY <2>6, ServerReadIdTyped
    <3>2. QED
      BY <1>1, <3>1 DEF Server
  <2>7. CASE ServerPutFirst(p, t)
    <3>1. /\ server'[p][t] = [server[p][t] EXCEPT !.pc = "second"]
          /\ \A q \in Peer, u \in Thread : q # p \/ u # t => server'[q][u] = server[q][u]
      BY <2>7, ServerPutFirstTyped
    <3>2. QED
      BY <1>1, <3>1 DEF Server
  <2>8. CASE ServerPutSecond(p, t)
    <3>1. /\ server'[p][t] = [server[p][t] EXCEPT !.pc = "echo", !.id = NULL, !.name = NULL]
          /\ \A q \in Peer, u \in Thread : q # p \/ u # t => server'[q][u] = server[q][u]
      BY <2>8, ServerPutSecondTyped
    <3>2. QED
      BY <1>1, <3>1 DEF Server
  <2>9. CASE Close(p, t)
    <3>1. /\ server'[p][t] = [server[p][t] EXCEPT !.pc = "bind", !.i = 0]
          /\ \A q \in Peer, u \in Thread : q # p \/ u # t => server'[q][u] = server[q][u]
      BY <2>9, CloseTyped
    <3>2. QED
      BY <1>1, <3>1 DEF Server
  <2>10. QED
    BY <2>1, <2>2, <2>3, <2>4, <2>5, <2>6, <2>7, <2>8, <2>9
<1>3. client' = client
  BY DEF StartThread, Bind, Accept, ReceiveSync, ReceiveMessage, ServerReadId, ServerPutFirst,
         ServerPutSecond, Close
<1>4. QED
  BY <1>2, <1>3, WholeKept DEF RepliesWhole

\* What they send is whole.
LEMMA SendsWhole ==
  ASSUME TypeInv, RepliesWhole, NEW p \in Peer, NEW t \in Thread,
         Echo(p, t) \/ ReplyLast(p, t) \/ ReplyFullBuffer(p, t)
  PROVE  RepliesWhole'
<1>1. server[p][t] \in Server
  BY DEF TypeInv, ServerTypes
<1>2. /\ Answers(p)
      /\ \A q \in Peer, u \in Thread : q # p \/ u # t => server'[q][u] = server[q][u]
  <2>1. CASE Echo(p, t)
    BY <2>1, EchoTyped
  <2>2. CASE ReplyLast(p, t)
    BY <2>2, ReplyLastTyped
  <2>3. CASE ReplyFullBuffer(p, t)
    BY <2>3, ReplyFullBufferTyped
  <2>4. QED
    BY <2>1, <2>2, <2>3
<1>3. server'[p][t].pc = "reply" => ~(StoreSize[p] < BUFLEN)
  <2>1. CASE Echo(p, t)
    <3>1. /\ server'[p][t] = [server[p][t] EXCEPT !.pc = "recv"]
          /\ \A q \in Peer, u \in Thread : q # p \/ u # t => server'[q][u] = server[q][u]
      BY <2>1, EchoTyped
    <3>2. QED
      BY <1>1, <3>1 DEF Server
  <2>2. CASE ReplyLast(p, t)
    <3>1. /\ server'[p][t] = [server[p][t] EXCEPT !.pc = "recv"]
          /\ \A q \in Peer, u \in Thread : q # p \/ u # t => server'[q][u] = server[q][u]
      BY <2>2, ReplyLastTyped
    <3>2. QED
      BY <1>1, <3>1 DEF Server
  <2>3. CASE ReplyFullBuffer(p, t)
    BY <2>3 DEF ReplyFullBuffer
  <2>4. QED
    BY <2>1, <2>2, <2>3
<1>4. ASSUME NEW q \in Peer, client'[q].rep # NULL, ~client'[q].rep.echo
      PROVE  client'[q].rep.bytes = ReplyBytes(Other(q))
  <2>1. CASE q = p
    BY <1>2, <1>4, <2>1 DEF RepliesWhole, Answers
  <2>2. CASE q # p
    <3>1. Other(q) = p
      BY <2>2, PeerAssumption DEF Other
    <3>2. PICK r \in Reply : /\ client'[q] \in {client[q], [client[q] EXCEPT !.rep = r]}
                             /\ r.echo \/ r.bytes = ReplyBytes(p)
      BY <1>2 DEF Answers
    <3>3. CASE client'[q] = client[q]
      BY <1>4, <3>3 DEF RepliesWhole
    <3>4. CASE client'[q] = [client[q] EXCEPT !.rep = r]
      <4>1. client[q] \in Client
        BY DEF TypeInv, ClientTypes
      <4>2. client'[q].rep = r
        BY <3>4, <4>1 DEF Client
      <4>3. QED
        BY <1>4, <3>1, <3>2, <4>2
    <3>5. QED
      BY <3>2, <3>3, <3>4
  <2>3. QED
    BY <2>1, <2>2
<1>6. \A q \in Peer, u \in Thread :
        server'[q][u].pc = "reply" /\ StoreSize[q] < BUFLEN => server'[q][u].i = HEADER
  BY <1>2, <1>3 DEF RepliesWhole
<1>7. QED
  BY <1>4, <1>6 DEF RepliesWhole

\* Every step leaves replies whole.
LEMMA StepWhole ==
  ASSUME TypeInv, RepliesWhole, [Next]_vars
  PROVE  RepliesWhole'
<1>1. CASE UNCHANGED vars
  BY <1>1 DEF vars, RepliesWhole
<1>2. CASE Next
  <2>1. PICK p \in Peer :
           \/ \E m \in Message \cup {Sync}, t \in Thread : Connect(p, m, t)
           \/ Send(p) \/ ReceiveReply(p)
           \/ ClientReadId(p) \/ ClientPutMessage(p) \/ ClientPutUsername(p)
           \/ \E t \in Thread :
                \/ StartThread(p, t) \/ Bind(p, t) \/ Accept(p, t)
                \/ ReceiveSync(p, t) \/ ReceiveMessage(p, t)
                \/ ServerReadId(p, t) \/ ServerPutFirst(p, t) \/ ServerPutSecond(p, t)
                \/ Echo(p, t) \/ ReplyLast(p, t) \/ ReplyFullBuffer(p, t) \/ Close(p, t)
           \/ ExecutePut(p)
    BY <1>2, StepCases
  <2>2. CASE \/ \E m \in Message \cup {Sync}, t \in Thread : Connect(p, m, t)
             \/ Send(p) \/ ClientReadId(p) \/ ClientPutMessage(p) \/ ClientPutUsername(p)
    BY <2>2, ClientWhole
  <2>3. CASE ReceiveReply(p)
    BY <2>3, ReceiveReplyWhole
  <2>4. ASSUME NEW t \in Thread,
               \/ StartThread(p, t) \/ Bind(p, t) \/ Accept(p, t)
               \/ ReceiveSync(p, t) \/ ReceiveMessage(p, t)
               \/ ServerReadId(p, t) \/ ServerPutFirst(p, t) \/ ServerPutSecond(p, t)
               \/ Close(p, t)
        PROVE  RepliesWhole'
    BY <2>4, ServerWhole
  <2>5. ASSUME NEW t \in Thread, Echo(p, t) \/ ReplyLast(p, t) \/ ReplyFullBuffer(p, t)
        PROVE  RepliesWhole'
    BY <2>5, SendsWhole
  <2>6. CASE ExecutePut(p)
    <3>1. client' = client /\ server' = server
      BY <2>6 DEF ExecutePut
    <3>2. QED
      BY <3>1 DEF RepliesWhole
  <2>7. QED
    BY <2>1, <2>2, <2>3, <2>4, <2>5, <2>6
<1>3. QED
  BY <1>1, <1>2

\* The types the runs check are these.
LEMMA TypesImplied == TypeInv => TypeOK
<1> SUFFICES ASSUME TypeInv PROVE TypeOK
  OBVIOUS
<1>1. ASSUME NEW p \in Peer
      PROVE  /\ client[p].pc \in {"menu", "send", "wait", "id", "message", "username"}
             /\ (client[p].pc = "menu") = (client[p].req = NULL)
             /\ client[p].pc \in {"send", "wait"} => client[p].to \in Thread
             /\ (client[p].id # NULL) = (client[p].pc \in {"message", "username"})
  BY DEF TypeInv, ClientTypes, Client, ClientTyped, ClientPc
<1>2. ASSUME NEW p \in Peer
      PROVE  /\ copy[p] \in Nat \cup {NULL} /\ row_count[p] \in Nat
             /\ \A k \in Id : /\ row[p][k].username \in Peer \cup {Noise, NULL}
                              /\ row[p][k].message \in Message \cup {NULL}
  BY DEF TypeInv, CopyTypes, TableTypes, Row, Name
<1>3. ASSUME NEW p \in Peer, NEW t \in Thread
      PROVE  /\ server[p][t].pc \in {"off", "bind", "listen", "recv", "id", "first", "second",
                                     "echo", "reply"}
             /\ (server[p][t].id # NULL) = (server[p][t].pc \in {"first", "second"})
             /\ link[p][t].req \in Message \cup {Sync, EOF, NULL}
             /\ server[p][t].pc \notin {"off", "bind", "listen"} => link[p][t].open
  BY DEF TypeInv, ServerTypes, Server, ServerTyped, ServerPc, LinkTypes, Link, ServesOpen
<1>4. dirty \in [Peer -> [Thread -> {TRUE, FALSE, NULL}]]
  BY DEF TypeInv, LinkTypes
<1>5. QED
  BY <1>1, <1>2, <1>3, <1>4 DEF TypeOK

\* The places of the threads, the connections and the tables have their types in every
\* state: a thread that serves has a connection, one that holds an id has two puts to
\* submit (client.h:255-279, server.h:427-497, socket_server.h:27-157).
THEOREM PeerTypes == Spec => []TypeOK
<1>1. Init => TypeInv /\ RepliesWhole
  BY InitTyped, InitWhole
<1>2. TypeInv /\ RepliesWhole /\ [Next]_vars => (TypeInv /\ RepliesWhole)'
  BY StepTyped, StepWhole
<1>3. TypeInv /\ RepliesWhole => TypeOK
  BY TypesImplied
<1>4. QED
  BY <1>1, <1>2, <1>3, PTL DEF Spec

-----------------------------------------------------------------------------
(* What a sync is answered with.                                           *)

\* recvbuf is dirty while a thread stores what it took for a message, and clean while it
\* answers a sync; either way it has read the request.
MarkedThread(s, l, d) ==
  /\ s.pc = "reply" => d = FALSE
  /\ s.pc \in {"id", "first", "second", "echo"} => d = TRUE
  /\ s.pc \in {"id", "first", "second", "echo", "reply"} => l.req = EOF

\* A request is sent once, and the thread that answered it reads no other one while the
\* client has not looked at the answer.
MarkedClient(c, l, d) ==
  /\ c.pc = "send" => l.req = NULL /\ c.rep = NULL
  /\ c.pc = "wait" /\ c.rep # NULL => l.req \in {EOF, NULL} /\ (c.rep.echo <=> d = TRUE)

\* What CopyIsOneReply needs besides whole replies: an answer tells the state of recvbuf.
RepliesMarked ==
  /\ \A p \in Peer, t \in Thread : MarkedThread(server[p][t], link[p][t], dirty[p][t])
  /\ \A p \in Peer, t \in Thread :
       client[p].pc \in {"send", "wait"} /\ client[p].to = t =>
         MarkedClient(client[p], link[Other(p)][t], dirty[Other(p)][t])

\* Initially nobody asks or serves.
LEMMA InitMarked == Init => RepliesMarked
  BY DEF Init, Idle, RepliesMarked, MarkedThread, MarkedClient

\* A client connects to a thread that listens.
LEMMA ConnectMarked ==
  ASSUME TypeInv, RepliesMarked, NEW p \in Peer, NEW m \in Message \cup {Sync}, NEW t \in Thread,
         Connect(p, m, t)
  PROVE  RepliesMarked'
<1>1. /\ client'[p] = [Idle EXCEPT !.pc = "send", !.req = m, !.to = t]
      /\ \A q \in Peer \ {p} : client'[q] = client[q]
  BY ConnectTyped
<1>2. client'[p].pc = "send" /\ client'[p].to = t /\ client'[p].rep = NULL
  BY <1>1 DEF Idle
<1>3. PICK o \in Peer : o = Other(p) /\ \A q \in Peer \ {p} : Other(q) # o
  BY OtherPeer
<1>4. PICK l : l = [NoLink EXCEPT !.open = TRUE]
  OBVIOUS
<1>5. l.req = NULL
  BY <1>4 DEF NoLink
<1>6. /\ link'[o][t] = l
      /\ \A q \in Peer, u \in Thread : q # o \/ u # t => link'[q][u] = link[q][u]
  <2>1. link' = [link EXCEPT ![o][t] = l]
    BY <1>3, <1>4 DEF Connect
  <2>2. QED
    BY <2>1 DEF TypeInv, LinkTypes
<1>7. server' = server /\ dirty' = dirty /\ server[o][t].pc = "listen"
  BY <1>3 DEF Connect
<1>8. ASSUME NEW q \in Peer, NEW u \in Thread
      PROVE  MarkedThread(server'[q][u], link'[q][u], dirty'[q][u])
  BY <1>6, <1>7 DEF RepliesMarked, MarkedThread
<1>9. ASSUME NEW q \in Peer, NEW u \in Thread,
             client'[q].pc \in {"send", "wait"}, client'[q].to = u
      PROVE  MarkedClient(client'[q], link'[Other(q)][u], dirty'[Other(q)][u])
  <2>1. CASE q = p
    BY <1>2, <1>3, <1>5, <1>6, <1>9, <2>1 DEF MarkedClient
  <2>2. CASE q # p
    <3>1. client'[q] = client[q] /\ Other(q) \in Peer /\ Other(q) # o
      BY <1>1, <1>3, <2>2, OtherPeer
    <3>2. link'[Other(q)][u] = link[Other(q)][u]
      BY <1>6, <3>1
    <3>3. QED
      BY <1>7, <1>9, <3>1, <3>2 DEF RepliesMarked
  <2>3. QED
    BY <2>1, <2>2
<1>10. QED
  BY <1>8, <1>9 DEF RepliesMarked, Other

\* It sends its request once.
LEMMA SendMarked ==
  ASSUME TypeInv, RepliesMarked, NEW p \in Peer, Send(p)
  PROVE  RepliesMarked'
<1>1. /\ client'[p] = [client[p] EXCEPT !.pc = "wait"]
      /\ \A q \in Peer \ {p} : client'[q] = client[q]
  BY SendTyped
<1>2. PICK t \in Thread : client[p].to = t
  BY DEF Send, TypeInv, ClientTypes, ClientTyped
<1>3. PICK o \in Peer : o = Other(p) /\ \A q \in Peer \ {p} : Other(q) # o
  BY OtherPeer
<1>4. link[o][t].req = NULL /\ client[p].rep = NULL
  BY <1>2, <1>3 DEF Send, RepliesMarked, MarkedClient
<1>5. client'[p].pc = "wait" /\ client'[p].to = t /\ client'[p].rep = NULL
  <2>1. client[p] \in Client
    BY DEF TypeInv, ClientTypes
  <2>2. QED
    BY <1>1, <1>2, <1>4, <2>1 DEF Client
<1>6. \A q \in Peer, u \in Thread : q # o \/ u # t => link'[q][u] = link[q][u]
  <2>1. PICK x : x = [link[o][t] EXCEPT !.req = client[p].req]
    OBVIOUS
  <2>2. link' = [link EXCEPT ![o][t] = x]
    BY <1>2, <1>3, <2>1 DEF Send, TypeInv, LinkTypes
  <2>3. QED
    BY <2>2 DEF TypeInv, LinkTypes
<1>7. server' = server /\ dirty' = dirty
  BY DEF Send
<1>8. ASSUME NEW q \in Peer, NEW u \in Thread
      PROVE  MarkedThread(server'[q][u], link'[q][u], dirty'[q][u])
  <2>1. CASE q = o /\ u = t
    <3>1. server[q][u].pc \notin {"id", "first", "second", "echo", "reply"}
      BY <1>4, <2>1 DEF RepliesMarked, MarkedThread
    <3>2. QED
      BY <1>7, <3>1 DEF MarkedThread
  <2>2. CASE q # o \/ u # t
    BY <1>6, <1>7, <2>2 DEF RepliesMarked
  <2>3. QED
    BY <2>1, <2>2
<1>9. ASSUME NEW q \in Peer, NEW u \in Thread,
             client'[q].pc \in {"send", "wait"}, client'[q].to = u
      PROVE  MarkedClient(client'[q], link'[Other(q)][u], dirty'[Other(q)][u])
  <2>1. CASE q = p
    BY <1>5, <2>1 DEF MarkedClient
  <2>2. CASE q # p
    <3>1. client'[q] = client[q] /\ Other(q) \in Peer /\ Other(q) # o
      BY <1>1, <1>3, <2>2, OtherPeer
    <3>2. link'[Other(q)][u] = link[Other(q)][u]
      BY <1>6, <3>1
    <3>3. QED
      BY <1>7, <1>9, <3>1, <3>2 DEF RepliesMarked
  <2>3. QED
    BY <2>1, <2>2
<1>10. QED
  BY <1>8, <1>9 DEF RepliesMarked, Other

\* From the answer on the main thread is not in a conversation.
LEMMA ClientMarked ==
  ASSUME TypeInv, RepliesMarked, NEW p \in Peer,
         ReceiveReply(p) \/ ClientReadId(p) \/ ClientPutMessage(p) \/ ClientPutUsername(p)
  PROVE  RepliesMarked'
<1>1. client'[p].pc \notin {"send", "wait"} /\ \A q \in Peer \ {p} : client'[q] = client[q]
  <2>1. client[p] \in Client
    BY DEF TypeInv, ClientTypes
  <2>2. CASE ReceiveReply(p)
    <3>1. /\ client' \in {[client EXCEPT ![p] = Idle],
                          [client EXCEPT ![p].pc = "id", ![p].rep = NULL]}
      BY <2>2 DEF ReceiveReply, ToMenu
    <3>2. QED
      BY <2>1, <3>1 DEF Idle, Client, TypeInv, ClientTypes
  <2>3. CASE ClientReadId(p)
    BY <2>1, <2>3, ClientReadIdTyped DEF Client
  <2>4. CASE ClientPutMessage(p)
    BY <2>1, <2>4, ClientPutMessageTyped DEF Client
  <2>5. CASE ClientPutUsername(p)
    BY <2>5, ClientPutUsernameTyped DEF Idle
  <2>6. QED
    BY <2>2, <2>3, <2>4, <2>5
<1>2. server' = server /\ link' = link /\ dirty' = dirty
  BY DEF ReceiveReply, ClientReadId, ClientPutMessage, ClientPutUsername
<1>3. QED
  BY <1>1, <1>2 DEF RepliesMarked, Other

\* A thread reads a request that no client has an answer to, and settles its buffer.
LEMMA ReceiveMarked ==
  ASSUME TypeInv, RepliesMarked, NEW p \in Peer, NEW t \in Thread,
         ReceiveSync(p, t) \/ ReceiveMessage(p, t)
  PROVE  RepliesMarked'
<1>1. /\ \/ server'[p][t].pc = "reply" /\ dirty'[p][t] = FALSE
         \/ server'[p][t].pc = "id" /\ dirty'[p][t] = TRUE
      /\ \A q \in Peer, u \in Thread : q # p \/ u # t => server'[q][u] = server[q][u]
      /\ \A q \in Peer, u \in Thread : q # p \/ u # t => dirty'[q][u] = dirty[q][u]
  <2>1. server[p][t] \in Server
    BY DEF TypeInv, ServerTypes
  <2>2. CASE ReceiveSync(p, t)
    <3>1. /\ server'[p][t] = [server[p][t] EXCEPT !.pc = "reply", !.i = HEADER]
          /\ \A q \in Peer, u \in Thread : q # p \/ u # t => server'[q][u] = server[q][u]
      BY <2>2, ReceiveSyncTyped
    <3>2. PICK x : x = FALSE
      OBVIOUS
    <3>3. dirty' = [dirty EXCEPT ![p][t] = x]
      BY <2>2, <3>2 DEF ReceiveSync
    <3>4. /\ dirty'[p][t] = x
          /\ \A q \in Peer, u \in Thread : q # p \/ u # t => dirty'[q][u] = dirty[q][u]
      BY <3>3 DEF TypeInv, LinkTypes
    <3>5. server'[p][t].pc = "reply"
      BY <2>1, <3>1 DEF Server
    <3>6. QED
      BY <3>1, <3>2, <3>4, <3>5
  <2>3. CASE ReceiveMessage(p, t)
    <3>1. /\ server'[p][t] = [server[p][t] EXCEPT !.pc = "id",
                                !.name = IF link[p][t].req = Sync THEN Noise ELSE Other(p)]
          /\ \A q \in Peer, u \in Thread : q # p \/ u # t => server'[q][u] = server[q][u]
      BY <2>3, ReceiveMessageTyped
    <3>2. PICK x : x = TRUE
      OBVIOUS
    <3>3. dirty' = [dirty EXCEPT ![p][t] = x]
      BY <2>3, <3>2 DEF ReceiveMessage
    <3>4. /\ dirty'[p][t] = x
          /\ \A q \in Peer, u \in Thread : q # p \/ u # t => dirty'[q][u] = dirty[q][u]
      BY <3>3 DEF TypeInv, LinkTypes
    <3>5. server'[p][t].pc = "id"
      BY <2>1, <3>1 DEF Server
    <3>6. QED
      BY <3>1, <3>2, <3>4, <3>5
  <2>4. QED
    BY <2>2, <2>3
<1>2. /\ link'[p][t].req = EOF
      /\ \A q \in Peer, u \in Thread : q # p \/ u # t => link'[q][u] = link[q][u]
  <2>1. PICK x : x = [link[p][t] EXCEPT !.req = EOF]
    OBVIOUS
  <2>2. link[p][t] \in Link
    BY DEF TypeInv, LinkTypes
  <2>3. x.req = EOF
    BY <2>1, <2>2 DEF Link
  <2>4. link' = [link EXCEPT ![p][t].req = EOF]
    BY DEF ReceiveSync, ReceiveMessage
  <2>5. link' = [link EXCEPT ![p][t] = x]
    BY <2>1, <2>4 DEF TypeInv, LinkTypes
  <2>6. QED
    BY <2>3, <2>5 DEF TypeInv, LinkTypes
<1>3. client' = client /\ link[p][t].req \notin {EOF, NULL}
  BY NotNull DEF ReceiveSync, ReceiveMessage
<1>4. ASSUME NEW q \in Peer, NEW u \in Thread
      PROVE  MarkedThread(server'[q][u], link'[q][u], dirty'[q][u])
  BY <1>1, <1>2 DEF RepliesMarked, MarkedThread
<1>5. ASSUME NEW q \in Peer, NEW u \in Thread,
             client'[q].pc \in {"send", "wait"}, client'[q].to = u
      PROVE  MarkedClient(client'[q], link'[Other(q)][u], dirty'[Other(q)][u])
  <2>1. MarkedClient(client[q], link[Other(q)][u], dirty[Other(q)][u]) /\ Other(q) \in Peer
    BY <1>3, <1>5, OtherPeer DEF RepliesMarked
  <2>2. CASE Other(q) = p /\ u = t
    <3>1. ~(client[q].pc = "send") /\ ~(client[q].pc = "wait" /\ client[q].rep # NULL)
      BY <1>3, <2>1, <2>2 DEF MarkedClient
    <3>2. QED
      BY <1>3, <3>1 DEF MarkedClient
  <2>3. CASE Other(q) # p \/ u # t
    BY <1>1, <1>2, <1>3, <2>1, <2>3
  <2>4. QED
    BY <2>2, <2>3
<1>6. QED
  BY <1>4, <1>5 DEF RepliesMarked, Other

\* The other steps of a thread, but for those that send.
LEMMA ServerMarked ==
  ASSUME TypeInv, RepliesMarked, NEW p \in Peer, NEW t \in Thread,
         \/ StartThread(p, t) \/ Bind(p, t) \/ Accept(p, t)
         \/ ServerReadId(p, t) \/ ServerPutFirst(p, t) \/ ServerPutSecond(p, t)
  PROVE  RepliesMarked'
<1>1. /\ \/ server'[p][t].pc \in {"bind", "listen", "recv"}
         \/ /\ server[p][t].pc \in {"id", "first", "second"}
            /\ server'[p][t].pc \in {"first", "second", "echo"}
      /\ \A q \in Peer, u \in Thread : q # p \/ u # t => server'[q][u] = server[q][u]
  <2>1. server[p][t] \in Server
    BY DEF TypeInv, ServerTypes
  <2>2. CASE StartThread(p, t)
    <3>1. /\ server'[p][t] = [server[p][t] EXCEPT !.pc = "bind"]
          /\ \A q \in Peer, u \in Thread : q # p \/ u # t => server'[q][u] = server[q][u]
      BY <2>2, StartThreadTyped
    <3>2. QED
      BY <2>1, <3>1 DEF Server
  <2>3. CASE Bind(p, t)
    <3>1. /\ server'[p][t] = [server[p][t] EXCEPT !.pc = "listen"]
          /\ \A q \in Peer, u \in Thread : q # p \/ u # t => server'[q][u] = server[q][u]
      BY <2>3, BindTyped
    <3>2. QED
      BY <2>1, <3>1 DEF Server
  <2>4. CASE Accept(p, t)
    <3>1. /\ server'[p][t] = [server[p][t] EXCEPT !.pc = "recv"]
          /\ \A q \in Peer, u \in Thread : q # p \/ u # t => server'[q][u] = server[q][u]
      BY <2>4, AcceptTyped
    <3>2. QED
      BY <2>1, <3>1 DEF Server
  <2>5. CASE ServerReadId(p, t)
    <3>1. /\ server'[p][t] = [server[p][t] EXCEPT !.pc = "first", !.id = get_new_msg_id(p)]
          /\ \A q \in Peer, u \in Thread : q # p \/ u # t => server'[q][u] = server[q][u]
      BY <2>5, ServerReadIdTyped
    <3>2. QED
      BY <2>1, <2>5, <3>1 DEF Server, ServerReadId
  <2>6. CASE ServerPutFirst(p, t)
    <3>1. /\ server'[p][t] = [server[p][t] EXCEPT !.pc = "second"]
          /\ \A q \in Peer, u \in Thread : q # p \/ u # t => server'[q][u] = server[q][u]
      BY <2>6, ServerPutFirstTyped
    <3>2. QED
      BY <2>1, <2>6, <3>1 DEF Server, ServerPutFirst
  <2>7. CASE ServerPutSecond(p, t)
    <3>1. /\ server'[p][t] = [server[p][t] EXCEPT !.pc = "echo", !.id = NULL, !.name = NULL]
          /\ \A q \in Peer, u \in Thread : q # p \/ u # t => server'[q][u] = server[q][u]
      BY <2>7, ServerPutSecondTyped
    <3>2. QED
      BY <2>1, <2>7, <3>1 DEF Server, ServerPutSecond
  <2>8. QED
    BY <2>2, <2>3, <2>4, <2>5, <2>6, <2>7
<1>2. client' = client /\ link' = link /\ dirty' = dirty
  BY DEF StartThread, Bind, Accept, ServerReadId, ServerPutFirst, ServerPutSecond
<1>3. ASSUME NEW q \in Peer, NEW u \in Thread
      PROVE  MarkedThread(server'[q][u], link'[q][u], dirty'[q][u])
  <2>1. CASE q = p /\ u = t
    <3>1. MarkedThread(server[p][t], link[p][t], dirty[p][t])
      BY DEF RepliesMarked
    <3>2. QED
      BY <1>1, <1>2, <2>1, <3>1 DEF MarkedThread
  <2>2. CASE q # p \/ u # t
    BY <1>1, <1>2, <2>2 DEF RepliesMarked
  <2>3. QED
    BY <2>1, <2>2
<1>4. QED
  BY <1>2, <1>3 DEF RepliesMarked, Other

\* A connection that is closed had been read to its end.
LEMMA CloseMarked ==
  ASSUME TypeInv, RepliesMarked, NEW p \in Peer, NEW t \in Thread, Close(p, t)
  PROVE  RepliesMarked'
<1>1. server'[p][t].pc = "bind"
  <2>1. server[p][t] \in Server
    BY DEF TypeInv, ServerTypes
  <2>2. server'[p][t] = [server[p][t] EXCEPT !.pc = "bind", !.i = 0]
    BY CloseTyped
  <2>3. QED
    BY <2>1, <2>2 DEF Server
<1>2. \A q \in Peer, u \in Thread : q # p \/ u # t => server'[q][u] = server[q][u]
  BY CloseTyped
<1>3. PICK l : l = NoLink
  OBVIOUS
<1>4. /\ link'[p][t] = l /\ l.req = NULL
      /\ \A q \in Peer, u \in Thread : q # p \/ u # t => link'[q][u] = link[q][u]
  <2>1. link' = [link EXCEPT ![p][t] = l] /\ l.req = NULL
    BY <1>3 DEF Close, NoLink
  <2>2. QED
    BY <2>1 DEF TypeInv, LinkTypes
<1>5. client' = client /\ dirty' = dirty /\ link[p][t].req = EOF
  BY DEF Close
<1>6. ASSUME NEW q \in Peer, NEW u \in Thread
      PROVE  MarkedThread(server'[q][u], link'[q][u], dirty'[q][u])
  BY <1>1, <1>2, <1>4, <1>5 DEF RepliesMarked, MarkedThread
<1>7. ASSUME NEW q \in Peer, NEW u \in Thread,
             client'[q].pc \in {"send", "wait"}, client'[q].to = u
      PROVE  MarkedClient(client'[q], link'[Other(q)][u], dirty'[Other(q)][u])
  <2>1. MarkedClient(client[q], link[Other(q)][u], dirty[Other(q)][u]) /\ Other(q) \in Peer
    BY <1>5, <1>7, OtherPeer DEF RepliesMarked
  <2>2. CASE Other(q) = p /\ u = t
    BY <1>4, <1>5, <2>1, <2>2 DEF MarkedClient
  <2>3. CASE Other(q) # p \/ u # t
    BY <1>4, <1>5, <2>1, <2>3
  <2>4. QED
    BY <2>2, <2>3
<1>8. QED
  BY <1>6, <1>7 DEF RepliesMarked, Other

\* An answer is marked with the buffer of the thread that sends it.
LEMMA SendsMarked ==
  ASSUME TypeInv, RepliesWhole, RepliesMarked, NEW p \in Peer, NEW t \in Thread,
         Echo(p, t) \/ ReplyLast(p, t) \/ ReplyFullBuffer(p, t)
  PROVE  RepliesMarked'
<1>1. /\ server'[p][t].pc \in {"recv", server[p][t].pc}
      /\ \A q \in Peer, u \in Thread : q # p \/ u # t => server'[q][u] = server[q][u]
  <2>1. server[p][t] \in Server
    BY DEF TypeInv, ServerTypes
  <2>2. CASE Echo(p, t)
    <3>1. /\ server'[p][t] = [server[p][t] EXCEPT !.pc = "recv"]
          /\ \A q \in Peer, u \in Thread : q # p \/ u # t => server'[q][u] = server[q][u]
      BY <2>2, EchoTyped
    <3>2. QED
      BY <2>1, <3>1 DEF Server
  <2>3. CASE ReplyLast(p, t)
    <3>1. /\ server'[p][t] = [server[p][t] EXCEPT !.pc = "recv"]
          /\ \A q \in Peer, u \in Thread : q # p \/ u # t => server'[q][u] = server[q][u]
      BY <2>3, ReplyLastTyped
    <3>2. QED
      BY <2>1, <3>1 DEF Server
  <2>4. CASE ReplyFullBuffer(p, t)
    <3>1. /\ server'[p][t] = [server[p][t] EXCEPT !.i = 0]
          /\ \A q \in Peer, u \in Thread : q # p \/ u # t => server'[q][u] = server[q][u]
      BY <2>4, ReplyFullBufferTyped
    <3>2. QED
      BY <2>1, <3>1 DEF Server
  <2>5. QED
    BY <2>2, <2>3, <2>4
<1>2. PICK r \in Reply : /\ Deliver(p, t, r) /\ (r.echo <=> dirty[p][t] = TRUE)
                         /\ link[p][t].req = EOF
  <2>1. MarkedThread(server[p][t], link[p][t], dirty[p][t])
    BY DEF RepliesMarked
  <2>2. CASE Echo(p, t)
    <3>1. PICK r \in Reply : r = [echo |-> TRUE, bytes |-> 0]
      BY DEF Reply
    <3>2. QED
      BY <2>1, <2>2, <3>1 DEF Echo, MarkedThread
  <2>3. CASE ReplyLast(p, t) \/ ReplyFullBuffer(p, t)
    <3>1. PICK n \in Nat : Deliver(p, t, Bytes(n))
      <4>1. server[p][t].i \in Nat /\ StoreSize[p] \in Nat /\ BUFLEN - 1 \in Nat
        BY DEF TypeInv, ServerTypes, Server
      <4>2. QED
        BY <2>3, <4>1 DEF ReplyLast, ReplyFullBuffer, LastOf
    <3>2. PICK r \in Reply : r = Bytes(n) /\ ~r.echo
      <4>1. Bytes(n) \in Reply /\ ~Bytes(n).echo
        BY DEF Reply, Bytes
      <4>2. QED
        BY <4>1
    <3>3. QED
      BY <2>1, <2>3, <3>1, <3>2 DEF ReplyLast, ReplyFullBuffer, MarkedThread
  <2>4. QED
    BY <2>2, <2>3
<1>3. link' = link /\ dirty' = dirty
  BY DEF Echo, ReplyLast, ReplyFullBuffer
<1>4. ASSUME NEW q \in Peer, NEW u \in Thread
      PROVE  MarkedThread(server'[q][u], link'[q][u], dirty'[q][u])
  <2>1. CASE q = p /\ u = t
    <3>1. MarkedThread(server[p][t], link[p][t], dirty[p][t])
      BY DEF RepliesMarked
    <3>2. QED
      BY <1>1, <1>3, <2>1, <3>1 DEF MarkedThread
  <2>2. CASE q # p \/ u # t
    BY <1>1, <1>3, <2>2 DEF RepliesMarked
  <2>3. QED
    BY <2>1, <2>2
<1>5. PICK o \in Peer : o = Other(p) /\ Other(o) = p
  BY OtherPeer
<1>6. ASSUME NEW q \in Peer, NEW u \in Thread,
             client'[q].pc \in {"send", "wait"}, client'[q].to = u
      PROVE  MarkedClient(client'[q], link[Other(q)][u], dirty[Other(q)][u])
  <2>1. CASE client'[q] = client[q]
    BY <1>6, <2>1 DEF RepliesMarked
  <2>2. CASE client'[q] # client[q]
    <3>1. /\ client' = [client EXCEPT ![o].rep = r] /\ q = o
          /\ client[o].pc = "wait" /\ client[o].to = t
      BY <1>2, <1>5, <2>2 DEF Deliver, TypeInv, ClientTypes
    <3>2. client[o] \in Client
      BY DEF TypeInv, ClientTypes
    <3>3. client'[o] = [client[o] EXCEPT !.rep = r]
      BY <3>1 DEF TypeInv, ClientTypes
    <3>4. client'[o].pc = "wait" /\ client'[o].to = t /\ client'[o].rep = r
      BY <3>1, <3>2, <3>3 DEF Client
    <3>5. Other(q) = p /\ u = t
      BY <1>5, <1>6, <3>1, <3>4
    <3>6. QED
      BY <1>2, <3>1, <3>4, <3>5 DEF MarkedClient
  <2>3. QED
    BY <2>1, <2>2
<1>7. QED
  BY <1>3, <1>4, <1>6 DEF RepliesMarked, Other

\* Every step leaves answers marked.
LEMMA StepMarked ==
  ASSUME TypeInv, RepliesWhole, RepliesMarked, [Next]_vars
  PROVE  RepliesMarked'
<1>1. CASE UNCHANGED vars
  BY <1>1 DEF vars, RepliesMarked, Other
<1>2. CASE Next
  <2>1. PICK p \in Peer :
           \/ \E m \in Message \cup {Sync}, t \in Thread : Connect(p, m, t)
           \/ Send(p) \/ ReceiveReply(p)
           \/ ClientReadId(p) \/ ClientPutMessage(p) \/ ClientPutUsername(p)
           \/ \E t \in Thread :
                \/ StartThread(p, t) \/ Bind(p, t) \/ Accept(p, t)
                \/ ReceiveSync(p, t) \/ ReceiveMessage(p, t)
                \/ ServerReadId(p, t) \/ ServerPutFirst(p, t) \/ ServerPutSecond(p, t)
                \/ Echo(p, t) \/ ReplyLast(p, t) \/ ReplyFullBuffer(p, t) \/ Close(p, t)
           \/ ExecutePut(p)
    BY <1>2, StepCases
  <2>2. CASE \E m \in Message \cup {Sync}, t \in Thread : Connect(p, m, t)
    BY <2>2, ConnectMarked
  <2>3. CASE Send(p)
    BY <2>3, SendMarked
  <2>4. CASE ReceiveReply(p) \/ ClientReadId(p) \/ ClientPutMessage(p) \/ ClientPutUsername(p)
    BY <2>4, ClientMarked
  <2>5. ASSUME NEW t \in Thread, ReceiveSync(p, t) \/ ReceiveMessage(p, t)
        PROVE  RepliesMarked'
    BY <2>5, ReceiveMarked
  <2>6. ASSUME NEW t \in Thread,
               \/ StartThread(p, t) \/ Bind(p, t) \/ Accept(p, t)
               \/ ServerReadId(p, t) \/ ServerPutFirst(p, t) \/ ServerPutSecond(p, t)
        PROVE  RepliesMarked'
    BY <2>6, ServerMarked
  <2>7. ASSUME NEW t \in Thread, Echo(p, t) \/ ReplyLast(p, t) \/ ReplyFullBuffer(p, t)
        PROVE  RepliesMarked'
    BY <2>7, SendsMarked
  <2>8. ASSUME NEW t \in Thread, Close(p, t) PROVE RepliesMarked'
    BY <2>8, CloseMarked
  <2>9. CASE ExecutePut(p)
    <3>1. client' = client /\ server' = server /\ link' = link /\ dirty' = dirty
      BY <2>9 DEF ExecutePut
    <3>2. QED
      BY <3>1 DEF RepliesMarked, Other
  <2>10. QED
    BY <2>1, <2>2, <2>3, <2>4, <2>5, <2>6, <2>7, <2>8, <2>9
<1>3. QED
  BY <1>1, <1>2

\* Only an answer changes the copy.
LEMMA StepCopies ==
  ASSUME TypeInv, RepliesWhole, RepliesMarked, [Next]_vars
  PROVE  \A p \in Peer : copy'[p] # copy[p] =>
           copy'[p] = IF dirty[Other(p)][client[p].to] = TRUE THEN 0 ELSE Copied(Other(p))
<1> SUFFICES ASSUME NEW p \in Peer, copy'[p] # copy[p]
             PROVE  copy'[p] = IF dirty[Other(p)][client[p].to] = TRUE THEN 0
                               ELSE Copied(Other(p))
  OBVIOUS
<1>1. ReceiveReply(p)
  <2>1. CASE UNCHANGED vars
    BY <2>1 DEF vars
  <2>2. CASE Next
    <3>1. PICK q \in Peer : ReceiveReply(q) \/ copy' = copy
      <4>1. PICK q \in Peer :
               \/ \E m \in Message \cup {Sync}, t \in Thread : Connect(q, m, t)
               \/ Send(q) \/ ReceiveReply(q)
               \/ ClientReadId(q) \/ ClientPutMessage(q) \/ ClientPutUsername(q)
               \/ \E t \in Thread :
                    \/ StartThread(q, t) \/ Bind(q, t) \/ Accept(q, t)
                    \/ ReceiveSync(q, t) \/ ReceiveMessage(q, t)
                    \/ ServerReadId(q, t) \/ ServerPutFirst(q, t) \/ ServerPutSecond(q, t)
                    \/ Echo(q, t) \/ ReplyLast(q, t) \/ ReplyFullBuffer(q, t) \/ Close(q, t)
               \/ ExecutePut(q)
        BY <2>2, StepCases
      <4>2. QED
        BY <4>1
        DEF Connect, Send, ClientReadId, ClientPutMessage, ClientPutUsername, StartThread,
            Bind, Accept, ReceiveSync, ReceiveMessage, ServerReadId, ServerPutFirst,
            ServerPutSecond, Echo, ReplyLast, ReplyFullBuffer, Close, ExecutePut
    <3>2. CASE ReceiveReply(q) /\ q # p
      <4>1. copy'[p] = copy[p]
        BY <3>2, ReceiveReplyTyped
      <4>2. QED
        BY <4>1
    <3>3. QED
      BY <3>1, <3>2
  <2>3. QED
    BY <2>1, <2>2
<1>2. /\ client[p].pc = "wait" /\ client[p].rep # NULL /\ client[p].to \in Thread
      /\ client[p].rep \in Reply
  BY <1>1 DEF ReceiveReply, TypeInv, ClientTypes, ClientTyped, Client
<1>3. client[p].rep.echo <=> dirty[Other(p)][client[p].to] = TRUE
  BY <1>2 DEF RepliesMarked, MarkedClient
<1>4. /\ copy' = [copy EXCEPT ![p] = IF client[p].rep.echo THEN 0
                                     ELSE client[p].rep.bytes - HEADER]
      /\ copy \in [Peer -> Nat \cup {NULL}]
  BY <1>1 DEF ReceiveReply, TypeInv, CopyTypes
<1>5. ~client[p].rep.echo => client[p].rep.bytes - HEADER = Copied(Other(p))
  BY <1>2, OtherPeer, ReplyNat DEF RepliesWhole
<1>6. QED
  BY <1>3, <1>4, <1>5

\* A sync copies the other peer's text up to the end of the first buffer, if the buffer of
\* the thread that answers was clean, and otherwise nothing, whatever that thread received
\* before and whatever the threads of both peers do meanwhile (server.h:449-481,
\* socket_server.h:112, socket_client.h:130-153).
THEOREM SyncCopiesOneReply == Spec => CopyIsOneReply
<1>1. Init => TypeInv /\ RepliesWhole /\ RepliesMarked
  BY InitTyped, InitWhole, InitMarked
<1>2. TypeInv /\ RepliesWhole /\ RepliesMarked /\ [Next]_vars
        => (TypeInv /\ RepliesWhole /\ RepliesMarked)'
  BY StepTyped, StepWhole, StepMarked
<1>3. TypeInv /\ RepliesWhole /\ RepliesMarked /\ [Next]_vars
        => [\A p \in Peer : copy'[p] # copy[p] =>
              copy'[p] = IF dirty[Other(p)][client[p].to] = TRUE THEN 0
                         ELSE Copied(Other(p))]_vars
  BY StepCopies
<1>4. QED
  BY <1>1, <1>2, <1>3, PTL DEF Spec, CopyIsOneReply

-----------------------------------------------------------------------------
(* Messages are numbered as they are sent, and answered afterwards.        *)

\* Initially nothing was sent.
LEMMA InitNumbered == Init => SentNumbered
<1> SUFFICES ASSUME Init PROVE SentNumbered
  OBVIOUS
<1>1. sent = {} /\ acked = {}
  BY DEF Init
<1>2. IsFiniteSet(sent)
  BY <1>1, FS_EmptySet
<1>3. \A p \in Peer : client[p].req \notin Message
  BY NotNull DEF Init, Idle
<1>4. QED
  BY <1>1, <1>2, <1>3 DEF SentNumbered

\* Nothing about it changes while the main threads keep their requests, on the same side
\* of the answer.
LEMMA NumberedKept ==
  ASSUME SentNumbered, sent' = sent, acked' = acked,
         \A q \in Peer : client'[q].req \in Message =>
           /\ client'[q].req = client[q].req
           /\ client'[q].pc \in {"send", "wait"} <=> client[q].pc \in {"send", "wait"}
  PROVE  SentNumbered'
<1>1. ASSUME NEW q \in Peer, client'[q].req \in Message
      PROVE  /\ [message |-> client'[q].req, from |-> q] \in sent'
             /\ client'[q].pc \in {"send", "wait"} => client'[q].req \notin acked'
             /\ client'[q].pc \notin {"send", "wait"} => client'[q].req \in acked'
  <2>1. /\ client'[q].req = client[q].req
        /\ client'[q].pc \in {"send", "wait"} <=> client[q].pc \in {"send", "wait"}
    BY <1>1
  <2>2. /\ [message |-> client[q].req, from |-> q] \in sent
        /\ client[q].pc \in {"send", "wait"} => client[q].req \notin acked
        /\ client[q].pc \notin {"send", "wait"} => client[q].req \in acked
    BY <1>1, <2>1 DEF SentNumbered
  <2>3. QED
    BY <2>1, <2>2
<1>2. /\ IsFiniteSet(sent')
      /\ \A s \in sent' : s.message <= Cardinality(sent')
      /\ \A s, r \in sent' : s.message = r.message => s = r
      /\ \A m \in acked' : \E s \in sent' : s.message = m
  BY DEF SentNumbered
<1>3. QED
  BY <1>1, <1>2 DEF SentNumbered

\* A new message has the next number, and no answer.
LEMMA ConnectNumbered ==
  ASSUME TypeInv, SentNumbered, NEW p \in Peer,
         NEW m \in Message \cup {Sync}, NEW t \in Thread, Connect(p, m, t)
  PROVE  SentNumbered'
<1>1. /\ client'[p].pc = "send" /\ client'[p].req = m
      /\ \A q \in Peer \ {p} : client'[q] = client[q]
      /\ acked' = acked
  <2>1. /\ client'[p] = [Idle EXCEPT !.pc = "send", !.req = m, !.to = t]
        /\ \A q \in Peer \ {p} : client'[q] = client[q]
    BY ConnectTyped
  <2>2. acked' = acked
    BY DEF Connect
  <2>3. QED
    BY <2>1, <2>2 DEF Idle
<1>2. CASE m = Sync
  <2>1. sent' = sent
    BY <1>2 DEF Connect, Ask
  <2>2. client'[p].req \notin Message
    BY <1>1, <1>2, NotNull
  <2>3. QED
    BY <1>1, <2>1, <2>2, NumberedKept
<1>3. CASE m # Sync
  <2> DEFINE new == [message |-> m, from |-> p]
             c == Cardinality(sent)
  <2>1. m = c + 1 /\ sent' = sent \cup {new} /\ m \in Message
    BY <1>3 DEF Connect, Ask
  <2>2. IsFiniteSet(sent) /\ c \in Nat /\ \A s \in sent : s.message <= c
    BY FS_CardinalityType DEF SentNumbered
  <2>3. sent \subseteq [message : Message, from : Peer]
    BY DEF TypeInv, HistoryTypes
  <2>4. \A s \in sent : s.message # m
    <3> SUFFICES ASSUME NEW s \in sent PROVE s.message # m
      OBVIOUS
    <3>1. s.message \in Nat
      BY <2>3 DEF Message
    <3> HIDE DEF c
    <3>2. QED
      BY <2>1, <2>2, <3>1
  <2>5. new \notin sent
    BY <2>4
  <2>6. IsFiniteSet(sent') /\ Cardinality(sent') = c + 1
    BY <2>1, <2>2, <2>5, FS_AddElement
  <2>7. \A s \in sent' : s.message <= Cardinality(sent')
    <3> SUFFICES ASSUME NEW s \in sent' PROVE s.message <= c + 1
      BY <2>6
    <3>1. CASE s = new
      <4> HIDE DEF c
      <4>1. QED
        BY <2>1, <2>2, <3>1
    <3>2. CASE s \in sent
      <4>1. s.message \in Nat /\ s.message <= c
        BY <2>2, <2>3, <3>2 DEF Message
      <4> HIDE DEF c
      <4>2. QED
        BY <2>2, <4>1
    <3>3. QED
      BY <2>1, <3>1, <3>2
  <2>8. \A s, r \in sent' : s.message = r.message => s = r
    BY <2>1, <2>4 DEF SentNumbered
  <2>9. \A a \in acked' : \E s \in sent' : s.message = a
    BY <1>1, <2>1 DEF SentNumbered
  <2>10. m \notin acked
    BY <2>4 DEF SentNumbered
  <2>11. \A q \in Peer : client'[q].req \in Message =>
           /\ [message |-> client'[q].req, from |-> q] \in sent'
           /\ client'[q].pc \in {"send", "wait"} => client'[q].req \notin acked'
           /\ client'[q].pc \notin {"send", "wait"} => client'[q].req \in acked'
    BY <1>1, <2>1, <2>10 DEF SentNumbered
  <2>12. QED
    BY <2>6, <2>7, <2>8, <2>9, <2>11 DEF SentNumbered
<1>4. QED
  BY <1>2, <1>3

\* An answered message is the one the thread had sent.
LEMMA ReceiveReplyNumbered ==
  ASSUME TypeInv, RepliesWhole, SentNumbered, NEW p \in Peer, ReceiveReply(p)
  PROVE  SentNumbered'
<1>1. /\ client'[p] = IF client[p].req = Sync THEN Idle
                      ELSE [client[p] EXCEPT !.pc = "id", !.rep = NULL]
      /\ \A q \in Peer \ {p} : client'[q] = client[q]
  BY ReceiveReplyTyped
<1>2. client[p] \in Client /\ client[p].req \in Message \cup {Sync} /\ client[p].pc = "wait"
  BY DEF ReceiveReply, TypeInv, ClientTypes, Client, ClientTyped
<1>3. sent' = sent
  BY DEF ReceiveReply
<1>4. CASE client[p].req = Sync
  <2>1. acked' = acked
    BY <1>4 DEF ReceiveReply
  <2>2. client'[p].req \notin Message
    BY <1>1, <1>4, NotNull DEF Idle
  <2>3. QED
    BY <1>1, <1>3, <2>1, <2>2, NumberedKept
<1>5. CASE client[p].req # Sync
  <2> DEFINE m == client[p].req
  <2>1. acked' = acked \cup {m} /\ m \in Message
    BY <1>2, <1>5 DEF ReceiveReply
  <2>2. client'[p].pc = "id" /\ client'[p].req = m
    BY <1>1, <1>2, <1>5 DEF Client
  <2>3. [message |-> m, from |-> p] \in sent
    BY <2>1 DEF SentNumbered
  <2>4. /\ [message |-> client'[p].req, from |-> p] \in sent'
        /\ client'[p].req \in acked'
    BY <1>3, <2>1, <2>2, <2>3
  <2>5. ASSUME NEW q \in Peer \ {p}, client'[q].req \in Message
        PROVE  /\ [message |-> client'[q].req, from |-> q] \in sent'
               /\ client'[q].pc \in {"send", "wait"} => client'[q].req \notin acked'
               /\ client'[q].pc \notin {"send", "wait"} => client'[q].req \in acked'
    <3>1. client'[q] = client[q]
      BY <1>1
    <3>2. /\ [message |-> client[q].req, from |-> q] \in sent
          /\ client[q].pc \in {"send", "wait"} => client[q].req \notin acked
          /\ client[q].pc \notin {"send", "wait"} => client[q].req \in acked
      BY <2>5, <3>1 DEF SentNumbered
    <3>3. client[q].req # m
      <4>1. client[q].req = m =>
              [message |-> client[q].req, from |-> q] = [message |-> m, from |-> p]
        BY <2>3, <3>2 DEF SentNumbered
      <4>2. QED
        BY <4>1
    <3>4. QED
      BY <1>3, <2>1, <3>1, <3>2, <3>3
  <2>6. /\ IsFiniteSet(sent')
        /\ \A s \in sent' : s.message <= Cardinality(sent')
        /\ \A s, r \in sent' : s.message = r.message => s = r
    BY <1>3 DEF SentNumbered
  <2>7. \A a \in acked' : \E s \in sent' : s.message = a
    BY <1>3, <2>1, <2>3 DEF SentNumbered
  <2>8. \A q \in Peer : client'[q].req \in Message =>
          /\ [message |-> client'[q].req, from |-> q] \in sent'
          /\ client'[q].pc \in {"send", "wait"} => client'[q].req \notin acked'
          /\ client'[q].pc \notin {"send", "wait"} => client'[q].req \in acked'
    BY <2>2, <2>4, <2>5
  <2>9. QED
    BY <2>6, <2>7, <2>8 DEF SentNumbered
<1>6. QED
  BY <1>4, <1>5

\* The main thread goes on with its request, or is done with it.
LEMMA ClientNumbered ==
  ASSUME TypeInv, SentNumbered, NEW p \in Peer,
         Send(p) \/ ClientReadId(p) \/ ClientPutMessage(p) \/ ClientPutUsername(p)
  PROVE  SentNumbered'
<1>1. client[p] \in Client
  BY DEF TypeInv, ClientTypes
<1>2. sent' = sent /\ acked' = acked
  BY DEF Send, ClientReadId, ClientPutMessage, ClientPutUsername, histVars
<1>3. \A q \in Peer : client'[q].req \in Message =>
        /\ client'[q].req = client[q].req
        /\ client'[q].pc \in {"send", "wait"} <=> client[q].pc \in {"send", "wait"}
  <2>1. CASE Send(p)
    <3>1. /\ client'[p] = [client[p] EXCEPT !.pc = "wait"]
          /\ \A q \in Peer \ {p} : client'[q] = client[q]
      BY <2>1, SendTyped
    <3>2. client'[p].req = client[p].req /\ client'[p].pc = "wait" /\ client[p].pc = "send"
      BY <1>1, <2>1, <3>1 DEF Client, Send
    <3>3. QED
      BY <3>1, <3>2
  <2>2. CASE ClientReadId(p)
    <3>1. /\ client'[p] = [client[p] EXCEPT !.pc = "message", !.id = get_new_msg_id(p)]
          /\ \A q \in Peer \ {p} : client'[q] = client[q]
      BY <2>2, ClientReadIdTyped
    <3>2. client'[p].req = client[p].req /\ client'[p].pc = "message"
      BY <1>1, <3>1 DEF Client
    <3>3. client[p].pc = "id"
      BY <2>2 DEF ClientReadId
    <3>4. QED
      BY <3>1, <3>2, <3>3
  <2>3. CASE ClientPutMessage(p)
    <3>1. /\ client'[p] = [client[p] EXCEPT !.pc = "username"]
          /\ \A q \in Peer \ {p} : client'[q] = client[q]
      BY <2>3, ClientPutMessageTyped
    <3>2. /\ client'[p].req = client[p].req
          /\ client'[p].pc = "username" /\ client[p].pc = "message"
      BY <1>1, <2>3, <3>1 DEF Client, ClientPutMessage
    <3>3. QED
      BY <3>1, <3>2
  <2>4. CASE ClientPutUsername(p)
    <3>1. client'[p] = Idle /\ \A q \in Peer \ {p} : client'[q] = client[q]
      BY <2>4, ClientPutUsernameTyped
    <3>2. client'[p].req \notin Message
      BY <3>1, NotNull DEF Idle
    <3>3. QED
      BY <3>1, <3>2
  <2>5. QED
    BY <2>1, <2>2, <2>3, <2>4
<1>4. QED
  BY <1>2, <1>3, NumberedKept

\* No answer that is sent or stored by a server thread changes a request.
LEMMA ServerNumbered ==
  ASSUME TypeInv, RepliesWhole, SentNumbered, NEW p \in Peer, NEW t \in Thread,
         \/ StartThread(p, t) \/ Bind(p, t) \/ Accept(p, t)
         \/ ReceiveSync(p, t) \/ ReceiveMessage(p, t)
         \/ ServerReadId(p, t) \/ ServerPutFirst(p, t) \/ ServerPutSecond(p, t)
         \/ Echo(p, t) \/ ReplyLast(p, t) \/ ReplyFullBuffer(p, t) \/ Close(p, t)
  PROVE  SentNumbered'
<1>1. sent' = sent /\ acked' = acked
  BY DEF StartThread, Bind, Accept, ReceiveSync, ReceiveMessage, ServerReadId, ServerPutFirst,
         ServerPutSecond, Echo, ReplyLast, ReplyFullBuffer, Close, histVars
<1>2. CASE client' = client
  BY <1>1, <1>2, NumberedKept
<1>3. CASE Answers(p)
  BY <1>1, <1>3, AnswersKeep, NumberedKept
<1>4. client' = client \/ Answers(p)
  <2>1. CASE Echo(p, t)
    BY <2>1, EchoTyped
  <2>2. CASE ReplyLast(p, t)
    BY <2>2, ReplyLastTyped
  <2>3. CASE ReplyFullBuffer(p, t)
    BY <2>3, ReplyFullBufferTyped
  <2>4. QED
    BY <2>1, <2>2, <2>3
    DEF StartThread, Bind, Accept, ReceiveSync, ReceiveMessage, ServerReadId, ServerPutFirst,
        ServerPutSecond, Close
<1>5. QED
  BY <1>2, <1>3, <1>4

\* Every step keeps the numbers.
LEMMA StepNumbered ==
  ASSUME TypeInv, RepliesWhole, SentNumbered, [Next]_vars
  PROVE  SentNumbered'
<1>1. CASE UNCHANGED vars
  BY <1>1, NumberedKept DEF vars
<1>2. CASE Next
  <2>1. PICK p \in Peer :
           \/ \E m \in Message \cup {Sync}, t \in Thread : Connect(p, m, t)
           \/ Send(p) \/ ReceiveReply(p)
           \/ ClientReadId(p) \/ ClientPutMessage(p) \/ ClientPutUsername(p)
           \/ \E t \in Thread :
                \/ StartThread(p, t) \/ Bind(p, t) \/ Accept(p, t)
                \/ ReceiveSync(p, t) \/ ReceiveMessage(p, t)
                \/ ServerReadId(p, t) \/ ServerPutFirst(p, t) \/ ServerPutSecond(p, t)
                \/ Echo(p, t) \/ ReplyLast(p, t) \/ ReplyFullBuffer(p, t) \/ Close(p, t)
           \/ ExecutePut(p)
    BY <1>2, StepCases
  <2>2. ASSUME NEW m \in Message \cup {Sync}, NEW t \in Thread, Connect(p, m, t)
        PROVE  SentNumbered'
    BY <2>2, ConnectNumbered
  <2>3. CASE ReceiveReply(p)
    BY <2>3, ReceiveReplyNumbered
  <2>4. CASE Send(p) \/ ClientReadId(p) \/ ClientPutMessage(p) \/ ClientPutUsername(p)
    BY <2>4, ClientNumbered
  <2>5. ASSUME NEW t \in Thread,
               \/ StartThread(p, t) \/ Bind(p, t) \/ Accept(p, t)
               \/ ReceiveSync(p, t) \/ ReceiveMessage(p, t)
               \/ ServerReadId(p, t) \/ ServerPutFirst(p, t) \/ ServerPutSecond(p, t)
               \/ Echo(p, t) \/ ReplyLast(p, t) \/ ReplyFullBuffer(p, t) \/ Close(p, t)
        PROVE  SentNumbered'
    BY <2>5, ServerNumbered
  <2>6. CASE ExecutePut(p)
    <3>1. sent' = sent /\ acked' = acked /\ client' = client
      BY <2>6 DEF ExecutePut, histVars
    <3>2. QED
      BY <3>1, NumberedKept
  <2>7. QED
    BY <2>1, <2>2, <2>3, <2>4, <2>5, <2>6
<1>3. QED
  BY <1>1, <1>2

-----------------------------------------------------------------------------
(* Rows are filled in one at a time.                                       *)

\* Initially all tables are empty and all threads idle.
LEMMA InitSerial == Init => SerialInv
<1> SUFFICES ASSUME Init, NEW p \in Peer PROVE Serial(p)
  BY DEF SerialInv
<1>1. /\ row_count[p] = 0 /\ queue[p] = <<>> /\ \A k \in Id : row[p][k] = NoRow
      /\ client[p].id = NULL /\ client[p].pc = "menu"
      /\ \A t \in Thread : server[p][t].id = NULL
      /\ acked = {}
  BY DEF Init, Idle
<1>2. NobodyHolds(p)
  BY <1>1 DEF NobodyHolds
<1>3. \A k \in Id : row[p][k].message = NULL
  BY <1>1 DEF NoRow
<1>4. Ledger(p, 0, NULL)
  BY <1>1, <1>3 DEF Ledger
<1>5. QED
  BY <1>1, <1>2, <1>4 DEF Serial

\* Who holds an id, and what for, as far as peer p goes.
SameHolders(p) ==
  /\ client'[p].id = client[p].id
  /\ client[p].id # NULL => client'[p].pc = client[p].pc /\ client'[p].req = client[p].req
  /\ \A t \in Thread :
       /\ server'[p][t].id = server[p][t].id
       /\ server[p][t].id # NULL =>
            server'[p][t].pc = server[p][t].pc /\ server'[p][t].name = server[p][t].name

\* The tables, and the message that is to be stored.
SameTables(p) == row'[p] = row[p] /\ row_count'[p] = row_count[p] /\ queue'[p] = queue[p]
SameStored(p) ==
  /\ client'[p].pc = "id" <=> client[p].pc = "id"
  /\ client[p].pc = "id" => client'[p].req = client[p].req

\* What is owed stays owed while the threads keep their ids.
LEMMA HoldersKept ==
  ASSUME NEW p \in Peer, SameHolders(p)
  PROVE  /\ NobodyHolds(p) => NobodyHolds(p)'
         /\ \A n \in Id, m \in Message \cup {NULL}, u \in Name :
              /\ OwesTwo(p, n, m, u) => OwesTwo(p, n, m, u)'
              /\ OwesOne(p, n, m, u) => OwesOne(p, n, m, u)'
              /\ OwesNone(p, m, u) => OwesNone(p, m, u)'
<1>1. NobodyHolds(p) => NobodyHolds(p)'
  BY DEF SameHolders, NobodyHolds
<1>2. ASSUME NEW n \in Id, NEW m \in Message \cup {NULL}, NEW u \in Name, NEW pc,
             ClientHolds(p, pc, n, m, u)
      PROVE  ClientHolds(p, pc, n, m, u)'
  <2>1. client[p].id # NULL
    BY <1>2, NotNull DEF ClientHolds
  <2>2. QED
    BY <1>2, <2>1 DEF ClientHolds, SameHolders
<1>3. ASSUME NEW n \in Id, NEW m \in Message \cup {NULL}, NEW u \in Name, NEW pc,
             NEW t \in Thread, ServerHolds(p, t, pc, n, m, u)
      PROVE  ServerHolds(p, t, pc, n, m, u)'
  <2>1. server[p][t].id # NULL
    BY <1>3, NotNull DEF ServerHolds
  <2>2. QED
    BY <1>3, <2>1 DEF ServerHolds, SameHolders
<1>4. ASSUME NEW n \in Id, NEW m \in Message \cup {NULL}, NEW u \in Name
      PROVE  /\ OwesTwo(p, n, m, u) => OwesTwo(p, n, m, u)'
             /\ OwesOne(p, n, m, u) => OwesOne(p, n, m, u)'
             /\ OwesNone(p, m, u) => OwesNone(p, m, u)'
  <2>1. OwesTwo(p, n, m, u) => OwesTwo(p, n, m, u)'
    BY <1>2, <1>3 DEF OwesTwo
  <2>2. OwesOne(p, n, m, u) => OwesOne(p, n, m, u)'
    BY <1>2, <1>3 DEF OwesOne
  <2>3. OwesNone(p, m, u) => OwesNone(p, m, u)'
    BY <1>1 DEF OwesNone
  <2>4. QED
    BY <2>1, <2>2, <2>3
<1>5. QED
  BY <1>1, <1>4

\* A message that is sent changes no ledger before it is answered.
LEMMA LedgerKept ==
  ASSUME NEW p \in Peer, NEW n \in Nat, NEW m \in Message \cup {NULL}, Ledger(p, n, m),
         row'[p] = row[p], SameStored(p), acked' = acked, sent \subseteq sent',
         \A s \in sent' \ sent : s.message \notin acked
  PROVE  Ledger(p, n, m)'
<1>1. /\ \A k \in Id \ {n} : row'[p][k].message # NULL =>
           /\ row'[p][k].username = p /\ row'[p][k].message # m
           /\ [message |-> row'[p][k].message, from |-> p] \in sent'
           /\ row'[p][k].message \in acked'
      /\ \A j, k \in Id : row'[p][j].message = row'[p][k].message /\ row'[p][j].message # NULL =>
           j = k
      /\ m # NULL => [message |-> m, from |-> p] \in sent' /\ m \in acked'
  BY DEF Ledger
<1>2. client'[p].pc = "id" =>
        client'[p].req # m /\ \A k \in Id : row'[p][k].message # client'[p].req
  BY DEF Ledger, SameStored
<1>3. \A s \in sent' : s.from = p /\ s.message \in acked' =>
        \/ s.message = m
        \/ client'[p].pc = "id" /\ client'[p].req = s.message
        \/ \E k \in Id \ {n} : row'[p][k].message = s.message
  BY DEF Ledger, SameStored
<1>4. QED
  BY <1>1, <1>2, <1>3 DEF Ledger

\* Together: a step that leaves the tables of a peer and the holders of its ids alone.
LEMMA SerialFrame ==
  ASSUME NEW p \in Peer, Serial(p), SameTables(p), SameHolders(p), SameStored(p),
         acked' = acked, sent \subseteq sent', \A s \in sent' \ sent : s.message \notin acked
  PROVE  Serial(p)'
<1>1. \A k \in Id : k > row_count'[p] => row'[p][k] = NoRow
  BY DEF Serial, SameTables
<1>2. CASE queue[p] = <<>> /\ NobodyHolds(p) /\ Ledger(p, 0, NULL)
  <2>1. queue'[p] = <<>> /\ NobodyHolds(p)' /\ Ledger(p, 0, NULL)'
    BY <1>2, HoldersKept, LedgerKept DEF SameTables
  <2>2. QED
    BY <1>1, <2>1 DEF Serial
<1>3. CASE \E n \in Id, m \in Message \cup {NULL}, u \in Name :
             (Empty(p, n, m, u) \/ Half(p, n, m, u)) /\ Ledger(p, n, m)
  <2>1. PICK n \in Id, m \in Message \cup {NULL}, u \in Name :
          (Empty(p, n, m, u) \/ Half(p, n, m, u)) /\ Ledger(p, n, m)
    BY <1>3
  <2>2. Ledger(p, n, m)'
    BY <2>1, LedgerKept, NotNull DEF SameTables
  <2>3. Empty(p, n, m, u) => Empty(p, n, m, u)'
    BY HoldersKept DEF Empty, SameTables, FirstPut, NamePut, put
  <2>4. Half(p, n, m, u) => Half(p, n, m, u)'
    BY HoldersKept DEF Half, SameTables, HalfRow, NamePut, put
  <2>5. QED
    BY <1>1, <2>1, <2>2, <2>3, <2>4 DEF Serial
<1>4. QED
  BY <1>2, <1>3 DEF Serial

\* A thread that owes a put holds an id.
LEMMA OwesHold ==
  ASSUME NEW p \in Peer, NEW n \in Id, NEW m, NEW u, OwesTwo(p, n, m, u) \/ OwesOne(p, n, m, u)
  PROVE  ~NobodyHolds(p)
<1>1. n # NULL
  BY NotNull
<1>2. QED
  BY <1>1 DEF OwesTwo, OwesOne, ClientHolds, ServerHolds, NobodyHolds

\* An id that is read while nothing is pending is behind all rows.
LEMMA RestWithoutBacklog ==
  ASSUME TypeInv, NEW p \in Peer, Serial(p), ~Backlog(p)
  PROVE  queue[p] = <<>> /\ NobodyHolds(p) /\ Ledger(p, 0, NULL)
<1>1. queue[p] = <<>> /\ NobodyHolds(p)
  BY DEF Backlog, NobodyHolds
<1>2. ASSUME NEW n \in Id, NEW m \in Message \cup {NULL}, NEW u \in Name,
             Empty(p, n, m, u) \/ Half(p, n, m, u)
      PROVE  FALSE
  <2>1. OwesTwo(p, n, m, u) \/ OwesOne(p, n, m, u)
    BY <1>1, <1>2 DEF Empty, Half
  <2>2. QED
    BY <1>1, <2>1, OwesHold
<1>3. QED
  BY <1>1, <1>2 DEF Serial

\* A thread that holds an id is the one that owes: two puts, and nothing is pending, ...
LEMMA OwingTwo ==
  ASSUME TypeInv, NEW p \in Peer, Serial(p),
         client[p].pc = "message" \/ \E t \in Thread : server[p][t].pc = "first"
  PROVE  \E n \in Id, m \in Message \cup {NULL}, u \in Name :
           /\ Empty(p, n, m, u) /\ queue[p] = <<>> /\ OwesTwo(p, n, m, u) /\ Ledger(p, n, m)
           /\ client[p].pc = "message" => ClientHolds(p, "message", n, m, u)
           /\ \A t \in Thread : server[p][t].pc = "first" => ServerHolds(p, t, "first", n, m, u)
<1>1. /\ client[p].pc = "message" => client[p].id # NULL
      /\ \A t \in Thread : server[p][t].pc = "first" => server[p][t].id # NULL
  BY DEF TypeInv, ClientTypes, ClientTyped, ServerTypes, ServerTyped
<1>2. ~NobodyHolds(p)
  BY <1>1 DEF NobodyHolds
<1>3. PICK n \in Id, m \in Message \cup {NULL}, u \in Name :
        (Empty(p, n, m, u) \/ Half(p, n, m, u)) /\ Ledger(p, n, m)
  BY <1>2 DEF Serial
<1>4. ~OwesNone(p, m, u)
  BY <1>2 DEF OwesNone
<1>5. ~OwesOne(p, n, m, u)
  <2>1. ~ClientHolds(p, "username", n, m, u)
    BY <1>1 DEF ClientHolds
  <2>2. \A t \in Thread : ~ServerHolds(p, t, "second", n, m, u)
    BY <1>1 DEF ServerHolds
  <2>3. QED
    BY <2>1, <2>2 DEF OwesOne
<1>6. queue[p] = <<>> /\ OwesTwo(p, n, m, u) /\ Empty(p, n, m, u)
  BY <1>3, <1>4, <1>5 DEF Empty, Half
<1>7. client[p].pc = "message" => ClientHolds(p, "message", n, m, u)
  BY <1>1, <1>6 DEF OwesTwo, ServerHolds
<1>8. \A t \in Thread : server[p][t].pc = "first" => ServerHolds(p, t, "first", n, m, u)
  BY <1>1, <1>6 DEF OwesTwo, ClientHolds, ServerHolds
<1>9. QED
  BY <1>3, <1>6, <1>7, <1>8

\* ... or one, and the other is pending or was executed.
LEMMA OwingOne ==
  ASSUME TypeInv, NEW p \in Peer, Serial(p),
         client[p].pc = "username" \/ \E t \in Thread : server[p][t].pc = "second"
  PROVE  \E n \in Id, m \in Message \cup {NULL}, u \in Name :
           /\ \/ Empty(p, n, m, u) /\ queue[p] = <<FirstPut(n, m, u)>>
              \/ Half(p, n, m, u) /\ queue[p] = <<>>
           /\ OwesOne(p, n, m, u) /\ Ledger(p, n, m)
           /\ client[p].pc = "username" => ClientHolds(p, "username", n, m, u)
           /\ \A t \in Thread : server[p][t].pc = "second" => ServerHolds(p, t, "second", n, m, u)
<1>1. /\ client[p].pc = "username" => client[p].id # NULL
      /\ \A t \in Thread : server[p][t].pc = "second" => server[p][t].id # NULL
  BY DEF TypeInv, ClientTypes, ClientTyped, ServerTypes, ServerTyped
<1>2. ~NobodyHolds(p)
  BY <1>1 DEF NobodyHolds
<1>3. PICK n \in Id, m \in Message \cup {NULL}, u \in Name :
        (Empty(p, n, m, u) \/ Half(p, n, m, u)) /\ Ledger(p, n, m)
  BY <1>2 DEF Serial
<1>4. ~OwesNone(p, m, u)
  BY <1>2 DEF OwesNone
<1>5. ~OwesTwo(p, n, m, u)
  <2>1. ~ClientHolds(p, "message", n, m, u)
    BY <1>1 DEF ClientHolds
  <2>2. \A t \in Thread : ~ServerHolds(p, t, "first", n, m, u)
    BY <1>1 DEF ServerHolds
  <2>3. QED
    BY <2>1, <2>2 DEF OwesTwo
<1>6. /\ \/ Empty(p, n, m, u) /\ queue[p] = <<FirstPut(n, m, u)>>
         \/ Half(p, n, m, u) /\ queue[p] = <<>>
      /\ OwesOne(p, n, m, u)
  BY <1>3, <1>4, <1>5 DEF Empty, Half
<1>7. client[p].pc = "username" => ClientHolds(p, "username", n, m, u)
  BY <1>1, <1>6 DEF OwesOne, ServerHolds
<1>8. \A t \in Thread : server[p][t].pc = "second" => ServerHolds(p, t, "second", n, m, u)
  BY <1>1, <1>6 DEF OwesOne, ClientHolds, ServerHolds
<1>9. QED
  BY <1>3, <1>6, <1>7, <1>8

\* A step that disturbs no peer's puts.
LEMMA SerialPassive ==
  ASSUME SerialInv, overlapped' = overlapped, acked' = acked, sent \subseteq sent',
         \A s \in sent' \ sent : s.message \notin acked,
         \A q \in Peer : SameTables(q) /\ SameHolders(q) /\ SameStored(q)
  PROVE  SerialInv'
<1> SUFFICES ASSUME ~overlapped, NEW q \in Peer PROVE Serial(q)'
  BY DEF SerialInv
<1>1. Serial(q)
  BY DEF SerialInv
<1>2. QED
  BY <1>1, SerialFrame

\* A step of peer p that has to be looked at leaves the other peer's puts alone.
LEMMA SerialOther ==
  ASSUME SerialInv, NEW p \in Peer, ~overlapped' => ~overlapped,
         acked' = acked, sent' = sent,
         \A q \in Peer \ {p} : SameTables(q) /\ SameHolders(q) /\ SameStored(q),
         ~overlapped' => Serial(p)'
  PROVE  SerialInv'
<1> SUFFICES ASSUME ~overlapped', NEW q \in Peer PROVE Serial(q)'
  BY DEF SerialInv
<1>1. CASE q = p
  BY <1>1
<1>2. CASE q # p
  <2>1. Serial(q)
    BY DEF SerialInv
  <2>2. SameTables(q) /\ SameHolders(q) /\ SameStored(q)
    BY <1>2
  <2>3. QED
    BY <2>1, <2>2, SerialFrame
<1>3. QED
  BY <1>1, <1>2

\* A peer whose threads and tables stay as they are.
LEMMA Untouched ==
  ASSUME NEW q \in Peer, client'[q] = client[q],
         \A t \in Thread : server'[q][t] = server[q][t], SameTables(q)
  PROVE  SameTables(q) /\ SameHolders(q) /\ SameStored(q)
  BY DEF SameHolders, SameStored

\* To connect stores nothing, and the message it sends has no answer yet.
LEMMA ConnectSerial ==
  ASSUME TypeInv, SentNumbered, SerialInv, NEW p \in Peer,
         NEW m \in Message \cup {Sync}, NEW t \in Thread, Connect(p, m, t)
  PROVE  SerialInv'
<1>1. /\ client'[p].pc = "send" /\ client'[p].req = m /\ client'[p].id = NULL
      /\ \A q \in Peer \ {p} : client'[q] = client[q]
  <2>1. /\ client'[p] = [Idle EXCEPT !.pc = "send", !.req = m, !.to = t]
        /\ \A q \in Peer \ {p} : client'[q] = client[q]
    BY ConnectTyped
  <2>2. QED
    BY <2>1 DEF Idle
<1>2. client[p].pc = "menu" /\ client[p].id = NULL
  BY DEF Connect, Ask, TypeInv, ClientTypes, ClientTyped
<1>3. /\ overlapped' = overlapped /\ acked' = acked /\ server' = server
      /\ \A q \in Peer : SameTables(q)
  BY DEF Connect, tables, SameTables
<1>4. \A q \in Peer : SameHolders(q) /\ SameStored(q)
  BY <1>1, <1>2, <1>3 DEF SameHolders, SameStored
<1>5. sent \subseteq sent' /\ \A s \in sent' \ sent : s.message \notin acked
  <2>1. CASE m = Sync
    BY <2>1 DEF Connect, Ask
  <2>2. CASE m # Sync
    <3>1. sent' = sent \cup {[message |-> m, from |-> p]} /\ m \in Message
      BY <2>2 DEF Connect, Ask
    <3>2. SentNumbered'
      BY ConnectNumbered
    <3>3. m \notin acked
      BY <1>1, <1>3, <3>1, <3>2 DEF SentNumbered
    <3>4. QED
      BY <3>1, <3>3
  <2>3. QED
    BY <2>1, <2>2
<1>6. QED
  BY <1>3, <1>4, <1>5, SerialPassive

\* Nor does sending.
LEMMA SendSerial ==
  ASSUME TypeInv, SerialInv, NEW p \in Peer, Send(p)
  PROVE  SerialInv'
<1>1. /\ client'[p] = [client[p] EXCEPT !.pc = "wait"]
      /\ \A q \in Peer \ {p} : client'[q] = client[q]
  BY SendTyped
<1>2. client[p] \in Client /\ client[p].pc = "send" /\ client[p].id = NULL
  BY DEF Send, TypeInv, ClientTypes, ClientTyped
<1>3. client'[p].pc = "wait" /\ client'[p].id = NULL
  BY <1>1, <1>2 DEF Client
<1>4. /\ overlapped' = overlapped /\ acked' = acked /\ sent' = sent /\ server' = server
      /\ \A q \in Peer : SameTables(q)
  BY DEF Send, tables, histVars, SameTables
<1>5. \A q \in Peer : SameHolders(q) /\ SameStored(q)
  BY <1>1, <1>2, <1>3, <1>4 DEF SameHolders, SameStored
<1>6. QED
  BY <1>4, <1>5, SerialPassive

\* Nor a server thread that neither reads an id nor submits a put.
LEMMA ServerSerial ==
  ASSUME TypeInv, RepliesWhole, SerialInv, NEW p \in Peer, NEW t \in Thread,
         \/ StartThread(p, t) \/ Bind(p, t) \/ Accept(p, t)
         \/ ReceiveSync(p, t) \/ ReceiveMessage(p, t)
         \/ Echo(p, t) \/ ReplyLast(p, t) \/ ReplyFullBuffer(p, t) \/ Close(p, t)
  PROVE  SerialInv'
<1>1. server[p][t] \in Server /\ server[p][t].id = NULL
  <2>1. server[p][t].pc \in {"off", "bind", "listen", "recv", "echo", "reply"}
    BY DEF StartThread, Bind, Accept, ReceiveSync, ReceiveMessage, Echo, ReplyLast,
           ReplyFullBuffer, Close
  <2>2. QED
    BY <2>1 DEF TypeInv, ServerTypes, ServerTyped
<1>2. /\ server'[p][t].id = NULL
      /\ \A q \in Peer, u \in Thread : q # p \/ u # t => server'[q][u] = server[q][u]
  <2>1. CASE StartThread(p, t)
    <3>1. /\ server'[p][t] = [server[p][t] EXCEPT !.pc = "bind"]
          /\ \A q \in Peer, u \in Thread : q # p \/ u # t => server'[q][u] = server[q][u]
      BY <2>1, StartThreadTyped
    <3>2. QED
      BY <1>1, <3>1 DEF Server
  <2>2. CASE Bind(p, t)
    <3>1. /\ server'[p][t] = [server[p][t] EXCEPT !.pc = "listen"]
          /\ \A q \in Peer, u \in Thread : q # p \/ u # t => server'[q][u] = server[q][u]
      BY <2>2, BindTyped
    <3>2. QED
      BY <1>1, <3>1 DEF Server
  <2>3. CASE Accept(p, t)
    <3>1. /\ server'[p][t] = [server[p][t] EXCEPT !.pc = "recv"]
          /\ \A q \in Peer, u \in Thread : q # p \/ u # t => server'[q][u] = server[q][u]
      BY <2>3, AcceptTyped
    <3>2. QED
      BY <1>1, <3>1 DEF Server
  <2>4. CASE ReceiveSync(p, t)
    <3>1. /\ server'[p][t] = [server[p][t] EXCEPT !.pc = "reply", !.i = HEADER]
          /\ \A q \in Peer, u \in Thread : q # p \/ u # t => server'[q][u] = server[q][u]
      BY <2>4, ReceiveSyncTyped
    <3>2. QED
      BY <1>1, <3>1 DEF Server
  <2>5. CASE ReceiveMessage(p, t)
    <3>1. /\ server'[p][t] = [server[p][t] EXCEPT !.pc = "id",
                                 !.name = IF link[p][t].req = Sync THEN Noise ELSE Other(p)]
          /\ \A q \in Peer, u \in Thread : q # p \/ u # t => server'[q][u] = server[q][u]
      BY <2>5, ReceiveMessageTyped
    <3>2. QED
      BY <1>1, <3>1 DEF Server
  <2>6. CASE Echo(p, t)
    <3>1. /\ server'[p][t] = [server[p][t] EXCEPT !.pc = "recv"]
          /\ \A q \in Peer, u \in Thread : q # p \/ u # t => server'[q][u] = server[q][u]
      BY <2>6, EchoTyped
    <3>2. QED
      BY <1>1, <3>1 DEF Server
  <2>7. CASE ReplyLast(p, t)
    <3>1. /\ server'[p][t] = [server[p][t] EXCEPT !.pc = "recv"]
          /\ \A q \in Peer, u \in Thread : q # p \/ u # t => server'[q][u] = server[q][u]
      BY <2>7, ReplyLastTyped
    <3>2. QED
      BY <1>1, <3>1 DEF Server
  <2>8. CASE ReplyFullBuffer(p, t)
    <3>1. /\ server'[p][t] = [server[p][t] EXCEPT !.i = 0]
          /\ \A q \in Peer, u \in Thread : q # p \/ u # t => server'[q][u] = server[q][u]
      BY <2>8, ReplyFullBufferTyped
    <3>2. QED
      BY <1>1, <3>1 DEF Server
  <2>9. CASE Close(p, t)
    <3>1. /\ server'[p][t] = [server[p][t] EXCEPT !.pc = "bind", !.i = 0]
          /\ \A q \in Peer, u \in Thread : q # p \/ u # t => server'[q][u] = server[q][u]
      BY <2>9, CloseTyped
    <3>2. QED
      BY <1>1, <3>1 DEF Server
  <2>10. QED
    BY <2>1, <2>2, <2>3, <2>4, <2>5, <2>6, <2>7, <2>8, <2>9
<1>3. \A q \in Peer : /\ client'[q].pc = client[q].pc /\ client'[q].req = client[q].req
                      /\ client'[q].id = client[q].id
  <2>1. CASE Echo(p, t)
    BY <2>1, EchoTyped, AnswersKeep
  <2>2. CASE ReplyLast(p, t)
    BY <2>2, ReplyLastTyped, AnswersKeep
  <2>3. CASE ReplyFullBuffer(p, t)
    BY <2>3, ReplyFullBufferTyped, AnswersKeep
  <2>4. CASE client' = client
    BY <2>4
  <2>5. QED
    BY <2>1, <2>2, <2>3, <2>4
    DEF StartThread, Bind, Accept, ReceiveSync, ReceiveMessage, Close
<1>4. /\ overlapped' = overlapped /\ acked' = acked /\ sent' = sent
      /\ \A q \in Peer : SameTables(q)
  <2>1. UNCHANGED tables /\ UNCHANGED histVars
    BY DEF StartThread, Bind, Accept, ReceiveSync, ReceiveMessage, Echo, ReplyLast,
           ReplyFullBuffer, Close
  <2>2. QED
    BY <2>1 DEF tables, histVars, SameTables
<1>5. \A q \in Peer : SameHolders(q) /\ SameStored(q)
  BY <1>1, <1>2, <1>3 DEF SameHolders, SameStored
<1>6. QED
  BY <1>4, <1>5, SerialPassive

\* The row that is being written has the message that is on its way, or none.
LEMMA WrittenRow ==
  ASSUME NEW p \in Peer, \A k \in Id : k > row_count[p] => row[p][k] = NoRow, TypeInv,
         NEW n \in Id, NEW m \in Message \cup {NULL}, NEW u \in Name,
         Empty(p, n, m, u) \/ Half(p, n, m, u)
  PROVE  row[p][n].message \in {NULL, m}
<1>1. CASE Empty(p, n, m, u)
  <2>1. n = row_count[p] + 1 /\ row_count[p] \in Nat
    BY <1>1 DEF Empty, TypeInv, TableTypes
  <2>2. n > row_count[p]
    BY <2>1
  <2>3. QED
    BY <2>2 DEF NoRow
<1>2. CASE Half(p, n, m, u)
  BY <1>2 DEF Half, HalfRow
<1>3. QED
  BY <1>1, <1>2

\* An answer enters the message into the ledger: it has still to be stored.
LEMMA AnswerLedger ==
  ASSUME TypeInv, RepliesWhole, SentNumbered, NEW p \in Peer, ReceiveReply(p),
         client[p].req # Sync, NEW q \in Peer, NEW n \in Nat, NEW m \in Message \cup {NULL},
         n \in Id => row[q][n].message \in {NULL, m}, Ledger(q, n, m)
  PROVE  Ledger(q, n, m)'
<1>1. PICK a \in Message : a = client[p].req
  BY DEF ReceiveReply, TypeInv, ClientTypes, Client, ClientTyped
<1>2. /\ acked' = acked \cup {a} /\ sent' = sent /\ row' = row
      /\ client[p].pc = "wait"
  BY <1>1 DEF ReceiveReply, tables
<1>3. /\ client'[p].pc = "id" /\ client'[p].req = a
      /\ \A r \in Peer \ {p} : client'[r] = client[r]
  <2>1. client'[p] = [client[p] EXCEPT !.pc = "id", !.rep = NULL]
    BY ReceiveReplyTyped
  <2>2. client[p] \in Client
    BY DEF TypeInv, ClientTypes
  <2>3. client'[p].pc = "id" /\ client'[p].req = a
    BY <1>1, <2>1, <2>2 DEF Client
  <2>4. \A r \in Peer \ {p} : client'[r] = client[r]
    BY ReceiveReplyTyped
  <2>5. QED
    BY <2>3, <2>4
<1>4. /\ [message |-> a, from |-> p] \in sent /\ a \notin acked
      /\ \A s, r \in sent : s.message = r.message => s = r
  BY <1>1, <1>2 DEF SentNumbered
<1>5. /\ \A k \in Id \ {n} : row'[q][k].message # NULL =>
           /\ row'[q][k].username = q /\ row'[q][k].message # m
           /\ [message |-> row'[q][k].message, from |-> q] \in sent'
           /\ row'[q][k].message \in acked'
      /\ \A j, k \in Id : row'[q][j].message = row'[q][k].message /\ row'[q][j].message # NULL =>
           j = k
      /\ m # NULL => [message |-> m, from |-> q] \in sent' /\ m \in acked'
  BY <1>2 DEF Ledger
<1>6. client'[q].pc = "id" =>
        client'[q].req # m /\ \A k \in Id : row'[q][k].message # client'[q].req
  <2>1. CASE q = p
    <3>1. a # m
      BY <1>1, <1>4, NotNull DEF Ledger
    <3>2. ASSUME NEW k \in Id PROVE row[q][k].message # a
      <4>1. CASE k = n
        BY <3>1, <4>1, NotNull
      <4>2. CASE k # n
        <5>1. row[q][k].message # NULL => row[q][k].message \in acked
          BY <4>2 DEF Ledger
        <5>2. QED
          BY <1>1, <1>4, <5>1, NotNull
      <4>3. QED
        BY <4>1, <4>2
    <3>3. QED
      BY <1>2, <1>3, <2>1, <3>1, <3>2
  <2>2. CASE q # p
    BY <1>2, <1>3, <2>2 DEF Ledger
  <2>3. QED
    BY <2>1, <2>2
<1>7. ASSUME NEW s \in sent, s.from = q, s.message \in acked'
      PROVE  \/ s.message = m
             \/ client'[q].pc = "id" /\ client'[q].req = s.message
             \/ \E k \in Id \ {n} : row[q][k].message = s.message
  <2>1. CASE s.message = a
    <3>1. s = [message |-> a, from |-> p]
      BY <1>4, <2>1
    <3>2. q = p
      BY <1>7, <3>1
    <3>3. QED
      BY <1>3, <2>1, <3>2
  <2>2. CASE s.message # a
    <3>1. \/ s.message = m
          \/ client[q].pc = "id" /\ client[q].req = s.message
          \/ \E k \in Id \ {n} : row[q][k].message = s.message
      BY <1>2, <1>7, <2>2 DEF Ledger
    <3>2. QED
      BY <1>2, <1>3, <3>1
  <2>3. QED
    BY <2>1, <2>2
<1>8. QED
  BY <1>2, <1>5, <1>6, <1>7 DEF Ledger

\* And changes no put.
LEMMA ReceiveReplySerial ==
  ASSUME TypeInv, RepliesWhole, SentNumbered, SerialInv, NEW p \in Peer, ReceiveReply(p)
  PROVE  SerialInv'
<1>1. /\ client'[p] = IF client[p].req = Sync THEN Idle
                      ELSE [client[p] EXCEPT !.pc = "id", !.rep = NULL]
      /\ \A q \in Peer \ {p} : client'[q] = client[q]
  BY ReceiveReplyTyped
<1>2. client[p] \in Client /\ client[p].pc = "wait" /\ client[p].id = NULL
  BY DEF ReceiveReply, TypeInv, ClientTypes, ClientTyped
<1>3. client'[p].id = NULL
  BY <1>1, <1>2 DEF Idle, Client
<1>4. /\ overlapped' = overlapped /\ sent' = sent /\ server' = server
      /\ \A q \in Peer : SameTables(q)
  BY DEF ReceiveReply, tables, SameTables
<1>5. \A q \in Peer : SameHolders(q)
  BY <1>1, <1>2, <1>3, <1>4 DEF SameHolders
<1>6. CASE client[p].req = Sync
  <2>1. client'[p].pc = "menu" /\ acked' = acked
    BY <1>1, <1>6 DEF Idle, ReceiveReply
  <2>2. \A q \in Peer : SameStored(q)
    BY <1>1, <1>2, <2>1 DEF SameStored
  <2>3. QED
    BY <1>4, <1>5, <2>1, <2>2, SerialPassive
<1>7. CASE client[p].req # Sync
  <2> SUFFICES ASSUME ~overlapped, NEW q \in Peer PROVE Serial(q)'
    BY <1>4 DEF SerialInv
  <2>1. Serial(q) /\ SameTables(q) /\ SameHolders(q)
    BY <1>4, <1>5 DEF SerialInv
  <2>2. \A k \in Id : k > row_count[q] => row[q][k] = NoRow
    BY <2>1 DEF Serial
  <2>3. \A k \in Id : k > row_count'[q] => row'[q][k] = NoRow
    BY <2>1, <2>2 DEF SameTables
  <2>4. CASE queue[q] = <<>> /\ NobodyHolds(q) /\ Ledger(q, 0, NULL)
    <3>1. 0 \notin Id
      BY DEF Id
    <3>2. queue'[q] = <<>> /\ NobodyHolds(q)' /\ Ledger(q, 0, NULL)'
      BY <1>7, <2>1, <2>4, <3>1, HoldersKept, AnswerLedger DEF SameTables
    <3>3. QED
      BY <2>3, <3>2 DEF Serial
  <2>5. ASSUME NEW n \in Id, NEW m \in Message \cup {NULL}, NEW u \in Name,
               Empty(q, n, m, u) \/ Half(q, n, m, u), Ledger(q, n, m)
        PROVE  Serial(q)'
    <3>1. row[q][n].message \in {NULL, m}
      BY <2>2, <2>5, WrittenRow
    <3>2. Ledger(q, n, m)'
      BY <1>7, <2>5, <3>1, AnswerLedger, NotNull
    <3>3. Empty(q, n, m, u) => Empty(q, n, m, u)'
      BY <2>1, HoldersKept DEF Empty, SameTables, FirstPut, NamePut, put
    <3>4. Half(q, n, m, u) => Half(q, n, m, u)'
      BY <2>1, HoldersKept DEF Half, SameTables, HalfRow, NamePut, put
    <3>5. QED
      BY <2>3, <2>5, <3>2, <3>3, <3>4 DEF Serial
  <2>6. QED
    BY <2>1, <2>4, <2>5 DEF Serial
<1>8. QED
  BY <1>6, <1>7

\* The main thread reads an id for an answered message: two puts are owed.
LEMMA ClientReadIdSerial ==
  ASSUME TypeInv, SentNumbered, SerialInv, NEW p \in Peer, ClientReadId(p)
  PROVE  SerialInv'
<1>1. /\ client'[p] = [client[p] EXCEPT !.pc = "message", !.id = get_new_msg_id(p)]
      /\ \A q \in Peer \ {p} : client'[q] = client[q]
  BY ClientReadIdTyped
<1>2. PICK n \in Id : n = get_new_msg_id(p)
  BY ReadIdTyped DEF ClientReadId
<1>3. client[p] \in Client /\ client[p].pc = "id" /\ client[p].req \in Message
  BY DEF ClientReadId, TypeInv, ClientTypes, ClientTyped
<1>4. PICK m \in Message : m = client[p].req
  BY <1>3
<1>5. client'[p].pc = "message" /\ client'[p].id = n /\ client'[p].req = m
  BY <1>1, <1>2, <1>3, <1>4 DEF Client
<1>6. /\ server' = server /\ row' = row /\ row_count' = row_count /\ queue' = queue
      /\ sent' = sent /\ acked' = acked
  BY DEF ClientReadId, tables
<1>7. overlapped' = (overlapped \/ Backlog(p))
  BY DEF ClientReadId, ReadId
<1>8. ASSUME ~overlapped' PROVE Serial(p)'
  <2>1. Serial(p) /\ ~Backlog(p)
    BY <1>7, <1>8 DEF SerialInv
  <2>2. queue[p] = <<>> /\ NobodyHolds(p) /\ Ledger(p, 0, NULL)
    BY <2>1, RestWithoutBacklog
  <2>3. n = row_count[p] + 1 /\ row_count[p] \in Nat
    BY <1>2 DEF get_new_msg_id, TypeInv, TableTypes
  <2>4. \A k \in Id : k > row_count[p] => row[p][k] = NoRow
    BY <2>1 DEF Serial
  <2>5. row[p][n].message = NULL
    <3>1. n > row_count[p]
      BY <2>3
    <3>2. QED
      BY <2>4, <3>1 DEF NoRow
  <2>6. m # NULL /\ p \in Name
    BY NotNull DEF Name
  <2>7. Empty(p, n, m, p)'
    <3>1. ClientHolds(p, "message", n, m, p)'
      BY <1>5, <1>6, <2>2, <2>6 DEF ClientHolds, NobodyHolds
    <3>2. QED
      BY <1>6, <2>2, <2>3, <3>1 DEF Empty, OwesTwo
  <2>8. Ledger(p, n, m)'
    <3>1. /\ \A k \in Id : row[p][k].message # NULL =>
               /\ row[p][k].username = p
               /\ [message |-> row[p][k].message, from |-> p] \in sent
               /\ row[p][k].message \in acked
          /\ \A j, k \in Id : row[p][j].message = row[p][k].message /\ row[p][j].message # NULL =>
               j = k
      <4>1. Id \ {0} = Id
        BY DEF Id
      <4>2. QED
        BY <2>2, <4>1 DEF Ledger
    <3>2. \A k \in Id : row[p][k].message # m
      BY <1>3, <1>4, <2>2 DEF Ledger
    <3>3. [message |-> m, from |-> p] \in sent /\ m \in acked
      BY <1>3, <1>4 DEF SentNumbered
    <3>4. \A s \in sent : s.from = p /\ s.message \in acked =>
            \/ s.message = m
            \/ \E k \in Id \ {n} : row[p][k].message = s.message
      <4> SUFFICES ASSUME NEW s \in sent, s.from = p, s.message \in acked, s.message # m
                   PROVE  \E k \in Id \ {n} : row[p][k].message = s.message
        OBVIOUS
      <4>1. s.message # NULL
        BY NotNull DEF TypeInv, HistoryTypes
      <4>2. \E k \in Id : row[p][k].message = s.message
        BY <1>4, <2>2, <4>1 DEF Ledger
      <4>3. QED
        BY <2>5, <4>1, <4>2
    <3>5. client'[p].pc # "id"
      BY <1>5
    <3>6. QED
      BY <1>6, <3>1, <3>2, <3>3, <3>4, <3>5 DEF Ledger
  <2>9. QED
    BY <1>6, <2>4, <2>6, <2>7, <2>8 DEF Serial
<1>9. \A q \in Peer \ {p} : SameTables(q) /\ SameHolders(q) /\ SameStored(q)
  BY <1>1, <1>6, Untouched DEF SameTables
<1>10. QED
  BY <1>6, <1>7, <1>8, <1>9, SerialOther

\* A server thread reads one for a name: the same, without a message.
LEMMA ServerReadIdSerial ==
  ASSUME TypeInv, SerialInv, NEW p \in Peer, NEW t \in Thread, ServerReadId(p, t)
  PROVE  SerialInv'
<1>1. /\ server'[p][t] = [server[p][t] EXCEPT !.pc = "first", !.id = get_new_msg_id(p)]
      /\ \A q \in Peer, v \in Thread : q # p \/ v # t => server'[q][v] = server[q][v]
  BY ServerReadIdTyped
<1>2. PICK n \in Id : n = get_new_msg_id(p)
  BY ReadIdTyped DEF ServerReadId
<1>3. server[p][t] \in Server /\ server[p][t].name \in Name
  BY DEF ServerReadId, TypeInv, ServerTypes, ServerTyped
<1>4. PICK u \in Name : u = server[p][t].name
  BY <1>3
<1>5. server'[p][t].pc = "first" /\ server'[p][t].id = n /\ server'[p][t].name = u
  BY <1>1, <1>2, <1>3, <1>4 DEF Server
<1>6. /\ client' = client /\ row' = row /\ row_count' = row_count /\ queue' = queue
      /\ sent' = sent /\ acked' = acked
  BY DEF ServerReadId, tables
<1>7. overlapped' = (overlapped \/ Backlog(p))
  BY DEF ServerReadId, ReadId
<1>8. ASSUME ~overlapped' PROVE Serial(p)'
  <2>1. Serial(p) /\ ~Backlog(p)
    BY <1>7, <1>8 DEF SerialInv
  <2>2. queue[p] = <<>> /\ NobodyHolds(p) /\ Ledger(p, 0, NULL)
    BY <2>1, RestWithoutBacklog
  <2>3. n = row_count[p] + 1 /\ row_count[p] \in Nat
    BY <1>2 DEF get_new_msg_id, TypeInv, TableTypes
  <2>4. \A k \in Id : k > row_count[p] => row[p][k] = NoRow
    BY <2>1 DEF Serial
  <2>5. row[p][n].message = NULL
    <3>1. n > row_count[p]
      BY <2>3
    <3>2. QED
      BY <2>4, <3>1 DEF NoRow
  <2>6. Empty(p, n, NULL, u)'
    <3>1. ServerHolds(p, t, "first", n, NULL, u)'
      BY <1>1, <1>5, <1>6, <2>2 DEF ServerHolds, NobodyHolds
    <3>2. QED
      BY <1>6, <2>2, <2>3, <3>1 DEF Empty, OwesTwo
  <2>7. Ledger(p, n, NULL)'
    <3>1. /\ \A k \in Id : row[p][k].message # NULL =>
               /\ row[p][k].username = p
               /\ [message |-> row[p][k].message, from |-> p] \in sent
               /\ row[p][k].message \in acked
          /\ \A j, k \in Id : row[p][j].message = row[p][k].message /\ row[p][j].message # NULL =>
               j = k
      <4>1. Id \ {0} = Id
        BY DEF Id
      <4>2. QED
        BY <2>2, <4>1 DEF Ledger
    <3>2. client[p].pc = "id" =>
            client[p].req # NULL /\ \A k \in Id : row[p][k].message # client[p].req
      BY <2>2 DEF Ledger
    <3>3. \A s \in sent : s.from = p /\ s.message \in acked =>
            \/ client[p].pc = "id" /\ client[p].req = s.message
            \/ \E k \in Id \ {n} : row[p][k].message = s.message
      <4> SUFFICES ASSUME NEW s \in sent, s.from = p, s.message \in acked,
                          ~(client[p].pc = "id" /\ client[p].req = s.message)
                   PROVE  \E k \in Id \ {n} : row[p][k].message = s.message
        OBVIOUS
      <4>1. s.message # NULL
        BY NotNull DEF TypeInv, HistoryTypes
      <4>2. \E k \in Id : row[p][k].message = s.message
        BY <2>2, <4>1 DEF Ledger
      <4>3. QED
        BY <2>5, <4>1, <4>2
    <3>4. QED
      BY <1>6, <3>1, <3>2, <3>3 DEF Ledger
  <2>8. QED
    BY <1>6, <2>4, <2>6, <2>7 DEF Serial
<1>9. \A q \in Peer \ {p} : SameTables(q) /\ SameHolders(q) /\ SameStored(q)
  BY <1>1, <1>6, Untouched DEF SameTables
<1>10. QED
  BY <1>6, <1>7, <1>8, <1>9, SerialOther

\* One put appended to none makes one, to one two.
LEMMA AppendPut ==
  /\ \A q : Append(<<>>, q) = <<q>>
  /\ \A q, r : Append(<<r>>, q) = <<r, q>>
<1>1. ASSUME NEW q PROVE Append(<<>>, q) = <<q>>
  OBVIOUS
<1>2. ASSUME NEW q, NEW r PROVE Append(<<r>>, q) = <<r, q>>
  <2>1. <<r>> \in Seq({q, r}) /\ q \in {q, r} /\ Len(<<r>>) = 1 /\ <<r>>[1] = r
    OBVIOUS
  <2> DEFINE a == Append(<<r>>, q)
  <2>2. a \in Seq({q, r}) /\ Len(a) = 2 /\ a[2] = q /\ a[1] = r
    BY <2>1, AppendProperties
  <2>3. <<r, q>> \in Seq({q, r}) /\ Len(<<r, q>>) = 2 /\ <<r, q>>[1] = r /\ <<r, q>>[2] = q
    OBVIOUS
  <2> HIDE DEF a
  <2>4. ASSUME NEW i \in 1 .. 2 PROVE a[i] = <<r, q>>[i]
    <3>1. i = 1 \/ i = 2
      OBVIOUS
    <3>2. QED
      BY <2>2, <2>3, <3>1
  <2>5. a = <<r, q>>
    BY <2>2, <2>3, <2>4, SeqEqual
  <2>6. QED
    BY <2>5 DEF a
<1>3. QED
  BY <1>1, <1>2

\* The first of the two puts: one is pending, one owed.
LEMMA ClientPutMessageSerial ==
  ASSUME TypeInv, SerialInv, NEW p \in Peer, ClientPutMessage(p)
  PROVE  SerialInv'
<1>1. /\ client'[p] = [client[p] EXCEPT !.pc = "username"]
      /\ \A q \in Peer \ {p} : client'[q] = client[q]
      /\ queue'[p] = Append(queue[p], put(client[p].id, "message", client[p].req))
      /\ \A q \in Peer \ {p} : queue'[q] = queue[q]
  BY ClientPutMessageTyped
<1>2. client[p] \in Client /\ client[p].pc = "message"
  BY DEF ClientPutMessage, TypeInv, ClientTypes
<1>3. /\ client'[p].pc = "username"
      /\ client'[p].id = client[p].id /\ client'[p].req = client[p].req
  BY <1>1, <1>2 DEF Client
<1>4. /\ server' = server /\ row' = row /\ row_count' = row_count
      /\ sent' = sent /\ acked' = acked /\ overlapped' = overlapped
  BY DEF ClientPutMessage, histVars
<1>5. ASSUME ~overlapped' PROVE Serial(p)'
  <2>1. Serial(p)
    BY <1>4, <1>5 DEF SerialInv
  <2>2. PICK n \in Id, m \in Message \cup {NULL}, u \in Name :
          /\ Empty(p, n, m, u) /\ queue[p] = <<>> /\ Ledger(p, n, m)
          /\ ClientHolds(p, "message", n, m, u)
    BY <1>2, <2>1, OwingTwo
  <2>3. queue'[p] = <<FirstPut(n, m, u)>>
    BY <1>1, <2>2, AppendPut DEF ClientHolds, FirstPut
  <2>4. ClientHolds(p, "username", n, m, u)'
    BY <1>3, <1>4, <2>2 DEF ClientHolds
  <2>5. Empty(p, n, m, u)'
    BY <1>4, <2>2, <2>3, <2>4 DEF Empty, OwesOne, FirstPut, put
  <2>6. Ledger(p, n, m)'
    BY <1>2, <1>3, <1>4, <2>2, LedgerKept, NotNull DEF SameStored
  <2>7. QED
    BY <1>4, <2>1, <2>5, <2>6 DEF Serial
<1>6. \A q \in Peer \ {p} : SameTables(q) /\ SameHolders(q) /\ SameStored(q)
  BY <1>1, <1>4, Untouched DEF SameTables
<1>7. QED
  BY <1>4, <1>5, <1>6, SerialOther

\* The first put of a message is queued, under the id that was read.
LEMMA ServerPutFirstSerial ==
  ASSUME TypeInv, SerialInv, NEW p \in Peer, NEW t \in Thread, ServerPutFirst(p, t)
  PROVE  SerialInv'
<1>1. /\ server'[p][t] = [server[p][t] EXCEPT !.pc = "second"]
      /\ \A q \in Peer, v \in Thread : q # p \/ v # t => server'[q][v] = server[q][v]
      /\ queue'[p] = Append(queue[p], put(server[p][t].id, "username", server[p][t].name))
      /\ \A q \in Peer \ {p} : queue'[q] = queue[q]
  BY ServerPutFirstTyped
<1>2. server[p][t] \in Server /\ server[p][t].pc = "first"
  BY DEF ServerPutFirst, TypeInv, ServerTypes
<1>3. /\ server'[p][t].pc = "second"
      /\ server'[p][t].id = server[p][t].id /\ server'[p][t].name = server[p][t].name
  BY <1>1, <1>2 DEF Server
<1>4. /\ client' = client /\ row' = row /\ row_count' = row_count
      /\ sent' = sent /\ acked' = acked /\ overlapped' = overlapped
  BY DEF ServerPutFirst, histVars
<1>5. ASSUME ~overlapped' PROVE Serial(p)'
  <2>1. Serial(p)
    BY <1>4, <1>5 DEF SerialInv
  <2>2. PICK n \in Id, m \in Message \cup {NULL}, u \in Name :
          /\ Empty(p, n, m, u) /\ queue[p] = <<>> /\ Ledger(p, n, m)
          /\ ServerHolds(p, t, "first", n, m, u)
    BY <1>2, <2>1, OwingTwo
  <2>3. queue'[p] = <<FirstPut(n, m, u)>>
    BY <1>1, <2>2, AppendPut DEF ServerHolds, FirstPut
  <2>4. ServerHolds(p, t, "second", n, m, u)'
    BY <1>1, <1>3, <1>4, <2>2 DEF ServerHolds
  <2>5. Empty(p, n, m, u)'
    BY <1>4, <2>2, <2>3, <2>4 DEF Empty, OwesOne, FirstPut, put
  <2>6. Ledger(p, n, m)'
    BY <1>4, <2>2, LedgerKept, NotNull DEF SameStored
  <2>7. QED
    BY <1>4, <2>1, <2>5, <2>6 DEF Serial
<1>6. \A q \in Peer \ {p} : SameTables(q) /\ SameHolders(q) /\ SameStored(q)
  BY <1>1, <1>4, Untouched DEF SameTables
<1>7. QED
  BY <1>4, <1>5, <1>6, SerialOther

\* The second: none is owed.
LEMMA ClientPutUsernameSerial ==
  ASSUME TypeInv, SerialInv, NEW p \in Peer, ClientPutUsername(p)
  PROVE  SerialInv'
<1>1. /\ client'[p] = Idle
      /\ \A q \in Peer \ {p} : client'[q] = client[q]
      /\ queue'[p] = Append(queue[p], put(client[p].id, "username", p))
      /\ \A q \in Peer \ {p} : queue'[q] = queue[q]
  BY ClientPutUsernameTyped
<1>2. client[p].pc = "username"
  BY DEF ClientPutUsername
<1>3. client'[p].pc = "menu" /\ client'[p].id = NULL
  BY <1>1 DEF Idle
<1>4. /\ server' = server /\ row' = row /\ row_count' = row_count
      /\ sent' = sent /\ acked' = acked /\ overlapped' = overlapped
  BY DEF ClientPutUsername, histVars
<1>5. ASSUME ~overlapped' PROVE Serial(p)'
  <2>1. Serial(p)
    BY <1>4, <1>5 DEF SerialInv
  <2>2. PICK n \in Id, m \in Message \cup {NULL}, u \in Name :
          /\ \/ Empty(p, n, m, u) /\ queue[p] = <<FirstPut(n, m, u)>>
             \/ Half(p, n, m, u) /\ queue[p] = <<>>
          /\ Ledger(p, n, m)
          /\ ClientHolds(p, "username", n, m, u)
    BY <1>2, <2>1, OwingOne
  <2>3. /\ queue[p] = <<FirstPut(n, m, u)>> => queue'[p] = <<FirstPut(n, m, u), NamePut(n, u)>>
        /\ queue[p] = <<>> => queue'[p] = <<NamePut(n, u)>>
    <3>1. queue'[p] = Append(queue[p], NamePut(n, u))
      BY <1>1, <2>2 DEF ClientHolds, NamePut
    <3>2. QED
      BY <3>1, AppendPut
  <2>4. OwesNone(p, m, u)'
    BY <1>3, <1>4, <2>2 DEF ClientHolds, OwesNone, NobodyHolds
  <2>5. Empty(p, n, m, u)' \/ Half(p, n, m, u)'
    BY <1>4, <2>2, <2>3, <2>4 DEF Empty, Half, HalfRow, FirstPut, NamePut, put
  <2>6. Ledger(p, n, m)'
    BY <1>2, <1>3, <1>4, <2>2, LedgerKept, NotNull DEF SameStored
  <2>7. QED
    BY <1>4, <2>1, <2>5, <2>6 DEF Serial
<1>6. \A q \in Peer \ {p} : SameTables(q) /\ SameHolders(q) /\ SameStored(q)
  BY <1>1, <1>4, Untouched DEF SameTables
<1>7. QED
  BY <1>4, <1>5, <1>6, SerialOther

\* The second put is queued, and the thread goes on to answer.
LEMMA ServerPutSecondSerial ==
  ASSUME TypeInv, SerialInv, NEW p \in Peer, NEW t \in Thread, ServerPutSecond(p, t)
  PROVE  SerialInv'
<1>1. /\ server'[p][t] = [server[p][t] EXCEPT !.pc = "echo", !.id = NULL, !.name = NULL]
      /\ \A q \in Peer, v \in Thread : q # p \/ v # t => server'[q][v] = server[q][v]
      /\ queue'[p] = Append(queue[p], put(server[p][t].id, "username", server[p][t].name))
      /\ \A q \in Peer \ {p} : queue'[q] = queue[q]
  BY ServerPutSecondTyped
<1>2. server[p][t] \in Server /\ server[p][t].pc = "second"
  BY DEF ServerPutSecond, TypeInv, ServerTypes
<1>3. server'[p][t].id = NULL
  BY <1>1, <1>2 DEF Server
<1>4. /\ client' = client /\ row' = row /\ row_count' = row_count
      /\ sent' = sent /\ acked' = acked /\ overlapped' = overlapped
  BY DEF ServerPutSecond, histVars
<1>5. ASSUME ~overlapped' PROVE Serial(p)'
  <2>1. Serial(p)
    BY <1>4, <1>5 DEF SerialInv
  <2>2. PICK n \in Id, m \in Message \cup {NULL}, u \in Name :
          /\ \/ Empty(p, n, m, u) /\ queue[p] = <<FirstPut(n, m, u)>>
             \/ Half(p, n, m, u) /\ queue[p] = <<>>
          /\ Ledger(p, n, m)
          /\ ServerHolds(p, t, "second", n, m, u)
    BY <1>2, <2>1, OwingOne
  <2>3. /\ queue[p] = <<FirstPut(n, m, u)>> => queue'[p] = <<FirstPut(n, m, u), NamePut(n, u)>>
        /\ queue[p] = <<>> => queue'[p] = <<NamePut(n, u)>>
    <3>1. queue'[p] = Append(queue[p], NamePut(n, u))
      BY <1>1, <2>2 DEF ServerHolds, NamePut
    <3>2. QED
      BY <3>1, AppendPut
  <2>4. OwesNone(p, m, u)'
    BY <1>1, <1>3, <1>4, <2>2 DEF ServerHolds, OwesNone, NobodyHolds
  <2>5. Empty(p, n, m, u)' \/ Half(p, n, m, u)'
    BY <1>4, <2>2, <2>3, <2>4 DEF Empty, Half, HalfRow, FirstPut, NamePut, put
  <2>6. Ledger(p, n, m)'
    BY <1>4, <2>2, LedgerKept, NotNull DEF SameStored
  <2>7. QED
    BY <1>4, <2>1, <2>5, <2>6 DEF Serial
<1>6. \A q \in Peer \ {p} : SameTables(q) /\ SameHolders(q) /\ SameStored(q)
  BY <1>1, <1>4, Untouched DEF SameTables
<1>7. QED
  BY <1>4, <1>5, <1>6, SerialOther

\* The head of one or two puts, and what is left.
LEMMA TakePut ==
  /\ \A q : Head(<<q>>) = q /\ Tail(<<q>>) = <<>>
  /\ \A q, r : Head(<<q, r>>) = q /\ Tail(<<q, r>>) = <<r>>
  OBVIOUS

\* The first put of a row is executed: the row is half filled in.
LEMMA ExecuteFirst ==
  ASSUME TypeInv, NEW p \in Peer, ExecutePut(p),
         \A k \in Id : k > row_count[p] => row[p][k] = NoRow,
         NEW n \in Id, NEW m \in Message \cup {NULL}, NEW u \in Name,
         Empty(p, n, m, u), Ledger(p, n, m)
  PROVE  Half(p, n, m, u)' /\ Ledger(p, n, m)'
<1>1. /\ client' = client /\ server' = server /\ sent' = sent /\ acked' = acked
      /\ queue[p] # <<>>
  BY DEF ExecutePut, histVars
<1>2. /\ row'[p] = [row[p] EXCEPT ![Head(queue[p]).id] =
                      [@ EXCEPT ![Head(queue[p]).column] = Head(queue[p]).value]]
      /\ row_count'[p] = row_count[p] + 1 /\ queue'[p] = Tail(queue[p])
  BY ExecutePutTyped
<1>3. n = row_count[p] + 1 /\ row_count[p] \in Nat
  BY DEF Empty, TypeInv, TableTypes
<1>4. row[p] \in [Id -> Row] /\ row[p][n] = NoRow
  <2>1. n > row_count[p]
    BY <1>3
  <2>2. QED
    BY <2>1 DEF TypeInv, TableTypes
<1>5. /\ Head(queue[p]) = FirstPut(n, m, u)
      /\ \/ queue'[p] = <<>> /\ OwesOne(p, n, m, u)
         \/ queue'[p] = <<NamePut(n, u)>> /\ OwesNone(p, m, u)
  <2>1. \/ queue[p] = <<FirstPut(n, m, u)>> /\ OwesOne(p, n, m, u)
        \/ queue[p] = <<FirstPut(n, m, u), NamePut(n, u)>> /\ OwesNone(p, m, u)
    BY <1>1 DEF Empty
  <2>2. QED
    BY <1>2, <2>1, TakePut
<1>6. /\ row'[p][n] = HalfRow(m, u)
      /\ \A k \in Id \ {n} : row'[p][k] = row[p][k]
  <2>1. CASE m = NULL
    <3>1. row'[p] = [row[p] EXCEPT ![n] = [@ EXCEPT !["username"] = u]]
      <4>1. Head(queue[p]) = [id |-> n, column |-> "username", value |-> u]
        BY <1>5, <2>1 DEF FirstPut, put
      <4>2. QED
        BY <1>2, <4>1
    <3>2. /\ row'[p][n] = [NoRow EXCEPT !["username"] = u]
          /\ \A k \in Id \ {n} : row'[p][k] = row[p][k]
      BY <1>4, <3>1
    <3>3. [NoRow EXCEPT !["username"] = u] = HalfRow(m, u)
      BY <2>1 DEF NoRow, HalfRow
    <3>4. QED
      BY <3>2, <3>3
  <2>2. CASE m # NULL
    <3>1. row'[p] = [row[p] EXCEPT ![n] = [@ EXCEPT !["message"] = m]]
      <4>1. Head(queue[p]) = [id |-> n, column |-> "message", value |-> m]
        BY <1>5, <2>2 DEF FirstPut, put
      <4>2. QED
        BY <1>2, <4>1
    <3>2. /\ row'[p][n] = [NoRow EXCEPT !["message"] = m]
          /\ \A k \in Id \ {n} : row'[p][k] = row[p][k]
      BY <1>4, <3>1
    <3>3. [NoRow EXCEPT !["message"] = m] = HalfRow(m, u)
      BY <2>2 DEF NoRow, HalfRow
    <3>4. QED
      BY <3>2, <3>3
  <2>3. QED
    BY <2>1, <2>2
<1>7. \A k \in Id : row'[p][k].message = IF k = n THEN m ELSE row[p][k].message
  BY <1>6 DEF HalfRow
<1>8. Half(p, n, m, u)'
  <2>1. /\ OwesOne(p, n, m, u) => OwesOne(p, n, m, u)'
        /\ OwesNone(p, m, u) => OwesNone(p, m, u)'
    BY <1>1 DEF OwesOne, OwesNone, ClientHolds, ServerHolds, NobodyHolds
  <2>2. n = row_count'[p]
    BY <1>2, <1>3
  <2>3. QED
    BY <1>5, <1>6, <2>1, <2>2 DEF Half, HalfRow, NamePut, put
<1>9. Ledger(p, n, m)'
  <2>1. /\ \A k \in Id \ {n} : row'[p][k].message # NULL =>
             /\ row'[p][k].username = p /\ row'[p][k].message # m
             /\ [message |-> row'[p][k].message, from |-> p] \in sent'
             /\ row'[p][k].message \in acked'
        /\ m # NULL => [message |-> m, from |-> p] \in sent' /\ m \in acked'
    BY <1>1, <1>6 DEF Ledger
  <2>2. \A j, k \in Id : row'[p][j].message = row'[p][k].message /\ row'[p][j].message # NULL =>
          j = k
    BY <1>7 DEF Ledger
  <2>3. client'[p].pc = "id" =>
          client'[p].req # m /\ \A k \in Id : row'[p][k].message # client'[p].req
    BY <1>1, <1>7 DEF Ledger
  <2>4. \A s \in sent' : s.from = p /\ s.message \in acked' =>
          \/ s.message = m
          \/ client'[p].pc = "id" /\ client'[p].req = s.message
          \/ \E k \in Id \ {n} : row'[p][k].message = s.message
    BY <1>1, <1>7 DEF Ledger
  <2>5. QED
    BY <2>1, <2>2, <2>3, <2>4 DEF Ledger
<1>10. QED
  BY <1>8, <1>9

\* The second put of a row is executed: the row is complete, if it has a message.
LEMMA ExecuteSecond ==
  ASSUME TypeInv, NEW p \in Peer, ExecutePut(p),
         NEW n \in Id, NEW m \in Message \cup {NULL}, NEW u \in Name,
         Half(p, n, m, u), Ledger(p, n, m)
  PROVE  queue'[p] = <<>> /\ NobodyHolds(p)' /\ Ledger(p, 0, NULL)'
<1>1. /\ client' = client /\ server' = server /\ sent' = sent /\ acked' = acked
      /\ queue[p] # <<>>
  BY DEF ExecutePut, histVars
<1>2. /\ row'[p] = [row[p] EXCEPT ![Head(queue[p]).id] =
                      [@ EXCEPT ![Head(queue[p]).column] = Head(queue[p]).value]]
      /\ queue'[p] = Tail(queue[p])
  BY ExecutePutTyped
<1>3. queue[p] = <<NamePut(n, u)>> /\ OwesNone(p, m, u) /\ row[p][n] = HalfRow(m, u)
  BY <1>1 DEF Half
<1>4. Head(queue[p]) = NamePut(n, u) /\ queue'[p] = <<>>
  BY <1>2, <1>3, TakePut
<1>5. /\ row'[p][n] = [username |-> u, message |-> m]
      /\ \A k \in Id \ {n} : row'[p][k] = row[p][k]
  <2>1. row[p] \in [Id -> Row]
    BY DEF TypeInv, TableTypes
  <2>2. row'[p] = [row[p] EXCEPT ![n] = [@ EXCEPT !["username"] = u]]
    BY <1>2, <1>4 DEF NamePut, put
  <2>3. /\ row'[p][n] = [HalfRow(m, u) EXCEPT !["username"] = u]
        /\ \A k \in Id \ {n} : row'[p][k] = row[p][k]
    BY <1>3, <2>1, <2>2
  <2>4. [HalfRow(m, u) EXCEPT !["username"] = u] = [username |-> u, message |-> m]
    BY DEF HalfRow
  <2>5. QED
    BY <2>3, <2>4
<1>6. NobodyHolds(p)' /\ (m # NULL => u = p)
  BY <1>1, <1>3 DEF OwesNone, NobodyHolds
<1>7. \A k \in Id : row'[p][k].message = row[p][k].message
  BY <1>3, <1>5 DEF HalfRow
<1>8. row[p][n].message = m
  BY <1>3 DEF HalfRow
<1>9. Ledger(p, 0, NULL)'
  <2>1. ASSUME NEW k \in Id, row'[p][k].message # NULL
        PROVE  /\ row'[p][k].username = p
               /\ [message |-> row'[p][k].message, from |-> p] \in sent'
               /\ row'[p][k].message \in acked'
    <3>1. CASE k = n
      <4>1. row'[p][k].message = m /\ row'[p][k].username = u /\ m # NULL
        BY <1>5, <2>1, <3>1
      <4>2. [message |-> m, from |-> p] \in sent /\ m \in acked
        BY <4>1 DEF Ledger
      <4>3. QED
        BY <1>1, <1>6, <4>1, <4>2
    <3>2. CASE k # n
      BY <1>1, <1>5, <2>1, <3>2 DEF Ledger
    <3>3. QED
      BY <3>1, <3>2
  <2>2. \A j, k \in Id : row'[p][j].message = row'[p][k].message /\ row'[p][j].message # NULL =>
          j = k
    BY <1>7 DEF Ledger
  <2>3. client'[p].pc = "id" =>
          client'[p].req # NULL /\ \A k \in Id : row'[p][k].message # client'[p].req
    <3>1. client[p].pc = "id" => client[p].req # NULL
      BY NotNull DEF TypeInv, ClientTypes, ClientTyped
    <3>2. QED
      BY <1>1, <1>7, <3>1 DEF Ledger
  <2>4. \A s \in sent' : s.from = p /\ s.message \in acked' =>
          \/ client'[p].pc = "id" /\ client'[p].req = s.message
          \/ \E k \in Id : row'[p][k].message = s.message
    BY <1>1, <1>7, <1>8 DEF Ledger
  <2>5. Id \ {0} = Id
    BY DEF Id
  <2>6. QED
    BY <2>1, <2>2, <2>3, <2>4, <2>5 DEF Ledger
<1>10. QED
  BY <1>4, <1>6, <1>9

\* One or the other; the rows behind the count stay empty.
LEMMA ExecutePutSerial ==
  ASSUME TypeInv, SerialInv, NEW p \in Peer, ExecutePut(p)
  PROVE  SerialInv'
<1>1. /\ client' = client /\ server' = server /\ sent' = sent /\ acked' = acked
      /\ overlapped' = overlapped /\ queue[p] # <<>>
  BY DEF ExecutePut, histVars
<1>2. /\ row_count'[p] = row_count[p] + 1
      /\ \A q \in Peer \ {p} : /\ row'[q] = row[q] /\ row_count'[q] = row_count[q]
                               /\ queue'[q] = queue[q]
  BY ExecutePutTyped
<1>3. row_count[p] \in Nat /\ \A k \in Id : k \in Nat
  BY DEF TypeInv, TableTypes, Id
<1>4. ASSUME ~overlapped' PROVE Serial(p)'
  <2>1. Serial(p)
    BY <1>1, <1>4 DEF SerialInv
  <2>2. \A k \in Id : k > row_count[p] => row[p][k] = NoRow
    BY <2>1 DEF Serial
  <2>3. PICK n \in Id, m \in Message \cup {NULL}, u \in Name :
          (Empty(p, n, m, u) \/ Half(p, n, m, u)) /\ Ledger(p, n, m)
    BY <1>1, <2>1 DEF Serial
  <2>4. Head(queue[p]).id = n /\ n <= row_count[p] + 1
    <3>1. Head(queue[p]) \in {FirstPut(n, m, u), NamePut(n, u)}
      BY <1>1, <2>3, TakePut DEF Empty, Half
    <3>2. n <= row_count[p] + 1
      BY <1>3, <2>3 DEF Empty, Half
    <3>3. QED
      BY <3>1, <3>2 DEF FirstPut, NamePut, put
  <2>5. \A k \in Id : k > row_count'[p] => row'[p][k] = NoRow
    <3> SUFFICES ASSUME NEW k \in Id, k > row_count'[p] PROVE row'[p][k] = NoRow
      OBVIOUS
    <3>1. k > row_count[p] /\ k # n
      BY <1>2, <1>3, <2>4
    <3>2. /\ row[p] \in [Id -> Row]
          /\ row'[p] = [row[p] EXCEPT ![Head(queue[p]).id] =
                          [@ EXCEPT ![Head(queue[p]).column] = Head(queue[p]).value]]
      BY ExecutePutTyped DEF TypeInv, TableTypes
    <3>3. row'[p][k] = row[p][k]
      BY <2>4, <3>1, <3>2
    <3>4. QED
      BY <2>2, <3>1, <3>3
  <2>6. CASE Empty(p, n, m, u)
    <3>1. Half(p, n, m, u)' /\ Ledger(p, n, m)'
      BY <2>2, <2>3, <2>6, ExecuteFirst
    <3>2. QED
      BY <2>5, <3>1 DEF Serial
  <2>7. CASE Half(p, n, m, u)
    <3>1. queue'[p] = <<>> /\ NobodyHolds(p)' /\ Ledger(p, 0, NULL)'
      BY <2>3, <2>7, ExecuteSecond
    <3>2. QED
      BY <2>5, <3>1 DEF Serial
  <2>8. QED
    BY <2>3, <2>6, <2>7
<1>5. \A q \in Peer \ {p} : SameTables(q) /\ SameHolders(q) /\ SameStored(q)
  BY <1>1, <1>2, Untouched DEF SameTables
<1>6. QED
  BY <1>1, <1>4, <1>5, SerialOther

\* Every step keeps the ledgers.
LEMMA StepSerial ==
  ASSUME TypeInv, RepliesWhole, SentNumbered, SerialInv, [Next]_vars
  PROVE  SerialInv'
<1>1. CASE UNCHANGED vars
  <2>1. \A q \in Peer : SameTables(q) /\ SameHolders(q) /\ SameStored(q)
    BY <1>1 DEF vars, tables, SameTables, SameHolders, SameStored
  <2>2. overlapped' = overlapped /\ acked' = acked /\ sent' = sent
    BY <1>1 DEF vars
  <2>3. QED
    BY <2>1, <2>2, SerialPassive
<1>2. CASE Next
  <2>1. PICK p \in Peer :
           \/ \E m \in Message \cup {Sync}, t \in Thread : Connect(p, m, t)
           \/ Send(p) \/ ReceiveReply(p)
           \/ ClientReadId(p) \/ ClientPutMessage(p) \/ ClientPutUsername(p)
           \/ \E t \in Thread :
                \/ StartThread(p, t) \/ Bind(p, t) \/ Accept(p, t)
                \/ ReceiveSync(p, t) \/ ReceiveMessage(p, t)
                \/ ServerReadId(p, t) \/ ServerPutFirst(p, t) \/ ServerPutSecond(p, t)
                \/ Echo(p, t) \/ ReplyLast(p, t) \/ ReplyFullBuffer(p, t) \/ Close(p, t)
           \/ ExecutePut(p)
    BY <1>2, StepCases
  <2>2. ASSUME NEW m \in Message \cup {Sync}, NEW t \in Thread, Connect(p, m, t)
        PROVE  SerialInv'
    BY <2>2, ConnectSerial
  <2>3. CASE Send(p)
    BY <2>3, SendSerial
  <2>4. CASE ReceiveReply(p)
    BY <2>4, ReceiveReplySerial
  <2>5. CASE ClientReadId(p)
    BY <2>5, ClientReadIdSerial
  <2>6. CASE ClientPutMessage(p)
    BY <2>6, ClientPutMessageSerial
  <2>7. CASE ClientPutUsername(p)
    BY <2>7, ClientPutUsernameSerial
  <2>8. ASSUME NEW t \in Thread, ServerReadId(p, t) PROVE SerialInv'
    BY <2>8, ServerReadIdSerial
  <2>9. ASSUME NEW t \in Thread, ServerPutFirst(p, t) PROVE SerialInv'
    BY <2>9, ServerPutFirstSerial
  <2>10. ASSUME NEW t \in Thread, ServerPutSecond(p, t) PROVE SerialInv'
    BY <2>10, ServerPutSecondSerial
  <2>11. ASSUME NEW t \in Thread,
                \/ StartThread(p, t) \/ Bind(p, t) \/ Accept(p, t)
                \/ ReceiveSync(p, t) \/ ReceiveMessage(p, t)
                \/ Echo(p, t) \/ ReplyLast(p, t) \/ ReplyFullBuffer(p, t) \/ Close(p, t)
         PROVE  SerialInv'
    BY <2>11, ServerSerial
  <2>12. CASE ExecutePut(p)
    BY <2>12, ExecutePutSerial
  <2>13. QED
    BY <2>1, <2>2, <2>3, <2>4, <2>5, <2>6, <2>7, <2>8, <2>9, <2>10, <2>11, <2>12
<1>3. QED
  BY <1>1, <1>2

-----------------------------------------------------------------------------
(* What the tables promise.                                                *)

\* The invariant holds at the start, and every step keeps it.
LEMMA InitInv == Init => Inv
  BY InitTyped, InitWhole, InitNumbered, InitSerial DEF Inv

\* The invariant is inductive: every step keeps it, one action at a time.
LEMMA StepInv == Inv /\ [Next]_vars => Inv'
  BY StepTyped, StepWhole, StepNumbered, StepSerial DEF Inv

\* A complete row is one of the peer's own messages.
LEMMA CompleteRows == Inv => NamesMatch
<1> SUFFICES ASSUME Inv, ~overlapped, NEW p \in Peer, NEW k \in Id, Complete(p, k)
             PROVE  [message |-> row[p][k].message, from |-> row[p][k].username] \in sent
  BY DEF NamesMatch
<1>1. row[p][k].username # NULL /\ row[p][k].message # NULL
  BY DEF Complete
<1>2. TypeInv /\ Serial(p)
  BY DEF Inv, SerialInv
<1>3. CASE Ledger(p, 0, NULL)
  <2>1. k # 0
    BY DEF Id
  <2>2. QED
    BY <1>1, <1>3, <2>1 DEF Ledger
<1>4. ASSUME NEW n \in Id, NEW m \in Message \cup {NULL}, NEW u \in Name,
             Empty(p, n, m, u) \/ Half(p, n, m, u), Ledger(p, n, m)
      PROVE  [message |-> row[p][k].message, from |-> row[p][k].username] \in sent
  <2>1. k # n
    <3>1. CASE Empty(p, n, m, u)
      <4>1. n = row_count[p] + 1 /\ row_count[p] \in Nat
        BY <1>2, <3>1 DEF Empty, TypeInv, TableTypes
      <4>2. n > row_count[p]
        BY <4>1
      <4>3. row[p][n] = NoRow
        BY <1>2, <4>2 DEF Serial
      <4>4. QED
        BY <1>1, <4>3 DEF NoRow
    <3>2. CASE Half(p, n, m, u)
      BY <1>1, <3>2 DEF Half, HalfRow
    <3>3. QED
      BY <1>4, <3>1, <3>2
  <2>2. QED
    BY <1>1, <1>4, <2>1 DEF Ledger
<1>5. QED
  BY <1>2, <1>3, <1>4 DEF Serial

\* At rest, every answered message has its row and no other.
LEMMA AnsweredRows == Inv => SentIsKept
<1> SUFFICES ASSUME Inv, ~overlapped, Quiet, NEW s \in sent, s.message \in acked
             PROVE  \E k \in Id : /\ row[s.from][k] = [username |-> s.from, message |-> s.message]
                                  /\ \A j \in Id \ {k} : row[s.from][j].message # s.message
  BY DEF SentIsKept
<1>1. TypeInv /\ SentNumbered
  BY DEF Inv
<1>2. PICK p \in Peer : p = s.from
  BY <1>1 DEF TypeInv, HistoryTypes
<1>3. s.message \in Message /\ s.message # NULL
  BY <1>1, NotNull DEF TypeInv, HistoryTypes
<1>4. /\ queue[p] = <<>> /\ client[p].pc = "menu"
      /\ \A t \in Thread : server[p][t].pc \in {"off", "bind", "listen"}
  BY DEF Quiet
<1>5. ~Backlog(p)
  BY <1>1, <1>4 DEF Backlog, TypeInv, ClientTypes, ClientTyped, ServerTypes, ServerTyped
<1>6. Ledger(p, 0, NULL)
  BY <1>1, <1>5, RestWithoutBacklog DEF Inv, SerialInv
<1>7. PICK k \in Id : row[p][k].message = s.message
  BY <1>2, <1>3, <1>4, <1>6 DEF Ledger
<1>8. row[p][k].username = p
  <2>1. k # 0
    BY DEF Id
  <2>2. QED
    BY <1>3, <1>6, <1>7, <2>1 DEF Ledger
<1>9. \A j \in Id \ {k} : row[p][j].message # s.message
  BY <1>3, <1>6, <1>7 DEF Ledger
<1>10. row[p][k] = [username |-> p, message |-> s.message]
  <2>1. row[p][k] \in Row
    BY <1>1 DEF TypeInv, TableTypes
  <2>2. QED
    BY <1>7, <1>8, <2>1 DEF Row
<1>11. QED
  BY <1>2, <1>9, <1>10

\* Ids read one at a time: a message in an inbox is one that its peer sent, under the
\* sender's name, whichever threads store and execute what in between (client.h:255-279,
\* server.h:492-497).
THEOREM InboxNamesMatch == Spec => []NamesMatch
<1>1. Inv => NamesMatch
  BY CompleteRows
<1>2. QED
  BY InitInv, StepInv, <1>1, PTL DEF Spec

\* And an answered message is kept, once, under the name of its sender (client.h:273-279,
\* server.h:492-497).
THEOREM AnsweredIsKept == Spec => []SentIsKept
<1>1. Inv => SentIsKept
  BY AnsweredRows
<1>2. QED
  BY InitInv, StepInv, <1>1, PTL DEF Spec
=============================================================================
