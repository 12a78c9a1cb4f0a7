------------------------------- MODULE Harbor -------------------------------
(***************************************************************************)
(* Two nodes, each with a harbor service, and the stream between them.  A  *)
(* harbor sends the messages for services of other nodes (by handle or by  *)
(* global name) and forwards what it receives.  It is a service: mainloop  *)
(* runs once per message, and every action below is one such run or a step *)
(* of the world around it (external): cslave, which tells a harbor of      *)
(* connections (commands S and A) and of names (N), the services that      *)
(* send, the socket server that cuts the stream in pieces.                 *)
(*                                                                         *)
(* The stream is a sequence of bytes.  The node that answers at an address *)
(* may not be the one the master announced (id 3 stands for such a node).  *)
(* Popped entries of a circular queue and parsed bytes are forgotten.      *)
(***************************************************************************)
EXTENDS Naturals, Sequences, FiniteSets, SequencesExt

CONSTANTS
    DEFAULT_QUEUE_SIZE,
    HEADER_COOKIE_LENGTH,  \* 12, the bytes of a remote_message_header
    Plans,                 \* bound: what the services send, in order: a set of
                           \* sequences of [from, to], to = 0 for the global name
    MaxMsg,                \* bound: the longest plan
    Chunks                 \* bound: a read takes so many bytes, or all there are

Node   == {1, 2}           \* node 1 connects to node 2
Id     == 1 .. 3
Other(h) == 3 - h
SHIFT  == 2^24             \* 1 << HANDLE_REMOTE_SHIFT
Handle(h, k) == h * SHIFT + k
Services == {1}            \* the local handles in use on each node; 2 is not one

PTYPE_ERROR == 7
PTYPE_LUA   == 10

VARIABLES
    slave,      \* slave[h][i]: h->s[i]
    name,       \* name[h]: the node of the one global name in h->map
    owner,      \* the handle the name is registered for, 0: not yet
    conn,       \* the connection: "none", "open", "up", "broken"
    wire,       \* wire[h]: the bytes on the way to node h
    torn,       \* the acceptor's cslave took more than the handshake byte
    mail,       \* mail[h]: error replies waiting in the mailbox of the harbor of h
    plan,       \* plan[n]: the message with session n
    sent,       \* how many of them have been sent
    got,        \* got[h]: what the services of h received from the other node
    freed,      \* freed[n]: how often the harbor freed the buffer of message n
    moved,      \* the messages that went from the name's queue to a slave's
    down,       \* down[h]: the ids reported down to cslave
    live        \* live[h]: before harbor_release

vars == <<slave, name, owner, conn, wire, torn, mail, plan, sent, got, freed, moved,
          down, live>>
world == <<owner, live, plan>>

-----------------------------------------------------------------------------
(* The circular queue. *)

NoQueue == [size |-> 0]
new_queue == [size |-> DEFAULT_QUEUE_SIZE, head |-> 0, tail |-> 0,
              data |-> [i \in 0 .. DEFAULT_QUEUE_SIZE - 1 |-> 0]]

\* The doubled queue.
Double(q) ==
    [size |-> 2 * q.size, head |-> 0, tail |-> q.size - 1,
     data |-> [i \in 0 .. 2 * q.size - 1 |->
                 IF i < q.size - 1 THEN q.data[(i + q.head) % q.size] ELSE 0]]

push_queue_msg(q, m) ==
    LET r == IF (q.tail + 1) % q.size = q.head THEN Double(q) ELSE q
    IN  [r EXCEPT !.data[r.tail] = m, !.tail = (@ + 1) % r.size]

push_queue(q, n, header) ==
    push_queue_msg(IF q = NoQueue THEN new_queue ELSE q, [buffer |-> n, header |-> header])

\* What pop_queue returns until it returns NULL.
pop_queue(q) ==
    IF q = NoQueue THEN <<>>
    ELSE [i \in 1 .. (q.tail + q.size - q.head) % q.size |-> q.data[(q.head + i - 1) % q.size]]

\* The buffers release_queue frees.
release_queue(q) == {m.buffer : m \in ToSet(pop_queue(q))}
FreeOnce(B) == [n \in 1 .. MaxMsg |-> IF n \in B THEN freed[n] + 1 ELSE freed[n]]

-----------------------------------------------------------------------------
(* The bytes of a message. *)

to_bigendian(n) == <<n \div 2^24, (n \div 2^16) % 256, (n \div 2^8) % 256, n % 256>>
from_bigendian(b) == b[1] * 2^24 + b[2] * 2^16 + b[3] * 2^8 + b[4]

header_to_message(c) ==
    to_bigendian(c.source) \o to_bigendian(c.destination) \o to_bigendian(c.session)
message_to_header(b) ==
    [source      |-> from_bigendian(SubSeq(b, 1, 4)),
     destination |-> from_bigendian(SubSeq(b, 5, 8)),
     session     |-> from_bigendian(SubSeq(b, 9, 12))]

\* The text of message n is one byte, that of an error is empty.
Text(n) == IF n = 0 THEN <<>> ELSE <<n>>
send_remote(n, cookie) ==
    to_bigendian(Len(Text(n)) + HEADER_COOKIE_LENGTH) \o Text(n) \o header_to_message(cookie)

\* On a socket that is closed, or does not lead to the other node, they vanish.
Transmit(w, h, bytes) == [w EXCEPT ![Other(h)] = IF conn \in {"open", "up"} THEN @ \o bytes ELSE @]
Out(queue) == FlattenSeq([i \in 1 .. Len(queue) |-> send_remote(queue[i].buffer, queue[i].header)])

\* What the socket server reads at once of the bytes on the way to h.
Pieces(h) == {k \in Chunks \cup {Len(wire[h])} : k \in 1 .. Len(wire[h])}

-----------------------------------------------------------------------------
\* harbor_create and harbor_init
Idle == [fd |-> 0, status |-> "WAIT", queue |-> NoQueue, length |-> 0, size |-> <<>>,
         recv |-> <<>>]
NoNode == [value |-> 0, queue |-> NoQueue]

Init ==
    /\ slave = [h \in Node |-> [i \in Id |-> Idle]]
    /\ name = [h \in Node |-> NoNode]
    /\ owner = 0 /\ conn = "none" /\ torn = FALSE
    /\ wire = [h \in Node |-> <<>>] /\ mail = [h \in Node |-> <<>>]
    /\ plan \in Plans /\ sent = 0 /\ got = [h \in Node |-> <<>>]
    /\ freed = [n \in 1 .. MaxMsg |-> 0]
    /\ moved = {}
    /\ down = [h \in Node |-> {}]
    /\ live = [h \in Node |-> TRUE]

-----------------------------------------------------------------------------
(* Messages that go out. *)

\* skynet_harbor_message_isremote
skynet_harbor_message_isremote(h, handle) == handle \div SHIFT \notin {h, 0}

\* The packed destination of a header: the type, and the handle without its harbor.
\* Mutant: the harbor stays in.
DestinationUnmasked(type, handle) == (type * SHIFT) + handle
Destination(type, handle) == (type * SHIFT) + (handle % SHIFT)

\* Whether mainloop frees the buffer of a message that was queued.  Mutant: it does.
AfterQueuedFrees(n) == {n}
AfterQueued(n) == {}

\* Whether the message has to wait for the slave.  Mutant: not for its handshake.
WaitsUnconnected(s) == s.fd = 0
Waits(s) == s.fd = 0 \/ s.status = "HANDSHAKE"

\* remote_send_handle of buffer n (0: none).  A slave that is down has a socket,
\* so the branch that throws an error to the source is never taken.
remote_send_handle(h, n, source, handle, type, session) ==
    LET i == handle \div SHIFT
        s == slave[h][i]
        header == [source |-> source, destination |-> Destination(type, handle),
                   session |-> session]
    IN  \/ /\ i = h
           /\ UNCHANGED <<slave, wire, freed>>
        \/ /\ i # h /\ Waits(s) /\ s.status # "DOWN"
           /\ slave' = [slave EXCEPT ![h][i].queue = push_queue(@, n, header)]
           /\ freed' = FreeOnce(AfterQueued(n))
           /\ UNCHANGED wire
        \/ /\ i # h /\ ~Waits(s)
           /\ wire' = Transmit(wire, h, send_remote(n, header))
           /\ freed' = FreeOnce({n})
           /\ UNCHANGED slave

\* A service of h sends the next message to a handle of another node.
skynet_harbor_send(h) ==
    LET n == sent + 1 IN
    /\ live[h] /\ n \in DOMAIN plan /\ plan[n].from = h
    /\ skynet_harbor_message_isremote(h, plan[n].to)
    /\ sent' = n
    /\ remote_send_handle(h, n, Handle(h, 1), plan[n].to, PTYPE_LUA, n)
    /\ UNCHANGED <<name, conn, torn, mail, got, moved, down, world>>

\* remote_send_name: with the name unknown the message waits and cslave is asked.
remote_send_name(h) ==
    LET n == sent + 1
        header == [source |-> Handle(h, 1), destination |-> Destination(PTYPE_LUA, 0),
                   session |-> n]
    IN  /\ live[h] /\ n \in DOMAIN plan /\ plan[n] = [from |-> h, to |-> 0]
        /\ sent' = n
        /\ \/ /\ name[h].value = 0
              /\ name' = [name EXCEPT ![h].queue = push_queue(@, n, header)]
              /\ UNCHANGED <<slave, wire, freed>>
           \/ /\ name[h].value # 0
              /\ remote_send_handle(h, n, Handle(h, 1), name[h].value, PTYPE_LUA, n)
              /\ UNCHANGED name
        /\ UNCHANGED <<conn, torn, mail, got, moved, down, world>>

\* An error reply of forward_local_messsage in the harbor's own mailbox.
SendReply(h) ==
    /\ live[h] /\ mail[h] # <<>>
    /\ mail' = [mail EXCEPT ![h] = Tail(@)]
    /\ LET e == Head(mail[h]) IN
       remote_send_handle(h, 0, e.source, e.destination, PTYPE_ERROR, e.session)
    /\ UNCHANGED <<name, conn, torn, sent, got, moved, down, world>>

-----------------------------------------------------------------------------
(* Commands from cslave. *)

\* dispatch_name_queue: the queue q of the name, for handle.  A slave that has no
\* socket yet takes the messages over as they are.
Addressed(q, handle) ==
    [i \in DOMAIN q |-> [q[i] EXCEPT !.header.destination = @ + (handle % SHIFT)]]

dispatch_name_queue(h, handle) ==
    LET q == name[h].queue
        i == handle \div SHIFT
        s == slave[h][i]
    IN  IF s.fd = 0
        THEN /\ slave' = [slave EXCEPT ![h][i].queue =
                  IF @ = NoQueue THEN q ELSE FoldLeft(push_queue_msg, @, pop_queue(q))]
             /\ moved' = moved \cup release_queue(q)
             /\ UNCHANGED wire
        ELSE /\ wire' = Transmit(wire, h, Out(Addressed(pop_queue(q), handle)))
             /\ UNCHANGED <<slave, moved>>

\* update_name, for command N
update_name(h) ==
    /\ live[h] /\ owner # 0
    /\ name' = [name EXCEPT ![h] = [value |-> owner, queue |-> NoQueue]]
    /\ IF name[h].queue # NoQueue THEN dispatch_name_queue(h, owner)
                                  ELSE UNCHANGED <<slave, wire, moved>>
    /\ UNCHANGED <<conn, torn, mail, sent, got, freed, down, world>>

\* dispatch_queue: all that waits for slave i of h, and the slave without it.
dispatch_queue(h, i) == Out(pop_queue(slave[h][i].queue))
handshake(h) == <<h>>

\* harbor_command S: node 1 has connected to an address announced for i.
CommandS(i) ==
    /\ live[1] /\ live[2] /\ conn = "none" /\ i # 1
    /\ conn' = "open"
    /\ slave' = [slave EXCEPT ![1][i].fd = 1, ![1][i].status = "HANDSHAKE"]
    /\ wire' = [wire EXCEPT ![2] = handshake(1)]
    /\ UNCHANGED <<name, torn, mail, sent, got, freed, moved, down, world>>

\* accept_slave of cslave reads the handshake, and command A.  Bytes that come
\* before the harbor has the socket are lost with cslave's buffer.
CommandA(k) ==
    /\ live[2] /\ conn = "open"
    /\ conn' = "up"
    /\ torn' = (k > 1)
    /\ LET i == wire[2][1] IN
       /\ slave' = [slave EXCEPT ![2][i].fd = 1, ![2][i].status = "HEADER",
                                 ![2][i].queue = NoQueue]
       /\ wire' = [h \in Node |-> IF h = 2 THEN SubSeq(wire[2], k + 1, Len(wire[2]))
                                  ELSE handshake(2) \o dispatch_queue(2, i)]
    /\ UNCHANGED <<name, mail, sent, got, freed, moved, down, world>>

-----------------------------------------------------------------------------
(* What comes in.  The record p: the slave, the bytes that are left, the      *)
(* messages to forward, and whether push_socket_data has returned.            *)

Handshake(p, i) ==
    IF Head(p.buf) # i
    THEN [p EXCEPT !.s.status = "DOWN", !.stop = TRUE]
    ELSE [p EXCEPT !.s.status = "HEADER", !.buf = Tail(@)]

\* The first of the four bytes must be 0.
Header(p) ==
    LET need == 4 - Len(p.s.size)
        all  == p.s.size \o SubSeq(p.buf, 1, need)
        rest == SubSeq(p.buf, need + 1, Len(p.buf))
    IN  IF Len(p.buf) < need
        THEN [p EXCEPT !.s.size = @ \o p.buf, !.buf = <<>>, !.stop = TRUE]
        ELSE IF all[1] # 0
        THEN [p EXCEPT !.s.status = "DOWN", !.stop = TRUE]
        ELSE [p EXCEPT !.s.length = from_bigendian(all), !.s.size = <<>>, !.s.recv = <<>>,
                       !.s.status = "CONTENT", !.buf = rest, !.stop = rest = <<>>]

\* Mutant: the test is <=.
TooShortOrEven(n, need) == n <= need
TooShort(n, need) == n < need
Content(p) ==
    LET need == p.s.length - Len(p.s.recv)
        rest == SubSeq(p.buf, need + 1, Len(p.buf))
    IN  IF TooShort(Len(p.buf), need)
        THEN [p EXCEPT !.s.recv = @ \o p.buf, !.buf = <<>>, !.stop = TRUE]
        ELSE [p EXCEPT !.forward = Append(@, p.s.recv \o SubSeq(p.buf, 1, need)),
                       !.s.length = 0, !.s.recv = <<>>, !.s.status = "HEADER",
                       !.buf = rest, !.stop = rest = <<>>]

\* Once through the switch, and the loop around it.
Switch(p, i) ==
    CASE p.s.status = "HANDSHAKE" -> Handshake(p, i)
      [] p.s.status = "HEADER"    -> Header(p)
      [] p.s.status = "CONTENT"   -> Content(p)
      [] OTHER                    -> [p EXCEPT !.stop = TRUE]
RECURSIVE push_socket_data(_, _)
push_socket_data(p, i) ==
    IF p.stop THEN p ELSE CHOOSE r \in {push_socket_data(q, i) : q \in {Switch(p, i)}} : TRUE

\* close_harbor: the slave is down, its socket stays set, its queue is released.
Closed(s) == [s EXCEPT !.status = "DOWN", !.queue = NoQueue, !.size = <<>>, !.recv = <<>>]
close_harbor(h, i) ==
    /\ slave' = [slave EXCEPT ![h][i] = Closed(@)]
    /\ freed' = FreeOnce(release_queue(slave[h][i].queue))
    /\ conn' = "broken"
    /\ wire' = [g \in Node |-> <<>>]

\* forward_local_messsage: the message a service of h receives.
Forwarded(h, bytes) ==
    LET c == message_to_header(SubSeq(bytes, Len(bytes) - HEADER_COOKIE_LENGTH + 1, Len(bytes)))
    IN  [source |-> c.source, destination |-> Handle(h, c.destination % SHIFT),
         type |-> c.destination \div SHIFT, session |-> c.session,
         text |-> SubSeq(bytes, 1, Len(bytes) - HEADER_COOKIE_LENGTH)]

Has(k) == k % SHIFT \in Services
Errors(ms) == LET bad == SelectSeq(ms, LAMBDA m : ~Has(m.destination)) IN
    [j \in 1 .. Len(bad) |-> [source |-> bad[j].destination, destination |-> bad[j].source,
                              session |-> bad[j].session]]

\* mainloop on socket data: push_socket_data with the next k bytes for slave i.
SocketData(h, i, k) ==
    /\ live[h] /\ conn = "up" /\ (h = 1 \/ ~torn) /\ slave[h][i].fd # 0
    /\ \E p \in {push_socket_data([s |-> slave[h][i], buf |-> SubSeq(wire[h], 1, k),
                                   forward |-> <<>>, stop |-> FALSE], i)} :
       \E ms \in {[j \in DOMAIN p.forward |-> Forwarded(h, p.forward[j])]} :
          LET rest == [wire EXCEPT ![h] = SubSeq(@, k + 1, Len(@))] IN
          /\ got' = [got EXCEPT ![h] = @ \o SelectSeq(ms, LAMBDA m : Has(m.destination))]
          /\ mail' = [mail EXCEPT ![h] = @ \o Errors(ms)]
          /\ \/ /\ p.s.status # "DOWN" /\ slave[h][i].status = "HANDSHAKE"
                /\ slave' = [slave EXCEPT ![h][i] = [p.s EXCEPT !.queue = NoQueue]]
                /\ wire' = Transmit(rest, h, dispatch_queue(h, i))
                /\ UNCHANGED <<conn, freed>>
             \/ /\ p.s.status # "DOWN" /\ slave[h][i].status # "HANDSHAKE"
                /\ slave' = [slave EXCEPT ![h][i] = p.s]
                /\ wire' = rest
                /\ UNCHANGED <<conn, freed>>
             \/ /\ p.s.status = "DOWN"
                /\ close_harbor(h, i)
    /\ UNCHANGED <<name, torn, sent, moved, down, world>>
Receive(h) == \E i \in Id : slave[h][i].fd # 0 /\ \E k \in Pieces(h) : SocketData(h, i, k)

\* mainloop on a socket that was closed or is in error
report_harbor_down(h, i) ==
    /\ live[h] /\ conn = "broken" /\ slave[h][i].fd # 0 /\ i \notin down[h]
    /\ down' = [down EXCEPT ![h] = @ \cup {i}]
    /\ UNCHANGED <<slave, name, conn, wire, torn, mail, sent, got, freed, moved, world>>

-----------------------------------------------------------------------------
(* The rest of the world. *)

Register(handle) ==
    /\ owner = 0 /\ owner' = handle
    /\ UNCHANGED <<slave, name, conn, wire, torn, mail, sent, got, freed, moved, down, live,
                   plan>>

Break ==
    /\ conn \in {"open", "up"} /\ conn' = "broken"
    /\ wire' = [h \in Node |-> <<>>]
    /\ UNCHANGED <<slave, name, torn, mail, sent, got, freed, moved, down, world>>

\* The node exits, after the services have sent what they send: harbor_release
\* closes the slaves that are up (at most one here), hash_delete the name's queue.
harbor_release(h) ==
    LET up == {i \in Id : slave[h][i].fd # 0 /\ slave[h][i].status # "DOWN"}
        queues == UNION {release_queue(slave[h][i].queue) : i \in up}
                    \cup release_queue(name[h].queue)
    IN  /\ live[h] /\ sent = Len(plan)
        /\ live' = [live EXCEPT ![h] = FALSE]
        /\ slave' = [slave EXCEPT ![h] = [i \in Id |-> IF i \in up THEN Closed(@[i]) ELSE @[i]]]
        /\ name' = [name EXCEPT ![h] = NoNode]
        /\ freed' = FreeOnce(queues)
        /\ conn' = IF up # {} THEN "broken" ELSE conn
        /\ wire' = IF up # {} THEN [g \in Node |-> <<>>] ELSE wire
        /\ UNCHANGED <<owner, plan, torn, mail, sent, got, moved, down>>

Next ==
    \/ \E h \in Node :
          \/ skynet_harbor_send(h) \/ remote_send_name(h) \/ SendReply(h)
          \/ update_name(h) \/ harbor_release(h)
          \/ Register(Handle(h, 1))
          \/ Receive(h)
          \/ \E i \in Id : report_harbor_down(h, i)
    \/ \E i \in Id : CommandS(i)
    \/ \E k \in Pieces(2) : CommandA(k)
    \/ Break

\* Services run, cslave answers and the socket server hands over what it reads.
Fairness ==
    /\ \A h \in Node : WF_vars(SendReply(h)) /\ WF_vars(Receive(h))
    /\ WF_vars(\E k \in Pieces(2) : CommandA(k))

Spec == Init /\ [][Next]_vars
FairSpec == Spec /\ Fairness

-----------------------------------------------------------------------------
(***************************************************************************)
(* A service receives from the other node only what a service there sent   *)
(* to it, by its handle or by its name, whole and with its session; the    *)
(* messages sent by handle come in order and once, also those that waited  *)
(* for the connection in a queue that grew.  An error goes only to the     *)
(* sender of a message that found no service.                              *)
(***************************************************************************)
Target(n) == IF plan[n].to = 0 THEN owner ELSE plan[n].to
Faithful ==
    \A h \in Node : \A j \in DOMAIN got[h] : LET m == got[h][j] IN
        /\ m.type \in {PTYPE_LUA, PTYPE_ERROR}
        /\ m.type = PTYPE_LUA =>
              /\ plan[m.session].from = Other(h) /\ m.source = Handle(Other(h), 1)
              /\ m.destination = Target(m.session) /\ m.text = <<m.session>>
        /\ m.type = PTYPE_ERROR =>
              /\ plan[m.session].from = h
              /\ ~Has(Target(m.session)) \/ m.session \in moved
        /\ \A k \in 1 .. j - 1 :
              got[h][k].type = m.type =>
                  /\ got[h][k].session # m.session
                  /\ plan[m.session].to # 0 /\ plan[got[h][k].session].to # 0
                        => got[h][k].session < m.session

(***************************************************************************)
(* A buffer is freed at most once, and not while it waits in the queue of  *)
(* a slave or of a name, also when the queue goes from one to the other or *)
(* the connection is refused.                                              *)
(***************************************************************************)
Waiting(n) == \E h \in Node :
    \/ n \in release_queue(name[h].queue)
    \/ \E i \in Id : n \in release_queue(slave[h][i].queue)
FreedOnce == \A n \in 1 .. MaxMsg : freed[n] + (IF Waiting(n) THEN 1 ELSE 0) <= 1

(***************************************************************************)
(* The node that connects sends nothing but its id until the other has     *)
(* answered, or cslave on the other side would take a part of it: only     *)
(* messages that waited for a name break this (dispatch_name_queue).       *)
(***************************************************************************)
NothingBeforeHandshake ==
    torn => \E n \in 1 .. sent : plan[n] = [from |-> 1, to |-> 0]

(***************************************************************************)
(* A message for the other node is received, or answered with an error,    *)
(* when the connection is made and stays up, whatever the pieces in which  *)
(* the stream is read.                                                     *)
(***************************************************************************)
Answered(n) ==
    \E h \in Node : \E j \in DOMAIN got[h] :
        got[h][j].session = n /\ (plan[n].from = h <=> got[h][j].type = PTYPE_ERROR)
Due(n) ==
    /\ n <= sent /\ conn = "up" /\ ~torn
    /\ \/ plan[n].to \div SHIFT = Other(plan[n].from)
       \/ /\ plan[n].to = 0 /\ owner \div SHIFT = Other(plan[n].from)
          /\ name[plan[n].from].value # 0
EveryMessageAnswered == \A n \in 1 .. MaxMsg : Due(n) ~> (Answered(n) \/ conn # "up")
=============================================================================
