-------------------------------- MODULE Gate --------------------------------
(***************************************************************************)
(* The gate service: it accepts connections, keeps them in a hash table of *)
(* socket ids, cuts the byte stream of each into packages and forwards     *)
(* these.  Each action is one run of _cb, by a message of the socket       *)
(* server (external) or a text command.  Packages of the peers are framed  *)
(* as the gate expects them.  The pool of list nodes and the address of a  *)
(* peer are left out; 2^24, the size that is too long, is a constant.      *)
(***************************************************************************)
EXTENDS Integers, Sequences, FiniteSets, SequencesExt

CONSTANTS
    MaxConnection,            \* max_connection
    HeaderSize,     \* 2 ('S') or 4 ('L')
    TooLong,        \* 0x1000000
    Traffic         \* bound: the peers and what they send: functions from socket ids to
                    \* sequences of payloads

Hashcap == 16       \* of hashid_init, for MaxConnection <= 16

VARIABLES
    g,              \* struct gate
    peer            \* peer[fd]: what the socket server does with the peer's socket

-----------------------------------------------------------------------------
(* hashid.h: a chain is the sequence of the slots linked in it. *)

hashid_init(max) ==
    [cap |-> max, count |-> 0, id |-> [s \in 0 .. max - 1 |-> -1],
     hash |-> [b \in 0 .. Hashcap - 1 |-> <<>>]]

Chain(hi, id) == hi.hash[id % Hashcap]
hashid_lookup(hi, id) ==
    LET c == SelectSeq(Chain(hi, id), LAMBDA s : hi.id[s] = id)
    IN  IF c = <<>> THEN -1 ELSE Head(c)

\* The table without id.  Mutant: all that follows id in its chain is unlinked.
UnlinkTail(c, s) == SubSeq(c, 1, SelectInSeq(c, LAMBDA x : x = s) - 1)
Unlink(c, s) == SelectSeq(c, LAMBDA x : x # s)
hashid_remove(hi, id) ==
    LET s == hashid_lookup(hi, id)
    IN  [hi EXCEPT !.hash[id % Hashcap] = Unlink(@, s), !.id[s] = -1, !.count = @ - 1]

\* The first free slot from id % cap on.
FreeSlot(hi, id) ==
    LET i == CHOOSE i \in 0 .. hi.cap - 1 :
                /\ hi.id[(i + id) % hi.cap] = -1
                /\ \A j \in 0 .. i - 1 : hi.id[(j + id) % hi.cap] # -1
    IN  (i + id) % hi.cap
hashid_insert(hi, id) ==
    LET s == FreeSlot(hi, id)
    IN  [hi EXCEPT !.id[s] = id, !.count = @ + 1, !.hash[id % Hashcap] = <<s>> \o @]
hashid_full(hi) == hi.count = hi.cap

-----------------------------------------------------------------------------
(* databuffer.h *)

NoData == [header |-> 0, offset |-> 0, size |-> 0, list |-> <<>>]

databuffer_push(db, data) == [db EXCEPT !.list = Append(@, data), !.size = @ + Len(data)]

\* The loop of databuffer_read: the buffer and the bytes.
RECURSIVE Take(_, _, _)
Take(db, sz, out) ==
    LET cur == Head(db.list)
        bsz == Len(cur) - db.offset
    IN  CASE bsz > sz -> [db |-> [db EXCEPT !.offset = @ + sz],
                          out |-> out \o SubSeq(cur, db.offset + 1, db.offset + sz)]
          [] bsz = sz -> [db |-> [db EXCEPT !.offset = 0, !.list = Tail(@)],
                          out |-> out \o SubSeq(cur, db.offset + 1, Len(cur))]
          [] OTHER -> Take([db EXCEPT !.offset = 0, !.list = Tail(@)], sz - bsz,
                           out \o SubSeq(cur, db.offset + 1, Len(cur)))
databuffer_read(db, sz) == Take([db EXCEPT !.size = @ - sz], sz, <<>>)

\* The buffer, with its header read if it can be.
BigEndian(b) == FoldLeft(LAMBDA n, x : 256 * n + x, 0, b)
databuffer_readheader(db) ==
    IF db.header # 0 \/ db.size < HeaderSize THEN db
    ELSE LET r == databuffer_read(db, HeaderSize) IN [r.db EXCEPT !.header = BigEndian(r.out)]

\* Not all of the package is there.  Mutant: the comparison is not strict.
PartialOrEven(db) == db.size <= db.header
Partial(db) == db.size < db.header

databuffer_clear(db) == NoData

-----------------------------------------------------------------------------
(* Data of a connection. *)

\* _forward: the service that gets the package, if there is one.
Receiver(gate, c) ==
    CASE gate.broker -> "broker" [] c.agent -> "agent" [] gate.watchdog -> "watchdog"
      [] OTHER -> "none"

\* dispatch_message.  Without a receiver the package stays in the buffer.  The
\* result: the connection, the packages forwarded, closed because of the size.
RECURSIVE Dispatch(_, _, _)
Dispatch(gate, c, out) ==
    LET db == databuffer_readheader(c.buffer)
        d  == [c EXCEPT !.buffer = db]
    IN  IF \/ db.header = 0 /\ c.buffer.size < HeaderSize
           \/ Partial(db)
        THEN [c |-> d, out |-> out, close |-> FALSE]
        ELSE IF db.header = 0
        THEN Dispatch(gate, d, out)
        ELSE IF db.header >= TooLong
        THEN [c |-> [d EXCEPT !.buffer = databuffer_clear(db)], out |-> out, close |-> TRUE]
        ELSE IF Receiver(gate, c) = "none"
        THEN Dispatch(gate, [d EXCEPT !.buffer.header = 0, !.astray = TRUE], out)
        ELSE LET r == databuffer_read(db, db.header)
             IN  Dispatch(gate, [d EXCEPT !.buffer = [r.db EXCEPT !.header = 0]],
                          Append(out, r.out))
dispatch_message(gate, c, data) ==
    Dispatch(gate, [c EXCEPT !.buffer = databuffer_push(@, data)], <<>>)

-----------------------------------------------------------------------------
\* astray (history): a package was left in the buffer as if it had been read.
NoConnection == [id |-> -1, agent |-> FALSE, buffer |-> NoData, astray |-> FALSE]

\* gate_create and gate_init, with or without a watchdog.
gate_init(watchdog) ==
    [hash |-> hashid_init(MaxConnection), conn |-> [s \in 0 .. MaxConnection - 1 |-> NoConnection],
     watchdog |-> watchdog, broker |-> FALSE, listening |-> TRUE]

\* The framing of a peer: payloads, and the bytes of the whole.
Frame(p) == [i \in 1 .. HeaderSize |-> IF i = HeaderSize THEN Len(p) ELSE 0] \o p
Bytes(ps) == FlattenSeq([i \in 1 .. Len(ps) |-> Frame(ps[i])])

Init ==
    /\ \E w \in BOOLEAN : g = gate_init(w)
    /\ \E f \in Traffic :
          peer = [fd \in DOMAIN f |-> [state |-> "new", sent |-> f[fd], read |-> 0, got |-> <<>>,
                                  open |-> FALSE, closing |-> FALSE, cut |-> FALSE]]

Slot(fd) == hashid_lookup(g.hash, fd)
Close(p, fd) == [p EXCEPT ![fd].closing = TRUE]     \* skynet_socket_close

\* ACCEPT: the connection is taken, or closed when the table is full.
Accept(fd) ==
    /\ peer[fd].state = "new" /\ g.listening
    /\ \/ /\ hashid_full(g.hash)
          /\ peer' = Close([peer EXCEPT ![fd].state = "up"], fd)
          /\ UNCHANGED g
       \/ /\ ~hashid_full(g.hash)
          /\ LET hi == hashid_insert(g.hash, fd) IN
             g' = [g EXCEPT !.hash = hi, !.conn[hashid_lookup(hi, fd)].id = fd]
          /\ peer' = [peer EXCEPT ![fd].state = "up"]

\* CONNECT, after the start: reported to the watchdog.
Connect(fd) ==
    /\ peer[fd].state = "up" /\ ~peer[fd].open /\ Slot(fd) >= 0
    /\ peer' = [peer EXCEPT ![fd].open = TRUE]
    /\ UNCHANGED g

\* DATA: the next n bytes.
Data(fd, n) ==
    /\ peer[fd].open /\ peer[fd].state = "up" /\ peer[fd].read + n <= Len(Bytes(peer[fd].sent))
    /\ LET data == SubSeq(Bytes(peer[fd].sent), peer[fd].read + 1, peer[fd].read + n)
           r == dispatch_message(g, g.conn[Slot(fd)], data)
       IN  /\ g' = [g EXCEPT !.conn[Slot(fd)] = r.c]
           /\ peer' = [peer EXCEPT ![fd].read = @ + n, ![fd].got = @ \o r.out,
                                   ![fd].closing = @ \/ r.close, ![fd].cut = @ \/ r.close]

\* CLOSE or ERROR
Closed(fd) ==
    /\ peer[fd].state = "up"
    /\ peer' = [peer EXCEPT ![fd].state = "closed"]
    /\ \/ Slot(fd) < 0 /\ UNCHANGED g
       \/ /\ Slot(fd) >= 0
          /\ g' = [g EXCEPT !.hash = hashid_remove(@, fd), !.conn[Slot(fd)] = NoConnection]

\* _ctrl: kick, forward (_forward_agent), broker, close; start has no effect here.
Kick(fd) == Slot(fd) >= 0 /\ ~peer[fd].closing /\ peer' = Close(peer, fd) /\ UNCHANGED g
_forward_agent(fd) ==
    Slot(fd) >= 0 /\ g' = [g EXCEPT !.conn[Slot(fd)].agent = TRUE] /\ UNCHANGED peer
Broker == ~g.broker /\ g' = [g EXCEPT !.broker = TRUE] /\ UNCHANGED peer
CloseListen == g.listening /\ g' = [g EXCEPT !.listening = FALSE] /\ UNCHANGED peer

Next ==
    \/ \E fd \in DOMAIN peer :
          \/ Accept(fd) \/ Connect(fd) \/ Closed(fd) \/ Kick(fd) \/ _forward_agent(fd)
          \/ \E n \in 1 .. Len(Bytes(peer[fd].sent)) : Data(fd, n)
    \/ Broker \/ CloseListen

-----------------------------------------------------------------------------
(***************************************************************************)
(* The packages forwarded for a connection are those of its stream that    *)
(* have arrived whole, the empty ones left out, wherever the stream was    *)
(* cut, until one was too long or came while nobody was there to take it.  *)
(***************************************************************************)
Arrived(p) ==
    LET whole == {k \in 0 .. Len(p.sent) : Len(Bytes(SubSeq(p.sent, 1, k))) <= p.read}
        n == CHOOSE k \in whole : \A j \in whole : j <= k
    IN  SelectSeq(SubSeq(p.sent, 1, n), LAMBDA x : x # <<>>)
GateForwards ==
    \A fd \in DOMAIN peer :
        Slot(fd) >= 0 /\ ~peer[fd].cut /\ ~g.conn[Slot(fd)].astray =>
            peer[fd].got = Arrived(peer[fd])

(***************************************************************************)
(* The hash table finds exactly the accepted connections that are not      *)
(* closed, each at a slot of its own, whatever the order of inserts and    *)
(* removals in one chain; and it is full when no slot is free.             *)
(***************************************************************************)
GateFinds ==
    /\ \A fd \in DOMAIN peer : Slot(fd) >= 0 => g.conn[Slot(fd)].id = fd /\ peer[fd].state = "up"
    /\ \A s \in 0 .. MaxConnection - 1 : g.conn[s].id # -1 => Slot(g.conn[s].id) = s
    /\ g.hash.count = Cardinality({s \in 0 .. MaxConnection - 1 : g.conn[s].id # -1})
    /\ \A fd \in DOMAIN peer : peer[fd].open /\ peer[fd].state = "up" => Slot(fd) >= 0
=============================================================================
