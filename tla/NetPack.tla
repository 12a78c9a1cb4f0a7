------------------------------ MODULE NetPack -------------------------------
(***************************************************************************)
(* lua-netpack: packages of a two byte length and data are taken out of    *)
(* the pieces in which the streams of several sockets arrive.  A piece     *)
(* that completes one package returns it; when there are more, they wait   *)
(* in a ring.  As in gateserver.lua (external) the ring is popped empty    *)
(* before the next piece.  The streams are what lpack made of the          *)
(* packages.  What lclear frees is left out.                               *)
(***************************************************************************)
EXTENDS Integers, Sequences, FiniteSets, SequencesExt

CONSTANTS
    QUEUESIZE, HASHSIZE,
    Traffic         \* bound: the sockets and what they send: functions from socket ids
                    \* to sequences of packages

VARIABLES
    q,              \* struct queue
    feed            \* feed[fd]: packages sent, bytes read, packages received; open

-----------------------------------------------------------------------------
(* The bytes of a package. *)

write_size(len) == <<(len \div 256) % 256, len % 256>>
read_size(b) == b[1] * 256 + b[2]

\* lpack and lpack_string; lpack_padding appends a cookie.
lpack(p) == write_size(Len(p)) \o p
lpack_padding(p, cookie) == lpack(p \o cookie)
Bytes(ps) == FlattenSeq([i \in 1 .. Len(ps) |-> lpack(ps[i])])

-----------------------------------------------------------------------------
\* get_queue, when there is none
NewQueue == [cap |-> QUEUESIZE, head |-> 0, tail |-> 0,
             hash |-> [h \in 0 .. HASHSIZE - 1 |-> <<>>],
             queue |-> [i \in 0 .. QUEUESIZE - 1 |-> <<>>]]

hash_fd(fd) == (fd \div 2^24 + fd \div 2^12 + fd) % HASHSIZE

\* find_uncomplete takes it out of its chain.
Find(r, fd) == SelectSeq(r.hash[hash_fd(fd)], LAMBDA u : u.id = fd)
Without(c, fd) == SelectSeq(c, LAMBDA u : u.id # fd)
find_uncomplete(r, fd) == [r EXCEPT !.hash[hash_fd(fd)] = Without(@, fd)]

\* save_uncomplete: read = -1 when only the first byte of the length is there.
save_uncomplete(r, fd, u) == [r EXCEPT !.hash[hash_fd(fd)] = <<u>> \o @]

\* expand_queue of a full ring.  Mutant: the copy does not start at the head.
IndexFromZero(r, i) == i
IndexFrom(r, i) == (r.head + i) % r.cap
expand_queue(r) ==
    [r EXCEPT !.cap = @ + QUEUESIZE, !.head = 0, !.tail = r.cap,
              !.queue = [i \in 0 .. r.cap + QUEUESIZE - 1 |->
                           IF i < r.cap THEN r.queue[IndexFrom(r, i)] ELSE <<>>]]

push_data(r, fd, data) ==
    LET s == [r EXCEPT !.queue[r.tail] = [id |-> fd, data |-> data],
                       !.tail = IF @ + 1 >= r.cap THEN @ + 1 - r.cap ELSE @ + 1]
    IN  IF s.head = s.tail THEN expand_queue(s) ELSE s

From(b, n) == SubSeq(b, n + 1, Len(b))

\* What is left over after the last whole package.
Start(r, fd, b) ==
    IF Len(b) = 1
    THEN save_uncomplete(r, fd, [id |-> fd, read |-> -1, header |-> b[1], data |-> <<>>, size |-> 0])
    ELSE save_uncomplete(r, fd, [id |-> fd, read |-> Len(b) - 2, header |-> 0,
                                 data |-> From(b, 2), size |-> read_size(b)])
Incomplete(b) == Len(b) = 1 \/ Len(b) - 2 < read_size(b)

RECURSIVE push_more(_, _, _)
push_more(r, fd, b) ==
    IF Incomplete(b) THEN Start(r, fd, b)
    ELSE LET n == 2 + read_size(b)
             s == push_data(r, fd, SubSeq(b, 3, n))
         IN  IF Len(b) > n THEN push_more(s, fd, From(b, n)) ELSE s

\* filter_data_: the queue and the package returned ("data"), if it is only one.
Nothing(r) == [q |-> r, data |-> <<>>]
Packages(r, fd, data, rest) ==
    IF rest = <<>> THEN [q |-> r, data |-> <<data>>]
                   ELSE Nothing(push_more(push_data(r, fd, data), fd, rest))

filter_data_(r, fd, b) ==
    IF Find(r, fd) # <<>>
    THEN LET old  == Head(Find(r, fd))
             s    == find_uncomplete(r, fd)
             u    == IF old.read < 0
                     THEN [old EXCEPT !.read = 0, !.size = 256 * old.header + b[1]] ELSE old
             c    == IF old.read < 0 THEN Tail(b) ELSE b
             need == u.size - u.read
         IN  IF Len(c) < need
             THEN Nothing(save_uncomplete(s, fd, [u EXCEPT !.data = @ \o c, !.read = @ + Len(c)]))
             ELSE Packages(s, fd, u.data \o SubSeq(c, 1, need), From(c, need))
    ELSE IF Incomplete(b) THEN Nothing(Start(r, fd, b))
    ELSE LET n == 2 + read_size(b) IN Packages(r, fd, SubSeq(b, 3, n), From(b, n))

-----------------------------------------------------------------------------
Init ==
    /\ q = NewQueue
    /\ \E f \in Traffic :
          feed = [fd \in DOMAIN f |-> [sent |-> f[fd], read |-> 0, got |-> <<>>, open |-> TRUE]]

\* lfilter, on data: the next n bytes of fd
lfilter(fd, n) ==
    /\ q.head = q.tail /\ feed[fd].open /\ feed[fd].read + n <= Len(Bytes(feed[fd].sent))
    /\ LET b == SubSeq(Bytes(feed[fd].sent), feed[fd].read + 1, feed[fd].read + n)
           r == filter_data_(q, fd, b)
       IN  /\ q' = r.q
           /\ feed' = [feed EXCEPT ![fd].read = @ + n, ![fd].got = @ \o r.data]

\* lfilter on close: what is incomplete stays.
Close(fd) ==
    /\ q.head = q.tail /\ feed[fd].open
    /\ feed' = [feed EXCEPT ![fd].open = FALSE]
    /\ UNCHANGED q

lpop ==
    /\ q.head # q.tail
    /\ q' = [q EXCEPT !.head = IF @ + 1 >= q.cap THEN 0 ELSE @ + 1]
    /\ feed' = [feed EXCEPT ![q.queue[q.head].id].got = Append(@, q.queue[q.head].data)]

lclear ==
    /\ q # NewQueue /\ \A fd \in DOMAIN feed : ~feed[fd].open
    /\ q' = [q EXCEPT !.head = 0, !.tail = 0, !.hash = [h \in 0 .. HASHSIZE - 1 |-> <<>>]]
    /\ UNCHANGED feed

Next ==
    \/ \E fd \in DOMAIN feed :
          Close(fd) \/ \E n \in 1 .. Len(Bytes(feed[fd].sent)) : lfilter(fd, n)
    \/ lpop \/ lclear

-----------------------------------------------------------------------------
(***************************************************************************)
(* Once the ring is popped empty, each socket's owner has received exactly *)
(* the packages of its stream that have arrived whole, in order, empty     *)
(* ones included, wherever the streams were cut and however often the ring *)
(* grew; and a socket has one incomplete package exactly while its stream  *)
(* ends inside a package.                                                  *)
(***************************************************************************)
Whole(f) ==
    CHOOSE k \in 0 .. Len(f.sent) :
        /\ Len(Bytes(SubSeq(f.sent, 1, k))) <= f.read
        /\ k < Len(f.sent) => Len(Bytes(SubSeq(f.sent, 1, k + 1))) > f.read
Inside(f) == f.read > Len(Bytes(SubSeq(f.sent, 1, Whole(f))))
NetPackReturns ==
    /\ q.head = q.tail =>
          \A fd \in DOMAIN feed : feed[fd].got = SubSeq(feed[fd].sent, 1, Whole(feed[fd]))
    /\ \A fd \in DOMAIN feed :
          feed[fd].open => Len(Find(q, fd)) = IF Inside(feed[fd]) THEN 1 ELSE 0
=============================================================================
