---------------------------- MODULE SocketBuffer ----------------------------
(***************************************************************************)
(* The receive buffer of lua-socket: blocks as they come from the socket,  *)
(* in list nodes taken from a pool, read by size, by line or as a whole.   *)
(* A separator that lies in three or more nodes makes pop_lstring add a    *)
(* negative number of bytes (fault); the behaviour ends there.             *)
(***************************************************************************)
EXTENDS Integers, Sequences, FiniteSets, SequencesExt

CONSTANTS
    LARGE_PAGE_NODE,
    FirstPage,      \* 8, the nodes of the smallest page are twice as many
    Blocks,         \* bound: the blocks that may be pushed
    Seps,           \* bound: the separators
    MaxIn           \* bound: the bytes pushed

VARIABLES
    sb,             \* struct socket_buffer: size, offset, list; and fault
    pool,           \* the node pool: free nodes, pages
    io              \* history: in, all bytes pushed; out, all bytes read; last, the last line

-----------------------------------------------------------------------------
lnewbuffer == [size |-> 0, offset |-> 0, list |-> <<>>, fault |-> FALSE]

\* lnewpool: the nodes of page n
PageSize(n) == FirstPage * 2^(IF n <= LARGE_PAGE_NODE - 3 THEN n ELSE LARGE_PAGE_NODE - 3)
lnewpool(p) == [free |-> p.free + PageSize(p.pages + 1), pages |-> p.pages + 1]

\* return_free_node n times.  Mutant: the offset is not reset.
OffsetKept(b) == b.offset
OffsetReset(b) == 0
return_free_node(b) == [b EXCEPT !.offset = OffsetReset(b), !.list = Tail(@)]
Returned(p, before, after) == [p EXCEPT !.free = @ + Len(before.list) - Len(after.list)]

\* pop_lstring: the buffer and the string of sz bytes without the last skip.
RECURSIVE Pop(_, _, _, _)
Pop(b, sz, skip, str) ==
    LET cur == Head(b.list)
        bytes == Len(cur) - b.offset
        add(n) == str \o SubSeq(cur, b.offset + 1, b.offset + n)
        keep == IF sz - skip < bytes THEN sz - skip ELSE bytes
    IN  IF bytes >= sz
        THEN [b |-> IF bytes = sz THEN return_free_node(b) ELSE [b EXCEPT !.offset = @ + sz],
              str |-> IF sz > skip THEN add(sz - skip) ELSE str]
        ELSE IF keep < 0 THEN [b |-> [b EXCEPT !.fault = TRUE], str |-> str]
        ELSE Pop(return_free_node(b), sz - bytes, skip, add(keep))
pop_lstring(b, sz, skip) ==
    LET r == Pop(b, sz, skip, <<>>) IN [r EXCEPT !.b.size = @ - sz]

\* check_sep: the separator is at byte "from" of the first node, or begins there.
RECURSIVE check_sep(_, _, _)
check_sep(nodes, from, sep) ==
    LET sz == Len(Head(nodes)) - from IN
    IF sz >= Len(sep) THEN SubSeq(Head(nodes), from + 1, from + Len(sep)) = sep
    ELSE /\ SubSeq(Head(nodes), from + 1, from + sz) = SubSeq(sep, 1, sz)
         /\ check_sep(Tail(nodes), 0, SubSeq(sep, sz + 1, Len(sep)))

\* The search of lreadline: the number of bytes before the separator, or -1.
LastTry(b, sep) == b.size - Len(sep)
RECURSIVE Search(_, _, _, _, _)
Search(nodes, from, i, last, sep) ==
    IF i > last THEN -1
    ELSE IF check_sep(nodes, from, sep) THEN i
    ELSE IF from + 1 < Len(Head(nodes)) THEN Search(nodes, from + 1, i + 1, last, sep)
    ELSE IF Tail(nodes) = <<>> THEN -1
    ELSE Search(Tail(nodes), 0, i + 1, last, sep)
FindLine(b, sep) ==
    IF b.list = <<>> THEN -1 ELSE Search(b.list, b.offset, 0, LastTry(b, sep), sep)

Content(b) == SubSeq(FlattenSeq(b.list), b.offset + 1, Len(FlattenSeq(b.list)))

-----------------------------------------------------------------------------
Init ==
    /\ sb = lnewbuffer
    /\ pool = [free |-> 0, pages |-> 0]
    /\ io = [in |-> <<>>, out |-> <<>>, line |-> <<>>, sep |-> <<>>]

lpushbuffer(msg) ==
    /\ ~sb.fault /\ Len(io.in) + Len(msg) <= MaxIn
    /\ LET p == IF pool.free = 0 THEN lnewpool(pool) ELSE pool
       IN  pool' = [p EXCEPT !.free = @ - 1]
    /\ sb' = [sb EXCEPT !.list = Append(@, msg), !.size = @ + Len(msg)]
    /\ io' = [io EXCEPT !.in = @ \o msg, !.sep = <<>>]

lpopbuffer(sz) ==
    /\ ~sb.fault /\ ~(sb.size < sz \/ sz = 0)
    /\ LET r == pop_lstring(sb, sz, 0) IN
       /\ sb' = r.b
       /\ pool' = Returned(pool, sb, r.b)
       /\ io' = [io EXCEPT !.out = @ \o r.str, !.sep = <<>>]

\* lreadline; the search alone (check) changes nothing.
lreadline(sep) ==
    /\ ~sb.fault /\ FindLine(sb, sep) >= 0
    /\ LET r == pop_lstring(sb, FindLine(sb, sep) + Len(sep), Len(sep))
       IN  /\ sb' = r.b
           /\ pool' = Returned(pool, sb, r.b)
           /\ io' = [io EXCEPT !.out = @ \o r.str \o sep, !.line = r.str, !.sep = sep]

lreadall ==
    /\ ~sb.fault /\ sb.list # <<>>
    /\ sb' = lnewbuffer
    /\ pool' = Returned(pool, sb, lnewbuffer)
    /\ io' = [io EXCEPT !.out = @ \o Content(sb), !.sep = <<>>]

lclearbuffer ==
    /\ ~sb.fault /\ sb.list # <<>>
    /\ sb' = lnewbuffer
    /\ pool' = Returned(pool, sb, lnewbuffer)
    /\ io' = [io EXCEPT !.in = io.out, !.sep = <<>>]

Next ==
    \/ \E m \in Blocks : lpushbuffer(m)
    \/ \E sz \in 1 .. MaxIn : lpopbuffer(sz)
    \/ \E s \in Seps : lreadline(s)
    \/ lreadall \/ lclearbuffer

-----------------------------------------------------------------------------
(***************************************************************************)
(* Nothing is lost, repeated or reordered: what was read and what is in    *)
(* the buffer are what was pushed.  A line is found exactly when its       *)
(* separator is in the buffer, across any number of blocks, and ends at    *)
(* the first one.  Only a separator of three bytes or more can fault.  The *)
(* nodes in the list and the free ones are all the nodes of the pool.      *)
(***************************************************************************)
Occurs(sep, s) == \E i \in 0 .. Len(s) - Len(sep) : SubSeq(s, i + 1, i + Len(sep)) = sep
BufferReads ==
    /\ sb.fault => Len(io.sep) >= 3
    /\ ~sb.fault =>
          /\ io.in = io.out \o Content(sb) /\ sb.size = Len(Content(sb))
          /\ io.sep # <<>> => ~Occurs(io.sep, io.line \o SubSeq(io.sep, 1, Len(io.sep) - 1))
          /\ \A s \in Seps : FindLine(sb, s) >= 0 <=> Occurs(s, Content(sb))
    /\ pool.free + Len(sb.list)
          = FoldLeft(LAMBDA n, p : n + PageSize(p), 0, [p \in 1 .. pool.pages |-> p])
=============================================================================
