----------------------------- MODULE SocketData -----------------------------
(***************************************************************************)
(* Proofs about module SocketServer: the invariants of the buffers that are*)
(* sent and of what is written, and how a step of each class changes the   *)
(* lists that hold the buffers.                                            *)
(***************************************************************************)
EXTENDS SocketLemmas

\* A command that sends; a buffer in the queue; in the lists of a slot.
IsSend(c) == c.cmd \in Sends
InQueue(q, b) == \E i \in 1 .. Len(q) : IsSend(q[i]) /\ q[i].buf = b
In(list, b) == \E i \in 1 .. Len(list) : list[i].buf = b
Has(k, b) == In(k.high, b) \/ In(k.low, b)
Flying(k, b) == \E i \in 1 .. Len(k.inflight) : k.inflight[i].buf = b

\* A buffer that has left the queue: the later ones are still in it.
Past(b, q, n) ==
    b <= n /\ \A i \in 1 .. Len(q) : IsSend(q[i]) => b < q[i].buf

\* The queue holds buffers in the order in which they were sent.
QueueOk(q, bf) ==
    /\ \A i, j \in 1 .. Len(q) : i < j /\ IsSend(q[i]) /\ IsSend(q[j]) => q[i].buf < q[j].buf
    /\ \A i \in 1 .. Len(q) : IsSend(q[i]) =>
          q[i].buf <= Len(bf) /\ bf[q[i].buf] = [id |-> q[i].id, cmd |-> q[i].cmd]

Once(list) == \A i, j \in 1 .. Len(list) : list[i].buf = list[j].buf => i = j
ListsOk(k, q, n) ==
    /\ Once(k.high) /\ Once(k.low)
    /\ \A b \in 1 .. MaxBuf : ~(In(k.high, b) /\ In(k.low, b))
    /\ \A b \in 1 .. MaxBuf : Has(k, b) => Past(b, q, n)
    /\ \A b \in 1 .. MaxBuf : Flying(k, b) => Past(b, q, n)

BufInv ==
    /\ QueueOk(cmd_queue, bufs)
    /\ \A s \in Slot : ListsOk(sock[s], cmd_queue, Len(bufs))
    /\ \A s, t \in Slot : \A b \in 1 .. MaxBuf : Has(sock[s], b) /\ Has(sock[t], b) => s = t
    /\ \A id \in Id : \A i \in 1 .. Len(wire[id]) : Past(wire[id][i], cmd_queue, Len(bufs))
    /\ \A b \in 1 .. MaxBuf :
          /\ freed[b] <= 1
          /\ freed[b] # 0 => b <= Len(bufs) /\ ~InQueue(cmd_queue, b) /\ \A s \in Slot : ~Has(sock[s], b)

-----------------------------------------------------------------------------
IsD(bf, b) == bf[b].cmd = "D"
OnWire(w, b) == \E i \in 1 .. Len(w) : w[i] = b

WireOk(id, w, bf) ==
    /\ \A i \in 1 .. Len(w) : bf[w[i]].id = id
    /\ \A i, j \in 1 .. Len(w) : i < j =>
          w[i] # w[j] /\ (IsD(bf, w[i]) /\ IsD(bf, w[j]) => w[i] < w[j])

\* The request in flight on a TCP socket.
FlightOk(k, r, w, bf) ==
    /\ bf[r.buf].id = k.id /\ ~OnWire(w, r.buf)
    /\ Has(k, r.buf) => k[r.list] # <<>> /\ Head(k[r.list]).buf = r.buf
    /\ \A i \in 1 .. Len(k.high) :
          IsD(bf, r.buf) /\ IsD(bf, k.high[i].buf) => r.buf <= k.high[i].buf
    /\ \A i \in 1 .. Len(w) : IsD(bf, w[i]) /\ IsD(bf, r.buf) => w[i] < r.buf

DataOk(k, w, bf) ==
    /\ \A b \in 1 .. MaxBuf : Has(k, b) => bf[b].id = k.id /\ ~OnWire(w, b)
    /\ \A i \in 1 .. Len(k.low) : ~IsD(bf, k.low[i].buf)
    /\ \A i, j \in 1 .. Len(k.high) :
          i < j /\ IsD(bf, k.high[i].buf) /\ IsD(bf, k.high[j].buf) => k.high[i].buf < k.high[j].buf
    /\ \A i \in 1 .. Len(w), j \in 1 .. Len(k.high) :
          IsD(bf, w[i]) /\ IsD(bf, k.high[j].buf) => w[i] < k.high[j].buf
    /\ k.inflight # <<>> => FlightOk(k, Head(k.inflight), w, bf)

\* A slot, with all that has been written and the faults.
Wired(k, wr, bf, f) ==
    /\ k.id = 0 => Dead(k)
    /\ "wb_list" \notin f /\ k.protocol = "TCP" /\ k.id # 0 =>
          /\ WireOk(k.id, wr[k.id], bf)
          /\ ~Dead(k) => DataOk(k, wr[k.id], bf)

WireInv ==
    /\ \A id \in Id : Unopened(id, alloc_id, opening, cmd_queue) => wire[id] = <<>>
    /\ \A s \in Slot : Wired(sock[s], wire, bufs, fault)

-----------------------------------------------------------------------------
(* The buffers of a list.                                                  *)

LEMMA AppendIn ==
    ASSUME NEW L \in Seq(Item), NEW x \in Item
    PROVE  /\ \A b : In(Append(L, x), b) <=> In(L, b) \/ b = x.buf
           /\ Once(L) /\ ~In(L, x.buf) => Once(Append(L, x))
PROOF
    <1> DEFINE M == Append(L, x)
    <1>1. Pushed(L, x, M)
        BY AppendPushed
    <1>2. /\ Len(M) \in 1 .. Len(M) /\ M[Len(M)] = x
          /\ \A i \in 1 .. Len(L) : i \in 1 .. Len(M) /\ M[i] = L[i]
          /\ \A i \in 1 .. Len(M) : i = Len(M) \/ (i \in 1 .. Len(L) /\ M[i] = L[i])
        BY <1>1 DEF Pushed
    <1>. HIDE DEF M
    <1>3. \A b : In(M, b) <=> In(L, b) \/ b = x.buf
        BY <1>2 DEF In
    <1>4. Once(L) /\ ~In(L, x.buf) => Once(M)
        BY <1>2 DEF Once, In
    <1>. QED
        BY <1>3, <1>4 DEF M

LEMMA TailIn ==
    ASSUME NEW L \in Seq(Item), L # <<>>
    PROVE  /\ \A b : In(L, b) <=> In(Tail(L), b) \/ b = Head(L).buf
           /\ Once(L) => Once(Tail(L)) /\ ~In(Tail(L), Head(L).buf)
PROOF
    <1> DEFINE M == Tail(L)
    <1>1. /\ 1 \in 1 .. Len(L) /\ L[1] = Head(L)
          /\ \A i \in 1 .. Len(M) : i + 1 \in 1 .. Len(L) /\ i + 1 # 1 /\ M[i] = L[i + 1]
          /\ \A i, j \in 1 .. Len(M) : i + 1 = j + 1 => i = j
          /\ \A i \in 1 .. Len(L) : i # 1 => i - 1 \in 1 .. Len(M) /\ M[i - 1] = L[i]
        OBVIOUS
    <1>. HIDE DEF M
    <1>2. \A b : In(L, b) <=> In(M, b) \/ b = Head(L).buf
        <2>. SUFFICES ASSUME NEW b PROVE In(L, b) <=> In(M, b) \/ b = Head(L).buf
            OBVIOUS
        <2>1. ASSUME NEW i \in 1 .. Len(L), L[i].buf = b PROVE In(M, b) \/ b = Head(L).buf
            <3>1. CASE i = 1
                BY <1>1, <2>1, <3>1
            <3>2. CASE i # 1
                BY <1>1, <2>1, <3>2 DEF In
            <3>. QED
                BY <3>1, <3>2
        <2>2. In(M, b) => In(L, b)
            BY <1>1 DEF In
        <2>3. In(L, Head(L).buf)
            BY <1>1 DEF In
        <2>. QED
            BY <2>1, <2>2, <2>3 DEF In
    <1>3. Once(L) => Once(M)
        BY <1>1 DEF Once
    <1>4. Once(L) => ~In(M, Head(L).buf)
        BY <1>1 DEF Once, In
    <1>. QED
        BY <1>2, <1>3, <1>4 DEF M

LEMMA EmptyIn == Once(<<>>) /\ \A b : ~In(<<>>, b)
PROOF
    BY DEF Once, In

LEMMA BufNat == ASSUME NEW b \in 1 .. MaxBuf PROVE b \in Nat
PROOF
    BY SocketAssumption

LEMMA BufLower ==
    ASSUME NEW b \in 1 .. MaxBuf, NEW c \in 1 .. MaxBuf, b # c, b <= c PROVE b < c
PROOF
    BY SocketAssumption

LEMMA HasBuf == ASSUME NEW k \in SlotType, NEW b, Has(k, b) PROVE b \in 1 .. MaxBuf
PROOF
    <1>1. k.high \in Seq(Item) /\ k.low \in Seq(Item)
        BY DEF SlotType
    <1>2. /\ \A i \in 1 .. Len(k.high) : k.high[i] \in Item
          /\ \A i \in 1 .. Len(k.low) : k.low[i] \in Item
        BY <1>1
    <1>. QED
        BY <1>2 DEF Has, In, Item

\* The requests in flight after one more, and after the first has come back.
LEMMA FlyingMore ==
    ASSUME NEW k \in SlotType, NEW m, NEW r \in Req, m.inflight = Append(k.inflight, r)
    PROVE  \A b : Flying(m, b) => Flying(k, b) \/ b = r.buf
PROOF
    <1>1. k.inflight \in Seq(Req)
        BY DEF SlotType
    <1>2. Pushed(k.inflight, r, m.inflight)
        BY <1>1, AppendPushed
    <1>. QED
        BY <1>2 DEF Pushed, Flying

LEMMA FlyingLess ==
    ASSUME NEW k \in SlotType, NEW m, k.inflight # <<>>, m.inflight = Tail(k.inflight)
    PROVE  \A b : Flying(m, b) => Flying(k, b)
PROOF
    <1>1. k.inflight \in Seq(Req)
        BY DEF SlotType
    <1>2. Shifted(k.inflight, m.inflight)
        BY <1>1, TailShifted
    <1>. QED
        BY <1>2 DEF Shifted, Flying

-----------------------------------------------------------------------------
(* The queue.                                                              *)

\* p is what is left of q after at most one command has been taken.
Later(q, p) ==
    \E d \in {0, 1} : \A i \in 1 .. Len(p) : i + d \in 1 .. Len(q) /\ p[i] = q[i + d]

LEMMA LaterSame == ASSUME NEW S, NEW q \in Seq(S) PROVE Later(q, q)
PROOF
    <1>1. \A i \in 1 .. Len(q) : i + 0 \in 1 .. Len(q) /\ q[i] = q[i + 0]
        OBVIOUS
    <1>. QED
        BY <1>1 DEF Later

LEMMA LaterShifted == ASSUME NEW q, NEW p, Shifted(q, p) PROVE Later(q, p)
PROOF
    BY DEF Later, Shifted

LEMMA LaterOk ==
    ASSUME NEW q, NEW p, NEW bf, Later(q, p)
    PROVE  /\ QueueOk(q, bf) => QueueOk(p, bf)
           /\ \A b, n : Past(b, q, n) => Past(b, p, n)
           /\ \A b : InQueue(p, b) => InQueue(q, b)
PROOF
    <1>1. PICK d \in {0, 1} : \A i \in 1 .. Len(p) : i + d \in 1 .. Len(q) /\ p[i] = q[i + d]
        BY DEF Later
    <1>2. QueueOk(q, bf) => QueueOk(p, bf)
        <2>. SUFFICES ASSUME QueueOk(q, bf) PROVE QueueOk(p, bf)
            OBVIOUS
        <2>1. ASSUME NEW i \in 1 .. Len(p), NEW j \in 1 .. Len(p), i < j, IsSend(p[i]), IsSend(p[j])
              PROVE  p[i].buf < p[j].buf
            <3>1. i + d < j + d
                BY <2>1
            <3>. QED
                BY <1>1, <2>1, <3>1 DEF QueueOk
        <2>2. \A i \in 1 .. Len(p) : IsSend(p[i]) =>
                 p[i].buf <= Len(bf) /\ bf[p[i].buf] = [id |-> p[i].id, cmd |-> p[i].cmd]
            BY <1>1 DEF QueueOk
        <2>. QED
            BY <2>1, <2>2 DEF QueueOk
    <1>3. \A b, n : Past(b, q, n) => Past(b, p, n)
        BY <1>1 DEF Past
    <1>4. \A b : InQueue(p, b) => InQueue(q, b)
        BY <1>1 DEF InQueue
    <1>. QED
        BY <1>2, <1>3, <1>4

\* The buffer of the command that was taken is past now.
LEMMA HeadPast ==
    ASSUME NEW q \in Seq(Cmd), NEW p, NEW bf, q # <<>>, Shifted(q, p), QueueOk(q, bf),
           NEW c, c = q[1], IsSend(c)
    PROVE  /\ c.buf \in 1 .. MaxBuf /\ InQueue(q, c.buf) /\ ~InQueue(p, c.buf)
           /\ Past(c.buf, p, Len(bf)) /\ bf[c.buf] = [id |-> c.id, cmd |-> c.cmd]
           /\ \A b, n : Past(b, q, n) => b < c.buf
PROOF
    <1>1. 1 \in 1 .. Len(q) /\ c \in Cmd
        BY DEF Shifted
    <1>2. c.buf \in 1 .. MaxBuf
        BY <1>1, CmdFields DEF IsSend
    <1>3. \A i \in 1 .. Len(p) : IsSend(p[i]) => c.buf < p[i].buf
        <2>. SUFFICES ASSUME NEW i \in 1 .. Len(p), IsSend(p[i]) PROVE c.buf < p[i].buf
            OBVIOUS
        <2>1. i + 1 \in 1 .. Len(q) /\ p[i] = q[i + 1]
            BY DEF Shifted
        <2>2. 1 < i + 1
            OBVIOUS
        <2>. QED
            BY <1>1, <2>1, <2>2 DEF QueueOk
    <1>4. Past(c.buf, p, Len(bf)) /\ bf[c.buf] = [id |-> c.id, cmd |-> c.cmd]
        BY <1>1, <1>3 DEF QueueOk, Past
    <1>5. InQueue(q, c.buf) /\ ~InQueue(p, c.buf)
        BY <1>1, <1>2, <1>3 DEF InQueue
    <1>6. \A b, n : Past(b, q, n) => b < c.buf
        BY <1>1 DEF Past
    <1>. QED
        BY <1>2, <1>4, <1>5, <1>6

-----------------------------------------------------------------------------
(* What a step does with the buffers, in classes of steps.                 *)

\* The lists of a slot stay; a write may start or come back.
Goes(k, m) ==
    /\ m.high = k.high /\ m.low = k.low /\ m.id = k.id /\ m.protocol = k.protocol
    /\ Dead(k) => Dead(m)
    /\ \/ m.inflight = k.inflight
       \/ \E l \in Lists : /\ k[l] # <<>> /\ ReqOf(k, l) \in Req /\ ~Dead(k)
                           /\ m.inflight = Append(k.inflight, ReqOf(k, l))
                           /\ k.protocol = "TCP" => k.inflight = <<>>
       \/ /\ k.inflight # <<>> /\ m.inflight = Tail(k.inflight)
          /\ k.protocol = "TCP" => m.inflight = <<>>

\* The lists of a slot are cleared.
Emptied(k, m) ==
    /\ m.high = <<>> /\ m.low = <<>> /\ m.inflight = k.inflight
    /\ m.id = k.id /\ m.protocol = k.protocol
    /\ Dead(k) => Dead(m)

\* What every step of the loop leaves alone.
Shrinks ==
    \A id \in Id : Unopened(id, alloc_id', opening', cmd_queue') => Unopened(id, alloc_id, opening, cmd_queue)
Steps == bufs' = bufs /\ Later(cmd_queue, cmd_queue') /\ fault \subseteq fault' /\ Shrinks

\* A step that clears the lists of the slots of C and frees what was in them.
Clears(C) ==
    /\ Steps /\ wire' = wire /\ C \subseteq Slot
    /\ \A t \in Slot : IF t \in C THEN Emptied(sock[t], sock'[t]) ELSE Goes(sock[t], sock'[t])
    /\ \A b \in 1 .. MaxBuf :
          freed'[b] = IF \E t \in C : Has(sock[t], b) THEN freed[b] + 1 ELSE freed[b]

\* A new handle for id in slot s.
Makes(s, id) ==
    /\ Steps /\ wire' = wire /\ freed' = freed /\ s \in Slot
    /\ \A t \in Slot : t # s => sock'[t] = sock[t]
    /\ id \in Id /\ Unopened(id, alloc_id, opening, cmd_queue)
    /\ sock'[s].id = id /\ sock'[s].inflight = <<>>
    /\ sock'[s].high = sock[s].high /\ sock'[s].low = sock[s].low
    /\ "wb_list" \notin fault' => sock[s].high = <<>> /\ sock[s].low = <<>>

\* The buffer of the next command is freed; or put in a list of slot s.
TakesSend(c) ==
    /\ Steps /\ wire' = wire /\ cmd_queue # <<>> /\ c = cmd_queue[1] /\ IsSend(c)
    /\ Shifted(cmd_queue, cmd_queue')
Drop(c) ==
    /\ TakesSend(c) /\ sock' = sock
    /\ \A b \in 1 .. MaxBuf : freed'[b] = IF b = c.buf THEN freed[b] + 1 ELSE freed[b]
Adds(s, c, l, ok) ==
    /\ TakesSend(c) /\ s \in Slot /\ l \in Lists /\ freed' = freed
    /\ \A t \in Slot : t # s => sock'[t] = sock[t]
    /\ sock[s].id = c.id /\ (l = "low" => c.cmd = "P")
    /\ \E A : AppendFacts(sock[s], l, ItemOf(c.buf, ok), A) /\ Goes(A, sock'[s])

\* The oldest request of slot s has been written, and the head of its list goes.
Wrote(s) ==
    /\ Steps /\ s \in Slot /\ sock[s].inflight # <<>> /\ cmd_queue' = cmd_queue
    /\ \A t \in Slot : t # s => sock'[t] = sock[t]
    /\ LET k == sock[s]
           r == Head(k.inflight)
       IN  /\ k[r.list] # <<>>
           /\ wire' = [wire EXCEPT ![k.id] = Append(@, r.buf)]
           /\ \A b \in 1 .. MaxBuf :
                 freed'[b] = IF b = Head(k[r.list]).buf THEN freed[b] + 1 ELSE freed[b]
           /\ \E B, A : BackFacts(k, B) /\ OffFacts(B, r.list, A) /\ Goes(A, sock'[s])

-----------------------------------------------------------------------------
(* BufInv, for each class.                                                 *)

\* m has no buffers that k has not.
SubList(L, M) == (Once(L) => Once(M)) /\ \A b : In(M, b) => In(L, b)
Sub(k, m) ==
    /\ SubList(k.high, m.high) /\ SubList(k.low, m.low)
    /\ \A b : Flying(m, b) => Flying(k, b) \/ Has(k, b)

LEMMA GoesSub == ASSUME NEW k \in SlotType, NEW m, Goes(k, m) PROVE Sub(k, m)
PROOF
    <1>1. SubList(k.high, m.high) /\ SubList(k.low, m.low)
        BY DEF Goes, SubList
    <1>2. CASE m.inflight = k.inflight
        BY <1>1, <1>2 DEF Sub, Flying
    <1>3. ASSUME NEW l \in Lists, k[l] # <<>>, ReqOf(k, l) \in Req,
                 m.inflight = Append(k.inflight, ReqOf(k, l))
          PROVE  Sub(k, m)
        <2>1. \A b : Flying(m, b) => Flying(k, b) \/ b = ReqOf(k, l).buf
            BY <1>3, FlyingMore
        <2>2. k[l] \in Seq(Item) /\ k.high = k["high"] /\ k.low = k["low"]
            BY DEF SlotType, Lists
        <2>3. In(k[l], Head(k[l]).buf) /\ ReqOf(k, l).buf = Head(k[l]).buf
            BY <1>3, <2>2, TailIn DEF ReqOf
        <2>4. Has(k, ReqOf(k, l).buf)
            BY <2>2, <2>3 DEF Has, Lists
        <2>. QED
            BY <1>1, <2>1, <2>4 DEF Sub
    <1>4. CASE k.inflight # <<>> /\ m.inflight = Tail(k.inflight)
        BY <1>1, <1>4, FlyingLess DEF Sub
    <1>. QED
        BY <1>2, <1>3, <1>4 DEF Goes

LEMMA EmptiedSub == ASSUME NEW k, NEW m, Emptied(k, m) PROVE Sub(k, m) /\ \A b : ~Has(m, b)
PROOF
    BY EmptyIn DEF Emptied, Sub, SubList, Flying, Has

LEMMA ListsSub ==
    ASSUME NEW k, NEW m, NEW q, NEW p, NEW n, ListsOk(k, q, n), Later(q, p), Sub(k, m)
    PROVE  ListsOk(m, p, n) /\ \A b : Has(m, b) => Has(k, b)
PROOF
    <1>1. \A b : Past(b, q, n) => Past(b, p, n)
        BY LaterOk
    <1>2. \A b : Has(m, b) => Has(k, b)
        BY DEF Sub, SubList, Has
    <1>3. Once(m.high) /\ Once(m.low) /\ \A b \in 1 .. MaxBuf : ~(In(m.high, b) /\ In(m.low, b))
        BY DEF Sub, SubList, ListsOk
    <1>4. \A b \in 1 .. MaxBuf : Has(m, b) => Past(b, p, n)
        BY <1>1, <1>2 DEF ListsOk
    <1>5. \A b \in 1 .. MaxBuf : Flying(m, b) => Past(b, p, n)
        BY <1>1 DEF ListsOk, Sub
    <1>. QED
        BY <1>2, <1>3, <1>4, <1>5 DEF ListsOk

\* A buffer in the lists comes from the lists, or from the command taken for s0.
Sourced(s0) ==
    \A s \in Slot : \A b \in 1 .. MaxBuf : Has(sock'[s], b) =>
        Has(sock[s], b) \/ (s = s0 /\ InQueue(cmd_queue, b) /\ ~InQueue(cmd_queue', b))

\* A buffer that is freed was held, and is not held any more.
FreesGone ==
    \A b \in 1 .. MaxBuf :
        \/ freed'[b] = freed[b]
        \/ /\ freed'[b] = freed[b] + 1
           /\ InQueue(cmd_queue, b) \/ \E s \in Slot : Has(sock[s], b)
           /\ ~InQueue(cmd_queue', b) /\ \A s \in Slot : ~Has(sock'[s], b)
WirePast(w, q, n) == \A id \in Id : \A i \in 1 .. Len(w[id]) : Past(w[id][i], q, n)
AllLists(k, q, n) == \A s \in Slot : ListsOk(k[s], q, n)

LEMMA NotPast ==
    ASSUME NEW q \in Seq(Cmd), NEW b, NEW n, Past(b, q, n) PROVE ~InQueue(q, b)
PROOF
    <1>1. \A i \in 1 .. Len(q) : q[i] \in Cmd
        OBVIOUS
    <1>2. \A i \in 1 .. Len(q) : IsSend(q[i]) => q[i].buf \in Nat
        BY <1>1, CmdFields, SocketAssumption DEF IsSend
    <1>. QED
        BY <1>2 DEF Past, InQueue

LEMMA BufStep ==
    ASSUME BufInv, TypeOK, TypeOK', bufs' = bufs, Later(cmd_queue, cmd_queue'),
           NEW s0, Sourced(s0), FreesGone,
           AllLists(sock', cmd_queue', Len(bufs)), WirePast(wire', cmd_queue', Len(bufs))
    PROVE  BufInv'
PROOF
    <1>1. QueueOk(cmd_queue, bufs)' /\ \A b : InQueue(cmd_queue', b) => InQueue(cmd_queue, b)
        BY LaterOk DEF BufInv
    <1>2. \A s \in Slot : ListsOk(sock'[s], cmd_queue', Len(bufs'))
        BY DEF AllLists
    <1>3. \A s \in Slot : \A b \in 1 .. MaxBuf : Has(sock[s], b) => ~InQueue(cmd_queue, b) /\ b <= Len(bufs)
        <2>1. \A s \in Slot : \A b \in 1 .. MaxBuf : Has(sock[s], b) => Past(b, cmd_queue, Len(bufs))
            BY DEF BufInv, ListsOk
        <2>. QED
            BY <2>1, NotPast DEF TypeOK, Past
    <1>4. \A s, t \in Slot : \A b \in 1 .. MaxBuf : Has(sock'[s], b) /\ Has(sock'[t], b) => s = t
        BY <1>3 DEF BufInv, Sourced
    <1>5. \A b \in 1 .. MaxBuf : InQueue(cmd_queue, b) => b <= Len(bufs)
        BY DEF BufInv, QueueOk, InQueue
    <1>6. \A b \in 1 .. MaxBuf :
             /\ freed'[b] <= 1
             /\ freed'[b] # 0 => b <= Len(bufs) /\ ~InQueue(cmd_queue', b) /\ \A s \in Slot : ~Has(sock'[s], b)
        <2>. SUFFICES ASSUME NEW b \in 1 .. MaxBuf
                      PROVE  /\ freed'[b] <= 1
                             /\ freed'[b] # 0 => /\ b <= Len(bufs) /\ ~InQueue(cmd_queue', b)
                                                 /\ \A s \in Slot : ~Has(sock'[s], b)
            OBVIOUS
        <2>0. freed[b] \in Nat
            BY DEF TypeOK
        <2>1. /\ freed[b] <= 1
              /\ freed[b] # 0 => b <= Len(bufs) /\ ~InQueue(cmd_queue, b) /\ \A s \in Slot : ~Has(sock[s], b)
            BY DEF BufInv
        <2>2. CASE freed'[b] = freed[b]
            BY <1>1, <2>1, <2>2 DEF Sourced
        <2>3. CASE /\ freed'[b] = freed[b] + 1
                   /\ InQueue(cmd_queue, b) \/ \E s \in Slot : Has(sock[s], b)
                   /\ ~InQueue(cmd_queue', b) /\ \A s \in Slot : ~Has(sock'[s], b)
            <3>1. freed[b] = 0 /\ b <= Len(bufs)
                BY <1>3, <1>5, <2>1, <2>3
            <3>. QED
                BY <2>3, <3>1
        <2>. QED
            BY <2>2, <2>3 DEF FreesGone
    <1>. QED
        BY <1>1, <1>2, <1>4, <1>6 DEF BufInv, WirePast

LEMMA WireLater ==
    ASSUME BufInv, Later(cmd_queue, cmd_queue')
    PROVE  WirePast(wire, cmd_queue', Len(bufs))
PROOF
    <1>1. \A b, n : Past(b, cmd_queue, n) => Past(b, cmd_queue', n)
        BY LaterOk
    <1>. QED
        BY <1>1 DEF BufInv, WirePast

\* A slot that is left alone.
LEMMA SubSame == ASSUME NEW k PROVE Sub(k, k)
PROOF
    BY DEF Sub, SubList

LEMMA BufLess ==
    ASSUME BufInv, TypeOK, TypeOK', bufs' = bufs, Later(cmd_queue, cmd_queue'),
           \A t \in Slot : Sub(sock[t], sock'[t]), FreesGone,
           WirePast(wire', cmd_queue', Len(bufs))
    PROVE  BufInv'
PROOF
    <1>1. \A t \in Slot : /\ ListsOk(sock'[t], cmd_queue', Len(bufs))
                          /\ \A b : Has(sock'[t], b) => Has(sock[t], b)
        BY ListsSub DEF BufInv
    <1>2. AllLists(sock', cmd_queue', Len(bufs)) /\ Sourced(0)
        BY <1>1 DEF AllLists, Sourced
    <1>. QED
        BY <1>2, BufStep

LEMMA BufClears == ASSUME BufInv, TypeOK, TypeOK', NEW C, Clears(C) PROVE BufInv'
PROOF
    <1>0. bufs' = bufs /\ Later(cmd_queue, cmd_queue') /\ wire' = wire /\ C \subseteq Slot
        BY DEF Clears, Steps
    <1>1. \A t \in Slot : sock[t] \in SlotType
        BY DEF TypeOK
    <1>2. \A t \in Slot : /\ Sub(sock[t], sock'[t])
                          /\ t \in C => \A b : ~Has(sock'[t], b)
        BY <1>1, GoesSub, EmptiedSub DEF Clears
    <1>3. \A t \in Slot : \A b : Has(sock'[t], b) => Has(sock[t], b)
        BY <1>2 DEF Sub, SubList, Has
    <1>4. FreesGone
        <2>. SUFFICES ASSUME NEW b \in 1 .. MaxBuf, NEW t \in C, Has(sock[t], b)
                      PROVE  /\ \E s \in Slot : Has(sock[s], b)
                             /\ ~InQueue(cmd_queue', b) /\ \A s \in Slot : ~Has(sock'[s], b)
            BY DEF FreesGone, Clears
        <2>1. t \in Slot
            BY <1>0
        <2>2. Past(b, cmd_queue, Len(bufs))
            BY <2>1 DEF BufInv, ListsOk
        <2>3. ~InQueue(cmd_queue, b)
            BY <2>2, NotPast DEF TypeOK
        <2>4. ~InQueue(cmd_queue', b)
            BY <1>0, <2>3, LaterOk
        <2>5. \A s \in Slot : ~Has(sock'[s], b)
            BY <1>2, <1>3, <2>1 DEF BufInv
        <2>. QED
            BY <2>1, <2>4, <2>5
    <1>5. WirePast(wire', cmd_queue', Len(bufs))
        BY <1>0, WireLater
    <1>. QED
        BY <1>0, <1>2, <1>4, <1>5, BufLess

LEMMA BufMakes == ASSUME BufInv, TypeOK, TypeOK', NEW s, NEW id, Makes(s, id) PROVE BufInv'
PROOF
    <1>0. bufs' = bufs /\ Later(cmd_queue, cmd_queue') /\ wire' = wire /\ freed' = freed
        BY DEF Makes, Steps
    <1>1. Sub(sock[s], sock'[s])
        <2>1. \A b : ~Flying(sock'[s], b)
            BY DEF Flying, Makes
        <2>. QED
            BY <2>1 DEF Sub, SubList, Makes
    <1>2. \A t \in Slot : Sub(sock[t], sock'[t])
        BY <1>1, SubSame DEF Makes
    <1>3. FreesGone
        BY <1>0 DEF FreesGone
    <1>4. WirePast(wire', cmd_queue', Len(bufs))
        BY <1>0, WireLater
    <1>. QED
        BY <1>0, <1>2, <1>3, <1>4, BufLess

\* What is known of the buffer of the command that is taken.
LEMMA TakenBuf ==
    ASSUME BufInv, TypeOK, NEW c, TakesSend(c)
    PROVE  /\ c.buf \in 1 .. MaxBuf /\ InQueue(cmd_queue, c.buf) /\ ~InQueue(cmd_queue', c.buf)
           /\ Past(c.buf, cmd_queue', Len(bufs)) /\ bufs[c.buf] = [id |-> c.id, cmd |-> c.cmd]
           /\ \A b, n : Past(b, cmd_queue, n) => b < c.buf
           /\ \A s \in Slot : ~Has(sock[s], c.buf)
PROOF
    <1>1. /\ c.buf \in 1 .. MaxBuf /\ InQueue(cmd_queue, c.buf) /\ ~InQueue(cmd_queue', c.buf)
          /\ Past(c.buf, cmd_queue', Len(bufs)) /\ bufs[c.buf] = [id |-> c.id, cmd |-> c.cmd]
          /\ \A b, n : Past(b, cmd_queue, n) => b < c.buf
        BY HeadPast DEF TakesSend, BufInv, TypeOK
    <1>2. \A s \in Slot : ~Has(sock[s], c.buf)
        <2>. SUFFICES ASSUME NEW s \in Slot, Has(sock[s], c.buf) PROVE FALSE
            OBVIOUS
        <2>1. Past(c.buf, cmd_queue, Len(bufs))
            BY <1>1 DEF BufInv, ListsOk
        <2>. QED
            BY <1>1, <2>1, NotPast DEF TypeOK
    <1>. QED
        BY <1>1, <1>2

LEMMA BufDrop == ASSUME BufInv, TypeOK, TypeOK', NEW c, Drop(c) PROVE BufInv'
PROOF
    <1>0. bufs' = bufs /\ Later(cmd_queue, cmd_queue') /\ wire' = wire /\ sock' = sock /\ TakesSend(c)
        BY DEF Drop, TakesSend, Steps
    <1>1. /\ c.buf \in 1 .. MaxBuf /\ InQueue(cmd_queue, c.buf) /\ ~InQueue(cmd_queue', c.buf)
          /\ \A s \in Slot : ~Has(sock[s], c.buf)
        BY <1>0, TakenBuf
    <1>2. \A t \in Slot : Sub(sock[t], sock'[t])
        BY <1>0, SubSame
    <1>3. FreesGone
        BY <1>0, <1>1 DEF FreesGone, Drop
    <1>4. WirePast(wire', cmd_queue', Len(bufs))
        BY <1>0, WireLater
    <1>. QED
        BY <1>0, <1>2, <1>3, <1>4, BufLess

\* One list with the new buffer at its end.
AddedTo(k, b, A) ==
    /\ Once(k.high) => Once(A.high)
    /\ Once(k.low) => Once(A.low)
    /\ \A x : Has(A, x) <=> Has(k, x) \/ x = b
    /\ \A x : In(A.high, x) /\ In(A.low, x) => In(k.high, x) /\ In(k.low, x)
    /\ \A x : Flying(A, x) <=> Flying(k, x)

LEMMA AddedIn ==
    ASSUME NEW k \in SlotType, NEW l \in Lists, NEW b, NEW ok, NEW A,
           AppendFacts(k, l, ItemOf(b, ok), A), ~Has(k, b)
    PROVE  AddedTo(k, b, A)
PROOF
    <1>1. k.high \in Seq(Item) /\ k.low \in Seq(Item)
        BY DEF SlotType
    <1>2. ItemOf(b, ok) \in Item /\ ItemOf(b, ok).buf = b
        BY DEF AppendFacts, ItemOf
    <1>3. \A x : Flying(A, x) <=> Flying(k, x)
        BY DEF Flying, AppendFacts
    <1>4. CASE l = "high"
        <2>1. A.high = Append(k.high, ItemOf(b, ok)) /\ A.low = k.low
            BY <1>4 DEF AppendFacts
        <2>2. /\ \A x : In(A.high, x) <=> In(k.high, x) \/ x = b
              /\ Once(k.high) /\ ~In(k.high, b) => Once(A.high)
            BY <1>1, <1>2, <2>1, AppendIn
        <2>. QED
            BY <1>3, <2>1, <2>2 DEF Has, AddedTo
    <1>5. CASE l = "low"
        <2>1. A.low = Append(k.low, ItemOf(b, ok)) /\ A.high = k.high
            BY <1>5 DEF AppendFacts
        <2>2. /\ \A x : In(A.low, x) <=> In(k.low, x) \/ x = b
              /\ Once(k.low) /\ ~In(k.low, b) => Once(A.low)
            BY <1>1, <1>2, <2>1, AppendIn
        <2>. QED
            BY <1>3, <2>1, <2>2 DEF Has, AddedTo
    <1>. QED
        BY <1>4, <1>5 DEF Lists

LEMMA BufAdds ==
    ASSUME BufInv, TypeOK, TypeOK', NEW s, NEW c, NEW l, NEW ok, Adds(s, c, l, ok)
    PROVE  BufInv'
PROOF
    <1>0. /\ bufs' = bufs /\ Later(cmd_queue, cmd_queue') /\ wire' = wire /\ freed' = freed
          /\ s \in Slot /\ l \in Lists /\ TakesSend(c)
          /\ \A t \in Slot : t # s => sock'[t] = sock[t]
        BY DEF Adds, TakesSend, Steps
    <1>1. PICK A : AppendFacts(sock[s], l, ItemOf(c.buf, ok), A) /\ Goes(A, sock'[s])
        BY DEF Adds
    <1> DEFINE n == Len(bufs)
    <1>2. /\ c.buf \in 1 .. MaxBuf /\ InQueue(cmd_queue, c.buf) /\ ~InQueue(cmd_queue', c.buf)
          /\ Past(c.buf, cmd_queue', n) /\ ~Has(sock[s], c.buf)
        BY <1>0, TakenBuf
    <1>3. sock[s] \in SlotType
        BY <1>0 DEF TypeOK
    <1>4. AddedTo(sock[s], c.buf, A)
        BY <1>0, <1>1, <1>2, <1>3, AddedIn
    <1>5. \A t \in Slot : ListsOk(sock[t], cmd_queue', n)
        BY <1>0, SubSame, ListsSub DEF BufInv
    <1>6. ListsOk(A, cmd_queue', n)
        BY <1>0, <1>2, <1>4, <1>5 DEF ListsOk, AddedTo
    <1>7. Later(cmd_queue', cmd_queue')
        BY LaterSame DEF TypeOK
    <1>8. Sub(A, sock'[s])
        BY <1>1, GoesSub DEF AppendFacts
    <1>9. ListsOk(sock'[s], cmd_queue', n) /\ \A b : Has(sock'[s], b) => Has(A, b)
        BY <1>6, <1>7, <1>8, ListsSub
    <1>10. AllLists(sock', cmd_queue', n)
        BY <1>0, <1>5, <1>9 DEF AllLists
    <1>11. Sourced(s)
        BY <1>0, <1>2, <1>4, <1>9 DEF Sourced, AddedTo
    <1>12. FreesGone
        BY <1>0 DEF FreesGone
    <1>13. WirePast(wire', cmd_queue', n)
        BY <1>0, WireLater
    <1>. QED
        BY <1>0, <1>10, <1>11, <1>12, <1>13, BufStep

LEMMA SubTrans == ASSUME NEW k, NEW A, NEW m, Sub(k, A), Sub(A, m) PROVE Sub(k, m)
PROOF
    <1>1. SubList(k.high, m.high) /\ SubList(k.low, m.low)
        BY DEF Sub, SubList
    <1>2. \A b : Has(A, b) => Has(k, b)
        BY DEF Sub, SubList, Has
    <1>. QED
        BY <1>1, <1>2 DEF Sub

\* The head of one list has been taken off.
LEMMA OffSub ==
    ASSUME NEW k \in SlotType, NEW l \in Lists, k[l] # <<>>, NEW A, OffFacts(k, l, A)
    PROVE  /\ Sub(k, A) /\ Has(k, Head(k[l]).buf) /\ Head(k[l]).buf \in 1 .. MaxBuf
           /\ \A q, n : ListsOk(k, q, n) => ~Has(A, Head(k[l]).buf)
PROOF
    <1>1. k.high \in Seq(Item) /\ k.low \in Seq(Item) /\ k["high"] = k.high /\ k["low"] = k.low
        BY DEF SlotType
    <1>2. \A b : Flying(A, b) => Flying(k, b)
        BY DEF OffFacts, Flying
    <1>3. CASE l = "high"
        <2>1. A.high = Tail(k.high) /\ A.low = k.low /\ k[l] = k.high
            BY <1>3 DEF OffFacts
        <2>2. /\ \A b : In(k.high, b) <=> In(A.high, b) \/ b = Head(k.high).buf
              /\ Once(k.high) => Once(A.high) /\ ~In(A.high, Head(k.high).buf)
            BY <1>1, <2>1, TailIn
        <2>3. Sub(k, A) /\ Has(k, Head(k.high).buf)
            BY <1>2, <2>1, <2>2 DEF Sub, SubList, Has
        <2>4. Head(k.high).buf \in 1 .. MaxBuf
            BY <2>3, HasBuf
        <2>5. \A q, n : ListsOk(k, q, n) => ~Has(A, Head(k.high).buf)
            BY <2>1, <2>2, <2>4 DEF ListsOk, Has
        <2>. QED
            BY <2>1, <2>3, <2>4, <2>5
    <1>4. CASE l = "low"
        <2>1. A.low = Tail(k.low) /\ A.high = k.high /\ k[l] = k.low
            BY <1>4 DEF OffFacts
        <2>2. /\ \A b : In(k.low, b) <=> In(A.low, b) \/ b = Head(k.low).buf
              /\ Once(k.low) => Once(A.low) /\ ~In(A.low, Head(k.low).buf)
            BY <1>1, <2>1, TailIn
        <2>3. Sub(k, A) /\ Has(k, Head(k.low).buf)
            BY <1>2, <2>1, <2>2 DEF Sub, SubList, Has
        <2>4. Head(k.low).buf \in 1 .. MaxBuf
            BY <2>3, HasBuf
        <2>5. \A q, n : ListsOk(k, q, n) => ~Has(A, Head(k.low).buf)
            BY <2>1, <2>2, <2>4 DEF ListsOk, Has
        <2>. QED
            BY <2>1, <2>3, <2>4, <2>5
    <1>. QED
        BY <1>3, <1>4 DEF Lists

LEMMA BackSub ==
    ASSUME NEW k \in SlotType, k.inflight # <<>>, NEW B, BackFacts(k, B)
    PROVE  /\ Sub(k, B) /\ (\A b : Has(B, b) <=> Has(k, b)) /\ Head(k.inflight) \in Req
           /\ Flying(k, Head(k.inflight).buf)
           /\ \A l \in Lists : B[l] = k[l]
           /\ \A q, n : ListsOk(k, q, n) => ListsOk(B, q, n)
PROOF
    <1>1. \A b : Flying(B, b) => Flying(k, b)
        BY FlyingLess DEF BackFacts
    <1>2. Sub(k, B) /\ \A b : Has(B, b) <=> Has(k, b)
        BY <1>1 DEF Sub, SubList, BackFacts, Has
    <1>3. k.inflight \in Seq(Req)
        BY DEF SlotType
    <1>4. 1 \in 1 .. Len(k.inflight) /\ k.inflight[1] = Head(k.inflight) /\ Head(k.inflight) \in Req
        BY <1>3
    <1>5. Flying(k, Head(k.inflight).buf)
        BY <1>4 DEF Flying
    <1>6. \A l \in Lists : B[l] = k[l]
        BY DEF BackFacts, SlotType, Lists
    <1>7. \A q, n : ListsOk(k, q, n) => ListsOk(B, q, n)
        BY <1>1, <1>2 DEF ListsOk, BackFacts
    <1>. QED
        BY <1>2, <1>4, <1>5, <1>6, <1>7

LEMMA BufWrote == ASSUME BufInv, TypeOK, TypeOK', NEW s, Wrote(s) PROVE BufInv'
PROOF
    <1> DEFINE k == sock[s]
               r == Head(k.inflight)
               x == Head(k[r.list]).buf
               n == Len(bufs)
    <1>0. /\ bufs' = bufs /\ Later(cmd_queue, cmd_queue') /\ cmd_queue' = cmd_queue
          /\ s \in Slot /\ k.inflight # <<>> /\ k[r.list] # <<>>
          /\ \A t \in Slot : t # s => sock'[t] = sock[t]
          /\ wire' = [wire EXCEPT ![k.id] = Append(@, r.buf)]
          /\ \A b \in 1 .. MaxBuf : freed'[b] = IF b = x THEN freed[b] + 1 ELSE freed[b]
        BY DEF Wrote, Steps
    <1>1. PICK B, A : BackFacts(k, B) /\ OffFacts(B, r.list, A) /\ Goes(A, sock'[s])
        BY DEF Wrote
    <1>2. k \in SlotType /\ ListsOk(k, cmd_queue, n)
        BY <1>0 DEF TypeOK, BufInv
    <1>. HIDE DEF k
    <1>3. /\ Sub(k, B) /\ (\A b : Has(B, b) <=> Has(k, b)) /\ r \in Req
          /\ Flying(k, r.buf) /\ (\A l \in Lists : B[l] = k[l]) /\ ListsOk(B, cmd_queue, n)
        BY <1>0, <1>1, <1>2, BackSub
    <1>4. r.list \in Lists /\ r.buf \in 1 .. MaxBuf
        BY <1>3 DEF Req
    <1>5. B[r.list] = k[r.list] /\ B \in SlotType /\ A \in SlotType
        BY <1>1, <1>3, <1>4 DEF BackFacts, OffFacts
    <1>. HIDE DEF r
    <1>6. Sub(B, A) /\ Has(B, x) /\ x \in 1 .. MaxBuf /\ ~Has(A, x)
        BY <1>0, <1>1, <1>3, <1>4, <1>5, OffSub
    <1>7. Sub(A, sock'[s])
        BY <1>1, <1>5, GoesSub
    <1>8. Sub(k, sock'[s])
        BY <1>3, <1>6, <1>7, SubTrans
    <1>9. \A t \in Slot : Sub(sock[t], sock'[t])
        BY <1>0, <1>8, SubSame DEF k
    <1>10. FreesGone
        <2>1. ~Has(sock'[s], x) /\ Has(k, x)
            BY <1>3, <1>6, <1>7 DEF Sub, SubList, Has
        <2>2. Past(x, cmd_queue, n)
            BY <1>2, <1>6, <2>1 DEF ListsOk
        <2>3. ~InQueue(cmd_queue, x)
            BY <2>2, NotPast DEF TypeOK
        <2>4. \A t \in Slot : ~Has(sock'[t], x)
            BY <1>0, <1>6, <2>1 DEF BufInv, k
        <2>5. \E t \in Slot : Has(sock[t], x)
            BY <1>0, <2>1 DEF k
        <2>. HIDE DEF x
        <2>. QED
            BY <1>0, <2>3, <2>4, <2>5 DEF FreesGone
    <1>11. WirePast(wire', cmd_queue', n)
        <2>1. Past(r.buf, cmd_queue, n)
            BY <1>2, <1>3, <1>4 DEF ListsOk
        <2>. SUFFICES ASSUME NEW id \in Id, NEW i \in 1 .. Len(wire'[id])
                      PROVE  Past(wire'[id][i], cmd_queue, n)
            BY <1>0 DEF WirePast
        <2>2. wire[id] \in Seq(1 .. MaxBuf)
            BY DEF TypeOK
        <2>3. CASE wire'[id] = wire[id]
            BY <2>3 DEF BufInv
        <2>4. CASE wire'[id] = Append(wire[id], r.buf)
            <3>1. Pushed(wire[id], r.buf, wire'[id])
                BY <1>4, <2>2, <2>4, AppendPushed
            <3>. QED
                BY <2>1, <3>1 DEF Pushed, BufInv
        <2>5. id \in DOMAIN wire
            BY DEF TypeOK
        <2>. QED
            BY <1>0, <2>3, <2>4, <2>5
    <1>. QED
        BY <1>0, <1>9, <1>10, <1>11, BufLess

-----------------------------------------------------------------------------
\* A command is queued that sends nothing; the lists stay.
SameLists(k, m) == m.high = k.high /\ m.low = k.low /\ m.inflight = k.inflight
Pushes(c) ==
    /\ Pushed(cmd_queue, c, cmd_queue') /\ ~IsSend(c) /\ bufs' = bufs /\ freed' = freed /\ wire' = wire
    /\ \A t \in Slot : SameLists(sock[t], sock'[t])

LEMMA BufPushes == ASSUME BufInv, TypeOK, NEW c, Pushes(c) PROVE BufInv'
PROOF
    <1> DEFINE q == cmd_queue
               p == cmd_queue'
    <1>1. /\ Pushed(q, c, p) /\ ~IsSend(c) /\ bufs' = bufs /\ freed' = freed /\ wire' = wire
          /\ \A t \in Slot : SameLists(sock[t], sock'[t])
        BY DEF Pushes
    <1>2. \A i \in 1 .. Len(p) : IsSend(p[i]) => i \in 1 .. Len(q) /\ p[i] = q[i]
        BY <1>1 DEF Pushed
    <1>3. QueueOk(p, bufs)
        BY <1>2 DEF BufInv, QueueOk
    <1>4. /\ \A b, n : Past(b, q, n) => Past(b, p, n)
          /\ \A b : InQueue(p, b) => InQueue(q, b)
        BY <1>2 DEF Past, InQueue
    <1>. HIDE DEF q, p
    <1>5. \A t \in Slot : \A b : /\ Has(sock'[t], b) <=> Has(sock[t], b)
                                 /\ Flying(sock'[t], b) <=> Flying(sock[t], b)
        BY <1>1 DEF Has, Flying, SameLists
    <1>6. \A t \in Slot : ListsOk(sock'[t], p, Len(bufs))
        <2>. SUFFICES ASSUME NEW t \in Slot PROVE ListsOk(sock'[t], p, Len(bufs))
            OBVIOUS
        <2>1. ListsOk(sock[t], q, Len(bufs))
            BY DEF BufInv, q
        <2>. QED
            BY <1>1, <1>4, <1>5, <2>1 DEF ListsOk, SameLists
    <1>. QED
        BY <1>1, <1>3, <1>4, <1>5, <1>6 DEF BufInv, p, q

LEMMA BufGiven ==
    ASSUME BufInv, TypeOK, TypeOK', NEW id \in Id, NEW k, NEW c, Given(id, k, c) PROVE BufInv'
PROOF
    <1> DEFINE q == cmd_queue
               p == cmd_queue'
               n == Len(bufs)
    <1>1. /\ bufs' = Append(bufs, [id |-> id, cmd |-> k]) /\ n \in Nat
          /\ c \in Cmd /\ c.cmd = k /\ c.id = id /\ c.buf = n + 1 /\ k \in Sends
          /\ UNCHANGED <<sock, wire>> /\ [id |-> id, cmd |-> k] \in [id : Id, cmd : Sends]
          /\ bufs \in Seq([id : Id, cmd : Sends]) /\ q \in Seq(Cmd)
        BY DEF Given, TypeOK
    <1>2. /\ Len(bufs') = n + 1 /\ bufs'[n + 1] = [id |-> id, cmd |-> k]
          /\ \A b \in 1 .. n : bufs'[b] = bufs[b]
        BY <1>1
    <1>3. \A i \in 1 .. Len(q) : IsSend(q[i]) => /\ q[i].buf \in 1 .. n
                                                 /\ bufs'[q[i].buf] = [id |-> q[i].id, cmd |-> q[i].cmd]
        <2>1. \A i \in 1 .. Len(q) : IsSend(q[i]) => q[i].buf \in 1 .. MaxBuf
            BY <1>1, CmdFields DEF IsSend
        <2>2. \A i \in 1 .. Len(q) : IsSend(q[i]) => /\ q[i].buf <= n
                                                     /\ bufs[q[i].buf] = [id |-> q[i].id, cmd |-> q[i].cmd]
            BY DEF BufInv, QueueOk
        <2>3. \A i \in 1 .. Len(q) : IsSend(q[i]) => q[i].buf \in 1 .. n
            <3>1. n \in Nat /\ MaxBuf \in Nat
                BY <1>1, SocketAssumption
            <3>2. \A x \in 1 .. MaxBuf : x <= n => x \in 1 .. n
                BY <3>1
            <3>. QED
                BY <2>1, <2>2, <3>2
        <2>. QED
            BY <1>2, <2>2, <2>3
    <1>. HIDE DEF n
    <1>13. n \in Nat /\ c.buf = n + 1 /\ \A x \in 1 .. n : x < n + 1 /\ x # n + 1
        BY <1>1
    <1>4. p = q \/ Pushed(q, c, p)
        BY <1>1, AppendPushed DEF Given
    <1>5. \A i \in 1 .. Len(p) : \/ i \in 1 .. Len(q) /\ p[i] = q[i]
                                 \/ i = Len(p) /\ p[i] = c /\ \A j \in 1 .. Len(p) : j < i => j \in 1 .. Len(q) /\ p[j] = q[j]
        BY <1>1, <1>4 DEF Pushed
    <1>. HIDE DEF p, q
    <1>6. \A b \in Nat : Past(b, q, n) => Past(b, p, n + 1)
        BY <1>1, <1>5 DEF Past
    <1>7. QueueOk(p, bufs')
        <2>1. \A i \in 1 .. Len(p) : IsSend(p[i]) =>
                 p[i].buf <= Len(bufs') /\ bufs'[p[i].buf] = [id |-> p[i].id, cmd |-> p[i].cmd]
            BY <1>1, <1>2, <1>3, <1>5
        <2>2. ASSUME NEW i \in 1 .. Len(p), NEW j \in 1 .. Len(p), i < j, IsSend(p[i]), IsSend(p[j])
              PROVE  p[i].buf < p[j].buf
            <3>1. CASE j \in 1 .. Len(q) /\ p[j] = q[j]
                <4>1. i \in 1 .. Len(q) /\ p[i] = q[i]
                    BY <1>5, <2>2, <3>1
                <4>. QED
                    BY <2>2, <3>1, <4>1 DEF BufInv, QueueOk, q
            <3>2. CASE p[j] = c /\ i \in 1 .. Len(q) /\ p[i] = q[i]
                BY <1>3, <1>13, <2>2, <3>2
            <3>. QED
                BY <1>5, <2>2, <3>1, <3>2
        <2>. QED
            BY <2>1, <2>2 DEF QueueOk
    <1>8. \A t \in Slot : ListsOk(sock[t], p, n + 1)
        <2>. SUFFICES ASSUME NEW t \in Slot PROVE ListsOk(sock[t], p, n + 1)
            OBVIOUS
        <2>1. ListsOk(sock[t], q, n)
            BY DEF BufInv, q, n
        <2>2. \A b \in 1 .. MaxBuf : b \in Nat
            BY SocketAssumption
        <2>. QED
            BY <1>6, <2>1, <2>2 DEF ListsOk
    <1>9. \A d \in Id : \A i \in 1 .. Len(wire[d]) : Past(wire[d][i], p, n + 1)
        <2>. SUFFICES ASSUME NEW d \in Id, NEW i \in 1 .. Len(wire[d]) PROVE Past(wire[d][i], p, n + 1)
            OBVIOUS
        <2>1. wire[d] \in Seq(1 .. MaxBuf)
            BY DEF TypeOK
        <2>2. wire[d][i] \in Nat
            BY <2>1, SocketAssumption
        <2>3. Past(wire[d][i], q, n)
            BY DEF BufInv, q, n
        <2>. QED
            BY <1>6, <2>2, <2>3
    <1>10. \A b \in 1 .. MaxBuf :
              /\ freed'[b] <= 1
              /\ freed'[b] # 0 => b <= n + 1 /\ ~InQueue(p, b) /\ \A s \in Slot : ~Has(sock[s], b)
        <2>. SUFFICES ASSUME NEW b \in 1 .. MaxBuf
                      PROVE  /\ freed'[b] <= 1
                             /\ freed'[b] # 0 => b <= n + 1 /\ ~InQueue(p, b) /\ \A s \in Slot : ~Has(sock[s], b)
            OBVIOUS
        <2>0. freed[b] \in Nat /\ b \in Nat
            BY SocketAssumption DEF TypeOK
        <2>1. /\ freed[b] <= 1
              /\ freed[b] # 0 => b <= n /\ ~InQueue(q, b) /\ \A s \in Slot : ~Has(sock[s], b)
            BY DEF BufInv, n, q
        <2>2. InQueue(p, b) => InQueue(q, b) \/ (b = n + 1 /\ freed' = freed)
            <3>1. p = q \/ freed' = freed
                BY DEF Given, p, q
            <3>2. CASE p = q
                BY <3>2
            <3>3. InQueue(p, b) => InQueue(q, b) \/ b = n + 1
                BY <1>1, <1>5 DEF InQueue
            <3>. QED
                BY <3>1, <3>2, <3>3
        <2>3. CASE freed'[b] = freed[b]
            BY <1>1, <2>0, <2>1, <2>2, <2>3
        <2>4. CASE freed'[b] # freed[b]
            <3>1. Free({n + 1}) /\ p = q
                BY <2>4 DEF Given, n, p, q
            <3>2. b = n + 1 /\ freed'[b] = freed[b] + 1
                BY <2>4, <3>1 DEF Free
            <3>3. freed[b] = 0
                BY <1>1, <2>0, <2>1, <3>2
            <3>4. ~InQueue(q, b)
                BY <1>3, <1>13, <3>2 DEF InQueue
            <3>5. \A s \in Slot : ~Has(sock[s], b)
                <4>. SUFFICES ASSUME NEW s \in Slot, Has(sock[s], b) PROVE FALSE
                    OBVIOUS
                <4>1. Past(b, q, n)
                    BY DEF BufInv, ListsOk, q, n
                <4>. QED
                    BY <1>1, <3>2, <4>1 DEF Past
            <3>. QED
                BY <2>0, <3>1, <3>2, <3>3, <3>4, <3>5
        <2>. QED
            BY <2>3, <2>4
    <1>11. \A s, t \in Slot : \A b \in 1 .. MaxBuf : Has(sock[s], b) /\ Has(sock[t], b) => s = t
        BY DEF BufInv
    <1>. QED
        BY <1>1, <1>2, <1>7, <1>8, <1>9, <1>10, <1>11 DEF BufInv, p
=============================================================================
