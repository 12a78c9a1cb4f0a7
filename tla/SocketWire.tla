----------------------------- MODULE SocketWire -----------------------------
(***************************************************************************)
(* Proofs about module SocketServer: what a step of each class writes, and *)
(* that the calls of the API keep the buffers and what is written consistent.*)
(***************************************************************************)
EXTENDS SocketData

-----------------------------------------------------------------------------
(* WireInv, for a slot.                                                    *)

\* A write that starts is the first of its list.
LEMMA FlightSent ==
    ASSUME NEW k \in SlotType, NEW w, NEW bf, DataOk(k, w, bf), NEW l \in Lists, k[l] # <<>>,
           NEW m, m.high = k.high, m.low = k.low, m.id = k.id
    PROVE  FlightOk(m, ReqOf(k, l), w, bf)
PROOF
    <1> DEFINE x == Head(k[l]).buf
               r == ReqOf(k, l)
    <1>1. /\ k.high \in Seq(Item) /\ k.low \in Seq(Item) /\ k[l] \in Seq(Item)
          /\ k["high"] = k.high /\ k["low"] = k.low /\ m["high"] = m.high /\ m["low"] = m.low
        BY DEF SlotType, Lists
    <1>2. 1 \in 1 .. Len(k[l]) /\ k[l][1] = Head(k[l])
        BY <1>1
    <1>3. In(k[l], x)
        BY <1>2 DEF In
    <1>4. Has(k, x)
        BY <1>1, <1>3 DEF Has, Lists
    <1>5. x \in 1 .. MaxBuf
        BY <1>4, HasBuf
    <1>6. r.buf = x /\ r.list = l
        BY DEF ReqOf
    <1>7. IsD(bf, x) => l = "high"
        BY <1>1, <1>2 DEF DataOk, Lists
    <1>. HIDE DEF x, r
    <1>8. bf[x].id = m.id /\ ~OnWire(w, x)
        BY <1>4, <1>5 DEF DataOk
    <1>9. m[l] # <<>> /\ Head(m[l]).buf = x
        BY <1>1 DEF Lists, x
    <1>10. \A i \in 1 .. Len(m.high) : IsD(bf, x) /\ IsD(bf, m.high[i].buf) => x <= m.high[i].buf
        <2>. SUFFICES ASSUME NEW i \in 1 .. Len(k.high), IsD(bf, x), IsD(bf, k.high[i].buf)
                      PROVE  x <= k.high[i].buf
            OBVIOUS
        <2>1. 1 \in 1 .. Len(k.high) /\ k.high[1].buf = x
            BY <1>1, <1>2, <1>7 DEF x
        <2>2. i = 1 \/ 1 < i
            OBVIOUS
        <2>3. x \in Nat /\ k.high[i].buf \in Nat
            <3>1. k.high[i] \in Item
                BY <1>1
            <3>. QED
                BY <1>5, <3>1, SocketAssumption DEF Item
        <2>4. 1 < i => x < k.high[i].buf
            BY <2>1 DEF DataOk
        <2>. QED
            BY <2>1, <2>2, <2>3, <2>4
    <1>11. \A i \in 1 .. Len(w) : IsD(bf, w[i]) /\ IsD(bf, x) => w[i] < x
        <2>1. IsD(bf, x) => 1 \in 1 .. Len(k.high) /\ k.high[1].buf = x
            BY <1>1, <1>2, <1>7 DEF x
        <2>. QED
            BY <2>1 DEF DataOk
    <1>. QED
        BY <1>6, <1>8, <1>9, <1>10, <1>11 DEF FlightOk, r

LEMMA WiredGoes ==
    ASSUME NEW k \in SlotType, NEW wr, NEW bf, NEW f, NEW g, f \subseteq g,
           Wired(k, wr, bf, f), NEW m, Goes(k, m)
    PROVE  Wired(m, wr, bf, g)
PROOF
    <1>1. /\ m.high = k.high /\ m.low = k.low /\ m.id = k.id /\ m.protocol = k.protocol
          /\ Dead(k) => Dead(m)
        BY DEF Goes
    <1>2. m.id = 0 => Dead(m)
        BY <1>1 DEF Wired
    <1>. SUFFICES ASSUME "wb_list" \notin g, m.protocol = "TCP", m.id # 0, ~Dead(m),
                         DataOk(k, wr[k.id], bf)
                  PROVE  DataOk(m, wr[k.id], bf)
        BY <1>1, <1>2 DEF Wired
    <1> DEFINE w == wr[k.id]
    <1>. HIDE DEF w
    <1>3. DataOk(k, w, bf)
        BY DEF w
    <1>4. \A b : Has(m, b) <=> Has(k, b)
        BY <1>1 DEF Has
    <1>5. m.inflight # <<>> => FlightOk(m, Head(m.inflight), w, bf)
        <2>1. CASE m.inflight = k.inflight
            <3>1. \A l \in Lists : m[l] = k[l]
                BY <1>1 DEF Lists
            <3>2. k.inflight \in Seq(Req)
                BY DEF SlotType
            <3>3. k.inflight # <<>> => Head(k.inflight) \in Req
                BY <3>2, SeqAt
            <3>4. k.inflight # <<>> => Head(k.inflight).list \in Lists
                BY <3>3 DEF Req
            <3>. QED
                BY <1>1, <1>3, <1>4, <2>1, <3>1, <3>4 DEF DataOk, FlightOk
        <2>2. ASSUME NEW l \in Lists, k[l] # <<>>, ReqOf(k, l) \in Req, k.inflight = <<>>,
                     m.inflight = Append(k.inflight, ReqOf(k, l))
              PROVE  FlightOk(m, Head(m.inflight), w, bf)
            <3>1. Head(m.inflight) = ReqOf(k, l)
                <4>1. \A r \in Req : Head(Append(<<>>, r)) = r
                    OBVIOUS
                <4>. QED
                    BY <2>2, <4>1
            <3>. QED
                BY <1>1, <1>3, <2>2, <3>1, FlightSent
        <2>. QED
            BY <1>1, <2>1, <2>2 DEF Goes
    <1>6. DataOk(m, w, bf)
        BY <1>1, <1>3, <1>4, <1>5 DEF DataOk
    <1>. QED
        BY <1>6 DEF w

LEMMA EmptyIndex == \A i \in 1 .. Len(<< >>) : FALSE
PROOF
    OBVIOUS

LEMMA FlightEmptied ==
    ASSUME NEW k, NEW r, NEW w, NEW bf, FlightOk(k, r, w, bf),
           NEW m, m.high = <<>>, m.id = k.id, ~Has(m, r.buf)
    PROVE  FlightOk(m, r, w, bf)
PROOF
    <1>1. \A i \in 1 .. Len(m.high) : FALSE
        BY EmptyIndex
    <1>. QED
        BY <1>1 DEF FlightOk

LEMMA WiredEmptied ==
    ASSUME NEW k \in SlotType, NEW wr, NEW bf, NEW f, NEW g, f \subseteq g,
           Wired(k, wr, bf, f), NEW m, Emptied(k, m)
    PROVE  Wired(m, wr, bf, g)
PROOF
    <1>1. /\ m.high = <<>> /\ m.low = <<>> /\ m.id = k.id /\ m.protocol = k.protocol
          /\ m.inflight = k.inflight /\ (Dead(k) => Dead(m))
        BY DEF Emptied
    <1>2. m.id = 0 => Dead(m)
        BY <1>1 DEF Wired
    <1>. SUFFICES ASSUME "wb_list" \notin g, m.protocol = "TCP", m.id # 0, ~Dead(m),
                         DataOk(k, wr[k.id], bf)
                  PROVE  DataOk(m, wr[k.id], bf)
        BY <1>1, <1>2 DEF Wired
    <1>3. \A b : ~Has(m, b)
        BY EmptiedSub
    <1>4. m.inflight # <<>> => FlightOk(k, Head(m.inflight), wr[k.id], bf)
        BY <1>1 DEF DataOk
    <1>5. m.inflight # <<>> => FlightOk(m, Head(m.inflight), wr[k.id], bf)
        BY <1>1, <1>3, <1>4, FlightEmptied
    <1>6. (\A i \in 1 .. Len(m.high) : FALSE) /\ (\A i \in 1 .. Len(m.low) : FALSE)
        BY <1>1, EmptyIndex
    <1>. QED
        BY <1>3, <1>5, <1>6 DEF DataOk

\* A new handle: nothing is in the lists, nothing has been written.
LEMMA WiredNew ==
    ASSUME NEW m, NEW wr, NEW bf, NEW g, m.id # 0, wr[m.id] = <<>>, m.inflight = <<>>,
           "wb_list" \notin g => m.high = <<>> /\ m.low = <<>>
    PROVE  Wired(m, wr, bf, g)
PROOF
    BY DEF Wired, WireOk, DataOk, Has, In

\* A slot without a handle for an id of which nothing has been written.
LEMMA WiredDead ==
    ASSUME NEW m, NEW wr, NEW bf, NEW g, Dead(m), wr[m.id] = <<>>
    PROVE  Wired(m, wr, bf, g)
PROOF
    BY DEF Wired, WireOk

\* Everything that the slot and the wire hold was sent before b.
Before(k, w, b) ==
    /\ \A x : Has(k, x) => x < b
    /\ \A x : Flying(k, x) => x < b
    /\ \A i \in 1 .. Len(w) : w[i] < b

\* A high priority list with one more buffer.
LEMMA HighAdded ==
    ASSUME NEW k \in SlotType, NEW w, NEW bf, DataOk(k, w, bf), NEW b \in 1 .. MaxBuf, NEW ok, NEW A,
           AppendFacts(k, "high", ItemOf(b, ok), A), Before(k, w, b)
    PROVE  /\ \A i, j \in 1 .. Len(A.high) :
                 i < j /\ IsD(bf, A.high[i].buf) /\ IsD(bf, A.high[j].buf) => A.high[i].buf < A.high[j].buf
           /\ \A i \in 1 .. Len(w), j \in 1 .. Len(A.high) :
                 IsD(bf, w[i]) /\ IsD(bf, A.high[j].buf) => w[i] < A.high[j].buf
           /\ \A i \in 1 .. Len(A.high) : (i \in 1 .. Len(k.high) /\ A.high[i] = k.high[i]) \/ A.high[i].buf = b
PROOF
    <1>1. k.high \in Seq(Item) /\ ItemOf(b, ok) \in Item /\ A.high = Append(k.high, ItemOf(b, ok))
        BY DEF AppendFacts, SlotType
    <1>2. Pushed(k.high, ItemOf(b, ok), A.high)
        BY <1>1, AppendPushed
    <1>3. ItemOf(b, ok).buf = b
        BY DEF ItemOf
    <1>4. ASSUME NEW i \in 1 .. Len(A.high)
          PROVE  \/ i \in 1 .. Len(k.high) /\ A.high[i] = k.high[i]
                 \/ /\ A.high[i].buf = b
                    /\ \A j \in 1 .. Len(A.high) : /\ j < i => j \in 1 .. Len(k.high) /\ A.high[j] = k.high[j]
                                                   /\ ~(i < j)
        <2>1. \/ i \in 1 .. Len(k.high) /\ A.high[i] = k.high[i]
              \/ /\ A.high[i] = ItemOf(b, ok)
                 /\ \A j \in 1 .. Len(A.high) : /\ j < i => j \in 1 .. Len(k.high) /\ A.high[j] = k.high[j]
                                                /\ ~(i < j)
            BY <1>2, PushedAt
        <2>. QED
            BY <1>3, <2>1
    <1>5. \A i \in 1 .. Len(k.high) : k.high[i].buf < b
        BY DEF Before, Has, In
    <1>6. ASSUME NEW i \in 1 .. Len(A.high), NEW j \in 1 .. Len(A.high), i < j,
                 IsD(bf, A.high[i].buf), IsD(bf, A.high[j].buf)
          PROVE  A.high[i].buf < A.high[j].buf
        <2>1. i \in 1 .. Len(k.high) /\ A.high[i] = k.high[i]
            BY <1>4, <1>6
        <2>2. CASE j \in 1 .. Len(k.high) /\ A.high[j] = k.high[j]
            BY <1>6, <2>1, <2>2 DEF DataOk
        <2>3. CASE A.high[j].buf = b
            BY <1>5, <2>1, <2>3
        <2>. QED
            BY <1>4, <2>2, <2>3
    <1>7. ASSUME NEW i \in 1 .. Len(w), NEW j \in 1 .. Len(A.high), IsD(bf, w[i]), IsD(bf, A.high[j].buf)
          PROVE  w[i] < A.high[j].buf
        <2>1. CASE j \in 1 .. Len(k.high) /\ A.high[j] = k.high[j]
            BY <1>7, <2>1 DEF DataOk
        <2>2. CASE A.high[j].buf = b
            BY <2>2 DEF Before
        <2>. QED
            BY <1>4, <2>1, <2>2
    <1>. QED
        BY <1>4, <1>6, <1>7

\* The request in flight keeps its place.
LEMMA FlightAdded ==
    ASSUME NEW k \in SlotType, NEW w, NEW bf, NEW r \in Req, FlightOk(k, r, w, bf), Flying(k, r.buf),
           NEW l \in Lists, NEW b \in 1 .. MaxBuf, NEW ok, NEW A,
           AppendFacts(k, l, ItemOf(b, ok), A), Before(k, w, b)
    PROVE  FlightOk(A, r, w, bf)
PROOF
    <1>0. r.list \in Lists /\ r.buf \in 1 .. MaxBuf
        BY DEF Req
    <1>1. /\ k.high \in Seq(Item) /\ k.low \in Seq(Item) /\ ItemOf(b, ok) \in Item
          /\ ItemOf(b, ok).buf = b /\ A.id = k.id
          /\ A.high = IF l = "high" THEN Append(k.high, ItemOf(b, ok)) ELSE k.high
          /\ A.low = IF l = "low" THEN Append(k.low, ItemOf(b, ok)) ELSE k.low
        BY DEF AppendFacts, SlotType, ItemOf
    <1>2. r.buf < b /\ r.buf # b /\ r.buf \in Nat /\ b \in Nat
        <2>1. r.buf < b
            BY DEF Before
        <2>. QED
            BY <1>0, <2>1, SocketAssumption
    <1>3. AddedTo(k, b, A)
        <2>1. ~Has(k, b)
            <3>1. b \in Nat
                BY <1>2
            <3>. QED
                BY <3>1 DEF Before
        <2>. QED
            BY <2>1, AddedIn
    <1>4. ASSUME Has(A, r.buf) PROVE A[r.list] # <<>> /\ Head(A[r.list]).buf = r.buf
        <2>1. Has(k, r.buf)
            BY <1>2, <1>3, <1>4 DEF AddedTo
        <2>2. k[r.list] # <<>> /\ Head(k[r.list]).buf = r.buf
            BY <2>1 DEF FlightOk
        <2>3. A[r.list] = k[r.list] \/ A[r.list] = Append(k[r.list], ItemOf(b, ok))
            BY <1>0, <1>1 DEF Lists
        <2>4. k[r.list] \in Seq(Item)
            BY <1>0, <1>1 DEF Lists
        <2>5. \A L \in Seq(Item), x \in Item : L # <<>> => Append(L, x) # <<>> /\ Head(Append(L, x)) = Head(L)
            OBVIOUS
        <2>. QED
            BY <1>1, <2>2, <2>3, <2>4, <2>5
    <1>5. \A i \in 1 .. Len(A.high) : IsD(bf, r.buf) /\ IsD(bf, A.high[i].buf) => r.buf <= A.high[i].buf
        <2>1. CASE A.high = k.high
            BY <2>1 DEF FlightOk
        <2>2. CASE A.high = Append(k.high, ItemOf(b, ok))
            <3>1. Pushed(k.high, ItemOf(b, ok), A.high)
                BY <1>1, <2>2, AppendPushed
            <3>2. \A i \in 1 .. Len(A.high) :
                     (i \in 1 .. Len(k.high) /\ A.high[i] = k.high[i]) \/ A.high[i].buf = b
                BY <1>1, <3>1 DEF Pushed
            <3>3. r.buf <= b
                BY <1>2
            <3>. QED
                BY <3>2, <3>3 DEF FlightOk
        <2>. QED
            BY <1>1, <2>1, <2>2
    <1>. QED
        BY <1>1, <1>4, <1>5 DEF FlightOk

LEMMA WiredAdded ==
    ASSUME NEW k \in SlotType, NEW wr, NEW bf, NEW f, Wired(k, wr, bf, f),
           NEW l \in Lists, NEW b \in 1 .. MaxBuf, NEW ok, NEW A, AppendFacts(k, l, ItemOf(b, ok), A),
           Before(k, wr[k.id], b), bf[b].id = k.id, l = "low" => ~IsD(bf, b)
    PROVE  Wired(A, wr, bf, f)
PROOF
    <1> DEFINE w == wr[k.id]
    <1>1. /\ A.id = k.id /\ A.protocol = k.protocol /\ (Dead(A) <=> Dead(k))
          /\ A.inflight = k.inflight
        BY DEF AppendFacts, Dead, Fresh
    <1>. SUFFICES ASSUME DataOk(k, w, bf) PROVE DataOk(A, w, bf)
        BY <1>1 DEF Wired
    <1>. HIDE DEF w
    <1>2. Before(k, w, b) /\ b \in Nat
        BY BufNat DEF w
    <1>3. ~Has(k, b) /\ ~OnWire(w, b)
        BY <1>2 DEF Before, OnWire
    <1>4. \A x : Has(A, x) <=> Has(k, x) \/ x = b
        BY <1>3, AddedIn DEF AddedTo
    <1>5. \A x \in 1 .. MaxBuf : Has(A, x) => bf[x].id = A.id /\ ~OnWire(w, x)
        BY <1>1, <1>3, <1>4 DEF DataOk
    <1>6. \A i \in 1 .. Len(A.low) : ~IsD(bf, A.low[i].buf)
        <2>1. CASE l = "low"
            <3>1. k.low \in Seq(Item) /\ ItemOf(b, ok) \in Item /\ A.low = Append(k.low, ItemOf(b, ok))
                BY <2>1 DEF AppendFacts, SlotType
            <3>2. Pushed(k.low, ItemOf(b, ok), A.low) /\ ItemOf(b, ok).buf = b
                BY <3>1, AppendPushed DEF ItemOf
            <3>. QED
                BY <2>1, <3>2 DEF Pushed, DataOk
        <2>2. CASE l # "low"
            BY <2>2 DEF AppendFacts, DataOk
        <2>. QED
            BY <2>1, <2>2
    <1>7. /\ \A i, j \in 1 .. Len(A.high) :
                i < j /\ IsD(bf, A.high[i].buf) /\ IsD(bf, A.high[j].buf) => A.high[i].buf < A.high[j].buf
          /\ \A i \in 1 .. Len(w), j \in 1 .. Len(A.high) :
                IsD(bf, w[i]) /\ IsD(bf, A.high[j].buf) => w[i] < A.high[j].buf
        <2>1. CASE l = "high"
            BY <1>2, <2>1, HighAdded
        <2>2. CASE l = "low"
            BY <2>2 DEF AppendFacts, DataOk
        <2>. QED
            BY <2>1, <2>2 DEF Lists
    <1>8. A.inflight # <<>> => FlightOk(A, Head(A.inflight), w, bf)
        <2>. SUFFICES ASSUME k.inflight # <<>> PROVE FlightOk(A, Head(k.inflight), w, bf)
            BY <1>1
        <2>1. k.inflight \in Seq(Req)
            BY DEF SlotType
        <2>2. 1 \in 1 .. Len(k.inflight) /\ k.inflight[1] = Head(k.inflight) /\ Head(k.inflight) \in Req
            BY <2>1
        <2>3. Flying(k, Head(k.inflight).buf)
            BY <2>2 DEF Flying
        <2>4. FlightOk(k, Head(k.inflight), w, bf)
            BY DEF DataOk
        <2>. QED
            BY <1>2, <2>2, <2>3, <2>4, FlightAdded
    <1>. QED
        BY <1>5, <1>6, <1>7, <1>8 DEF DataOk

\* The wire with one more buffer.
LEMMA WireAppended ==
    ASSUME NEW id, NEW w, NEW v, NEW x, NEW bf, WireOk(id, w, bf), Pushed(w, x, v),
           bf[x].id = id, ~OnWire(w, x),
           \A i \in 1 .. Len(w) : IsD(bf, w[i]) /\ IsD(bf, x) => w[i] < x
    PROVE  WireOk(id, v, bf) /\ \A b : OnWire(v, b) => OnWire(w, b) \/ b = x
PROOF
    <1>1. \A i \in 1 .. Len(v) :
             \/ i \in 1 .. Len(w) /\ v[i] = w[i]
             \/ /\ v[i] = x
                /\ \A j \in 1 .. Len(v) : (j < i => j \in 1 .. Len(w) /\ v[j] = w[j]) /\ ~(i < j)
        BY DEF Pushed
    <1>2. \A b : OnWire(v, b) => OnWire(w, b) \/ b = x
        BY <1>1 DEF OnWire
    <1>3. \A i \in 1 .. Len(v) : bf[v[i]].id = id
        BY <1>1 DEF WireOk
    <1>4. ASSUME NEW i \in 1 .. Len(v), NEW j \in 1 .. Len(v), i < j
          PROVE  v[i] # v[j] /\ (IsD(bf, v[i]) /\ IsD(bf, v[j]) => v[i] < v[j])
        <2>1. i \in 1 .. Len(w) /\ v[i] = w[i]
            BY <1>1, <1>4
        <2>2. CASE j \in 1 .. Len(w) /\ v[j] = w[j]
            BY <1>4, <2>1, <2>2 DEF WireOk
        <2>3. CASE v[j] = x
            BY <2>1, <2>3 DEF OnWire
        <2>. QED
            BY <1>1, <2>2, <2>3
    <1>. QED
        BY <1>2, <1>3, <1>4 DEF WireOk

\* The head of a list goes, and the request in flight is on the wire.
LEMMA DataOff ==
    ASSUME NEW k \in SlotType, NEW w, NEW v, NEW bf, DataOk(k, w, bf), NEW q, NEW n, ListsOk(k, q, n),
           NEW r \in Req, FlightOk(k, r, w, bf), k[r.list] # <<>>, Pushed(w, r.buf, v),
           NEW A \in SlotType, A.id = k.id, A.inflight = <<>>, Sub(k, A),
           ~Has(A, Head(k[r.list]).buf),
           A.high = k.high \/ (k.high # <<>> /\ A.high = Tail(k.high)),
           A.low = k.low \/ (k.low # <<>> /\ A.low = Tail(k.low))
    PROVE  DataOk(A, v, bf)
PROOF
    <1>1. k.high \in Seq(Item) /\ k.low \in Seq(Item)
        BY DEF SlotType
    <1>2. A.high = k.high \/ Shifted(k.high, A.high)
        BY <1>1, TailShifted
    <1>3. A.low = k.low \/ Shifted(k.low, A.low)
        BY <1>1, TailShifted
    <1>4. \A b : Has(A, b) => Has(k, b)
        BY DEF Sub, SubList, Has
    <1>5. ~Has(A, r.buf)
        BY <1>4 DEF FlightOk
    <1>6. \A i \in 1 .. Len(v) : (i \in 1 .. Len(w) /\ v[i] = w[i]) \/ v[i] = r.buf
        BY DEF Pushed
    <1>7. \A b \in 1 .. MaxBuf : Has(A, b) => bf[b].id = A.id /\ ~OnWire(v, b)
        <2>1. \A b : OnWire(v, b) => OnWire(w, b) \/ b = r.buf
            BY <1>6 DEF OnWire
        <2>. QED
            BY <1>4, <1>5, <2>1 DEF DataOk
    <1>8. \A i \in 1 .. Len(A.low) : ~IsD(bf, A.low[i].buf)
        BY <1>3 DEF DataOk, Shifted
    <1>9. \A i, j \in 1 .. Len(A.high) :
             i < j /\ IsD(bf, A.high[i].buf) /\ IsD(bf, A.high[j].buf) => A.high[i].buf < A.high[j].buf
        BY <1>2 DEF DataOk, Shifted
    <1>10. ASSUME NEW i \in 1 .. Len(v), NEW j \in 1 .. Len(A.high), IsD(bf, v[i]), IsD(bf, A.high[j].buf)
           PROVE  v[i] < A.high[j].buf
        <2>1. PICK d \in 1 .. Len(k.high) : A.high[j] = k.high[d]
            BY <1>2 DEF Shifted
        <2>2. CASE i \in 1 .. Len(w) /\ v[i] = w[i]
            BY <1>10, <2>1, <2>2 DEF DataOk
        <2>3. CASE v[i] = r.buf
            <3>1. Has(A, A.high[j].buf)
                BY DEF Has, In
            <3>2. A.high[j].buf # r.buf
                BY <1>5, <3>1
            <3>3. r.buf <= A.high[j].buf
                BY <1>10, <2>1, <2>3 DEF FlightOk
            <3>4. A.high[j].buf \in 1 .. MaxBuf
                BY <3>1, HasBuf
            <3>5. r.buf \in 1 .. MaxBuf
                BY DEF Req
            <3>6. r.buf < A.high[j].buf
                BY <3>2, <3>3, <3>4, <3>5, BufLower
            <3>. QED
                BY <2>3, <3>6
        <2>. QED
            BY <1>6, <2>2, <2>3
    <1>. QED
        BY <1>7, <1>8, <1>9, <1>10 DEF DataOk

\* A write of slot k has come back: k.id is on the wire, the head of the list is gone.
LEMMA WiredWrote ==
    ASSUME NEW k \in SlotType, NEW f, SlotInv(k, f), NEW wr \in [Id -> Seq(1 .. MaxBuf)], NEW bf,
           Wired(k, wr, bf, f), NEW q, NEW n, ListsOk(k, q, n), k.inflight # <<>>, k.id \in Id,
           NEW r, r = Head(k.inflight), k[r.list] # <<>>,
           NEW B, BackFacts(k, B), NEW A, OffFacts(B, r.list, A),
           NEW u, u = [wr EXCEPT ![k.id] = Append(@, r.buf)]
    PROVE  Wired(A, u, bf, f)
PROOF
    <1>1. /\ Sub(k, B) /\ (\A b : Has(B, b) <=> Has(k, b)) /\ r \in Req
          /\ Flying(k, r.buf) /\ (\A l \in Lists : B[l] = k[l]) /\ ListsOk(B, q, n)
        BY BackSub
    <1>2. r.list \in Lists /\ r.buf \in 1 .. MaxBuf
        BY <1>1 DEF Req
    <1>3. B \in SlotType /\ A \in SlotType /\ B[r.list] = k[r.list]
        BY <1>1, <1>2 DEF BackFacts, OffFacts
    <1>4. Sub(B, A) /\ ~Has(A, Head(k[r.list]).buf)
        BY <1>1, <1>2, <1>3, OffSub
    <1>5. Sub(k, A)
        BY <1>1, <1>4, SubTrans
    <1>6. /\ A.id = k.id /\ A.protocol = k.protocol /\ A.type = k.type
          /\ A.inflight = Tail(k.inflight)
        BY DEF BackFacts, OffFacts
    <1>7. ~Dead(k) /\ k.type # "INVALID" /\ k.type # "RESERVE"
        BY DEF SlotInv, Dead, Fresh
    <1>8. A.id # 0 /\ k.id # 0
        BY <1>6, SocketAssumption DEF Id
    <1>. SUFFICES ASSUME "wb_list" \notin f, k.protocol = "TCP"
                  PROVE  WireOk(k.id, u[k.id], bf) /\ DataOk(A, u[k.id], bf)
        BY <1>6, <1>8 DEF Wired
    <1>9. WireOk(k.id, wr[k.id], bf) /\ DataOk(k, wr[k.id], bf)
        BY <1>7, <1>8 DEF Wired
    <1>10. FlightOk(k, r, wr[k.id], bf)
        BY <1>9 DEF DataOk
    <1>11. Pushed(wr[k.id], r.buf, u[k.id])
        <2>1. wr[k.id] \in Seq(1 .. MaxBuf) /\ u[k.id] = Append(wr[k.id], r.buf)
            OBVIOUS
        <2>. QED
            BY <1>2, <2>1, AppendPushed
    <1>12. WireOk(k.id, u[k.id], bf)
        BY <1>9, <1>10, <1>11, WireAppended DEF FlightOk
    <1>13. A.inflight = <<>>
        <2>1. k.inflight \in Seq(Req) /\ k.write \in BOOLEAN
            BY DEF SlotType
        <2>2. Len(k.inflight) = IF k.write THEN 1 ELSE 0
            BY DEF SlotInv
        <2>. QED
            BY <1>6, <2>1, <2>2, OneTail
    <1>14. /\ A.high = k.high \/ (k.high # <<>> /\ A.high = Tail(k.high))
           /\ A.low = k.low \/ (k.low # <<>> /\ A.low = Tail(k.low))
        BY <1>2 DEF BackFacts, OffFacts, Lists
    <1>15. DataOk(A, u[k.id], bf)
        BY <1>1, <1>3, <1>4, <1>5, <1>6, <1>9, <1>10, <1>11, <1>13, <1>14, DataOff
    <1>. QED
        BY <1>12, <1>15

\* More buffers have been sent.
LEMMA WiredMore ==
    ASSUME NEW k \in SlotType, NEW wr \in [Id -> Seq(1 .. MaxBuf)], NEW bf, NEW bg, NEW f,
           Wired(k, wr, bf, f), k.id = 0 \/ k.id \in Id, NEW n \in Nat,
           \A b \in 1 .. MaxBuf : b <= n => bg[b] = bf[b],
           NEW q, ListsOk(k, q, n), WirePast(wr, q, n)
    PROVE  Wired(k, wr, bg, f)
PROOF
    <1>1. \A b \in 1 .. MaxBuf : Has(k, b) \/ Flying(k, b) => bg[b] = bf[b]
        BY DEF ListsOk, Past
    <1>. SUFFICES ASSUME k.id \in Id, WireOk(k.id, wr[k.id], bf)
                  PROVE  /\ WireOk(k.id, wr[k.id], bg)
                         /\ DataOk(k, wr[k.id], bf) => DataOk(k, wr[k.id], bg)
        BY DEF Wired
    <1> DEFINE w == wr[k.id]
    <1>6. w \in Seq(1 .. MaxBuf)
        OBVIOUS
    <1>. HIDE DEF w
    <1>7. \A i \in 1 .. Len(w) : w[i] \in 1 .. MaxBuf
        BY <1>6, SeqAt
    <1>2. \A i \in 1 .. Len(w) : bg[w[i]] = bf[w[i]]
        <2>1. \A i \in 1 .. Len(w) : w[i] <= n
            BY DEF WirePast, Past, w
        <2>. QED
            BY <1>7, <2>1
    <1>3. WireOk(k.id, w, bf)
        BY DEF w
    <1>4. WireOk(k.id, w, bg)
        BY <1>2, <1>3 DEF WireOk, IsD
    <1>5. ASSUME DataOk(k, w, bf) PROVE DataOk(k, w, bg)
        <2>1. \A i \in 1 .. Len(k.high) : bg[k.high[i].buf] = bf[k.high[i].buf]
            BY <1>1, HasBuf DEF Has, In
        <2>2. \A i \in 1 .. Len(k.low) : bg[k.low[i].buf] = bf[k.low[i].buf]
            BY <1>1, HasBuf DEF Has, In
        <2>3. ASSUME k.inflight # <<>> PROVE FlightOk(k, Head(k.inflight), w, bg)
            <3>1. k.inflight \in Seq(Req)
                BY DEF SlotType
            <3>2. 1 \in 1 .. Len(k.inflight) /\ k.inflight[1] = Head(k.inflight) /\ Head(k.inflight) \in Req
                BY <2>3, <3>1
            <3>3. bg[Head(k.inflight).buf] = bf[Head(k.inflight).buf]
                BY <1>1, <3>2 DEF Flying, Req
            <3>4. FlightOk(k, Head(k.inflight), w, bf)
                BY <1>5, <2>3 DEF DataOk
            <3>. QED
                BY <1>2, <2>1, <3>3, <3>4 DEF FlightOk, IsD
        <2>4. \A b \in 1 .. MaxBuf : Has(k, b) => bg[b].id = k.id /\ ~OnWire(w, b)
            BY <1>1, <1>5 DEF DataOk
        <2>. QED
            BY <1>2, <1>5, <2>1, <2>2, <2>3, <2>4 DEF DataOk, IsD
    <1>. QED
        BY <1>4, <1>5 DEF w

-----------------------------------------------------------------------------
(* WireInv, for each class.                                                *)

\* Nothing has been written for the ids that have a socket still to come.
SilentIds == \A id \in Id : Unopened(id, alloc_id, opening, cmd_queue) => wire[id] = <<>>

LEMMA SilentKept == ASSUME WireInv, Shrinks, wire' = wire PROVE SilentIds'
PROOF
    BY DEF WireInv, Shrinks, SilentIds

LEMMA WireSlots ==
    ASSUME SilentIds', \A t \in Slot : Wired(sock'[t], wire', bufs', fault') PROVE WireInv'
PROOF
    BY DEF WireInv, SilentIds

\* A slot that is left alone.
LEMMA WiredSame ==
    ASSUME NEW k \in SlotType, NEW wr, NEW bf, NEW f, NEW g, f \subseteq g, Wired(k, wr, bf, f)
    PROVE  Wired(k, wr, bf, g)
PROOF
    BY DEF Wired

LEMMA WireClears == ASSUME TypeOK, WireInv, NEW C, Clears(C) PROVE WireInv'
PROOF
    <1>1. wire' = wire /\ bufs' = bufs /\ fault \subseteq fault' /\ Shrinks
        BY DEF Clears, Steps
    <1>2. SilentIds'
        BY <1>1, SilentKept
    <1>3. \A t \in Slot : Wired(sock'[t], wire', bufs', fault')
        <2>. SUFFICES ASSUME NEW t \in Slot PROVE Wired(sock'[t], wire, bufs, fault')
            BY <1>1
        <2>1. sock[t] \in SlotType /\ Wired(sock[t], wire, bufs, fault)
            BY DEF TypeOK, WireInv
        <2>2. CASE t \in C
            BY <1>1, <2>1, <2>2, WiredEmptied DEF Clears
        <2>3. CASE t \notin C
            BY <1>1, <2>1, <2>3, WiredGoes DEF Clears
        <2>. QED
            BY <2>2, <2>3
    <1>. QED
        BY <1>2, <1>3, WireSlots

LEMMA WireMakes == ASSUME TypeOK, WireInv, NEW s, NEW id, Makes(s, id) PROVE WireInv'
PROOF
    <1>1. /\ wire' = wire /\ bufs' = bufs /\ fault \subseteq fault' /\ Shrinks /\ s \in Slot
          /\ \A t \in Slot : t # s => sock'[t] = sock[t]
          /\ id \in Id /\ Unopened(id, alloc_id, opening, cmd_queue)
          /\ sock'[s].id = id /\ sock'[s].inflight = <<>>
          /\ "wb_list" \notin fault' => sock'[s].high = <<>> /\ sock'[s].low = <<>>
        BY DEF Makes, Steps
    <1>2. SilentIds'
        BY <1>1, SilentKept
    <1>3. wire[id] = <<>> /\ id # 0
        BY <1>1, SocketAssumption DEF WireInv, Id
    <1>4. Wired(sock'[s], wire, bufs, fault')
        BY <1>1, <1>3, WiredNew
    <1>5. \A t \in Slot : t # s => Wired(sock[t], wire, bufs, fault')
        BY <1>1, WiredSame DEF TypeOK, WireInv
    <1>6. \A t \in Slot : Wired(sock'[t], wire', bufs', fault')
        BY <1>1, <1>4, <1>5
    <1>. QED
        BY <1>2, <1>6, WireSlots

LEMMA WireDrop == ASSUME TypeOK, WireInv, NEW c, Drop(c) PROVE WireInv'
PROOF
    <1>1. wire' = wire /\ bufs' = bufs /\ fault \subseteq fault' /\ Shrinks /\ sock' = sock
        BY DEF Drop, TakesSend, Steps
    <1>2. SilentIds'
        BY <1>1, SilentKept
    <1>3. \A t \in Slot : Wired(sock[t], wire, bufs, fault')
        BY <1>1, WiredSame DEF TypeOK, WireInv
    <1>. QED
        BY <1>1, <1>2, <1>3, WireSlots

LEMMA FlyingBuf == ASSUME NEW k \in SlotType, NEW b, Flying(k, b) PROVE b \in 1 .. MaxBuf
PROOF
    <1>1. k.inflight \in Seq(Req)
        BY DEF SlotType
    <1>2. \A i \in 1 .. Len(k.inflight) : k.inflight[i] \in Req
        BY <1>1
    <1>. QED
        BY <1>2 DEF Flying, Req

LEMMA WireAdds ==
    ASSUME TypeOK, BufInv, WireInv, NEW s, NEW c, NEW l, NEW ok, Adds(s, c, l, ok)
    PROVE  WireInv'
PROOF
    <1>1. /\ wire' = wire /\ bufs' = bufs /\ fault \subseteq fault' /\ Shrinks /\ s \in Slot
          /\ \A t \in Slot : t # s => sock'[t] = sock[t]
          /\ TakesSend(c) /\ l \in Lists /\ sock[s].id = c.id /\ (l = "low" => c.cmd = "P")
        BY DEF Adds, TakesSend, Steps
    <1>2. PICK A : AppendFacts(sock[s], l, ItemOf(c.buf, ok), A) /\ Goes(A, sock'[s])
        BY DEF Adds
    <1> DEFINE k == sock[s]
    <1>3. /\ c.buf \in 1 .. MaxBuf /\ bufs[c.buf] = [id |-> c.id, cmd |-> c.cmd]
          /\ \A b, n : Past(b, cmd_queue, n) => b < c.buf
        BY <1>1, TakenBuf
    <1>4. k \in SlotType /\ Wired(k, wire, bufs, fault) /\ ListsOk(k, cmd_queue, Len(bufs))
        BY <1>1 DEF TypeOK, WireInv, BufInv
    <1>5. c.id \in Id
        <2>1. cmd_queue \in Seq(Cmd) /\ 1 \in 1 .. Len(cmd_queue) /\ c = cmd_queue[1] /\ IsSend(c)
            BY <1>1 DEF TypeOK, TakesSend, Shifted
        <2>2. c \in Cmd
            BY <2>1
        <2>. QED
            BY <2>1, <2>2, CmdFields DEF IsSend, Sends
    <1>6. k.id = c.id /\ AppendFacts(k, l, ItemOf(c.buf, ok), A)
        BY <1>1, <1>2
    <1>. HIDE DEF k
    <1>7. Before(k, wire[k.id], c.buf)
        <2>1. \A x : Has(k, x) => x < c.buf
            BY <1>3, <1>4, HasBuf DEF ListsOk
        <2>2. \A x : Flying(k, x) => x < c.buf
            BY <1>3, <1>4, FlyingBuf DEF ListsOk
        <2>3. \A i \in 1 .. Len(wire[k.id]) : wire[k.id][i] < c.buf
            BY <1>3, <1>5, <1>6 DEF BufInv
        <2>. QED
            BY <2>1, <2>2, <2>3 DEF Before
    <1>8. bufs[c.buf].id = k.id /\ (l = "low" => ~IsD(bufs, c.buf))
        BY <1>1, <1>3, <1>6 DEF IsD
    <1>9. Wired(A, wire, bufs, fault)
        BY <1>1, <1>3, <1>4, <1>6, <1>7, <1>8, WiredAdded
    <1>10. Wired(sock'[s], wire, bufs, fault')
        BY <1>1, <1>2, <1>9, WiredGoes DEF AppendFacts
    <1>11. \A t \in Slot : t # s => Wired(sock[t], wire, bufs, fault')
        BY <1>1, WiredSame DEF TypeOK, WireInv
    <1>12. \A t \in Slot : Wired(sock'[t], wire', bufs', fault')
        BY <1>1, <1>10, <1>11
    <1>13. SilentIds'
        BY <1>1, SilentKept
    <1>. QED
        BY <1>12, <1>13, WireSlots

\* A socket with a handle is one whose id has been opened; and no other slot has the id.
LEMMA WireWrote == ASSUME SockInv, BufInv, WireInv, NEW s, Wrote(s) PROVE WireInv'
PROOF
    <1>0. TypeOK /\ SlotsInv
        BY DEF SockInv
    <1> DEFINE k == sock[s]
               r == Head(k.inflight)
    <1>1. /\ bufs' = bufs /\ fault \subseteq fault' /\ Shrinks /\ s \in Slot
          /\ \A t \in Slot : t # s => sock'[t] = sock[t]
          /\ k.inflight # <<>> /\ k[r.list] # <<>>
          /\ wire' = [wire EXCEPT ![k.id] = Append(@, r.buf)]
        BY DEF Wrote, Steps
    <1>2. PICK B, A : BackFacts(k, B) /\ OffFacts(B, r.list, A) /\ Goes(A, sock'[s])
        BY DEF Wrote
    <1>3. /\ k \in SlotType /\ Wired(k, wire, bufs, fault) /\ ListsOk(k, cmd_queue, Len(bufs))
          /\ SlotInv(k, fault) /\ wire \in [Id -> Seq(1 .. MaxBuf)]
        BY <1>0, <1>1 DEF TypeOK, WireInv, BufInv, SlotsInv
    <1>4. ~Dead(k) /\ k.id # 0
        BY <1>1, <1>3 DEF SlotInv, Dead, Fresh, Wired
    <1>5. /\ k.id \in Id /\ ~Unopened(k.id, alloc_id, opening, cmd_queue)
          /\ \A t \in Slot : t # s => sock[t].id # k.id
        BY <1>1, <1>4, OpenedId
    <1>. HIDE DEF k
    <1>6. Wired(A, wire', bufs, fault)
        BY <1>1, <1>2, <1>3, <1>5, WiredWrote
    <1>7. Wired(sock'[s], wire', bufs, fault')
        BY <1>1, <1>2, <1>6, WiredGoes DEF OffFacts
    <1>8. \A d \in Id : d # k.id => wire'[d] = wire[d]
        BY <1>1, <1>3
    <1>9. \A t \in Slot : t # s => Wired(sock[t], wire', bufs, fault')
        <2>. SUFFICES ASSUME NEW t \in Slot, t # s PROVE Wired(sock[t], wire', bufs, fault')
            OBVIOUS
        <2>1. Wired(sock[t], wire, bufs, fault')
            BY <1>0, <1>1, WiredSame DEF TypeOK, WireInv
        <2>2. sock[t].id # k.id
            BY <1>5
        <2>3. wire'[sock[t].id] = wire[sock[t].id] \/ sock[t].id = 0
            <3>1. sock[t].id = 0 \/ sock[t].id \in 1 .. alloc_id
                BY DEF SockInv, IdsInv
            <3>2. alloc_id \in Nat /\ use.ids \in 0 .. MaxId /\ alloc_id <= use.ids /\ MaxId \in Nat
                BY <1>0, SocketAssumption DEF TypeOK
            <3>3. \A x \in 1 .. alloc_id : x \in Id
                BY <3>2 DEF Id
            <3>. QED
                BY <1>8, <2>2, <3>1, <3>3
        <2>. QED
            BY <2>1, <2>3 DEF Wired
    <1>10. \A t \in Slot : Wired(sock'[t], wire', bufs', fault')
        BY <1>1, <1>7, <1>9
    <1>11. SilentIds'
        <2>. SUFFICES ASSUME NEW d \in Id, Unopened(d, alloc_id', opening', cmd_queue') PROVE wire'[d] = <<>>
            BY DEF SilentIds
        <2>1. Unopened(d, alloc_id, opening, cmd_queue)
            BY <1>1 DEF Shrinks
        <2>2. wire[d] = <<>>
            BY <2>1 DEF WireInv
        <2>. QED
            BY <1>5, <1>8, <2>1, <2>2
    <1>. QED
        BY <1>10, <1>11, WireSlots

LEMMA WireGiven ==
    ASSUME SockInv, BufInv, WireInv, NEW id \in Id, NEW k, NEW c, Given(id, k, c) PROVE WireInv'
PROOF
    <1>0. TypeOK /\ IdsInv
        BY DEF SockInv
    <1>1. /\ bufs' = Append(bufs, [id |-> id, cmd |-> k]) /\ k \in Sends /\ c.cmd = k
          /\ UNCHANGED <<sock, alloc_id, opening, wire, fault>> /\ c \in Cmd
          /\ cmd_queue' = Append(cmd_queue, c) \/ cmd_queue' = cmd_queue
        BY DEF Given
    <1>2. bufs \in Seq([id : Id, cmd : Sends]) /\ cmd_queue \in Seq(Cmd)
        BY <1>0 DEF TypeOK
    <1>3. \A i \in 1 .. Len(cmd_queue') : IsOpen(cmd_queue'[i]) =>
             i \in 1 .. Len(cmd_queue) /\ cmd_queue'[i] = cmd_queue[i]
        <2>1. ~IsOpen(c)
            BY <1>1 DEF IsOpen, Opens, Sends
        <2>2. cmd_queue' = cmd_queue \/ Pushed(cmd_queue, c, cmd_queue')
            BY <1>1, <1>2, AppendPushed
        <2>. QED
            BY <2>1, <2>2 DEF Pushed
    <1>4. Shrinks
        BY <1>1, <1>3 DEF Shrinks, Unopened
    <1>5. SilentIds'
        BY <1>1, <1>4, SilentKept
    <1>6. \A b \in 1 .. MaxBuf : b <= Len(bufs) => bufs'[b] = bufs[b]
        <2>1. [id |-> id, cmd |-> k] \in [id : Id, cmd : Sends]
            BY <1>1
        <2>2. \A b \in 1 .. Len(bufs) : bufs'[b] = bufs[b]
            BY <1>1, <1>2, <2>1
        <2>3. Len(bufs) \in Nat /\ MaxBuf \in Nat
            BY <1>2, SocketAssumption
        <2>4. \A b \in 1 .. MaxBuf : b <= Len(bufs) => b \in 1 .. Len(bufs)
            BY <2>3
        <2>. QED
            BY <2>2, <2>4
    <1>7. \A t \in Slot : Wired(sock[t], wire, bufs', fault)
        <2>. SUFFICES ASSUME NEW t \in Slot PROVE Wired(sock[t], wire, bufs', fault)
            OBVIOUS
        <2>1. sock[t].id = 0 \/ sock[t].id \in Id
            <3>1. sock[t].id = 0 \/ sock[t].id \in 1 .. alloc_id
                BY <1>0 DEF IdsInv
            <3>2. alloc_id \in Nat /\ use.ids \in 0 .. MaxId /\ alloc_id <= use.ids /\ MaxId \in Nat
                BY <1>0, SocketAssumption DEF TypeOK
            <3>3. \A x \in 1 .. alloc_id : x \in Id
                BY <3>2 DEF Id
            <3>. QED
                BY <3>1, <3>3
        <2>2. /\ sock[t] \in SlotType /\ wire \in [Id -> Seq(1 .. MaxBuf)]
              /\ Wired(sock[t], wire, bufs, fault) /\ Len(bufs) \in Nat
              /\ ListsOk(sock[t], cmd_queue, Len(bufs)) /\ WirePast(wire, cmd_queue, Len(bufs))
            BY <1>0, <1>2 DEF TypeOK, WireInv, BufInv, WirePast
        <2>. QED
            BY <1>6, <2>1, <2>2, WiredMore
    <1>. QED
        BY <1>1, <1>5, <1>7, WireSlots

-----------------------------------------------------------------------------
(* The steps, by class.                                                    *)

DataInv == BufInv /\ WireInv

LEMMA ByClears ==
    ASSUME SockInv, DataInv, TypeOK', NEW C, Clears(C) PROVE DataInv'
PROOF
    BY BufClears, WireClears DEF DataInv, SockInv

LEMMA ByMakes ==
    ASSUME SockInv, DataInv, TypeOK', NEW s, NEW id, Makes(s, id) PROVE DataInv'
PROOF
    BY BufMakes, WireMakes DEF DataInv, SockInv

LEMMA ByDrop ==
    ASSUME SockInv, DataInv, TypeOK', NEW c, Drop(c) PROVE DataInv'
PROOF
    BY BufDrop, WireDrop DEF DataInv, SockInv

LEMMA ByAdds ==
    ASSUME SockInv, DataInv, TypeOK', NEW s, NEW c, NEW l, NEW ok, Adds(s, c, l, ok) PROVE DataInv'
PROOF
    BY BufAdds, WireAdds DEF DataInv, SockInv

LEMMA ByWrote ==
    ASSUME SockInv, DataInv, TypeOK', NEW s, Wrote(s) PROVE DataInv'
PROOF
    BY BufWrote, WireWrote DEF DataInv, SockInv

LEMMA BySend ==
    ASSUME SockInv, DataInv, TypeOK', NEW id \in Known, Sending(id) PROVE DataInv'
PROOF
    <1>1. PICK k, c : Given(id, k, c)
        BY SendGiven DEF SockInv
    <1>2. id \in Id
        BY KnownId DEF SockInv
    <1>. QED
        BY <1>1, <1>2, BufGiven, WireGiven DEF DataInv, SockInv

LEMMA GoesSame == ASSUME NEW k PROVE Goes(k, k)
PROOF
    BY DEF Goes

\* Steps that free nothing and change at most one slot.
LEMMA KeptStep ==
    ASSUME Steps, UNCHANGED <<sock, freed, wire>> PROVE Clears({})
PROOF
    BY GoesSame DEF Clears

LEMMA GoesStep ==
    ASSUME TypeOK, Steps, UNCHANGED <<freed, wire>>, NEW s \in Slot, NEW m, Put(s, m), Goes(sock[s], m)
    PROVE  Clears({})
PROOF
    <1>1. sock'[s] = m /\ \A t \in Slot : t # s => sock'[t] = sock[t]
        BY PutSlot
    <1>. QED
        BY <1>1, GoesSame DEF Clears

LEMMA BufsIn == ASSUME NEW L \in Seq(Item), NEW b PROVE b \in Bufs(L) <=> In(L, b)
PROOF
    BY DEF Bufs, In

LEMMA FreesHas ==
    ASSUME NEW k \in SlotType, k.type # "INVALID", NEW b PROVE b \in ForceFrees(k) <=> Has(k, b)
PROOF
    <1>1. k.high \in Seq(Item) /\ k.low \in Seq(Item)
        BY DEF SlotType
    <1>. QED
        BY <1>1, BufsIn DEF ForceFrees, Has

\* A step that clears one slot.
LEMMA ClearStep ==
    ASSUME TypeOK, Steps, wire' = wire, NEW s \in Slot, NEW m, Put(s, m), Emptied(sock[s], m),
           sock[s].type # "INVALID", Free(ForceFrees(sock[s]))
    PROVE  Clears({s})
PROOF
    <1>1. sock'[s] = m /\ \A t \in Slot : t # s => sock'[t] = sock[t]
        BY PutSlot
    <1>2. \A b \in 1 .. MaxBuf : freed'[b] = IF Has(sock[s], b) THEN freed[b] + 1 ELSE freed[b]
        BY FreesHas DEF Free, TypeOK
    <1>. QED
        BY <1>1, <1>2, GoesSame DEF Clears

LEMMA ForceEmptied ==
    ASSUME NEW k \in SlotType, k.type # "INVALID" PROVE Emptied(k, force_close(k))
PROOF
    <1>1. ForceFacts(k, force_close(k))
        BY ForceFields
    <1>. QED
        BY <1>1 DEF ForceFacts, Emptied, Dead, Fresh

\* The commands: the first one is taken.
LEMMA TakeSteps ==
    ASSUME SockInv, NEW c, NEW ret, Take(c, ret), fault \subseteq fault'
    PROVE  /\ Steps /\ cmd_queue # <<>> /\ c = cmd_queue[1] /\ Shifted(cmd_queue, cmd_queue')
           /\ IsOpen(c) => Unopened(c.id, alloc_id, opening, cmd_queue)
PROOF
    <1>1. /\ cmd_queue # <<>> /\ c = Head(cmd_queue) /\ cmd_queue' = Tail(cmd_queue)
          /\ UNCHANGED <<alloc_id, opening, bufs>>
        BY DEF Take, calls
    <1>2. cmd_queue \in Seq(Cmd)
        BY DEF SockInv, TypeOK
    <1>3. Shifted(cmd_queue, cmd_queue') /\ c = cmd_queue[1]
        BY <1>1, <1>2, TailShifted
    <1>4. Later(cmd_queue, cmd_queue')
        BY <1>3, LaterShifted
    <1>5. Shrinks
        BY <1>1, <1>3 DEF Shrinks, Unopened, Shifted
    <1>6. IsOpen(c) => Unopened(c.id, alloc_id, opening, cmd_queue)
        BY <1>3 DEF Unopened, Shifted
    <1>. QED
        BY <1>1, <1>3, <1>4, <1>5, <1>6 DEF Steps

\* The callbacks, and what else leaves the queue alone.
LEMMA QuietSteps ==
    ASSUME SockInv, UNCHANGED <<cmd_queue, bufs, opening>>, fault \subseteq fault',
           alloc_id' \in Nat, alloc_id <= alloc_id'
    PROVE  Steps
PROOF
    <1>1. Later(cmd_queue, cmd_queue')
        BY LaterSame DEF SockInv, TypeOK
    <1>2. alloc_id \in Nat
        BY DEF SockInv, TypeOK
    <1>3. \A id \in Id : id > alloc_id' => id > alloc_id
        BY <1>2, SocketAssumption DEF Id
    <1>4. Shrinks
        BY <1>3 DEF Shrinks, Unopened
    <1>. QED
        BY <1>1, <1>4 DEF Steps

LEMMA CallbackSteps ==
    ASSUME SockInv, Callback, alloc_id' = alloc_id, fault \subseteq fault' PROVE Steps
PROOF
    <1>1. UNCHANGED <<cmd_queue, bufs, opening>>
        BY DEF Callback
    <1>2. alloc_id' \in Nat /\ alloc_id <= alloc_id'
        BY DEF SockInv, TypeOK
    <1>. QED
        BY <1>1, <1>2, QuietSteps

-----------------------------------------------------------------------------
(* The steps of the API.                                                   *)

LEMMA DataReserve ==
    ASSUME SockInv, DataInv, TypeOK', NEW kind \in Opens, ApiReserve(kind) PROVE DataInv'
PROOF
    <1>0. TypeOK
        BY DEF SockInv
    <1>1. opening = NoCall /\ UNCHANGED <<cmd_queue, bufs, freed, wire, fault>>
        BY DEF ApiReserve
    <1>2. CASE /\ alloc_id' = alloc_id + MAX_SOCKET /\ UNCHANGED <<sock, opening>>
        <2>1. alloc_id' \in Nat /\ alloc_id <= alloc_id'
            BY <1>0, <1>2, SocketAssumption DEF TypeOK
        <2>2. Steps
            BY <1>1, <1>2, <2>1, QuietSteps
        <2>. QED
            BY <1>1, <1>2, <2>2, KeptStep, ByClears
    <1>3. ASSUME NEW n \in 1 .. MAX_SOCKET, reserve_id(n), alloc_id' = alloc_id + n,
                 opening' = [kind |-> kind, id |-> alloc_id + n],
                 sock' = [sock EXCEPT ![HASH_ID(alloc_id + n)].type = "RESERVE"]
          PROVE  DataInv'
        <2> DEFINE id == alloc_id + n
                   s == HASH_ID(id)
                   m == [sock[s] EXCEPT !.type = "RESERVE"]
        <2>1. /\ id \in Id /\ id \in Nat /\ alloc_id < id /\ s \in Slot
              /\ sock[s].type = "INVALID" /\ alloc_id \in Nat
            BY <1>0, <1>3, ReserveId DEF TypeOK
        <2>2. sock[s] \in SlotType /\ SlotInv(sock[s], fault)
            BY <2>1 DEF TypeOK, SlotsInv, SockInv
        <2>3. TypedFacts(sock[s], "RESERVE", m)
            BY <2>2, TypedFields DEF Types
        <2>4. Fresh(m)
            BY <2>1, <2>2, <2>3, ReserveInv
        <2>5. Put(s, m)
            BY <1>3 DEF Put
        <2>6. alloc_id' = id /\ opening'.id = id
            BY <1>3
        <2>. HIDE DEF m, s, id
        <2>7. Goes(sock[s], m)
            BY <2>3, <2>4 DEF TypedFacts, Goes, Dead
        <2>8. \A d \in Id : d > id => d > alloc_id
            BY <2>1, SocketAssumption DEF Id
        <2>9. Shrinks
            BY <1>1, <2>1, <2>6, <2>8 DEF Shrinks, Unopened
        <2>10. Later(cmd_queue, cmd_queue')
            BY <1>0, <1>1, LaterSame DEF TypeOK
        <2>11. Steps
            BY <1>1, <2>9, <2>10 DEF Steps
        <2>12. Clears({})
            BY <1>0, <1>1, <2>1, <2>5, <2>7, <2>11, GoesStep
        <2>. QED
            BY <2>12, ByClears
    <1>. QED
        BY <1>2, <1>3 DEF ApiReserve

LEMMA ByPushes ==
    ASSUME SockInv, DataInv, NEW c \in Cmd, cmd_queue' = Append(cmd_queue, c), ~IsSend(c), ~IsOpen(c),
           UNCHANGED <<sock, alloc_id, opening, bufs, freed, wire, fault>>
    PROVE  DataInv'
PROOF
    <1>1. Pushed(cmd_queue, c, cmd_queue')
        BY AppendPushed DEF SockInv, TypeOK
    <1>2. Pushes(c)
        BY <1>1 DEF Pushes, SameLists
    <1>3. BufInv'
        BY <1>2, BufPushes DEF DataInv, SockInv
    <1>4. Shrinks
        BY <1>1 DEF Shrinks, Unopened, Pushed
    <1>5. SilentIds'
        BY <1>4, SilentKept DEF DataInv
    <1>6. \A t \in Slot : Wired(sock'[t], wire', bufs', fault')
        BY DEF DataInv, WireInv
    <1>. QED
        BY <1>3, <1>5, <1>6, WireSlots DEF DataInv

LEMMA DataCommand ==
    ASSUME SockInv, DataInv, NEW k, NEW c \in Cmd, c.cmd \notin Opens \cup Sends, ApiCommand(k, c)
    PROVE  DataInv'
PROOF
    <1>1. /\ cmd_queue' = Append(cmd_queue, c)
          /\ UNCHANGED <<sock, alloc_id, opening, bufs, freed, wire, fault>>
        BY DEF ApiCommand, send_request
    <1>. QED
        BY <1>1, ByPushes DEF IsSend, IsOpen

LEMMA DataCommands ==
    ASSUME SockInv, DataInv,
           \/ socket_server_exit
           \/ \E id \in Known : \/ socket_server_start(id) \/ socket_server_close(id)
                                \/ socket_server_nodelay(id) \/ socket_server_udp_connect(id)
    PROVE  DataInv'
PROOF
    <1>0. TypeOK
        BY DEF SockInv
    <1>1. CASE socket_server_exit
        <2>1. [cmd |-> "X"] \in Cmd /\ [cmd |-> "X"].cmd = "X" /\ "X" \notin Opens \cup Sends
            BY DEF Cmd, Opens, Sends
        <2>. QED
            BY <1>1, <2>1, DataCommand DEF socket_server_exit
    <1>2. ASSUME NEW id \in Known, NEW k \in {"S", "K", "T"}, ApiCommand(k, [cmd |-> k, id |-> id])
          PROVE  DataInv'
        <2> DEFINE c == [cmd |-> k, id |-> id]
        <2>1. c \in Cmd /\ c.cmd = k /\ k \notin Opens \cup Sends
            BY <1>0, KnownId DEF Cmd, Opens, Sends
        <2>. HIDE DEF c
        <2>2. ApiCommand(k, c)
            BY <1>2 DEF c
        <2>. QED
            BY <2>1, <2>2, DataCommand
    <1>3. ASSUME NEW id \in Known, NEW f \in BOOLEAN,
                 ApiCommand("C", [cmd |-> "C", id |-> id, v4 |-> f])
          PROVE  DataInv'
        <2> DEFINE c == [cmd |-> "C", id |-> id, v4 |-> f]
        <2>1. c \in Cmd /\ c.cmd = "C" /\ "C" \notin Opens \cup Sends
            BY <1>0, KnownId DEF Cmd, Opens, Sends
        <2>. HIDE DEF c
        <2>2. ApiCommand("C", c)
            BY <1>3 DEF c
        <2>. QED
            BY <2>1, <2>2, DataCommand
    <1>8. "S" \in {"S", "K", "T"} /\ "K" \in {"S", "K", "T"} /\ "T" \in {"S", "K", "T"}
        OBVIOUS
    <1>4. ASSUME NEW id \in Known, socket_server_start(id) PROVE DataInv'
        BY <1>2, <1>8, <1>4 DEF socket_server_start
    <1>5. ASSUME NEW id \in Known, socket_server_close(id) PROVE DataInv'
        BY <1>2, <1>8, <1>5 DEF socket_server_close
    <1>6. ASSUME NEW id \in Known, socket_server_nodelay(id) PROVE DataInv'
        BY <1>2, <1>8, <1>6 DEF socket_server_nodelay
    <1>7. ASSUME NEW id \in Known, socket_server_udp_connect(id) PROVE DataInv'
        BY <1>3, <1>7 DEF socket_server_udp_connect
    <1>. QED
        BY <1>1, <1>4, <1>5, <1>6, <1>7

LEMMA DataOpen == ASSUME SockInv, DataInv, TypeOK', ApiOpen PROVE DataInv'
PROOF
    <1>0. TypeOK /\ OpenInv
        BY DEF SockInv
    <1> DEFINE id == opening.id
               s == HASH_ID(id)
               c == [cmd |-> opening.kind, id |-> id]
               m == [sock[s] EXCEPT !.id = id]
    <1>1. /\ opening # NoCall /\ cmd_queue' = Append(cmd_queue, c) /\ opening' = NoCall
          /\ UNCHANGED <<alloc_id, bufs, freed, wire, fault>> /\ Put(s, m)
        BY DEF ApiOpen, send_request, Put
    <1>2. opening.kind \in Opens /\ id \in Id /\ Fresh(sock[s])
        BY <1>0, <1>1 DEF OpenInv, Opening
    <1>3. s \in Slot /\ id \in Nat
        BY <1>2, HashOfId
    <1>4. c \in Cmd /\ IsOpen(c) /\ ~IsSend(c) /\ c.id = id
        BY <1>2 DEF Cmd, Opens, Sends, IsOpen, IsSend
    <1>5. sock[s] \in SlotType
        BY <1>0, <1>3 DEF TypeOK
    <1>6. /\ m.high = sock[s].high /\ m.low = sock[s].low /\ m.inflight = sock[s].inflight
          /\ m.type = sock[s].type /\ m.closing = sock[s].closing /\ m.pending = sock[s].pending
          /\ m.id = id
        BY <1>5 DEF SlotType
    <1>. HIDE DEF m, s, c, id
    <1>7. sock'[s] = m /\ \A t \in Slot : t # s => sock'[t] = sock[t]
        BY <1>0, <1>1, <1>3, PutSlot
    <1>8. Pushed(cmd_queue, c, cmd_queue')
        BY <1>0, <1>1, <1>4, AppendPushed DEF TypeOK
    <1>9. Pushes(c)
        BY <1>1, <1>4, <1>6, <1>7, <1>8 DEF Pushes, SameLists
    <1>10. BufInv'
        BY <1>0, <1>9, BufPushes DEF DataInv
    <1>11. Shrinks
        <2>1. \A i \in 1 .. Len(cmd_queue') : \/ i \in 1 .. Len(cmd_queue) /\ cmd_queue'[i] = cmd_queue[i]
                                              \/ cmd_queue'[i].id = id
            BY <1>4, <1>8 DEF Pushed
        <2>. QED
            BY <1>1, <2>1 DEF Shrinks, Unopened, id
    <1>12. SilentIds'
        BY <1>1, <1>11, SilentKept DEF DataInv
    <1>13. Unopened(id, alloc_id, opening, cmd_queue)
        BY <1>1 DEF Unopened, id
    <1>14. wire[id] = <<>>
        BY <1>2, <1>13 DEF DataInv, WireInv
    <1>15. Dead(m)
        BY <1>2, <1>6 DEF Dead, Fresh
    <1>16. Wired(m, wire, bufs, fault)
        BY <1>6, <1>14, <1>15, WiredDead
    <1>17. \A t \in Slot : Wired(sock[t], wire, bufs, fault)
        BY DEF DataInv, WireInv
    <1>18. \A t \in Slot : Wired(sock'[t], wire', bufs', fault')
        BY <1>1, <1>7, <1>16, <1>17
    <1>. QED
        BY <1>10, <1>12, <1>18, WireSlots DEF DataInv
=============================================================================
