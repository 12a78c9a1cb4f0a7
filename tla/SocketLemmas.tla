---------------------------- MODULE SocketLemmas ----------------------------
(***************************************************************************)
(* Proofs about module SocketServer, for any number of slots, any use of   *)
(* the API and any bounds: the invariant of the slots and the commands,    *)
(* what the operators of the model do to a slot and to the queue, and the  *)
(* invariant of what is reported of an id.                                 *)
(***************************************************************************)
EXTENDS SocketServer

Types == {"INVALID", "RESERVE", "PLISTEN", "LISTEN", "CONNECTING", "CONNECTED", "HALFCLOSE",
          "PACCEPT", "BIND"}
Lists == {"high", "low"}
Item == [buf : 1 .. MaxBuf, ok : BOOLEAN]
Req == [list : Lists, buf : 1 .. MaxBuf]

SlotType ==
    [type : Types, id : Nat, protocol : {"TCP", "UDP"}, high : Seq(Item), low : Seq(Item),
     write : BOOLEAN, address : BOOLEAN, closing : BOOLEAN,
     pending : SUBSET {"connect", "read", "accept"}, inflight : Seq(Req)]

Cmd ==
    [cmd : Opens \cup {"S", "K", "T"}, id : Id] \cup [cmd : {"X"}]
      \cup [cmd : {"C"}, id : Id, v4 : BOOLEAN]
      \cup [cmd : {"D", "P"}, id : Id, buf : 1 .. MaxBuf]
      \cup [cmd : {"A"}, id : Id, buf : 1 .. MaxBuf, v4 : BOOLEAN]

TypeOK ==
    /\ sock \in [Slot -> SlotType]
    /\ alloc_id \in Nat
    /\ alloc_id <= use.ids
    /\ cmd_queue \in Seq(Cmd)
    /\ opening \in [kind : Opens \cup {"none"}, id : 0 .. MaxId]
    /\ use \in [api : SUBSET Kinds, calls : Nat, ids : 0 .. MaxId]
    /\ listener \subseteq Id
    /\ udp \subseteq Id
    /\ bufs \in Seq([id : Id, cmd : Sends])
    /\ Len(bufs) <= MaxBuf
    /\ freed \in [1 .. MaxBuf -> Nat]
    /\ wire \in [Id -> Seq(1 .. MaxBuf)]

-----------------------------------------------------------------------------
(* The operators on a slot.                                                *)

LEMMA OneTail ==
    ASSUME NEW S, NEW q \in Seq(S)
    PROVE  /\ q # <<>> => Len(q) \in Nat \ {0}
           /\ Len(q) = 1 => Tail(q) = <<>>
PROOF
    <1>1. \A p \in Seq(S) : p # <<>> => Len(p) \in Nat \ {0}
        OBVIOUS
    <1>2. ASSUME Len(q) = 1 PROVE Tail(q) = <<>>
        <2>1. Tail(q) \in Seq(S) /\ Len(Tail(q)) = 0
            BY <1>2
        <2>. QED
            BY <1>1, <2>1
    <1>. QED
        BY <1>1, <1>2

LEMMA SeqAt ==
    ASSUME NEW S, NEW q \in Seq(S)
    PROVE  (\A i \in 1 .. Len(q) : q[i] \in S) /\ (q # <<>> => Head(q) \in S)
PROOF
    OBVIOUS

LEMMA HashInSlot == ASSUME NEW id \in Nat PROVE HASH_ID(id) \in Slot
PROOF
    BY SocketAssumption DEF HASH_ID, Slot

LEMMA CmdFields ==
    ASSUME NEW c \in Cmd
    PROVE  /\ c.cmd \in Kinds
           /\ c.cmd # "X" => c.id \in Id
           /\ c.cmd \in Sends => c.buf \in 1 .. MaxBuf
           /\ c.cmd \in {"A", "C"} => c.v4 \in BOOLEAN
PROOF
    BY DEF Cmd, Kinds, Opens, Sends

\* What a write request that libuv takes does to the slot.
ReqOf(k, l) == [list |-> l, buf |-> Head(k[l]).buf]
Sent(k, l) == [k EXCEPT !.write = TRUE, !.inflight = Append(@, ReqOf(k, l))]
LEMMA SendList ==
    ASSUME NEW k, NEW l, NEW r \in send_list(k, l)
    PROVE  \/ r.k = k /\ ~r.fail /\ (Busy(k) \/ k[l] = <<>>)
           \/ r.k = k /\ r.fail
           \/ /\ r.k = Sent(k, l) /\ ~r.fail /\ ~Busy(k) /\ k[l] # <<>>
              /\ Writable(k, Head(k[l]))
PROOF
    BY DEF send_list, Sent, ReqOf

SentFacts(k, l, m) ==
    /\ m \in SlotType
    /\ ReqOf(k, l) \in Req /\ ReqOf(k, l).list = l /\ ReqOf(k, l).buf = Head(k[l]).buf
    /\ m.inflight = Append(k.inflight, ReqOf(k, l)) /\ m.write
    /\ m.type = k.type /\ m.id = k.id /\ m.protocol = k.protocol
    /\ m.high = k.high /\ m.low = k.low /\ m.closing = k.closing /\ m.pending = k.pending

LEMMA SentFields ==
    ASSUME NEW k \in SlotType, NEW l \in Lists, k[l] # <<>>
    PROVE  SentFacts(k, l, Sent(k, l))
PROOF
    <1>1. k[l] \in Seq(Item)
        BY DEF SlotType, Lists
    <1>2. Head(k[l]) \in Item
        BY <1>1
    <1>3. ReqOf(k, l) \in Req /\ ReqOf(k, l).list = l /\ ReqOf(k, l).buf = Head(k[l]).buf
        BY <1>2 DEF Req, Item, ReqOf
    <1>4. Append(k.inflight, ReqOf(k, l)) \in Seq(Req)
        BY <1>3 DEF SlotType
    <1>5. Sent(k, l) \in SlotType
        BY <1>4 DEF Sent, SlotType
    <1>. QED
        BY <1>3, <1>5 DEF SentFacts, Sent, SlotType

LEMMA SendBuffer ==
    ASSUME NEW k \in SlotType, NEW r \in send_buffer(k)
    PROVE  \/ r.k = k /\ ~r.fail /\ (Busy(k) \/ send_buffer_empty(k))
           \/ r.k = k /\ r.fail
           \/ \E l \in Lists :
                 /\ r.k = Sent(k, l) /\ ~r.fail /\ ~Busy(k) /\ k[l] # <<>>
                 /\ Writable(k, Head(k[l]))
                 /\ l = "low" => k.high = <<>>
PROOF
    <1>1. PICK q \in send_list(k, "high") :
             r \in IF q.fail \/ q.k.high # <<>> \/ q.k.low = <<>> THEN {q} ELSE send_list(q.k, "low")
        BY DEF send_buffer
    <1>2. k["high"] = k.high /\ k["low"] = k.low
        OBVIOUS
    <1>3. CASE q.k = k /\ q.fail
        BY <1>1, <1>3
    <1>4. CASE q.k = k /\ ~q.fail /\ (Busy(k) \/ k.high = <<>>)
        <2>1. CASE k.high # <<>> \/ k.low = <<>>
            BY <1>1, <1>4, <2>1 DEF send_buffer_empty
        <2>2. CASE k.high = <<>> /\ k.low # <<>>
            <3>1. r \in send_list(k, "low")
                BY <1>1, <1>4, <2>2
            <3>. QED
                BY <1>2, <2>2, <3>1, SendList DEF Lists
        <2>. QED
            BY <2>1, <2>2
    <1>5. CASE /\ q.k = Sent(k, "high") /\ ~q.fail /\ ~Busy(k) /\ k.high # <<>>
               /\ Writable(k, Head(k.high))
        <2>1. SentFacts(k, "high", Sent(k, "high"))
            BY <1>2, <1>5, SentFields DEF Lists
        <2>2. r = q
            BY <1>1, <1>5, <2>1 DEF SentFacts
        <2>. QED
            BY <1>2, <1>5, <2>2 DEF Lists
    <1>. QED
        BY <1>2, <1>3, <1>4, <1>5, SendList

-----------------------------------------------------------------------------
(* The invariant of a slot, with the faults met so far.                    *)

\* Reserved, and new_fd has not been called for it yet.
Fresh(k) == k.type = "RESERVE" /\ ~k.closing /\ k.pending = {} /\ k.inflight = <<>>
\* A write failed on a list that still has its head, or a list was not empty in new_fd.
WriteFaults == {"uninit", "wb_list", "null"}
SlotInv(k, f) ==
    /\ k.type = "INVALID" => ~k.closing
    /\ k.type \in {"INVALID", "RESERVE"} => k.pending = {} /\ k.inflight = <<>>
    /\ k.write => k.inflight # <<>>
    /\ "connect" \in k.pending => k.type = "CONNECTING" /\ k.inflight = <<>>
    /\ k.protocol = "UDP" => /\ k.pending = {}
                             /\ k.type \in {"INVALID", "RESERVE", "CONNECTED", "HALFCLOSE"}
    /\ k.protocol = "TCP" =>
          /\ Len(k.inflight) = (IF k.write THEN 1 ELSE 0)
          /\ k.inflight # <<>> /\ Head(k.inflight).list = "low" =>
                k.type = "HALFCLOSE" /\ k.high = <<>>
          /\ k.high # <<>> /\ f \cap WriteFaults = {} =>
                k.inflight # <<>> /\ Head(k.inflight).list = "high"
ForceFacts(k, m) ==
    /\ m \in SlotType
    /\ m.type = k.type /\ m.id = k.id /\ m.protocol = k.protocol /\ m.write = k.write
    /\ m.pending = k.pending /\ m.inflight = k.inflight
    /\ k.type \notin {"INVALID", "RESERVE"} => m.closing
    /\ k.type = "RESERVE" => m.closing = k.closing
    /\ k.type = "INVALID" => m = k
    /\ k.type # "INVALID" => m.high = <<>> /\ m.low = <<>>

LEMMA ForceFields == ASSUME NEW k \in SlotType PROVE ForceFacts(k, force_close(k))
PROOF
    <1>1. CASE k.type = "INVALID"
        BY <1>1 DEF force_close, ForceFacts
    <1>2. CASE k.type # "INVALID"
        <2>1. force_close(k) = [k EXCEPT !.high = <<>>, !.low = <<>>,
                                         !.closing = k.closing \/ k.type # "RESERVE"]
            BY <1>2 DEF force_close
        <2>2. (k.closing \/ k.type # "RESERVE") \in BOOLEAN /\ <<>> \in Seq(Item)
            OBVIOUS
        <2>3. force_close(k) \in SlotType
            BY <2>1, <2>2 DEF SlotType
        <2>. QED
            BY <1>2, <2>1, <2>3 DEF SlotType, ForceFacts
    <1>. QED
        BY <1>1, <1>2

NewFacts(k, id, p, m) ==
    /\ m \in SlotType
    /\ m.type = k.type /\ m.id = id /\ m.protocol = p /\ ~m.write /\ ~m.closing
    /\ m.pending = {} /\ m.inflight = <<>> /\ m.high = k.high /\ m.low = k.low

LEMMA NewFields ==
    ASSUME NEW k \in SlotType, NEW id \in Nat, NEW p \in {"TCP", "UDP"}
    PROVE  NewFacts(k, id, p, new_fd(k, id, p))
PROOF
    <1>1. <<>> \in Seq(Req) /\ {} \in SUBSET {"connect", "read", "accept"}
        OBVIOUS
    <1>2. new_fd(k, id, p) \in SlotType
        BY <1>1 DEF new_fd, SlotType
    <1>. QED
        BY <1>2 DEF new_fd, SlotType, NewFacts

ItemOf(b, ok) == [buf |-> b, ok |-> ok]
AppendFacts(k, l, x, m) ==
    /\ m \in SlotType /\ x \in Item
    /\ m.high = IF l = "high" THEN Append(k.high, x) ELSE k.high
    /\ m.low = IF l = "low" THEN Append(k.low, x) ELSE k.low
    /\ m.type = k.type /\ m.id = k.id /\ m.protocol = k.protocol /\ m.write = k.write
    /\ m.closing = k.closing /\ m.pending = k.pending /\ m.inflight = k.inflight

LEMMA AppendFields ==
    ASSUME NEW k \in SlotType, NEW l \in Lists, NEW b \in 1 .. MaxBuf, NEW ok \in BOOLEAN
    PROVE  AppendFacts(k, l, ItemOf(b, ok), append(k, l, b, ok))
PROOF
    <1>1. k[l] \in Seq(Item) /\ ItemOf(b, ok) \in Item
        BY DEF SlotType, Lists, Item, ItemOf
    <1>2. Append(k[l], ItemOf(b, ok)) \in Seq(Item)
        BY <1>1
    <1>3. CASE l = "high"
        <2>1. append(k, l, b, ok) = [k EXCEPT !.high = Append(k.high, ItemOf(b, ok))]
            BY <1>3 DEF append, ItemOf
        <2>2. append(k, l, b, ok) \in SlotType
            BY <1>2, <1>3, <2>1 DEF SlotType
        <2>. QED
            BY <1>1, <1>3, <2>1, <2>2 DEF SlotType, AppendFacts
    <1>4. CASE l = "low"
        <2>1. append(k, l, b, ok) = [k EXCEPT !.low = Append(k.low, ItemOf(b, ok))]
            BY <1>4 DEF append, ItemOf
        <2>2. append(k, l, b, ok) \in SlotType
            BY <1>2, <1>4, <2>1 DEF SlotType
        <2>. QED
            BY <1>1, <1>4, <2>1, <2>2 DEF SlotType, AppendFacts
    <1>. QED
        BY <1>3, <1>4 DEF Lists

\* close_socket with something to send that was not refused.
LEMMA HalfInv ==
    ASSUME NEW k \in SlotType, NEW f, SlotInv(k, f), k.type # "INVALID", ~send_buffer_empty(k),
           NEW r \in send_buffer(k), ~r.fail
    PROVE  LET m == [r.k EXCEPT !.type = "HALFCLOSE"] IN
           m \in SlotType /\ m.id = k.id /\ SlotInv(m, f) /\ ~Fresh(k)
PROOF
    <1> DEFINE m == [r.k EXCEPT !.type = "HALFCLOSE"]
    <1>1. CASE r.k = k /\ Busy(k)
        <2>1. /\ m \in SlotType /\ m.type = "HALFCLOSE" /\ m.protocol = k.protocol
              /\ m.pending = k.pending /\ m.inflight = k.inflight /\ m.write = k.write
              /\ m.high = k.high /\ m.id = k.id
            BY <1>1 DEF SlotType, Types
        <2>2. k.inflight # <<>> /\ k.write /\ k.protocol = "TCP"
            BY <1>1 DEF Busy, SlotInv
        <2>. QED
            BY <2>1, <2>2 DEF SlotInv, Fresh
    <1>2. ASSUME NEW l \in Lists, r.k = Sent(k, l), ~Busy(k), k[l] # <<>>,
                 Writable(k, Head(k[l])), l = "low" => k.high = <<>>
          PROVE  m \in SlotType /\ m.id = k.id /\ SlotInv(m, f) /\ ~Fresh(k)
        <2> DEFINE req == ReqOf(k, l)
        <2>0. /\ r.k \in SlotType /\ r.k.protocol = k.protocol
              /\ r.k.pending = k.pending /\ r.k.inflight = Append(k.inflight, req) /\ r.k.write
              /\ r.k.high = k.high /\ r.k.id = k.id /\ req \in Req /\ req.list = l
            <3>1. SentFacts(k, l, r.k)
                BY <1>2, SentFields
            <3>. QED
                BY <3>1 DEF SentFacts
        <2>1. /\ m \in SlotType /\ m.type = "HALFCLOSE" /\ m.protocol = k.protocol
              /\ m.pending = k.pending /\ m.inflight = Append(k.inflight, req) /\ m.write
              /\ m.high = k.high /\ m.id = k.id
            BY <2>0 DEF SlotType, Types
        <2>2. k.type # "RESERVE" /\ "connect" \notin k.pending
            BY <1>2 DEF Writable
        <2>3. k.protocol = "TCP" => k.inflight = <<>>
            BY <1>2 DEF Busy, SlotInv, SlotType
        <2>4. m.inflight # <<>> /\ (k.protocol = "TCP" => Len(m.inflight) = 1 /\ Head(m.inflight) = req)
            <3>1. k.inflight \in Seq(Req)
                BY DEF SlotType
            <3>. HIDE DEF m, req
            <3>. QED
                BY <2>0, <2>1, <2>3, <3>1
        <2>. QED
            BY <1>2, <2>0, <2>1, <2>2, <2>4 DEF SlotInv, Fresh, Lists
    <1>. QED
        BY <1>1, <1>2, SendBuffer

\* A buffer that is queued on a high list without a request in flight, and sent.
LEMMA StartInv ==
    ASSUME NEW k \in SlotType, NEW f, SlotInv(k, f), k.type # "INVALID", k.protocol = "TCP", ~k.write,
           NEW b \in 1 .. MaxBuf, NEW ok \in BOOLEAN,
           NEW r \in send_buffer(append(k, "high", b, ok))
    PROVE  /\ r.k \in SlotType /\ r.k.id = k.id
           /\ SlotInv(r.k, IF r.fail THEN f \cup {"uninit"} ELSE f)
           /\ Fresh(k) => Fresh(r.k)
PROOF
    <1> DEFINE m == append(k, "high", b, ok)
               g == IF r.fail THEN f \cup {"uninit"} ELSE f
    <1>0. AppendFacts(k, "high", ItemOf(b, ok), m)
        BY AppendFields DEF Lists
    <1>1. /\ m \in SlotType /\ m.type = k.type /\ m.protocol = k.protocol /\ m.write = k.write
          /\ m.closing = k.closing /\ m.pending = k.pending /\ m.inflight = k.inflight
          /\ m.high = Append(k.high, ItemOf(b, ok)) /\ m.id = k.id
        BY <1>0 DEF AppendFacts
    <1>2. m.high # <<>> /\ k.inflight = <<>>
        BY <1>1 DEF SlotType, SlotInv
    <1>3. ~Busy(m) /\ ~send_buffer_empty(m)
        BY <1>1, <1>2 DEF Busy, send_buffer_empty
    <1>. HIDE DEF m
    <1>4. CASE r.k = m /\ r.fail
        <2>1. g \cap WriteFaults # {}
            BY <1>4 DEF WriteFaults
        <2>2. SlotInv(m, g)
            BY <1>1, <1>2, <2>1 DEF SlotInv
        <2>. QED
            BY <1>1, <1>2, <1>4, <2>2 DEF Fresh
    <1>5. ASSUME NEW l \in Lists, r.k = Sent(m, l), ~r.fail, m[l] # <<>>, Writable(m, Head(m[l])),
                 l = "low" => m.high = <<>>
          PROVE  r.k \in SlotType /\ r.k.id = k.id /\ SlotInv(r.k, g) /\ ~Fresh(k)
        <2> DEFINE req == ReqOf(m, l)
        <2>. SentFacts(m, l, r.k)
            BY <1>1, <1>5, SentFields
        <2>0. req \in Req /\ req.list = "high"
            BY <1>2, <1>5 DEF SentFacts, Lists
        <2>1. /\ r.k \in SlotType /\ r.k.type = k.type /\ r.k.protocol = "TCP" /\ r.k.id = k.id
              /\ r.k.pending = k.pending /\ r.k.inflight = Append(k.inflight, req) /\ r.k.write
              /\ r.k.closing = k.closing
            BY <1>1 DEF SentFacts
        <2>2. /\ k.type # "RESERVE" /\ "connect" \notin k.pending /\ ~k.closing
            BY <1>1, <1>5 DEF Writable
        <2>3. Len(r.k.inflight) = 1 /\ r.k.inflight # <<>> /\ Head(r.k.inflight) = req
            BY <1>2, <2>0, <2>1
        <2>. QED
            BY <2>0, <2>1, <2>2, <2>3 DEF SlotInv, Fresh
    <1>. QED
        BY <1>1, <1>3, <1>4, <1>5, SendBuffer DEF m

\* A write request has come back; and the head of the list is taken off it.
Back(k) == [k EXCEPT !.inflight = Tail(@), !.write = FALSE]
Off(k, l) == [k EXCEPT ![l] = Tail(@)]
BackFacts(k, m) ==
    /\ m \in SlotType /\ m.inflight = Tail(k.inflight) /\ ~m.write
    /\ m.type = k.type /\ m.id = k.id /\ m.protocol = k.protocol
    /\ m.high = k.high /\ m.low = k.low /\ m.closing = k.closing /\ m.pending = k.pending

LEMMA BackFields ==
    ASSUME NEW k \in SlotType, k.inflight # <<>> PROVE BackFacts(k, Back(k))
PROOF
    <1>1. k.inflight \in Seq(Req)
        BY DEF SlotType
    <1>2. Tail(k.inflight) \in Seq(Req)
        BY <1>1
    <1>3. Back(k) \in SlotType
        BY <1>2 DEF Back, SlotType
    <1>. QED
        BY <1>3 DEF Back, BackFacts, SlotType

OffFacts(k, l, m) ==
    /\ m \in SlotType
    /\ m.high = IF l = "high" THEN Tail(k.high) ELSE k.high
    /\ m.low = IF l = "low" THEN Tail(k.low) ELSE k.low
    /\ m.type = k.type /\ m.id = k.id /\ m.protocol = k.protocol /\ m.write = k.write
    /\ m.closing = k.closing /\ m.pending = k.pending /\ m.inflight = k.inflight

LEMMA OffFields ==
    ASSUME NEW k \in SlotType, NEW l \in Lists, k[l] # <<>> PROVE OffFacts(k, l, Off(k, l))
PROOF
    <1>1. k[l] \in Seq(Item)
        BY DEF SlotType, Lists
    <1>2. Tail(k[l]) \in Seq(Item)
        BY <1>1
    <1>3. CASE l = "high"
        <2>1. Off(k, l) = [k EXCEPT !.high = Tail(k.high)]
            BY <1>3 DEF Off
        <2>2. Off(k, l) \in SlotType
            BY <1>2, <1>3, <2>1 DEF SlotType
        <2>. QED
            BY <1>3, <2>1, <2>2 DEF SlotType, OffFacts
    <1>4. CASE l = "low"
        <2>1. Off(k, l) = [k EXCEPT !.low = Tail(k.low)]
            BY <1>4 DEF Off
        <2>2. Off(k, l) \in SlotType
            BY <1>2, <1>4, <2>1 DEF SlotType
        <2>. QED
            BY <1>4, <2>1, <2>2 DEF SlotType, OffFacts
    <1>. QED
        BY <1>3, <1>4 DEF Lists

\* The callback of a write, and what it does first.
LEMMA BackInv ==
    ASSUME NEW k \in SlotType, NEW f, SlotInv(k, f), k.inflight # <<>>
    PROVE  /\ Head(k.inflight) \in Req
           /\ k.type \notin {"INVALID", "RESERVE"}
           /\ k.protocol = "TCP" => Back(k).inflight = <<>>
           /\ \A g : /\ f \subseteq g
                     /\ k.protocol = "TCP" => g \cap WriteFaults # {}
                     => SlotInv(Back(k), g)
PROOF
    <1>1. k.inflight \in Seq(Req)
        BY DEF SlotType
    <1>2. Head(k.inflight) \in Req
        BY <1>1
    <1>3. k.type \notin {"INVALID", "RESERVE"} /\ "connect" \notin k.pending
        BY DEF SlotInv
    <1>4. k.protocol = "TCP" => Len(k.inflight) = 1
        BY <1>1, OneTail DEF SlotInv
    <1>5. BackFacts(k, Back(k))
        BY BackFields
    <1>6. k.protocol = "TCP" => Back(k).inflight = <<>>
        BY <1>1, <1>4, <1>5, OneTail DEF BackFacts
    <1>7. ASSUME NEW g, f \subseteq g, k.protocol = "TCP" => g \cap WriteFaults # {}
          PROVE  SlotInv(Back(k), g)
        BY <1>3, <1>5, <1>6, <1>7 DEF BackFacts, SlotInv
    <1>. QED
        BY <1>2, <1>3, <1>6, <1>7

-----------------------------------------------------------------------------
(* The invariant of the slots and of the commands.                         *)

SlotsInv == \A s \in Slot : SlotInv(sock[s], fault)
\* An id is in the slot of its hash.
IdsInv ==
    \A s \in Slot :
        sock[s].id = 0 \/ (sock[s].id \in 1 .. alloc_id /\ HASH_ID(sock[s].id) = s)
IsOpen(c) == c.cmd \in Opens
HasId(c) == c.cmd # "X"
\* The slot of a socket that waits for the loop to open it is reserved for this
\* socket, and no command for it comes before the one that opens it.
Waiting(q, k) ==
    \A i \in 1 .. Len(q) : IsOpen(q[i]) => Fresh(k[HASH_ID(q[i].id)]) /\ k[HASH_ID(q[i].id)].id = q[i].id
WaitApart(q) ==
    \A i, j \in 1 .. Len(q) : i # j /\ IsOpen(q[i]) /\ IsOpen(q[j]) => HASH_ID(q[i].id) # HASH_ID(q[j].id)
WaitFirst(q) ==
    \A i, j \in 1 .. Len(q) : i < j /\ HasId(q[i]) /\ IsOpen(q[j]) => q[i].id # q[j].id
IdsOf(q, n) ==
    \A i \in 1 .. Len(q) : HasId(q[i]) => q[i].id <= n
Opening(q, o, n, k) ==
    o # NoCall =>
        /\ o.kind \in Opens /\ o.id \in Id /\ o.id <= n
        /\ Fresh(k[HASH_ID(o.id)])
        /\ \A i \in 1 .. Len(q) : HasId(q[i]) => q[i].id # o.id
        /\ \A i \in 1 .. Len(q) : IsOpen(q[i]) => HASH_ID(q[i].id) # HASH_ID(o.id)
OpenInv ==
    /\ Waiting(cmd_queue, sock)
    /\ WaitApart(cmd_queue)
    /\ WaitFirst(cmd_queue)
    /\ IdsOf(cmd_queue, alloc_id)
    /\ Opening(cmd_queue, opening, alloc_id, sock)
SockInv ==
    /\ TypeOK
    /\ SlotsInv
    /\ IdsInv
    /\ OpenInv
    /\ "new_fd" \notin fault

-----------------------------------------------------------------------------
LEMMA HashOfId == ASSUME NEW id \in Id PROVE id \in Nat /\ HASH_ID(id) \in Slot
PROOF
    BY HashInSlot, SocketAssumption DEF Id

LEMMA CmdAt ==
    ASSUME NEW q \in Seq(Cmd), NEW i \in 1 .. Len(q)
    PROVE  /\ q[i] \in Cmd /\ q[i].cmd \in Kinds
           /\ HasId(q[i]) => q[i].id \in Id /\ q[i].id \in Nat
           /\ IsOpen(q[i]) => HasId(q[i]) /\ HASH_ID(q[i].id) \in Slot
PROOF
    <1>1. q[i] \in Cmd
        OBVIOUS
    <1>. QED
        BY <1>1, CmdFields, HashOfId DEF HasId, IsOpen, Opens

\* p is q with c behind it; p is q without its head.
Pushed(q, c, p) ==
    /\ Len(q) \in Nat /\ Len(p) = Len(q) + 1 /\ p[Len(p)] = c
    /\ \A i \in 1 .. Len(q) : i \in 1 .. Len(p) /\ i < Len(p) /\ p[i] = q[i]
    /\ \A i \in 1 .. Len(p) : i \in 1 .. Len(q) \/ i = Len(p)
Shifted(q, p) ==
    /\ 1 \in 1 .. Len(q)
    /\ \A i \in 1 .. Len(p) : i + 1 \in 1 .. Len(q) /\ i + 1 # 1 /\ p[i] = q[i + 1]
    /\ \A i, j \in 1 .. Len(p) : (i # j => i + 1 # j + 1) /\ (i < j => i + 1 < j + 1)

LEMMA AppendPushed ==
    ASSUME NEW S, NEW q \in Seq(S), NEW c \in S PROVE Pushed(q, c, Append(q, c))
PROOF
    BY DEF Pushed

LEMMA PushedAt ==
    ASSUME NEW q, NEW c, NEW p, Pushed(q, c, p), NEW i \in 1 .. Len(p)
    PROVE  \/ i \in 1 .. Len(q) /\ p[i] = q[i]
           \/ /\ p[i] = c
              /\ \A j \in 1 .. Len(p) : /\ j < i => j \in 1 .. Len(q) /\ p[j] = q[j]
                                        /\ ~(i < j)
PROOF
    BY DEF Pushed

LEMMA TailShifted ==
    ASSUME NEW S, NEW q \in Seq(S), q # <<>>
    PROVE  Shifted(q, Tail(q)) /\ Tail(q) \in Seq(S) /\ q[1] = Head(q) /\ Head(q) \in S
PROOF
    <1>1. /\ Len(q) \in Nat \ {0} /\ Len(Tail(q)) = Len(q) - 1 /\ Tail(q) \in Seq(S)
          /\ \A i \in 1 .. Len(q) - 1 : Tail(q)[i] = q[i + 1]
        OBVIOUS
    <1>. QED
        BY <1>1 DEF Shifted

-----------------------------------------------------------------------------
TypedFacts(k, t, m) ==
    /\ m \in SlotType /\ m.type = t
    /\ m.id = k.id /\ m.protocol = k.protocol /\ m.write = k.write
    /\ m.high = k.high /\ m.low = k.low /\ m.address = k.address
    /\ m.closing = k.closing /\ m.pending = k.pending /\ m.inflight = k.inflight

LEMMA TypedFields ==
    ASSUME NEW k \in SlotType, NEW t \in Types PROVE TypedFacts(k, t, [k EXCEPT !.type = t])
PROOF
    BY DEF SlotType, TypedFacts

\* A free slot is reserved.
LEMMA ReserveInv ==
    ASSUME NEW k \in SlotType, NEW f, SlotInv(k, f), k.type = "INVALID",
           NEW m, TypedFacts(k, "RESERVE", m)
    PROVE  SlotInv(m, f) /\ Fresh(m)
PROOF
    BY DEF SlotInv, TypedFacts, Fresh

LEMMA ReserveId ==
    ASSUME TypeOK, NEW n \in 1 .. MAX_SOCKET, reserve_id(n)
    PROVE  /\ alloc_id + n \in Id /\ alloc_id + n \in Nat /\ alloc_id < alloc_id + n
           /\ alloc_id + n <= use.ids
           /\ HASH_ID(alloc_id + n) \in Slot
           /\ sock[HASH_ID(alloc_id + n)].type = "INVALID"
PROOF
    <1>1. alloc_id \in Nat /\ use.ids \in 0 .. MaxId /\ MaxId \in Nat /\ n \in Nat \ {0}
        BY SocketAssumption DEF TypeOK
    <1>2. alloc_id + n <= use.ids /\ sock[HASH_ID(alloc_id + n)].type = "INVALID"
        BY DEF reserve_id
    <1>3. alloc_id + n \in Id
        BY <1>1, <1>2 DEF Id
    <1>. QED
        BY <1>1, <1>2, <1>3, HashOfId

\* Ids of calls that have returned are in the range of ids.
LEMMA KnownId == ASSUME TypeOK, NEW id \in Known PROVE id \in Id /\ id \in 1 .. alloc_id /\ id # opening.id
PROOF
    <1>1. /\ alloc_id \in Nat /\ use.ids \in 0 .. MaxId /\ alloc_id <= use.ids /\ MaxId \in Nat
          /\ id \in 1 .. alloc_id /\ id # opening.id
        BY SocketAssumption DEF TypeOK, Known
    <1>. QED
        BY <1>1 DEF Id

\* What the calls that send have in common.
Given(id, k, c) ==
    /\ Call(k) /\ Len(bufs) < MaxBuf /\ bufs' = Append(bufs, [id |-> id, cmd |-> k])
    /\ c \in Cmd /\ c.cmd = k /\ c.id = id /\ c.buf = Len(bufs) + 1 /\ k \in Sends
    /\ \/ cmd_queue' = Append(cmd_queue, c) /\ freed' = freed
       \/ cmd_queue' = cmd_queue /\ (freed' = freed \/ Free({Len(bufs) + 1}))
    /\ UNCHANGED <<sock, alloc_id, opening, listener, udp, wire, ended, late, fault>>
Sending(id) ==
    socket_server_send(id) \/ socket_server_send_lowpriority(id) \/ socket_server_udp_send(id)

LEMMA SendGiven ==
    ASSUME TypeOK, NEW id \in Known, Sending(id)
    PROVE  \E k, c : Given(id, k, c)
PROOF
    <1>0. id \in Id
        BY KnownId
    <1>1. Len(bufs) \in Nat
        BY DEF TypeOK
    <1>2. ASSUME NEW k \in {"D", "P"}, ApiSend(id, k, NewBuf(k, id)),
                 ~Taken(id) => freed' = freed \/ Free({Len(bufs) + 1})
          PROVE  Given(id, k, NewBuf(k, id))
        <2> DEFINE c == NewBuf(k, id)
        <2>1. Len(bufs) < MaxBuf
            BY <1>2 DEF ApiSend
        <2>2. Len(bufs) + 1 \in 1 .. MaxBuf
            BY <1>1, <2>1, SocketAssumption
        <2>3. c \in Cmd /\ c.cmd = k /\ c.id = id /\ c.buf = Len(bufs) + 1 /\ k \in Sends
            BY <1>0, <2>2 DEF Cmd, NewBuf, Sends
        <2>. HIDE DEF c
        <2>4. ApiSend(id, k, c)
            BY <1>2 DEF c
        <2>5. Given(id, k, c)
            BY <1>2, <2>3, <2>4 DEF Given, ApiSend, send_request, report
        <2>. QED
            BY <2>5 DEF c
    <1>3. ASSUME NEW f \in BOOLEAN,
                 ApiSend(id, "A", [cmd |-> "A", id |-> id, buf |-> Len(bufs) + 1, v4 |-> f]),
                 ~Taken(id) => Free({Len(bufs) + 1})
          PROVE  Given(id, "A", [cmd |-> "A", id |-> id, buf |-> Len(bufs) + 1, v4 |-> f])
        <2> DEFINE c == [cmd |-> "A", id |-> id, buf |-> Len(bufs) + 1, v4 |-> f]
        <2>1. Len(bufs) < MaxBuf
            BY <1>3 DEF ApiSend
        <2>2. Len(bufs) + 1 \in 1 .. MaxBuf
            BY <1>1, <2>1, SocketAssumption
        <2>3. c \in Cmd /\ c.cmd = "A" /\ c.id = id /\ c.buf = Len(bufs) + 1 /\ "A" \in Sends
            BY <1>0, <2>2 DEF Cmd, Sends
        <2>. HIDE DEF c
        <2>4. ApiSend(id, "A", c)
            BY <1>3 DEF c
        <2>5. Given(id, "A", c)
            BY <1>3, <2>3, <2>4 DEF Given, ApiSend, send_request, report
        <2>. QED
            BY <2>5 DEF c
    <1>4. CASE socket_server_send(id)
        BY <1>2, <1>4 DEF socket_server_send, check_wsz
    <1>5. CASE socket_server_send_lowpriority(id)
        BY <1>2, <1>5 DEF socket_server_send_lowpriority
    <1>6. CASE socket_server_udp_send(id)
        BY <1>3, <1>6 DEF socket_server_udp_send, check_wsz
    <1>. QED
        BY <1>4, <1>5, <1>6 DEF Sending

-----------------------------------------------------------------------------
LEMMA TakenHead ==
    ASSUME SockInv, NEW c, NEW ret, Take(c, ret)
    PROVE  /\ c \in Cmd /\ c.cmd \in Kinds
           /\ HasId(c) => /\ c.id \in Id /\ c.id \in Nat /\ c.id \in 1 .. alloc_id
                          /\ HASH_ID(c.id) \in Slot /\ c.id # opening.id
                          /\ sock[HASH_ID(c.id)] \in SlotType
                          /\ SlotInv(sock[HASH_ID(c.id)], fault)
           /\ IsOpen(c) => /\ HasId(c) /\ Fresh(sock[HASH_ID(c.id)])
                           /\ sock[HASH_ID(c.id)].id = c.id
           /\ alloc_id' = alloc_id /\ alloc_id \in Nat
PROOF
    <1>0. TypeOK /\ SlotsInv /\ OpenInv
        BY DEF SockInv
    <1>1. /\ cmd_queue # <<>> /\ c = Head(cmd_queue) /\ alloc_id' = alloc_id
        BY DEF Take, calls
    <1>2. cmd_queue \in Seq(Cmd) /\ alloc_id \in Nat
        BY <1>0 DEF TypeOK
    <1>3. 1 \in 1 .. Len(cmd_queue) /\ cmd_queue[1] = c /\ c \in Cmd
        BY <1>1, <1>2
    <1>4. /\ c.cmd \in Kinds /\ (HasId(c) => c.id \in Id /\ c.id \in Nat)
          /\ IsOpen(c) => HasId(c)
        BY <1>2, <1>3, CmdAt
    <1>5. HasId(c) => c.id <= alloc_id /\ c.id \in 1 .. alloc_id
        BY <1>0, <1>2, <1>3, <1>4 DEF OpenInv, IdsOf, Id
    <1>6. HasId(c) => HASH_ID(c.id) \in Slot
        BY <1>4, HashOfId
    <1>7. HasId(c) => sock[HASH_ID(c.id)] \in SlotType /\ SlotInv(sock[HASH_ID(c.id)], fault)
        BY <1>0, <1>6 DEF TypeOK, SlotsInv
    <1>8. HasId(c) => c.id # opening.id
        <2>1. CASE opening = NoCall
            BY <1>4, <2>1 DEF NoCall, Id
        <2>2. CASE opening # NoCall
            BY <1>0, <1>3, <2>2 DEF OpenInv, Opening
        <2>. QED
            BY <2>1, <2>2
    <1>9. IsOpen(c) => Fresh(sock[HASH_ID(c.id)]) /\ sock[HASH_ID(c.id)].id = c.id
        BY <1>0, <1>3 DEF OpenInv, Waiting
    <1>. QED
        BY <1>1, <1>2, <1>3, <1>4, <1>5, <1>6, <1>7, <1>8, <1>9

\* A command that opens a socket: new_fd finds its slot reserved.
LEMMA NewFault ==
    ASSUME NEW k \in SlotType, Fresh(k), NEW f, "new_fd" \notin f, NEW g, g = f \cup NewFaults(k)
    PROVE  f \subseteq g /\ "new_fd" \notin g /\ (k.high # <<>> \/ k.low # <<>> => "wb_list" \in g)
PROOF
    BY DEF Fresh, NewFaults

\* The outcomes of new_fd in the commands that open a socket.
Opened(k, id, p, t, P, z) ==
    [new_fd(k, id, p) EXCEPT !.type = t, !.pending = P, !.closing = z]
OpenedFacts(k, id, p, t, P, z, m) ==
    /\ m \in SlotType /\ m.type = t /\ m.pending = P /\ m.closing = z /\ m.id = id
    /\ m.protocol = p /\ ~m.write /\ m.inflight = <<>> /\ m.high = k.high /\ m.low = k.low

LEMMA OpenedFields ==
    ASSUME NEW k \in SlotType, NEW id \in Nat, NEW p \in {"TCP", "UDP"},
           NEW t \in Types, NEW P \in SUBSET {"connect", "read", "accept"}, NEW z \in BOOLEAN
    PROVE  OpenedFacts(k, id, p, t, P, z, Opened(k, id, p, t, P, z))
PROOF
    <1> DEFINE n == new_fd(k, id, p)
               m == [n EXCEPT !.type = t, !.pending = P, !.closing = z]
    <1>1. NewFacts(k, id, p, n)
        BY NewFields
    <1>. HIDE DEF n
    <1>2. /\ n \in SlotType /\ n.id = id /\ n.protocol = p /\ ~n.write
          /\ n.inflight = <<>> /\ n.high = k.high /\ n.low = k.low
        BY <1>1 DEF NewFacts
    <1>3. /\ m \in SlotType /\ m.type = t /\ m.pending = P /\ m.closing = z /\ m.id = n.id
          /\ m.protocol = n.protocol /\ m.write = n.write /\ m.inflight = n.inflight
          /\ m.high = n.high /\ m.low = n.low
        BY <1>2 DEF SlotType
    <1>4. m = Opened(k, id, p, t, P, z)
        BY DEF Opened, n
    <1>. HIDE DEF m
    <1>. QED
        BY <1>2, <1>3, <1>4 DEF OpenedFacts

\* The outcomes there are.
Outcome(p, t, P, z) ==
    /\ p \in {"TCP", "UDP"} /\ t \in Types /\ P \in SUBSET {"connect", "read", "accept"}
    /\ z \in BOOLEAN
    /\ t = "INVALID" => ~z
    /\ t \in {"INVALID", "RESERVE"} => P = {}
    /\ "connect" \in P => t = "CONNECTING"
    /\ p = "UDP" => t = "CONNECTED" /\ P = {}

LEMMA OpenedType ==
    ASSUME NEW k \in SlotType, NEW id \in Nat, NEW p \in {"TCP", "UDP"}, NEW t
    PROVE  [new_fd(k, id, p) EXCEPT !.type = t] = Opened(k, id, p, t, {}, FALSE)
PROOF
    <1> DEFINE n == new_fd(k, id, p)
    <1>1. NewFacts(k, id, p, n)
        BY NewFields
    <1>2. n \in SlotType /\ n.pending = {} /\ n.closing = FALSE /\ n.type = k.type
        BY <1>1 DEF NewFacts, SlotType
    <1>. HIDE DEF n
    <1>3. [n EXCEPT !.type = t] = [n EXCEPT !.type = t, !.pending = {}, !.closing = FALSE]
        BY <1>2 DEF SlotType
    <1>. QED
        BY <1>3 DEF Opened, n

LEMMA OpenedPending ==
    ASSUME NEW k \in SlotType, NEW id \in Nat, NEW p \in {"TCP", "UDP"}, NEW t, NEW P
    PROVE  [new_fd(k, id, p) EXCEPT !.type = t, !.pending = P] = Opened(k, id, p, t, P, FALSE)
PROOF
    <1> DEFINE n == new_fd(k, id, p)
    <1>1. NewFacts(k, id, p, n)
        BY NewFields
    <1>2. n \in SlotType /\ n.pending = {} /\ n.closing = FALSE /\ n.type = k.type
        BY <1>1 DEF NewFacts, SlotType
    <1>. HIDE DEF n
    <1>3. [n EXCEPT !.type = t, !.pending = P] = [n EXCEPT !.type = t, !.pending = P, !.closing = FALSE]
        BY <1>2 DEF SlotType
    <1>. QED
        BY <1>3 DEF Opened, n

LEMMA OpenedClosing ==
    ASSUME NEW k \in SlotType, NEW id \in Nat, NEW p \in {"TCP", "UDP"}
    PROVE  [new_fd(k, id, p) EXCEPT !.closing = TRUE] = Opened(k, id, p, k.type, {}, TRUE)
PROOF
    <1> DEFINE n == new_fd(k, id, p)
    <1>1. NewFacts(k, id, p, n)
        BY NewFields
    <1>2. n \in SlotType /\ n.pending = {} /\ n.closing = FALSE /\ n.type = k.type
        BY <1>1 DEF NewFacts, SlotType
    <1>. HIDE DEF n
    <1>3. [n EXCEPT !.closing = TRUE] = [n EXCEPT !.type = k.type, !.pending = {}, !.closing = TRUE]
        BY <1>2 DEF SlotType
    <1>. QED
        BY <1>3 DEF Opened, n

\* The slot of the command is given up.
GivenUp(c) ==
    /\ Put(HASH_ID(c.id), [sock[HASH_ID(c.id)] EXCEPT !.type = "INVALID"])
    /\ UNCHANGED fault /\ Report(c.id, "ERROR")
NewHandle(c, p, t, P, z) ==
    /\ Outcome(p, t, P, z) /\ (p = "UDP" <=> c.cmd = "U")
    /\ Put(HASH_ID(c.id), Opened(sock[HASH_ID(c.id)], c.id, p, t, P, z))
    /\ fault' = fault \cup NewFaults(sock[HASH_ID(c.id)])
    /\ \/ UNCHANGED report \/ Report(c.id, "OPEN")
       \/ Report(c.id, "ERROR") /\ t \in {"INVALID", "RESERVE"}
OpensSocket(c) == open_socket(c) \/ listen_socket(c) \/ bind_socket(c) \/ add_udp_socket(c)
OpenResult(c) ==
    /\ IsOpen(c) /\ UNCHANGED <<freed, wire>> /\ \E ret : Take(c, ret)
    /\ GivenUp(c) \/ \E p, t, P, z : NewHandle(c, p, t, P, z)

\* The outcomes of the commands that open a socket.
LEMMA OpenResults == ASSUME SockInv, NEW c, OpensSocket(c) PROVE OpenResult(c)
PROOF
    <1> DEFINE s == HASH_ID(c.id)
               k == new_fd(sock[s], c.id, "TCP")
               F == fault' = fault \cup NewFaults(sock[s])
    <1>0. /\ IsOpen(c) /\ UNCHANGED <<freed, wire>> /\ \E ret : Take(c, ret)
          /\ c.cmd = "U" <=> add_udp_socket(c)
        BY DEF OpensSocket, open_socket, listen_socket, bind_socket, add_udp_socket, IsOpen, Opens
    <1>1. sock[s] \in SlotType /\ c.id \in Nat /\ sock[s].type = "RESERVE"
        BY <1>0, TakenHead DEF Fresh
    <1>2. "TCP" \in {"TCP", "UDP"} /\ "UDP" \in {"TCP", "UDP"}
        OBVIOUS
    <1>3. \A t : [k EXCEPT !.type = t] = Opened(sock[s], c.id, "TCP", t, {}, FALSE)
        BY <1>1, <1>2, OpenedType
    <1>4. \A t, P : [k EXCEPT !.type = t, !.pending = P] = Opened(sock[s], c.id, "TCP", t, P, FALSE)
        BY <1>1, <1>2, OpenedPending
    <1>5. [k EXCEPT !.closing = TRUE] = Opened(sock[s], c.id, "TCP", sock[s].type, {}, TRUE)
        BY <1>1, <1>2, OpenedClosing
    <1>6. [new_fd(sock[s], c.id, "UDP") EXCEPT !.type = "CONNECTED"] =
             Opened(sock[s], c.id, "UDP", "CONNECTED", {}, FALSE)
        BY <1>1, <1>2, OpenedType
    <1>7. /\ Outcome("TCP", "INVALID", {}, FALSE) /\ Outcome("TCP", "CONNECTING", {"connect"}, FALSE)
          /\ Outcome("TCP", "PLISTEN", {}, FALSE) /\ Outcome("TCP", "RESERVE", {}, TRUE)
          /\ Outcome("TCP", "BIND", {"read"}, FALSE) /\ Outcome("UDP", "CONNECTED", {}, FALSE)
        BY DEF Types, Outcome
    <1>8. CASE open_socket(c)
        <2>1. \/ GivenUp(c)
              \/ Report(c.id, "ERROR") /\ F /\ Put(s, Opened(sock[s], c.id, "TCP", "INVALID", {}, FALSE))
              \/ /\ UNCHANGED report /\ F
                 /\ Put(s, Opened(sock[s], c.id, "TCP", "CONNECTING", {"connect"}, FALSE))
            BY <1>3, <1>4, <1>8 DEF open_socket, GivenUp
        <2>2. c.cmd # "U"
            BY <1>8 DEF open_socket
        <2>3. \/ GivenUp(c) \/ NewHandle(c, "TCP", "INVALID", {}, FALSE)
              \/ NewHandle(c, "TCP", "CONNECTING", {"connect"}, FALSE)
            BY <1>7, <2>1, <2>2 DEF NewHandle
        <2>. QED
            BY <1>0, <2>3 DEF OpenResult
    <1>9. CASE listen_socket(c)
        <2>1. /\ UNCHANGED report /\ F
              /\ \/ Put(s, Opened(sock[s], c.id, "TCP", "PLISTEN", {}, FALSE))
                 \/ Put(s, Opened(sock[s], c.id, "TCP", "RESERVE", {}, TRUE))
            BY <1>1, <1>3, <1>5, <1>9 DEF listen_socket
        <2>2. c.cmd # "U"
            BY <1>9 DEF listen_socket
        <2>3. NewHandle(c, "TCP", "PLISTEN", {}, FALSE) \/ NewHandle(c, "TCP", "RESERVE", {}, TRUE)
            BY <1>7, <2>1, <2>2 DEF NewHandle
        <2>. QED
            BY <1>0, <2>3 DEF OpenResult
    <1>10. CASE bind_socket(c)
        <2>1. /\ F
              /\ \/ /\ Report(c.id, "OPEN")
                    /\ Put(s, Opened(sock[s], c.id, "TCP", "BIND", {"read"}, FALSE))
                 \/ Report(c.id, "ERROR") /\ Put(s, Opened(sock[s], c.id, "TCP", "RESERVE", {}, TRUE))
            BY <1>1, <1>4, <1>5, <1>10 DEF bind_socket
        <2>2. c.cmd # "U"
            BY <1>10 DEF bind_socket
        <2>3. NewHandle(c, "TCP", "BIND", {"read"}, FALSE) \/ NewHandle(c, "TCP", "RESERVE", {}, TRUE)
            BY <1>7, <2>1, <2>2 DEF NewHandle
        <2>. QED
            BY <1>0, <2>3 DEF OpenResult
    <1>11. CASE add_udp_socket(c)
        <2>1. UNCHANGED report /\ F /\ Put(s, Opened(sock[s], c.id, "UDP", "CONNECTED", {}, FALSE))
            BY <1>6, <1>11 DEF add_udp_socket
        <2>2. c.cmd = "U"
            BY <1>11 DEF add_udp_socket
        <2>3. NewHandle(c, "UDP", "CONNECTED", {}, FALSE)
            BY <1>7, <2>1, <2>2 DEF NewHandle
        <2>. QED
            BY <1>0, <2>3 DEF OpenResult
    <1>. QED
        BY <1>8, <1>9, <1>10, <1>11 DEF OpensSocket

-----------------------------------------------------------------------------
\* A request that comes back, but for a write.
Less(k, p) == [k EXCEPT !.pending = @ \ {p}]
LessFacts(k, p, m) ==
    /\ m \in SlotType /\ m.pending = k.pending \ {p}
    /\ m.type = k.type /\ m.id = k.id /\ m.protocol = k.protocol /\ m.write = k.write
    /\ m.high = k.high /\ m.low = k.low /\ m.closing = k.closing /\ m.inflight = k.inflight

LEMMA LessFields == ASSUME NEW k \in SlotType, NEW p PROVE LessFacts(k, p, Less(k, p))
PROOF
    <1>1. k.pending \ {p} \in SUBSET {"connect", "read", "accept"}
        BY DEF SlotType
    <1>. QED
        BY <1>1 DEF Less, LessFacts, SlotType

\* The outcomes of connection_cb.
LEMMA Connection ==
    ASSUME SockInv, NEW s \in Slot, connection_cb(s)
    PROVE  /\ Callback /\ UNCHANGED wire /\ "accept" \in sock[s].pending /\ ~sock[s].closing
           /\ \/ \E n \in 1 .. MAX_SOCKET : \E m :
                    LET j == [sock[HASH_ID(alloc_id + n)] EXCEPT !.type = "RESERVE"]
                    IN  /\ reserve_id(n) /\ alloc_id' = alloc_id + n
                        /\ fault' = fault \cup NewFaults(j) /\ UNCHANGED freed
                        /\ Put(HASH_ID(alloc_id + n), m)
                        /\ \/ m = Opened(j, alloc_id + n, "TCP", "PACCEPT", {}, FALSE)
                           \/ m = Opened(j, alloc_id + n, "TCP", "RESERVE", {}, TRUE)
                        /\ Report(sock[s].id, "ACCEPT") \/ UNCHANGED report
              \/ /\ alloc_id + MAX_SOCKET <= use.ids /\ alloc_id' = alloc_id + MAX_SOCKET
                 /\ UNCHANGED <<sock, report, fault, freed>>
              \/ /\ Report(sock[s].id, "ERROR")
                 /\ Put(s, force_close(sock[s])) /\ Free(ForceFrees(sock[s]))
                 /\ fault' = fault \cup ForceFaults(sock[s]) /\ UNCHANGED alloc_id
PROOF
    <1>0. Callback /\ UNCHANGED wire /\ "accept" \in sock[s].pending /\ ~sock[s].closing
        BY DEF connection_cb
    <1>1. CASE report_accept(s)
        <2>1. CASE /\ alloc_id + MAX_SOCKET <= use.ids /\ alloc_id' = alloc_id + MAX_SOCKET
                   /\ UNCHANGED <<sock, report, fault, freed>>
            BY <1>0, <2>1
        <2>2. ASSUME NEW n \in 1 .. MAX_SOCKET, NEW j, NEW k,
                     j = [sock[HASH_ID(alloc_id + n)] EXCEPT !.type = "RESERVE"],
                     k = new_fd(j, alloc_id + n, "TCP"), reserve_id(n)
              PROVE  /\ [k EXCEPT !.type = "PACCEPT"] = Opened(j, alloc_id + n, "TCP", "PACCEPT", {}, FALSE)
                     /\ [k EXCEPT !.closing = TRUE] = Opened(j, alloc_id + n, "TCP", "RESERVE", {}, TRUE)
            <3>1. HASH_ID(alloc_id + n) \in Slot /\ alloc_id + n \in Nat
                BY <2>2, ReserveId DEF SockInv
            <3>2. TypedFacts(sock[HASH_ID(alloc_id + n)], "RESERVE", j)
                BY <2>2, <3>1, TypedFields DEF SockInv, TypeOK, Types
            <3>3. j \in SlotType /\ j.type = "RESERVE" /\ "TCP" \in {"TCP", "UDP"}
                BY <3>2 DEF TypedFacts
            <3>4. [k EXCEPT !.type = "PACCEPT"] = Opened(j, alloc_id + n, "TCP", "PACCEPT", {}, FALSE)
                BY <2>2, <3>1, <3>3, OpenedType
            <3>5. [k EXCEPT !.closing = TRUE] = Opened(j, alloc_id + n, "TCP", j.type, {}, TRUE)
                BY <2>2, <3>1, <3>3, OpenedClosing
            <3>. QED
                BY <3>3, <3>4, <3>5
        <2>3. ASSUME NEW n \in 1 .. MAX_SOCKET, NEW j, NEW k,
                     j = [sock[HASH_ID(alloc_id + n)] EXCEPT !.type = "RESERVE"],
                     k = new_fd(j, alloc_id + n, "TCP"), reserve_id(n), alloc_id' = alloc_id + n,
                     fault' = fault \cup NewFaults(j), UNCHANGED freed,
                     \/ Put(HASH_ID(alloc_id + n), [k EXCEPT !.type = "PACCEPT"]) /\ Report(sock[s].id, "ACCEPT")
                     \/ Put(HASH_ID(alloc_id + n), [k EXCEPT !.closing = TRUE]) /\ UNCHANGED report
              PROVE  \E m :
                        /\ Put(HASH_ID(alloc_id + n), m)
                        /\ \/ m = Opened(j, alloc_id + n, "TCP", "PACCEPT", {}, FALSE)
                           \/ m = Opened(j, alloc_id + n, "TCP", "RESERVE", {}, TRUE)
                        /\ Report(sock[s].id, "ACCEPT") \/ UNCHANGED report
            BY <2>2, <2>3
        <2>. QED
            BY <1>0, <1>1, <2>1, <2>3 DEF report_accept
    <1>2. CASE /\ Report(sock[s].id, "ERROR")
               /\ Put(s, force_close(sock[s])) /\ Free(ForceFrees(sock[s]))
               /\ fault' = fault \cup ForceFaults(sock[s]) /\ UNCHANGED alloc_id
        BY <1>0, <1>2
    <1>. QED
        BY <1>1, <1>2 DEF connection_cb

\* Every handle is closed.
Shut(k) == IF k.type = "RESERVE" THEN k ELSE force_close(k)

-----------------------------------------------------------------------------
(* Handles.                                                                *)

\* A slot without a handle.
Dead(k) == k.type = "INVALID" \/ Fresh(k)
\* The ids that have a socket still to come.
Unopened(id, n, o, q) ==
    \/ id > n
    \/ o # NoCall /\ id = o.id
    \/ \E i \in 1 .. Len(q) : IsOpen(q[i]) /\ id = q[i].id

LEMMA PutSlot ==
    ASSUME TypeOK, NEW s \in Slot, NEW m, Put(s, m)
    PROVE  sock'[s] = m /\ \A t \in Slot : t # s => sock'[t] = sock[t]
PROOF
    BY DEF TypeOK, Put

\* A slot with a handle has an id of its own, whose socket has been opened.
LEMMA OpenedId ==
    ASSUME SockInv, NEW s \in Slot, ~Dead(sock[s]), sock[s].id # 0
    PROVE  /\ sock[s].id \in Id /\ ~Unopened(sock[s].id, alloc_id, opening, cmd_queue)
           /\ \A t \in Slot : t # s => sock[t].id # sock[s].id
PROOF
    <1>0. TypeOK /\ IdsInv /\ OpenInv
        BY DEF SockInv
    <1> DEFINE id == sock[s].id
    <1>1. id \in 1 .. alloc_id /\ HASH_ID(id) = s
        BY <1>0 DEF IdsInv
    <1>2. /\ alloc_id \in Nat /\ use.ids \in 0 .. MaxId /\ alloc_id <= use.ids /\ MaxId \in Nat
        BY <1>0, SocketAssumption DEF TypeOK
    <1>. HIDE DEF id
    <1>3. id \in Id /\ ~(id > alloc_id)
        BY <1>1, <1>2 DEF Id
    <1>4. ~Fresh(sock[HASH_ID(id)])
        BY <1>1 DEF Dead
    <1>5. ~(opening # NoCall /\ id = opening.id)
        BY <1>0, <1>4 DEF OpenInv, Opening
    <1>6. ~\E i \in 1 .. Len(cmd_queue) : IsOpen(cmd_queue[i]) /\ id = cmd_queue[i].id
        BY <1>0, <1>4 DEF OpenInv, Waiting
    <1>7. \A t \in Slot : t # s => sock[t].id # id
        BY <1>0, <1>1, <1>3, SocketAssumption DEF IdsInv, Id
    <1>. QED
        BY <1>3, <1>5, <1>6, <1>7 DEF Unopened, id

-----------------------------------------------------------------------------
(* What is reported.                                                      *)

\* A slot whose handle may report data or accepts.
Active(k) == ~Dead(k) /\ ~k.closing /\ k.protocol = "TCP"

SlotLive(k, e, u) ==
    ~Dead(k) =>
        /\ k.id # 0
        /\ Active(k) => k.id \notin e
        /\ k.id \in u => k.protocol = "UDP"

CmdLive(c, u) ==
    /\ IsOpen(c) /\ c.id \in u => c.cmd = "U"
    /\ c.cmd = "C" => c.id \in u

\* An id that was reported closed has no socket still to come and none that
\* reports, except for a UDP socket, of which set_udp_address reports errors.
LiveInv ==
    /\ late = {}
    /\ \A id \in ended : id \in Id /\ ~Unopened(id, alloc_id, opening, cmd_queue)
    /\ \A s \in Slot : SlotLive(sock[s], ended, udp)
    /\ \A id \in udp : id <= alloc_id /\ (opening # NoCall => id # opening.id)
    /\ \A i \in 1 .. Len(cmd_queue) : CmdLive(cmd_queue[i], udp)

\* A slot goes on with its handle, or has the handle of a socket that was to come.
Follows(k, m) ==
    ~Dead(m) => /\ ~Dead(k) /\ m.id = k.id /\ m.protocol = k.protocol
                /\ k.closing => m.closing
Begins(m) ==
    ~Dead(m) => /\ m.id # 0 /\ m.id \in Id /\ Unopened(m.id, alloc_id, opening, cmd_queue)
                /\ m.id \in udp => m.protocol = "UDP"

\* The calls and the commands, but for ApiOpen: no id gets a socket to come.
CallsGo ==
    /\ udp' = udp /\ alloc_id' \in Nat /\ alloc_id <= alloc_id'
    /\ opening' = opening \/ opening'.id > alloc_id
    /\ \A i \in 1 .. Len(cmd_queue') :
          \/ \E j \in 1 .. Len(cmd_queue) : cmd_queue'[i] = cmd_queue[j]
          \/ ~IsOpen(cmd_queue'[i]) /\ CmdLive(cmd_queue'[i], udp)
SlotsGo == \A s \in Slot : Follows(sock[s], sock'[s]) \/ Begins(sock'[s])

\* The reports end at most the ids of D.
Ends(D) ==
    /\ late' = late /\ ended' \subseteq ended \cup D
    /\ \A id \in D : id \in Id /\ ~Unopened(id, alloc_id', opening', cmd_queue')
    /\ \A s \in Slot : Active(sock'[s]) => sock'[s].id \notin D

LEMMA StillUnopened ==
    ASSUME TypeOK, CallsGo, NEW id \in Id, Unopened(id, alloc_id', opening', cmd_queue')
    PROVE  Unopened(id, alloc_id, opening, cmd_queue)
PROOF
    <1>1. id \in Nat /\ alloc_id \in Nat /\ alloc_id' \in Nat /\ alloc_id <= alloc_id'
        BY SocketAssumption DEF TypeOK, CallsGo, Id
    <1>2. CASE id > alloc_id'
        <2>1. id > alloc_id
            BY <1>1, <1>2
        <2>. QED
            BY <2>1 DEF Unopened
    <1>3. CASE opening' # NoCall /\ id = opening'.id
        BY <1>3 DEF CallsGo, Unopened
    <1>4. CASE \E i \in 1 .. Len(cmd_queue') : IsOpen(cmd_queue'[i]) /\ id = cmd_queue'[i].id
        BY <1>4 DEF CallsGo, Unopened
    <1>. QED
        BY <1>2, <1>3, <1>4 DEF Unopened

LEMMA LiveStep ==
    ASSUME TypeOK, LiveInv, CallsGo, SlotsGo, NEW D, Ends(D) PROVE LiveInv'
PROOF
    <1>1. late' = {}
        BY DEF LiveInv, Ends
    <1>2. \A id \in ended' : id \in Id /\ ~Unopened(id, alloc_id', opening', cmd_queue')
        BY StillUnopened DEF LiveInv, Ends
    <1>3. ASSUME NEW s \in Slot, ~Dead(sock'[s]) PROVE SlotLive(sock'[s], ended', udp)
        <2>1. Active(sock'[s]) => sock'[s].id \notin D
            BY DEF Ends
        <2>2. CASE Follows(sock[s], sock'[s])
            <3>1. /\ ~Dead(sock[s]) /\ sock'[s].id = sock[s].id
                  /\ sock'[s].protocol = sock[s].protocol /\ (sock[s].closing => sock'[s].closing)
                BY <1>3, <2>2 DEF Follows
            <3>2. Active(sock'[s]) => Active(sock[s])
                BY <3>1 DEF Active
            <3>3. SlotLive(sock[s], ended, udp)
                BY DEF LiveInv
            <3>. QED
                BY <2>1, <3>1, <3>2, <3>3 DEF SlotLive, Ends
        <2>3. CASE Begins(sock'[s])
            <3>1. sock'[s].id \notin ended
                BY <1>3, <2>3 DEF Begins, LiveInv
            <3>. QED
                BY <1>3, <2>1, <2>3, <3>1 DEF Begins, SlotLive, Ends
        <2>. QED
            BY <2>2, <2>3 DEF SlotsGo
    <1>4. \A s \in Slot : SlotLive(sock'[s], ended', udp)
        BY <1>3 DEF SlotLive
    <1>5. ASSUME NEW id \in udp PROVE id <= alloc_id' /\ (opening' # NoCall => id # opening'.id)
        <2>1. id \in Nat /\ id <= alloc_id /\ alloc_id \in Nat /\ alloc_id' \in Nat /\ alloc_id <= alloc_id'
            BY SocketAssumption DEF TypeOK, CallsGo, Id, LiveInv
        <2>2. id <= alloc_id'
            BY <2>1
        <2>3. CASE opening' = opening
            BY <2>2, <2>3 DEF LiveInv
        <2>4. CASE opening'.id > alloc_id
            <3>1. id # opening'.id
                BY <2>1, <2>4
            <3>. QED
                BY <2>2, <3>1
        <2>. QED
            BY <2>3, <2>4 DEF CallsGo
    <1>6. \A i \in 1 .. Len(cmd_queue') : CmdLive(cmd_queue'[i], udp)
        BY DEF CallsGo, LiveInv
    <1>7. udp' = udp
        BY DEF CallsGo
    <1>. QED
        BY <1>1, <1>2, <1>4, <1>5, <1>6, <1>7 DEF LiveInv

LEMMA FollowsSame == ASSUME NEW k PROVE Follows(k, k)
PROOF
    BY DEF Follows

\* What a report other than DATA and ACCEPT does.
LEMMA Reports ==
    ASSUME NEW id
    PROVE  /\ Report(id, "OPEN") => UNCHANGED report
           /\ Report(id, "ERROR") \/ Report(id, "CLOSE") => late' = late /\ ended' = ended \cup {id}
PROOF
    BY DEF Report, forward_message, report

LEMMA TakeGo ==
    ASSUME SockInv, NEW c, NEW ret, Take(c, ret)
    PROVE  /\ CallsGo
           /\ HasId(c) => ~Unopened(c.id, alloc_id', opening', cmd_queue')
           /\ IsOpen(c) => Unopened(c.id, alloc_id, opening, cmd_queue)
           /\ LiveInv => CmdLive(c, udp)
PROOF
    <1>0. TypeOK /\ OpenInv
        BY DEF SockInv
    <1>1. /\ cmd_queue # <<>> /\ c = Head(cmd_queue) /\ cmd_queue' = Tail(cmd_queue)
          /\ UNCHANGED <<alloc_id, opening, udp>>
        BY DEF Take, calls
    <1>2. cmd_queue \in Seq(Cmd) /\ alloc_id \in Nat
        BY <1>0 DEF TypeOK
    <1>3. Shifted(cmd_queue, cmd_queue') /\ c = cmd_queue[1] /\ 1 \in 1 .. Len(cmd_queue)
        BY <1>1, <1>2, TailShifted DEF Shifted
    <1>4. CallsGo
        BY <1>1, <1>2, <1>3 DEF CallsGo, Shifted
    <1>5. ASSUME HasId(c) PROVE ~Unopened(c.id, alloc_id', opening', cmd_queue')
        <2>1. c.id \in 1 .. alloc_id /\ c.id # opening.id
            BY <1>5, TakenHead
        <2>2. ~(c.id > alloc_id')
            BY <1>1, <1>2, <2>1
        <2>3. ASSUME NEW i \in 1 .. Len(cmd_queue'), IsOpen(cmd_queue'[i]) PROVE c.id # cmd_queue'[i].id
            <3>1. i + 1 \in 1 .. Len(cmd_queue) /\ 1 < i + 1 /\ cmd_queue'[i] = cmd_queue[i + 1]
                BY <1>3 DEF Shifted
            <3>. QED
                BY <1>0, <1>3, <1>5, <2>3, <3>1 DEF OpenInv, WaitFirst
        <2>. QED
            BY <1>1, <2>1, <2>2, <2>3 DEF Unopened
    <1>6. IsOpen(c) => Unopened(c.id, alloc_id, opening, cmd_queue)
        BY <1>3 DEF Unopened
    <1>7. LiveInv => CmdLive(c, udp)
        BY <1>3 DEF LiveInv
    <1>. QED
        BY <1>4, <1>5, <1>6, <1>7

\* A command that changes at most the slot of its id, and reports at most this id
\* closed.
LEMMA TakeLive ==
    ASSUME SockInv, SockInv', LiveInv, NEW c, NEW ret, Take(c, ret), HasId(c), late' = late,
           NEW m, (sock' = sock /\ m = sock[HASH_ID(c.id)]) \/ Put(HASH_ID(c.id), m),
           Follows(sock[HASH_ID(c.id)], m) \/ Begins(m),
           \/ ended' = ended
           \/ ended' = ended \cup {c.id} /\ (Active(m) => m.id # c.id)
    PROVE  LiveInv'
PROOF
    <1> DEFINE s == HASH_ID(c.id)
    <1>0. TypeOK /\ CallsGo /\ ~Unopened(c.id, alloc_id', opening', cmd_queue')
        BY TakeGo DEF SockInv
    <1>1. s \in Slot /\ c.id \in Id
        BY TakenHead
    <1>2. sock'[s] = m /\ \A t \in Slot : t # s => sock'[t] = sock[t]
        BY <1>0, <1>1, PutSlot
    <1>3. SlotsGo
        BY <1>2, FollowsSame DEF SlotsGo
    <1>4. CASE ended' = ended
        <2>1. Ends({})
            BY <1>4 DEF Ends
        <2>. QED
            BY <1>0, <1>3, <2>1, LiveStep
    <1>5. CASE ended' = ended \cup {c.id} /\ (Active(m) => m.id # c.id)
        <2>1. c.id # 0
            BY <1>1, SocketAssumption DEF Id
        <2>2. \A t \in Slot : t # s => sock'[t].id # c.id
            BY <2>1 DEF SockInv, IdsInv
        <2>3. Ends({c.id})
            BY <1>0, <1>1, <1>2, <1>5, <2>2 DEF Ends
        <2>. QED
            BY <1>0, <1>3, <2>3, LiveStep
    <1>. QED
        BY <1>4, <1>5

\* A callback on slot s.
LEMMA CallLive ==
    ASSUME SockInv, LiveInv, Callback, alloc_id' = alloc_id, NEW s \in Slot, late' = late,
           NEW m, (sock' = sock /\ m = sock[s]) \/ Put(s, m), Follows(sock[s], m),
           \/ ended' = ended
           \/ ended' = ended \cup {sock[s].id} /\ ~Dead(sock[s]) /\ ~Active(m)
    PROVE  LiveInv'
PROOF
    <1>0. TypeOK /\ UNCHANGED <<cmd_queue, opening, udp, alloc_id>>
        BY DEF SockInv, Callback
    <1>1. CallsGo
        BY <1>0 DEF CallsGo, TypeOK
    <1>2. sock'[s] = m /\ \A t \in Slot : t # s => sock'[t] = sock[t]
        BY <1>0, PutSlot
    <1>3. SlotsGo
        BY <1>2, FollowsSame DEF SlotsGo
    <1>4. CASE ended' = ended
        <2>1. Ends({})
            BY <1>4 DEF Ends
        <2>. QED
            BY <1>0, <1>1, <1>3, <2>1, LiveStep
    <1>5. CASE ended' = ended \cup {sock[s].id} /\ ~Dead(sock[s]) /\ ~Active(m)
        <2>1. sock[s].id # 0
            BY <1>5 DEF LiveInv, SlotLive
        <2>2. /\ sock[s].id \in Id /\ ~Unopened(sock[s].id, alloc_id, opening, cmd_queue)
              /\ \A t \in Slot : t # s => sock[t].id # sock[s].id
            BY <1>5, <2>1, OpenedId
        <2>3. Ends({sock[s].id})
            BY <1>0, <1>2, <1>5, <2>2 DEF Ends
        <2>. QED
            BY <1>0, <1>1, <1>3, <2>3, LiveStep
    <1>. QED
        BY <1>4, <1>5

-----------------------------------------------------------------------------
(* The commands.                                                           *)

\* What the operators on a slot leave alone.
LEMMA ForceFollows ==
    ASSUME NEW k \in SlotType, NEW f, SlotInv(k, f)
    PROVE  Follows(k, force_close(k)) /\ ~Active(force_close(k))
PROOF
    <1> DEFINE m == force_close(k)
    <1>1. ForceFacts(k, m)
        BY ForceFields
    <1>. HIDE DEF m
    <1>2. Follows(k, m)
        BY <1>1 DEF ForceFacts, Follows, Dead, Fresh
    <1>3. ~Active(m)
        BY <1>1 DEF ForceFacts, Active, Dead, Fresh, SlotInv
    <1>. QED
        BY <1>2, <1>3 DEF m

LEMMA SendKeeps ==
    ASSUME NEW k \in SlotType, NEW r,
           r \in send_buffer(k) \/ \E l \in Lists : r \in send_list(k, l)
    PROVE  /\ r.k \in SlotType /\ r.k.type = k.type /\ r.k.id = k.id
           /\ r.k.protocol = k.protocol /\ r.k.closing = k.closing
PROOF
    <1>1. r.k = k \/ \E l \in Lists : k[l] # <<>> /\ r.k = Sent(k, l)
        BY SendBuffer, SendList
    <1>2. CASE r.k = k
        BY <1>2
    <1>3. ASSUME NEW l \in Lists, k[l] # <<>>, r.k = Sent(k, l)
          PROVE  /\ r.k \in SlotType /\ r.k.type = k.type /\ r.k.id = k.id
                 /\ r.k.protocol = k.protocol /\ r.k.closing = k.closing
        <2>1. SentFacts(k, l, r.k)
            BY <1>3, SentFields
        <2>. QED
            BY <2>1 DEF SentFacts
    <1>. QED
        BY <1>1, <1>2, <1>3

LEMMA LiveOpening ==
    ASSUME SockInv, SockInv', LiveInv, NEW c, OpensSocket(c) PROVE LiveInv'
PROOF
    <1> DEFINE s == HASH_ID(c.id)
    <1>0. OpenResult(c)
        BY OpenResults
    <1>1. PICK ret : Take(c, ret) /\ IsOpen(c)
        BY <1>0 DEF OpenResult
    <1>2. HasId(c) /\ c.id \in Id /\ sock[s] \in SlotType /\ c.id # 0
        BY <1>1, TakenHead, SocketAssumption DEF Id
    <1>3. Unopened(c.id, alloc_id, opening, cmd_queue) /\ CmdLive(c, udp)
        BY <1>1, TakeGo
    <1>4. CASE GivenUp(c)
        <2> DEFINE m == [sock[s] EXCEPT !.type = "INVALID"]
        <2>1. m.type = "INVALID"
            BY <1>2 DEF SlotType
        <2>2. Put(s, m) /\ late' = late /\ ended' = ended \cup {c.id}
            BY <1>4, Reports DEF GivenUp
        <2>. HIDE DEF m
        <2>3. Follows(sock[s], m) /\ ~Active(m)
            BY <2>1 DEF Follows, Active, Dead
        <2>. QED
            BY <1>1, <1>2, <2>2, <2>3, TakeLive
    <1>5. ASSUME NEW p, NEW t, NEW P, NEW z, NewHandle(c, p, t, P, z) PROVE LiveInv'
        <2> DEFINE m == Opened(sock[s], c.id, p, t, P, z)
        <2>1. Outcome(p, t, P, z) /\ (p = "UDP" <=> c.cmd = "U") /\ Put(s, m)
            BY <1>5 DEF NewHandle
        <2>2. OpenedFacts(sock[s], c.id, p, t, P, z, m)
            BY <1>2, <2>1, OpenedFields DEF Outcome, Id
        <2>. HIDE DEF m
        <2>3. Begins(m)
            BY <1>1, <1>2, <1>3, <2>1, <2>2 DEF Begins, OpenedFacts, CmdLive
        <2>4. t \in {"INVALID", "RESERVE"} => ~Active(m)
            BY <2>1, <2>2 DEF Outcome, OpenedFacts, Active, Dead, Fresh
        <2>5. late' = late /\ (ended' = ended \/ (ended' = ended \cup {c.id} /\ ~Active(m)))
            BY <1>5, <2>4, Reports DEF NewHandle, report
        <2>. QED
            BY <1>1, <1>2, <2>1, <2>3, <2>5, TakeLive
    <1>. QED
        BY <1>0, <1>4, <1>5 DEF OpenResult

LEMMA LiveAddress ==
    ASSUME SockInv, SockInv', LiveInv, NEW c, set_udp_address(c) PROVE LiveInv'
PROOF
    <1> DEFINE s == HASH_ID(c.id)
               m == [sock[s] EXCEPT !.address = TRUE]
    <1>0. HasId(c) /\ c.cmd = "C"
        BY DEF set_udp_address, HasId
    <1>1. ASSUME Take(c, "none"), UNCHANGED <<sock, report>> PROVE LiveInv'
        BY <1>0, <1>1, TakeLive, FollowsSame DEF report
    <1>2. ASSUME Take(c, "none"), UNCHANGED report, Put(s, m) PROVE LiveInv'
        <2>1. sock[s] \in SlotType
            BY <1>0, <1>2, TakenHead
        <2>2. /\ m.type = sock[s].type /\ m.id = sock[s].id /\ m.protocol = sock[s].protocol
              /\ m.closing = sock[s].closing /\ m.pending = sock[s].pending
              /\ m.inflight = sock[s].inflight
            BY <2>1 DEF SlotType
        <2>3. Put(s, m)
            BY <1>2
        <2>. HIDE DEF m
        <2>4. Follows(sock[s], m)
            BY <2>2 DEF Follows, Dead, Fresh
        <2>. QED
            BY <1>0, <1>2, <2>3, <2>4, TakeLive DEF report
    <1>3. ASSUME Take(c, "ERROR"), Report(c.id, "ERROR"), UNCHANGED sock PROVE LiveInv'
        <2>1. c.id \in udp /\ s \in Slot
            BY <1>0, <1>3, TakeGo, TakenHead DEF CmdLive
        <2>2. Active(sock[s]) => sock[s].id # c.id
            BY <2>1 DEF LiveInv, SlotLive, Active
        <2>. QED
            BY <1>0, <1>3, <2>2, TakeLive, FollowsSame, Reports
    <1>. QED
        BY <1>1, <1>2, <1>3 DEF set_udp_address

LEMMA LiveNoEffect ==
    ASSUME SockInv, LiveInv, NEW c, NoEffect(c) PROVE LiveInv'
PROOF
    <1>1. UNCHANGED <<sock, ended, late>> /\ \E ret : Take(c, ret)
        BY DEF NoEffect, report
    <1>2. CallsGo
        BY <1>1, TakeGo
    <1>3. SlotsGo /\ Ends({})
        BY <1>1, FollowsSame DEF SlotsGo, Ends
    <1>. QED
        BY <1>2, <1>3, LiveStep DEF SockInv

LEMMA LiveStarts ==
    ASSUME SockInv, SockInv', LiveInv, NEW c, HasId(c), NEW t, NEW P,
           Starts(c, sock[HASH_ID(c.id)], t, P),
           sock[HASH_ID(c.id)].type \in {"PACCEPT", "PLISTEN"}
    PROVE  LiveInv'
PROOF
    <1> DEFINE s == HASH_ID(c.id)
               m == [sock[s] EXCEPT !.type = t, !.pending = @ \cup P]
    <1>1. ASSUME Take(c, "OPEN"), Report(c.id, "OPEN"), Put(s, m) PROVE LiveInv'
        <2>1. sock[s] \in SlotType
            BY <1>1, TakenHead
        <2>2. m.id = sock[s].id /\ m.protocol = sock[s].protocol /\ m.closing = sock[s].closing
            BY <2>1 DEF SlotType
        <2>3. Put(s, m) /\ UNCHANGED <<ended, late>>
            BY <1>1, Reports DEF report
        <2>. HIDE DEF m
        <2>4. Follows(sock[s], m)
            BY <2>2 DEF Follows, Dead, Fresh
        <2>. QED
            BY <1>1, <2>3, <2>4, TakeLive
    <1>2. ASSUME Take(c, "ERROR"), Report(c.id, "ERROR"), Put(s, force_close(sock[s])) PROVE LiveInv'
        <2>1. sock[s] \in SlotType /\ SlotInv(sock[s], fault)
            BY <1>2, TakenHead
        <2>2. Follows(sock[s], force_close(sock[s])) /\ ~Active(force_close(sock[s]))
            BY <2>1, ForceFollows
        <2>. QED
            BY <1>2, <2>2, TakeLive, Reports
    <1>. QED
        BY <1>1, <1>2 DEF Starts

LEMMA LiveStart ==
    ASSUME SockInv, SockInv', LiveInv, NEW c, start_socket(c) PROVE LiveInv'
PROOF
    <1> DEFINE k == sock[HASH_ID(c.id)]
    <1>0. HasId(c)
        BY DEF start_socket, HasId
    <1>1. ASSUME ~Found(c), Take(c, "ERROR"), Report(c.id, "ERROR"), UNCHANGED sock PROVE LiveInv'
        <2>1. Active(k) => k.id # c.id
            BY <1>1 DEF Found, Active, Dead
        <2>. QED
            BY <1>0, <1>1, <2>1, TakeLive, FollowsSame, Reports
    <1>2. ASSUME k.type \in {"PACCEPT", "PLISTEN"}, NEW t, NEW P, Starts(c, k, t, P) PROVE LiveInv'
        BY <1>0, <1>2, LiveStarts
    <1>3. ASSUME NEW ret, Take(c, ret), Report(c.id, "OPEN") \/ UNCHANGED report, UNCHANGED sock
          PROVE  LiveInv'
        BY <1>0, <1>3, TakeLive, FollowsSame, Reports DEF report
    <1>. QED
        BY <1>1, <1>2, <1>3 DEF start_socket

LEMMA LiveClose ==
    ASSUME SockInv, SockInv', LiveInv, NEW c, close_socket(c) PROVE LiveInv'
PROOF
    <1> DEFINE s == HASH_ID(c.id)
               k == sock[s]
    <1>0. HasId(c)
        BY DEF close_socket, HasId
    <1>1. ASSUME ~Found(c), Take(c, "CLOSE"), Report(c.id, "CLOSE"), UNCHANGED sock PROVE LiveInv'
        <2>1. Active(k) => k.id # c.id
            BY <1>1 DEF Found, Active, Dead
        <2>. QED
            BY <1>0, <1>1, <2>1, TakeLive, FollowsSame, Reports
    <1>2. ASSUME Take(c, "CLOSE"), Report(c.id, "CLOSE"), Put(s, force_close(k)) PROVE LiveInv'
        <2>1. k \in SlotType /\ SlotInv(k, fault)
            BY <1>0, <1>2, TakenHead
        <2>2. Follows(k, force_close(k)) /\ ~Active(force_close(k))
            BY <2>1, ForceFollows
        <2>. QED
            BY <1>0, <1>2, <2>2, TakeLive, Reports
    <1>3. ASSUME NEW r \in send_buffer(k), r.fail, Take(c, "CLOSE"), Put(s, r.k), UNCHANGED report
          PROVE  LiveInv'
        <2>1. k \in SlotType
            BY <1>0, <1>3, TakenHead
        <2>2. r.k = k
            BY <1>3, <2>1, SendBuffer
        <2>. QED
            BY <1>0, <1>3, <2>2, TakeLive, FollowsSame DEF report
    <1>4. ASSUME Found(c), ~send_buffer_empty(k), NEW r \in send_buffer(k), ~r.fail, Take(c, "none"),
                 Put(s, [r.k EXCEPT !.type = "HALFCLOSE"]), UNCHANGED report
          PROVE  LiveInv'
        <2> DEFINE m == [r.k EXCEPT !.type = "HALFCLOSE"]
        <2>1. k \in SlotType /\ SlotInv(k, fault) /\ k.type # "INVALID"
            BY <1>0, <1>4, TakenHead DEF Found
        <2>2. ~Fresh(k)
            BY <1>4, <2>1, HalfInv
        <2>3. r.k \in SlotType /\ r.k.id = k.id /\ r.k.protocol = k.protocol /\ r.k.closing = k.closing
            BY <1>4, <2>1, SendKeeps
        <2>4. m.id = k.id /\ m.protocol = k.protocol /\ m.closing = k.closing /\ Put(s, m)
            BY <1>4, <2>3 DEF SlotType
        <2>. HIDE DEF m
        <2>5. Follows(k, m)
            BY <2>1, <2>2, <2>4 DEF Follows, Dead
        <2>. QED
            BY <1>0, <1>4, <2>4, <2>5, TakeLive DEF report
    <1>. QED
        BY <1>1, <1>2, <1>3, <1>4 DEF close_socket

LEMMA LiveSendSocket ==
    ASSUME SockInv, SockInv', LiveInv, NEW c, send_socket(c) PROVE LiveInv'
PROOF
    <1> DEFINE s == HASH_ID(c.id)
               j == sock[s]
               l == ListOf(j, c.cmd = "P")
               ok == AddressOk(j, c)
               k == append(j, l, c.buf, ok)
    <1>0. HasId(c) /\ Take(c, "none") /\ c.cmd \in Sends /\ UNCHANGED <<ended, late>>
        BY DEF send_socket, HasId, Sends, report
    <1>1. c \in Cmd /\ j \in SlotType /\ SlotInv(j, fault)
        BY <1>0, TakenHead
    <1>2. c.buf \in 1 .. MaxBuf /\ l \in Lists /\ ok \in BOOLEAN
        <2>1. c.buf \in 1 .. MaxBuf /\ (c.cmd = "A" => c.v4 \in BOOLEAN)
            BY <1>0, <1>1, CmdFields
        <2>2. l \in Lists
            BY DEF ListOf, Lists
        <2>3. j.address \in BOOLEAN
            BY <1>1 DEF SlotType
        <2>4. ok \in BOOLEAN
            BY <2>1, <2>3 DEF AddressOk
        <2>. QED
            BY <2>1, <2>2, <2>4
    <1>3. AppendFacts(j, l, ItemOf(c.buf, ok), k)
        BY <1>1, <1>2, AppendFields
    <1>4. ASSUME UNCHANGED sock PROVE LiveInv'
        BY <1>0, <1>4, TakeLive, FollowsSame
    <1>5. ASSUME Put(s, k) PROVE LiveInv'
        <2>1. Put(s, k)
            BY <1>5
        <2>. HIDE DEF k
        <2>2. Follows(j, k)
            BY <1>3 DEF AppendFacts, Follows, Dead, Fresh
        <2>. QED
            BY <1>0, <2>1, <2>2, TakeLive
    <1>6. ASSUME ~Drops(c), k.protocol = "TCP", l = "high", ~k.write, NEW r \in send_buffer(k), Put(s, r.k)
          PROVE  LiveInv'
        <2>1. j.protocol = "TCP" /\ ~j.write /\ j.type # "INVALID"
            BY <1>3, <1>6 DEF AppendFacts, Drops, Found
        <2>2. r \in send_buffer(append(j, "high", c.buf, ok))
            BY <1>6
        <2>. HIDE DEF l, ok, k
        <2>3. Fresh(j) => Fresh(r.k)
            BY <1>1, <1>2, <2>1, <2>2, StartInv
        <2>4. r.k.id = j.id /\ r.k.protocol = j.protocol /\ r.k.closing = j.closing
            BY <1>3, <1>6, SendKeeps DEF AppendFacts
        <2>5. Follows(j, r.k)
            BY <2>1, <2>3, <2>4 DEF Follows, Dead
        <2>. QED
            BY <1>0, <1>6, <2>5, TakeLive
    <1>. QED
        BY <1>4, <1>5, <1>6 DEF send_socket

-----------------------------------------------------------------------------
(* The callbacks.                                                          *)

LEMMA LiveRead == ASSUME SockInv, LiveInv, NEW s \in Slot, read_cb(s) PROVE LiveInv'
PROOF
    <1> DEFINE k == force_close(sock[s])
               m == Less(k, "read")
    <1>0. Callback /\ alloc_id' = alloc_id /\ "read" \in sock[s].pending /\ ~sock[s].closing
        BY DEF read_cb, Reading
    <1>1. sock[s] \in SlotType /\ SlotInv(sock[s], fault) /\ SlotLive(sock[s], ended, udp)
        BY DEF SockInv, TypeOK, SlotsInv, LiveInv
    <1>2. Active(sock[s]) /\ sock[s].id \notin ended
        <2>1. Active(sock[s])
            BY <1>0, <1>1 DEF Active, Dead, Fresh, SlotInv, SlotType
        <2>. QED
            BY <1>1, <2>1 DEF SlotLive, Active
    <1>3. ASSUME Report(sock[s].id, "DATA"), UNCHANGED sock PROVE LiveInv'
        <2>1. UNCHANGED <<ended, late>>
            BY <1>2, <1>3 DEF Report, forward_message
        <2>. QED
            BY <1>0, <1>3, <2>1, CallLive, FollowsSame
    <1>4. ASSUME Report(sock[s].id, "ERROR"), Put(s, m) PROVE LiveInv'
        <2>1. ForceFacts(sock[s], k)
            BY <1>1, ForceFields
        <2>2. k \in SlotType
            BY <2>1 DEF ForceFacts
        <2>3. LessFacts(k, "read", m)
            BY <2>2, LessFields
        <2>4. Put(s, m)
            BY <1>4
        <2>. HIDE DEF m, k
        <2>5. m.id = sock[s].id /\ m.protocol = sock[s].protocol /\ m.closing
            BY <1>0, <1>1, <2>1, <2>3 DEF ForceFacts, LessFacts, SlotInv
        <2>6. Follows(sock[s], m) /\ ~Active(m)
            BY <1>2, <2>5 DEF Follows, Active
        <2>. QED
            BY <1>0, <1>2, <1>4, <2>4, <2>6, CallLive, Reports DEF Active
    <1>. QED
        BY <1>3, <1>4 DEF read_cb, Less

LEMMA LiveAborted == ASSUME SockInv, LiveInv, NEW s \in Slot, Aborted(s) PROVE LiveInv'
PROOF
    <1>0. Callback /\ UNCHANGED <<alloc_id, ended, late>> /\ sock[s].closing
        BY DEF Aborted, report
    <1>1. PICK p \in sock[s].pending : Put(s, Less(sock[s], p))
        BY DEF Aborted, Less
    <1>2. sock[s] \in SlotType
        BY DEF SockInv, TypeOK
    <1>3. LessFacts(sock[s], p, Less(sock[s], p))
        BY <1>2, LessFields
    <1>4. Follows(sock[s], Less(sock[s], p))
        BY <1>0, <1>3 DEF Follows, Dead, Fresh, LessFacts
    <1>. QED
        BY <1>0, <1>1, <1>4, CallLive

LEMMA LiveConnect == ASSUME SockInv, LiveInv, NEW s \in Slot, connect_cb_(s) PROVE LiveInv'
PROOF
    <1> DEFINE k == Less(sock[s], "connect")
               m == [k EXCEPT !.type = "CONNECTED", !.pending = @ \cup {"read"}]
    <1>0. Callback /\ alloc_id' = alloc_id /\ "connect" \in sock[s].pending
        BY DEF connect_cb_
    <1>1. sock[s] \in SlotType /\ SlotInv(sock[s], fault)
        BY DEF SockInv, TypeOK, SlotsInv
    <1>2. ~Dead(sock[s])
        BY <1>0, <1>1 DEF Dead, Fresh, SlotInv
    <1>3. LessFacts(sock[s], "connect", k)
        BY <1>1, LessFields
    <1>4. /\ k \in SlotType /\ k.id = sock[s].id /\ k.protocol = sock[s].protocol
          /\ k.closing = sock[s].closing /\ k.type = sock[s].type
        BY <1>3 DEF LessFacts
    <1>5. ASSUME Report(k.id, "OPEN"), Put(s, m) PROVE LiveInv'
        <2>. HIDE DEF k
        <2>1. m.id = k.id /\ m.protocol = k.protocol /\ m.closing = k.closing
            BY <1>4 DEF SlotType
        <2>2. Put(s, m) /\ UNCHANGED <<ended, late>>
            BY <1>5, Reports DEF report
        <2>. HIDE DEF m
        <2>3. Follows(sock[s], m)
            BY <1>2, <1>4, <2>1 DEF Follows
        <2>. QED
            BY <1>0, <2>2, <2>3, CallLive
    <1>6. ASSUME Report(k.id, "ERROR"), Put(s, force_close(k)) PROVE LiveInv'
        <2> DEFINE n == force_close(k)
        <2>. HIDE DEF k
        <2>1. ForceFacts(k, n) /\ k.type = "CONNECTING"
            BY <1>0, <1>1, <1>4, ForceFields DEF SlotInv
        <2>2. Put(s, n) /\ late' = late /\ ended' = ended \cup {sock[s].id}
            BY <1>4, <1>6, Reports
        <2>. HIDE DEF n
        <2>3. Follows(sock[s], n) /\ ~Active(n)
            BY <1>2, <1>4, <2>1 DEF ForceFacts, Follows, Active
        <2>. QED
            BY <1>0, <1>2, <2>2, <2>3, CallLive
    <1>. QED
        BY <1>5, <1>6 DEF connect_cb_, Less

LEMMA LiveWrite == ASSUME SockInv, LiveInv, NEW s \in Slot, write_cb_(s) PROVE LiveInv'
PROOF
    <1> DEFINE j == sock[s]
               l == Head(j.inflight).list
               k == Back(j)
    <1>0. Callback /\ UNCHANGED <<alloc_id, ended, late>> /\ j.inflight # <<>>
        BY DEF write_cb_, report
    <1>1. j \in SlotType /\ SlotInv(j, fault)
        BY DEF SockInv, TypeOK, SlotsInv
    <1>2. Head(j.inflight) \in Req /\ ~Dead(j)
        BY <1>0, <1>1, BackInv DEF Dead, Fresh
    <1>3. BackFacts(j, k)
        BY <1>0, <1>1, BackFields
    <1>4. k \in SlotType /\ k.id = j.id /\ k.protocol = j.protocol /\ k.closing = j.closing
        BY <1>3 DEF BackFacts
    <1>5. ASSUME NEW m, Put(s, m), m.id = j.id, m.protocol = j.protocol, m.closing = j.closing
          PROVE  LiveInv'
        <2>1. Follows(j, m)
            BY <1>2, <1>5 DEF Follows
        <2>. QED
            BY <1>0, <1>5, <2>1, CallLive
    <1>6. ASSUME Put(s, k) PROVE LiveInv'
        BY <1>4, <1>5, <1>6
    <1>7. ASSUME k[l] # <<>>, NEW r \in SendNext(Off(k, l), l), Put(s, r.k) PROVE LiveInv'
        <2>1. l \in Lists
            BY <1>2 DEF Req
        <2>. HIDE DEF k, l
        <2>2. OffFacts(k, l, Off(k, l))
            BY <1>4, <1>7, <2>1, OffFields
        <2>3. /\ Off(k, l) \in SlotType /\ Off(k, l).id = k.id
              /\ Off(k, l).protocol = k.protocol /\ Off(k, l).closing = k.closing
            BY <2>2 DEF OffFacts
        <2>4. /\ r.k.id = Off(k, l).id /\ r.k.protocol = Off(k, l).protocol
              /\ r.k.closing = Off(k, l).closing
            BY <1>7, <2>1, <2>3, SendKeeps DEF SendNext
        <2>. QED
            BY <1>4, <1>5, <1>7, <2>3, <2>4
    <1>. QED
        BY <1>6, <1>7 DEF write_cb_, Back, Off

LEMMA LiveConnection == ASSUME SockInv, LiveInv, NEW s \in Slot, connection_cb(s) PROVE LiveInv'
PROOF
    <1>0. /\ Callback /\ "accept" \in sock[s].pending /\ ~sock[s].closing
          /\ TypeOK /\ alloc_id \in Nat
        BY Connection DEF SockInv, TypeOK
    <1>1. sock[s] \in SlotType /\ SlotInv(sock[s], fault) /\ SlotLive(sock[s], ended, udp)
        BY DEF SockInv, TypeOK, SlotsInv, LiveInv
    <1>2. Active(sock[s]) /\ sock[s].id \notin ended
        <2>1. Active(sock[s])
            BY <1>0, <1>1 DEF Active, Dead, Fresh, SlotInv, SlotType
        <2>. QED
            BY <1>1, <2>1 DEF SlotLive, Active
    <1>3. UNCHANGED <<cmd_queue, opening, udp>>
        BY <1>0 DEF Callback
    <1>4. ASSUME alloc_id' \in Nat, alloc_id <= alloc_id', SlotsGo, UNCHANGED <<ended, late>> PROVE LiveInv'
        <2>1. CallsGo
            BY <1>3, <1>4 DEF CallsGo
        <2>2. Ends({})
            BY <1>4 DEF Ends
        <2>. QED
            BY <1>0, <1>4, <2>1, <2>2, LiveStep
    <1>5. ASSUME NEW n \in 1 .. MAX_SOCKET, NEW m, NEW j,
                 j = [sock[HASH_ID(alloc_id + n)] EXCEPT !.type = "RESERVE"],
                 reserve_id(n), alloc_id' = alloc_id + n, Put(HASH_ID(alloc_id + n), m),
                 \/ m = Opened(j, alloc_id + n, "TCP", "PACCEPT", {}, FALSE)
                 \/ m = Opened(j, alloc_id + n, "TCP", "RESERVE", {}, TRUE),
                 Report(sock[s].id, "ACCEPT") \/ UNCHANGED report
          PROVE  LiveInv'
        <2> DEFINE id == alloc_id + n
                   t == HASH_ID(id)
        <2>1. id \in Id /\ id \in Nat /\ alloc_id < id /\ t \in Slot
            BY <1>0, <1>5, ReserveId
        <2>2. Put(t, m) /\ alloc_id' = id
            BY <1>5
        <2>3. TypedFacts(sock[t], "RESERVE", j)
            BY <1>0, <1>5, <2>1, TypedFields DEF Types, TypeOK
        <2>4. j \in SlotType
            BY <2>3 DEF TypedFacts
        <2>5. PICK y \in {"PACCEPT", "RESERVE"}, z \in BOOLEAN : m = Opened(j, id, "TCP", y, {}, z)
            BY <1>5
        <2>. HIDE DEF t, id
        <2>6. OpenedFacts(j, id, "TCP", y, {}, z, m)
            BY <2>1, <2>4, <2>5, OpenedFields DEF Types
        <2>7. m.id = id
            BY <2>6 DEF OpenedFacts
        <2>8. id # 0 /\ id > alloc_id /\ id \notin udp /\ alloc_id <= id
            <3>1. id # 0 /\ id > alloc_id /\ ~(id <= alloc_id) /\ alloc_id <= id
                BY <1>0, <2>1
            <3>. QED
                BY <3>1 DEF LiveInv
        <2>9. Begins(m)
            BY <2>1, <2>7, <2>8 DEF Begins, Unopened
        <2>10. sock'[t] = m /\ \A u \in Slot : u # t => sock'[u] = sock[u]
            BY <1>0, <2>1, <2>2, PutSlot
        <2>11. SlotsGo
            BY <2>9, <2>10, FollowsSame DEF SlotsGo
        <2>12. UNCHANGED <<ended, late>>
            BY <1>2, <1>5 DEF Report, forward_message, report
        <2>. QED
            BY <1>4, <2>1, <2>2, <2>8, <2>11, <2>12
    <1>6. ASSUME alloc_id' = alloc_id + MAX_SOCKET, UNCHANGED <<sock, report>> PROVE LiveInv'
        <2>1. alloc_id' \in Nat /\ alloc_id <= alloc_id'
            BY <1>0, <1>6, SocketAssumption
        <2>. QED
            BY <1>4, <1>6, <2>1, FollowsSame DEF SlotsGo, report
    <1>7. ASSUME Report(sock[s].id, "ERROR"), Put(s, force_close(sock[s])), UNCHANGED alloc_id
          PROVE  LiveInv'
        <2>1. Follows(sock[s], force_close(sock[s])) /\ ~Active(force_close(sock[s]))
            BY <1>1, ForceFollows
        <2>. QED
            BY <1>0, <1>2, <1>7, <2>1, CallLive, Reports DEF Active
    <1>. QED
        BY <1>5, <1>6, <1>7, Connection

LEMMA LiveClosed == ASSUME SockInv, LiveInv, NEW s \in Slot, close_cb(s) PROVE LiveInv'
PROOF
    <1> DEFINE m == [sock[s] EXCEPT !.type = "INVALID", !.closing = FALSE]
    <1>0. Callback /\ UNCHANGED <<alloc_id, ended, late>> /\ Put(s, m)
        BY DEF close_cb, report
    <1>1. m.type = "INVALID"
        BY DEF SockInv, TypeOK, SlotType
    <1>. HIDE DEF m
    <1>2. Follows(sock[s], m)
        BY <1>1 DEF Follows, Dead
    <1>. QED
        BY <1>0, <1>2, CallLive

-----------------------------------------------------------------------------
(* The calls, and the end of the loop.                                     *)

\* A step that reports nothing.
LEMMA QuietLive ==
    ASSUME SockInv, LiveInv, CallsGo, SlotsGo, UNCHANGED <<ended, late>> PROVE LiveInv'
PROOF
    <1>1. Ends({})
        BY DEF Ends
    <1>. QED
        BY <1>1, LiveStep DEF SockInv

LEMMA LiveReserve == ASSUME SockInv, LiveInv, NEW kind, ApiReserve(kind) PROVE LiveInv'
PROOF
    <1>0. TypeOK /\ alloc_id \in Nat /\ UNCHANGED <<cmd_queue, udp, ended, late>>
        BY DEF SockInv, TypeOK, ApiReserve, report
    <1>1. ASSUME NEW n \in 1 .. MAX_SOCKET, reserve_id(n), alloc_id' = alloc_id + n,
                 opening' = [kind |-> kind, id |-> alloc_id + n],
                 sock' = [sock EXCEPT ![HASH_ID(alloc_id + n)].type = "RESERVE"]
          PROVE  LiveInv'
        <2> DEFINE id == alloc_id + n
                   t == HASH_ID(id)
                   m == [sock[t] EXCEPT !.type = "RESERVE"]
        <2>1. id \in Nat /\ alloc_id < id /\ t \in Slot /\ sock[t].type = "INVALID"
            BY <1>0, <1>1, ReserveId
        <2>2. alloc_id' = id /\ opening'.id = id /\ sock' = [sock EXCEPT ![t] = m]
            BY <1>1
        <2>3. sock[t] \in SlotType /\ SlotInv(sock[t], fault)
            BY <2>1 DEF SockInv, TypeOK, SlotsInv
        <2>4. TypedFacts(sock[t], "RESERVE", m)
            BY <2>3, TypedFields DEF Types
        <2>. HIDE DEF m, t, id
        <2>5. Dead(m)
            BY <2>1, <2>3, <2>4 DEF TypedFacts, Dead, Fresh, SlotInv
        <2>6. sock'[t] = m /\ \A u \in Slot : u # t => sock'[u] = sock[u]
            BY <1>0, <2>1, <2>2, PutSlot DEF Put
        <2>7. SlotsGo
            <3>1. Follows(sock[t], m)
                BY <2>5 DEF Follows
            <3>. QED
                BY <2>6, <3>1, FollowsSame DEF SlotsGo
        <2>8. alloc_id' \in Nat /\ alloc_id <= alloc_id' /\ opening'.id > alloc_id
            BY <1>0, <2>1, <2>2
        <2>9. CallsGo
            BY <1>0, <2>8 DEF CallsGo
        <2>. QED
            BY <1>0, <2>7, <2>9, QuietLive
    <1>2. ASSUME alloc_id' = alloc_id + MAX_SOCKET, UNCHANGED <<sock, opening>> PROVE LiveInv'
        <2>1. alloc_id' \in Nat /\ alloc_id <= alloc_id'
            BY <1>0, <1>2, SocketAssumption
        <2>2. CallsGo /\ SlotsGo
            BY <1>0, <1>2, <2>1, FollowsSame DEF CallsGo, SlotsGo
        <2>. QED
            BY <1>0, <2>2, QuietLive
    <1>. QED
        BY <1>1, <1>2 DEF ApiReserve

\* A command is queued.
LEMMA LivePush ==
    ASSUME SockInv, LiveInv, NEW c \in Cmd, ~IsOpen(c), CmdLive(c, udp),
           cmd_queue' = Append(cmd_queue, c) \/ cmd_queue' = cmd_queue,
           UNCHANGED <<sock, alloc_id, opening, udp, ended, late>>
    PROVE  LiveInv'
PROOF
    <1>0. cmd_queue \in Seq(Cmd) /\ alloc_id \in Nat
        BY DEF SockInv, TypeOK
    <1>1. \A i \in 1 .. Len(cmd_queue') :
             \/ \E j \in 1 .. Len(cmd_queue) : cmd_queue'[i] = cmd_queue[j]
             \/ cmd_queue'[i] = c
        <2>1. CASE cmd_queue' = cmd_queue
            BY <2>1
        <2>2. CASE cmd_queue' = Append(cmd_queue, c)
            <3>1. Pushed(cmd_queue, c, cmd_queue')
                BY <1>0, <2>2, AppendPushed
            <3>. QED
                BY <3>1 DEF Pushed
        <2>. QED
            BY <2>1, <2>2
    <1>2. CallsGo
        BY <1>0, <1>1 DEF CallsGo
    <1>3. SlotsGo
        BY FollowsSame DEF SlotsGo
    <1>. QED
        BY <1>2, <1>3, QuietLive

LEMMA LiveCommands ==
    ASSUME SockInv, LiveInv,
           \/ socket_server_exit
           \/ \E id \in Known : \/ socket_server_start(id) \/ socket_server_close(id)
                                \/ socket_server_nodelay(id) \/ socket_server_udp_connect(id)
    PROVE  LiveInv'
PROOF
    <1>0. TypeOK
        BY DEF SockInv
    <1>1. ASSUME NEW k, NEW c \in Cmd, ~IsOpen(c), CmdLive(c, udp), ApiCommand(k, c) PROVE LiveInv'
        <2>1. /\ cmd_queue' = Append(cmd_queue, c)
              /\ UNCHANGED <<sock, alloc_id, opening, udp, ended, late>>
            BY <1>1 DEF ApiCommand, send_request, report
        <2>. QED
            BY <1>1, <2>1, LivePush
    <1>2. CASE socket_server_exit
        <2>1. [cmd |-> "X"] \in Cmd /\ ~IsOpen([cmd |-> "X"]) /\ CmdLive([cmd |-> "X"], udp)
            BY DEF Cmd, Opens, IsOpen, CmdLive
        <2>. QED
            BY <1>1, <1>2, <2>1 DEF socket_server_exit
    <1>3. ASSUME NEW id \in Known, NEW k \in {"S", "K", "T"}, ApiCommand(k, [cmd |-> k, id |-> id])
          PROVE  LiveInv'
        <2> DEFINE c == [cmd |-> k, id |-> id]
        <2>1. c \in Cmd /\ c.cmd = k
            BY <1>0, KnownId DEF Cmd
        <2>2. ApiCommand(k, c)
            BY <1>3
        <2>. HIDE DEF c
        <2>3. ~IsOpen(c) /\ CmdLive(c, udp)
            BY <2>1 DEF IsOpen, Opens, CmdLive
        <2>. QED
            BY <1>1, <2>1, <2>2, <2>3
    <1>4. ASSUME NEW id \in Known, socket_server_udp_connect(id) PROVE LiveInv'
        <2>1. PICK f \in BOOLEAN : ApiCommand("C", [cmd |-> "C", id |-> id, v4 |-> f])
            BY <1>4 DEF socket_server_udp_connect
        <2> DEFINE c == [cmd |-> "C", id |-> id, v4 |-> f]
        <2>2. c \in Cmd /\ c.cmd = "C" /\ c.id = id
            BY <1>0, KnownId DEF Cmd
        <2>3. ApiCommand("C", c) /\ id \in udp
            BY <1>4, <2>1 DEF socket_server_udp_connect
        <2>. HIDE DEF c
        <2>4. ~IsOpen(c) /\ CmdLive(c, udp)
            BY <2>2, <2>3 DEF IsOpen, Opens, CmdLive
        <2>. QED
            BY <1>1, <2>2, <2>3, <2>4
    <1>5. "S" \in {"S", "K", "T"} /\ "K" \in {"S", "K", "T"} /\ "T" \in {"S", "K", "T"}
        OBVIOUS
    <1>6. ASSUME NEW id \in Known, socket_server_start(id) PROVE LiveInv'
        BY <1>3, <1>5, <1>6 DEF socket_server_start
    <1>7. ASSUME NEW id \in Known, socket_server_close(id) PROVE LiveInv'
        BY <1>3, <1>5, <1>7 DEF socket_server_close
    <1>8. ASSUME NEW id \in Known, socket_server_nodelay(id) PROVE LiveInv'
        BY <1>3, <1>5, <1>8 DEF socket_server_nodelay
    <1>. QED
        BY <1>2, <1>4, <1>6, <1>7, <1>8

LEMMA LiveSend == ASSUME SockInv, LiveInv, NEW id \in Known, Sending(id) PROVE LiveInv'
PROOF
    <1>1. PICK k, c : Given(id, k, c)
        BY SendGiven DEF SockInv
    <1>2. /\ c \in Cmd /\ c.cmd \in Sends
          /\ cmd_queue' = Append(cmd_queue, c) \/ cmd_queue' = cmd_queue
          /\ UNCHANGED <<sock, alloc_id, opening, udp, ended, late>>
        BY <1>1 DEF Given
    <1>3. ~IsOpen(c) /\ CmdLive(c, udp)
        BY <1>2 DEF IsOpen, Opens, Sends, CmdLive
    <1>. QED
        BY <1>2, <1>3, LivePush

\* The socket to come moves from the call to the queue.
LEMMA LiveOpen == ASSUME SockInv, LiveInv, ApiOpen PROVE LiveInv'
PROOF
    <1> DEFINE id == opening.id
               s == HASH_ID(id)
               m == [sock[s] EXCEPT !.id = id]
               c == [cmd |-> opening.kind, id |-> id]
    <1>0. TypeOK /\ OpenInv
        BY DEF SockInv
    <1>1. /\ opening # NoCall /\ sock' = [sock EXCEPT ![s] = m]
          /\ cmd_queue' = Append(cmd_queue, c) /\ opening' = NoCall
          /\ udp' = (IF opening.kind = "U" THEN udp \cup {id} ELSE udp)
          /\ UNCHANGED <<alloc_id, ended, late>>
        BY DEF ApiOpen, send_request, report
    <1>2. /\ opening.kind \in Opens /\ id \in Id /\ id <= alloc_id /\ s \in Slot /\ Fresh(sock[s])
          /\ \A i \in 1 .. Len(cmd_queue) : HasId(cmd_queue[i]) => cmd_queue[i].id # id
        BY <1>0, <1>1, HashOfId DEF OpenInv, Opening
    <1>3. Unopened(id, alloc_id, opening, cmd_queue) /\ id \notin udp
        BY <1>1 DEF Unopened, LiveInv
    <1>4. /\ m.type = sock[s].type /\ m.closing = sock[s].closing
          /\ m.pending = sock[s].pending /\ m.inflight = sock[s].inflight
        BY <1>0, <1>2 DEF TypeOK, SlotType
    <1>5. c \in Cmd /\ c.cmd = opening.kind /\ c.id = id
        BY <1>2 DEF Cmd
    <1>6. cmd_queue \in Seq(Cmd) /\ Pushed(cmd_queue, c, cmd_queue')
        BY <1>0, <1>1, <1>5, AppendPushed DEF TypeOK
    <1>. HIDE DEF m, c, s, id
    <1>7. sock'[s] = m /\ \A t \in Slot : t # s => sock'[t] = sock[t]
        BY <1>0, <1>1, <1>2, PutSlot DEF Put
    <1>8. \A i \in 1 .. Len(cmd_queue') : cmd_queue'[i] = c \/ (i \in 1 .. Len(cmd_queue) /\ cmd_queue'[i] = cmd_queue[i])
        BY <1>6 DEF Pushed
    <1>9. ASSUME NEW e \in ended PROVE e \in Id /\ ~Unopened(e, alloc_id', opening', cmd_queue')
        <2>1. e \in Id /\ ~Unopened(e, alloc_id, opening, cmd_queue) /\ e # id
            BY <1>3 DEF LiveInv
        <2>. QED
            BY <1>1, <1>5, <1>8, <2>1 DEF Unopened
    <1>10. ASSUME NEW t \in Slot PROVE SlotLive(sock'[t], ended, udp')
        <2>1. CASE t = s
            <3>1. Dead(m)
                BY <1>2, <1>4 DEF Dead, Fresh
            <3>. QED
                BY <1>7, <2>1, <3>1 DEF SlotLive
        <2>2. CASE t # s
            <3>1. sock'[t] = sock[t] /\ SlotLive(sock[t], ended, udp)
                BY <1>7, <2>2 DEF LiveInv
            <3>2. ~Dead(sock[t]) => sock[t].id # id
                BY <1>3, <3>1, OpenedId DEF SlotLive
            <3>. QED
                BY <1>1, <3>1, <3>2 DEF SlotLive
        <2>. QED
            BY <2>1, <2>2
    <1>11. \A u \in udp' : u <= alloc_id /\ (opening' # NoCall => u # opening'.id)
        BY <1>1, <1>2 DEF LiveInv
    <1>12. ASSUME NEW i \in 1 .. Len(cmd_queue') PROVE CmdLive(cmd_queue'[i], udp')
        <2>1. CASE cmd_queue'[i] = c
            BY <1>1, <1>2, <1>3, <1>5, <2>1 DEF CmdLive, Opens
        <2>2. CASE i \in 1 .. Len(cmd_queue) /\ cmd_queue'[i] = cmd_queue[i]
            <3>1. CmdLive(cmd_queue[i], udp) /\ (IsOpen(cmd_queue[i]) => cmd_queue[i].id # id)
                BY <1>2, <1>6, <2>2, CmdAt DEF LiveInv
            <3>. QED
                BY <1>1, <2>2, <3>1 DEF CmdLive
        <2>. QED
            BY <1>8, <2>1, <2>2
    <1>. QED
        BY <1>1, <1>9, <1>10, <1>11, <1>12 DEF LiveInv

LEMMA LiveRelease == ASSUME SockInv, LiveInv, socket_server_release PROVE LiveInv'
PROOF
    <1>1. /\ UNCHANGED <<cmd_queue, alloc_id, opening, udp, ended, late>>
          /\ sock' = [s \in Slot |-> Shut(sock[s])]
        BY DEF socket_server_release, calls, Shut, report
    <1>2. ASSUME NEW s \in Slot PROVE Follows(sock[s], sock'[s])
        <2>1. sock[s] \in SlotType /\ SlotInv(sock[s], fault) /\ sock'[s] = Shut(sock[s])
            BY <1>1 DEF SockInv, TypeOK, SlotsInv
        <2>. QED
            BY <2>1, ForceFollows, FollowsSame DEF Shut
    <1>3. CallsGo /\ SlotsGo
        BY <1>1, <1>2 DEF CallsGo, SlotsGo, SockInv, TypeOK
    <1>. QED
        BY <1>1, <1>3, QuietLive

LEMMA LiveIdle ==
    ASSUME SockInv, LiveInv, ReleaseDone \/ CmdWake \/ CmdEmpty \/ UNCHANGED vars PROVE LiveInv'
PROOF
    <1>1. /\ UNCHANGED <<sock, alloc_id, opening, udp, ended, late>>
          /\ cmd_queue' = cmd_queue \/ cmd_queue' = <<>>
        BY DEF ReleaseDone, CmdWake, CmdEmpty, vars, calls, report
    <1>2. CallsGo /\ SlotsGo
        BY <1>1, FollowsSame DEF CallsGo, SlotsGo, SockInv, TypeOK
    <1>. QED
        BY <1>1, <1>2, QuietLive

LEMMA LiveNext == ASSUME SockInv, SockInv', LiveInv, [Next]_vars PROVE LiveInv'
PROOF
    <1>1. CASE Api
        <2>1. CASE \/ socket_server_connect \/ socket_server_listen
                   \/ socket_server_bind \/ socket_server_udp
            BY <2>1, LiveReserve DEF socket_server_connect, socket_server_listen,
                                     socket_server_bind, socket_server_udp
        <2>2. CASE ApiOpen
            BY <2>2, LiveOpen
        <2>3. CASE \/ socket_server_exit
                   \/ \E id \in Known : \/ socket_server_start(id) \/ socket_server_close(id)
                                        \/ socket_server_nodelay(id) \/ socket_server_udp_connect(id)
            BY <2>3, LiveCommands
        <2>4. CASE \E id \in Known : Sending(id)
            BY <2>4, LiveSend
        <2>. QED
            BY <1>1, <2>1, <2>2, <2>3, <2>4 DEF Api, Sending
    <1>2. CASE ctrl_cmd
        <2>1. PICK c : \/ OpensSocket(c) \/ set_udp_address(c) \/ NoEffect(c) \/ start_socket(c)
                       \/ close_socket(c) \/ send_socket(c)
            BY <1>2 DEF ctrl_cmd, OpensSocket
        <2>. QED
            BY <2>1, LiveOpening, LiveAddress, LiveNoEffect, LiveStart, LiveClose, LiveSendSocket
    <1>3. ASSUME NEW s \in Slot, Loop(s) PROVE LiveInv'
        BY <1>3, LiveRead, LiveAborted, LiveConnect, LiveWrite, LiveConnection, LiveClosed DEF Loop
    <1>. QED
        BY <1>1, <1>2, <1>3, LiveRelease, LiveIdle DEF Next

LEMMA LiveInit == ASSUME Init PROVE LiveInv
PROOF
    <1>1. \A s \in Slot : Dead(sock[s])
        BY DEF Init, Empty, Dead
    <1>. QED
        BY <1>1 DEF Init, LiveInv, SlotLive
=============================================================================
