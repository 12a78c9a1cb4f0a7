---------------------------- MODULE SocketSteps -----------------------------
(***************************************************************************)
(* Proofs about module SocketServer: every step of the API and of the      *)
(* socket thread keeps the slots and the commands consistent.              *)
(***************************************************************************)
EXTENDS SocketLemmas

-----------------------------------------------------------------------------
LEMMA SlotMore ==
    ASSUME NEW k, NEW f, NEW g, f \subseteq g, SlotInv(k, f)
    PROVE  SlotInv(k, g)
PROOF
    BY DEF SlotInv

LEMMA ForceInv ==
    ASSUME NEW k \in SlotType, NEW f, SlotInv(k, f)
    PROVE  SlotInv(force_close(k), f)
PROOF
    <1>0. ForceFacts(k, force_close(k))
        BY ForceFields
    <1>1. CASE k.type = "INVALID"
        BY <1>0, <1>1 DEF ForceFacts
    <1>2. CASE k.type # "INVALID"
        BY <1>0, <1>2 DEF ForceFacts, SlotInv
    <1>. QED
        BY <1>1, <1>2

\* A slot with a new handle.
LEMMA NewInv ==
    ASSUME NEW m \in SlotType, NEW f, m.inflight = <<>>, ~m.write,
           m.high # <<>> => "wb_list" \in f,
           m.type = "INVALID" => ~m.closing,
           m.type \in {"INVALID", "RESERVE"} => m.pending = {},
           "connect" \in m.pending => m.type = "CONNECTING",
           m.protocol = "UDP" => m.type = "CONNECTED" /\ m.pending = {}
    PROVE  SlotInv(m, f)
PROOF
    BY DEF SlotInv, WriteFaults, SlotType

\* A buffer that is queued, without an attempt to send it.
LEMMA QueueInv ==
    ASSUME NEW k \in SlotType, NEW f, SlotInv(k, f), k.type # "HALFCLOSE",
           NEW l \in Lists, NEW b \in 1 .. MaxBuf, NEW ok \in BOOLEAN,
           k.protocol = "UDP" \/ l = "low" \/ k.write
    PROVE  SlotInv(append(k, l, b, ok), f)
PROOF
    <1> DEFINE m == append(k, l, b, ok)
    <1>1. AppendFacts(k, l, ItemOf(b, ok), m)
        BY AppendFields
    <1>2. k.write /\ k.protocol = "TCP" => k.inflight # <<>> /\ Head(k.inflight).list = "high"
        <2>. SUFFICES ASSUME k.write, k.protocol = "TCP"
                      PROVE  k.inflight # <<>> /\ Head(k.inflight).list = "high"
            OBVIOUS
        <2>1. k.inflight # <<>>
            BY DEF SlotInv
        <2>2. Head(k.inflight) \in Req
            BY <2>1 DEF SlotType
        <2>3. Head(k.inflight).list \in Lists
            BY <2>2 DEF Req
        <2>. QED
            BY <2>1, <2>3 DEF SlotInv, Lists
    <1>. HIDE DEF m
    <1>3. SlotInv(m, f)
        BY <1>1, <1>2 DEF SlotInv, SlotType, AppendFacts
    <1>. QED
        BY <1>3 DEF m

\* The callback of a write that succeeded.
LEMMA WrittenInv ==
    ASSUME NEW k \in SlotType, NEW f, SlotInv(k, f), k.inflight # <<>>,
           NEW l, l = Head(k.inflight).list, k[l] # <<>>,
           NEW r \in send_list(Off(Back(k), l), l), NEW g, f \subseteq g,
           r.fail /\ k.protocol = "TCP" => "uninit" \in g
    PROVE  r.k \in SlotType /\ r.k.id = k.id /\ SlotInv(r.k, g)
PROOF
    <1> DEFINE b == Back(k)
               m == Off(b, l)
    <1>1. /\ Head(k.inflight) \in Req
          /\ k.type \notin {"INVALID", "RESERVE"}
          /\ k.protocol = "TCP" => b.inflight = <<>>
        BY BackInv
    <1>2. BackFacts(k, b)
        BY BackFields
    <1>3. l \in Lists
        BY <1>1 DEF Req
    <1>4. b[l] = k[l]
        BY <1>2, <1>3 DEF BackFacts, Lists
    <1>5. OffFacts(b, l, m)
        BY <1>2, <1>3, <1>4, OffFields DEF BackFacts
    <1>. HIDE DEF b, m
    <1>6. /\ m \in SlotType /\ m.type = k.type /\ m.protocol = k.protocol /\ ~m.write
          /\ m.id = k.id /\ m.pending = k.pending
          /\ k.protocol = "TCP" => m.inflight = <<>>
        BY <1>1, <1>2, <1>5 DEF BackFacts, OffFacts
    <1>7. "connect" \notin k.pending
        BY DEF SlotInv
    <1>8. k.protocol = "TCP" /\ l = "low" => k.type = "HALFCLOSE" /\ m.high = <<>>
        BY <1>2, <1>5 DEF SlotInv, BackFacts, OffFacts
    <1>9. k.protocol = "TCP" /\ f \cap WriteFaults = {} /\ l = "low" => m.high = <<>>
        BY <1>8
    <1>10. CASE r.k = m /\ ~r.fail /\ (Busy(m) \/ m[l] = <<>>)
        <2>1. m[l] = <<>> \/ m.protocol = "UDP"
            BY <1>6, <1>10 DEF Busy
        <2>2. k.protocol = "TCP" => m.high = <<>>
            BY <1>3, <1>6, <1>8, <2>1 DEF Lists
        <2>. QED
            BY <1>1, <1>6, <1>7, <1>10, <2>2 DEF SlotInv
    <1>11. CASE r.k = m /\ r.fail
        <2>1. k.protocol = "TCP" => g \cap WriteFaults # {}
            BY <1>11 DEF WriteFaults
        <2>. QED
            BY <1>1, <1>6, <1>7, <1>11, <2>1 DEF SlotInv
    <1>12. CASE r.k = Sent(m, l) /\ m[l] # <<>>
        <2>1. SentFacts(m, l, r.k)
            BY <1>3, <1>6, <1>12, SentFields
        <2>2. m.inflight \in Seq(Req)
            BY <1>6 DEF SlotType
        <2>3. /\ r.k.inflight # <<>>
              /\ k.protocol = "TCP" => Len(r.k.inflight) = 1 /\ Head(r.k.inflight).list = l
            BY <1>6, <2>1, <2>2 DEF SentFacts
        <2>. QED
            BY <1>1, <1>3, <1>6, <1>7, <1>8, <2>1, <2>3 DEF SentFacts, SlotInv, Lists
    <1>. QED
        BY <1>10, <1>11, <1>12, SendList DEF b, m

-----------------------------------------------------------------------------
(* What the steps have in common.                                          *)

Stays(k, m) == Fresh(k) => Fresh(m) /\ m.id = k.id
\* The commands stay.
LEMMA OpenKept ==
    ASSUME TypeOK, OpenInv, alloc_id' \in Nat, alloc_id <= alloc_id',
           UNCHANGED <<cmd_queue, opening>>, \A s \in Slot : Stays(sock[s], sock'[s])
    PROVE  OpenInv'
PROOF
    <1>1. cmd_queue \in Seq(Cmd) /\ alloc_id \in Nat
        BY DEF TypeOK
    <1>2. Waiting(cmd_queue, sock')
        BY <1>1, CmdAt DEF OpenInv, Waiting, Stays
    <1>3. IdsOf(cmd_queue, alloc_id')
        BY <1>1, CmdAt DEF OpenInv, IdsOf
    <1>4. Opening(cmd_queue, opening, alloc_id', sock')
        <2>1. opening # NoCall => HASH_ID(opening.id) \in Slot /\ opening.id <= alloc_id'
            BY <1>1, HashOfId DEF OpenInv, Opening
        <2>. QED
            BY <2>1 DEF OpenInv, Opening, Stays
    <1>. QED
        BY <1>2, <1>3, <1>4 DEF OpenInv

\* A command is queued that opens nothing.
LEMMA OpenPushed ==
    ASSUME NEW q, NEW p, NEW c, NEW o, NEW n, NEW k, Pushed(q, c, p),
           ~IsOpen(c), HasId(c) => c.id <= n /\ c.id # o.id,
           Waiting(q, k), WaitApart(q), WaitFirst(q), IdsOf(q, n), Opening(q, o, n, k)
    PROVE  Waiting(p, k) /\ WaitApart(p) /\ WaitFirst(p) /\ IdsOf(p, n) /\ Opening(p, o, n, k)
PROOF
    <1>1. \A i \in 1 .. Len(p) : IsOpen(p[i]) => i \in 1 .. Len(q) /\ p[i] = q[i]
        BY DEF Pushed
    <1>2. Waiting(p, k)
        BY <1>1 DEF Waiting
    <1>3. WaitApart(p)
        BY <1>1 DEF WaitApart
    <1>4. WaitFirst(p)
        <2>. SUFFICES ASSUME NEW i \in 1 .. Len(p), NEW j \in 1 .. Len(p), i < j,
                             HasId(p[i]), IsOpen(p[j])
                      PROVE  p[i].id # p[j].id
            BY DEF WaitFirst
        <2>1. j \in 1 .. Len(q) /\ p[j] = q[j]
            BY <1>1
        <2>2. i \in 1 .. Len(q) /\ p[i] = q[i]
            BY <2>1 DEF Pushed
        <2>. QED
            BY <2>1, <2>2 DEF WaitFirst
    <1>5. IdsOf(p, n)
        BY DEF Pushed, IdsOf
    <1>6. Opening(p, o, n, k)
        BY <1>1 DEF Pushed, Opening
    <1>. QED
        BY <1>2, <1>3, <1>4, <1>5, <1>6

\* The slots that are reserved stay so, but for the one that c opens.
Released(c, k, m) ==
    \A s \in Slot : Stays(k[s], m[s]) \/ (IsOpen(c) /\ s = HASH_ID(c.id))

\* The loop has taken the first command; if this opens a socket, its slot is not
\* reserved any more.
LEMMA OpenShifted ==
    ASSUME NEW q \in Seq(Cmd), NEW p, NEW o, NEW n, NEW k, NEW m, Shifted(q, p),
           Released(q[1], k, m),
           Waiting(q, k), WaitApart(q), WaitFirst(q), IdsOf(q, n), Opening(q, o, n, k)
    PROVE  Waiting(p, m) /\ WaitApart(p) /\ WaitFirst(p) /\ IdsOf(p, n) /\ Opening(p, o, n, m)
PROOF
    <1>1. Waiting(p, m)
        <2>. SUFFICES ASSUME NEW i \in 1 .. Len(p), IsOpen(p[i])
                      PROVE  Fresh(m[HASH_ID(p[i].id)]) /\ m[HASH_ID(p[i].id)].id = p[i].id
            BY DEF Waiting
        <2>1. i + 1 \in 1 .. Len(q) /\ i + 1 # 1 /\ p[i] = q[i + 1] /\ 1 \in 1 .. Len(q)
            BY DEF Shifted
        <2>2. HASH_ID(p[i].id) \in Slot
            BY <2>1, CmdAt
        <2>3. IsOpen(q[1]) => HASH_ID(p[i].id) # HASH_ID(q[1].id)
            BY <2>1 DEF WaitApart
        <2>4. Fresh(k[HASH_ID(p[i].id)]) /\ k[HASH_ID(p[i].id)].id = p[i].id
            BY <2>1 DEF Waiting
        <2>. QED
            BY <2>2, <2>3, <2>4 DEF Stays, Released
    <1>2. WaitApart(p)
        BY DEF Shifted, WaitApart
    <1>3. WaitFirst(p)
        BY DEF Shifted, WaitFirst
    <1>4. IdsOf(p, n)
        BY DEF Shifted, IdsOf
    <1>5. Opening(p, o, n, m)
        <2>. SUFFICES ASSUME o # NoCall PROVE Opening(p, o, n, m)
            BY DEF Opening
        <2>1. HASH_ID(o.id) \in Slot /\ (IsOpen(q[1]) => HASH_ID(q[1].id) # HASH_ID(o.id))
            BY HashOfId DEF Opening, Shifted
        <2>2. Fresh(m[HASH_ID(o.id)])
            BY <2>1 DEF Opening, Stays, Released
        <2>. QED
            BY <2>2 DEF Opening, Shifted
    <1>. QED
        BY <1>1, <1>2, <1>3, <1>4, <1>5

\* One slot changes.
Changed(s, m) ==
    /\ sock' \in [Slot -> SlotType] /\ SlotsInv' /\ IdsInv'
    /\ sock'[s] = m /\ \A t \in Slot : t # s => sock'[t] = sock[t]

LEMMA OneSlot ==
    ASSUME TypeOK, SlotsInv, IdsInv, NEW s \in Slot, NEW m \in SlotType, Put(s, m),
           SlotInv(m, fault'), fault \subseteq fault', alloc_id' \in Nat, alloc_id <= alloc_id',
           \/ m.id = sock[s].id
           \/ m.id \in 1 .. alloc_id' /\ HASH_ID(m.id) = s
    PROVE  Changed(s, m)
PROOF
    <1>1. /\ sock' \in [Slot -> SlotType] /\ sock'[s] = m
          /\ \A t \in Slot : t # s => sock'[t] = sock[t]
        BY DEF TypeOK, Put
    <1>2. SlotsInv'
        BY <1>1, SlotMore DEF SlotsInv
    <1>3. \A t \in Slot : sock[t].id = 0 \/ (sock[t].id \in 1 .. alloc_id' /\ HASH_ID(sock[t].id) = t)
        BY DEF IdsInv, TypeOK
    <1>4. IdsInv'
        BY <1>1, <1>3 DEF IdsInv
    <1>. QED
        BY <1>1, <1>2, <1>4 DEF Changed

-----------------------------------------------------------------------------
(* The steps of the API.                                                   *)

LEMMA SockInit == Init => SockInv
PROOF
    <1>. SUFFICES ASSUME Init PROVE SockInv
        OBVIOUS
    <1>1. Empty \in SlotType
        BY DEF Empty, SlotType, Types
    <1>2. TypeOK
        <2>1. use \in [api : SUBSET Kinds, calls : Nat, ids : 0 .. MaxId]
            BY SocketAssumption DEF Init
        <2>2. opening \in [kind : Opens \cup {"none"}, id : 0 .. MaxId]
            BY SocketAssumption DEF Init, NoCall
        <2>3. alloc_id \in Nat /\ alloc_id <= use.ids
            BY <2>1, SocketAssumption DEF Init
        <2>4. sock \in [Slot -> SlotType]
            BY <1>1 DEF Init
        <2>5. /\ cmd_queue \in Seq(Cmd) /\ bufs \in Seq([id : Id, cmd : Sends])
              /\ Len(bufs) <= MaxBuf /\ wire \in [Id -> Seq(1 .. MaxBuf)]
              /\ freed \in [1 .. MaxBuf -> Nat] /\ listener \subseteq Id /\ udp \subseteq Id
            BY SocketAssumption DEF Init
        <2>. QED
            BY <2>1, <2>2, <2>3, <2>4, <2>5 DEF TypeOK
    <1>3. SlotInv(Empty, fault)
        BY DEF Empty, SlotInv
    <1>4. SlotsInv /\ IdsInv
        BY <1>3 DEF Init, SlotsInv, IdsInv, Empty
    <1>5. OpenInv
        BY DEF Init, OpenInv, Waiting, WaitApart, WaitFirst, IdsOf, Opening
    <1>. QED
        BY <1>2, <1>4, <1>5 DEF SockInv, Init

LEMMA UseCall ==
    ASSUME TypeOK, NEW kind, Call(kind)
    PROVE  /\ use' \in [api : SUBSET Kinds, calls : Nat, ids : 0 .. MaxId] /\ use'.ids = use.ids
PROOF
    <1>1. use \in [api : SUBSET Kinds, calls : Nat, ids : 0 .. MaxId] /\ use.calls > 0
        BY DEF TypeOK, Call
    <1>2. use.calls - 1 \in Nat
        BY <1>1
    <1>. QED
        BY <1>1, <1>2 DEF Call

LEMMA StepReserve ==
    ASSUME SockInv, NEW kind \in Opens, ApiReserve(kind)
    PROVE  SockInv'
PROOF
    <1>0. TypeOK /\ SlotsInv /\ IdsInv /\ OpenInv /\ "new_fd" \notin fault
        BY DEF SockInv
    <1>1. /\ UNCHANGED <<cmd_queue, async_sent, running, listener, udp, bufs, freed, wire, report,
                         fault, phase>>
          /\ opening = NoCall
        BY DEF ApiReserve
    <1>2. /\ use' \in [api : SUBSET Kinds, calls : Nat, ids : 0 .. MaxId] /\ use'.ids = use.ids
        BY <1>0, UseCall DEF ApiReserve
    <1>3. ASSUME NEW n \in 1 .. MAX_SOCKET, reserve_id(n), alloc_id' = alloc_id + n,
                 opening' = [kind |-> kind, id |-> alloc_id + n],
                 sock' = [sock EXCEPT ![HASH_ID(alloc_id + n)].type = "RESERVE"]
          PROVE  SockInv'
        <2> DEFINE id == alloc_id + n
                   s == HASH_ID(id)
                   m == [sock[s] EXCEPT !.type = "RESERVE"]
        <2>1. /\ id \in Id /\ id \in Nat /\ alloc_id < id /\ id <= use.ids /\ s \in Slot
              /\ sock[s].type = "INVALID" /\ alloc_id \in Nat
            BY <1>0, <1>3, ReserveId DEF TypeOK
        <2>2. sock[s] \in SlotType /\ SlotInv(sock[s], fault)
            BY <1>0, <2>1 DEF TypeOK, SlotsInv
        <2>3. TypedFacts(sock[s], "RESERVE", m)
            BY <2>2, TypedFields DEF Types
        <2>4. SlotInv(m, fault) /\ Fresh(m)
            BY <2>1, <2>2, <2>3, ReserveInv
        <2>5. m \in SlotType /\ m.id = sock[s].id
            BY <2>3 DEF TypedFacts
        <2>6. Put(s, m)
            BY <1>3 DEF Put
        <2>7. alloc_id' = id /\ opening'.id = id /\ opening'.kind = kind
            BY <1>3
        <2>. HIDE DEF m, s, id
        <2>8. /\ sock' \in [Slot -> SlotType] /\ SlotsInv' /\ IdsInv'
              /\ sock'[s] = m /\ \A t \in Slot : t # s => sock'[t] = sock[t]
            <3>1. SlotInv(m, fault') /\ fault \subseteq fault' /\ alloc_id' \in Nat /\ alloc_id <= alloc_id'
                BY <1>1, <2>1, <2>4, <2>7
            <3>2. Changed(s, m)
                BY <1>0, <2>1, <2>5, <2>6, <3>1, OneSlot
            <3>. QED
                BY <3>2 DEF Changed
        <2>9. opening' \in [kind : Opens \cup {"none"}, id : 0 .. MaxId]
            BY <1>3, <2>1 DEF Id, id
        <2>10. TypeOK'
            BY <1>0, <1>1, <1>2, <2>1, <2>7, <2>8, <2>9 DEF TypeOK
        <2>11. cmd_queue \in Seq(Cmd)
            BY <1>0 DEF TypeOK
        <2>12. \A i \in 1 .. Len(cmd_queue) : IsOpen(cmd_queue[i]) =>
                  HASH_ID(cmd_queue[i].id) \in Slot /\ HASH_ID(cmd_queue[i].id) # s
            BY <1>0, <2>1, <2>11, CmdAt DEF OpenInv, Waiting, Fresh
        <2>13. Waiting(cmd_queue, sock')
            BY <1>0, <2>8, <2>12 DEF OpenInv, Waiting
        <2>14. IdsOf(cmd_queue, id) /\ \A i \in 1 .. Len(cmd_queue) : HasId(cmd_queue[i]) => cmd_queue[i].id # id
            BY <1>0, <2>1, <2>11, CmdAt DEF OpenInv, IdsOf
        <2>15. Opening(cmd_queue, opening', id, sock')
            BY <2>1, <2>4, <2>7, <2>8, <2>12, <2>14 DEF Opening, s
        <2>16. OpenInv'
            BY <1>0, <1>1, <2>7, <2>13, <2>14, <2>15 DEF OpenInv
        <2>. QED
            BY <1>0, <1>1, <2>8, <2>10, <2>16 DEF SockInv
    <1>4. ASSUME alloc_id + MAX_SOCKET <= use.ids, alloc_id' = alloc_id + MAX_SOCKET,
                 UNCHANGED <<sock, opening>>
          PROVE  SockInv'
        <2>1. alloc_id' \in Nat /\ alloc_id \in Nat /\ alloc_id <= alloc_id' /\ alloc_id' <= use'.ids
            BY <1>0, <1>2, <1>4, SocketAssumption DEF TypeOK
        <2>2. TypeOK'
            BY <1>0, <1>1, <1>2, <1>4, <2>1 DEF TypeOK
        <2>3. SlotsInv' /\ IdsInv'
            BY <1>0, <1>1, <1>4, <2>1 DEF SlotsInv, IdsInv
        <2>4. OpenInv'
            BY <1>0, <1>1, <1>4, <2>1, OpenKept DEF Stays
        <2>. QED
            BY <1>0, <1>1, <2>2, <2>3, <2>4 DEF SockInv
    <1>. QED
        BY <1>3, <1>4 DEF ApiReserve

\* A step that queues a command that opens nothing and leaves the slots alone.
LEMMA QueuedInv ==
    ASSUME SockInv, TypeOK', NEW c \in Cmd, c.cmd \notin Opens, c.cmd # "X" => c.id \in Known,
           cmd_queue' = Append(cmd_queue, c), UNCHANGED <<alloc_id, opening, sock, fault>>
    PROVE  SockInv'
PROOF
    <1>1. Pushed(cmd_queue, c, cmd_queue')
        BY AppendPushed DEF SockInv, TypeOK
    <1>2. ~IsOpen(c) /\ (HasId(c) => c.id <= alloc_id /\ c.id # opening.id)
        BY DEF IsOpen, HasId, Known
    <1>3. /\ Waiting(cmd_queue', sock) /\ WaitApart(cmd_queue') /\ WaitFirst(cmd_queue')
          /\ IdsOf(cmd_queue', alloc_id) /\ Opening(cmd_queue', opening, alloc_id, sock)
        BY <1>1, <1>2, OpenPushed DEF SockInv, OpenInv
    <1>4. OpenInv'
        BY <1>3 DEF OpenInv
    <1>. QED
        BY <1>4 DEF SockInv, SlotsInv, IdsInv

LEMMA StepOpen == ASSUME SockInv, ApiOpen PROVE SockInv'
PROOF
    <1>0. TypeOK /\ SlotsInv /\ IdsInv /\ OpenInv /\ "new_fd" \notin fault
        BY DEF SockInv
    <1> DEFINE id == opening.id
               s == HASH_ID(id)
               m == [sock[s] EXCEPT !.id = id]
               c == [cmd |-> opening.kind, id |-> id]
    <1>1. /\ opening # NoCall /\ sock' = [sock EXCEPT ![s] = m]
          /\ cmd_queue' = Append(cmd_queue, c) /\ opening' = NoCall
          /\ listener' \subseteq listener \cup {id} /\ udp' \subseteq udp \cup {id}
          /\ UNCHANGED <<alloc_id, running, use, bufs, freed, wire, report, fault, phase>>
        BY DEF ApiOpen, send_request
    <1>2. /\ opening.kind \in Opens /\ id \in Id /\ id \in Nat /\ id <= alloc_id /\ s \in Slot
          /\ Fresh(sock[s])
        BY <1>0, <1>1, HashOfId DEF OpenInv, Opening
    <1>3. /\ \A i \in 1 .. Len(cmd_queue) : HasId(cmd_queue[i]) => cmd_queue[i].id # id
          /\ \A i \in 1 .. Len(cmd_queue) : IsOpen(cmd_queue[i]) => HASH_ID(cmd_queue[i].id) # s
        BY <1>0, <1>1 DEF OpenInv, Opening
    <1>4. sock[s] \in SlotType /\ SlotInv(sock[s], fault)
        BY <1>0, <1>2 DEF TypeOK, SlotsInv
    <1>5. /\ m \in SlotType /\ m.id = id /\ m.type = sock[s].type /\ m.protocol = sock[s].protocol
          /\ m.write = sock[s].write /\ m.high = sock[s].high /\ m.closing = sock[s].closing
          /\ m.pending = sock[s].pending /\ m.inflight = sock[s].inflight
        BY <1>2, <1>4 DEF SlotType
    <1>6. c \in Cmd /\ c.cmd = opening.kind /\ c.id = id
        BY <1>2 DEF Cmd
    <1>. HIDE DEF m, c
    <1>7. SlotInv(m, fault) /\ Fresh(m)
        BY <1>2, <1>4, <1>5 DEF SlotInv, Fresh
    <1>8. alloc_id \in Nat /\ alloc_id' = alloc_id
        BY <1>0, <1>1 DEF TypeOK
    <1>9. /\ sock' \in [Slot -> SlotType] /\ SlotsInv' /\ IdsInv'
          /\ sock'[s] = m /\ \A t \in Slot : t # s => sock'[t] = sock[t]
        <2>1. m.id \in 1 .. alloc_id' /\ HASH_ID(m.id) = s
            BY <1>2, <1>5, <1>8 DEF Id
        <2>. HIDE DEF s
        <2>2. /\ SlotInv(m, fault') /\ fault \subseteq fault' /\ alloc_id' \in Nat
              /\ alloc_id <= alloc_id' /\ Put(s, m)
            BY <1>1, <1>7, <1>8 DEF Put
        <2>3. Changed(s, m)
            BY <1>0, <1>2, <1>5, <2>1, <2>2, OneSlot
        <2>. QED
            BY <2>3 DEF Changed
    <1>10. TypeOK'
        <2>1. cmd_queue' \in Seq(Cmd)
            BY <1>0, <1>1, <1>6 DEF TypeOK
        <2>2. NoCall \in [kind : Opens \cup {"none"}, id : 0 .. MaxId]
            BY SocketAssumption DEF NoCall
        <2>. QED
            BY <1>0, <1>1, <1>2, <1>9, <2>1, <2>2 DEF TypeOK
    <1>11. cmd_queue \in Seq(Cmd) /\ Pushed(cmd_queue, c, cmd_queue')
        BY <1>0, <1>1, <1>6, AppendPushed DEF TypeOK
    <1>12. IsOpen(c) /\ HasId(c)
        BY <1>2, <1>6 DEF IsOpen, HasId, Opens
    <1> DEFINE q == cmd_queue
               p == cmd_queue'
    <1>13. /\ p[Len(p)] = c
           /\ \A i \in 1 .. Len(p) : i = Len(p) \/ (i \in 1 .. Len(q) /\ p[i] = q[i])
           /\ \A i \in 1 .. Len(p) : i < Len(p) => i \in 1 .. Len(q)
           /\ \A i \in 1 .. Len(q) : i < Len(p)
        BY <1>11 DEF Pushed
    <1>. HIDE DEF p, q, s, id
    <1>14. Waiting(p, sock')
        <2>. SUFFICES ASSUME NEW i \in 1 .. Len(p), IsOpen(p[i])
                      PROVE  Fresh(sock'[HASH_ID(p[i].id)]) /\ sock'[HASH_ID(p[i].id)].id = p[i].id
            BY DEF Waiting
        <2>1. CASE i = Len(p)
            BY <1>5, <1>6, <1>7, <1>9, <1>13, <2>1 DEF s
        <2>2. CASE i \in 1 .. Len(q) /\ p[i] = q[i]
            <3>1. HASH_ID(p[i].id) \in Slot /\ HASH_ID(p[i].id) # s
                BY <1>3, <1>11, <2>2, CmdAt DEF q
            <3>2. Fresh(sock[HASH_ID(p[i].id)]) /\ sock[HASH_ID(p[i].id)].id = p[i].id
                BY <1>0, <2>2 DEF OpenInv, Waiting, q
            <3>. QED
                BY <1>9, <3>1, <3>2
        <2>. QED
            BY <1>13, <2>1, <2>2
    <1>15. WaitApart(q) /\ WaitFirst(q) /\ IdsOf(q, alloc_id)
        BY <1>0 DEF OpenInv, q
    <1>16. /\ \A i \in 1 .. Len(q) : HasId(q[i]) => q[i].id # id
           /\ \A i \in 1 .. Len(q) : IsOpen(q[i]) => HASH_ID(q[i].id) # s
        BY <1>3 DEF q
    <1>17. WaitApart(p)
        BY <1>6, <1>13, <1>15, <1>16 DEF WaitApart, s
    <1>18. WaitFirst(p)
        <2>. SUFFICES ASSUME NEW i \in 1 .. Len(p), NEW j \in 1 .. Len(p), i < j,
                             HasId(p[i]), IsOpen(p[j])
                      PROVE  p[i].id # p[j].id
            BY DEF WaitFirst
        <2>1. i \in 1 .. Len(q) /\ p[i] = q[i]
            BY <1>13
        <2>. QED
            BY <1>6, <1>13, <1>15, <1>16, <2>1 DEF WaitFirst
    <1>19. IdsOf(p, alloc_id)
        BY <1>2, <1>6, <1>13, <1>15 DEF IdsOf
    <1>20. OpenInv'
        BY <1>1, <1>8, <1>14, <1>17, <1>18, <1>19 DEF OpenInv, Opening, p
    <1>. QED
        BY <1>0, <1>1, <1>9, <1>10, <1>20 DEF SockInv

LEMMA FreeType == ASSUME TypeOK, NEW B, Free(B) PROVE freed' \in [1 .. MaxBuf -> Nat]
PROOF
    <1>1. \A b \in 1 .. MaxBuf : freed[b] \in Nat /\ freed[b] + 1 \in Nat
        BY DEF TypeOK
    <1>. QED
        BY <1>1 DEF Free

LEMMA StepCommand ==
    ASSUME SockInv, NEW k, NEW c \in Cmd, c.cmd \notin Opens, c.cmd # "X" => c.id \in Known,
           ApiCommand(k, c)
    PROVE  SockInv'
PROOF
    <1>0. TypeOK
        BY DEF SockInv
    <1>1. /\ cmd_queue' = Append(cmd_queue, c)
          /\ UNCHANGED <<sock, alloc_id, opening, listener, udp, bufs, freed, wire, fault>>
        BY DEF ApiCommand, send_request
    <1>2. use' \in [api : SUBSET Kinds, calls : Nat, ids : 0 .. MaxId] /\ use'.ids = use.ids
        BY <1>0, UseCall DEF ApiCommand
    <1>3. cmd_queue' \in Seq(Cmd)
        BY <1>0, <1>1 DEF TypeOK
    <1>4. TypeOK'
        BY <1>0, <1>1, <1>2, <1>3 DEF TypeOK
    <1>. QED
        BY <1>1, <1>4, QueuedInv

LEMMA StepCommands ==
    ASSUME SockInv,
           \/ socket_server_exit
           \/ \E id \in Known : \/ socket_server_start(id) \/ socket_server_close(id)
                                \/ socket_server_nodelay(id) \/ socket_server_udp_connect(id)
    PROVE  SockInv'
PROOF
    <1>0. TypeOK
        BY DEF SockInv
    <1>1. CASE socket_server_exit
        <2>1. [cmd |-> "X"] \in Cmd /\ [cmd |-> "X"].cmd = "X" /\ "X" \notin Opens
            BY DEF Cmd, Opens
        <2>. QED
            BY <1>1, <2>1, StepCommand DEF socket_server_exit
    <1>2. ASSUME NEW id \in Known, NEW k \in {"S", "K", "T"}, ApiCommand(k, [cmd |-> k, id |-> id])
          PROVE  SockInv'
        <2> DEFINE c == [cmd |-> k, id |-> id]
        <2>1. c \in Cmd /\ c.cmd = k /\ c.id = id /\ k \notin Opens
            BY <1>0, KnownId DEF Cmd, Opens
        <2>. HIDE DEF c
        <2>2. ApiCommand(k, c)
            BY <1>2 DEF c
        <2>. QED
            BY <2>1, <2>2, StepCommand
    <1>3. ASSUME NEW id \in Known, NEW f \in BOOLEAN,
                 ApiCommand("C", [cmd |-> "C", id |-> id, v4 |-> f])
          PROVE  SockInv'
        <2> DEFINE c == [cmd |-> "C", id |-> id, v4 |-> f]
        <2>1. c \in Cmd /\ c.cmd = "C" /\ c.id = id /\ "C" \notin Opens
            BY <1>0, KnownId DEF Cmd, Opens
        <2>. HIDE DEF c
        <2>2. ApiCommand("C", c)
            BY <1>3 DEF c
        <2>. QED
            BY <2>1, <2>2, StepCommand
    <1>8. "S" \in {"S", "K", "T"} /\ "K" \in {"S", "K", "T"} /\ "T" \in {"S", "K", "T"}
        OBVIOUS
    <1>4. ASSUME NEW id \in Known, socket_server_start(id) PROVE SockInv'
        BY <1>2, <1>8, <1>4 DEF socket_server_start
    <1>5. ASSUME NEW id \in Known, socket_server_close(id) PROVE SockInv'
        BY <1>2, <1>8, <1>5 DEF socket_server_close
    <1>6. ASSUME NEW id \in Known, socket_server_nodelay(id) PROVE SockInv'
        BY <1>2, <1>8, <1>6 DEF socket_server_nodelay
    <1>7. ASSUME NEW id \in Known, socket_server_udp_connect(id) PROVE SockInv'
        BY <1>3, <1>7 DEF socket_server_udp_connect
    <1>. QED
        BY <1>1, <1>4, <1>5, <1>6, <1>7

LEMMA StepSend == ASSUME SockInv, NEW id \in Known, Sending(id) PROVE SockInv'
PROOF
    <1>0. TypeOK /\ SlotsInv /\ IdsInv /\ OpenInv /\ "new_fd" \notin fault
        BY DEF SockInv
    <1>1. PICK k, c : Given(id, k, c)
        BY <1>0, SendGiven
    <1>2. id \in Id
        BY <1>0, KnownId
    <1>3. use' \in [api : SUBSET Kinds, calls : Nat, ids : 0 .. MaxId] /\ use'.ids = use.ids
        BY <1>0, <1>1, UseCall DEF Given
    <1>4. bufs' \in Seq([id : Id, cmd : Sends]) /\ Len(bufs') <= MaxBuf
        <2>1. bufs \in Seq([id : Id, cmd : Sends]) /\ [id |-> id, cmd |-> k] \in [id : Id, cmd : Sends]
            BY <1>0, <1>1, <1>2 DEF TypeOK, Given
        <2>2. Len(bufs) < MaxBuf /\ bufs' = Append(bufs, [id |-> id, cmd |-> k])
            BY <1>1 DEF Given
        <2>. QED
            BY <2>1, <2>2, SocketAssumption
    <1>5. freed' \in [1 .. MaxBuf -> Nat]
        <2>1. freed' = freed \/ Free({Len(bufs) + 1})
            BY <1>1 DEF Given
        <2>. QED
            BY <1>0, <2>1, FreeType DEF TypeOK
    <1>6. cmd_queue' \in Seq(Cmd)
        <2>1. c \in Cmd /\ (cmd_queue' = Append(cmd_queue, c) \/ cmd_queue' = cmd_queue)
            BY <1>1 DEF Given
        <2>2. cmd_queue \in Seq(Cmd)
            BY <1>0 DEF TypeOK
        <2>. QED
            BY <2>1, <2>2
    <1>7. /\ UNCHANGED <<sock, alloc_id, opening, listener, udp, wire, fault>>
          /\ c \in Cmd /\ c.cmd \notin Opens /\ c.id \in Known
        BY <1>1 DEF Given, Sends, Opens
    <1>8. TypeOK'
        BY <1>0, <1>3, <1>4, <1>5, <1>6, <1>7 DEF TypeOK
    <1>9. CASE cmd_queue' = Append(cmd_queue, c)
        BY <1>7, <1>8, <1>9, QueuedInv
    <1>10. CASE cmd_queue' = cmd_queue
        BY <1>0, <1>7, <1>8, <1>10 DEF SockInv, SlotsInv, IdsInv, OpenInv
    <1>. QED
        BY <1>1, <1>9, <1>10 DEF Given

-----------------------------------------------------------------------------
(* The commands.                                                           *)

\* The loop takes the head of the queue; a slot that is reserved stays so, but
\* for that of a command that opens a socket.
LEMMA TakenInv ==
    ASSUME SockInv, NEW c, NEW ret, Take(c, ret),
           sock' \in [Slot -> SlotType], SlotsInv', IdsInv',
           freed' \in [1 .. MaxBuf -> Nat], wire' = wire, "new_fd" \notin fault',
           Released(c, sock, sock')
    PROVE  SockInv'
PROOF
    <1>0. TypeOK /\ OpenInv
        BY DEF SockInv
    <1>1. /\ cmd_queue # <<>> /\ c = Head(cmd_queue) /\ cmd_queue' = Tail(cmd_queue)
          /\ UNCHANGED <<alloc_id, opening, use, listener, udp, bufs>>
        BY DEF Take, calls
    <1>2. cmd_queue \in Seq(Cmd)
        BY <1>0 DEF TypeOK
    <1>3. Shifted(cmd_queue, cmd_queue') /\ cmd_queue' \in Seq(Cmd) /\ cmd_queue[1] = c
        BY <1>1, <1>2, TailShifted
    <1>4. TypeOK'
        BY <1>0, <1>1, <1>3 DEF TypeOK
    <1>5. Released(cmd_queue[1], sock, sock')
        BY <1>3
    <1>6. /\ Waiting(cmd_queue', sock') /\ WaitApart(cmd_queue') /\ WaitFirst(cmd_queue')
          /\ IdsOf(cmd_queue', alloc_id) /\ Opening(cmd_queue', opening, alloc_id, sock')
        BY <1>0, <1>2, <1>3, <1>5, OpenShifted DEF OpenInv
    <1>7. OpenInv'
        BY <1>1, <1>6 DEF OpenInv
    <1>. QED
        BY <1>4, <1>7 DEF SockInv

\* The slot s becomes m.
Becomes(s, m) ==
    /\ Put(s, m) /\ m \in SlotType /\ m.id = sock[s].id
    /\ SlotInv(m, fault') /\ fault \subseteq fault' /\ "new_fd" \notin fault'
    /\ freed' \in [1 .. MaxBuf -> Nat]

\* A command that changes the slot of its id; one that changes none.
LEMMA CommandInv ==
    ASSUME SockInv, NEW c, NEW ret, Take(c, ret), HasId(c), NEW m, Becomes(HASH_ID(c.id), m),
           wire' = wire, IsOpen(c) \/ Stays(sock[HASH_ID(c.id)], m)
    PROVE  SockInv' /\ Changed(HASH_ID(c.id), m)
PROOF
    <1> DEFINE s == HASH_ID(c.id)
    <1>0. TypeOK /\ SlotsInv /\ IdsInv
        BY DEF SockInv
    <1>1. s \in Slot /\ alloc_id' \in Nat /\ alloc_id <= alloc_id'
        BY TakenHead
    <1>2. /\ Put(s, m) /\ m \in SlotType /\ m.id = sock[s].id /\ SlotInv(m, fault')
          /\ fault \subseteq fault' /\ "new_fd" \notin fault' /\ freed' \in [1 .. MaxBuf -> Nat]
        BY DEF Becomes
    <1>. HIDE DEF s
    <1>3. Changed(s, m)
        BY <1>0, <1>1, <1>2, OneSlot
    <1>4. Released(c, sock, sock')
        BY <1>3 DEF Changed, Stays, Released, s
    <1>5. sock' \in [Slot -> SlotType] /\ SlotsInv' /\ IdsInv'
        BY <1>3 DEF Changed
    <1>6. SockInv'
        BY <1>2, <1>4, <1>5, TakenInv
    <1>. QED
        BY <1>3, <1>6 DEF s

LEMMA CommandKept ==
    ASSUME SockInv, NEW c, NEW ret, Take(c, ret), UNCHANGED <<sock, wire, fault>>,
           freed' \in [1 .. MaxBuf -> Nat]
    PROVE  SockInv'
PROOF
    <1>1. Released(c, sock, sock')
        BY DEF Stays, Released
    <1>2. alloc_id' = alloc_id
        BY TakenHead
    <1>3. sock' \in [Slot -> SlotType] /\ SlotsInv' /\ IdsInv' /\ "new_fd" \notin fault'
        BY <1>2 DEF SockInv, TypeOK, SlotsInv, IdsInv
    <1>. QED
        BY <1>1, <1>3, TakenInv

LEMMA OpenedInv ==
    ASSUME SockInv, NEW c, NEW ret, Take(c, ret), IsOpen(c), NEW p, NEW t, NEW P, NEW z,
           Outcome(p, t, P, z), Put(HASH_ID(c.id), Opened(sock[HASH_ID(c.id)], c.id, p, t, P, z)),
           fault' = fault \cup NewFaults(sock[HASH_ID(c.id)]), UNCHANGED <<freed, wire>>
    PROVE  SockInv'
PROOF
    <1> DEFINE s == HASH_ID(c.id)
               m == Opened(sock[s], c.id, p, t, P, z)
    <1>1. /\ HasId(c) /\ Fresh(sock[s]) /\ sock[s].id = c.id /\ sock[s] \in SlotType /\ c.id \in Nat
        BY TakenHead
    <1>2. OpenedFacts(sock[s], c.id, p, t, P, z, m)
        BY <1>1, OpenedFields DEF Outcome
    <1>3. Put(s, m)
        OBVIOUS
    <1>. HIDE DEF m, s
    <1>4. /\ m \in SlotType /\ m.type = t /\ m.pending = P /\ m.closing = z /\ m.id = c.id
          /\ m.protocol = p /\ ~m.write /\ m.inflight = <<>> /\ m.high = sock[s].high
        BY <1>2 DEF OpenedFacts
    <1>5. /\ fault \subseteq fault' /\ "new_fd" \notin fault'
          /\ sock[s].high # <<>> => "wb_list" \in fault'
        BY <1>1, NewFault DEF SockInv, s
    <1>6. SlotInv(m, fault')
        <2>1. /\ m \in SlotType /\ m.inflight = <<>> /\ ~m.write
              /\ m.high # <<>> => "wb_list" \in fault'
              /\ m.type = "INVALID" => ~m.closing
              /\ m.type \in {"INVALID", "RESERVE"} => m.pending = {}
              /\ "connect" \in m.pending => m.type = "CONNECTING"
              /\ m.protocol = "UDP" => m.type = "CONNECTED" /\ m.pending = {}
            BY <1>4, <1>5 DEF Outcome
        <2>. QED
            BY <2>1, NewInv
    <1>7. freed' \in [1 .. MaxBuf -> Nat] /\ wire' = wire
        BY DEF SockInv, TypeOK
    <1>8. Becomes(s, m)
        BY <1>1, <1>3, <1>4, <1>5, <1>6, <1>7 DEF Becomes
    <1>. QED
        BY <1>1, <1>7, <1>8, CommandInv DEF s

LEMMA StepOpening == ASSUME SockInv, NEW c, OpensSocket(c) PROVE SockInv'
PROOF
    <1> DEFINE s == HASH_ID(c.id)
    <1>0. OpenResult(c)
        BY OpenResults
    <1>1. PICK ret : Take(c, ret) /\ IsOpen(c) /\ UNCHANGED <<freed, wire>>
        BY <1>0 DEF OpenResult
    <1>2. CASE GivenUp(c)
        <2> DEFINE m == [sock[s] EXCEPT !.type = "INVALID"]
        <2>1. HasId(c) /\ Fresh(sock[s]) /\ sock[s] \in SlotType /\ SlotInv(sock[s], fault)
            BY <1>1, TakenHead
        <2>2. TypedFacts(sock[s], "INVALID", m)
            BY <2>1, TypedFields DEF Types
        <2>3. Put(s, m) /\ UNCHANGED fault
            BY <1>2 DEF GivenUp
        <2>. HIDE DEF m, s
        <2>4. m \in SlotType /\ m.id = sock[s].id
            BY <2>2 DEF TypedFacts
        <2>5. SlotInv(m, fault)
            BY <2>1, <2>2 DEF TypedFacts, SlotInv, Fresh
        <2>6. Becomes(s, m)
            BY <1>1, <2>3, <2>4, <2>5 DEF SockInv, TypeOK, Becomes
        <2>. QED
            BY <1>1, <2>1, <2>6, CommandInv DEF s
    <1>3. ASSUME NEW p, NEW t, NEW P, NEW z, NewHandle(c, p, t, P, z) PROVE SockInv'
        BY <1>1, <1>3, OpenedInv DEF NewHandle
    <1>. QED
        BY <1>0, <1>2, <1>3 DEF OpenResult

LEMMA StepAddress == ASSUME SockInv, NEW c, set_udp_address(c) PROVE SockInv'
PROOF
    <1> DEFINE s == HASH_ID(c.id)
               m == [sock[s] EXCEPT !.address = TRUE]
    <1>0. UNCHANGED <<freed, wire, fault>> /\ HasId(c) /\ freed' \in [1 .. MaxBuf -> Nat]
        BY DEF set_udp_address, HasId, SockInv, TypeOK
    <1>1. ASSUME NEW ret, Take(c, ret), UNCHANGED sock PROVE SockInv'
        BY <1>0, <1>1, CommandKept
    <1>2. ASSUME Take(c, "none"), Put(s, m) PROVE SockInv'
        <2>1. sock[s] \in SlotType /\ SlotInv(sock[s], fault)
            BY <1>0, <1>2, TakenHead
        <2>2. /\ m \in SlotType /\ m.type = sock[s].type /\ m.id = sock[s].id
              /\ m.protocol = sock[s].protocol /\ m.write = sock[s].write /\ m.high = sock[s].high
              /\ m.closing = sock[s].closing /\ m.pending = sock[s].pending
              /\ m.inflight = sock[s].inflight
            BY <2>1 DEF SlotType
        <2>3. Put(s, m)
            BY <1>2
        <2>. HIDE DEF m
        <2>4. SlotInv(m, fault) /\ Stays(sock[s], m)
            BY <2>1, <2>2 DEF SlotInv, Stays, Fresh
        <2>. HIDE DEF s
        <2>5. Becomes(s, m)
            BY <1>0, <2>2, <2>3, <2>4 DEF Becomes, SockInv
        <2>. QED
            BY <1>0, <1>2, <2>4, <2>5, CommandInv DEF s
    <1>. QED
        BY <1>1, <1>2 DEF set_udp_address

LEMMA StepNoEffect == ASSUME SockInv, NEW c, NoEffect(c) PROVE SockInv'
PROOF
    <1>1. /\ Take(c, "none") \/ Take(c, "EXIT")
          /\ UNCHANGED <<sock, wire, fault>> /\ freed' \in [1 .. MaxBuf -> Nat]
        BY DEF NoEffect, SockInv, TypeOK
    <1>. QED
        BY <1>1, CommandKept

\* force_close on a slot.
LEMMA ForceBecomes ==
    ASSUME SockInv, NEW s \in Slot, Put(s, force_close(sock[s])), Free(ForceFrees(sock[s])),
           fault' = fault \cup ForceFaults(sock[s])
    PROVE  Becomes(s, force_close(sock[s])) /\ Stays(sock[s], force_close(sock[s]))
PROOF
    <1> DEFINE m == force_close(sock[s])
    <1>0. TypeOK /\ sock[s] \in SlotType /\ SlotInv(sock[s], fault) /\ "new_fd" \notin fault
        BY DEF SockInv, TypeOK, SlotsInv
    <1>1. fault \subseteq fault' /\ "new_fd" \notin fault'
        BY <1>0 DEF ForceFaults
    <1>2. SlotInv(m, fault')
        BY <1>0, <1>1, ForceInv, SlotMore
    <1>3. freed' \in [1 .. MaxBuf -> Nat]
        BY <1>0, FreeType
    <1>4. ForceFacts(sock[s], m)
        BY <1>0, ForceFields
    <1>5. Put(s, m)
        OBVIOUS
    <1>. HIDE DEF m
    <1>6. m \in SlotType /\ m.id = sock[s].id /\ Stays(sock[s], m)
        BY <1>4 DEF ForceFacts, Stays, Fresh
    <1>. QED
        BY <1>1, <1>2, <1>3, <1>5, <1>6 DEF Becomes, m

LEMMA CommandForce ==
    ASSUME SockInv, NEW c, NEW ret, Take(c, ret), HasId(c),
           Put(HASH_ID(c.id), force_close(sock[HASH_ID(c.id)])),
           Free(ForceFrees(sock[HASH_ID(c.id)])),
           fault' = fault \cup ForceFaults(sock[HASH_ID(c.id)]), wire' = wire
    PROVE  SockInv'
PROOF
    <1>1. HASH_ID(c.id) \in Slot
        BY TakenHead
    <1>2. /\ Becomes(HASH_ID(c.id), force_close(sock[HASH_ID(c.id)]))
          /\ Stays(sock[HASH_ID(c.id)], force_close(sock[HASH_ID(c.id)]))
        BY <1>1, ForceBecomes
    <1>. QED
        BY <1>2, CommandInv

\* uv_read_start or uv_listen.
LEMMA StartedInv ==
    ASSUME NEW k \in SlotType, NEW f, SlotInv(k, f),
           NEW t, NEW P, \/ k.type = "PACCEPT" /\ t = "CONNECTED" /\ P = {"read"}
                         \/ k.type = "PLISTEN" /\ t = "LISTEN" /\ P = {"accept"}
    PROVE  LET m == [k EXCEPT !.type = t, !.pending = @ \cup P]
           IN  m \in SlotType /\ m.id = k.id /\ SlotInv(m, f) /\ ~Fresh(k)
PROOF
    <1> DEFINE m == [k EXCEPT !.type = t, !.pending = k.pending \cup P]
    <1>1. t \in Types /\ k.pending \cup P \in SUBSET {"connect", "read", "accept"} /\ "connect" \notin P
        BY DEF Types, SlotType
    <1>2. /\ m \in SlotType /\ m.type = t /\ m.id = k.id /\ m.protocol = k.protocol
          /\ m.write = k.write /\ m.high = k.high /\ m.closing = k.closing
          /\ m.pending = k.pending \cup P /\ m.inflight = k.inflight
        BY <1>1 DEF SlotType
    <1>3. m = [k EXCEPT !.type = t, !.pending = @ \cup P]
        BY DEF SlotType
    <1>. HIDE DEF m
    <1>4. SlotInv(m, f)
        BY <1>1, <1>2 DEF SlotInv
    <1>. QED
        BY <1>2, <1>3, <1>4 DEF Fresh

LEMMA StepStarts ==
    ASSUME SockInv, NEW c, HasId(c), NEW t, NEW P, Starts(c, sock[HASH_ID(c.id)], t, P), wire' = wire,
           \/ sock[HASH_ID(c.id)].type = "PACCEPT" /\ t = "CONNECTED" /\ P = {"read"}
           \/ sock[HASH_ID(c.id)].type = "PLISTEN" /\ t = "LISTEN" /\ P = {"accept"}
    PROVE  SockInv'
PROOF
    <1> DEFINE s == HASH_ID(c.id)
               m == [sock[s] EXCEPT !.type = t, !.pending = @ \cup P]
    <1>1. ASSUME Take(c, "OPEN"), Put(s, m), UNCHANGED <<freed, fault>> PROVE SockInv'
        <2>1. sock[s] \in SlotType /\ SlotInv(sock[s], fault)
            BY <1>1, TakenHead
        <2>2. m \in SlotType /\ m.id = sock[s].id /\ SlotInv(m, fault) /\ ~Fresh(sock[s])
            BY <2>1, StartedInv
        <2>3. Put(s, m)
            BY <1>1
        <2>. HIDE DEF m, s
        <2>4. Becomes(s, m) /\ Stays(sock[s], m)
            BY <1>1, <2>2, <2>3 DEF Becomes, Stays, SockInv, TypeOK
        <2>. QED
            BY <1>1, <2>4, CommandInv DEF s
    <1>2. ASSUME Take(c, "ERROR"), Put(s, force_close(sock[s])), Free(ForceFrees(sock[s])),
                 fault' = fault \cup ForceFaults(sock[s])
          PROVE  SockInv'
        BY <1>2, CommandForce
    <1>. QED
        BY <1>1, <1>2 DEF Starts

LEMMA StepStart == ASSUME SockInv, NEW c, start_socket(c) PROVE SockInv'
PROOF
    <1> DEFINE k == sock[HASH_ID(c.id)]
    <1>0. HasId(c) /\ wire' = wire
        BY DEF start_socket, HasId
    <1>1. ASSUME NEW ret, Take(c, ret), UNCHANGED <<sock, freed, fault>> PROVE SockInv'
        <2>1. freed' \in [1 .. MaxBuf -> Nat]
            BY <1>1 DEF SockInv, TypeOK
        <2>. QED
            BY <1>0, <1>1, <2>1, CommandKept
    <1>2. ASSUME k.type = "PACCEPT", Starts(c, k, "CONNECTED", {"read"}) PROVE SockInv'
        BY <1>0, <1>2, StepStarts
    <1>3. ASSUME k.type = "PLISTEN", Starts(c, k, "LISTEN", {"accept"}) PROVE SockInv'
        BY <1>0, <1>3, StepStarts
    <1>. QED
        BY <1>1, <1>2, <1>3 DEF start_socket

LEMMA StepClose == ASSUME SockInv, NEW c, close_socket(c) PROVE SockInv'
PROOF
    <1> DEFINE s == HASH_ID(c.id)
               k == sock[s]
    <1>0. HasId(c) /\ wire' = wire
        BY DEF close_socket, HasId
    <1>1. ASSUME Take(c, "CLOSE"), UNCHANGED <<sock, freed, fault>> PROVE SockInv'
        <2>1. freed' \in [1 .. MaxBuf -> Nat]
            BY <1>1 DEF SockInv, TypeOK
        <2>. QED
            BY <1>0, <1>1, <2>1, CommandKept
    <1>2. ASSUME Take(c, "CLOSE"), Put(s, force_close(k)), Free(ForceFrees(k)),
                 fault' = fault \cup ForceFaults(k)
          PROVE  SockInv'
        BY <1>0, <1>2, CommandForce
    <1>3. ASSUME Found(c), ~send_buffer_empty(k), UNCHANGED freed, NEW r \in send_buffer(k),
                 r.fail, Take(c, "CLOSE"), Put(s, r.k), fault' = fault \cup {"uninit"}
          PROVE  SockInv'
        <2>1. k \in SlotType /\ SlotInv(k, fault)
            BY <1>0, <1>3, TakenHead
        <2>2. r.k = k
            BY <1>3, <2>1, SendBuffer
        <2>3. SlotInv(k, fault')
            BY <1>3, <2>1, SlotMore
        <2>4. Put(s, k)
            BY <1>3, <2>2
        <2>5. Becomes(s, k) /\ Stays(k, k)
            BY <1>3, <2>1, <2>3, <2>4 DEF Becomes, Stays, SockInv, TypeOK
        <2>. QED
            BY <1>0, <1>3, <2>5, CommandInv
    <1>4. ASSUME Found(c), ~send_buffer_empty(k), UNCHANGED <<freed, fault>>,
                 NEW r \in send_buffer(k), ~r.fail, Take(c, "none"),
                 Put(s, [r.k EXCEPT !.type = "HALFCLOSE"])
          PROVE  SockInv'
        <2> DEFINE m == [r.k EXCEPT !.type = "HALFCLOSE"]
        <2>1. k \in SlotType /\ SlotInv(k, fault) /\ k.type # "INVALID"
            BY <1>0, <1>4, TakenHead DEF Found
        <2>2. m \in SlotType /\ m.id = k.id /\ SlotInv(m, fault) /\ ~Fresh(k)
            BY <1>4, <2>1, HalfInv
        <2>3. Put(s, m)
            BY <1>4
        <2>. HIDE DEF m
        <2>4. Becomes(s, m) /\ Stays(k, m)
            BY <1>4, <2>2, <2>3 DEF Becomes, Stays, SockInv, TypeOK
        <2>. QED
            BY <1>0, <1>4, <2>4, CommandInv
    <1>. QED
        BY <1>1, <1>2, <1>3, <1>4 DEF close_socket

LEMMA StepSendSocket == ASSUME SockInv, NEW c, send_socket(c) PROVE SockInv'
PROOF
    <1> DEFINE s == HASH_ID(c.id)
               j == sock[s]
               l == ListOf(j, c.cmd = "P")
               ok == AddressOk(j, c)
               k == append(j, l, c.buf, ok)
    <1>0. HasId(c) /\ wire' = wire /\ Take(c, "none") /\ c.cmd \in Sends
        BY DEF send_socket, HasId, Sends
    <1>1. c \in Cmd /\ j \in SlotType /\ SlotInv(j, fault)
        BY <1>0, TakenHead
    <1>2. c.buf \in 1 .. MaxBuf /\ l \in Lists /\ ok \in BOOLEAN
        <2>1. c.buf \in 1 .. MaxBuf /\ (c.cmd = "A" => c.v4 \in BOOLEAN)
            BY <1>0, <1>1, CmdFields
        <2>2. l \in Lists
            BY DEF ListOf, Lists
        <2>3. j.address \in BOOLEAN
            BY <1>1 DEF SlotType
        <2>4. ok \in BOOLEAN
            BY <2>1, <2>3 DEF AddressOk
        <2>. QED
            BY <2>1, <2>2, <2>4
    <1>3. AppendFacts(j, l, ItemOf(c.buf, ok), k)
        BY <1>1, <1>2, AppendFields
    <1>4. ASSUME Free({c.buf}), UNCHANGED <<sock, fault>> PROVE SockInv'
        <2>1. freed' \in [1 .. MaxBuf -> Nat]
            BY <1>4, FreeType DEF SockInv
        <2>. QED
            BY <1>0, <1>4, <2>1, CommandKept
    <1>5. ASSUME ~Drops(c), k.protocol = "UDP" \/ l = "low" \/ k.write, Put(s, k),
                 UNCHANGED <<freed, fault>>
          PROVE  SockInv'
        <2>1. j.protocol = "UDP" \/ l = "low" \/ j.write
            BY <1>3, <1>5 DEF AppendFacts
        <2>2. j.type # "HALFCLOSE"
            BY <1>5 DEF Drops
        <2>. HIDE DEF l, ok
        <2>3. SlotInv(k, fault)
            BY <1>1, <1>2, <2>1, <2>2, QueueInv
        <2>. HIDE DEF k
        <2>4. k \in SlotType /\ k.id = j.id /\ Stays(j, k)
            BY <1>3 DEF AppendFacts, Stays, Fresh
        <2>5. Becomes(s, k)
            BY <1>5, <2>3, <2>4 DEF Becomes, SockInv, TypeOK
        <2>. QED
            BY <1>0, <2>4, <2>5, CommandInv
    <1>6. ASSUME ~Drops(c), k.protocol = "TCP", l = "high", ~k.write, NEW r \in send_buffer(k),
                 Put(s, r.k), fault' = IF r.fail THEN fault \cup {"uninit"} ELSE fault, UNCHANGED freed
          PROVE  SockInv'
        <2>1. j.protocol = "TCP" /\ ~j.write
            BY <1>3, <1>6 DEF AppendFacts
        <2>2. j.type # "INVALID"
            BY <1>6 DEF Drops, Found
        <2>3. r \in send_buffer(append(j, "high", c.buf, ok))
            BY <1>6
        <2>. HIDE DEF l, ok, k
        <2>4. /\ r.k \in SlotType /\ r.k.id = j.id /\ SlotInv(r.k, fault')
              /\ Fresh(j) => Fresh(r.k)
            BY <1>1, <1>2, <1>6, <2>1, <2>2, <2>3, StartInv
        <2>5. fault \subseteq fault' /\ "new_fd" \notin fault'
            BY <1>6 DEF SockInv
        <2>6. Becomes(s, r.k) /\ Stays(j, r.k)
            BY <1>6, <2>4, <2>5 DEF Becomes, Stays, SockInv, TypeOK
        <2>. QED
            BY <1>0, <2>6, CommandInv
    <1>. QED
        BY <1>4, <1>5, <1>6 DEF send_socket

-----------------------------------------------------------------------------
(* The callbacks.                                                          *)

\* A callback on slot s; one that changes no slot.
LEMMA CallbackInv ==
    ASSUME SockInv, Callback, alloc_id' = alloc_id, NEW s \in Slot, NEW m, Becomes(s, m),
           Stays(sock[s], m), wire' \in [Id -> Seq(1 .. MaxBuf)]
    PROVE  SockInv' /\ Changed(s, m)
PROOF
    <1>0. TypeOK /\ SlotsInv /\ IdsInv /\ OpenInv
        BY DEF SockInv
    <1>1. UNCHANGED <<cmd_queue, opening, use, listener, udp, bufs>>
        BY DEF Callback
    <1>2. /\ Put(s, m) /\ m \in SlotType /\ m.id = sock[s].id /\ SlotInv(m, fault')
          /\ fault \subseteq fault' /\ "new_fd" \notin fault' /\ freed' \in [1 .. MaxBuf -> Nat]
        BY DEF Becomes
    <1>3. alloc_id' \in Nat /\ alloc_id <= alloc_id'
        BY <1>0 DEF TypeOK
    <1>4. Changed(s, m)
        BY <1>0, <1>2, <1>3, OneSlot
    <1>5. \A t \in Slot : Stays(sock[t], sock'[t])
        BY <1>4 DEF Changed, Stays
    <1>6. OpenInv'
        BY <1>0, <1>1, <1>3, <1>5, OpenKept
    <1>7. TypeOK'
        BY <1>0, <1>1, <1>2, <1>4 DEF TypeOK, Changed
    <1>. QED
        BY <1>2, <1>4, <1>6, <1>7 DEF SockInv, Changed

LEMMA CallbackKept ==
    ASSUME SockInv, Callback, UNCHANGED <<sock, alloc_id, freed, wire, fault>>
    PROVE  SockInv'
PROOF
    <1>1. UNCHANGED <<cmd_queue, opening, use, listener, udp, bufs>>
        BY DEF Callback
    <1>. QED
        BY <1>1 DEF SockInv, TypeOK, SlotsInv, IdsInv, OpenInv

LEMMA CallbackForce ==
    ASSUME SockInv, Callback, UNCHANGED <<alloc_id, wire>>, NEW s \in Slot,
           Put(s, force_close(sock[s])), Free(ForceFrees(sock[s])),
           fault' = fault \cup ForceFaults(sock[s])
    PROVE  SockInv'
PROOF
    <1>1. Becomes(s, force_close(sock[s])) /\ Stays(sock[s], force_close(sock[s]))
        BY ForceBecomes
    <1>2. wire' \in [Id -> Seq(1 .. MaxBuf)]
        BY DEF SockInv, TypeOK
    <1>. QED
        BY <1>1, <1>2, CallbackInv

LEMMA LessInv ==
    ASSUME NEW k \in SlotType, NEW f, SlotInv(k, f), NEW p PROVE SlotInv(Less(k, p), f)
PROOF
    <1>1. LessFacts(k, p, Less(k, p))
        BY LessFields
    <1>. QED
        BY <1>1 DEF LessFacts, SlotInv

LEMMA StepRead == ASSUME SockInv, NEW s \in Slot, read_cb(s) PROVE SockInv'
PROOF
    <1> DEFINE k == force_close(sock[s])
               m == Less(k, "read")
    <1>0. Callback /\ UNCHANGED <<alloc_id, wire>>
        BY DEF read_cb
    <1>1. ASSUME UNCHANGED <<sock, freed, fault>> PROVE SockInv'
        BY <1>0, <1>1, CallbackKept
    <1>2. ASSUME Reading(sock[s]), Put(s, m), Free(ForceFrees(sock[s])),
                 fault' = fault \cup ForceFaults(sock[s])
          PROVE  SockInv'
        <2>1. sock[s] \in SlotType /\ SlotInv(sock[s], fault) /\ "new_fd" \notin fault
            BY DEF SockInv, TypeOK, SlotsInv
        <2>2. fault \subseteq fault' /\ "new_fd" \notin fault'
            BY <1>2, <2>1 DEF ForceFaults
        <2>3. ForceFacts(sock[s], k) /\ SlotInv(k, fault)
            BY <2>1, ForceFields, ForceInv
        <2>4. k \in SlotType
            BY <2>3 DEF ForceFacts
        <2>5. SlotInv(m, fault) /\ LessFacts(k, "read", m)
            BY <2>3, <2>4, LessInv, LessFields
        <2>6. SlotInv(m, fault')
            BY <2>2, <2>5, SlotMore
        <2>7. Put(s, m)
            BY <1>2
        <2>8. freed' \in [1 .. MaxBuf -> Nat] /\ wire' \in [Id -> Seq(1 .. MaxBuf)]
            BY <1>0, <1>2, FreeType DEF SockInv, TypeOK
        <2>. HIDE DEF m, k
        <2>9. m \in SlotType /\ m.id = sock[s].id
            BY <2>3, <2>5 DEF LessFacts, ForceFacts
        <2>10. Stays(sock[s], m)
            BY <1>2 DEF Stays, Fresh, Reading
        <2>11. Becomes(s, m)
            BY <2>2, <2>6, <2>7, <2>8, <2>9 DEF Becomes
        <2>. QED
            BY <1>0, <2>8, <2>10, <2>11, CallbackInv
    <1>. QED
        BY <1>1, <1>2 DEF read_cb, Less

LEMMA StepAborted == ASSUME SockInv, NEW s \in Slot, Aborted(s) PROVE SockInv'
PROOF
    <1>0. Callback /\ UNCHANGED <<alloc_id, freed, wire, fault>> /\ sock[s].closing
        BY DEF Aborted
    <1>1. PICK p \in sock[s].pending : Put(s, Less(sock[s], p))
        BY DEF Aborted, Less
    <1>2. sock[s] \in SlotType /\ SlotInv(sock[s], fault)
        BY DEF SockInv, TypeOK, SlotsInv
    <1>3. SlotInv(Less(sock[s], p), fault) /\ LessFacts(sock[s], p, Less(sock[s], p))
        BY <1>2, LessInv, LessFields
    <1>4. Becomes(s, Less(sock[s], p)) /\ Stays(sock[s], Less(sock[s], p))
        BY <1>0, <1>1, <1>3 DEF Becomes, Stays, Fresh, LessFacts, SockInv, TypeOK
    <1>5. wire' \in [Id -> Seq(1 .. MaxBuf)]
        BY <1>0 DEF SockInv, TypeOK
    <1>. QED
        BY <1>0, <1>4, <1>5, CallbackInv

\* Connected.
LEMMA ConnectedInv ==
    ASSUME NEW k \in SlotType, NEW f, SlotInv(k, f), "connect" \in k.pending
    PROVE  LET j == Less(k, "connect")
               m == [j EXCEPT !.type = "CONNECTED", !.pending = @ \cup {"read"}]
           IN  m \in SlotType /\ m.id = k.id /\ SlotInv(m, f) /\ ~Fresh(k)
PROOF
    <1> DEFINE j == Less(k, "connect")
               m == [j EXCEPT !.type = "CONNECTED", !.pending = @ \cup {"read"}]
    <1>1. LessFacts(k, "connect", j)
        BY LessFields
    <1>. HIDE DEF j
    <1>2. /\ j \in SlotType /\ j.pending = k.pending \ {"connect"}
          /\ j.id = k.id /\ j.protocol = k.protocol /\ j.write = k.write
          /\ j.high = k.high /\ j.closing = k.closing /\ j.inflight = k.inflight
        BY <1>1 DEF LessFacts
    <1>3. j.pending \cup {"read"} \in SUBSET {"connect", "read", "accept"} /\ "CONNECTED" \in Types
        BY <1>2 DEF SlotType, Types
    <1>4. /\ m \in SlotType /\ m.type = "CONNECTED" /\ m.id = j.id /\ m.protocol = j.protocol
          /\ m.write = j.write /\ m.high = j.high /\ m.closing = j.closing
          /\ m.pending = j.pending \cup {"read"} /\ m.inflight = j.inflight
        BY <1>2, <1>3 DEF SlotType
    <1>. HIDE DEF m
    <1>5. SlotInv(m, f) /\ ~Fresh(k)
        BY <1>2, <1>4 DEF SlotInv, Fresh
    <1>. QED
        BY <1>2, <1>4, <1>5 DEF m, j

LEMMA StepConnect == ASSUME SockInv, NEW s \in Slot, connect_cb_(s) PROVE SockInv'
PROOF
    <1> DEFINE k == Less(sock[s], "connect")
               m == [k EXCEPT !.type = "CONNECTED", !.pending = @ \cup {"read"}]
    <1>0. Callback /\ UNCHANGED <<alloc_id, wire>> /\ "connect" \in sock[s].pending
        BY DEF connect_cb_
    <1>1. /\ sock[s] \in SlotType /\ SlotInv(sock[s], fault) /\ "new_fd" \notin fault
          /\ wire' \in [Id -> Seq(1 .. MaxBuf)]
        BY <1>0 DEF SockInv, TypeOK, SlotsInv
    <1>2. ASSUME Put(s, m), UNCHANGED <<freed, fault>> PROVE SockInv'
        <2>1. m \in SlotType /\ m.id = sock[s].id /\ SlotInv(m, fault) /\ ~Fresh(sock[s])
            BY <1>0, <1>1, ConnectedInv
        <2>2. Put(s, m)
            BY <1>2
        <2>. HIDE DEF m
        <2>3. Becomes(s, m) /\ Stays(sock[s], m)
            BY <1>1, <1>2, <2>1, <2>2 DEF Becomes, Stays, SockInv, TypeOK
        <2>. QED
            BY <1>0, <1>1, <2>3, CallbackInv
    <1>3. ASSUME Put(s, force_close(k)), Free(ForceFrees(k)), fault' = fault \cup ForceFaults(k)
          PROVE  SockInv'
        <2> DEFINE n == force_close(k)
        <2>1. SlotInv(k, fault) /\ LessFacts(sock[s], "connect", k)
            BY <1>1, LessInv, LessFields
        <2>. HIDE DEF k
        <2>2. k \in SlotType
            BY <2>1 DEF LessFacts
        <2>3. SlotInv(n, fault) /\ ForceFacts(k, n)
            BY <2>1, <2>2, ForceInv, ForceFields
        <2>4. fault \subseteq fault' /\ "new_fd" \notin fault'
            BY <1>1, <1>3 DEF ForceFaults
        <2>5. SlotInv(n, fault')
            BY <2>3, <2>4, SlotMore
        <2>6. freed' \in [1 .. MaxBuf -> Nat]
            BY <1>3, FreeType DEF SockInv
        <2>7. Put(s, n)
            BY <1>3
        <2>. HIDE DEF n
        <2>8. n \in SlotType /\ n.id = sock[s].id
            BY <2>1, <2>3 DEF LessFacts, ForceFacts
        <2>9. Stays(sock[s], n)
            BY <1>0 DEF Stays, Fresh
        <2>10. Becomes(s, n)
            BY <2>4, <2>5, <2>6, <2>7, <2>8 DEF Becomes
        <2>. QED
            BY <1>0, <1>1, <2>9, <2>10, CallbackInv
    <1>. QED
        BY <1>2, <1>3 DEF connect_cb_, Less

LEMMA StepWrite == ASSUME SockInv, NEW s \in Slot, write_cb_(s) PROVE SockInv'
PROOF
    <1> DEFINE j == sock[s]
               l == Head(j.inflight).list
               k == Back(j)
               U(failed) == IF failed /\ k.protocol = "TCP" THEN {"uninit"} ELSE {}
    <1>0. Callback /\ alloc_id' = alloc_id /\ j.inflight # <<>>
        BY DEF write_cb_
    <1>1. j \in SlotType /\ SlotInv(j, fault) /\ "new_fd" \notin fault
        BY DEF SockInv, TypeOK, SlotsInv
    <1>2. /\ Head(j.inflight) \in Req /\ j.type \notin {"INVALID", "RESERVE"}
          /\ \A g : /\ fault \subseteq g
                    /\ j.protocol = "TCP" => g \cap WriteFaults # {}
                    => SlotInv(k, g)
        BY <1>0, <1>1, BackInv
    <1>3. BackFacts(j, k)
        BY <1>0, <1>1, BackFields
    <1>4. k.protocol = j.protocol /\ k \in SlotType /\ k.id = j.id /\ k.high = j.high /\ k.low = j.low
        BY <1>3 DEF BackFacts
    <1>5. l \in Lists
        BY <1>2 DEF Req
    <1>6. k[l] = j[l]
        BY <1>4, <1>5 DEF Lists
    <1>7. ASSUME Put(s, k), fault' = fault \cup {"null"} \/ fault' = fault \cup U(TRUE),
                 UNCHANGED <<freed, wire>>
          PROVE  SockInv'
        <2>1. /\ fault \subseteq fault' /\ "new_fd" \notin fault'
              /\ j.protocol = "TCP" => fault' \cap WriteFaults # {}
            BY <1>1, <1>4, <1>7 DEF WriteFaults
        <2>. HIDE DEF k
        <2>2. SlotInv(k, fault')
            BY <1>2, <2>1
        <2>3. Stays(j, k)
            BY <1>2 DEF Stays, Fresh
        <2>4. Becomes(s, k) /\ wire' \in [Id -> Seq(1 .. MaxBuf)]
            BY <1>4, <1>7, <2>1, <2>2 DEF Becomes, SockInv, TypeOK
        <2>. QED
            BY <1>0, <2>3, <2>4, CallbackInv
    <1>8. ASSUME k[l] # <<>>, Free({Head(k[l]).buf}),
                 wire' = [wire EXCEPT ![k.id] = Append(@, Head(j.inflight).buf)],
                 NEW r \in SendNext(Off(k, l), l), Put(s, r.k), fault' = fault \cup U(r.fail)
          PROVE  SockInv'
        <2>1. /\ fault \subseteq fault' /\ "new_fd" \notin fault'
              /\ r.fail /\ j.protocol = "TCP" => "uninit" \in fault'
            BY <1>1, <1>4, <1>8
        <2>2. freed' \in [1 .. MaxBuf -> Nat]
            BY <1>8, FreeType DEF SockInv
        <2>3. wire' \in [Id -> Seq(1 .. MaxBuf)]
            <3>1. wire \in [Id -> Seq(1 .. MaxBuf)] /\ Head(j.inflight).buf \in 1 .. MaxBuf
                BY <1>2 DEF SockInv, TypeOK, Req
            <3>. HIDE DEF k, j
            <3>2. CASE k.id \in Id
                <4>1. Append(wire[k.id], Head(j.inflight).buf) \in Seq(1 .. MaxBuf)
                    BY <3>1, <3>2
                <4>. QED
                    BY <1>8, <3>1, <4>1
            <3>3. CASE k.id \notin Id
                BY <1>8, <3>1, <3>3
            <3>. QED
                BY <3>2, <3>3
        <2>4. r \in send_list(Off(Back(j), l), l)
            BY <1>8 DEF SendNext
        <2>5. j[l] # <<>>
            BY <1>6, <1>8
        <2>. HIDE DEF k, l
        <2>6. r.k \in SlotType /\ r.k.id = j.id /\ SlotInv(r.k, fault')
            BY <1>0, <1>1, <2>1, <2>4, <2>5, WrittenInv DEF l
        <2>7. Stays(j, r.k)
            BY <1>2 DEF Stays, Fresh
        <2>8. Becomes(s, r.k)
            BY <1>8, <2>1, <2>2, <2>6 DEF Becomes
        <2>. QED
            BY <1>0, <2>3, <2>7, <2>8, CallbackInv
    <1>. QED
        BY <1>7, <1>8 DEF write_cb_, Back, Off

\* A connection is accepted, or uv_accept fails: a free slot gets a new handle.
LEMMA StepAccept ==
    ASSUME SockInv, Callback, NEW n \in 1 .. MAX_SOCKET, reserve_id(n), alloc_id' = alloc_id + n,
           NEW j, j = [sock[HASH_ID(alloc_id + n)] EXCEPT !.type = "RESERVE"],
           fault' = fault \cup NewFaults(j), UNCHANGED <<freed, wire>>,
           NEW m, Put(HASH_ID(alloc_id + n), m),
           \/ m = Opened(j, alloc_id + n, "TCP", "PACCEPT", {}, FALSE)
           \/ m = Opened(j, alloc_id + n, "TCP", "RESERVE", {}, TRUE)
    PROVE  SockInv' /\ Changed(HASH_ID(alloc_id + n), m)
PROOF
    <1> DEFINE id == alloc_id + n
               t == HASH_ID(id)
    <1>0. TypeOK /\ SlotsInv /\ IdsInv /\ OpenInv /\ "new_fd" \notin fault
        BY DEF SockInv
    <1>1. /\ id \in Id /\ id \in Nat /\ alloc_id < id /\ id <= use.ids /\ t \in Slot
          /\ sock[t].type = "INVALID" /\ alloc_id \in Nat
        BY <1>0, ReserveId DEF TypeOK
    <1>2. sock[t] \in SlotType /\ SlotInv(sock[t], fault)
        BY <1>0, <1>1 DEF TypeOK, SlotsInv
    <1>3. TypedFacts(sock[t], "RESERVE", j)
        BY <1>2, TypedFields DEF Types
    <1>4. j \in SlotType /\ j.type = "RESERVE"
        BY <1>3 DEF TypedFacts
    <1>5. Put(t, m) /\ alloc_id' = id
        OBVIOUS
    <1>6. PICK y \in {"PACCEPT", "RESERVE"}, z \in BOOLEAN :
             m = Opened(j, id, "TCP", y, {}, z)
        OBVIOUS
    <1>. HIDE DEF t, id
    <1>7. OpenedFacts(j, id, "TCP", y, {}, z, m)
        BY <1>1, <1>4, <1>6, OpenedFields DEF Types
    <1>8. /\ m \in SlotType /\ m.type = y /\ m.pending = {} /\ m.closing = z /\ m.id = id
          /\ m.protocol = "TCP" /\ ~m.write /\ m.inflight = <<>> /\ m.high = j.high
        BY <1>7 DEF OpenedFacts
    <1>9. /\ fault \subseteq fault' /\ "new_fd" \notin fault'
          /\ j.high # <<>> => "wb_list" \in fault'
        BY <1>0, <1>4 DEF NewFaults
    <1>10. SlotInv(m, fault')
        BY <1>8, <1>9, NewInv
    <1>11. alloc_id' \in Nat /\ alloc_id <= alloc_id' /\ m.id \in 1 .. alloc_id' /\ HASH_ID(m.id) = t
        BY <1>1, <1>5, <1>8 DEF Id, t
    <1>12. Changed(t, m)
        BY <1>0, <1>1, <1>5, <1>8, <1>9, <1>10, <1>11, OneSlot
    <1>13. UNCHANGED <<cmd_queue, opening, use, listener, udp, bufs, freed, wire>>
        BY DEF Callback
    <1>14. \A u \in Slot : Stays(sock[u], sock'[u])
        BY <1>1, <1>12 DEF Changed, Stays, Fresh
    <1>15. OpenInv'
        BY <1>0, <1>11, <1>13, <1>14, OpenKept
    <1>16. TypeOK'
        BY <1>0, <1>1, <1>5, <1>12, <1>13 DEF TypeOK, Changed
    <1>. QED
        BY <1>9, <1>12, <1>15, <1>16 DEF SockInv, Changed, t, id

\* No slot is free: alloc_id has moved.
LEMMA StepNoSlot ==
    ASSUME SockInv, Callback, alloc_id + MAX_SOCKET <= use.ids, alloc_id' = alloc_id + MAX_SOCKET,
           UNCHANGED <<sock, freed, wire, fault>>
    PROVE  SockInv'
PROOF
    <1>0. TypeOK /\ SlotsInv /\ IdsInv /\ OpenInv /\ "new_fd" \notin fault
        BY DEF SockInv
    <1>1. UNCHANGED <<cmd_queue, opening, use, listener, udp, bufs>>
        BY DEF Callback
    <1>2. alloc_id' \in Nat /\ alloc_id \in Nat /\ alloc_id <= alloc_id' /\ alloc_id' <= use'.ids
        BY <1>0, <1>1, SocketAssumption DEF TypeOK
    <1>3. TypeOK'
        BY <1>0, <1>1, <1>2 DEF TypeOK
    <1>4. SlotsInv' /\ IdsInv'
        BY <1>0, <1>2 DEF SlotsInv, IdsInv
    <1>5. OpenInv'
        BY <1>0, <1>1, <1>2, OpenKept DEF Stays
    <1>. QED
        BY <1>0, <1>3, <1>4, <1>5 DEF SockInv

LEMMA StepConnection == ASSUME SockInv, NEW s \in Slot, connection_cb(s) PROVE SockInv'
PROOF
    <1>0. Callback /\ UNCHANGED wire
        BY Connection
    <1>1. ASSUME NEW n \in 1 .. MAX_SOCKET, NEW m, NEW j,
                 j = [sock[HASH_ID(alloc_id + n)] EXCEPT !.type = "RESERVE"],
                 reserve_id(n), alloc_id' = alloc_id + n,
                 fault' = fault \cup NewFaults(j), UNCHANGED freed, Put(HASH_ID(alloc_id + n), m),
                 \/ m = Opened(j, alloc_id + n, "TCP", "PACCEPT", {}, FALSE)
                 \/ m = Opened(j, alloc_id + n, "TCP", "RESERVE", {}, TRUE)
          PROVE  SockInv'
        BY <1>0, <1>1, StepAccept
    <1>2. ASSUME alloc_id + MAX_SOCKET <= use.ids, alloc_id' = alloc_id + MAX_SOCKET,
                 UNCHANGED <<sock, report, fault, freed>>
          PROVE  SockInv'
        BY <1>0, <1>2, StepNoSlot
    <1>3. ASSUME Put(s, force_close(sock[s])), Free(ForceFrees(sock[s])),
                 fault' = fault \cup ForceFaults(sock[s]), UNCHANGED alloc_id
          PROVE  SockInv'
        BY <1>0, <1>3, CallbackForce
    <1>. QED
        BY <1>1, <1>2, <1>3, Connection

LEMMA StepClosed == ASSUME SockInv, NEW s \in Slot, close_cb(s) PROVE SockInv'
PROOF
    <1> DEFINE k == sock[s]
               m == [k EXCEPT !.type = "INVALID", !.closing = FALSE]
    <1>0. Callback /\ UNCHANGED <<alloc_id, freed, wire, fault>> /\ Settled(k) /\ Put(s, m)
        BY DEF close_cb
    <1>1. k \in SlotType /\ SlotInv(k, fault)
        BY DEF SockInv, TypeOK, SlotsInv
    <1>2. /\ m \in SlotType /\ m.type = "INVALID" /\ m.closing = FALSE /\ m.id = k.id
          /\ m.protocol = k.protocol /\ m.write = k.write /\ m.high = k.high
          /\ m.pending = k.pending /\ m.inflight = k.inflight
        BY <1>1 DEF SlotType, Types
    <1>. HIDE DEF m
    <1>3. SlotInv(m, fault) /\ Stays(k, m)
        BY <1>0, <1>1, <1>2 DEF Settled, SlotInv, Stays, Fresh
    <1>4. Becomes(s, m) /\ wire' \in [Id -> Seq(1 .. MaxBuf)]
        BY <1>0, <1>2, <1>3 DEF Becomes, SockInv, TypeOK
    <1>. QED
        BY <1>0, <1>3, <1>4, CallbackInv

LEMMA StepRelease == ASSUME SockInv, socket_server_release PROVE SockInv'
PROOF
    <1>0. TypeOK /\ SlotsInv /\ IdsInv /\ OpenInv /\ "new_fd" \notin fault
        BY DEF SockInv
    <1>1. /\ UNCHANGED <<cmd_queue, alloc_id, opening, use, listener, udp, bufs, wire>>
          /\ sock' = [s \in Slot |-> Shut(sock[s])]
        BY DEF socket_server_release, calls, Shut
    <1>2. fault \subseteq fault' /\ "new_fd" \notin fault'
        <2>1. \A s \in Slot : "new_fd" \notin ForceFaults(sock[s])
            BY DEF ForceFaults
        <2>. QED
            BY <1>0, <2>1 DEF socket_server_release
    <1>3. freed' \in [1 .. MaxBuf -> Nat]
        BY <1>0, FreeType DEF socket_server_release
    <1>4. ASSUME NEW s \in Slot
          PROVE  /\ sock'[s] \in SlotType /\ SlotInv(sock'[s], fault') /\ sock'[s].id = sock[s].id
                 /\ Stays(sock[s], sock'[s])
        <2>1. sock[s] \in SlotType /\ SlotInv(sock[s], fault) /\ sock'[s] = Shut(sock[s])
            BY <1>0, <1>1 DEF TypeOK, SlotsInv
        <2>2. CASE sock[s].type = "RESERVE"
            <3>1. sock'[s] = sock[s]
                BY <2>1, <2>2 DEF Shut
            <3>. QED
                BY <1>2, <2>1, <3>1, SlotMore DEF Stays
        <2>3. CASE sock[s].type # "RESERVE"
            <3>1. sock'[s] = force_close(sock[s])
                BY <2>1, <2>3 DEF Shut
            <3>2. ForceFacts(sock[s], sock'[s]) /\ SlotInv(sock'[s], fault)
                BY <2>1, <3>1, ForceFields, ForceInv
            <3>3. SlotInv(sock'[s], fault')
                BY <1>2, <3>2, SlotMore
            <3>. QED
                BY <2>3, <3>2, <3>3 DEF Stays, Fresh, ForceFacts
        <2>. QED
            BY <2>2, <2>3
    <1>5. sock' \in [Slot -> SlotType]
        BY <1>1, <1>4
    <1>6. SlotsInv' /\ IdsInv'
        BY <1>0, <1>1, <1>4 DEF SlotsInv, IdsInv
    <1>7. TypeOK'
        BY <1>0, <1>1, <1>3, <1>5 DEF TypeOK
    <1>8. OpenInv'
        <2>1. alloc_id' \in Nat /\ alloc_id <= alloc_id' /\ \A s \in Slot : Stays(sock[s], sock'[s])
            BY <1>0, <1>1, <1>4 DEF TypeOK
        <2>. QED
            BY <1>0, <1>1, <2>1, OpenKept
    <1>. QED
        BY <1>2, <1>6, <1>7, <1>8 DEF SockInv

LEMMA StepReleased == ASSUME SockInv, ReleaseDone PROVE SockInv'
PROOF
    <1>1. /\ cmd_queue' = <<>>
          /\ UNCHANGED <<sock, alloc_id, opening, use, listener, udp, bufs, freed, wire, fault>>
        BY DEF ReleaseDone, calls
    <1>2. TypeOK'
        BY <1>1 DEF SockInv, TypeOK
    <1>3. OpenInv'
        <2>1. \A i : i \notin 1 .. Len(cmd_queue')
            BY <1>1
        <2>2. Opening(cmd_queue, opening, alloc_id, sock)
            BY DEF SockInv, OpenInv
        <2>3. Opening(cmd_queue', opening', alloc_id', sock')
            BY <1>1, <2>1, <2>2 DEF Opening
        <2>. QED
            BY <2>1, <2>3 DEF OpenInv, Waiting, WaitApart, WaitFirst, IdsOf
    <1>. QED
        BY <1>1, <1>2, <1>3 DEF SockInv, SlotsInv, IdsInv

LEMMA StepIdle ==
    ASSUME SockInv, CmdWake \/ CmdEmpty \/ UNCHANGED vars
    PROVE  SockInv'
PROOF
    <1>1. UNCHANGED <<sock, cmd_queue, alloc_id, opening, use, listener, udp, bufs, freed, wire, fault>>
        BY DEF CmdWake, CmdEmpty, vars, calls
    <1>. QED
        BY <1>1 DEF SockInv, TypeOK, SlotsInv, IdsInv, OpenInv

LEMMA SockStep == ASSUME SockInv, [Next]_vars PROVE SockInv'
PROOF
    <1>1. CASE Api
        <2>1. "O" \in Opens /\ "L" \in Opens /\ "B" \in Opens /\ "U" \in Opens
            BY DEF Opens
        <2>2. CASE \/ socket_server_connect \/ socket_server_listen
                   \/ socket_server_bind \/ socket_server_udp
            BY <2>1, <2>2, StepReserve DEF socket_server_connect, socket_server_listen,
                                           socket_server_bind, socket_server_udp
        <2>3. CASE ApiOpen
            BY <2>3, StepOpen
        <2>4. CASE \/ socket_server_exit
                   \/ \E id \in Known : \/ socket_server_start(id) \/ socket_server_close(id)
                                        \/ socket_server_nodelay(id) \/ socket_server_udp_connect(id)
            BY <2>4, StepCommands
        <2>5. CASE \E id \in Known : Sending(id)
            BY <2>5, StepSend
        <2>. QED
            BY <1>1, <2>2, <2>3, <2>4, <2>5 DEF Api, Sending
    <1>2. CASE ctrl_cmd
        <2>1. PICK c : \/ open_socket(c) \/ listen_socket(c) \/ bind_socket(c) \/ add_udp_socket(c)
                       \/ set_udp_address(c) \/ NoEffect(c) \/ start_socket(c) \/ close_socket(c)
                       \/ send_socket(c)
            BY <1>2 DEF ctrl_cmd
        <2>. QED
            BY <2>1, StepOpening, StepAddress, StepNoEffect, StepStart, StepClose,
               StepSendSocket DEF OpensSocket
    <1>3. ASSUME NEW s \in Slot, Loop(s) PROVE SockInv'
        BY <1>3, StepRead, StepAborted, StepConnect, StepWrite, StepConnection, StepClosed DEF Loop
    <1>. QED
        BY <1>1, <1>2, <1>3, StepRelease, StepReleased, StepIdle DEF Next
=============================================================================
