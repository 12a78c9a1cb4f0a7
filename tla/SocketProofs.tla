---------------------------- MODULE SocketProofs ----------------------------
(***************************************************************************)
(* The theorems about module SocketServer, for any number of slots, any    *)
(* use of the API and any bounds; before them, the steps of the socket     *)
(* thread and what they do with the buffers.                               *)
(***************************************************************************)
EXTENDS SocketSteps, SocketWire, TLAPS

-----------------------------------------------------------------------------
(* The commands.                                                           *)

LEMMA TakeKept ==
    ASSUME SockInv, DataInv, TypeOK', NEW c, NEW ret, Take(c, ret), UNCHANGED <<sock, freed, wire, fault>>
    PROVE  DataInv'
PROOF
    <1>1. Steps
        BY TakeSteps
    <1>. QED
        BY <1>1, KeptStep, ByClears

LEMMA TakeGoes ==
    ASSUME SockInv, DataInv, TypeOK', NEW c, NEW ret, Take(c, ret), UNCHANGED <<freed, wire>>,
           fault \subseteq fault', HasId(c), NEW m, Put(HASH_ID(c.id), m), Goes(sock[HASH_ID(c.id)], m)
    PROVE  DataInv'
PROOF
    <1>1. Steps /\ HASH_ID(c.id) \in Slot /\ TypeOK
        BY TakeSteps, TakenHead DEF SockInv
    <1>. QED
        BY <1>1, GoesStep, ByClears

LEMMA TakeForce ==
    ASSUME SockInv, DataInv, TypeOK', NEW c, NEW ret, Take(c, ret), wire' = wire, HasId(c), NEW k,
           k = sock[HASH_ID(c.id)], k.type # "INVALID", Put(HASH_ID(c.id), force_close(k)),
           Free(ForceFrees(k)), fault' = fault \cup ForceFaults(k)
    PROVE  DataInv'
PROOF
    <1>1. Steps /\ HASH_ID(c.id) \in Slot /\ TypeOK /\ k \in SlotType
        BY TakeSteps, TakenHead DEF SockInv
    <1>2. Emptied(k, force_close(k))
        BY <1>1, ForceEmptied
    <1>3. Clears({HASH_ID(c.id)})
        BY <1>1, <1>2, ClearStep
    <1>. QED
        BY <1>3, ByClears

\* A command that opens a socket makes its handle.
LEMMA DataOpened ==
    ASSUME SockInv, DataInv, TypeOK', NEW c, NEW ret, Take(c, ret), IsOpen(c), NEW p, NEW t, NEW P, NEW z,
           Outcome(p, t, P, z), Put(HASH_ID(c.id), Opened(sock[HASH_ID(c.id)], c.id, p, t, P, z)),
           fault' = fault \cup NewFaults(sock[HASH_ID(c.id)]), UNCHANGED <<freed, wire>>
    PROVE  DataInv'
PROOF
    <1> DEFINE s == HASH_ID(c.id)
               m == Opened(sock[s], c.id, p, t, P, z)
    <1>1. /\ HasId(c) /\ Fresh(sock[s]) /\ sock[s].id = c.id /\ sock[s] \in SlotType /\ c.id \in Nat
          /\ c.id \in Id /\ s \in Slot /\ TypeOK
        BY TakenHead DEF SockInv
    <1>2. OpenedFacts(sock[s], c.id, p, t, P, z, m)
        BY <1>1, OpenedFields DEF Outcome
    <1>3. Put(s, m)
        OBVIOUS
    <1>5. /\ fault \subseteq fault' /\ (sock[s].high # <<>> \/ sock[s].low # <<>> => "wb_list" \in fault')
        BY <1>1, NewFault DEF SockInv, s
    <1>6. Steps /\ Unopened(c.id, alloc_id, opening, cmd_queue)
        BY <1>5, TakeSteps
    <1>. HIDE DEF m, s
    <1>7. sock'[s] = m /\ \A u \in Slot : u # s => sock'[u] = sock[u]
        BY <1>1, <1>3, PutSlot
    <1>8. Makes(s, c.id)
        BY <1>1, <1>2, <1>5, <1>6, <1>7 DEF OpenedFacts, Makes
    <1>. QED
        BY <1>8, ByMakes

LEMMA DataOpening == ASSUME SockInv, DataInv, TypeOK', NEW c, OpensSocket(c) PROVE DataInv'
PROOF
    <1> DEFINE s == HASH_ID(c.id)
    <1>0. OpenResult(c)
        BY OpenResults
    <1>1. PICK ret : Take(c, ret) /\ IsOpen(c) /\ UNCHANGED <<freed, wire>>
        BY <1>0 DEF OpenResult
    <1>2. CASE GivenUp(c)
        <2> DEFINE m == [sock[s] EXCEPT !.type = "INVALID"]
        <2>1. HasId(c) /\ sock[s] \in SlotType
            BY <1>1, TakenHead
        <2>2. TypedFacts(sock[s], "INVALID", m)
            BY <2>1, TypedFields DEF Types
        <2>3. Put(s, m) /\ UNCHANGED fault
            BY <1>2 DEF GivenUp
        <2>. HIDE DEF m, s
        <2>4. Goes(sock[s], m)
            BY <2>2 DEF TypedFacts, Goes, Dead
        <2>. QED
            BY <1>1, <2>1, <2>3, <2>4, TakeGoes DEF s
    <1>3. ASSUME NEW p, NEW t, NEW P, NEW z, NewHandle(c, p, t, P, z) PROVE DataInv'
        BY <1>1, <1>3, DataOpened DEF NewHandle
    <1>. QED
        BY <1>0, <1>2, <1>3 DEF OpenResult

LEMMA DataAddress ==
    ASSUME SockInv, DataInv, TypeOK', NEW c, set_udp_address(c) \/ NoEffect(c) PROVE DataInv'
PROOF
    <1> DEFINE s == HASH_ID(c.id)
               m == [sock[s] EXCEPT !.address = TRUE]
    <1>0. UNCHANGED <<freed, wire, fault>>
        BY DEF set_udp_address, NoEffect
    <1>1. ASSUME NEW ret, Take(c, ret), UNCHANGED sock PROVE DataInv'
        BY <1>0, <1>1, TakeKept
    <1>2. ASSUME Take(c, "none"), Put(s, m), HasId(c) PROVE DataInv'
        <2>1. sock[s] \in SlotType
            BY <1>2, TakenHead
        <2>2. /\ m.type = sock[s].type /\ m.id = sock[s].id
              /\ m.protocol = sock[s].protocol /\ m.high = sock[s].high /\ m.low = sock[s].low
              /\ m.closing = sock[s].closing /\ m.pending = sock[s].pending
              /\ m.inflight = sock[s].inflight
            BY <2>1 DEF SlotType
        <2>3. Put(s, m)
            BY <1>2
        <2>. HIDE DEF m
        <2>4. Goes(sock[s], m)
            BY <2>2 DEF Goes, Dead, Fresh
        <2>. QED
            BY <1>0, <1>2, <2>3, <2>4, TakeGoes
    <1>3. set_udp_address(c) => HasId(c)
        BY DEF set_udp_address, HasId
    <1>. QED
        BY <1>1, <1>2, <1>3 DEF set_udp_address, NoEffect

LEMMA DataStarts ==
    ASSUME SockInv, DataInv, TypeOK', NEW c, HasId(c), NEW t, NEW P,
           Starts(c, sock[HASH_ID(c.id)], t, P), wire' = wire,
           \/ sock[HASH_ID(c.id)].type = "PACCEPT" /\ t = "CONNECTED" /\ P = {"read"}
           \/ sock[HASH_ID(c.id)].type = "PLISTEN" /\ t = "LISTEN" /\ P = {"accept"}
    PROVE  DataInv'
PROOF
    <1> DEFINE s == HASH_ID(c.id)
               k == sock[s]
               m == [k EXCEPT !.type = t, !.pending = @ \cup P]
    <1>0. k.type \notin {"INVALID", "RESERVE"}
        OBVIOUS
    <1>1. ASSUME Take(c, "OPEN"), Put(s, m), UNCHANGED <<freed, fault>> PROVE DataInv'
        <2>1. k \in SlotType
            BY <1>1, TakenHead
        <2>2. /\ m.id = k.id /\ m.protocol = k.protocol /\ m.high = k.high /\ m.low = k.low
              /\ m.inflight = k.inflight
            BY <2>1 DEF SlotType
        <2>3. Put(s, m)
            BY <1>1
        <2>. HIDE DEF m
        <2>4. Goes(k, m)
            BY <1>0, <2>2 DEF Goes, Dead, Fresh
        <2>. QED
            BY <1>1, <2>3, <2>4, TakeGoes
    <1>2. ASSUME Take(c, "ERROR"), Put(s, force_close(k)), Free(ForceFrees(k)),
                 fault' = fault \cup ForceFaults(k)
          PROVE  DataInv'
        BY <1>0, <1>2, TakeForce
    <1>. QED
        BY <1>1, <1>2 DEF Starts

LEMMA DataStart == ASSUME SockInv, DataInv, TypeOK', NEW c, start_socket(c) PROVE DataInv'
PROOF
    <1> DEFINE k == sock[HASH_ID(c.id)]
    <1>0. HasId(c) /\ wire' = wire
        BY DEF start_socket, HasId
    <1>1. ASSUME NEW ret, Take(c, ret), UNCHANGED <<sock, freed, fault>> PROVE DataInv'
        BY <1>0, <1>1, TakeKept
    <1>2. ASSUME k.type = "PACCEPT", Starts(c, k, "CONNECTED", {"read"}) PROVE DataInv'
        BY <1>0, <1>2, DataStarts
    <1>3. ASSUME k.type = "PLISTEN", Starts(c, k, "LISTEN", {"accept"}) PROVE DataInv'
        BY <1>0, <1>3, DataStarts
    <1>. QED
        BY <1>1, <1>2, <1>3 DEF start_socket

\* A write that is started, on a socket that is not dead.
Idle(k) == k.protocol = "TCP" /\ ~k.write => k.inflight = <<>>

LEMMA IdleSlot == ASSUME NEW k \in SlotType, NEW f, SlotInv(k, f) PROVE Idle(k)
PROOF
    <1>1. k.inflight \in Seq(Req)
        BY DEF SlotType
    <1>2. k.inflight # <<>> => Len(k.inflight) \in Nat \ {0}
        BY <1>1, OneTail
    <1>. QED
        BY <1>2 DEF SlotInv, Idle

LEMMA SentGoes ==
    ASSUME NEW k \in SlotType, Idle(k), k.type # "INVALID", NEW l \in Lists, ~Busy(k), k[l] # <<>>,
           Writable(k, Head(k[l]))
    PROVE  Goes(k, Sent(k, l)) /\ ~Dead(k)
PROOF
    <1>1. SentFacts(k, l, Sent(k, l))
        BY SentFields
    <1>2. ~Dead(k)
        BY DEF Dead, Fresh, Writable
    <1>3. k.protocol = "TCP" => k.inflight = <<>>
        BY DEF Busy, Idle
    <1>. QED
        BY <1>1, <1>2, <1>3 DEF SentFacts, Goes

LEMMA ListGoes ==
    ASSUME NEW k \in SlotType, Idle(k), k.type # "INVALID", NEW l \in Lists, NEW r \in send_list(k, l)
    PROVE  Goes(k, r.k)
PROOF
    BY SendList, SentGoes, GoesSame

LEMMA BufferGoes ==
    ASSUME NEW k \in SlotType, Idle(k), k.type # "INVALID", NEW r \in send_buffer(k)
    PROVE  /\ Goes(k, r.k) /\ r.k \in SlotType
           /\ r.k.type = k.type /\ r.k.closing = k.closing /\ r.k.pending = k.pending
PROOF
    <1>1. ASSUME r.k = k
          PROVE  /\ Goes(k, r.k) /\ r.k \in SlotType
                 /\ r.k.type = k.type /\ r.k.closing = k.closing /\ r.k.pending = k.pending
        BY <1>1, GoesSame
    <1>2. ASSUME NEW l \in Lists, r.k = Sent(k, l), ~Busy(k), k[l] # <<>>, Writable(k, Head(k[l]))
          PROVE  /\ Goes(k, r.k) /\ r.k \in SlotType
                 /\ r.k.type = k.type /\ r.k.closing = k.closing /\ r.k.pending = k.pending
        BY <1>2, SentGoes, SentFields DEF SentFacts
    <1>. QED
        BY <1>1, <1>2, SendBuffer

LEMMA DataClose == ASSUME SockInv, DataInv, TypeOK', NEW c, close_socket(c) PROVE DataInv'
PROOF
    <1> DEFINE s == HASH_ID(c.id)
               k == sock[s]
    <1>0. HasId(c) /\ wire' = wire
        BY DEF close_socket, HasId
    <1>1. ASSUME Take(c, "CLOSE"), UNCHANGED <<sock, freed, fault>> PROVE DataInv'
        BY <1>0, <1>1, TakeKept
    <1>2. ASSUME Take(c, "CLOSE"), Found(c), Put(s, force_close(k)), Free(ForceFrees(k)),
                 fault' = fault \cup ForceFaults(k)
          PROVE  DataInv'
        BY <1>0, <1>2, TakeForce DEF Found
    <1>3. ASSUME Found(c), ~send_buffer_empty(k), UNCHANGED freed, NEW r \in send_buffer(k),
                 r.fail, Take(c, "CLOSE"), Put(s, r.k), fault' = fault \cup {"uninit"}
          PROVE  DataInv'
        <2>1. k \in SlotType /\ SlotInv(k, fault) /\ k.type # "INVALID"
            BY <1>0, <1>3, TakenHead DEF Found
        <2>2. Goes(k, r.k)
            BY <1>3, <2>1, IdleSlot, BufferGoes
        <2>. QED
            BY <1>0, <1>3, <2>2, TakeGoes
    <1>4. ASSUME Found(c), ~send_buffer_empty(k), UNCHANGED <<freed, fault>>,
                 NEW r \in send_buffer(k), ~r.fail, Take(c, "none"),
                 Put(s, [r.k EXCEPT !.type = "HALFCLOSE"])
          PROVE  DataInv'
        <2> DEFINE m == [r.k EXCEPT !.type = "HALFCLOSE"]
        <2>1. k \in SlotType /\ SlotInv(k, fault) /\ k.type # "INVALID"
            BY <1>0, <1>4, TakenHead DEF Found
        <2>2. ~Fresh(k)
            BY <1>4, <2>1, HalfInv
        <2>3. Goes(k, r.k) /\ r.k \in SlotType
            BY <1>4, <2>1, IdleSlot, BufferGoes
        <2>4. TypedFacts(r.k, "HALFCLOSE", m)
            BY <2>3, TypedFields DEF Types
        <2>5. Put(s, m)
            BY <1>4
        <2>. HIDE DEF m
        <2>6. ~Dead(k)
            BY <2>1, <2>2 DEF Dead
        <2>7. Goes(k, m)
            BY <2>3, <2>4, <2>6 DEF Goes, TypedFacts
        <2>. QED
            BY <1>0, <1>4, <2>5, <2>7, TakeGoes
    <1>. QED
        BY <1>1, <1>2, <1>3, <1>4 DEF close_socket

LEMMA DataSendSocket == ASSUME SockInv, DataInv, TypeOK', NEW c, send_socket(c) PROVE DataInv'
PROOF
    <1> DEFINE s == HASH_ID(c.id)
               j == sock[s]
               l == ListOf(j, c.cmd = "P")
               ok == AddressOk(j, c)
               k == append(j, l, c.buf, ok)
    <1>0. HasId(c) /\ wire' = wire /\ Take(c, "none") /\ c.cmd \in Sends
        BY DEF send_socket, HasId, Sends
    <1>1. c \in Cmd /\ j \in SlotType /\ SlotInv(j, fault) /\ s \in Slot /\ TypeOK
        BY <1>0, TakenHead DEF SockInv
    <1>2. c.buf \in 1 .. MaxBuf /\ l \in Lists /\ ok \in BOOLEAN /\ (l = "low" => c.cmd = "P")
        <2>1. c.buf \in 1 .. MaxBuf /\ (c.cmd = "A" => c.v4 \in BOOLEAN)
            BY <1>0, <1>1, CmdFields
        <2>2. l \in Lists /\ (l = "low" => c.cmd = "P")
            BY DEF ListOf, Lists
        <2>3. j.address \in BOOLEAN
            BY <1>1 DEF SlotType
        <2>4. ok \in BOOLEAN
            BY <2>1, <2>3 DEF AddressOk
        <2>. QED
            BY <2>1, <2>2, <2>4
    <1>3. AppendFacts(j, l, ItemOf(c.buf, ok), k)
        BY <1>1, <1>2, AppendFields
    <1>4. ASSUME fault \subseteq fault' PROVE TakesSend(c)
        BY <1>0, <1>4, TakeSteps DEF TakesSend, IsSend
    <1>5. ASSUME Free({c.buf}), UNCHANGED <<sock, fault>> PROVE DataInv'
        <2>1. \A b \in 1 .. MaxBuf : freed'[b] = IF b = c.buf THEN freed[b] + 1 ELSE freed[b]
            BY <1>5 DEF Free
        <2>2. Drop(c)
            BY <1>4, <1>5, <2>1 DEF Drop
        <2>. QED
            BY <2>2, ByDrop
    <1>. HIDE DEF l, ok, k
    <1>6. ASSUME ~Drops(c), NEW m, Goes(k, m), Put(s, m), fault \subseteq fault', UNCHANGED freed
          PROVE  DataInv'
        <2>1. sock'[s] = m /\ \A t \in Slot : t # s => sock'[t] = sock[t]
            BY <1>1, <1>6, PutSlot
        <2>2. j.id = c.id
            BY <1>6 DEF Drops, Found
        <2>3. Adds(s, c, l, ok)
            BY <1>1, <1>2, <1>3, <1>4, <1>6, <2>1, <2>2 DEF Adds
        <2>. QED
            BY <2>3, ByAdds
    <1>7. ASSUME ~Drops(c), Put(s, k), UNCHANGED <<freed, fault>> PROVE DataInv'
        BY <1>6, <1>7, GoesSame
    <1>8. ASSUME ~Drops(c), NEW r \in send_buffer(k), Put(s, r.k),
                 fault' = IF r.fail THEN fault \cup {"uninit"} ELSE fault, UNCHANGED freed
          PROVE  DataInv'
        <2>1. k \in SlotType /\ k.type # "INVALID" /\ Idle(k)
            BY <1>1, <1>3, <1>8, IdleSlot DEF AppendFacts, Drops, Found, Idle
        <2>2. Goes(k, r.k)
            BY <1>8, <2>1, BufferGoes
        <2>3. fault \subseteq fault'
            BY <1>8
        <2>. QED
            BY <1>6, <1>8, <2>2, <2>3
    <1>. QED
        BY <1>5, <1>7, <1>8 DEF send_socket, k, ok, l

-----------------------------------------------------------------------------
(* The callbacks.                                                          *)

LEMMA CallbackKeeps ==
    ASSUME SockInv, DataInv, TypeOK', Callback, UNCHANGED <<sock, alloc_id, freed, wire, fault>>
    PROVE  DataInv'
PROOF
    <1>1. Steps
        BY CallbackSteps
    <1>. QED
        BY <1>1, KeptStep, ByClears

LEMMA CallbackGoes ==
    ASSUME SockInv, DataInv, TypeOK', Callback, UNCHANGED <<alloc_id, freed, wire>>, fault \subseteq fault',
           NEW s \in Slot, NEW m, Put(s, m), Goes(sock[s], m)
    PROVE  DataInv'
PROOF
    <1>1. Steps /\ TypeOK
        BY CallbackSteps DEF SockInv
    <1>. QED
        BY <1>1, GoesStep, ByClears

\* The slot is closed and its lists are freed.
LEMMA CallbackClears ==
    ASSUME SockInv, DataInv, TypeOK', Callback, UNCHANGED <<alloc_id, wire>>, fault \subseteq fault',
           NEW s \in Slot, sock[s].pending # {}, NEW m, Put(s, m), Emptied(sock[s], m),
           Free(ForceFrees(sock[s]))
    PROVE  DataInv'
PROOF
    <1>1. Steps /\ TypeOK
        BY CallbackSteps DEF SockInv
    <1>2. sock[s].type # "INVALID"
        BY DEF SockInv, SlotsInv, SlotInv
    <1>3. Clears({s})
        BY <1>1, <1>2, ClearStep
    <1>. QED
        BY <1>3, ByClears

LEMMA DataRead == ASSUME SockInv, DataInv, TypeOK', NEW s \in Slot, read_cb(s) PROVE DataInv'
PROOF
    <1> DEFINE k == force_close(sock[s])
               m == Less(k, "read")
    <1>0. Callback /\ UNCHANGED <<alloc_id, wire>> /\ sock[s].pending # {}
        BY DEF read_cb, Reading
    <1>1. ASSUME UNCHANGED <<sock, freed, fault>> PROVE DataInv'
        BY <1>0, <1>1, CallbackKeeps
    <1>2. ASSUME Put(s, m), Free(ForceFrees(sock[s])), fault' = fault \cup ForceFaults(sock[s])
          PROVE  DataInv'
        <2>1. sock[s] \in SlotType /\ sock[s].type # "INVALID"
            BY <1>0 DEF SockInv, TypeOK, SlotsInv, SlotInv
        <2>2. ForceFacts(sock[s], k)
            BY <2>1, ForceFields
        <2>3. LessFacts(k, "read", m)
            BY <2>2, LessFields DEF ForceFacts
        <2>4. Put(s, m)
            BY <1>2
        <2>. HIDE DEF m, k
        <2>5. Emptied(sock[s], m)
            BY <1>0, <2>1, <2>2, <2>3 DEF Emptied, ForceFacts, LessFacts, Dead, Fresh
        <2>. QED
            BY <1>0, <1>2, <2>4, <2>5, CallbackClears
    <1>. QED
        BY <1>1, <1>2 DEF read_cb, Less

LEMMA DataAborted == ASSUME SockInv, DataInv, TypeOK', NEW s \in Slot, Aborted(s) PROVE DataInv'
PROOF
    <1>0. Callback /\ UNCHANGED <<alloc_id, freed, wire, fault>>
        BY DEF Aborted
    <1>1. PICK p \in sock[s].pending : Put(s, Less(sock[s], p))
        BY DEF Aborted, Less
    <1>2. LessFacts(sock[s], p, Less(sock[s], p))
        BY LessFields DEF SockInv, TypeOK
    <1>3. Goes(sock[s], Less(sock[s], p))
        BY <1>1, <1>2 DEF LessFacts, Goes, Dead, Fresh
    <1>. QED
        BY <1>0, <1>1, <1>3, CallbackGoes

LEMMA DataConnect == ASSUME SockInv, DataInv, TypeOK', NEW s \in Slot, connect_cb_(s) PROVE DataInv'
PROOF
    <1> DEFINE j == sock[s]
               k == Less(j, "connect")
               m == [k EXCEPT !.type = "CONNECTED", !.pending = @ \cup {"read"}]
    <1>0. Callback /\ UNCHANGED <<alloc_id, wire>> /\ j.pending # {}
        BY DEF connect_cb_
    <1>1. j \in SlotType /\ j.type \notin {"INVALID", "RESERVE"}
        BY <1>0 DEF SockInv, TypeOK, SlotsInv, SlotInv
    <1>2. LessFacts(j, "connect", k)
        BY <1>1, LessFields
    <1>. HIDE DEF k
    <1>3. ASSUME Put(s, m), UNCHANGED <<freed, fault>> PROVE DataInv'
        <2>1. k \in SlotType
            BY <1>2 DEF LessFacts
        <2>2. /\ m.id = k.id /\ m.protocol = k.protocol /\ m.high = k.high /\ m.low = k.low
              /\ m.inflight = k.inflight
            BY <2>1 DEF SlotType
        <2>3. Put(s, m)
            BY <1>3
        <2>. HIDE DEF m
        <2>4. Goes(j, m)
            BY <1>1, <1>2, <2>2 DEF Goes, Dead, Fresh, LessFacts
        <2>. QED
            BY <1>0, <1>3, <2>3, <2>4, CallbackGoes
    <1>4. ASSUME Put(s, force_close(k)), Free(ForceFrees(k)), fault' = fault \cup ForceFaults(k)
          PROVE  DataInv'
        <2> DEFINE n == force_close(k)
        <2>1. ForceFacts(k, n)
            BY <1>2, ForceFields DEF LessFacts
        <2>2. ForceFrees(k) = ForceFrees(j)
            BY <1>2 DEF LessFacts, ForceFrees
        <2>3. Put(s, n)
            BY <1>4
        <2>. HIDE DEF n
        <2>4. Emptied(j, n)
            BY <1>1, <1>2, <2>1 DEF LessFacts, ForceFacts, Emptied, Dead, Fresh
        <2>. QED
            BY <1>0, <1>4, <2>2, <2>3, <2>4, CallbackClears
    <1>. QED
        BY <1>3, <1>4 DEF connect_cb_, Less, k

LEMMA DataWrite == ASSUME SockInv, DataInv, TypeOK', NEW s \in Slot, write_cb_(s) PROVE DataInv'
PROOF
    <1> DEFINE j == sock[s]
               l == Head(j.inflight).list
               k == Back(j)
               U(failed) == IF failed /\ k.protocol = "TCP" THEN {"uninit"} ELSE {}
    <1>0. Callback /\ alloc_id' = alloc_id /\ j.inflight # <<>>
        BY DEF write_cb_
    <1>1. j \in SlotType /\ SlotInv(j, fault) /\ TypeOK
        BY DEF SockInv, TypeOK, SlotsInv
    <1>2. /\ Head(j.inflight) \in Req /\ j.type \notin {"INVALID", "RESERVE"}
          /\ j.protocol = "TCP" => k.inflight = <<>>
        BY <1>0, <1>1, BackInv
    <1>3. BackFacts(j, k)
        BY <1>0, <1>1, BackFields
    <1>4. l \in Lists
        BY <1>2 DEF Req
    <1>5. k[l] = j[l] /\ k \in SlotType
        BY <1>3, <1>4 DEF BackFacts, Lists
    <1>6. ASSUME Put(s, k), fault \subseteq fault', UNCHANGED <<freed, wire>> PROVE DataInv'
        <2>. HIDE DEF k
        <2>1. Goes(j, k)
            BY <1>0, <1>2, <1>3 DEF BackFacts, Goes, Dead, Fresh
        <2>. QED
            BY <1>0, <1>6, <2>1, CallbackGoes
    <1>7. ASSUME k[l] # <<>>, Free({Head(k[l]).buf}),
                 wire' = [wire EXCEPT ![k.id] = Append(@, Head(j.inflight).buf)],
                 NEW r \in SendNext(Off(k, l), l), Put(s, r.k), fault \subseteq fault'
          PROVE  DataInv'
        <2> DEFINE m == Off(k, l)
        <2>1. OffFacts(k, l, m)
            BY <1>4, <1>5, <1>7, OffFields
        <2>2. r \in send_list(m, l)
            BY <1>7 DEF SendNext
        <2>. HIDE DEF k, l, m
        <2>3. m \in SlotType /\ m.type # "INVALID" /\ Idle(m)
            BY <1>2, <1>3, <2>1 DEF OffFacts, BackFacts, Idle
        <2>4. Goes(m, r.k)
            BY <1>4, <2>2, <2>3, ListGoes
        <2>5. sock'[s] = r.k /\ \A t \in Slot : t # s => sock'[t] = sock[t]
            BY <1>1, <1>7, PutSlot
        <2>6. Steps /\ cmd_queue' = cmd_queue
            BY <1>0, <1>7, CallbackSteps DEF Callback
        <2>7. \A b \in 1 .. MaxBuf : freed'[b] = IF b = Head(j[l]).buf THEN freed[b] + 1 ELSE freed[b]
            BY <1>5, <1>7 DEF Free
        <2>8. j[l] # <<>> /\ k.id = j.id
            BY <1>3, <1>5, <1>7 DEF BackFacts
        <2>9. Wrote(s)
            BY <1>0, <1>3, <1>7, <2>1, <2>4, <2>5, <2>6, <2>7, <2>8 DEF Wrote, l
        <2>. QED
            BY <2>9, ByWrote
    <1>8. \A f \in BOOLEAN : fault \subseteq fault \cup U(f)
        OBVIOUS
    <1>9. fault \subseteq fault \cup {"null"}
        OBVIOUS
    <1>. QED
        BY <1>6, <1>7, <1>8, <1>9 DEF write_cb_, Back, Off

LEMMA DataConnection == ASSUME SockInv, DataInv, TypeOK', NEW s \in Slot, connection_cb(s) PROVE DataInv'
PROOF
    <1>0. Callback /\ UNCHANGED wire /\ sock[s].pending # {} /\ TypeOK
        BY Connection DEF SockInv
    <1>1. ASSUME NEW n \in 1 .. MAX_SOCKET, NEW m, NEW j,
                 j = [sock[HASH_ID(alloc_id + n)] EXCEPT !.type = "RESERVE"],
                 reserve_id(n), alloc_id' = alloc_id + n,
                 fault' = fault \cup NewFaults(j), UNCHANGED freed, Put(HASH_ID(alloc_id + n), m),
                 \/ m = Opened(j, alloc_id + n, "TCP", "PACCEPT", {}, FALSE)
                 \/ m = Opened(j, alloc_id + n, "TCP", "RESERVE", {}, TRUE)
          PROVE  DataInv'
        <2> DEFINE id == alloc_id + n
                   t == HASH_ID(id)
        <2>1. /\ id \in Id /\ id \in Nat /\ alloc_id < id /\ t \in Slot /\ alloc_id \in Nat
            BY <1>0, <1>1, ReserveId DEF TypeOK
        <2>2. TypedFacts(sock[t], "RESERVE", j)
            BY <1>0, <1>1, <2>1, TypedFields DEF Types, TypeOK
        <2>3. PICK y \in {"PACCEPT", "RESERVE"}, z \in BOOLEAN : m = Opened(j, id, "TCP", y, {}, z)
            BY <1>1
        <2>4. Put(t, m) /\ alloc_id' = id
            BY <1>1
        <2>. HIDE DEF t, id
        <2>5. OpenedFacts(j, id, "TCP", y, {}, z, m)
            BY <2>1, <2>2, <2>3, OpenedFields DEF Types, TypedFacts
        <2>6. sock'[t] = m /\ \A u \in Slot : u # t => sock'[u] = sock[u]
            BY <1>0, <2>1, <2>4, PutSlot
        <2>7. /\ fault \subseteq fault'
              /\ "wb_list" \notin fault' => j.high = <<>> /\ j.low = <<>>
            BY <1>1 DEF NewFaults
        <2>8. Steps
            BY <1>0, <2>1, <2>4, <2>7, QuietSteps DEF Callback
        <2>9. Unopened(id, alloc_id, opening, cmd_queue)
            BY <2>1 DEF Unopened
        <2>10. Makes(t, id)
            BY <1>0, <1>1, <2>1, <2>2, <2>5, <2>6, <2>7, <2>8, <2>9 DEF Makes, OpenedFacts, TypedFacts
        <2>. QED
            BY <2>10, ByMakes
    <1>2. ASSUME alloc_id' = alloc_id + MAX_SOCKET, UNCHANGED <<sock, report, fault, freed>>
          PROVE  DataInv'
        <2>1. alloc_id' \in Nat /\ alloc_id <= alloc_id'
            BY <1>0, <1>2, SocketAssumption DEF TypeOK
        <2>2. Steps
            BY <1>0, <1>2, <2>1, QuietSteps DEF Callback
        <2>. QED
            BY <1>0, <1>2, <2>2, KeptStep, ByClears
    <1>3. ASSUME Put(s, force_close(sock[s])), Free(ForceFrees(sock[s])),
                 fault' = fault \cup ForceFaults(sock[s]), UNCHANGED alloc_id
          PROVE  DataInv'
        <2>1. sock[s] \in SlotType /\ sock[s].type # "INVALID"
            BY <1>0 DEF SockInv, TypeOK, SlotsInv, SlotInv
        <2>2. Emptied(sock[s], force_close(sock[s]))
            BY <2>1, ForceEmptied
        <2>. QED
            BY <1>0, <1>3, <2>2, CallbackClears
    <1>. QED
        BY <1>1, <1>2, <1>3, Connection

LEMMA DataClosed == ASSUME SockInv, DataInv, TypeOK', NEW s \in Slot, close_cb(s) PROVE DataInv'
PROOF
    <1> DEFINE k == sock[s]
               m == [k EXCEPT !.type = "INVALID", !.closing = FALSE]
    <1>0. Callback /\ UNCHANGED <<alloc_id, freed, wire, fault>> /\ Put(s, m)
        BY DEF close_cb
    <1>1. k \in SlotType
        BY DEF SockInv, TypeOK
    <1>2. /\ m.type = "INVALID" /\ m.id = k.id /\ m.protocol = k.protocol /\ m.high = k.high
          /\ m.low = k.low /\ m.inflight = k.inflight
        BY <1>1 DEF SlotType, Types
    <1>. HIDE DEF m
    <1>3. Goes(k, m)
        BY <1>2 DEF Goes, Dead
    <1>. QED
        BY <1>0, <1>3, CallbackGoes

LEMMA DataRelease == ASSUME SockInv, DataInv, TypeOK', socket_server_release PROVE DataInv'
PROOF
    <1> DEFINE C == {t \in Slot : sock[t].type \notin {"RESERVE", "INVALID"}}
    <1>0. TypeOK
        BY DEF SockInv
    <1>1. /\ UNCHANGED <<cmd_queue, alloc_id, opening, bufs, wire>>
          /\ sock' = [s \in Slot |-> Shut(sock[s])] /\ fault \subseteq fault'
        BY DEF socket_server_release, calls, Shut
    <1>2. Steps
        BY <1>0, <1>1, QuietSteps DEF TypeOK
    <1>3. ASSUME NEW t \in Slot
          PROVE  IF t \in C THEN Emptied(sock[t], sock'[t]) ELSE Goes(sock[t], sock'[t])
        <2>1. sock[t] \in SlotType /\ sock'[t] = Shut(sock[t])
            BY <1>0, <1>1 DEF TypeOK
        <2>2. CASE t \in C
            <3>1. sock'[t] = force_close(sock[t]) /\ sock[t].type # "INVALID"
                BY <2>1, <2>2 DEF Shut
            <3>. QED
                BY <2>1, <2>2, <3>1, ForceEmptied
        <2>3. CASE t \notin C
            <3>1. sock'[t] = sock[t]
                BY <2>1, <2>3 DEF Shut, force_close
            <3>. QED
                BY <2>3, <3>1, GoesSame
        <2>. QED
            BY <2>2, <2>3
    <1>4. ASSUME NEW b \in 1 .. MaxBuf
          PROVE  freed'[b] = IF \E t \in C : Has(sock[t], b) THEN freed[b] + 1 ELSE freed[b]
        <2> DEFINE F == UNION {ForceFrees(sock[s]) : s \in {t \in Slot : sock[t].type # "RESERVE"}}
        <2>1. freed'[b] = IF b \in F THEN freed[b] + 1 ELSE freed[b]
            BY DEF socket_server_release, Free
        <2>2. b \in F <=> \E t \in Slot : sock[t].type # "RESERVE" /\ b \in ForceFrees(sock[t])
            OBVIOUS
        <2>3. \A t \in Slot : sock[t].type = "INVALID" => b \notin ForceFrees(sock[t])
            BY DEF ForceFrees
        <2>4. \A t \in C : b \in ForceFrees(sock[t]) <=> Has(sock[t], b)
            BY <1>0, FreesHas DEF TypeOK
        <2>. HIDE DEF F
        <2>5. b \in F <=> \E t \in C : Has(sock[t], b)
            BY <2>2, <2>3, <2>4
        <2>. QED
            BY <2>1, <2>5
    <1>. HIDE DEF C
    <1>5. C \subseteq Slot
        BY DEF C
    <1>6. Clears(C)
        BY <1>1, <1>2, <1>3, <1>4, <1>5 DEF Clears
    <1>. QED
        BY <1>6, ByClears

LEMMA DataIdle ==
    ASSUME SockInv, DataInv, TypeOK', CmdWake \/ CmdEmpty \/ ReleaseDone \/ UNCHANGED vars
    PROVE  DataInv'
PROOF
    <1>1. /\ UNCHANGED <<sock, alloc_id, opening, bufs, freed, wire, fault>>
          /\ cmd_queue' = cmd_queue \/ cmd_queue' = <<>>
        BY DEF CmdWake, CmdEmpty, ReleaseDone, vars, calls
    <1>2. CASE cmd_queue' = cmd_queue
        <2>1. Steps
            BY <1>1, <1>2, QuietSteps DEF SockInv, TypeOK
        <2>. QED
            BY <1>1, <2>1, KeptStep, ByClears
    <1>3. CASE cmd_queue' = <<>>
        <2>1. Later(cmd_queue, cmd_queue') /\ Shrinks
            BY <1>1, <1>3 DEF Later, Shrinks, Unopened
        <2>2. Steps
            BY <1>1, <2>1 DEF Steps
        <2>. QED
            BY <1>1, <2>2, KeptStep, ByClears
    <1>. QED
        BY <1>1, <1>2, <1>3

LEMMA DataStep == ASSUME SockInv, TypeOK', DataInv, [Next]_vars PROVE DataInv'
PROOF
    <1>1. CASE Api
        <2>1. "O" \in Opens /\ "L" \in Opens /\ "B" \in Opens /\ "U" \in Opens
            BY DEF Opens
        <2>2. CASE \/ socket_server_connect \/ socket_server_listen
                   \/ socket_server_bind \/ socket_server_udp
            BY <2>1, <2>2, DataReserve DEF socket_server_connect, socket_server_listen,
                                           socket_server_bind, socket_server_udp
        <2>3. CASE ApiOpen
            BY <2>3, DataOpen
        <2>4. CASE \/ socket_server_exit
                   \/ \E id \in Known : \/ socket_server_start(id) \/ socket_server_close(id)
                                        \/ socket_server_nodelay(id) \/ socket_server_udp_connect(id)
            BY <2>4, DataCommands
        <2>5. CASE \E id \in Known : Sending(id)
            BY <2>5, BySend
        <2>. QED
            BY <1>1, <2>2, <2>3, <2>4, <2>5 DEF Api, Sending
    <1>2. CASE ctrl_cmd
        <2>1. PICK c : \/ open_socket(c) \/ listen_socket(c) \/ bind_socket(c) \/ add_udp_socket(c)
                       \/ set_udp_address(c) \/ NoEffect(c) \/ start_socket(c) \/ close_socket(c)
                       \/ send_socket(c)
            BY <1>2 DEF ctrl_cmd
        <2>. QED
            BY <2>1, DataOpening, DataAddress, DataStart, DataClose, DataSendSocket DEF OpensSocket
    <1>3. ASSUME NEW s \in Slot, Loop(s) PROVE DataInv'
        BY <1>3, DataRead, DataAborted, DataConnect, DataWrite, DataConnection, DataClosed DEF Loop
    <1>. QED
        BY <1>1, <1>2, <1>3, DataRelease, DataIdle DEF Next

LEMMA DataInit == Init => DataInv
PROOF
    <1>. SUFFICES ASSUME Init PROVE DataInv
        OBVIOUS
    <1>1. /\ cmd_queue = <<>> /\ bufs = <<>> /\ fault = {} /\ Len(<<>>) = 0
          /\ \A b \in 1 .. MaxBuf : freed[b] = 0
          /\ \A id \in Id : wire[id] = <<>>
          /\ \A s \in Slot : sock[s] = Empty
        BY DEF Init
    <1>2. /\ Empty.high = <<>> /\ Empty.low = <<>> /\ Empty.inflight = <<>> /\ Empty.type = "INVALID"
          /\ Empty.id = 0
        BY DEF Empty
    <1>3. \A i : i \notin 1 .. Len(<<>>)
        BY <1>1
    <1>4. (\A b : ~In(<<>>, b)) /\ Once(<<>>)
        BY EmptyIn
    <1>. HIDE DEF Empty
    <1>5. \A b : ~Has(Empty, b) /\ ~Flying(Empty, b)
        BY <1>2, <1>3, <1>4 DEF Has, Flying
    <1>6. ListsOk(Empty, <<>>, 0)
        BY <1>2, <1>4, <1>5 DEF ListsOk
    <1>7. QueueOk(<<>>, <<>>)
        BY <1>3 DEF QueueOk
    <1>8. BufInv
        BY <1>1, <1>3, <1>5, <1>6, <1>7 DEF BufInv
    <1>9. WireInv
        BY <1>1, <1>2 DEF WireInv, Wired, Dead
    <1>. QED
        BY <1>8, <1>9 DEF DataInv

-----------------------------------------------------------------------------
(* The theorems.                                                          *)

\* The invariant of the slots and of the commands, whatever the callers do.
THEOREM SocketInvariant == Spec => []SockInv
PROOF
    <1>1. Init => SockInv
        BY SockInit
    <1>2. SockInv /\ [Next]_vars => SockInv'
        BY SockStep
    <1>. QED
        BY <1>1, <1>2, PTL DEF Spec

\* A slot is free only when libuv has nothing of it left, and new_fd always finds
\* the slot of a new socket reserved, for any number of slots and any calls.
THEOREM FreeSlotsAreQuiet == Spec => []FreeSlotIsQuiet
PROOF
    <1>1. SockInv => FreeSlotIsQuiet
        BY DEF SockInv, SlotsInv, SlotInv, FreeSlotIsQuiet
    <1>. QED
        BY <1>1, SocketInvariant, PTL

\* On a TCP socket the flag "write" stands for the one request in flight, and a
\* high list that is not empty has it, unless a write has failed.
THEOREM HighListIsInFlight == Spec => []HighIsInFlight
PROOF
    <1>1. SockInv => HighIsInFlight
        BY DEF SockInv, SlotsInv, SlotInv, HighIsInFlight, WriteFaults
    <1>. QED
        BY <1>1, SocketInvariant, PTL

\* Once an id has been reported closed or in error, no data and no accepted
\* connection is reported for it: the slot that has the id is closing, is free or
\* is a UDP socket's, and the id is never given to another socket.
THEOREM NothingReportedAfterEnd == Spec => []NothingAfterEnd
PROOF
    <1>1. Init => SockInv /\ LiveInv
        BY SockInit, LiveInit
    <1>2. SockInv /\ LiveInv /\ [Next]_vars => (SockInv /\ LiveInv)'
        BY SockStep, LiveNext
    <1>3. LiveInv => NothingAfterEnd
        BY DEF LiveInv, NothingAfterEnd
    <1>. QED
        BY <1>1, <1>2, <1>3, PTL DEF Spec

\* The invariant of the buffers and of what is written.
THEOREM DataInvariant == Spec => [](SockInv /\ DataInv)
PROOF
    <1>1. ASSUME SockInv, DataInv, [Next]_vars PROVE (SockInv /\ DataInv)'
        <2>1. SockInv'
            BY <1>1, SockStep
        <2>2. TypeOK'
            BY <2>1 DEF SockInv
        <2>. QED
            BY <1>1, <2>1, <2>2, DataStep
    <1>. QED
        BY SockInit, DataInit, <1>1, PTL DEF Spec

\* A buffer is freed at most once, and never while a command or a list of a slot
\* still holds it, for any number of sockets, calls and buffers: the callers, the
\* commands and the callbacks of the loop may interleave in any way.
THEOREM BuffersFreedOnce == Spec => []FreedOnce
PROOF
    <1>1. ASSUME SockInv, DataInv PROVE FreedOnce
        <2>. SUFFICES ASSUME NEW b \in 1 .. MaxBuf PROVE freed[b] + (IF Held(b) THEN 1 ELSE 0) <= 1
            BY DEF FreedOnce
        <2>1. /\ freed[b] <= 1 /\ freed[b] \in Nat
              /\ freed[b] # 0 => ~InQueue(cmd_queue, b) /\ \A s \in Slot : ~Has(sock[s], b)
            BY <1>1 DEF SockInv, TypeOK, DataInv, BufInv
        <2>2. DOMAIN cmd_queue = 1 .. Len(cmd_queue)
            BY <1>1 DEF SockInv, TypeOK
        <2>3. \A s \in Slot : b \in Bufs(sock[s].high) \cup Bufs(sock[s].low) => Has(sock[s], b)
            BY <1>1, BufsIn DEF SockInv, TypeOK, SlotType, Has
        <2>4. Held(b) => InQueue(cmd_queue, b) \/ \E s \in Slot : Has(sock[s], b)
            BY <2>2, <2>3 DEF Held, InQueue, IsSend
        <2>. QED
            BY <2>1, <2>4
    <1>. QED
        BY DataInvariant, <1>1, PTL

\* What a TCP connection puts on the wire was sent on it, each buffer once, and the
\* high priority ones in the order of the calls, unless new_fd found a list of a
\* slot not empty.
THEOREM WireKeepsOrder == Spec => []WireInOrder
PROOF
    <1>1. ASSUME SockInv, DataInv PROVE WireInOrder
        <2>. SUFFICES ASSUME "wb_list" \notin fault, NEW s \in Slot, sock[s].type # "INVALID",
                             sock[s].protocol = "TCP", sock[s].id # 0, NEW w, w = wire[sock[s].id]
                      PROVE  /\ \A i \in DOMAIN w : bufs[w[i]].id = sock[s].id
                             /\ \A i, j \in DOMAIN w : i < j =>
                                   /\ w[i] # w[j]
                                   /\ bufs[w[i]].cmd = "D" /\ bufs[w[j]].cmd = "D" => w[i] < w[j]
            BY DEF WireInOrder
        <2>1. WireOk(sock[s].id, w, bufs)
            BY <1>1 DEF DataInv, WireInv, Wired
        <2>2. sock[s].id \in Id
            <3>1. sock[s].id \in 1 .. alloc_id
                BY <1>1 DEF SockInv, IdsInv
            <3>2. alloc_id \in Nat /\ use.ids \in 0 .. MaxId /\ alloc_id <= use.ids /\ MaxId \in Nat
                BY <1>1, SocketAssumption DEF SockInv, TypeOK
            <3>. QED
                BY <3>1, <3>2 DEF Id
        <2>3. DOMAIN w = 1 .. Len(w)
            BY <1>1, <2>2 DEF SockInv, TypeOK
        <2>. QED
            BY <2>1, <2>3 DEF WireOk, IsD
    <1>. QED
        BY DataInvariant, <1>1, PTL
=============================================================================
