---------------------------- MODULE SocketServer ----------------------------
(***************************************************************************)
(* The socket server: the slots and their ids, the commands that the       *)
(* worker threads queue for the loop thread, and the libuv callbacks on    *)
(* that thread.  A worker thread reserves an id in one step and stores and *)
(* queues it in another; a send is one step (the loop checks the id        *)
(* again).  libuv itself is external: a handle that is closing keeps its   *)
(* slot until its requests have come back, uv_write fails on a handle that *)
(* is not connected or is closing, uv_async_send coalesces.                *)
(*                                                                         *)
(* Asserts are those of a release build: the set "fault" records the ones  *)
(* that would have failed and the step goes on.  A message filled from an  *)
(* uninitialised socket_message ("uninit") names no service and is         *)
(* dropped; a NULL dereference ("null") ends the behaviour.  Buffers are   *)
(* numbered in the order in which they were queued.  The service a message *)
(* goes to (opaque) and the text of a message are left out.                *)
(***************************************************************************)
EXTENDS Naturals, Sequences, FiniteSets

CONSTANTS
    MAX_SOCKET,    \* the number of slots
    Use,           \* bound: a set of [api, calls, ids]: the API calls made, how many,
                   \* and the last id, those of accepted connections included
    MaxId,         \* bound: the largest ids of Use
    MaxBuf         \* bound: the buffers sent

\* The commands, by the letter of their requests.
Opens == {"O", "L", "B", "U"}
Sends == {"D", "P", "A"}
Kinds == Opens \cup Sends \cup {"S", "K", "T", "C", "X"}

ASSUME SocketAssumption ==
    /\ MAX_SOCKET \in Nat \ {0} /\ MaxId \in Nat /\ MaxBuf \in Nat
    /\ Use \subseteq [api : SUBSET Kinds, calls : Nat, ids : 0 .. MaxId]

VARIABLES
    sock,          \* slot[]
    alloc_id,      \* the last id tried
    cmd_queue,     \* the requests, oldest first
    async_sent,    \* libuv: a wake-up of cmd_cb is posted
    running,       \* cmd_cb is in its loop
    opening,       \* the API call between reserve_id's exchange and the request
    use,           \* the API calls of this behaviour and how many are left
    listener,      \* the ids that socket_server_listen returned
    udp,           \* the ids that socket_server_udp returned
    bufs,          \* bufs[b]: the id and the command that buffer b was sent with
    freed,         \* freed[b]: how often buffer b was freed
    wire,          \* wire[id]: the buffers that libuv has written for id, in order
    ended,         \* the ids reported closed or in error
    late,          \* the ids with data or an accept reported after that
    fault,         \* failed asserts and undefined behaviour met so far
    phase          \* "run", "release" (socket_server_release), "done"

calls   == <<alloc_id, opening, use, listener, udp, bufs>>
report  == <<ended, late>>
vars == <<sock, alloc_id, cmd_queue, async_sent, running, opening, use, listener,
          udp, bufs, freed, wire, report, fault, phase>>

Slot == 0 .. MAX_SOCKET - 1
Id   == 1 .. MaxId
HASH_ID(id) == id % MAX_SOCKET
NoCall == [kind |-> "none", id |-> 0]

\* A slot, after socket_server_create.  type is one of SOCKET_TYPE_*; pending is
\* what libuv still owes the handle: a connect, reads, accepts; inflight are its
\* write requests.
Empty == [type |-> "INVALID", id |-> 0, protocol |-> "TCP", high |-> <<>>,
          low |-> <<>>, write |-> FALSE, address |-> FALSE,
          closing |-> FALSE, pending |-> {}, inflight |-> <<>>]

Init ==
    /\ sock = [s \in Slot |-> Empty]
    /\ alloc_id = 0
    /\ cmd_queue = <<>>
    /\ async_sent = FALSE
    /\ running = FALSE
    /\ opening = NoCall
    /\ use \in Use
    /\ listener = {}
    /\ udp = {}
    /\ bufs = <<>>
    /\ freed = [b \in 1 .. MaxBuf |-> 0]
    /\ wire = [id \in Id |-> <<>>]
    /\ ended = {}
    /\ late = {}
    /\ fault = {}
    /\ phase = "run"

Alive == phase # "done" /\ "null" \notin fault

\* forward_message: a report about id.
forward_message(id, type) ==
    /\ ended' = IF type \in {"CLOSE", "ERROR"} THEN ended \cup {id} ELSE ended
    /\ late' = IF type \in {"DATA", "ACCEPT"} /\ id \in ended THEN late \cup {id} ELSE late
\* socket_server_cb; an EXIT goes to nobody.
Report(id, type) == forward_message(id, type)

Bufs(list) == {list[i].buf : i \in DOMAIN list}
Free(B) == freed' = [b \in 1 .. MaxBuf |-> IF b \in B THEN freed[b] + 1 ELSE freed[b]]

-----------------------------------------------------------------------------
(* The API, called on worker threads. *)

\* reserve_id: the first free slot from alloc_id on, at most once around.
Tries(n) == \A i \in 1 .. n - 1 : sock[HASH_ID(alloc_id + i)].type # "INVALID"

Call(kind) ==
    /\ phase = "run" /\ Alive
    /\ kind \in use.api /\ use.calls > 0
    /\ use' = [use EXCEPT !.calls = @ - 1]

reserve_id(n) ==
    /\ n \in 1 .. MAX_SOCKET /\ alloc_id + n <= use.ids
    /\ Tries(n)
    /\ sock[HASH_ID(alloc_id + n)].type = "INVALID"

\* The first step of a call that opens a socket: the exchange in reserve_id, or
\* no slot is free and the call returns -1.
ApiReserve(kind) ==
    /\ opening = NoCall
    /\ Call(kind)
    /\ \/ \E n \in 1 .. MAX_SOCKET :
             /\ reserve_id(n)
             /\ alloc_id' = alloc_id + n
             /\ opening' = [kind |-> kind, id |-> alloc_id + n]
             /\ sock' = [sock EXCEPT ![HASH_ID(alloc_id + n)].type = "RESERVE"]
       \/ /\ \A s \in Slot : sock[s].type # "INVALID"
          /\ alloc_id + MAX_SOCKET <= use.ids
          /\ alloc_id' = alloc_id + MAX_SOCKET
          /\ UNCHANGED <<sock, opening>>
    /\ UNCHANGED <<cmd_queue, async_sent, running, listener, udp, bufs, freed, wire, report,
                   fault, phase>>

socket_server_connect == ApiReserve("O")
socket_server_listen  == ApiReserve("L")
socket_server_bind    == ApiReserve("B")
socket_server_udp     == ApiReserve("U")

\* send_request: Push and uv_async_send.
send_request(c) ==
    /\ cmd_queue' = Append(cmd_queue, c)
    /\ async_sent' = TRUE

\* Its second step: reserve_id stores the id and the call queues its request.
ApiOpen ==
    /\ opening # NoCall
    /\ sock' = [sock EXCEPT ![HASH_ID(opening.id)].id = opening.id]
    /\ send_request([cmd |-> opening.kind, id |-> opening.id])
    /\ opening' = NoCall
    /\ listener' = IF opening.kind = "L" THEN listener \cup {opening.id} ELSE listener
    /\ udp' = IF opening.kind = "U" THEN udp \cup {opening.id} ELSE udp
    /\ UNCHANGED <<alloc_id, running, use, bufs, freed, wire, report, fault, phase>>

\* Ids that a service may use: of calls that have returned, and accepted ones.
Known == {id \in 1 .. alloc_id : id # opening.id}

\* A call that only queues a request.
ApiCommand(k, c) ==
    /\ Call(k) /\ send_request(c)
    /\ UNCHANGED <<sock, alloc_id, opening, listener, udp, bufs, running, freed, wire, report,
                   fault, phase>>

socket_server_start(id)   == ApiCommand("S", [cmd |-> "S", id |-> id])
socket_server_close(id)   == ApiCommand("K", [cmd |-> "K", id |-> id])
socket_server_nodelay(id) == ApiCommand("T", [cmd |-> "T", id |-> id])
socket_server_exit        == ApiCommand("X", [cmd |-> "X"])

\* With an address of either family; callers call it on UDP sockets.
socket_server_udp_connect(id) ==
    /\ id \in udp
    /\ \E f \in BOOLEAN : ApiCommand("C", [cmd |-> "C", id |-> id, v4 |-> f])

\* The unlocked test of the id by a call that sends.  A listening socket is not
\* sent to: send_socket asserts that of its callers.
Taken(id) == sock[HASH_ID(id)].id = id /\ sock[HASH_ID(id)].type # "INVALID"
ApiSend(id, k, c) ==
    /\ Call(k) /\ Len(bufs) < MaxBuf /\ id \notin listener
    /\ bufs' = Append(bufs, [id |-> id, cmd |-> k])
    /\ \/ Taken(id) /\ send_request(c) /\ UNCHANGED freed
       \/ ~Taken(id) /\ UNCHANGED <<cmd_queue, async_sent>>
    /\ UNCHANGED <<sock, alloc_id, running, opening, listener, udp, wire, report, fault, phase>>

\* check_wsz frees the buffer that was not taken.
check_wsz(id) == ~Taken(id) => Free({Len(bufs) + 1})

NewBuf(k, id) == [cmd |-> k, id |-> id, buf |-> Len(bufs) + 1]
socket_server_send(id) == check_wsz(id) /\ ApiSend(id, "D", NewBuf("D", id))

\* The low priority call does not free what is not taken.
socket_server_send_lowpriority(id) ==
    (~Taken(id) => UNCHANGED freed) /\ ApiSend(id, "P", NewBuf("P", id))

\* On UDP sockets as well.
socket_server_udp_send(id) ==
    /\ id \in udp /\ check_wsz(id)
    /\ \E f \in BOOLEAN :
          ApiSend(id, "A", [cmd |-> "A", id |-> id, buf |-> Len(bufs) + 1, v4 |-> f])

-----------------------------------------------------------------------------
(* What the loop thread does to a slot: operators on the slot's record. *)

\* force_close: uv_close returns at once on a handle that is closing.  Mutants:
\* the lists are not cleared; the handle is not closed; the slot is free at once.
force_closeKeeps(k) == [k EXCEPT !.closing = TRUE]
force_closeNoClose(k) == [k EXCEPT !.high = <<>>, !.low = <<>>]
force_closeAtOnce(k) == [k EXCEPT !.high = <<>>, !.low = <<>>, !.type = "INVALID"]
force_close(k) ==
    IF k.type = "INVALID" THEN k
    ELSE [k EXCEPT !.high = <<>>, !.low = <<>>, !.closing = k.closing \/ k.type # "RESERVE"]
ForceFrees(k) == IF k.type = "INVALID" THEN {} ELSE Bufs(k.high) \cup Bufs(k.low)
ForceFaults(k) ==
    (IF k.type = "RESERVE" THEN {"reserve"} ELSE {})
      \cup (IF k.type # "INVALID" /\ k.closing THEN {"closing"} ELSE {})

\* new_fd: a fresh handle in a slot whose lists should be empty.
new_fd(k, id, p) ==
    [k EXCEPT !.id = id, !.protocol = p, !.write = FALSE, !.address = FALSE,
              !.closing = FALSE, !.pending = {}, !.inflight = <<>>]
NewFaults(k) ==
    (IF k.type # "RESERVE" THEN {"new_fd"} ELSE {})
      \cup (IF k.high # <<>> \/ k.low # <<>> THEN {"wb_list"} ELSE {})

\* uv_write and uv_udp_send take the buffer: external, but for the address
\* that udp_socket_address makes.
Writable(k, e) ==
    k.type # "RESERVE" /\ ~k.closing /\ "connect" \notin k.pending /\ e.ok

\* if (s->write) return -1.  Mutant: no such test.
BusyNever(k) == FALSE
Busy(k) == k.protocol = "TCP" /\ k.write

\* send_list_tcp and send_list_udp on one of the lists: the outcomes.
send_list(k, l) ==
    IF Busy(k) \/ k[l] = <<>> THEN {[k |-> k, fail |-> FALSE]}
    ELSE LET req == [list |-> l, buf |-> Head(k[l]).buf]
             sent == [k EXCEPT !.write = TRUE, !.inflight = Append(@, req)]
         IN  {[k |-> k, fail |-> TRUE]}
               \cup (IF Writable(k, Head(k[l])) THEN {[k |-> sent, fail |-> FALSE]} ELSE {})

send_buffer(k) ==
    UNION {IF r.fail \/ r.k.high # <<>> \/ r.k.low = <<>> THEN {r} ELSE send_list(r.k, "low") :
           r \in send_list(k, "high")}

send_buffer_empty(k) == k.high = <<>> /\ k.low = <<>>

\* append_sendbuffer, append_sendbuffer_low, append_sendbuffer_udp
append(k, l, b, ok) == [k EXCEPT ![l] = Append(@, [buf |-> b, ok |-> ok])]

-----------------------------------------------------------------------------
(* The commands: cmd_cb and ctrl_cmd. *)

CmdWake ==
    /\ phase = "run" /\ Alive /\ async_sent /\ ~running
    /\ async_sent' = FALSE
    /\ running' = TRUE
    /\ UNCHANGED <<sock, cmd_queue, calls, freed, wire, report, fault, phase>>

CmdEmpty ==
    /\ running /\ cmd_queue = <<>>
    /\ running' = FALSE
    /\ UNCHANGED <<sock, cmd_queue, async_sent, calls, freed, wire, report, fault, phase>>

\* The next command; cmd_cb leaves its loop after one that returns a report.
GoesOn(ret) == ret = "none"
Take(c, ret) ==
    /\ running /\ Alive /\ cmd_queue # <<>>
    /\ c = Head(cmd_queue)
    /\ cmd_queue' = Tail(cmd_queue)
    /\ running' = GoesOn(ret)
    /\ UNCHANGED <<async_sent, calls, phase>>

Found(c) == sock[HASH_ID(c.id)].type # "INVALID" /\ sock[HASH_ID(c.id)].id = c.id
Put(s, k) == sock' = [sock EXCEPT ![s] = k]

\* open_socket: a bad address; uv_tcp_connect fails; connecting.
open_socket(c) ==
    LET s == HASH_ID(c.id)
        k == new_fd(sock[s], c.id, "TCP")
    IN  /\ c.cmd = "O"
        /\ \/ /\ Take(c, "ERROR") /\ Report(c.id, "ERROR")
              /\ Put(s, [sock[s] EXCEPT !.type = "INVALID"])
              /\ UNCHANGED fault
           \/ /\ Take(c, "ERROR") /\ Report(c.id, "ERROR")
              /\ Put(s, [k EXCEPT !.type = "INVALID"])
              /\ fault' = fault \cup NewFaults(sock[s])
           \/ /\ Take(c, "none") /\ UNCHANGED report
              /\ Put(s, [k EXCEPT !.type = "CONNECTING", !.pending = {"connect"}])
              /\ fault' = fault \cup NewFaults(sock[s])
        /\ UNCHANGED <<freed, wire>>

\* listen_socket: SOCKET_ERROR is -1, a bind that fails is not reported.
listen_socket(c) ==
    LET s == HASH_ID(c.id)
        k == new_fd(sock[s], c.id, "TCP")
    IN  /\ c.cmd = "L" /\ Take(c, "none")
        /\ Put(s, [k EXCEPT !.type = "PLISTEN"]) \/ Put(s, [k EXCEPT !.closing = TRUE])
        /\ fault' = fault \cup NewFaults(sock[s])
        /\ UNCHANGED <<freed, wire, report>>

\* bind_socket: reading at once, or closed with the slot still reserved.
bind_socket(c) ==
    LET s == HASH_ID(c.id)
        k == new_fd(sock[s], c.id, "TCP")
    IN  /\ c.cmd = "B"
        /\ \/ /\ Take(c, "OPEN") /\ Report(c.id, "OPEN")
              /\ Put(s, [k EXCEPT !.type = "BIND", !.pending = {"read"}])
           \/ /\ Take(c, "ERROR") /\ Report(c.id, "ERROR")
              /\ Put(s, [k EXCEPT !.closing = TRUE])
        /\ fault' = fault \cup NewFaults(sock[s])
        /\ UNCHANGED <<freed, wire>>

add_udp_socket(c) ==
    LET s == HASH_ID(c.id) IN
    /\ c.cmd = "U" /\ Take(c, "none")
    /\ Put(s, [new_fd(sock[s], c.id, "UDP") EXCEPT !.type = "CONNECTED"])
    /\ fault' = fault \cup NewFaults(sock[s])
    /\ UNCHANGED <<freed, wire, report>>

\* set_udp_address: an address of the other family is reported as an error.
set_udp_address(c) ==
    LET s == HASH_ID(c.id) IN
    /\ c.cmd = "C"
    /\ \/ /\ ~Found(c) /\ Take(c, "none") /\ UNCHANGED <<sock, report>>
       \/ /\ Found(c) /\ c.v4 /\ Take(c, "none") /\ UNCHANGED report
          /\ Put(s, [sock[s] EXCEPT !.address = TRUE])
       \/ /\ Found(c) /\ ~c.v4 /\ Take(c, "ERROR") /\ Report(c.id, "ERROR")
          /\ UNCHANGED sock
    /\ UNCHANGED <<freed, wire, fault>>

\* setopt_socket; 'X' is reported to nobody.
NoEffect(c) ==
    /\ \/ c.cmd = "T" /\ Take(c, "none")
       \/ c.cmd = "X" /\ Take(c, "EXIT")
    /\ UNCHANGED <<sock, freed, wire, report, fault>>

\* start_socket: uv_read_start and uv_listen may fail, and do on a handle that
\* is closing.
Starts(c, k, type, pending) ==
    \/ /\ ~k.closing /\ Take(c, "OPEN") /\ Report(c.id, "OPEN")
       /\ Put(HASH_ID(c.id), [k EXCEPT !.type = type, !.pending = @ \cup pending])
       /\ UNCHANGED <<freed, fault>>
    \/ /\ Take(c, "ERROR") /\ Report(c.id, "ERROR")
       /\ Put(HASH_ID(c.id), force_close(k)) /\ Free(ForceFrees(k))
       /\ fault' = fault \cup ForceFaults(k)

start_socket(c) ==
    LET k == sock[HASH_ID(c.id)]
    IN  /\ c.cmd = "S"
        /\ \/ /\ ~Found(c) /\ Take(c, "ERROR") /\ Report(c.id, "ERROR")
              /\ UNCHANGED <<sock, freed, fault>>
           \/ Found(c) /\ k.type = "PACCEPT" /\ Starts(c, k, "CONNECTED", {"read"})
           \/ Found(c) /\ k.type = "PLISTEN" /\ Starts(c, k, "LISTEN", {"accept"})
           \/ /\ Found(c) /\ k.type = "CONNECTED" /\ Take(c, "OPEN") /\ Report(c.id, "OPEN")
              /\ UNCHANGED <<sock, freed, fault>>
           \/ /\ Found(c) /\ k.type \notin {"PACCEPT", "PLISTEN", "CONNECTED"}
              /\ Take(c, "none") /\ UNCHANGED <<sock, freed, report, fault>>
        /\ UNCHANGED wire

\* close_socket: with something left to send the socket is half closed.
close_socket(c) ==
    LET s == HASH_ID(c.id)
        k == sock[s]
    IN  /\ c.cmd = "K"
        /\ \/ /\ ~Found(c) /\ Take(c, "CLOSE") /\ Report(c.id, "CLOSE")
              /\ UNCHANGED <<sock, freed, wire, fault>>
           \/ /\ Found(c) /\ send_buffer_empty(k)
              /\ Take(c, "CLOSE") /\ Report(c.id, "CLOSE")
              /\ Put(s, force_close(k)) /\ Free(ForceFrees(k))
              /\ fault' = fault \cup ForceFaults(k)
              /\ UNCHANGED wire
           \/ /\ Found(c) /\ ~send_buffer_empty(k)
              /\ \E r \in send_buffer(k) :
                    \/ /\ r.fail /\ Take(c, "CLOSE")
                       /\ Put(s, r.k) /\ fault' = fault \cup {"uninit"}
                    \/ /\ ~r.fail /\ Take(c, "none")
                       /\ Put(s, [r.k EXCEPT !.type = "HALFCLOSE"]) /\ UNCHANGED fault
              /\ UNCHANGED <<freed, wire, report>>

\* The list of a buffer: low only behind something else on a TCP socket.
ListOf(k, low) ==
    IF low /\ ~(k.protocol = "TCP" /\ send_buffer_empty(k) /\ k.type = "CONNECTED")
    THEN "low" ELSE "high"

\* send_socket: dropped; queued; queued and the high list started.
\* Mutant of Drops: a half closed socket takes more.
DropsOpen(c) == ~Found(c)
Drops(c) == ~Found(c) \/ sock[HASH_ID(c.id)].type = "HALFCLOSE"
AddressOk(k, c) == k.protocol = "TCP" \/ (IF c.cmd = "A" THEN c.v4 ELSE k.address)

send_socket(c) ==
    LET s == HASH_ID(c.id)
        l == ListOf(sock[s], c.cmd = "P")
        k == append(sock[s], l, c.buf, AddressOk(sock[s], c))
    IN  /\ c.cmd \in Sends /\ Take(c, "none")
        /\ \/ /\ Drops(c) /\ Free({c.buf}) /\ UNCHANGED <<sock, fault>>
           \/ /\ ~Drops(c) /\ (k.protocol = "UDP" \/ l = "low" \/ k.write)
              /\ Put(s, k) /\ UNCHANGED <<freed, fault>>
           \/ /\ ~Drops(c) /\ k.protocol = "TCP" /\ l = "high" /\ ~k.write
              /\ \E r \in send_buffer(k) :
                    /\ Put(s, r.k)
                    /\ fault' = IF r.fail THEN fault \cup {"uninit"} ELSE fault
              /\ UNCHANGED freed
        /\ UNCHANGED <<wire, report>>

ctrl_cmd ==
    /\ running /\ cmd_queue # <<>>
    /\ LET c == Head(cmd_queue) IN
       \/ open_socket(c) \/ listen_socket(c) \/ bind_socket(c) \/ add_udp_socket(c)
       \/ set_udp_address(c) \/ NoEffect(c) \/ start_socket(c) \/ close_socket(c)
       \/ send_socket(c)

-----------------------------------------------------------------------------
(* The callbacks of libuv on a slot. *)

Callback ==
    /\ Alive /\ ~running
    /\ UNCHANGED <<cmd_queue, async_sent, running, opening, use, listener, udp, bufs, phase>>

Reading(k) == "read" \in k.pending /\ ~k.closing

\* read_cb with data; with an error.
read_cb(s) ==
    /\ Callback /\ Reading(sock[s])
    /\ \/ /\ Report(sock[s].id, "DATA")
          /\ UNCHANGED <<sock, freed, fault>>
       \/ /\ Report(sock[s].id, "ERROR")
          /\ Put(s, [force_close(sock[s]) EXCEPT !.pending = @ \ {"read"}])
          /\ Free(ForceFrees(sock[s]))
          /\ fault' = fault \cup ForceFaults(sock[s])
    /\ UNCHANGED <<alloc_id, wire>>

\* A request of a closing handle comes back without a callback.
Aborted(s) ==
    /\ Callback /\ sock[s].closing
    /\ \E p \in sock[s].pending \ {"connect"} : Put(s, [sock[s] EXCEPT !.pending = @ \ {p}])
    /\ UNCHANGED <<alloc_id, freed, wire, report, fault>>

\* connect_cb_: never with status 0 on a handle that is closing.
connect_cb_(s) ==
    LET k == [sock[s] EXCEPT !.pending = @ \ {"connect"}] IN
    /\ Callback /\ "connect" \in sock[s].pending
    /\ \/ /\ ~k.closing /\ Report(k.id, "OPEN")
          /\ Put(s, [k EXCEPT !.type = "CONNECTED", !.pending = @ \cup {"read"}])
          /\ UNCHANGED <<freed, fault>>
       \/ /\ Report(k.id, "ERROR")
          /\ Put(s, force_close(k)) /\ Free(ForceFrees(k))
          /\ fault' = fault \cup ForceFaults(k)
    /\ UNCHANGED <<alloc_id, wire>>

\* The list goes on with its next buffer.  Mutant: it does not.
SendNextNot(k, l) == {[k |-> k, fail |-> FALSE]}
SendNext(k, l) == send_list(k, l)

\* write_cb_ and udp_send_cb, for the oldest request: the head of its list is
\* freed and the list goes on; an error leaves the head where it is, and on TCP
\* is reported with an uninitialised message.
write_cb_(s) ==
    LET l == Head(sock[s].inflight).list
        k == [sock[s] EXCEPT !.inflight = Tail(@), !.write = FALSE]
        uninit(failed) == IF failed /\ k.protocol = "TCP" THEN {"uninit"} ELSE {}
    IN  /\ Callback /\ sock[s].inflight # <<>>
        /\ \/ /\ k[l] = <<>> /\ Put(s, k)
              /\ fault' = fault \cup {"null"} /\ UNCHANGED <<freed, wire>>
           \/ /\ k[l] # <<>> /\ Free({Head(k[l]).buf})
              /\ wire' = [wire EXCEPT ![k.id] = Append(@, Head(sock[s].inflight).buf)]
              /\ \E r \in SendNext([k EXCEPT ![l] = Tail(@)], l) :
                    /\ Put(s, r.k)
                    /\ fault' = fault \cup uninit(r.fail)
           \/ /\ Put(s, k) /\ fault' = fault \cup uninit(TRUE)
              /\ UNCHANGED <<freed, wire>>
        /\ UNCHANGED <<alloc_id, report>>

\* report_accept: no slot is free; uv_accept fails; accepted.
report_accept(s) ==
    /\ \/ \E n \in 1 .. MAX_SOCKET :
             LET id == alloc_id + n
                 t  == HASH_ID(id)
                 k  == new_fd([sock[t] EXCEPT !.type = "RESERVE"], id, "TCP")
             IN  /\ reserve_id(n)
                 /\ alloc_id' = id
                 /\ fault' = fault \cup NewFaults([sock[t] EXCEPT !.type = "RESERVE"])
                 /\ \/ Put(t, [k EXCEPT !.type = "PACCEPT"]) /\ Report(sock[s].id, "ACCEPT")
                    \/ Put(t, [k EXCEPT !.closing = TRUE]) /\ UNCHANGED report
       \/ /\ \A t \in Slot : sock[t].type # "INVALID"
          /\ alloc_id + MAX_SOCKET <= use.ids
          /\ alloc_id' = alloc_id + MAX_SOCKET
          /\ UNCHANGED <<sock, report, fault>>
    /\ UNCHANGED freed

connection_cb(s) ==
    /\ Callback /\ "accept" \in sock[s].pending /\ ~sock[s].closing
    /\ \/ report_accept(s)
       \/ /\ Report(sock[s].id, "ERROR")
          /\ Put(s, force_close(sock[s])) /\ Free(ForceFrees(sock[s]))
          /\ fault' = fault \cup ForceFaults(sock[s])
          /\ UNCHANGED alloc_id
    /\ UNCHANGED wire

\* close_cb, once the last request of the handle has come back.
Settled(k) == k.closing /\ k.pending = {} /\ k.inflight = <<>>
close_cb(s) ==
    /\ Callback /\ Settled(sock[s])
    /\ Put(s, [sock[s] EXCEPT !.type = "INVALID", !.closing = FALSE])
    /\ UNCHANGED <<alloc_id, freed, wire, report, fault>>

\* socket_server_release, after the threads have ended: every handle is closed,
\* then the loop runs until nothing is left of them.  Bound: the calls of Use
\* have been made.
socket_server_release ==
    /\ phase = "run" /\ Alive /\ ~running /\ opening = NoCall /\ use.calls = 0
    /\ phase' = "release"
    /\ sock' = [s \in Slot |-> IF sock[s].type = "RESERVE" THEN sock[s] ELSE force_close(sock[s])]
    /\ Free(UNION {ForceFrees(sock[s]) : s \in {t \in Slot : sock[t].type # "RESERVE"}})
    /\ fault' = fault \cup UNION {ForceFaults(sock[s]) : s \in {t \in Slot : sock[t].type # "RESERVE"}}
    /\ UNCHANGED <<cmd_queue, async_sent, running, calls, wire, report>>

\* uv_run goes on while a handle is closing.  Mutant: until no slot is taken.
NothingTaken == \A s \in Slot : sock[s].type = "INVALID"
NothingLeft == \A s \in Slot : ~sock[s].closing

ReleaseDone ==
    /\ phase = "release" /\ Alive
    /\ NothingLeft
    /\ phase' = "done"
    /\ cmd_queue' = <<>>
    /\ UNCHANGED <<sock, async_sent, running, calls, freed, wire, report, fault>>

Loop(s) ==
    read_cb(s) \/ Aborted(s) \/ connect_cb_(s) \/ write_cb_(s) \/ connection_cb(s) \/ close_cb(s)

Api ==
    \/ socket_server_connect \/ socket_server_listen \/ socket_server_bind \/ socket_server_udp
    \/ ApiOpen \/ socket_server_exit
    \/ \E id \in Known :
          \/ socket_server_start(id) \/ socket_server_close(id) \/ socket_server_nodelay(id)
          \/ socket_server_send(id) \/ socket_server_send_lowpriority(id)
          \/ socket_server_udp_send(id) \/ socket_server_udp_connect(id)

Next ==
    \/ Api
    \/ CmdWake \/ CmdEmpty \/ ctrl_cmd
    \/ \E s \in Slot : Loop(s)
    \/ socket_server_release \/ ReleaseDone

\* The loop thread keeps running and requests of libuv come back.
Fairness ==
    /\ WF_vars(CmdWake) /\ WF_vars(CmdEmpty) /\ WF_vars(ctrl_cmd) /\ WF_vars(ReleaseDone)
    /\ \A s \in Slot : WF_vars(Aborted(s)) /\ WF_vars(connect_cb_(s))
                         /\ WF_vars(write_cb_(s)) /\ WF_vars(close_cb(s))

Spec == Init /\ [][Next]_vars
FairSpec == Spec /\ Fairness

-----------------------------------------------------------------------------
(***************************************************************************)
(* What a TCP connection puts on the wire is what was sent on it, each     *)
(* buffer once and the high priority ones in the order of the calls, for   *)
(* as long as new_fd has found the lists of its slots empty.               *)
(***************************************************************************)
WireInOrder ==
    "wb_list" \notin fault =>
        \A s \in Slot : sock[s].type # "INVALID" /\ sock[s].protocol = "TCP" /\ sock[s].id # 0 =>
            LET w == wire[sock[s].id] IN
            /\ \A i \in DOMAIN w : bufs[w[i]].id = sock[s].id
            /\ \A i, j \in DOMAIN w : i < j =>
                  /\ w[i] # w[j]
                  /\ bufs[w[i]].cmd = "D" /\ bufs[w[j]].cmd = "D" => w[i] < w[j]

(***************************************************************************)
(* A buffer is freed at most once, and not while a command or a list still *)
(* holds it, whatever the order of sends, errors and closes.               *)
(***************************************************************************)
Held(b) ==
    \/ \E i \in DOMAIN cmd_queue : cmd_queue[i].cmd \in Sends /\ cmd_queue[i].buf = b
    \/ \E s \in Slot : b \in Bufs(sock[s].high) \cup Bufs(sock[s].low)
FreedOnce == \A b \in 1 .. MaxBuf : freed[b] + (IF Held(b) THEN 1 ELSE 0) <= 1

(***************************************************************************)
(* Once a socket is reported closed or in error, no data and no accepted   *)
(* connection is reported for its id any more.                             *)
(***************************************************************************)
NothingAfterEnd == late = {}

(***************************************************************************)
(* A slot is free only when libuv has nothing of it left: no handle that   *)
(* is closing, no request that a callback will still come for; and the     *)
(* loop always finds the slot of a new socket reserved (the assert of      *)
(* new_fd).                                                                *)
(***************************************************************************)
FreeSlotIsQuiet ==
    /\ "new_fd" \notin fault
    /\ \A s \in Slot : sock[s].type = "INVALID" =>
          ~sock[s].closing /\ sock[s].pending = {} /\ sock[s].inflight = <<>>

(***************************************************************************)
(* One write at a time is in flight on a TCP socket, the one its flag      *)
(* "write" stands for, and a high priority list that is not empty has it,  *)
(* unless a write has failed: nothing waits without being sent.            *)
(***************************************************************************)
HighIsInFlight ==
    \A s \in Slot : LET k == sock[s] IN
        k.protocol = "TCP" /\ k.type # "INVALID" =>
            /\ Len(k.inflight) = (IF k.write THEN 1 ELSE 0)
            /\ k.high # <<>> /\ fault \cap {"uninit", "wb_list", "null"} = {} =>
                  k.inflight # <<>> /\ Head(k.inflight).list = "high"

(***************************************************************************)
(* Every buffer in a high priority TCP list is eventually written or       *)
(* dropped, unless a write failed.                                         *)
(***************************************************************************)
InHigh(b) == \E s \in Slot : sock[s].protocol = "TCP" /\ b \in Bufs(sock[s].high)
HighDrains ==
    \A b \in 1 .. MaxBuf : InHigh(b) ~> ~InHigh(b) \/ fault # {}

\* socket_server_release comes to an end: every handle is closed.
ReleaseEnds == phase = "release" ~> phase = "done" \/ "null" \in fault
=============================================================================
