----------------------------- MODULE Multicast ------------------------------
(***************************************************************************)
(* Multicast: one channel of node 1, the multicastd of two nodes, and the  *)
(* services that subscribe and publish.  A message is packed once for the  *)
(* subscribers of a node, who share it under a reference count; a node     *)
(* with subscribers is itself subscribed at the owner of the channel.      *)
(*                                                                         *)
(* Messages between two services arrive in order.  multicastd handles one  *)
(* at a time, but SUB waits for the answer of the owner in a coroutine of  *)
(* its own; publish goes on while subscribers already read.  A service     *)
(* subscribes again only after its last SUB was answered.                  *)
(***************************************************************************)
EXTENDS Integers, Sequences, FiniteSets

CONSTANTS
    Services,       \* 10 * node + k
    MaxCalls,       \* bound: what the services ask of multicastd
    MaxPub          \* bound: how many of these publish

VARIABLES
    mcd,            \* per node: channel (live, group), channel_n, channel_remote, mailbox, publish
    svc,            \* per service: __subscribe, a SUB not answered, its mailbox
    pkg,            \* the packages: bound (the references bound, -1 before), reference, freed
    mc              \* calls made, publications; history: SUBRs under way, whether two were,
                    \* and whether publish has read a freed package

Node  == {1, 2}
Owner == 1          \* c % 256
Home(s) == s \div 10

Idle == [pack |-> 0, todo |-> {}]
Msg(t, s, p) == [t |-> t, s |-> s, p |-> p]

Init ==
    /\ mcd = [n \in Node |-> [live |-> n = Owner, group |-> {}, n |-> 0, known |-> FALSE,
                              remote |-> {}, box |-> <<>>, pub |-> Idle]]
    /\ svc = [s \in Services |-> [sub |-> FALSE, wait |-> FALSE, box |-> <<>>]]
    /\ pkg = <<>>
    /\ mc = [calls |-> 0, pubs |-> 0, subr |-> 0, overlap |-> FALSE, stale |-> FALSE]

Send(M, n, m) == [M EXCEPT ![n].box = Append(@, m)]
Answer(s) == svc' = [svc EXCEPT ![s].box = Append(@, Msg("ret", s, 0))]

-----------------------------------------------------------------------------
(* lua-multicast *)

pack == Append(pkg, [bound |-> -1, ref |-> 0, freed |-> FALSE])
mc_packlocal  == pack
mc_packremote == pack       \* of a copy of the message
\* Whether what mc.unpack reads is there no more.
mc_unpacklocal(p) == pkg[p].freed
mc_bindrefer(P, p, k) == [P EXCEPT ![p].bound = k, ![p].ref = k]
mc_closelocal(P, p) == [P EXCEPT ![p].ref = @ - 1, ![p].freed = P[p].ref - 1 <= 0]
mc_remote(p) == [pkg EXCEPT ![p].freed = TRUE]

-----------------------------------------------------------------------------
(* The services *)

Call(s, m) == /\ mc.calls < MaxCalls /\ mcd' = Send(mcd, Home(s), m)

\* chan:subscribe, chan:unsubscribe, chan:publish, chan:delete
subscribe(s) ==
    /\ ~svc[s].sub /\ ~svc[s].wait
    /\ Call(s, Msg("SUB", s, 0))
    /\ svc' = [svc EXCEPT ![s].wait = TRUE]
    /\ mc' = [mc EXCEPT !.calls = @ + 1]
    /\ UNCHANGED pkg
unsubscribe(s) ==
    /\ svc[s].sub
    /\ Call(s, Msg("USUB", s, 0))
    /\ svc' = [svc EXCEPT ![s].sub = FALSE]
    /\ mc' = [mc EXCEPT !.calls = @ + 1]
    /\ UNCHANGED pkg
publish(s) ==
    /\ mc.pubs < MaxPub
    /\ pkg' = mc_packlocal
    /\ Call(s, Msg("PUB", s, Len(pkg) + 1))
    /\ mc' = [mc EXCEPT !.calls = @ + 1, !.pubs = @ + 1]
    /\ UNCHANGED svc
delete(s) ==
    /\ Call(s, Msg("DEL", s, 0))
    /\ mc' = [mc EXCEPT !.calls = @ + 1]
    /\ UNCHANGED <<svc, pkg>>

\* The answer to SUB; dispatch_subscribe reads and closes the package.
Receive(s) ==
    /\ svc[s].box # <<>>
    /\ LET m == Head(svc[s].box) IN
       \/ /\ m.t = "ret"
          /\ svc' = [svc EXCEPT ![s] = [sub |-> TRUE, wait |-> FALSE, box |-> Tail(@.box)]]
          /\ UNCHANGED pkg
       \/ /\ m.t = "multicast"
          /\ svc' = [svc EXCEPT ![s].box = Tail(@)]
          /\ pkg' = mc_closelocal(pkg, m.p)
    /\ UNCHANGED <<mcd, mc>>

-----------------------------------------------------------------------------
(* multicastd.  Each command takes the first message m of the mailbox.      *)

AtHead(n, t) == mcd[n].pub = Idle /\ mcd[n].box # <<>> /\ Head(mcd[n].box).t = t
Taken(n) == [mcd EXCEPT ![n].box = Tail(@)]
From(n) == Head(mcd[n].box)

Join(M, n, s) ==
    IF M[n].live /\ s \notin M[n].group
    THEN [M EXCEPT ![n].group = @ \cup {s}, ![n].n = @ + 1] ELSE M

SUB(n) ==
    /\ AtHead(n, "SUB")
    /\ LET s == From(n).s IN
       \/ /\ n # Owner /\ ~mcd[n].live
          /\ mcd' = Send(Taken(n), Owner, Msg("SUBR", s, n))
          /\ mc' = [mc EXCEPT !.subr = @ + 1, !.overlap = @ \/ mc.subr > 0]
          /\ UNCHANGED svc
       \/ /\ n = Owner \/ mcd[n].live
          /\ mcd' = Join(Taken(n), n, s)
          /\ Answer(s)
          /\ UNCHANGED mc
    /\ UNCHANGED pkg

\* p says whether the channel was there.
SUBR(n) ==
    /\ AtHead(n, "SUBR")
    /\ LET m == From(n)
           M == IF mcd[n].live THEN [Taken(n) EXCEPT ![n].known = TRUE, ![n].remote = @ \cup {m.p}]
                ELSE Taken(n)
       IN  mcd' = Send(M, m.p, Msg("subr", m.s, IF mcd[n].live THEN 1 ELSE 0))
    /\ UNCHANGED <<svc, pkg, mc>>

\* SUB goes on, with the double check.
SUBReturns(n) ==
    /\ AtHead(n, "subr")
    /\ LET m == From(n) IN
       /\ mcd' = IF m.p = 0 THEN Taken(n) ELSE Join([Taken(n) EXCEPT ![n].live = TRUE], n, m.s)
       /\ Answer(m.s)
    /\ mc' = [mc EXCEPT !.subr = @ - 1]
    /\ UNCHANGED pkg

\* The count after a subscriber has left.  Mutant: it stays.
LeftSame(n) == mcd[n].n
Left(n) == mcd[n].n - 1

\* Whether a remote channel goes with its last subscriber.  Mutant: it stays.
StaysAlive(n, k) == TRUE
Stays(n, k) == k # 0 \/ n = Owner

\* Without the channel the assertion fails, and nothing happens.
USUB(n) ==
    /\ AtHead(n, "USUB")
    /\ LET s == From(n).s
           k == Left(n)
           M == [Taken(n) EXCEPT ![n].group = @ \ {s}, ![n].n = k, ![n].live = Stays(n, k)]
       IN  mcd' = IF s \notin mcd[n].group \/ ~mcd[n].live THEN Taken(n)
                  ELSE IF k = 0 /\ n # Owner THEN Send(M, Owner, Msg("USUBR", s, n)) ELSE M
    /\ UNCHANGED <<svc, pkg, mc>>

USUBR(n) ==
    /\ AtHead(n, "USUBR")
    /\ mcd' = [Taken(n) EXCEPT ![n].remote = @ \ {From(n).p}]
    /\ UNCHANGED <<svc, pkg, mc>>

Gone(M, n) == [M EXCEPT ![n].live = FALSE, ![n].group = {}, ![n].n = 0]
DEL(n) ==
    /\ AtHead(n, "DEL")
    /\ LET M == [Gone(Taken(n), n) EXCEPT ![n].known = FALSE, ![n].remote = {}] IN
       mcd' = IF n # Owner THEN Send(Taken(n), Owner, From(n))
              ELSE IF 2 \in mcd[n].remote THEN Send(M, 2, Msg("DELR", 0, 0)) ELSE M
    /\ UNCHANGED <<svc, pkg, mc>>

DELR(n) ==
    /\ AtHead(n, "DELR")
    /\ mcd' = Gone(Taken(n), n)
    /\ UNCHANGED <<svc, pkg, mc>>

\* The references of a package are the subscribers the channel counts.  publish on
\* a dead channel closes the package.
Publish(n, P, p) ==
    IF mcd[n].live
    THEN /\ pkg' = mc_bindrefer(P, p, mcd[n].n)
         /\ mcd' = [Taken(n) EXCEPT ![n].pub = [pack |-> p, todo |-> mcd[n].group]]
    ELSE /\ pkg' = mc_closelocal(mc_bindrefer(P, p, 1), p)
         /\ mcd' = Taken(n)

PUB(n) ==
    /\ AtHead(n, "PUB")
    /\ LET m == From(n) IN
       IF n = Owner THEN Publish(n, pkg, m.p)
       ELSE /\ pkg' = mc_remote(m.p)
            /\ mcd' = Send(Taken(n), Owner, Msg("multicast", m.s, 0))
    /\ UNCHANGED <<svc, mc>>

\* A message of another node: packremote, and publish.
Multicast(n) ==
    /\ AtHead(n, "multicast")
    /\ Publish(n, mc_packremote, Len(pkg) + 1)
    /\ UNCHANGED <<svc, mc>>

Redirect(n) ==
    /\ \E s \in mcd[n].pub.todo :
          /\ svc' = [svc EXCEPT ![s].box = Append(@, Msg("multicast", 0, mcd[n].pub.pack))]
          /\ mcd' = [mcd EXCEPT ![n].pub.todo = @ \ {s}]
    /\ UNCHANGED <<pkg, mc>>

\* The end of publish: the package is read again for the other node.
PublishEnd(n) ==
    LET M == [mcd EXCEPT ![n].pub = Idle] IN
    /\ mcd[n].pub # Idle /\ mcd[n].pub.todo = {}
    /\ mcd' = IF 2 \in mcd[n].remote THEN Send(M, 2, Msg("multicast", 0, 0)) ELSE M
    /\ mc' = [mc EXCEPT !.stale = @ \/ (mcd[n].known /\ mc_unpacklocal(mcd[n].pub.pack))]
    /\ UNCHANGED <<svc, pkg>>

Next ==
    \/ \E s \in Services : subscribe(s) \/ unsubscribe(s) \/ publish(s) \/ delete(s) \/ Receive(s)
    \/ \E n \in Node :
          \/ SUB(n) \/ SUBReturns(n) \/ USUB(n) \/ DEL(n) \/ PUB(n) \/ Multicast(n)
          \/ SUBR(n) \/ USUBR(n) \/ DELR(n) \/ Redirect(n) \/ PublishEnd(n)

-----------------------------------------------------------------------------
(***************************************************************************)
(* A package lives until its last reader: its count is the number of       *)
(* subscribers that have yet to be sent it or to close it, so none of them *)
(* reads it freed, and it is freed by the last, however subscriptions, the *)
(* deletion of the channel and publications overlap.  (One that is bound   *)
(* to no subscriber is never freed.)                                       *)
(***************************************************************************)
Copies(p) ==
    Cardinality({<<s, i>> \in Services \X (1 .. MaxCalls + MaxPub) :
                    i \in DOMAIN svc[s].box /\ svc[s].box[i].t = "multicast" /\ svc[s].box[i].p = p})
      + Cardinality(UNION {{<<n, s>> : s \in mcd[n].pub.todo} :
                             n \in {k \in Node : mcd[k].pub.pack = p}})
PackageAlive ==
    \A p \in DOMAIN pkg : pkg[p].bound >= 0 =>
        /\ pkg[p].ref = Copies(p)
        /\ pkg[p].freed = (pkg[p].bound > 0 /\ Copies(p) = 0)

(***************************************************************************)
(* A node with subscribers is subscribed at the owner while the channel    *)
(* lives, unless two SUBs of the node waited for the owner at once: USUBR  *)
(* of the one then undoes SUBR of the other.                               *)
(***************************************************************************)
NodeIsSubscribed ==
    mcd[2].live /\ mcd[Owner].live /\ ~mc.overlap => 2 \in mcd[Owner].remote
=============================================================================
