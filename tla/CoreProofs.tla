----------------------------- MODULE CoreProofs -----------------------------
(***************************************************************************)
(* Proofs about three parts of the server that run beside the scheduler:   *)
(* the global queue of the release build (module GlobalQueue), the table   *)
(* of handles (HandleMgr) and the worker threads' sleep (Threads).         *)
(* Their state is disjoint and each part is proved on its own.             *)
(***************************************************************************)
EXTENDS GlobalQueue, HandleMgr, Threads, FiniteSetTheorems, TLAPS

-----------------------------------------------------------------------------
(***************************************************************************)
(* Proofs about module GlobalQueue, for one popping thread, any number of  *)
(* pushing threads, any queues and any capacity.  With several popping     *)
(* threads both theorems are false: between the load of l->next and the    *)
(* exchange, the others can take l out and put it back (ABA).              *)
(***************************************************************************)

QueueTypeOK ==
    /\ ring \in Seq(Queue)
    /\ list \in Queue \cup {NULL}
    /\ next \in [Queue -> Queue \cup {NULL}]
    /\ hold \in [Thread -> SUBSET Queue]
    /\ pc \in [Thread -> {"idle", "push", "link", "load", "next", "swap", "clear"}]
    /\ arg \in [Thread -> Queue \cup {NULL}]
    /\ ret \in [Thread -> Queue \cup {NULL}]
    /\ l \in [Thread -> Queue \cup {NULL}]
    /\ newhead \in [Thread -> Queue \cup {NULL}]

OnePopper == \A t, u \in Popper : t = u

\* What a thread has in its local variables, by where it is.
Locals(t) ==
    /\ pc[t] \in {"push", "link"} <=> arg[t] # NULL
    /\ pc[t] = "idle" => ret[t] = NULL
    /\ pc[t] \in {"load", "next", "swap", "clear"} => ret[t] # NULL /\ t \in Popper
    /\ pc[t] \in {"next", "swap", "clear"} => l[t] # NULL

\* The queues of one thread are all different.
OwnDistinct(t) ==
    /\ {ret[t], arg[t]} \cap hold[t] = {}
    /\ ret[t] = arg[t] => ret[t] = NULL
    /\ pc[t] = "clear" => l[t] \notin hold[t] \cup {ret[t]}

\* No queue is in two places.
Apart ==
    /\ \A i, j \in 1 .. Len(ring) : ring[i] = ring[j] => i = j
    /\ \A i \in 1 .. Len(ring) : ring[i] \notin Listed
    /\ \A i \in 1 .. Len(ring), t \in Thread : ring[i] \notin InHand(t)
    /\ \A t, u \in Thread : t # u => InHand(t) \cap InHand(u) = {}
    /\ \A t \in Thread : InHand(t) \cap Listed = {}

\* Every queue is in some place.
Everywhere ==
    \A q \in Queue :
        \/ q \in Listed
        \/ \E i \in 1 .. Len(ring) : ring[i] = q
        \/ \E t \in Thread : q \in InHand(t)

\* Only a queue of the list, one that a thread tries to link into it, and one that
\* was just taken out of it are linked.
Linked ==
    \A q \in Queue :
        next[q] # NULL => \/ q \in Listed
                          \/ \E t \in Thread : \/ pc[t] = "link" /\ arg[t] = q
                                               \/ pc[t] = "clear" /\ l[t] = q

\* The list does not come back to a queue of it.
Acyclic ==
    \A q \in Listed : \E S \in SUBSET Listed :
        Closed(S, next) /\ next[q] \in S \cup {NULL} /\ q \notin S

\* What the popping thread has read of the list is still so.
Popping ==
    \A t \in Thread :
        /\ pc[t] \in {"next", "swap"} => l[t] \in Listed
        /\ pc[t] = "swap" => newhead[t] = next[l[t]]

QueueInv ==
    /\ QueueTypeOK
    /\ \A t \in Thread : Locals(t) /\ OwnDistinct(t)
    /\ Apart
    /\ Everywhere
    /\ Linked
    /\ Acyclic
    /\ Popping

-----------------------------------------------------------------------------
(* What is reached along the links.                                        *)

LinkType == [Queue -> Queue \cup {NULL}]

LEMMA ReachedLeast ==
    ASSUME NEW n, NEW h, NEW S \in SUBSET Queue, h \in S \cup {NULL}, Closed(S, n)
    PROVE  Reached(h, n) \subseteq S
PROOF
    BY DEF Reached

LEMMA ReachedClosed ==
    ASSUME NEW n \in LinkType, NEW h \in Queue \cup {NULL}
    PROVE  /\ Reached(h, n) \subseteq Queue
           /\ h \in Reached(h, n) \cup {NULL}
           /\ Closed(Reached(h, n), n)
PROOF
    <1>1. Reached(h, n) \subseteq Queue /\ h \in Reached(h, n) \cup {NULL}
        BY DEF Reached
    <1>2. ASSUME NEW q \in Reached(h, n), n[q] # NULL PROVE n[q] \in Reached(h, n)
        <2>1. q \in Queue /\ n[q] \in Queue
            BY <1>1, <1>2 DEF LinkType
        <2>2. ASSUME NEW S \in SUBSET Queue, h \in S \cup {NULL}, Closed(S, n) PROVE n[q] \in S
            <3>1. q \in S
                BY <2>2, ReachedLeast
            <3>. QED
                BY <1>2, <2>2, <3>1 DEF Closed
        <2>. QED
            BY <2>1, <2>2 DEF Reached
    <1>. QED
        BY <1>1, <1>2 DEF Closed

\* What is reached depends on the links of the queues that are reached only.
LEMMA ReachedSame ==
    ASSUME NEW n \in LinkType, NEW m \in LinkType, NEW h \in Queue \cup {NULL},
           \A q \in Reached(h, n) : m[q] = n[q]
    PROVE  Reached(h, m) = Reached(h, n)
PROOF
    <1> DEFINE R == Reached(h, n)
    <1>1. R \subseteq Queue /\ h \in R \cup {NULL} /\ Closed(R, n)
        BY ReachedClosed
    <1>2. Closed(R, m)
        BY <1>1 DEF Closed
    <1>3. Reached(h, m) \subseteq R
        BY <1>1, <1>2, ReachedLeast
    <1> DEFINE S == R \cap Reached(h, m)
    <1>4. /\ Reached(h, m) \subseteq Queue /\ h \in Reached(h, m) \cup {NULL}
          /\ Closed(Reached(h, m), m)
        BY ReachedClosed
    <1>5. S \in SUBSET Queue /\ h \in S \cup {NULL}
        BY <1>1, <1>4
    <1>6. Closed(S, n)
        BY <1>1, <1>4 DEF Closed
    <1>7. R \subseteq S
        BY <1>5, <1>6, ReachedLeast
    <1>. QED
        BY <1>3, <1>7

\* A queue that is linked to the head becomes the head.
LEMMA ReachedPush ==
    ASSUME NEW n \in LinkType, NEW h \in Queue \cup {NULL}, NEW a \in Queue, n[a] = h
    PROVE  Reached(a, n) = Reached(h, n) \cup {a}
PROOF
    <1> DEFINE R == Reached(h, n)
    <1>1. R \subseteq Queue /\ h \in R \cup {NULL} /\ Closed(R, n)
        BY ReachedClosed
    <1>2. Closed(R \cup {a}, n)
        BY <1>1 DEF Closed
    <1>3. Reached(a, n) \subseteq R \cup {a}
        BY <1>1, <1>2, ReachedLeast
    <1> DEFINE S == Reached(a, n)
    <1>4. S \subseteq Queue /\ a \in S \cup {NULL} /\ Closed(S, n)
        BY ReachedClosed
    <1>5. a \in S
        BY <1>4, GlobalQueueAssumption
    <1>6. h \in S \cup {NULL}
        BY <1>4, <1>5 DEF Closed
    <1>7. R \subseteq S
        BY <1>4, <1>6, ReachedLeast
    <1>. QED
        BY <1>3, <1>5, <1>7

\* Taking the head out of the list.
LEMMA ReachedPop ==
    ASSUME NEW n \in LinkType, NEW h \in Queue,
           NEW S \in SUBSET Queue, Closed(S, n), n[h] \in S \cup {NULL}, h \notin S
    PROVE  Reached(n[h], n) = Reached(h, n) \ {h}
PROOF
    <1>1. n[h] \in Queue \cup {NULL}
        BY DEF LinkType
    <1>2. Reached(h, n) = Reached(n[h], n) \cup {h}
        BY <1>1, ReachedPush
    <1>3. Reached(n[h], n) \subseteq S
        BY ReachedLeast
    <1>. QED
        BY <1>2, <1>3

-----------------------------------------------------------------------------
(* The steps of the threads.                                               *)

LEMMA QueueInit == GlobalQueueInit => QueueInv
PROOF
    <1>. SUFFICES ASSUME GlobalQueueInit PROVE QueueInv
        OBVIOUS
    <1>1. PICK f \in [Queue -> Thread] : hold = [t \in Thread |-> {q \in Queue : f[q] = t}]
        BY DEF GlobalQueueInit
    <1>2. QueueTypeOK
        BY <1>1 DEF GlobalQueueInit, QueueTypeOK
    <1>3. Listed = {}
        <2>1. Closed({}, next) /\ list \in {} \cup {NULL}
            BY DEF GlobalQueueInit, Closed
        <2>. QED
            BY <2>1, ReachedLeast DEF Listed
    <1>4. \A t \in Thread : Locals(t) /\ OwnDistinct(t)
        BY <1>1, GlobalQueueAssumption DEF GlobalQueueInit, Locals, OwnDistinct
    <1>5. Len(ring) = 0
        BY DEF GlobalQueueInit
    <1>6. \A t \in Thread : InHand(t) = {q \in Queue : f[q] = t}
        BY <1>1 DEF GlobalQueueInit, InHand
    <1>7. Apart
        BY <1>3, <1>5, <1>6 DEF Apart
    <1>8. Everywhere
        BY <1>6 DEF Everywhere
    <1>9. Linked /\ Acyclic /\ Popping
        BY <1>3 DEF GlobalQueueInit, Linked, Acyclic, Popping
    <1>. QED
        BY <1>2, <1>4, <1>7, <1>8, <1>9 DEF QueueInv

LEMMA QueueType == ASSUME QueueInv, GlobalQueueNext PROVE QueueTypeOK'
PROOF
    <1>0. QueueTypeOK
        BY DEF QueueInv
    <1>. SUFFICES ASSUME NEW t \in Thread,
                        \/ CallPush(t) \/ PushRing(t) \/ PushFull(t) \/ PushLink(t) \/ PushRetry(t)
                        \/ PopRing(t) \/ PopLoad(t) \/ PopNext(t) \/ PopSwap(t) \/ PopLost(t)
                        \/ PopClear(t)
                  PROVE  QueueTypeOK'
        BY DEF GlobalQueueNext
    <1>1. Locals(t)
        BY DEF QueueInv
    <1>2. Taken(t) \subseteq Queue
        BY <1>0 DEF Taken, QueueTypeOK
    <1>3. CASE CallPush(t)
        BY <1>0, <1>3 DEF CallPush, QueueTypeOK
    <1>4. CASE PushRing(t)
        <2>1. arg[t] \in Queue
            BY <1>0, <1>1, <1>4 DEF PushRing, Locals, QueueTypeOK
        <2>2. ring' \in Seq(Queue)
            BY <1>0, <2>1, <1>4 DEF PushRing, QueueTypeOK
        <2>. QED
            BY <1>0, <1>2, <1>4, <2>2 DEF PushRing, Return, QueueTypeOK
    <1>5. CASE PushFull(t)
        BY <1>0, <1>5 DEF PushFull, QueueTypeOK
    <1>6. CASE PushLink(t)
        BY <1>0, <1>2, <1>6 DEF PushLink, Return, QueueTypeOK
    <1>7. CASE PushRetry(t)
        BY <1>0, <1>7 DEF PushRetry, QueueTypeOK
    <1>8. CASE PopRing(t)
        <2>1. Head(ring) \in Queue /\ Tail(ring) \in Seq(Queue)
            BY <1>0, <1>8 DEF PopRing, QueueTypeOK
        <2>. QED
            BY <1>0, <1>8, <2>1 DEF PopRing, QueueTypeOK
    <1>9. CASE PopLoad(t)
        <2>1. CASE list = NULL
            <3>1. /\ hold' = [hold EXCEPT ![t] = @ \cup Taken(t)] /\ Return(t)
                  /\ UNCHANGED <<ring, list, next>>
                BY <1>9, <2>1 DEF PopLoad
            <3>. QED
                BY <1>0, <1>2, <3>1 DEF Return, QueueTypeOK
        <2>2. CASE list # NULL
            BY <1>0, <1>9, <2>2 DEF PopLoad, QueueTypeOK
        <2>. QED
            BY <2>1, <2>2
    <1>10. CASE PopNext(t)
        <2>1. next[l[t]] \in Queue \cup {NULL}
            BY <1>0, <1>1, <1>10 DEF PopNext, Locals, QueueTypeOK
        <2>. QED
            BY <1>0, <1>10, <2>1 DEF PopNext, QueueTypeOK
    <1>11. CASE PopSwap(t)
        BY <1>0, <1>11 DEF PopSwap, QueueTypeOK
    <1>12. CASE PopLost(t)
        BY <1>0, <1>2, <1>12 DEF PopLost, Return, QueueTypeOK
    <1>13. CASE PopClear(t)
        BY <1>0, <1>13 DEF PopClear, QueueTypeOK
    <1>. QED
        BY <1>3, <1>4, <1>5, <1>6, <1>7, <1>8, <1>9, <1>10, <1>11, <1>12, <1>13

\* A step that moves no queue, and changes the links of no queue of the list.
LEMMA ListSame ==
    ASSUME QueueTypeOK, QueueTypeOK', list' = list, \A q \in Listed : next'[q] = next[q]
    PROVE  Listed' = Listed /\ (Acyclic => Acyclic')
PROOF
    <1>1. Listed' = Listed
        BY ReachedSame DEF Listed, QueueTypeOK, LinkType
    <1>2. ASSUME NEW S \in SUBSET Listed, Closed(S, next) PROVE Closed(S, next')
        BY <1>2 DEF Closed
    <1>. QED
        BY <1>1, <1>2 DEF Acyclic

LEMMA PlacesSame ==
    ASSUME ring' = ring, Listed' = Listed, \A u \in Thread : InHand(u)' = InHand(u),
           Apart, Everywhere
    PROVE  Apart' /\ Everywhere'
PROOF
    <1>1. Apart'
        BY DEF Apart
    <1>2. Everywhere'
        BY DEF Everywhere
    <1>. QED
        BY <1>1, <1>2

\* The queues that are reached from the head are queues, and each is linked to another
\* one of them or to none.
LEMMA ListFacts ==
    QueueTypeOK => /\ Listed \subseteq Queue
              /\ list \in Listed \cup {NULL}
              /\ \A q \in Listed : next[q] \in Listed \cup {NULL}
PROOF
    BY ReachedClosed DEF Listed, QueueTypeOK, LinkType, Closed

-----------------------------------------------------------------------------
LEMMA StepCallPush == ASSUME QueueInv, QueueTypeOK', NEW t \in Thread, CallPush(t) PROVE QueueInv'
PROOF
    <1>1. PICK q \in hold[t] : /\ hold' = [hold EXCEPT ![t] = @ \ {q}]
                               /\ arg' = [arg EXCEPT ![t] = q]
        BY DEF CallPush
    <1>2. QueueTypeOK /\ q \in Queue /\ q # NULL
        BY GlobalQueueAssumption DEF QueueInv, QueueTypeOK
    <1>3. /\ UNCHANGED <<ring, list, next, ret, l, newhead>> /\ pc[t] = "idle"
          /\ pc' = [pc EXCEPT ![t] = "push"]
        BY DEF CallPush
    <1>4. Listed' = Listed /\ Acyclic'
        BY <1>2, <1>3, ListSame DEF QueueInv
    <1>5. Locals(t) /\ OwnDistinct(t) /\ ret[t] = NULL /\ arg[t] = NULL
        BY <1>3 DEF QueueInv, Locals
    <1>6. ASSUME NEW u \in Thread PROVE Locals(u)' /\ OwnDistinct(u)' /\ InHand(u)' = InHand(u)
        <2>1. CASE u = t
            BY <1>1, <1>2, <1>3, <1>5, <2>1, GlobalQueueAssumption
               DEF QueueTypeOK, Locals, OwnDistinct, InHand
        <2>2. CASE u # t
            <3>1. Locals(u) /\ OwnDistinct(u)
                BY DEF QueueInv
            <3>. QED
                BY <1>1, <1>2, <1>3, <2>2, <3>1 DEF QueueTypeOK, Locals, OwnDistinct, InHand
        <2>. QED
            BY <2>1, <2>2
    <1>7. Apart' /\ Everywhere'
        BY <1>3, <1>4, <1>6, PlacesSame DEF QueueInv
    <1>8. Linked'
        BY <1>1, <1>2, <1>3, <1>4 DEF QueueInv, Linked, QueueTypeOK
    <1>9. Popping'
        BY <1>2, <1>3, <1>4 DEF QueueInv, Popping, QueueTypeOK
    <1>. QED
        BY <1>4, <1>6, <1>7, <1>8, <1>9 DEF QueueInv

LEMMA StepPushRing == ASSUME QueueInv, QueueTypeOK', NEW t \in Thread, PushRing(t) PROVE QueueInv'
PROOF
    <1>1. /\ pc[t] = "push" /\ ring' = Append(ring, arg[t])
          /\ hold' = [hold EXCEPT ![t] = @ \cup Taken(t)]
          /\ Return(t) /\ UNCHANGED <<list, next>>
        BY DEF PushRing
    <1>2. QueueTypeOK /\ Locals(t) /\ OwnDistinct(t)
        BY DEF QueueInv
    <1>3. arg[t] \in Queue /\ arg[t] # NULL
        BY <1>1, <1>2 DEF Locals, QueueTypeOK
    <1>4. Listed' = Listed /\ Acyclic'
        BY <1>1, <1>2, ListSame DEF QueueInv
    <1>5. InHand(t)' = InHand(t) \ {arg[t]} /\ arg[t] \in InHand(t)
        BY <1>1, <1>2, <1>3 DEF InHand, OwnDistinct, Return, Taken, QueueTypeOK
    <1>6. ASSUME NEW u \in Thread PROVE Locals(u)' /\ OwnDistinct(u)'
        <2>1. CASE u = t
            BY <1>1, <1>2, <2>1, GlobalQueueAssumption DEF QueueTypeOK, Locals, OwnDistinct, Return, Taken
        <2>2. CASE u # t
            <3>1. Locals(u) /\ OwnDistinct(u)
                BY DEF QueueInv
            <3>. QED
                BY <1>1, <1>2, <2>2, <3>1 DEF QueueTypeOK, Locals, OwnDistinct, Return
        <2>. QED
            BY <2>1, <2>2
    <1>7. ASSUME NEW u \in Thread, u # t PROVE InHand(u)' = InHand(u)
        BY <1>1, <1>2, <1>7 DEF QueueTypeOK, InHand, Return
    <1>8. /\ Len(ring') = Len(ring) + 1 /\ Len(ring) \in Nat
          /\ \A i \in 1 .. Len(ring) : ring'[i] = ring[i]
          /\ ring'[Len(ring) + 1] = arg[t]
        BY <1>1, <1>2, <1>3 DEF QueueTypeOK
    <1>9. Apart'
        BY <1>4, <1>5, <1>7, <1>8 DEF QueueInv, Apart
    <1>10. Everywhere'
        <2>. SUFFICES ASSUME NEW q \in Queue
                      PROVE  \/ q \in Listed'
                             \/ \E i \in 1 .. Len(ring') : ring'[i] = q
                             \/ \E u \in Thread : q \in InHand(u)'
            BY DEF Everywhere
        <2>1. CASE q = arg[t]
            BY <1>8, <2>1
        <2>2. CASE q # arg[t] /\ \E i \in 1 .. Len(ring) : ring[i] = q
            BY <1>8, <2>2
        <2>3. CASE q # arg[t] /\ \E u \in Thread : q \in InHand(u)
            BY <1>5, <1>7, <2>3
        <2>. QED
            BY <1>4, <2>1, <2>2, <2>3 DEF QueueInv, Everywhere
    <1>11. Linked'
        BY <1>1, <1>2, <1>4 DEF QueueInv, Linked, QueueTypeOK, Return
    <1>12. Popping'
        BY <1>1, <1>2, <1>4 DEF QueueInv, Popping, QueueTypeOK, Return
    <1>. QED
        BY <1>4, <1>6, <1>9, <1>10, <1>11, <1>12 DEF QueueInv

LEMMA StepPushFull == ASSUME QueueInv, QueueTypeOK', NEW t \in Thread, PushFull(t) PROVE QueueInv'
PROOF
    <1>1. /\ pc[t] = "push" /\ pc' = [pc EXCEPT ![t] = "link"]
          /\ UNCHANGED <<ring, list, next, hold, arg, ret, l, newhead>>
        BY DEF PushFull
    <1>2. QueueTypeOK
        BY DEF QueueInv
    <1>3. Listed' = Listed /\ Acyclic'
        BY <1>1, <1>2, ListSame DEF QueueInv
    <1>4. ASSUME NEW u \in Thread PROVE Locals(u)' /\ OwnDistinct(u)' /\ InHand(u)' = InHand(u)
        <2>1. Locals(u) /\ OwnDistinct(u)
            BY DEF QueueInv
        <2>. QED
            BY <1>1, <1>2, <2>1 DEF QueueTypeOK, Locals, OwnDistinct, InHand
    <1>5. Apart' /\ Everywhere'
        BY <1>1, <1>3, <1>4, PlacesSame DEF QueueInv
    <1>6. Linked'
        BY <1>1, <1>2, <1>3 DEF QueueInv, Linked, QueueTypeOK
    <1>7. Popping'
        BY <1>1, <1>2, <1>3 DEF QueueInv, Popping, QueueTypeOK
    <1>. QED
        BY <1>3, <1>4, <1>5, <1>6, <1>7 DEF QueueInv

\* The queue that Push links was linked to the head of the list.
LEMMA StepPushLink == ASSUME QueueInv, QueueTypeOK', NEW t \in Thread, PushLink(t) PROVE QueueInv'
PROOF
    <1>1. /\ pc[t] = "link" /\ list = next[arg[t]] /\ list' = arg[t]
          /\ hold' = [hold EXCEPT ![t] = @ \cup Taken(t)]
          /\ Return(t) /\ UNCHANGED <<ring, next>>
        BY DEF PushLink
    <1>2. QueueTypeOK /\ Locals(t) /\ OwnDistinct(t)
        BY DEF QueueInv
    <1>3. arg[t] \in Queue /\ arg[t] # NULL
        BY <1>1, <1>2 DEF Locals, QueueTypeOK
    <1>4. Listed' = Listed \cup {arg[t]}
        BY <1>1, <1>2, <1>3, ReachedPush DEF Listed, QueueTypeOK, LinkType
    <1>5. InHand(t)' = InHand(t) \ {arg[t]} /\ arg[t] \in InHand(t)
        BY <1>1, <1>2, <1>3 DEF InHand, OwnDistinct, Return, Taken, QueueTypeOK
    <1>6. ASSUME NEW u \in Thread PROVE Locals(u)' /\ OwnDistinct(u)'
        <2>1. CASE u = t
            BY <1>1, <1>2, <2>1, GlobalQueueAssumption DEF QueueTypeOK, Locals, OwnDistinct, Return, Taken
        <2>2. CASE u # t
            <3>1. Locals(u) /\ OwnDistinct(u)
                BY DEF QueueInv
            <3>. QED
                BY <1>1, <1>2, <2>2, <3>1 DEF QueueTypeOK, Locals, OwnDistinct, Return
        <2>. QED
            BY <2>1, <2>2
    <1>7. ASSUME NEW u \in Thread, u # t PROVE InHand(u)' = InHand(u)
        BY <1>1, <1>2, <1>7 DEF QueueTypeOK, InHand, Return
    <1>8. Apart'
        BY <1>1, <1>4, <1>5, <1>7 DEF QueueInv, Apart
    <1>9. Everywhere'
        BY <1>1, <1>4, <1>5, <1>7 DEF QueueInv, Everywhere
    <1>10. Linked'
        BY <1>1, <1>2, <1>4 DEF QueueInv, Linked, QueueTypeOK, Return
    <1>11. Acyclic'
        <2>. SUFFICES ASSUME NEW q \in Listed'
                      PROVE  \E S \in SUBSET Listed' :
                                Closed(S, next') /\ next'[q] \in S \cup {NULL} /\ q \notin S
            BY DEF Acyclic
        <2>1. CASE q \in Listed
            BY <1>1, <1>4, <2>1 DEF QueueInv, Acyclic
        <2>2. CASE q = arg[t]
            <3>1. arg[t] \notin Listed
                BY <1>5 DEF QueueInv, Apart
            <3>2. Closed(Listed, next) /\ next[q] \in Listed \cup {NULL}
                BY <1>1, <1>2, <2>2, ListFacts DEF Closed
            <3>. QED
                BY <1>1, <1>4, <2>2, <3>1, <3>2
        <2>. QED
            BY <1>4, <2>1, <2>2
    <1>12. Popping'
        BY <1>1, <1>2, <1>4 DEF QueueInv, Popping, QueueTypeOK, Return
    <1>. QED
        BY <1>6, <1>8, <1>9, <1>10, <1>11, <1>12 DEF QueueInv

LEMMA StepPushRetry == ASSUME QueueInv, QueueTypeOK', NEW t \in Thread, PushRetry(t) PROVE QueueInv'
PROOF
    <1>1. /\ pc[t] = "link" /\ next' = [next EXCEPT ![arg[t]] = list]
          /\ UNCHANGED <<ring, list, hold, pc, arg, ret, l, newhead>>
        BY DEF PushRetry
    <1>2. QueueTypeOK /\ Locals(t)
        BY DEF QueueInv
    <1>3. arg[t] \in Queue /\ arg[t] # NULL /\ arg[t] \notin Listed
        BY <1>1, <1>2 DEF QueueInv, Locals, QueueTypeOK, Apart, InHand
    <1>4. \A q \in Queue : q # arg[t] => next'[q] = next[q]
        BY <1>1, <1>2 DEF QueueTypeOK
    <1>5. Listed' = Listed /\ Acyclic' /\ Listed \subseteq Queue
        BY <1>1, <1>2, <1>3, <1>4, ListSame, ListFacts DEF QueueInv
    <1>6. \A u \in Thread : Locals(u)' /\ OwnDistinct(u)' /\ InHand(u)' = InHand(u)
        BY <1>1 DEF QueueInv, Locals, OwnDistinct, InHand
    <1>7. Apart' /\ Everywhere'
        BY <1>1, <1>5, <1>6, PlacesSame DEF QueueInv
    <1>8. Linked'
        BY <1>1, <1>3, <1>4, <1>5 DEF QueueInv, Linked
    <1>9. Popping'
        BY <1>1, <1>3, <1>4, <1>5 DEF QueueInv, Popping
    <1>. QED
        BY <1>5, <1>6, <1>7, <1>8, <1>9 DEF QueueInv

LEMMA StepPopRing == ASSUME QueueInv, QueueTypeOK', NEW t \in Thread, PopRing(t) PROVE QueueInv'
PROOF
    <1>1. /\ t \in Popper /\ pc[t] = "idle" /\ ring # <<>>
          /\ ret' = [ret EXCEPT ![t] = Head(ring)] /\ ring' = Tail(ring)
          /\ pc' = [pc EXCEPT ![t] = "load"]
          /\ UNCHANGED <<list, next, hold, arg, l, newhead>>
        BY DEF PopRing
    <1>2. QueueTypeOK /\ Locals(t) /\ OwnDistinct(t)
        BY DEF QueueInv
    <1>3. /\ Len(ring) \in Nat \ {0} /\ Head(ring) = ring[1] /\ ring[1] \in Queue
          /\ ring[1] # NULL /\ Len(ring') = Len(ring) - 1
          /\ \A i \in 1 .. Len(ring) - 1 : ring'[i] = ring[i + 1]
        BY <1>1, <1>2, GlobalQueueAssumption DEF QueueTypeOK
    <1>4. Listed' = Listed /\ Acyclic'
        BY <1>1, <1>2, ListSame DEF QueueInv
    <1>5. InHand(t)' = InHand(t) \cup {ring[1]}
        BY <1>1, <1>2, <1>3 DEF InHand, Locals, QueueTypeOK
    <1>6. ring[1] \notin InHand(t)
        BY <1>3 DEF QueueInv, Apart
    <1>7. ASSUME NEW u \in Thread PROVE Locals(u)' /\ OwnDistinct(u)'
        <2>1. CASE u = t
            BY <1>1, <1>2, <1>3, <1>6, <2>1, GlobalQueueAssumption DEF QueueTypeOK, Locals, OwnDistinct, InHand
        <2>2. CASE u # t
            <3>1. Locals(u) /\ OwnDistinct(u)
                BY DEF QueueInv
            <3>. QED
                BY <1>1, <1>2, <2>2, <3>1 DEF QueueTypeOK, Locals, OwnDistinct
        <2>. QED
            BY <2>1, <2>2
    <1>8. ASSUME NEW u \in Thread, u # t PROVE InHand(u)' = InHand(u)
        BY <1>1, <1>2, <1>8 DEF QueueTypeOK, InHand
    <1>9. Apart'
        <2>0. Apart
            BY DEF QueueInv
        <2>1. \A i \in 1 .. Len(ring') : /\ ring'[i] = ring[i + 1] /\ i + 1 \in 1 .. Len(ring)
                                         /\ i + 1 # 1 /\ 1 \in 1 .. Len(ring)
            BY <1>3
        <2>2. \A i, j \in 1 .. Len(ring') : ring'[i] = ring'[j] => i = j
            BY <2>0, <2>1, <1>3 DEF Apart
        <2>3. \A i \in 1 .. Len(ring') : ring'[i] \notin Listed' /\ ring'[i] # ring[1]
            BY <2>0, <2>1, <1>4 DEF Apart
        <2>4. \A i \in 1 .. Len(ring'), u \in Thread : ring'[i] \notin InHand(u)'
            BY <2>0, <2>1, <2>3, <1>5, <1>8 DEF Apart
        <2>5. /\ \A u, v \in Thread : u # v => InHand(u)' \cap InHand(v)' = {}
              /\ \A u \in Thread : InHand(u)' \cap Listed' = {}
            BY <2>0, <1>3, <1>4, <1>5, <1>8 DEF Apart
        <2>. QED
            BY <2>2, <2>3, <2>4, <2>5 DEF Apart
    <1>10. Everywhere'
        <2>. SUFFICES ASSUME NEW q \in Queue
                      PROVE  \/ q \in Listed'
                             \/ \E i \in 1 .. Len(ring') : ring'[i] = q
                             \/ \E u \in Thread : q \in InHand(u)'
            BY DEF Everywhere
        <2>1. CASE q \in Listed \/ \E u \in Thread : q \in InHand(u)
            BY <1>4, <1>5, <1>8, <2>1
        <2>2. ASSUME NEW i \in 1 .. Len(ring), ring[i] = q
              PROVE  q = ring[1] \/ \E j \in 1 .. Len(ring') : ring'[j] = q
            <3>1. CASE i # 1
                <4>1. i - 1 \in 1 .. Len(ring') /\ ring'[i - 1] = q
                    BY <1>3, <2>2, <3>1
                <4>. QED
                    BY <4>1
            <3>. QED
                BY <2>2, <3>1
        <2>. QED
            BY <1>5, <2>1, <2>2 DEF QueueInv, Everywhere
    <1>11. Linked'
        BY <1>1, <1>2, <1>4 DEF QueueInv, Linked, QueueTypeOK
    <1>12. Popping'
        BY <1>1, <1>2, <1>4 DEF QueueInv, Popping, QueueTypeOK
    <1>. QED
        BY <1>4, <1>7, <1>9, <1>10, <1>11, <1>12 DEF QueueInv

\* Pop returns without having touched the list.
LEMMA StepPopReturn ==
    ASSUME QueueInv, QueueTypeOK', NEW t \in Thread, pc[t] \in {"load", "swap"},
           hold' = [hold EXCEPT ![t] = @ \cup Taken(t)], Return(t), UNCHANGED <<ring, list, next>>
    PROVE  QueueInv'
PROOF
    <1>1. QueueTypeOK /\ Locals(t) /\ OwnDistinct(t)
        BY DEF QueueInv
    <1>2. Listed' = Listed /\ Acyclic'
        BY <1>1, ListSame DEF QueueInv
    <1>3. arg[t] = NULL
        BY <1>1 DEF Locals
    <1>4. ASSUME NEW u \in Thread PROVE Locals(u)' /\ OwnDistinct(u)' /\ InHand(u)' = InHand(u)
        <2>1. CASE u = t
            BY <1>1, <1>3, <2>1, GlobalQueueAssumption
               DEF QueueTypeOK, Locals, OwnDistinct, InHand, Return, Taken
        <2>2. CASE u # t
            <3>1. Locals(u) /\ OwnDistinct(u)
                BY DEF QueueInv
            <3>. QED
                BY <1>1, <2>2, <3>1 DEF QueueTypeOK, Locals, OwnDistinct, InHand, Return
        <2>. QED
            BY <2>1, <2>2
    <1>5. Apart' /\ Everywhere'
        BY <1>2, <1>4, PlacesSame DEF QueueInv
    <1>6. Linked'
        BY <1>1, <1>2 DEF QueueInv, Linked, QueueTypeOK, Return
    <1>7. Popping'
        BY <1>1, <1>2 DEF QueueInv, Popping, QueueTypeOK, Return
    <1>. QED
        BY <1>2, <1>4, <1>5, <1>6, <1>7 DEF QueueInv

LEMMA StepPopLost == ASSUME QueueInv, QueueTypeOK', NEW t \in Thread, PopLost(t) PROVE QueueInv'
PROOF
    BY StepPopReturn DEF PopLost

LEMMA StepPopLoad == ASSUME QueueInv, QueueTypeOK', NEW t \in Thread, PopLoad(t) PROVE QueueInv'
PROOF
    <1>1. CASE list = NULL
        BY <1>1, StepPopReturn DEF PopLoad
    <1>2. CASE list # NULL
        <2>1. /\ pc[t] = "load" /\ l' = [l EXCEPT ![t] = list]
              /\ pc' = [pc EXCEPT ![t] = "next"]
              /\ UNCHANGED <<ring, list, next, hold, arg, ret, newhead>>
            BY <1>2 DEF PopLoad
        <2>2. QueueTypeOK
            BY DEF QueueInv
        <2>3. Listed' = Listed /\ Acyclic'
            BY <2>1, <2>2, ListSame DEF QueueInv
        <2>4. ASSUME NEW u \in Thread PROVE Locals(u)' /\ OwnDistinct(u)' /\ InHand(u)' = InHand(u)
            <3>1. Locals(u) /\ OwnDistinct(u)
                BY DEF QueueInv
            <3>. QED
                BY <1>2, <2>1, <2>2, <3>1 DEF QueueTypeOK, Locals, OwnDistinct, InHand
        <2>5. Apart' /\ Everywhere'
            BY <2>1, <2>3, <2>4, PlacesSame DEF QueueInv
        <2>6. Linked'
            BY <2>1, <2>2, <2>3 DEF QueueInv, Linked, QueueTypeOK
        <2>7. list \in Listed
            BY <1>2, <2>2, ListFacts
        <2>8. Popping'
            BY <2>1, <2>2, <2>3, <2>7 DEF QueueInv, Popping, QueueTypeOK
        <2>. QED
            BY <2>3, <2>4, <2>5, <2>6, <2>8 DEF QueueInv
    <1>. QED
        BY <1>1, <1>2

LEMMA StepPopNext == ASSUME QueueInv, QueueTypeOK', NEW t \in Thread, PopNext(t) PROVE QueueInv'
PROOF
    <1>1. /\ pc[t] = "next" /\ newhead' = [newhead EXCEPT ![t] = next[l[t]]]
          /\ pc' = [pc EXCEPT ![t] = "swap"]
          /\ UNCHANGED <<ring, list, next, hold, arg, ret, l>>
        BY DEF PopNext
    <1>2. QueueTypeOK
        BY DEF QueueInv
    <1>3. Listed' = Listed /\ Acyclic'
        BY <1>1, <1>2, ListSame DEF QueueInv
    <1>4. ASSUME NEW u \in Thread PROVE Locals(u)' /\ OwnDistinct(u)' /\ InHand(u)' = InHand(u)
        <2>1. Locals(u) /\ OwnDistinct(u)
            BY DEF QueueInv
        <2>. QED
            BY <1>1, <1>2, <2>1 DEF QueueTypeOK, Locals, OwnDistinct, InHand
    <1>5. Apart' /\ Everywhere'
        BY <1>1, <1>3, <1>4, PlacesSame DEF QueueInv
    <1>6. Linked'
        BY <1>1, <1>2, <1>3 DEF QueueInv, Linked, QueueTypeOK
    <1>7. Popping'
        BY <1>1, <1>2, <1>3 DEF QueueInv, Popping, QueueTypeOK
    <1>. QED
        BY <1>3, <1>4, <1>5, <1>6, <1>7 DEF QueueInv

\* The new head is still what the old one is linked to, and no other thread is popping.
LEMMA StepPopSwap ==
    ASSUME OnePopper, QueueInv, QueueTypeOK', NEW t \in Thread, PopSwap(t) PROVE QueueInv'
PROOF
    <1>1. /\ pc[t] = "swap" /\ list = l[t] /\ list' = newhead[t]
          /\ pc' = [pc EXCEPT ![t] = "clear"]
          /\ UNCHANGED <<ring, next, hold, arg, ret, l, newhead>>
        BY DEF PopSwap
    <1>2. QueueTypeOK /\ Locals(t) /\ OwnDistinct(t)
        BY DEF QueueInv
    <1>3. l[t] \in Listed /\ newhead[t] = next[l[t]] /\ Listed \subseteq Queue
        BY <1>1, <1>2, ListFacts DEF QueueInv, Popping
    <1>4. Listed' = Listed \ {l[t]}
        <2>1. PICK S \in SUBSET Listed :
                 Closed(S, next) /\ next[l[t]] \in S \cup {NULL} /\ l[t] \notin S
            BY <1>3 DEF QueueInv, Acyclic
        <2>2. Reached(next[l[t]], next) = Reached(l[t], next) \ {l[t]}
            BY <1>2, <1>3, <2>1, ReachedPop DEF QueueTypeOK, LinkType
        <2>. QED
            BY <1>1, <1>3, <2>2 DEF Listed
    <1>5. InHand(t)' = InHand(t) \cup {l[t]}
        BY <1>1, <1>2 DEF InHand, QueueTypeOK
    <1>6. l[t] \notin InHand(t) /\ l[t] # NULL
        BY <1>3, GlobalQueueAssumption DEF QueueInv, Apart
    <1>7. ASSUME NEW u \in Thread, u # t PROVE InHand(u)' = InHand(u)
        BY <1>1, <1>2, <1>7 DEF QueueTypeOK, InHand
    <1>8. ASSUME NEW u \in Thread PROVE Locals(u)' /\ OwnDistinct(u)'
        <2>1. CASE u = t
            BY <1>1, <1>2, <1>6, <2>1 DEF QueueTypeOK, Locals, OwnDistinct, InHand
        <2>2. CASE u # t
            <3>1. Locals(u) /\ OwnDistinct(u)
                BY DEF QueueInv
            <3>. QED
                BY <1>1, <1>2, <2>2, <3>1 DEF QueueTypeOK, Locals, OwnDistinct
        <2>. QED
            BY <2>1, <2>2
    <1>9. Apart'
        <2>1. Apart /\ ring' = ring
            BY <1>1 DEF QueueInv
        <2>2. \A i \in 1 .. Len(ring) : ring[i] \notin Listed'
            BY <1>4, <2>1 DEF Apart
        <2>3. \A i \in 1 .. Len(ring) : \A u \in Thread : ring[i] \notin InHand(u)'
            <3>. SUFFICES ASSUME NEW i \in 1 .. Len(ring), NEW u \in Thread
                          PROVE  ring[i] \notin InHand(u)'
                OBVIOUS
            <3>1. ring[i] \notin InHand(u) /\ ring[i] # l[t]
                BY <1>3, <2>1 DEF Apart
            <3>. QED
                BY <1>5, <1>7, <3>1
        <2>4. \A u \in Thread : u # t => InHand(u)' \cap InHand(t)' = {}
            <3>. SUFFICES ASSUME NEW u \in Thread, u # t PROVE InHand(u)' \cap InHand(t)' = {}
                OBVIOUS
            <3>1. InHand(u) \cap InHand(t) = {} /\ l[t] \notin InHand(u)
                BY <1>3, <2>1 DEF Apart
            <3>. QED
                BY <1>5, <1>7, <3>1
        <2>5. \A u, v \in Thread : u # v => InHand(u)' \cap InHand(v)' = {}
            <3>. SUFFICES ASSUME NEW u \in Thread, NEW v \in Thread, u # v
                          PROVE  InHand(u)' \cap InHand(v)' = {}
                OBVIOUS
            <3>1. CASE u = t
                BY <2>4, <3>1
            <3>2. CASE v = t
                BY <2>4, <3>2
            <3>3. CASE u # t /\ v # t
                BY <1>7, <2>1, <3>3 DEF Apart
            <3>. QED
                BY <3>1, <3>2, <3>3
        <2>6. \A u \in Thread : InHand(u)' \cap Listed' = {}
            <3>. SUFFICES ASSUME NEW u \in Thread PROVE InHand(u)' \cap Listed' = {}
                OBVIOUS
            <3>1. InHand(u) \cap Listed = {}
                BY <2>1 DEF Apart
            <3>. QED
                BY <1>4, <1>5, <1>7, <3>1
        <2>. QED
            BY <2>1, <2>2, <2>3, <2>5, <2>6 DEF Apart
    <1>10. Everywhere'
        BY <1>1, <1>4, <1>5, <1>7 DEF QueueInv, Everywhere
    <1>11. Linked'
        BY <1>1, <1>2, <1>4 DEF QueueInv, Linked, QueueTypeOK
    <1>12. Acyclic'
        <2>. SUFFICES ASSUME NEW q \in Listed'
                      PROVE  \E S \in SUBSET Listed' :
                                Closed(S, next') /\ next'[q] \in S \cup {NULL} /\ q \notin S
            BY DEF Acyclic
        <2>1. PICK S \in SUBSET Listed : Closed(S, next) /\ next[q] \in S \cup {NULL} /\ q \notin S
            BY <1>4 DEF QueueInv, Acyclic
        <2>2. \A p \in Listed' : next'[p] \in Listed' \cup {NULL}
            BY ReachedClosed DEF Listed, QueueTypeOK, LinkType, Closed
        <2> DEFINE R == S \cap Listed'
        <2>3. R \in SUBSET Listed' /\ next'[q] \in R \cup {NULL} /\ q \notin R
            BY <1>1, <2>1, <2>2
        <2>4. Closed(R, next')
            BY <1>1, <2>1, <2>2 DEF Closed
        <2>. QED
            BY <2>3, <2>4
    <1>13. Popping'
        <2>. SUFFICES ASSUME NEW u \in Thread, pc'[u] \in {"next", "swap"}
                      PROVE  FALSE
            BY DEF Popping
        <2>1. u # t /\ pc[u] \in {"next", "swap"}
            BY <1>1, <1>2 DEF QueueTypeOK
        <2>2. t \in Popper /\ u \in Popper
            BY <1>1, <2>1 DEF QueueInv, Locals
        <2>. QED
            BY <2>1, <2>2 DEF OnePopper
    <1>. QED
        BY <1>8, <1>9, <1>10, <1>11, <1>12, <1>13 DEF QueueInv

LEMMA StepPopClear == ASSUME QueueInv, QueueTypeOK', NEW t \in Thread, PopClear(t) PROVE QueueInv'
PROOF
    <1>1. /\ pc[t] = "clear" /\ next' = [next EXCEPT ![l[t]] = NULL]
          /\ arg' = [arg EXCEPT ![t] = l[t]] /\ pc' = [pc EXCEPT ![t] = "push"]
          /\ UNCHANGED <<ring, list, hold, ret, l, newhead>>
        BY DEF PopClear
    <1>2. QueueTypeOK /\ Locals(t) /\ OwnDistinct(t)
        BY DEF QueueInv
    <1>3. l[t] \in Queue /\ l[t] # NULL /\ arg[t] = NULL /\ l[t] \notin Listed
        BY <1>1, <1>2 DEF QueueInv, Locals, QueueTypeOK, Apart, InHand
    <1>4. next'[l[t]] = NULL /\ \A q \in Queue : q # l[t] => next'[q] = next[q]
        BY <1>1, <1>2, <1>3 DEF QueueTypeOK
    <1>5. Listed' = Listed /\ Acyclic' /\ Listed \subseteq Queue
        BY <1>1, <1>2, <1>3, <1>4, ListSame, ListFacts DEF QueueInv
    <1>6. ASSUME NEW u \in Thread PROVE Locals(u)' /\ OwnDistinct(u)' /\ InHand(u)' = InHand(u)
        <2>1. CASE u = t
            BY <1>1, <1>2, <1>3, <2>1 DEF QueueTypeOK, Locals, OwnDistinct, InHand
        <2>2. CASE u # t
            <3>1. Locals(u) /\ OwnDistinct(u)
                BY DEF QueueInv
            <3>. QED
                BY <1>1, <1>2, <2>2, <3>1 DEF QueueTypeOK, Locals, OwnDistinct, InHand
        <2>. QED
            BY <2>1, <2>2
    <1>7. Apart' /\ Everywhere'
        BY <1>1, <1>5, <1>6, PlacesSame DEF QueueInv
    <1>8. \A u \in Thread : u # t => pc'[u] = pc[u] /\ arg'[u] = arg[u]
        BY <1>1, <1>2 DEF QueueTypeOK
    <1>9. pc'[t] = "push"
        BY <1>1, <1>2 DEF QueueTypeOK
    <1>10. Linked'
        <2>. SUFFICES ASSUME NEW q \in Queue, next'[q] # NULL, q \notin Listed
                      PROVE  \E u \in Thread : \/ pc'[u] = "link" /\ arg'[u] = q
                                               \/ pc'[u] = "clear" /\ l'[u] = q
            BY <1>5 DEF Linked
        <2>1. q # l[t] /\ next[q] # NULL
            BY <1>4
        <2>2. PICK u \in Thread : \/ pc[u] = "link" /\ arg[u] = q
                                  \/ pc[u] = "clear" /\ l[u] = q
            BY <2>1 DEF QueueInv, Linked
        <2>3. u # t
            BY <1>1, <2>1, <2>2
        <2>. QED
            BY <1>1, <1>8, <2>2, <2>3
    <1>11. Popping'
        <2>. SUFFICES ASSUME NEW u \in Thread, pc'[u] \in {"next", "swap"}
                      PROVE  /\ l'[u] \in Listed'
                             /\ pc'[u] = "swap" => newhead'[u] = next'[l'[u]]
            BY DEF Popping
        <2>1. u # t
            BY <1>9
        <2>2. l[u] \in Listed /\ (pc[u] = "swap" => newhead[u] = next[l[u]]) /\ pc'[u] = pc[u]
            BY <1>8, <2>1 DEF QueueInv, Popping
        <2>3. l[u] \in Queue /\ l[u] # l[t]
            BY <1>3, <1>5, <2>2
        <2>. QED
            BY <1>1, <1>4, <1>5, <2>2, <2>3
    <1>. QED
        BY <1>5, <1>6, <1>7, <1>10, <1>11 DEF QueueInv

-----------------------------------------------------------------------------
LEMMA QueueStutter == ASSUME QueueInv, UNCHANGED globalQueueVars PROVE QueueInv'
PROOF
    <1>1. QueueTypeOK /\ QueueTypeOK' /\ list' = list /\ next' = next /\ ring' = ring
        BY DEF QueueInv, globalQueueVars, QueueTypeOK
    <1>2. Listed' = Listed /\ Acyclic'
        BY <1>1, ListSame DEF QueueInv
    <1>3. \A u \in Thread : Locals(u)' /\ OwnDistinct(u)' /\ InHand(u)' = InHand(u)
        BY DEF QueueInv, globalQueueVars, Locals, OwnDistinct, InHand
    <1>4. Apart' /\ Everywhere'
        BY <1>1, <1>2, <1>3, PlacesSame DEF QueueInv
    <1>5. Linked' /\ Popping'
        BY <1>2 DEF QueueInv, globalQueueVars, Linked, Popping
    <1>. QED
        BY <1>1, <1>2, <1>3, <1>4, <1>5 DEF QueueInv

LEMMA QueueStep == ASSUME OnePopper, QueueInv, [GlobalQueueNext]_globalQueueVars PROVE QueueInv'
PROOF
    <1>1. CASE UNCHANGED globalQueueVars
        BY <1>1, QueueStutter
    <1>2. CASE GlobalQueueNext
        <2>1. QueueTypeOK'
            BY <1>2, QueueType
        <2>. QED
            BY <1>2, <2>1, StepCallPush, StepPushRing, StepPushFull, StepPushLink, StepPushRetry,
               StepPopRing, StepPopLoad, StepPopNext, StepPopSwap, StepPopLost, StepPopClear
               DEF GlobalQueueNext
    <1>. QED
        BY <1>1, <1>2

LEMMA PlacedOnce == QueueInv => NoneLost
PROOF
    <1>. SUFFICES ASSUME QueueInv, NEW q \in Queue
                  PROVE  Cardinality({i \in 1 .. Len(ring) : ring[i] = q})
                           + Cardinality({t \in Thread : q \in InHand(t)})
                           + (IF q \in Listed THEN 1 ELSE 0) = 1
        BY DEF NoneLost
    <1> DEFINE inRing == {i \in 1 .. Len(ring) : ring[i] = q}
               hands == {t \in Thread : q \in InHand(t)}
    <1>0. Apart /\ Everywhere
        BY DEF QueueInv
    <1>1. CASE q \in Listed
        <2>1. inRing = {} /\ hands = {}
            BY <1>0, <1>1 DEF Apart
        <2>2. Cardinality(inRing) = 0 /\ Cardinality(hands) = 0
            BY <2>1, FS_EmptySet
        <2>. QED
            BY <1>1, <2>2
    <1>2. ASSUME NEW i \in 1 .. Len(ring), ring[i] = q
          PROVE  Cardinality(inRing) + Cardinality(hands) + (IF q \in Listed THEN 1 ELSE 0) = 1
        <2>1. inRing = {i} /\ hands = {} /\ q \notin Listed
            BY <1>0, <1>2 DEF Apart
        <2>2. Cardinality(inRing) = 1 /\ Cardinality(hands) = 0
            BY <2>1, FS_EmptySet, FS_Singleton
        <2>. QED
            BY <2>1, <2>2
    <1>3. ASSUME NEW t \in Thread, q \in InHand(t)
          PROVE  Cardinality(inRing) + Cardinality(hands) + (IF q \in Listed THEN 1 ELSE 0) = 1
        <2>1. inRing = {} /\ hands = {t} /\ q \notin Listed
            BY <1>0, <1>3 DEF Apart
        <2>2. Cardinality(inRing) = 0 /\ Cardinality(hands) = 1
            BY <2>1, FS_EmptySet, FS_Singleton
        <2>. QED
            BY <2>1, <2>2
    <1>. QED
        BY <1>0, <1>1, <1>2, <1>3 DEF Everywhere

LEMMA Unlinked == QueueInv => AssertUnlinked
PROOF
    <1>. SUFFICES ASSUME QueueInv, NEW t \in Thread, pc[t] = "push", next[arg[t]] # NULL
                  PROVE  FALSE
        BY DEF AssertUnlinked
    <1>1. arg[t] \in Queue /\ arg[t] \in InHand(t)
        BY DEF QueueInv, Locals, QueueTypeOK, InHand
    <1>2. PICK u \in Thread : \/ pc[u] = "link" /\ arg[u] = arg[t]
                              \/ pc[u] = "clear" /\ l[u] = arg[t]
        BY <1>1 DEF QueueInv, Linked, Apart
    <1>3. u # t /\ arg[t] \in InHand(u)
        BY <1>1, <1>2, GlobalQueueAssumption DEF QueueInv, InHand, Locals
    <1>. QED
        BY <1>1, <1>3 DEF QueueInv, Apart

(***************************************************************************)
(* With one thread that pops, SNMessageQueueMgr loses no message queue and *)
(* hands none out twice: each is in the bounded queue, in the overflow     *)
(* list, or in the hands of one thread, and in one of these only.          *)
(***************************************************************************)
THEOREM OnePopperLosesNone == ASSUME OnePopper PROVE GlobalQueueSpec => []NoneLost
PROOF
    <1>1. GlobalQueueInit => QueueInv
        BY QueueInit
    <1>2. QueueInv /\ [GlobalQueueNext]_globalQueueVars => QueueInv'
        BY QueueStep
    <1>. QED
        BY <1>1, <1>2, PlacedOnce, PTL DEF GlobalQueueSpec

(***************************************************************************)
(* With one thread that pops, the assertion of Push holds: a queue that is *)
(* going to be linked into the overflow list is linked to no queue.        *)
(***************************************************************************)
THEOREM OnePopperUnlinked == ASSUME OnePopper PROVE GlobalQueueSpec => []AssertUnlinked
PROOF
    <1>1. GlobalQueueInit => QueueInv
        BY QueueInit
    <1>2. QueueInv /\ [GlobalQueueNext]_globalQueueVars => QueueInv'
        BY QueueStep
    <1>. QED
        BY <1>1, <1>2, Unlinked, PTL DEF GlobalQueueSpec

-----------------------------------------------------------------------------
(***************************************************************************)
(* Proofs about module HandleMgr, for a table of any size, any harbor id   *)
(* and any number of contexts and names.                                   *)
(***************************************************************************)

\* A slot is taken by a context that was created, and given that handle.  Until the
\* index has wrapped around, contexts get the slots in their order: from the index
\* on all slots are free, and Register takes the first one it looks at.
HandleInv ==
    /\ TypeOK
    /\ \A h \in Slot : slot[h] <= born
    /\ SlotOfHandle
    /\ born <= HANDLE_MASK =>
          /\ index = born + 1
          /\ \A h \in Slot : h >= index => slot[h] = None
          /\ \A c \in 1 .. born : given[c] = Full(c)

-----------------------------------------------------------------------------
\* The masks and shifts of handles.
LEMMA LowInSlot == ASSUME NEW x \in Nat PROVE Low(x) \in Slot
PROOF
    BY HandleAssumption DEF Low, Slot

LEMMA LowOfSlot == ASSUME NEW h \in Slot PROVE Low(h) = h
PROOF
    BY HandleAssumption DEF Low, Slot

LEMMA HarborBits == Harbor * (HANDLE_MASK + 1) \in Nat
PROOF
    BY HandleAssumption

LEMMA LowOfFull == ASSUME NEW h \in Slot PROVE Low(Full(h)) = h
PROOF
    BY HandleAssumption DEF Low, Full, Slot

\* Register looks at slots only, and gives out handles.
LEMMA ProbeInSlot == ASSUME TypeOK, NEW i \in 0 .. HANDLE_MASK PROVE Probe(i) \in Slot
PROOF
    BY HandleAssumption DEF Probe, Slot, TypeOK

LEMMA FullInHandles == ASSUME NEW h \in Slot PROVE Full(h) \in Handles
PROOF
    BY HarborBits, HandleAssumption DEF Full, Slot, Handles

LEMMA HandlesAreNat == Handles \subseteq Nat
PROOF
    BY DEF Handles

-----------------------------------------------------------------------------
LEMMA HandleInit == Init => HandleInv
PROOF
    <1>. SUFFICES ASSUME Init PROVE HandleInv
        OBVIOUS
    <1>1. 0 \in Handles
        BY HarborBits, HandleAssumption DEF Handles, Full
    <1>2. TypeOK
        BY <1>1, HandleAssumption DEF Init, TypeOK, None
    <1>. QED
        BY <1>2, HandleAssumption DEF Init, HandleInv, SlotOfHandle, None

\* Register takes a free slot p, and the next one in order unless the index wrapped.
LEMMA HandleRegister == ASSUME HandleInv, Register PROVE HandleInv'
PROOF
    <1>1. PICK i \in 0 .. HANDLE_MASK :
             /\ slot[Probe(i)] = None
             /\ \A j \in 0 .. i - 1 : slot[Probe(j)] # None
             /\ slot' = [slot EXCEPT ![Probe(i)] = born + 1]
             /\ index' = Probe(i) + 1
             /\ given' = [given EXCEPT ![born + 1] = Full(Probe(i))]
        BY DEF Register
    <1> DEFINE p == Probe(i)
    <1>2. /\ p \in Slot /\ Full(p) \in Handles /\ Low(Full(p)) = p
        BY ProbeInSlot, FullInHandles, LowOfFull DEF HandleInv
    <1>3. /\ born' = born + 1 /\ born + 1 \in Context /\ born \in Nat
          /\ UNCHANGED <<nameMap, handle, named>>
        BY HandleAssumption DEF Register, Context, HandleInv, TypeOK
    <1>4. TypeOK'
        BY <1>1, <1>2, <1>3, HandleAssumption DEF HandleInv, TypeOK, Slot, Context
    <1>5. \A h \in Slot : slot'[h] = IF h = p THEN born + 1 ELSE slot[h]
        BY <1>1, <1>2 DEF HandleInv, TypeOK
    <1>6. \A h \in Slot : slot[h] \in Nat /\ slot[h] <= born
        BY DEF HandleInv, TypeOK, Context, None
    <1>7. \A h \in Slot : slot'[h] <= born'
        BY <1>3, <1>5, <1>6
    <1>8. \A c \in Context : given'[c] = IF c = born + 1 THEN Full(p) ELSE given[c]
        BY <1>1, <1>3 DEF HandleInv, TypeOK
    <1>9. SlotOfHandle'
        <2>. SUFFICES ASSUME NEW h \in Slot, slot'[h] # None PROVE h = Low(given'[slot'[h]])
            BY DEF SlotOfHandle, Low
        <2>1. CASE h = p
            BY <2>1, <1>2, <1>3, <1>5, <1>8
        <2>2. CASE h # p
            <3>1. slot'[h] = slot[h] /\ slot[h] \in Context /\ slot[h] # born + 1
                BY <2>2, <1>3, <1>5, <1>6 DEF HandleInv, TypeOK
            <3>. QED
                BY <3>1, <1>8 DEF HandleInv, SlotOfHandle
        <2>. QED
            BY <2>1, <2>2
    <1>10. ASSUME born' <= HANDLE_MASK
           PROVE  /\ index' = born' + 1
                  /\ \A h \in Slot : h >= index' => slot'[h] = None
                  /\ \A c \in 1 .. born' : given'[c] = Full(c)
        <2>1. /\ born <= HANDLE_MASK /\ index = born + 1 /\ index \in Slot
            BY <1>10, <1>3, HandleAssumption DEF HandleInv, Slot
        <2>2. Probe(0) = index
            BY <2>1, LowOfSlot, HandleAssumption DEF Probe, Low, Slot
        <2>3. slot[index] = None
            BY <2>1, HandleAssumption DEF HandleInv, Slot
        <2>4. i = 0
            BY <1>1, <2>2, <2>3
        <2>5. p = index
            BY <2>2, <2>4
        <2>6. \A h \in Slot : h >= index' => slot'[h] = None
            BY <1>1, <1>5, <2>1, <2>5, HandleAssumption DEF HandleInv, Slot
        <2>7. ASSUME NEW c \in 1 .. born' PROVE given'[c] = Full(c)
            BY <1>3, <1>8, <2>1, <2>5, <2>7, HandleAssumption DEF HandleInv, Context
        <2>. QED
            BY <1>1, <1>3, <2>1, <2>5, <2>6, <2>7
    <1>. QED
        BY <1>4, <1>7, <1>9, <1>10 DEF HandleInv

\* Remove frees a slot.
LEMMA HandleRemove ==
    ASSUME HandleInv, NEW h \in Handles, Remove(h), named' \in Handles
    PROVE  HandleInv'
PROOF
    <1>1. Low(h) \in Slot
        BY HandlesAreNat, LowInSlot
    <1>2. /\ slot' = [slot EXCEPT ![Low(h)] = None]
          /\ nameMap' = [n \in Name |-> IF nameMap[n] = Low(h) THEN None ELSE nameMap[n]]
          /\ UNCHANGED <<index, born, given, handle>>
        BY DEF Remove
    <1>3. 0 \in Handles
        BY HarborBits, HandleAssumption DEF Handles, Full
    <1>4. TypeOK'
        BY <1>1, <1>2, <1>3 DEF HandleInv, TypeOK, None
    <1>5. \A g \in Slot : slot'[g] = IF g = Low(h) THEN None ELSE slot[g]
        BY <1>1, <1>2 DEF HandleInv, TypeOK
    <1>6. \A g \in Slot : slot'[g] <= born'
        BY <1>2, <1>5 DEF HandleInv, TypeOK, None
    <1>7. SlotOfHandle'
        BY <1>2, <1>5 DEF HandleInv, SlotOfHandle, Low
    <1>. QED
        BY <1>2, <1>4, <1>5, <1>6, <1>7 DEF HandleInv, Full

LEMMA HandleNext == HandleInv /\ [Next]_vars => HandleInv'
PROOF
    <1>. SUFFICES ASSUME HandleInv, [Next]_vars PROVE HandleInv'
        OBVIOUS
    <1>0. 0 \in Handles
        BY HarborBits, HandleAssumption DEF Handles, Full
    <1>1. CASE Register
        BY <1>1, HandleRegister
    <1>2. ASSUME NEW c \in Context, Kill(c) PROVE HandleInv'
        <2>1. given[c] \in Handles /\ named' \in Handles
            BY <1>2 DEF HandleInv, TypeOK, Kill
        <2>. QED
            BY <1>2, <2>1, HandleRemove DEF Kill
    <1>3. CASE KillNamed
        <2>1. named \in Handles /\ named' \in Handles
            BY <1>0, <1>3 DEF HandleInv, TypeOK, KillNamed, None
        <2>2. CASE Remove(named)
            BY <2>1, <2>2, HandleRemove
        <2>3. CASE UNCHANGED <<slot, index, nameMap, born, given, handle>>
            BY <2>1, <2>3 DEF HandleInv, TypeOK, SlotOfHandle, Low, Full
        <2>. QED
            BY <1>3, <2>2, <2>3 DEF KillNamed
    <1>4. ASSUME NEW c \in Context, SetHandle(c) PROVE HandleInv'
        BY <1>4 DEF SetHandle, HandleInv, TypeOK, SlotOfHandle, Low, Full
    <1>5. ASSUME NEW n \in Name, FindName(n) PROVE HandleInv'
        BY <1>5 DEF FindName, HandleInv, TypeOK, SlotOfHandle, Low, Full
    <1>6. ASSUME NEW c \in Context, NEW n \in Name, NameHandle(c, n) PROVE HandleInv'
        BY <1>6 DEF NameHandle, HandleInv, TypeOK, SlotOfHandle, Low, Full
    <1>7. CASE UNCHANGED vars
        BY <1>7 DEF vars, HandleInv, TypeOK, SlotOfHandle, Low, Full
    <1>. QED
        BY <1>1, <1>2, <1>3, <1>4, <1>5, <1>6, <1>7 DEF Next

-----------------------------------------------------------------------------
(***************************************************************************)
(* The table keeps its types, and a context is in the slot of the handle   *)
(* that Register gave it and in no other.                                  *)
(***************************************************************************)
THEOREM HandleInvariant == Spec => [](TypeOK /\ SlotOfHandle)
PROOF
    <1>1. HandleInv => TypeOK /\ SlotOfHandle
        BY DEF HandleInv
    <1>. QED
        BY <1>1, HandleInit, HandleNext, PTL DEF Spec

(***************************************************************************)
(* Register gives no handle out twice before it has given out all of them, *)
(* in a table of any size.                                                 *)
(***************************************************************************)
THEOREM HandlesAreFresh == Spec => []NoReuse
PROOF
    <1>1. HandleInv => NoReuse
        <2>. SUFFICES ASSUME HandleInv, born <= HANDLE_MASK,
                             NEW c \in 1 .. born, NEW d \in 1 .. born, given[c] = given[d]
                      PROVE  c = d
            BY DEF NoReuse
        <2>1. c \in Nat /\ d \in Nat /\ Full(c) = Full(d)
            BY DEF HandleInv, TypeOK
        <2>. QED
            BY <2>1, HarborBits DEF Full
    <1>. QED
        BY <1>1, HandleInit, HandleNext, PTL DEF Spec

(***************************************************************************)
(* Register never takes the slot of a registered context.                  *)
(***************************************************************************)
THEOREM TakenSlotsAreKept == Spec => SlotsAreKept
PROOF
    <1>1. HandleInv /\ [Next]_vars =>
              [\A h \in Slot : slot[h] # None => slot'[h] \in {slot[h], None}]_vars
        <2>. SUFFICES ASSUME HandleInv, Next, NEW h \in Slot, slot[h] # None
                      PROVE  slot'[h] \in {slot[h], None}
            OBVIOUS
        <2>1. CASE Register
            BY <2>1, ProbeInSlot DEF Register, HandleInv, TypeOK
        <2>2. ASSUME NEW g, Remove(g) PROVE slot'[h] \in {slot[h], None}
            BY <2>2 DEF Remove, HandleInv, TypeOK
        <2>3. CASE slot' = slot
            BY <2>3
        <2>. QED
            BY <2>1, <2>2, <2>3 DEF Next, KillNamed, Kill, SetHandle, FindName, NameHandle
    <1>. QED
        BY <1>1, HandleInit, HandleNext, PTL DEF Spec, SlotsAreKept

(***************************************************************************)
(* A name is not taken over: it stands for its handle until Remove erases  *)
(* it and frees the slot, in one step.                                     *)
(***************************************************************************)
THEOREM NamesAreKept == Spec => NamesAreStable
PROOF
    <1>1. HandleInv /\ [Next]_vars =>
              [\A n \in Name : nameMap[n] # None /\ nameMap'[n] # nameMap[n] =>
                   /\ nameMap'[n] = None
                   /\ slot[Low(nameMap[n])] # None
                   /\ slot'[Low(nameMap[n])] = None]_vars
        <2>. SUFFICES ASSUME HandleInv, Next, NEW n \in Name,
                             nameMap[n] # None, nameMap'[n] # nameMap[n]
                      PROVE  /\ nameMap'[n] = None
                             /\ slot[Low(nameMap[n])] # None
                             /\ slot'[Low(nameMap[n])] = None
            OBVIOUS
        <2>1. ASSUME NEW h \in Handles, Remove(h)
              PROVE  /\ nameMap'[n] = None
                     /\ slot[Low(nameMap[n])] # None
                     /\ slot'[Low(nameMap[n])] = None
            <3>1. nameMap[n] = Low(h) /\ nameMap'[n] = None
                BY <2>1 DEF Remove
            <3>2. Low(h) \in Slot /\ Low(Low(h)) = Low(h)
                BY HandlesAreNat, LowInSlot, LowOfSlot
            <3>. QED
                BY <2>1, <3>1, <3>2 DEF Remove, Removes, HandleInv, TypeOK
        <2>2. ASSUME NEW c \in Context, NEW m \in Name, NameHandle(c, m) PROVE FALSE
            BY <2>2 DEF NameHandle, HandleInv, TypeOK
        <2>3. \/ \E h \in Handles : Remove(h)
              \/ \E c \in Context, m \in Name : NameHandle(c, m)
            BY DEF Next, Register, KillNamed, Kill, SetHandle, FindName, HandleInv, TypeOK
        <2>. QED
            BY <2>1, <2>2, <2>3
    <1>. QED
        BY <1>1, HandleInit, HandleNext, PTL DEF Spec, NamesAreStable

-----------------------------------------------------------------------------
(***************************************************************************)
(* Proofs about module Threads, for any number of workers: the count of    *)
(* sleepers, which the timer and main threads read without the mutex, is   *)
(* exact, and final once the main thread has seen it full.                 *)
(*                                                                         *)
(* The argument: the main thread gets there only after it has joined the   *)
(* socket thread, which ends only after the exit signal; and a full count  *)
(* leaves no worker that could still count itself, while those that wake   *)
(* up after the signal leave without touching the count.                   *)
(***************************************************************************)

Asleep == {"wait", "waiting", "signalled", "exited"}
Sleepers == {w \in Worker : wpc[w] \in Asleep}
AfterPoll == {"notify", "workers", "released"}

CountInv ==
    /\ exit \in BOOLEAN
    /\ wpc \in [Worker -> {"dispatch", "busy", "lock"} \cup Asleep]
    /\ sleep = Cardinality(Sleepers)
    /\ spc = "done" => exit
    /\ main # "socket" => exit
    /\ main \in AfterPoll => Sleepers = Worker

-----------------------------------------------------------------------------
\* There are finitely many sleepers, and all workers sleep when their numbers agree.
LEMMA SleepersFinite ==
    /\ IsFiniteSet(Sleepers)
    /\ Cardinality(Sleepers) \in Nat
    /\ Cardinality(Sleepers) = count => Sleepers = Worker
PROOF
    <1>1. Sleepers \in SUBSET Worker
        BY DEF Sleepers
    <1>2. IsFiniteSet(Worker)
        BY ThreadsAssumption
    <1>3. IsFiniteSet(Sleepers) /\ (Cardinality(Worker) = Cardinality(Sleepers) => Worker = Sleepers)
        BY <1>1, <1>2, FS_Subset
    <1>4. Cardinality(Sleepers) \in Nat
        BY <1>3, FS_CardinalityType
    <1>. QED
        BY <1>3, <1>4 DEF count

\* A step of worker w alone changes the sleepers by w at most.
LEMMA OneMoves ==
    ASSUME CountInv, NEW w \in Worker, NEW k, wpc' = [wpc EXCEPT ![w] = k]
    PROVE  /\ k \in Asleep => Sleepers' = Sleepers \cup {w}
           /\ k \notin Asleep => Sleepers' = Sleepers \ {w}
           /\ w \in Sleepers <=> wpc[w] \in Asleep
PROOF
    BY DEF CountInv, Sleepers

\* The invariant holds when only the threads other than the workers move, and the
\* workers they notify were asleep.
LEMMA OthersMove ==
    ASSUME CountInv, wpc' \in [Worker -> {"dispatch", "busy", "lock"} \cup Asleep],
           \A w \in Worker : wpc'[w] \in Asleep <=> wpc[w] \in Asleep,
           sleep' = sleep
    PROVE  Sleepers' = Sleepers /\ sleep' = Cardinality(Sleepers')
PROOF
    <1>1. Sleepers' = Sleepers
        BY DEF Sleepers
    <1>. QED
        BY <1>1 DEF CountInv

\* The notifications of the timer and main threads wake up workers that sleep.
LEMMA Notified ==
    ASSUME CountInv, NotifyAll \/ NotifyOne
    PROVE  /\ wpc' \in [Worker -> {"dispatch", "busy", "lock"} \cup Asleep]
           /\ \A w \in Worker : wpc'[w] \in Asleep <=> wpc[w] \in Asleep
PROOF
    BY DEF CountInv, NotifyAll, NotifyOne, Asleep

-----------------------------------------------------------------------------
LEMMA CountInit == ThreadsInit => CountInv
PROOF
    <1>. SUFFICES ASSUME ThreadsInit PROVE CountInv
        OBVIOUS
    <1>1. Sleepers = {}
        BY DEF ThreadsInit, Sleepers, Asleep
    <1>. QED
        BY <1>1, FS_EmptySet DEF ThreadsInit, CountInv, AfterPoll

\* A worker: it counts itself when it lies down and uncounts itself when it gets up.
LEMMA CountWorker ==
    ASSUME CountInv, NEW w \in Worker, WorkerStep(w) \/ Post(w) \/ Spurious(w)
    PROVE  CountInv'
PROOF
    <1>0. /\ IsFiniteSet(Sleepers) /\ Cardinality(Sleepers) \in Nat
          /\ exit' = exit /\ spc' = spc /\ main' = main
        BY SleepersFinite DEF WorkerStep, Post, Spurious, Dispatch, Done, NoWork, LockSleep, Wait, Resume
    <1>1. CASE Post(w)
        BY <1>1, <1>0, OthersMove DEF Post, CountInv
    <1>2. CASE Dispatch(w) \/ Done(w) \/ NoWork(w) \/ Wait(w) \/ Spurious(w) \/ (Resume(w) /\ exit)
        <2>1. /\ wpc' \in [Worker -> {"dispatch", "busy", "lock"} \cup Asleep]
              /\ \A v \in Worker : wpc'[v] \in Asleep <=> wpc[v] \in Asleep
              /\ sleep' = sleep
            BY <1>2 DEF CountInv, Asleep, Dispatch, Done, NoWork, Wait, Spurious, Resume
        <2>. QED
            BY <1>0, <2>1, OthersMove DEF CountInv
    <1>3. CASE LockSleep(w)
        <2>1. /\ wpc' = [wpc EXCEPT ![w] = "wait"] /\ sleep' = sleep + 1 /\ w \notin Sleepers
            BY <1>3, OneMoves DEF LockSleep, Asleep
        <2>2. Sleepers' = Sleepers \cup {w}
            BY <2>1, OneMoves DEF Asleep
        <2>3. sleep' = Cardinality(Sleepers')
            BY <1>0, <2>1, <2>2, FS_AddElement DEF CountInv
        <2>. QED
            BY <1>0, <2>1, <2>2, <2>3 DEF CountInv, Asleep
    <1>4. CASE Resume(w) /\ ~exit
        <2>1. /\ wpc' = [wpc EXCEPT ![w] = "dispatch"] /\ sleep' = sleep - 1 /\ w \in Sleepers
            BY <1>4, OneMoves DEF Resume, Asleep
        <2>0. "dispatch" \notin Asleep
            BY DEF Asleep
        <2>2. Sleepers' = Sleepers \ {w}
            BY <2>0, <2>1, OneMoves
        <2>3. sleep' = Cardinality(Sleepers')
            BY <1>0, <2>1, <2>2, FS_RemoveElement DEF CountInv
        <2>4. main \notin AfterPoll
            BY <1>4 DEF CountInv, AfterPoll
        <2>. QED
            BY <1>0, <2>1, <2>2, <2>3, <2>4 DEF CountInv, Asleep
    <1>. QED
        BY <1>1, <1>2, <1>3, <1>4 DEF WorkerStep

\* The other threads and the signal.
LEMMA CountOthers ==
    ASSUME CountInv,
           TimerStep \/ SocketCheck \/ SocketEvent \/ SocketCommand \/ MonitorEnd
             \/ Join \/ MainNotify \/ Signal
    PROVE  CountInv'
PROOF
    <1>1. CASE TimerStep \/ MainNotify
        <2>1. /\ sleep' = sleep /\ exit' = exit /\ spc' = spc
              /\ main' = main \/ (main = "notify" /\ main' = "workers")
              /\ wpc' = wpc \/ NotifyAll \/ NotifyOne
            BY <1>1 DEF TimerStep, Update, CheckAbort, Wakeup, SocketExit, TimerEnd, MainNotify
        <2>2. /\ wpc' \in [Worker -> {"dispatch", "busy", "lock"} \cup Asleep]
              /\ \A w \in Worker : wpc'[w] \in Asleep <=> wpc[w] \in Asleep
            BY <2>1, Notified DEF CountInv
        <2>3. Sleepers' = Sleepers /\ sleep' = Cardinality(Sleepers')
            BY <2>1, <2>2, OthersMove
        <2>. QED
            BY <2>1, <2>2, <2>3 DEF CountInv, AfterPoll
    <1>2. CASE SocketCheck \/ SocketEvent \/ SocketCommand \/ MonitorEnd \/ Signal
        <2>1. /\ wpc' = wpc /\ sleep' = sleep /\ main' = main
              /\ exit' \in BOOLEAN /\ (exit => exit')
              /\ spc' = "done" => exit'
            BY <1>2 DEF CountInv, SocketCheck, SocketEvent, SocketCommand, MonitorEnd, Signal
        <2>2. Sleepers' = Sleepers /\ sleep' = Cardinality(Sleepers')
            BY <2>1, OthersMove DEF CountInv
        <2>. QED
            BY <2>1, <2>2 DEF CountInv
    <1>3. CASE Join
        <2>1. /\ wpc' = wpc /\ sleep' = sleep /\ exit' = exit /\ spc' = spc
              /\ exit
              /\ main' \in AfterPoll => main \in AfterPoll \/ sleep = count
            BY <1>3 DEF CountInv, Join, AfterPoll
        <2>2. Sleepers' = Sleepers /\ sleep' = Cardinality(Sleepers')
            BY <2>1, OthersMove DEF CountInv
        <2>3. main' \in AfterPoll => Sleepers = Worker
            BY <2>1, SleepersFinite DEF CountInv
        <2>. QED
            BY <2>1, <2>2, <2>3 DEF CountInv
    <1>. QED
        BY <1>1, <1>2, <1>3

LEMMA CountNext == CountInv /\ [ThreadsNext]_threadsVars => CountInv'
PROOF
    <1>. SUFFICES ASSUME CountInv, [ThreadsNext]_threadsVars PROVE CountInv'
        OBVIOUS
    <1>1. CASE ThreadsNext
        BY <1>1, CountWorker, CountOthers DEF ThreadsNext
    <1>2. CASE UNCHANGED threadsVars
        <2>1. Sleepers' = Sleepers
            BY <1>2 DEF threadsVars, Sleepers
        <2>. QED
            BY <1>2, <2>1 DEF threadsVars, CountInv
    <1>. QED
        BY <1>1, <1>2

-----------------------------------------------------------------------------
(***************************************************************************)
(* sleep is the number of workers between ++sleep and --sleep, those that  *)
(* left their loop included, for any number of workers (_worker).          *)
(***************************************************************************)
THEOREM SleepIsCounted == ThreadsSpec => []SleepCount
PROOF
    <1>1. CountInv => SleepCount
        BY DEF CountInv, SleepCount, Sleepers, Asleep
    <1>. QED
        BY <1>1, CountInit, CountNext, PTL DEF ThreadsSpec

(***************************************************************************)
(* Once _start has seen sleep = count, no worker changes it any more: its  *)
(* unlocked wait for the workers cannot be undone.                         *)
(***************************************************************************)
THEOREM FullCountIsFinal == ThreadsSpec => SleepersStay
PROOF
    <1>1. CountInv /\ [ThreadsNext]_threadsVars => [(main \in {"notify", "workers", "released"}) => sleep' = sleep]_threadsVars
        <2>. SUFFICES ASSUME CountInv, ThreadsNext, main \in AfterPoll PROVE sleep' = sleep
            BY DEF AfterPoll
        <2>1. exit /\ \A w \in Worker : wpc[w] \in Asleep
            BY DEF CountInv, AfterPoll, Sleepers
        <2>2. \A w \in Worker : ~LockSleep(w)
            BY <2>1 DEF LockSleep, Asleep
        <2>. QED
            BY <2>1, <2>2 DEF ThreadsNext, WorkerStep, Dispatch, Done, NoWork, Wait, Resume, Post, Spurious,
                 TimerStep, Update, CheckAbort, Wakeup, SocketExit, TimerEnd, SocketCheck, SocketEvent,
                 SocketCommand, MonitorEnd, Join, MainNotify, Signal
    <1>. QED
        BY <1>1, CountInit, CountNext, PTL DEF ThreadsSpec, SleepersStay
=============================================================================
