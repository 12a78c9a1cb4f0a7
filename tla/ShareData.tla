----------------------------- MODULE ShareData ------------------------------
(***************************************************************************)
(* The shared configuration table of lua-sharedata: a Lua table is         *)
(* converted once, into an array and a hash of exactly as many slots as it *)
(* has other keys, and then only read.  A key is <<"int", n>> or           *)
(* <<"str", s>>; hashOf is calchash on the strings, which is any function  *)
(* here.  A Lua table is its border n and its pairs in lua_next's order.   *)
(* Integer keys are taken to fit an int (lines 195 and 543 truncate them). *)
(***************************************************************************)
EXTENDS Integers, Sequences, FiniteSets, SequencesExt

CONSTANTS
    Tables,         \* bound: [n, kvs]
    Strings,        \* bound: the strings of keys
    MaxHash         \* bound: the values of calchash

VARIABLES
    conf            \* source, hashOf; tbl, the converted table; key, seen: a traversal with nextkey

NIL == 0     \* no value of a table
\* An integer key hashes to itself, as an unsigned number
Hash(hashOf, k) == IF k[1] = "int" THEN k[2] % (2 * MaxHash + 2) ELSE hashOf[k[2]]
InArray(k, n) == k[1] = "int" /\ k[2] > 0 /\ k[2] <= n

\* countsize: the keys that are not in the array
HashKeys(t) == SelectSeq(t.kvs, LAMBDA kv : ~InArray(kv[1], t.n))
countsize(t) == Len(HashKeys(t))

Slot(hashOf, k, sizehash) == Hash(hashOf, k) % sizehash
EmptyNode == [key |-> <<"int", 0>>, keyhash |-> 0, next |-> -1, value |-> NIL, nocolliding |-> FALSE]
NewNode(hashOf, kv, next, single) ==
    [key |-> kv[1], keyhash |-> Hash(hashOf, kv[1]), next |-> next, value |-> kv[2], nocolliding |-> single]

\* fillnocolliding: the first key of a slot takes it.
FillFirst(hashOf, kvs, size) ==
    FoldLeft(LAMBDA hash, kv :
                LET i == Slot(hashOf, kv[1], size)
                IN  IF hash[i].value = NIL THEN [hash EXCEPT ![i] = NewNode(hashOf, kv, -1, TRUE)] ELSE hash,
             [i \in 0..(size - 1) |-> EmptyNode], kvs)

\* The link of a node that is put behind its main position.  Mutant: the chain is cut.
LinkCut(main) == -1
Link(main) == main.next

\* fillcolliding: the others take the empty slots in order, behind their main position.
FillOthers(hashOf, kvs, size, first) ==
    FoldLeft(LAMBDA hash, kv :
                LET m == Slot(hashOf, kv[1], size)
                    empty == {i \in DOMAIN hash : hash[i].value = NIL}
                    n == CHOOSE i \in empty : \A j \in empty : i <= j
                IN  IF hash[m].key = kv[1] THEN hash
                    ELSE [hash EXCEPT ![m].next = n, ![m].nocolliding = FALSE,
                                      ![n] = NewNode(hashOf, kv, Link(hash[m]), FALSE)],
             first, kvs)

convtable(hashOf, t) ==
    LET size == countsize(t)
        at(i) == {j \in DOMAIN t.kvs : t.kvs[j][1] = <<"int", i>>}
    IN  [sizearray |-> t.n, sizehash |-> size,
         array |-> [i \in 1..t.n |-> IF at(i) = {} THEN NIL ELSE t.kvs[CHOOSE j \in at(i) : TRUE][2]],
         hash |-> FillOthers(hashOf, HashKeys(t), size, FillFirst(hashOf, HashKeys(t), size))]

\* lookup_key: the slot of a key, or -1
RECURSIVE Follow(_, _, _, _)
Follow(hash, i, k, keyhash) ==
    CASE hash[i].keyhash = keyhash /\ hash[i].key = k -> i
      [] ~(hash[i].keyhash = keyhash /\ hash[i].key = k) /\ hash[i].next < 0 -> -1
      [] OTHER -> Follow(hash, hash[i].next, k, keyhash)
lookup_key(tbl, hashOf, k) ==
    LET h == Hash(hashOf, k)
        i == h % tbl.sizehash
    IN  IF tbl.sizehash = 0 THEN -1
        ELSE IF h # tbl.hash[i].keyhash /\ tbl.hash[i].nocolliding THEN -1
        ELSE Follow(tbl.hash, i, k, h)

lindexconf(tbl, hashOf, k) ==
    IF InArray(k, tbl.sizearray) THEN tbl.array[k[2]]
    ELSE LET i == lookup_key(tbl, hashOf, k) IN IF i < 0 THEN NIL ELSE tbl.hash[i].value

\* lnextkey: the key after k (<<NIL>> at the beginning), or <<NIL>>
pushfirsthash(tbl) == IF tbl.sizehash > 0 THEN tbl.hash[0].key ELSE <<NIL>>
lnextkey(tbl, hashOf, k) ==
    LET from == IF k = <<NIL>> THEN 1 ELSE k[2] + 1
        more == {i \in from..tbl.sizearray : tbl.array[i] # NIL}
        i == lookup_key(tbl, hashOf, k)
    IN  IF k = <<NIL>> \/ InArray(k, tbl.sizearray)
        THEN IF more # {} THEN <<"int", CHOOSE j \in more : \A l \in more : j <= l>> ELSE pushfirsthash(tbl)
        ELSE IF i >= 0 /\ i + 1 < tbl.sizehash THEN tbl.hash[i + 1].key ELSE <<NIL>>

-----------------------------------------------------------------------------
Init == \E t \in Tables, h \in [Strings -> 0..MaxHash] :
            conf = [source |-> t, hashOf |-> h, tbl |-> <<>>, key |-> <<NIL>>, seen |-> <<>>, step |-> "new"]

\* lnewconf (pconv, convert_stringmap)
lnewconf ==
    /\ conf.step = "new"
    /\ conf' = [conf EXCEPT !.tbl = convtable(conf.hashOf, conf.source), !.step = "read"]

\* One turn of a traversal: nextkey, then index
Traverse ==
    /\ conf.step = "read"
    /\ \E k \in {lnextkey(conf.tbl, conf.hashOf, conf.key)} :
         conf' = IF k = <<NIL>> THEN [conf EXCEPT !.step = "done"]
                 ELSE [conf EXCEPT !.key = k, !.seen = Append(@, <<k, lindexconf(conf.tbl, conf.hashOf, k)>>)]

Next == lnewconf \/ Traverse

\* Whatever the strings hash to, index finds every key of the source with its value
\* and no other key, and a traversal with nextkey sees every pair once.
ConfReturns ==
    LET kvs == conf.source.kvs
        others == ({"int"} \X (-1..5)) \cup ({"str"} \X Strings)
        Value(k) == LET S == {i \in DOMAIN kvs : kvs[i][1] = k} IN IF S = {} THEN NIL ELSE kvs[CHOOSE i \in S : TRUE][2]
    IN  /\ conf.step = "read" /\ conf.seen = <<>> =>
              \A k \in others : lindexconf(conf.tbl, conf.hashOf, k) = Value(k)
        /\ conf.step # "new" => IsInjective(conf.seen) /\ ToSet(conf.seen) \subseteq ToSet(kvs)
        /\ conf.step = "done" => Len(conf.seen) = Len(kvs)
=============================================================================
