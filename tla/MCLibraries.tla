---------------------------- MODULE MCLibraries -----------------------------
(***************************************************************************)
(* Instances of the gate service, of the runtime of Lua services and of    *)
(* their C libraries, side by side: they share no state, so a behaviour is *)
(* one of one part, chosen at the beginning; the variables of the others   *)
(* stay Off.                                                               *)
(***************************************************************************)
EXTENDS Integers, Sequences, FiniteSets, SequencesExt, TLC

CONSTANTS Parts, Clients

VARIABLES part, g, peer, q, feed, sb, pool, io, seri, sproto, conf, host, obj, cl, mcd, svc, pkg, mc,
          rt, co, req

vars == <<part, g, peer, q, feed, sb, pool, io, seri, sproto, conf, host, obj, cl, mcd, svc, pkg, mc,
          rt, co, req>>

Off == <<>>

-----------------------------------------------------------------------------
(* The peers of the gate: two sockets in one chain of the hash and a third *)
(* one; empty packages; a package that is too long.                        *)

GateTraffic ==
    {[fd \in {1, 2, 17} |-> IF fd = 17 THEN <<<<5>>>> ELSE <<>>],
     [fd \in {1, 17} |-> IF fd = 17 THEN <<<<>>, <<5>>>> ELSE <<<<6>>>>],
     [fd \in {17} |-> <<<<6, 5>>, <<7>>, <<>>, <<8>>>>],
     [fd \in {17} |-> <<<<7>>, <<5, 5, 5>>, <<1>>>>]}

Gate == INSTANCE Gate WITH
    MaxConnection <- 2, HeaderSize <- 2, TooLong <- 3, Traffic <- GateTraffic

(* Two sockets in one chain; enough packages in a piece to make the ring   *)
(* grow twice.                                                             *)

NetTraffic ==
    {[fd \in {1, 3} |-> IF fd = 1 THEN <<<<>>, <<1, 2>>, <<>>, <<4>>>> ELSE <<<<0>>, <<0, 2, 1, 3>>>>],
     [fd \in {2} |-> <<<<1>>, <<>>, <<>>, <<2>>, <<>>, <<>>, <<>>>>]}

NetPack == INSTANCE NetPack WITH QUEUESIZE <- 2, HASHSIZE <- 2, Traffic <- NetTraffic

Buffer == INSTANCE SocketBuffer WITH
    LARGE_PAGE_NODE <- 4, FirstPage <- 1, MaxIn <- 6,
    Blocks <- {<<1>>, <<2>>, <<1, 2>>, <<2, 1, 1>>}, Seps <- {<<1>>, <<1, 2>>, <<1, 1, 2>>}

-----------------------------------------------------------------------------
(* Values at the boundaries of one, two and four bytes, of the cookie and  *)
(* of the block; tables with holes and with each border they may have; too *)
(* many tables in each other.                                              *)

I(n) == <<"int", n>>
S(n) == <<"str", n>>
Str(n) == S([i \in 1 .. n |-> i % 3])
Tbl(n, kvs) == <<"table", n, kvs>>
Arr(n) == [i \in 1 .. n |-> <<I(i), I(i * i)>>]
Nest(v) == Tbl(1, <<<<I(1), v>>>>)
Scalars ==
    {<<"nil">>, <<"bool", TRUE>>, <<"bool", FALSE>>, <<"real", 7>>, <<"ptr", 9>>}
    \cup {I(n) : n \in {0, 1, 3, 4, 5, 15, 16, 17, 127, 128, 255, 256, 32767, -1, -128, -129, -32768}}
    \cup {Str(n) : n \in {0, 1, 4, 5, 6, 15, 16, 17}}
Holed ==
    {Tbl(n, <<<<I(2), <<"bool", FALSE>>>>, <<Str(1), I(-3)>>>>) : n \in {0, 2}}
    \cup {Tbl(n, <<<<I(1), I(9)>>, <<I(3), I(8)>>, <<I(k), Str(2)>>, <<<<"real", 1>>, I(1)>>>>) :
             n \in {1, 3}, k \in {0, -1}}
Nested ==
    {Tbl(1, <<<<I(1), Tbl(2, Arr(2))>>, <<Str(2), Tbl(0, <<>>)>>>>),
     Nest(Nest(Tbl(0, <<>>))), Nest(Nest(Tbl(1, Arr(1)))), Nest(<<"function">>)}
LuaTables == {Tbl(n, Arr(n)) : n \in {0, 3, 4, 5, 17}} \cup Holed \cup Nested
Args ==
    {<<v>> : v \in Scalars \cup LuaTables} \cup {<<>>}
    \cup {<<u, v>> : u \in {I(4), <<"nil">>, Str(3)}, v \in LuaTables}

Seri == INSTANCE Seri WITH
    Byte <- 4, BLOCK_SIZE <- 3, MAX_COOKIE <- 5, MAX_DEPTH <- 2, Args <- Args

-----------------------------------------------------------------------------
(* Tables with and without an array part, and all ways their keys collide. *)

KV(ks) == [i \in DOMAIN ks |-> <<ks[i], i + 10>>]
ConfTables ==
    {[n |-> 0, kvs |-> <<>>],
     [n |-> 2, kvs |-> KV(<<I(1), I(2)>>)],
     [n |-> 3, kvs |-> KV(<<I(1), I(3), I(-1), I(5)>>)],
     [n |-> 1, kvs |-> KV(<<I(1), I(3), S("a"), S("b")>>)],
     [n |-> 0, kvs |-> KV(<<S("c"), I(2), I(4), S("b"), S("a")>>)],
     [n |-> 0, kvs |-> KV(<<S("c"), S("d"), S("b"), S("a"), I(0), I(5)>>)]}

ShareData == INSTANCE ShareData WITH
    Tables <- ConfTables, Strings <- {"a", "b", "c", "d"}, MaxHash <- 3

ShareConf == INSTANCE ShareConf WITH MaxObj <- 3

-----------------------------------------------------------------------------
(* A subscriber on the node of the channel and two on the other node.      *)

Multicast == INSTANCE Multicast WITH Services <- {11, 21, 22}, MaxCalls <- 4, MaxPub <- 2

(* Two requests, a coroutine more, and any four things they do. *)

Runtime == INSTANCE LuaRuntime WITH
    MaxCo <- 3, MaxReq <- 2, MaxOps <- 4,
    Ops <- {"call", "timeout", "sleep", "wait", "wakeup", "fork", "ret", "response", "respond",
            "exit", "fail", "lock"}

-----------------------------------------------------------------------------
(* A bundle of five types and five protocols, encoded by the schema of     *)
(* schemas.  Type 1 has every kind of field, gaps in its tags, an array of *)
(* its own type and one with a main key; type 3 is another version of it.  *)

Codec == INSTANCE Sproto WITH
    Byte <- 8, ENCODE_BUFFERSIZE <- 16, ENCODE_MAXSIZE <- 256, ENCODE_DEEPLEVEL <- 3,
    MaxFF <- 3, Junk <- {0, 5}, Cases <- {}

Field(name, tag, type, st, array, key) ==
    [name |-> name, tag |-> tag, type |-> type, st |-> st, array |-> array, key |-> key]
Integer(name, tag) == Field(name, tag, Codec!TINTEGER, 0, FALSE, -1)
Boolean(name, tag) == Field(name, tag, Codec!TBOOLEAN, 0, FALSE, -1)
String(name, tag) == Field(name, tag, Codec!TSTRING, 0, FALSE, -1)
Struct(name, tag, st) == Field(name, tag, Codec!TSTRUCT, st, FALSE, -1)
ArrayOf(f) == [f EXCEPT !.array = TRUE]
MapOf(f, key) == [f EXCEPT !.array = TRUE, !.key = key]

MetaType(f) == [name |-> <<>>, n |-> Len(f), base |-> 0, maxn |-> Len(f), f |-> f]
Meta ==
    [type |-> <<MetaType(<<ArrayOf(Struct(<<0>>, 0, 2)), ArrayOf(Struct(<<1>>, 1, 4))>>),
                MetaType(<<String(<<0>>, 0), ArrayOf(Struct(<<1>>, 1, 3))>>),
                MetaType(<<String(<<0>>, 0), Integer(<<1>>, 1), Integer(<<2>>, 2), Integer(<<3>>, 3),
                           Boolean(<<4>>, 4), Integer(<<5>>, 5)>>),
                MetaType(<<String(<<0>>, 0), Integer(<<1>>, 1), Integer(<<2>>, 2), Integer(<<3>>, 3)>>)>>,
     proto |-> <<>>]

If(c, t) == IF c THEN t ELSE Codec!NoTable
FieldTable(f) ==
    (<<0>> :> f.name) @@ (<<3>> :> f.tag)
    @@ (IF f.type = Codec!TSTRUCT THEN <<2>> :> f.st - 1 ELSE <<1>> :> f.type)
    @@ If(f.array, <<4>> :> TRUE) @@ If(f.key >= 0, <<5>> :> f.key)
TypeTable(t) == (<<0>> :> t[1]) @@ (<<1>> :> [i \in DOMAIN t[2] |-> FieldTable(t[2][i])])
ProtoTable(p) ==
    (<<0>> :> p[1]) @@ (<<1>> :> p[2]) @@ If(p[3] > 0, <<2>> :> p[3] - 1) @@ If(p[4] > 0, <<3>> :> p[4] - 1)
Bundle(types, protos) ==
    Codec!sproto_encode(Meta, Meta.type[1],
        (<<0>> :> [i \in DOMAIN types |-> TypeTable(types[i])])
        @@ (<<1>> :> [i \in DOMAIN protos |-> ProtoTable(protos[i])]), 4000, -10).d

Group ==
    Bundle(<<<<<<1, 1>>, <<String(<<1>>, 0), Integer(<<2>>, 1), ArrayOf(Integer(<<3>>, 3)), Boolean(<<4>>, 4),
                           ArrayOf(Boolean(<<5>>, 5)), ArrayOf(Struct(<<6>>, 9, 1)), MapOf(Struct(<<7>>, 12, 2), 1),
                           ArrayOf(String(<<1, 2>>, 13))>>>>,
             <<<<2>>, <<Integer(<<1>>, 1), String(<<2>>, 2), Struct(<<3>>, 3, 1)>>>>,
             <<<<3>>, <<Integer(<<5>>, 1), Boolean(<<1>>, 4), MapOf(Struct(<<6>>, 12, 4), 1)>>>>,
             <<<<4>>, <<Integer(<<1>>, 1)>>>>,
             <<<<5>>, [i \in 1 .. 9 |-> Integer(<<i \div 8, i % 8>>, i - 1)]>>>>,
           <<<<<<1>>, 1, 1, 0>>, <<<<2>>, 2, 0, 3>>, <<<<3>>, 5, 2, 3>>, <<<<4>>, 7, 0, 0>>, <<<<5>>, 9, 1, 2>>>>)

Item(k) == (<<1>> :> k) @@ (<<2>> :> [i \in 1 .. k % 7 |-> 1])
SentTables ==
    {<<2>> :> v : v \in {0, 1, 30, 31, 32, 2047, 2048, 5000, -1, -31, -2048, -2049}}
    \cup {(<<3>> :> a) @@ (<<4>> :> TRUE) :
             a \in {<<i, j>> : i \in {1, -1, -2048}, j \in {5, 5000, -5000, -3}} \cup {<<>>, <<1, 5000, -1, -2049>>}}
    \cup {(<<1>> :> s) @@ (<<5>> :> b) :
             s \in {<<>>, <<1>>, <<0, 0, 1, 2, 3, 4, 5, 6>>, [i \in 1 .. 23 |-> 7]},
             b \in {<<>>, <<TRUE>>, <<FALSE, TRUE>>}}
    \cup {Codec!NoTable, <<6>> :> <<Codec!NoTable, <<2>> :> 3>>, (<<4>> :> FALSE) @@ (<<7>> :> <<Item(40), Item(3)>>),
          <<7>> :> <<Item(3), (<<1>> :> 9) @@ (<<3>> :> (<<2>> :> 3))>>}
Strings == <<1, 2>> :> <<<<1>>, <<>>, <<0, 1>>>>
Deep == <<6>> :> <<<<6>> :> <<<<6>> :> <<<<2>> :> 1>>>>>>
Wide == <<1>> :> [i \in 1 .. 300 |-> 1]

Case(send, recv, t) == [group |-> Group, send |-> send, recv |-> recv, table |-> t, fails |-> FALSE]
Fails(c) == [c EXCEPT !.fails = TRUE]
SprotoCases ==
    {Case(1, r, t) : r \in {1, 3}, t \in SentTables}
    \cup {Case(1, 1, Strings), Fails(Case(1, 1, Deep)), Fails(Case(1, 1, Wide)),
          Case(3, 1, (<<5>> :> 33) @@ (<<1>> :> TRUE) @@ (<<6>> :> <<<<1>> :> 5>>)),
          Case(2, 2, Item(4)), Case(2, 4, Item(12)), Case(4, 2, <<1>> :> 99999),
          Case(5, 5, [n \in {<<i \div 8, i % 8>> : i \in 1 .. 9} |-> 8])}

Sproto == INSTANCE Sproto WITH
    Byte <- 8, ENCODE_BUFFERSIZE <- 16, ENCODE_MAXSIZE <- 256, ENCODE_DEEPLEVEL <- 3,
    MaxFF <- 3, Junk <- {0, 5}, Cases <- SprotoCases

-----------------------------------------------------------------------------
Init ==
    /\ part \in Parts
    /\ IF part = "gate" THEN Gate!Init ELSE g = Off /\ peer = Off
    /\ IF part = "netpack" THEN NetPack!Init ELSE q = Off /\ feed = Off
    /\ IF part = "buffer" THEN Buffer!Init ELSE sb = Off /\ pool = Off /\ io = Off
    /\ IF part = "seri" THEN Seri!Init ELSE seri = Off
    /\ IF part = "sproto" THEN Sproto!Init ELSE sproto = Off
    /\ IF part = "sharedata" THEN ShareData!Init ELSE conf = Off
    /\ IF part = "shareconf" THEN ShareConf!Init ELSE host = Off /\ obj = Off /\ cl = Off
    /\ IF part = "multicast" THEN Multicast!Init ELSE mcd = Off /\ svc = Off /\ pkg = Off /\ mc = Off
    /\ IF part = "runtime" THEN Runtime!Init ELSE rt = Off /\ co = Off /\ req = Off

(* The variables of each part. *)
gate      == <<g, peer>>
netpack   == <<q, feed>>
buffer    == <<sb, pool, io>>
shareconf == <<host, obj, cl>>
multicast == <<mcd, svc, pkg, mc>>
runtime   == <<rt, co, req>>

GateStep ==
    /\ part = "gate" /\ Gate!Next
    /\ UNCHANGED <<part, netpack, buffer, seri, sproto, conf, shareconf, multicast, runtime>>
NetPackStep ==
    /\ part = "netpack" /\ NetPack!Next
    /\ UNCHANGED <<part, gate, buffer, seri, sproto, conf, shareconf, multicast, runtime>>
BufferStep ==
    /\ part = "buffer" /\ Buffer!Next
    /\ UNCHANGED <<part, gate, netpack, seri, sproto, conf, shareconf, multicast, runtime>>
SeriStep ==
    /\ part = "seri" /\ Seri!Next
    /\ UNCHANGED <<part, gate, netpack, buffer, sproto, conf, shareconf, multicast, runtime>>
SprotoStep ==
    /\ part = "sproto" /\ Sproto!Next
    /\ UNCHANGED <<part, gate, netpack, buffer, seri, conf, shareconf, multicast, runtime>>
ShareDataStep ==
    /\ part = "sharedata" /\ ShareData!Next
    /\ UNCHANGED <<part, gate, netpack, buffer, seri, sproto, shareconf, multicast, runtime>>
ShareConfStep ==
    /\ part = "shareconf" /\ ShareConf!Next
    /\ UNCHANGED <<part, gate, netpack, buffer, seri, sproto, conf, multicast, runtime>>
MulticastStep ==
    /\ part = "multicast" /\ Multicast!Next
    /\ UNCHANGED <<part, gate, netpack, buffer, seri, sproto, conf, shareconf, runtime>>
RuntimeStep ==
    /\ part = "runtime" /\ Runtime!Next
    /\ UNCHANGED <<part, gate, netpack, buffer, seri, sproto, conf, shareconf, multicast>>

Next == GateStep \/ NetPackStep \/ BufferStep \/ SeriStep \/ SprotoStep \/ ShareDataStep \/ ShareConfStep
          \/ MulticastStep \/ RuntimeStep

Spec == Init /\ [][Next]_vars

-----------------------------------------------------------------------------
\* The gate forwards the packages of each connection (service_gate.c, dispatch_message).
GateForwards == part = "gate" => Gate!GateForwards

\* The hash table of the gate finds its connections (hashid.h).
GateFinds == part = "gate" => Gate!GateFinds

\* netpack returns the packages of each socket (lua-netpack.c, filter_data_ and lpop).
NetPackReturns == part = "netpack" => NetPack!NetPackReturns

\* The socket buffer returns what was pushed (lua-socket.c, lpushbuffer to lreadline).
BufferReads == part = "buffer" => Buffer!BufferReads

\* unpack returns what was packed (lua-seri.c).
SeriReturns == part = "seri" => Seri!SeriReturns

\* decode returns what was encoded (sproto.c, lsproto.c).
SprotoReturns == part = "sproto" => Sproto!SprotoReturns

\* The buffer of lpack suffices (lsproto.c:458).
PackFits == part = "sproto" => Sproto!PackFits

\* A shared table returns what it was made of (lua-sharedata.cpp, convtable and lindexconf).
ConfReturns == part = "sharedata" => ShareData!ConfReturns

\* A shared table is alive while it is held (lua-sharedata.cpp, lincref to releaseobj).
ConfAlive == part = "shareconf" => ShareConf!ConfAlive

\* The holders of a shared table follow its updates (sharedatad.lua, CMD.update).
ConfFollows == part = "shareconf" => ShareConf!ConfFollows

\* A package lives until its last reader (lua-multicast.cpp; multicastd.lua, publish).
PackageAlive == part = "multicast" => Multicast!PackageAlive

\* A node with subscribers is subscribed (multicastd.lua, SUB and USUB).
NodeIsSubscribed == part = "multicast" => Multicast!NodeIsSubscribed

\* A response resumes the coroutine that waits for it (skynet.lua, raw_dispatch_message).
ResumedOnce == part = "runtime" => Runtime!ResumedOnce

\* A caller is answered once, and told of failures (skynet.lua, suspend and exit).
CallerIsTold == part = "runtime" => Runtime!CallerIsTold

\* The hand-over of a critical section is not lost (queue.lua).
QueueHandsOver == part = "runtime" => Runtime!QueueHandsOver
=============================================================================
