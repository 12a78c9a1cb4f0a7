-------------------------------- MODULE Seri --------------------------------
(***************************************************************************)
(* lua-seri: Lua values packed into a stream of bytes through a list of    *)
(* blocks, and unpacked from it.  A value is <<type, ...>>; a table is     *)
(* <<"table", n, kvs>>: n a border (what lua_rawlen may return) and kvs    *)
(* its pairs in the order of lua_next.  An unpacked table is               *)
(* <<"table", pairs>>.  The byte that holds a type and a cookie is one     *)
(* cell, whatever Byte is.                                                 *)
(***************************************************************************)
EXTENDS ByteOrder

CONSTANTS
    BLOCK_SIZE,     \* more than 0
    MAX_COOKIE,     \* more than 4
    MAX_DEPTH,
    Args            \* bound: the argument lists of pack

VARIABLES
    seri            \* args; wire, the stream; cut, the bytes read; out, what unpack returned

-----------------------------------------------------------------------------
TYPE_NIL == 0
TYPE_BOOLEAN == 1
TYPE_NUMBER == 2
TYPE_USERDATA == 3
TYPE_SHORT_STRING == 4
TYPE_LONG_STRING == 5
TYPE_TABLE == 6
NUMBER_ZERO == 0
NUMBER_BYTE == 1
NUMBER_WORD == 2
NUMBER_DWORD == 4
NUMBER_QWORD == 6
NUMBER_REAL == 8
COMBINE_TYPE(t, v) == t + 8 * v

\* wb_init; a write block is its blocks, the last one current, and len.
wb_init == [blocks |-> << <<>> >>, len |-> 0, error |-> FALSE]

RECURSIVE wb_push(_, _)
wb_push(wb, buf) ==
    LET blocks == IF Len(Last(wb.blocks)) = BLOCK_SIZE THEN Append(wb.blocks, <<>>) ELSE wb.blocks
        room == BLOCK_SIZE - Len(Last(blocks))
        copy == IF Len(buf) <= room THEN Len(buf) ELSE room
        next == [wb EXCEPT !.blocks = [blocks EXCEPT ![Len(blocks)] = @ \o SubSeq(buf, 1, copy)],
                           !.len = @ + copy]
    IN  IF copy = Len(buf) THEN next ELSE wb_push(next, Drop(buf, copy))

Typed(wb, t, v, buf) == wb_push(wb_push(wb, <<COMBINE_TYPE(t, v)>>), buf)

wb_nil(wb) == wb_push(wb, <<TYPE_NIL>>)
wb_boolean(wb, b) == wb_push(wb, <<COMBINE_TYPE(TYPE_BOOLEAN, IF b THEN 1 ELSE 0)>>)

\* v < 0x100, v < 0x10000.  Mutant: one too many.
FitsOneMore(v, w) == v <= Byte^w
Fits(v, w) == v < Byte^w

wb_integer(wb, v) ==
    LET int32 == IsInt(v, 4)
    IN  CASE v = 0 -> wb_push(wb, <<COMBINE_TYPE(TYPE_NUMBER, NUMBER_ZERO)>>)
          [] ~int32 -> Typed(wb, TYPE_NUMBER, NUMBER_QWORD, Bytes(v, 8))
          [] int32 /\ v > 0 /\ Fits(v, 1) -> Typed(wb, TYPE_NUMBER, NUMBER_BYTE, Bytes(v, 1))
          [] int32 /\ v > 0 /\ ~Fits(v, 1) /\ Fits(v, 2) -> Typed(wb, TYPE_NUMBER, NUMBER_WORD, Bytes(v, 2))
          [] OTHER -> Typed(wb, TYPE_NUMBER, NUMBER_DWORD, Bytes(v, 4))

wb_real(wb, v) == Typed(wb, TYPE_NUMBER, NUMBER_REAL, Bytes(v, 8))
wb_pointer(wb, v) == Typed(wb, TYPE_USERDATA, 0, Bytes(v, 8))

wb_string(wb, str) ==
    LET len == Len(str)
        w == IF Fits(len, 2) THEN 2 ELSE 4
    IN  IF len < MAX_COOKIE THEN Typed(wb, TYPE_SHORT_STRING, len, str)
        ELSE wb_push(Typed(wb, TYPE_LONG_STRING, w, Bytes(len, w)), str)

\* t[i] of a Lua table, nil where it has no pair
Get(kvs, k) == LET S == {j \in DOMAIN kvs : kvs[j][1] = k}
               IN  IF S = {} THEN <<"nil">> ELSE kvs[CHOOSE j \in S : TRUE][2]
InArray(k, n) == k[1] = "int" /\ k[2] > 0 /\ k[2] <= n

wb_table_header(wb, n) ==
    IF n >= MAX_COOKIE - 1
    THEN wb_integer(wb_push(wb, <<COMBINE_TYPE(TYPE_TABLE, MAX_COOKIE - 1)>>), n)
    ELSE wb_push(wb, <<COMBINE_TYPE(TYPE_TABLE, n)>>)

\* The values wb_table_array packs (t[1..n], holes included) and then wb_table_hash.
ArrayPart(n, kvs) == [i \in 1..n |-> Get(kvs, <<"int", i>>)]
HashPart(n, kvs) == LET rest == SelectSeq(kvs, LAMBDA kv : ~InArray(kv[1], n))
                    IN  FlattenSeq(rest)

\* pack_one; an error leaves the stream as it is (wb_free, luaL_error).
RECURSIVE pack_one(_, _, _), pack_from(_, _, _)
pack_one(wb, v, depth) ==
    CASE wb.error -> wb
      [] ~wb.error /\ (depth > MAX_DEPTH \/ v[1] = "function") -> [wb EXCEPT !.error = TRUE]
      [] OTHER ->
           CASE v[1] = "nil" -> wb_nil(wb)
             [] v[1] = "int" -> wb_integer(wb, v[2])
             [] v[1] = "real" -> wb_real(wb, v[2])
             [] v[1] = "bool" -> wb_boolean(wb, v[2])
             [] v[1] = "str" -> wb_string(wb, v[2])
             [] v[1] = "ptr" -> wb_pointer(wb, v[2])
             [] v[1] = "table" ->
                  wb_nil(pack_from(wb_table_header(wb, v[2]),
                                   ArrayPart(v[2], v[3]) \o HashPart(v[2], v[3]), depth + 1))
pack_from(wb, vs, depth) ==
    IF vs = <<>> THEN wb ELSE pack_from(pack_one(wb, Head(vs), depth), Tail(vs), depth)

\* seri: the stream of len bytes out of the blocks
RECURSIVE Stream(_, _)
Stream(blocks, len) ==
    IF len >= BLOCK_SIZE THEN Head(blocks) \o Stream(Tail(blocks), len - BLOCK_SIZE)
    ELSE IF len > 0 THEN SubSeq(Head(blocks), 1, len) ELSE <<>>

_luaseri_pack(args) ==
    LET wb == pack_from(wb_init, args, 0)
    IN  [ok |-> ~wb.error, v |-> IF wb.error THEN <<>> ELSE Stream(wb.blocks, wb.len)]

-----------------------------------------------------------------------------
\* A reader returns the value v and the rest of the stream; an invalid stream is
\* the error of invalid_stream_line.
Invalid == [ok |-> FALSE, v |-> <<>>, rest |-> <<>>]
Read(v, rest) == [ok |-> TRUE, v |-> v, rest |-> rest]

\* n bytes, which the readers make into a value
rb_read(rb, n) == IF Len(rb) < n THEN Invalid ELSE Read(SubSeq(rb, 1, n), Drop(rb, n))
Unsigned(type, r) == [r EXCEPT !.v = <<type, Number(@)>>]
SignedInt(r) == [r EXCEPT !.v = <<"int", Signed(@)>>]

get_integer(rb, cookie) ==
    CASE cookie = NUMBER_ZERO -> Read(<<"int", 0>>, rb)
      [] cookie = NUMBER_BYTE -> Unsigned("int", rb_read(rb, 1))
      [] cookie = NUMBER_WORD -> Unsigned("int", rb_read(rb, 2))
      [] cookie = NUMBER_DWORD -> SignedInt(rb_read(rb, 4))
      [] cookie = NUMBER_QWORD -> SignedInt(rb_read(rb, 8))
      [] OTHER -> Invalid
get_real(rb) == Unsigned("real", rb_read(rb, 8))
get_pointer(rb) == Unsigned("ptr", rb_read(rb, 8))
get_buffer(rb, len) == [rb_read(rb, len) EXCEPT !.v = <<"str", @>>]

Long(rb, w) == LET n == rb_read(rb, w)
               IN  IF n.ok THEN get_buffer(n.rest, Number(n.v)) ELSE Invalid

\* The array size, out of the cookie or of the integer that follows
ArraySize(rb, cookie) ==
    CASE cookie # MAX_COOKIE - 1 -> Read(<<"int", cookie>>, rb)
      [] cookie = MAX_COOKIE - 1 /\ rb # <<>> /\ Head(rb) % 8 = TYPE_NUMBER -> get_integer(Tail(rb), Head(rb) \div 8)
      [] OTHER -> Invalid

\* lua_rawset and lua_rawseti on the pairs of a table
rawset(pairs, k, v) ==
    {p \in pairs : p[1] # k} \cup (IF v = <<"nil">> THEN {} ELSE {<<k, v>>})

RECURSIVE unpack_one(_), unpack_array(_, _, _, _), unpack_hash(_, _)
unpack_array(rb, i, n, pairs) ==
    IF i > n THEN unpack_hash(rb, pairs)
    ELSE LET r == unpack_one(rb)
         IN  IF r.ok THEN unpack_array(r.rest, i + 1, n, rawset(pairs, <<"int", i>>, r.v)) ELSE Invalid
unpack_hash(rb, pairs) ==
    LET k == unpack_one(rb)
        v == unpack_one(k.rest)
    IN  CASE k.ok /\ k.v = <<"nil">> -> Read(<<"table", pairs>>, k.rest)
          [] k.ok /\ k.v # <<"nil">> /\ v.ok -> unpack_hash(v.rest, rawset(pairs, k.v, v.v))
          [] OTHER -> Invalid

\* unpack_one: the type byte, then push_value
unpack_one(rb0) ==
    IF rb0 = <<>> THEN Invalid ELSE
    LET t == Head(rb0) % 8  cookie == Head(rb0) \div 8  rb == Tail(rb0)
        n == ArraySize(rb, cookie)
    IN  CASE t = TYPE_NIL -> Read(<<"nil">>, rb)
          [] t = TYPE_BOOLEAN -> Read(<<"bool", cookie # 0>>, rb)
          [] t = TYPE_NUMBER -> IF cookie = NUMBER_REAL THEN get_real(rb) ELSE get_integer(rb, cookie)
          [] t = TYPE_USERDATA -> get_pointer(rb)
          [] t = TYPE_SHORT_STRING -> get_buffer(rb, cookie)
          [] t = TYPE_LONG_STRING -> IF cookie \in {2, 4} THEN Long(rb, cookie) ELSE Invalid
          [] t = TYPE_TABLE -> IF n.ok THEN unpack_array(n.rest, 1, n.v[2], {}) ELSE Invalid
          [] OTHER -> Invalid

\* _luaseri_unpack: values to the end of the stream, or an error.
RECURSIVE UnpackAll(_, _)
UnpackAll(rb, vs) ==
    IF rb = <<>> THEN [ok |-> TRUE, v |-> vs]
    ELSE LET r == unpack_one(rb)
         IN  IF r.ok THEN UnpackAll(r.rest, Append(vs, r.v)) ELSE [ok |-> FALSE, v |-> <<>>]
_luaseri_unpack(rb) == UnpackAll(rb, <<>>)

-----------------------------------------------------------------------------
Init == \E args \in Args : seri = [args |-> args, step |-> "pack", wire |-> <<>>, cut |-> 0,
                                  out |-> [ok |-> TRUE, v |-> <<>>]]

Pack ==
    /\ seri.step = "pack"
    /\ \E w \in {_luaseri_pack(seri.args)} :
         seri' = [seri EXCEPT !.wire = w.v, !.step = IF w.ok THEN "unpack" ELSE "failed"]

\* The receiver unpacks the first n bytes of the stream (a message of another size).
Unpack ==
    /\ seri.step = "unpack"
    /\ \E n \in 0..Len(seri.wire) :
         seri' = [seri EXCEPT !.cut = n, !.out = _luaseri_unpack(SubSeq(seri.wire, 1, n)), !.step = "done"]

Next == Pack \/ Unpack

-----------------------------------------------------------------------------
\* A table as the set of its pairs
RECURSIVE Normal(_)
Normal(v) == IF v[1] # "table" THEN v
             ELSE <<"table", {<<Normal(v[3][i][1]), Normal(v[3][i][2])>> : i \in DOMAIN v[3]}>>
RECURSIVE Packs(_, _)
Packs(v, tables) ==
    /\ tables <= MAX_DEPTH /\ v[1] # "function"
    /\ v[1] = "table" => \A i \in DOMAIN v[3] : \A x \in ToSet(v[3][i]) : Packs(x, tables + 1)

\* unpack returns what was packed (tables with holes, at every border lua_rawlen
\* may choose, included); of a stream that was cut it returns an error or the first
\* values, never others; pack fails exactly for a value in too many tables or a function.
SeriReturns ==
    LET sent == [i \in DOMAIN seri.args |-> Normal(seri.args[i])] IN
    /\ seri.step = "done" => \/ seri.out.ok /\ seri.out.v = sent
                             \/ /\ seri.cut < Len(seri.wire)
                                /\ ~seri.out.ok \/ IsPrefix(seri.out.v, sent)
    /\ seri.step # "pack" =>
         (seri.step = "failed") = (\E i \in DOMAIN seri.args : ~Packs(seri.args[i], 0))
=============================================================================
