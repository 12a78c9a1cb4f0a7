------------------------------- MODULE Sproto -------------------------------
(***************************************************************************)
(* sproto: a schema is loaded from a bundle (itself a sproto message), a   *)
(* table is encoded by one of its types into a buffer that grows until it  *)
(* fits, packed, unpacked and decoded, by the same type or by another      *)
(* version of it.  A table is a function on the names of its fields; an    *)
(* array with a main key is written in the order of lua_next and read as a *)
(* function on the keys.  A result has an outcome r: "ok", "short" (the -1 *)
(* of a buffer or a stream too short) or "error" (luaL_error).             *)
(***************************************************************************)
EXTENDS ByteOrder, FiniteSets, TLC

CONSTANTS
    ENCODE_BUFFERSIZE, ENCODE_MAXSIZE, ENCODE_DEEPLEVEL,
    MaxFF,          \* 256, the segments of one run of 0xff
    Junk,           \* bound: what a byte outside of a buffer may hold
    Cases           \* bound: [group, send, recv, table, proto]: a bundle, the types of both sides, a table

VARIABLES
    sproto          \* case, step, sp (the schema), size (of the buffer), wire, out

SIZEOF_LENGTH == 4
SIZEOF_HEADER == 2
SIZEOF_FIELD == 2
TINTEGER == 0
TBOOLEAN == 1
TSTRING == 2
TSTRUCT == 3

Ok(d) == [r |-> "ok", d |-> d]
Short == [r |-> "short", d |-> <<>>]
Error == [r |-> "error", d |-> <<>>]
\* An outcome that is not ok ends the caller too.
Then(r, Next_(_)) == IF r.r = "ok" THEN Next_(r.d) ELSE r
All(rs) == IF \A i \in DOMAIN rs : rs[i].r = "ok" THEN Ok([i \in DOMAIN rs |-> rs[i].d]) ELSE Short

toword(s, i) == Number(SubSeq(s, i + 1, i + 2))
todword(s) == Number(SubSeq(s, 1, SIZEOF_LENGTH))
fill_size(data) == Bytes(Len(data), SIZEOF_LENGTH) \o data
\* The words of a message after its count, and what comes after them; the first
\* data of a stream, without its length, and what comes after it
Words(s) == [i \in 1..toword(s, 0) |-> toword(s, SIZEOF_FIELD * i)]
After(s) == Drop(s, SIZEOF_HEADER + SIZEOF_FIELD * toword(s, 0))
Data(s) == SubSeq(s, SIZEOF_LENGTH + 1, SIZEOF_LENGTH + todword(s))
Behind(s) == Drop(s, SIZEOF_LENGTH + todword(s))
HasData(s) == Len(s) >= SIZEOF_LENGTH /\ Len(s) >= SIZEOF_LENGTH + todword(s)

-----------------------------------------------------------------------------
(* The schema.  A type is [name, n, base, maxn, f]. *)

\* count_array: the elements of an array, without their lengths
RECURSIVE Elements(_)
Elements(s) ==
    IF s = <<>> THEN Ok(<<>>)
    ELSE IF ~HasData(s) THEN Short
    ELSE Then(Elements(Behind(s)), LAMBDA rest : Ok(<<Data(s)>> \o rest))
count_array(s) == Elements(Data(s))

\* struct_field: the message is complete.  The code looks at the word after the
\* one it means (line 155), so the last data is not looked at.
RECURSIVE DataFits(_, _)
DataFits(values, data) ==
    CASE values = <<>> -> TRUE
      [] values # <<>> /\ Head(values) # 0 -> DataFits(Tail(values), data)
      [] OTHER -> HasData(data) /\ DataFits(Tail(values), Behind(data))
struct_field(s) ==
    /\ Len(s) >= SIZEOF_LENGTH
    /\ Len(s) >= SIZEOF_HEADER + SIZEOF_FIELD * toword(s, 0)
    /\ DataFits([i \in 1..toword(s, 0) |-> toword(s, SIZEOF_FIELD * (i + 1))], After(s))

\* The values by tag: an odd word skips tags.
RECURSIVE Tagged(_, _)
Tagged(words, tag) ==
    IF words = <<>> THEN <<>>
    ELSE IF Head(words) % 2 = 1 THEN Tagged(Tail(words), tag + 1 + Head(words) \div 2)
    ELSE << <<tag, Head(words)>> >> \o Tagged(Tail(words), tag + 1)
ValueOf(tagged, tag) ==
    LET S == {i \in DOMAIN tagged : tagged[i][1] = tag}
    IN  IF S = {} THEN -1 ELSE tagged[CHOOSE i \in S : TRUE][2] \div 2 - 1

MakeField(type_n, s, t, has) ==
    IF /\ struct_field(s)
       /\ has \subseteq 0..5 /\ {0, 3} \subseteq has
       /\ \A i \in DOMAIN t : (t[i][2] = 0) = (t[i][1] = 0)
       /\ Cardinality(has \cap {1, 2}) = 1
       /\ ValueOf(t, 1) < TSTRUCT /\ ValueOf(t, 2) < type_n
    THEN Ok([name |-> Data(After(s)), tag |-> ValueOf(t, 3),
             type |-> IF 1 \in has THEN ValueOf(t, 1) ELSE TSTRUCT, st |-> ValueOf(t, 2) + 1,
             array |-> ValueOf(t, 4) > 0, key |-> ValueOf(t, 5)])
    ELSE Short
WithTags(type_n, s, t) == MakeField(type_n, s, t, {t[i][1] : i \in DOMAIN t})
import_field(type_n, s) == WithTags(type_n, s, Tagged(Words(s), 0))

\* The words a message of this type may need: one for a field, one for each gap of
\* the tags.  Mutant: the gap before the first field is not counted.
HeaderWordsLess(f) == Len(f) + Cardinality({i \in 2..Len(f) : f[i].tag > f[i - 1].tag + 1})
HeaderWords(f) == HeaderWordsLess(f) + (IF f[1].tag > 0 THEN 1 ELSE 0)

MakeType(name, f, n) ==
    IF \E i \in 2..n : f[i].tag < f[i - 1].tag THEN Short
    ELSE Ok([name |-> name, n |-> n, f |-> f, maxn |-> HeaderWords(f),
             base |-> IF f[n].tag - f[1].tag + 1 = n THEN f[1].tag ELSE -1])
import_type(type_n, s) ==
    CASE ~struct_field(s) \/ toword(s, 0) \notin 1..2 \/ ToSet(Words(s)) # {0} -> Short
      [] struct_field(s) /\ Words(s) = <<0>> ->
           Ok([name |-> Data(After(s)), n |-> 0, base |-> 0, maxn |-> 0, f |-> <<>>])
      [] OTHER ->
           Then(count_array(Behind(After(s))), LAMBDA items :
           Then(All([i \in DOMAIN items |-> import_field(type_n, items[i])]), LAMBDA f :
           MakeType(Data(After(s)), f, Len(f))))

\* import_protocol: the cases are by the place of a word, which an odd word takes too
import_protocol(type_n, s) ==
    LET w == Words(s)
        at(i) == IF i <= Len(w) /\ w[i] % 2 = 0 THEN w[i] \div 2 - 1 ELSE -1
    IN  IF /\ struct_field(s)
           /\ Len(w) >= 2 /\ w[1] = 0 /\ at(2) >= 0
           /\ \A i \in 3..Len(w) : w[i] % 2 = 0 => i <= 4 /\ at(i) \in 0..(type_n - 1)
        THEN Ok([name |-> Data(After(s)), tag |-> at(2), p |-> <<at(3) + 1, at(4) + 1>>])
        ELSE Short

create_from_bundle(s) ==
    IF ~struct_field(s) \/ ~(ToSet(Words(s)) \subseteq {0}) THEN Short
    ELSE Then(count_array(After(s)), LAMBDA types :
         Then(IF toword(s, 0) < 2 THEN Ok(<<>>) ELSE count_array(Behind(After(s))), LAMBDA protos :
         Then(All([i \in DOMAIN types |-> import_type(Len(types), types[i])]), LAMBDA t :
         Then(All([i \in DOMAIN protos |-> import_protocol(Len(types), protos[i])]), LAMBDA p :
         Ok([type |-> t, proto |-> p])))))

\* The binary search of query_proto and findtag: a place in s, or 0.
Upper(mid) == mid + 1
RECURSIVE Search(_, _, _, _)
Search(s, tag, begin, end) ==
    LET mid == (begin + end) \div 2 IN
    CASE begin >= end -> 0
      [] begin < end /\ s[mid + 1].tag = tag -> mid + 1
      [] begin < end /\ tag > s[mid + 1].tag -> Search(s, tag, Upper(mid), end)
      [] OTHER -> Search(s, tag, begin, mid)
query_proto(sp, tag) == Search(sp.proto, tag, 0, Len(sp.proto))
findtag(st, tag) ==
    IF st.base >= 0
    THEN IF tag - st.base \in 0..(st.n - 1) THEN tag - st.base + 1 ELSE 0
    ELSE Search(st.f, tag, 0, st.n)
\* sproto_prototag and sproto_type: the first with this name
ByName(s, name) == SelectInSeq(s, LAMBDA x : x.name = name)

-----------------------------------------------------------------------------
(* Encoding; size is what is left of the buffer. *)

\* The size encode() gives an integer, by v >> 31
IntSize(v) == IF IsInt(v, 4) THEN 4 ELSE 8
encode_integer(v, w, size) ==
    IF size < SIZEOF_LENGTH + w THEN Short ELSE Ok(fill_size(Bytes(v, w)))

uint32_to_uint64(b) == Bytes(Signed(b), 8)

\* ints are what the array holds so far, of intlen bytes each.
Widened(ints, intlen) == IF intlen = 8 THEN ints ELSE [i \in DOMAIN ints |-> uint32_to_uint64(ints[i])]
RECURSIVE IntegerArray(_, _, _, _)
IntegerArray(vs, size, intlen, ints) ==
    LET wide == IntSize(Head(vs)) = 8
        left == IF wide /\ intlen = 4 THEN size - 4 * Len(ints) ELSE size
        len == IF wide THEN 8 ELSE intlen
    IN  IF vs = <<>> THEN Ok(IF ints = <<>> THEN <<>> ELSE <<intlen>> \o FlattenSeq(ints))
        ELSE IF size < 8 \/ left < 8 THEN Short
        ELSE IntegerArray(Tail(vs), left - len, len,
                 IF wide THEN Append(Widened(ints, intlen), Bytes(Head(vs), 8))
                 ELSE Append(ints, IF intlen = 8 THEN uint32_to_uint64(Bytes(Head(vs), 4)) ELSE Bytes(Head(vs), 4)))
encode_integer_array(vs, size) == IF size < 1 THEN Short ELSE IntegerArray(vs, size - 1, 4, <<>>)

RECURSIVE sproto_encode(_, _, _, _, _), EncodeFields(_, _, _, _, _, _), ObjectArray(_, _, _, _, _, _)

\* The callback encode() for a string or a struct
encode(sp, f, v, size, deep) ==
    IF f.type = TSTRING THEN (IF Len(v) > size THEN Short ELSE Ok(v))
    ELSE sproto_encode(sp, sp.type[f.st], v, size, deep + 1)

encode_object(sp, f, v, size, deep) ==
    IF size < SIZEOF_LENGTH THEN Short
    ELSE Then(encode(sp, f, v, size - SIZEOF_LENGTH, deep), LAMBDA d : Ok(fill_size(d)))

ObjectArray(sp, f, vs, size, deep, data) ==
    IF size < SIZEOF_LENGTH THEN Short
    ELSE IF vs = <<>> THEN Ok(data)
    ELSE Then(encode_object(sp, f, Head(vs), size, deep),
              LAMBDA d : ObjectArray(sp, f, Tail(vs), size - Len(d), deep, data \o d))

encode_array(sp, f, vs, size, deep) ==
    IF size < SIZEOF_LENGTH THEN Short
    ELSE Then(CASE f.type = TINTEGER -> encode_integer_array(vs, size - SIZEOF_LENGTH)
                [] f.type = TBOOLEAN -> IF size - SIZEOF_LENGTH < Len(vs) THEN Short
                                        ELSE Ok([i \in DOMAIN vs |-> IF vs[i] THEN 1 ELSE 0])
                [] OTHER -> ObjectArray(sp, f, vs, size - SIZEOF_LENGTH, deep, <<>>),
              LAMBDA d : Ok(IF d = <<>> THEN <<>> ELSE fill_size(d)))

\* The data of a field: nothing for nil, and for a small number that its word holds
InWord(f, v) == ~f.array /\ f.type \in {TINTEGER, TBOOLEAN} /\ IsInt(v, 4) /\ v % Byte^4 < Byte^2 \div 2 - 1
EncodeField(sp, f, has, v, size, deep) ==
    CASE f.array -> encode_array(sp, f, v, size, deep)
      [] ~f.array /\ f.type \in {TSTRING, TSTRUCT} /\ has -> encode_object(sp, f, v, size, deep)
      [] ~f.array /\ f.type \in {TSTRING, TSTRUCT} /\ ~has -> IF size < SIZEOF_LENGTH THEN Short ELSE Ok(<<>>)
      [] ~f.array /\ f.type \in {TINTEGER, TBOOLEAN} /\ has /\ ~InWord(f, v) -> encode_integer(v, IntSize(v), size)
      [] OTHER -> Ok(<<>>)

\* The message so far: words; data; last, the last tag.  d is the data of field f.
AddField(m, f, has, v, d) ==
    LET gap == f.tag - m.last - 1
        skip == IF gap > 0 THEN <<2 * gap - 1>> ELSE <<>>
        word == IF d = <<>> THEN 2 * (v + 1) ELSE 0
    IN  IF d = <<>> /\ ~(has /\ InWord(f, v)) THEN Ok(m)
        ELSE IF 2 * gap - 1 >= Byte^2 THEN Short
        ELSE Ok([words |-> m.words \o skip \o <<word>>, data |-> m.data \o d, last |-> f.tag])
ToC(f, v) == IF f.type = TBOOLEAN /\ ~f.array THEN (IF v THEN 1 ELSE 0) ELSE v
Lua(f, t) == IF f.name \in DOMAIN t THEN ToC(f, t[f.name]) ELSE <<>>
EncodeFields(sp, fs, t, size, deep, m) ==
    IF fs = <<>> THEN Ok(m)
    ELSE Then(EncodeField(sp, Head(fs), Head(fs).name \in DOMAIN t, Lua(Head(fs), t), size - Len(m.data), deep),
              LAMBDA d :
         Then(AddField(m, Head(fs), Head(fs).name \in DOMAIN t, Lua(Head(fs), t), d), LAMBDA next :
         EncodeFields(sp, Tail(fs), t, size, deep, next)))

\* The words that do not fit into the maxn of the header lie over the data.
Spilled(words, maxn, data) ==
    LET over == FlattenSeq([i \in 1..(Len(words) - maxn) |-> Bytes(words[maxn + i], 2)])
    IN  [i \in DOMAIN data |-> IF i <= Len(over) THEN over[i] ELSE data[i]]

Message(st, m) ==
    Bytes(Len(m.words), 2) \o FlattenSeq([i \in DOMAIN m.words |-> Bytes(m.words[i], 2)])
        \o (IF Len(m.words) > st.maxn THEN Spilled(m.words, st.maxn, m.data) ELSE m.data)
sproto_encode(sp, st, t, size, deep) ==
    IF size < SIZEOF_HEADER + SIZEOF_FIELD * st.maxn THEN Short
    ELSE IF st.n > 0 /\ deep >= ENCODE_DEEPLEVEL THEN Error
    ELSE Then(EncodeFields(sp, st.f, t, size - SIZEOF_HEADER - SIZEOF_FIELD * st.maxn, deep,
                           [words |-> <<>>, data |-> <<>>, last |-> -1]),
              LAMBDA m : Ok(Message(st, m)))

-----------------------------------------------------------------------------
(* Decoding *)

NoTable == [x \in {} |-> x]
RECURSIVE sproto_decode(_, _, _, _), DecodeFields(_, _, _, _, _, _), DecodeObjects(_, _, _, _, _, _)

\* The callback decode() for a string or a struct, which must use all of its bytes
decode(sp, f, s, deep) ==
    IF f.type = TSTRING THEN Ok(s)
    ELSE Then(sproto_decode(sp, sp.type[f.st], s, deep + 1),
              LAMBDA m : IF m.used = Len(s) THEN Ok(m.t) ELSE Short)

\* decode_array_object; with a main key the element is set under it.
MainKey(sp, f) == LET st == sp.type[f.st] IN st.f[SelectInSeq(st.f, LAMBDA g : g.tag = f.key)].name
Under(sp, f, i, x, arr) ==
    CASE f.key < 0 -> Ok((i :> x) @@ arr)
      [] f.key >= 0 /\ MainKey(sp, f) \in DOMAIN x -> Ok((x[MainKey(sp, f)] :> x) @@ arr)
      [] OTHER -> Error
DecodeObjects(sp, f, s, deep, i, arr) ==
    IF s = <<>> THEN Ok(arr)
    ELSE IF ~HasData(s) THEN Short
    ELSE Then(decode(sp, f, Data(s), deep), LAMBDA x :
         Then(Under(sp, f, i, x, arr), LAMBDA next :
         DecodeObjects(sp, f, Behind(s), deep, i + 1, next)))

\* An integer of 4 bytes is sign extended (expand64).
decode_array(sp, f, s, deep) ==
    LET len == s[1]
    IN  CASE f.type = TINTEGER ->
               IF len \notin {4, 8} \/ (Len(s) - 1) % len # 0 THEN Short
               ELSE Ok([i \in 1..((Len(s) - 1) \div len) |-> Signed(SubSeq(s, 2 + (i - 1) * len, 1 + i * len))])
          [] f.type = TBOOLEAN -> Ok([i \in DOMAIN s |-> s[i] # 0])
          [] OTHER -> DecodeObjects(sp, f, s, deep, 1, NoTable)

\* The value of a field, out of its word or out of its data
DecodeField(sp, f, word, s, deep) ==
    LET v == word \div 2 - 1
    IN  CASE deep >= ENCODE_DEEPLEVEL -> Error
          [] word # 0 /\ (f.array \/ f.type \in {TSTRING, TSTRUCT}) -> Short
          [] word # 0 /\ ~f.array /\ f.type = TINTEGER -> Ok(v)
          [] word # 0 /\ ~f.array /\ f.type = TBOOLEAN -> Ok(v # 0)
          [] word = 0 /\ f.array -> decode_array(sp, f, s, deep)
          [] word = 0 /\ ~f.array /\ f.type = TINTEGER -> IF Len(s) \in {4, 8} THEN Ok(Signed(s)) ELSE Short
          [] word = 0 /\ ~f.array /\ f.type = TBOOLEAN -> Short
          [] OTHER -> decode(sp, f, s, deep)

DecodeFields(sp, st, tagged, data, t, deep) ==
    IF tagged = <<>> THEN Ok([t |-> t, rest |-> data])
    ELSE IF Head(tagged)[2] = 0 /\ ~HasData(data) THEN Short
    ELSE Then(IF findtag(st, Head(tagged)[1]) = 0 THEN Ok(t)
              ELSE Then(DecodeField(sp, st.f[findtag(st, Head(tagged)[1])], Head(tagged)[2], Data(data), deep),
                        LAMBDA v : Ok((st.f[findtag(st, Head(tagged)[1])].name :> v) @@ t)), LAMBDA next :
         DecodeFields(sp, st, Tail(tagged), IF Head(tagged)[2] = 0 THEN Behind(data) ELSE data, next, deep))

sproto_decode(sp, st, s, deep) ==
    IF Len(s) < SIZEOF_HEADER \/ Len(s) < SIZEOF_HEADER + SIZEOF_FIELD * toword(s, 0) THEN Short
    ELSE Then(DecodeFields(sp, st, Tagged(Words(s), 0), After(s), NoTable, deep),
              LAMBDA m : Ok([t |-> m.t, used |-> Len(s) - Len(m.rest)]))

-----------------------------------------------------------------------------
(* Packing: 8 bytes become a byte that tells the ones that are not zero, and *)
(* these; segments without zeros are a run: 0xff, their number and they.     *)

FF == 255
Segment(s, i) == [j \in 1..8 |-> IF i + j <= Len(s) THEN s[i + j] ELSE 0]
NotZero(seg) == SelectSeq(seg, LAMBDA b : b # 0)
Bits(seg) == FoldRight(LAMBDA b, n : 2 * n + (IF b # 0 THEN 1 ELSE 0), seg, 0)

\* write_ff, of n segments from byte i: what lies behind the end is given by pad.
write_ff(s, i, n, pad) ==
    <<FF, n - 1>> \o [j \in 1..(8 * n) |-> IF i + j <= Len(s) THEN s[i + j] ELSE pad]

\* The run of n segments from byte start that is pending at byte i.  A run that is
\* full is copied as a whole, with what lies behind the end of s.
RECURSIVE PackFrom(_, _, _, _, _)
PackFrom(s, i, start, n, junk) ==
    LET seg == Segment(s, i)
        full == Len(NotZero(seg)) >= (IF n > 0 THEN 6 ELSE 8)
        ended == IF n > 0 THEN write_ff(s, start, n, 0) ELSE <<>>
    IN  CASE i >= Len(s) -> ended
          [] i < Len(s) /\ full /\ n = 0 -> PackFrom(s, i + 8, i, 1, junk)
          [] i < Len(s) /\ full /\ n > 0 /\ n + 1 < MaxFF -> PackFrom(s, i + 8, start, n + 1, junk)
          [] i < Len(s) /\ full /\ n > 0 /\ n + 1 >= MaxFF ->
               write_ff(s, start, MaxFF, junk) \o PackFrom(s, i + 8, 0, 0, junk)
          [] OTHER -> ended \o <<Bits(seg)>> \o NotZero(seg) \o PackFrom(s, i + 8, 0, 0, junk)
sproto_pack(s, junk) == PackFrom(s, 0, 0, 0, junk)

\* The buffer lpack provides
maxsz(sz) == ((sz + 8 * MaxFF - 1) \div (8 * MaxFF)) * 2 + sz
lpack(s, junk) == LET p == sproto_pack(s, junk) IN IF Len(p) > maxsz(Len(s)) THEN Error ELSE Ok(p)

\* The byte j of a segment is not zero (j from 0); the bytes of s that are read are at
\* most one more than it has.
Bit(header, j) == (header \div 2^j) % 2 = 1
Ones(header, j) == Cardinality({k \in 0..(j - 1) : Bit(header, k)})
RECURSIVE sproto_unpack(_, _)
sproto_unpack(s, junk) ==
    LET run == s # <<>> /\ Head(s) = FF
        n == IF ~run THEN Ones(Head(s), 8)
             ELSE IF Len(s) > 1 THEN 8 * (s[2] + 1) + 1 ELSE 1
        body == IF run THEN SubSeq(s, 3, n + 1)
                ELSE [j \in 1..8 |-> IF ~Bit(Head(s), j - 1) THEN 0
                                     ELSE IF Ones(Head(s), j) + 1 <= Len(s) THEN s[Ones(Head(s), j) + 1]
                                     ELSE junk]
    IN  IF s = <<>> THEN Ok(<<>>)
        ELSE IF Len(s) - 1 < (IF run THEN n ELSE n - 1) THEN Short
        ELSE Then(sproto_unpack(Drop(s, n + 1), junk), LAMBDA rest : Ok(body \o rest))

-----------------------------------------------------------------------------
Init == \E c \in Cases :
    sproto = [case |-> c, step |-> "load", sp |-> <<>>, size |-> ENCODE_BUFFERSIZE, wire |-> <<>>,
              cut |-> 0, out |-> <<>>]

\* lnewproto: sproto_create
lnewproto ==
    /\ sproto.step = "load"
    /\ \E r \in {create_from_bundle(sproto.case.group)} :
         sproto' = [sproto EXCEPT !.sp = r.d, !.step = IF r.r = "ok" THEN "encode" ELSE "refused"]

\* One turn of the loop of lencode; the buffer stays as large as it has become.
lencode ==
    /\ sproto.step = "encode"
    /\ \E r \in {sproto_encode(sproto.sp, sproto.sp.type[sproto.case.send], sproto.case.table, sproto.size, 0)} :
         sproto' = CASE r.r = "ok" -> [sproto EXCEPT !.wire = r.d, !.step = "sent"]
                     [] r.r = "short" /\ 2 * sproto.size <= ENCODE_MAXSIZE -> [sproto EXCEPT !.size = 2 * @]
                     [] OTHER -> [sproto EXCEPT !.step = "failed"]

\* ldecode of the message, or of its first bytes
ldecode ==
    /\ sproto.step = "sent"
    /\ \E n \in 0..Len(sproto.wire) :
       \E r \in {sproto_decode(sproto.sp, sproto.sp.type[sproto.case.recv], SubSeq(sproto.wire, 1, n), 0)} :
         sproto' = [sproto EXCEPT !.cut = n, !.step = IF r.r = "ok" THEN "decoded" ELSE "refused",
                         !.out = IF r.r = "ok" THEN r.d.t ELSE <<>>]

\* lpack, lunpack and then ldecode
Packed ==
    /\ sproto.step = "sent"
    /\ \E j, k \in Junk : \E p \in {lpack(sproto.wire, j)} :
         IF p.r # "ok" THEN sproto' = [sproto EXCEPT !.step = "packing error"]
         ELSE \E r \in {Then(sproto_unpack(p.d, k), LAMBDA u :
                             sproto_decode(sproto.sp, sproto.sp.type[sproto.case.recv], u, 0))} :
                sproto' = [sproto EXCEPT !.cut = Len(sproto.wire), !.step = IF r.r = "ok" THEN "decoded" ELSE "refused",
                                         !.out = IF r.r = "ok" THEN r.d.t ELSE <<>>]

Next == lnewproto \/ lencode \/ ldecode \/ Packed

-----------------------------------------------------------------------------
\* The table t of type st as the other type sees it: fields it knows by their tag,
\* without the empty arrays, and with the main keys of its maps.
RECURSIVE Seen(_, _, _, _)
Seen(sp, from, to, t) ==
    LET of(f) == from.f[SelectInSeq(from.f, LAMBDA g : g.tag = f.tag)].name
        known == {f \in ToSet(to.f) : \E g \in ToSet(from.f) : g.tag = f.tag /\ g.name \in DOMAIN t
                                                               /\ (f.array => t[g.name] # <<>>)}
        Sub(f, x) == IF f.type = TSTRUCT
                     THEN Seen(sp, sp.type[(CHOOSE g \in ToSet(from.f) : g.tag = f.tag).st], sp.type[f.st], x) ELSE x
        Keyed(f, xs) == [k \in {x[MainKey(sp, f)] : x \in ToSet(xs)} |-> CHOOSE x \in ToSet(xs) : x[MainKey(sp, f)] = k]
        Value(f) == LET v == t[of(f)] IN
                    IF ~f.array THEN Sub(f, v)
                    ELSE LET xs == [i \in DOMAIN v |-> Sub(f, v[i])] IN IF f.key < 0 THEN xs ELSE Keyed(f, xs)
    IN  [n \in {f.name : f \in known} |-> Value(CHOOSE f \in known : f.name = n)]

\* The receiver, by its own version of the type, decodes the table that was encoded:
\* all fields both versions know, with and without packing, whatever the buffer had
\* to grow; a message that is cut is refused; the schema and its protocols are found
\* as they were described.
SprotoReturns ==
    LET c == sproto.case sp == sproto.sp IN
    /\ sproto.step = "decoded" =>
         /\ sproto.cut = Len(sproto.wire)
         /\ sproto.out = Seen(sp, sp.type[c.send], sp.type[c.recv], c.table)
    /\ sproto.step = "refused" => sproto.cut < Len(sproto.wire)
    /\ sproto.step = "failed" => c.fails
    /\ sproto.step = "encode" => \A i \in DOMAIN sp.proto :
         /\ query_proto(sp, sp.proto[i].tag) = i
         /\ sp.proto[ByName(sp.proto, sp.proto[i].name)].tag = sp.proto[i].tag

\* "the worst-case space overhead of packing is 2 bytes per 2 KiB of input"
\* (lsproto.c:458): the buffer of lpack is large enough.
PackFits ==
    sproto.step = "sent" => \A j \in Junk : Len(sproto_pack(sproto.wire, j)) <= maxsz(Len(sproto.wire))
=============================================================================
