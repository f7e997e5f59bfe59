------------------------------ MODULE RedisRdb ------------------------------
(***************************************************************************)
(* The format of a dump (rdb.c): how lengths, integers, scores, objects in *)
(* each of their encodings, expire times and databases are written, and    *)
(* how they are read back, possibly under other limits for the compact     *)
(* encodings. A byte has ByteBits bits, of which a length uses two to say  *)
(* its size. A text that is not a number is one value, its bytes numbered; *)
(* so are the bytes of a ziplist or an intset, of which only the contents  *)
(* matter here.                                                            *)
(***************************************************************************)
EXTENDS Integers, Sequences, FiniteSets, SequencesExt

CONSTANTS RdbDbs,
          RdbWrites,   \* what is written: db, key, obj, and expire
          NoExpire,    \* the expire of a key without one
          RdbLimits,   \* the settings: entries and value, by type
          ByteBits, LzfMin,
          LastTime     \* the bound of the clock
ASSUME RdbAssumption == RdbDbs \subseteq Nat /\ NoExpire \notin Nat /\ ByteBits > 2

VARIABLES stored,  \* the databases: key -> [obj, expire]
          limits, now,
          master   \* whether a load drops expired keys
rdbVars == <<stored, limits, now, master>>

---------------------------------------------------------------------------
(* Texts, and the bytes of a file.                                         *)

Number(n) == [num |-> n]
Text(body, len, packed) == [body |-> body, len |-> len, packed |-> packed]
IsNumber(t) == "num" \in DOMAIN t
TextLen(t) == IF IsNumber(t) THEN Len(ToString(t.num)) ELSE t.len

Byte(n) == [b |-> n]
Opcode(name) == [op |-> name]
Raw(t) == [i \in 1..TextLen(t) |-> [of |-> t, i |-> i]]
ByteAt(f, at) == IF at > Len(f) THEN 0 ELSE IF "b" \in DOMAIN f[at] THEN f[at].b ELSE 0
OpcodeAt(f, at) == IF "op" \in DOMAIN f[at] THEN f[at].op ELSE "?"

Failed == [ok |-> FALSE, v |-> <<>>, at |-> 0]
Got(v, at) == [ok |-> TRUE, v |-> v, at |-> at]
\* What is read is used, from the place behind it, unless reading it failed
AndThen(read, Use(_, _)) == IF read.ok THEN Use(read.v, read.at) ELSE Failed

---------------------------------------------------------------------------
(* Lengths and integers.                                                   *)

Values == 2 ^ ByteBits
LenBits == 2 ^ (ByteBits - 2)
\* The kinds of a length's first byte
Bits6 == 0
Bits14 == 1
Bits32 == 2
EncVal == 3
FirstByte(kind, n) == Byte(kind * LenBits + n)
\* Little endian; a length of four bytes is big endian
LittleEndian(n, size) == [i \in 1..size |-> Byte((n \div (Values ^ (i - 1))) % Values)]
Unsigned(bytes) == FoldRight(LAMBDA b, sum : b + Values * sum, bytes, 0)

SaveLen(n) ==
  IF n < LenBits THEN <<FirstByte(Bits6, n)>>
  ELSE IF n < LenBits * Values THEN <<FirstByte(Bits14, n \div Values), Byte(n % Values)>>
  ELSE <<FirstByte(Bits32, 0)>> \o Reverse(LittleEndian(n, 4))

\* v: the length, or an encoding
LoadLen(f, at) ==
  IF at > Len(f) THEN Failed
  ELSE LET kind == ByteAt(f, at) \div LenBits
           low == ByteAt(f, at) % LenBits
           size == CASE kind = Bits14 -> 2 [] kind = Bits32 -> 5 [] OTHER -> 1
           n == CASE kind = Bits14 -> low * Values + ByteAt(f, at + 1)
                  [] kind = Bits32 -> Unsigned(Reverse([i \in 1..4 |-> ByteAt(f, at + i)]))
                  [] OTHER -> low
       IN IF at + size - 1 > Len(f) THEN Failed ELSE Got([encoded |-> kind = EncVal, n |-> n], at + size)

\* The widths of an encoded integer, and a fourth encoding
IntSizes == <<1, 2, 4>>
Lzf == 3
HalfOf(size) == 2 ^ (ByteBits * size - 1)
FitsUnsigned(n, size) == -HalfOf(size) <= n /\ n <= HalfOf(size)
FitsIn(n, size) == -HalfOf(size) <= n /\ n <= HalfOf(size) - 1
EncodeInteger(n) ==
  LET fits == {e \in DOMAIN IntSizes : FitsIn(n, IntSizes[e])}
      enc == CHOOSE e \in fits : \A other \in fits : e <= other
      size == IntSizes[enc]
  IN IF fits = {} THEN <<>>
     ELSE <<FirstByte(EncVal, enc - 1)>> \o LittleEndian(n % (Values ^ size), size)
LoadInteger(f, at, enc) ==
  LET size == IntSizes[enc + 1]
      n == Unsigned([i \in 1..size |-> ByteAt(f, at + i - 1)])
  IN IF at + size - 1 > Len(f) THEN Failed
     ELSE Got(Number(IF n >= HalfOf(size) THEN n - 2 * HalfOf(size) ELSE n), at + size)

---------------------------------------------------------------------------
(* Strings: an integer, compressed, or as they are.                        *)

Verbatim(t) == SaveLen(TextLen(t)) \o Raw(t)
SaveString(t) ==
  CASE IsNumber(t) -> IF EncodeInteger(t.num) # <<>> THEN EncodeInteger(t.num) ELSE Verbatim(t)
    [] ~IsNumber(t) /\ t.len > LzfMin /\ t.packed > 0 /\ t.packed <= t.len - 4 ->
         <<FirstByte(EncVal, Lzf)>> \o SaveLen(t.packed) \o SaveLen(t.len) \o SubSeq(Raw(t), 1, t.packed)
    [] OTHER -> Verbatim(t)

\* size bytes that stand for a text of len bytes
ReadRaw(f, at, size, len) ==
  CASE size = 0 -> Got(Text("", 0, 0), at)
    [] size > 0 /\ at + size - 1 > Len(f) -> Failed
    [] OTHER -> LET read == SubSeq(f, at, at + size - 1)
                IN IF (\A i \in 1..size : "of" \in DOMAIN read[i] /\ read[i].i = i) /\ TextLen(read[1].of) = len
                   THEN Got(read[1].of, at + size) ELSE Got(Text("garbage", len, 0), at + size)
LoadLzf(f, at) ==
  AndThen(LoadLen(f, at), LAMBDA packed, p :
    AndThen(LoadLen(f, p), LAMBDA len, q : ReadRaw(f, q, packed.n, len.n)))
LoadString(f, at) ==
  AndThen(LoadLen(f, at), LAMBDA len, p :
    CASE ~len.encoded -> ReadRaw(f, p, len.n, len.n)
      [] len.encoded /\ len.n = Lzf -> LoadLzf(f, p)
      [] OTHER -> LoadInteger(f, p, len.n))

\* A length byte and that many digits, or one of the last values of a byte
SaveDouble(score) ==
  CASE score = "inf" -> <<Byte(Values - 2)>>
    [] score = "-inf" -> <<Byte(Values - 1)>>
    [] OTHER -> <<Byte(Len(score))>> \o Raw(Text(score, Len(score), 0))
LoadDouble(f, at) ==
  IF at > Len(f) THEN Failed
  ELSE CASE ByteAt(f, at) = Values - 2 -> Got("inf", at + 1)
         [] ByteAt(f, at) = Values - 1 -> Got("-inf", at + 1)
         [] OTHER -> AndThen(ReadRaw(f, at + 1, ByteAt(f, at), ByteAt(f, at)),
                             LAMBDA digits, p : Got(digits.body, p))

---------------------------------------------------------------------------
(* Objects. In memory: its type, its encoding, and its value, in a field   *)
(* named for the type: a text, a sequence, a set, or a function from       *)
(* members to scores or values.                                            *)

Compact == [list |-> "ziplist", set |-> "intset", zset |-> "ziplist", hash |-> "ziplist"]
Plain == [list |-> "linkedlist", set |-> "ht", zset |-> "skiplist", hash |-> "ht"]
Held(o) == o[o.type]
Object(type, encoding, value) ==
  [f \in {"type", "encoding", type} |-> CASE f = "type" -> type [] f = "encoding" -> encoding [] OTHER -> value]
Size(o) == CASE o.type = "list" -> Len(o.list) [] o.type = "set" -> Cardinality(o.set)
             [] OTHER -> Cardinality(DOMAIN Held(o))
IsCompact(o) == o.type # "string" /\ o.encoding = Compact[o.type]
\* A ziplist or an intset, as a text; only its length in bytes counts
Blob(o) == Text(o, 2 + 3 * Size(o), 0)

Strings(texts) == FlattenSeq([i \in DOMAIN texts |-> SaveString(texts[i])])
Pairs(value, Save(_)) ==
  FlattenSeq([i \in 1..Cardinality(DOMAIN value) |->
                LET key == SetToSeq(DOMAIN value)[i] IN SaveString(key) \o Save(value[key])])
SaveObject(o) ==
  CASE o.type = "string" -> SaveString(o.string)
    [] IsCompact(o) -> SaveString(Blob(o))
    [] OTHER -> SaveLen(Size(o)) \o
                (CASE o.type = "list" -> Strings(o.list)
                   [] o.type = "set" -> Strings(SetToSeq(o.set))
                   [] o.type = "zset" -> Pairs(o.zset, SaveDouble)
                   [] o.type = "hash" -> Pairs(o.hash, SaveString))
ObjectType(o) == <<o.type, IF IsCompact(o) THEN o.encoding ELSE "">>

\* n elements: a text, and a score or a value with it
LoadSecond(f, at, second) ==
  CASE second = "none" -> Got("", at)
    [] second = "score" -> LoadDouble(f, at)
    [] second = "value" -> LoadString(f, at)
RECURSIVE LoadMany(_, _, _, _)
LoadMany(f, at, n, second) ==
  IF n = 0 THEN Got(<<>>, at)
  ELSE AndThen(LoadString(f, at), LAMBDA key, p :
         AndThen(LoadSecond(f, p, second), LAMBDA value, q :
           AndThen(LoadMany(f, q, n - 1, second), LAMBDA rest, r :
             Got(<<<<key, value>>>> \o rest, r))))

\* tryObjectEncoding() makes an integer of a number
LongRaw(type, t) == ~IsNumber(t) /\ t.len > limits.value[type]
TooBig(type, items) ==
  CASE type = "list" -> \E i \in DOMAIN items : LongRaw(type, items[i][1])
    [] type = "set" -> \E i \in DOMAIN items : ~IsNumber(items[i][1])
    [] type = "zset" -> \E i \in DOMAIN items : LongRaw(type, items[i][1])
    [] type = "hash" -> \E i \in DOMAIN items : \E t \in {items[i][1], items[i][2]} : TextLen(t) > limits.value[type]
ValueOf(type, items) ==
  CASE type = "list" -> [i \in DOMAIN items |-> items[i][1]]
    [] type = "set" -> {items[i][1] : i \in DOMAIN items}
    [] OTHER -> [key \in {items[i][1] : i \in DOMAIN items} |->
                   items[CHOOSE i \in DOMAIN items : items[i][1] = key][2]]
Second == [list |-> "none", set |-> "none", zset |-> "score", hash |-> "value"]
LoadPlain(f, at, type) ==
  AndThen(LoadLen(f, at), LAMBDA len, p :
    AndThen(LoadMany(f, p, len.n, Second[type]), LAMBDA items, q :
      Got(Object(type, IF len.n > limits.entries[type] \/ TooBig(type, items) THEN Plain[type] ELSE Compact[type],
                 ValueOf(type, items)), q)))
\* Only the number of elements is checked, not their size
Converted(o) == IF Size(o) > limits.entries[o.type] THEN [o EXCEPT !.encoding = Plain[o.type]] ELSE o
LoadCompact(f, at) == AndThen(LoadString(f, at), LAMBDA blob, p : Got(Converted(blob.body), p))
LoadObject(f, at, type) ==
  CASE type[1] = "string" -> AndThen(LoadString(f, at), LAMBDA t, p : Got(Object("string", "", t), p))
    [] type[1] # "string" /\ type[2] = "" -> LoadPlain(f, at, type[1])
    [] OTHER -> LoadCompact(f, at)

---------------------------------------------------------------------------
(* The file.                                                               *)

SaveKeyValuePair(key, entry) ==
  IF entry.expire # NoExpire /\ entry.expire < now THEN <<>>
  ELSE (IF entry.expire = NoExpire THEN <<>> ELSE <<Opcode("EXPIRETIME_MS"), [ms |-> entry.expire]>>)
       \o <<Opcode(ObjectType(entry.obj))>> \o SaveString(key) \o SaveObject(entry.obj)
SaveDb(db) ==
  IF DOMAIN stored[db] = {} THEN <<>>
  ELSE <<Opcode("SELECTDB")>> \o SaveLen(db)
       \o LET keys == SetToSeq(DOMAIN stored[db])
          IN FlattenSeq([i \in DOMAIN keys |-> SaveKeyValuePair(keys[i], stored[db][keys[i]])])
\* rdbSaveRio(); the checksum is one byte here
Save == LET dbs == SetToSortSeq(RdbDbs, <)
        IN <<Opcode("REDIS0006")>> \o FlattenSeq([i \in DOMAIN dbs |-> SaveDb(dbs[i])])
           \o <<Opcode("EOF"), Opcode("CRC64")>>

Nothing == [db \in RdbDbs |-> <<>>]
Entry(o, expire) == [obj |-> o, expire |-> expire]
RdbAddKey(to, db, key, entry) ==
  [to EXCEPT ![db] = [k \in DOMAIN @ \cup {key} |-> IF k = key THEN entry ELSE @[k]]]
\* From at, into db, behind an expire time or not; Failed is the exit of a short read
RECURSIVE LoadFrom(_, _, _, _, _)
LoadFrom(f, at, db, into, expire) ==
  IF at > Len(f) THEN Failed
  ELSE CASE OpcodeAt(f, at) = "EOF" -> IF at = Len(f) THEN Failed ELSE Got(into, at + 2)
         [] OpcodeAt(f, at) = "EXPIRETIME_MS" ->
              IF at = Len(f) THEN Failed ELSE LoadFrom(f, at + 2, db, into, f[at + 1].ms)
         [] OpcodeAt(f, at) = "SELECTDB" ->
              AndThen(LoadLen(f, at + 1), LAMBDA select, p :
                IF select.n \in RdbDbs THEN LoadFrom(f, p, select.n, into, NoExpire) ELSE Failed)
         [] OTHER ->
              AndThen(LoadString(f, at + 1), LAMBDA key, p :
                AndThen(LoadObject(f, p, OpcodeAt(f, at)), LAMBDA value, q :
                  LoadFrom(f, q, db,
                           IF master /\ expire # NoExpire /\ expire < now THEN into
                           ELSE RdbAddKey(into, db, key, Entry(value, expire)), NoExpire)))
Load(f) == IF f = <<>> THEN Failed ELSE LoadFrom(f, 2, 0, Nothing, NoExpire)

---------------------------------------------------------------------------
(* Keys are written, the settings changed, and the server restarted with   *)
(* what it saved.                                                          *)

RdbInit ==
  /\ stored = Nothing
  /\ limits \in RdbLimits /\ now = 0 /\ master \in BOOLEAN
Write(db, key, o, expire) ==
  /\ stored' = RdbAddKey(stored, db, key, Entry(o, expire))
  /\ UNCHANGED <<limits, now, master>>
ChangeLimits(l) == limits' = l /\ UNCHANGED <<stored, now, master>>
Passes == now < LastTime /\ now' = now + 1 /\ UNCHANGED <<stored, limits, master>>
Reload == stored' = Load(Save).v /\ UNCHANGED <<limits, now, master>>
RdbNext ==
  \/ \E w \in RdbWrites : Write(w.db, w.key, w.obj, w.expire)
  \/ \E l \in RdbLimits : ChangeLimits(l)
  \/ Passes \/ Reload
RdbSpec == RdbInit /\ [][RdbNext]_rdbVars

---------------------------------------------------------------------------
(* What is saved is what is loaded, whatever its encodings and whatever    *)
(* the settings have become: every key that has not expired, in its        *)
(* database, with its value and its expire time, and in a compact encoding *)
(* only if it has few enough elements. A file that ends too early is       *)
(* refused, wherever it ends: no part of a dataset passes for the whole.   *)
Alive(db) == {key \in DOMAIN stored[db] : stored[db][key].expire = NoExpire \/ stored[db][key].expire >= now}
SameValue(old, new) ==
  /\ new.expire = old.expire
  /\ new.obj.type = old.obj.type /\ Held(new.obj) = Held(old.obj)
  /\ IsCompact(new.obj) => Size(new.obj) <= limits.entries[new.obj.type]
GivesDataset(result) ==
  /\ result.ok
  /\ \A db \in RdbDbs :
       /\ DOMAIN result.v[db] = Alive(db)
       /\ \A key \in Alive(db) : SameValue(stored[db][key], result.v[db][key])
RdbIsDataset ==
  \E file \in {Save} :
    /\ \E result \in {Load(file)} : GivesDataset(result)
    /\ \A size \in 0..Len(file) - 1 : ~Load(SubSeq(file, 1, size)).ok
=============================================================================
