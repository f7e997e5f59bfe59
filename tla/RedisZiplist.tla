--------------------------- MODULE RedisZiplist ---------------------------
(***************************************************************************)
(* The packed list of ziplist.c, which holds small lists, hashes and       *)
(* sorted sets: a header with three cached numbers, then entries that are  *)
(* found from either end. An entry starts with the length of the one       *)
(* before it, in one byte or in five, so that an insertion or a deletion   *)
(* may lengthen the entries behind it, one making the next one longer.     *)
(* Bytes are scaled: one holds ZipBits bits, and lengths up from BigLen   *)
(* need the long field.                                                    *)
(***************************************************************************)
EXTENDS Integers, Sequences, SequencesExt

CONSTANTS BigLen,     \* ZIP_BIGLEN, 254
          ZipBits,   \* bits of a byte
          ImmMax,     \* the largest integer kept in the encoding itself, 12
          LengthMax,  \* UINT16_MAX: from here the length is not cached
          MaxEntries, \* bound on the entries of the list
          ZipValues,  \* what is expected: integers, and strings by their length
          ZipBudget   \* bound on the operations

ASSUME ZiplistAssumption ==
  /\ {BigLen, ZipBits, LengthMax, MaxEntries} \subseteq Nat \ {0}
  /\ {ImmMax, ZipBudget} \subseteq Nat

VARIABLES zl,      \* bytes, tail offset, length, and the entries
          expected,  \* the values as their owner sees them
          zipLeft
ziplistVars == <<zl, expected, zipLeft>>

---------------------------------------------------------------------------
(* Integers and strings. An encoding of n > 0 holds n bytes.               *)

Str(n) == [int |-> FALSE, v |-> n]
ZipNumber(v) == [int |-> TRUE, v |-> v]
FitsBytes(n, v) == v \in -(2 ^ (n * ZipBits - 1)) .. 2 ^ (n * ZipBits - 1) - 1
TryEncoding(v) == IF v \in 0 .. ImmMax THEN 0 ELSE CHOOSE n \in {1, 2, 3, 4} : FitsBytes(n, v) /\ \A m \in 1 .. n - 1 : ~FitsBytes(m, v)

SaveInteger(v, n) ==
  IF n = 0 THEN <<v>> ELSE [i \in 1 .. n |-> (v \div 2 ^ ((i - 1) * ZipBits)) % 2 ^ ZipBits]
ZipUnsigned(bytes, n) == FoldLeft(LAMBDA a, i : a + bytes[i] * 2 ^ ((i - 1) * ZipBits), 0, [i \in 1 .. n |-> i])
ZipLoadInteger(bytes, n) ==
  LET u == ZipUnsigned(bytes, n)
  IN IF n = 0 THEN bytes[1] ELSE IF u >= 2 ^ (n * ZipBits - 1) THEN u - 2 ^ (n * ZipBits) ELSE u

\* Bytes of the length or encoding, and of the data
EncodeLength(value) == IF value.int \/ value.v < 2 ^ (ZipBits - 2) THEN 1
                       ELSE IF value.v < 2 ^ (2 * ZipBits - 2) THEN 2 ELSE 5
DataLength(value) == IF value.int THEN TryEncoding(value.v) ELSE value.v

ZipEntry(prevlen, field, value) ==
  [prevlen |-> prevlen, field |-> field, int |-> value.int,
   body |-> EncodeLength(value) + DataLength(value),
   enc |-> IF value.int THEN TryEncoding(value.v) ELSE 0,
   data |-> IF value.int THEN SaveInteger(value.v, TryEncoding(value.v)) ELSE <<value.v>>]
ZiplistGet(e) == IF e.int THEN ZipNumber(ZipLoadInteger(e.data, e.enc)) ELSE Str(e.data[1])

---------------------------------------------------------------------------
(* Walking.                                                                *)

PrevEncodeLength(n) == IF n < BigLen THEN 1 ELSE 5
RawEntryLength(e) == e.field + e.body
RawLengths(entries) == FoldLeft(LAMBDA n, e : n + RawEntryLength(e), 0, entries)
Offset(entries, i) == RawLengths(SubSeq(entries, 1, i - 1))
Offsets(entries) == [i \in 1 .. Len(entries) |-> Offset(entries, i)]
EntryAt(z, offset) == z.entries[CHOOSE i \in DOMAIN z.entries : Offset(z.entries, i) = offset]
IsEntryAt(z, offset) == \E i \in DOMAIN z.entries : Offset(z.entries, i) = offset

\* Offsets met from the tail on, going back by each entry's prevlen
WalkBack(z) ==
  FoldLeft(LAMBDA w, i : IF w # <<>> /\ IsEntryAt(z, w[1]) /\ EntryAt(z, w[1]).prevlen > 0
                         THEN <<w[1] - EntryAt(z, w[1]).prevlen>> \o w ELSE w,
           IF z.entries = <<>> THEN <<>> ELSE <<z.tail>>, z.entries)

\* ziplistLen(): the cached length, or a count that is cached if it fits
ZiplistLen(z) == IF z.length < LengthMax THEN z.length ELSE Len(z.entries)
Counted(z) ==
  IF z.length = LengthMax /\ Len(z.entries) < LengthMax THEN [z EXCEPT !.length = Len(z.entries)] ELSE z
IncrLength(z, n) == [z EXCEPT !.length = IF @ < LengthMax THEN @ + n ELSE @]

---------------------------------------------------------------------------
(* __ziplistCascadeUpdate(): from entry i on, as long as an entry is told  *)
(* of a length its field cannot hold. A field is never made smaller.       *)

StoredShrunk(z, i, rawlen) ==
  [z EXCEPT !.entries[i].prevlen = rawlen, !.entries[i].field = PrevEncodeLength(rawlen)]
ForcedLarge(z, i, rawlen) == [z EXCEPT !.entries[i].prevlen = rawlen]
Grown(z, i, rawlen) ==
  LET extra == PrevEncodeLength(rawlen) - z.entries[i].field
  IN [z EXCEPT !.entries[i].prevlen = rawlen, !.entries[i].field = @ + extra, !.bytes = @ + extra,
               !.tail = IF @ # Offset(z.entries, i) THEN @ + extra ELSE @]
CascadeStep(c, i) ==
  LET rawlen == RawEntryLength(c.z.entries[i - 1])
      next == c.z.entries[i]
  IN IF c.stop \/ next.prevlen = rawlen THEN [c EXCEPT !.stop = TRUE]
     ELSE IF next.field < PrevEncodeLength(rawlen) THEN [c EXCEPT !.z = Grown(c.z, i, rawlen)]
     ELSE [z |-> ForcedLarge(c.z, i, rawlen), stop |-> TRUE]
CascadeUpdate(z, i) ==
  FoldLeft(CascadeStep, [z |-> z, stop |-> FALSE], [k \in 1 .. Len(z.entries) - i |-> i + k]).z

---------------------------------------------------------------------------
(* __ziplistInsert() at entry i, or at the end; __ziplistDelete().         *)

PrevLenAt(z, i) ==
  IF i <= Len(z.entries) THEN z.entries[i].prevlen
  ELSE IF z.entries # <<>> THEN RawEntryLength(EntryAt(z, z.tail)) ELSE 0
NewEntry(z, i, value) == ZipEntry(PrevLenAt(z, i), PrevEncodeLength(PrevLenAt(z, i)), value)
NextDiff(z, i, reqlen) ==
  IF i <= Len(z.entries) THEN PrevEncodeLength(reqlen) - z.entries[i].field ELSE 0

\* The list is resized before its tail is moved: made smaller, it loses bytes
CutByResize(z, i, value) ==
  LET reqlen == RawEntryLength(NewEntry(z, i, value)) IN reqlen + NextDiff(z, i, reqlen) < 0

TailMoved(z, i, by, nextdiff) == IF i < Len(z.entries) THEN z.tail + by + nextdiff ELSE z.tail + by
Told(entries, i, rawlen) ==
  [entries EXCEPT ![i].prevlen = rawlen, ![i].field = PrevEncodeLength(rawlen)]

Insert(z, i, value) ==
  LET e == NewEntry(z, i, value)
      reqlen == RawEntryLength(e)
      nextdiff == NextDiff(z, i, reqlen)
      inside == i <= Len(z.entries)
      y == [z EXCEPT !.bytes = @ + reqlen + nextdiff,
                     !.tail = IF inside THEN TailMoved(z, i, reqlen, nextdiff) ELSE z.bytes,
                     !.entries = InsertAt(IF inside THEN Told(@, i, reqlen) ELSE @, i, e)]
  IN IncrLength(IF nextdiff # 0 THEN CascadeUpdate(y, i + 1) ELSE y, 1)

\* `last` is the last entry deleted
Delete(z, i, last) ==
  LET first == z.entries[i]
      totlen == RawLengths(SubSeq(z.entries, i, last))
      inside == last < Len(z.entries)
      nextdiff == IF inside THEN PrevEncodeLength(first.prevlen) - z.entries[last + 1].field ELSE 0
      kept == IF inside THEN Told(z.entries, last + 1, first.prevlen) ELSE z.entries
      y == [z EXCEPT !.bytes = @ - totlen + nextdiff,
                     !.tail = IF inside THEN TailMoved(z, last + 1, -totlen, nextdiff)
                              ELSE Offset(z.entries, i) - first.prevlen,
                     !.entries = SubSeq(kept, 1, i - 1) \o SubSeq(kept, last + 1, Len(kept))]
      w == IncrLength(y, -(last - i + 1))
  IN IF nextdiff # 0 THEN CascadeUpdate(w, i) ELSE w

---------------------------------------------------------------------------
ZiplistNew == [bytes |-> 0, tail |-> 0, length |-> 0, entries |-> <<>>, cut |-> FALSE]
ZiplistInit == zl = ZiplistNew /\ expected = <<>> /\ zipLeft = ZipBudget
Operation == zipLeft > 0 /\ ~zl.cut /\ zipLeft' = zipLeft - 1

ZiplistInsert(i, value) ==
  /\ Operation
  /\ Len(zl.entries) < MaxEntries
  /\ zl' = IF CutByResize(zl, i, value) THEN [zl EXCEPT !.cut = TRUE] ELSE Insert(zl, i, value)
  /\ expected' = InsertAt(expected, i, value)
ZiplistDeleteRange(i, num) ==
  /\ Operation
  /\ LET last == IF i + num - 1 > Len(zl.entries) THEN Len(zl.entries) ELSE i + num - 1
     IN /\ zl' = Delete(zl, i, last)
        /\ expected' = SubSeq(expected, 1, i - 1) \o SubSeq(expected, last + 1, Len(expected))
ZiplistLength == Counted(zl) # zl /\ zl' = Counted(zl) /\ UNCHANGED <<expected, zipLeft>>

ZiplistNext ==
  \/ \E i \in 1 .. Len(zl.entries) + 1, value \in ZipValues : ZiplistInsert(i, value)
  \/ \E i \in 1 .. Len(zl.entries), num \in {1, 2} : ZiplistDeleteRange(i, num)
  \/ ZiplistLength
ZiplistSpec == ZiplistInit /\ [][ZiplistNext]_ziplistVars

---------------------------------------------------------------------------
(* The list reads the same from both ends after any insertions and         *)
(* deletions: each entry knows the length of the one before it, in a field *)
(* that can hold it, and the header knows where the tail is, how long the  *)
(* list is and how many entries it has.                                    *)
ZiplistReadsBothWays ==
  ~zl.cut =>
    /\ WalkBack(zl) = Offsets(zl.entries)
    /\ zl.bytes = RawLengths(zl.entries)
    /\ ZiplistLen(zl) = Len(expected)
    /\ \A i \in DOMAIN zl.entries : zl.entries[i].field >= PrevEncodeLength(zl.entries[i].prevlen)

(* What is read at each place is what was expected there, whatever integer   *)
(* encoding the value was given.                                           *)
ZiplistKeepsValues ==
  ~zl.cut => /\ Len(zl.entries) = Len(expected)
             /\ \A i \in DOMAIN expected : ZiplistGet(zl.entries[i]) = expected[i]

(* No insertion shrinks the block it is about to move entries within.      *)
ResizeKeepsEntries == ~zl.cut
=============================================================================
