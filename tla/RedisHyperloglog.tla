-------------------------- MODULE RedisHyperloglog --------------------------
(***************************************************************************)
(* HyperLogLogs (hyperloglog.c): a register for every value of the low     *)
(* bits of a hash holds the longest run of zeroes the other bits began     *)
(* with. A sparse one is a string of opcodes that PFADD splits and merges  *)
(* in place; a dense one has every register in a few bits that straddle    *)
(* two bytes. Both are headed by the estimate that PFCOUNT computed last.  *)
(* A master and a replica that executes what the master propagates, each   *)
(* with its own hll-sparse-max-bytes. An element is its hash.              *)
(***************************************************************************)
EXTENDS Integers, Sequences, FiniteSets, SequencesExt

CONSTANTS
  HllP,                                 \* HLL_P: bits of the hash that choose a register
  HashBits,                             \* those of a hash: 64
  HllBits, HllByte,                     \* HLL_BITS, and the bits of a byte: 8
  ZeroMaxLen, ValMaxLen, ValMaxValue,   \* HLL_SPARSE_*: XZERO_MAX_LEN is HLL_REGISTERS
  HeaderSize,                           \* HLL_HDR_SIZE
  HllKeys,
  ElementLists,                         \* what PFADD is given
  SparseMaxBytes,                       \* what hll-sparse-max-bytes may be, per side
  HllChances,                           \* bounds: how often each command may be sent
  HllLinkMax                            \* bound: commands on their way

HllRegisters == 2 ^ HllP
RegisterMax == 2 ^ HllBits - 1
Registers == 0 .. HllRegisters - 1
HllSides == {"master", "replica"}
SparseLimits == {max[side] : max \in SparseMaxBytes, side \in HllSides}
HllChance == {"pfadd", "pfcount", "pfmerge", "pfdebug", "set", "del", "limit", "ask"}

ASSUME HllAssumption ==
  /\ {HllP, HllBits, ZeroMaxLen, ValMaxLen, ValMaxValue, HeaderSize} \subseteq Nat \ {0}
  /\ HashBits \in Nat /\ HashBits > HllP /\ HashBits - HllP <= RegisterMax
  /\ HllByte \in Nat /\ HllBits < HllByte /\ (HllRegisters * HllBits) % HllByte = 0
  /\ ZeroMaxLen < HllRegisters /\ ValMaxValue <= RegisterMax
  /\ ElementLists \subseteq Seq(0 .. 2 ^ HashBits - 1) /\ SparseMaxBytes \subseteq [HllSides -> Nat]
  /\ HllChances \subseteq [HllChance -> Nat] /\ HllLinkMax \in Nat \ {0}

VARIABLES strings,   \* per side and key: a HyperLogLog, another string, or nothing
          maxBytes,  \* per side: server.hll_sparse_max_bytes
          link,      \* commands on their way to the replica
          counted,   \* per side: the last PFCOUNT and its reply
          seen,      \* per side and key: the elements a set in its place would hold
          hllLeft
hllVars == <<strings, maxBytes, link, counted, seen, hllLeft>>

Unstored == [encoding |-> "none"]
OtherString == [encoding |-> "other"]   \* whatever isHLLObjectOrReply() refuses
Uncached == [sum |-> -1, zeros |-> -1]
NotCounted == [keys |-> {}, card |-> Uncached]

---------------------------------------------------------------------------
(* An element: its register, and the length of its pattern 0..01, where    *)
(* the topmost bit of the hash is taken to be set.                         *)
RegisterOf(hash) == hash % HllRegisters
PatLen(hash) ==
  LET rest == hash \div HllRegisters
      bits == HashBits - HllP
      set == {c \in 1 .. bits : c = bits \/ (rest \div 2 ^ (c - 1)) % 2 = 1}
  IN CHOOSE c \in set : \A d \in set : c <= d

(* Dense registers: bytes with one to spare, the string's null terminator. *)
DenseBytes == (HllRegisters * HllBits) \div HllByte
Blank == [i \in 0 .. DenseBytes |-> 0]
DenseGet(bytes, reg) ==
  LET first == (reg * HllBits) \div HllByte
      shift == (reg * HllBits) % HllByte
  IN ((bytes[first] \div 2 ^ shift) + bytes[first + 1] * 2 ^ (HllByte - shift)) % 2 ^ HllBits
DenseSetDirty(bytes, reg, val) ==   \* what straddles the next byte is not cleared
  LET first == (reg * HllBits) \div HllByte
      shift == (reg * HllBits) % HllByte
  IN [bytes EXCEPT
        ![first] = (@ % 2 ^ shift) + ((val * 2 ^ shift) % 2 ^ HllByte),
        ![first + 1] = (@ + (val \div 2 ^ (HllByte - shift))) % 2 ^ HllByte]
DenseSet(bytes, reg, val) ==
  LET first == (reg * HllBits) \div HllByte
      shift == (reg * HllBits) % HllByte
      over == IF shift + HllBits > HllByte THEN shift + HllBits - HllByte ELSE 0
      Above(byte, bit) == (byte \div 2 ^ bit) * 2 ^ bit
  IN [bytes EXCEPT
        ![first] = (@ % 2 ^ shift) + Above(@, shift + HllBits) + ((val * 2 ^ shift) % 2 ^ HllByte),
        ![first + 1] = Above(@, over) + (val \div 2 ^ (HllByte - shift))]
WriteRegisters(bytes, val, which) ==
  FoldLeft(LAMBDA after, r : IF r \in which THEN DenseSet(after, r, val[r]) ELSE after,
           bytes, [n \in 1 .. HllRegisters |-> n - 1])

---------------------------------------------------------------------------
(* Sparse: runs of registers that are zero, long runs, runs of one value.  *)
Zero(len) == [op |-> "zero", len |-> len, val |-> 0]
Xzero(len) == [op |-> "xzero", len |-> len, val |-> 0]
Val(val, len) == [op |-> "val", len |-> len, val |-> val]
ZeroRun(len) == IF len > ZeroMaxLen THEN Xzero(len) ELSE Zero(len)
OpBytes(o) == IF o.op = "xzero" THEN 2 ELSE 1

AddedUp(ops, n, F(_)) == LET sum[i \in 0 .. n] == IF i = 0 THEN 0 ELSE sum[i - 1] + F(ops[i]) IN sum[n]
RunsUpTo(ops, n) == AddedUp(ops, n, LAMBDA o : o.len)
StringBytes(ops) == HeaderSize + AddedUp(ops, Len(ops), OpBytes)
Covering(ops, reg) ==
  CHOOSE i \in DOMAIN ops : RunsUpTo(ops, i - 1) <= reg /\ reg < RunsUpTo(ops, i)
SparseGet(ops, reg) == ops[Covering(ops, reg)].val

(* The opcode at 'at' becomes one for the registers on each side of 'reg'  *)
(* and one for it; a run of one register is a case that leaves no sides.   *)
Split(old, before, after, count) ==
  LET Side(len) == IF len = 0 THEN <<>>
                   ELSE IF old.op = "val" THEN <<Val(old.val, len)>> ELSE <<ZeroRun(len)>>
  IN Side(before) \o <<Val(count, 1)>> \o Side(after)

(* Equal values side by side, in the five opcodes from the one before.     *)
MergeStep(s) ==
  LET mergeable ==
        /\ s.at < Len(s.ops)
        /\ s.ops[s.at].op = "val" /\ s.ops[s.at + 1].op = "val"
        /\ s.ops[s.at].val = s.ops[s.at + 1].val
        /\ s.ops[s.at].len + s.ops[s.at + 1].len <= ValMaxLen
  IN IF s.at > Len(s.ops) THEN s
     ELSE IF mergeable
     THEN [s EXCEPT !.ops = SubSeq(@, 1, s.at - 1)
             \o <<Val(@[s.at].val, @[s.at].len + @[s.at + 1].len)>> \o SubSeq(@, s.at + 2, Len(@))]
     ELSE [s EXCEPT !.at = @ + 1]
MergeValues(ops, prev) ==
  FoldLeft(LAMBDA s, i : MergeStep(s), [ops |-> ops, at |-> prev], <<1, 2, 3, 4, 5>>).ops

---------------------------------------------------------------------------
(* HyperLogLog objects. A new one is valid with its estimate, which is 0.  *)
Sparse(ops, card) == [encoding |-> "sparse", ops |-> ops, card |-> card]
Dense(bytes, card) == [encoding |-> "dense", bytes |-> bytes, card |-> card]
IsHLL(s) == s.encoding \in {"sparse", "dense"}
EstimateOf(val) ==   \* hllCount: what its formula is a function of
  LET sum[n \in 0 .. HllRegisters] ==
        IF n = 0 THEN 0 ELSE sum[n - 1] + 2 ^ (RegisterMax - val[n - 1])
  IN [sum |-> sum[HllRegisters], zeros |-> Cardinality({r \in Registers : val[r] = 0})]
CreateHLL == Sparse(<<Xzero(HllRegisters)>>, EstimateOf([r \in Registers |-> 0]))

SparseToDense(o) ==
  IF o.encoding = "dense" THEN o
  ELSE Dense(WriteRegisters(Blank, [r \in Registers |-> SparseGet(o.ops, r)],
                            {r \in Registers : o.ops[Covering(o.ops, r)].op = "val"}), o.card)

DenseAdd(o, hash) ==
  IF PatLen(hash) > DenseGet(o.bytes, RegisterOf(hash))
  THEN [updated |-> TRUE, obj |-> [o EXCEPT !.bytes = DenseSet(@, RegisterOf(hash), PatLen(hash))]]
  ELSE [updated |-> FALSE, obj |-> o]

SparseSet(o, at, seq) ==
  [updated |-> TRUE,
   obj |-> Sparse(MergeValues(SubSeq(o.ops, 1, at - 1) \o seq \o SubSeq(o.ops, at + 1, Len(o.ops)),
                              IF at = 1 THEN 1 ELSE at - 1), Uncached)]
TooLong(o, at, seq, max) ==
  LET delta == AddedUp(seq, Len(seq), OpBytes) - OpBytes(o.ops[at])
  IN delta > 0 /\ StringBytes(o.ops) + delta > max
SplitAt(o, at, hash) ==
  LET before == RegisterOf(hash) - RunsUpTo(o.ops, at - 1)
  IN Split(o.ops[at], before, o.ops[at].len - before - 1, PatLen(hash))
SparseAddAt(o, at, hash, max) ==
  IF o.ops[at].op = "val" /\ o.ops[at].val >= PatLen(hash) THEN [updated |-> FALSE, obj |-> o]
  ELSE IF PatLen(hash) > ValMaxValue \/ TooLong(o, at, SplitAt(o, at, hash), max)
  THEN DenseAdd(SparseToDense(o), hash)
  ELSE SparseSet(o, at, SplitAt(o, at, hash))
SparseAdd(o, hash, max) == SparseAddAt(o, Covering(o.ops, RegisterOf(hash)), hash, max)
HllAdd(o, hash, max) == IF o.encoding = "dense" THEN DenseAdd(o, hash) ELSE SparseAdd(o, hash, max)

GetRegister(o, reg) == IF o.encoding = "dense" THEN DenseGet(o.bytes, reg) ELSE SparseGet(o.ops, reg)
Merge(max, o) ==
  [r \in Registers |-> LET val == GetRegister(o, r) IN IF val > max[r] THEN val ELSE max[r]]
MergeOf(db_, keys) ==   \* a sequence: those that do not exist are empty
  FoldLeft(LAMBDA max, key : IF db_[key] = Unstored THEN max ELSE Merge(max, db_[key]),
           [r \in Registers |-> 0], keys)

(* hllSparseSum: opcode by opcode.                                         *)
CountSparse(ops) ==
  [sum |-> AddedUp(ops, Len(ops), LAMBDA o : o.len * 2 ^ (RegisterMax - o.val)),
   zeros |-> AddedUp(ops, Len(ops), LAMBDA o : IF o.op = "val" THEN 0 ELSE o.len)]
CountHLL(o) ==
  IF o.encoding = "sparse" THEN CountSparse(o.ops)
  ELSE EstimateOf([r \in Registers |-> DenseGet(o.bytes, r)])

---------------------------------------------------------------------------
(* The commands: what becomes of the strings, whether the server is dirty  *)
(* and so propagates the command, what PFCOUNT replies.                    *)
Outcome(db_, dirty_) == [strings |-> db_, dirty |-> dirty_, count |-> NotCounted]
Unchanged(db_) == Outcome(db_, FALSE)
Stores(db_, key, obj) == Outcome([db_ EXCEPT ![key] = obj], TRUE)
KeysOf(cmd) == {cmd.keys[i] : i \in DOMAIN cmd.keys}
RefusesHLL(db_, cmd) == \E key \in KeysOf(cmd) : db_[key] = OtherString

AddsUp(before, add) == [updated |-> before.updated \/ add.updated, obj |-> add.obj]
AddElements(db_, key, elements, max) ==
  FoldLeft(LAMBDA before, hash : AddsUp(before, HllAdd(before.obj, hash, max)),
           [updated |-> db_[key] = Unstored, obj |-> IF db_[key] = Unstored THEN CreateHLL ELSE db_[key]],
           elements)
StoresAdded(db_, key, end) ==
  IF end.updated THEN Stores(db_, key, [end.obj EXCEPT !.card = Uncached]) ELSE Unchanged(db_)
PfaddCommand(db_, cmd, max) ==
  IF RefusesHLL(db_, cmd) THEN Unchanged(db_)
  ELSE StoresAdded(db_, cmd.keys[1], AddElements(db_, cmd.keys[1], cmd.elements, max))

Answers(outcome, cmd, card) == [outcome EXCEPT !.count = [keys |-> KeysOf(cmd), card |-> card]]
PfcountCommand(db_, cmd) ==
  LET key == cmd.keys[1]
      o == db_[key]
  IN CASE RefusesHLL(db_, cmd) -> Unchanged(db_)
       [] Len(cmd.keys) > 1 -> Answers(Unchanged(db_), cmd, EstimateOf(MergeOf(db_, cmd.keys)))
       [] Len(cmd.keys) = 1 /\ o = Unstored ->
            Answers(Unchanged(db_), cmd, EstimateOf([r \in Registers |-> 0]))
       [] Len(cmd.keys) = 1 /\ IsHLL(o) ->
            IF o.card # Uncached THEN Answers(Unchanged(db_), cmd, o.card)
            ELSE Answers(Stores(db_, key, [o EXCEPT !.card = CountHLL(o)]), cmd, CountHLL(o))

PfmergeCommand(db_, cmd) ==
  LET dest == cmd.keys[1]
      max == MergeOf(db_, cmd.keys)
      o == SparseToDense(IF db_[dest] = Unstored THEN CreateHLL ELSE db_[dest])
  IN IF RefusesHLL(db_, cmd) THEN Unchanged(db_)
     ELSE Stores(db_, dest, Dense(WriteRegisters(o.bytes, max, Registers), Uncached))

(* PFDEBUG GETREG and TODENSE; ENCODING and DECODE only read.              *)
PfdebugCommand(db_, cmd) ==
  LET o == db_[cmd.keys[1]]
  IN IF o.encoding = "sparse" THEN Stores(db_, cmd.keys[1], SparseToDense(o)) ELSE Unchanged(db_)

OtherHllCommand(db_, cmd) ==
  LET key == cmd.keys[1]
  IN IF cmd.name = "set" THEN Stores(db_, key, OtherString)
     ELSE IF db_[key] = Unstored THEN Unchanged(db_) ELSE Stores(db_, key, Unstored)

CallHll(db_, cmd, max) ==
  CASE cmd.name = "pfadd" -> PfaddCommand(db_, cmd, max)
    [] cmd.name = "pfcount" -> PfcountCommand(db_, cmd)
    [] cmd.name = "pfmerge" -> PfmergeCommand(db_, cmd)
    [] cmd.name = "pfdebug" -> PfdebugCommand(db_, cmd)
    [] OTHER -> OtherHllCommand(db_, cmd)

(* What sets would hold in the place of the HyperLogLogs.                  *)
SeenAfter(before, db_, cmd) ==
  LET key == cmd.keys[1]
      now_ == CASE cmd.name = "pfadd" -> before[key] \cup {cmd.elements[i] : i \in DOMAIN cmd.elements}
                [] cmd.name = "pfmerge" -> UNION {before[k] : k \in KeysOf(cmd)}
                [] cmd.name \in {"set", "del"} -> {}
                [] OTHER -> before[key]
  IN IF cmd.name \in {"pfadd", "pfmerge"} /\ RefusesHLL(db_, cmd) THEN before
     ELSE [before EXCEPT ![key] = now_]

---------------------------------------------------------------------------
HllCommand(name, keys, elements) == [name |-> name, keys |-> keys, elements |-> elements]
HllCommands ==
  {HllCommand("pfadd", <<k>>, e) : k \in HllKeys, e \in ElementLists}
  \cup {HllCommand(name, <<k>>, <<>>) : name \in {"pfcount", "pfdebug", "set", "del"}, k \in HllKeys}
  \cup {HllCommand(name, <<k, l>>, <<>>) : name \in {"pfcount", "pfmerge"}, k \in HllKeys, l \in HllKeys}

HllInit ==
  /\ strings = [s \in HllSides |-> [k \in HllKeys |-> Unstored]]
  /\ maxBytes \in SparseMaxBytes
  /\ link = <<>>
  /\ counted = [s \in HllSides |-> NotCounted]
  /\ seen = [s \in HllSides |-> [k \in HllKeys |-> {}]]
  /\ hllLeft \in HllChances

HllSpend(kind) == hllLeft[kind] > 0 /\ hllLeft' = [hllLeft EXCEPT ![kind] = @ - 1]

RunsHll(side, cmd, result) ==
  /\ strings' = [strings EXCEPT ![side] = result.strings]
  /\ counted' = [counted EXCEPT ![side] = result.count]
  /\ seen' = [seen EXCEPT ![side] = SeenAfter(@, strings[side], cmd)]
  /\ UNCHANGED maxBytes

(* A client of the master: call() propagates what left the server dirty.   *)
CallsHll(cmd, result) ==
  /\ RunsHll("master", cmd, result)
  /\ link' = IF result.dirty THEN Append(link, cmd) ELSE link
SendHll(cmd) ==
  /\ HllSpend(cmd.name)
  /\ Len(link) < HllLinkMax
  /\ CallsHll(cmd, CallHll(strings["master"], cmd, maxBytes["master"]))

(* The replica executes the next command of the link.                      *)
ReplicateHll ==
  /\ link # <<>> /\ link' = Tail(link)
  /\ RunsHll("replica", Head(link), CallHll(strings["replica"], Head(link), maxBytes["replica"]))
  /\ UNCHANGED hllLeft

(* PFCOUNT has no "w" flag: a replica's own client may call it, and what   *)
(* it stores in the string is the replica's alone.                         *)
AskReplica(cmd) ==
  /\ cmd.name = "pfcount" /\ HllSpend("ask")
  /\ RunsHll("replica", cmd, CallHll(strings["replica"], cmd, maxBytes["replica"]))
  /\ UNCHANGED link

(* CONFIG SET hll-sparse-max-bytes.                                        *)
LimitSparse(side, n) ==
  /\ n # maxBytes[side] /\ HllSpend("limit")
  /\ maxBytes' = [maxBytes EXCEPT ![side] = n]
  /\ UNCHANGED <<strings, link, counted, seen>>

HllNext ==
  \/ \E cmd \in HllCommands : SendHll(cmd) \/ AskReplica(cmd)
  \/ ReplicateHll
  \/ \E side \in HllSides, n \in SparseLimits : LimitSparse(side, n)
HllSpec == HllInit /\ [][HllNext]_hllVars

---------------------------------------------------------------------------
(* What a HyperLogLog of a set is.                                         *)
HllOf(S) ==
  [r \in Registers |->
     LET lengths == {0} \cup {PatLen(h) : h \in {x \in S : RegisterOf(x) = r}}
     IN CHOOSE c \in lengths : \A d \in lengths : d <= c]

(* However it is encoded and whatever way it came to be (splits and merges *)
(* of opcodes, conversions, PFMERGE over itself), a HyperLogLog is the one *)
(* of the elements it was given, and a cached estimate is that of these.   *)
RegistersAreThoseSeen ==
  \A s \in HllSides, k \in HllKeys : LET o == strings[s][k] IN
    IsHLL(o) => /\ \A r \in Registers : GetRegister(o, r) = HllOf(seen[s][k])[r]
                /\ o.card \in {Uncached, EstimateOf(HllOf(seen[s][k]))}

(* The opcodes cover the registers within the bounds of their fields and   *)
(* of the configuration; dense registers leave the null terminator alone.  *)
EncodingsAreSound ==
  \A s \in HllSides, k \in HllKeys : LET o == strings[s][k] IN
    /\ o.encoding = "sparse" =>
         /\ RunsUpTo(o.ops, Len(o.ops)) = HllRegisters
         /\ \A i \in DOMAIN o.ops :
              CASE o.ops[i].op = "zero" -> o.ops[i].len \in 1 .. ZeroMaxLen
                [] o.ops[i].op = "xzero" -> o.ops[i].len \in 1 .. HllRegisters
                [] OTHER -> o.ops[i].len \in 1 .. ValMaxLen /\ o.ops[i].val \in 1 .. ValMaxValue
         /\ \E max \in SparseLimits \cup {HeaderSize + 2} : StringBytes(o.ops) <= max
    /\ o.encoding = "dense" =>
         /\ \A i \in 0 .. DenseBytes : o.bytes[i] \in 0 .. 2 ^ HllByte - 1
         /\ o.bytes[DenseBytes] = 0

(* PFCOUNT replies the estimate for the union of what the keys were given, *)
(* from the cache, the opcodes, the dense registers or a merge.            *)
CountsAreOfUnion ==
  \A s \in HllSides : counted[s] # NotCounted =>
    counted[s].card = EstimateOf(HllOf(UNION {seen[s][k] : k \in counted[s].keys}))

(* What the master did not propagate made no difference: a replica that    *)
(* executed everything has the same keys, with equal registers.            *)
ReplicaHasSameHll ==
  link = <<>> =>
    \A k \in HllKeys :
      LET m == strings["master"][k]
          r == strings["replica"][k]
      IN /\ IsHLL(m) = IsHLL(r) /\ (~IsHLL(m) => m = r)
         /\ HllOf(seen["master"][k]) = HllOf(seen["replica"][k])
=============================================================================
