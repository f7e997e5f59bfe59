---------------------------- MODULE RedisDict ----------------------------
(***************************************************************************)
(* The hash table of Redis (dict.c): chains in one table, or in two while  *)
(* it is rehashed a bucket at a time by the operations themselves and by   *)
(* the server's cron; the safe iterator of KEYS, SMEMBERS and the AOF      *)
(* rewrite; and the stateless cursor of SCAN, used between any two         *)
(* commands, whatever the table did meanwhile.                             *)
(***************************************************************************)
EXTENDS Integers, Sequences, FiniteSets, SequencesExt

CONSTANTS Entries,       \* the keys that may be stored
          HashOf,        \* [Entries -> 0 .. 2^WordBits - 1]
          WordBits,      \* bits of an unsigned long, as far as hashes use them
          InitialSize,   \* DICT_HT_INITIAL_SIZE, a power of two
          ForceRatio,    \* dict_force_resize_ratio
          MinFill,       \* REDIS_HT_MINFILL, in percent
          CronSteps,     \* buckets one cron call moves
          DictChances    \* the bound: what happens, at most how often

DictChance == {"add", "delete", "iterate", "scan", "cron", "child"}
ASSUME DictAssumption ==
  /\ HashOf \in [Entries -> 0 .. 2 ^ WordBits - 1]
  /\ {InitialSize, ForceRatio, MinFill, CronSteps} \subseteq Nat \ {0}
  /\ DictChances \subseteq [DictChance -> Nat]

VARIABLES
  dict,     \* tables ht[0] and ht[1], rehashidx, iterators
  policy,   \* dict_can_resize, which the cron turns off while a child lives
  iterator, \* the safe iterator of the command being executed
  scan,     \* the cursor a client holds, what it was given, what it must be given
  content,  \* what was added and not deleted
  odds      \* what may still happen
dictVars == <<dict, policy, iterator, scan, content, odds>>

NoTable == <<>>
Table(size) == [b \in 1 .. size |-> <<>>]
TableSize(t) == Len(t)
Bucket(t, h) == (h % TableSize(t)) + 1
Used(t) == FoldLeft(LAMBDA n, chain : n + Len(chain), 0, t)
Rehashing(d) == d.rehashidx # -1

---------------------------------------------------------------------------
(* Sizes.                                                                  *)

NextPower(size) ==
  CHOOSE p \in {InitialSize * 2 ^ i : i \in 0 .. WordBits} :
    /\ p >= size
    /\ p = InitialSize \/ p \div 2 < size

Expand(d, size) ==
  IF Rehashing(d) \/ Used(d.main) > size THEN d
  ELSE IF d.main = NoTable THEN [d EXCEPT !.main = Table(NextPower(size))]
  ELSE [d EXCEPT !.next = Table(NextPower(size)), !.rehashidx = 0]

ExpandIfNeeded(d) ==
  IF Rehashing(d) THEN d
  ELSE IF d.main = NoTable THEN Expand(d, InitialSize)
  ELSE IF /\ Used(d.main) >= TableSize(d.main)
          /\ policy = "resize" \/ Used(d.main) \div TableSize(d.main) > ForceRatio
       THEN Expand(d, Used(d.main) * 2)
  ELSE d

AtLeast(m, n) == IF m >= n THEN m ELSE n
DictResize(d) ==
  IF policy = "avoid" \/ Rehashing(d) THEN d ELSE Expand(d, AtLeast(Used(d.main), InitialSize))

NeedsResize(d) ==
  LET size == TableSize(d.main) + TableSize(d.next)
      used == Used(d.main) + Used(d.next)
  IN size > InitialSize /\ (used * 100) \div size < MinFill

---------------------------------------------------------------------------
(* Rehashing: one bucket, its first entry first, each put in front.        *)

Chained(t, e) == [t EXCEPT ![Bucket(t, HashOf[e])] = <<e>> \o @]
Moved(t, chain) == FoldLeft(LAMBDA u, e : Chained(u, e), t, chain)
NextUsed(d) == CHOOSE b \in d.rehashidx .. TableSize(d.main) - 1 :
                 /\ d.main[b + 1] # <<>>
                 /\ \A a \in d.rehashidx .. b - 1 : d.main[a + 1] = <<>>

RehashBucket(d) ==
  IF ~Rehashing(d) THEN d
  ELSE IF Used(d.main) = 0 THEN [d EXCEPT !.main = d.next, !.next = NoTable, !.rehashidx = -1]
  ELSE LET b == NextUsed(d)
       IN [d EXCEPT !.next = Moved(@, d.main[b + 1]), !.main[b + 1] = <<>>, !.rehashidx = b + 1]
Rehash(d, n) == FoldLeft(LAMBDA e, i : RehashBucket(e), d, [i \in 1 .. n |-> i])

RehashStep(d) == IF d.iterators = 0 THEN RehashBucket(d) ELSE d

---------------------------------------------------------------------------
(* Lookups, additions, deletions.                                          *)

InTable(t, e) == t # NoTable /\ e \in ToSet(t[Bucket(t, HashOf[e])])
Found(d, e) == InTable(d.main, e) \/ (Rehashing(d) /\ InTable(d.next, e))

Linked(d, e) ==
  IF Rehashing(d) THEN [d EXCEPT !.next = Chained(@, e)] ELSE [d EXCEPT !.main = Chained(@, e)]
AddRaw(d, e) ==
  LET f == ExpandIfNeeded(RehashStep(d)) IN IF Found(f, e) THEN f ELSE Linked(f, e)

WithoutEntry(chain, e) == SelectSeq(chain, LAMBDA f : f # e)
Unchained(t, e) == IF t = NoTable THEN t ELSE [t EXCEPT ![Bucket(t, HashOf[e])] = WithoutEntry(@, e)]
GenericDelete(d, e) ==
  LET f == RehashStep(d)
  IN IF InTable(f.main, e) THEN [f EXCEPT !.main = Unchained(@, e)]
     ELSE [f EXCEPT !.next = Unchained(@, e)]

---------------------------------------------------------------------------
(* The safe iterator. `rest` is the chain from nextEntry on, saved when    *)
(* the entry before it was returned.                                       *)

NotIterating == [on |-> 0, table |-> 0, index |-> -1, rest |-> <<>>,
                 returned |-> <<>>, stays |-> {}]

\* The bucket the iterator turns to when the chain it follows is used up
NextBucket(d, i) ==
  LET at == i.index + 1
      main == {<<0, b>> : b \in {b \in at .. TableSize(d.main) - 1 : i.table = 0 /\ d.main[b + 1] # <<>>}}
      next == IF Rehashing(d)
              THEN {<<1, b>> : b \in {b \in (IF i.table = 1 THEN at ELSE 0) .. TableSize(d.next) - 1 :
                                        d.next[b + 1] # <<>>}}
              ELSE {}
      first(set) == CHOOSE p \in set : \A q \in set : p[2] <= q[2]
  IN IF main # {} THEN first(main) ELSE IF next # {} THEN first(next) ELSE <<2, 0>>

Iterating == iterator.on = 1
IteratorReturns(i, e, rest) ==
  iterator' = [i EXCEPT !.rest = rest, !.returned = Append(@, e), !.on = 1]

DictNext ==
  LET d == IF iterator.index = -1 THEN [dict EXCEPT !.iterators = @ + 1] ELSE dict
      p == NextBucket(d, iterator)
      chain == IF p[1] = 0 THEN d.main[p[2] + 1] ELSE d.next[p[2] + 1]
  IN /\ Iterating
     /\ dict' = d
     /\ IF iterator.rest # <<>>
        THEN IteratorReturns(iterator, iterator.rest[1], Tail(iterator.rest))
        ELSE IF p[1] # 2
        THEN IteratorReturns([iterator EXCEPT !.table = p[1], !.index = p[2]], chain[1], Tail(chain))
        ELSE iterator' = [iterator EXCEPT !.on = 2, !.index = TableSize(d.main)]
     /\ UNCHANGED <<policy, scan, content, odds>>

---------------------------------------------------------------------------
(* SCAN: the cursor counts with its bits reversed; both tables are looked  *)
(* at in the smaller one's bucket and every bucket that expands it.        *)

Words == 2 ^ WordBits
Bit(v, i) == (v \div 2 ^ i) % 2
Rev(v) == FoldLeft(LAMBDA n, i : n + Bit(v, i - 1) * 2 ^ (WordBits - i), 0, [i \in 1 .. WordBits |-> i])
NextCursor(v, size) == Rev((Rev((v % size) + (Words - size)) + 1) % Words)

Smaller(d) == IF TableSize(d.main) > TableSize(d.next) THEN d.next ELSE d.main
Bigger(d) == IF TableSize(d.main) > TableSize(d.next) THEN d.main ELSE d.next
ExpansionsOne(v, t0, t1) == {v % TableSize(t1)}
Expansions(v, t0, t1) == {b \in v % TableSize(t1) .. TableSize(t1) - 1 : b % TableSize(t0) = v % TableSize(t0)}

Scanned(d, v) ==
  IF Rehashing(d)
  THEN ToSet(Smaller(d)[Bucket(Smaller(d), v)])
         \cup UNION {ToSet(Bigger(d)[b + 1]) : b \in Expansions(v, Smaller(d), Bigger(d))}
  ELSE ToSet(d.main[Bucket(d.main, v)])
ScanTable(d) == IF Rehashing(d) THEN Smaller(d) ELSE d.main

---------------------------------------------------------------------------
DictInit ==
  /\ dict = [main |-> NoTable, next |-> NoTable, rehashidx |-> -1, iterators |-> 0]
  /\ policy = "resize"
  /\ iterator = NotIterating
  /\ scan = [on |-> FALSE, cursor |-> 0, seen |-> {}, stays |-> {}, shrunk |-> FALSE]
  /\ content = {}
  /\ odds \in DictChances

May(kind) == odds[kind] > 0 /\ odds' = [odds EXCEPT ![kind] = @ - 1]

\* A shrink by four or more starts while a cursor is held
Shrinks(d) == Rehashing(d) /\ TableSize(d.next) * 4 <= TableSize(d.main)
Holding(s, d) == [s EXCEPT !.shrunk = @ \/ (s.on /\ Shrinks(d))]

Add(e) ==
  /\ May("add")
  /\ dict' = AddRaw(dict, e)
  /\ content' = content \cup {e}
  /\ scan' = Holding(scan, dict')
  /\ UNCHANGED <<policy, iterator>>

\* While it iterates, a command deletes only what it was just given
DictDelete(e) ==
  /\ May("delete")
  /\ e \in content
  /\ iterator.on = 1 => iterator.returned # <<>> /\ e = Last(iterator.returned)
  /\ dict' = GenericDelete(dict, e)
  /\ content' = content \ {e}
  /\ scan' = [scan EXCEPT !.stays = @ \ {e}]
  /\ iterator' = [iterator EXCEPT !.stays = @ \ {e}]
  /\ UNCHANGED policy

\* dictFind() and dictGetRandomKey() move a bucket too
DictFind ==
  /\ Rehashing(dict)
  /\ dict' = RehashStep(dict)
  /\ UNCHANGED <<policy, iterator, scan, content, odds>>

GetSafeIterator ==
  /\ iterator.on = 0
  /\ May("iterate")
  /\ iterator' = [NotIterating EXCEPT !.on = 1, !.stays = content]
  /\ UNCHANGED <<dict, policy, scan, content>>

ReleaseIterator ==
  /\ iterator.on = 2
  /\ iterator' = NotIterating
  /\ dict' = [dict EXCEPT !.iterators = @ - 1]
  /\ UNCHANGED <<policy, scan, content, odds>>

\* The commands above run to their end before anything below happens
NoIterator == iterator.on = 0

ScanStarts ==
  /\ NoIterator /\ ~scan.on
  /\ May("scan")
  /\ scan' = [on |-> TRUE, cursor |-> 0, seen |-> {}, stays |-> content, shrunk |-> FALSE]
  /\ UNCHANGED <<dict, policy, iterator, content>>

DictScan ==
  LET v == IF content = {} THEN 0 ELSE NextCursor(scan.cursor, TableSize(ScanTable(dict)))
      given == IF content = {} THEN {} ELSE Scanned(dict, scan.cursor)
  IN /\ NoIterator /\ scan.on
     /\ scan' = [scan EXCEPT !.cursor = v, !.seen = @ \cup given, !.on = v # 0]
     /\ UNCHANGED <<dict, policy, iterator, content, odds>>

\* databasesCron(): nothing while a child lives, else resize, then rehash
DatabasesCron ==
  /\ NoIterator
  /\ May("cron")
  /\ policy = "resize"
  /\ LET d == IF NeedsResize(dict) THEN DictResize(dict) ELSE dict
     IN dict' = Rehash(d, CronSteps) /\ scan' = Holding(scan, d)
  /\ UNCHANGED <<policy, iterator, content>>

UpdateDictResizePolicy ==
  /\ NoIterator
  /\ May("child")
  /\ policy' = IF policy = "resize" THEN "avoid" ELSE "resize"
  /\ UNCHANGED <<dict, iterator, scan, content>>

DictNextState ==
  \/ \E e \in Entries : Add(e) \/ DictDelete(e)
  \/ DictFind
  \/ GetSafeIterator \/ DictNext \/ ReleaseIterator
  \/ ScanStarts \/ DictScan
  \/ DatabasesCron
  \/ UpdateDictResizePolicy

DictSpec == DictInit /\ [][DictNextState]_dictVars

---------------------------------------------------------------------------
(* Whatever stage a rehash is in, the two tables hold each stored key once *)
(* and the bucket a lookup goes to is where it is; nothing waits in the    *)
(* buckets of the old table that were already moved.                       *)
TablesHoldContent ==
  LET chains == FlattenSeq(dict.main) \o FlattenSeq(dict.next)
  IN /\ Len(chains) = Cardinality(content) /\ ToSet(chains) = content
     /\ \A e \in content : Found(dict, e)
     /\ Rehashing(dict) => \A b \in 1 .. dict.rehashidx : dict.main[b] = <<>>

(* A safe iterator gives every entry that was stored all along, once,      *)
(* although its command adds and deletes entries meanwhile.                *)
IterationIsComplete ==
  /\ IsInjective(SelectSeq(iterator.returned, LAMBDA e : e \in iterator.stays))
  /\ iterator.on = 2 => iterator.stays \subseteq ToSet(iterator.returned)

(* A full SCAN has given every key that was there from its first call to   *)
(* its last, while the table grew, shrank and was rehashed between the     *)
(* calls; but for a shrink to a quarter or less, see ScanMissesNothing.    *)
ScanSurvivesRehash == ~scan.on /\ ~scan.shrunk => scan.stays \subseteq scan.seen

(* The comment of dictScan() promises it for any resize (dict.c:674).      *)
ScanMissesNothing == ~scan.on => scan.stays \subseteq scan.seen
=============================================================================
