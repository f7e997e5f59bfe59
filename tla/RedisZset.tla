---------------------------- MODULE RedisZset ----------------------------
(***************************************************************************)
(* A sorted set in its two encodings (t_zset.c): short ones are a packed   *)
(* list of pairs in order; larger ones a hash table from the elements to   *)
(* their scores beside a skip list, whose links carry the number of nodes  *)
(* they jump over so that ranks are found in logarithmic time. One key is  *)
(* modelled, with ZADD, ZINCRBY, ZREM, ZREMRANGEBY*, ZUNIONSTORE and       *)
(* ZINTERSTORE, and the answers of ZRANGE, ZRANK and ZCOUNT.               *)
(***************************************************************************)
EXTENDS Integers, Sequences, FiniteSets, SequencesExt

CONSTANTS Elements,        \* integers: an element is its place in the order of strings
          Scores,          \* the scores that are given
          Infinity,        \* the score no sum goes beyond
          MaxLevel,        \* ZSKIPLIST_MAXLEVEL
          MaxZiplist,      \* zset_max_ziplist_entries
          LongElements,    \* those longer than zset_max_ziplist_value
          Towers,          \* the levels zslRandomLevel() may give the elements
          Weights,         \* the weights ZUNIONSTORE gives the sorted set
          Header, NilNode  \* zsl->header and NULL

ASSUME ZsetAssumption ==
  /\ Elements \subseteq Int /\ LongElements \subseteq Elements
  /\ Scores \subseteq -Infinity .. Infinity
  /\ Towers \subseteq [Elements -> 1 .. MaxLevel] /\ Weights \subseteq Int
  /\ {MaxLevel, MaxZiplist, Infinity} \subseteq Nat \ {0}
  /\ Header \notin Elements /\ NilNode \notin Elements \cup {Header}

VARIABLES zset,    \* the sorted set as it is stored
          ref      \* the sorted set as a client knows it
zsetVars == <<zset, ref>>

Nodes == Elements \cup {Header}
NoNode == [score |-> 0, fwd |-> [i \in 1 .. MaxLevel |-> NilNode],
           span |-> [i \in 1 .. MaxLevel |-> 0], back |-> NilNode]
EmptySkiplist ==
  [enc |-> "skiplist", pairs |-> <<>>, node |-> [n \in Nodes |-> NoNode],
   tail |-> NilNode, length |-> 0, level |-> 1, dict |-> <<>>]
EmptyZiplist == [EmptySkiplist EXCEPT !.enc = "ziplist"]
Pair(e, score) == [e |-> e, score |-> score]

---------------------------------------------------------------------------
(* The skip list. Descend gives for each level the node the search stops   *)
(* at and how many nodes it has passed.                                    *)

Fwd(z, n, i) == z.node[n].fwd[i]
WalkStep(z, i, c, Keep(_, _)) ==
  LET n == Fwd(z, c.x, i)
      r == c.rank + z.node[c.x].span[i]
  IN IF n # NilNode /\ Keep(n, r) THEN [x |-> n, rank |-> r] ELSE c
Walk(z, i, c, Keep(_, _)) ==
  FoldLeft(LAMBDA d, j : WalkStep(z, i, d, Keep), c, [j \in 1 .. z.length |-> j])
Descend(z, Keep(_, _)) ==
  LET at[i \in 1 .. z.level] ==
        Walk(z, i, IF i = z.level THEN [x |-> Header, rank |-> 0] ELSE at[i + 1], Keep)
  IN at
Less(s1, e1, s2, e2) == s1 < s2 \/ (s1 = s2 /\ e1 < e2)
Position(z, score, e) == Descend(z, LAMBDA n, r : Less(z.node[n].score, n, score, e))

Larger(m, n) == IF m >= n THEN m ELSE n
SpanAfterOne(span, rank0, rank) == span - (rank0 - rank) + 1
SpanAfter(span, rank0, rank) == span - (rank0 - rank)
ZslInsert(z, e, score, height) ==
  LET at == Position(z, score, e)
      levels == 1 .. Larger(z.level, height)
      upd(i) == IF i <= z.level THEN at[i].x ELSE Header
      rank(i) == IF i <= z.level THEN at[i].rank ELSE 0
      span(i) == IF i <= z.level THEN z.node[upd(i)].span[i] ELSE z.length
      next == Fwd(z, upd(1), 1)
      new == [score |-> score, back |-> IF upd(1) = Header THEN NilNode ELSE upd(1),
              fwd |-> [i \in 1 .. MaxLevel |-> IF i <= height THEN Fwd(z, upd(i), i) ELSE NilNode],
              span |-> [i \in 1 .. MaxLevel |->
                          IF i <= height THEN SpanAfter(span(i), rank(1), rank(i)) ELSE 0]]
      linked(n) ==
        [z.node[n] EXCEPT
           !.fwd = [i \in 1 .. MaxLevel |-> IF i <= height /\ upd(i) = n THEN e ELSE @[i]],
           !.span = [i \in 1 .. MaxLevel |->
                       IF i \notin levels \/ upd(i) # n THEN @[i]
                       ELSE IF i <= height THEN rank(1) - rank(i) + 1 ELSE @[i] + 1],
           !.back = IF n = next THEN e ELSE @]
  IN [z EXCEPT !.node = [n \in Nodes |-> IF n = e THEN new ELSE linked(n)],
               !.tail = IF next = NilNode THEN e ELSE @,
               !.length = @ + 1, !.level = Larger(z.level, height)]

ZslDeleteNode(z, x, at) ==
  LET next == Fwd(z, x, 1)
      unlinked(n) ==
        [z.node[n] EXCEPT
           !.fwd = [i \in 1 .. MaxLevel |->
                      IF i <= z.level /\ at[i].x = n /\ @[i] = x THEN Fwd(z, x, i) ELSE @[i]],
           !.span = [i \in 1 .. MaxLevel |->
                       IF i > z.level \/ at[i].x # n THEN @[i]
                       ELSE IF Fwd(z, n, i) = x THEN @[i] + z.node[x].span[i] - 1 ELSE @[i] - 1],
           !.back = IF n = next THEN z.node[x].back ELSE @]
      node == [n \in Nodes |-> IF n = x THEN NoNode ELSE unlinked(n)]
      used == {i \in 2 .. z.level : node[Header].fwd[i] # NilNode}
  IN [z EXCEPT !.node = node, !.tail = IF next = NilNode THEN z.node[x].back ELSE @,
               !.length = @ - 1, !.level = IF used = {} THEN 1 ELSE CHOOSE i \in used : \A j \in used : j <= i]

ZslDelete(z, score, e) ==
  LET at == Position(z, score, e) IN ZslDeleteNode(z, Fwd(z, at[1].x, 1), at)

DictWithout(d, e) == [f \in DOMAIN d \ {e} |-> d[f]]
DictWith(d, e, score) == [f \in DOMAIN d \cup {e} |-> IF f = e THEN score ELSE d[f]]

\* zslDeleteRangeBy*(): from where the search stopped, as long as In holds
DeleteStep(z, at, In(_, _), count) ==
  LET x == Fwd(z, at[1].x, 1)
  IN IF x # NilNode /\ In(x, count)
     THEN [ZslDeleteNode(z, x, at) EXCEPT !.dict = DictWithout(@, x)] ELSE z
ZslDeleteRange(z, Keep(_, _), In(_, _)) ==
  LET at == Descend(z, Keep)
  IN FoldLeft(LAMBDA y, j : DeleteStep(y, at, In, at[1].rank + j), z, [j \in 1 .. z.length |-> j])

---------------------------------------------------------------------------
(* Ranges of scores or, with the elements for keys, of strings.            *)

RangesOf(by, bounds) == [by : {by}, min : bounds, max : bounds, minex : BOOLEAN, maxex : BOOLEAN]
RangeSpec == RangesOf("score", Scores) \cup RangesOf("lex", Elements)
GteMin(v, range) == IF range.minex THEN v > range.min ELSE v >= range.min
LteMax(v, range) == IF range.maxex THEN v < range.max ELSE v <= range.max
NeverIn(range) == range.min > range.max \/ (range.min = range.max /\ (range.minex \/ range.maxex))
KeyOf(e, score, range) == IF range.by = "score" THEN score ELSE e
NodeKey(z, n, range) == KeyOf(n, z.node[n].score, range)

ZslIsInRange(z, range) ==
  LET first == Fwd(z, Header, 1)
  IN /\ ~NeverIn(range)
     /\ z.tail # NilNode /\ GteMin(NodeKey(z, z.tail, range), range)
     /\ first # NilNode /\ LteMax(NodeKey(z, first, range), range)
ZslFirstInRange(z, range) ==
  LET x == Fwd(z, Descend(z, LAMBDA n, r : ~GteMin(NodeKey(z, n, range), range))[1].x, 1)
  IN IF ZslIsInRange(z, range) /\ LteMax(NodeKey(z, x, range), range) THEN x ELSE NilNode
ZslLastInRange(z, range) ==
  LET x == Descend(z, LAMBDA n, r : LteMax(NodeKey(z, n, range), range))[1].x
  IN IF ZslIsInRange(z, range) /\ GteMin(NodeKey(z, x, range), range) THEN x ELSE NilNode

ZslGetRank(z, e) ==
  LET score == z.dict[e]
      at == Descend(z, LAMBDA n, r : z.node[n].score < score \/ (z.node[n].score = score /\ n <= e))
  IN IF \E i \in DOMAIN at : at[i].x = e THEN (CHOOSE c \in ToSet(at) : c.x = e).rank ELSE 0
ZslGetElementByRank(z, rank) ==
  LET at == Descend(z, LAMBDA n, r : r <= rank)
      hits == {i \in DOMAIN at : at[i].rank = rank}
  IN IF hits = {} THEN NilNode ELSE at[CHOOSE i \in hits : \A j \in hits : j <= i].x

---------------------------------------------------------------------------
(* The packed list of pairs.                                               *)

ZzlIndex(z, Holds(_)) == SelectInSeq(z.pairs, Holds)
ZzlInsert(z, e, score) ==
  LET i == ZzlIndex(z, LAMBDA p : Less(score, e, p.score, p.e))
  IN [z EXCEPT !.pairs = IF i = 0 THEN Append(@, Pair(e, score)) ELSE InsertAt(@, i, Pair(e, score))]
ZzlDelete(z, e) == [z EXCEPT !.pairs = SelectSeq(@, LAMBDA p : p.e # e)]
PairIn(p, range) == GteMin(KeyOf(p.e, p.score, range), range) /\ LteMax(KeyOf(p.e, p.score, range), range)
ZzlIsInRange(z, range) ==
  /\ ~NeverIn(range)
  /\ z.pairs # <<>>
  /\ GteMin(KeyOf(Last(z.pairs).e, Last(z.pairs).score, range), range)
  /\ LteMax(KeyOf(z.pairs[1].e, z.pairs[1].score, range), range)
ZzlFirstInRange(z, range) ==
  LET i == ZzlIndex(z, LAMBDA p : GteMin(KeyOf(p.e, p.score, range), range))
  IN IF ZzlIsInRange(z, range) /\ i # 0 /\ PairIn(z.pairs[i], range) THEN i ELSE 0
ZzlLastInRange(z, range) ==
  LET i == SelectLastInSeq(z.pairs, LAMBDA p : LteMax(KeyOf(p.e, p.score, range), range))
  IN IF ZzlIsInRange(z, range) /\ i # 0 /\ PairIn(z.pairs[i], range) THEN i ELSE 0
ZzlDeleteRange(z, first, count) ==
  [z EXCEPT !.pairs = SubSeq(@, 1, first - 1) \o SubSeq(@, first + count, Len(@))]
ZzlCountFrom(z, first, range) ==
  LET over == {i \in first .. Len(z.pairs) : ~LteMax(KeyOf(z.pairs[i].e, z.pairs[i].score, range), range)}
  IN (IF over = {} THEN Len(z.pairs) + 1 ELSE CHOOSE i \in over : \A j \in over : i <= j) - first

---------------------------------------------------------------------------
(* Either encoding.                                                        *)

IsZiplist(z) == z.enc = "ziplist"
ZsetLength(z) == IF IsZiplist(z) THEN Len(z.pairs) ELSE z.length
ScoreOf(z, e) ==
  IF IsZiplist(z) THEN z.pairs[ZzlIndex(z, LAMBDA p : p.e = e)].score ELSE z.dict[e]
ElementsOf(z) == IF IsZiplist(z) THEN {p.e : p \in ToSet(z.pairs)} ELSE DOMAIN z.dict

Added(z, e, score, height) ==
  IF IsZiplist(z) THEN ZzlInsert(z, e, score)
  ELSE [ZslInsert(z, e, score, height) EXCEPT !.dict = DictWith(@, e, score)]
ToSkiplist(z, heights) ==
  FoldLeft(LAMBDA y, p : Added(y, p.e, p.score, heights[p.e]), EmptySkiplist, z.pairs)
ForwardNodes(z) ==
  FoldLeft(LAMBDA s, j : LET n == Fwd(z, IF s = <<>> THEN Header ELSE Last(s), 1)
                         IN IF n = NilNode THEN s ELSE Append(s, n), <<>>, [j \in 1 .. Cardinality(Elements) |-> j])
ToZiplist(z) ==
  [EmptyZiplist EXCEPT !.pairs = [i \in 1 .. z.length |-> Pair(ForwardNodes(z)[i], z.node[ForwardNodes(z)[i]].score)]]

Rescored(z, e, score, height) ==
  IF IsZiplist(z) THEN ZzlInsert(ZzlDelete(z, e), e, score)
  ELSE [ZslInsert(ZslDelete(z, z.dict[e], e), e, score, height) EXCEPT !.dict = DictWith(@, e, score)]
Grew(z, e, heights) ==
  IF IsZiplist(z) /\ (Len(z.pairs) > MaxZiplist \/ e \in LongElements) THEN ToSkiplist(z, heights) ELSE z
Removed(z, e) ==
  IF IsZiplist(z) THEN ZzlDelete(z, e)
  ELSE [ZslDelete(z, z.dict[e], e) EXCEPT !.dict = DictWithout(@, e)]

\* dbDelete() of a sorted set that became empty: the next ZADD makes a new one
Kept(z) == IF ZsetLength(z) = 0 THEN EmptyZiplist ELSE z

Plus(a, b) == IF a = -b THEN 0
              ELSE IF Infinity \in {a, b} THEN Infinity ELSE IF -Infinity \in {a, b} THEN -Infinity ELSE a + b
Times(w, s) == IF s \in {Infinity, -Infinity} THEN (IF w = 0 THEN 0 ELSE IF w > 0 THEN s ELSE -s) ELSE w * s

---------------------------------------------------------------------------
(* The commands.                                                           *)

ZsetInit == zset = EmptyZiplist /\ ref = <<>>

FreshEncoding(z, e) == IF ZsetLength(z) = 0 /\ e \in LongElements THEN EmptySkiplist ELSE z

\* ZADD, and ZINCRBY as the sum is the score that is set
ZaddGeneric(e, score, heights) ==
  LET z == FreshEncoding(zset, e)
      known == e \in ElementsOf(z)
      same == known /\ ScoreOf(z, e) = score
  IN /\ zset' = IF same THEN z
                ELSE IF known THEN Rescored(z, e, score, heights[e])
                ELSE Grew(Added(z, e, score, heights[e]), e, heights)
     /\ ref' = DictWith(ref, e, score)
Zadd == \E e \in Elements, score \in Scores, heights \in Towers : ZaddGeneric(e, score, heights)
\* Infinity and its opposite make no number: the command fails
Zincrby == \E e \in Elements, by \in Scores, heights \in Towers :
  LET cur == IF e \in DOMAIN ref THEN ref[e] ELSE 0
  IN /\ ~(cur \in {Infinity, -Infinity} /\ by = -cur)
     /\ Plus(cur, by) \in -Infinity .. Infinity
     /\ Plus(cur, by) \in Scores
     /\ ZaddGeneric(e, Plus(cur, by), heights)

Zrem == \E e \in DOMAIN ref :
  /\ zset' = Kept(Removed(zset, e))
  /\ ref' = DictWithout(ref, e)

\* Negative indexes count from the end
Index0(i, len) == IF i < 0 THEN len + i ELSE i
FromZero(i) == IF i < 0 THEN 0 ELSE i
SortedRef == SetToSortSeq(DOMAIN ref, LAMBDA a, b : Less(ref[a], a, ref[b], b))
RefWithout(gone) == [e \in DOMAIN ref \ gone |-> ref[e]]

Zremrangebyrank == \E start, end \in -Cardinality(Elements) .. Cardinality(Elements) :
  LET len == ZsetLength(zset)
      s == FromZero(Index0(start, len))
      e == IF Index0(end, len) >= len THEN len - 1 ELSE Index0(end, len)
  IN /\ s <= Index0(end, len) /\ s < len
     /\ zset' = Kept(IF IsZiplist(zset) THEN ZzlDeleteRange(zset, s + 1, e - s + 1)
                     ELSE ZslDeleteRange(zset, LAMBDA n, r : r < s + 1, LAMBDA n, r : r <= e + 1))
     /\ ref' = RefWithout({SortedRef[i] : i \in {i \in DOMAIN SortedRef : i - 1 >= s /\ i - 1 <= e}})

\* Ranges of strings mean something only while all scores are the same
Meaningful(range) == range.by = "lex" => Cardinality({ref[e] : e \in DOMAIN ref}) <= 1
BelowMin(z, n, range) == ~GteMin(NodeKey(z, n, range), range)
Zremrange == \E range \in RangeSpec :
  LET gone == {e \in DOMAIN ref : PairIn(Pair(e, ref[e]), range)}
      first == ZzlFirstInRange(zset, range)
  IN /\ ZsetLength(zset) > 0 /\ Meaningful(range)
     /\ zset' = Kept(IF ~IsZiplist(zset)
                     THEN ZslDeleteRange(zset, LAMBDA n, r : BelowMin(zset, n, range),
                                         LAMBDA n, r : LteMax(NodeKey(zset, n, range), range))
                     ELSE IF first = 0 THEN zset
                     ELSE ZzlDeleteRange(zset, first, ZzlCountFrom(zset, first, range)))
     /\ ref' = RefWithout(gone)

---------------------------------------------------------------------------
(* ZUNIONSTORE and ZINTERSTORE of this key and a plain set, into this key. *)

AggregateOf(how, a, b) ==
  IF how = "sum" THEN Plus(a, b) ELSE IF how = "min" THEN (IF b < a THEN b ELSE a) ELSE (IF b > a THEN b ELSE a)
SourceOf(f, weight) == [scores |-> f, weight |-> weight]
\* The smaller source first; of two equally large ones, either
Ordered(src) == IF Cardinality(DOMAIN src[2].scores) < Cardinality(DOMAIN src[1].scores) THEN Reverse(src) ELSE src
InterScores(src, how) ==
  [e \in DOMAIN src[1].scores \cap DOMAIN src[2].scores |->
     AggregateOf(how, Times(src[1].weight, src[1].scores[e]), Times(src[2].weight, src[2].scores[e]))]
Accumulated(acc, source, how) ==
  [e \in DOMAIN acc \cup DOMAIN source.scores |->
     LET s == Times(source.weight, source.scores[e])
     IN IF e \notin DOMAIN source.scores THEN acc[e] ELSE IF e \notin DOMAIN acc THEN s ELSE AggregateOf(how, acc[e], s)]
UnionScores(src, how) == Accumulated(Accumulated(<<>>, src[1], how), src[2], how)

Stored(f, order, heights) ==
  LET z == FoldLeft(LAMBDA y, e : Added(y, e, f[e], heights[e]), EmptySkiplist, order)
  IN IF order = <<>> THEN EmptyZiplist
     ELSE IF z.length <= MaxZiplist /\ ToSet(order) \cap LongElements = {} THEN ToZiplist(z) ELSE z

Contents(z) == [e \in ElementsOf(z) |-> ScoreOf(z, e)]
Zstore == \E how \in {"sum", "min", "max"}, weight \in Weights, plain \in SUBSET Elements,
             op \in {"union", "inter"}, heights \in Towers :
  LET src == Ordered(<<SourceOf(Contents(zset), weight), SourceOf([e \in plain |-> 1], 1)>>)
      f == IF op = "union" THEN UnionScores(src, how) ELSE InterScores(src, how)
      here == DOMAIN ref
      score(e) == IF e \in here \cap plain THEN AggregateOf(how, Times(weight, ref[e]), 1)
                  ELSE IF e \in here THEN Times(weight, ref[e]) ELSE 1
  IN /\ \A e \in DOMAIN f : f[e] \in Scores
     /\ zset' = Stored(f, SetToSeq(DOMAIN f), heights)
     /\ ref' = [e \in IF op = "union" THEN here \cup plain ELSE here \cap plain |-> score(e)]

ZsetNext == Zadd \/ Zincrby \/ Zrem \/ Zremrangebyrank \/ Zremrange \/ Zstore
ZsetSpec == ZsetInit /\ [][ZsetNext]_zsetVars

---------------------------------------------------------------------------
(* The answers.                                                            *)

ByRank(z, rank) == IF IsZiplist(z) THEN z.pairs[rank].e ELSE ZslGetElementByRank(z, rank)
BackNodes(z) ==
  FoldLeft(LAMBDA s, j : LET n == IF s = <<>> THEN z.tail ELSE z.node[Last(s)].back
                         IN IF n = NilNode THEN s ELSE Append(s, n), <<>>, [j \in 1 .. Cardinality(Elements) |-> j])
Walked(z, reverse) ==
  IF IsZiplist(z)
  THEN LET es == [i \in 1 .. Len(z.pairs) |-> z.pairs[i].e] IN IF reverse THEN Reverse(es) ELSE es
  ELSE IF reverse THEN BackNodes(z) ELSE ForwardNodes(z)

Zrank(z, e) == IF IsZiplist(z) THEN ZzlIndex(z, LAMBDA p : p.e = e) - 1 ELSE ZslGetRank(z, e) - 1
Zcount(z, range) ==
  IF IsZiplist(z)
  THEN LET first == ZzlFirstInRange(z, range) IN IF first = 0 THEN 0 ELSE ZzlCountFrom(z, first, range)
  ELSE LET first == ZslFirstInRange(z, range)
           end == ZslLastInRange(z, range)
       IN IF first = NilNode THEN 0
          ELSE z.length - (ZslGetRank(z, first) - 1)
               - (IF end = NilNode THEN 0 ELSE z.length - ZslGetRank(z, end))
PairOrNil(z, i) == IF i = 0 THEN NilNode ELSE z.pairs[i].e
StartOf(z, range, reverse) ==
  IF IsZiplist(z)
  THEN PairOrNil(z, IF reverse THEN ZzlLastInRange(z, range) ELSE ZzlFirstInRange(z, range))
  ELSE IF reverse THEN ZslLastInRange(z, range) ELSE ZslFirstInRange(z, range)

\* From an element on, in the direction of the walk
WalkedFrom(z, e, reverse) ==
  LET w == Walked(z, reverse)
  IN IF e = NilNode THEN <<>> ELSE SubSeq(w, SelectInSeq(w, LAMBDA f : f = e), Len(w))
AtMost(s, n) == IF n < 0 \/ n > Len(s) THEN s ELSE SubSeq(s, 1, n)

\* ZRANGEBYSCORE, ZRANGEBYLEX and their reverse: the elements that are
\* skipped for the offset are not looked at; a negative limit is none
ZrangeBy(z, range, reverse, offset, limit) ==
  LET from == WalkedFrom(z, StartOf(z, range, reverse), reverse)
      rest == SubSeq(from, offset + 1, Len(from))
      Beyond(e) == LET key == KeyOf(e, ScoreOf(z, e), range)
                   IN IF reverse THEN ~GteMin(key, range) ELSE ~LteMax(key, range)
      stop == SelectInSeq(rest, Beyond)
  IN AtMost(IF stop = 0 THEN rest ELSE SubSeq(rest, 1, stop - 1), limit)

\* ZRANGE and ZREVRANGE: the first one is found by its rank
Zrange(z, start, end, reverse) ==
  LET len == ZsetLength(z)
      s == FromZero(Index0(start, len))
      e == IF Index0(end, len) >= len THEN len - 1 ELSE Index0(end, len)
      first == ByRank(z, IF reverse THEN len - s ELSE s + 1)
  IN IF s > Index0(end, len) \/ s >= len THEN <<>> ELSE AtMost(WalkedFrom(z, first, reverse), e - s + 1)

---------------------------------------------------------------------------
(* Both encodings hold the set a client built, in order, whichever way     *)
(* they are walked, and the hash table beside a skip list has its scores.  *)
SortedSetIsInOrder ==
  /\ Contents(zset) = ref
  /\ ZsetLength(zset) = Cardinality(DOMAIN ref)
  /\ Walked(zset, FALSE) = SortedRef
  /\ Walked(zset, TRUE) = Reverse(SortedRef)

(* Ranks found by adding spans, and the ranges of ZRANGE, ZRANGEBYSCORE,   *)
(* ZRANGEBYLEX and ZCOUNT from either end, are those of the ordered set,   *)
(* after any insertions and range deletions.                               *)
InOrder(s, reverse) == IF reverse THEN Reverse(s) ELSE s
RanksAndRangesAgree ==
  LET n == Len(SortedRef)
      Part(s, from, to) == SubSeq(s, FromZero(from) + 1, IF to >= n THEN n ELSE to + 1)
  IN /\ \A i \in 1 .. n : Zrank(zset, SortedRef[i]) = i - 1 /\ ByRank(zset, i) = SortedRef[i]
     /\ \A reverse \in BOOLEAN, from, to \in -n .. n :
          Zrange(zset, from, to, reverse)
            = Part(InOrder(SortedRef, reverse), Index0(from, n), Index0(to, n))
     /\ \A range \in RangeSpec : Meaningful(range) =>
          LET in == SelectSeq(SortedRef, LAMBDA e : PairIn(Pair(e, ref[e]), range))
          IN /\ Zcount(zset, range) = Len(in)
             /\ \A reverse \in BOOLEAN, offset \in 0 .. 1, limit \in {-1, 1} :
                  ZrangeBy(zset, range, reverse, offset, limit)
                    = AtMost(SubSeq(InOrder(in, reverse), offset + 1, Len(in)), limit)
=============================================================================
