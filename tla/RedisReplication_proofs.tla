---------------------- MODULE RedisReplication_proofs ----------------------
(* The type invariant of the replication, that no slave is without a        *)
(* backlog, and that the backlog is the end of the stream: for any number   *)
(* of slaves, databases, buffer sizes and events.                           *)
EXTENDS RedisReplicationInv, TLAPS

----------------------------------------------------------------------------
(* What the operations of ReplBacklog preserve and return, for every size   *)
(* of the buffer and every set Cmds of commands.  The arithmetic of the     *)
(* ring is proved on plain numbers (ModSmall, RingTail) and then carried to *)
(* the fields of a backlog.                                                 *)

(* The modulus by which addReplyReplicationBacklog() goes round the ring is *)
(* one conditional subtraction.                                             *)
LEMMA ModSmall ==
  ASSUME NEW n \in Nat \ {0}, NEW x \in 0 .. 2 * n - 1
  PROVE  x % n = IF x < n THEN x ELSE x - n
BY SMT

(* Reading with % from the oldest unit is reading back from idx.            *)
LEMMA RingTail ==
  ASSUME NEW size \in Nat \ {0}, NEW idx \in 0 .. size - 1,
         NEW h \in 1 .. size, NEW skip \in 0 .. h - 1,
         NEW i \in 0 .. h - skip - 1
  PROVE  LET first == (idx + (size - h)) % size
             start == (first + skip) % size
         IN (start + i) % size = Place(idx, size, h - skip - i)
<1> DEFINE first == (idx + (size - h)) % size
           start == (first + skip) % size
<1>1. first = IF idx < h THEN idx + size - h ELSE idx - h
  <2> DEFINE x == idx + (size - h)
  <2>1. x \in 0 .. 2 * size - 1
    OBVIOUS
  <2> HIDE DEF x
  <2>2. x % size = IF x < size THEN x ELSE x - size
    BY <2>1, ModSmall
  <2> QED BY <2>2 DEF x
<1> HIDE DEF first
<1>2. first \in 0 .. size - 1
  BY <1>1
<1>3. start = IF first + skip < size THEN first + skip ELSE first + skip - size
  <2> DEFINE x == first + skip
  <2>1. x \in 0 .. 2 * size - 1
    BY <1>2
  <2> HIDE DEF x
  <2>2. x % size = IF x < size THEN x ELSE x - size
    BY <2>1, ModSmall
  <2> QED BY <1>2, <2>2 DEF x
<1> HIDE DEF start
<1>4. start \in 0 .. size - 1
  BY <1>2, <1>3
<1>5. (start + i) % size = IF start + i < size THEN start + i
                                               ELSE start + i - size
  <2> DEFINE x == start + i
  <2>1. x \in 0 .. 2 * size - 1
    BY <1>4
  <2> HIDE DEF x
  <2>2. x % size = IF x < size THEN x ELSE x - size
    BY <2>1, ModSmall
  <2> QED BY <1>4, <2>2 DEF x
<1>6. (start + i) % size = Place(idx, size, h - skip - i)
  BY <1>1, <1>2, <1>3, <1>4, <1>5 DEF Place
<1> QED BY <1>6 DEF start, first

----------------------------------------------------------------------------
(* The fields of a backlog, and of a backlog that was fed one unit.         *)
LEMMA BacklogFields ==
  ASSUME NEW Cmds, NEW b, IsBacklog(b, Cmds)
  PROVE  /\ b.active \in BOOLEAN /\ b.size \in Nat \ {0}
         /\ b.idx \in Nat /\ b.histlen \in Nat
         /\ b.off \in Nat /\ b.moff \in Nat
         /\ b.buf \in [0 .. b.size - 1 -> Cmds \cup {Burnt, Garbage}]
         /\ b.stream \in Seq(Cmds \cup {Burnt})
BY DEF IsBacklog

(* Feeding an active backlog keeps it a backlog, whose buffer still is the  *)
(* end of the stream.                                                       *)
LEMMA FeedPreserves ==
  ASSUME NEW Cmds, NEW b, IsBacklog(b, Cmds), RingMatchesStream(b),
         b.active, NEW e \in Cmds
  PROVE  IsBacklog(Feed(b, e), Cmds) /\ RingMatchesStream(Feed(b, e))
<1> DEFINE E == Cmds \cup {Burnt, Garbage}
           sz == b.size
           ix == b.idx
           h  == b.histlen
           m  == b.moff
           bf == b.buf
           st == b.stream
           ac == b.active
           h2 == IF h + 1 > sz THEN sz ELSE h + 1
           i2 == IF ix + 1 = sz THEN 0 ELSE ix + 1
           b2 == [bf EXCEPT ![ix] = e]
           s2 == Append(st, e)
<1>1. /\ sz \in Nat \ {0} /\ m \in Nat /\ ix \in Nat /\ h \in Nat /\ ac
      /\ bf \in [0 .. sz - 1 -> E] /\ st \in Seq(Cmds \cup {Burnt})
  BY BacklogFields
<1>2. /\ ix < sz /\ h <= sz /\ h <= m /\ (h < sz => ix = h) /\ m = Len(st)
      /\ \A k \in 1 .. h : bf[Place(ix, sz, k)] = st[m - k + 1]
  BY DEF RingMatchesStream
<1>3. Feed(b, e) = [active |-> ac, size |-> sz, buf |-> b2, idx |-> i2,
                    histlen |-> h2, off |-> m + 1 - h2 + 1,
                    moff |-> m + 1, stream |-> s2]
  BY DEF Feed
<1> HIDE DEF sz, ix, h, m, bf, st, ac
<1>4. /\ i2 \in 0 .. sz - 1 /\ h2 \in 0 .. sz /\ h2 <= m + 1
      /\ (h2 < sz => i2 = h2)
  BY <1>1, <1>2
<1>5. ASSUME NEW k \in 1 .. h2
      PROVE  b2[Place(i2, sz, k)] = s2[m + 1 - k + 1]
  <2>1. CASE k = 1
    <3>1. Place(i2, sz, k) = ix
      BY <1>1, <1>2, <2>1 DEF Place
    <3> QED BY <1>1, <1>2, <3>1, <2>1
  <2>2. CASE k > 1
    <3>1. /\ Place(i2, sz, k) = Place(ix, sz, k - 1)
          /\ Place(i2, sz, k) \in 0 .. sz - 1
      BY <1>1, <1>2, <2>2 DEF Place
    <3>2. k - 1 \in 1 .. h /\ Place(ix, sz, k - 1) # ix
      BY <1>1, <1>2, <2>2 DEF Place
    <3>3. s2[m + 1 - k + 1] = st[m - (k - 1) + 1]
      BY <1>1, <1>2, <2>2
    <3> QED BY <1>1, <1>2, <3>1, <3>2, <3>3
  <2> QED BY <1>1, <1>2, <2>1, <2>2
<1>6. b2 \in [0 .. sz - 1 -> E] /\ s2 \in Seq(Cmds \cup {Burnt})
      /\ m + 1 = Len(s2)
  BY <1>1, <1>2
<1> HIDE DEF h2, i2, b2, s2
<1>7. m + 1 - h2 + 1 \in Nat /\ h2 \in Nat /\ i2 \in Nat /\ m + 1 \in Nat
  BY <1>1, <1>4
<1>8. IsBacklog(Feed(b, e), Cmds)
  BY <1>1, <1>3, <1>6, <1>7 DEF IsBacklog
<1>9. RingMatchesStream(Feed(b, e))
  <2> DEFINE f == Feed(b, e)
  <2>1. /\ f.active = ac /\ f.size = sz /\ f.buf = b2 /\ f.idx = i2 /\ f.histlen = h2
        /\ f.off = m + 1 - h2 + 1 /\ f.moff = m + 1 /\ f.stream = s2
    BY <1>3
  <2> HIDE DEF f
  <2>2. /\ f.idx < f.size /\ f.histlen <= f.size /\ f.histlen <= f.moff
        /\ f.off = f.moff - f.histlen + 1
        /\ f.histlen < f.size => f.idx = f.histlen
    BY <1>1, <1>4, <1>7, <2>1
  <2>3. ASSUME NEW k \in 1 .. f.histlen
        PROVE  f.buf[Place(f.idx, f.size, k)] = f.stream[f.moff - k + 1]
    <3>1. b2[Place(i2, sz, k)] = s2[m + 1 - k + 1]
      <4>1. k \in 1 .. h2
        BY <2>1
      <4> QED
        BY <1>5, <4>1, Zenon
    <3>2. f.buf[Place(f.idx, f.size, k)] = b2[Place(i2, sz, k)]
      <4>1. f.buf = b2 /\ f.idx = i2 /\ f.size = sz
        BY <2>1
      <4> QED
        BY <4>1
    <3>3. f.stream[f.moff - k + 1] = s2[m + 1 - k + 1]
      <4>1. f.stream = s2 /\ f.moff = m + 1
        BY <2>1
      <4>2. m \in Nat /\ k \in Int /\ f.moff - k + 1 = m + 1 - k + 1
        BY <1>1, <4>1
      <4> QED
        BY <4>1, <4>2, Zenon
    <3> QED
      BY <3>1, <3>2, <3>3, Zenon
  <2>4. f.moff = Len(f.stream)
    BY <1>6, <2>1
  <2>5. RingMatchesStream(f)
    BY <2>2, <2>3, <2>4 DEF RingMatchesStream
  <2> QED
    BY <2>5 DEF f
<1> QED BY <1>8, <1>9

(* A created backlog is empty, and its first offset was never sent.         *)
LEMMA CreatePreserves ==
  ASSUME NEW Cmds, NEW b, IsBacklog(b, Cmds), RingMatchesStream(b)
  PROVE  /\ IsBacklog(Create(b), Cmds)
         /\ RingMatchesStream(Create(b))
         /\ Create(b).active
<1> DEFINE sz == b.size
           m  == b.moff
           st == b.stream
           s2 == Append(st, Burnt)
<1>1. sz \in Nat \ {0} /\ m \in Nat /\ st \in Seq(Cmds \cup {Burnt})
  BY BacklogFields
<1>2. m = Len(st)
  BY DEF RingMatchesStream
<1>3. Create(b) = [active |-> TRUE, size |-> sz, buf |-> Fresh(sz), idx |-> 0,
                   histlen |-> 0, off |-> m + 1 + 1, moff |-> m + 1,
                   stream |-> s2]
  BY DEF Create, Emptied
<1> HIDE DEF sz, m, st
<1>4. s2 \in Seq(Cmds \cup {Burnt}) /\ Len(s2) = m + 1
  BY <1>1, <1>2
<1>5. Fresh(sz) \in [0 .. sz - 1 -> Cmds \cup {Burnt, Garbage}]
  BY DEF Fresh
<1> HIDE DEF s2
<1> DEFINE c == Create(b)
<1>6. IsBacklog(c, Cmds)
  <2>1. /\ c.active \in BOOLEAN /\ c.size \in Nat \ {0} /\ c.idx \in Nat
        /\ c.histlen \in Nat /\ c.off \in Nat /\ c.moff \in Nat
    BY <1>1, <1>3
  <2>2. c.buf \in [0 .. c.size - 1 -> Cmds \cup {Burnt, Garbage}]
    BY <1>3, <1>5
  <2>3. c.stream \in Seq(Cmds \cup {Burnt})
    BY <1>3, <1>4
  <2> QED BY <1>3, <2>1, <2>2, <2>3 DEF IsBacklog
<1>7. /\ c.active /\ c.histlen = 0 /\ c.moff = m + 1 /\ c.off = m + 1 + 1
      /\ c.size = sz /\ c.idx = 0 /\ Len(c.stream) = m + 1
  BY <1>3, <1>4
<1>8. 1 .. c.histlen = {}
  BY <1>7
<1> HIDE DEF c
<1>9. RingMatchesStream(c) /\ c.active
  BY <1>1, <1>7, <1>8 DEF RingMatchesStream
<1> QED BY <1>6, <1>9 DEF c

(* resizeReplicationBacklog() leaves a backlog whose (empty) history is the *)
(* end of the stream, and creates or frees none.                            *)
LEMMA ResizePreserves ==
  ASSUME NEW Cmds, NEW b, IsBacklog(b, Cmds), RingMatchesStream(b),
         NEW n \in Nat \ {0}
  PROVE  /\ IsBacklog(Resize(b, n), Cmds)
         /\ RingMatchesStream(Resize(b, n))
         /\ Resize(b, n).active <=> b.active
<1>1. CASE n = b.size
  BY <1>1 DEF Resize
<1>2. CASE n # b.size /\ b.active
  <2> DEFINE m == b.moff
             st == b.stream
  <2>1. m \in Nat /\ st \in Seq(Cmds \cup {Burnt}) /\ m = Len(st)
    BY BacklogFields DEF RingMatchesStream
  <2>2. Resize(b, n) = [active |-> TRUE, size |-> n, buf |-> Fresh(n),
                        idx |-> 0, histlen |-> 0, off |-> m + 1, moff |-> m,
                        stream |-> st]
    BY <1>2 DEF Resize, Emptied
  <2> HIDE DEF m, st
  <2>3. Fresh(n) \in [0 .. n - 1 -> Cmds \cup {Burnt, Garbage}]
    BY DEF Fresh
  <2>4. IsBacklog(Resize(b, n), Cmds)
    BY <2>1, <2>2, <2>3 DEF IsBacklog
  <2>5. RingMatchesStream(Resize(b, n)) /\ Resize(b, n).active
    BY <2>1, <2>2 DEF RingMatchesStream
  <2> QED BY <1>2, <2>4, <2>5
<1>3. CASE n # b.size /\ ~b.active
  <2>1. Resize(b, n) = [active |-> FALSE, size |-> n, buf |-> Fresh(n),
                        idx |-> b.idx, histlen |-> b.histlen, off |-> b.off,
                        moff |-> b.moff, stream |-> b.stream]
    BY <1>3 DEF Resize
  <2>2. Fresh(n) \in [0 .. n - 1 -> Cmds \cup {Burnt, Garbage}]
    BY DEF Fresh
  <2>3. /\ b.idx \in Nat /\ b.histlen \in Nat /\ b.off \in Nat
        /\ b.moff \in Nat /\ b.stream \in Seq(Cmds \cup {Burnt})
    BY BacklogFields
  <2>4. IsBacklog(Resize(b, n), Cmds)
    BY <2>1, <2>2, <2>3 DEF IsBacklog
  <2>5. RingMatchesStream(Resize(b, n))
    BY <2>1 DEF RingMatchesStream
  <2>6. ~Resize(b, n).active
    BY <2>1
  <2> QED BY <1>3, <2>4, <2>5, <2>6
<1> QED BY <1>1, <1>2, <1>3

(* freeReplicationBacklog() forgets the buffer and leaves the stream alone. *)
LEMMA FreePreserves ==
  ASSUME NEW Cmds, NEW b, IsBacklog(b, Cmds), RingMatchesStream(b)
  PROVE  /\ IsBacklog(Free(b), Cmds)
         /\ RingMatchesStream(Free(b))
<1>1. Free(b) = [active |-> FALSE, size |-> b.size, buf |-> b.buf,
                 idx |-> b.idx, histlen |-> b.histlen, off |-> b.off,
                 moff |-> b.moff, stream |-> b.stream]
  BY DEF Free
<1>2. IsBacklog(Free(b), Cmds)
  BY <1>1, BacklogFields DEF IsBacklog
<1>3. RingMatchesStream(Free(b))
  BY <1>1 DEF RingMatchesStream
<1> QED BY <1>2, <1>3

(* addReplyReplicationBacklog() sends the stream from the offset asked for, *)
(* whatever the size of the buffer and wherever idx is in it.               *)
THEOREM RingServesStream ==
  ASSUME NEW Cmds, NEW b, IsBacklog(b, Cmds), RingMatchesStream(b)
  PROVE  TailMatchesStream(b)
<1> SUFFICES ASSUME NEW offset \in 1 .. b.moff + 1, Holds(b, offset)
             PROVE  BacklogTail(b, offset) = SubSeq(b.stream, offset, b.moff)
  BY DEF TailMatchesStream
<1> DEFINE E  == Cmds \cup {Burnt, Garbage}
           sz == b.size
           ix == b.idx
           h  == b.histlen
           m  == b.moff
           bf == b.buf
           st == b.stream
           skip  == offset - b.off
           first == (ix + (sz - h)) % sz
           start == (first + skip) % sz
           tail  == [k \in 1 .. h - skip |-> bf[(start + (k - 1)) % sz]]
<1>1. /\ sz \in Nat \ {0} /\ m \in Nat /\ ix \in Nat /\ h \in Nat
      /\ st \in Seq(Cmds \cup {Burnt}) /\ b.off \in Nat
  BY BacklogFields
<1>2. /\ ix < sz /\ h <= sz /\ h <= m /\ m = Len(st) /\ b.off = m - h + 1
      /\ \A k \in 1 .. h : bf[Place(ix, sz, k)] = st[m - k + 1]
  BY DEF RingMatchesStream, Holds
<1>3. offset \in Nat /\ b.off <= offset /\ offset <= b.off + h
  BY <1>1 DEF Holds
<1>4. skip = offset - (m - h + 1) /\ skip \in 0 .. h
  BY <1>1, <1>2, <1>3
<1>5. BacklogTail(b, offset) = IF h = 0 THEN <<>> ELSE tail
  BY DEF BacklogTail
<1>6. offset \in 1 .. m + 1
  OBVIOUS
<1> HIDE DEF sz, ix, h, m, bf, st, skip
<1>7. CASE h = 0
  BY <1>1, <1>2, <1>4, <1>5, <1>6, <1>7 DEF st, m
<1>8. CASE h # 0
  <2>1. ASSUME NEW k \in 1 .. h - skip
        PROVE  bf[(start + (k - 1)) % sz] = st[offset + k - 1]
    <3>1. (start + (k - 1)) % sz = Place(ix, sz, h - skip - (k - 1))
      <4>1. /\ ix \in 0 .. sz - 1 /\ h \in 1 .. sz /\ skip \in 0 .. h - 1
            /\ k - 1 \in 0 .. h - skip - 1
        BY <1>1, <1>2, <1>4, <1>8
      <4> QED BY <1>1, <4>1, RingTail
    <3>2. h - skip - (k - 1) \in 1 .. h
      BY <1>1, <1>4
    <3>3. m - (h - skip - (k - 1)) + 1 = offset + k - 1
      BY <1>1, <1>3, <1>4
    <3> QED BY <1>2, <3>1, <3>2, <3>3
  <2> HIDE DEF start
  <2>2. tail = [k \in 1 .. m - offset + 1 |-> st[offset + k - 1]]
    <3>1. h - skip = m - offset + 1
      BY <1>1, <1>3, <1>4
    <3> QED BY <2>1, <3>1
  <2>3. SubSeq(st, offset, m) = [k \in 1 .. m - offset + 1 |-> st[offset + k - 1]]
    BY <1>1, <1>2, <1>6
  <2> QED BY <1>5, <1>8, <2>2, <2>3 DEF st, m
<1> QED BY <1>1, <1>7, <1>8

----------------------------------------------------------------------------
(* The operations of the backlog keep it in order.                          *)
LEMMA FeedInOrder ==
  ASSUME NEW b, BacklogInOrder(b), b.active, NEW e \in Entry
  PROVE  BacklogInOrder(Feed(b, e)) /\ Feed(b, e).active
<1> DEFINE f == Feed(b, e)
<1>1. IsBacklog(f, Entry) /\ RingMatchesStream(f)
  BY FeedPreserves DEF BacklogInOrder
<1>2. /\ f.active /\ f.moff = b.moff + 1 /\ f.stream = Append(b.stream, e)
      /\ f.off = b.moff + 1 - f.histlen + 1
      /\ f.histlen = IF b.histlen + 1 > b.size THEN b.size ELSE b.histlen + 1
  BY DEF Feed
<1>3. /\ b.size \in Nat \ {0} /\ b.histlen \in Nat /\ b.off \in Nat
      /\ b.moff \in Nat /\ b.stream \in Seq(Entry \cup {Burnt})
  BY BacklogFields DEF BacklogInOrder
<1>4. /\ b.moff = Len(b.stream) /\ b.off = b.moff - b.histlen + 1
      /\ \A o \in b.off .. b.moff : b.stream[o] \in Entry
      /\ b.histlen <= b.moff /\ b.histlen <= b.size
  BY DEF BacklogInOrder, RingMatchesStream, KeepsCommands
<1> HIDE DEF f
<1>5. ASSUME NEW o \in f.off .. f.moff
      PROVE  f.stream[o] \in Entry
  <2>1. f.histlen \in Nat /\ f.histlen <= b.histlen + 1
    BY <1>2, <1>3, <1>4
  <2>2. f.off = b.moff + 1 - f.histlen + 1 /\ f.moff = b.moff + 1
    BY <1>2
  <2>3. o \in Int /\ f.off <= o /\ o <= f.moff
    <3>1. f.off \in Int /\ f.moff \in Int
      BY <1>3, <2>1, <2>2
    <3> QED BY <3>1
  <2>4. o \in b.off .. b.moff + 1
    <3>1. b.off \in Int /\ b.moff \in Int /\ b.histlen \in Int /\ f.histlen \in Int
      BY <1>3, <2>1
    <3>2. b.off = b.moff - b.histlen + 1 /\ f.histlen <= b.histlen + 1
      BY <1>4, <2>1
    <3>3. b.off <= f.off
      BY <2>2, <3>1, <3>2
    <3> QED BY <2>2, <2>3, <3>1, <3>3
  <2>5. 1 <= b.off
    BY <1>3, <1>4
  <2>6. CASE o = b.moff + 1
    BY <1>2, <1>3, <1>4, <2>6
  <2>7. CASE o # b.moff + 1
    <3>1. o \in b.off .. b.moff /\ o \in 1 .. Len(b.stream)
      BY <1>3, <1>4, <2>4, <2>5, <2>7
    <3> QED BY <1>2, <1>3, <1>4, <3>1
  <2> QED BY <2>6, <2>7
<1> QED BY <1>1, <1>2, <1>5 DEF f, BacklogInOrder, KeepsCommands

(* createReplicationBacklog() leaves the backlog in order: the offset it    *)
(* burns lies before every offset the new buffer can hold.                  *)
LEMMA CreateInOrder ==
  ASSUME NEW b, BacklogInOrder(b)
  PROVE  BacklogInOrder(Create(b)) /\ Create(b).active
<1>1. /\ IsBacklog(Create(b), Entry) /\ RingMatchesStream(Create(b))
      /\ Create(b).active
  BY CreatePreserves DEF BacklogInOrder
<1>2. b.moff \in Nat
  BY BacklogFields DEF BacklogInOrder
<1>3. Create(b).off = b.moff + 2 /\ Create(b).moff = b.moff + 1
  BY <1>2 DEF Create, Emptied
<1> QED BY <1>1, <1>2, <1>3 DEF BacklogInOrder, KeepsCommands

(* resizeReplicationBacklog() leaves the backlog in order.                  *)
LEMMA ResizeInOrder ==
  ASSUME NEW b, BacklogInOrder(b), NEW n \in Nat \ {0}
  PROVE  /\ BacklogInOrder(Resize(b, n))
         /\ Resize(b, n).active <=> b.active
<1>1. /\ IsBacklog(Resize(b, n), Entry) /\ RingMatchesStream(Resize(b, n))
      /\ Resize(b, n).active <=> b.active
  BY ResizePreserves DEF BacklogInOrder
<1>2. b.moff \in Nat
  BY BacklogFields DEF BacklogInOrder
<1>3. KeepsCommands(Resize(b, n))
  <2>1. CASE n = b.size
    BY <2>1 DEF Resize, BacklogInOrder
  <2>2. CASE n # b.size /\ b.active
    <3>1. Resize(b, n).off = b.moff + 1 /\ Resize(b, n).moff = b.moff
      BY <2>2 DEF Resize, Emptied
    <3> QED BY <1>2, <3>1 DEF KeepsCommands
  <2>3. CASE n # b.size /\ ~b.active
    BY <1>1, <2>3 DEF KeepsCommands
  <2> QED BY <2>1, <2>2, <2>3
<1> QED BY <1>1, <1>3 DEF BacklogInOrder

(* freeReplicationBacklog() leaves the backlog in order.                    *)
LEMMA FreeInOrder ==
  ASSUME NEW b, BacklogInOrder(b)
  PROVE  BacklogInOrder(Free(b))
<1>1. IsBacklog(Free(b), Entry) /\ RingMatchesStream(Free(b))
  BY FreePreserves DEF BacklogInOrder
<1>2. ~Free(b).active
  BY DEF Free
<1> QED BY <1>1, <1>2 DEF BacklogInOrder, KeepsCommands

(* The backlog of a process that just started (initServerConfig()) is in    *)
(* order.                                                                   *)
LEMMA NoBacklogInOrder ==
  ASSUME NEW n \in Nat \ {0}
  PROVE  BacklogInOrder(NoBacklog(n))
<1>1. Fresh(n) \in [0 .. n - 1 -> Entry \cup {Burnt, Garbage}]
  BY DEF Fresh
<1>2. <<>> \in Seq(Entry \cup {Burnt}) /\ Len(<<>>) = 0
  OBVIOUS
<1>3. IsBacklog(NoBacklog(n), Entry)
  BY <1>1, <1>2 DEF IsBacklog, NoBacklog
<1> QED BY <1>2, <1>3
        DEF NoBacklog, BacklogInOrder, RingMatchesStream, KeepsCommands

(* addReplyReplicationBacklog() sends commands only.                        *)
LEMMA TailIsCommands ==
  ASSUME NEW b, BacklogInOrder(b), NEW o \in Nat, Holds(b, o)
  PROVE  BacklogTail(b, o) \in Seq(Entry)
<1>1. /\ b.size \in Nat \ {0} /\ b.histlen \in Nat /\ b.off \in Nat
      /\ b.moff \in Nat /\ b.stream \in Seq(Entry \cup {Burnt})
  BY BacklogFields DEF BacklogInOrder
<1>2. /\ b.moff = Len(b.stream) /\ b.off = b.moff - b.histlen + 1
      /\ b.histlen <= b.moff
      /\ \A i \in b.off .. b.moff : b.stream[i] \in Entry
      /\ b.off <= o /\ o <= b.off + b.histlen
  BY DEF BacklogInOrder, RingMatchesStream, KeepsCommands, Holds
<1>3. o \in 1 .. b.moff + 1
  BY <1>1, <1>2
<1>4. BacklogTail(b, o) = SubSeq(b.stream, o, b.moff)
  BY <1>3, RingServesStream DEF BacklogInOrder, TailMatchesStream
<1> DEFINE st == b.stream
           m == b.moff
<1>5. SubSeq(st, o, m) = [k \in 1 .. m - o + 1 |-> st[o + k - 1]]
  BY <1>1, <1>2, <1>3
<1>6. \A k \in 1 .. m - o + 1 : st[o + k - 1] \in Entry
  <2> TAKE k \in 1 .. m - o + 1
  <2>1. o + k - 1 \in b.off .. b.moff
    BY <1>1, <1>2, <1>3
  <2> QED BY <1>2, <2>1
<1>7. m - o + 1 \in Nat
  BY <1>1, <1>2, <1>3
<1> HIDE DEF st, m
<1>8. [k \in 1 .. m - o + 1 |-> st[o + k - 1]] \in Seq(Entry)
  BY <1>6, <1>7
<1> QED BY <1>4, <1>5, <1>8 DEF st, m
----------------------------------------------------------------------------
(* What the handlers make of one connection.                                *)
LEMMA ConstantsTyped ==
  /\ DBs \subseteq Nat /\ 0 \in DBs
  /\ BacklogSizes \subseteq Nat \ {0}
  /\ Budget \in [Events -> Nat]
  /\ Diskless \in BOOLEAN
BY ConstantsAssumption

(* addReply() of commands: prepareClientToWrite() installs the handler for  *)
(* no slave that is not online.                                             *)
LEMMA AddReplyInOrder ==
  ASSUME NEW c \in ClientType, ClientInOrder(c), NEW msgs \in Seq(Entry)
  PROVE  /\ AddReply(c, msgs) \in ClientType
         /\ AddReply(c, msgs).replstate = c.replstate
         /\ c.replstate # "NONE" => ClientInOrder(AddReply(c, msgs))
<1> DEFINE h == IF /\ c.obuf = <<>> /\ msgs # <<>>
                   /\ c.replstate \in {"NONE", "ONLINE"}
                THEN TRUE ELSE c.handler
           o == c.obuf \o msgs
<1>1. AddReply(c, msgs) = [c EXCEPT !.obuf = o, !.handler = h]
  BY Zenon DEF AddReply
<1>2. c.obuf \in Seq(Entry) /\ c.handler \in BOOLEAN
  BY DEF ClientType
<1>3. o \in Seq(Entry) /\ (c.obuf # <<>> \/ msgs # <<>> => o # <<>>)
  BY <1>2
<1>4. h \in BOOLEAN
  BY <1>2
<1>5. h => c.obuf # <<>> \/ msgs # <<>>
  BY DEF ClientInOrder
<1>6. h /\ c.replstate # "NONE" => c.replstate = "ONLINE"
  BY DEF ClientInOrder
<1> DEFINE c2 == [c EXCEPT !.obuf = o, !.handler = h]
<1> HIDE DEF h, o
<1>7. c2 \in ClientType
  BY <1>3, <1>4, Zenon DEF ClientType
<1>8. /\ c2.replstate = c.replstate /\ c2.psync = c.psync
      /\ c2.obuf = o /\ c2.handler = h
  BY DEF ClientType
<1> HIDE DEF c2
<1>9. c.replstate # "NONE" => ClientInOrder(c2)
  BY <1>3, <1>5, <1>6, <1>8 DEF ClientInOrder
<1> QED BY <1>1, <1>7, <1>8, <1>9 DEF c2

(* replicationFeedSlaves() leaves each connection in order, in its state.   *)
LEMMA FedClientInOrder ==
  ASSUME NEW c \in ClientType, ClientInOrder(c), NEW e \in Entry,
         NEW db, db \in DBs \/ slaveseldb = db
  PROVE  /\ FedClient(c, db, e) \in ClientType
         /\ ClientInOrder(FedClient(c, db, e))
         /\ FedClient(c, db, e).replstate = c.replstate
<1>1. CASE ~IsSlave(c)
  BY <1>1 DEF FedClient
<1>2. CASE IsSlave(c)
  <2>1. Selects(db) \in Seq(Entry)
    <3>1. slaveseldb # db => Select(db) \in Entry
      BY DEF Select, Entry
    <3> QED BY <3>1 DEF Selects
  <2> DEFINE msgs == IF c.replstate = "START" THEN Selects(db)
                                              ELSE Append(Selects(db), e)
  <2>2. msgs \in Seq(Entry)
    BY <2>1
  <2>3. FedClient(c, db, e) = AddReply(c, msgs)
    BY <1>2 DEF FedClient
  <2>4. c.replstate # "NONE"
    BY <1>2 DEF IsSlave, SlaveStates
  <2> HIDE DEF msgs
  <2> QED BY <2>2, <2>3, <2>4, AddReplyInOrder
<1> QED BY <1>1, <1>2

(* putSlaveOnline() leaves a handler exactly when there is something to     *)
(* send.                                                                    *)
LEMMA PutOnlineInOrder ==
  ASSUME NEW c \in ClientType, c.replstate # "NONE", ClientInOrder(c)
  PROVE  /\ PutOnline(c) \in ClientType
         /\ PutOnline(c).replstate = "ONLINE"
         /\ ClientInOrder(PutOnline(c))
<1> DEFINE h == c.obuf # <<>>
           rs == "ONLINE"
           no == FALSE
<1>1. h \in BOOLEAN /\ rs \in SlaveStates /\ no \in BOOLEAN
  BY DEF SlaveStates
<1> DEFINE c2 == [c EXCEPT !.replstate = rs, !.onack = no, !.handler = h]
<1>2. PutOnline(c) = c2
  BY Zenon DEF PutOnline
<1> HIDE DEF h, no
<1>3. c2.handler = h /\ c2.obuf = c.obuf /\ c2.replstate = rs
      /\ c2.psync = c.psync
  BY DEF ClientType
<1> HIDE DEF rs
<1>4. c2 \in ClientType
  BY <1>1, Zenon DEF ClientType
<1> HIDE DEF c2
<1> QED BY <1>2, <1>3, <1>4 DEF ClientInOrder, h, rs

(* sendBulkToSlave() forgets the file once it is sent.                      *)
LEMMA NoFileInOrder ==
  ASSUME NEW c \in ClientType, ClientInOrder(c)
  PROVE  /\ [c EXCEPT !.file = <<>>] \in ClientType
         /\ [c EXCEPT !.file = <<>>].replstate = c.replstate
         /\ ClientInOrder([c EXCEPT !.file = <<>>])
<1> DEFINE c2 == [c EXCEPT !.file = <<>>]
<1>1. <<>> \in Seq(RdbFile)
  OBVIOUS
<1>2. c2 \in ClientType
  BY <1>1, Zenon DEF ClientType
<1>3. /\ c2.replstate = c.replstate /\ c2.handler = c.handler
      /\ c2.obuf = c.obuf /\ c2.psync = c.psync
  BY DEF ClientType
<1> HIDE DEF c2
<1>4. ClientInOrder(c2)
  BY <1>3 DEF ClientInOrder
<1> QED BY <1>2, <1>3, <1>4 DEF c2

(* A connection that moves to another state of a slave, from one in which   *)
(* nothing is sent.                                                         *)
LEMMA MovedInOrder ==
  ASSUME NEW c \in ClientType, ClientInOrder(c), c.replstate # "ONLINE",
         c.replstate # "NONE", NEW state \in SlaveStates
  PROVE  /\ [c EXCEPT !.replstate = state] \in ClientType
         /\ [c EXCEPT !.replstate = state].replstate = state
         /\ ClientInOrder([c EXCEPT !.replstate = state])
<1> DEFINE c2 == [c EXCEPT !.replstate = state]
<1>1. c2 \in ClientType
  BY Zenon DEF ClientType
<1>2. c2.replstate = state /\ c2.handler = c.handler /\ c2.psync = c.psync
  BY DEF ClientType
<1> HIDE DEF c2
<1>3. ClientInOrder(c2)
  BY <1>2 DEF ClientInOrder
<1> QED BY <1>1, <1>2, <1>3 DEF c2

(* A freed connection, and one syncWithMaster() just opened, are in order.  *)
LEMMA ClosedInOrder ==
  /\ Closed \in ClientType /\ ClientInOrder(Closed)
  /\ Closed.replstate = "CLOSED"
  /\ Accepted \in ClientType /\ ClientInOrder(Accepted)
  /\ Accepted.replstate = "NONE"
<1>1. <<>> \in Seq(Entry) /\ <<>> \in Seq(RdbFile)
  OBVIOUS
<1>2. Closed \in ClientType
  BY <1>1, Zenon DEF Closed, ClientType
<1>3. Accepted \in ClientType
  <2> DEFINE rs == "NONE"
             yes == TRUE
             c2 == [Closed EXCEPT !.replstate = rs, !.psync = yes]
  <2>1. rs \in SlaveStates \cup {"CLOSED", "NONE"} /\ yes \in BOOLEAN
    OBVIOUS
  <2>2. Accepted = c2
    BY Zenon DEF Accepted
  <2> HIDE DEF rs, yes
  <2>3. c2 \in ClientType
    BY <1>2, <2>1, Zenon DEF ClientType
  <2> QED BY <2>2, <2>3
<1>4. /\ Accepted.replstate = "NONE" /\ Accepted.psync
      /\ Accepted.handler = FALSE
  BY DEF Accepted, Closed
<1> QED BY <1>2, <1>3, <1>4 DEF Closed, ClientInOrder

----------------------------------------------------------------------------
(* The parts of a step that several handlers share.                         *)
LEMMA SpendTyped ==
  ASSUME budget \in [Events -> Nat], NEW events, events \subseteq Events,
         Spend(events)
  PROVE  budget' \in [Events -> Nat]
<1>1. ASSUME NEW e \in Events
      PROVE  budget[e] - (IF e \in events THEN 1 ELSE 0) \in Nat
  BY <1>1 DEF Spend
<1> QED BY <1>1 DEF Spend

(* replicationFeedSlaves() leaves the backlog and the connections in order, *)
(* and changes the state of none.                                           *)
LEMMA FeedSlavesInOrder ==
  ASSUME IInv, NEW db, db \in DBs \/ db = slaveseldb, NEW e \in Entry,
         FeedSlaves(db, e)
  PROVE  /\ BacklogInOrder(backlog')
         /\ backlog'.active <=> backlog.active
         /\ slaveseldb' \in DBs \cup {-1}
         /\ client' \in [Slaves -> ClientType]
         /\ \A s \in Slaves : /\ ClientInOrder(client'[s])
                              /\ client'[s].replstate = client[s].replstate
<1>1. /\ BacklogInOrder(backlog) /\ slaveseldb \in DBs \cup {-1}
      /\ client \in [Slaves -> ClientType]
      /\ \A s \in Slaves : ClientInOrder(client[s])
  BY DEF IInv, TypeOK, MasterTyped, ClientsConsistent
<1>2. CASE ~backlog.active /\ SlaveList = {}
  BY <1>1, <1>2 DEF FeedSlaves
<1>3. CASE ~(~backlog.active /\ SlaveList = {})
  <2>1. /\ backlog' = FedBacklog(db, e)
        /\ client' = [s \in Slaves |-> FedClient(client[s], db, e)]
        /\ slaveseldb' = db
    BY <1>3 DEF FeedSlaves
  <2>2. BacklogInOrder(backlog') /\ (backlog'.active <=> backlog.active)
    <3>1. CASE ~backlog.active
      BY <1>1, <2>1, <3>1 DEF FedBacklog
    <3>2. CASE backlog.active /\ slaveseldb = db
      BY <1>1, <2>1, <3>2, FeedInOrder DEF FedBacklog
    <3>3. CASE backlog.active /\ slaveseldb # db
      <4>1. Select(db) \in Entry
        BY <3>3 DEF Select, Entry
      <4>2. /\ BacklogInOrder(Feed(backlog, Select(db)))
            /\ Feed(backlog, Select(db)).active
        BY <1>1, <3>3, <4>1, FeedInOrder
      <4>3. backlog' = Feed(Feed(backlog, Select(db)), e)
        BY <2>1, <3>3 DEF FedBacklog
      <4> QED BY <3>3, <4>2, <4>3, FeedInOrder
    <3> QED BY <3>1, <3>2, <3>3
  <2>3. \A s \in Slaves : /\ client'[s] \in ClientType
                          /\ ClientInOrder(client'[s])
                          /\ client'[s].replstate = client[s].replstate
    BY <1>1, <2>1, FedClientInOrder
  <2> QED BY <1>1, <2>1, <2>2, <2>3
<1> QED BY <1>2, <1>3

(* A handler that propagates a command with replicationFeedSlaves()         *)
(* preserves the invariant.                                                 *)
LEMMA FeedStep ==
  ASSUME IInv, NEW db, db \in DBs \/ db = slaveseldb, NEW e \in Entry,
         FeedSlaves(db, e), UNCHANGED <<runid, dump, child, slave, wire>>,
         nextid' \in Nat, data' \in Dataset, budget' \in [Events -> Nat]
  PROVE  IInv'
<1>1. /\ BacklogInOrder(backlog')
      /\ backlog'.active <=> backlog.active
      /\ slaveseldb' \in DBs \cup {-1}
      /\ client' \in [Slaves -> ClientType]
      /\ \A s \in Slaves : /\ ClientInOrder(client'[s])
                           /\ client'[s].replstate = client[s].replstate
  BY FeedSlavesInOrder
<1>2. TypeOK'
  BY <1>1 DEF IInv, TypeOK, MasterTyped, BacklogInOrder
<1>3. SlavesHaveBacklog'
  <2>1. \A s \in Slaves : IsSlave(client'[s]) <=> IsSlave(client[s])
    BY <1>1 DEF IsSlave
  <2> QED BY <1>1, <2>1 DEF IInv, SlavesHaveBacklog, SlaveList
<1>4. ClientsConsistent' /\ ChildConsistent'
  BY <1>1 DEF IInv, ClientsConsistent, ChildConsistent
<1>5. RepliesFirst'
  BY <1>1 DEF IInv, RepliesFirst, ReplyFirst
<1> QED BY <1>1, <1>2, <1>3, <1>4, <1>5 DEF IInv

(* call() of a write command preserves the invariant.                       *)
LEMMA WriteStep ==
  ASSUME IInv, NEW db \in DBs, Write(db)
  PROVE  IInv'
<1>1. runid \in Nat /\ nextid \in Nat /\ data \in Dataset
      /\ budget \in [Events -> Nat]
  BY DEF IInv, TypeOK, MasterTyped
<1>2. Cmd(nextid) \in Entry
  BY <1>1 DEF Cmd, Entry
<1>3. budget' \in [Events -> Nat]
  BY <1>1, SpendTyped DEF Write, Events
<1>4. data' \in Dataset /\ nextid' \in Nat
  BY <1>1 DEF Write, Dataset
<1> QED BY <1>2, <1>3, <1>4, FeedStep DEF Write

(* The PING of replicationCron() preserves the invariant.                   *)
LEMMA CronPingStep ==
  ASSUME IInv, CronPing
  PROVE  IInv'
<1>1. /\ nextid \in Nat /\ data \in Dataset
      /\ budget \in [Events -> Nat]
  BY DEF IInv, TypeOK, MasterTyped
<1>2. Ping \in Entry
  BY DEF Entry
<1>3. budget' \in [Events -> Nat]
  BY <1>1, SpendTyped DEF CronPing, Events
<1> QED BY <1>1, <1>2, <1>3, FeedStep DEF CronPing, masterVars

(* A step that only touches the backlog.                                    *)
LEMMA BacklogStep ==
  ASSUME IInv, BacklogInOrder(backlog'), SlaveList # {} => backlog'.active,
         UNCHANGED <<masterVars, slaveseldb, child, client, slave, wire>>,
         budget' \in [Events -> Nat]
  PROVE  IInv'
<1>1. TypeOK'
  BY DEF IInv, TypeOK, MasterTyped, BacklogInOrder, masterVars
<1>2. SlavesHaveBacklog'
  BY DEF SlavesHaveBacklog, SlaveList
<1>3. ClientsConsistent' /\ ChildConsistent' /\ RepliesFirst'
  BY DEF IInv, ClientsConsistent, ChildConsistent, RepliesFirst, ReplyFirst
<1> QED BY <1>1, <1>2, <1>3 DEF IInv

(* A step of the master that handles the connection of s, which is not      *)
(* closed: s becomes c2 and is sent the messages m.                         *)
LEMMA ConnectionStep ==
  ASSUME IInv, NEW s \in Slaves, NEW c2 \in ClientType, NEW m \in Seq(Message),
         client' = [client EXCEPT ![s] = c2],
         wire' = [wire EXCEPT ![s] = @ \o m],
         UNCHANGED <<masterVars, slave>>,
         budget' \in [Events -> Nat], slaveseldb' \in DBs \cup {-1},
         BacklogInOrder(backlog'), backlog.active => backlog'.active,
         IsSlave(c2) => backlog'.active,
         child' \in ChildType, child'.sent \subseteq child'.fds,
         child'.fds \subseteq child.fds,
         s \in child'.fds => c2.replstate = "END",
         ClientInOrder(c2), client[s].replstate # "CLOSED",
         IF m = <<>> THEN c2.replstate = client[s].replstate
         ELSE \/ client[s].replstate # "NONE"
              \/ m[1].op \in {"CONTINUE", "FULLRESYNC"}
  PROVE  IInv'
<1>1. /\ client \in [Slaves -> ClientType] /\ wire \in [Slaves -> Seq(Message)]
      /\ \A t \in Slaves : ReplyFirst(t)
  BY DEF IInv, TypeOK, RepliesFirst
<1>2. /\ client'[s] = c2 /\ client' \in [Slaves -> ClientType]
      /\ \A t \in Slaves \ {s} : client'[t] = client[t]
  BY <1>1
<1>3. wire[s] \o m \in Seq(Message)
  BY <1>1
<1>4. /\ wire'[s] = wire[s] \o m /\ wire' \in [Slaves -> Seq(Message)]
      /\ \A t \in Slaves \ {s} : wire'[t] = wire[t]
  BY <1>1, <1>3
<1>5. TypeOK'
  BY <1>2, <1>4 DEF IInv, TypeOK, MasterTyped, BacklogInOrder, masterVars
<1>6. SlavesHaveBacklog'
  <2> SUFFICES ASSUME NEW t \in Slaves, IsSlave(client'[t])
               PROVE  backlog'.active
    BY DEF SlavesHaveBacklog, SlaveList
  <2>1. CASE t = s
    BY <1>2, <2>1
  <2>2. CASE t # s
    BY <1>2, <2>2 DEF IInv, SlavesHaveBacklog, SlaveList
  <2> QED BY <2>1, <2>2
<1>7. ClientsConsistent' /\ ChildConsistent'
  BY <1>2 DEF IInv, ClientsConsistent, ChildConsistent
<1>8. ASSUME NEW t \in Slaves
      PROVE  ReplyFirst(t)'
  <2>1. CASE t # s
    BY <1>1, <1>2, <1>4, <2>1 DEF ReplyFirst
  <2>2. CASE t = s /\ m = <<>>
    <3>1. wire'[s] = wire[s]
      BY <1>1, <1>4, <2>2
    <3> QED BY <1>1, <1>2, <2>2, <3>1 DEF ReplyFirst
  <2>3. CASE t = s /\ m # <<>>
    <3>1. wire'[s] # <<>>
      BY <1>1, <1>4, <2>3
    <3>2. Head(wire'[s]) = IF wire[s] = <<>> THEN m[1] ELSE Head(wire[s])
      BY <1>1, <1>4, <2>3
    <3> QED BY <1>1, <2>3, <3>1, <3>2 DEF ReplyFirst
  <2> QED BY <2>1, <2>2, <2>3
<1> QED BY <1>5, <1>6, <1>7, <1>8 DEF IInv, RepliesFirst

(* replicationCron() frees the backlog only when server.slaves is empty,    *)
(* which is what keeps the slaves from losing it.                           *)
LEMMA CronFreeBacklogStep ==
  ASSUME IInv, CronFreeBacklog
  PROVE  IInv'
BY BacklogStep, FreeInOrder DEF CronFreeBacklog, IInv, TypeOK, MasterTyped

(* CONFIG SET repl-backlog-size preserves the invariant.                    *)
LEMMA ConfigResizeStep ==
  ASSUME IInv, NEW size \in BacklogSizes, ConfigResize(size)
  PROVE  IInv'
<1>1. budget' \in [Events -> Nat]
  BY SpendTyped DEF ConfigResize, Events, IInv, TypeOK, MasterTyped
<1>2. size \in Nat \ {0}
  BY ConstantsTyped
<1>3. /\ BacklogInOrder(backlog')
      /\ backlog'.active <=> backlog.active
  BY <1>2, ResizeInOrder DEF ConfigResize, IInv
<1> QED BY <1>1, <1>3, BacklogStep DEF ConfigResize, IInv, SlavesHaveBacklog

----------------------------------------------------------------------------
(* syncCommand()                                                            *)
LEMMA SyncFullInOrder ==
  ASSUME IInv, NEW s \in Slaves, SyncFull(s)
  PROVE  /\ client[s].replstate = "NONE"
         /\ BacklogInOrder(backlog') /\ backlog'.active
         /\ slaveseldb' \in DBs \cup {-1}
         /\ FullResync(Announced) \in Message
         /\ wire' = [wire EXCEPT ![s] = @ \o <<FullResync(Announced)>>]
         /\ UNCHANGED <<masterVars, slave>>
<1>1. client[s].replstate = "NONE"
  BY DEF SyncFull, IInv, ClientsConsistent, ClientInOrder
<1>2. BacklogInOrder(backlog') /\ backlog'.active
  BY CreateInOrder DEF SyncFull, IInv, SlavesHaveBacklog
<1>3. slaveseldb' \in DBs \cup {-1}
  BY DEF SyncFull
<1>4. FullResync(Announced) \in Message
  <2>1. backlog.moff \in Nat
    BY BacklogFields DEF IInv, BacklogInOrder
  <2>2. Announced \in Nat
    BY <2>1 DEF Announced
  <2>3. runid \in Nat
    BY DEF IInv, TypeOK, MasterTyped
  <2> QED BY <2>2, <2>3 DEF FullResync, Message
<1>5. wire' = [wire EXCEPT ![s] = @ \o <<FullResync(Announced)>>]
  <2>1. wire[s] \in Seq(Message)
    BY DEF IInv, TypeOK
  <2>2. Append(wire[s], FullResync(Announced)) =
          wire[s] \o <<FullResync(Announced)>>
    BY <1>4, <2>1
  <2> QED BY <2>2 DEF SyncFull
<1> QED BY <1>1, <1>2, <1>3, <1>4, <1>5 DEF SyncFull

(* The connection syncCommand() attached as a slave is in order.            *)
LEMMA AttachedInOrder ==
  ASSUME NEW c \in ClientType, ClientInOrder(c), c.replstate = "NONE",
         NEW state \in SlaveStates, NEW obuf \in Seq(Entry)
  PROVE  LET c2 == [c EXCEPT !.psync = FALSE, !.replstate = state, !.obuf = obuf]
         IN c2 \in ClientType /\ ClientInOrder(c2) /\ c2.replstate = state
<1> DEFINE no == FALSE
           c2 == [c EXCEPT !.psync = no, !.replstate = state, !.obuf = obuf]
<1>1. no \in BOOLEAN
  OBVIOUS
<1>2. c2.handler = c.handler /\ c2.replstate = state /\ c2.psync = FALSE
  BY DEF ClientType
<1> HIDE DEF no
<1>3. c2 \in ClientType
  BY <1>1, Zenon DEF ClientType
<1> HIDE DEF c2
<1>4. ClientInOrder(c2)
  BY <1>2 DEF ClientInOrder
<1> QED BY <1>2, <1>3, <1>4 DEF c2, no

(* syncCommand() up to its end, for a slave that needs a full               *)
(* resynchronisation: it creates the backlog for the first slave it         *)
(* attaches.                                                                *)
LEMMA AttachStep ==
  ASSUME IInv, NEW s \in Slaves, SyncFull(s), NEW state \in {"START", "END"},
         NEW obuf \in Seq(Entry), Attach(s, state, obuf),
         child' \in ChildType, child'.sent \subseteq child'.fds,
         child'.fds \subseteq child.fds,
         UNCHANGED budget
  PROVE  IInv'
<1>1. /\ client[s].replstate = "NONE"
      /\ BacklogInOrder(backlog') /\ backlog'.active
      /\ slaveseldb' \in DBs \cup {-1}
      /\ FullResync(Announced) \in Message
      /\ wire' = [wire EXCEPT ![s] = @ \o <<FullResync(Announced)>>]
      /\ UNCHANGED <<masterVars, slave>>
  BY SyncFullInOrder
<1> DEFINE c == client[s]
           c2 == [c EXCEPT !.psync = FALSE, !.replstate = state, !.obuf = obuf]
           m == <<FullResync(Announced)>>
<1>2. c \in ClientType /\ ClientInOrder(c) /\ (s \in child.fds => c.replstate = "END")
  BY DEF IInv, TypeOK, ClientsConsistent
<1>3. client' = [client EXCEPT ![s] = c2]
  BY DEF Attach
<1>4. c2 \in ClientType /\ ClientInOrder(c2)
  BY <1>1, <1>2, AttachedInOrder DEF SlaveStates
<1>5. m \in Seq(Message) /\ m # <<>> /\ m[1].op \in {"CONTINUE", "FULLRESYNC"}
  BY <1>1 DEF FullResync
<1>6. s \notin child'.fds
  BY <1>1, <1>2
<1>7. budget' \in [Events -> Nat]
  BY DEF IInv, TypeOK, MasterTyped
<1> HIDE DEF c2, m
<1>8. wire' = [wire EXCEPT ![s] = @ \o m]
  BY <1>1 DEF m
<1> QED BY <1>1, <1>3, <1>4, <1>5, <1>6, <1>7, <1>8, ConnectionStep

(* The child a step starts, when it serves nobody it was not given.         *)
LEMMA ChildTyped ==
  ASSUME IInv, NEW fds \in SUBSET Slaves
  PROVE  /\ child \in ChildType
         /\ NoChild \in ChildType
         /\ ReplChild(fds) \in ChildType
         /\ Forked("disk", {}) \in ChildType
         /\ Forked("disk", {}).fds = {} /\ Forked("disk", {}).sent = {}
         /\ ReplChild(fds).fds \subseteq fds /\ ReplChild(fds).sent = {}
         /\ NoChild.fds = {} /\ NoChild.sent = {}
<1>1. data \in Dataset /\ child \in ChildType /\ <<>> \in Dataset
  BY DEF IInv, TypeOK, MasterTyped, Dataset
<1> QED BY <1>1 DEF ChildType, NoChild, ReplChild, Forked

(* syncCommand() preserves the invariant, whichever way it returns.         *)
LEMMA SyncCommandStep ==
  ASSUME IInv, NEW s \in Slaves, SyncCommand(s)
  PROVE  IInv'
<1>1. CASE SyncPartial(s)
  <2> DEFINE c  == client[s]
             c1 == [c EXCEPT !.psync = FALSE, !.replstate = "ONLINE"]
             tail == BacklogTail(backlog, slave[s].reploff + 1)
             m  == <<Continue>>
  <2>1. /\ c \in ClientType /\ ClientInOrder(c) /\ c.replstate = "NONE"
        /\ s \notin child.fds
    BY <1>1 DEF SyncPartial, IInv, TypeOK, ClientsConsistent, ClientInOrder
  <2>2. slave[s].reploff + 1 \in Nat
    BY DEF IInv, TypeOK, SlaveType
  <2>3. tail \in Seq(Entry)
    BY <1>1, <2>2, TailIsCommands DEF SyncPartial, PsyncAccepted, IInv
  <2>4. c1 \in ClientType /\ ClientInOrder(c1) /\ c1.replstate = "ONLINE"
    <3> DEFINE no == FALSE
               rs == "ONLINE"
               c3 == [c EXCEPT !.psync = no, !.replstate = rs]
    <3>1. no \in BOOLEAN /\ rs \in SlaveStates
      BY DEF SlaveStates
    <3>2. c3.handler = c.handler /\ c3.replstate = rs /\ c3.psync = FALSE
      BY <2>1 DEF ClientType
    <3> HIDE DEF no, rs
    <3>3. c3 \in ClientType
      BY <2>1, <3>1, Zenon DEF ClientType
    <3> HIDE DEF c3
    <3>4. ClientInOrder(c3)
      BY <2>1, <3>2 DEF ClientInOrder
    <3> QED BY <3>2, <3>3, <3>4 DEF c3, no, rs
  <2> DEFINE c2 == AddReply(c1, tail)
  <2>5. c2 \in ClientType /\ ClientInOrder(c2)
    <3> HIDE DEF c1, tail
    <3> QED BY <2>3, <2>4, AddReplyInOrder
  <2>6. client' = [client EXCEPT ![s] = c2]
    BY <1>1 DEF SyncPartial
  <2>7. m \in Seq(Message) /\ m # <<>> /\ m[1].op = "CONTINUE"
    BY DEF Message, Continue
  <2>8. wire' = [wire EXCEPT ![s] = @ \o m]
    <3>1. wire[s] \in Seq(Message) /\ Continue \in Message
      BY DEF IInv, TypeOK, Message
    <3>2. Append(wire[s], Continue) = wire[s] \o m
      BY <3>1
    <3> QED BY <1>1, <3>2 DEF SyncPartial
  <2>9. backlog.active
    BY <1>1 DEF SyncPartial, PsyncAccepted, Holds
  <2>10. /\ UNCHANGED <<masterVars, slave, backlog, slaveseldb, child, budget>>
         /\ budget' \in [Events -> Nat] /\ slaveseldb' \in DBs \cup {-1}
         /\ BacklogInOrder(backlog') /\ child' \in ChildType
         /\ child'.sent \subseteq child'.fds
    BY <1>1 DEF SyncPartial, IInv, TypeOK, MasterTyped, ChildConsistent
  <2> HIDE DEF c2, m
  <2> QED BY <2>1, <2>5, <2>6, <2>7, <2>8, <2>9, <2>10, ConnectionStep
<1>2. CASE SyncJoinsBgsave(s)
  <2>1. PICK t \in In("END") : Attach(s, "END", client[t].obuf)
    BY <1>2 DEF SyncJoinsBgsave
  <2>2. client[t].obuf \in Seq(Entry)
    BY DEF In, IInv, TypeOK, ClientType
  <2> QED BY <1>2, <2>1, <2>2, AttachStep
          DEF SyncJoinsBgsave, IInv, TypeOK, ChildConsistent
<1>3. CASE SyncWaits(s)
  <2>1. <<>> \in Seq(Entry)
    OBVIOUS
  <2> QED BY <1>3, <2>1, AttachStep
          DEF SyncWaits, IInv, TypeOK, ChildConsistent
<1>4. CASE SyncStartsBgsave(s)
  <2>1. <<>> \in Seq(Entry)
    OBVIOUS
  <2>2. /\ child' \in ChildType /\ child'.sent \subseteq child'.fds
        /\ child'.fds \subseteq child.fds
    BY <1>4, ChildTyped DEF SyncStartsBgsave
  <2> QED BY <1>4, <2>1, <2>2, AttachStep DEF SyncStartsBgsave
<1>5. CASE SyncFails(s)
  <2> DEFINE c  == client[s]
             c2 == [c EXCEPT !.psync = FALSE]
             m  == <<FullResync(Announced), Error>>
  <2>1. /\ c \in ClientType /\ ClientInOrder(c) /\ c.replstate = "NONE"
        /\ s \notin child.fds
    BY <1>5 DEF SyncFails, IInv, TypeOK, ClientsConsistent, ClientInOrder
  <2>2. c2 \in ClientType /\ ClientInOrder(c2) /\ c2.replstate = "NONE"
    <3> DEFINE no == FALSE
               c3 == [c EXCEPT !.psync = no]
    <3>1. no \in BOOLEAN
      OBVIOUS
    <3>2. /\ c3.handler = c.handler /\ c3.replstate = c.replstate
          /\ c3.psync = FALSE
      BY <2>1 DEF ClientType
    <3> HIDE DEF no
    <3>3. c3 \in ClientType
      BY <2>1, <3>1, Zenon DEF ClientType
    <3> HIDE DEF c3
    <3>4. ClientInOrder(c3) /\ c3.replstate = "NONE"
      BY <2>1, <3>2 DEF ClientInOrder
    <3> QED BY <3>3, <3>4 DEF c3, no
  <2>3. client' = [client EXCEPT ![s] = c2]
    BY <1>5 DEF SyncFails
  <2>4. FullResync(Announced) \in Message
    <3>1. backlog.moff \in Nat
      BY BacklogFields DEF IInv, BacklogInOrder
    <3>2. Announced \in Nat
      BY <3>1 DEF Announced
    <3>3. runid \in Nat
      BY DEF IInv, TypeOK, MasterTyped
    <3> QED BY <3>2, <3>3 DEF FullResync, Message
  <2>5. m \in Seq(Message) /\ m # <<>> /\ m[1].op = "FULLRESYNC"
    BY <2>4 DEF Message, FullResync
  <2>6. budget' \in [Events -> Nat]
    BY <1>5, SpendTyped DEF SyncFails, Events, IInv, TypeOK, MasterTyped
  <2>7. /\ wire' = [wire EXCEPT ![s] = @ \o m]
        /\ UNCHANGED <<masterVars, slave, backlog, slaveseldb, child>>
        /\ slaveseldb' \in DBs \cup {-1}
        /\ BacklogInOrder(backlog') /\ child' \in ChildType
        /\ child'.sent \subseteq child'.fds
    BY <1>5 DEF SyncFails, IInv, TypeOK, MasterTyped, ChildConsistent
  <2>8. ~IsSlave(c2)
    BY <2>2 DEF IsSlave, SlaveStates
  <2> HIDE DEF c2, m
  <2> QED BY <2>1, <2>2, <2>3, <2>5, <2>6, <2>7, <2>8, ConnectionStep
<1> QED BY <1>1, <1>2, <1>3, <1>4, <1>5 DEF SyncCommand

----------------------------------------------------------------------------
(* What the master sends and receives on a connection.                      *)
LEMMA SendBulkStep ==
  ASSUME IInv, NEW s \in Slaves, SendBulk(s)
  PROVE  IInv'
<1> DEFINE c  == client[s]
           c2 == [PutOnline(c) EXCEPT !.file = <<>>]
<1>1. /\ c \in ClientType /\ ClientInOrder(c) /\ c.replstate = "SEND_BULK"
      /\ s \notin child.fds
  BY DEF SendBulk, IInv, TypeOK, ClientsConsistent
<1>2. c2 \in ClientType /\ ClientInOrder(c2) /\ c2.replstate = "ONLINE"
  BY <1>1, PutOnlineInOrder, NoFileInOrder
<1>3. c.file \in Seq(Message)
  BY <1>1 DEF ClientType, Message
<1>4. backlog.active
  BY <1>1 DEF IInv, SlavesHaveBacklog, SlaveList, IsSlave, SlaveStates
<1>5. /\ UNCHANGED <<masterVars, slave, backlog, slaveseldb, child, budget>>
      /\ budget' \in [Events -> Nat] /\ slaveseldb' \in DBs \cup {-1}
      /\ BacklogInOrder(backlog') /\ child' \in ChildType
      /\ child'.sent \subseteq child'.fds
  BY DEF SendBulk, IInv, TypeOK, MasterTyped, ChildConsistent
<1>6. /\ client' = [client EXCEPT ![s] = c2]
      /\ wire' = [wire EXCEPT ![s] = @ \o c.file]
  BY DEF SendBulk
<1>7. CASE c.file # <<>>
  <2> HIDE DEF c2
  <2> QED BY <1>1, <1>2, <1>3, <1>4, <1>5, <1>6, <1>7, ConnectionStep
<1>8. CASE c.file = <<>>
  <2>1. wire[s] \in Seq(Message) /\ wire \in [Slaves -> Seq(Message)]
    BY DEF IInv, TypeOK
  <2>2. UNCHANGED wire
    BY <1>6, <1>8, <2>1
  <2>3. /\ client' \in [Slaves -> ClientType] /\ client'[s] = c2
        /\ \A t \in Slaves \ {s} : client'[t] = client[t]
    BY <1>2, <1>6 DEF IInv, TypeOK
  <2> HIDE DEF c2
  <2>4. TypeOK'
    BY <1>5, <2>2, <2>3 DEF IInv, TypeOK, MasterTyped, masterVars, BacklogInOrder
  <2>5. SlavesHaveBacklog'
    BY <1>4, <1>5 DEF SlavesHaveBacklog
  <2>6. ClientsConsistent' /\ ChildConsistent'
    BY <1>1, <1>2, <1>5, <2>3 DEF IInv, ClientsConsistent, ChildConsistent
  <2>7. RepliesFirst'
    BY <1>1, <1>2, <1>5, <2>2, <2>3 DEF IInv, RepliesFirst, ReplyFirst
  <2> QED BY <1>5, <2>4, <2>5, <2>6, <2>7 DEF IInv
<1> QED BY <1>7, <1>8

(* sendReplyToClient() preserves the invariant: a handler is only installed *)
(* for a connection with something to send.                                 *)
LEMMA SendReplyStep ==
  ASSUME IInv, NEW s \in Slaves, SendReply(s)
  PROVE  IInv'
<1> DEFINE c  == client[s]
           o  == Tail(c.obuf)
           h  == Tail(c.obuf) # <<>>
           c2 == [c EXCEPT !.obuf = o, !.handler = h]
           m  == <<Head(c.obuf)>>
<1>1. /\ c \in ClientType /\ ClientInOrder(c) /\ c.replstate = "ONLINE"
      /\ c.obuf # <<>> /\ s \notin child.fds
  BY DEF SendReply, IInv, TypeOK, ClientsConsistent, ClientInOrder
<1>2. c.obuf \in Seq(Entry)
  BY <1>1 DEF ClientType
<1>3. o \in Seq(Entry) /\ Head(c.obuf) \in Entry
  BY <1>1, <1>2
<1>4. h \in BOOLEAN
  OBVIOUS
<1>5. client' = [client EXCEPT ![s] = c2]
  <2>1. Sent(c) = c2
    BY Zenon DEF Sent
  <2> QED BY <2>1 DEF SendReply
<1>6. m \in Seq(Message) /\ m # <<>>
  BY <1>3 DEF Message
<1>7. wire' = [wire EXCEPT ![s] = @ \o m]
  <2>1. wire[s] \in Seq(Message) /\ Head(c.obuf) \in Message
    BY <1>3 DEF IInv, TypeOK, Message
  <2>2. Append(wire[s], Head(c.obuf)) = wire[s] \o m
    BY <2>1
  <2> QED BY <2>2 DEF SendReply
<1>8. c2.handler = h /\ c2.obuf = o /\ c2.replstate = "ONLINE" /\ c2.psync = c.psync
  BY <1>1 DEF ClientType
<1>9. h => o # <<>>
  OBVIOUS
<1> HIDE DEF h, o
<1>10. c2 \in ClientType
  BY <1>1, <1>3, <1>4, Zenon DEF ClientType
<1> HIDE DEF c2, m
<1>11. ClientInOrder(c2)
  BY <1>1, <1>8, <1>9 DEF ClientInOrder
<1>12. backlog.active
  BY <1>1 DEF IInv, SlavesHaveBacklog, SlaveList, IsSlave, SlaveStates
<1>13. /\ UNCHANGED <<masterVars, slave, backlog, slaveseldb, child, budget>>
       /\ budget' \in [Events -> Nat] /\ slaveseldb' \in DBs \cup {-1}
       /\ BacklogInOrder(backlog') /\ child' \in ChildType
       /\ child'.sent \subseteq child'.fds
  BY DEF SendReply, IInv, TypeOK, MasterTyped, ChildConsistent
<1> QED BY <1>1, <1>5, <1>6, <1>7, <1>8, <1>10, <1>11, <1>12, <1>13,
           ConnectionStep

(* replconfCommand() of an ACK preserves the invariant.                     *)
LEMMA ReplconfAckStep ==
  ASSUME IInv, NEW s \in Slaves, ReplconfAck(s)
  PROVE  IInv'
<1> DEFINE c  == client[s]
           c2 == IF c.replstate = "ONLINE" /\ c.onack THEN PutOnline(c) ELSE c
<1>1. c \in ClientType /\ ClientInOrder(c) /\ (s \in child.fds => c.replstate = "END")
  BY DEF IInv, TypeOK, ClientsConsistent
<1>2. c2 \in ClientType /\ ClientInOrder(c2) /\ c2.replstate = c.replstate
  BY <1>1, PutOnlineInOrder
<1>3. client' = [client EXCEPT ![s] = c2]
  BY DEF ReplconfAck, IInv, TypeOK
<1>4. /\ UNCHANGED <<masterVars, slave, backlog, slaveseldb, child, wire, budget>>
  BY DEF ReplconfAck
<1> HIDE DEF c2
<1>5. /\ client' \in [Slaves -> ClientType] /\ client'[s] = c2
      /\ \A t \in Slaves \ {s} : client'[t] = client[t]
  BY <1>2, <1>3 DEF IInv, TypeOK
<1>6. TypeOK'
  BY <1>4, <1>5 DEF IInv, TypeOK, MasterTyped, masterVars
<1>7. SlavesHaveBacklog'
  BY <1>2, <1>4, <1>5 DEF IInv, SlavesHaveBacklog, SlaveList, IsSlave
<1>8. ClientsConsistent' /\ ChildConsistent'
  BY <1>1, <1>2, <1>4, <1>5 DEF IInv, ClientsConsistent, ChildConsistent
<1>9. RepliesFirst'
  BY <1>2, <1>4, <1>5 DEF IInv, RepliesFirst, ReplyFirst
<1> QED BY <1>4, <1>6, <1>7, <1>8, <1>9 DEF IInv

(* freeClient() of a slave leaves the other connections and the child in    *)
(* order.                                                                   *)
LEMMA FreeClientStep ==
  ASSUME IInv, NEW s \in Slaves, FreeClient(s)
  PROVE  /\ client' \in [Slaves -> ClientType] /\ child' \in ChildType
         /\ client'[s].replstate = "CLOSED"
         /\ \A t \in Slaves \ {s} : client'[t] = client[t]
         /\ UNCHANGED backlog => SlavesHaveBacklog'
         /\ ClientsConsistent' /\ ChildConsistent'
<1>1. /\ client' \in [Slaves -> ClientType] /\ client'[s] = Closed
      /\ \A t \in Slaves \ {s} : client'[t] = client[t]
  BY ClosedInOrder DEF FreeClient, IInv, TypeOK
<1>2. /\ child' \in ChildType
      /\ child'.fds = child.fds \ {s} /\ child'.sent = child.sent \ {s}
  BY DEF FreeClient, IInv, TypeOK, ChildType
<1>3. ASSUME UNCHANGED backlog
      PROVE  SlavesHaveBacklog'
  <2>1. SlaveList' \subseteq SlaveList
    BY <1>1, ClosedInOrder DEF SlaveList, IsSlave, SlaveStates
  <2> QED BY <1>3, <2>1 DEF IInv, SlavesHaveBacklog
<1>4. ClientsConsistent'
  BY <1>1, <1>2, ClosedInOrder DEF IInv, ClientsConsistent
<1>5. ChildConsistent'
  BY <1>2 DEF IInv, ChildConsistent
<1> QED BY <1>1, <1>2, <1>3, <1>4, <1>5, ClosedInOrder

(* The loss of a link preserves the invariant: a backlog may well be left   *)
(* without slaves.                                                          *)
LEMMA LinkLostStep ==
  ASSUME IInv, NEW s \in Slaves, LinkLost(s)
  PROVE  IInv'
<1>1. /\ UNCHANGED <<masterVars, backlog, slaveseldb, slave, wire>>
      /\ FreeClient(s)
  BY DEF LinkLost
<1>2. /\ client' \in [Slaves -> ClientType] /\ child' \in ChildType
      /\ client'[s].replstate = "CLOSED"
      /\ \A t \in Slaves \ {s} : client'[t] = client[t]
      /\ SlavesHaveBacklog' /\ ClientsConsistent' /\ ChildConsistent'
  BY <1>1, FreeClientStep
<1>3. budget' \in [Events -> Nat]
  BY SpendTyped DEF LinkLost, Events, IInv, TypeOK, MasterTyped
<1>4. TypeOK'
  BY <1>1, <1>2, <1>3 DEF IInv, TypeOK, MasterTyped, masterVars
<1>5. RepliesFirst'
  BY <1>1, <1>2 DEF IInv, RepliesFirst, ReplyFirst
<1> QED BY <1>1, <1>2, <1>4, <1>5 DEF IInv

----------------------------------------------------------------------------
(* The RDB child.                                                           *)
LEMMA RdbForTyped ==
  ASSUME IInv, NEW c \in ClientType, NEW end \in {"length", "eofmark"}
  PROVE  RdbFor(c, end) \in RdbFile
<1>1. backlog.moff \in Nat
  BY BacklogFields DEF IInv, BacklogInOrder
<1>2. Len(c.obuf) \in Nat
  BY DEF ClientType
<1>3. backlog.moff - Len(c.obuf) \in Int /\ child.content \in Dataset
  BY <1>1, <1>2 DEF IInv, TypeOK, ChildType
<1> QED BY <1>3 DEF RdbFor, Rdb, RdbFile

(* bgsaveCommand() preserves the invariant.                                 *)
LEMMA BgsaveStep ==
  ASSUME IInv, Bgsave
  PROVE  IInv'
<1>1. /\ child' \in ChildType /\ child'.fds = {} /\ child'.sent = {}
  BY ChildTyped DEF Bgsave
<1>2. budget' \in [Events -> Nat]
  BY SpendTyped DEF Bgsave, Events, IInv, TypeOK, MasterTyped
<1>3. UNCHANGED <<masterVars, backlog, slaveseldb, client, slave, wire>>
  BY DEF Bgsave
<1>4. TypeOK'
  BY <1>1, <1>2, <1>3 DEF IInv, TypeOK, MasterTyped, masterVars
<1>5. SlavesHaveBacklog'
  BY <1>3 DEF IInv, SlavesHaveBacklog, SlaveList
<1>6. ClientsConsistent' /\ ChildConsistent'
  BY <1>1, <1>3 DEF IInv, ClientsConsistent, ChildConsistent
<1>7. RepliesFirst'
  BY <1>3 DEF IInv, RepliesFirst, ReplyFirst
<1> QED BY <1>3, <1>4, <1>5, <1>6, <1>7 DEF IInv

(* A write of the diskless child to a slave's socket preserves the          *)
(* invariant.                                                               *)
LEMMA ChildWriteStep ==
  ASSUME IInv, NEW s \in Slaves, ChildWrite(s)
  PROVE  IInv'
<1> DEFINE c   == client[s]
           rdb == RdbFor(c, "eofmark")
           m   == <<rdb>>
<1>1. /\ c \in ClientType /\ ClientInOrder(c) /\ c.replstate = "END"
      /\ s \in child.fds
  BY DEF ChildWrite, IInv, TypeOK, ClientsConsistent
<1>2. rdb \in Message /\ wire' = [wire EXCEPT ![s] = Append(@, rdb)]
  <2>2. rdb \in RdbFile
    BY <1>1, RdbForTyped
  <2> QED BY <2>2 DEF Message, ChildWrite
<1> HIDE DEF rdb
<1>3. m \in Seq(Message) /\ m # <<>>
  BY <1>2
<1>4. wire' = [wire EXCEPT ![s] = @ \o m]
  <2>1. wire[s] \in Seq(Message)
    BY DEF IInv, TypeOK
  <2>2. Append(wire[s], rdb) = wire[s] \o m
    BY <1>2, <2>1
  <2> QED BY <1>2, <2>2
<1>5. /\ child' \in ChildType /\ child'.fds = child.fds
      /\ child'.sent = child.sent \cup {s}
  BY DEF ChildWrite, IInv, TypeOK, ChildType
<1>6. child'.sent \subseteq child'.fds
  BY <1>1, <1>5 DEF IInv, ChildConsistent
<1>7. backlog.active
  BY <1>1 DEF IInv, SlavesHaveBacklog, SlaveList, IsSlave, SlaveStates
<1>8. /\ UNCHANGED <<masterVars, slave, backlog, slaveseldb, client, budget>>
      /\ budget' \in [Events -> Nat] /\ slaveseldb' \in DBs \cup {-1}
      /\ BacklogInOrder(backlog')
  BY DEF ChildWrite, IInv, TypeOK, MasterTyped
<1>9. client' = [client EXCEPT ![s] = c]
  BY <1>8 DEF IInv, TypeOK
<1> HIDE DEF m
<1> QED BY <1>1, <1>3, <1>4, <1>5, <1>6, <1>7, <1>8, <1>9, ConnectionStep

(* A step that moves connections from state to state, sends nothing and     *)
(* replaces the child.                                                      *)
LEMMA ChildStep ==
  ASSUME IInv,
         UNCHANGED <<runid, data, nextid, backlog, slaveseldb, slave, wire>>,
         dump' \in Dataset, budget' \in [Events -> Nat],
         child' \in ChildType, child'.sent \subseteq child'.fds,
         client' \in [Slaves -> ClientType],
         \A s \in Slaves : ClientInOrder(client'[s]),
         \A s \in Slaves :
            \/ client'[s].replstate = client[s].replstate
            \/ IsSlave(client[s]) /\ client'[s].replstate # "NONE",
         \A s \in child'.fds : client'[s].replstate = "END"
  PROVE  IInv'
<1>1. TypeOK'
  BY DEF IInv, TypeOK, MasterTyped
<1>2. SlavesHaveBacklog'
  BY DEF IInv, SlavesHaveBacklog, SlaveList, IsSlave
<1>3. ClientsConsistent' /\ ChildConsistent'
  BY <1>1 DEF ClientsConsistent, ChildConsistent, TypeOK, ChildType
<1>4. RepliesFirst'
  <2> SUFFICES ASSUME NEW s \in Slaves
               PROVE  ReplyFirst(s)'
    BY DEF RepliesFirst
  <2>1. ReplyFirst(s)
    BY DEF IInv, RepliesFirst
  <2>2. CASE client'[s].replstate = client[s].replstate
    BY <2>1, <2>2 DEF ReplyFirst
  <2>3. CASE IsSlave(client[s])
    BY <2>1, <2>3 DEF ReplyFirst, IsSlave, SlaveStates
  <2> QED BY <2>2, <2>3
<1> QED BY <1>1, <1>2, <1>3, <1>4 DEF IInv

(* replicationCron() starting a child, or failing to, preserves the         *)
(* invariant.                                                               *)
LEMMA CronStartBgsaveStep ==
  ASSUME IInv, NEW forked \in BOOLEAN, CronStartBgsave(forked)
  PROVE  IInv'
<1> DEFINE moved(s) == s \in In("START") /\ (forked \/ Diskless)
<1>1. client' = [s \in Slaves |-> IF moved(s)
                   THEN [client[s] EXCEPT !.replstate = "END"] ELSE client[s]]
  BY DEF CronStartBgsave
<1>2. client \in [Slaves -> ClientType]
  BY DEF IInv, TypeOK
<1>3. ASSUME NEW s \in Slaves
      PROVE  /\ client'[s] \in ClientType /\ ClientInOrder(client'[s])
             /\ moved(s) => client'[s].replstate = "END" /\ IsSlave(client[s])
             /\ ~moved(s) => client'[s] = client[s]
  <2>1. client[s] \in ClientType /\ ClientInOrder(client[s])
    BY DEF IInv, TypeOK, ClientsConsistent
  <2>2. CASE moved(s)
    <3>1. client[s].replstate = "START" /\ IsSlave(client[s])
      BY <2>2 DEF In, IsSlave, SlaveStates
    <3>2. client'[s] = [client[s] EXCEPT !.replstate = "END"]
      BY <1>1, <2>2
    <3> QED BY <2>1, <2>2, <3>1, <3>2, MovedInOrder DEF SlaveStates
  <2>3. CASE ~moved(s)
    BY <1>1, <2>1, <2>3
  <2> QED BY <2>2, <2>3
<1>4. client' \in [Slaves -> ClientType]
  BY <1>1, <1>3
<1>5. In("START") \in SUBSET Slaves
  BY DEF In
<1>6. /\ child' \in ChildType /\ child'.sent \subseteq child'.fds
      /\ child'.fds \subseteq child.fds \cup In("START")
      /\ child'.fds # child.fds => forked
  BY <1>5, ChildTyped DEF CronStartBgsave, IInv, ChildConsistent
<1>7. budget' \in [Events -> Nat]
  BY SpendTyped DEF CronStartBgsave, When, Events, IInv, TypeOK, MasterTyped
<1>8. ASSUME NEW s \in child'.fds
      PROVE  client'[s].replstate = "END"
  <2>1. s \in Slaves
    BY <1>6 DEF ChildType
  <2>2. CASE s \in child.fds
    BY <1>3, <2>1, <2>2 DEF IInv, ClientsConsistent
  <2>3. CASE s \notin child.fds
    BY <1>3, <1>6, <2>1, <2>3
  <2> QED BY <2>2, <2>3
<1>9. UNCHANGED <<masterVars, backlog, slaveseldb, slave, wire>>
  BY DEF CronStartBgsave
<1>10. dump' \in Dataset
  BY <1>9 DEF masterVars, IInv, TypeOK, MasterTyped
<1>11. \A s \in Slaves :
            \/ client'[s].replstate = client[s].replstate
            \/ IsSlave(client[s]) /\ client'[s].replstate # "NONE"
  BY <1>3
<1> HIDE DEF moved
<1> QED BY <1>3, <1>4, <1>6, <1>7, <1>8, <1>9, <1>10, <1>11, ChildStep
        DEF masterVars

(* updateSlavesWaitingBgsave() for one slave.                               *)
LEMMA UpdatedInOrder ==
  ASSUME IInv, NEW c \in ClientType, ClientInOrder(c),
         NEW type \in {"disk", "socket"}, NEW ok \in BOOLEAN
  PROVE  LET c2 == UpdatedSlave(c, type, ok)
         IN /\ c2 \in ClientType /\ ClientInOrder(c2)
            /\ \/ c2.replstate = c.replstate
               \/ IsSlave(c) /\ c2.replstate # "NONE"
<1> DEFINE c2 == UpdatedSlave(c, type, ok)
<1>1. CASE c.replstate = "START"
  <2>1. c2 = [c EXCEPT !.replstate = "END"]
    BY <1>1 DEF UpdatedSlave
  <2>2. IsSlave(c)
    BY <1>1 DEF IsSlave, SlaveStates
  <2> HIDE DEF c2
  <2>3. c2 \in ClientType /\ ClientInOrder(c2) /\ c2.replstate = "END"
    BY <1>1, <2>1, MovedInOrder DEF SlaveStates
  <2> QED BY <2>2, <2>3 DEF c2
<1>2. CASE c.replstate = "END" /\ type = "socket"
  <2> DEFINE yes == TRUE
             rs  == "ONLINE"
             c3  == [c EXCEPT !.replstate = rs, !.onack = yes]
  <2>1. c2 = c3
    BY <1>2, Zenon DEF UpdatedSlave
  <2>2. yes \in BOOLEAN /\ rs \in SlaveStates
    BY DEF SlaveStates
  <2>3. c3.replstate = rs /\ c3.handler = c.handler /\ c3.psync = c.psync
    BY DEF ClientType
  <2>4. IsSlave(c) /\ ~c.handler /\ ~c.psync
    BY <1>2 DEF IsSlave, SlaveStates, ClientInOrder
  <2> HIDE DEF yes, c2
  <2>5. rs # "NONE"
    OBVIOUS
  <2> HIDE DEF rs
  <2>6. c3 \in ClientType
    BY <2>2, Zenon DEF ClientType
  <2> HIDE DEF c3
  <2>7. ClientInOrder(c3)
    BY <2>3, <2>4 DEF ClientInOrder
  <2> QED BY <2>1, <2>3, <2>4, <2>5, <2>6, <2>7 DEF c2
<1>3. CASE c.replstate = "END" /\ type = "disk" /\ ok
  <2> DEFINE rs == "SEND_BULK"
             f  == <<RdbFor(c, "length")>>
             c3 == [c EXCEPT !.replstate = rs, !.file = f]
  <2>1. c2 = c3
    BY <1>3, Zenon DEF UpdatedSlave
  <2>2. f \in Seq(RdbFile) /\ rs \in SlaveStates
    <3>1. RdbFor(c, "length") \in RdbFile
      BY RdbForTyped
    <3> QED BY <3>1 DEF SlaveStates
  <2>3. c3.replstate = rs /\ c3.handler = c.handler /\ c3.psync = c.psync
    BY DEF ClientType
  <2>4. IsSlave(c) /\ ~c.handler /\ ~c.psync
    BY <1>3 DEF IsSlave, SlaveStates, ClientInOrder
  <2>5. rs # "NONE"
    OBVIOUS
  <2> HIDE DEF rs, f, c2
  <2>6. c3 \in ClientType
    BY <2>2, Zenon DEF ClientType
  <2> HIDE DEF c3
  <2>7. ClientInOrder(c3)
    BY <2>3, <2>4 DEF ClientInOrder
  <2> QED BY <2>1, <2>3, <2>4, <2>5, <2>6, <2>7 DEF c2
<1>4. CASE c.replstate = "END" /\ type = "disk" /\ ~ok
  <2>1. c2 = Closed
    BY <1>4 DEF UpdatedSlave
  <2> QED BY <1>4, <2>1, ClosedInOrder DEF IsSlave, SlaveStates
<1>5. CASE c.replstate \notin {"START", "END"}
  <2>1. c2 = c
    BY <1>5 DEF UpdatedSlave
  <2> QED BY <2>1
<1> QED BY <1>1, <1>2, <1>3, <1>4, <1>5

(* backgroundSaveDoneHandlerDisk() preserves the invariant.                 *)
LEMMA BgsaveDoneDiskStep ==
  ASSUME IInv, NEW ok \in BOOLEAN, NEW forked \in BOOLEAN,
         BgsaveDoneDisk(ok, forked)
  PROVE  IInv'
<1>1. \A s \in Slaves : /\ client[s] \in ClientType
                        /\ ClientInOrder(client[s])
  BY DEF IInv, TypeOK, ClientsConsistent
<1>2. client' = [s \in Slaves |-> UpdatedSlave(client[s], "disk", ok)]
  BY DEF BgsaveDoneDisk
<1>3. \A s \in Slaves :
         /\ client'[s] \in ClientType /\ ClientInOrder(client'[s])
         /\ \/ client'[s].replstate = client[s].replstate
            \/ IsSlave(client[s]) /\ client'[s].replstate # "NONE"
  BY <1>1, <1>2, UpdatedInOrder
<1>4. client' \in [Slaves -> ClientType]
  BY <1>2, <1>3
<1>5. /\ child' \in ChildType /\ child'.sent \subseteq child'.fds
      /\ child'.fds = {}
  BY ChildTyped DEF BgsaveDoneDisk, NextChild
<1>6. budget' \in [Events -> Nat]
  BY SpendTyped DEF BgsaveDoneDisk, When, Events, IInv, TypeOK, MasterTyped
<1>7. dump' \in Dataset
  BY DEF BgsaveDoneDisk, IInv, TypeOK, MasterTyped, ChildType
<1>8. UNCHANGED <<runid, data, nextid, backlog, slaveseldb, slave, wire>>
  BY DEF BgsaveDoneDisk
<1> QED BY <1>3, <1>4, <1>5, <1>6, <1>7, <1>8, ChildStep

(* backgroundSaveDoneHandlerSocket() preserves the invariant.               *)
LEMMA BgsaveDoneSocketStep ==
  ASSUME IInv, NEW ok \in BOOLEAN, NEW forked \in BOOLEAN,
         BgsaveDoneSocket(ok, forked)
  PROVE  IInv'
<1> DEFINE freed == In("END") \ (IF ok THEN child.sent ELSE {})
<1>1. \A s \in Slaves : /\ client[s] \in ClientType
                        /\ ClientInOrder(client[s])
  BY DEF IInv, TypeOK, ClientsConsistent
<1>2. client' = [s \in Slaves |-> IF s \in freed THEN Closed
                                  ELSE UpdatedSlave(client[s], "socket", ok)]
  BY DEF BgsaveDoneSocket
<1>3. ASSUME NEW s \in Slaves
      PROVE  /\ client'[s] \in ClientType /\ ClientInOrder(client'[s])
             /\ \/ client'[s].replstate = client[s].replstate
                \/ IsSlave(client[s]) /\ client'[s].replstate # "NONE"
  <2>1. CASE s \in freed
    BY <1>2, <2>1, ClosedInOrder DEF In, IsSlave, SlaveStates
  <2>2. CASE s \notin freed
    <3>1. client'[s] = UpdatedSlave(client[s], "socket", ok)
      BY <1>2, <2>2
    <3> QED BY <1>1, <3>1, UpdatedInOrder
  <2> QED BY <2>1, <2>2
<1>4. client' \in [Slaves -> ClientType]
  BY <1>2, <1>3
<1>5. /\ child' \in ChildType /\ child'.sent \subseteq child'.fds
      /\ child'.fds = {}
  BY ChildTyped DEF BgsaveDoneSocket, NextChild
<1>6. budget' \in [Events -> Nat]
  BY SpendTyped DEF BgsaveDoneSocket, When, Events, IInv, TypeOK, MasterTyped
<1>7. UNCHANGED <<masterVars, backlog, slaveseldb, slave, wire>>
  BY DEF BgsaveDoneSocket
<1>8. dump' \in Dataset
  BY <1>7 DEF masterVars, IInv, TypeOK, MasterTyped
<1> HIDE DEF freed
<1> QED BY <1>3, <1>4, <1>5, <1>6, <1>7, <1>8, ChildStep DEF masterVars

(* A new process has no slaves, and so may start without a backlog.         *)
LEMMA MasterCrashStep ==
  ASSUME IInv, MasterCrash
  PROVE  IInv'
<1>1. backlog.size \in Nat \ {0} /\ runid \in Nat /\ dump \in Dataset
  BY BacklogFields DEF IInv, BacklogInOrder, TypeOK, MasterTyped
<1>2. BacklogInOrder(backlog')
  BY <1>1, NoBacklogInOrder DEF MasterCrash
<1>3. /\ child' \in ChildType /\ child'.fds = {} /\ child'.sent = {}
  BY ChildTyped DEF MasterCrash
<1>4. /\ client' \in [Slaves -> ClientType]
      /\ \A s \in Slaves : client'[s] = Closed
  BY ClosedInOrder DEF MasterCrash
<1>5. budget' \in [Events -> Nat]
  BY SpendTyped DEF MasterCrash, Events, IInv, TypeOK, MasterTyped
<1>6. TypeOK'
  BY <1>1, <1>2, <1>3, <1>4, <1>5
     DEF MasterCrash, IInv, TypeOK, MasterTyped, BacklogInOrder
<1>7. SlavesHaveBacklog'
  BY <1>4, ClosedInOrder DEF SlavesHaveBacklog, SlaveList, IsSlave, SlaveStates
<1>8. ClientsConsistent' /\ ChildConsistent'
  BY <1>3, <1>4, ClosedInOrder DEF ClientsConsistent, ChildConsistent
<1>9. RepliesFirst'
  BY <1>4, ClosedInOrder DEF MasterCrash, IInv, RepliesFirst, ReplyFirst
<1> QED BY <1>2, <1>6, <1>7, <1>8, <1>9 DEF IInv

----------------------------------------------------------------------------
(* The slave.                                                               *)

(* A step of the slave s, which may read the first message it was sent.     *)
LEMMA SlaveSideStep ==
  ASSUME IInv, NEW s \in Slaves, NEW r \in SlaveType, NEW w \in Seq(Message),
         slave' = [slave EXCEPT ![s] = r], wire' = [wire EXCEPT ![s] = w],
         UNCHANGED <<masterSide, budget, client>>,
         ReplyFirst(s)'
  PROVE  IInv'
<1>1. /\ slave \in [Slaves -> SlaveType] /\ wire \in [Slaves -> Seq(Message)]
      /\ \A t \in Slaves : ReplyFirst(t)
  BY DEF IInv, TypeOK, RepliesFirst
<1>2. /\ slave' \in [Slaves -> SlaveType] /\ wire' \in [Slaves -> Seq(Message)]
      /\ \A t \in Slaves \ {s} : slave'[t] = slave[t] /\ wire'[t] = wire[t]
  BY <1>1
<1>3. TypeOK'
  BY <1>2 DEF IInv, TypeOK, MasterTyped, masterSide, masterVars
<1>4. SlavesHaveBacklog' /\ ClientsConsistent' /\ ChildConsistent'
  BY DEF IInv, SlavesHaveBacklog, SlaveList, ClientsConsistent,
         ChildConsistent, masterSide
<1>5. RepliesFirst'
  BY <1>1, <1>2 DEF RepliesFirst, ReplyFirst
<1> QED BY <1>3, <1>4, <1>5 DEF IInv, masterSide

(* connectWithMaster() and syncWithMaster() preserve the invariant.         *)
LEMMA SyncWithMasterStep ==
  ASSUME IInv, NEW s \in Slaves, SyncWithMaster(s)
  PROVE  IInv'
<1>1. /\ slave' = [slave EXCEPT ![s].state = "RECEIVE_PONG", ![s].initial = -1]
      /\ client' = [client EXCEPT ![s] = Accepted]
      /\ slave[s].state = "CONNECT"
      /\ client[s].replstate = "CLOSED"
      /\ UNCHANGED <<masterSide, wire, budget>>
  BY DEF SyncWithMaster
<1>2. /\ slave \in [Slaves -> SlaveType] /\ client \in [Slaves -> ClientType]
      /\ wire[s] = <<>> /\ s \notin child.fds
  BY <1>1 DEF IInv, TypeOK, RepliesFirst, ReplyFirst, ClientsConsistent
<1>3. /\ client' \in [Slaves -> ClientType] /\ client'[s] = Accepted
      /\ \A t \in Slaves \ {s} : client'[t] = client[t]
  BY <1>1, <1>2, ClosedInOrder
<1>4. /\ slave' \in [Slaves -> SlaveType] /\ slave'[s].state = "RECEIVE_PONG"
      /\ \A t \in Slaves \ {s} : slave'[t] = slave[t]
  BY <1>1, <1>2 DEF SlaveType
<1>5. TypeOK'
  BY <1>1, <1>3, <1>4 DEF IInv, TypeOK, MasterTyped, masterSide, masterVars
<1>6. SlavesHaveBacklog'
  <2>1. SlaveList' \subseteq SlaveList
    BY <1>3, ClosedInOrder DEF SlaveList, IsSlave, SlaveStates
  <2> QED BY <1>1, <2>1 DEF IInv, SlavesHaveBacklog, masterSide
<1>7. ClientsConsistent' /\ ChildConsistent'
  BY <1>1, <1>2, <1>3, ClosedInOrder
     DEF IInv, ClientsConsistent, ChildConsistent, masterSide
<1>8. RepliesFirst'
  BY <1>1, <1>2, <1>3, <1>4, ClosedInOrder DEF IInv, RepliesFirst, ReplyFirst
<1> QED BY <1>1, <1>5, <1>6, <1>7, <1>8 DEF IInv, masterSide

(* slaveTryPartialResynchronization() finds +CONTINUE or +FULLRESYNC first, *)
(* and so takes a run id and an offset from nothing else.                   *)
LEMMA ReadPsyncReplyStep ==
  ASSUME IInv, NEW s \in Slaves, ReadPsyncReply(s)
  PROVE  IInv'
<1> DEFINE i     == slave[s]
           reply == Head(wire[s])
           w     == Tail(wire[s])
           no    == FALSE
<1>1. /\ i \in SlaveType /\ wire[s] \in Seq(Message) /\ wire[s] # <<>>
      /\ i.state = "RECEIVE_PONG"
  BY DEF IInv, TypeOK, ReadPsyncReply
<1>2. w \in Seq(Message) /\ reply \in Message
  BY <1>1
<1>3. reply.op \in {"CONTINUE", "FULLRESYNC"}
  BY <1>1 DEF IInv, RepliesFirst, ReplyFirst
<1>4. no \in BOOLEAN
  OBVIOUS
<1>5. CASE reply.op = "CONTINUE"
  <2> DEFINE st == "CONNECTED"
             tr == IF i.trust = "exact" THEN i.trust ELSE "resumed"
             r  == [i EXCEPT !.state = st, !.cached = no, !.trust = tr]
  <2>1. /\ st \in {"CONNECT", "RECEIVE_PONG", "TRANSFER", "CONNECTED"}
        /\ tr \in {"exact", "inexact", "resumed"}
    OBVIOUS
  <2>2. r.state = "CONNECTED"
    BY <1>1 DEF SlaveType
  <2>3. Continued(i) = r
    BY Zenon DEF Continued
  <2> HIDE DEF no, st, tr
  <2>4. r \in SlaveType
    BY <1>1, <1>4, <2>1, Zenon DEF SlaveType
  <2> HIDE DEF r
  <2>5. slave' = [slave EXCEPT ![s] = r] /\ wire' = [wire EXCEPT ![s] = w]
    BY <1>5, <2>3 DEF ReadPsyncReply
  <2> HIDE DEF w
  <2>6. slave'[s] = r
    BY <2>5 DEF IInv, TypeOK
  <2>7. ReplyFirst(s)'
    BY <2>2, <2>6 DEF ReplyFirst
  <2> QED BY <1>2, <2>4, <2>5, <2>7, SlaveSideStep DEF ReadPsyncReply
<1>6. CASE reply.op = "FULLRESYNC"
  <2> DEFINE st == "TRANSFER"
             ri == reply.runid
             ro == reply.offset
             r  == [i EXCEPT !.state = st, !.cached = no,
                             !.runid = ri, !.initial = ro]
  <2>1. /\ st \in {"CONNECT", "RECEIVE_PONG", "TRANSFER", "CONNECTED"}
        /\ ri \in Nat /\ ro \in Nat
    BY <1>2, <1>6 DEF Message, Entry, RdbFile, Continue, Error, Ping
  <2>2. r.state = "TRANSFER" /\ r.initial = ro
    BY <1>1 DEF SlaveType
  <2>3. ToTransfer(i, reply) = r
    BY Zenon DEF ToTransfer
  <2> HIDE DEF no, st, ri, ro
  <2>4. ro \in Nat \cup {-1} /\ ro # -1
    BY <2>1
  <2>5. r \in SlaveType
    BY <1>1, <1>4, <2>1, <2>4, Zenon DEF SlaveType
  <2> HIDE DEF r
  <2>6. slave' = [slave EXCEPT ![s] = r] /\ wire' = [wire EXCEPT ![s] = w]
    BY <1>6, <2>3 DEF ReadPsyncReply
  <2> HIDE DEF w
  <2>7. slave'[s] = r
    BY <2>6 DEF IInv, TypeOK
  <2>8. ReplyFirst(s)'
    BY <2>2, <2>4, <2>7 DEF ReplyFirst
  <2> QED BY <1>2, <2>5, <2>6, <2>8, SlaveSideStep DEF ReadPsyncReply
<1> QED BY <1>3, <1>5, <1>6

(* readSyncBulkPayload() at the end of the file preserves the invariant.    *)
LEMMA LoadRdbStep ==
  ASSUME IInv, NEW s \in Slaves, LoadRdb(s)
  PROVE  IInv'
<1> DEFINE i   == slave[s]
           rdb == Head(wire[s])
           r   == [i EXCEPT !.state = "CONNECTED", !.data = rdb.content,
                            !.db = 0, !.reploff = i.initial,
                            !.trust = IF i.initial = rdb.at
                                      THEN "exact" ELSE "inexact"]
           w   == Tail(wire[s])
<1>1. /\ i \in SlaveType /\ wire[s] \in Seq(Message) /\ wire[s] # <<>>
      /\ i.state = "TRANSFER" /\ rdb.op = "RDB"
  BY DEF IInv, TypeOK, LoadRdb
<1>2. w \in Seq(Message) /\ rdb \in Message
  BY <1>1
<1>3. rdb.content \in Dataset
  BY <1>1, <1>2 DEF Message, Entry, RdbFile, Continue, Error, Ping
<1>4. i.initial \in Nat
  BY <1>1 DEF IInv, RepliesFirst, ReplyFirst, SlaveType
<1>5. r \in SlaveType
  BY <1>1, <1>3, <1>4, ConstantsTyped DEF SlaveType
<1>6. r.state = "CONNECTED"
  BY <1>1 DEF SlaveType
<1>7. slave' = [slave EXCEPT ![s] = r] /\ wire' = [wire EXCEPT ![s] = w]
  BY DEF LoadRdb
<1> HIDE DEF r, w
<1>8. slave'[s] = r
  BY <1>7 DEF IInv, TypeOK
<1>9. ReplyFirst(s)'
  BY <1>6, <1>8 DEF ReplyFirst
<1> QED BY <1>2, <1>5, <1>7, <1>9, SlaveSideStep DEF LoadRdb

(* The messages a slave drops or that end its transfer leave it as it is.   *)
LEMMA SwallowStep ==
  ASSUME IInv, NEW s \in Slaves, MissEofMark(s) \/ SwallowStream(s)
  PROVE  IInv'
<1> DEFINE i == slave[s]
           w == Tail(wire[s])
<1>1. /\ i \in SlaveType /\ wire[s] \in Seq(Message) /\ wire[s] # <<>>
      /\ i.state = "TRANSFER"
  BY DEF IInv, TypeOK, MissEofMark, SwallowStream
<1>2. w \in Seq(Message)
  BY <1>1
<1>3. /\ wire' = [wire EXCEPT ![s] = w]
      /\ UNCHANGED <<masterSide, client, slave, budget>>
  BY DEF MissEofMark, SwallowStream
<1>4. slave' = [slave EXCEPT ![s] = i]
  BY <1>3 DEF IInv, TypeOK
<1>5. ReplyFirst(s)'
  BY <1>1, <1>3 DEF IInv, RepliesFirst, ReplyFirst
<1> HIDE DEF w
<1> QED BY <1>1, <1>2, <1>3, <1>4, <1>5, SlaveSideStep

(* readQueryFromClient() of the master client preserves the invariant: what *)
(* a connected slave reads is a command.                                    *)
LEMMA ReadStreamStep ==
  ASSUME IInv, NEW s \in Slaves, ReadStream(s)
  PROVE  IInv'
<1> DEFINE i == slave[s]
           e == Head(wire[s])
           r == Executed(i, e)
           w == Tail(wire[s])
<1>1. /\ i \in SlaveType /\ wire[s] \in Seq(Message) /\ wire[s] # <<>>
      /\ i.state = "CONNECTED"
  BY DEF IInv, TypeOK, ReadStream
<1>2. w \in Seq(Message) /\ e \in Message
  BY <1>1
<1>3. /\ e.op = "SELECT" => e.arg \in DBs
      /\ e.op = "CMD" => e.arg \in Nat
  BY <1>2 DEF Message, Entry, RdbFile, Continue, Error, Ping
<1>4. i.reploff + 1 \in Nat /\ i.db \in DBs /\ i.data \in Dataset
  BY <1>1 DEF SlaveType
<1>5. r \in SlaveType /\ r.state = "CONNECTED"
  <2>1. CASE e.op = "SELECT"
    BY <1>1, <1>3, <1>4, <2>1 DEF Executed, SlaveType
  <2>2. CASE e.op = "CMD"
    <3>1. Append(i.data, <<i.db, e.arg>>) \in Dataset
      BY <1>3, <1>4, <2>2 DEF Dataset
    <3> QED BY <1>1, <1>4, <2>2, <3>1 DEF Executed, SlaveType
  <2>3. CASE e.op \notin {"SELECT", "CMD"}
    BY <1>1, <1>4, <2>3 DEF Executed, SlaveType
  <2> QED BY <2>1, <2>2, <2>3
<1>6. slave' = [slave EXCEPT ![s] = r] /\ wire' = [wire EXCEPT ![s] = w]
  BY DEF ReadStream
<1> HIDE DEF r, w
<1>7. slave'[s] = r
  BY <1>6 DEF IInv, TypeOK
<1>8. ReplyFirst(s)'
  BY <1>5, <1>7 DEF ReplyFirst
<1> QED BY <1>2, <1>5, <1>6, <1>8, SlaveSideStep DEF ReadStream

(* readSyncBulkPayload() aborting on an error reply preserves the           *)
(* invariant.                                                               *)
LEMMA ReadSyncErrorStep ==
  ASSUME IInv, NEW s \in Slaves, ReadSyncError(s)
  PROVE  IInv'
<1>1. /\ slave' = [slave EXCEPT ![s].state = "CONNECT"]
      /\ wire' = [wire EXCEPT ![s] = <<>>]
      /\ FreeClient(s)
      /\ UNCHANGED <<masterVars, backlog, slaveseldb, budget>>
  BY DEF ReadSyncError
<1>2. /\ client' \in [Slaves -> ClientType] /\ child' \in ChildType
      /\ client'[s].replstate = "CLOSED"
      /\ \A t \in Slaves \ {s} : client'[t] = client[t]
      /\ SlavesHaveBacklog' /\ ClientsConsistent' /\ ChildConsistent'
  BY <1>1, FreeClientStep
<1>3. <<>> \in Seq(Message)
  OBVIOUS
<1>4. /\ slave' \in [Slaves -> SlaveType] /\ slave'[s].state = "CONNECT"
      /\ wire' \in [Slaves -> Seq(Message)] /\ wire'[s] = <<>>
      /\ \A t \in Slaves \ {s} : slave'[t] = slave[t] /\ wire'[t] = wire[t]
  BY <1>1, <1>3 DEF IInv, TypeOK, SlaveType
<1>5. TypeOK'
  BY <1>1, <1>2, <1>4 DEF IInv, TypeOK, MasterTyped, masterVars
<1>6. RepliesFirst'
  BY <1>2, <1>4 DEF IInv, RepliesFirst, ReplyFirst
<1> QED BY <1>1, <1>2, <1>5, <1>6 DEF IInv

(* replicationHandleMasterDisconnection() preserves the invariant.          *)
LEMMA SeeCloseStep ==
  ASSUME IInv, NEW s \in Slaves, SeeClose(s)
  PROVE  IInv'
<1> DEFINE i  == slave[s]
           st == "CONNECT"
           ca == i.state = "CONNECTED"
           r  == [i EXCEPT !.state = st, !.cached = ca]
           w  == <<>>
<1>1. i \in SlaveType /\ client[s].replstate = "CLOSED"
  BY DEF IInv, TypeOK, SeeClose
<1>2. /\ st \in {"CONNECT", "RECEIVE_PONG", "TRANSFER", "CONNECTED"}
      /\ ca \in BOOLEAN /\ w \in Seq(Message)
  OBVIOUS
<1>3. r.state = "CONNECT"
  BY <1>1 DEF SlaveType
<1>4. slave' = [slave EXCEPT ![s] = r] /\ wire' = [wire EXCEPT ![s] = w]
  BY DEF SeeClose
<1> HIDE DEF st, ca
<1>5. r \in SlaveType
  BY <1>1, <1>2, Zenon DEF SlaveType
<1> HIDE DEF r
<1>6. slave'[s] = r /\ wire'[s] = <<>>
  BY <1>4 DEF IInv, TypeOK
<1>7. ReplyFirst(s)'
  BY <1>1, <1>3, <1>6 DEF ReplyFirst, SeeClose
<1> QED BY <1>2, <1>4, <1>5, <1>7, SlaveSideStep DEF SeeClose

----------------------------------------------------------------------------
(* The invariant holds when the first process has started.                  *)
LEMMA InitInOrder == Init => IInv
<1> SUFFICES ASSUME Init PROVE IInv
  OBVIOUS
<1>1. BacklogInOrder(backlog)
  BY NoBacklogInOrder, ConstantsTyped DEF Init
<1>2. /\ client \in [Slaves -> ClientType]
      /\ \A s \in Slaves : client[s] = Closed
  BY ClosedInOrder DEF Init
<1>3. <<>> \in Dataset /\ <<>> \in Seq(Message)
  BY DEF Dataset
<1>4. slave \in [Slaves -> SlaveType]
  <2> DEFINE no == FALSE
             new == [state |-> "CONNECT", cached |-> no, runid |-> 0,
                     reploff |-> 0, db |-> 0, initial |-> 0, data |-> <<>>,
                     trust |-> "exact"]
  <2>1. /\ no \in BOOLEAN /\ 0 \in Nat /\ 0 \in DBs /\ 0 \in Nat \cup {-1}
        /\ "CONNECT" \in {"CONNECT", "RECEIVE_PONG", "TRANSFER", "CONNECTED"}
        /\ "exact" \in {"exact", "inexact", "resumed"}
    BY ConstantsTyped
  <2>2. slave = [s \in Slaves |-> new]
    BY DEF Init
  <2> HIDE DEF no
  <2>3. new \in SlaveType
    BY <1>3, <2>1 DEF SlaveType
  <2> QED BY <2>2, <2>3
<1>5. child \in ChildType /\ child.fds = {} /\ child.sent = {}
  BY <1>3 DEF Init, NoChild, ChildType
<1>6. TypeOK
  BY <1>1, <1>2, <1>3, <1>4, <1>5, ConstantsTyped
     DEF Init, TypeOK, MasterTyped, BacklogInOrder
<1>7. SlavesHaveBacklog
  BY <1>2, ClosedInOrder DEF SlavesHaveBacklog, SlaveList, IsSlave, SlaveStates
<1>8. ClientsConsistent /\ ChildConsistent
  BY <1>2, <1>5, ClosedInOrder DEF ClientsConsistent, ChildConsistent
<1>9. RepliesFirst
  BY <1>2, ClosedInOrder DEF Init, RepliesFirst, ReplyFirst
<1> QED BY <1>1, <1>6, <1>7, <1>8, <1>9 DEF IInv

(* Every handler preserves the invariant.                                   *)
LEMMA NextInOrder == IInv /\ [Next]_vars => IInv'
<1> SUFFICES ASSUME IInv, [Next]_vars PROVE IInv'
  OBVIOUS
<1>1. CASE UNCHANGED vars
  BY <1>1 DEF vars, masterVars, IInv, TypeOK, MasterTyped, SlavesHaveBacklog,
              SlaveList, ClientsConsistent, ChildConsistent, RepliesFirst,
              ReplyFirst
<1>2. CASE MasterStep
  BY <1>2, WriteStep, CronPingStep, CronFreeBacklogStep, BgsaveStep,
     MasterCrashStep, ConfigResizeStep, CronStartBgsaveStep,
     BgsaveDoneDiskStep, BgsaveDoneSocketStep
     DEF MasterStep
<1>3. ASSUME NEW s \in Slaves, ClientStep(s)
      PROVE  IInv'
  BY <1>3, LinkLostStep, SyncCommandStep, SendBulkStep, SendReplyStep,
     ReplconfAckStep, ChildWriteStep DEF ClientStep
<1>4. ASSUME NEW s \in Slaves, SlaveStep(s)
      PROVE  IInv'
  BY <1>4, SyncWithMasterStep, ReadPsyncReplyStep, LoadRdbStep, SwallowStep,
     ReadSyncErrorStep, ReadStreamStep, SeeCloseStep DEF SlaveStep
<1> QED BY <1>1, <1>2, <1>3, <1>4 DEF Next

(* The inductive invariant holds in every state the handlers can reach.     *)
THEOREM Invariance == Spec => []IInv
BY InitInOrder, NextInOrder, PTL DEF Spec

(* Every value the handlers store has its type: a connection only ever gets *)
(* commands of the stream in its buffer, a slave only ever takes a run id   *)
(* and an offset from a +FULLRESYNC.                                        *)
THEOREM Typed == Spec => []TypeOK
<1>1. IInv => TypeOK
  BY DEF IInv
<1> QED BY <1>1, Invariance, PTL

(* The assertion of replicationFeedSlaves() never fails: whichever way      *)
(* slaves attach and go and the backlog is freed, slaves have a backlog.    *)
THEOREM NoSlaveWithoutBacklog == Spec => []SlavesHaveBacklog
<1>1. IInv => SlavesHaveBacklog
  BY DEF IInv
<1> QED BY <1>1, Invariance, PTL

(* What addReplyReplicationBacklog() sends to a slave that resumes is the   *)
(* stream from its offset on, in every reachable state of the backlog.      *)
THEOREM BacklogIsTheStream == Spec => []BacklogMatchesStream
<1>1. IInv => BacklogMatchesStream
  BY RingServesStream DEF IInv, BacklogInOrder, BacklogMatchesStream
<1> QED BY <1>1, Invariance, PTL
============================================================================
