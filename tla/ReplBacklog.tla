---------------------------- MODULE ReplBacklog ----------------------------
(* The replication backlog of a master (replication.c:71-148 and 302-350): *)
(* the circular buffer from which a partial resynchronisation is served.    *)
(*                                                                          *)
(* A backlog is one record, because every handler that touches it may feed  *)
(* it several times in one step.  Its unit is one command of the stream     *)
(* instead of one byte: offsets count commands.  ReplBacklogBytes checks    *)
(* that the byte loop of feedReplicationBacklog() is the iteration of the   *)
(* one-unit Feed below.                                                     *)
(*                                                                          *)
(* "stream" is a history variable: stream[o] is the command whose           *)
(* replication offset is o, so Len(stream) is master_repl_offset.  The      *)
(* offset createReplicationBacklog() burns is the entry Burnt.              *)
EXTENDS Integers, Sequences

Burnt == [op |-> "BURNT", arg |-> 0]

(* What zmalloc() leaves in a buffer nobody wrote to.                       *)
Garbage == [op |-> "GARBAGE", arg |-> 0]

Fresh(size) == [i \in 0 .. size - 1 |-> Garbage]

(* The server starts without a backlog (redis.c:1410-1418).                 *)
NoBacklog(size) ==
  [active |-> FALSE, size |-> size, buf |-> Fresh(size), idx |-> 0,
   histlen |-> 0, off |-> 0, moff |-> 0, stream |-> <<>>]

----------------------------------------------------------------------------
(* As feedReplicationBacklog() would be if the first offset were off by one.*)
FeedOffByOne(b, e) ==
  LET filled == IF b.histlen + 1 > b.size THEN b.size ELSE b.histlen + 1
  IN [b EXCEPT !.buf = [b.buf EXCEPT ![b.idx] = e],
               !.idx = IF b.idx + 1 = b.size THEN 0 ELSE b.idx + 1,
               !.histlen = filled, !.off = b.moff + 1 - filled,
               !.moff = b.moff + 1, !.stream = Append(@, e)]

(* feedReplicationBacklog() of one unit.                                    *)
Feed(b, e) ==
  LET filled == IF b.histlen + 1 > b.size THEN b.size ELSE b.histlen + 1
  IN [active  |-> b.active,
      size    |-> b.size,
      buf     |-> [b.buf EXCEPT ![b.idx] = e],
      idx     |-> IF b.idx + 1 = b.size THEN 0 ELSE b.idx + 1,
      histlen |-> filled,
      off     |-> b.moff + 1 - filled + 1,
      moff    |-> b.moff + 1,
      stream  |-> Append(b.stream, e)]

(* An empty buffer, whose first unit will be the next one of the stream.    *)
Emptied(size, moff, stream) ==
  [active |-> TRUE, size |-> size, buf |-> Fresh(size), idx |-> 0,
   histlen |-> 0, off |-> moff + 1, moff |-> moff, stream |-> stream]

(* createReplicationBacklog(): one offset is skipped, so that no slave of a *)
(* former backlog can be continued from this one.                           *)
Create(b) == Emptied(b.size, b.moff + 1, Append(b.stream, Burnt))

(* As resizeReplicationBacklog() would be without a new buffer.             *)
ResizeInPlace(b, size) == [b EXCEPT !.size = size]

(* resizeReplicationBacklog(): the history is dropped, not copied.          *)
Resize(b, size) ==
  IF size = b.size THEN b
  ELSE IF b.active THEN Emptied(size, b.moff, b.stream)
  ELSE [active |-> FALSE, size |-> size, buf |-> Fresh(size), idx |-> b.idx,
        histlen |-> b.histlen, off |-> b.off, moff |-> b.moff,
        stream |-> b.stream]

(* freeReplicationBacklog()                                                 *)
Free(b) ==
  [active |-> FALSE, size |-> b.size, buf |-> b.buf, idx |-> b.idx,
   histlen |-> b.histlen, off |-> b.off, moff |-> b.moff,
   stream |-> b.stream]

----------------------------------------------------------------------------
(* The test masterTryPartialResynchronization() makes on the offset.        *)
Holds(b, offset) ==
  /\ b.active
  /\ b.off <= offset
  /\ offset <= b.off + b.histlen

(* addReplyReplicationBacklog(): the units from "offset" to the end.        *)
BacklogTail(b, offset) ==
  LET skip  == offset - b.off
      first == (b.idx + (b.size - b.histlen)) % b.size
      start == (first + skip) % b.size
  IN IF b.histlen = 0 THEN <<>>
     ELSE [k \in 1 .. b.histlen - skip |-> b.buf[(start + (k - 1)) % b.size]]

----------------------------------------------------------------------------
IsBacklog(b, Entry) ==
  /\ b = [active |-> b.active, size |-> b.size, buf |-> b.buf, idx |-> b.idx,
          histlen |-> b.histlen, off |-> b.off, moff |-> b.moff,
          stream |-> b.stream]
  /\ b.active \in BOOLEAN
  /\ b.size \in Nat \ {0}
  /\ b.idx \in Nat /\ b.histlen \in Nat /\ b.off \in Nat /\ b.moff \in Nat
  /\ b.buf \in [0 .. b.size - 1 -> Entry \cup {Burnt, Garbage}]
  /\ b.stream \in Seq(Entry \cup {Burnt})

(* The k-th most recent unit lies k places before idx, round the ring.      *)
Place(idx, size, k) == IF k <= idx THEN idx - k ELSE idx - k + size

(* The buffer is the end of the stream: the counters agree with each other  *)
(* and each unit kept is the unit the master sent at that offset.           *)
RingMatchesStream(b) ==
  /\ b.moff = Len(b.stream)
  /\ b.active =>
       /\ b.idx < b.size
       /\ b.histlen <= b.size
       /\ b.histlen <= b.moff
       /\ b.off = b.moff - b.histlen + 1
       /\ b.histlen < b.size => b.idx = b.histlen
       /\ \A k \in 1 .. b.histlen :
             b.buf[Place(b.idx, b.size, k)] = b.stream[b.moff - k + 1]

(* Whatever offset a slave may ask for, it is sent the stream from there on.*)
TailMatchesStream(b) ==
  \A offset \in 1 .. b.moff + 1 :
     Holds(b, offset) => BacklogTail(b, offset) = SubSeq(b.stream, offset, b.moff)
============================================================================
