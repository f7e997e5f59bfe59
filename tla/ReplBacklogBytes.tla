-------------------------- MODULE ReplBacklogBytes --------------------------
(* The byte loops of the replication backlog (replication.c:125-148 and     *)
(* 302-350): a chunk of the stream is copied into the circular buffer, and  *)
(* the history is copied out of it, in runs that end at the end of the      *)
(* buffer.  They are checked against the one-unit Feed and the BacklogTail  *)
(* of ReplBacklog, which the replication model is built on.                 *)
EXTENDS ReplBacklog, SequencesExt

CONSTANTS
  Bytes,      \* the values of a byte
  Sizes,      \* the values repl-backlog-size is given
  MaxChunk,   \* the longest chunk fed at once, longer than some buffer
  MaxOffset   \* bound of master_repl_offset

ASSUME BytesAssumption ==
  /\ Sizes \subseteq Nat \ {0} /\ MaxChunk \in Nat /\ MaxOffset \in Nat

VARIABLE backlog

(* memcpy(server.repl_backlog + idx, p, Len(p))                             *)
Memcpy(buf, idx, p) ==
  [i \in DOMAIN buf |-> IF i - idx + 1 \in DOMAIN p THEN p[i - idx + 1] ELSE buf[i]]

(* As the loop would be if it did not rewind the index.                     *)
RECURSIVE CopiedUnrewound(_, _)
CopiedUnrewound(b, p) ==
  IF p = <<>> THEN b
  ELSE LET thislen == IF b.size - b.idx > Len(p) THEN Len(p) ELSE b.size - b.idx
           idx     == b.idx + thislen
       IN CopiedUnrewound(
            [b EXCEPT !.buf = Memcpy(@, b.idx, SubSeq(p, 1, thislen)),
                      !.idx = IF idx = b.size THEN b.size - 1 ELSE idx,
                      !.histlen = @ + thislen],
            SubSeq(p, thislen + 1, Len(p)))

(* The loop of feedReplicationBacklog().                                    *)
RECURSIVE Copied(_, _)
Copied(b, p) ==
  IF p = <<>> THEN b
  ELSE LET thislen == IF b.size - b.idx > Len(p) THEN Len(p) ELSE b.size - b.idx
           idx     == b.idx + thislen
       IN Copied([b EXCEPT !.buf = Memcpy(@, b.idx, SubSeq(p, 1, thislen)),
                           !.idx = IF idx = b.size THEN 0 ELSE idx,
                           !.histlen = @ + thislen],
                 SubSeq(p, thislen + 1, Len(p)))

FeedBytes(b, p) ==
  LET c       == Copied(b, p)
      moff    == b.moff + Len(p)
      histlen == IF c.histlen > c.size THEN c.size ELSE c.histlen
  IN [c EXCEPT !.moff = moff, !.histlen = histlen,
               !.off = moff - histlen + 1, !.stream = @ \o p]

(* The loop of addReplyReplicationBacklog(): "len" bytes from index j.      *)
RECURSIVE Runs(_, _, _)
Runs(b, j, len) ==
  IF len = 0 THEN <<>>
  ELSE LET thislen == IF b.size - j < len THEN b.size - j ELSE len
       IN [k \in 1 .. thislen |-> b.buf[j + k - 1]] \o Runs(b, 0, len - thislen)

AddReplyReplicationBacklog(b, offset) ==
  IF b.histlen = 0 THEN <<>>
  ELSE LET skip  == offset - b.off
           first == (b.idx + (b.size - b.histlen)) % b.size
       IN Runs(b, (first + skip) % b.size, b.histlen - skip)

----------------------------------------------------------------------------
Init == \E size \in Sizes : backlog = NoBacklog(size)

Chunks == UNION {[1 .. n -> Bytes] : n \in 1 .. MaxChunk}

FeedChunk(p) ==
  /\ backlog.active
  /\ backlog.moff + Len(p) <= MaxOffset
  /\ backlog' = FeedBytes(backlog, p)

CreateBacklog ==
  /\ ~backlog.active
  /\ backlog.moff < MaxOffset
  /\ backlog' = Create(backlog)

ResizeBacklog(size) ==
  /\ size # backlog.size
  /\ backlog' = Resize(backlog, size)

FreeBacklog == backlog.active /\ backlog' = Free(backlog)

Next ==
  \/ \E p \in Chunks : FeedChunk(p)
  \/ CreateBacklog
  \/ \E size \in Sizes : ResizeBacklog(size)
  \/ FreeBacklog

Spec == Init /\ [][Next]_backlog

----------------------------------------------------------------------------
(* feedReplicationBacklog() of a chunk is the feeding of its bytes one by   *)
(* one, also when the chunk is longer than the buffer.                      *)
LoopIsIteratedFeed ==
  backlog.active =>
    \A p \in Chunks : FeedBytes(backlog, p) = FoldLeft(Feed, backlog, p)

(* addReplyReplicationBacklog() answers a PSYNC with what BacklogTail says, *)
(* in at most two runs of the buffer.                                       *)
RunsAreTail ==
  \A offset \in 1 .. backlog.moff + 1 :
    Holds(backlog, offset) =>
      AddReplyReplicationBacklog(backlog, offset) = BacklogTail(backlog, offset)
=============================================================================
