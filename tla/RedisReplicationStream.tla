----------------------- MODULE RedisReplicationStream -----------------------
(* Why no write is lost: the inductive invariant behind SlavesAreServed and *)
(* TrustedSlavesShowThePast.  A slave is seen as where it starts from (its  *)
(* dataset, or the RDB that will replace it) and the rest of the stream it  *)
(* will read; most handlers only move a message along the wire, and change  *)
(* nothing of that.                                                         *)
EXTENDS RedisReplicationProps

(* What is on the wire w: the reply to PSYNC, if the slave has not read it  *)
(* yet, then an RDB, then commands.                                         *)
NextIs(w, ops) == w # <<>> /\ Head(w).op \in ops
Announces(w) == NextIs(w, {"FULLRESYNC"})
Replied(w) == NextIs(w, {"CONTINUE", "FULLRESYNC"})
Body(w)    == IF Replied(w) THEN Tail(w) ELSE w
HasRdb(w)  == NextIs(Body(w), {"RDB"})
Commands(w) == IF HasRdb(w) THEN Tail(Body(w)) ELSE Body(w)

(* The process the slave replicates, and the offset its RDB starts at, as   *)
(* it knows or will know them.                                              *)
RunOf(s) == IF Announces(wire[s]) THEN Head(wire[s]).runid ELSE slave[s].runid
OffsetOf(s) ==
  IF Announces(wire[s]) THEN Head(wire[s]).offset ELSE slave[s].initial

(* The slave as its dataset or the RDB under way, and what follows.         *)
RdbOf(s) ==
  IF HasRdb(wire[s]) THEN <<Head(Body(wire[s]))>> ELSE RdbToCome(s)
Replaced(s) == RdbOf(s) # <<>>
Start(s) == IF Replaced(s) THEN <<RdbOf(s)[1].content, 0>> ELSE Held(s)
Rest(s)  == Commands(wire[s]) \o client[s].obuf
From(s)  == IF Replaced(s) THEN OffsetOf(s) ELSE slave[s].reploff
Exact(s) == IF Replaced(s) THEN RdbOf(s)[1].at = OffsetOf(s)
                           ELSE slave[s].trust = "exact"

(* The slaves of whose dataset something is known: one that resumed at an   *)
(* offset that is not the one of its dataset is not among them.             *)
Known(s) ==
  \/ Replaced(s)
  \/ slave[s].state = "CONNECTED" /\ slave[s].trust # "resumed"
  \/ slave[s].cached /\ slave[s].trust = "exact" /\ ~Announces(wire[s])

----------------------------------------------------------------------------
(* The rest of the stream leads a slave to a past dataset, and one the      *)
(* master feeds to the present one, with the database selected that the     *)
(* next write relies on.                                                    *)
Now == [data |-> data, db |-> slaveseldb, backlog |-> backlog]
Since(stream, offset) == SubSeq(stream, offset + 1, Len(stream))
Ends(y, m) == y[1] = m.data /\ m.db \in {-1, y[2]}

(* The rest is the master's stream from the offset of the slave, and as     *)
(* long as the backlog reaches back to its end, the backlog leads to the    *)
(* present dataset.                                                         *)
Positioned(x, q, offset, m) ==
  LET end == offset + Len(q)
      b == m.backlog
  IN /\ end <= b.moff
     /\ \A k \in 1 .. Len(q) : q[k] = b.stream[offset + k]
     /\ b.active /\ b.off <= end + 1 =>
          Ends(Deliver(Deliver(x, q), Since(b.stream, end)), m)

InLine(s) ==
  Known(s) /\ RunOf(s) = runid =>
    LET y == Deliver(Start(s), Rest(s)) IN
    /\ IsPrefix(y[1], data)
    /\ s \in SlaveList => Ends(y, Now)
    /\ Exact(s) => Positioned(Start(s), Rest(s), From(s), Now)
    /\ Exact(s) /\ s \in SlaveList => From(s) + Len(Rest(s)) = backlog.moff

(* A cached dataset is a past one.                                          *)
CachedPast(s) ==
  slave[s].cached /\ slave[s].trust # "resumed" /\ slave[s].runid = runid
    => IsPrefix(slave[s].data, data)

(* A slave that waits for a child gets only the SELECTs, the last of which  *)
(* is the one the next write relies on.                                     *)
SelectsOnly == {Select(db) : db \in DBs}
Waits(s) ==
  client[s].replstate = "START" =>
    LET q == client[s].obuf IN
    /\ q \in Seq(SelectsOnly)
    /\ slaveseldb # -1 => q # <<>> /\ q[Len(q)] = Select(slaveseldb)
    /\ OffsetOf(s) + Len(q) <= backlog.moff
    /\ OffsetOf(s) + Len(q) = backlog.moff =>
         \A k \in 1 .. Len(q) : q[k] = backlog.stream[OffsetOf(s) + k]

----------------------------------------------------------------------------
(* The stages of a connection: what may be on the wire when the slave and   *)
(* what the master keeps of it are in their states.                         *)
Streams(s) ==
  Body(wire[s]) \in Seq(Entry) /\ client[s].replstate \in {"ONLINE", "CLOSED"}
SentRdb(s) == client[s].replstate = "END" /\ s \in child.sent
Transfers(s) ==
  \/ /\ Body(wire[s]) = <<>>
     /\ client[s].replstate \in {"START", "END", "SEND_BULK", "CLOSED"}
     /\ ~SentRdb(s)
  \/ /\ HasRdb(wire[s]) /\ Commands(wire[s]) \in Seq(Entry)
     /\ \/ client[s].replstate \in {"ONLINE", "CLOSED"}
        \/ SentRdb(s) /\ Commands(wire[s]) = <<>>
Stage(s) ==
  CASE slave[s].state = "CONNECT" ->
         wire[s] = <<>> /\ client[s].replstate = "CLOSED"
    [] slave[s].state = "RECEIVE_PONG" ->
         \/ /\ wire[s] = <<>>
            /\ \/ client[s].replstate = "CLOSED"
               \/ client[s].replstate = "NONE" /\ client[s].psync
         \/ NextIs(wire[s], {"CONTINUE"}) /\ Streams(s) /\ slave[s].cached
         \/ Announces(wire[s]) /\ Transfers(s)
    [] slave[s].state = "TRANSFER" ->
         ~Replied(wire[s]) /\ ~slave[s].cached /\ (Transfers(s) \/ Streams(s))
    [] OTHER ->
         /\ ~Replied(wire[s]) /\ ~slave[s].cached
         /\ Streams(s) \/ (SentRdb(s) /\ wire[s] = <<>>)

(* The RDB file is open while it is sent, and nothing is buffered for a     *)
(* connection that is not a slave.                                          *)
Files(s) ==
  LET c == client[s] IN
  /\ IF c.replstate = "SEND_BULK" THEN Len(c.file) = 1 ELSE c.file = <<>>
  /\ c.replstate \in {"CLOSED", "NONE"} => c.obuf = <<>>

(* Run ids only grow, and the master feeds who replicates it.               *)
Runs(s) ==
  /\ slave[s].runid <= runid /\ RunOf(s) <= runid
  /\ s \in SlaveList => RunOf(s) = runid

(* A child serves the slaves it was forked for.                             *)
Children ==
  /\ child.type # "socket" => child.fds = {}
  /\ child.type = "socket" => Diskless
  /\ child.type = "disk" /\ Diskless => Happened("bgsave")
  /\ ~Happened("forkfail") => EndHasChild
  /\ \A e \in Events : budget[e] <= Budget[e]

SlaveInOrder(s) ==
  Stage(s) /\ Files(s) /\ Runs(s) /\ CachedPast(s) /\ Waits(s) /\ InLine(s)

AllInOrder == Children /\ \A s \in Slaves : SlaveInOrder(s)

StreamInv == MayBeLeftInEnd \/ AllInOrder
============================================================================
