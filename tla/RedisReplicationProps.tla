----------------------- MODULE RedisReplicationProps -----------------------
(* What the replication of RedisReplication promises, beyond the invariants *)
(* of RedisReplicationInv that are proved.                                  *)
EXTENDS RedisReplicationInv, SequencesExt

----------------------------------------------------------------------------
(* A slave as its dataset and the database selected in its master client,   *)
(* after a message and after all that is under way.                         *)
Applied(x, m) ==
  CASE m.op = "SELECT" -> <<x[1], m.arg>>
    [] m.op = "CMD"    -> <<Append(x[1], <<x[2], m.arg>>), x[2]>>
    [] m.op = "RDB"    -> <<m.content, 0>>
    [] OTHER           -> x
Deliver(x, msgs) ==
  LET after[k \in 0 .. Len(msgs)] ==
        IF k = 0 THEN x ELSE Applied(after[k - 1], msgs[k])
  IN after[Len(msgs)]
Held(s) == <<slave[s].data, slave[s].db>>

(* A slave in END that the running child has in charge, and the RDB it will *)
(* get when that child succeeds.                                            *)
Served(s) == child.type = "disk" \/ s \in child.fds
RdbToCome(s) ==
  IF client[s].replstate = "END" /\ Served(s) /\ s \notin child.sent
  THEN <<RdbFor(client[s], IF child.type = "disk" THEN "length" ELSE "eofmark")>>
  ELSE client[s].file

Pipeline(s) == wire[s] \o RdbToCome(s) \o client[s].obuf
Carries(s) == \E i \in DOMAIN Pipeline(s) : Pipeline(s)[i].op = "RDB"

(* A slave the master feeds, that did not resume at an offset other than    *)
(* the one its RDB was taken at, and that was not left in END unserved.     *)
Fed(s) ==
  /\ s \in SlaveList \ In("START")
  /\ client[s].replstate = "END" => Served(s)
  /\ \/ Carries(s)
     \/ slave[s].state # "TRANSFER" /\ slave[s].trust = "exact"
     \/ slave[s].state = "CONNECTED" /\ slave[s].trust = "inexact"

(* No write is lost, repeated, reordered or applied to another database     *)
(* between the fork of the RDB child and the slave's dataset, whichever way *)
(* the slave attached: buffers copied from another slave, the SELECT that a *)
(* waiting slave gets early, a partial resynchronisation included.          *)
NothingLost ==
  \A s \in Slaves : Fed(s) => Deliver(Held(s), Pipeline(s))[1] = data

(* The offset a slave reports is the position of its dataset: with what is  *)
(* under way it adds up to the master's.                                    *)
OffsetsAgree ==
  \A s \in Slaves :
    /\ slave[s].state = "CONNECTED" /\ slave[s].trust = "exact"
    /\ client[s].replstate = "ONLINE"
    => slave[s].reploff + Len(wire[s]) + Len(client[s].obuf) = backlog.moff

(* What a slave shows, connected or not, is a past dataset of the process   *)
(* it replicates.                                                           *)
ShowsThePast(s) ==
  slave[s].runid = runid /\ (slave[s].state = "CONNECTED" \/ slave[s].cached)
    => IsPrefix(slave[s].data, data)
TrustedSlavesShowThePast ==
  \A s \in Slaves : slave[s].trust # "resumed" => ShowsThePast(s)

(* replication.c:493-494: the slave "knows the new runid and offset to try  *)
(* a PSYNC later", so that resuming there continues its dataset.            *)
SlavesShowThePast == \A s \in Slaves : ShowsThePast(s)

(* A slave in END waits for a child that will serve it or fail it.          *)
EndHasChild == In("END") # {} => child.type # "none"

(* A fork failed: the slaves it was for may be left in END, and served by a *)
(* disk child that is not theirs, see ForkFails.  A master that sends its   *)
(* RDBs diskless has such a child only for a BGSAVE.                        *)
Happened(event) == budget[event] < Budget[event]
MayBeLeftInEnd == Happened("forkfail") /\ (Diskless => Happened("bgsave"))

(* Whoever joins a child, waits for the next one or is served by the same   *)
(* one as others is sent every write after its RDB, and the offset it       *)
(* counts is that of its dataset.  A slave that waits for dump.rdb waits    *)
(* for a child that writes it; a socket child may end with a slave in END   *)
(* that it does not serve, see NextChild.                                   *)
SlavesAreServed ==
  \/ MayBeLeftInEnd
  \/ /\ NothingLost
     /\ OffsetsAgree
     /\ ~Diskless => EndHasChild

(* The datasets of the slaves under ReplicatedLog; of one that resumed at   *)
(* an offset that is not the one of its dataset, see SlavesShowThePast,     *)
(* nothing is expected before its next RDB.                                 *)
Trusted(s) == IF slave[s].trust = "resumed" THEN <<>> ELSE slave[s].data
Log == INSTANCE ReplicatedLog WITH
         Replicas <- Slaves, Writes <- DBs \X (1 .. Budget["write"]),
         log <- data, copy <- [s \in Slaves |-> Trusted(s)]

(* The replication implements the abstract log: whatever the order in which *)
(* slaves attach, wait for a child and resume, and children and links fail, *)
(* a slave changes by the next write of the master or by a whole RDB.       *)
ReplicatesLog == Log!ReplicatedLogSpec

(* Once links stop breaking and forks stop failing, every slave ends up     *)
(* connected and with the master's dataset.                                 *)
InSync(s) ==
  /\ slave[s].state = "CONNECTED" /\ client[s].replstate = "ONLINE"
  /\ slave[s].trust # "resumed" => slave[s].data = data
============================================================================
