------------------------ MODULE RedisReplicationInv ------------------------
(* The types of RedisReplication, the two promises about the backlog, and   *)
(* the inductive invariant that proves them.                                *)
EXTENDS RedisReplication

Dataset == Seq(DBs \X Nat)
RdbFile == [op : {"RDB"}, content : Dataset, at : Int, end : {"length", "eofmark"}]
Message ==
  Entry \cup RdbFile \cup {Continue, Error}
        \cup [op : {"FULLRESYNC"}, runid : Nat, offset : Nat]

ClientType ==
  [replstate : SlaveStates \cup {"CLOSED", "NONE"}, psync : BOOLEAN,
   obuf : Seq(Entry), handler : BOOLEAN, onack : BOOLEAN, file : Seq(RdbFile)]
SlaveType ==
  [state : {"CONNECT", "RECEIVE_PONG", "TRANSFER", "CONNECTED"},
   cached : BOOLEAN, runid : Nat, reploff : Nat, db : DBs,
   initial : Nat \cup {-1}, data : Dataset,
   trust : {"exact", "inexact", "resumed"}]
ChildType ==
  [type : {"none", "disk", "socket"}, content : Dataset,
   fds : SUBSET Slaves, sent : SUBSET Slaves]

MasterTyped ==
  /\ runid \in Nat /\ nextid \in Nat /\ data \in Dataset /\ dump \in Dataset
  /\ slaveseldb \in DBs \cup {-1}
  /\ budget \in [Events -> Nat]

(* Type invariant.                                                          *)
TypeOK ==
  /\ MasterTyped
  /\ IsBacklog(backlog, Entry)
  /\ child \in ChildType
  /\ client \in [Slaves -> ClientType]
  /\ slave \in [Slaves -> SlaveType]
  /\ wire \in [Slaves -> Seq(Message)]

(* The assertion of replicationFeedSlaves() and of freeReplicationBacklog():*)
(* there are no slaves without a backlog.  Every way a slave can attach,    *)
(* while others come and go and the backlog is freed, has to keep it.       *)
SlavesHaveBacklog == SlaveList # {} => backlog.active

(* Whatever offset a PSYNC asks for, addReplyReplicationBacklog() answers   *)
(* with the stream the master sent from there on, through every feed,       *)
(* creation, resize and release of the circular buffer.                     *)
BacklogMatchesStream == RingMatchesStream(backlog) /\ TailMatchesStream(backlog)

----------------------------------------------------------------------------
(* A backlog in order: also, what it still holds are commands, so nobody is *)
(* sent the offset that createReplicationBacklog() burnt.                   *)
KeepsCommands(b) ==
  b.active => \A o \in b.off .. b.moff : b.stream[o] \in Entry
BacklogInOrder(b) ==
  IsBacklog(b, Entry) /\ RingMatchesStream(b) /\ KeepsCommands(b)

(* The write handler is there only for a slave that is online and has       *)
(* something to be sent, a PSYNC is awaited from nobody who is a slave, and *)
(* a diskless child writes to slaves in END only.                           *)
ClientInOrder(c) ==
  /\ c.handler => c.obuf # <<>> /\ c.replstate = "ONLINE"
  /\ c.psync => c.replstate = "NONE"
ClientsConsistent ==
  \A s \in Slaves :
    /\ ClientInOrder(client[s])
    /\ s \in child.fds => client[s].replstate = "END"
ChildConsistent == child.sent \subseteq child.fds

(* A slave that waits for the reply to PSYNC reads nothing else first, and  *)
(* a slave that is not connected left nothing on the wire.                  *)
ReplyFirst(s) ==
  /\ slave[s].state = "CONNECT" =>
       wire[s] = <<>> /\ client[s].replstate = "CLOSED"
  /\ slave[s].state = "RECEIVE_PONG" =>
       IF wire[s] = <<>> THEN client[s].replstate \in {"CLOSED", "NONE"}
       ELSE Head(wire[s]).op \in {"CONTINUE", "FULLRESYNC"}
  /\ slave[s].state = "TRANSFER" => slave[s].initial # -1
RepliesFirst == \A s \in Slaves : ReplyFirst(s)

(* The inductive invariant: no step from a state that satisfies it leads to *)
(* one that does not, whatever the handlers ran before.                     *)
IInv ==
  /\ TypeOK
  /\ SlavesHaveBacklog
  /\ BacklogInOrder(backlog)
  /\ ClientsConsistent
  /\ ChildConsistent
  /\ RepliesFirst
============================================================================
