-------------------------- MODULE RedisReplication --------------------------
(* A master and its slaves (replication.c, and the parts of rdb.c and       *)
(* networking.c it works with): the full resynchronisation through an RDB   *)
(* child, the stream of commands that follows, and the partial              *)
(* resynchronisation after a lost link.                                     *)
(*                                                                          *)
(* client[s] is what the master keeps of the connection of slave s (its     *)
(* redisClient), slave[s] is the slave instance itself, and wire[s] is the  *)
(* TCP stream from the one to the other.  A handler is one action: the      *)
(* server runs one at a time.                                               *)
EXTENDS ReplBacklog, FiniteSets

CONSTANTS
  Slaves,        \* the instances that replicate this master
  DBs,           \* the numbered databases in use
  Diskless,      \* server.repl_diskless_sync
  BacklogSizes,  \* the values repl-backlog-size is given
  Budget         \* how often each kind of event may happen, see Events

Events == {"write", "ping", "drop", "crash", "forkfail", "childfail",
           "bgsave", "resize"}

ASSUME ConstantsAssumption ==
  /\ DBs \subseteq Nat /\ 0 \in DBs
  /\ Diskless \in BOOLEAN
  /\ BacklogSizes \subseteq Nat \ {0} /\ BacklogSizes # {}
  /\ Budget \in [Events -> Nat]

VARIABLES
  runid,      \* server.runid: one value per start of the master process
  data,       \* the master's dataset: the writes it executed, in order
  nextid,     \* the identity of the next write, no two writes are equal
  dump,       \* the content of dump.rdb
  backlog,    \* see ReplBacklog
  slaveseldb, \* server.slaveseldb
  child,      \* the RDB child: rdb_child_type, its copy of the dataset
  client, slave, wire,
  budget

masterVars == <<runid, data, nextid, dump>>
vars == <<masterVars, backlog, slaveseldb, child, client, slave, wire, budget>>

----------------------------------------------------------------------------
(* The stream.  A write names no database: it goes to the one selected last.*)
Select(db) == [op |-> "SELECT", arg |-> db]
Cmd(id)    == [op |-> "CMD", arg |-> id]
Ping       == [op |-> "PING", arg |-> 0]
Entry == [op : {"SELECT"}, arg : DBs] \cup [op : {"CMD"}, arg : Nat] \cup {Ping}
IsEntry(m) == m.op \in {"SELECT", "CMD", "PING"}

(* The other messages of the link.  "at" is a history field: the offset from*)
(* which the slave has to count for the output buffer that follows the RDB  *)
(* to lead it to the offset of the master; "end" is how the slave knows the *)
(* end of the file.                                                         *)
FullResync(offset) == [op |-> "FULLRESYNC", runid |-> runid, offset |-> offset]
Continue == [op |-> "CONTINUE"]
Error    == [op |-> "ERR"]
Rdb(content, at, end) ==
  [op |-> "RDB", content |-> content, at |-> at, end |-> end]

NoChild == [type |-> "none", content |-> <<>>, fds |-> {}, sent |-> {}]

Closed == [replstate |-> "CLOSED", psync |-> FALSE, obuf |-> <<>>,
           handler |-> FALSE, onack |-> FALSE, file |-> <<>>]
Accepted == [Closed EXCEPT !.replstate = "NONE", !.psync = TRUE]

SlaveStates == {"START", "END", "SEND_BULK", "ONLINE"}
IsSlave(c) == c.replstate \in SlaveStates
SlaveList == {s \in Slaves : IsSlave(client[s])}
In(state) == {s \in Slaves : client[s].replstate = state}

----------------------------------------------------------------------------
(* prepareClientToWrite() and addReply(): the write handler is installed by *)
(* the first reply, and not for a slave that is not online yet.             *)
AddReply(c, msgs) ==
  [c EXCEPT !.obuf = @ \o msgs,
            !.handler = IF /\ c.obuf = <<>> /\ msgs # <<>>
                           /\ c.replstate \in {"NONE", "ONLINE"}
                        THEN TRUE ELSE @]

(* As putSlaveOnline() would be without aeCreateFileEvent().                *)
PutOnlineUnhandled(c) == [c EXCEPT !.replstate = "ONLINE", !.onack = FALSE]

(* putSlaveOnline(): the handler is installed for what is in the buffer.    *)
PutOnline(c) ==
  [c EXCEPT !.replstate = "ONLINE", !.onack = FALSE, !.handler = c.obuf # <<>>]

(* replicationFeedSlaves(): the SELECT goes to every slave, the command to  *)
(* those whose RDB is already being produced.                               *)
Selects(db) == IF slaveseldb = db THEN <<>> ELSE <<Select(db)>>
(* As the feeding would be if it did not skip the slaves in START.          *)
FedClientWaiting(c, db, e) ==
  IF ~IsSlave(c) THEN c ELSE AddReply(c, Append(Selects(db), e))
FedClient(c, db, e) ==
  IF ~IsSlave(c) THEN c
  ELSE AddReply(c, IF c.replstate = "START" THEN Selects(db)
                                            ELSE Append(Selects(db), e))
(* As the feeding would be if only the slaves got the SELECT.               *)
FedBacklog(db, e) ==
  IF ~backlog.active THEN backlog
  ELSE Feed(IF slaveseldb = db THEN backlog ELSE Feed(backlog, Select(db)), e)

FeedSlaves(db, e) ==
  IF ~backlog.active /\ SlaveList = {}
  THEN UNCHANGED <<backlog, client, slaveseldb>>
  ELSE /\ backlog' = FedBacklog(db, e)
       /\ client' = [s \in Slaves |-> FedClient(client[s], db, e)]
       /\ slaveseldb' = db

Spend(events) ==
  /\ \A e \in events : budget[e] > 0
  /\ budget' = [e \in Events |-> budget[e] - IF e \in events THEN 1 ELSE 0]
When(event, happens) == IF happens THEN {event} ELSE {}

Init ==
  /\ runid = 0 /\ data = <<>> /\ nextid = 1 /\ dump = <<>>
  /\ \E size \in BacklogSizes : backlog = NoBacklog(size)
  /\ slaveseldb = -1
  /\ child = NoChild
  /\ client = [s \in Slaves |-> Closed]
  /\ slave = [s \in Slaves |->
                [state |-> "CONNECT", cached |-> FALSE, runid |-> 0,
                 reploff |-> 0, db |-> 0, initial |-> 0, data |-> <<>>,
                 trust |-> "exact"]]
  /\ wire = [s \in Slaves |-> <<>>]
  /\ budget = Budget

----------------------------------------------------------------------------
(* MASTER: the dataset                                                      *)

(* A client's write command: executed, then propagated (redis.c:1910-1919). *)
Write(db) ==
  /\ Spend({"write"})
  /\ data' = Append(data, <<db, nextid>>)
  /\ nextid' = nextid + 1
  /\ FeedSlaves(db, Cmd(nextid))
  /\ UNCHANGED <<runid, dump, child, slave, wire>>

(* replicationCron(): the PING, in the database selected last.              *)
CronPing ==
  /\ Spend({"ping"})
  /\ backlog.active \/ SlaveList # {}
  /\ FeedSlaves(slaveseldb, Ping)
  /\ UNCHANGED <<masterVars, child, slave, wire>>

(* As it would be without the test on server.slaves.                        *)
CronFreeUsedBacklog ==
  /\ backlog.active
  /\ backlog' = Free(backlog)
  /\ UNCHANGED <<masterVars, slaveseldb, child, client, slave, wire, budget>>

(* replicationCron(): a backlog nobody uses is freed after its time limit.  *)
CronFreeBacklog ==
  /\ backlog.active
  /\ SlaveList = {}
  /\ backlog' = Free(backlog)
  /\ UNCHANGED <<masterVars, slaveseldb, child, client, slave, wire, budget>>

(* CONFIG SET repl-backlog-size                                             *)
ConfigResize(size) ==
  /\ size # backlog.size
  /\ Spend({"resize"})
  /\ backlog' = Resize(backlog, size)
  /\ UNCHANGED <<masterVars, slaveseldb, child, client, slave, wire>>

----------------------------------------------------------------------------
(* MASTER: the RDB child                                                    *)

(* startBgsaveForReplication(): the two kinds of child.  rdbSaveBackground()*)
(* writes dump.rdb; rdbSaveToSlavesSockets() writes to the sockets of the   *)
(* slaves that are in START when it is called.                              *)
Forked(type, fds) ==
  [type |-> type, content |-> data, fds |-> fds, sent |-> {}]
ReplChild(fds) == IF Diskless THEN Forked("socket", fds) ELSE Forked("disk", {})
RdbFor(c, end) == Rdb(child.content, backlog.moff - Len(c.obuf), end)

(* BGSAVE of a user, or of a save point: no slave has anything to do with it*)
Bgsave ==
  /\ child.type = "none"
  /\ Spend({"bgsave"})
  /\ child' = Forked("disk", {})
  /\ UNCHANGED <<masterVars, backlog, slaveseldb, client, slave, wire>>

(* replicationCron(): slaves are waiting and no child runs.  The diskless   *)
(* target moves the slaves to END before it forks, and leaves them there    *)
(* when the fork fails.                                                     *)
CronStartBgsave(forked) ==
  /\ child.type = "none"
  /\ In("START") # {}
  /\ Spend(When("forkfail", ~forked))
  /\ child' = IF forked THEN ReplChild(In("START")) ELSE child
  /\ client' = [s \in Slaves |->
                  IF s \in In("START") /\ (forked \/ Diskless)
                  THEN [client[s] EXCEPT !.replstate = "END"] ELSE client[s]]
  /\ UNCHANGED <<masterVars, backlog, slaveseldb, slave, wire>>

(* The diskless child writes its RDB to one of its sockets.                 *)
ChildWrite(s) ==
  /\ child.type = "socket"
  /\ s \in child.fds \ child.sent
  /\ wire' = [wire EXCEPT ![s] = Append(@, RdbFor(client[s], "eofmark"))]
  /\ child' = [child EXCEPT !.sent = @ \cup {s}]
  /\ UNCHANGED <<masterVars, backlog, slaveseldb, client, slave, budget>>

(* updateSlavesWaitingBgsave().  The slaves in START are first moved to END,*)
(* and only then is the next child started: a diskless child finds nobody   *)
(* in START, and when no child can be started nobody is left to be freed.   *)
UpdatedSlave(c, type, ok) ==
  CASE c.replstate = "START" -> [c EXCEPT !.replstate = "END"]
    [] c.replstate = "END" /\ type = "socket" ->
         [c EXCEPT !.replstate = "ONLINE", !.onack = TRUE]
    [] c.replstate = "END" /\ type = "disk" /\ ok ->
         [c EXCEPT !.replstate = "SEND_BULK", !.file = <<RdbFor(c, "length")>>]
    [] c.replstate = "END" /\ type = "disk" /\ ~ok -> Closed
    [] OTHER -> c

(* As it would be without the startBgsaveForReplication() at the end.       *)
NextChild(waiting, forked) ==
  IF waiting /\ forked THEN ReplChild({}) ELSE NoChild

(* backgroundSaveDoneHandlerDisk()                                          *)
BgsaveDoneDisk(ok, forked) ==
  LET waiting == In("START") # {}
  IN /\ child.type = "disk"
     /\ forked \/ waiting
     /\ Spend(When("childfail", ~ok) \cup When("forkfail", ~forked))
     /\ dump' = IF ok THEN child.content ELSE dump
     /\ client' = [s \in Slaves |->
                     UpdatedSlave(client[s], "disk", ok)]
     /\ child' = NextChild(waiting, forked)
     /\ UNCHANGED <<runid, data, nextid, backlog, slaveseldb, slave, wire>>

(* backgroundSaveDoneHandlerSocket(): the slaves in END the child did not   *)
(* serve are freed.  A child all of whose sockets are broken, or that was   *)
(* given none, always fails (rio.c:191-223, rdb.c:1485-1492).               *)
BgsaveDoneSocket(ok, forked) ==
  LET waiting == In("START") # {}
      served  == IF ok THEN child.sent ELSE {}
      freed   == In("END") \ served
  IN /\ child.type = "socket"
     /\ forked \/ waiting
     /\ ok => child.fds # {} /\ child.sent = child.fds
     /\ Spend(When("childfail", ~ok /\ child.fds # {})
                \cup When("forkfail", ~forked))
     /\ client' = [s \in Slaves |->
                     IF s \in freed THEN Closed
                     ELSE UpdatedSlave(client[s], "socket", ok)]
     /\ child' = NextChild(waiting, forked)
     /\ UNCHANGED <<masterVars, backlog, slaveseldb, slave, wire>>

----------------------------------------------------------------------------
(* MASTER: the connection of a slave                                        *)

(* freeClient() of a slave; the socket it shared with a diskless child is   *)
(* of no more use to that child.                                            *)
FreeClient(s) ==
  /\ client' = [client EXCEPT ![s] = Closed]
  /\ child' = [child EXCEPT !.fds = @ \ {s}, !.sent = @ \ {s}]

(* The link broke, the slave did not acknowledge for repl-timeout, or its   *)
(* output buffer grew over its limit.                                       *)
LinkLost(s) ==
  /\ client[s].replstate # "CLOSED"
  /\ Spend({"drop"})
  /\ FreeClient(s)
  /\ UNCHANGED <<masterVars, backlog, slaveseldb, slave, wire>>

(* masterTryPartialResynchronization(): the request is the run id and the   *)
(* offset after the last one the slave has.                                 *)
PsyncAccepted(s) ==
  /\ slave[s].cached
  /\ slave[s].runid = runid
  /\ Holds(backlog, slave[s].reploff + 1)

SyncPartial(s) ==
  /\ client[s].psync
  /\ PsyncAccepted(s)
  /\ client' = [client EXCEPT ![s] =
       AddReply([@ EXCEPT !.psync = FALSE, !.replstate = "ONLINE"],
                BacklogTail(backlog, slave[s].reploff + 1))]
  /\ wire' = [wire EXCEPT ![s] = Append(@, Continue)]
  /\ UNCHANGED <<masterVars, backlog, slaveseldb, child, slave, budget>>

(* syncCommand() after a refused PSYNC.  +FULLRESYNC has already announced  *)
(* the current offset, or the one the backlog about to be created will have.*)
Announced == IF backlog.active THEN backlog.moff ELSE backlog.moff + 1

(* As syncCommand() would be without "server.slaveseldb = -1".              *)
SyncFullSameDb(s) ==
  /\ client[s].psync
  /\ ~PsyncAccepted(s)
  /\ wire' = [wire EXCEPT ![s] = Append(@, FullResync(Announced))]
  /\ backlog' = IF SlaveList = {} /\ ~backlog.active
                THEN Create(backlog) ELSE backlog
  /\ UNCHANGED <<masterVars, slave, slaveseldb>>
SyncFull(s) ==
  /\ client[s].psync
  /\ ~PsyncAccepted(s)
  /\ wire' = [wire EXCEPT ![s] = Append(@, FullResync(Announced))]
  /\ slaveseldb' = -1
  /\ backlog' = IF SlaveList = {} /\ ~backlog.active
                THEN Create(backlog) ELSE backlog
  /\ UNCHANGED <<masterVars, slave>>

Attach(s, state, obuf) ==
  client' = [client EXCEPT ![s] =
               [@ EXCEPT !.psync = FALSE, !.replstate = state, !.obuf = obuf]]

(* As the next action would be without copyClientOutputBuffer().            *)
SyncJoinsUncopied(s) ==
  /\ SyncFull(s)
  /\ child.type = "disk" /\ In("END") # {}
  /\ Attach(s, "END", <<>>)
  /\ UNCHANGED <<child, budget>>

(* A disk child runs and another slave registers the differences since its  *)
(* fork: they are copied with its output buffer.                            *)
SyncJoinsBgsave(s) ==
  /\ SyncFull(s)
  /\ child.type = "disk"
  /\ \E t \in In("END") : Attach(s, "END", client[t].obuf)
  /\ UNCHANGED <<child, budget>>

(* The running child is of no use, or the diskless child is left to the     *)
(* cron, which gives other slaves the time to arrive.                       *)
SyncWaits(s) ==
  /\ SyncFull(s)
  /\ \/ child.type = "disk" /\ In("END") = {}
     \/ child.type = "socket"
     \/ child.type = "none" /\ Diskless
  /\ Attach(s, "START", <<>>)
  /\ UNCHANGED <<child, budget>>

SyncStartsBgsave(s) ==
  /\ SyncFull(s)
  /\ child.type = "none" /\ ~Diskless
  /\ Attach(s, "END", <<>>)
  /\ child' = ReplChild({})
  /\ UNCHANGED budget

(* The child could not be forked: an error reply, and no slave.             *)
SyncFails(s) ==
  /\ client[s].psync
  /\ ~PsyncAccepted(s)
  /\ child.type = "none" /\ ~Diskless
  /\ Spend({"forkfail"})
  /\ wire' = [wire EXCEPT ![s] = @ \o <<FullResync(Announced), Error>>]
  /\ client' = [client EXCEPT ![s].psync = FALSE]
  /\ UNCHANGED <<masterVars, backlog, slaveseldb, child, slave>>

SyncCommand(s) ==
  \/ SyncPartial(s)
  \/ SyncJoinsBgsave(s) \/ SyncWaits(s) \/ SyncStartsBgsave(s) \/ SyncFails(s)

(* sendBulkToSlave(): the whole file, then putSlaveOnline().                *)
SendBulk(s) ==
  /\ client[s].replstate = "SEND_BULK"
  /\ wire' = [wire EXCEPT ![s] = @ \o client[s].file]
  /\ client' = [client EXCEPT ![s] = [PutOnline(@) EXCEPT !.file = <<>>]]
  /\ UNCHANGED <<masterVars, backlog, slaveseldb, child, slave, budget>>

(* sendReplyToClient(): the socket takes one command at a time; the handler *)
(* goes when the buffer is empty.                                           *)
Sent(c) == [c EXCEPT !.obuf = Tail(@), !.handler = Tail(c.obuf) # <<>>]

SendReply(s) ==
  /\ client[s].handler
  /\ wire' = [wire EXCEPT ![s] = Append(@, Head(client[s].obuf))]
  /\ client' = [client EXCEPT ![s] = Sent(@)]
  /\ UNCHANGED <<masterVars, backlog, slaveseldb, child, slave, budget>>

(* REPLCONF ACK, which the slave's cron sends as long as it has a master.   *)
ReplconfAck(s) ==
  /\ slave[s].state = "CONNECTED"
  /\ client' = IF client[s].replstate = "ONLINE" /\ client[s].onack
               THEN [client EXCEPT ![s] = PutOnline(@)] ELSE client
  /\ UNCHANGED <<masterVars, backlog, slaveseldb, child, slave, wire, budget>>

(* The process dies and a new one loads dump.rdb (initServerConfig()).      *)
MasterCrash ==
  /\ Spend({"crash"})
  /\ runid' = runid + 1
  /\ data' = dump
  /\ backlog' = NoBacklog(backlog.size)
  /\ slaveseldb' = -1
  /\ child' = NoChild
  /\ client' = [s \in Slaves |-> Closed]
  /\ UNCHANGED <<nextid, dump, slave, wire>>

----------------------------------------------------------------------------
(* SLAVE                                                                    *)
masterSide == <<masterVars, backlog, slaveseldb, child>>

(* replicationCron() connects, and syncWithMaster() sends PSYNC and waits.  *)
SyncWithMaster(s) ==
  /\ slave[s].state = "CONNECT"
  /\ client[s].replstate = "CLOSED"
  /\ client' = [client EXCEPT ![s] = Accepted]
  /\ slave' = [slave EXCEPT ![s].state = "RECEIVE_PONG", ![s].initial = -1]
  /\ UNCHANGED <<masterSide, wire, budget>>

(* slaveTryPartialResynchronization(): the reply to PSYNC.  +CONTINUE turns *)
(* the cached master into the master again, +FULLRESYNC discards it.        *)
Continued(inst) ==
  [inst EXCEPT !.state = "CONNECTED", !.cached = FALSE,
               !.trust = IF @ = "exact" THEN @ ELSE "resumed"]

(* As the next operator would be without replicationDiscardCachedMaster().  *)
ToTransferCached(inst, reply) ==
  [inst EXCEPT !.state = "TRANSFER", !.runid = reply.runid,
               !.initial = reply.offset]
ToTransfer(inst, reply) ==
  [inst EXCEPT !.state = "TRANSFER", !.cached = FALSE,
               !.runid = reply.runid, !.initial = reply.offset]

ReadPsyncReply(s) ==
  /\ slave[s].state = "RECEIVE_PONG"
  /\ wire[s] # <<>>
  /\ LET reply == Head(wire[s])
     IN slave' = [slave EXCEPT ![s] =
                    IF reply.op = "CONTINUE" THEN Continued(@)
                    ELSE ToTransfer(@, reply)]
  /\ wire' = [wire EXCEPT ![s] = Tail(@)]
  /\ UNCHANGED <<masterSide, client, budget>>

(* readSyncBulkPayload() at the end of the RDB: the dataset is replaced, and*)
(* a new master client starts at the announced offset, in database 0.  The  *)
(* end mark of a streamed RDB is seen if nothing follows it in that read.   *)
LoadRdb(s) ==
  /\ slave[s].state = "TRANSFER"
  /\ wire[s] # <<>> /\ Head(wire[s]).op = "RDB"
  /\ LET rdb == Head(wire[s])
     IN slave' = [slave EXCEPT ![s] =
          [@ EXCEPT !.state = "CONNECTED", !.data = rdb.content, !.db = 0,
                    !.reploff = slave[s].initial,
                    !.trust = IF slave[s].initial = rdb.at
                              THEN "exact" ELSE "inexact"]]
  /\ wire' = [wire EXCEPT ![s] = Tail(@)]
  /\ UNCHANGED <<masterSide, client, budget>>

(* Commands that arrive in the read that holds the end mark hide it, and    *)
(* become part of the file with all that follows.                           *)
MissEofMark(s) ==
  /\ slave[s].state = "TRANSFER"
  /\ Len(wire[s]) > 1
  /\ Head(wire[s]).op = "RDB" /\ Head(wire[s]).end = "eofmark"
  /\ wire' = [wire EXCEPT ![s] = Tail(@)]
  /\ UNCHANGED <<masterSide, client, slave, budget>>

SwallowStream(s) ==
  /\ slave[s].state = "TRANSFER"
  /\ wire[s] # <<>> /\ IsEntry(Head(wire[s]))
  /\ wire' = [wire EXCEPT ![s] = Tail(@)]
  /\ UNCHANGED <<masterSide, client, slave, budget>>

(* The error of a master that could not start a child: the transfer is      *)
(* aborted and the socket closed.                                           *)
ReadSyncError(s) ==
  /\ slave[s].state = "TRANSFER"
  /\ wire[s] # <<>> /\ Head(wire[s]).op = "ERR"
  /\ slave' = [slave EXCEPT ![s].state = "CONNECT"]
  /\ wire' = [wire EXCEPT ![s] = <<>>]
  /\ FreeClient(s)
  /\ UNCHANGED <<masterVars, backlog, slaveseldb, budget>>

(* readQueryFromClient() of the master client: the offset advances and the  *)
(* command is executed.                                                     *)
(* As it would be if the offset only counted the commands of clients.       *)
ExecutedUncounted(inst, e) ==
  CASE e.op = "SELECT" -> [inst EXCEPT !.db = e.arg]
    [] e.op = "CMD"    -> [inst EXCEPT !.reploff = @ + 1,
                                       !.data = Append(@, <<inst.db, e.arg>>)]
    [] OTHER           -> inst

Executed(inst, e) ==
  CASE e.op = "SELECT" -> [inst EXCEPT !.reploff = @ + 1, !.db = e.arg]
    [] e.op = "CMD"    -> [inst EXCEPT !.reploff = @ + 1,
                                       !.data = Append(@, <<inst.db, e.arg>>)]
    [] OTHER           -> [inst EXCEPT !.reploff = @ + 1]

ReadStream(s) ==
  /\ slave[s].state = "CONNECTED"
  /\ wire[s] # <<>>
  /\ slave' = [slave EXCEPT ![s] = Executed(@, Head(wire[s]))]
  /\ wire' = [wire EXCEPT ![s] = Tail(@)]
  /\ UNCHANGED <<masterSide, client, budget>>

(* The slave finds the connection closed, possibly before it has read what  *)
(* was sent.  A connected slave caches its master client; one that waits for*)
(* the reply to PSYNC discards it; a transfer is aborted.                   *)
SeeClose(s) ==
  /\ client[s].replstate = "CLOSED"
  /\ slave[s].state # "CONNECT"
  /\ slave' = [slave EXCEPT ![s].state = "CONNECT",
                            ![s].cached = slave[s].state = "CONNECTED"]
  /\ wire' = [wire EXCEPT ![s] = <<>>]
  /\ UNCHANGED <<masterSide, client, budget>>

----------------------------------------------------------------------------
MasterStep ==
  \/ \E db \in DBs : Write(db)
  \/ CronPing \/ CronFreeBacklog \/ Bgsave \/ MasterCrash
  \/ \E size \in BacklogSizes : ConfigResize(size)
  \/ \E forked \in BOOLEAN : CronStartBgsave(forked)
  \/ \E ok, forked \in BOOLEAN :
        BgsaveDoneDisk(ok, forked) \/ BgsaveDoneSocket(ok, forked)

ClientStep(s) ==
  \/ LinkLost(s) \/ SyncCommand(s) \/ SendBulk(s) \/ SendReply(s)
  \/ ReplconfAck(s) \/ ChildWrite(s)

SlaveStep(s) ==
  \/ SyncWithMaster(s) \/ ReadPsyncReply(s) \/ LoadRdb(s) \/ MissEofMark(s)
  \/ SwallowStream(s) \/ ReadSyncError(s) \/ ReadStream(s) \/ SeeClose(s)

Next == MasterStep \/ \E s \in Slaves : ClientStep(s) \/ SlaveStep(s)

Spec == Init /\ [][Next]_vars

(* The event loop serves every socket and runs every cron again and again,  *)
(* and a child terminates; links break and forks fail only so often.        *)
Fairness ==
  /\ WF_vars(\E forked \in BOOLEAN : CronStartBgsave(forked))
  /\ WF_vars(\E ok, forked \in BOOLEAN :
                BgsaveDoneDisk(ok, forked) \/ BgsaveDoneSocket(ok, forked))
  /\ \A s \in Slaves :
       /\ WF_vars(SyncCommand(s)) /\ WF_vars(SendBulk(s))
       /\ WF_vars(SendReply(s)) /\ WF_vars(ReplconfAck(s))
       /\ WF_vars(ChildWrite(s)) /\ WF_vars(SlaveStep(s))

FairSpec == Spec /\ Fairness
============================================================================
