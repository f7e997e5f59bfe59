----------------------------- MODULE RedisMulti -----------------------------
(***************************************************************************)
(* MULTI/EXEC/WATCH of the Redis server (multi.c), with what they hang on: *)
(* call() and its propagation to the AOF and the slaves (redis.c), the     *)
(* lazy and the active expiration of keys (db.c), their eviction, and the  *)
(* commands on keys that a transaction may hold.                           *)
(*                                                                         *)
(* The server is one thread.  A command is one action, except EXEC, which  *)
(* is a loop of call(): one action starts it, one runs each queued command *)
(* and one ends it, and while "executing" names a client nothing but that  *)
(* loop and the clock moves.  The propagated commands reach "replica", the *)
(* fake client that reads the AOF back or the master link of a slave; what *)
(* an open MULTI block holds is kept as the dataset its EXEC would give.   *)
(***************************************************************************)
EXTENDS Integers, Sequences, FiniteSets

CONSTANTS
    Clients,      \* the connections
    NoClient,     \* not a client: no EXEC is running
    Dbs, Keys, Values,
    Absent,       \* not a value: the key does not exist
    Commands,     \* the commands, with their arguments, that clients send
    Roles,        \* the roles the server may take by SLAVEOF
    Snapshots,    \* the datasets a full resynchronisation may load
    MaxQueue,     \* bound: commands in a transaction
    MaxDirty      \* bound: no command is taken from server.dirty on

ReadOnlyOps == {"get", "select", "unwatch", "save"}
WriteOps == {"set", "del", "expire", "expirepast", "flushdb", "move"}

Command == [op : ReadOnlyOps \cup WriteOps, key : Keys, val : Values, db : Dbs]

Places == Dbs \X Keys
Dataset == [Places -> Values \cup {Absent}]

ASSUME MultiAssumption ==
    /\ NoClient \notin Clients
    /\ Absent \notin Values
    /\ 0 \in Dbs /\ IsFiniteSet(Dbs) /\ IsFiniteSet(Keys)
    /\ Commands \subseteq Command
    /\ Roles \subseteq {"master", "slave"}
    /\ Snapshots \subseteq Dataset
    /\ MaxQueue \in Nat /\ MaxDirty \in Nat

VARIABLES
    data,         \* db->dict of every database
    ttl,          \* db->expires: no entry, in the future, or past
    dirty,        \* server.dirty
    role,         \* whether server.masterhost is set
    db,           \* c->db
    multi,        \* the clients with REDIS_MULTI
    cas,          \* the clients with REDIS_DIRTY_CAS
    errs,         \* the clients with REDIS_DIRTY_EXEC
    queue,        \* c->mstate
    watched,      \* c->watched_keys
    watchers,     \* db->watched_keys
    executing,    \* the running execCommand() and the call() around it
    replica,      \* the reader of the propagated commands
    seen,         \* history: what a watched key held at its WATCH
    refused       \* history: clients that flagTransaction() was called for,
                  \* since their MULTI

server == <<data, ttl, dirty, role>>
txn == <<db, multi, cas, errs, queue>>
watch == <<watched, watchers, seen>>
vars == <<server, txn, watch, executing, replica, refused>>

NotExecuting == [client |-> NoClient, next |-> 0, before |-> 0, must |-> 0]
Idle == executing.client = NoClient

(* A reader that has executed everything it was sent. *)
InSync(D) == [shown |-> D, block |-> D, open |-> 0]

Init ==
    /\ data = [p \in Places |-> Absent]
    /\ ttl = [p \in Places |-> "none"]
    /\ dirty = 0
    /\ role = "master"
    /\ db = [c \in Clients |-> 0]
    /\ multi = {} /\ cas = {} /\ errs = {} /\ refused = {}
    /\ queue = [c \in Clients |-> <<>>]
    /\ watched = [c \in Clients |-> {}]
    /\ watchers = [p \in Places |-> {}]
    /\ seen = [c \in Clients |-> [p \in Places |-> Absent]]
    /\ executing = NotExecuting
    /\ replica = InSync(data)

-----------------------------------------------------------------------------
(* The commands as functions: what they do to a dataset, how much they add *)
(* to server.dirty and whom they flag.  "d" is the client's database, "D"  *)
(* the dataset after the lookups of the command expired what was due.      *)

Place(cmd, d) == <<d, cmd.key>>
PlaceTo(cmd) == <<cmd.db, cmd.key>>

Held(d, D) == {p \in Places : p[1] = d /\ D[p] # Absent}

(* moveCommand() moves only to another database, where the key is free. *)
Moves(cmd, d, D) ==
    cmd.op = "move" /\ cmd.db # d /\ D[Place(cmd, d)] # Absent /\ D[PlaceTo(cmd)] = Absent

(* The dataset after the command, on the master and on its reader alike. *)
After(cmd, d, D) ==
    CASE cmd.op = "set" -> [D EXCEPT ![Place(cmd, d)] = cmd.val]
      [] cmd.op = "del" -> [D EXCEPT ![Place(cmd, d)] = Absent]
      [] cmd.op = "flushdb" -> [p \in Places |-> IF p[1] = d THEN Absent ELSE D[p]]
      [] Moves(cmd, d, D) -> [D EXCEPT ![Place(cmd, d)] = Absent,
                                       ![PlaceTo(cmd)] = D[Place(cmd, d)]]
      [] OTHER -> D

(* What the command adds to server.dirty: a command that changed nothing   *)
(* adds nothing and is not propagated.                                     *)
Dirtied(cmd, d, D) ==
    CASE cmd.op = "set" -> 1
      [] cmd.op \in {"del", "expire", "expirepast"} ->
            IF D[Place(cmd, d)] # Absent THEN 1 ELSE 0
      [] cmd.op = "flushdb" -> Cardinality(Held(d, D))
      [] cmd.op = "move" -> IF Moves(cmd, d, D) THEN 1 ELSE 0
      [] OTHER -> 0

(* touchWatchedKey(): the clients in the list of the key. *)
TouchKey(p) == watchers[p]

(* A wrong variant of TouchFlush: it is called when the dictionaries are   *)
(* already empty.                                                          *)
TouchFlushEmptied(ds, D) == {}

(* touchWatchedKeysOnFlush(): the clients that watch a key the flush will  *)
(* remove.                                                                 *)
TouchFlush(ds, D) ==
    {c \in Clients : \E p \in watched[c] : p[1] \in ds /\ D[p] # Absent}

(* A wrong variant of Touches: DEL and FLUSHDB look whether the key is     *)
(* there when they have removed it.                                        *)
TouchesTooLate(cmd, d, D) ==
    CASE cmd.op = "set" -> TouchKey(Place(cmd, d))
      [] cmd.op \in {"del", "expire", "expirepast"}
            /\ After(cmd, d, D)[Place(cmd, d)] # Absent -> TouchKey(Place(cmd, d))
      [] cmd.op = "flushdb" -> TouchFlush({d}, After(cmd, d, D))
      [] OTHER -> {}

(* The clients the command flags: moveCommand() signals no modified key.   *)
Touches(cmd, d, D) ==
    CASE cmd.op = "set" -> TouchKey(Place(cmd, d))
      [] cmd.op \in {"del", "expire", "expirepast"} /\ D[Place(cmd, d)] # Absent ->
            TouchKey(Place(cmd, d))
      [] cmd.op = "flushdb" -> TouchFlush({d}, D)
      [] OTHER -> {}

(* The expire of every key after the command: SET and MOVE leave none, an  *)
(* EXPIRE in the past is kept by a slave.                                  *)
TtlAfter(cmd, d, D, T) ==
    LET p == Place(cmd, d)
    IN  CASE cmd.op = "expire" /\ D[p] # Absent -> [T EXCEPT ![p] = "future"]
          [] cmd.op = "expirepast" /\ D[p] # Absent -> [T EXCEPT ![p] = "past"]
          [] cmd.op = "flushdb" -> [q \in Places |-> IF q[1] = d THEN "none" ELSE T[q]]
          [] cmd.op \in {"set", "del"} \/ Moves(cmd, d, D) -> [T EXCEPT ![p] = "none"]
          [] OTHER -> T

-----------------------------------------------------------------------------
(* Expiration: expireIfNeeded(), run by every lookup of a key.             *)

(* The keys the command looks up, the target of MOVE only when the source  *)
(* is there.                                                               *)
Gone(p) == role = "master" /\ ttl[p] = "past"

Looked(cmd, d) ==
    IF cmd.op \in {"get", "set", "del", "expire", "expirepast"} THEN {Place(cmd, d)}
    ELSE IF cmd.op = "move" /\ cmd.db # d
         THEN {Place(cmd, d)} \cup
              (IF data[Place(cmd, d)] # Absent /\ ~Gone(Place(cmd, d))
               THEN {PlaceTo(cmd)} ELSE {})
         ELSE {}

Expired(cmd, d) == {p \in Looked(cmd, d) : Gone(p)}

Without(D, G) == [p \in Places |-> IF p \in G THEN Absent ELSE D[p]]

(* An EXPIRE in the past is executed and propagated by a master as a DEL.  *)
Rewritten(cmd) ==
    IF cmd.op = "expirepast" /\ role = "master" THEN [cmd EXCEPT !.op = "del"] ELSE cmd

(* The reader of the propagated commands: inside a block a command is only *)
(* queued, EXEC runs the block.                                            *)
Fed(r, D) == [shown |-> IF r.open = 1 THEN r.shown ELSE D, block |-> D, open |-> r.open]
FedMulti(r) == [r EXCEPT !.open = 1]
FedExec(r) == InSync(r.block)

(* propagateExpire() sends a DEL for each key before it goes. *)
FedExpired(r, G) == Fed(r, Without(r.block, G))

(* History: an expired or evicted key is not a modified key. *)
SeenWithout(G) ==
    [c \in Clients |-> [p \in Places |-> IF p \in G THEN Absent ELSE seen[c][p]]]

-----------------------------------------------------------------------------
(* WATCH, and the loops over the two indexes.                              *)

(* A wrong variant of UnwatchAll: the client stays in the lists of its     *)
(* keys.                                                                   *)
UnwatchClientOnly(c) ==
    /\ watched' = [watched EXCEPT ![c] = {}]
    /\ seen' = [seen EXCEPT ![c] = [p \in Places |-> Absent]]
    /\ UNCHANGED watchers

(* unwatchAllKeys() *)
UnwatchAll(c) ==
    /\ watched' = [watched EXCEPT ![c] = {}]
    /\ watchers' = [p \in Places |->
                       IF p \in watched[c] THEN watchers[p] \ {c} ELSE watchers[p]]
    /\ seen' = [seen EXCEPT ![c] = [p \in Places |-> Absent]]

(* watchForKey(): a key already watched is left alone. *)
WatchForKey(c, p) ==
    /\ p \notin watched[c]
    /\ watched' = [watched EXCEPT ![c] = @ \cup {p}]
    /\ watchers' = [watchers EXCEPT ![p] = @ \cup {c}]
    /\ seen' = [seen EXCEPT ![c][p] = data[p]]

(* watchCommand() for one key: inside MULTI it is not queued, only answered *)
(* with an error, and the transaction goes on.                             *)
Watch(c, k) ==
    /\ Idle
    /\ \/ c \in multi /\ UNCHANGED watch
       \/ c \notin multi /\ WatchForKey(c, <<db[c], k>>)
    /\ UNCHANGED <<server, txn, executing, replica, refused>>

(* A wrong variant of CasUnwatched: the flag stays. *)
CasKept(c) == cas

(* UNWATCH clears REDIS_DIRTY_CAS as well. *)
CasUnwatched(c) == cas \ {c}

-----------------------------------------------------------------------------
(* call(): the command, then its propagation if server.dirty grew.  "r" is *)
(* the reader as the caller leaves it: EXEC may have sent it MULTI.        *)

Call(c, cmd, r) ==
    LET d == db[c]
        G == Expired(cmd, d)
        D == Without(data, G)
        w == Rewritten(cmd)
        grown == Dirtied(w, d, D)
        r1 == FedExpired(r, G)
    IN  /\ data' = After(w, d, D)
        /\ ttl' = TtlAfter(w, d, D, [p \in Places |-> IF p \in G THEN "none" ELSE ttl[p]])
        /\ dirty' \in IF cmd.op = "save" THEN {0, dirty} ELSE {dirty + grown}
        /\ db' = [db EXCEPT ![c] = IF cmd.op = "select" THEN cmd.db ELSE @]
        /\ replica' = IF grown > 0 THEN Fed(r1, After(w, d, r1.block)) ELSE r1
        /\ \/ /\ cmd.op = "unwatch"
              /\ UnwatchAll(c)
              /\ cas' = CasUnwatched(c)
           \/ /\ cmd.op # "unwatch"
              /\ cas' = cas \cup Touches(w, d, D)
              /\ seen' = SeenWithout(G)
              /\ UNCHANGED <<watched, watchers>>

-----------------------------------------------------------------------------
(* processCommand(): a command is refused, queued or executed.             *)

(* A slave is read only for its clients. *)
Accepted(cmd) == role = "master" \/ cmd.op \notin WriteOps

Execute(c, cmd) ==
    /\ Idle
    /\ c \notin multi
    /\ Accepted(cmd)
    /\ dirty < MaxDirty
    /\ Call(c, cmd, replica)
    /\ UNCHANGED <<role, multi, errs, queue, executing, refused>>

Queue(c, cmd) ==
    /\ Idle
    /\ c \in multi
    /\ Accepted(cmd)
    /\ Len(queue[c]) < MaxQueue
    /\ queue' = [queue EXCEPT ![c] = Append(@, cmd)]
    /\ UNCHANGED <<server, db, multi, cas, errs, watch, executing, replica, refused>>

(* A wrong variant of FlagTransaction: the error is only replied. *)
FlagNothing(c) == errs' = errs

(* flagTransaction(), called for an unknown command, a wrong number of     *)
(* arguments, a missing password, no memory, a failed save, too few good   *)
(* slaves, a broken master link or a slow script.                          *)
FlagTransaction(c) == errs' = errs \cup {c}

RefuseFlagged(c) ==
    /\ Idle
    /\ c \in multi
    /\ FlagTransaction(c)
    /\ refused' = refused \cup {c}
    /\ UNCHANGED <<server, db, multi, cas, queue, watch, executing, replica>>

(* A write refused by a read-only slave flags nothing: the transaction goes *)
(* on without it.                                                          *)
RefuseReadOnly(c, cmd) ==
    /\ Idle
    /\ c \in multi
    /\ ~Accepted(cmd)
    /\ UNCHANGED vars

(* A nested MULTI is answered with an error, and the transaction goes on. *)
Multi(c) ==
    /\ Idle
    /\ \/ c \in multi /\ UNCHANGED multi
       \/ c \notin multi /\ multi' = multi \cup {c}
    /\ UNCHANGED <<server, db, cas, errs, queue, watch, executing, replica, refused>>

(* discardTransaction() *)
DiscardTransaction(c) ==
    /\ multi' = multi \ {c}
    /\ cas' = cas \ {c}
    /\ errs' = errs \ {c}
    /\ queue' = [queue EXCEPT ![c] = <<>>]
    /\ UnwatchAll(c)
    /\ refused' = refused \ {c}

Discard(c) ==
    /\ Idle
    /\ c \in multi
    /\ DiscardTransaction(c)
    /\ UNCHANGED <<server, db, executing, replica>>

(* freeClient(); a new connection takes the name, in the first database. *)
Disconnect(c) ==
    /\ Idle
    /\ DiscardTransaction(c)
    /\ db' = [db EXCEPT ![c] = 0]
    /\ UNCHANGED <<server, executing, replica>>

-----------------------------------------------------------------------------
(* execCommand()                                                           *)

ExecAbort(c) ==
    /\ Idle
    /\ c \in multi
    /\ c \in cas \cup errs
    /\ DiscardTransaction(c)
    /\ UNCHANGED <<server, db, executing, replica>>

(* A wrong variant of Started: the loop starts at 1, like those over argv. *)
StartedAtOne(c) == [client |-> c, next |-> 1, before |-> dirty, must |-> 0]

(* The call() around execCommand() has read server.dirty. *)
Started(c) == [client |-> c, next |-> 0, before |-> dirty, must |-> 0]

ExecStart(c) ==
    /\ Idle
    /\ c \in multi
    /\ c \notin cas \cup errs
    /\ dirty < MaxDirty
    /\ UnwatchAll(c)
    /\ executing' = Started(c)
    /\ UNCHANGED <<server, txn, replica, refused>>

(* A wrong variant of MustPropagate: the commands go out one by one. *)
NeverPropagate(cmd) == 0

(* MULTI is propagated before the first command that may write. *)
MustPropagate(cmd) ==
    IF executing.must = 1 \/ cmd.op \notin ReadOnlyOps THEN 1 ELSE 0

ExecCommand ==
    LET c == executing.client
        cmd == queue[c][executing.next + 1]
        must == MustPropagate(cmd)
    IN  /\ ~Idle
        /\ executing.next < Len(queue[c])
        /\ Call(c, cmd, IF must > executing.must THEN FedMulti(replica) ELSE replica)
        /\ executing' = [executing EXCEPT !.next = @ + 1, !.must = must]
        /\ UNCHANGED <<role, multi, errs, queue, refused>>

(* A wrong variant of DirtyAtEnd: EXEC is propagated only if a command of  *)
(* the block was.                                                          *)
DirtyOfCommands == dirty

(* server.dirty++ makes the call() around EXEC propagate it. *)
DirtyAtEnd == dirty + executing.must

ExecEnd ==
    LET c == executing.client IN
    /\ ~Idle
    /\ executing.next = Len(queue[c])
    /\ DiscardTransaction(c)
    /\ dirty' = DirtyAtEnd
    /\ replica' = IF DirtyAtEnd > executing.before THEN FedExec(replica) ELSE replica
    /\ executing' = NotExecuting
    /\ UNCHANGED <<data, ttl, role, db>>

-----------------------------------------------------------------------------
(* The clock, the cron and the role of the server.                         *)

(* mstime() is read by every lookup, during an EXEC too. *)
TimePasses(p) ==
    /\ ttl[p] = "future"
    /\ ttl' = [ttl EXCEPT ![p] = "past"]
    /\ UNCHANGED <<data, dirty, role, txn, watch, executing, replica, refused>>

(* activeExpireCycleTryExpire(), for the keys the cycle happens to sample. *)
CronExpire(p) ==
    /\ Idle
    /\ Gone(p)
    /\ data' = Without(data, {p})
    /\ ttl' = [ttl EXCEPT ![p] = "none"]
    /\ replica' = FedExpired(replica, {p})
    /\ seen' = SeenWithout({p})
    /\ UNCHANGED <<dirty, role, txn, watched, watchers, executing, refused>>

(* freeMemoryIfNeeded(), before a command: the key goes like an expired one, *)
(* on a slave too, and its watchers are not told.                          *)
Evict(p) ==
    /\ Idle
    /\ data[p] # Absent
    /\ data' = Without(data, {p})
    /\ ttl' = [ttl EXCEPT ![p] = "none"]
    /\ replica' = FedExpired(replica, {p})
    /\ seen' = SeenWithout({p})
    /\ UNCHANGED <<dirty, role, txn, watched, watchers, executing, refused>>

(* backgroundSaveDoneHandlerDisk() takes back what server.dirty was at the *)
(* fork.                                                                   *)
BgsaveDone(dirty_before_bgsave) ==
    /\ Idle
    /\ dirty' = dirty - dirty_before_bgsave
    /\ UNCHANGED <<data, ttl, role, txn, watch, executing, replica, refused>>

(* replicationSetMaster(): the clients and their transactions stay. *)
SlaveOf ==
    /\ Idle
    /\ role = "master"
    /\ "slave" \in Roles
    /\ role' = "slave"
    /\ UNCHANGED <<data, ttl, dirty, txn, watch, executing, replica, refused>>

SlaveOfNoOne ==
    /\ Idle
    /\ role = "slave"
    /\ role' = "master"
    /\ UNCHANGED <<data, ttl, dirty, txn, watch, executing, replica, refused>>

(* readSyncBulkPayload(): the old dataset is flushed, the master's loaded. *)
(* The AOF is rewritten and the chained slaves synchronise again.          *)
FullResync(D) ==
    /\ Idle
    /\ role = "slave"
    /\ cas' = cas \cup TouchFlush(Dbs, data)
    /\ data' = D
    /\ ttl' = [p \in Places |-> "none"]
    /\ replica' = InSync(D)
    /\ UNCHANGED <<dirty, role, db, multi, errs, queue, watch, executing, refused>>

Next ==
    \/ \E c \in Clients :
          \/ \E cmd \in Commands :
                Execute(c, cmd) \/ Queue(c, cmd) \/ RefuseReadOnly(c, cmd)
          \/ \E k \in Keys : Watch(c, k)
          \/ RefuseFlagged(c) \/ Multi(c) \/ Discard(c) \/ Disconnect(c)
          \/ ExecAbort(c) \/ ExecStart(c)
    \/ ExecCommand
    \/ ExecEnd
    \/ \E p \in Places : TimePasses(p) \/ CronExpire(p) \/ Evict(p)
    \/ \E n \in 1..dirty : BgsaveDone(n)
    \/ SlaveOf \/ SlaveOfNoOne
    \/ \E D \in Snapshots : FullResync(D)

Spec == Init /\ [][Next]_vars
=============================================================================
