# LoLStreams and its Redis server in TLA+

This directory models the program of this repository: a web page of game
streams (LoLStreams: a Sinatra server, an Angular page) that keeps its data in
the Redis 2.8.19 server whose source the repository carries. Nearly all of the
concurrency, failure handling and persistence of the whole is in Redis, and so
is most of this project. Source paths below are relative to
`src/redis-2.8.19/src/` unless they start with `src/`.

Sections: the system, the modules and how they correspond to the code, the runs
and their bounds, fairness, proofs, disagreements between the code and its
comments, what is left out, plan.

## The system

Redis is one thread. Its event loop (`ae.c`) calls a handler per readable or
writable socket and a cron; a handler runs to its end before the next one. What
is concurrent: other processes (clients, slaves, masters, sentinels, the web
server), forked children that write an RDB or an AOF from a copy of the data,
and two background threads that fsync and close files (`bio.c`).

| Part | State | Operations | Meets | Hard because | Correct when |
|---|---|---|---|---|---|
| Replication, `replication.c` | `server.slaves`, replstate and output buffer of each slave; the backlog; run id and offset; on the slave the state of its link and a cached master | PSYNC, REPLCONF, feeding, cron, end of a child; on the slave connect, handshake, transfer, stream | RDB child, clients, propagation | links break at any time, slaves attach while a child runs, offsets are promised before the RDB exists, masters restart | a slave's dataset is a past one of its master, nothing is lost or repeated, a PSYNC continues exactly, every slave gets in sync |
| RDB, `rdb.c`, `rio.c` | child pid and type, dirty counter, dump.rdb | SAVE, BGSAVE, save points, end of child, load | replication, cron, shutdown | child works on an old copy, may fail or be killed, rename at the end | dump.rdb is always a whole past dataset, no change is forgotten |
| AOF, `aof.c` | buffer, rewrite buffer, file, selected db, postponed flush | feed, flush, rewrite, end of rewrite, load | `bio.c`, propagation, fork | two buffers during a rewrite, delayed fsync, short writes, crash between rename and switch | loading gives the acknowledged writes in order, under `always` all of them |
| Propagation, `redis.c` `call()` | `server.dirty`, propagation flags, also-propagate list | call, propagate, processCommand | every command, scripts, EXEC, expiry | nested calls change the counter that decides | the stream, replayed, gives the same dataset |
| Transactions, `multi.c` | queued commands, watched keys, dirty flags | MULTI, EXEC, DISCARD, WATCH, touch | all writes, expiry, flush, master link | touched by anyone between WATCH and EXEC | EXEC runs only if no watched key changed; the block is propagated whole |
| Blocking, `t_list.c` | `blocking_keys`, `ready_keys`, blocked clients | BLPOP, BRPOPLPUSH, push, serve, timeout | clients, propagation | one push, many waiters; waiters of several keys; wrong type targets | first come first served, an element goes to one client, none is lost |
| Keyspace, expiry, `db.c`, `redis.c` | dict, expires | lookup, delete, active cycle, propagate DEL | slaves, AOF, WATCH | slaves wait for the master's DEL | an expired key is never seen on a master, deleted once everywhere |
| Eviction, `redis.c` | memory, samples | freeMemoryIfNeeded | output buffers, slaves | deleting feeds the buffers it wants to shrink | ends, evicts only what the policy allows |
| Hash table, `dict.c` | two tables, rehash index, iterators | add, find, delete, rehash, scan | everything | a step of rehashing between any two operations | no key lost or seen twice by lookups; SCAN returns all that stayed |
| Clients, `networking.c` | query buffer, output buffers, flags, close queue | read, write, free, free later | event loop, replication | freed while in lists being walked; limits | every list and count agrees with the clients that exist |
| Event loop, `ae.c` | file events, fired events, time events | create, delete, process | all handlers | a handler deletes another's event | no deleted event is fired, timers neither lost nor run twice |
| Background jobs, `bio.c` | job lists, pending counts | create, process, pending | AOF | shared with threads under a lock | a count of zero means all of that type are done |
| Publish/subscribe, `pubsub.c` | channels, patterns, per-client sets | (p)subscribe, publish | clients | two indexes of the same relation | the indexes agree |
| Scripting, `scripting.c` | script cache, replication script cache | EVAL, EVALSHA, kill | propagation, replication | EVALSHA may be propagated only where known | every slave can run what it is sent |
| Sentinel, `sentinel.c` | masters, slaves, sentinels, epochs, votes, failover state | ping, info, hello, ask, vote, failover steps | other sentinels, Redis instances | messages late or lost, several leaders | one leader per epoch, one promotion, the newest configuration wins |
| Configuration, `config.c` | the options, the file | load, CONFIG SET, GET, REWRITE | every part | lines of one option are used again or left over, units, defaults, two steps to overwrite | the file gives the configuration that was rewritten |
| HyperLogLog, `hyperloglog.c` | opcodes or registers of a string, the cached estimate | PFADD, PFCOUNT, PFMERGE | replication | opcodes split and merged in place, registers across bytes, a cache | the registers are those of the elements, everywhere |
| Values, `intset.c`, `ziplist.c`, `t_zset.c`, `util.c` | encodings | sequential | commands | boundaries of widths and lengths | equal to the plain definition |
| Slow log, latency, `slowlog.c`, `latency.c` | bounded lists | push, reset, resize | call | limits changed at run time | newest entries kept |
| Page, `src/public/js/main.js` | streams, filters, favourites, active streamer | queries, timers, clicks | server | answers out of order, timers never cancelled | the page shows the streamer chosen, filters match the list |
| Server, `src/streams.rb` | documents in MongoDB, cached list in Redis | pages, edit, follow | Redis, Twitch | a hash changed while iterated, two saves | what is saved is what was entered |

Everything above has an entry in `PROJECT.json`, together with the parts that
are left out on purpose and the hazards at their lines.

## Modules

    ReplBacklog            the circular buffer: operators on one record
      ReplBacklogBytes     its byte loops against those operators
      RedisReplication     a master, its slaves, the RDB child, the links
        RedisReplicationInv     types, two promises, the inductive invariant
          RedisReplicationProps the other properties, refinement of ReplicatedLog
            MCRedisReplication  instances for TLC
            RedisReplicationStream  the inductive invariant of the stream
              RedisReplicationStream_proofs
          RedisReplication_proofs
      ReplicatedLog        the abstract promise
    RedisMulti             transactions, WATCH, call() and its propagation
      RedisMultiProps        the properties, the parts of the invariants
        MCRedisMulti         the commands of the runs
        RedisMulti_proofs

    RedisPersistence       AOF, RDB, bio: what reaches the disk
    RedisScripting         EVAL, EVALSHA, the cache, SCRIPT KILL
    RedisKeyspace          keys, expiry and eviction, on master, slave and AOF
      Server_proofs        of these three
    RedisClients           output buffers, Pub/Sub, MONITOR, the event loop
      RedisClients_proofs
      MCServer             the four, side by side

    BlockingLists          lists and the clients that block on them
      BlockingLists_proofs
    RedisDict              the hash table, its iterators and SCAN
    RedisZiplist           the packed list
    RedisZset              the sorted set in both encodings
    RedisRdb               the file format
    RedisProtocol          the query buffer
    RedisConfig            the configuration and its file
    RedisHyperloglog       the HyperLogLog in both encodings, and on a replica
      MCData               the eight, and ReplBacklogBytes, side by side

    SentinelElection       votes and epochs
    SentinelFailover       the failover, hello messages, saved configuration
    SentinelScripts        the notification scripts
      MCSentinel           the three, side by side
      Sentinel_proofs      of the three

    LolPage                the page of LoLStreams and the routes it asks
      LolPage_proofs
      MCLive               the page, and the replication, with fairness

*Side by side*: modules that do not share state have one MC module and one run.
A variable `part` says whose behaviour this is; the others keep their initial
state. This is the disjoint union of the components, not their product: it adds
states and does not multiply them, and each invariant speaks of its part. The
components that do interact are composed in one module, with the state they
share: the RDB child and replication, the event loop and the clients, the
fsync thread and the AOF, blocked clients and transactions, keys with their
slave and their AOF.

### ReplBacklog, ReplBacklogBytes

The backlog is one record, because `replicationFeedSlaves()` feeds it twice in
one step. `Feed`, `Create`, `Resize`, `Free` are `feedReplicationBacklog()` and
its neighbours, `Holds` and `BacklogTail` what a PSYNC asks of it. `stream` is a
history variable: the unit sent at each offset. A unit is one *command* of the
stream, not one byte, since neither a slave nor the backlog ever cuts a command
in a way the protocol shows; `ReplBacklogBytes` justifies the step from bytes
to units by modelling the two byte loops with their `memcpy` runs and checking
them against iterated `Feed` and `BacklogTail`. The minimum size of 16 KB that
`resizeReplicationBacklog()` enforces is left out, sizes here are 1 to 3.

### RedisReplication

| Model | Code |
|---|---|
| `client[s]` | the master's `redisClient` of the connection: `replstate`; `psync`, a PSYNC was received and not answered; `obuf`, `buf` and `reply`; `handler`, the write handler is `sendReplyToClient`; `onack`, `repl_put_online_on_ack`; `file`, the RDB `sendBulkToSlave()` has open |
| `slave[s]` | the slave instance: `repl_state`, whether there is a `cached_master`, the run id and offset of the master client, its selected database, the announced offset, the dataset; `trust` is a history field |
| `wire[s]` | the TCP stream from master to slave |
| `child` | `rdb_child_type`, the dataset at the fork, the sockets a diskless child was given and those it has written |
| `data`, `dump`, `runid`, `slaveseldb`, `backlog` | the dataset as the sequence of its writes, dump.rdb, `server.runid`, `server.slaveseldb`, the backlog |

An action is a handler. `Write` and `CronPing` end in `replicationFeedSlaves()`;
`SyncPartial`, `SyncJoinsBgsave`, `SyncWaits`, `SyncStartsBgsave` and
`SyncFails` are the ways `syncCommand()` returns; `BgsaveDoneDisk` and
`BgsaveDoneSocket` are the two done handlers with
`updateSlavesWaitingBgsave()` and the fork it ends in; `ReplconfAck`,
`SendBulk`, `SendReply`, `LinkLost`, `CronStartBgsave`, `CronFreeBacklog`,
`ConfigResize`, `Bgsave`, `MasterCrash` the rest of the master; `SyncWithMaster`,
`ReadPsyncReply`, `LoadRdb`, `MissEofMark`, `SwallowStream`, `ReadSyncError`,
`ReadStream` and `SeeClose` the slave.

Abstractions. A write is a number that no other write has, with the database it
went to: two datasets are equal exactly when the same writes were applied in
the same order to the same databases. The RDB travels as one message; the slave
reads one message at a time, except that the end mark of a streamed RDB can be
hidden by what follows it in the same read. A broken link is seen by the master
first (`LinkLost` frees the client) and by the slave later (`SeeClose`), with
any part of what was on the wire read in between; a slave never has two
connections at the master, because in the code the new one is not a slave
before its own PSYNC and the old one is timed out or closed by then. The order
of `server.slaves` only decides whose buffer is copied: any slave in END. The
time limits of the cron are "at any time". `trust` remembers whether the offset
announced to the slave was the one its RDB was taken at ("exact" or "inexact"),
and whether a slave with an inexact offset has resumed ("resumed"): it names the
slaves the first disagreement below is about.

### ReplicatedLog

Replicas that hold a past value of one log, advance one write at a time, and may
be set to another past value (a full resynchronisation forgets what it
replaced). `RedisReplicationProps` instantiates it (`Log`) with the master's
dataset as the log and the slaves' datasets as the copies.

### RedisMulti

| Model | Code |
|---|---|
| `data`, `ttl` | `db->dict` and `db->expires` of every database; a time is in the future or past |
| `dirty`, `role` | `server.dirty`; whether `server.masterhost` is set |
| `multi`, `cas`, `errs`, `queue`, `db` | the flags `REDIS_MULTI`, `REDIS_DIRTY_CAS`, `REDIS_DIRTY_EXEC` of the clients, as sets, their `mstate` and selected database |
| `watched`, `watchers` | `c->watched_keys` and `db->watched_keys`, the two indexes |
| `executing` | the running `execCommand()`: client, index in the queue, `must_propagate`, and the `server.dirty` the `call()` around it has read |
| `replica` | who reads what is propagated, the fake client of the AOF or a slave: the dataset it shows, the one it will show when the open block ends, whether one is open |
| `seen`, `refused` | history: the value of a key at its WATCH (an expiry or an eviction is not a change), the clients for which `flagTransaction()` was called since MULTI |

A command is one action, `Call` with what `processCommand()` does around it.
EXEC is a loop of `call()` and the only command of several actions (`ExecStart`,
`ExecCommand` per queued command, `ExecEnd`): while it runs every other action
but the clock is disabled, as on one thread. A command is told by what it does
to a dataset (`After`), what it adds to the counter (`Dirtied`), whom it flags
(`Touches`) and what it looks up (`Looked`), because a lookup may expire the key
and send a DEL first. `After` is what the reader executes too: the conditional
commands (DEL, MOVE, EXPIRE) repeat on it only because it has the same keys.

Abstractions. SET without options stands for the commands that create or
overwrite; they signal and count alike. The queue of the reader's own MULTI is
kept as its result, since nothing else reaches that client in between. The
reader is up to date: how the stream travels is RedisReplication. All refusals
that flag the transaction are one (`RefuseFlagged`), the one of a read-only slave,
which flags nothing, is another (`RefuseReadOnly`), and a MULTI or a WATCH inside
MULTI is a branch of `Multi` and `Watch`: it is answered with an error and the
transaction goes on. `Evict` is `freeMemoryIfNeeded()` before any command: a key
goes as an expired one does, on a slave too, and nobody who watches it is told;
which keys the policy chooses is RedisKeyspace. A full resynchronisation
loads any of a set of datasets and leaves the reader in sync, since the AOF is
rewritten and the chained slaves were disconnected. BGSAVE only appears as what
its end takes from the counter.


### RedisPersistence

| Model | Code |
|---|---|
| `server.data` | the dataset as the sequence of its writes: for each of them the database it went to |
| `server.file`, `synced`, `size`, `buf`, `db` | the append only file and how much of it is on the disk, `aof_current_size`, `aof_buf`, `aof_selected_db` |
| `server.fsyncs`, `postponed`, `written` | the jobs in the bio queue, `aof_flush_postponed_start`, `aof_last_write_status` |
| `server.rewrite`, `diff`, `scheduled`, `fd`, `state` | `aof_child_pid`, `aof_rewrite_buf_blocks`, `aof_rewrite_scheduled`, `aof_fd`, `aof_state` |
| `server.save`, `dirty`, `before`, `saved`, `dump` | `rdb_child_pid`, `dirty`, `dirty_before_bgsave`, `lastbgsave_status`, how much of the dataset dump.rdb has |
| `server.children` | the processes, each with what it will leave behind |
| `server.acked` | history: the writes whose replies may have been sent |

A handler is a composition of the functions it calls: `serverCron()` is
`ServerCron`, with a scheduled rewrite, the end of a child or else the save points
and the growth, the postponed flush and the retry, in its order. Each function
takes a state to the set of states it may end in, because a `write()` may be
short, an `ftruncate()` may fail, a fork may fail, and delays and thresholds may
be over or not. `Crash` kills the process or stops the machine (what was not
fsynced may be missing); `Restart` loads what is there, a cut last command being
dropped. `RewriteDone` is one action for a server that goes on, as nothing else
runs meanwhile; for one that stops in the middle of the switch it has
`StoppedSwitching`: after the rename and before the fsync of the new file, what
the child wrote is on the disk (it fsyncs) and of the differences any prefix is.
Before the rename the old file is there, which is what `Crash` leaves. The rename
is taken to be on the disk at once: the code does not fsync the directory. A file
is loaded by `Loaded`, command by command, and is `bad` if a command is not the
next write of the dataset or runs in another database: so a doubled, lost, cut or
misplaced command shows. When a rewrite replaces the file while `aof_fd` is -1,
`aof_current_size` keeps the size of the old file, and an `ftruncate()` to it may
leave zeros behind the new one (`Hole`), which no load accepts. That takes three
forks, two CONFIG SET and three errors, more than the run Server has; it is within
the reach of the proof.

`AofIsDataset`: file and buffer together are the dataset at every moment.
`AckedIsSynced`: with `appendfsync always` a reply that may be sent is on the
disk, and in what a killed process leaves; a machine that stops in the middle of a
switch (the life "switching") is excepted, because the code breaks it there, see
below. `AofIsDataset` is not excepted: the file left there loads.
`DirtyCountsUnsaved`: no change is forgotten by the save points.

### RedisClients

The clients of one server, one event after the other. `net.client[c]` has the
fields of `redisClient`: `buf` and `reply` (a list of nodes; one with a length
to come is `open`), `sent` (`sentlen`), `handler`, flags; `over` is
`obuf_soft_limit_reached_time`. `net.subscribers`, `patterns`, `monitors` and
`closing` are the lists commands walk. `loop.fired` is what `aeApiPoll()`
returned and what is left of it: `ProcessEvent` checks, as `aeProcessEvents()`
does, that the event is still registered, and calls the read handler and the
write handler. A descriptor is freed and given to the next client, between two
events of one poll too. `wire` is what the peer received, `told` how many units
of output were made. A limit of 0 is none. The loops of the code over nodes,
over the units of a write and over the clients of a list are recursive functions,
as the proofs need them.

`OutputIsStream`: the peer gets what it was answered, in order, across the
static buffer, glued nodes, deferred lengths and short writes.
`RegistriesAgree`, `PendingHasHandler`, `OverLimitIsClosing`: no list names a
client that is gone, nothing waits without a handler, a limit closes.
Left out: the timer events (one cron), several channels, slaves and masters
(RedisReplication), blocked clients (BlockingLists).

### RedisKeyspace

Three places in two databases, and the clock. `main`, `slave` and `aof` are the
master's keys, the slave's, and the commands of the file; `toSlave` is what the
slave has not executed. A command takes a *context* (data, role, time, what was
propagated to the slave and fed to the file, dirty) to the next, so that the same
definitions are executed by the master, by the slave and by who loads the file, at
another time. Every lookup goes through `ExpireIfNeeded`, which deletes and
propagates on a master and only hides on a slave. `ActiveExpireCycle` deletes any
set of expired keys; `FreeMemoryIfNeeded` what the policy may choose. Scripts run
with the time they started at. `AofHasDataset` compares with a load at a later
time, so that a relative time written to the file would show.

The kinds "setpx" and "scriptexpire" are actions that the runs give no chance, and
none gives "persist" a chance together with "sync" or "rewrite": they break the
property (see disagreements). Before a command the master evicts
down to `MaxKeys`, a key of each database with a candidate per round, as
`freeMemoryIfNeeded()` does; which keys is left open, and memory is counted in
keys. A slave with a limit of its own, which the documentation of maxmemory
warns about, is not modelled.

### RedisScripting

`scripts` is `server.lua_scripts`, `cache` the `repl_scriptcache`, `reader` what
each slave and the AOF know once they have executed what they were sent, `saving`
and `rewriting` the children. EVALSHA is propagated as such only when the cache
has the script, else as EVAL (`replicationScriptCacheExists()`), and the cache is
flushed when a slave attaches fully or the AOF is turned on or rewritten.
`BackgroundSaveDone` is `updateSlavesWaitingBgsave()`: slaves that wait for the
next BGSAVE are moved to `WAIT_BGSAVE_END` before it is forked, and when the fork
fails they stay there, fed, joined by others and put on line by whatever BGSAVE
ends next, while the cache is flushed only for a fork that succeeds. `stranded`
remembers them, and those that joined them, until the next flush: what they are
sent is the one exception of `HashesAreKnown` (see below). A running script is
interleaved with the handlers `lua-time-limit` lets in: SCRIPT KILL only.
`HashesAreKnown` is about every reader of the stream, one that waits for its RDB
included; `KilledWroteNothing` about a script that is killed. `redis.call()`
inside `pcall()` is the operation "guarded", which the run does not use: it breaks
the second property.

### BlockingLists

| Model | Code |
|---|---|
| `db.value`, `db.waiting`, `db.ready`, `db.signalled` | the keys, `blocking_keys`, `server.ready_keys`, `db->ready_keys` |
| `bpop[c]` | `c->bpop`: keys, timeout, target; whether it is blocked, how many replies it is owed, since when |
| `unblocked`, `turn` | `server.unblocked_clients`; the phase of the event loop, who is being processed |
| `serving` | the local list, key, count of clients of `handleClientsBlockedOnLists()` |
| `replica` | the dataset of who executes what is propagated |

Pushes, pops, RPOPLPUSH, SET, RENAME, LINSERT and the like ("edit"), SORT with
STORE, EXEC with two commands, the three blocking commands; timeouts in the
cron, disconnection, CLIENT KILL in the middle of serving. Serving is one action
per key and client (`ServeReady`, `ServeKey`, `ServeClient`, `ServeDone`), and so
is the propagation of the pop and the push.

### RedisDict

Buckets as sequences, in `main` and `next` (`ht[0]`, `ht[1]`), `rehashidx`,
`iterators`. Every add, delete and find does one step of rehashing unless an
iterator is alive; the cron does `CronSteps` buckets and resizes a table that is
too large; `dict_can_resize` is off while a child lives. `DictScan` is
`dictScan()` with its cursor whose bits are counted from the high end, in words
of three bits. `scan.stays` and `iterator.stays` are the keys that were there all
the time, which must be returned.

### RedisZiplist, RedisZset, RedisRdb

*RedisZiplist* keeps for each entry the length it has for the one before and the
width of the field it is in; `__ziplistCascadeUpdate()` is `Cascade`, one entry
after the other; a long field stays long when the entry before shrinks; an
insertion may reuse the bytes of the next entry's field. Bytes have three bits,
the long field starts at eight, so that five entries cascade.

*RedisZset* is one key, as pairs or as a skip list with `fwd`, `span`, `back`
and the hash table. `zslInsert()`, `zslDelete()` and the range deletions are
translated level by level; `zslRandomLevel()` is any tower of `Towers`. `ref` is
the set a client built; every query, `ZRANK`, `ZRANGE`, `ZCOUNT`,
`ZRANGEBYSCORE`, `ZRANGEBYLEX` from both ends, with offset and limit, must be
the one of the ordered set.

*RedisRdb* writes keys of every type and encoding to a sequence of bytes,
opcodes and texts, and reads it back byte by byte, under the same or other
limits: `Save` and `Load` are `rdbSave()` and `rdbLoad()`. The property also
loads every proper prefix of the file, which must fail.

### RedisProtocol

*RedisProtocol* is character by character, because that is what it is about: a
conversation arrives in reads of 1 to `IobufLen` bytes, and is parsed as far as
it goes by `processInlineBuffer()` and `processMultibulkBuffer()`, the case of an
argument so large that it takes over the buffer included. A command may block
the client. Lengths have one digit.

### RedisConfig

A file is a sequence of lines, a line the name of a directive and its arguments,
an argument a word or a number with what follows it ("1kb"). `OptionTable` has a
row for each of the 64 options that `rewriteConfig()` writes, in its order: how
the file's reader takes it (`atoi()`, `memtoll()`, octal, a word), how it is
written, its default, the least value the reader and CONFIG SET accept, and
whether CONFIG SET knows it. Five have operators of their own: `save`, `dir`,
`slaveof`, `bind`, `client-output-buffer-limit`; `rename-command` and `include`
are read and kept, never written.

| Model | Code |
|---|---|
| `LoadServerConfig`, `Directive`, `LoadValue` | `loadServerConfigFromString()`, and where it gives up (`Fatal`) |
| `ConfigSet`, `SetResults`, `SetValue` | `configSetCommand()`; the settings that the system may refuse stay as they were |
| `ConfigGet` | `configGetCommand()` |
| `ReadOldFile` | `rewriteConfigReadOldFile()` |
| `Asked`, `RewriteLines`, `Appended`, `Orphaned` | `rewriteConfigRewriteLine()` for each option, and `rewriteConfigRemoveOrphaned()` |
| `padded` | the file between the `write()` of `rewriteConfigOverwriteFile()`, with padding, and the `ftruncate()`, which may fail; the server may be restarted in between |

`ConfigIsExact`: after CONFIG REWRITE the file, loaded, gives the configuration of
that moment, keeps the comments and the directives it does not understand, and is
signed at most once; and CONFIG SET of what CONFIG GET shows changes nothing. What
the property has to except are the disagreements below. The table is a constant of
the module, given by `OptionTable`. Not modelled: an error of `getcwd()`, a short
write, watchdog-period, RESETSTAT, a server without a file, and what CONFIG SET
does in the rest of the server.

### RedisHyperloglog

A master and a replica, each with its strings and its `hll-sparse-max-bytes`, and
the link between them. A sparse string is its sequence of opcodes, which
`SparseAdd` looks up, splits and merges as `hllSparseAdd()` does (`Covering`,
`Split`, `MergeValues` with its five steps), or gives up for the dense encoding
when a value or the length is too large; a dense one is a function of bytes, with
registers across two of them (`DenseGet`, `DenseSet`, the byte shared with the null
terminator included). `card` is the estimate cached in the header. The commands
take the strings to others and tell whether the server is dirty, which is what
decides about propagation: PFCOUNT is propagated when it wrote the cache, and a
client of the replica may make it write there (`AskReplica`).

`HllIsExact`: in whatever encoding, a register is that of the elements the key was
given, opcodes and bytes are well formed, PFCOUNT replies the estimate of the union
although caches and merges are involved, and a replica that has executed everything
has the same registers.

Abstractions: an element is its hash, of six bits, three of which choose a
register; a register has three bits of a byte of four; the estimate is what the
formula of `hllCount()` is a function of, the sum of powers and the number of
zeros. Left out: the formula itself, MurmurHash, the unrolled loop of
`hllDenseSum()`, strings that SETRANGE and the like have corrupted, PFSELFTEST.

### SentinelElection, SentinelFailover, SentinelScripts

The election is about votes and epochs, with the failover one flag; the failover
takes the result of an election, an epoch nobody else has. `SentinelElection`
justifies that epoch as far as it is justified, see disagreements.

| SentinelElection | Code |
|---|---|
| `sentinel[s].epoch`, `leader`, `voted`, `failover`, `failoverEpoch` | `current_epoch`, and of the master `leader`, `leader_epoch`, `failover_state`, `failover_epoch` |
| `sentinel[s].peer[p]` | the instance of the other Sentinel: its run id, the leader it told and that epoch |
| `stored[s]` | what the last `sentinelFlushConfig()` wrote |
| `ask[s][p]` | the request or the reply on the link |
| `votes`, `elected` | history |

`Timer` is `sentinelHandleRedisInstance()` for the master, in its order. A
restart gives a new run id and what is in the file. `HearHello` is the part of
`sentinelProcessHelloMessage()` about epochs and restarted peers.

*SentinelFailover*: `view[w]` is the master as Sentinel `w` knows it (address,
configuration epoch, slaves with their `SRI_RECONF_*` flags, failover state,
promoted slave, the flags and the opinions of others), `redis` the instances
with whom they replicate, `orders` the SLAVEOF on a link, `hellos` every hello
ever published, which may be heard at any time, `saved` the files.
`FailoverTimer` is one call of the timer for the master and its slaves:
hello, flags, start, state machine, switch. INFO replies are `InfoMaster`,
`InfoPromoted`, `InfoMisplaced`, `InfoReconfigured`. `disputed` names the epochs
the exception of the properties is about.

*SentinelScripts*: the queue, the counter and the child processes, with forks
that fail, retries and the drop of the oldest job.

### LolPage

| Model | Code |
|---|---|
| `page` | the scopes: `$state`, `$rootScope.activestream`, `showstreamer`, `streams`, one of the filters, `favorites`, `user`; how many timers `stream()` has left |
| `calls` | a bag of the `$http` calls on their way, answered or not |
| `live`, `follows`, `signed` | the key `streams` in Redis, what Twitch says is followed, the cookie |

A call is three steps: asked by the page, answered by a route of `streams.rb` with
what it finds then (`Serve`), heard by the callback (`Hear`), in any order; or it
fails. The filters by champion, language and team are made and merged by the same
code, written three times: one stands for them. The copies differ in one place:
the champion filter gets the `championname` of a stream whose `champion` says that
it is in a game (`main.js:63-65`), while the other two test the field they take
(68, 73). The model takes the two for one field: whoever stores the streams in
Redis, which is not in the repository, is to set both or neither. A refresh is
three calls. The timers are `RefreshTimer`, and one `StreamerTimer` per visit of a
streamer, never cancelled.

## Runs

`Budget`, `Chances`, `Limits` and the like bound the events that would repeat for
ever (writes, faults, crashes, commands); what the code does in answer to them
is not bounded. A set of them is a set of scenarios: a run picks one in its
initial state.

| Run | Instance | Shows |
|---|---|---|
| ReplOneSlave | 1 slave, backlog of 2 or 3, 2 writes, a ping, a lost link, a crash, a resize, a failing fork | types, the two promises of RedisReplicationInv, `TrustedSlavesShowThePast` |
| ReplTwoSlaves | 2 slaves, disk child, 2 writes, a lost link, a user's BGSAVE | the ways to attach to a running disk child: `SlavesAreServed`; `ReplicatedLog` is implemented |
| ReplDiskless | 2 slaves, socket child, a write, a failing child, a failing fork, a lost link | the socket child, freed slaves, the missed end mark: `SlavesAreServed` |
| Live | 1 slave, a write, a ping, a lost link, a BGSAVE, a failing child; the page in five scenarios | `EventuallyReplicated`, `EventuallyShown`, `SelectionSurvives`, `FiltersAreThoseOfStreams` |
| MultiWatch | 2 clients, 2 databases with a key each, queues of 1, clients symmetric, eviction | types, the two indexes, `NoStaleFlag`, `ExecSeesWatched` |
| MultiStream | 1 client, queues of 2, every command but SAVE, flagged and unflagged errors, eviction, SLAVEOF, SLAVEOF NO ONE, full resynchronisations | `ReplicaAgrees`, `NoTornView`, `ExecSeesPresent`, `ErrorsAbort` |
| Sentinel | 3 Sentinels elect, two epochs and one fault; 2 fail over 3 instances; 5 scripts | `OneVotePerEpoch`, `ElectedByMajority`, `EpochsAreUnique`, `AddressFollowsEpoch`, `ScriptsAreCounted`, the failover's types |
| Server | persistence, clients, keyspace, scripting | `PersistenceIsExact`, `ClientsGetTheirReplies`, `ClientsAreTracked`, `CopiesHaveDataset`, `ScriptsAreWhole` |
| Data | lists, dict, ziplist, zset, rdb, protocol, config, backlog, HyperLogLog | one invariant of each, `FirstBlockedFirstServed` |
| ReplPsyncOffset, ReplForkFails, MultiSave | the smallest that shows it | disagreements, below |

**Replication.** Two writes to two databases are what a missing, doubled, swapped
or misplaced command needs to show, with the SELECT that goes with it; a backlog
of two is filled and turned by one write with its SELECT. One lost link gives a
second handshake, with the state of the first left behind, which is what a partial
resynchronisation is. Two slaves are one that has a child and one that comes late;
a third would be another late one. A crash changes the run id once, which is all a
slave compares; only ReplOneSlave has one, so that a master that comes back with
an older dataset is the business of `TrustedSlavesShowThePast` there, and not of
`SlavesAreServed` in the other two. With a socket child one write is enough: the
states of two slaves are what that run is about.

`NothingLost` delivers to each slave the master feeds (`Deliver`, by `Applied`)
what is on the wire, the RDB to come and the output buffer, in this order, and
requires the master's dataset: it is about every way of attaching at once.
`OffsetsAgree` adds up offsets the same way. `SlavesAreServed` is both, and that
nobody waits for dump.rdb without a child (`EndHasChild`); it says nothing once a
fork has failed for a disk child (`MayBeLeftInEnd`; on a diskless master such a
child is a user's BGSAVE), because of the second disagreement below: a slave left
in END and served by another slave's child executes a write twice.
`TrustedSlavesShowThePast` is the safety of partial resynchronisation, through
crashes, for slaves whose offset was exact; for the others it does not hold,
which is the first disagreement, and `ReplicatesLog` does not look at those until
their next RDB.

**Transactions.** `MaxQueue` bounds a transaction and no command is taken once
`server.dirty` has reached `MaxDirty`; the end of a BGSAVE takes it down again.
One key in each of two databases, with one value, shows a change as presence
against absence; what a key is called does not matter to the code, and two places
are what MOVE and a FLUSHDB of the wrong database need. Two clients are one that
watches and one that touches; for the stream one client does, as all else is
done by the server itself. A queue of two holds a first command and one that runs
inside the block. `MultiSave` needs a `MaxDirty` of two: a change before the
transaction is what it is about. `ExecSeesPresent` is what is left of
`ExecSeesWatched` on a server that becomes a slave; it looks at the keys of the
database that no MOVE of the run takes a key from.

**Sentinel.** A majority of three is two, the smallest where a vote can be missing
and where a crash can lose one. A quorum of 1 lets each Sentinel start a failover
on its own, so that there are rivals. The failover takes two Sentinels and three
instances: a promoted slave, one to be reconfigured, and the old master. Scripts:
a queue of three, two at a time, two retries.

**Server.** Three writes are one before, one during and one after a rewrite or a
save. One crash of the process or of the machine, at any time or in the middle of a
switch, one fault of each kind; the three policies of fsync. Two CONFIG SET turn
the AOF off and on again, so that it waits for its first rewrite, with a fault and
with a crash. Static buffers of one unit, nodes of two, limits of two
and four make every path of `_addReplyToBuffer()` and `_addReplyObjectToList()`
short. Three descriptors: one is closed and used again while a poll is being
processed. Keys of two databases, times one apart, a limit of two keys. A cache
of one script overflows at the second. Two BGSAVEs of the user, two slaves and a
failing fork strand a slave, have another join it and put both on line.

**Data.** Three clients and two keys for blocking; four keys whose hashes collide
in every table from one to four buckets and cursors of three bits, any three of
them while SCAN runs; ziplists of up to five entries with a long header from
eight; sorted sets of three elements on two levels; integers on both sides of each
width; requests cut into reads of one to four bytes; rings of one to three bytes
with chunks longer than the ring. Configuration files with repeated options,
options of several lines, units, an included file and lines that are wrong,
settings of every kind of option and two directories; one change, of an option or
of the file, is enough to make an option differ from its file and from its
default. HyperLogLogs of eight registers of three bits, so that registers straddle
bytes and every run length has its limit within eight; strings of six or seven
bytes are too long, so that a split reaches the dense encoding; one command on its
way to the replica.

Deadlock is checked in MultiWatch, MultiStream, Live, and in the three
disagreements that are found before one. It is not checked where the code can
stop: a slave that missed the end mark waits for ever when nothing breaks the
link, and so does one left in `WAIT_BGSAVE_END` by a failed fork (in reality
until `repl-timeout`, which is a `LinkLost` whose budget is used up). Nor is it in
Sentinel, Server and Data, whose behaviours end with their events: a client
without a request, a closed file.

Formulas the modules state and no run checks, because the code breaks them; put
one in the cfg of its run to see how: `SoftLimitIsContinuous` (RedisClients),
`ShutdownKeepsDataset` and `SaveChildExists` (RedisPersistence),
`ScanMissesNothing` (RedisDict), `ResizeKeepsEntries` (RedisZiplist),
`OneLeaderPerEpoch` (SentinelElection), `NobodyFollowsItself` and
`SavedMasterIsNoSlave` (SentinelFailover), `SlotsAreScripts` (SentinelScripts).
For the kinds of event "setpx" and "scriptexpire" of RedisKeyspace, for "persist"
together with "sync" or "rewrite", and for the operation "guarded" of
RedisScripting it is enough to give them a chance.

## Fairness

`FairSpec` of the replication assumes weak fairness of the handlers of a slave's
sockets, of the cron that starts a child, of the end of a child and of the
diskless child's writes: the event loop polls all sockets and runs its timers in
every turn (`aeProcessEvents()`), and a child ends, by itself or by a signal.
Nothing is assumed of clients, lost links, crashes or forks that fail. In Live
the failing events are bounded, as "once links stop breaking" has it.

`PageFairness`: the timers of the page fire again and again (`$interval` and
`$timeout` are the browser's), every answer is heard, and of the calls of one
kind that are asked again and again some are answered. No single call is assumed
to be answered, and no order of answers.

## Proofs

The first part of `RedisReplication_proofs` proves about the record of the backlog
what holds for every size of the ring: that `Feed`, `Create`, `Resize` and `Free`
keep the buffer the end of the stream (`RingMatchesStream`), and from that
`RingServesStream`: the two modulo operations of `addReplyReplicationBacklog()`
read the stream in order from any offset `Holds` accepts.

The rest of the module proves of `Spec`, for every set of slaves, set of
databases, kind of child, set of sizes and budget (`ConstantsAssumption`):

* `Typed`: `TypeOK`;
* `NoSlaveWithoutBacklog`: the assertion of `replicationFeedSlaves()`;
* `BacklogIsTheStream`: every partial resynchronisation is served the stream.

None of the three is inductive. `IInv` adds what they lean on: a connection
with a write handler is an online slave with something to send, a PSYNC is
awaited from nobody who is a slave, a diskless child writes only to slaves in
END, so that what `AddReply` and `Sent` do is typed (`ClientsConsistent`,
`ChildConsistent`); what the backlog holds are commands and not the offset a
creation burns (`BacklogInOrder`); and a slave that waits for the reply to PSYNC
finds it first, a slave that is not connected has an empty wire
(`RepliesFirst`), so that it never takes a run id from a command nor executes a
reply. There is one lemma per handler; handlers that share a shape share a lemma
(`FeedStep`, `ConnectionStep`, `ChildStep`, `SlaveSideStep`). `SlavesHaveBacklog`
is where the argument about the code is: a slave attaches either through
`SyncFull`, which creates the backlog for the *first* slave only, so that the
others rely on the invariant, or through `SyncPartial`, whose test requires a
backlog; and the cron frees it only when there are no slaves.

`RedisMulti_proofs` proves of its `Spec`, for any clients, databases, keys,
values, commands and lengths of transactions (`MultiAssumption`):

* `TypeInvariant`, `IndexesAlwaysAgree` and `NeverStaleFlag`, by one invariant,
  `IInv`, their conjunction: only `IndexesAgree` tells that the clients a
  command flags are watching something;
* `WatchIsCheckAndSet`: an EXEC that runs finds its watched keys unchanged. The
  invariant is `WatchedUnchanged`: the flag is there *at once* when a watched
  key differs from what it was. The lemma that carries it is `TouchesChanged`:
  a command flags the watchers of every key it changes. It is assumed that
  nobody sends MOVE and no full resynchronisation happens; with them it is
  false, see below;
* `ReaderAgrees` and `NeverTornView`: the AOF and the slaves are told the
  transaction as a whole. The invariant is `ReaderFollows`: before the MULTI
  of a block is propagated the reader is in sync, after it the block holds what
  the master has done, and the counter is not below what the outer `call()`
  read, so that the final `server.dirty++` makes the difference positive.
  `CleanUnchanged` is the lemma behind propagation itself: a command that did
  not change the counter changed nothing. It is assumed that nobody sends SAVE,
  which makes it false (`MultiSave`).

* `WatchHoldsWhatWasThere` (`ExecSeesPresent`): on a server that becomes a slave
  and is synchronised again, a watched key that had a value and that no MOVE can
  take has it still, or is expired or evicted, or the flag is set. Its invariant weakens
  `WatchedUnchanged` to the keys that were there, which a full resynchronisation
  preserves by flagging who watches a key it removes;
* `NoExecAfterError` (`ErrorsAbort`), whatever the role of the server: the call of
  `flagTransaction()` since MULTI leaves the transaction flagged. It is about those
  errors only; three others flag nothing, see below.

`RedisReplicationStream_proofs` proves what the stream promises, for any
`ConstantsAssumption` again:

* `EverySlaveIsServed`: `SlavesAreServed`, whatever the slaves, their order and
  the ways they attach;
* `SlavesShowPastOnly`: `TrustedSlavesShowThePast`, unless a slave may be left in
  END (`MayBeLeftInEnd`). The condition is needed: with two BGSAVEs and a failed
  fork TLC finds the slave left in END that another slave's child serves, and
  that executes a write twice. The runs check the formula without it because
  their budgets have one BGSAVE at most;
* `ReplicationImplementsLog`: `Spec => ReplicatesLog`, when no fork fails and the
  master does not restart (a restarted master has another dataset, and the log
  of `ReplicatedLog` never shrinks).

The invariant is `StreamInv`. It sees a slave as where it starts from (`Start`:
its dataset, or the RDB that will replace it, whichever of the wire, the open
file and the child has it) and the rest of the stream it will read (`Rest`: the
commands on the wire and in the output buffer). Then most handlers change
nothing but where a message is: they keep `Deliver(Start, Rest)`, which `InLine`
says is a past dataset, and the present one for a slave that is fed. `Stage` is
the automaton of a connection, needed so that a handler that reads a message
knows what kind it finds; `Files`, `Runs` and `Children` say whose file, run id
and child it is. Two parts are there for the hard cases. `Waits`: a slave that
waits for a child is sent the SELECTs of the stream and not the writes, so that
its buffer is no stream, but the last one leaves it in the database the next
write relies on. `Positioned`, for an exact offset: what the slave is to read is
literally the stream from that offset, and *as long as the backlog still reaches
back that far* the backlog leads to the present dataset; this is what a partial
resynchronisation uses when the slave returns after its buffer is gone, and it
must be an invariant of slaves that nobody feeds. `Deliver` is a recursive
function; that it distributes over concatenation (`DeliverConcat`) would be an
induction, and is proved through the least length at which it fails (`Least`,
from the library's theorems on well-founded orders). `MayBeLeftInEnd` is
permanent, so `StreamInv` need say nothing after it. The refinement needs no
more: a step of a trusted slave either keeps the dataset, appends the next write
(the first of `Rest`, by `InLine`), or replaces it by an RDB.

`Sentinel_proofs` has three parts. Of the election, for any finite set of
Sentinels, quorum and bounds: `VotesOncePerEpoch` (`OneVotePerEpoch`),
`MajorityElects` (`ElectedByMajority`), `ElectionTyped`, and `LeaderIsUnique`: two
Sentinels elected in an epoch that was current at both elections have one run id,
because two majorities meet. The invariant, `ElectionInv`, adds that epochs are
ordered (a vote and a failover are not in the future of their Sentinel, and what
the file has is not ahead of it), that a vote is saved before it is told, and
`Truthful`: what a Sentinel remembers as another's vote was cast, even when the
other has restarted since and its reply was late. The theorem counts over sets
(`VotersFinite`, by `FiniteSetTheorems`).

Of the failover, for any Sentinels, instances, priorities and bounds:
`EpochsStayUnique` (`EpochsAreUnique`: an epoch has one configuration in all
memories, files and hellos, and promotes one slave), `FailoverTyped`, and the
action property `AddressesFollowEpochs` (`AddressFollowsEpoch`). `FailoverInv`
adds that no configuration has an epoch nobody has started (`EpochsAreTaken`),
that the epoch of a failover under way is its Sentinel's alone (`OwnEpoch`) and
that the file agrees with what the Sentinel announces (`FileAgrees`), which is
what a restart needs.

Of the scripts, for any limits: `ScriptsCounted` (`ScriptsAreCounted`).
`ScriptsInv` relates jobs, processes and the counter; the work is in the timer,
which starts as many jobs as there are slots: `NthFacts` numbers the elements of
a set of positions, so that the jobs started and the processes forked are the
same number.

`LolPage_proofs`, for any streams, values, names and bounds: `FiltersFollowStreams`
(`FiltersAreThoseOfStreams`) and the action property `SelectionStays`
(`SelectionSurvives`). `PageInv` adds what the callbacks rely on without a test:
the answer of the first query is expected once at most, and while it is there are
no filters (`FirstIsFirst`), so that it never replaces filters that the visitor has
set; and filters, if any, are a choice among the values of the streams listed
(`Filter`).

`BlockingLists_proofs`, for any keys, clients, number of pushes and chances:

* `WaitersAlwaysAgree`: `WaitersAgree` and `ReplicaHasLists`;
* `BlockingAlwaysExact`: with them `NobodyWaitsForAList`, which is
  `BlockingIsExact`, when the scenario has no SORT or nothing that makes a string
  (`NoSortsOverStrings`: SORT with STORE over a string breaks it, see below; the
  scenarios of the run Data satisfy the assumption);
* `FirstAlwaysServedFirst`: `FirstBlockedFirstServed`.

The invariant is `ListsInv`. What a command does to the dataset of the master and
to the one of the replica is described by one relation, `Does`: the same values on
both sides, the queues untouched, a key signalled when it becomes a list that is
waited for (`Loud`), and the ready keys still those that are signalled (`Keeps`).
It is transitive, and each command is a chain of `WithValue`, `DbAdd`,
`Signalled` for which it is proved once; so a transaction is two commands. While a
list is served it may be empty, and the replica has forgotten it already
(`Mirrored`, `FullBut`). `MovedValues` is the argument about BRPOPLPUSH: the
master pushes to the target before it deletes the list it popped from, the
replica after. An element that the target refuses is put back at the end it was
taken from, and nothing is propagated (`EndFacts`); that a client with a target
always pops from the tail is `TargetsFromTail`. `ServesList` says that the count
`clientsToServe` that is taken before the loop is the length of the queue at every
round, so that nobody is left over; `EldersFirst`, that the queues are in the
order of blocking, which `unblockClientWaitingData()` keeps (`Removed`).

`Server_proofs` proves `PersistenceStaysExact` (`PersistenceIsExact`, that is
`AofIsDataset`, `AckedIsSynced` and `DirtyCountsUnsaved`), for any databases,
policies, length of the dataset and numbers of events, under `NoStaleBuffers`: a
scenario that has an error and turns the AOF off and on again has neither a crash
nor a SHUTDOWN. Without it a file that cannot be loaded may be left behind (the
stale buffer of `startAppendOnly()`, below); the scenarios of the run Server
satisfy it. The invariant, `PersistenceInv`, is one for a server that runs and one
for what it left:

* with the AOF on, the file followed by the buffer can be loaded and gives the
  dataset, ends in the selected database, and `aof_current_size` is the length of
  the file (`OnInv`): this is what a retry after an `ftruncate()` needs;
* with the AOF off, or waiting for its first rewrite, the file can be loaded and
  the buffer is empty, or will never have a descriptor (`OffInv`);
* while a rewrite runs, what its child was forked with followed by the
  differences is the dataset too (`RewriteInv`), which is what makes the new file
  as good as the old one, whenever it is installed;
* under "always" the file is synced and has what was answered (`AckInv`), and so
  does the file left by a server that is down, unless it stopped in the middle of
  a switch (`AckDown`); `StoppedGood` is that this file can be loaded all the same;
* `dirty` minus `before` counts what the child that saves does not have, and the
  child that is waited for is the only running one of its kind (`SaveInv`).

Most of the work is about `Loaded`, a recursive function: that it distributes
over concatenation (`LoadsConcat`), that a file stays as good when the dataset
grows (`LoadsLonger`), that the two halves of a short write are the command
(`ShortWriteFacts`) and that a cut command can only be the last one
(`HalfIsLast`, used by `UntornFacts` for the load after a crash). Each would be an
induction, and is proved through the first item at which it fails (`Least`,
`Induct`).

Of the scripts `Server_proofs` proves, for any scripts and programs, slaves, size
of the cache and bounds: `HashesReachWhoKnows` (nobody is sent the hash of a
script it does not know, but for the slaves a failed fork has stranded) and
`ScriptsStayWhole` (`ScriptsAreWhole`). The invariant, `ScriptingInv`, says that
every script of the cache is known to *all* that are fed and not stranded: slaves
on line, slaves whose RDB is being written, lost slaves that the backlog may still
serve, the append only file and the one that is being written (`KnownToAll`). That
a slave which has to wait for its RDB knows nothing is why the cache is emptied
when that RDB is begun and not when the slave attaches, and why a flush that does
not happen, with a fork that fails, leaves slaves that the invariant must except.
A slave that joins another has what that one was sent, and is stranded exactly
when that one is (`Excepted`). `CacheAdded` is about the bounded queue: what it
drops is only sent by its text once more. `KillInv`, that a script to be killed
has not written and does not go on, is assumed to find no operation that catches
the error (`NothingGuarded`); with one it is false, see below.

`RedisClients_proofs`, for any descriptors, sizes of buffers and limits (0 is
none) and numbers of events (`ClientsAssumption`): `ClientsAreAnswered`
(`ClientsGetTheirReplies`) and `ClientsStayTracked` (`ClientsAreTracked`). One
invariant, `ClientsInvariant`, carries both, because one call writes to both: a
reply that meets a limit adds to the buffers, schedules the client to be closed
and changes its flags.

* `OutputOk`: what was sent of the first buffer lies within it (`SentOk`), and
  what the client received, followed by what the buffers still hold, is the
  stream of its replies (`StreamOk`). `IsStream` says this by positions, so that
  an append or a write moves a boundary and no unit. A client with output has a
  write handler, and one that is gone has left nothing behind.
* `LimitOk`: a client whose output reaches the hard limit is being closed.
* `RegOk`, `ListedIn`: a client is in the lists of its flags (subscribers of a
  channel or of a pattern, monitors, to be closed) once, and nobody else is.
* `FiredOk`, of the poll: an event names a descriptor and no client, so that the
  client may have been freed, and another one accepted there, since the poll.

Between the placeholder of a deferred length and the check of the limit that
follows, the invariant does not hold of the client that is replied to;
`OthersLimited` and `Replied` say what does. The loops of the model are recursive
functions over the natural numbers. What they keep is proved by the first turn at
which it would fail (`Least`, `Induct`, `Iterate`).

Of the keys `Server_proofs` proves `CopiesAreComplete` (`CopiesHaveDataset`), for
any finite set of places in any databases, any values, times to live, limit and
policy of eviction, datasets to start with and numbers of events
(`KeyspaceAssumption`), under `NoTimeMoves`: no scenario has "setpx" or
"scriptexpire", and none has "persist" together with "sync" or "rewrite". These
are the three ways the code makes the copies differ for good (below), and the
scenarios of the run Server leave them out for that reason. The theorem is about a
slave that executed everything and about a file loaded at the end; the invariant,
`KeyspaceInv`, is about every moment before, when commands are still under way and
each copy has its own idea of what has expired:

* `Leads` says, without a clock, what a copy will hold after it executed what it
  was told. This is possible because neither a slave nor who loads a file deletes
  what expired (`expireIfNeeded()` returns before it does): the moment at which a
  command is executed matters for the time a key is to expire at, and for nothing
  else (`ReaderExecutes`, `LeadsConcat`).
* `CopyOf` relates that to the master's keys now. It is one statement for both
  copies. The file is compared exactly, the very times included, because EXPIRE and
  SETEX are rewritten to PEXPIREAT when they are fed. The slave is compared up to
  whether a key is to expire (`Seen`), because it is sent the time from now on.
* Where a child may have written an RDB or a new file (`Loose`), a key that has
  expired may be missing from the copy and still be there on the master: it stays
  out until something gives the master's place another value, and every command
  that reads or writes the place deletes the key first and propagates the DEL.
  PERSIST does not, which is why the two cannot be combined.

One step of the master is a chain of `ExpireIfNeeded`, of what the command does
and of `Feed`; `Copied`, which is `CopyOf` within a step, is shown of each link,
so that a script or an eviction followed by a command needs nothing of its own.
`LoadedFrom` and `RewrittenAof` are recursive functions over the file, treated
like `Loaded` above.

Not proved. Liveness (`EventuallyReplicated`, `EventuallyShown`) is out of this
prover's reach. Of the modules of the run Data, BlockingLists is proved about. The others
(`ReplBacklogBytes`, `RedisZiplist`, `RedisZset`, `RedisRdb`, `RedisProtocol`,
`RedisConfig`, `RedisDict`, `RedisHyperloglog`) compute over data: what they claim
is the result of recursive definitions for every input, an induction this prover
cannot do.

## Where the code and its comments disagree

Three runs show one each:

1. `ReplPsyncOffset`. The offset of `+FULLRESYNC` is the one of the moment
   (`replication.c:426`), the RDB is taken later for a slave that waits, and was
   taken earlier for one that joins another's child with a copy of its buffer.
   The slave counts from a wrong offset, and its next PSYNC repeats or skips
   writes, against the comment of `syncCommand()` (493-494).
2. `ReplForkFails`. `updateSlavesWaitingBgsave()` moves waiting slaves to
   `WAIT_BGSAVE_END` before it forks, and on failure frees those in
   `WAIT_BGSAVE_START`: none. Left in END, such a slave is served by any later disk
   child, whose RDB has the writes its buffer has too: it executes them twice.
3. `MultiSave`. SAVE in a transaction resets `server.dirty`; the EXEC after it is
   not propagated although MULTI was (`multi.c:170-172`), and the reader stays
   in the block.

Others were met while modelling. Those with the name of a formula or an action in
brackets are in the model; the rest were read in the code.

*Replication and roles*
* The child that `updateSlavesWaitingBgsave()` starts, when it is diskless, is
  given no sockets, for the same reason as 2, and its end frees the slaves
  (`NextChild`, against 730-734).
* A write before the first ACK of a diskless slave is sent at once, because the
  slave is already online for `prepareClientToWrite()` (`FedClient`, against
  764-766).
* The end mark of a streamed RDB is looked for at the end of a read only
  (`replication.c:953`): with commands behind it in the same read the slave waits
  until the link breaks (`MissEofMark`).
* `resizeReplicationBacklog()` flushes; its comment (88-93) says that the data
  is kept (`Resize`).

*Transactions*
* `moveCommand()` signals no modified key, nor does PERSIST (against
  `db.c:231-232`): WATCH does not notice that a key moved. `ExecSeesWatched` is
  checked and proved without MOVE.
* A full resynchronisation flags the watchers of the keys it removes, not of
  those it creates: `ExecSeesPresent` is what is left of `ExecSeesWatched`.
* Not "every time there is an error while queueing a command" the transaction is
  flagged, as `multi.c:79-80` asks. The error of a write on a read-only slave
  (`RefuseReadOnly`, `redis.c:2107-2115`) flags nothing: EXEC runs the others without
  it. A MULTI inside MULTI (`multi.c:87-90`) and a WATCH inside MULTI (310-313) are
  answered with an error and the transaction goes on, as `tests/unit/multi.tcl:26-32`
  and 41-47 have it. The refusals while a dataset is loaded and in a subscribed
  client flag nothing either; they are not modelled. `ErrorsAbort` is about the calls
  of `flagTransaction()`.
* `freeMemoryIfNeeded()` deletes a watched key and signals nobody
  (`redis.c:3026-3036`; `Evict`): EXEC runs, as it does after an expiry.
  `ExecSeesWatched` and `ExecSeesPresent` count neither as a change.
* A write queued before SLAVEOF is executed on the read-only slave: the role is
  checked when a command is received only (`redis.c:2107`).

*Persistence*
* The switch to a rewritten file renames it before it is fsynced (`aof.c:1248`,
  1267): the differences of the rewrite are in the page cache only, and what they
  replace, the old file, had them on the disk. A machine that stops between the
  two, under `always`, has lost acknowledged writes, against `aof.c:331-333`, "we
  have the contract with the user that on acknowledged write data is synced on
  disk" (`StoppedSwitching`): `AckedIsSynced` excepts the life "switching", and is
  violated without the exception.
* `prepareForShutdown()` fsyncs the AOF without flushing `aof_buf`
  (`redis.c:2206-2220`): with a postponed flush the last writes are lost
  (`ShutdownKeepsDataset`).
* The `wait3()` of `stopAppendOnly()` may reap the RDB child, which is then
  waited for for ever (`SaveChildExists`).
* An error in the flush of `stopAppendOnly()` (`aof.c:167`) leaves `aof_buf` as it
  is. A BGREWRITEAOF while the AOF is off then replaces the file, and with CONFIG
  SET appendonly yes the old buffer is written behind the new file at once:
  `flushAppendOnlyFile()` does not look at `aof_state`, against the comment of
  `startAppendOnly()` (205-206), "now wait for the rewrite to be complete in order
  to append data on disk". A crash before the rewrite ends leaves a file with
  repeated writes, or one that cannot be loaded. `PersistenceStaysExact` has
  `NoStaleBuffers` for this reason.
* `startAppendOnly()` that fails after its `open()` leaves `aof_fd` a closed
  number; `aof_last_write_status` stays an error when a rewrite empties the
  buffer, and writes stay refused; under `everysec` the last write may wait for
  the next one to be fsynced.

*Keys*
* SET with EX or PX ("setpx"), EXPIRE inside a script, which is propagated as
  EVAL ("scriptexpire"), and RESTORE are written to the AOF with a relative time:
  a later load postpones the expiry, against `aof.c:418-423`, "the time is always
  absolute and not relative".
* PERSIST does not call `expireIfNeeded()` (`db.c:946-960`): a key that has expired
  and is still there is revived by it, although a slave synchronised or a file
  rewritten since does not have it, and never gets it ("persist" with "sync" or
  "rewrite"). `propagateExpire()` says that "everything will be consistent even if
  we allow write operations against expiring keys" (`db.c:787-790`).
* MOVE loses the time to live. RANDOMKEY on a slave whose keys are all expired
  does not end (`db.c:136-156`).
* Slaves with a `maxmemory` evict on their own, and a script on a master in the
  middle of its writes: the copies differ.

*Scripts*
* What disagreement 2 does to scripts: a slave that a failed fork leaves in
  `WAIT_BGSAVE_END` (`replication.c:749-751`, 797-808) is fed from then on, but
  `startBgsaveForReplication()` has flushed the script cache only if the BGSAVE
  started (458), so that the slave is sent the hashes of scripts that were cached
  before, against the comment there, "without requiring slaves to match our cached
  scripts" (`stranded`). `HashesAreKnown` is violated without its exception.
* `pcall()` catches the error by which SCRIPT KILL stops a script, which may then
  write ("guarded").
* A script that only reads and is killed has been propagated by its hash as EVAL
  and runs, unkillable, on the slaves (`scripting.c:980`, 1040-1051).

*Lists*
* A list is signalled only by `dbAdd()` (`db.c:96`): SORT with STORE over a key
  that holds a string does not wake the clients that block on it (`setKey()`
  overwrites, 117-126), against `t_list.c:766-769`. `NobodyWaitsForAList` is
  checked and proved where no scenario has both a SET and a SORT; with one SET,
  one SORT and one blocked client TLC finds it violated.
* SLAVEOF leaves blocked clients, who are then never served.
* A client that is unblocked, blocks again in the same turn of the event loop and
  is then freed is twice in `unblocked_clients`, of which `freeClient()` removes
  one (`networking.c:704-710`).

*Clients and protocol*
* `obuf_soft_limit_reached_time` is reset only where the limit is looked at
  (`networking.c:1574`): a client that was below in between is closed
  (`SoftLimitIsContinuous`).
* CONFIG SET maxclients in a read handler reallocates the events while
  `aeProcessEvents()` holds a pointer into them.
* A request that is a bare line feed takes the first byte of the next with it
  (`networking.c:897-904`); a blocked client whose buffer grew beyond
  `REDIS_INLINE_MAX_SIZE` with a cut header gets "too big bulk count string"
  (985-993).

*Data structures*
* SCAN may miss an element when the table shrinks to a quarter or less between
  two calls (`ScanMissesNothing`, against `dict.c:674-675`).
* An insertion before an entry with a long field for the length of the one before
  may make the list *shorter*, and it is resized before its tail is moved
  (`ResizeKeepsEntries`, `ziplist.c:617-632`).

*Configuration*
* A comment longer than 1024 bytes is cut by `fgets()` and the rest taken for an
  option: the rewritten file does not load (`config.c:1251`, against 1636-1647).
* `repl-backlog-ttl` is written with a unit (`config.c:1745`: "1kb") and read by
  `atoi()` (287-288), which gives 1 (`Reloaded`).
* `requirepass ""` in the file is an empty password, CONFIG SET of what CONFIG GET
  shows of it takes the password away (`GetThenSetIsNothing`).
* CONFIG REWRITE does not see what `include` brought: save points of the included
  file are appended to the main one and doubled by a restart, and an option that was
  reset to its default has its line blanked and is what the included file says
  (`Rewritable`).
* When `getcwd()` fails, `rewriteConfigDirOption()` writes no line and the old one
  is taken for left over; a short `write()` counts as success; watchdog-period is
  not rewritten.

*HyperLogLog*
* PFCOUNT is no write command, but writes the estimate into the string. A client of
  a read-only replica may make it do so, and a master propagates it (`AskReplica`).

*Sentinel*
* Two Sentinels may lead in one epoch (`OneLeaderPerEpoch`, against
  `sentinel.c:3223`): the votes are counted in the current epoch, which may have
  moved on since the failover took its own. `LeaderIsUnique` is proved for the
  elections whose epoch is still the current one.
* `sentinelFailoverDetectEnd()` sends SLAVEOF to all slaves that are not
  reconfigured, the promoted one included (`NobodyFollowsItself`, 3648-3668);
  `rewriteConfigSentinelOption()` computes the address of the old master for the
  list of slaves and writes the slave's own (`SavedMasterIsNoSlave`, 1548-1558).
* A Sentinel may hear of a newer epoch while it fails over, and then sets the
  epoch of its own, older failover: its epoch goes back (`OwnFailover` in
  `AddressFollowsEpoch`), against 1943, "assuming there is not a newer one already
  available".
* `running_scripts` counts the scripts that wait for a retry too: a slot is
  released when a job is over only (`SlotsAreScripts`, against 202); a script whose
  fork fails at its last retry is retried for ever (765-767).
* A newer configuration with the address the master had before the switch is
  taken for no change (2158-2180, 1298-1311); RESET keeps the new epoch with the
  old address; a slave in RECONF_SENT never times out once as many as
  `parallel-syncs` are in progress (3684-3703).

*Page*
* If the first query fails, `refresh_streams()` throws at each refresh
  (`main.js:64`) and there are no filters; a refresh takes the favourites from the
  filter while the box stays checked (148-152, 332-343); every visit of a streamer
  leaves a timer of 30 seconds that nobody cancels (32-36).

*MIGRATE* (not modelled): a timeout of the connection leaves the socket open; when
SELECT fails and RESTORE does not, the key is in database 0 of the other server.

## Not modelled

Within transactions: MONITOR, the replies, the writes a slave gets from its
master, and the commands on values other than SET. Within replication: SLAVEOF
and chained slaves, the SYNC of old slaves, authentication, min-slaves-to-write.
Within Sentinel: the links and their reconnection, TILT, discovery. Strings,
hashes, intsets, bits, SORT, slow log and latency monitor: commands
on one value, one after the other, where a unit test reaches everything. The
conversions of `util.c`, checksums, LZF: pure functions. MIGRATE: one blocking
command that talks to another server, whose failures are listed above. Command
line tools. Jemalloc, Lua, hiredis, Angular: third-party code. In `streams.rb`:
the edit form, OAuth, the feeders of the streams.

Hazards that are real and only told here: `NextChild` (`replication.c:751`) and the
missed end mark (953), above; the threads of `bio.c` under their lock
(`bio.c:140`); two saves of the edit form at once (`src/streams.rb:112`); the role
checked when a command is queued (`redis.c:2107`). One of the listed hazards has
no property yet: run id and offset across SLAVEOF (`replication.c:1439`).

## Plan

1. RedisRoles: SLAVEOF, chained slaves, run id and offset across roles, with the
   refinement of `ReplicatedLog` per term.
2. `bio.c` with its threads; the discovery and the links of Sentinel; MIGRATE with
   the two servers; the edit form.
3. intset, the conversions of `util.c`.
