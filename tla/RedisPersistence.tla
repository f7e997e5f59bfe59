-------------------------- MODULE RedisPersistence --------------------------
(* What reaches the disk (aof.c, rdb.c, bio.c, and serverCron() and         *)
(* prepareForShutdown() of redis.c): the append only file with its two      *)
(* buffers, its rewrite and its fsync policies, the RDB child, and what a   *)
(* restart finds.                                                           *)
(*                                                                          *)
(* The dataset is the sequence of the writes that made it, each of them the *)
(* database it is for.  The state is one record, so that a handler of the   *)
(* program is the composition of the functions it calls: a function takes a *)
(* state to the set of the states it may end in.  A delay or a threshold    *)
(* may be over or not whenever it is looked at.                             *)
EXTENDS Integers, Sequences, FiniteSets

CONSTANTS
  Databases, NoDatabase,  \* server.db, and the -1 of aof_selected_db
  Policies,               \* the values of appendfsync to check
  NoFsyncOnRewrite,       \* no-appendfsync-on-rewrite
  MaxData,                \* bound: the length of the dataset
  Chances                 \* bounds: how often each kind of event may happen

Chance == {"fork", "bgsave", "fault", "toggle", "expire", "crash", "shutdown"}

ASSUME PersistenceAssumption ==
  /\ NoDatabase \notin Databases
  /\ Policies \subseteq {"always", "everysec", "no"}
  /\ NoFsyncOnRewrite \in BOOLEAN /\ MaxData \in Nat
  /\ Chances \subseteq [Chance -> Nat]

VARIABLES server, policy
persistenceVars == <<server, policy>>

Then(states, F(_)) ==
  UNION {IF s.life = "up" THEN F(s) ELSE {s} : s \in states}

(* Spending a chance, or not having it.                                     *)
Spent(s, kind) == [s EXCEPT !.left[kind] = @ - 1]
Can(s, kind) == s.left[kind] > 0

----------------------------------------------------------------------------
(* The append only file: what a command looks like in it, and what loading  *)
(* it gives.                                                                *)

(* A command, with or without a SELECT, may be cut in two by a short write; *)
(* a rewritten file starts with commands that rebuild the whole dataset.    *)
Item(kind, n, select) == [kind |-> kind, n |-> n, select |-> select]
Snapshot(n) == Item("snapshot", n, FALSE)
FirstHalf(item) == Item("half", item.n, item.select)
OtherHalf(item) == Item("rest", item.n, item.select)
Hole == Item("hole", 0, FALSE)  \* zeros, which are no command

(* loadAppendOnlyFile(): "n" writes are executed, "half" of the next one is *)
(* read, and the file is "bad" if a command is not the next write of the    *)
(* dataset, runs in another database, or is cut by something else.          *)
Loading == [n |-> 0, db |-> NoDatabase, half |-> FALSE, bad |-> FALSE]
LoadItem(r, item, data) ==
  LET db   == IF item.select THEN data[item.n] ELSE r.db
      next == item.n = r.n + 1 /\ item.n <= Len(data) /\ db = data[item.n]
      done == [n |-> item.n, db |-> db, half |-> FALSE, bad |-> r.bad]
  IN  CASE item.kind = "snapshot" ->
             [Loading EXCEPT !.n = item.n, !.bad = r.bad \/ r # Loading]
        [] item.kind = "write" -> IF next /\ ~r.half THEN done ELSE [r EXCEPT !.bad = TRUE]
        [] item.kind = "half"  -> IF next /\ ~r.half THEN [r EXCEPT !.half = TRUE]
                                                     ELSE [r EXCEPT !.bad = TRUE]
        [] item.kind = "rest"  -> IF next /\ r.half THEN done ELSE [r EXCEPT !.bad = TRUE]
        [] item.kind = "hole"  -> [r EXCEPT !.bad = TRUE]
Loads(r, file, data) ==
  LET at[k \in 0 .. Len(file)] == IF k = 0 THEN r ELSE LoadItem(at[k - 1], file[k], data)
  IN  at[Len(file)]
Loaded(file, data) == Loads(Loading, file, data)

(* A command cut at the end is dropped (aof-load-truncated).                *)
Untorn(file, data) ==
  IF Loaded(file, data).half THEN SubSeq(file, 1, Len(file) - 1) ELSE file

(* initServer() and loadDataFromDisk(), appendonly being on in redis.conf.  *)
Started(file, dump, data, left) ==
  [life |-> "up", data |-> data, acked |-> Len(data),
   dirty |-> Len(data), before |-> 0, saved |-> TRUE,
   state |-> "on", fd |-> "open", buf |-> <<>>, size |-> Len(file), db |-> NoDatabase,
   written |-> TRUE, postponed |-> FALSE, scheduled |-> FALSE,
   rewrite |-> 0, diff |-> <<>>, save |-> 0, children |-> <<>>, fsyncs |-> <<>>,
   file |-> file, synced |-> Len(file), dump |-> dump, left |-> left]

PersistenceInit ==
  /\ policy \in Policies
  /\ server \in {Started(<<>>, 0, <<>>, left) : left \in Chances}

----------------------------------------------------------------------------
(* Writing                                                                  *)

(* feedAppendOnlyFile()                                                     *)
Fed(s, db) ==
  LET item == Item("write", Len(s.data), s.db # db)
  IN  IF s.state = "off" THEN s
      ELSE [s EXCEPT !.db = db,
                     !.buf = IF s.state = "on" THEN Append(@, item) ELSE @,
                     !.diff = IF s.rewrite # 0 THEN Append(@, item) ELSE @]
Executed(s, db) == Fed([s EXCEPT !.data = Append(@, db), !.dirty = @ + 1], db)

Died(s) == [s EXCEPT !.life = "crashed"]

(* flushAppendOnlyFile(): the fsync of a successful write.                  *)
Fsynced(s, busy) ==
  IF NoFsyncOnRewrite /\ (s.rewrite # 0 \/ s.save # 0) THEN {s}
  ELSE CASE policy = "always"   -> {[s EXCEPT !.synced = Len(s.file)]}
         [] policy = "everysec" ->
              {s, [s EXCEPT !.fsyncs = IF busy THEN @ ELSE Append(@, "todo")]}
         [] policy = "no"       -> {s}

(* A failed write: the rest is kept for the next call, or the server exits. *)
Failed(s, rest) ==
  IF policy = "always" THEN Died(s) ELSE [s EXCEPT !.written = FALSE, !.buf = rest]

(* A short write leaves some items and perhaps half of another one, which   *)
(* ftruncate() takes away, or not; it fills up a file that has become       *)
(* shorter than aof_current_size, which a rewrite sets only with a          *)
(* descriptor that is not -1.                                               *)
ShortWrites(buf) ==
  {[part |-> SubSeq(buf, 1, k), rest |-> SubSeq(buf, k + 1, Len(buf))] : k \in 1 .. Len(buf) - 1}
  \cup {[part |-> Append(SubSeq(buf, 1, k), FirstHalf(buf[k + 1])),
         rest |-> <<OtherHalf(buf[k + 1])>> \o SubSeq(buf, k + 2, Len(buf))] :
        k \in {i \in 0 .. Len(buf) - 1 : buf[i + 1].kind = "write"}}
Truncated(file, size) ==
  IF size <= Len(file) THEN SubSeq(file, 1, size) ELSE Append(file, Hole)
Unwound(s, w) == Failed([s EXCEPT !.file = Truncated(@ \o w.part, s.size)], s.buf)
Kept(s, w) == Failed([s EXCEPT !.file = @ \o w.part, !.size = @ + Len(w.part)], w.rest)
WriteFails(s) ==
  {Failed(s, s.buf)} \cup (IF s.fd # "open" THEN {}
                           ELSE UNION {{Unwound(s, w), Kept(s, w)} : w \in ShortWrites(s.buf)})
WriteSucceeds(s, busy) ==
  IF s.fd # "open" THEN {}
  ELSE Fsynced([s EXCEPT !.file = @ \o s.buf, !.size = @ + Len(s.buf),
                         !.buf = <<>>, !.written = TRUE], busy)

(* With the fsync of the last second still running the write may wait, for  *)
(* two seconds.                                                             *)
Write(s, busy) ==
  LET t == [s EXCEPT !.postponed = FALSE]
  IN  WriteSucceeds(t, busy)
        \cup (IF s.fd # "open" THEN WriteFails(t)
              ELSE IF Can(s, "fault") THEN WriteFails(Spent(t, "fault")) ELSE {})
Flush(s, force) ==
  LET busy  == s.fsyncs # <<>>
      waits == policy = "everysec" /\ ~force /\ busy
  IN  IF s.buf = <<>> THEN {s}
      ELSE (IF waits THEN {[s EXCEPT !.postponed = TRUE]} ELSE {})
             \cup (IF ~waits \/ s.postponed THEN Write(s, busy) ELSE {})

----------------------------------------------------------------------------
(* Children                                                                 *)

Pids(s) == DOMAIN s.children \cup {s.save, s.rewrite}
FreePid(s) == CHOOSE pid \in 1 .. Cardinality(DOMAIN s.children) + 3 : pid \notin Pids(s)
Child(kind, n) == [kind |-> kind, life |-> "running", n |-> n]
WithChild(s, pid, kind) ==
  [s EXCEPT !.children = [p \in DOMAIN @ \cup {pid} |->
                            IF p = pid THEN Child(kind, Len(s.data)) ELSE @[p]]]
Reaped(s, pid) ==
  [s EXCEPT !.children = [p \in DOMAIN @ \ {pid} |-> @[p]]]
KillChild(s, pid) ==
  IF pid \in DOMAIN s.children /\ s.children[pid].life = "running"
  THEN [s EXCEPT !.children[pid].life = "killed"] ELSE s

(* rewriteAppendOnlyFileBackground(): none when a rewrite is running or the *)
(* fork fails.                                                              *)
Unselected(s) == [s EXCEPT !.db = NoDatabase]
Rewriting(s) ==
  IF s.rewrite # 0 \/ ~Can(s, "fork") THEN {}
  ELSE {Unselected([WithChild(Spent(s, "fork"), FreePid(s), "rewrite") EXCEPT
          !.rewrite = FreePid(s), !.scheduled = FALSE])}
ForkFails(s) == IF Can(s, "fault") THEN {Spent(s, "fault")} ELSE {}
RewriteBackground(s) ==
  IF s.rewrite # 0 THEN {s} ELSE Rewriting(s) \cup ForkFails(s)

(* rdbSaveBackground()                                                      *)
SaveBackground(s) ==
  IF s.save # 0 \/ ~Can(s, "bgsave") THEN {s}
  ELSE {[WithChild(Spent(s, "bgsave"), FreePid(s), "save") EXCEPT
           !.save = FreePid(s), !.before = s.dirty]}
       \cup {[t EXCEPT !.before = s.dirty, !.saved = FALSE] : t \in ForkFails(s)}

(* rdbSave() in the server itself.                                          *)
SaveNow(s) == [s EXCEPT !.dump = Len(s.data), !.dirty = 0, !.saved = TRUE]

(* backgroundSaveDoneHandlerDisk(); SIGUSR1 is no error.                    *)
SaveDoneZero(s, life) ==
  [s EXCEPT !.save = 0, !.dirty = IF life = "ok" THEN 0 ELSE @,
            !.saved = IF life = "killed" THEN @ ELSE life = "ok"]
SaveDone(s, life) ==
  [s EXCEPT !.save = 0, !.dirty = IF life = "ok" THEN @ - s.before ELSE @,
            !.saved = IF life = "killed" THEN @ ELSE life = "ok"]

(* backgroundRewriteDoneHandler(): the differences are appended to the file *)
(* of the child, which replaces the old one; a descriptor that is not -1    *)
(* is replaced too.                                                         *)
Forgotten(s) ==
  [s EXCEPT !.diff = <<>>, !.rewrite = 0,
            !.scheduled = @ \/ s.state = "wait"]
OldFsyncs(s) == [i \in DOMAIN s.fsyncs |-> "old"]
Renamed(s, n) ==
  [s EXCEPT !.file = <<Snapshot(n)>> \o s.diff, !.synced = 1]
SwitchedFd(s) ==
  [s EXCEPT !.fd = "open", !.db = NoDatabase, !.size = Len(s.file), !.buf = <<>>,
            !.synced = IF policy = "always" THEN Len(s.file) ELSE @,
            !.fsyncs = OldFsyncs(s) \o (IF policy = "everysec" THEN <<"todo">> ELSE <<>>)]
TurnedOn(s) == [s EXCEPT !.state = IF @ = "wait" THEN "on" ELSE @]
Installed(s, n) ==
  LET t == Renamed(s, n)
  IN  TurnedOn(IF s.fd = "none" THEN t ELSE SwitchedFd(t))

(* The process ends after the rename and before the fsync of the new file,  *)
(* of which only what the child wrote is sure to be on the disk.  Before    *)
(* the rename the old file is there, as at any other Crash.                 *)
StoppedSwitching(s, n) ==
  LET t == Renamed(s, n)
  IN  IF ~Can(s, "crash") THEN {}
      ELSE {[Spent(t, "crash") EXCEPT !.life = "switching", !.file = SubSeq(@, 1, k)] :
              k \in 1 .. Len(t.file)}
RewriteDone(s, life, n) ==
  IF life # "ok" THEN {Forgotten(s)}
  ELSE {Forgotten(Installed(s, n))}
       \cup StoppedSwitching(s, n)
       \cup {Forgotten(t) : t \in ForkFails(s)}  \* open(), write() or rename() fails

(* wait3() of serverCron(): with no process left it returns -1, which is    *)
(* what aof_child_pid is when nothing is being rewritten.                   *)
Zombies(s) == {pid \in DOMAIN s.children : s.children[pid].life # "running"}
Collect(s) ==
  IF DOMAIN s.children = {} THEN IF s.rewrite = 0 THEN {Forgotten(s)} ELSE {s}
  ELSE IF Zombies(s) = {} THEN {s}
  ELSE UNION {LET child == s.children[pid]
                  t     == Reaped(s, pid)
              IN  CASE pid = s.save    -> {SaveDone(t, child.life)}
                    [] pid = s.rewrite -> RewriteDone(t, child.life, child.n)
                    [] OTHER           -> {t}
              : pid \in Zombies(s)}

(* startAppendOnly(): on failure the descriptor is closed, and not reset.   *)
StartAppendOnly(s) ==
  (IF s.rewrite # 0 THEN {[s EXCEPT !.fd = "stale"]}
   ELSE {[t EXCEPT !.fd = "stale"] : t \in ForkFails(s)})
  \cup {[t EXCEPT !.fd = "open", !.state = "wait"] : t \in Rewriting(s)}

(* stopAppendOnly(): wait3() takes the first child that ends, be it the one *)
(* that was killed or the one that saves.                                   *)
Off(s) ==
  [s EXCEPT !.synced = Len(s.file), !.fd = "none", !.db = NoDatabase,
            !.state = "off", !.fsyncs = OldFsyncs(s)]
StopRewrite(s) ==
  IF s.rewrite = 0 THEN {s}
  ELSE LET t == KillChild(s, s.rewrite)
       IN  {[Reaped(t, pid) EXCEPT !.diff = <<>>, !.rewrite = 0] : pid \in Zombies(t)}
StopAppendOnly(s) == Then(Flush(s, TRUE), LAMBDA t : StopRewrite(Off(t)))

----------------------------------------------------------------------------
(* Actions                                                                  *)

Becomes(states) == server' \in states /\ UNCHANGED policy
Up == server.life = "up"

(* A client's write command, refused while the disk is in trouble; and the  *)
(* DEL of an expired key, which nothing refuses.                            *)
WriteCommand(db) ==
  /\ Up /\ server.written /\ server.saved /\ Len(server.data) < MaxData
  /\ Becomes({Executed(server, db)})
ExpireKey(db) ==
  /\ Up /\ Can(server, "expire") /\ Len(server.data) < MaxData
  /\ Becomes({Executed(Spent(server, "expire"), db)})

(* beforeSleep(): the replies can be sent after it.                         *)
Replied(s) == [s EXCEPT !.acked = Len(s.data)]
BeforeSleep ==
  /\ Up
  /\ Becomes(Then(Flush(server, FALSE), LAMBDA s : {Replied(s)}))

(* serverCron(), in its order: a scheduled rewrite, the end of a child or   *)
(* else the save points and the growth of the file, the postponed flush,    *)
(* and a retry after an error.                                              *)
NoChild(s) == s.save = 0 /\ s.rewrite = 0
CronScheduled(s) == IF NoChild(s) /\ s.scheduled THEN RewriteBackground(s) ELSE {s}
CronSavePoint(s) == IF s.dirty > 0 THEN {s} \cup SaveBackground(s) ELSE {s}
CronGrowth(s) == IF NoChild(s) /\ Len(s.file) > 1 THEN {s} \cup RewriteBackground(s) ELSE {s}
CronChildren(s) == IF NoChild(s) THEN Then(CronSavePoint(s), CronGrowth) ELSE Collect(s)
CronPostponed(s) == IF s.postponed THEN Flush(s, FALSE) ELSE {s}
CronRetry(s) == IF s.written THEN {s} ELSE {s} \cup Flush(s, FALSE)
ServerCron ==
  /\ Up
  /\ Becomes(Then(Then(Then(CronScheduled(server), CronChildren), CronPostponed), CronRetry))

(* A child ends: that of a rewrite with a file, that of a save with a new   *)
(* dump.rdb, or with an error.                                              *)
ChildExits(pid) ==
  /\ server.children[pid].life = "running"
  /\ LET t == [server EXCEPT !.children[pid].life = "ok"]
     IN  Becomes(
       {IF server.children[pid].kind = "save" THEN [t EXCEPT !.dump = server.children[pid].n] ELSE t}
       \cup {[s EXCEPT !.children[pid].life = life] : s \in ForkFails(server), life \in {"failed", "signal"}})

(* bioProcessBackgroundJobs(): the job stays in the count until it is done. *)
BioFsync ==
  /\ server.fsyncs # <<>> /\ Head(server.fsyncs) = "todo"
  /\ Becomes({[server EXCEPT !.fsyncs[1] = "done", !.synced = Len(server.file)]})
BioDone ==
  /\ server.fsyncs # <<>> /\ Head(server.fsyncs) \in {"done", "old"}
  /\ Becomes({[server EXCEPT !.fsyncs = Tail(@)]})

(* CONFIG SET appendonly                                                    *)
ConfigAppendOnly ==
  /\ Up /\ Can(server, "toggle")
  /\ LET s == Spent(server, "toggle")
     IN  Becomes(IF s.state = "off" THEN StartAppendOnly(s) ELSE StopAppendOnly(s))

BgrewriteaofCommand ==
  /\ Up /\ server.rewrite = 0
  /\ Becomes(IF server.save # 0 THEN {[server EXCEPT !.scheduled = TRUE]}
             ELSE RewriteBackground(server))
BgsaveCommand ==
  /\ Up /\ NoChild(server)
  /\ Becomes(SaveBackground(server))
SaveCommand ==
  /\ Up /\ server.save = 0 /\ Can(server, "bgsave")
  /\ Becomes({SaveNow(Spent(server, "bgsave"))} \cup ForkFails(server))

(* prepareForShutdown()                                                     *)
Exited(s) == [s EXCEPT !.life = "exited", !.children = <<>>]
ShutdownAof(s) ==
  IF s.state = "off" THEN s
  ELSE [KillChild(s, s.rewrite) EXCEPT !.synced = IF s.fd = "open" THEN Len(s.file) ELSE @]
ShutdownCommand(save) ==
  LET s == KillChild(Spent(server, "shutdown"), server.save)
  IN  /\ Up /\ Can(server, "shutdown")
      /\ Becomes(IF s.state = "wait" /\ s.rewrite # 0 THEN {s}
                 ELSE IF save THEN {Exited(SaveNow(ShutdownAof(s)))}
                                   \cup ForkFails(ShutdownAof(s))
                 ELSE {Exited(ShutdownAof(s))})

(* The process is killed, or the machine stops: then the end of the file    *)
(* that was not fsynced may be missing.                                     *)
Crash ==
  /\ Up /\ Can(server, "crash")
  /\ Becomes({Died([Spent(server, "crash") EXCEPT !.file = SubSeq(@, 1, k)]) :
                k \in {Len(server.file)} \cup (server.synced .. Len(server.file))})

Restart ==
  /\ ~Up
  /\ LET file == Untorn(server.file, server.data)
         n    == Loaded(file, server.data).n
     IN  Becomes({Started(file, server.dump, SubSeq(server.data, 1, n), server.left)})

PersistenceNext ==
  \/ \E db \in Databases : WriteCommand(db) \/ ExpireKey(db)
  \/ BeforeSleep \/ ServerCron
  \/ \E pid \in DOMAIN server.children : ChildExits(pid)
  \/ BioFsync \/ BioDone
  \/ ConfigAppendOnly \/ BgrewriteaofCommand \/ BgsaveCommand \/ SaveCommand
  \/ \E save \in BOOLEAN : ShutdownCommand(save)
  \/ Crash \/ Restart

PersistenceSpec == PersistenceInit /\ [][PersistenceNext]_persistenceVars

----------------------------------------------------------------------------
(* With the AOF on, the file followed by the buffer is the dataset: nothing *)
(* is lost, repeated, cut or run in another database by a postponed write,  *)
(* a short one, a retry, or a rewrite that ends, fails or is killed in the  *)
(* middle of them (feedAppendOnlyFile(), flushAppendOnlyFile(),             *)
(* backgroundRewriteDoneHandler()).  The file can always be loaded.         *)
AofIsDataset ==
  LET whole == Loaded(server.file \o server.buf, server.data)
  IN  /\ Up /\ server.state = "on" =>
           ~whole.bad /\ ~whole.half /\ whole.n = Len(server.data)
      /\ server.state = "on" => ~Loaded(server.file, server.data).bad

(* With appendfsync always, what a client was told is on the disk, after a  *)
(* switch to a rewritten file too, and is in the file that a killed or      *)
(* exited process leaves (aof.c:331, "on acknowledged write data is synced  *)
(* on disk"): unless the machine stops in the middle of that switch, after  *)
(* the rename of aof.c:1248 and before the fsync of aof.c:1267, when what   *)
(* was written since the fork of the rewrite may be gone.                   *)
AckedIsSynced ==
  policy = "always" /\ ~NoFsyncOnRewrite /\ server.state = "on" /\ server.life # "switching" =>
    LET kept == IF Up THEN SubSeq(server.file, 1, server.synced) ELSE server.file
    IN  Loaded(kept, server.data).n >= server.acked

(* The writes that dump.rdb lacks are counted in server.dirty, so that the  *)
(* save points see them, whatever happens to the child while it saves       *)
(* (rdbSaveBackground(), backgroundSaveDoneHandlerDisk()).                  *)
DirtyCountsUnsaved == Up => server.dump + server.dirty >= Len(server.data)

(* The append only file and its buffer are the dataset, what was answered   *)
(* under "always" is on the disk, and the counter of unsaved changes sees   *)
(* what dump.rdb lacks.                                                     *)
PersistenceIsExact == AofIsDataset /\ AckedIsSynced /\ DirtyCountsUnsaved

(* redis.c:2206 on the AOF at a shutdown: it "contains the full dataset     *)
(* anyway".                                                                 *)
ShutdownKeepsDataset ==
  server.life = "exited" /\ server.state = "on" =>
    Loaded(server.file, server.data).n = Len(server.data)

(* The child that saves is known as long as it is waited for.               *)
SaveChildExists == Up /\ server.save # 0 => server.save \in DOMAIN server.children
============================================================================
