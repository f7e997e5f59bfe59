--------------------------- MODULE RedisKeyspace ---------------------------
(***************************************************************************)
(* The keys of Redis and their expire times (db.c), on a master, on its    *)
(* slave and in the append only file. Only the master deletes a key that   *)
(* expired, when somebody looks it up or when its cron meets it, or to     *)
(* make room; the slave and the file are told by a DEL in the stream of    *)
(* commands. Times given as "from now on" mean another moment wherever the *)
(* command is executed again.                                              *)
(***************************************************************************)
EXTENDS Integers, Sequences, FiniteSets, SequencesExt

CONSTANTS Slots,         \* the places of a key, <<database, name>>
          KeyValues,
          StartKeys,     \* the datasets the master may start with
          MaxClock,      \* bound on the clock
          MaxKeys,       \* maxmemory, in keys
          EvictFrom,     \* "noeviction", "allkeys" or "volatile"
          Ttls,          \* the times to live that are given; 0 and below have passed
          KeyChances     \* the bound: what happens, at most how often

KeyChance == {"set", "setex", "setpx", "expire", "persist", "del", "rename", "move",
              "flush", "read", "script", "scriptexpire", "sync", "rewrite"}
ASSUME KeyspaceAssumption ==
  /\ {MaxClock, MaxKeys} \subseteq Nat /\ Ttls \subseteq Int
  /\ EvictFrom \in {"noeviction", "allkeys", "volatile"}
  /\ KeyChances \subseteq [KeyChance -> Nat]
  /\ IsFiniteSet(Slots) /\ "none" \notin KeyValues
  /\ StartKeys \subseteq [Slots -> [v : KeyValues, when : Nat \cup {-1}] \cup {[v |-> "none", when |-> -1]}]

VARIABLES clock,
          main,      \* the master's dictionaries db->dict and db->expires
          slave,     \* and the slave's
          toSlave,   \* what the slave has not executed yet
          aof,       \* the commands of the append only file
          chances
keyspaceVars == <<clock, main, slave, toSlave, aof, chances>>

KeyDbs == {p[1] : p \in Slots}
Never == -1
NoEntry == [v |-> "none", when |-> Never]
Held(v, when) == [v |-> v, when |-> when]
Present(db) == {p \in Slots : db[p] # NoEntry}
Volatile(db) == {p \in Slots : db[p].when # Never}

---------------------------------------------------------------------------
(* What a command is executed in: the data and its role, the time, the     *)
(* time a script is told it is, what was propagated to the slave and fed   *)
(* to the append only file, and server.dirty.                              *)

Context(db, role, now) ==
  [db |-> db, role |-> role, now |-> now, lua |-> FALSE, luaStart |-> now,
   out |-> <<>>, fed |-> <<>>, dirty |-> 0]
Cmd(op, p) == [op |-> op, at |-> p, to |-> p, v |-> "none", time |-> 0, nx |-> FALSE, body |-> <<>>]
DelOf(p) == Cmd("del", p)

(* The append only file keeps times as they are, not from now on.          *)
ExpireAtCmd(p, when) == [Cmd("expireat", p) EXCEPT !.time = when]
FedToAof(c, now) ==
  IF c.op = "expire" THEN <<ExpireAtCmd(c.at, now + c.time)>>
  ELSE IF c.op = "setex" THEN <<[c EXCEPT !.op = "set", !.time = 0], ExpireAtCmd(c.at, now + c.time)>>
  ELSE <<c>>
Feed(s, c) == [s EXCEPT !.out = Append(@, c), !.fed = @ \o FedToAof(c, s.now)]

With(s, p, entry) == [s EXCEPT !.db[p] = entry]
Dirty(s) == [s EXCEPT !.dirty = @ + 1]
PropagateExpire(s, p) == Feed(s, DelOf(p))

MovingTime(s) == s.now
ExpireTime(s) == IF s.lua THEN s.luaStart ELSE s.now
IsExpired(s, p) == s.db[p].when # Never /\ ExpireTime(s) > s.db[p].when
ExpireIfNeeded(s, p) ==
  IF s.role = "master" /\ IsExpired(s, p) THEN With(PropagateExpire(s, p), p, NoEntry) ELSE s
Exists(s, p) == s.db[p] # NoEntry

---------------------------------------------------------------------------
(* The commands, each from a context to the next.                          *)

SetGeneric(s, c) ==
  LET t == ExpireIfNeeded(s, c.at)
      when == IF c.time = 0 THEN Never ELSE s.now + c.time
  IN IF c.nx /\ Exists(t, c.at) THEN t ELSE Dirty(With(t, c.at, Held(c.v, when)))

ExpireGeneric(s, c) ==
  LET t == ExpireIfNeeded(s, c.at)
      when == IF c.op = "expire" THEN s.now + c.time ELSE c.time
  IN IF ~Exists(t, c.at) THEN t
     ELSE IF when <= s.now /\ s.role = "master" THEN Dirty(With(t, c.at, NoEntry))
     ELSE Dirty(With(t, c.at, Held(t.db[c.at].v, when)))

Persist(s, c) ==
  IF s.db[c.at].when # Never THEN Dirty(With(s, c.at, Held(s.db[c.at].v, Never))) ELSE s

Del(s, c) == LET t == ExpireIfNeeded(s, c.at)
             IN IF Exists(t, c.at) THEN Dirty(With(t, c.at, NoEntry)) ELSE t

RenameGeneric(s, c) ==
  LET t == ExpireIfNeeded(s, c.at)
      u == ExpireIfNeeded(t, c.to)
  IN IF ~Exists(t, c.at) THEN t
     ELSE IF c.nx /\ Exists(u, c.to) THEN u
     ELSE Dirty(With(With(u, c.to, t.db[c.at]), c.at, NoEntry))

\* To the other database, where the key lives for ever
Move(s, c) ==
  LET t == ExpireIfNeeded(s, c.at)
      u == ExpireIfNeeded(t, c.to)
  IN IF ~Exists(t, c.at) THEN t
     ELSE IF Exists(u, c.to) THEN u
     ELSE Dirty(With(With(u, c.to, Held(t.db[c.at].v, Never)), c.at, NoEntry))

Emptied(db, ps) == [p \in Slots |-> IF p \in ps THEN NoEntry ELSE db[p]]
FlushDbs(s, c) ==
  LET gone == {p \in Slots : c.op = "flushall" \/ p[1] = c.at[1]}
  IN [s EXCEPT !.db = Emptied(@, gone),
               !.dirty = @ + Cardinality(gone \cap Present(s.db)) + (IF c.op = "flushall" THEN 1 ELSE 0)]

Simple(s, c) ==
  CASE c.op \in {"set", "setex"} -> SetGeneric(s, c)
    [] c.op \in {"expire", "expireat"} -> ExpireGeneric(s, c)
    [] c.op = "persist" -> Persist(s, c)
    [] c.op = "del" -> Del(s, c)
    [] c.op = "rename" -> RenameGeneric(s, c)
    [] c.op = "move" -> Move(s, c)
    [] c.op \in {"flushdb", "flushall"} -> FlushDbs(s, c)
    [] c.op = "get" -> ExpireIfNeeded(s, c.at)

\* A script looks whether its key exists, and if so runs its command; it may
\* take time, and keys it looks at must not expire meanwhile
EvalScript(s, c, elapsed) ==
  LET t == [ExpireIfNeeded([s EXCEPT !.lua = TRUE, !.luaStart = s.now], c.at) EXCEPT !.now = @ + elapsed]
  IN [IF Exists(t, c.at) THEN Simple(t, c.body[1]) ELSE t EXCEPT !.lua = FALSE]
Execute(s, c, elapsed) == IF c.op = "eval" THEN EvalScript(s, c, elapsed) ELSE Simple(s, c)

\* call(): what changed the data is propagated, EXPIRE as the DEL it was
AsSent(s, c) ==
  IF c.op \in {"expire", "expireat"} /\ (IF c.op = "expire" THEN s.now + c.time ELSE c.time) <= s.now
  THEN DelOf(c.at) ELSE c
Call(s, c, elapsed) ==
  LET t == Execute(s, c, elapsed)
  IN IF t.dirty > s.dirty THEN Feed(t, AsSent(s, c)) ELSE t

---------------------------------------------------------------------------
(* What a child writes to an RDB or to a new AOF: a key that expired is    *)
(* left out. And what is loaded from an AOF.                               *)

Unexpired(db, now) == Emptied(db, {p \in Slots : db[p].when # Never /\ db[p].when < now})
KeyCommands(db, p) ==
  LET set == [Cmd("set", p) EXCEPT !.v = db[p].v]
  IN IF db[p].when = Never THEN <<set>> ELSE <<set, ExpireAtCmd(p, db[p].when)>>
RewrittenAof(db) ==
  LET keys == SetToSeq(Present(db))
      written[i \in 0 .. Len(keys)] == IF i = 0 THEN <<>> ELSE written[i - 1] \o KeyCommands(db, keys[i])
  IN written[Len(keys)]
LoadedFrom(commands, now) ==
  LET loaded[i \in 0 .. Len(commands)] ==
        IF i = 0 THEN [p \in Slots |-> NoEntry]
        ELSE Execute(Context(loaded[i - 1], "loading", now), commands[i], 0).db
  IN loaded[Len(commands)]

---------------------------------------------------------------------------
(* freeMemoryIfNeeded(): in each round a key of every database that has a  *)
(* candidate, whichever its samples found best.                            *)

Candidates(db) ==
  CASE EvictFrom = "allkeys" -> Present(db) [] EvictFrom = "volatile" -> Volatile(db) [] OTHER -> {}
InDb(ps, d) == {p \in ps : p[1] = d}
Smallest(m, n) == IF m <= n THEN m ELSE n
Evictions(db) ==
  LET need == Cardinality(Present(db)) - MaxKeys
      In(e, d) == Cardinality(InDb(e, d))
      Rounds(e, r) == \A d \in KeyDbs : In(e, d) = Smallest(r, In(Candidates(db), d))
  IN IF need <= 0 THEN {{}}
     ELSE {e \in SUBSET Candidates(db) :
             \E r \in 0 .. Cardinality(Slots) :
               /\ Rounds(e, r)
               /\ Cardinality(e) >= need \/ e = Candidates(db)
               /\ r > 0 => \A f \in SUBSET e : Rounds(f, r - 1) => Cardinality(f) < need}
Evicted(s, e) ==
  LET dels == [i \in 1 .. Cardinality(e) |-> DelOf(SetToSeq(e)[i])]
  IN [s EXCEPT !.db = Emptied(@, e), !.out = @ \o dels, !.fed = @ \o dels]
OverMemory(s) == Cardinality(Present(s.db)) > MaxKeys
DenyOom == {"set", "setex"}

---------------------------------------------------------------------------
KeyspaceInit ==
  /\ clock = 0
  /\ main \in StartKeys /\ slave = main
  /\ toSlave = <<>> /\ aof = RewrittenAof(main)
  /\ chances \in KeyChances

Happens(kind) == chances[kind] > 0 /\ chances' = [chances EXCEPT ![kind] = @ - 1]

Performed(s) ==
  /\ main' = s.db
  /\ toSlave' = toSlave \o s.out
  /\ aof' = aof \o s.fed
  /\ clock' = s.now

ProcessCommand(c, elapsed) ==
  /\ clock + elapsed <= MaxClock
  /\ \E e \in Evictions(main) :
       LET s == Evicted(Context(main, "master", clock), e)
       IN Performed(IF c.op \in DenyOom /\ OverMemory(s) THEN s ELSE Call(s, c, elapsed))
  /\ UNCHANGED slave

Now(c) == ProcessCommand(c, 0)
Names(p) == {q \in Slots : q[1] = p[1] /\ q # p}
Dests(p) == {q \in Slots : q[2] = p[2] /\ q # p}
Bodies(p) ==
  [op : {"set"}, at : Slots, to : {p}, v : KeyValues, time : {0}, nx : {TRUE}, body : {<<>>}]
    \cup {Cmd("del", p), Cmd("persist", p)}

SetCommand(p) == \E v \in KeyValues, nx \in BOOLEAN :
  Happens("set") /\ Now([Cmd("set", p) EXCEPT !.v = v, !.nx = nx])
SetexCommand(p) == \E v \in KeyValues, ttl \in Ttls :
  Happens("setex") /\ ttl > 0 /\ Now([Cmd("setex", p) EXCEPT !.v = v, !.time = ttl])
\* SET with EX or PX
SetPxCommand(p) == \E v \in KeyValues, ttl \in Ttls :
  Happens("setpx") /\ ttl > 0 /\ Now([Cmd("set", p) EXCEPT !.v = v, !.time = ttl])
ExpireCommand(p) == \E op \in {"expire", "expireat"}, time \in Ttls :
  Happens("expire") /\ Now([Cmd(op, p) EXCEPT !.time = time])
PersistCommand(p) == Happens("persist") /\ Now(Cmd("persist", p))
DelCommand(p) == Happens("del") /\ Now(Cmd("del", p))
RenameCommand(p) == \E q \in Names(p), nx \in BOOLEAN :
  Happens("rename") /\ Now([Cmd("rename", p) EXCEPT !.to = q, !.nx = nx])
MoveCommand(p) == \E q \in Dests(p) : Happens("move") /\ Now([Cmd("move", p) EXCEPT !.to = q])
FlushCommand(p) == \E op \in {"flushdb", "flushall"} : Happens("flush") /\ Now(Cmd(op, p))
GetCommand(p) == Happens("read") /\ Now(Cmd("get", p))
EvalCommand(p) == \E c \in Bodies(p), elapsed \in 0 .. 1 :
  Happens("script") /\ ProcessCommand([Cmd("eval", p) EXCEPT !.body = <<c>>], elapsed)
EvalExpire(p) == \E ttl \in Ttls :
  Happens("scriptexpire")
    /\ Now([Cmd("eval", p) EXCEPT !.body = <<[Cmd("expire", p) EXCEPT !.time = ttl]>>])

\* The cron samples keys of each database and deletes those that expired
ActiveExpireCycle(ps) ==
  LET s == Context(main, "master", clock)
  IN /\ ps # {} /\ \A p \in ps : IsExpired(s, p)
     /\ Performed(Evicted(s, ps))
     /\ UNCHANGED <<slave, chances>>

SlaveExecutes == \E elapsed \in 0 .. 1 :
  /\ toSlave # <<>>
  /\ elapsed = 1 => toSlave[1].op = "eval" /\ clock < MaxClock
  /\ slave' = Execute(Context(slave, "slave", clock), toSlave[1], elapsed).db
  /\ toSlave' = Tail(toSlave)
  /\ clock' = clock + elapsed
  /\ UNCHANGED <<main, aof, chances>>

\* A full resynchronization, and BGREWRITEAOF, at once
FullSync ==
  /\ Happens("sync")
  /\ slave' = Unexpired(main, clock) /\ toSlave' = <<>>
  /\ UNCHANGED <<main, aof, clock>>
RewriteAof ==
  /\ Happens("rewrite")
  /\ aof' = RewrittenAof(Unexpired(main, clock))
  /\ UNCHANGED <<main, slave, toSlave, clock>>

Tick == clock < MaxClock /\ clock' = clock + 1 /\ UNCHANGED <<main, slave, toSlave, aof, chances>>

KeyspaceNext ==
  \/ \E p \in Slots :
       \/ SetCommand(p) \/ SetexCommand(p) \/ SetPxCommand(p)
       \/ ExpireCommand(p) \/ PersistCommand(p)
       \/ DelCommand(p) \/ RenameCommand(p) \/ MoveCommand(p) \/ FlushCommand(p)
       \/ GetCommand(p)
       \/ EvalCommand(p) \/ EvalExpire(p)
  \/ \E ps \in SUBSET Slots : ActiveExpireCycle(ps)
  \/ SlaveExecutes
  \/ FullSync \/ RewriteAof
  \/ Tick
KeyspaceSpec == KeyspaceInit /\ [][KeyspaceNext]_keyspaceVars

---------------------------------------------------------------------------
Past(p) == main[p].when # Never /\ clock > main[p].when

(* A slave that executed everything it was sent has the master's keys, and *)
(* the same ones are to expire, although each clock reading of the two was *)
(* another and only the master deletes what expired or is evicted. A key   *)
(* whose time has passed may be missing from what a child wrote.           *)
ReplicaHasDataset ==
  toSlave = <<>> => \A p \in Slots :
    Past(p) \/ (slave[p].v = main[p].v /\ (slave[p].when = Never <=> main[p].when = Never))

(* The append only file, loaded at any later time, gives the master's keys *)
(* with the very times they were to expire at.                             *)
AofHasDataset == LET loaded == LoadedFrom(aof, MaxClock + 1) IN \A p \in Slots : Past(p) \/ loaded[p] = main[p]

(* Both copies of the master's keys are complete.                          *)
CopiesHaveDataset == ReplicaHasDataset /\ AofHasDataset
=============================================================================
