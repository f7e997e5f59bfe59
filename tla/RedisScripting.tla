-------------------------- MODULE RedisScripting --------------------------
(***************************************************************************)
(* Lua scripts (scripting.c): what one may do and when it may be killed,   *)
(* and how EVALSHA reaches slaves and the append only file. A script is    *)
(* sent once by its text and from then on by its hash, as long as all of   *)
(* them are sure to have been sent the text: slaves attach, resynchronize  *)
(* and are lost meanwhile, and the append only file is rewritten.          *)
(***************************************************************************)
EXTENDS Integers, Sequences, FiniteSets, SequencesExt

CONSTANTS Scripts,
          Program,       \* what each script does, a sequence of ScriptOps
          NoScript,
          LuaSlaves,
          CacheSize,     \* repl_scriptcache_size
          LuaChances     \* the bound: what happens, at most how often

\* "slow" exceeds lua-time-limit; "guarded" does so inside Lua's pcall()
ScriptOps == {"read", "write", "random", "slow", "guarded"}
LuaChance == {"eval", "evalsha", "load", "flush", "attach", "drop", "save", "rewrite", "fail", "kill"}
ASSUME ScriptingAssumption ==
  /\ Program \in [Scripts -> Seq(ScriptOps)] /\ NoScript \notin Scripts
  /\ CacheSize \in Nat \ {0}
  /\ LuaChances \subseteq [LuaChance -> Nat]

VARIABLES scripts,  \* server.lua_scripts
          cache,    \* repl_scriptcache_fifo, the newest first
          reader,   \* the slaves and the AOF: state, and the scripts they know
                    \* when they have executed all that was sent to them
          saving,   \* server.rdb_child_pid: a child saves, for the slaves or not
          rewriting, \* server.aof_child_pid, and what its file will know
          lua,      \* the script being executed
          unknown,  \* somebody was sent a hash it does not know
          stranded, \* history: the slaves that a failed fork left waiting for the
                    \* end of a BGSAVE since the cache was emptied last
          luaLeft
scriptingVars == <<scripts, cache, reader, saving, rewriting, lua, unknown, stranded, luaLeft>>

Aof == "aof"
Readers == LuaSlaves \cup {Aof}
NoLua == [script |-> NoScript, sha |-> FALSE, pos |-> 1, wrote |-> FALSE, random |-> FALSE,
          timedout |-> FALSE, kill |-> FALSE]
NotRewriting == [on |-> FALSE, knows |-> {}]
children == <<saving, rewriting>>
scriptCache == <<cache, stranded>>

---------------------------------------------------------------------------
(* The cache and the streams.                                              *)

CacheAdd(s, fifo) == <<s>> \o (IF Len(fifo) = CacheSize THEN Front(fifo) ELSE fifo)
Cached(s) == s \in ToSet(cache)
NotFlushed == cache
Flushed == <<>>
FlushCache == cache' = Flushed /\ stranded' = {}  \* replicationScriptCacheFlush()

\* Slaves waiting for a BGSAVE to start are not fed; a lost one is, by the backlog
IsFed(r) == reader[r].state \in {"wait_end", "online", "lost", "on"}
Sent(message, knows, s) ==
  CASE message \in {"EVAL", "LOAD"} -> knows \cup {s} [] message = "FLUSH" -> {} [] OTHER -> knows
Propagate(message, s) ==
  /\ reader' = [r \in Readers |-> IF IsFed(r) THEN [reader[r] EXCEPT !.knows = Sent(message, @, s)] ELSE reader[r]]
  /\ rewriting' = IF rewriting.on THEN [rewriting EXCEPT !.knows = Sent(message, @, s)] ELSE rewriting
  /\ UNCHANGED saving
  /\ unknown' = \/ unknown
                \/ /\ message = "EVALSHA"
                   /\ \/ \E r \in Readers \ stranded : IsFed(r) /\ s \notin reader[r].knows
                      \/ rewriting.on /\ s \notin rewriting.knows

---------------------------------------------------------------------------
(* EVAL and EVALSHA.                                                       *)

ScriptingInit ==
  /\ scripts = {} /\ cache = <<>> /\ stranded = {}
  /\ reader = [r \in Readers |-> [state |-> "off", knows |-> {}]]
  /\ saving = FALSE /\ rewriting = NotRewriting
  /\ lua = NoLua
  /\ unknown = FALSE
  /\ luaLeft \in LuaChances

Left(kind) == luaLeft[kind] > 0 /\ luaLeft' = [luaLeft EXCEPT ![kind] = @ - 1]
Idle == lua = NoLua

EvalGeneric(s, sha) ==
  /\ Idle
  /\ scripts' = scripts \cup {s}
  /\ lua' = [NoLua EXCEPT !.script = s, !.sha = sha]
  /\ UNCHANGED <<scriptCache, reader, children, unknown>>
Eval(s) == Left("eval") /\ EvalGeneric(s, FALSE)
EvalSha(s) == s \in scripts /\ Left("evalsha") /\ EvalGeneric(s, TRUE)

\* Done, or ended by an error: what the call propagates
ScriptEnds(l) ==
  /\ lua' = NoLua /\ UNCHANGED stranded
  /\ IF l.sha /\ ~Cached(l.script)
     THEN cache' = CacheAdd(l.script, cache) /\ Propagate("EVAL", l.script)
     ELSE /\ UNCHANGED cache
          /\ IF l.wrote THEN Propagate(IF l.sha THEN "EVALSHA" ELSE "EVAL", l.script)
             ELSE UNCHANGED <<reader, children, unknown>>

\* redis.call(): no write after a command whose result is random
Op == Program[lua.script][lua.pos]
Steps(l) == lua' = [l EXCEPT !.pos = @ + 1] /\ UNCHANGED <<scriptCache, reader, children, unknown>>
RedisCall ==
  /\ ~Idle /\ ~lua.timedout
  /\ IF lua.pos > Len(Program[lua.script]) THEN ScriptEnds(lua)
     ELSE CASE Op = "write" /\ lua.random -> ScriptEnds(lua)
            [] Op = "write" /\ ~lua.random -> Steps([lua EXCEPT !.wrote = TRUE])
            [] Op = "random" -> Steps([lua EXCEPT !.random = TRUE])
            [] Op = "read" -> Steps(lua)
            [] OTHER -> lua' = [lua EXCEPT !.timedout = TRUE] /\ UNCHANGED <<scriptCache, reader, children, unknown>>
  /\ UNCHANGED <<scripts, luaLeft>>

\* The hook: only SCRIPT KILL is served, and it is refused after a write
Killable(l) == ~l.wrote
ScriptKill ==
  /\ lua.timedout /\ ~lua.kill /\ Left("kill") /\ Killable(lua)
  /\ lua' = [lua EXCEPT !.kill = TRUE]
  /\ UNCHANGED <<scripts, scriptCache, reader, children, unknown>>
\* luaMaskCountHook() raises an error, which pcall() catches
MaskCountHook ==
  /\ lua.timedout /\ lua.kill
  /\ IF Op = "guarded"
     THEN /\ lua' = [lua EXCEPT !.timedout = FALSE, !.pos = @ + 1]
          /\ UNCHANGED <<scriptCache, reader, children, unknown>>
     ELSE ScriptEnds(lua)
  /\ UNCHANGED <<scripts, luaLeft>>
SlowEnds ==
  /\ lua.timedout /\ ~lua.kill
  /\ lua' = [lua EXCEPT !.timedout = FALSE, !.pos = @ + 1]
  /\ UNCHANGED <<scripts, scriptCache, reader, children, unknown, luaLeft>>

ScriptLoad(s) ==
  /\ Idle /\ Left("load")
  /\ scripts' = scripts \cup {s}
  /\ Propagate("LOAD", s)
  /\ UNCHANGED <<scriptCache, lua>>
ScriptFlush ==
  /\ Idle /\ Left("flush")
  /\ scripts' = {} /\ FlushCache
  /\ Propagate("FLUSH", NoScript)
  /\ UNCHANGED lua

---------------------------------------------------------------------------
(* Slaves. Full synchronizations start with a BGSAVE, whose slaves then    *)
(* know nothing; one more slave may join them with what they were sent.    *)

InState(state) == {r \in LuaSlaves : reader[r].state = state}
Attached(who, state, knows) ==
  [r \in Readers |-> IF r \in who THEN [state |-> state, knows |-> knows] ELSE reader[r]]
Sync(r) ==
  /\ Idle /\ Left("attach")
  /\ reader[r].state = "off"
  /\ CASE ~saving ->
            saving' = TRUE /\ reader' = Attached({r}, "wait_end", {}) /\ FlushCache
       [] saving /\ InState("wait_end") # {} ->
            \E other \in InState("wait_end") :
              /\ reader' = Attached({r}, "wait_end", reader[other].knows)
              /\ stranded' = IF other \in stranded THEN stranded \cup {r} ELSE stranded \ {r}
              /\ UNCHANGED <<cache, saving>>
       [] OTHER -> reader' = Attached({r}, "wait_start", {}) /\ UNCHANGED <<scriptCache, saving>>
  /\ UNCHANGED <<scripts, rewriting, lua, unknown>>
Psync(r) ==
  /\ Idle
  /\ reader[r].state = "lost"
  /\ reader' = [reader EXCEPT ![r].state = "online"]
  /\ UNCHANGED <<scripts, scriptCache, children, lua, unknown, luaLeft>>
\* A slave's link breaks; one that was not online has to start again
SlaveLost(r) ==
  /\ Idle /\ Left("drop")
  /\ reader[r].state \in {"wait_start", "wait_end", "online"}
  /\ reader' = IF reader[r].state = "online" THEN [reader EXCEPT ![r].state = "lost"] ELSE Attached({r}, "off", {})
  /\ UNCHANGED <<scripts, scriptCache, children, lua, unknown>>
NoSlaves == \A r \in LuaSlaves : reader[r].state \in {"off", "lost"}
BacklogFreed ==
  /\ Idle /\ NoSlaves /\ InState("lost") # {}
  /\ reader' = Attached(InState("lost"), "off", {})
  /\ UNCHANGED <<scripts, scriptCache, children, lua, unknown, luaLeft>>
ReplicationCronFlush ==
  /\ Idle /\ NoSlaves /\ reader[Aof].state = "off" /\ cache # <<>>
  /\ FlushCache
  /\ UNCHANGED <<scripts, reader, children, lua, unknown, luaLeft>>

UserBgsave ==
  /\ Idle /\ ~saving /\ ~rewriting.on /\ Left("save")
  /\ saving' = TRUE
  /\ UNCHANGED <<scripts, scriptCache, reader, rewriting, lua, unknown>>
\* updateSlavesWaitingBgsave(): those that waited for its end go on line or, if
\* it failed, are freed, whoever it was for; those that waited for the next one
\* are moved before it is forked, and left so, without a child, if that fails
BackgroundSaveDone(ok, forked) ==
  /\ Idle /\ saving
  /\ LET waited == InState("wait_end")
         starting == InState("wait_start")
         failures == (IF ok THEN 0 ELSE 1) + (IF forked THEN 0 ELSE 1)
         started == starting # {} /\ forked
     IN /\ failures <= luaLeft["fail"] /\ (starting # {} \/ forked)
        /\ luaLeft' = [luaLeft EXCEPT !["fail"] = @ - failures]
        /\ reader' = [r \in Readers |->
             CASE r \in waited /\ ok -> [reader[r] EXCEPT !.state = "online"]
               [] r \in waited /\ ~ok -> [state |-> "off", knows |-> {}]
               [] r \in starting -> [state |-> "wait_end", knows |-> {}]
               [] OTHER -> reader[r]]
        /\ saving' = started
        /\ IF started THEN FlushCache ELSE stranded' = stranded \cup starting /\ UNCHANGED cache
  /\ UNCHANGED <<scripts, rewriting, lua, unknown>>

---------------------------------------------------------------------------
(* The append only file, turned on or rewritten.                           *)

RewriteAofBackground ==
  /\ Idle /\ ~rewriting.on /\ Left("rewrite")
  /\ \/ ~saving /\ UNCHANGED reader
     \/ reader[Aof].state = "off" /\ reader' = Attached({Aof}, "wait_rewrite", {})
  /\ rewriting' = [on |-> TRUE, knows |-> {}]
  /\ FlushCache
  /\ UNCHANGED <<scripts, saving, lua, unknown>>
BackgroundRewriteDone ==
  /\ Idle /\ rewriting.on
  /\ \/ /\ reader' = IF reader[Aof].state = "off" THEN reader ELSE Attached({Aof}, "on", rewriting.knows)
        /\ UNCHANGED luaLeft
     \/ Left("fail") /\ UNCHANGED reader
  /\ rewriting' = NotRewriting
  /\ UNCHANGED <<scripts, scriptCache, saving, lua, unknown>>
TurnAofOff ==
  /\ Idle /\ reader[Aof].state # "off" /\ Left("drop")
  /\ reader' = Attached({Aof}, "off", {})
  /\ rewriting' = NotRewriting
  /\ UNCHANGED <<scripts, scriptCache, saving, lua, unknown>>

ScriptingNext ==
  \/ \E s \in Scripts : Eval(s) \/ EvalSha(s) \/ ScriptLoad(s)
  \/ RedisCall \/ ScriptKill \/ MaskCountHook \/ SlowEnds
  \/ ScriptFlush
  \/ \E r \in LuaSlaves : Sync(r) \/ Psync(r) \/ SlaveLost(r)
  \/ BacklogFreed \/ ReplicationCronFlush
  \/ UserBgsave \/ \E ok, forked \in BOOLEAN : BackgroundSaveDone(ok, forked)
  \/ RewriteAofBackground \/ BackgroundRewriteDone \/ TurnAofOff
ScriptingSpec == ScriptingInit /\ [][ScriptingNext]_scriptingVars

---------------------------------------------------------------------------
(* Whoever is sent a hash instead of a script was sent that script before, *)
(* in the stream or file it reads, and still knows it: the reply of a      *)
(* slave that does not is read by nobody. The slaves that a failed fork    *)
(* leaves waiting for the end of a BGSAVE are excepted until the cache is  *)
(* next emptied: updateSlavesWaitingBgsave() has them fed from then on     *)
(* (replication.c:749-751, 797-808) and startBgsaveForReplication()        *)
(* empties the cache only for a BGSAVE that starts (replication.c:458).    *)
HashesAreKnown == ~unknown

(* A script that SCRIPT KILL is about to end has written nothing, so that  *)
(* no script is executed by half: not if it caught the error of the kill   *)
(* and went on.                                                            *)
KilledWroteNothing == lua.timedout /\ lua.kill /\ Op # "guarded" => ~lua.wrote

(* A script is executed as a whole, by the master and by whoever is sent    *)
(* its hash.                                                                *)
ScriptsAreWhole == HashesAreKnown /\ KilledWroteNothing
=============================================================================
