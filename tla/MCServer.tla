------------------------------ MODULE MCServer ------------------------------
(* Four parts of the server side by side in one run: a behaviour is one of  *)
(* the persistence, of the clients and the event loop, of the keys and      *)
(* their copies, or of the scripts.                                         *)
EXTENDS RedisPersistence, RedisClients, RedisKeyspace, RedisScripting

CONSTANT Parts
AllParts == {"persistence", "clients", "keyspace", "scripting"}

VARIABLE part

----------------------------------------------------------------------------
(* Bounds: in each set, how often each kind of event may happen in one of   *)
(* the scenarios; those not named never do.                                 *)
SomeOf(kinds, given) == [k \in kinds |-> IF k \in DOMAIN given THEN given[k] ELSE 0]

ServerChances == {SomeOf(Chance, c) : c \in {
  [fork |-> 1, fault |-> 1, crash |-> 1],
  [fork |-> 1, bgsave |-> 1, toggle |-> 1],
  [bgsave |-> 1, fault |-> 1, expire |-> 1],
  [fork |-> 1, fault |-> 1, toggle |-> 2],
  [fork |-> 1, toggle |-> 2, crash |-> 1],
  [fork |-> 1, shutdown |-> 1],
  [bgsave |-> 1, shutdown |-> 1]}}

ServerNetChances == {SomeOf(NetChance, c) : c \in {
  [accept |-> 2, publish |-> 2, subscribe |-> 1],
  [accept |-> 2, publish |-> 1, subscribe |-> 2, quit |-> 1, close |-> 1],
  [accept |-> 2, publish |-> 1, monitor |-> 1, kill |-> 1],
  [accept |-> 2, publish |-> 1, subscribe |-> 1, deferred |-> 1, idle |-> 1],
  [accept |-> 1, quit |-> 1, deferred |-> 2, idle |-> 1]}}

ServerKeyChances == {SomeOf(KeyChance, c) : c \in {
  [set |-> 1, script |-> 1],
  [setex |-> 1, expire |-> 1, persist |-> 1],
  [rename |-> 1, move |-> 1, flush |-> 1],
  [set |-> 1, del |-> 1, read |-> 1],
  [setex |-> 1, rename |-> 1, read |-> 1, sync |-> 1, rewrite |-> 1]}}

ServerLuaChances == {SomeOf(LuaChance, c) : c \in {
  [eval |-> 1, evalsha |-> 3, load |-> 1, attach |-> 2, drop |-> 1, fail |-> 1],
  [eval |-> 1, evalsha |-> 3, load |-> 1, flush |-> 1, attach |-> 1, drop |-> 1, rewrite |-> 2, fail |-> 1],
  [eval |-> 2, evalsha |-> 1, attach |-> 1, save |-> 1, kill |-> 1],
  [load |-> 1, evalsha |-> 2, attach |-> 2, save |-> 2, fail |-> 1]}}

----------------------------------------------------------------------------
(* What there is to work on.                                                *)
OneTtl == {-1, 1}
ThreeSlots == {<<0, "a">>, <<0, "b">>, <<1, "a">>}
StartingKeys ==
  {[p \in Slots |-> CASE p = <<0, "a">> -> Held("x", 1) [] p = <<0, "b">> -> b [] OTHER -> NoEntry] :
     b \in {Held("x", Never), Held("x", 1)}}
TwoPrograms == [s \in Scripts |-> IF s = "s1" THEN <<"write", "slow">> ELSE <<"slow", "random", "write">>]

----------------------------------------------------------------------------
AnyOf(S) == CHOOSE x \in S : TRUE

Init ==
  /\ part \in Parts
  /\ PersistenceInit /\ ClientsInit /\ KeyspaceInit /\ ScriptingInit
  /\ part # "persistence" => policy = AnyOf(Policies) /\ server.left = AnyOf(Chances)
  /\ part # "clients" => net.left = AnyOf(NetChances)
  /\ part # "keyspace" => main = AnyOf(StartKeys) /\ chances = AnyOf(KeyChances)
  /\ part # "scripting" => luaLeft = AnyOf(LuaChances)

Next ==
  /\ UNCHANGED part
  /\ \/ /\ part = "persistence" /\ PersistenceNext
        /\ UNCHANGED <<clientsVars, keyspaceVars, scriptingVars>>
     \/ /\ part = "clients" /\ ClientsNext
        /\ UNCHANGED <<persistenceVars, keyspaceVars, scriptingVars>>
     \/ /\ part = "keyspace" /\ KeyspaceNext
        /\ UNCHANGED <<persistenceVars, clientsVars, scriptingVars>>
     \/ /\ part = "scripting" /\ ScriptingNext
        /\ UNCHANGED <<persistenceVars, clientsVars, keyspaceVars>>

Spec ==
  Init /\ [][Next]_<<part, persistenceVars, clientsVars, keyspaceVars, scriptingVars>>
=============================================================================
