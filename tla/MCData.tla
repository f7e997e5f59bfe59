------------------------------- MODULE MCData -------------------------------
(* What the server keeps its data in, side by side in one run: a behaviour  *)
(* is one of the lists that clients block on, of a hash table, a ziplist, a *)
(* sorted set, an RDB file, a query buffer, a configuration file, the bytes *)
(* of the replication backlog or HyperLogLogs.                              *)
EXTENDS BlockingLists, RedisDict, RedisZiplist, RedisZset, RedisRdb, RedisProtocol,
        RedisConfig, ReplBacklogBytes, RedisHyperloglog

CONSTANT Parts
AllParts == {"lists", "dict", "ziplist", "zset", "rdb", "protocol", "config", "backlog", "hll"}

VARIABLE part

SomeOf(kinds, given) == [k \in kinds |-> IF k \in DOMAIN given THEN given[k] ELSE 0]

----------------------------------------------------------------------------
(* Blocking lists and the hash table: how often each kind of event may      *)
(* happen. Four keys whose hashes collide in tables of one, two and four    *)
(* buckets.                                                                 *)
DataListChances == {SomeOf(ListChance, c) : c \in {
  [block |-> 2, two |-> 1],
  [block |-> 2, leave |-> 1],
  [block |-> 1, set |-> 1, exec |-> 1, leave |-> 1],
  [block |-> 1, move |-> 1, edit |-> 1, sort |-> 1],
  [block |-> 1, move |-> 1, rename |-> 1, kill |-> 1]}}

CONSTANTS k1, k2, k3, k4
FourHashes == (k1 :> 0) @@ (k2 :> 4) @@ (k3 :> 2) @@ (k4 :> 1)
DataDictChances == {SomeOf(DictChance, c) : c \in {
  [add |-> 4, delete |-> 2, iterate |-> 1, cron |-> 1],
  [add |-> 3, delete |-> 2, scan |-> 1, cron |-> 1, child |-> 1]}}

(* Ziplist and sorted set: integers of each width, strings on both sides of *)
(* the length that needs the long header; scores below, at and above the    *)
(* infinities.                                                              *)
ShortAndLong == {ZipNumber(0), ZipNumber(-3), ZipNumber(30), Str(4), Str(9)}
ThreeScores == {-2, 1, 2}
FourTowers == {<<1, 1, 1>>, <<2, 1, 2>>, <<1, 2, 1>>, <<2, 2, 1>>}
Negative == {-1}

----------------------------------------------------------------------------
(* RDB: every type in its encodings, integers on both sides of each width,  *)
(* strings on both sides of each length and of the compression.             *)
Limits(n, v) ==
  [entries |-> [t \in {"list", "set", "zset", "hash"} |-> n],
   value   |-> [t \in {"list", "set", "zset", "hash"} |-> v]]
TwoLimits == {Limits(1, 2), Limits(3, 5)}
Short(body) == Text(body, Len(body), 0)
Plain99999 == Object("hash", "ziplist", Number(1) :> Number(99999))
StringObjects ==
  {Object("string", "", t) : t \in
     {Number(n) : n \in {-8, 7, 8, -9, 127, 128, -129, 32767, 32768, -32769}}
     \cup {Text("s", n, 0) : n \in {3, 4, 5, 63, 64}}
     \cup {Text("", 0, 0), Text("s", 20, 5)}}
OtherObjects ==
  {Object("list", e, <<Number(1), Text("a", 3, 0), Number(1)>>) : e \in {"ziplist", "linkedlist"}}
  \cup {Object("set", "intset", {Number(1), Number(300)}), Object("set", "ht", {Number(1)}),
        Object("set", "ht", {Number(1), Short("a")})}
  \cup {Object("zset", e, Number(1) :> "-inf" @@ Text("a", 3, 0) :> "1.5") : e \in {"ziplist", "skiplist"}}
  \cup {Object("hash", e, Number(1) :> Number(99999) @@ Short("a") :> Text("a", 3, 0)) : e \in {"ziplist", "ht"}}
NoTime == -1
DataWrites ==
  [db : {0}, key : {Number(5)}, obj : StringObjects \cup OtherObjects, expire : {NoTime}]
  \cup [db : {5}, key : {Short("k")}, obj : {Object("string", "", Number(8)), Plain99999},
        expire : {NoTime, 0}]

----------------------------------------------------------------------------
(* Conversations: pipelined requests of both kinds, empty ones, and ones    *)
(* that are refused with others behind them.                                *)
RECURSIVE BulkArguments(_)
BulkArguments(args) ==
  IF args = <<>> THEN <<>>
  ELSE <<"$", ToString(Len(args[1])), "\r", "\n">> \o args[1] \o <<"\r", "\n">> \o BulkArguments(Tail(args))
Multi(args) == [bytes |-> <<"*", ToString(Len(args)), "\r", "\n">> \o BulkArguments(args), command |-> args]
Inline(bytes, args) == [bytes |-> bytes, command |-> args]
Wrong(bytes) == [bytes |-> bytes, command |-> Refused]
SixConversations == {
  <<Multi(<<<<"g">>, <<"\r", "\n", "*">>>>), Inline(<<"a", " ", "b", "\r", "\n">>, <<<<"a">>, <<"b">>>>),
    Multi(<<<<"x", "y", "z", "w", "v">>, <<"t">>>>)>>,
  <<Inline(<<"\r", "\n">>, <<>>), Inline(<<"*", "0", "\r", "\n">>, <<>>), Inline(<<"a", "\n">>, <<<<"a">>>>)>>,
  <<Inline(<<"a", " ", " ", "\r", "\n">>, <<<<"a">>>>), Wrong(<<"a", "'", "\r", "\n">>), Multi(<<<<"g">>>>)>>,
  <<Multi(<<<<"g">>>>), Wrong(<<"*", "1", "\r", "\n", "g", "1", "\r", "\n">>)>>,
  <<Multi(<<<<"g">>>>), Wrong(<<"*", "1", "\r", "\n", "$", "-", "1", "\r", "\n">>)>>,
  <<Multi(<<<<"g">>>>), Wrong(<<"*", "x", "\r", "\n">>), Multi(<<<<"g">>>>)>>}

(* Configuration files: repeated options, options of several lines, units,  *)
(* comments, empty lines, a signature of an earlier rewrite, quotes left    *)
(* open, a comment that is cut, an included file, commands renamed; then    *)
(* what CONFIG SET is given: each kind of option with each kind of value.   *)
Line(name, n) == Option(name, <<PlainNumber(n)>>)
LineW(name, w) == Option(name, <<Word(w)>>)
SaveLine(s, c) == Option("save", <<PlainNumber(s), PlainNumber(c)>>)
LimitLine(class, hard) == Option("client-output-buffer-limit", <<Word(class), hard, PlainNumber(0), PlainNumber(60)>>)
RenameLine(from, to) == Option("rename-command", <<Word(from), Word(to)>>)
SomeFiles == {
  <<>>,
  <<Comment("a", FALSE), Line("port", 1), Empty, SaveLine(900, 1), LineW("masterauth", ""), SaveLine(60, 5), RenameLine("get", "config2"), Line("port", 7000),
    LineW("dir", "data"), Option("slaveof", <<Word("host"), PlainNumber(1)>>), Line("slave-priority", -1)>>,
  <<RenameLine("config", ""), LimitLine("slave", Digits(2, "k")), LineW("requirepass", "pw"), LineW("requirepass", "pw2"), OpenQuotes("b"),
    LimitLine("slave", Digits(3, "mb")), Option("maxmemory", <<Digits(2, "gb")>>), Option("bind", <<Word("h1"), Word("h2")>>)>>,
  <<Option("unixsocketperm", <<PlainNumber(755)>>), Signature, SaveLine(1, 1), Empty, Empty, LineW("save", ""), SaveLine(300, 0),
    LineW("notify-keyspace-events", "KEA"), Line("hz", 0), Option("repl-backlog-size", <<Digits(1, "kb")>>)>>,
  <<Comment("long", TRUE), Option("include", <<Word("other")>>), LineW("loglevel", "debug")>>,
  <<Line("port", 70000)>>, <<SaveLine(0, 1)>>, <<LineW("appendfsync", "maybe")>>, <<LineW("dbfilename", "a/b")>>, <<RenameLine("no", "x")>>,
  <<Option("bind", <<Word("h1"), Word("h2"), Word("h3")>>)>>}
OtherFile == <<LineW("appendonly", "yes"), Line("timeout", 10)>>
TwoDirectories ==
  [p \in {<<"/", "data">>, <<"/", "/">>, <<"/", "/data">>, <<"/data", "/data">>, <<"/data", "/">>} |->
     IF p[2] = "data" THEN "/data" ELSE p[2]]
LongPassword == {<<"requirepass", "too long">>, <<"dbfilename", "a/b">>}
Tried(name, args) == [name |-> name, args |-> args]
SomeSettings ==
  {Tried(name, <<a>>) : name \in {"maxmemory", "repl-backlog-size", "repl-backlog-ttl", "auto-aof-rewrite-min-size", "hash-max-ziplist-value",
                                  "hz", "slave-priority", "slowlog-log-slower-than", "maxclients"},
     a \in {PlainNumber(n) : n \in {-1, 0, 1, 600, 2 * KB, 3 * MB, GB}} \cup {Digits(1, "kb"), Word("abc")}}
  \cup {Tried(name, <<PlainNumber(7)>>) : name \in SingleValued}
  \cup {Tried(name, <<Word(w)>>) : name \in {"appendonly", "notify-keyspace-events", "loglevel", "requirepass", "masterauth", "dbfilename", "dir"},
          w \in {"", "yes", "Ex", "debug", "too long", "a/b", "/", "/data"}}
  \cup {Tried("save", [i \in DOMAIN s |-> PlainNumber(s[i])]) : s \in {<<>>, <<5, 1>>, <<5, 1, 6, 0>>, <<5, 1, 6, 0, 7, 7>>, <<5, 1, 0, 1>>, <<5>>}}
  \cup {Tried("client-output-buffer-limit", l) : l \in {ShownLimits(DefaultLimits),
          <<Word("pubsub"), PlainNumber(1), PlainNumber(2 * KB), PlainNumber(0), Word("pubsub"), PlainNumber(3), PlainNumber(0), PlainNumber(0)>>,
          <<Word("normal"), PlainNumber(1), PlainNumber(2), PlainNumber(0), Word("slave"), PlainNumber(3), PlainNumber(-1), PlainNumber(0)>>}}
  \cup {Tried("slaveof", <<Word("no"), Word("one")>>), Tried("slaveof", <<Word("host2"), PlainNumber(2)>>), Tried("nothing", <<Word("x")>>)}

(* HyperLogLogs of eight registers of three bits, four bits to a byte:      *)
(* neighbours with equal values, values above the sparse ones, and limits   *)
(* that some of the strings outgrow.                                        *)
Hash(reg, rest) == reg + 8 * rest
SomeElements ==
  {<<>>, <<Hash(0, 1), Hash(2, 1)>>, <<Hash(1, 1)>>, <<Hash(3, 1)>>, <<Hash(1, 2)>>,
   <<Hash(6, 2), Hash(7, 2)>>, <<Hash(6, 8), Hash(7, 3)>>, <<Hash(7, 0)>>}
DataHllChances == {SomeOf(HllChance, c) : c \in {
  [pfadd |-> 3, limit |-> 1],
  [pfadd |-> 2, pfmerge |-> 1, pfcount |-> 1, limit |-> 1],
  [pfadd |-> 2, pfdebug |-> 1, ask |-> 1],
  [pfadd |-> 1, set |-> 1, del |-> 1, pfmerge |-> 1]}}
SixAndSeven == {[master |-> 6, replica |-> 7]}

----------------------------------------------------------------------------
DataSymmetry == Permutations(ListClients) \cup Permutations(ListKeys)

AnyOf(S) == CHOOSE x \in S : TRUE
BytesOf(talk) == FlattenSeq([i \in DOMAIN talk |-> talk[i].bytes])

DataInit ==
  /\ part \in Parts
  /\ ListsInit /\ DictInit /\ ZiplistInit /\ ZsetInit /\ RdbInit /\ ProtocolInit /\ ConfigInit /\ Init
  /\ HllInit
  /\ part # "lists" => chance = AnyOf(ListChances)
  /\ part # "dict" => odds = AnyOf(DictChances)
  /\ part # "rdb" => limits = AnyOf(RdbLimits) /\ master
  /\ part # "protocol" => unread = BytesOf(AnyOf(Conversations))
  /\ part # "config" => file = <<>>
  /\ part # "hll" => hllLeft = AnyOf(HllChances)
  /\ part # "backlog" => backlog = NoBacklog(AnyOf(Sizes))

DataNext ==
  /\ UNCHANGED part
  /\ \/ /\ part = "lists" /\ ListsNext
        /\ UNCHANGED <<dictVars, ziplistVars, zsetVars, rdbVars, protocolVars, configVars, backlog, hllVars>>
     \/ /\ part = "dict" /\ DictNextState
        /\ UNCHANGED <<listsVars, ziplistVars, zsetVars, rdbVars, protocolVars, configVars, backlog, hllVars>>
     \/ /\ part = "ziplist" /\ ZiplistNext
        /\ UNCHANGED <<listsVars, dictVars, zsetVars, rdbVars, protocolVars, configVars, backlog, hllVars>>
     \/ /\ part = "zset" /\ ZsetNext
        /\ UNCHANGED <<listsVars, dictVars, ziplistVars, rdbVars, protocolVars, configVars, backlog, hllVars>>
     \/ /\ part = "rdb" /\ RdbNext
        /\ UNCHANGED <<listsVars, dictVars, ziplistVars, zsetVars, protocolVars, configVars, backlog, hllVars>>
     \/ /\ part = "protocol" /\ ProtocolNext
        /\ UNCHANGED <<listsVars, dictVars, ziplistVars, zsetVars, rdbVars, configVars, backlog, hllVars>>
     \/ /\ part = "config" /\ ConfigNext
        /\ UNCHANGED <<listsVars, dictVars, ziplistVars, zsetVars, rdbVars, protocolVars, backlog, hllVars>>
     \/ /\ part = "backlog" /\ Next
        /\ UNCHANGED <<listsVars, dictVars, ziplistVars, zsetVars, rdbVars, protocolVars, configVars, hllVars>>
     \/ /\ part = "hll" /\ HllNext
        /\ UNCHANGED <<listsVars, dictVars, ziplistVars, zsetVars, rdbVars, protocolVars, configVars, backlog>>

DataSpec ==
  DataInit /\ [][DataNext]_<<part, listsVars, dictVars, ziplistVars, zsetVars, rdbVars,
                             protocolVars, configVars, backlog, hllVars>>

----------------------------------------------------------------------------
(* The invariants of each part, in the behaviours of that part.             *)

(* Lookups, iterators and SCAN, over a table that is being rehashed.        *)
DictIsComplete ==
  part = "dict" => TablesHoldContent /\ IterationIsComplete /\ ScanSurvivesRehash

(* The bytes of a ziplist are a list in both directions, and the owner's.   *)
ZiplistIsExact == part = "ziplist" => ZiplistReadsBothWays /\ ZiplistKeepsValues

(* The structure is a sorted set, and every way of reading it agrees.       *)
SortedSetIsExact == part = "zset" => SortedSetIsInOrder /\ RanksAndRangesAgree

(* What is saved is what is loaded, or nothing is.                          *)
RdbIsExact == part = "rdb" => RdbIsDataset

(* A client's requests are executed as it sent them.                        *)
RequestsAreThoseSent == part = "protocol" => CommandsAreThoseSent

(* The file gives the configuration that was rewritten last, and CONFIG SET *)
(* takes what CONFIG GET shows.                                             *)
ConfigIsExact == part = "config" => ConfigSurvivesRewrite /\ GetThenSetIsNothing

(* The two loops over the bytes of the backlog are the operations of        *)
(* ReplBacklog on them, one by one.                                         *)
LoopsAreExact == part = "backlog" => LoopIsIteratedFeed /\ RunsAreTail

(* A HyperLogLog in any encoding is the one of its elements, on the master  *)
(* and on the replica, and PFCOUNT's reply is the estimate for them.        *)
HllIsExact ==
  part = "hll" =>
    RegistersAreThoseSeen /\ EncodingsAreSound /\ CountsAreOfUnion /\ ReplicaHasSameHll
=============================================================================
