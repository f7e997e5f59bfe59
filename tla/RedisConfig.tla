---------------------------- MODULE RedisConfig ----------------------------
(***************************************************************************)
(* The configuration (config.c): the file is loaded at the start, CONFIG   *)
(* SET changes options while the server runs, CONFIG GET shows them and    *)
(* CONFIG REWRITE puts them back in the file: each option takes the lines  *)
(* that already name it, in their order, or is appended if it has not its  *)
(* default value; lines left over are blanked, and what is not understood  *)
(* is kept. Every option has its row in a table; a line is the name of a   *)
(* directive and its arguments, split (sdssplitargs).                      *)
(***************************************************************************)
EXTENDS Integers, Sequences, FiniteSets, SequencesExt

CONSTANTS Options,      \* the options that rewriteConfig() writes, one row each: OptionTable
          Unset, NotSaved, \* NULL, of an option that is a string
          Fatal,        \* the server says what is wrong in the file and exits
          LaunchDir,    \* where it is started
          Directories,  \* what chdir() finds: [<<directory, path>> -> directory]
          CommandNames, \* of the commands that can be renamed
          RefusedWords, \* paths that are no base names, a password too long: <<option, word>>
          BindMax,      \* REDIS_BINDADDR_MAX
          Included,     \* the lines of a file to include
          ConfigFiles,  \* the files somebody may have written
          SettingsTried, \* of CONFIG SET, and SLAVEOF: [name, args]
          MaxChanges    \* a bound: of CONFIG SET, SLAVEOF and edits of the file
ASSUME ConfigAssumption ==
  /\ BindMax \in Nat \ {0} /\ MaxChanges \in Nat
  /\ \A s \in SettingsTried : DOMAIN s = {"name", "args"}

VARIABLES file,    \* a sequence of lines
          config,  \* what the server runs with: the value of each option
          saved,   \* what the file has to give, or NotSaved
          padded,  \* whether the file is still to be truncated
          changes  \* their number
configVars == <<file, config, saved, padded, changes>>

---------------------------------------------------------------------------
(* Arguments: a number with what follows it, or a word. Lines: a comment   *)
(* may be longer than REDIS_CONFIGLINE_MAX, quotes may be unbalanced.      *)

Digits(n, unit) == [number |-> TRUE, n |-> n, rest |-> unit]
PlainNumber(n) == Digits(n, "")
Word(w) == [number |-> FALSE, n |-> 0, rest |-> w]

Comment(text, long) == [kind |-> "comment", text |-> text, long |-> long]
Signature == Comment("Generated by CONFIG REWRITE", FALSE)
Empty == [kind |-> "empty"]
OpenQuotes(text) == [kind |-> "open quotes", text |-> text]
Option(name, args) == [kind |-> "option", name |-> name, args |-> args]

\* atoi() and strtoll() ignore what follows, getLongLongFromObject() does not
Atoi(a) == a.n
IsLongLong(a) == a.number /\ a.rest = ""
\* memtoll() and rewriteConfigFormatMemory()
KB == 1024
MB == 1024 * 1024
GB == 1024 * 1024 * 1024
Multiplier(unit) ==
  CASE unit = "k" -> 1000 [] unit = "kb" -> KB [] unit = "m" -> 1000000 [] unit = "mb" -> MB
    [] unit = "g" -> 1000000000 [] unit = "gb" -> GB [] OTHER -> 1
Memtoll(a) == a.n * Multiplier(a.rest)
FormatMemory(n) ==
  CASE n # 0 /\ n % GB = 0 -> Digits(n \div GB, "gb")
    [] n # 0 /\ n % GB # 0 /\ n % MB = 0 -> Digits(n \div MB, "mb")
    [] n # 0 /\ n % MB # 0 /\ n % KB = 0 -> Digits(n \div KB, "kb")
    [] OTHER -> PlainNumber(n)
\* strtol(.., 8) and %o, of numbers of at most four octal digits
FromOctal(d) == 512 * (d \div 1000) + 64 * ((d \div 100) % 10) + 8 * ((d \div 10) % 10) + (d % 10)
ToOctal(n) == 1000 * (n \div 512) + 100 * ((n \div 64) % 8) + 10 * ((n \div 8) % 8) + (n % 8)

---------------------------------------------------------------------------
(* The options that have one value, in the order of rewriteConfig(): how   *)
(* it is read from the file and written to it, the least value the file    *)
(* and CONFIG SET accept, and whether CONFIG SET knows the option. Others  *)
(* have operators of their own. A word stands for the value it sets.       *)

Lowest == -2147483647
Highest == 2147483647
Row(name, reads, writes, default, words, least, setLeast) ==
  [name |-> name, reads |-> reads, writes |-> writes, default |-> default, words |-> words,
   least |-> least, setLeast |-> setLeast]
NoSet == Highest  \* as the least value: CONFIG SET does not know the option
OneOf(w) == [x \in w |-> x]
Bool(name, default, setLeast) == Row(name, "word", "word", default, OneOf({"yes", "no"}), 0, setLeast)
Enum(name, default, words, setLeast) == Row(name, "word", "word", default, words, 0, setLeast)
Num(name, default, least, setLeast) == Row(name, "int", "int", default, <<>>, least, setLeast)
Sized(name, reads, writes, default, least, setLeast) == Row(name, reads, writes, default, <<>>, least, setLeast)
String(name, default, setLeast) == Row(name, "string", "string", default, <<>>, 0, setLeast)
Own(name) == Row(name, "own", "own", Unset, <<>>, 0, NoSet)

EventWords == [w \in {"", "AKE", "KEA", "xE", "Ex"} |-> \* keyspaceEventsStringToFlags(), and back
                 CASE w = "KEA" -> "AKE" [] w = "Ex" -> "xE" [] OTHER -> w]
Facilities == OneOf({"user", "local0", "local1", "local2", "local3", "local4", "local5", "local6", "local7"})
Policies == OneOf({"volatile-lru", "allkeys-lru", "volatile-random", "allkeys-random", "volatile-ttl", "noeviction"})

OptionTable == <<
  Bool("daemonize", "no", NoSet),
  String("pidfile", "/var/run/redis.pid", NoSet),
  Num("port", 6379, 0, NoSet),
  Num("tcp-backlog", 511, 0, NoSet),
  Own("bind"),
  String("unixsocket", Unset, NoSet),
  Row("unixsocketperm", "octal", "octal", 0, <<>>, 0, NoSet),
  Num("timeout", 0, 0, 0),
  Num("tcp-keepalive", 0, 0, 0),
  Enum("loglevel", "notice", OneOf({"debug", "verbose", "notice", "warning"}), 0),
  String("logfile", "", NoSet),
  Bool("syslog-enabled", "no", NoSet),
  String("syslog-ident", "redis", NoSet),
  Enum("syslog-facility", "local0", Facilities, NoSet),
  Own("save"),
  Num("databases", 16, 1, NoSet),
  Bool("stop-writes-on-bgsave-error", "yes", 0),
  Bool("rdbcompression", "yes", 0),
  Bool("rdbchecksum", "yes", NoSet),
  String("dbfilename", "dump.rdb", 0),
  Own("dir"),
  Own("slaveof"),
  String("masterauth", Unset, 0),
  Bool("slave-serve-stale-data", "yes", 0),
  Bool("slave-read-only", "yes", 0),
  Num("repl-ping-slave-period", 10, 1, 1),
  Num("repl-timeout", 60, 1, 1),
  Sized("repl-backlog-size", "bytes", "bytes", MB, 1, 1),
  Sized("repl-backlog-ttl", "int", "bytes", 3600, 0, 0),
  Bool("repl-disable-tcp-nodelay", "no", 0),
  Bool("repl-diskless-sync", "no", 0),
  Num("repl-diskless-sync-delay", 5, 0, 0),
  Num("slave-priority", 100, Lowest, 0),
  Num("min-slaves-to-write", 0, 0, 0),
  Num("min-slaves-max-lag", 10, 0, 0),
  String("requirepass", Unset, 0),
  Num("maxclients", 10000, 1, 1),
  Sized("maxmemory", "bytes", "bytes", 0, Lowest, 0),
  Enum("maxmemory-policy", "volatile-lru", Policies, 0),
  Num("maxmemory-samples", 3, 1, 1),
  Bool("appendonly", "no", 0),
  String("appendfilename", "appendonly.aof", NoSet),
  Enum("appendfsync", "everysec", OneOf({"everysec", "always", "no"}), 0),
  Bool("no-appendfsync-on-rewrite", "no", 0),
  Num("auto-aof-rewrite-percentage", 100, 0, 0),
  Sized("auto-aof-rewrite-min-size", "bytes", "bytes", 64 * MB, Lowest, 0),
  Num("lua-time-limit", 5000, Lowest, 0),
  Num("slowlog-log-slower-than", 10000, Lowest, Lowest),
  Num("latency-monitor-threshold", 0, 0, 0),
  Num("slowlog-max-len", 128, Lowest, 0),
  Enum("notify-keyspace-events", "", EventWords, 0),
  Sized("hash-max-ziplist-entries", "bytes", "int", 512, Lowest, 0),
  Sized("hash-max-ziplist-value", "bytes", "int", 64, Lowest, 0),
  Sized("list-max-ziplist-entries", "bytes", "int", 512, Lowest, 0),
  Sized("list-max-ziplist-value", "bytes", "int", 64, Lowest, 0),
  Sized("set-max-intset-entries", "bytes", "int", 512, Lowest, 0),
  Sized("zset-max-ziplist-entries", "bytes", "int", 128, Lowest, 0),
  Sized("zset-max-ziplist-value", "bytes", "int", 64, Lowest, 0),
  Sized("hll-sparse-max-bytes", "bytes", "int", 3000, Lowest, 0),
  Bool("activerehashing", "yes", NoSet),
  Own("client-output-buffer-limit"),
  Num("hz", 10, Lowest, 0),
  Bool("aof-rewrite-incremental-fsync", "yes", 0),
  Bool("aof-load-truncated", "yes", 0)>>

Rewritten == {Options[i].name : i \in DOMAIN Options}
RowOf == [name \in Rewritten |-> CHOOSE r \in ToSet(Options) : r.name = name]
SingleValued == {name \in Rewritten : RowOf[name].reads # "own"}

---------------------------------------------------------------------------
(* Loading. A line that is wrong ends the server.                          *)

Clamped(name, v) ==
  CASE name = "hz" /\ v < 1 -> 1
    [] name = "hz" /\ v > 500 -> 500
    [] name = "repl-backlog-size" /\ v < 16 * KB -> 16 * KB
    [] OTHER -> v
Most(name) == CASE name = "port" -> 65535 [] name = "unixsocketperm" -> 511 [] OTHER -> Highest
NumberOf(row, a) ==
  CASE row.reads = "bytes" -> Memtoll(a) [] row.reads = "octal" -> FromOctal(a.n) [] OTHER -> Atoi(a)
LoadWord(row, a) == IF ~a.number /\ a.rest \in DOMAIN row.words THEN row.words[a.rest] ELSE Fatal
LoadText(row, a) == IF <<row.name, a.rest>> \in RefusedWords THEN Fatal ELSE a.rest
LoadNumber(row, a) ==
  IF NumberOf(row, a) < row.least \/ NumberOf(row, a) > Most(row.name) THEN Fatal
  ELSE Clamped(row.name, NumberOf(row, a))
LoadValue(row, a) ==
  CASE row.reads = "word" -> LoadWord(row, a)
    [] row.reads = "string" -> LoadText(row, a)
    [] OTHER -> LoadNumber(row, a)

\* appendServerSaveParams(), resetServerSaveParams(); of one word that is not "", nothing is said
LoadSave(points, args) ==
  CASE Len(args) = 2 -> IF Atoi(args[1]) < 1 \/ Atoi(args[2]) < 0 THEN Fatal
                        ELSE Append(points, <<Atoi(args[1]), Atoi(args[2])>>)
    [] args = <<Word("")>> -> <<>>
    [] OTHER -> points
Classes == <<"normal", "slave", "pubsub">>
DefaultLimits == [c \in ToSet(Classes) |->
  CASE c = "normal" -> <<0, 0, 0>>
    [] c = "slave" -> <<256 * MB, 64 * MB, 60>>
    [] c = "pubsub" -> <<32 * MB, 8 * MB, 60>>]
LoadLimit(limits, args) ==
  IF args[1].rest \notin DOMAIN limits \/ Atoi(args[4]) < 0 THEN Fatal
  ELSE [limits EXCEPT ![args[1].rest] = <<Memtoll(args[2]), Memtoll(args[3]), Atoi(args[4])>>]
\* server.commands; "" removes the command
RenameCommand(commands, from, to) ==
  LET others == [n \in DOMAIN commands \ {from} |-> commands[n]]
  IN CASE from \notin DOMAIN commands -> Fatal
       [] from \in DOMAIN commands /\ to = "" -> others
       [] from \in DOMAIN commands /\ to # "" /\ to \in DOMAIN others -> Fatal
       [] OTHER -> [n \in DOMAIN others \cup {to} |-> IF n = to THEN commands[from] ELSE others[n]]
Chdir(cwd, path) == IF <<cwd, path>> \in DOMAIN Directories THEN Directories[<<cwd, path>>] ELSE Fatal

\* What the directive gives its option
NewValue(conf, line) ==
  LET args == line.args  n == Len(args)  old == conf[line.name]
  IN CASE line.name \in SingleValued /\ n = 1 -> LoadValue(RowOf[line.name], args[1])
       [] line.name = "bind" /\ n \in 1..BindMax -> [i \in 1..n |-> args[i].rest]
       [] line.name = "save" -> LoadSave(old, args)
       [] line.name = "dir" /\ n = 1 -> Chdir(old, args[1].rest)
       [] line.name = "slaveof" /\ n = 2 -> <<args[1].rest, Atoi(args[2])>>
       [] line.name = "client-output-buffer-limit" /\ n = 4 -> LoadLimit(old, args)
       [] line.name = "rename-command" /\ n = 2 -> RenameCommand(old, args[1].rest, args[2].rest)
       [] OTHER -> Fatal
With(conf, name, v) == IF v = Fatal THEN Fatal ELSE [conf EXCEPT ![name] = v]
Directive(conf, line) ==
  CASE line.kind \in {"comment", "empty"} -> conf
    [] line.kind = "option" /\ line.name \in DOMAIN conf -> With(conf, line.name, NewValue(conf, line))
    [] OTHER -> Fatal
\* The directives of the included file, which includes no other, are executed there
LoadIncluded(conf) ==
  FoldLeft(LAMBDA before, line : IF before = Fatal THEN Fatal ELSE Directive(before, line), conf, Included)
Defaults ==
  [name \in Rewritten \cup {"rename-command"} |->
     CASE name \in SingleValued -> RowOf[name].default
       [] name = "dir" -> LaunchDir
       [] name = "slaveof" -> Unset
       [] name = "client-output-buffer-limit" -> DefaultLimits
       [] name = "rename-command" -> [c \in CommandNames |-> c]
       [] OTHER -> <<>>] \* no address, and no save point when there is a file
LoadLine(conf, line) ==
  IF line.kind = "option" /\ line.name = "include" THEN LoadIncluded(conf) ELSE Directive(conf, line)
LoadServerConfig(f) ==
  FoldLeft(LAMBDA before, line : IF before = Fatal THEN Fatal ELSE LoadLine(before, line), Defaults, f)

---------------------------------------------------------------------------
(* CONFIG SET: what it may make of the configuration, which is what it was *)
(* when the option is unknown, an argument refused, or the system fails.   *)

Settable(name) == name \in SingleValued /\ RowOf[name].setLeast # NoSet
SystemMayRefuse(conf, name, v) ==
  \/ name = "maxclients" /\ v > conf[name]  \* the limit of open files, the event loop
  \/ name = "appendonly" /\ v = "yes" /\ conf[name] = "no"  \* startAppendOnly()
SetValue(row, a) ==
  CASE row.reads = "word" -> LoadWord(row, a)
    [] row.reads = "string" ->
         IF a = Word("") /\ row.name \in {"requirepass", "masterauth"} THEN Unset ELSE LoadText(row, a)
    [] OTHER -> IF IsLongLong(a) /\ a.n >= row.setLeast THEN Clamped(row.name, a.n) ELSE Fatal

\* All the save points, or all the classes, or none
SavePoints(args) == [i \in 1..(Len(args) \div 2) |-> <<args[2 * i - 1].n, args[2 * i].n>>]
SavePointsOk(args) ==
  /\ Len(args) % 2 = 0
  /\ \A i \in DOMAIN args : IsLongLong(args[i]) /\ args[i].n >= (IF i % 2 = 1 THEN 1 ELSE 0)
LimitsOk(args) ==
  /\ Len(args) % 4 = 0
  /\ \A i \in DOMAIN args :
       IF i % 4 = 1 THEN args[i].rest \in DOMAIN DefaultLimits ELSE IsLongLong(args[i]) /\ args[i].n >= 0
SetLimits(limits, args) == \* the last mention of a class counts
  LET mentions(c) == {i \in DOMAIN args : i % 4 = 1 /\ args[i].rest = c}
      last(c) == CHOOSE i \in mentions(c) : \A j \in mentions(c) : j <= i
  IN [c \in DOMAIN limits |->
        IF mentions(c) = {} THEN limits[c]
        ELSE <<args[last(c) + 1].n, args[last(c) + 2].n, args[last(c) + 3].n>>]

Results(conf, name, v) ==
  IF v = Fatal THEN {conf}
  ELSE {[conf EXCEPT ![name] = v]} \cup IF SystemMayRefuse(conf, name, v) THEN {conf} ELSE {}
SetResults(conf, name, args) ==
  CASE Settable(name) -> Results(conf, name, SetValue(RowOf[name], args[1]))
    [] name = "save" -> Results(conf, name, IF SavePointsOk(args) THEN SavePoints(args) ELSE Fatal)
    [] name = "client-output-buffer-limit" ->
         Results(conf, name, IF LimitsOk(args) THEN SetLimits(conf[name], args) ELSE Fatal)
    [] name = "dir" -> Results(conf, name, Chdir(conf[name], args[1].rest))
    [] OTHER -> {conf}
\* replicationSetMaster() and replicationUnsetMaster()
Slaveof(conf, args) ==
  {[conf EXCEPT !["slaveof"] = IF args[1].rest = "no" THEN Unset ELSE <<args[1].rest, args[2].n>>]}

(* CONFIG GET: the arguments it shows, as CONFIG SET takes them            *)

ShownValue(row, v) ==
  CASE row.reads = "word" -> Word(v)
    [] row.reads = "string" -> Word(IF v = Unset THEN "" ELSE v)
    [] row.reads = "octal" -> PlainNumber(ToOctal(v))
    [] OTHER -> PlainNumber(v)
ShownSave(points) ==
  [i \in 1..(2 * Len(points)) |-> PlainNumber(points[(i + 1) \div 2][IF i % 2 = 1 THEN 1 ELSE 2])]
ShownLimits(limits) ==
  FlattenSeq([i \in DOMAIN Classes |->
    <<Word(Classes[i])>> \o [k \in 1..3 |-> PlainNumber(limits[Classes[i]][k])]])
ConfigGet(conf, name) ==
  CASE name \in SingleValued -> <<ShownValue(RowOf[name], conf[name])>>
    [] name = "save" -> ShownSave(conf[name])
    [] name = "client-output-buffer-limit" -> ShownLimits(conf[name])
    [] name = "dir" -> <<Word(conf[name])>>

---------------------------------------------------------------------------
(* CONFIG REWRITE: the lines of the old file, the lines that rewriteConfig() *)
(* asks for each option, which use those of the option in their order, and   *)
(* the blanks of those left over.                                            *)

\* fgets() cuts a long line in two; the second part has no mark of a comment.
\* A line that cannot be split becomes a comment
Pieces(line) ==
  CASE line.kind = "comment" /\ line.long -> <<[line EXCEPT !.long = FALSE], Option(line.text, <<>>)>>
    [] line.kind = "open quotes" -> <<Comment(line.text, FALSE)>>
    [] OTHER -> <<line>>
ReadOldFile(f) == FlattenSeq([i \in DOMAIN f |-> Pieces(f[i])])
\* option_to_line
LinesOf(lines, name) == {i \in DOMAIN lines : lines[i].kind = "option" /\ lines[i].name = name}

\* A call of rewriteConfigRewriteLine()
Asked(name, args, force) == [line |-> Option(name, args), force |-> force]
WrittenValue(row, v) ==
  CASE row.writes \in {"word", "string"} -> Word(v)
    [] row.writes = "bytes" -> FormatMemory(v)
    [] row.writes = "octal" -> PlainNumber(ToOctal(v))
    [] row.writes = "int" -> PlainNumber(v)
RewriteValue(row, v) ==
  IF row.writes = "string" /\ v = Unset THEN <<>> ELSE <<Asked(row.name, <<WrittenValue(row, v)>>, v # row.default)>>
RewriteSave(points) ==
  [i \in DOMAIN points |-> Asked("save", <<PlainNumber(points[i][1]), PlainNumber(points[i][2])>>, TRUE)]
RewriteDir(cwd) == <<Asked("dir", <<Word(cwd)>>, TRUE)>>
RewriteSlaveof(of) ==
  IF of = Unset THEN <<>> ELSE <<Asked("slaveof", <<Word(of[1]), PlainNumber(of[2])>>, TRUE)>>
RewriteBind(addresses) ==
  IF addresses = <<>> THEN <<>> ELSE <<Asked("bind", [i \in DOMAIN addresses |-> Word(addresses[i])], TRUE)>>
RewriteLimits(limits) ==
  [i \in DOMAIN Classes |->
     LET limit == limits[Classes[i]]
     IN Asked("client-output-buffer-limit",
              <<Word(Classes[i]), FormatMemory(limit[1]), FormatMemory(limit[2]), PlainNumber(limit[3])>>,
              limit # DefaultLimits[Classes[i]])]
RewriteOption(row, v) ==
  CASE row.name = "save" -> RewriteSave(v)
    [] row.name = "dir" -> RewriteDir(v)
    [] row.name = "slaveof" -> RewriteSlaveof(v)
    [] row.name = "bind" -> RewriteBind(v)
    [] row.name = "client-output-buffer-limit" -> RewriteLimits(v)
    [] OTHER -> RewriteValue(row, v)

\* rewriteConfigRewriteLine(): the k-th line asked for takes the place of the k-th
\* line of the option, which whose turn it is tells; when there is none it is
\* appended, if it is forced
TurnOf(lines, i) == Cardinality({j \in LinesOf(lines, lines[i].name) : j <= i})
Reused(asked, lines, i) == TurnOf(lines, i) <= Len(asked[lines[i].name])
AppendedFor(asked, lines, name) ==
  LET beyond == SubSeq(asked[name], Cardinality(LinesOf(lines, name)) + 1, Len(asked[name]))
      forced == SelectSeq(beyond, LAMBDA a : a.force)
  IN [i \in DOMAIN forced |-> forced[i].line]
Appended(asked, lines) ==
  LET new == FlattenSeq([i \in DOMAIN Options |-> AppendedFor(asked, lines, Options[i].name)])
      tail == \E i \in DOMAIN lines : lines[i] = Signature
  IN IF new = <<>> \/ tail THEN new ELSE <<Signature>> \o new

\* The lines of the options rewritten that none of them needed
OrphanedNone(asked, lines) == {}
Orphaned(asked, lines) ==
  {i \in DOMAIN lines :
     lines[i].kind = "option" /\ lines[i].name \in Rewritten /\ ~Reused(asked, lines, i)}
RewriteLines(asked, lines) ==
  LET orphans == Orphaned(asked, lines)
  IN [i \in DOMAIN lines |->
        CASE i \in orphans -> Empty
          [] i \notin orphans /\ lines[i].kind = "option" /\ lines[i].name \in Rewritten /\ Reused(asked, lines, i) ->
               asked[lines[i].name][TurnOf(lines, i)].line
          [] OTHER -> lines[i]]
\* A cluster of empty lines becomes one
GetContent(lines) ==
  LET kept == SelectSeq([i \in DOMAIN lines |-> i], LAMBDA i : ~(lines[i] = Empty /\ i > 1 /\ lines[i - 1] = Empty))
  IN [k \in DOMAIN kept |-> lines[kept[k]]]
Content(asked, lines) == GetContent(RewriteLines(asked, lines) \o Appended(asked, lines))
NewContent ==
  Content([name \in Rewritten |-> RewriteOption(RowOf[name], config[name])], ReadOldFile(file))

---------------------------------------------------------------------------
(* The server. While the content is shorter than the old file it is        *)
(* followed by one more end of line and by #s, until the file is           *)
(* truncated; the server may stop before, and ftruncate() may fail. When   *)
(* write() fails the file is what it was.                                  *)

Padding == Comment("####", FALSE)
\* What CONFIG REWRITE is to keep: comments, and what it does not understand
IsKept(line) ==
  \/ line.kind = "comment" /\ line \notin {Padding, Signature}
  \/ line.kind = "open quotes"
  \/ line.kind = "option" /\ line.name \notin Rewritten
KeptLines(f) ==
  LET kept == SelectSeq(f, IsKept)
  IN [i \in DOMAIN kept |-> IF kept[i].kind = "open quotes" THEN Comment(kept[i].text, FALSE) ELSE kept[i]]
RewritableLines(f) ==
  \A i \in DOMAIN f :
    /\ f[i].kind = "comment" => ~f[i].long
    /\ f[i].kind = "option" => f[i].name \in Rewritten \cup {"rename-command"}
\* Files that can be rewritten so that they give the configuration: no comment is
\* cut, there is no directive the server does not know, and no included file, and
\* the commands renamed exist
Rewritable(f) ==
  /\ LoadServerConfig(SelectSeq(f, LAMBDA line : line.kind = "option" /\ line.name = "rename-command")) # Fatal
  /\ RewritableLines(f)

ConfigInit ==
  /\ file \in ConfigFiles
  /\ config = LoadServerConfig(file) /\ config # Fatal
  /\ saved = NotSaved
  /\ padded = 0 /\ changes = 0

ConfigSet ==
  /\ padded = 0
  /\ changes < MaxChanges /\ changes' = changes + 1
  /\ \E s \in SettingsTried :
       config' \in IF s.name = "slaveof" THEN Slaveof(config, s.args) ELSE SetResults(config, s.name, s.args)
  /\ UNCHANGED <<file, saved, padded>>
\* Somebody else writes the file, or removes it
EditFile ==
  /\ padded = 0
  /\ changes < MaxChanges /\ changes' = changes + 1
  /\ file' \in ConfigFiles
  /\ saved' = NotSaved
  /\ UNCHANGED <<config, padded>>
ConfigRewrite ==
  /\ padded = 0
  /\ \E content \in {NewContent}, shorter \in 0..2 :
       /\ shorter = 2 => Padding \notin ToSet(file) \* a bound: one padding is left behind
       /\ file' = content \o SubSeq(<<Empty, Padding>>, 1, shorter)
       /\ padded' = shorter
  /\ saved' = IF Rewritable(file) THEN [config |-> config, kept |-> KeptLines(file)] ELSE NotSaved
  /\ UNCHANGED <<config, changes>>
Truncate ==
  /\ padded > 0
  /\ file' \in {file, SubSeq(file, 1, Len(file) - padded)}
  /\ padded' = 0
  /\ UNCHANGED <<config, saved, changes>>
\* Stopped at any time, and started again
Restart ==
  /\ config' = LoadServerConfig(file) /\ config' # Fatal
  /\ padded' = 0
  /\ UNCHANGED <<file, saved, changes>>
ConfigNext == ConfigSet \/ EditFile \/ ConfigRewrite \/ Truncate \/ Restart
ConfigSpec == ConfigInit /\ [][ConfigNext]_configVars

---------------------------------------------------------------------------
(* The file gives the configuration that was rewritten last, whenever the  *)
(* server is stopped, and whatever lines it had: options repeated, of      *)
(* several lines, or unknown to CONFIG REWRITE, which are kept with the    *)
(* comments. What is appended is marked as such once. The exception is     *)
(* repl-backlog-ttl, which is written with a unit and read without one.    *)
Reloaded(name, v) ==
  IF name = "repl-backlog-ttl" /\ v # 0 /\ v % KB = 0 THEN FormatMemory(v).n ELSE v
ConfigSurvivesRewrite ==
  saved # NotSaved =>
    /\ \E loaded \in {LoadServerConfig(file)} :
         loaded # Fatal /\ \A name \in Rewritten : loaded[name] = Reloaded(name, saved.config[name])
    /\ KeptLines(file) = saved.kept
    /\ Cardinality({i \in DOMAIN file : file[i] = Signature}) <= 1

(* CONFIG SET of what CONFIG GET shows changes nothing, in any             *)
(* configuration a file or CONFIG SET can give. The exception is an empty  *)
(* password, which is one in the file, and none for CONFIG SET.            *)
GetThenSetIsNothing ==
  \A name \in {n \in Rewritten : Settable(n)} \cup {"save", "client-output-buffer-limit", "dir"} :
    \/ SetResults(config, name, ConfigGet(config, name)) = {config}
    \/ name \in {"requirepass", "masterauth"} /\ config[name] = ""
=============================================================================
