--------------------------- MODULE BlockingLists ---------------------------
(* Lists and the clients that wait for them (t_list.c, and what db.c,       *)
(* sort.c, networking.c and redis.c do with both): the list commands, the   *)
(* keys and clients of blocking_keys, ready_keys and unblocked_clients, one *)
(* turn of the event loop after the other.                                  *)
(*                                                                          *)
(* A replica executes what is propagated: its lists must stay the same.     *)
EXTENDS Naturals, Integers, Sequences, FiniteSets, SequencesExt

CONSTANTS
  ListKeys, NoKey,        \* keys, and the target of a plain pop
  ListClients, NoClient,
  MaxPushed,              \* bound: elements pushed, each of them unique
  ListChances             \* bounds: how often each kind of command may run

ListChance == {"block", "two", "move", "set", "rename", "edit", "sort", "kill", "leave", "exec"}

ASSUME ListAssumption ==
  /\ NoKey \notin ListKeys /\ NoClient \notin ListClients
  /\ MaxPushed \in Nat /\ ListChances \subseteq [ListChance -> Nat]

VARIABLES
  db,         \* the dataset with blocking_keys and ready_keys
  replica,    \* the dataset of a replica, which blocks nobody
  bpop,       \* per client: alive, what it waits for, how many replies it is owed
  unblocked,  \* server.unblocked_clients
  turn,       \* the event loop: its phase, who is being processed, who was
  serving,    \* the local list and loop of handleClientsBlockedOnLists()
  pushed,     \* elements pushed so far
  chance      \* what is left of ListChances
listsVars == <<db, replica, bpop, unblocked, turn, serving, pushed, chance>>

Ends == {"head", "tail"}

Value(kind, items) == [kind |-> kind, items |-> items]
NoValue == Value("none", <<>>)
AString == Value("string", <<>>)
AList(items) == Value("list", items)

----------------------------------------------------------------------------
(* The dataset                                                              *)

IsList(d, key) == d.value[key].kind = "list"
KeyExists(d, key) == d.value[key].kind # "none"
Length(d, key) == Len(d.value[key].items)
WithValue(d, key, value) == [d EXCEPT !.value[key] = value]

(* signalListAsReady(): once, and only for a key somebody waits for.        *)
Signalled(d, key) ==
  IF d.waiting[key] = <<>> \/ key \in d.signalled THEN d
  ELSE [d EXCEPT !.ready = Append(@, key), !.signalled = @ \cup {key}]

(* dbAdd(), dbDelete() and setKey().                                        *)
DbAdd(d, key, value) ==
  IF value.kind = "list" THEN Signalled(WithValue(d, key, value), key) ELSE WithValue(d, key, value)
DbDelete(d, key) == WithValue(d, key, NoValue)
SetKey(d, key, value) ==
  IF KeyExists(d, key) THEN WithValue(d, key, value) ELSE DbAdd(d, key, value)

(* listTypePop() and listTypePush(), and a list that becomes empty.         *)
End(items, where) == IF where = "head" THEN items[1] ELSE items[Len(items)]
Popped(items, where) == IF where = "head" THEN Tail(items) ELSE Front(items)
Pushed(items, element, where) ==
  IF where = "head" THEN <<element>> \o items ELSE Append(items, element)
TrimEmpty(d, key) ==
  IF IsList(d, key) /\ Length(d, key) = 0 THEN DbDelete(d, key) ELSE d
RawPop(d, key, where) == WithValue(d, key, AList(Popped(d.value[key].items, where)))
RawPush(d, key, element, where) ==
  IF KeyExists(d, key) THEN WithValue(d, key, AList(Pushed(d.value[key].items, element, where)))
  ELSE DbAdd(d, key, AList(<<element>>))

(* The commands as functions of the dataset; one that is refused or finds   *)
(* no key changes nothing.                                                  *)
Push(d, key, elements, where) ==
  LET after[n \in 0 .. Len(elements)] ==
        IF n = 0 THEN d ELSE RawPush(after[n - 1], key, elements[n], where)
  IN  IF KeyExists(d, key) /\ ~IsList(d, key) THEN d ELSE after[Len(elements)]
Pop(d, key, where) ==
  IF IsList(d, key) THEN TrimEmpty(RawPop(d, key, where), key) ELSE d
Movable(d, key, target) == IsList(d, key) /\ (KeyExists(d, target) => IsList(d, target))
RPopLPush(d, key, target) ==
  IF ~Movable(d, key, target) THEN d
  ELSE TrimEmpty(RawPush(RawPop(d, key, "tail"), target, End(d.value[key].items, "tail"), "head"), key)
Rename(d, key, target) ==
  IF ~KeyExists(d, key) \/ key = target THEN d
  ELSE DbDelete(DbAdd(DbDelete(d, target), target, d.value[key]), key)

(* LTRIM, LREM, LSET, LINSERT: indexes from the end are negative.           *)
Index(items, i) == IF i < 0 THEN Len(items) + i ELSE i
Trimmed(items, start, end) ==
  SubSeq(items, 1 + (IF Index(items, start) < 0 THEN 0 ELSE Index(items, start)),
         IF Index(items, end) >= Len(items) THEN Len(items) ELSE Index(items, end) + 1)
Trim(d, key, start, end) ==
  IF IsList(d, key) THEN TrimEmpty(WithValue(d, key, AList(Trimmed(d.value[key].items, start, end))), key)
  ELSE d
Earlier(set, i) == {k \in set : k < i}
NthOf(set, n) == CHOOSE i \in set : Cardinality(Earlier(set, i)) = n - 1
ItemsAt(items, set) == [n \in 1 .. Cardinality(set) |-> items[NthOf(set, n)]]
Rem(d, key, count, element) ==
  IF ~IsList(d, key) THEN d
  ELSE LET items == d.value[key].items
           at    == {i \in DOMAIN items : items[i] = element}
           gone  == {i \in at : \/ count = 0
                                \/ count > 0 /\ Cardinality({j \in at : j <= i}) <= count
                                \/ count < 0 /\ Cardinality({j \in at : j >= i}) <= -count}
       IN  TrimEmpty(WithValue(d, key, AList(ItemsAt(items, DOMAIN items \ gone))), key)
LSet(d, key, i, element) ==
  IF IsList(d, key) /\ Index(d.value[key].items, i) \in 0 .. Length(d, key) - 1
  THEN WithValue(d, key, AList([d.value[key].items EXCEPT ![Index(d.value[key].items, i) + 1] = element])) ELSE d
LInsert(d, key, pivot, element, where) ==
  IF ~IsList(d, key) \/ ~\E i \in 1 .. Length(d, key) : d.value[key].items[i] = pivot THEN d
  ELSE LET items == d.value[key].items
           i     == CHOOSE i \in DOMAIN items : /\ items[i] = pivot
                                                /\ \A j \in 1 .. i - 1 : items[j] # pivot
       IN  WithValue(d, key, AList(InsertAt(items, IF where = "head" THEN i ELSE i + 1, element)))

(* SORT key STORE target, with the elements in the same order.              *)
SortStore(d, key, target) ==
  IF KeyExists(d, key) /\ ~IsList(d, key) THEN d
  ELSE IF KeyExists(d, key) THEN SetKey(d, target, d.value[key]) ELSE DbDelete(d, target)

----------------------------------------------------------------------------
(* Clients that block                                                       *)

NotWaiting == [keys |-> {}, target |-> NoKey, where |-> "head", timed |-> FALSE]
ListsInit ==
  /\ db = [value |-> [k \in ListKeys |-> NoValue], waiting |-> [k \in ListKeys |-> <<>>],
           ready |-> <<>>, signalled |-> {}]
  /\ replica = db
  /\ bpop = [c \in ListClients |-> [alive |-> TRUE, blocked |-> FALSE, flagged |-> FALSE,
                                   owed |-> 0, since |-> 0, wait |-> NotWaiting]]
  /\ unblocked = <<>>
  /\ turn = [phase |-> "files", active |-> NoClient, seen |-> {}, blocks |-> 0]
  /\ serving = [batch |-> <<>>, key |-> NoKey, left |-> 0]
  /\ pushed = 0
  /\ chance \in ListChances

(* blockForKeys(): the client is queued once for each key.                  *)
QueuedFirst(d, c, keys) ==
  [d EXCEPT !.waiting = [k \in ListKeys |-> IF k \in keys THEN <<c>> \o @[k] ELSE @[k]]]
Queued(d, c, keys) ==
  [d EXCEPT !.waiting = [k \in ListKeys |-> IF k \in keys THEN Append(@[k], c) ELSE @[k]]]
Block(c, wait) ==
  /\ db' = Queued(db, c, wait.keys)
  /\ bpop' = [bpop EXCEPT ![c] = [@ EXCEPT !.blocked = TRUE, !.wait = wait, !.owed = bpop[c].owed + 1,
                                          !.since = turn.blocks + 1]]
  /\ turn' = [turn EXCEPT !.blocks = @ + 1, !.active = NoClient]

(* unblockClientWaitingData()                                               *)
ReleasedHead(d, c) ==
  [d EXCEPT !.waiting = [k \in ListKeys |->
     IF @[k] # <<>> /\ Head(@[k]) = c THEN Tail(@[k]) ELSE @[k]]]
Released(d, c) ==
  [d EXCEPT !.waiting = [k \in ListKeys |-> RemoveFirst(@[k], c)]]
Unblocked(b) == [b EXCEPT !.blocked = FALSE, !.flagged = TRUE, !.wait = NotWaiting]
Answered(b) == [b EXCEPT !.owed = @ - 1]

----------------------------------------------------------------------------
(* Actions of the event loop                                                *)

Processing(c) == turn.active = c /\ serving.key = NoKey /\ serving.batch = <<>> /\ db.ready = <<>>
NobodyActive == turn.active = NoClient /\ serving.key = NoKey /\ serving.batch = <<>> /\ db.ready = <<>>
Uses(kind) == chance[kind] > 0 /\ chance' = [chance EXCEPT ![kind] = @ - 1]

(* readQueryFromClient(): a client whose socket is readable, once in every  *)
(* turn of the loop; nothing of what a blocked client sends is processed.   *)
ReadQuery(c) ==
  /\ turn.phase = "files" /\ NobodyActive /\ c \notin turn.seen
  /\ bpop[c].alive /\ ~bpop[c].blocked
  /\ turn' = [turn EXCEPT !.active = c, !.seen = @ \cup {c}]
  /\ UNCHANGED <<db, replica, bpop, unblocked, serving, pushed, chance>>
QueryDone ==
  /\ turn.active # NoClient /\ Processing(turn.active)
  /\ turn' = [turn EXCEPT !.active = NoClient]
  /\ UNCHANGED <<db, replica, bpop, unblocked, serving, pushed, chance>>

(* A command that changes lists, and is propagated as it is.                *)
Executes(F(_)) ==
  /\ db' = F(db) /\ replica' = F(replica)
  /\ UNCHANGED <<bpop, unblocked, turn, serving>>
PushCommand(key, where, n) ==
  /\ pushed + n <= MaxPushed /\ pushed' = pushed + n
  /\ IF n = 1 THEN UNCHANGED chance ELSE Uses("two")
  /\ Executes(LAMBDA d : Push(d, key, [i \in 1 .. n |-> pushed + i], where))
PopCommand(key, where) ==
  /\ Uses("move") /\ UNCHANGED pushed
  /\ Executes(LAMBDA d : Pop(d, key, where))
RPopLPushCommand(key, target) ==
  /\ Uses("move") /\ UNCHANGED pushed
  /\ Executes(LAMBDA d : RPopLPush(d, key, target))
SetStringCommand(key) ==
  /\ Uses("set") /\ UNCHANGED pushed
  /\ Executes(LAMBDA d : SetKey(d, key, AString))
ListRenameCommand(key, target) ==
  /\ Uses("rename") /\ UNCHANGED pushed
  /\ Executes(LAMBDA d : Rename(d, key, target))
SortStoreCommand(key, target) ==
  /\ Uses("sort") /\ UNCHANGED pushed
  /\ Executes(LAMBDA d : SortStore(d, key, target))
EditCommand(key) ==
  /\ Uses("edit") /\ Length(db, key) > 0
  /\ LET last == End(db.value[key].items, "tail")
     IN  \/ /\ UNCHANGED pushed
            /\ \E start, end \in -2 .. 1 : Executes(LAMBDA d : Trim(d, key, start, end))
         \/ /\ UNCHANGED pushed
            /\ \E count \in -1 .. 1 : Executes(LAMBDA d : Rem(d, key, count, last))
         \/ /\ pushed < MaxPushed /\ pushed' = pushed + 1
            /\ \E i \in -1 .. 1 : Executes(LAMBDA d : LSet(d, key, i, pushed + 1))
         \/ /\ pushed < MaxPushed /\ pushed' = pushed + 1
            /\ \E where \in Ends : Executes(LAMBDA d : LInsert(d, key, last, pushed + 1, where))
ListCommand(c) ==
  /\ Processing(c)
  /\ \E key \in ListKeys :
       \/ \E where \in Ends, n \in 1 .. 2 : PushCommand(key, where, n)
       \/ \E where \in Ends : PopCommand(key, where)
       \/ \E target \in ListKeys : RPopLPushCommand(key, target) \/ ListRenameCommand(key, target)
                                   \/ SortStoreCommand(key, target)
       \/ SetStringCommand(key)
       \/ EditCommand(key)

(* MULTI, a push and another command, EXEC: clients are served afterwards.  *)
ExecCommand(c, key) ==
  /\ Processing(c) /\ Uses("exec") /\ pushed < MaxPushed /\ pushed' = pushed + 1
  /\ \E where \in Ends, other \in ListKeys :
       \/ Executes(LAMBDA d : Pop(Push(d, key, <<pushed + 1>>, where), key, where))
       \/ Executes(LAMBDA d : Rename(Push(d, key, <<pushed + 1>>, where), key, other))
       \/ Executes(LAMBDA d : SetKey(Push(d, key, <<pushed + 1>>, where), key, AString))

(* BLPOP and BRPOP: the first key that has a list answers; a key that is no *)
(* list is an error; else the client waits for all of them.                 *)
FirstKey(keys) == SelectInSeq(keys, LAMBDA key : KeyExists(db, key))
BlockingPopCommand(c, keys, where, timed) ==
  LET i == FirstKey(keys)
  IN  /\ Processing(c) /\ Uses("block")
      /\ IF i = 0
         THEN /\ Block(c, [keys |-> ToSet(keys), target |-> NoKey, where |-> where, timed |-> timed])
              /\ UNCHANGED <<replica, unblocked, serving, pushed>>
         ELSE Executes(LAMBDA d : Pop(d, keys[i], where)) /\ UNCHANGED pushed
BRPopLPushCommand(c, key, target, timed) ==
  /\ Processing(c) /\ Uses("block")
  /\ IF ~KeyExists(db, key)
     THEN /\ Block(c, [keys |-> {key}, target |-> target, where |-> "tail", timed |-> timed])
          /\ UNCHANGED <<replica, unblocked, serving, pushed>>
     ELSE Executes(LAMBDA d : RPopLPush(d, key, target)) /\ UNCHANGED pushed

(* freeClient(): for a connection that was closed, or by CLIENT KILL of     *)
(* another client; one entry of unblocked_clients is removed.               *)
FreeListClient(c) ==
  LET wasBlocked == bpop[c].blocked
      queue      == IF wasBlocked THEN Append(unblocked, c) ELSE unblocked
  IN  /\ db' = IF wasBlocked THEN Released(db, c) ELSE db
      /\ bpop' = [bpop EXCEPT ![c] = [Unblocked(@) EXCEPT !.alive = FALSE, !.flagged = FALSE, !.owed = 0]]
      /\ unblocked' = IF wasBlocked \/ bpop[c].flagged THEN RemoveFirst(queue, c) ELSE queue
      /\ UNCHANGED <<replica, serving, pushed>>
Disconnects(c) ==
  /\ turn.phase = "files" /\ NobodyActive /\ c \notin turn.seen /\ bpop[c].alive
  /\ Uses("leave") /\ FreeListClient(c)
  /\ turn' = [turn EXCEPT !.seen = @ \cup {c}]
ClientKill(c) ==
  /\ turn.active \notin {c, NoClient} /\ Processing(turn.active) /\ bpop[c].alive
  /\ Uses("kill") /\ FreeListClient(c)
  /\ UNCHANGED turn

(* serverCron(): clients whose time is over.                                *)
TimersDue ==
  /\ turn.phase = "files" /\ NobodyActive
  /\ turn' = [turn EXCEPT !.phase = "cron"]
  /\ UNCHANGED <<db, replica, bpop, unblocked, serving, pushed, chance>>
TimeOut(c) ==
  /\ turn.phase = "cron" /\ bpop[c].blocked /\ bpop[c].wait.timed
  /\ db' = Released(db, c)
  /\ bpop' = [bpop EXCEPT ![c] = Answered(Unblocked(@))]
  /\ unblocked' = Append(unblocked, c)
  /\ UNCHANGED <<replica, turn, serving, pushed, chance>>

(* beforeSleep(): what unblocked clients sent while they were blocked.      *)
BeforeSleepStarts ==
  /\ turn.phase = "cron"
  /\ turn' = [turn EXCEPT !.phase = "sleep"]
  /\ UNCHANGED <<db, replica, bpop, unblocked, serving, pushed, chance>>
ProcessUnblocked ==
  /\ turn.phase = "sleep" /\ NobodyActive /\ unblocked # <<>> /\ bpop[Head(unblocked)].alive
  /\ LET c == Head(unblocked)
     IN  /\ bpop' = [bpop EXCEPT ![c].flagged = FALSE]
         /\ turn' = [turn EXCEPT !.active = IF bpop[c].blocked THEN NoClient ELSE c]
  /\ unblocked' = Tail(unblocked)
  /\ UNCHANGED <<db, replica, serving, pushed, chance>>
Wake ==
  /\ turn.phase = "sleep" /\ NobodyActive /\ unblocked = <<>>
  /\ turn' = [turn EXCEPT !.phase = "files", !.seen = {}]
  /\ UNCHANGED <<db, replica, bpop, unblocked, serving, pushed, chance>>

(* handleClientsBlockedOnLists(), after a command: the ready keys are taken *)
(* from a list that serving BRPOPLPUSH may fill again.                      *)
ServeReady ==
  /\ serving.key = NoKey /\ serving.batch = <<>> /\ db.ready # <<>>
  /\ serving' = [serving EXCEPT !.batch = db.ready]
  /\ db' = [db EXCEPT !.ready = <<>>]
  /\ UNCHANGED <<replica, bpop, unblocked, turn, pushed, chance>>
ServeKey ==
  /\ serving.key = NoKey /\ serving.batch # <<>>
  /\ LET key == Head(serving.batch)
     IN  /\ db' = [db EXCEPT !.signalled = @ \ {key}]
         /\ serving' = [batch |-> Tail(serving.batch),
                        key |-> IF IsList(db, key) THEN key ELSE NoKey,
                        left |-> Len(db.waiting[key])]
  /\ UNCHANGED <<replica, bpop, unblocked, turn, pushed, chance>>

(* serveClientBlockedOnList(): the element goes to the client, or to the    *)
(* target too, or back to its place when the target is no list.             *)
UndonePop(d, key, element, where) == RawPush(d, key, element, where)
ServeClient ==
  LET key     == serving.key
      c       == Head(db.waiting[key])
      target  == bpop[c].wait.target
      where   == bpop[c].wait.where
      element == End(db.value[key].items, where)
      rest    == Released(RawPop(db, key, where), c)
  IN  /\ key # NoKey /\ serving.left > 0 /\ Length(db, key) > 0
      /\ \/ /\ target = NoKey
            /\ db' = rest /\ replica' = Pop(replica, key, where)
         \/ /\ target # NoKey /\ (KeyExists(rest, target) => IsList(rest, target))
            /\ db' = RawPush(rest, target, element, "head")
            /\ replica' = Push(Pop(replica, key, "tail"), target, <<element>>, "head")
         \/ /\ target # NoKey /\ KeyExists(rest, target) /\ ~IsList(rest, target)
            /\ db' = UndonePop(rest, key, element, where) /\ UNCHANGED replica
      /\ bpop' = [bpop EXCEPT ![c] = Answered(Unblocked(@))]
      /\ unblocked' = Append(unblocked, c)
      /\ serving' = [serving EXCEPT !.left = @ - 1]
      /\ UNCHANGED <<turn, pushed, chance>>
ServeDone ==
  /\ serving.key # NoKey /\ (serving.left = 0 \/ Length(db, serving.key) = 0)
  /\ db' = TrimEmpty(db, serving.key)
  /\ serving' = [serving EXCEPT !.key = NoKey, !.left = 0]
  /\ UNCHANGED <<replica, bpop, unblocked, turn, pushed, chance>>

ListsNext ==
  \/ \E c \in ListClients :
       \/ ReadQuery(c) \/ ListCommand(c) \/ Disconnects(c) \/ ClientKill(c) \/ TimeOut(c)
       \/ \E key \in ListKeys : ExecCommand(c, key)
       \/ \E keys \in {s \in UNION {[1 .. n -> ListKeys] : n \in 1 .. 2} : IsInjective(s)},
            where \in Ends, timed \in BOOLEAN : BlockingPopCommand(c, keys, where, timed)
       \/ \E key, target \in ListKeys, timed \in BOOLEAN : BRPopLPushCommand(c, key, target, timed)
  \/ QueryDone \/ TimersDue \/ BeforeSleepStarts \/ ProcessUnblocked \/ Wake
  \/ ServeReady \/ ServeKey \/ ServeClient \/ ServeDone

ListsSpec == ListsInit /\ [][ListsNext]_listsVars

----------------------------------------------------------------------------
(* blocking_keys and the clients' own keys name each other, ready_keys has  *)
(* every signalled key once, and a client is owed one reply exactly while   *)
(* it is blocked, whichever of a push, a timeout and a closed connection    *)
(* comes first (blockForKeys(), unblockClientWaitingData()).                *)
WaitersAgree ==
  /\ \A c \in ListClients :
       /\ \A key \in ListKeys : (c \in ToSet(db.waiting[key])) = (key \in bpop[c].wait.keys)
       /\ bpop[c].blocked = (bpop[c].wait.keys # {})
       /\ bpop[c].owed = (IF bpop[c].blocked THEN 1 ELSE 0)
       /\ bpop[c].flagged => c \in ToSet(unblocked)
  /\ \A key \in ListKeys : IsInjective(db.waiting[key])
  /\ db.signalled = ToSet(db.ready \o serving.batch) /\ IsInjective(db.ready \o serving.batch)

(* The pops and pushes propagated for the clients that are served leave a   *)
(* replica with the lists of the master: no element is lost, delivered      *)
(* twice or put back in another place (serveClientBlockedOnList()).         *)
ReplicaHasLists == serving.key = NoKey => db.value = replica.value

(* t_list.c:768: all the clients waiting for a list that has elements are   *)
(* served after the command that pushed them, in whatever way the key came  *)
(* to hold a list.                                                          *)
NobodyWaitsForAList ==
  serving.key = NoKey /\ serving.batch = <<>> /\ db.ready = <<>> =>
    \A c \in ListClients : \A key \in bpop[c].wait.keys : ~IsList(db, key)

(* The waiting clients, the lists they wait for and the replica's lists are *)
(* in step, and nobody waits for a list that is there.                      *)
BlockingIsExact == WaitersAgree /\ ReplicaHasLists /\ NobodyWaitsForAList

(* Clients of a key are served "from the one that blocked first, to the     *)
(* last" (t_list.c:769), however many keys each of them waits for.          *)
FirstBlockedFirstServed ==
  [][\A c, other \in ListClients :
       /\ serving.key # NoKey /\ serving.key \in bpop[c].wait.keys \cap bpop[other].wait.keys
       /\ serving'.left < serving.left /\ bpop[c].blocked /\ ~bpop'[c].blocked
       => bpop[c].since <= bpop[other].since]_listsVars
=============================================================================
