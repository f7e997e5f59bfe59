-------------------------- MODULE RedisMulti_proofs --------------------------
(***************************************************************************)
(* Proofs about MULTI/EXEC/WATCH: for any clients, databases, keys, values *)
(* and commands, and transactions of any length.                           *)
(***************************************************************************)
EXTENDS RedisMultiProps, FiniteSetTheorems, TLAPS

ReplicaType == [shown : Dataset, block : Dataset, open : {0, 1}]

-----------------------------------------------------------------------------
(* The commands as functions.                                              *)

(* A command takes a dataset to a dataset. *)
LEMMA AfterType ==
    ASSUME NEW cmd \in Command, NEW d \in Dbs, NEW D \in Dataset
    PROVE  After(cmd, d, D) \in Dataset
<1>1. Place(cmd, d) \in Places /\ PlaceTo(cmd) \in Places
  BY DEF Place, PlaceTo, Places, Command
<1>2. cmd.val \in Values
  BY DEF Command
<1>3. CASE cmd.op = "set"
  BY <1>1, <1>2, <1>3 DEF After, Moves, Dataset
<1>4. CASE cmd.op = "del"
  BY <1>1, <1>4 DEF After, Moves, Dataset
<1>5. CASE cmd.op = "flushdb"
  BY <1>5 DEF After, Moves, Dataset
<1>6. CASE Moves(cmd, d, D)
  BY <1>1, <1>6 DEF After, Dataset, Moves
<1>7. CASE cmd.op \notin {"set", "del", "flushdb"} /\ ~Moves(cmd, d, D)
  BY <1>7 DEF After, Moves
<1> QED
  BY <1>3, <1>4, <1>5, <1>6, <1>7

(* What is held of a dataset is a finite set, so its size is a number. *)
LEMMA HeldFinite ==
    ASSUME NEW d, NEW D
    PROVE  IsFiniteSet(Held(d, D))
<1>1. IsFiniteSet(Places)
  BY MultiAssumption, FS_Product DEF Places
<1>2. Held(d, D) \subseteq Places
  BY DEF Held
<1> QED
  BY <1>1, <1>2, FS_Subset

(* server.dirty grows by a number. *)
LEMMA DirtiedNat ==
    ASSUME NEW cmd \in Command, NEW d \in Dbs, NEW D \in Dataset
    PROVE  Dirtied(cmd, d, D) \in Nat
<1>1. Cardinality(Held(d, D)) \in Nat
  BY HeldFinite, FS_CardinalityType
<1> QED
  BY <1>1 DEF Dirtied

(* A command that adds nothing to server.dirty has changed nothing: it     *)
(* needs no propagation.                                                   *)
LEMMA CleanUnchanged ==
    ASSUME NEW cmd \in Command, NEW d \in Dbs, NEW D \in Dataset,
           Dirtied(cmd, d, D) = 0
    PROVE  After(cmd, d, D) = D
<1>1. cmd.op # "set"
  BY DEF Dirtied
<1>2. CASE cmd.op = "del"
  <2>1. D[Place(cmd, d)] = Absent
    BY <1>2 DEF Dirtied
  <2> QED
    BY <1>2, <2>1 DEF After, Moves, Dataset
<1>3. CASE cmd.op = "flushdb"
  <2>1. Cardinality(Held(d, D)) = 0
    BY <1>3 DEF Dirtied
  <2>2. Held(d, D) = {}
    BY <2>1, HeldFinite, FS_EmptySet
  <2>3. \A p \in Places : p[1] = d => D[p] = Absent
    BY <2>2 DEF Held
  <2>4. After(cmd, d, D) = [p \in Places |-> IF p[1] = d THEN Absent ELSE D[p]]
    BY <1>3 DEF After, Moves
  <2> QED
    BY <2>3, <2>4 DEF Dataset
<1>4. CASE cmd.op = "move"
  <2>1. ~Moves(cmd, d, D)
    BY <1>4 DEF Dirtied
  <2> QED
    BY <1>4, <2>1 DEF After, Moves
<1>5. CASE cmd.op \notin {"set", "del", "flushdb", "move"}
  BY <1>5 DEF After, Moves
<1> QED
  BY <1>1, <1>2, <1>3, <1>4, <1>5

(* The commands flagged READONLY change nothing and are not propagated. *)
LEMMA ReadOnlyClean ==
    ASSUME NEW cmd, NEW d, NEW D, cmd.op \in ReadOnlyOps
    PROVE  Dirtied(cmd, d, D) = 0 /\ After(cmd, d, D) = D
BY DEF ReadOnlyOps, Dirtied, After, Moves

(* Every command but MOVE flags the watchers of the keys it changes. *)
LEMMA TouchesChanged ==
    ASSUME NEW cmd \in Command, NEW d \in Dbs, NEW D \in Dataset,
           watched \in [Clients -> SUBSET Places],
           IndexesAgree, cmd.op # "move",
           NEW c \in Clients, NEW p \in watched[c],
           c \notin Touches(cmd, d, D)
    PROVE  After(cmd, d, D)[p] = D[p]
<1>0. p \in Places /\ c \in watchers[p]
  BY DEF IndexesAgree
<1>1. CASE cmd.op = "set"
  <2>1. c \notin watchers[Place(cmd, d)]
    BY <1>1 DEF Touches, TouchKey
  <2>2. p # Place(cmd, d)
    BY <1>0, <2>1
  <2>3. After(cmd, d, D) = [D EXCEPT ![Place(cmd, d)] = cmd.val]
    BY <1>1 DEF After, Moves
  <2> QED
    BY <1>0, <2>2, <2>3 DEF Dataset
<1>2. CASE cmd.op = "del" /\ p = Place(cmd, d)
  <2>1. D[p] = Absent
    BY <1>0, <1>2 DEF Touches, TouchKey
  <2>2. After(cmd, d, D) = [D EXCEPT ![p] = Absent]
    BY <1>2 DEF After, Moves
  <2> QED
    BY <1>0, <2>1, <2>2 DEF Dataset
<1>3. CASE cmd.op = "del" /\ p # Place(cmd, d)
  <2>1. After(cmd, d, D) = [D EXCEPT ![Place(cmd, d)] = Absent]
    BY <1>3 DEF After, Moves
  <2> QED
    BY <1>0, <1>3, <2>1 DEF Dataset
<1>4. CASE cmd.op = "flushdb"
  <2>1. c \notin TouchFlush({d}, D)
    BY <1>4 DEF Touches
  <2>2. p[1] # d \/ D[p] = Absent
    BY <1>0, <2>1 DEF TouchFlush
  <2>3. After(cmd, d, D) = [q \in Places |-> IF q[1] = d THEN Absent ELSE D[q]]
    BY <1>4 DEF After, Moves
  <2> QED
    BY <1>0, <2>2, <2>3
<1>5. CASE cmd.op \notin {"set", "del", "flushdb"}
  BY <1>5 DEF After, Moves
<1> QED
  BY <1>1, <1>2, <1>3, <1>4, <1>5

(* Only a client that watches something is flagged. *)
LEMMA TouchesWatchers ==
    ASSUME NEW cmd \in Command, NEW d \in Dbs, NEW D,
           watchers \in [Places -> SUBSET Clients],
           IndexesAgree
    PROVE  /\ Touches(cmd, d, D) \subseteq Clients
           /\ \A c \in Touches(cmd, d, D) : watched[c] # {}
<1>1. Place(cmd, d) \in Places
  BY DEF Place, Places, Command
<1>2. /\ TouchKey(Place(cmd, d)) \subseteq Clients
      /\ \A c \in TouchKey(Place(cmd, d)) : watched[c] # {}
  BY <1>1 DEF TouchKey, IndexesAgree
<1>3. /\ TouchFlush({d}, D) \subseteq Clients
      /\ \A c \in TouchFlush({d}, D) : watched[c] # {}
  BY DEF TouchFlush
<1>4. Touches(cmd, d, D) \in {TouchKey(Place(cmd, d)), TouchFlush({d}, D), {}}
  BY DEF Touches
<1> QED
  BY <1>2, <1>3, <1>4

(* Expired keys leave a dataset. *)
LEMMA WithoutType ==
    ASSUME NEW D \in Dataset, NEW G
    PROVE  Without(D, G) \in Dataset
BY DEF Without, Dataset

(* EXPIRE in the past is turned into another command. *)
LEMMA RewrittenType ==
    ASSUME NEW cmd \in Command
    PROVE  /\ Rewritten(cmd) \in Command
           /\ cmd.op # "move" => Rewritten(cmd).op # "move"
           /\ cmd.op \in ReadOnlyOps => Rewritten(cmd) = cmd
BY DEF Rewritten, Command, ReadOnlyOps, WriteOps

(* A command leaves every key an expire of one of the three kinds. *)
LEMMA TtlAfterType ==
    ASSUME NEW cmd \in Command, NEW d \in Dbs, NEW D,
           NEW T \in [Places -> {"none", "future", "past"}]
    PROVE  TtlAfter(cmd, d, D, T) \in [Places -> {"none", "future", "past"}]
<1> DEFINE p == Place(cmd, d)
           T1 == [T EXCEPT ![p] = "future"]
           T2 == [T EXCEPT ![p] = "past"]
           T3 == [q \in Places |-> IF q[1] = d THEN "none" ELSE T[q]]
           T4 == [T EXCEPT ![p] = "none"]
<1>1. {T, T1, T2, T3, T4} \subseteq [Places -> {"none", "future", "past"}]
  OBVIOUS
<1>2. TtlAfter(cmd, d, D, T) \in {T, T1, T2, T3, T4}
  BY DEF TtlAfter, Moves
<1> QED
  BY <1>1, <1>2

(* The reader keeps its type whatever it is fed. *)
LEMMA FedType ==
    ASSUME NEW r \in ReplicaType, NEW D \in Dataset
    PROVE  /\ Fed(r, D) \in ReplicaType
           /\ Fed(r, D).block = D
           /\ Fed(r, D).open = r.open
           /\ r.open = 0 => Fed(r, D).shown = D
           /\ r.open = 1 => Fed(r, D).shown = r.shown
BY DEF Fed, ReplicaType

(* A reader with no block open that shows its dataset is in sync. *)
LEMMA InSyncIs ==
    ASSUME NEW r \in ReplicaType
    PROVE  /\ \A D : r = InSync(D) <=> r.block = D /\ r.shown = D /\ r.open = 0
           /\ \A D \in Dataset : InSync(D) \in ReplicaType
BY DEF InSync, ReplicaType

(* MULTI and EXEC on the reader. *)
LEMMA FedBlockType ==
    ASSUME NEW r \in ReplicaType
    PROVE  /\ FedMulti(r) \in ReplicaType
           /\ FedMulti(r).block = r.block
           /\ FedMulti(r).shown = r.shown
           /\ FedMulti(r).open = 1
           /\ FedExec(r) \in ReplicaType
           /\ FedExec(r) = InSync(r.block)
<1>1. r.shown \in Dataset /\ r.block \in Dataset
  BY DEF ReplicaType
<1>2. FedMulti(r) = [shown |-> r.shown, block |-> r.block, open |-> 1]
  BY DEF FedMulti, ReplicaType
<1> QED
  BY <1>1, <1>2, InSyncIs DEF FedExec, ReplicaType

-----------------------------------------------------------------------------
(* call()                                                                  *)

(* call() keeps every variable it changes in its type. *)
LEMMA CallType ==
    ASSUME TypeOK, NEW c \in Clients, NEW cmd \in Commands,
           NEW r \in ReplicaType, Call(c, cmd, r)
    PROVE  /\ data' \in Dataset
           /\ ttl' \in [Places -> {"none", "future", "past"}]
           /\ dirty' \in Nat
           /\ db' \in [Clients -> Dbs]
           /\ cas' \subseteq Clients
           /\ watched' \in [Clients -> SUBSET Places]
           /\ watchers' \in [Places -> SUBSET Clients]
           /\ seen' \in [Clients -> Dataset]
           /\ replica' \in ReplicaType
<1> DEFINE d == db[c]
           G == Expired(cmd, d)
           D == Without(data, G)
           w == Rewritten(cmd)
           grown == Dirtied(w, d, D)
           r1 == FedExpired(r, G)
           T == [p \in Places |-> IF p \in G THEN "none" ELSE ttl[p]]
<1>1. d \in Dbs /\ cmd \in Command
  BY MultiAssumption DEF TypeOK
<1>2. w \in Command
  BY <1>1, RewrittenType
<1>3. D \in Dataset
  BY WithoutType DEF TypeOK
<1>4. grown \in Nat
  BY <1>1, <1>2, <1>3, DirtiedNat
<1>5. r1 \in ReplicaType
  BY WithoutType, FedType DEF FedExpired, ReplicaType
<1>6. data' \in Dataset
  BY <1>1, <1>2, <1>3, AfterType DEF Call
<1>7. ttl' \in [Places -> {"none", "future", "past"}]
  <2>1. T \in [Places -> {"none", "future", "past"}]
    BY DEF TypeOK
  <2>2. ttl' = TtlAfter(w, d, D, T)
    BY DEF Call
  <2> QED
    BY <1>1, <1>2, <2>1, <2>2, TtlAfterType
<1>8. dirty' \in Nat
  <2>1. dirty' \in {0, dirty, dirty + grown}
    BY DEF Call
  <2> QED
    BY <1>4, <2>1 DEF TypeOK
<1>9. db' \in [Clients -> Dbs]
  BY <1>1 DEF Call, TypeOK, Command
<1>10. replica' \in ReplicaType
  <2>1. r1.block \in Dataset
    BY <1>5 DEF ReplicaType
  <2>2. After(w, d, r1.block) \in Dataset
    BY <1>1, <1>2, <2>1, AfterType
  <2>3. replica' = IF grown > 0 THEN Fed(r1, After(w, d, r1.block)) ELSE r1
    BY DEF Call
  <2> QED
    BY <1>5, <2>2, <2>3, FedType
<1>11. CASE cmd.op = "unwatch"
  <2>1. /\ watched' = [watched EXCEPT ![c] = {}]
        /\ watchers' = [p \in Places |->
                          IF p \in watched[c] THEN watchers[p] \ {c} ELSE watchers[p]]
        /\ seen' = [seen EXCEPT ![c] = [p \in Places |-> Absent]]
        /\ cas' = cas \ {c}
    BY <1>11 DEF Call, UnwatchAll, CasUnwatched
  <2> QED
    BY <1>6, <1>7, <1>8, <1>9, <1>10, <2>1 DEF TypeOK, Dataset
<1>12. CASE cmd.op # "unwatch"
  <2>1. /\ cas' = cas \cup Touches(w, d, D)
        /\ seen' = SeenWithout(G)
        /\ watched' = watched /\ watchers' = watchers
    BY <1>12 DEF Call
  <2>2. Touches(w, d, D) \subseteq Clients
    <3>1. Place(w, d) \in Places
      BY <1>1, <1>2 DEF Place, Places, Command
    <3> QED
      BY <3>1 DEF Touches, TouchKey, TouchFlush, TypeOK
  <2>3. seen' \in [Clients -> Dataset]
    BY <2>1 DEF SeenWithout, TypeOK, Dataset
  <2> QED
    BY <1>6, <1>7, <1>8, <1>9, <1>10, <2>1, <2>2, <2>3 DEF TypeOK
<1> QED
  BY <1>11, <1>12

(* Removing a client from both indexes keeps them inverse to each other. *)
LEMMA UnwatchAgrees ==
    ASSUME TypeOK, IndexesAgree, NEW c \in Clients, UnwatchAll(c)
    PROVE  /\ IndexesAgree'
           /\ watched' = [watched EXCEPT ![c] = {}]
           /\ watchers' \in [Places -> SUBSET Clients]
           /\ seen' \in [Clients -> Dataset]
           /\ \A e \in Clients : e # c => seen'[e] = seen[e] /\ watched'[e] = watched[e]
           /\ watched'[c] = {}
BY DEF UnwatchAll, IndexesAgree, TypeOK, Dataset

(* call() keeps the indexes inverse, and flags only clients that watch. *)
LEMMA CallIndexes ==
    ASSUME TypeOK, IndexesAgree, NoStaleFlag,
           NEW c \in Clients, NEW cmd \in Commands, NEW r, Call(c, cmd, r)
    PROVE  IndexesAgree' /\ NoStaleFlag'
<1> DEFINE d == db[c]
           D == Without(data, Expired(cmd, d))
           w == Rewritten(cmd)
<1>1. d \in Dbs /\ w \in Command
  BY MultiAssumption, RewrittenType DEF TypeOK
<1>2. CASE cmd.op = "unwatch"
  <2>1. UnwatchAll(c) /\ cas' = cas \ {c}
    BY <1>2 DEF Call, CasUnwatched
  <2>2. cas \subseteq Clients
    BY DEF TypeOK
  <2> QED
    BY <2>1, <2>2, UnwatchAgrees DEF NoStaleFlag
<1>3. CASE cmd.op # "unwatch"
  <2>1. cas' = cas \cup Touches(w, d, D) /\ watched' = watched /\ watchers' = watchers
    BY <1>3 DEF Call
  <2>2. \A e \in Touches(w, d, D) : watched[e] # {}
    BY <1>1, TouchesWatchers DEF TypeOK
  <2> QED
    BY <2>1, <2>2 DEF IndexesAgree, NoStaleFlag
<1> QED
  BY <1>2, <1>3

(* call() flags every client that watches a key it changes, but for MOVE. *)
LEMMA CallWatched ==
    ASSUME TypeOK, IndexesAgree, WatchedUnchanged,
           NEW c \in Clients, NEW cmd \in Commands, cmd.op # "move",
           NEW r, Call(c, cmd, r)
    PROVE  WatchedUnchanged'
<1> DEFINE d == db[c]
           G == Expired(cmd, d)
           D == Without(data, G)
           w == Rewritten(cmd)
<1>1. d \in Dbs /\ w \in Command /\ w.op # "move" /\ cmd \in Command
  BY MultiAssumption, RewrittenType DEF TypeOK
<1>2. D \in Dataset
  BY WithoutType DEF TypeOK
<1>3. data' = After(w, d, D)
  BY DEF Call
<1>4. CASE cmd.op = "unwatch"
  <2>1. UnwatchAll(c) /\ cas' = cas \ {c}
    BY <1>4 DEF Call, CasUnwatched
  <2>2. data' = data
    <3>1. G = {}
      BY <1>4 DEF Expired, Looked
    <3>2. D = data
      BY <3>1 DEF Without, TypeOK, Dataset
    <3>3. w = cmd /\ w.op \in ReadOnlyOps
      BY <1>1, <1>4, RewrittenType DEF ReadOnlyOps
    <3> QED
      BY <1>3, <3>2, <3>3, ReadOnlyClean
  <2> QED
    BY <2>1, <2>2, UnwatchAgrees DEF WatchedUnchanged
<1>5. CASE cmd.op # "unwatch"
  <2>1. /\ cas' = cas \cup Touches(w, d, D)
        /\ seen' = SeenWithout(G)
        /\ watched' = watched
    BY <1>5 DEF Call
  <2> SUFFICES ASSUME NEW e \in Clients, e \notin cas', NEW p \in watched[e]
               PROVE  data'[p] = seen'[e][p]
    BY <2>1 DEF WatchedUnchanged
  <2>2. p \in Places
    BY DEF TypeOK
  <2>3. data'[p] = D[p]
    BY <1>1, <1>2, <1>3, <2>1, TouchesChanged DEF TypeOK
  <2>4. data[p] = seen[e][p]
    BY <2>1 DEF WatchedUnchanged
  <2>5. D[p] = IF p \in G THEN Absent ELSE data[p]
    BY <2>2 DEF Without
  <2>6. seen'[e][p] = IF p \in G THEN Absent ELSE seen[e][p]
    BY <2>1, <2>2 DEF SeenWithout
  <2> QED
    BY <2>3, <2>4, <2>5, <2>6
<1> QED
  BY <1>4, <1>5

(* call() leaves a reader that had the master's dataset with the master's  *)
(* new dataset, in the block or shown; but for SAVE, server.dirty only     *)
(* grows, and a read-only command shows nothing new but expired keys.      *)
LEMMA CallReader ==
    ASSUME TypeOK, NEW c \in Clients, NEW cmd \in Commands, cmd.op # "save",
           NEW r \in ReplicaType, r.block = data, r.open = 0 => r.shown = data,
           Call(c, cmd, r)
    PROVE  /\ replica' \in ReplicaType
           /\ replica'.block = data'
           /\ replica'.open = r.open
           /\ r.open = 0 => replica'.shown = data'
           /\ r.open = 1 => replica'.shown = r.shown
           /\ dirty' >= dirty
           /\ cmd.op \in ReadOnlyOps =>
                 \A p \in Places : data'[p] # data[p] => Gone(p)
<1> DEFINE d == db[c]
           G == Expired(cmd, d)
           D == Without(data, G)
           w == Rewritten(cmd)
           grown == Dirtied(w, d, D)
           r1 == FedExpired(r, G)
<1>1. d \in Dbs /\ w \in Command /\ cmd \in Command
  BY MultiAssumption, RewrittenType DEF TypeOK
<1>2. D \in Dataset
  BY WithoutType DEF TypeOK
<1>3. grown \in Nat
  BY <1>1, <1>2, DirtiedNat
<1>4. r1 = Fed(r, D)
  BY DEF FedExpired
<1>5. /\ r1 \in ReplicaType /\ r1.block = D /\ r1.open = r.open
      /\ r.open = 0 => r1.shown = D
      /\ r.open = 1 => r1.shown = r.shown
  BY <1>2, <1>4, FedType
<1>6. /\ data' = After(w, d, D)
      /\ dirty' = dirty + grown
      /\ replica' = IF grown > 0 THEN Fed(r1, After(w, d, r1.block)) ELSE r1
  BY DEF Call
<1>7. After(w, d, D) \in Dataset
  BY <1>1, <1>2, AfterType
<1>8. dirty' >= dirty
  BY <1>3, <1>6 DEF TypeOK
<1>9. ASSUME cmd.op \in ReadOnlyOps, NEW p \in Places, data'[p] # data[p]
      PROVE  Gone(p)
  <2>1. data' = D
    BY <1>1, <1>6, <1>9, RewrittenType, ReadOnlyClean
  <2>2. p \in G
    BY <1>9, <2>1 DEF Without
  <2> QED
    BY <2>2 DEF Expired
<1>10. CASE grown > 0
  <2>1. replica' = Fed(r1, data')
    BY <1>5, <1>6, <1>10
  <2>2. r1 \in ReplicaType /\ data' \in Dataset
    BY <1>5, <1>6, <1>7
  <2>3. /\ replica' \in ReplicaType /\ replica'.block = data' /\ replica'.open = r1.open
        /\ r1.open = 0 => replica'.shown = data'
        /\ r1.open = 1 => replica'.shown = r1.shown
    BY <2>1, <2>2, FedType
  <2> QED
    BY <1>5, <1>8, <1>9, <2>3
<1>11. CASE grown = 0
  <2>1. data' = D /\ replica' = r1
    BY <1>1, <1>2, <1>6, <1>11, CleanUnchanged
  <2> QED
    BY <1>5, <1>8, <1>9, <2>1
<1> QED
  BY <1>3, <1>10, <1>11

-----------------------------------------------------------------------------
(* Type correctness and the two indexes.                                   *)

IInv == TypeOK /\ IndexesAgree /\ NoStaleFlag

(* The client that EXEC runs for, the command it is at and the reader it   *)
(* hands to call().                                                        *)
LEMMA ExecCall ==
    ASSUME TypeOK, ExecCommand
    PROVE  \E c \in Clients, cmd \in Commands, must \in {0, 1}, r \in ReplicaType :
              /\ Call(c, cmd, r)
              /\ c = executing.client /\ executing.next < Len(queue[c])
              /\ must = MustPropagate(cmd)
              /\ r = IF must > executing.must THEN FedMulti(replica) ELSE replica
              /\ executing' = [client |-> c, next |-> executing.next + 1,
                               before |-> executing.before, must |-> must]
              /\ UNCHANGED <<role, multi, errs, queue, refused>>
<1> DEFINE c == executing.client
           cmd == queue[c][executing.next + 1]
           must == MustPropagate(cmd)
           r == IF must > executing.must THEN FedMulti(replica) ELSE replica
<1>1. /\ executing.client \in Clients \cup {NoClient} /\ executing.next \in Nat
      /\ executing = [client |-> executing.client, next |-> executing.next,
                      before |-> executing.before, must |-> executing.must]
  BY DEF TypeOK
<1>2. c \in Clients /\ executing.next < Len(queue[c])
  BY <1>1 DEF ExecCommand, Idle
<1>3. cmd \in Commands
  BY <1>1, <1>2 DEF TypeOK
<1>4. must \in {0, 1}
  BY DEF MustPropagate
<1>5. r \in ReplicaType
  BY FedBlockType DEF TypeOK, ReplicaType
<1>6. /\ Call(c, cmd, r)
      /\ UNCHANGED <<role, multi, errs, queue, refused>>
      /\ executing' = [executing EXCEPT !.next = @ + 1, !.must = must]
  BY DEF ExecCommand
<1>7. executing' = [client |-> c, next |-> executing.next + 1,
                    before |-> executing.before, must |-> must]
  BY <1>1, <1>6
<1> HIDE DEF c, cmd, must, r
<1>8. must = MustPropagate(cmd)
  BY DEF must
<1>9. c = executing.client /\ r = IF must > executing.must THEN FedMulti(replica) ELSE replica
  BY DEF c, r
<1> QED
  BY <1>2, <1>3, <1>4, <1>5, <1>6, <1>7, <1>8, <1>9

(* discardTransaction() keeps the types and the indexes. *)
LEMMA DiscardKeeps ==
    ASSUME IInv, NEW c \in Clients, DiscardTransaction(c)
    PROVE  /\ multi' \subseteq Clients /\ cas' \subseteq Clients
           /\ errs' \subseteq Clients /\ refused' \subseteq Clients
           /\ queue' \in [Clients -> Seq(Commands)]
           /\ watched' \in [Clients -> SUBSET Places]
           /\ watchers' \in [Places -> SUBSET Clients]
           /\ seen' \in [Clients -> Dataset]
           /\ IndexesAgree' /\ NoStaleFlag'
           /\ c \notin cas'
           /\ \A e \in Clients : e # c => watched'[e] = watched[e] /\ seen'[e] = seen[e]
           /\ watched'[c] = {}
           /\ cas \subseteq cas' \cup {c}
<1>1. UnwatchAll(c) /\ cas' = cas \ {c}
  BY DEF DiscardTransaction
<1>2. /\ IndexesAgree'
      /\ watched' = [watched EXCEPT ![c] = {}]
      /\ watchers' \in [Places -> SUBSET Clients]
      /\ seen' \in [Clients -> Dataset]
      /\ \A e \in Clients : e # c => seen'[e] = seen[e] /\ watched'[e] = watched[e]
      /\ watched'[c] = {}
  BY <1>1, UnwatchAgrees DEF IInv
<1>3. queue' \in [Clients -> Seq(Commands)]
  BY DEF DiscardTransaction, IInv, TypeOK
<1> QED
  BY <1>1, <1>2, <1>3 DEF DiscardTransaction, IInv, TypeOK, NoStaleFlag

(* Every step keeps the types, the indexes and the flags. *)
LEMMA IInvStep ==
    ASSUME IInv, [Next]_vars
    PROVE  IInv'
<1> USE DEF IInv
<1>1. ASSUME NEW c \in Clients, NEW cmd \in Commands, Execute(c, cmd)
      PROVE  IInv'
  <2>1. replica \in ReplicaType /\ Call(c, cmd, replica)
    BY <1>1 DEF Execute, TypeOK, ReplicaType
  <2>2. IndexesAgree' /\ NoStaleFlag'
    BY <2>1, CallIndexes
  <2>3. /\ data' \in Dataset /\ ttl' \in [Places -> {"none", "future", "past"}]
        /\ dirty' \in Nat /\ db' \in [Clients -> Dbs] /\ cas' \subseteq Clients
        /\ watched' \in [Clients -> SUBSET Places]
        /\ watchers' \in [Places -> SUBSET Clients]
        /\ seen' \in [Clients -> Dataset] /\ replica' \in ReplicaType
    BY <2>1, CallType
  <2> QED
    BY <1>1, <2>2, <2>3 DEF Execute, TypeOK, ReplicaType
<1>2. ASSUME NEW c \in Clients, NEW cmd \in Commands, Queue(c, cmd)
      PROVE  IInv'
  <2>1. /\ queue' = [queue EXCEPT ![c] = Append(@, cmd)]
        /\ executing.client \notin Clients
    BY <1>2, MultiAssumption DEF Queue, Idle
  <2>2. queue' \in [Clients -> Seq(Commands)]
    BY <2>1 DEF TypeOK
  <2> QED
    BY <1>2, <2>1, <2>2 DEF Queue, TypeOK, IndexesAgree, NoStaleFlag, server, watch
<1>3. ASSUME NEW c \in Clients, NEW cmd \in Commands, RefuseReadOnly(c, cmd)
      PROVE  IInv'
  BY <1>3 DEF RefuseReadOnly, TypeOK, IndexesAgree, NoStaleFlag, vars, server, txn, watch
<1>4. ASSUME NEW c \in Clients, NEW k \in Keys, Watch(c, k)
      PROVE  IInv'
  <2> DEFINE p == <<db[c], k>>
  <2>7. CASE UNCHANGED vars
    BY <2>7 DEF vars, server, txn, watch, TypeOK, IndexesAgree, NoStaleFlag
  <2> SUFFICES ASSUME ~UNCHANGED vars PROVE IInv'
    BY <2>7
  <2>1. p \in Places
    BY DEF TypeOK, Places
  <2>2. /\ watched' = [watched EXCEPT ![c] = @ \cup {p}]
        /\ watchers' = [watchers EXCEPT ![p] = @ \cup {c}]
        /\ seen' = [seen EXCEPT ![c][p] = data[p]]
        /\ UNCHANGED <<data, ttl, dirty, role, db, multi, cas, errs, queue,
                       executing, replica, refused>>
    BY <1>4 DEF Watch, WatchForKey, vars, server, txn, watch
  <2> HIDE DEF p
  <2>3. seen' \in [Clients -> Dataset]
    BY <2>1, <2>2 DEF TypeOK, Dataset
  <2>4. TypeOK'
    BY <2>1, <2>2, <2>3 DEF TypeOK
  <2>5. IndexesAgree'
    BY <2>1, <2>2 DEF IndexesAgree, TypeOK
  <2>6. NoStaleFlag'
    BY <2>1, <2>2 DEF NoStaleFlag, TypeOK
  <2> QED
    BY <2>4, <2>5, <2>6
<1>5. ASSUME NEW c \in Clients, RefuseFlagged(c)
      PROVE  IInv'
  BY <1>5 DEF RefuseFlagged, FlagTransaction, TypeOK, IndexesAgree, NoStaleFlag, server, watch
<1>6. ASSUME NEW c \in Clients, Multi(c)
      PROVE  IInv'
  BY <1>6 DEF Multi, TypeOK, IndexesAgree, NoStaleFlag, server, watch
<1>7. ASSUME NEW c \in Clients, Discard(c) \/ Disconnect(c) \/ ExecAbort(c)
      PROVE  IInv'
  <2>1. DiscardTransaction(c) /\ Idle /\ UNCHANGED <<server, executing, replica>>
    BY <1>7 DEF Discard, Disconnect, ExecAbort
  <2>2. db' \in [Clients -> Dbs]
    BY <1>7, MultiAssumption DEF Discard, Disconnect, ExecAbort, TypeOK
  <2>3. executing'.client \notin Clients
    BY <2>1, MultiAssumption DEF Idle
  <2>4. TypeOK'
    BY <2>1, <2>2, <2>3, DiscardKeeps DEF TypeOK, server
  <2> QED
    BY <2>1, <2>4, DiscardKeeps
<1>8. ASSUME NEW c \in Clients, ExecStart(c)
      PROVE  IInv'
  <2>1. /\ UnwatchAll(c) /\ c \notin cas
        /\ executing' = [client |-> c, next |-> 0, before |-> dirty, must |-> 0]
        /\ UNCHANGED <<data, ttl, dirty, role, db, multi, cas, errs, queue, replica, refused>>
    BY <1>8 DEF ExecStart, Started, server, txn
  <2>2. TypeOK'
    <3>1. Len(queue[c]) \in Nat
      BY DEF TypeOK
    <3>2. 0 <= Len(queue[c])
      BY <3>1
    <3>3. /\ watched' \in [Clients -> SUBSET Places]
          /\ watchers' \in [Places -> SUBSET Clients]
          /\ seen' \in [Clients -> Dataset]
      BY <2>1, UnwatchAgrees DEF TypeOK
    <3> QED
      BY <2>1, <3>2, <3>3 DEF TypeOK
  <2>3. IndexesAgree'
    BY <2>1, UnwatchAgrees
  <2>4. NoStaleFlag'
    <3>1. \A e \in Clients : e # c => watched'[e] = watched[e]
      BY <2>1, UnwatchAgrees DEF IInv
    <3>2. cas' = cas /\ c \notin cas /\ cas \subseteq Clients
      BY <2>1 DEF TypeOK
    <3>3. \A e \in cas : watched[e] # {}
      BY DEF NoStaleFlag
    <3> QED
      BY <3>1, <3>2, <3>3 DEF NoStaleFlag
  <2> QED
    BY <2>2, <2>3, <2>4
<1>9. ASSUME ExecCommand
      PROVE  IInv'
  <2>1. PICK c \in Clients, cmd \in Commands, must \in {0, 1}, r \in ReplicaType :
           /\ Call(c, cmd, r)
           /\ c = executing.client /\ executing.next < Len(queue[c])
           /\ executing' = [client |-> c, next |-> executing.next + 1,
                            before |-> executing.before, must |-> must]
           /\ UNCHANGED <<role, multi, errs, queue, refused>>
    BY <1>9, ExecCall
  <2>2. IndexesAgree' /\ NoStaleFlag'
    BY <2>1, CallIndexes
  <2>3. /\ data' \in Dataset /\ ttl' \in [Places -> {"none", "future", "past"}]
        /\ dirty' \in Nat /\ db' \in [Clients -> Dbs] /\ cas' \subseteq Clients
        /\ watched' \in [Clients -> SUBSET Places]
        /\ watchers' \in [Places -> SUBSET Clients]
        /\ seen' \in [Clients -> Dataset] /\ replica' \in ReplicaType
    BY <2>1, CallType
  <2>4. executing.next \in Nat /\ executing.before \in Nat /\ Len(queue[c]) \in Nat
    BY DEF TypeOK
  <2>5. executing.next + 1 \in Nat /\ executing.next + 1 <= Len(queue[c])
    BY <2>1, <2>4
  <2>6. TypeOK'
    BY <2>1, <2>3, <2>4, <2>5 DEF TypeOK, ReplicaType
  <2> QED
    BY <2>2, <2>6
<1>10. ASSUME ExecEnd
       PROVE  IInv'
  <2> DEFINE c == executing.client
  <2>1. c \in Clients
    BY <1>10 DEF ExecEnd, Idle, TypeOK
  <2>2. /\ DiscardTransaction(c) /\ executing' = NotExecuting
        /\ dirty' = DirtyAtEnd
        /\ replica' = IF DirtyAtEnd > executing.before THEN FedExec(replica) ELSE replica
        /\ UNCHANGED <<data, ttl, role, db>>
    BY <1>10 DEF ExecEnd
  <2>3. dirty' \in Nat
    BY <2>2 DEF DirtyAtEnd, TypeOK
  <2>4. replica' \in ReplicaType
    BY <2>2, FedBlockType DEF TypeOK, ReplicaType
  <2>5. NotExecuting \in [client : Clients \cup {NoClient}, next : Nat,
                          before : Nat, must : {0, 1}]
        /\ NotExecuting.client \notin Clients
    BY MultiAssumption DEF NotExecuting
  <2> HIDE DEF c
  <2>6. TypeOK'
    BY <2>1, <2>2, <2>3, <2>4, <2>5, DiscardKeeps DEF TypeOK, ReplicaType
  <2> QED
    BY <2>1, <2>2, <2>6, DiscardKeeps
<1>11. ASSUME NEW p \in Places, TimePasses(p)
       PROVE  IInv'
  BY <1>11 DEF TimePasses, TypeOK, IndexesAgree, NoStaleFlag, txn, watch
<1>12. ASSUME NEW p \in Places, CronExpire(p) \/ Evict(p)
       PROVE  IInv'
  <2>1. data' \in Dataset
    BY <1>12, WithoutType DEF CronExpire, Evict, TypeOK
  <2>2. replica' \in ReplicaType
    BY <1>12, WithoutType, FedType DEF CronExpire, Evict, FedExpired, TypeOK, ReplicaType
  <2>3. seen' \in [Clients -> Dataset]
    BY <1>12 DEF CronExpire, Evict, SeenWithout, TypeOK, Dataset
  <2> QED
    BY <1>12, <2>1, <2>2, <2>3
    DEF CronExpire, Evict, TypeOK, ReplicaType, IndexesAgree, NoStaleFlag, txn
<1>13. ASSUME NEW n \in 1..dirty, BgsaveDone(n)
       PROVE  IInv'
  <2>1. dirty' \in Nat
    BY <1>13 DEF BgsaveDone, TypeOK
  <2> QED
    BY <1>13, <2>1 DEF BgsaveDone, TypeOK, IndexesAgree, NoStaleFlag, txn, watch
<1>14. ASSUME SlaveOf \/ SlaveOfNoOne
       PROVE  IInv'
  BY <1>14 DEF SlaveOf, SlaveOfNoOne, TypeOK, IndexesAgree, NoStaleFlag, txn, watch
<1>15. ASSUME NEW D \in Snapshots, FullResync(D)
       PROVE  IInv'
  <2>1. D \in Dataset
    BY MultiAssumption
  <2>2. InSync(D) \in ReplicaType
    BY <2>1 DEF InSync, ReplicaType
  <2>3. /\ TouchFlush(Dbs, data) \subseteq Clients
        /\ \A e \in TouchFlush(Dbs, data) : watched[e] # {}
    BY DEF TouchFlush
  <2> QED
    BY <1>15, <2>1, <2>2, <2>3
    DEF FullResync, TypeOK, ReplicaType, IndexesAgree, NoStaleFlag, watch
<1>16. CASE UNCHANGED vars
  BY <1>16 DEF vars, server, txn, watch, TypeOK, IndexesAgree, NoStaleFlag
<1> QED
  BY <1>1, <1>2, <1>3, <1>4, <1>5, <1>6, <1>7, <1>8, <1>9, <1>10, <1>11, <1>12,
     <1>13, <1>14, <1>15, <1>16 DEF Next

LEMMA IInvInit ==
    ASSUME Init
    PROVE  IInv
<1>1. data \in Dataset /\ [p \in Places |-> Absent] \in Dataset
  BY DEF Init, Dataset
<1>2. replica \in [shown : Dataset, block : Dataset, open : {0, 1}]
  BY <1>1 DEF Init, InSync
<1>3. /\ executing \in [client : Clients \cup {NoClient}, next : Nat,
                        before : Nat, must : {0, 1}]
      /\ executing.client \notin Clients
  BY MultiAssumption DEF Init, NotExecuting
<1>4. queue \in [Clients -> Seq(Commands)]
  BY DEF Init
<1>5. seen \in [Clients -> Dataset]
  BY <1>1 DEF Init
<1> QED
  BY <1>1, <1>2, <1>3, <1>4, <1>5, MultiAssumption
  DEF Init, IInv, TypeOK, IndexesAgree, NoStaleFlag

THEOREM IInvInvariant == Spec => []IInv
<1>1. Init => IInv
  BY IInvInit
<1>2. IInv /\ [Next]_vars => IInv'
  BY IInvStep
<1> QED
  BY <1>1, <1>2, PTL DEF Spec

(* Every reachable state is well typed, and EXEC's loop stays in its queue. *)
THEOREM TypeInvariant == Spec => []TypeOK
<1>1. IInv => TypeOK
  BY DEF IInv
<1> QED
  BY <1>1, IInvInvariant, PTL

(* The watched keys of the clients and the watching clients of the keys    *)
(* are inverse relations in every reachable state: unwatchAllKeys() finds  *)
(* every list it expects and no freed client is left in one.               *)
THEOREM IndexesAlwaysAgree == Spec => []IndexesAgree
<1>1. IInv => IndexesAgree
  BY DEF IInv
<1> QED
  BY <1>1, IInvInvariant, PTL

(* A client flagged REDIS_DIRTY_CAS watches some key: what was touched     *)
(* under an earlier WATCH does not abort a later transaction.              *)
THEOREM NeverStaleFlag == Spec => []NoStaleFlag
<1>1. IInv => NoStaleFlag
  BY DEF IInv
<1> QED
  BY <1>1, IInvInvariant, PTL

-----------------------------------------------------------------------------
(* Optimistic locking.  MOVE signals no modified key, and a full           *)
(* resynchronisation no key that was absent: the theorem is about servers  *)
(* where neither happens.                                                  *)

NoMove == \A cmd \in Commands : cmd.op # "move"
NoResync == Snapshots = {}

LEMMA WatchedStep ==
    ASSUME NoMove, NoResync, IInv, WatchedUnchanged, [Next]_vars
    PROVE  WatchedUnchanged'
<1> USE DEF IInv
<1>1. ASSUME NEW c \in Clients, NEW cmd \in Commands, Execute(c, cmd)
      PROVE  WatchedUnchanged'
  BY <1>1, CallWatched DEF Execute, NoMove
<1>2. ASSUME NEW c \in Clients,
             \/ \E cmd \in Commands : Queue(c, cmd) \/ RefuseReadOnly(c, cmd)
             \/ RefuseFlagged(c) \/ Multi(c)
      PROVE  WatchedUnchanged'
  BY <1>2 DEF Queue, RefuseReadOnly, RefuseFlagged, Multi, WatchedUnchanged,
              vars, server, txn, watch
<1>3. ASSUME NEW c \in Clients, NEW k \in Keys, Watch(c, k)
      PROVE  WatchedUnchanged'
  <2> DEFINE p == <<db[c], k>>
  <2>7. CASE UNCHANGED vars
    BY <2>7 DEF vars, server, txn, watch, WatchedUnchanged
  <2> SUFFICES ASSUME ~UNCHANGED vars PROVE WatchedUnchanged'
    BY <2>7
  <2>1. p \in Places
    BY DEF TypeOK, Places
  <2>2. /\ watched' = [watched EXCEPT ![c] = @ \cup {p}]
        /\ seen' = [seen EXCEPT ![c][p] = data[p]]
        /\ data' = data /\ cas' = cas
    BY <1>3 DEF Watch, WatchForKey, vars, server, txn, watch
  <2> HIDE DEF p
  <2> QED
    BY <2>1, <2>2 DEF WatchedUnchanged, TypeOK, Dataset
<1>4. ASSUME NEW c \in Clients, Discard(c) \/ Disconnect(c) \/ ExecAbort(c)
      PROVE  WatchedUnchanged'
  <2>1. DiscardTransaction(c) /\ data' = data
    BY <1>4 DEF Discard, Disconnect, ExecAbort, server
  <2> QED
    BY <2>1, DiscardKeeps DEF WatchedUnchanged
<1>5. ASSUME NEW c \in Clients, ExecStart(c)
      PROVE  WatchedUnchanged'
  <2>1. UnwatchAll(c) /\ data' = data /\ cas' = cas
    BY <1>5 DEF ExecStart, server, txn
  <2> QED
    BY <2>1, UnwatchAgrees DEF WatchedUnchanged
<1>6. ASSUME ExecCommand
      PROVE  WatchedUnchanged'
  <2>1. PICK c \in Clients, cmd \in Commands, r \in ReplicaType : Call(c, cmd, r)
    BY <1>6, ExecCall
  <2> QED
    BY <2>1, CallWatched DEF NoMove
<1>7. ASSUME ExecEnd
      PROVE  WatchedUnchanged'
  <2>1. PICK c \in Clients : c = executing.client
    BY <1>7 DEF ExecEnd, Idle, TypeOK
  <2>2. DiscardTransaction(c) /\ data' = data
    BY <1>7, <2>1 DEF ExecEnd
  <2> QED
    BY <2>2, DiscardKeeps DEF WatchedUnchanged
<1>8. ASSUME NEW p \in Places, CronExpire(p) \/ Evict(p)
      PROVE  WatchedUnchanged'
  <2>1. /\ data' = Without(data, {p}) /\ seen' = SeenWithout({p})
        /\ watched' = watched /\ cas' = cas
    BY <1>8 DEF CronExpire, Evict, txn
  <2>2. \A c \in Clients : \A q \in watched[c] :
           /\ data'[q] = IF q = p THEN Absent ELSE data[q]
           /\ seen'[c][q] = IF q = p THEN Absent ELSE seen[c][q]
    <3>1. /\ data \in Dataset /\ seen \in [Clients -> Dataset]
          /\ watched \in [Clients -> SUBSET Places]
      BY DEF TypeOK
    <3> QED
      BY <2>1, <3>1 DEF Without, SeenWithout, Dataset
  <2> QED
    BY <2>1, <2>2 DEF WatchedUnchanged
<1>9. CASE \/ \E p \in Places : TimePasses(p)
           \/ \E n \in 1..dirty : BgsaveDone(n)
           \/ SlaveOf \/ SlaveOfNoOne
           \/ UNCHANGED vars
  BY <1>9 DEF TimePasses, BgsaveDone, SlaveOf, SlaveOfNoOne, WatchedUnchanged,
              vars, server, txn, watch
<1> QED
  BY <1>1, <1>2, <1>3, <1>4, <1>5, <1>6, <1>7, <1>8, <1>9 DEF Next, NoResync

(* The only step that hands the server to the EXEC of a client. *)
LEMMA ExecStarts ==
    ASSUME Next, Idle, executing'.client \in Clients
    PROVE  ExecStart(executing'.client)
<1>1. executing' # executing
  BY MultiAssumption DEF Idle
<1>2. PICK e \in Clients : ExecStart(e)
  BY <1>1 DEF Next, Execute, Queue, RefuseReadOnly, Watch, RefuseFlagged, Multi,
              vars, Discard, Disconnect, ExecAbort, ExecCommand, ExecEnd, TimePasses,
              CronExpire, Evict, BgsaveDone, SlaveOf, SlaveOfNoOne, FullResync
<1>3. executing'.client = e
  BY <1>2 DEF ExecStart, Started
<1> QED
  BY <1>2, <1>3

(* An EXEC that runs its transaction finds every key it watched as it was  *)
(* at its WATCH, or expired or evicted since: WATCH is a check-and-set.    *)
THEOREM WatchIsCheckAndSet ==
    ASSUME NoMove, NoResync
    PROVE  Spec => ExecSeesWatched
<1>1. Init => WatchedUnchanged
  BY DEF Init, WatchedUnchanged
<1>2. IInv /\ WatchedUnchanged /\ [Next]_vars => WatchedUnchanged'
  BY WatchedStep
<1>3. IInv /\ WatchedUnchanged /\ [Next]_vars =>
         [\A c \in Clients :
             Idle /\ executing'.client = c =>
                \A p \in watched[c] : data[p] = seen[c][p]]_vars
  <2> SUFFICES ASSUME IInv, WatchedUnchanged, Next, Idle,
                      NEW c \in Clients, executing'.client = c
               PROVE  \A p \in watched[c] : data[p] = seen[c][p]
    BY DEF IInv
  <2>1. c \notin cas
    BY ExecStarts DEF ExecStart
  <2> QED
    BY <2>1 DEF WatchedUnchanged
<1> QED
  BY <1>1, <1>2, <1>3, IInvInvariant, PTL DEF Spec, ExecSeesWatched

-----------------------------------------------------------------------------
(* Optimistic locking without assumptions: the keys that were there.       *)

(* call() flags every client that watches a key it changes and that no     *)
(* MOVE can take away, unless the key was absent.                          *)
LEMMA CallPresent ==
    ASSUME TypeOK, IndexesAgree, PresentUnchanged,
           NEW c \in Clients, NEW cmd \in Commands, NEW r, Call(c, cmd, r)
    PROVE  PresentUnchanged'
<1> DEFINE d == db[c]
           G == Expired(cmd, d)
           D == Without(data, G)
           w == Rewritten(cmd)
<1>1. d \in Dbs /\ w \in Command /\ cmd \in Command
  BY MultiAssumption, RewrittenType DEF TypeOK
<1>2. D \in Dataset
  BY WithoutType DEF TypeOK
<1>3. data' = After(w, d, D)
  BY DEF Call
<1>4. CASE cmd.op = "unwatch"
  <2>1. UnwatchAll(c) /\ cas' = cas \ {c}
    BY <1>4 DEF Call, CasUnwatched
  <2>2. data' = data
    <3>1. G = {}
      BY <1>4 DEF Expired, Looked
    <3>2. D = data
      BY <3>1 DEF Without, TypeOK, Dataset
    <3>3. w = cmd /\ w.op \in ReadOnlyOps
      BY <1>1, <1>4, RewrittenType DEF ReadOnlyOps
    <3> QED
      BY <1>3, <3>2, <3>3, ReadOnlyClean
  <2> QED
    BY <2>1, <2>2, UnwatchAgrees DEF PresentUnchanged
<1>5. CASE cmd.op # "unwatch"
  <2>1. /\ cas' = cas \cup Touches(w, d, D)
        /\ seen' = SeenWithout(G)
        /\ watched' = watched
    BY <1>5 DEF Call
  <2> SUFFICES ASSUME NEW e \in Clients, e \notin cas', NEW p \in watched[e],
                      p \notin MovedFrom
               PROVE  seen'[e][p] \in {Absent, data'[p]}
    BY <2>1 DEF PresentUnchanged
  <2>2. p \in Places
    BY DEF TypeOK
  <2>3. data'[p] = D[p] \/ D[p] = Absent
    <3>1. CASE w.op # "move"
      BY <1>1, <1>2, <1>3, <2>1, <3>1, TouchesChanged DEF TypeOK
    <3>2. CASE w.op = "move" /\ ~Moves(w, d, D)
      BY <1>3, <3>2 DEF After
    <3>3. CASE w.op = "move" /\ Moves(w, d, D)
      <4>1. w = cmd /\ w.db # d /\ D[PlaceTo(w)] = Absent
        BY <3>3 DEF Rewritten, Moves
      <4>2. p # Place(w, d)
        BY <2>2, <3>3, <4>1 DEF MovedFrom, Place
      <4>3. After(w, d, D) = [D EXCEPT ![Place(w, d)] = Absent,
                                       ![PlaceTo(w)] = D[Place(w, d)]]
        BY <3>3 DEF After
      <4>4. p # PlaceTo(w) => After(w, d, D)[p] = D[p]
        BY <1>2, <2>2, <4>2, <4>3 DEF Dataset
      <4> QED
        BY <1>3, <4>1, <4>4
    <3> QED
      BY <3>1, <3>2, <3>3
  <2>4. seen[e][p] \in {Absent, data[p]}
    BY <2>1 DEF PresentUnchanged
  <2>5. D[p] = IF p \in G THEN Absent ELSE data[p]
    BY <2>2 DEF Without
  <2>6. seen'[e][p] = IF p \in G THEN Absent ELSE seen[e][p]
    BY <2>1, <2>2 DEF SeenWithout
  <2> QED
    BY <2>3, <2>4, <2>5, <2>6
<1> QED
  BY <1>4, <1>5

LEMMA PresentStep ==
    ASSUME IInv, PresentUnchanged, [Next]_vars
    PROVE  PresentUnchanged'
<1> USE DEF IInv
<1>1. ASSUME NEW c \in Clients, NEW cmd \in Commands, Execute(c, cmd)
      PROVE  PresentUnchanged'
  BY <1>1, CallPresent DEF Execute
<1>2. ASSUME NEW c \in Clients,
             \/ \E cmd \in Commands : Queue(c, cmd) \/ RefuseReadOnly(c, cmd)
             \/ RefuseFlagged(c) \/ Multi(c)
      PROVE  PresentUnchanged'
  BY <1>2 DEF Queue, RefuseReadOnly, RefuseFlagged, Multi, PresentUnchanged,
              vars, server, txn, watch
<1>3. ASSUME NEW c \in Clients, NEW k \in Keys, Watch(c, k)
      PROVE  PresentUnchanged'
  <2> DEFINE p == <<db[c], k>>
  <2>7. CASE UNCHANGED vars
    BY <2>7 DEF vars, server, txn, watch, PresentUnchanged
  <2> SUFFICES ASSUME ~UNCHANGED vars PROVE PresentUnchanged'
    BY <2>7
  <2>1. p \in Places
    BY DEF TypeOK, Places
  <2>2. /\ watched' = [watched EXCEPT ![c] = @ \cup {p}]
        /\ seen' = [seen EXCEPT ![c][p] = data[p]]
        /\ data' = data /\ cas' = cas
    BY <1>3 DEF Watch, WatchForKey, vars, server, txn, watch
  <2> HIDE DEF p
  <2>3. /\ watched \in [Clients -> SUBSET Places] /\ seen \in [Clients -> Dataset]
    BY DEF TypeOK
  <2>4. \A e \in Clients : \A q \in watched'[e] :
           \/ q \in watched[e] /\ seen'[e][q] = seen[e][q]
           \/ seen'[e][q] = data[q]
    BY <2>1, <2>2, <2>3 DEF Dataset
  <2> QED
    BY <2>2, <2>4 DEF PresentUnchanged
<1>4. ASSUME NEW c \in Clients, Discard(c) \/ Disconnect(c) \/ ExecAbort(c)
      PROVE  PresentUnchanged'
  <2>1. DiscardTransaction(c) /\ data' = data
    BY <1>4 DEF Discard, Disconnect, ExecAbort, server
  <2> QED
    BY <2>1, DiscardKeeps DEF PresentUnchanged
<1>5. ASSUME NEW c \in Clients, ExecStart(c)
      PROVE  PresentUnchanged'
  <2>1. UnwatchAll(c) /\ data' = data /\ cas' = cas
    BY <1>5 DEF ExecStart, server, txn
  <2> QED
    BY <2>1, UnwatchAgrees DEF PresentUnchanged
<1>6. ASSUME ExecCommand
      PROVE  PresentUnchanged'
  <2>1. PICK c \in Clients, cmd \in Commands, r \in ReplicaType : Call(c, cmd, r)
    BY <1>6, ExecCall
  <2> QED
    BY <2>1, CallPresent
<1>7. ASSUME ExecEnd
      PROVE  PresentUnchanged'
  <2>1. PICK c \in Clients : c = executing.client
    BY <1>7 DEF ExecEnd, Idle, TypeOK
  <2>2. DiscardTransaction(c) /\ data' = data
    BY <1>7, <2>1 DEF ExecEnd
  <2> QED
    BY <2>2, DiscardKeeps DEF PresentUnchanged
<1>8. ASSUME NEW p \in Places, CronExpire(p) \/ Evict(p)
      PROVE  PresentUnchanged'
  <2>1. /\ data' = Without(data, {p}) /\ seen' = SeenWithout({p})
        /\ watched' = watched /\ cas' = cas
    BY <1>8 DEF CronExpire, Evict, txn
  <2>2. \A c \in Clients : \A q \in watched[c] :
           /\ data'[q] = IF q = p THEN Absent ELSE data[q]
           /\ seen'[c][q] = IF q = p THEN Absent ELSE seen[c][q]
    <3>1. /\ data \in Dataset /\ seen \in [Clients -> Dataset]
          /\ watched \in [Clients -> SUBSET Places]
      BY DEF TypeOK
    <3> QED
      BY <2>1, <3>1 DEF Without, SeenWithout, Dataset
  <2> QED
    BY <2>1, <2>2 DEF PresentUnchanged
<1>9. ASSUME NEW E \in Snapshots, FullResync(E)
      PROVE  PresentUnchanged'
  <2>1. /\ cas' = cas \cup TouchFlush(Dbs, data)
        /\ watched' = watched /\ seen' = seen
    BY <1>9 DEF FullResync, watch
  <2> SUFFICES ASSUME NEW e \in Clients, e \notin cas', NEW p \in watched[e],
                      p \notin MovedFrom
               PROVE  seen[e][p] = Absent
    BY <2>1 DEF PresentUnchanged
  <2>2. p[1] \in Dbs
    BY DEF TypeOK, Places
  <2>3. data[p] = Absent
    BY <2>1, <2>2 DEF TouchFlush
  <2> QED
    BY <2>1, <2>3 DEF PresentUnchanged
<1>10. CASE \/ \E p \in Places : TimePasses(p)
            \/ \E n \in 1..dirty : BgsaveDone(n)
            \/ SlaveOf \/ SlaveOfNoOne
            \/ UNCHANGED vars
  BY <1>10 DEF TimePasses, BgsaveDone, SlaveOf, SlaveOfNoOne, PresentUnchanged,
               vars, server, txn, watch
<1> QED
  BY <1>1, <1>2, <1>3, <1>4, <1>5, <1>6, <1>7, <1>8, <1>9, <1>10 DEF Next

(* Whatever the clients send, and on a server that is made a slave and     *)
(* loads its master's dataset too, an EXEC that runs its transaction finds *)
(* every key that was there at its WATCH as it was, or expired or evicted  *)
(* since, where no MOVE can take it away.                                  *)
THEOREM WatchHoldsWhatWasThere == Spec => ExecSeesPresent
<1>1. Init => PresentUnchanged
  BY DEF Init, PresentUnchanged
<1>2. IInv /\ PresentUnchanged /\ [Next]_vars => PresentUnchanged'
  BY PresentStep
<1>3. IInv /\ PresentUnchanged /\ [Next]_vars =>
         [\A c \in Clients :
             Idle /\ executing'.client = c =>
                \A p \in watched[c] \ MovedFrom : seen[c][p] \in {Absent, data[p]}]_vars
  <2> SUFFICES ASSUME PresentUnchanged, Next, Idle,
                      NEW c \in Clients, executing'.client = c
               PROVE  \A p \in watched[c] \ MovedFrom : seen[c][p] \in {Absent, data[p]}
    OBVIOUS
  <2>1. c \notin cas
    BY ExecStarts DEF ExecStart
  <2> QED
    BY <2>1 DEF PresentUnchanged
<1> QED
  BY <1>1, <1>2, <1>3, IInvInvariant, PTL DEF Spec, ExecSeesPresent

-----------------------------------------------------------------------------
(* Errors: REDIS_DIRTY_EXEC outlives everything but its transaction.       *)

LEMMA RefusedStep ==
    ASSUME RefusedFlagged, [Next]_vars
    PROVE  RefusedFlagged'
<1>1. ASSUME NEW c \in Clients, NEW cmd \in Commands,
             Execute(c, cmd) \/ Queue(c, cmd) \/ RefuseReadOnly(c, cmd)
      PROVE  RefusedFlagged'
  BY <1>1 DEF Execute, Queue, RefuseReadOnly, RefusedFlagged, vars, txn
<1>2. ASSUME NEW c \in Clients, RefuseFlagged(c)
      PROVE  RefusedFlagged'
  BY <1>2 DEF RefuseFlagged, FlagTransaction, RefusedFlagged
<1>3. ASSUME NEW c \in Clients,
             (\E k \in Keys : Watch(c, k)) \/ Multi(c) \/ ExecStart(c)
      PROVE  RefusedFlagged'
  BY <1>3 DEF Watch, Multi, ExecStart, RefusedFlagged, txn
<1>4. ASSUME NEW c \in Clients, Discard(c) \/ Disconnect(c) \/ ExecAbort(c)
      PROVE  RefusedFlagged'
  BY <1>4 DEF Discard, Disconnect, ExecAbort, DiscardTransaction, RefusedFlagged
<1>5. CASE ExecCommand
  BY <1>5 DEF ExecCommand, RefusedFlagged
<1>6. CASE ExecEnd
  BY <1>6 DEF ExecEnd, DiscardTransaction, RefusedFlagged
<1>7. CASE \/ \E p \in Places : TimePasses(p) \/ CronExpire(p) \/ Evict(p)
           \/ \E n \in 1..dirty : BgsaveDone(n)
           \/ UNCHANGED vars
  BY <1>7 DEF TimePasses, CronExpire, Evict, BgsaveDone, RefusedFlagged, vars, txn
<1>8. CASE SlaveOf \/ SlaveOfNoOne \/ \E D \in Snapshots : FullResync(D)
  BY <1>8 DEF SlaveOf, SlaveOfNoOne, FullResync, RefusedFlagged, txn
<1> QED
  BY <1>1, <1>2, <1>3, <1>4, <1>5, <1>6, <1>7, <1>8 DEF Next

(* A client one of whose commands was kept out of its transaction by a     *)
(* branch that calls flagTransaction() gets EXEC refused, in whatever role *)
(* the server is meanwhile.                                                *)
THEOREM NoExecAfterError == Spec => ErrorsAbort
<1>1. Init => RefusedFlagged
  BY DEF Init, RefusedFlagged
<1>2. RefusedFlagged /\ [Next]_vars => RefusedFlagged'
  BY RefusedStep
<1>3. IInv /\ RefusedFlagged /\ [Next]_vars =>
         [Idle => executing'.client \notin refused]_vars
  <2> SUFFICES ASSUME IInv, RefusedFlagged, Next, Idle, executing'.client \in refused
               PROVE  FALSE
    OBVIOUS
  <2>1. executing'.client \in Clients
    BY DEF IInv, TypeOK
  <2> QED
    BY <2>1, ExecStarts DEF ExecStart, RefusedFlagged
<1> QED
  BY <1>1, <1>2, <1>3, IInvInvariant, PTL DEF Spec, ErrorsAbort

-----------------------------------------------------------------------------
(* Propagation.  SAVE resets server.dirty, so that an EXEC around it may   *)
(* not be propagated: the theorems are about servers where it is not sent. *)

NoSave == \A cmd \in Commands : cmd.op # "save"

LEMMA ReaderStep ==
    ASSUME NoSave, IInv, ReaderFollows, [Next]_vars
    PROVE  ReaderFollows'
<1> USE DEF IInv
<1>0. /\ replica \in ReplicaType
      /\ dirty \in Nat /\ executing.before \in Nat /\ executing.must \in {0, 1}
  BY DEF TypeOK, ReplicaType
<1>1. ASSUME NEW c \in Clients, NEW cmd \in Commands, Execute(c, cmd)
      PROVE  ReaderFollows'
  <2>1. Call(c, cmd, replica) /\ Idle /\ executing' = executing
    BY <1>1 DEF Execute
  <2>2. executing = NotExecuting /\ replica = InSync(data)
    BY <2>1 DEF ReaderFollows, NotExecuting
  <2>3. replica.block = data /\ replica.shown = data /\ replica.open = 0
    BY <1>0, <2>2, InSyncIs
  <2>4. /\ replica' \in ReplicaType /\ replica'.block = data'
        /\ replica'.open = 0 /\ replica'.shown = data'
        /\ dirty' >= dirty
    BY <1>0, <2>1, <2>3, CallReader DEF NoSave
  <2>5. replica' = InSync(data')
    BY <2>4, InSyncIs
  <2>6. dirty' \in Nat
    BY <1>0, <2>1, CallType
  <2> QED
    BY <2>1, <2>2, <2>5, <2>6 DEF ReaderFollows, NotExecuting, InSync
<1>2. ASSUME NEW c \in Clients, ExecStart(c)
      PROVE  ReaderFollows'
  <2>1. /\ executing' = [client |-> c, next |-> 0, before |-> dirty, must |-> 0]
        /\ data' = data /\ dirty' = dirty /\ replica' = replica /\ Idle
    BY <1>2 DEF ExecStart, Started, server
  <2>2. replica = InSync(data)
    BY <2>1 DEF ReaderFollows, NotExecuting
  <2> QED
    BY <1>0, <2>1, <2>2, MultiAssumption DEF ReaderFollows, Idle, InSync
<1>3. ASSUME ExecCommand
      PROVE  ReaderFollows'
  <2>1. PICK c \in Clients, cmd \in Commands, must \in {0, 1}, r \in ReplicaType :
           /\ Call(c, cmd, r)
           /\ c = executing.client
           /\ must = MustPropagate(cmd)
           /\ r = IF must > executing.must THEN FedMulti(replica) ELSE replica
           /\ executing' = [client |-> c, next |-> executing.next + 1,
                            before |-> executing.before, must |-> must]
    BY <1>3, ExecCall
  <2>2. r.block = data /\ r.open = must /\ (must = 0 => r.shown = data)
    <3>1. CASE executing.must = 1
      BY <1>0, <2>1, <3>1 DEF ReaderFollows, MustPropagate
    <3>2. CASE executing.must = 0 /\ must = 0
      BY <1>0, <2>1, <3>2, InSyncIs DEF ReaderFollows
    <3>3. CASE executing.must = 0 /\ must = 1
      <4>1. r = FedMulti(replica) /\ replica = InSync(data)
        BY <2>1, <3>3 DEF ReaderFollows
      <4> QED
        BY <1>0, <3>3, <4>1, FedBlockType, InSyncIs
    <3> QED
      BY <1>0, <3>1, <3>2, <3>3
  <2>3. /\ replica' \in ReplicaType /\ replica'.block = data'
        /\ replica'.open = must
        /\ must = 0 => replica'.shown = data'
        /\ dirty' >= dirty
    BY <2>1, <2>2, CallReader DEF NoSave
  <2>4. must = 0 => replica' = InSync(data')
    BY <2>3, InSyncIs
  <2>5. dirty' \in Nat
    BY <2>1, CallType
  <2>6. dirty' >= executing.before
    BY <1>0, <2>3, <2>5 DEF ReaderFollows
  <2>7. executing'.client # NoClient /\ executing'.must = must
        /\ executing'.before = executing.before
    BY <2>1, MultiAssumption
  <2> QED
    BY <2>3, <2>4, <2>6, <2>7 DEF ReaderFollows, Idle, InSync
<1>4. ASSUME ExecEnd
      PROVE  ReaderFollows'
  <2>1. /\ executing' = NotExecuting /\ data' = data
        /\ dirty' = dirty + executing.must
        /\ replica' = IF dirty + executing.must > executing.before
                      THEN FedExec(replica) ELSE replica
    BY <1>4 DEF ExecEnd, DirtyAtEnd
  <2>2. replica.block = data
    BY <1>0, InSyncIs DEF ReaderFollows
  <2>3. FedExec(replica) = InSync(data)
    BY <1>0, <2>2, FedBlockType
  <2>4. replica' = InSync(data)
    <3>1. CASE executing.must = 0
      BY <2>1, <2>3, <3>1 DEF ReaderFollows
    <3>2. CASE executing.must = 1
      BY <1>0, <2>1, <2>3, <3>2 DEF ReaderFollows
    <3> QED
      BY <1>0, <3>1, <3>2
  <2>5. dirty' >= 0
    BY <1>0, <2>1
  <2> QED
    BY <2>1, <2>4, <2>5 DEF ReaderFollows, NotExecuting, InSync
<1>5. ASSUME NEW p \in Places, CronExpire(p) \/ Evict(p)
      PROVE  ReaderFollows'
  <2>1. /\ Idle /\ executing' = executing /\ dirty' = dirty
        /\ data' = Without(data, {p})
        /\ replica' = Fed(replica, Without(replica.block, {p}))
    BY <1>5 DEF CronExpire, Evict, FedExpired
  <2>2. executing = NotExecuting /\ replica = InSync(data)
    BY <2>1 DEF ReaderFollows, NotExecuting
  <2>3. replica.block = data /\ replica.open = 0
    BY <1>0, <2>2, InSyncIs
  <2>4. data' \in Dataset
    BY <2>1, WithoutType DEF TypeOK
  <2>5. replica' = InSync(data')
    BY <1>0, <2>1, <2>3, <2>4, FedType, InSyncIs
  <2> QED
    BY <2>1, <2>2, <2>5 DEF ReaderFollows, NotExecuting, InSync
<1>6. ASSUME NEW n \in 1..dirty, BgsaveDone(n)
      PROVE  ReaderFollows'
  <2>1. /\ Idle /\ dirty' = dirty - n
        /\ data' = data /\ executing' = executing /\ replica' = replica
    BY <1>6 DEF BgsaveDone
  <2>2. dirty' >= 0
    BY <1>0, <2>1
  <2> QED
    BY <2>1, <2>2 DEF ReaderFollows, Idle, NotExecuting, InSync
<1>7. ASSUME NEW D \in Snapshots, FullResync(D)
      PROVE  ReaderFollows'
  BY <1>7 DEF FullResync, ReaderFollows, Idle, NotExecuting, InSync
<1>8. CASE UNCHANGED <<data, dirty, executing, replica>>
  BY <1>8 DEF ReaderFollows, Idle, InSync
<1>9. ASSUME NEW c \in Clients,
             \/ \E cmd \in Commands : Queue(c, cmd) \/ RefuseReadOnly(c, cmd)
             \/ \E k \in Keys : Watch(c, k)
             \/ RefuseFlagged(c) \/ Multi(c) \/ Discard(c) \/ Disconnect(c) \/ ExecAbort(c)
      PROVE  UNCHANGED <<data, dirty, executing, replica>>
  BY <1>9 DEF Queue, RefuseReadOnly, Watch, RefuseFlagged, Multi, Discard, Disconnect,
              ExecAbort, vars, server, watch
<1>10. ASSUME \/ \E p \in Places : TimePasses(p)
              \/ SlaveOf \/ SlaveOfNoOne \/ UNCHANGED vars
       PROVE  UNCHANGED <<data, dirty, executing, replica>>
  BY <1>10 DEF TimePasses, SlaveOf, SlaveOfNoOne, vars, server
<1> QED
  BY <1>1, <1>2, <1>3, <1>4, <1>5, <1>6, <1>7, <1>8, <1>9, <1>10 DEF Next

LEMMA ReaderInvariant ==
    ASSUME NoSave
    PROVE  Spec => []ReaderFollows
<1>1. Init => ReaderFollows
  BY DEF Init, ReaderFollows, Idle, NotExecuting, InSync
<1>2. IInv /\ ReaderFollows /\ [Next]_vars => ReaderFollows'
  BY ReaderStep
<1> QED
  BY <1>1, <1>2, IInvInvariant, PTL DEF Spec

(* Between two commands the reader of the propagated commands has the      *)
(* dataset of the master and no block open.                                *)
THEOREM ReaderAgrees ==
    ASSUME NoSave
    PROVE  Spec => []ReplicaAgrees
<1>1. ReaderFollows => ReplicaAgrees
  BY DEF ReaderFollows, ReplicaAgrees, NotExecuting
<1> QED
  BY <1>1, ReaderInvariant, PTL

(* The reader never shows a part of a running transaction. *)
THEOREM NeverTornView ==
    ASSUME NoSave
    PROVE  Spec => NoTornView
<1>1. IInv /\ ReaderFollows /\ [Next]_vars =>
         [~Idle /\ executing'.client # NoClient =>
             \A p \in Places : replica'.shown[p] # replica.shown[p] => Gone(p)]_vars
  <2> SUFFICES ASSUME IInv, ReaderFollows, Next, ~Idle, executing'.client # NoClient,
                      NEW p \in Places, replica'.shown[p] # replica.shown[p]
               PROVE  Gone(p)
    OBVIOUS
  <2>1. ExecCommand
    <3>1. ~ExecEnd
      BY DEF ExecEnd, NotExecuting
    <3>2. \A q \in Places : ~TimePasses(q)
      BY DEF TimePasses
    <3>3. \A c \in Clients :
             /\ \A cmd \in Commands :
                   ~Execute(c, cmd) /\ ~Queue(c, cmd) /\ ~RefuseReadOnly(c, cmd)
             /\ \A k \in Keys : ~Watch(c, k)
             /\ ~RefuseFlagged(c) /\ ~Multi(c) /\ ~Discard(c) /\ ~Disconnect(c)
             /\ ~ExecAbort(c) /\ ~ExecStart(c)
      BY DEF Execute, Queue, RefuseReadOnly, Watch, RefuseFlagged, Multi,
             Discard, Disconnect, ExecAbort, ExecStart
    <3>4. /\ \A q \in Places : ~CronExpire(q) /\ ~Evict(q)
          /\ \A n \in 1..dirty : ~BgsaveDone(n)
          /\ ~SlaveOf /\ ~SlaveOfNoOne
          /\ \A D \in Snapshots : ~FullResync(D)
      BY DEF CronExpire, Evict, BgsaveDone, SlaveOf, SlaveOfNoOne, FullResync
    <3> QED
      BY <3>1, <3>2, <3>3, <3>4 DEF Next
  <2>2. PICK c \in Clients, cmd \in Commands, must \in {0, 1}, r \in ReplicaType :
           /\ Call(c, cmd, r)
           /\ must = MustPropagate(cmd)
           /\ r = IF must > executing.must THEN FedMulti(replica) ELSE replica
    BY <2>1, ExecCall DEF IInv
  <2>3. replica \in ReplicaType /\ executing.must \in {0, 1}
    BY DEF IInv, TypeOK, ReplicaType
  <2>4. CASE must = 0
    <3>1. executing.must = 0 /\ cmd.op \in ReadOnlyOps /\ r = replica
      BY <2>2, <2>3, <2>4 DEF MustPropagate
    <3>2. r.block = data /\ r.shown = data /\ r.open = 0
      BY <2>3, <3>1, InSyncIs DEF ReaderFollows
    <3>3. replica'.shown = data' /\ (data'[p] # data[p] => Gone(p))
      BY <2>2, <3>1, <3>2, CallReader DEF IInv, NoSave
    <3> QED
      BY <3>1, <3>2, <3>3
  <2>5. CASE must = 1
    <3>1. r.block = data /\ r.open = 1 /\ r.shown = replica.shown
      <4>1. CASE executing.must = 1
        BY <2>2, <2>5, <4>1 DEF ReaderFollows
      <4>2. CASE executing.must = 0
        <5>1. r = FedMulti(replica) /\ replica = InSync(data)
          BY <2>2, <2>5, <4>2 DEF ReaderFollows
        <5> QED
          BY <2>3, <5>1, FedBlockType, InSyncIs
      <4> QED
        BY <2>3, <4>1, <4>2
    <3>2. replica'.shown = replica.shown
      BY <2>2, <3>1, CallReader DEF IInv, NoSave
    <3> QED
      BY <3>2
  <2> QED
    BY <2>4, <2>5
<1> QED
  BY <1>1, ReaderInvariant, IInvInvariant, PTL DEF Spec, NoTornView
=============================================================================
