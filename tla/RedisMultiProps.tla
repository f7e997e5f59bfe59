-------------------------- MODULE RedisMultiProps --------------------------
(***************************************************************************)
(* The properties of MULTI/EXEC/WATCH and of the propagation of a          *)
(* transaction.                                                            *)
(***************************************************************************)
EXTENDS RedisMulti

(* Every variable has the type its C declaration and its use give it; the  *)
(* loop of execCommand() stays within the queue.                           *)
TypeOK ==
    /\ data \in Dataset
    /\ ttl \in [Places -> {"none", "future", "past"}]
    /\ dirty \in Nat
    /\ role \in {"master", "slave"}
    /\ db \in [Clients -> Dbs]
    /\ multi \subseteq Clients /\ cas \subseteq Clients
    /\ errs \subseteq Clients /\ refused \subseteq Clients
    /\ queue \in [Clients -> Seq(Commands)]
    /\ watched \in [Clients -> SUBSET Places]
    /\ watchers \in [Places -> SUBSET Clients]
    /\ seen \in [Clients -> Dataset]
    /\ executing \in [client : Clients \cup {NoClient}, next : Nat,
                      before : Nat, must : {0, 1}]
    /\ replica \in [shown : Dataset, block : Dataset, open : {0, 1}]
    /\ executing.client \in Clients => executing.next <= Len(queue[executing.client])

(* The two indexes of WATCH, the list of a client and the list of a key,   *)
(* are each other's inverse: touchWatchedKey() reaches every watcher of a  *)
(* key and no freed client (multi.c:184-191).                              *)
IndexesAgree ==
    \A c \in Clients, p \in Places : p \in watched[c] <=> c \in watchers[p]

(* Only a client that still watches something is flagged REDIS_DIRTY_CAS:  *)
(* a key touched under an earlier WATCH never aborts a later transaction.  *)
NoStaleFlag == \A c \in cas : watched[c] # {}

(* EXEC runs the transaction only if every watched key is as it was at its *)
(* WATCH, or expired or evicted since: the check of execCommand() and every *)
(* call of signalModifiedKey() and signalFlushedDb() together.             *)
ExecSeesWatched ==
    [][\A c \in Clients :
          Idle /\ executing'.client = c =>
             \A p \in watched[c] : data[p] = seen[c][p]]_vars

(* The places that some command may move a key from: MOVE signals none.   *)
MovedFrom ==
    {p \in Places : \E cmd \in Commands :
                       cmd.op = "move" /\ cmd.key = p[2] /\ cmd.db # p[1]}

(* Whatever the clients send, and also on a server whose dataset is        *)
(* replaced by its master's, EXEC runs only if every watched key that was  *)
(* there is as at its WATCH, or expired or evicted since: MOVE and a full   *)
(* resynchronisation may only create a watched key unnoticed.              *)
ExecSeesPresent ==
    [][\A c \in Clients :
          Idle /\ executing'.client = c =>
             \A p \in watched[c] \ MovedFrom : seen[c][p] \in {Absent, data[p]}]_vars

(* A client one of whose commands was kept out of its transaction by a     *)
(* branch of processCommand() that calls flagTransaction() gets EXEC       *)
(* refused, whatever it, the others and the server's role do in between.   *)
(* Three errors abort nothing: a nested MULTI (multi.c:87-90), a WATCH     *)
(* inside MULTI (multi.c:310-313), neither of them to be queued, and a     *)
(* write refused by a read-only slave (redis.c:2108-2114), which is left   *)
(* out of the transaction that EXEC then runs.                             *)
ErrorsAbort == [][Idle => executing'.client \notin refused]_vars

(* Between two commands the reader of the propagated commands has the      *)
(* dataset of the master and no block open: MULTI and EXEC are propagated  *)
(* in pairs, and every change of a key is, in the form that repeats it.    *)
ReplicaAgrees == Idle => replica = InSync(data)

(* While EXEC runs the reader shows none of its effects, only keys that    *)
(* expire: it sees a transaction as a whole (multi.c:150-153).             *)
NoTornView ==
    [][~Idle /\ executing'.client # NoClient =>
          \A p \in Places : replica'.shown[p] # replica.shown[p] => Gone(p)]_vars

-----------------------------------------------------------------------------
(* What the proofs need on top: the parts of the inductive invariant.      *)

(* The flag is set at once when a watched key changes. *)
WatchedUnchanged ==
    \A c \in Clients : c \notin cas => \A p \in watched[c] : data[p] = seen[c][p]

(* The same of the keys that were there at their WATCH. *)
PresentUnchanged ==
    \A c \in Clients : c \notin cas =>
        \A p \in watched[c] \ MovedFrom : seen[c][p] \in {Absent, data[p]}

(* The flag stays as long as the transaction it was set for. *)
RefusedFlagged == refused \subseteq errs

(* Where the reader stands: the block that the running EXEC opened holds   *)
(* what the master has done so far, and server.dirty has not gone below    *)
(* what the call() around EXEC read.                                       *)
ReaderFollows ==
    /\ Idle => executing = NotExecuting
    /\ executing.must = 0 => replica = InSync(data)
    /\ executing.must = 1 => replica.block = data /\ replica.open = 1
    /\ dirty >= executing.before
=============================================================================
