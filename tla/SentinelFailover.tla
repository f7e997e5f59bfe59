-------------------------- MODULE SentinelFailover --------------------------
(* What the elected Sentinel does, and how the others follow (sentinel.c):  *)
(* the failover state machine, the SLAVEOF orders it sends, the INFO of the *)
(* Redis instances, the hello messages that spread a new configuration, and *)
(* the configuration file a restarted Sentinel reads.                       *)
(*                                                                          *)
(* An instance is its address.  An election is one step, and its epoch is   *)
(* nobody else's: see SentinelElection.  Every delay and timeout may have   *)
(* elapsed or not.                                                          *)
EXTENDS Naturals, FiniteSets

CONSTANTS
  Watchers,   \* the Sentinels
  Instances,  \* the Redis servers
  FirstMaster,\* the one the configuration names first
  NoOne,      \* SLAVEOF NO ONE, a NULL promoted slave, no order on a link
  DownQuorum, \* master->quorum
  ParallelSyncs, \* master->parallel_syncs
  Priority,   \* slave-priority, 0 for an instance never to be promoted
  Limits      \* how often each kind of event may happen, see Kinds

Kinds == {"failover", "force", "crash", "outage", "suspicion", "late", "reset"}

ASSUME FailoverAssumption ==
  /\ IsFiniteSet(Watchers) /\ IsFiniteSet(Instances)
  /\ FirstMaster \in Instances /\ NoOne \notin Instances
  /\ DownQuorum \in Nat \ {0} /\ ParallelSyncs \in Nat \ {0}
  /\ Priority \in [Instances -> Nat]
  /\ Limits \subseteq [Kinds -> Nat]

VARIABLES
  redis,  \* per instance: whom it replicates, if anybody, and whether it runs
  view,   \* per Sentinel: its sentinelRedisInstance of the master
  saved,  \* per Sentinel: its configuration file
  orders, \* per Sentinel and instance: the SLAVEOF on its way, if any
  hellos, \* the configurations published, which may arrive at any time
  epochs, \* the epochs taken by a failover
  promotions,  \* history: the slaves told to become a master, and when
  disputed,\* history: the epochs announced with the wrong address, see below
  limit   \* what is left of the events

failoverVars ==
  <<redis, view, saved, orders, hellos, epochs, promotions, disputed, limit>>

Happens(kind) == limit[kind] > 0 /\ limit' = [limit EXCEPT ![kind] = @ - 1]

----------------------------------------------------------------------------
(* The master as a Sentinel knows it                                        *)

(* sentinelResetMaster(), and createSentinelRedisInstance() for a master:   *)
(* nothing but the address, the epoch and the slaves outlives it.           *)
FreshView(addr, epoch, slaves) ==
  [addr |-> addr, epoch |-> epoch, slaves |-> slaves,
   state |-> "none", failoverEpoch |-> 0, promoted |-> NoOne,
   reconf |-> [i \in Instances |-> "no"],
   reported |-> "master", sdown |-> FALSE, odown |-> FALSE, agree |-> {}]

(* sentinelGetCurrentMasterAddress()                                        *)
MonitoredAddress(v) == v.addr
CurrentAddress(v) == IF v.state = "reconf" THEN v.promoted ELSE v.addr

(* rewriteConfigSentinelOption(): the slaves are written with their own     *)
(* address, the promoted one included.                                      *)
FileOf(v) == [addr |-> CurrentAddress(v), epoch |-> v.epoch, slaves |-> v.slaves]

(* sentinelResetMasterAndChangeAddress(): the old master becomes a slave.   *)
ChangedAddress(v, addr) ==
  FreshView(addr, v.epoch, (v.slaves \cup {v.addr}) \ {addr})

FailingOver(v) == v.state # "none"

(* sentinelAbortFailover()                                                  *)
AbortedPromoted(v) == [v EXCEPT !.state = "none"]
AbortedView(v) == [v EXCEPT !.state = "none", !.promoted = NoOne]

FailoverInit ==
  /\ redis = [i \in Instances |->
       [master |-> IF i = FirstMaster THEN NoOne ELSE FirstMaster, up |-> TRUE]]
  /\ view = [s \in Watchers |-> FreshView(FirstMaster, 0, Instances \ {FirstMaster})]
  /\ saved = [s \in Watchers |-> FileOf(view[s])]
  /\ orders = [s \in Watchers |-> [i \in Instances |-> {}]]
  /\ hellos = {} /\ epochs = 0 /\ promotions = {} /\ disputed = {}
  /\ limit \in Limits

IsMaster(i) == redis[i].master = NoOne
Reachable(i) == redis[i].up

----------------------------------------------------------------------------
(* The failover state machine: the view after one call, and its orders      *)

(* sentinelSendSlaveOf(), on a connected link.                              *)
SendSlaveOf(out, i, to) == [out EXCEPT ![i] = {to}]

(* sentinelSelectSlave(): among the slaves in good shape, the best priority;*)
(* offsets and run ids break the tie.                                       *)
Selectable(v) == {i \in v.slaves : Reachable(i) /\ Priority[i] > 0}
Best(v) == {i \in Selectable(v) : \A j \in Selectable(v) : Priority[i] <= Priority[j]}

(* A result is the view and the orders after the call.                      *)
Result(v, out) == [view |-> v, out |-> out]
Goto(v, state) == [v EXCEPT !.state = state]

(* sentinelFailoverWaitStart(), the election in one step.                   *)
WaitStart(v, out, late) ==
  {Result(Goto(v, "select"), out), Result(IF late THEN AbortedView(v) ELSE v, out)}

(* sentinelFailoverSelectSlave()                                            *)
SelectSlave(v, out) ==
  IF Best(v) = {} THEN {Result(AbortedView(v), out)}
  ELSE {Result([Goto(v, "noone") EXCEPT !.promoted = i], out) : i \in Best(v)}

(* sentinelFailoverSendSlaveOfNoOne()                                       *)
SendSlaveOfNoOne(v, out, late) ==
  IF Reachable(v.promoted)
  THEN {Result(Goto(v, "promotion"), SendSlaveOf(out, v.promoted, NoOne))}
  ELSE {Result(IF late THEN AbortedView(v) ELSE v, out)}

(* sentinelFailoverWaitPromotion(): INFO does the rest.                     *)
WaitPromotion(v, out, late) == {Result(IF late THEN AbortedView(v) ELSE v, out)}

(* sentinelFailoverDetectEnd(): over when every reachable slave is done, or *)
(* by timeout, with a last SLAVEOF to whoever was not sent one.             *)
Unfinished(v) ==
  {i \in v.slaves : i # v.promoted /\ v.reconf[i] # "done" /\ Reachable(i)}
Leftovers(v) == {i \in v.slaves : v.reconf[i] \notin {"done", "sent"} /\ Reachable(i)}
Ordered(out, told, to) == [i \in Instances |-> IF i \in told THEN {to} ELSE out[i]]
DetectEnd(v, out, late) ==
  IF ~Reachable(v.promoted) THEN Result(v, out)
  ELSE IF late THEN Result(Goto(v, "update"), Ordered(out, Leftovers(v), v.promoted))
  ELSE IF Unfinished(v) = {} THEN Result(Goto(v, "update"), out)
  ELSE Result(v, out)

(* sentinelFailoverReconfNextSlave(): SLAVEOF to so many slaves at a time.  *)
(* A slave that was told long ago counts as done, if there is room for      *)
(* another one at all.                                                      *)
Syncing(v) == {i \in v.slaves : v.reconf[i] \in {"sent", "inprog"}}
Room(v) == IF Cardinality(Syncing(v)) >= ParallelSyncs THEN 0
           ELSE ParallelSyncs - Cardinality(Syncing(v))
Marked(v, set, mark) ==
  [v EXCEPT !.reconf = [i \in Instances |-> IF i \in set THEN mark ELSE v.reconf[i]]]
Untold(v) == {i \in v.slaves : i # v.promoted /\ v.reconf[i] = "no" /\ Reachable(i)}
ReconfNextSlave(v, out, late) ==
  LET stuck  == {i \in v.slaves : Room(v) > 0 /\ v.reconf[i] = "sent"}
      most   == IF Room(v) < Cardinality(Untold(v)) THEN Room(v) ELSE Cardinality(Untold(v))
      choice == {told \in SUBSET Untold(v) : Cardinality(told) = most}
  IN  {DetectEnd(Marked(Marked(v, told, "sent"), done, "done"),
                 Ordered(out, told, v.promoted), late)
         : told \in choice, done \in IF late THEN {{}, stuck} ELSE {{}}}

(* sentinelFailoverStateMachine(); UPDATE_CONFIG ends with the timer.       *)
StateMachine(v, out, late) ==
  CASE v.state = "none"      -> {Result(v, out)}
    [] v.state = "wait"      -> WaitStart(v, out, late)
    [] v.state = "select"    -> SelectSlave(v, out)
    [] v.state = "noone"     -> SendSlaveOfNoOne(v, out, late)
    [] v.state = "promotion" -> WaitPromotion(v, out, late)
    [] v.state = "reconf"    -> ReconfNextSlave(v, out, late)

----------------------------------------------------------------------------
(* The timer of a Sentinel                                                  *)

(* sentinelCheckSubjectivelyDown() and sentinelCheckObjectivelyDown().      *)
Observed(v, sdown) ==
  [v EXCEPT !.sdown = sdown, !.odown = sdown /\ 1 + Cardinality(v.agree) >= DownQuorum]
LooksFine(v) == Reachable(v.addr) /\ v.reported = "master"

(* sentinelStartFailover(), with an epoch of its own.                       *)
StartedNext(v) == [v EXCEPT !.state = "wait", !.failoverEpoch = v.epoch + 1]
StartedView(v) == [v EXCEPT !.state = "wait", !.failoverEpoch = epochs + 1]

(* sentinelHandleDictOfRedisInstances(): once the failover is over, the     *)
(* promoted slave is the master (sentinelFailoverSwitchToPromotedSlave()).  *)
Switched(v) == IF v.state = "update" THEN ChangedAddress(v, v.promoted) ELSE v

(* sentinelSendHello(); the epoch 0 tells nobody anything.                  *)
Published(v) == {[addr |-> CurrentAddress(v), epoch |-> v.epoch]} \ {[addr |-> FirstMaster, epoch |-> 0]}

(* sentinelTimer(): the hello, the flags, the start of a failover, the      *)
(* state machine, the switch.  A master that runs may be taken for down,    *)
(* opinions of the others may be too old, and timeouts may have elapsed.    *)
Ready(v, sdown, starts) ==
  IF starts THEN StartedView(Observed(v, sdown)) ELSE Observed(v, sdown)
TimerCalls(s, sdown, starts, late, r) ==
  LET v     == view[s]
      ready == Ready(v, sdown, starts)
      final == Switched(r.view)
  IN  /\ sdown = FALSE => LooksFine(v) \/ ~v.sdown
      /\ starts => Observed(v, sdown).odown /\ ~FailingOver(v)
      /\ late => FailingOver(v)
      /\ view' = [view EXCEPT ![s] = final]
      /\ saved' = [saved EXCEPT ![s] = IF final # r.view THEN FileOf(final) ELSE @]
      /\ orders' = [orders EXCEPT ![s] = r.out]
      /\ promotions' = IF r.view.state = "promotion" /\ ready.state = "noone"
           THEN promotions \cup {[epoch |-> ready.failoverEpoch, slave |-> ready.promoted]}
           ELSE promotions
      /\ hellos' = hellos \cup Published(v)
      /\ epochs' = IF starts THEN epochs + 1 ELSE epochs
      /\ limit' = [limit EXCEPT
           !["failover"] = IF starts THEN @ - 1 ELSE @,
           !["late"] = IF late THEN @ - 1 ELSE @,
           !["suspicion"] = IF sdown /\ ~v.sdown /\ LooksFine(v) THEN @ - 1 ELSE @]
      /\ \A kind \in Kinds : limit'[kind] >= 0
      /\ UNCHANGED <<redis, disputed>>
FailoverTimer(s) ==
  \E sdown, starts, late \in BOOLEAN :
    \E r \in StateMachine(Ready(view[s], sdown, starts), orders[s], late) :
      TimerCalls(s, sdown, starts, late, r)

(* The answer to SENTINEL IS-MASTER-DOWN-BY-ADDR, or its absence for long:  *)
(* a peer agrees if it monitors the same address and finds it down.         *)
LearnOpinion(s, p) ==
  LET down == view[p].sdown /\ view[p].addr = view[s].addr
  IN  /\ view[s].sdown /\ down # (p \in view[s].agree)
      /\ view' = [view EXCEPT ![s].agree = IF down THEN @ \cup {p} ELSE @ \ {p}]
      /\ UNCHANGED <<redis, saved, orders, hellos, epochs, promotions, disputed, limit>>

----------------------------------------------------------------------------
(* INFO, orders, hello messages                                             *)

(* sentinelRefreshInstanceInfo() for the master: the role it reports, and   *)
(* slaves the Sentinel did not know.                                        *)
InfoMaster(s) ==
  LET v == view[s]
      attached == {i \in Instances : Reachable(i) /\ redis[i].master = v.addr} \ {v.addr}
      w == [v EXCEPT !.reported = IF IsMaster(v.addr) THEN "master" ELSE "slave",
                     !.slaves = @ \cup attached]
  IN  /\ Reachable(v.addr) /\ w # v
      /\ view' = [view EXCEPT ![s] = w]
      /\ UNCHANGED <<redis, saved, orders, hellos, epochs, promotions, disputed, limit>>

(* sentinelMasterLooksSane()                                                *)
LooksSane(v) == v.reported = "master" /\ ~v.sdown /\ ~v.odown

(* The promoted slave says it is a master: the new configuration exists,    *)
(* with the epoch of the failover, and is saved.                            *)
InfoPromoted(s) ==
  LET v == view[s]
      w == [Goto(v, "reconf") EXCEPT !.epoch = v.failoverEpoch]
  IN  /\ v.state = "promotion" /\ v.promoted \in v.slaves
      /\ Reachable(v.promoted) /\ IsMaster(v.promoted)
      /\ view' = [view EXCEPT ![s] = w]
      /\ saved' = [saved EXCEPT ![s] = FileOf(w)]
      /\ UNCHANGED <<redis, orders, hellos, epochs, promotions, disputed, limit>>

(* Another slave says it is a master, or replicates somebody else, for long *)
(* enough: it is sent back, if the master looks sane.                       *)
InfoMisplaced(s, i) ==
  LET v == view[s]
  IN  /\ i \in v.slaves /\ Reachable(i) /\ LooksSane(v)
      /\ IF IsMaster(i) THEN i # v.promoted ELSE redis[i].master # v.addr
      /\ orders[s][i] # {v.addr}
      /\ orders' = [orders EXCEPT ![s] = SendSlaveOf(@, i, v.addr)]
      /\ UNCHANGED <<redis, view, saved, hellos, epochs, promotions, disputed, limit>>

(* A slave that is being reconfigured moves on, by one step or by two.      *)
InfoReconfigured(s, i) ==
  LET v == view[s]
      inprog == \/ v.reconf[i] = "inprog"
                \/ v.reconf[i] = "sent" /\ redis[i].master = v.promoted
  IN  /\ i \in v.slaves /\ Reachable(i) /\ ~IsMaster(i) /\ inprog
      /\ \E mark \in {"inprog", "done"} :
           /\ mark # v.reconf[i]
           /\ mark = "done" => Reachable(redis[i].master)
           /\ view' = [view EXCEPT ![s] = Marked(v, {i}, mark)]
      /\ UNCHANGED <<redis, saved, orders, hellos, epochs, promotions, disputed, limit>>

(* An instance executes the MULTI of sentinelSendSlaveOf(): its role is     *)
(* rewritten to its configuration, and the connections of the others are    *)
(* closed, with what they still had to say.                                 *)
Obey(s, i) ==
  /\ orders[s][i] # {} /\ Reachable(i)
  /\ \E to \in orders[s][i] : redis' = [redis EXCEPT ![i].master = to]
  /\ orders' = [p \in Watchers |-> [orders[p] EXCEPT ![i] = {}]]
  /\ UNCHANGED <<view, saved, hellos, epochs, promotions, disputed, limit>>

(* sentinelProcessHelloMessage(): a newer configuration is adopted, and the *)
(* master reset if its address is another one than the one monitored.       *)
HearConfiguration(s) ==
  \E h \in hellos :
    LET v == view[s]
        newer == [v EXCEPT !.epoch = h.epoch]
        w == IF h.addr # v.addr THEN ChangedAddress(newer, h.addr) ELSE newer
    IN  /\ v.epoch < h.epoch
        /\ view' = [view EXCEPT ![s] = w]
        /\ saved' = [saved EXCEPT ![s] = IF h.addr # v.addr THEN FileOf(w) ELSE @]
        /\ disputed' = IF {CurrentAddress(w), saved'[s].addr} # {h.addr}
                       THEN disputed \cup {h.epoch} ELSE disputed
        /\ UNCHANGED <<redis, orders, hellos, epochs, promotions, limit>>

----------------------------------------------------------------------------
(* Commands and failures                                                    *)

(* SENTINEL FAILOVER                                                        *)
ForcedFailover(s) ==
  LET v == view[s]
  IN  /\ Happens("force") /\ ~FailingOver(v) /\ Best(v) # {}
      /\ view' = [view EXCEPT ![s] = StartedView(v)]
      /\ epochs' = epochs + 1
      /\ UNCHANGED <<redis, saved, orders, hellos, promotions, disputed>>

(* SENTINEL RESET: the slaves are forgotten, to be found again by INFO.  In *)
(* the middle of a failover the epoch stays with the old address.           *)
ResetCommand(s) ==
  LET v == view[s]
  IN  /\ Happens("reset")
      /\ view' = [view EXCEPT ![s] = FreshView(v.addr, v.epoch, {})]
      /\ disputed' = IF v.state = "reconf" THEN disputed \cup {v.epoch} ELSE disputed
      /\ UNCHANGED <<redis, saved, orders, hellos, epochs, promotions>>

(* sentinelFlushConfig() for another reason: a vote, a new epoch or Sentinel.*)
SaveConfiguration(s) ==
  /\ saved[s] # FileOf(view[s])
  /\ saved' = [saved EXCEPT ![s] = FileOf(view[s])]
  /\ UNCHANGED <<redis, view, orders, hellos, epochs, promotions, disputed, limit>>

(* A Sentinel is killed, and starts again from its file.                    *)
CrashSentinel(s) ==
  LET file == saved[s]
  IN  /\ Happens("crash")
      /\ view' = [view EXCEPT ![s] = FreshView(file.addr, file.epoch, file.slaves)]
      /\ orders' = [orders EXCEPT ![s] = [i \in Instances |-> {}]]
      /\ UNCHANGED <<redis, saved, hellos, epochs, promotions, disputed>>

(* An instance stops, or loses its network, and comes back in its role.     *)
Outage(i) ==
  /\ Happens("outage") /\ Reachable(i)
  /\ redis' = [redis EXCEPT ![i].up = FALSE]
  /\ orders' = [s \in Watchers |-> [orders[s] EXCEPT ![i] = {}]]
  /\ UNCHANGED <<view, saved, hellos, epochs, promotions, disputed>>
ComeBack(i) ==
  /\ ~Reachable(i)
  /\ redis' = [redis EXCEPT ![i].up = TRUE]
  /\ UNCHANGED <<view, saved, orders, hellos, epochs, promotions, disputed, limit>>

FailoverNext ==
  \/ \E s \in Watchers :
       \/ FailoverTimer(s) \/ InfoMaster(s) \/ InfoPromoted(s) \/ HearConfiguration(s)
       \/ ForcedFailover(s) \/ ResetCommand(s) \/ SaveConfiguration(s) \/ CrashSentinel(s)
       \/ \E p \in Watchers \ {s} : LearnOpinion(s, p)
       \/ \E i \in Instances :
            InfoMisplaced(s, i) \/ InfoReconfigured(s, i) \/ Obey(s, i)
  \/ \E i \in Instances : Outage(i) \/ ComeBack(i)

FailoverSpec == FailoverInit /\ [][FailoverNext]_failoverVars

----------------------------------------------------------------------------
(* Properties                                                               *)

(* The views and the files are well typed, and a slave is promoted exactly  *)
(* in the states of the machine that have one (the asserts of               *)
(* sentinelAbortFailover() and sentinelFailoverStateMachine()).             *)
FailoverTypeOK ==
  \A s \in Watchers :
    LET v == view[s]
    IN  /\ v.addr \in Instances /\ v.slaves \subseteq Instances
        /\ v.state \in {"none", "wait", "select", "noone", "promotion", "reconf"}
        /\ v.promoted # NoOne <=> v.state \in {"noone", "promotion", "reconf"}
        /\ v.epoch <= epochs /\ v.failoverEpoch <= epochs
        /\ saved[s].epoch <= v.epoch
        /\ Syncing(v) # {} => v.state = "reconf"

(* One configuration per epoch: Sentinels whose master has the same epoch   *)
(* have the same address for it, in memory, on disk and in their hellos,    *)
(* but for the epochs a Sentinel is known to misrepresent: it heard of the  *)
(* return of its old master while it was busy reconfiguring slaves for      *)
(* another one, or was reset in the middle of that.                         *)
Configurations ==
  hellos \cup {[addr |-> CurrentAddress(view[s]), epoch |-> view[s].epoch] : s \in Watchers}
         \cup {[addr |-> saved[s].addr, epoch |-> saved[s].epoch] : s \in Watchers}
OneConfigurationPerEpoch ==
  \A c, d \in Configurations : c.epoch = d.epoch => (c = d \/ c.epoch \in disputed)

(* A failover promotes one slave, whatever times out or restarts.           *)
OnePromotionPerEpoch ==
  \A p, q \in promotions : p.epoch = q.epoch => p = q

(* An epoch is that of one failover: no two configurations are announced    *)
(* with it, and no two slaves promoted in it (sentinelStartFailover(),      *)
(* sentinelRefreshInstanceInfo()).                                          *)
EpochsAreUnique == OneConfigurationPerEpoch /\ OnePromotionPerEpoch

(* The address a Sentinel announces changes for a newer configuration, for  *)
(* the failover it leads and that succeeded, and otherwise, restarts of the *)
(* Sentinel included, only in the epochs it misrepresents                   *)
(* (sentinelGetCurrentMasterAddress(), sentinelFlushConfig()).  Its own     *)
(* failover may be older than what it heard of in the meantime.             *)
OwnFailover(s) == view[s].state = "promotion" /\ view'[s].epoch = view[s].failoverEpoch
AddressFollowsEpoch ==
  [][\A s \in Watchers :
       CurrentAddress(view[s])' # CurrentAddress(view[s]) =>
         \/ view[s].epoch < view'[s].epoch
         \/ OwnFailover(s)
         \/ {view[s].epoch, view'[s].epoch} \cap disputed' # {}
     ]_failoverVars

(* sentinelFailoverDetectEnd(): "a best effort SLAVEOF command to all the   *)
(* slaves still not reconfigured to replicate with the new master"          *)
(* (sentinel.c:3649): nobody is told to replicate itself.                   *)
NobodyFollowsItself ==
  \A s \in Watchers, i \in Instances : i \notin orders[s][i]

(* rewriteConfigSentinelOption(): "as the address of this slave we use the  *)
(* old master address instead" (sentinel.c:1551).                           *)
SavedMasterIsNoSlave == \A s \in Watchers : saved[s].addr \notin saved[s].slaves
=============================================================================
