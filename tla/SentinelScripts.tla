-------------------------- MODULE SentinelScripts --------------------------
(* The notification scripts of a Sentinel (sentinel.c): a bounded queue of  *)
(* jobs, the children that execute them, and the retries.                   *)
EXTENDS Naturals, Sequences, FiniteSets, Functions

CONSTANTS
  MaxQueue,    \* SENTINEL_SCRIPT_MAX_QUEUE
  MaxRunning,  \* SENTINEL_SCRIPT_MAX_RUNNING
  MaxRetry,    \* SENTINEL_SCRIPT_MAX_RETRY
  Pids,        \* the process ids the system may give
  MaxScripts,  \* bound: the scripts ever scheduled
  ForkFailures \* bound: the forks that fail

ASSUME ScriptsAssumption ==
  /\ MaxQueue \in Nat /\ MaxRunning \in Nat \ {0} /\ MaxRetry \in Nat \ {0}
  /\ MaxRunning < MaxQueue
  /\ IsFiniteSet(Pids) /\ 0 \notin Pids /\ Cardinality(Pids) >= MaxRunning
  /\ MaxScripts \in Nat /\ ForkFailures \in Nat

VARIABLES
  jobs,      \* sentinel.scripts_queue
  slots,     \* sentinel.running_scripts
  children,  \* the processes: pid -> "running", or how it ended
  left       \* what is left of the bounds

scriptsVars == <<jobs, slots, children, left>>

(* How a script ends: exit code 0, exit code 1, another one, a signal.      *)
Endings == {"done", "retry", "error", "signal"}

(* A job; pid is 0 unless it is running, "delayed" is a start_time to come. *)
Job(pid, tries, delayed) == [pid |-> pid, tries |-> tries, delayed |-> delayed]
Runs(job) == job.pid # 0

ScriptsInit ==
  /\ jobs = <<>> /\ slots = 0 /\ children = <<>>
  /\ left = [scripts |-> MaxScripts, failures |-> ForkFailures]

(* A queue without some of its jobs: those at the other positions, in order. *)
Before(set, i) == {k \in set : k < i}
Nth(set, n) == CHOOSE i \in set : Cardinality(Before(set, i)) = n - 1
At(queue, set) == [n \in 1 .. Cardinality(set) |-> queue[Nth(set, n)]]

(* sentinelScheduleScriptExecution(): the oldest job that does not run is   *)
(* dropped when there are too many.                                         *)
Idle(queue) == {i \in DOMAIN queue : ~Runs(queue[i])}
DroppableOrNot(queue) == DOMAIN queue
Droppable(queue) == Idle(queue)
TooLong(queue) == Len(queue) > MaxQueue
Shortened(queue) ==
  IF TooLong(queue) /\ Droppable(queue) # {}
  THEN At(queue, DOMAIN queue \ {Nth(Droppable(queue), 1)})
  ELSE queue
ScheduleScript ==
  /\ left.scripts > 0
  /\ left' = [left EXCEPT !.scripts = @ - 1]
  /\ jobs' = Shortened(Append(jobs, Job(0, 0, FALSE)))
  /\ UNCHANGED <<slots, children>>

(* sentinelRunPendingScripts(): the oldest jobs whose time has come, while  *)
(* there are free slots; a fork that fails is one more try, and no slot.    *)
Attempted(due, failing) ==
  {i \in due : slots + Cardinality(Before(due \ failing, i)) < MaxRunning}
Forked(attempted, failing, pid) ==
  [i \in DOMAIN jobs |->
     IF i \notin attempted THEN jobs[i]
     ELSE Job(IF i \in failing THEN 0 ELSE pid[i], jobs[i].tries + 1, FALSE)]

(* sentinelCollectTerminatedScripts(): a script killed by a signal or that  *)
(* asks for it is tried again; the others leave the queue.                  *)
Retried(job) == children[job.pid] \in {"retry", "signal"} /\ job.tries # MaxRetry
Ended(job) == Runs(job) /\ job.pid \in DOMAIN children /\ children[job.pid] \in Endings
Over(job) == Ended(job) /\ ~Retried(job)
Rescheduled(job) == IF Ended(job) THEN Job(0, job.tries, TRUE) ELSE job
Collected(queue) ==
  LET kept == At(queue, {i \in DOMAIN queue : ~Over(queue[i])})
  IN  [n \in DOMAIN kept |-> Rescheduled(kept[n])]
Released(queue) == Cardinality({i \in DOMAIN queue : Over(queue[i])})

(* sentinelTimer(): run, collect, and kill what has run for too long.       *)
Alive == {pid \in DOMAIN children : children[pid] = "running"}
RunAndCollect(attempted, failing, pid, slow) ==
  LET queue   == Forked(attempted, failing, pid)
      started == attempted \ failing
  IN  /\ jobs' = Collected(queue)
      /\ slots' = slots + Cardinality(started) - Released(queue)
      /\ children' = [p \in Alive \cup Range(pid) |-> IF p \in slow THEN "signal" ELSE "running"]
ScriptsTimer ==
  \E due \in SUBSET Idle(jobs) : \E failing \in SUBSET due :
    LET attempted == Attempted(due, failing)
    IN  /\ \A i \in Idle(jobs) : ~jobs[i].delayed => i \in due
        /\ failing \subseteq attempted /\ Cardinality(failing) <= left.failures
        /\ left' = [left EXCEPT !.failures = @ - Cardinality(failing)]
        /\ \E pid \in Injection(attempted \ failing, Pids \ DOMAIN children), slow \in SUBSET Alive :
             RunAndCollect(attempted, failing, pid, slow)

(* A script ends.                                                           *)
ScriptEnds(pid) ==
  /\ children[pid] = "running"
  /\ \E ending \in Endings : children' = [children EXCEPT ![pid] = ending]
  /\ UNCHANGED <<jobs, slots, left>>

ScriptsNext ==
  \/ ScheduleScript
  \/ ScriptsTimer
  \/ \E pid \in DOMAIN children : ScriptEnds(pid)

ScriptsSpec == ScriptsInit /\ [][ScriptsNext]_scriptsVars

----------------------------------------------------------------------------
(* wait3() never returns a process that is not in the queue (sentinel.c:756)*)
(* and no running job is without its process: none is dropped while it      *)
(* runs, and none is executed twice at the same time.                       *)
JobsAreProcesses ==
  /\ \A pid \in DOMAIN children : \E i \in DOMAIN jobs : jobs[i].pid = pid
  /\ \A i, k \in DOMAIN jobs : Runs(jobs[i]) =>
       jobs[i].pid \in DOMAIN children /\ (jobs[i].pid = jobs[k].pid => i = k)

(* No more processes than slots, and no more of either than allowed,        *)
(* whatever ends, fails or is tried again (sentinelRunPendingScripts()), so *)
(* that a full queue always has a job that can be dropped: redisAssert() of *)
(* sentinelScheduleScriptExecution() (sentinel.c:655).                      *)
ScriptsBounded ==
  /\ Cardinality(DOMAIN children) <= slots /\ slots <= MaxRunning
  /\ Len(jobs) <= MaxQueue

(* The counter of running scripts, their jobs and the child processes       *)
(* agree, and the queue and the processes keep to their limits.             *)
ScriptsAreCounted == JobsAreProcesses /\ ScriptsBounded

(* What sentinel.c:202 says of running_scripts: "Number of scripts in       *)
(* execution right now."                                                    *)
SlotsAreScripts == slots = Cardinality(DOMAIN children)
============================================================================
