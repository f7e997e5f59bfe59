----------------------------- MODULE MCSentinel -----------------------------
(* The three Sentinel models, side by side in one run: a behaviour is one   *)
(* of the election, of the failover or of the scripts.                      *)
EXTENDS SentinelElection, SentinelFailover, SentinelScripts, TLC

VARIABLE part

(* Bounds: epochs, failovers and faults of the election.                    *)
Bound(epoch, starts, faults) == [epoch |-> epoch, starts |-> starts, faults |-> faults]
SmallBudgets == {Bound(1, 2, 1), Bound(2, 2, 0)}

(* Bounds: events of the failover.                                          *)
Events(failover, force, crash, outage, suspicion, late, reset) ==
  [failover |-> failover, force |-> force, crash |-> crash, outage |-> outage,
   suspicion |-> suspicion, late |-> late, reset |-> reset]
SmallLimits == {Events(0, 2, 0, 0, 0, 0, 0), Events(1, 0, 1, 1, 0, 1, 0),
                Events(0, 1, 0, 0, 1, 0, 1)}
OnePriority == [i \in Instances |-> 1]

Symmetry == Permutations(Witnesses) \cup Permutations(Watchers)

AllParts == {"election", "failover", "scripts"}
CONSTANT Parts

Init ==
  /\ part \in Parts
  /\ ElectionInit /\ FailoverInit /\ ScriptsInit
  /\ part # "election" => budget = CHOOSE b \in Budgets : TRUE
  /\ part # "failover" => limit = CHOOSE l \in Limits : TRUE

Next ==
  /\ UNCHANGED part
  /\ \/ /\ part = "election" /\ ElectionNext
        /\ UNCHANGED <<failoverVars, scriptsVars>>
     \/ /\ part = "failover" /\ FailoverNext
        /\ UNCHANGED <<electionVars, scriptsVars>>
     \/ /\ part = "scripts" /\ ScriptsNext
        /\ UNCHANGED <<electionVars, failoverVars>>

Spec == Init /\ [][Next]_<<part, electionVars, failoverVars, scriptsVars>>

=============================================================================
