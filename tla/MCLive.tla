------------------------------- MODULE MCLive -------------------------------
(* What must come about at last, side by side in one run: a behaviour is    *)
(* one of the replication or one of the page.                               *)
EXTENDS MCRedisReplication, LolPage

VARIABLE part

----------------------------------------------------------------------------
(* Bounds of the page: events, and what streams there are.                  *)
PageEventsOf(given) == [e \in PageEvents |-> IF e \in DOMAIN given THEN given[e] ELSE 0]
SomePageLimits == {PageEventsOf(l) : l \in {
  [calls |-> 1, show |-> 2],
  [calls |-> 1, show |-> 1, world |-> 1],
  [calls |-> 1, refresh |-> 1, filter |-> 1, world |-> 1, fail |-> 1],
  [calls |-> 1, follow |-> 2, box |-> 1],
  [calls |-> 1, refresh |-> 1, logout |-> 1]}}
TwoWorlds == {("dy" :> "tsm") @@ ("ff" :> "none"), "dy" :> "clg"}

----------------------------------------------------------------------------
LiveInit ==
  /\ part \in {"replication", "page"} /\ Init /\ PageInit
  /\ part # "page" => live = CHOOSE w \in Worlds : TRUE
  /\ part # "page" => left = CHOOSE l \in PageLimits : TRUE

LiveNext ==
  /\ UNCHANGED part
  /\ \/ part = "replication" /\ Next /\ UNCHANGED pageVars
     \/ part = "page" /\ PageNext /\ UNCHANGED vars

LiveSpec ==
  /\ LiveInit /\ [][LiveNext]_<<part, vars, pageVars>>
  /\ \/ part = "replication" /\ Fairness
     \/ part = "page" /\ PageFairness

----------------------------------------------------------------------------
(* Whatever the links and the children do, a slave ends up with its         *)
(* master's dataset.                                                        *)
EventuallyReplicated == \A s \in Slaves : <>[](part = "replication" => InSync(s))

(* Whatever the order of the answers, the page ends up with what the server *)
(* has.                                                                     *)
EventuallyShown == <>[](part = "page" => PageIsCurrent)
=============================================================================
