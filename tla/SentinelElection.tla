-------------------------- MODULE SentinelElection --------------------------
(* The election of the Sentinel that fails a master over (sentinel.c): the  *)
(* timer of every Sentinel, the SENTINEL IS-MASTER-DOWN-BY-ADDR requests it *)
(* sends, the votes, and what the configuration file keeps across a crash.  *)
(*                                                                          *)
(* Time is not modelled: a period or a timeout may have elapsed, or not,    *)
(* each time the timer runs.  Nor is the opinion that the master is         *)
(* objectively down: a Sentinel that sees the master down may hold it       *)
(* whenever its timer runs.  The agreement on it and what the elected       *)
(* Sentinel does are in SentinelFailover.                                   *)
EXTENDS Naturals, FiniteSets

CONSTANTS
  Sentinels,  \* the Sentinels of one master, who know each other
  Nobody,     \* a NULL leader, and the "*" of a request and of a reply
  Witnesses,  \* those that find the master down, and may start a failover
  Quorum,     \* master->quorum
  Budgets     \* the bounds a behaviour may have: on sentinel.current_epoch,
              \* on failovers started because the master is down, on faults

ASSUME ElectionAssumption ==
  /\ IsFiniteSet(Sentinels) /\ Witnesses \subseteq Sentinels
  /\ Nobody \notin Sentinels \X Nat
  /\ Quorum \in Nat \ {0}
  /\ Budgets \subseteq [epoch : Nat, starts : Nat, faults : Nat]

VARIABLES
  sentinel, \* per Sentinel: what it knows of itself, the master and its peers
  stored,   \* per Sentinel: the epochs in its configuration file
  ask,      \* per pair: the request or the reply on the link, if any
  votes,    \* history: every vote cast
  elected,  \* history: every election won
  budget    \* what is left of the bounds

electionVars == <<sentinel, stored, ask, votes, elected, budget>>

Peers(s) == Sentinels \ {s}
Higher(a, b) == IF a < b THEN b ELSE a

(* A Sentinel draws a new run id whenever it starts.                        *)
RunId(s) == <<s, sentinel[s].boots>>
RunIds == Sentinels \X Nat

(* createSentinelRedisInstance(), for a Sentinel of the master.             *)
UnknownPeer(id) == [runid |-> id, leader |-> Nobody, epoch |-> 0]

(* Loading the configuration: the epoch of the last vote, not the vote.     *)
Booted(s, boots, file) ==
  [boots |-> boots, epoch |-> file.epoch,
   leader |-> Nobody, voted |-> file.voted,
   failover |-> "none", forced |-> FALSE, failoverEpoch |-> 0,
   peer |-> [p \in Peers(s) |-> UnknownPeer(<<p, sentinel[p].boots>>)]]

NoRequest == [type |-> "none"]
Request(epoch, id) == [type |-> "request", epoch |-> epoch, runid |-> id]
Reply(leader, epoch) == [type |-> "reply", leader |-> leader, epoch |-> epoch]

ElectionInit ==
  /\ stored = [s \in Sentinels |-> [epoch |-> 0, voted |-> 0]]
  /\ sentinel = [s \in Sentinels |->
       [boots |-> 0, epoch |-> 0, leader |-> Nobody, voted |-> 0,
        failover |-> "none", forced |-> FALSE, failoverEpoch |-> 0,
        peer |-> [p \in Peers(s) |-> UnknownPeer(<<p, 0>>)]]]
  /\ ask = [s \in Sentinels |-> [p \in Peers(s) |-> NoRequest]]
  /\ votes = {} /\ elected = {}
  /\ budget \in Budgets

(* Faults: a lost connection, an answer too old, a restart, a reset, a      *)
(* failover that was asked for or is another master's.                      *)
Spend(starts, faults) ==
  /\ budget.starts >= starts /\ budget.faults >= faults
  /\ budget' = [budget EXCEPT !.starts = @ - starts, !.faults = @ - faults]
Fault == Spend(0, 1)

----------------------------------------------------------------------------
(* Votes                                                                    *)

(* sentinelFlushConfig(): what a restart will find.                         *)
Saved(n) == [epoch |-> n.epoch, voted |-> n.voted]

(* sentinelVoteLeader(): the node after a request to vote for a candidate,  *)
(* flushed if anything changed.  The vote is asked for with the epoch of    *)
(* the request; an old one changes nothing, and the last vote is returned.  *)
VoteLeaderAgain(n, epoch, candidate) ==
  LET m == [n EXCEPT !.epoch = Higher(@, epoch)]
  IN  IF m.voted <= epoch /\ m.epoch <= epoch
      THEN [m EXCEPT !.leader = candidate, !.voted = m.epoch]
      ELSE m
VoteLeader(n, epoch, candidate) ==
  LET m == [n EXCEPT !.epoch = Higher(@, epoch)]
  IN  IF m.voted < epoch /\ m.epoch <= epoch
      THEN [m EXCEPT !.leader = candidate, !.voted = m.epoch]
      ELSE m
(* Each change of the epoch or of the vote is flushed.                      *)
Flushed(file, before, after) == IF after # before THEN Saved(after) ELSE file
Cast(s, before, after) ==
  IF <<after.voted, after.leader>> = <<before.voted, before.leader>> THEN {}
  ELSE {[voter |-> s, epoch |-> after.voted, runid |-> after.leader]}

(* sentinelGetLeader(): the other Sentinels' votes for an epoch, then ours, *)
(* for the best placed candidate or for ourselves.  In a draw the order of  *)
(* the hash table decides.                                                  *)
PeerVotes(s, n, id) ==
  Cardinality({p \in Peers(s) : n.peer[p].leader = id /\ n.peer[p].epoch = n.epoch})
Candidates(s, n) ==
  {n.peer[p].leader : p \in {q \in Peers(s) : n.peer[q].epoch = n.epoch}} \ {Nobody}
Favourites(s, n, self) ==
  LET best == {id \in Candidates(s, n) :
                 \A other \in Candidates(s, n) : PeerVotes(s, n, other) <= PeerVotes(s, n, id)}
  IN  IF best = {} THEN {self} ELSE best
OwnVote(m, epoch, id) == IF m.leader = id /\ m.voted = epoch THEN 1 ELSE 0
Majority == Cardinality(Sentinels) \div 2 + 1
EnoughForQuorum(count) == count >= Quorum
Enough(count) == count >= Majority /\ count >= Quorum

----------------------------------------------------------------------------
(* The timer                                                                *)

InProgress(n) == n.failover # "none"

(* sentinelStartFailover(): the new epoch is not saved here.                *)
Started(n) ==
  [n EXCEPT !.failover = "wait", !.epoch = @ + 1, !.failoverEpoch = n.epoch + 1]

(* sentinelAbortFailover(); failover_epoch is not read until the next one.  *)
Aborted(n) == [n EXCEPT !.failover = "none", !.forced = FALSE, !.failoverEpoch = 0]

(* sentinelAskMasterStateToOtherSentinels(): answers too old are dropped;   *)
(* the epoch of a vote is not read without the vote.                        *)
Forgotten(s, n, old) ==
  [n EXCEPT !.peer = [p \in Peers(s) |->
     IF p \in old THEN UnknownPeer(n.peer[p].runid) ELSE n.peer[p]]]

(* sentinelFailoverWaitStart(): count the votes, cast ours, then go on,     *)
(* wait or give up.                                                         *)
Counted(n, m, isLeader, late) ==
  IF isLeader \/ n.forced THEN [m EXCEPT !.failover = "elected"]
  ELSE IF late THEN Aborted(m) ELSE m

(* The failover that may start, the vote of this Sentinel, and the count.   *)
AtStart(s, starts, old) ==
  IF starts THEN Forgotten(s, Started(sentinel[s]), old) ELSE sentinel[s]
Voting(n) == n.failover = "wait"
AfterVote(n, favourite) ==
  IF Voting(n) THEN VoteLeader(n, n.failoverEpoch, favourite) ELSE n
Wins(s, n, voted) ==
  Voting(n) /\ Enough(PeerVotes(s, n, RunId(s)) + OwnVote(voted, n.failoverEpoch, RunId(s)))
AfterCount(s, n, voted, late) ==
  IF Voting(n) THEN Counted(n, voted, Wins(s, n, voted), late) ELSE n

(* sentinelHandleRedisInstance() for the master, in its order: start a      *)
(* failover or not, the state machine, and the questions to the peers whose *)
(* link is free.  A failover starts when the master is objectively down and *)
(* none was tried lately, "late" is the timeout of the election, "old" are  *)
(* the peers that have not answered for five periods.  Only the questions    *)
(* that ask for a vote are modelled.                                        *)
TimerRuns(s, starts, late, asks, old, favourite) ==
  LET started == AtStart(s, starts, old)
      voted   == AfterVote(started, favourite)
      final   == Forgotten(s, AfterCount(s, started, voted, late), old)
      free    == {p \in Peers(s) : ask[s][p] = NoRequest}
  IN  /\ starts => ~InProgress(sentinel[s]) /\ sentinel[s].epoch < budget.epoch
      /\ late => Voting(started) /\ ~starts
      /\ asks => free # {} /\ InProgress(final)
      /\ sentinel' = [sentinel EXCEPT ![s] = final]
      /\ stored' = [stored EXCEPT ![s] = Flushed(@, started, voted)]
      /\ votes' = votes \cup Cast(s, started, voted)
      /\ elected' = IF Wins(s, started, voted) /\ ~started.forced
                    THEN elected \cup {[who |-> s, runid |-> RunId(s),
                                        epoch |-> voted.failoverEpoch,
                                        during |-> voted.epoch]}
                    ELSE elected
      /\ ask' = IF asks
                THEN [ask EXCEPT ![s] = [p \in Peers(s) |->
                       IF p \in free THEN Request(final.epoch, RunId(s)) ELSE @[p]]]
                ELSE ask
      /\ Spend(IF starts THEN 1 ELSE 0, IF old # {} THEN 1 ELSE 0)

Timer(s) ==
  \E starts, late, asks \in BOOLEAN, old \in {{}, Peers(s)} :
    \E favourite \in Favourites(s, AtStart(s, starts, old), RunId(s)) :
      TimerRuns(s, starts, late, asks, old, favourite)

----------------------------------------------------------------------------
(* Requests and replies                                                     *)

(* SENTINEL IS-MASTER-DOWN-BY-ADDR at a peer.                               *)
Answer(s, p) ==
  LET request == ask[s][p]
      n == sentinel[p]
      m == VoteLeader(n, request.epoch, request.runid)
  IN  /\ request.type = "request"
      /\ sentinel' = [sentinel EXCEPT ![p] = m]
      /\ stored' = [stored EXCEPT ![p] = Flushed(@, n, m)]
      /\ votes' = votes \cup Cast(p, n, m)
      /\ ask' = [ask EXCEPT ![s][p] = Reply(m.leader, m.voted)]
      /\ UNCHANGED <<elected, budget>>

(* sentinelReceiveIsMasterDownReply()                                       *)
Receive(s, p) ==
  LET reply == ask[s][p]
  IN  /\ reply.type = "reply"
      /\ sentinel' = [sentinel EXCEPT ![s].peer[p] =
           IF reply.leader = Nobody THEN @
           ELSE [@ EXCEPT !.leader = reply.leader, !.epoch = reply.epoch]]
      /\ ask' = [ask EXCEPT ![s][p] = NoRequest]
      /\ UNCHANGED <<stored, votes, elected, budget>>

(* The link breaks or is killed with the request or the reply on it.        *)
LoseLink(s, p) ==
  /\ Fault /\ ask[s][p] # NoRequest
  /\ ask' = [ask EXCEPT ![s][p] = NoRequest]
  /\ UNCHANGED <<sentinel, stored, votes, elected>>

(* sentinelProcessHelloMessage(): a peer that restarted is a new Sentinel,  *)
(* and the greater epoch is adopted and saved.  The hello may be an old one *)
(* of the same process.                                                     *)
HearHello(s, p) ==
  \E epoch \in 0 .. sentinel[p].epoch :
    LET n == sentinel[s]
        unknown == n.peer[p].runid # RunId(p)
        m == [n EXCEPT !.epoch = Higher(@, epoch),
                       !.peer[p] = IF unknown THEN UnknownPeer(RunId(p)) ELSE @]
    IN  /\ m # n
        /\ sentinel' = [sentinel EXCEPT ![s] = m]
        /\ stored' = [stored EXCEPT ![s] = Saved(m)]
        /\ ask' = [ask EXCEPT ![s][p] = IF unknown THEN NoRequest ELSE @]
        /\ UNCHANGED <<votes, elected, budget>>

----------------------------------------------------------------------------
(* What else happens to a Sentinel                                          *)

(* SENTINEL FAILOVER: no election, and the epoch is not saved.              *)
ForceFailover(s) ==
  /\ Fault /\ sentinel[s].epoch < budget.epoch
  /\ ~InProgress(sentinel[s])
  /\ sentinel' = [sentinel EXCEPT ![s] = [Started(@) EXCEPT !.forced = TRUE]]
  /\ UNCHANGED <<stored, ask, votes, elected>>

(* This Sentinel starts a failover of another master: the epoch is one for  *)
(* all of them, and its own vote there saves it.                            *)
FailoverElsewhere(s) ==
  LET n == [sentinel[s] EXCEPT !.epoch = @ + 1]
  IN  /\ Fault /\ sentinel[s].epoch < budget.epoch
      /\ sentinel' = [sentinel EXCEPT ![s] = n]
      /\ stored' = [stored EXCEPT ![s] = Saved(n)]
      /\ UNCHANGED <<ask, votes, elected>>

(* The elected Sentinel gives up: no good slave, or no promotion in time.   *)
GiveUp(s) ==
  /\ sentinel[s].failover = "elected"
  /\ sentinel' = [sentinel EXCEPT ![s] = Aborted(@)]
  /\ UNCHANGED <<stored, ask, votes, elected, budget>>

(* sentinelResetMaster() with the Sentinels kept: the failover is over, or  *)
(* a newer configuration arrived.  The epoch of the vote stays.             *)
ResetMaster(s) ==
  LET n == [Aborted(sentinel[s]) EXCEPT !.leader = Nobody]
  IN  /\ n # sentinel[s]
      /\ IF sentinel[s].failover = "elected" THEN UNCHANGED budget ELSE Fault
      /\ sentinel' = [sentinel EXCEPT ![s] = n]
      /\ stored' = [stored EXCEPT ![s] = Saved(n)]
      /\ UNCHANGED <<ask, votes, elected>>

(* The process is killed and restarted from its configuration file.         *)
Crash(s) ==
  /\ Fault
  /\ sentinel' = [sentinel EXCEPT ![s] = Booted(s, @.boots + 1, stored[s])]
  /\ ask' = [q \in Sentinels |-> [p \in Peers(q) |->
                IF s \in {p, q} THEN NoRequest ELSE ask[q][p]]]
  /\ UNCHANGED <<stored, votes, elected>>

ElectionNext ==
  \/ \E s \in Witnesses : Timer(s) \/ ForceFailover(s)
  \/ \E s \in Sentinels :
    \/ FailoverElsewhere(s) \/ GiveUp(s) \/ ResetMaster(s) \/ Crash(s)
    \/ \E p \in Peers(s) :
         Answer(s, p) \/ Receive(s, p) \/ LoseLink(s, p) \/ HearHello(s, p)

ElectionSpec == ElectionInit /\ [][ElectionNext]_electionVars

----------------------------------------------------------------------------
(* Properties                                                               *)

(* The state of every Sentinel is well typed, and its saved epochs are no   *)
(* greater than those it has in memory (sentinel.c, sentinelFlushConfig()). *)
ElectionTypeOK ==
  /\ \A s \in Sentinels :
       LET n == sentinel[s]
       IN  /\ n.boots \in Nat /\ n.epoch \in 0 .. budget.epoch
           /\ n.voted \in 0 .. n.epoch /\ n.failoverEpoch \in 0 .. n.epoch
           /\ n.leader \in RunIds \cup {Nobody}
           /\ n.failover \in {"none", "wait", "elected"}
           /\ stored[s].epoch <= n.epoch /\ stored[s].voted = n.voted
           /\ \A p \in Peers(s) : n.peer[p].leader \in RunIds \cup {Nobody}

(* sentinelVoteLeader() saves the epoch of a vote before the vote is told:  *)
(* whatever it is asked, and however often it restarts, a Sentinel votes    *)
(* for one candidate per epoch.                                             *)
OneVotePerEpoch ==
  \A v, w \in votes : v.voter = w.voter /\ v.epoch = w.epoch => v = w

(* sentinelGetLeader(): a Sentinel elected while the current epoch is that  *)
(* of its failover really has the votes of a majority in that epoch, late   *)
(* replies and restarts of the voters notwithstanding.                      *)
ElectedByMajority ==
  \A e \in elected : e.during = e.epoch =>
    Cardinality({v.voter : v \in {w \in votes : w.epoch = e.epoch /\ w.runid = e.runid}})
      >= Majority

(* What the comment of sentinelGetLeader() says: at most one leader in each *)
(* epoch (sentinel.c:3223).                                                 *)
OneLeaderPerEpoch ==
  \A e, f \in elected : e.epoch = f.epoch => e.who = f.who
=============================================================================
