--------------------------- MODULE Sentinel_proofs ---------------------------
(***************************************************************************)
(* Proofs about Sentinel, one part after the other: the election of the    *)
(* Sentinel that fails a master over, for any number of Sentinels, any     *)
(* quorum, any epochs, crashes and lost connections; the failover and the  *)
(* spreading of its configuration, for any Sentinels, instances and        *)
(* priorities, any number of failovers, crashes, resets, outages and       *)
(* timeouts; and the notification scripts, for any limits, process ids and *)
(* endings.                                                                *)
(***************************************************************************)
EXTENDS SentinelElection, SentinelFailover, SentinelScripts, FiniteSetTheorems, TLAPS

-----------------------------------------------------------------------------
(* The election.                                                           *)
Ids == RunIds \cup {Nobody}
Vote(voter, epoch, id) == [voter |-> voter, epoch |-> epoch, runid |-> id]

-----------------------------------------------------------------------------
(* The inductive invariant.                                                *)

Peer == [runid : RunIds, leader : Ids, epoch : Nat]
Node(s) ==
  [boots : Nat, epoch : Nat, leader : Ids, voted : Nat,
   failover : {"none", "wait", "elected"}, forced : BOOLEAN,
   failoverEpoch : Nat, peer : [Peers(s) -> Peer]]
Link == {NoRequest} \cup [type : {"request"}, epoch : Nat, runid : RunIds]
                    \cup [type : {"reply"}, leader : Ids, epoch : Nat]

StateTyped ==
  /\ sentinel = [s \in Sentinels |-> sentinel[s]]
  /\ \A s \in Sentinels : sentinel[s] \in Node(s)
  /\ stored \in [Sentinels -> [epoch : Nat, voted : Nat]]
  /\ ask = [s \in Sentinels |-> ask[s]]
  /\ \A s \in Sentinels : ask[s] \in [Peers(s) -> Link]
  /\ votes \subseteq [voter : Sentinels, epoch : Nat, runid : RunIds]
  /\ elected \subseteq [who : Sentinels, runid : RunIds, epoch : Nat, during : Nat]
  /\ budget \in [epoch : Nat, starts : Nat, faults : Nat]

(* Epochs only grow, and a vote is saved before it is told. *)
InOrder(s) ==
  /\ sentinel[s].epoch <= budget.epoch
  /\ sentinel[s].voted <= sentinel[s].epoch
  /\ sentinel[s].failoverEpoch <= sentinel[s].epoch
  /\ stored[s].epoch <= sentinel[s].epoch /\ stored[s].voted <= stored[s].epoch
  /\ stored[s].voted = sentinel[s].voted
AskedInBounds ==
  \A s \in Sentinels : \A p \in Peers(s) :
    ask[s][p].type = "request" => ask[s][p].epoch <= budget.epoch

(* The last vote of a Sentinel has the greatest epoch of its votes. *)
VotesAreOld == \A v \in votes : v.epoch <= sentinel[v.voter].voted

(* Whatever says that a Sentinel voted, it did: its memory, that of its     *)
(* peers, and the replies that are on their way.                            *)
Truthful(s) ==
  /\ sentinel[s].leader # Nobody
       => Vote(s, sentinel[s].voted, sentinel[s].leader) \in votes
  /\ \A p \in Peers(s) :
       /\ sentinel[s].peer[p].leader # Nobody
            => Vote(p, sentinel[s].peer[p].epoch, sentinel[s].peer[p].leader) \in votes
       /\ ask[s][p].type = "reply" /\ ask[s][p].leader # Nobody
            => Vote(p, ask[s][p].epoch, ask[s][p].leader) \in votes

ElectionInv ==
  /\ StateTyped
  /\ \A s \in Sentinels : InOrder(s) /\ Truthful(s)
  /\ AskedInBounds
  /\ VotesAreOld /\ OneVotePerEpoch
  /\ ElectedByMajority

-----------------------------------------------------------------------------
(* What one Sentinel does to its own state.                                *)

(* A vote changes the epoch and the vote of a Sentinel, nothing else, and  *)
(* it is in a greater epoch than any before.                               *)
LEMMA VoteLeaderCasts ==
  ASSUME NEW s \in Sentinels, NEW n \in Node(s), NEW epoch \in Nat, NEW id \in RunIds,
         n.voted <= n.epoch, NEW m, m = VoteLeader(n, epoch, id)
  PROVE  /\ m \in Node(s)
         /\ m.peer = n.peer /\ m.failoverEpoch = n.failoverEpoch
         /\ m.epoch = Higher(n.epoch, epoch) /\ m.voted <= m.epoch
         /\ \/ m.voted = n.voted /\ m.leader = n.leader /\ Cast(s, n, m) = {}
            \/ /\ m.voted > n.voted /\ m.leader # Nobody
               /\ Cast(s, n, m) = {Vote(s, m.voted, m.leader)}
<1>1. DEFINE h == [n EXCEPT !.epoch = Higher(@, epoch)]
<1>2. /\ h \in Node(s)
      /\ h.peer = n.peer /\ h.failoverEpoch = n.failoverEpoch
      /\ h.epoch = Higher(n.epoch, epoch) /\ h.voted = n.voted /\ h.leader = n.leader
      /\ h.epoch >= n.epoch /\ h.epoch >= epoch
  BY DEF Node, Higher
<1>3. CASE h.voted < epoch /\ h.epoch <= epoch
  <2>1. m = [h EXCEPT !.leader = id, !.voted = h.epoch]
    BY <1>3 DEF VoteLeader
  <2>2. id \in Ids /\ id # Nobody
    BY ElectionAssumption DEF Ids, RunIds
  <2>3. /\ m \in Node(s)
        /\ m.peer = h.peer /\ m.failoverEpoch = h.failoverEpoch
        /\ m.epoch = h.epoch /\ m.voted = h.epoch /\ m.leader = id
    BY <1>2, <2>1, <2>2 DEF Node
  <2>4. m.voted > n.voted
    BY <1>2, <1>3, <2>3 DEF Node
  <2>5. <<m.voted, m.leader>> # <<n.voted, n.leader>>
    BY <2>4 DEF Node
  <2>6. Cast(s, n, m) = {Vote(s, m.voted, m.leader)}
    BY <2>5 DEF Cast, Vote
  <2> QED
    BY <1>2, <2>2, <2>3, <2>4, <2>6 DEF Node
<1>4. CASE ~(h.voted < epoch /\ h.epoch <= epoch)
  <2>1. m = h
    BY <1>4 DEF VoteLeader
  <2>2. Cast(s, n, m) = {}
    BY <1>2, <2>1 DEF Cast
  <2> QED
    BY <1>2, <2>1, <2>2 DEF Node
<1> QED
  BY <1>3, <1>4

(* Only the epoch of a node decides what a Sentinel drops of its peers.     *)
LEMMA ForgottenNode ==
  ASSUME NEW s \in Sentinels, NEW n \in Node(s), NEW old, NEW m, m = Forgotten(s, n, old)
  PROVE  /\ m \in Node(s)
         /\ m.epoch = n.epoch /\ m.voted = n.voted /\ m.leader = n.leader
         /\ m.failoverEpoch = n.failoverEpoch
         /\ \A p \in Peers(s) : m.peer[p] = n.peer[p] \/ m.peer[p].leader = Nobody
<1>1. \A p \in Peers(s) : UnknownPeer(n.peer[p].runid) \in Peer
  BY DEF Node, Peer, UnknownPeer, Ids
<1>2. DEFINE peer == [p \in Peers(s) |->
         IF p \in old THEN UnknownPeer(n.peer[p].runid) ELSE n.peer[p]]
<1>3. peer \in [Peers(s) -> Peer]
  BY <1>1 DEF Node
<1>4. m = [n EXCEPT !.peer = peer]
  BY DEF Forgotten
<1>5. \A p \in Peers(s) : peer[p] = n.peer[p] \/ peer[p].leader = Nobody
  BY DEF UnknownPeer
<1> HIDE DEF peer
<1> QED
  BY <1>3, <1>4, <1>5 DEF Node

(* sentinelStartFailover() raises the epoch by one.                        *)
LEMMA StartedNode ==
  ASSUME NEW s \in Sentinels, NEW n \in Node(s), NEW m, m = Started(n)
  PROVE  /\ m \in Node(s)
         /\ m.epoch = n.epoch + 1 /\ m.voted = n.voted /\ m.leader = n.leader
         /\ m.failoverEpoch = m.epoch /\ m.peer = n.peer
<1>1. n.epoch + 1 \in Nat
  BY DEF Node
<1>2. m = [n EXCEPT !.failover = "wait", !.epoch = n.epoch + 1, !.failoverEpoch = n.epoch + 1]
  BY DEF Started
<1> QED
  BY <1>1, <1>2 DEF Node

(* sentinelAbortFailover() keeps the epoch and the vote.                   *)
LEMMA AbortedNode ==
  ASSUME NEW s \in Sentinels, NEW n \in Node(s), NEW m, m = Aborted(n)
  PROVE  /\ m \in Node(s)
         /\ m.epoch = n.epoch /\ m.voted = n.voted /\ m.leader = n.leader
         /\ m.failoverEpoch = 0 /\ m.peer = n.peer
  BY DEF Node, Aborted

-----------------------------------------------------------------------------
(* What a step of one Sentinel does to the invariant.                      *)

Voters(e, cast) == {v.voter : v \in {w \in cast : w.epoch = e.epoch /\ w.runid = e.runid}}
VoteType == [voter : Sentinels, epoch : Nat, runid : RunIds]
BudgetType == [epoch : Nat, starts : Nat, faults : Nat]
FileType == [epoch : Nat, voted : Nat]
ElectedType == [who : Sentinels, runid : RunIds, epoch : Nat, during : Nat]

(* The voters of an election are Sentinels, so they can be counted.        *)
LEMMA VotersFinite ==
  ASSUME NEW e, NEW cast \in SUBSET VoteType
  PROVE  /\ Voters(e, cast) \subseteq Sentinels
         /\ IsFiniteSet(Voters(e, cast)) /\ Cardinality(Voters(e, cast)) \in Nat
<1>1. Voters(e, cast) \subseteq Sentinels
  BY DEF Voters, VoteType
<1> QED
  BY <1>1, ElectionAssumption, FS_Subset, FS_CardinalityType

LEMMA MajorityNat == Majority \in Nat
<1>1. Cardinality(Sentinels) \in Nat
  BY ElectionAssumption, FS_CardinalityType
<1> QED
  BY <1>1 DEF Majority

(* More votes do not take an election back.                                *)
LEMMA ElectionsStand ==
  ASSUME NEW e, NEW cast \in SUBSET VoteType, NEW more \in SUBSET VoteType,
         cast \subseteq more, Cardinality(Voters(e, cast)) >= Majority
  PROVE  Cardinality(Voters(e, more)) >= Majority
<1>1. Voters(e, cast) \subseteq Voters(e, more)
  BY DEF Voters
<1>2. Cardinality(Voters(e, cast)) <= Cardinality(Voters(e, more))
  BY <1>1, VotersFinite, FS_Subset
<1> QED
  BY <1>2, VotersFinite, MajorityNat

(* The epochs of a node and of its file, the vote saved before it is told. *)
Sound(m, file) ==
  /\ m.epoch <= budget.epoch /\ m.failoverEpoch <= m.epoch
  /\ file.epoch <= m.epoch /\ m.voted <= file.epoch /\ file.voted = m.voted
(* A node that does not vote may forget its vote, not the epoch of it.     *)
NoVote(s, m) ==
  /\ votes' = votes /\ m.voted = sentinel[s].voted
  /\ m.leader \in {sentinel[s].leader, Nobody}
NewVote(s, m) ==
  /\ m.voted > sentinel[s].voted /\ m.leader # Nobody
  /\ votes' = votes \cup {Vote(s, m.voted, m.leader)}
PeersTruthful(s, m) ==
  \A p \in Peers(s) : m.peer[p].leader # Nobody
    => Vote(p, m.peer[p].epoch, m.peer[p].leader) \in votes'
LinkSound(q, p) ==
  \/ ask'[q][p] = ask[q][p]
  \/ ask'[q][p] = NoRequest
  \/ ask'[q][p].type = "request" /\ ask'[q][p].epoch <= budget.epoch
  \/ /\ ask'[q][p].type = "reply"
     /\ ask'[q][p].leader # Nobody => Vote(p, ask'[q][p].epoch, ask'[q][p].leader) \in votes'

(* A Sentinel that votes in a greater epoch only, and a link that carries  *)
(* only true replies, keep the invariant.                                  *)
LEMMA NodeStep ==
  ASSUME ElectionInv, NEW s \in Sentinels, NEW m \in Node(s), NEW file \in FileType,
         sentinel' = [sentinel EXCEPT ![s] = m],
         stored' = [stored EXCEPT ![s] = file],
         Sound(m, file), NoVote(s, m) \/ NewVote(s, m), PeersTruthful(s, m),
         ask' = [q \in Sentinels |-> ask'[q]],
         \A q \in Sentinels : ask'[q] \in [Peers(q) -> Link],
         \A q \in Sentinels : \A p \in Peers(q) : LinkSound(q, p),
         budget' \in BudgetType, budget'.epoch = budget.epoch,
         elected' \subseteq ElectedType, (votes' \subseteq VoteType) => ElectedByMajority'
  PROVE  ElectionInv'
<1> USE DEF ElectionInv
<1>1. m.voted \in Nat /\ m.leader \in Ids /\ Vote(s, m.voted, m.leader).voter = s
  BY DEF Node, Vote
<1>2. votes \subseteq votes' /\ votes' \subseteq VoteType
  <2>1. CASE NoVote(s, m)
    BY <2>1 DEF NoVote, StateTyped, VoteType
  <2>2. CASE NewVote(s, m)
    <3>1. m.leader \in RunIds
      BY <1>1, <2>2 DEF NewVote, Ids
    <3>2. Vote(s, m.voted, m.leader) \in VoteType
      BY <1>1, <3>1 DEF Vote, VoteType
    <3> QED
      BY <2>2, <3>2 DEF NewVote, StateTyped, VoteType
  <2> QED
    BY <2>1, <2>2
<1>3. /\ sentinel'[s] = m /\ stored'[s] = file
      /\ \A q \in Sentinels : q # s => sentinel'[q] = sentinel[q] /\ stored'[q] = stored[q]
  BY DEF StateTyped
<1>4. StateTyped'
  <2>1. sentinel' = [q \in Sentinels |-> sentinel'[q]]
    BY DEF StateTyped
  <2>2. \A q \in Sentinels : sentinel'[q] \in Node(q)
    BY <1>3 DEF StateTyped
  <2>3. stored' \in [Sentinels -> FileType]
    BY DEF StateTyped, FileType
  <2> QED
    BY <1>2, <2>1, <2>2, <2>3 DEF StateTyped, VoteType, FileType, BudgetType, ElectedType
<1>5. ASSUME NEW q \in Sentinels PROVE InOrder(q)'
  <2>1. CASE q = s
    <3>1. sentinel'[q] = m /\ stored'[q] = file
      BY <1>3, <2>1
    <3>2. m.epoch <= budget'.epoch
      BY DEF Sound
    <3>3. /\ m.failoverEpoch <= m.epoch /\ m.voted <= m.epoch
          /\ file.epoch <= m.epoch /\ file.voted <= file.epoch /\ file.voted = m.voted
      BY DEF Sound, Node, FileType
    <3> QED
      BY <3>1, <3>2, <3>3 DEF InOrder
  <2>2. CASE q # s
    <3>1. sentinel'[q] = sentinel[q] /\ stored'[q] = stored[q] /\ InOrder(q)
      BY <1>3, <2>2
    <3> QED
      BY <3>1 DEF InOrder
  <2> QED
    BY <2>1, <2>2
<1>6. VotesAreOld'
  <2> SUFFICES ASSUME NEW v \in votes' PROVE v.epoch <= sentinel'[v.voter].voted
    BY DEF VotesAreOld
  <2>1. v.voter \in Sentinels /\ v.epoch \in Nat
    BY <1>2 DEF VoteType
  <2>2. sentinel[v.voter].voted \in Nat
    BY <2>1 DEF StateTyped, Node
  <2>3. m.voted >= sentinel[s].voted /\ (v \notin votes => v.epoch = m.voted /\ v.voter = s)
    BY <1>1 DEF NoVote, NewVote, Vote, StateTyped, Node
  <2> QED
    BY <1>1, <1>3, <2>1, <2>2, <2>3 DEF VotesAreOld
<1>7. OneVotePerEpoch'
  <2>1. CASE NoVote(s, m)
    BY <2>1 DEF NoVote, OneVotePerEpoch
  <2>2. CASE NewVote(s, m)
    <3> SUFFICES ASSUME NEW v \in votes', NEW w \in votes',
                        v.voter = w.voter, v.epoch = w.epoch
                 PROVE  v = w
      BY DEF OneVotePerEpoch
    <3>1. \A x \in votes : x.voter = s => x.epoch # m.voted
      <4> SUFFICES ASSUME NEW x \in votes, x.voter = s PROVE x.epoch # m.voted
        OBVIOUS
      <4>1. x.epoch \in Nat /\ sentinel[s].voted \in Nat
        BY DEF StateTyped, Node
      <4> QED
        BY <1>1, <2>2, <4>1 DEF NewVote, VotesAreOld
    <3>2. /\ Vote(s, m.voted, m.leader).voter = s
          /\ Vote(s, m.voted, m.leader).epoch = m.voted
      BY DEF Vote
    <3>3. \A x \in votes' : x \in votes \/ x = Vote(s, m.voted, m.leader)
      BY <2>2 DEF NewVote
    <3> QED
      BY <3>1, <3>2, <3>3 DEF OneVotePerEpoch
  <2> QED
    BY <2>1, <2>2
<1>8. \A q \in Sentinels : Truthful(q)'
  <2> SUFFICES ASSUME NEW q \in Sentinels PROVE Truthful(q)'
    OBVIOUS
  <2>1. sentinel'[q].leader # Nobody => Vote(q, sentinel'[q].voted, sentinel'[q].leader) \in votes'
    <3>1. CASE q = s
      BY <1>2, <1>3, <3>1 DEF NoVote, NewVote, Truthful
    <3>2. CASE q # s
      BY <1>2, <1>3, <3>2 DEF Truthful
    <3> QED
      BY <3>1, <3>2
  <2>2. ASSUME NEW p \in Peers(q), sentinel'[q].peer[p].leader # Nobody
        PROVE  Vote(p, sentinel'[q].peer[p].epoch, sentinel'[q].peer[p].leader) \in votes'
    BY <1>2, <1>3, <2>2 DEF PeersTruthful, Truthful
  <2>3. ASSUME NEW p \in Peers(q), ask'[q][p].type = "reply", ask'[q][p].leader # Nobody
        PROVE  Vote(p, ask'[q][p].epoch, ask'[q][p].leader) \in votes'
    BY <1>2, <2>3 DEF LinkSound, Truthful, NoRequest
  <2> QED
    BY <2>1, <2>2, <2>3 DEF Truthful
<1>9. AskedInBounds'
  <2> SUFFICES ASSUME NEW q \in Sentinels, NEW p \in Peers(q), ask'[q][p].type = "request"
               PROVE  ask'[q][p].epoch <= budget'.epoch
    BY DEF AskedInBounds
  <2>1. LinkSound(q, p)
    OBVIOUS
  <2>2. ask[q][p].type = "request" => ask[q][p].epoch <= budget.epoch
    BY DEF AskedInBounds
  <2> QED
    BY <2>1, <2>2 DEF LinkSound, NoRequest
<1> QED
  BY <1>2, <1>4, <1>5, <1>6, <1>7, <1>8, <1>9

(* The links, when a step leaves them alone or writes one of them.         *)
LinksSound ==
  /\ ask' = [q \in Sentinels |-> ask'[q]]
  /\ \A q \in Sentinels : ask'[q] \in [Peers(q) -> Link]
  /\ \A q \in Sentinels : \A p \in Peers(q) : LinkSound(q, p)

LEMMA LinksUnchanged ==
  ASSUME ElectionInv, UNCHANGED ask
  PROVE  LinksSound
BY DEF ElectionInv, StateTyped, LinksSound, LinkSound

LEMMA LinkWritten ==
  ASSUME ElectionInv, NEW s \in Sentinels, NEW p \in Peers(s), NEW link \in Link,
         ask' = [ask EXCEPT ![s][p] = link],
         link.type = "request" => link.epoch <= budget.epoch,
         link.type = "reply" /\ link.leader # Nobody => Vote(p, link.epoch, link.leader) \in votes'
  PROVE  LinksSound
<1>1. /\ ask = [q \in Sentinels |-> ask[q]]
      /\ \A q \in Sentinels : ask[q] \in [Peers(q) -> Link]
  BY DEF ElectionInv, StateTyped
<1>2. /\ ask' = [q \in Sentinels |-> ask'[q]]
      /\ \A q \in Sentinels : q # s => ask'[q] = ask[q]
      /\ ask'[s] = [ask[s] EXCEPT ![p] = link]
  BY <1>1
<1>3. \A q \in Sentinels : ask'[q] \in [Peers(q) -> Link]
  BY <1>1, <1>2
<1>4. \A q \in Sentinels : \A r \in Peers(q) : ask'[q][r] = ask[q][r] \/ (q = s /\ r = p)
  BY <1>1, <1>2
<1>5. ask'[s][p] = link
  BY <1>1, <1>2
<1>6. link = NoRequest \/ link.type \in {"request", "reply"}
  BY DEF Link
<1>7. LinkSound(s, p)
  BY <1>5, <1>6 DEF LinkSound
<1> QED
  BY <1>2, <1>3, <1>4, <1>7 DEF LinksSound, LinkSound

(* No election is lost or made by a step that does not count votes.        *)
LEMMA ElectionsKept ==
  ASSUME ElectionInv, elected' = elected, votes \subseteq votes', votes' \in SUBSET VoteType
  PROVE  elected' \subseteq ElectedType /\ ElectedByMajority'
<1>1. votes \in SUBSET VoteType /\ elected' \subseteq ElectedType
  BY DEF ElectionInv, StateTyped, VoteType, ElectedType
<1>2. SUFFICES ASSUME NEW e \in elected, e.during = e.epoch
               PROVE  Cardinality(Voters(e, votes')) >= Majority
  BY <1>1 DEF ElectedByMajority, Voters
<1>3. Cardinality(Voters(e, votes)) >= Majority
  BY <1>2 DEF ElectionInv, ElectedByMajority, Voters
<1> QED
  BY <1>1, <1>3, ElectionsStand

(* A step of one Sentinel that does not vote.                              *)
LEMMA QuietStep ==
  ASSUME ElectionInv, NEW s \in Sentinels, NEW m \in Node(s), NEW file \in FileType,
         sentinel' = [sentinel EXCEPT ![s] = m],
         stored' = [stored EXCEPT ![s] = file],
         Sound(m, file), m.voted = sentinel[s].voted, m.leader \in {sentinel[s].leader, Nobody},
         \A p \in Peers(s) : m.peer[p] = sentinel[s].peer[p] \/ m.peer[p].leader = Nobody
           \/ Vote(p, m.peer[p].epoch, m.peer[p].leader) \in votes,
         LinksSound, UNCHANGED <<votes, elected>>,
         budget' \in BudgetType, budget'.epoch = budget.epoch
  PROVE  ElectionInv'
<1>1. NoVote(s, m)
  BY DEF NoVote
<1>2. PeersTruthful(s, m)
  BY DEF PeersTruthful, ElectionInv, Truthful
<1>3. elected' \subseteq ElectedType /\ ElectedByMajority'
  BY ElectionsKept DEF ElectionInv, StateTyped, VoteType
<1>4. /\ ask' = [q \in Sentinels |-> ask'[q]]
      /\ \A q \in Sentinels : ask'[q] \in [Peers(q) -> Link]
      /\ \A q \in Sentinels : \A p \in Peers(q) : LinkSound(q, p)
  BY DEF LinksSound
<1> QED
  BY <1>1, <1>2, <1>3, <1>4, NodeStep

(* What a step finds of the Sentinel it is a step of.                      *)
LEMMA NodeFacts ==
  ASSUME ElectionInv, NEW s \in Sentinels
  PROVE  /\ sentinel[s] \in Node(s) /\ stored[s] \in FileType
         /\ Sound(sentinel[s], stored[s]) /\ budget \in BudgetType
         /\ sentinel[s].voted <= sentinel[s].epoch
         /\ sentinel = [sentinel EXCEPT ![s] = sentinel[s]]
         /\ stored = [stored EXCEPT ![s] = stored[s]]
<1>1. sentinel[s] \in Node(s) /\ stored[s] \in FileType /\ budget \in BudgetType
  BY DEF ElectionInv, StateTyped, FileType, BudgetType
<1>2. InOrder(s)
  BY DEF ElectionInv
<1>3. sentinel = [q \in Sentinels |-> sentinel[q]] /\ stored \in [Sentinels -> FileType]
  BY DEF ElectionInv, StateTyped, FileType
<1> QED
  BY <1>1, <1>2, <1>3 DEF InOrder, Sound, Node, FileType

(* The bounds of a fault.                                                  *)
LEMMA SpendKeeps ==
  ASSUME ElectionInv, NEW starts \in {0, 1}, NEW faults \in {0, 1}, Spend(starts, faults)
  PROVE  budget' \in BudgetType /\ budget'.epoch = budget.epoch
<1>1. budget \in BudgetType
  BY DEF ElectionInv, StateTyped, BudgetType
<1>2. budget.starts - starts \in Nat /\ budget.faults - faults \in Nat
  BY <1>1 DEF Spend, BudgetType
<1> QED
  BY <1>1, <1>2 DEF Spend, BudgetType

-----------------------------------------------------------------------------
(* The actions.                                                            *)

(* A vote asked for by a peer.                                             *)
LEMMA AnswerStep ==
  ASSUME ElectionInv, NEW s \in Sentinels, NEW p \in Peers(s), Answer(s, p)
  PROVE  ElectionInv'
<1> DEFINE request == ask[s][p]
           n == sentinel[p]
           m == VoteLeader(n, request.epoch, request.runid)
           file == Flushed(stored[p], n, m)
<1>1. p \in Sentinels
  BY DEF Peers
<1>2. request \in Link /\ request.type = "request" /\ request.epoch <= budget.epoch
  BY DEF Answer, ElectionInv, StateTyped, AskedInBounds
<1>3. request.epoch \in Nat /\ request.runid \in RunIds
  BY <1>2 DEF Link, NoRequest
<1>4. n \in Node(p) /\ Sound(n, stored[p]) /\ n.voted <= n.epoch /\ stored[p] \in FileType
  BY <1>1, NodeFacts
<1> HIDE DEF request, n
<1>5. /\ m \in Node(p)
      /\ m.peer = n.peer /\ m.failoverEpoch = n.failoverEpoch
      /\ m.epoch = Higher(n.epoch, request.epoch) /\ m.voted <= m.epoch
      /\ \/ m.voted = n.voted /\ m.leader = n.leader /\ Cast(p, n, m) = {}
         \/ /\ m.voted > n.voted /\ m.leader # Nobody
            /\ Cast(p, n, m) = {Vote(p, m.voted, m.leader)}
  BY <1>1, <1>3, <1>4, VoteLeaderCasts
<1>6. /\ sentinel' = [sentinel EXCEPT ![p] = m]
      /\ stored' = [stored EXCEPT ![p] = file]
      /\ votes' = votes \cup Cast(p, n, m)
      /\ ask' = [ask EXCEPT ![s][p] = Reply(m.leader, m.voted)]
      /\ elected' = elected /\ budget' = budget
  BY DEF Answer, request, n
<1>7. m.epoch >= n.epoch /\ m.epoch <= budget.epoch /\ m.voted \in Nat /\ m.leader \in Ids
  BY <1>2, <1>3, <1>4, <1>5 DEF Higher, Sound, Node
<1>8. file \in FileType /\ Sound(m, file)
  <2>1. CASE m = n
    BY <1>4, <2>1 DEF Flushed
  <2>2. CASE m # n
    <3>1. file = Saved(m)
      BY <2>2 DEF Flushed
    <3>2. m.epoch \in Nat /\ m.voted \in Nat /\ m.failoverEpoch <= m.epoch
      BY <1>4, <1>5, <1>7 DEF Node, Sound
    <3> QED
      BY <1>5, <1>7, <3>1, <3>2 DEF Saved, FileType, Sound
  <2> QED
    BY <2>1, <2>2
<1> HIDE DEF m, file
<1>9. NoVote(p, m) \/ NewVote(p, m)
  BY <1>5, <1>6 DEF NoVote, NewVote, n
<1>10. votes \subseteq votes' /\ votes' \in SUBSET VoteType
  <2>1. CASE Cast(p, n, m) = {}
    BY <1>6, <2>1 DEF ElectionInv, StateTyped, VoteType
  <2>2. CASE m.leader # Nobody /\ Cast(p, n, m) = {Vote(p, m.voted, m.leader)}
    <3>1. m.leader \in RunIds
      BY <1>7, <2>2 DEF Ids
    <3> QED
      BY <1>1, <1>6, <1>7, <2>2, <3>1 DEF ElectionInv, StateTyped, VoteType, Vote
  <2> QED
    BY <1>5, <2>1, <2>2
<1>11. PeersTruthful(p, m)
  BY <1>1, <1>5, <1>10 DEF PeersTruthful, ElectionInv, Truthful, n
<1>12. m.leader # Nobody => Vote(p, m.voted, m.leader) \in votes'
  BY <1>1, <1>5, <1>6 DEF ElectionInv, Truthful, n
<1>13. LinksSound
  <2>1. Reply(m.leader, m.voted) \in Link
    BY <1>7 DEF Reply, Link
  <2>2. /\ Reply(m.leader, m.voted).type = "reply"
        /\ Reply(m.leader, m.voted).leader = m.leader
        /\ Reply(m.leader, m.voted).epoch = m.voted
    BY DEF Reply
  <2> QED
    BY <1>6, <1>12, <2>1, <2>2, LinkWritten
<1>14. elected' \subseteq ElectedType /\ ElectedByMajority'
  BY <1>6, <1>10, ElectionsKept
<1>15. budget' \in BudgetType /\ budget'.epoch = budget.epoch
  BY <1>6 DEF ElectionInv, StateTyped, BudgetType
<1> QED
  BY <1>1, <1>5, <1>6, <1>8, <1>9, <1>11, <1>13, <1>14, <1>15, NodeStep DEF LinksSound

(* A reply to a question.                                                  *)
LEMMA ReceiveStep ==
  ASSUME ElectionInv, NEW s \in Sentinels, NEW p \in Peers(s), Receive(s, p)
  PROVE  ElectionInv'
<1> DEFINE reply == ask[s][p]
           n == sentinel[s]
           told == IF reply.leader = Nobody THEN n.peer[p]
                   ELSE [n.peer[p] EXCEPT !.leader = reply.leader, !.epoch = reply.epoch]
           m == [n EXCEPT !.peer[p] = told]
<1>1. reply \in Link /\ reply.type = "reply"
  BY DEF Receive, ElectionInv, StateTyped
<1>2. reply.leader \in Ids /\ reply.epoch \in Nat
  BY <1>1 DEF Link, NoRequest
<1>3. n \in Node(s) /\ Sound(n, stored[s]) /\ stored[s] \in FileType
      /\ stored = [stored EXCEPT ![s] = stored[s]]
      /\ budget \in BudgetType
  BY NodeFacts
<1>4. n.peer \in [Peers(s) -> Peer]
  BY <1>3 DEF Node
<1>5. reply.leader # Nobody => Vote(p, reply.epoch, reply.leader) \in votes
  BY <1>1 DEF ElectionInv, Truthful
<1>6. sentinel' = [sentinel EXCEPT ![s] = m]
  BY DEF Receive
<1> HIDE DEF reply, n
<1>7. told \in Peer /\ (told = n.peer[p] \/ Vote(p, told.epoch, told.leader) \in votes)
  BY <1>2, <1>4, <1>5 DEF Peer
<1> HIDE DEF told
<1>8. m = [n EXCEPT !.peer = [n.peer EXCEPT ![p] = told]]
  OBVIOUS
<1>9. [n.peer EXCEPT ![p] = told] \in [Peers(s) -> Peer]
  BY <1>4, <1>7
<1>10. /\ m \in Node(s) /\ m.epoch = n.epoch /\ m.voted = n.voted /\ m.leader = n.leader
       /\ m.failoverEpoch = n.failoverEpoch /\ m.peer = [n.peer EXCEPT ![p] = told]
  BY <1>3, <1>8, <1>9 DEF Node
<1>11. \A q \in Peers(s) : m.peer[q] = n.peer[q] \/ Vote(q, m.peer[q].epoch, m.peer[q].leader) \in votes
  BY <1>4, <1>7, <1>10
<1> HIDE DEF m
<1>12. Sound(m, stored[s])
  BY <1>3, <1>10 DEF Sound
<1>13. LinksSound
  <2>1. ask' = [ask EXCEPT ![s][p] = NoRequest] /\ NoRequest \in Link
        /\ NoRequest.type = "none"
    BY DEF Receive, Link, NoRequest
  <2> QED
    BY <2>1, LinkWritten
<1>14. stored' = [stored EXCEPT ![s] = stored[s]] /\ UNCHANGED <<votes, elected, budget>>
  BY <1>3 DEF Receive
<1> QED
  BY <1>3, <1>6, <1>10, <1>11, <1>12, <1>13, <1>14, QuietStep DEF n

(* A connection that breaks.                                               *)
LEMMA LoseLinkStep ==
  ASSUME ElectionInv, NEW s \in Sentinels, NEW p \in Peers(s), LoseLink(s, p)
  PROVE  ElectionInv'
<1>1. LinksSound
  <2>1. ask' = [ask EXCEPT ![s][p] = NoRequest] /\ NoRequest \in Link
        /\ NoRequest.type = "none"
    BY DEF LoseLink, Link, NoRequest
  <2> QED
    BY <2>1, LinkWritten
<1>2. budget' \in BudgetType /\ budget'.epoch = budget.epoch
  BY SpendKeeps DEF LoseLink, Fault
<1>3. sentinel' = sentinel /\ stored' = stored /\ UNCHANGED <<votes, elected>>
  BY DEF LoseLink
<1> QED
  BY <1>1, <1>2, <1>3, NodeFacts, QuietStep

(* A peer found again, or a greater epoch.                                 *)
LEMMA HearHelloStep ==
  ASSUME ElectionInv, NEW s \in Sentinels, NEW p \in Peers(s), HearHello(s, p)
  PROVE  ElectionInv'
<1>1. p \in Sentinels
  BY DEF Peers
<1> DEFINE n == sentinel[s]
           unknown == n.peer[p].runid # RunId(p)
<1>2. n \in Node(s) /\ Sound(n, stored[s]) /\ n.voted <= n.epoch /\ budget \in BudgetType
  BY NodeFacts
<1>3. sentinel[p].epoch \in Nat /\ sentinel[p].epoch <= budget.epoch /\ RunId(p) \in RunIds
  BY <1>1, NodeFacts DEF Node, Sound, RunId, RunIds
<1>4. PICK epoch \in 0 .. sentinel[p].epoch :
        LET m == [n EXCEPT !.epoch = Higher(@, epoch),
                           !.peer[p] = IF unknown THEN UnknownPeer(RunId(p)) ELSE @]
        IN  /\ sentinel' = [sentinel EXCEPT ![s] = m]
            /\ stored' = [stored EXCEPT ![s] = Saved(m)]
            /\ ask' = [ask EXCEPT ![s][p] = IF unknown THEN NoRequest ELSE @]
            /\ UNCHANGED <<votes, elected, budget>>
  BY DEF HearHello
<1> DEFINE found == IF unknown THEN UnknownPeer(RunId(p)) ELSE n.peer[p]
           m == [n EXCEPT !.epoch = Higher(n.epoch, epoch), !.peer = [n.peer EXCEPT ![p] = found]]
<1>5. n.peer \in [Peers(s) -> Peer] /\ n.epoch \in Nat
  BY <1>2 DEF Node
<1>6. found \in Peer /\ (found = n.peer[p] \/ found.leader = Nobody)
  BY <1>3, <1>5 DEF Peer, UnknownPeer, Ids
<1>7. /\ sentinel' = [sentinel EXCEPT ![s] = m]
      /\ stored' = [stored EXCEPT ![s] = Saved(m)]
      /\ UNCHANGED <<votes, elected, budget>>
  BY <1>4
<1>8. ask' = [ask EXCEPT ![s][p] = NoRequest] \/ ask' = [ask EXCEPT ![s][p] = ask[s][p]]
  BY <1>4
<1> HIDE DEF n, found
<1>9. Higher(n.epoch, epoch) \in Nat /\ Higher(n.epoch, epoch) >= n.epoch
      /\ Higher(n.epoch, epoch) <= budget.epoch
  BY <1>2, <1>3, <1>4, <1>5 DEF Higher, Sound, BudgetType
<1>10. [n.peer EXCEPT ![p] = found] \in [Peers(s) -> Peer]
  BY <1>5, <1>6
<1>11. /\ m \in Node(s) /\ m.epoch = Higher(n.epoch, epoch) /\ m.voted = n.voted
       /\ m.leader = n.leader /\ m.failoverEpoch = n.failoverEpoch
       /\ m.peer = [n.peer EXCEPT ![p] = found]
  BY <1>2, <1>9, <1>10 DEF Node
<1>12. \A q \in Peers(s) : m.peer[q] = n.peer[q] \/ m.peer[q].leader = Nobody
  BY <1>5, <1>6, <1>11
<1> HIDE DEF m
<1>13. Saved(m) \in FileType /\ Sound(m, Saved(m))
  BY <1>2, <1>9, <1>11 DEF Saved, FileType, Sound, Node
<1>14. LinksSound
  <2>1. CASE ask' = [ask EXCEPT ![s][p] = NoRequest]
    <3>1. NoRequest \in Link /\ NoRequest.type = "none"
      BY DEF Link, NoRequest
    <3> QED
      BY <2>1, <3>1, LinkWritten
  <2>2. CASE ask' = [ask EXCEPT ![s][p] = ask[s][p]]
    BY <2>2, LinksUnchanged DEF ElectionInv, StateTyped
  <2> QED
    BY <1>8, <2>1, <2>2
<1> QED
  BY <1>2, <1>7, <1>11, <1>12, <1>13, <1>14, QuietStep DEF n

(* A failover that was asked for.                                          *)
LEMMA ForceFailoverStep ==
  ASSUME ElectionInv, NEW s \in Sentinels, ForceFailover(s)
  PROVE  ElectionInv'
<1> DEFINE n == sentinel[s]
           m == [Started(n) EXCEPT !.forced = TRUE]
<1>1. n \in Node(s) /\ Sound(n, stored[s]) /\ stored[s] \in FileType
      /\ stored = [stored EXCEPT ![s] = stored[s]] /\ budget \in BudgetType
  BY NodeFacts
<1>2. /\ sentinel' = [sentinel EXCEPT ![s] = m] /\ n.epoch < budget.epoch
      /\ UNCHANGED <<stored, ask, votes, elected>>
  BY DEF ForceFailover
<1>3. /\ Started(n) \in Node(s)
      /\ Started(n).epoch = n.epoch + 1 /\ Started(n).voted = n.voted
      /\ Started(n).leader = n.leader /\ Started(n).peer = n.peer
      /\ Started(n).failoverEpoch = Started(n).epoch
  BY <1>1, StartedNode
<1> HIDE DEF n
<1>4. /\ m \in Node(s) /\ m.epoch = n.epoch + 1 /\ m.voted = n.voted
      /\ m.leader = n.leader /\ m.peer = n.peer /\ m.failoverEpoch = m.epoch
  BY <1>3 DEF Node
<1> HIDE DEF m
<1>5. Sound(m, stored[s])
  BY <1>1, <1>2, <1>4 DEF Sound, Node, BudgetType, FileType
<1>6. budget' \in BudgetType /\ budget'.epoch = budget.epoch
  BY SpendKeeps DEF ForceFailover, Fault
<1> QED
  BY <1>1, <1>2, <1>4, <1>5, <1>6, LinksUnchanged, QuietStep DEF n

(* The epoch of a failover of another master.                              *)
LEMMA FailoverElsewhereStep ==
  ASSUME ElectionInv, NEW s \in Sentinels, FailoverElsewhere(s)
  PROVE  ElectionInv'
<1> DEFINE n == sentinel[s]
           m == [n EXCEPT !.epoch = n.epoch + 1]
<1>1. n \in Node(s) /\ Sound(n, stored[s]) /\ n.voted <= n.epoch /\ budget \in BudgetType
  BY NodeFacts
<1>2. /\ sentinel' = [sentinel EXCEPT ![s] = m] /\ stored' = [stored EXCEPT ![s] = Saved(m)]
      /\ n.epoch < budget.epoch /\ UNCHANGED <<ask, votes, elected>>
  BY DEF FailoverElsewhere
<1> HIDE DEF n
<1>3. n.epoch + 1 \in Nat
  BY <1>1 DEF Node
<1>4. /\ m \in Node(s) /\ m.epoch = n.epoch + 1 /\ m.voted = n.voted
      /\ m.leader = n.leader /\ m.peer = n.peer /\ m.failoverEpoch = n.failoverEpoch
  BY <1>1, <1>3 DEF Node
<1> HIDE DEF m
<1>5. Saved(m) \in FileType /\ Sound(m, Saved(m))
  BY <1>1, <1>2, <1>4 DEF Saved, FileType, Sound, Node, BudgetType
<1>6. budget' \in BudgetType /\ budget'.epoch = budget.epoch
  BY SpendKeeps DEF FailoverElsewhere, Fault
<1> QED
  BY <1>1, <1>2, <1>4, <1>5, <1>6, LinksUnchanged, QuietStep DEF n

(* A failover given up by the Sentinel elected for it.                     *)
LEMMA GiveUpStep ==
  ASSUME ElectionInv, NEW s \in Sentinels, GiveUp(s)
  PROVE  ElectionInv'
<1> DEFINE n == sentinel[s]
           m == Aborted(n)
<1>1. n \in Node(s) /\ Sound(n, stored[s]) /\ stored[s] \in FileType
      /\ stored = [stored EXCEPT ![s] = stored[s]] /\ budget \in BudgetType
  BY NodeFacts
<1>2. /\ sentinel' = [sentinel EXCEPT ![s] = m]
      /\ UNCHANGED <<stored, ask, votes, elected, budget>>
  BY DEF GiveUp
<1> HIDE DEF n
<1>3. /\ m \in Node(s) /\ m.epoch = n.epoch /\ m.voted = n.voted
      /\ m.leader = n.leader /\ m.peer = n.peer /\ m.failoverEpoch = 0
  BY <1>1, AbortedNode
<1> HIDE DEF m
<1>4. Sound(m, stored[s])
  BY <1>1, <1>3 DEF Sound, Node
<1> QED
  BY <1>1, <1>2, <1>3, <1>4, LinksUnchanged, QuietStep DEF n

(* The end of a failover, or a newer configuration: the vote is forgotten, *)
(* not its epoch.                                                          *)
LEMMA ResetMasterStep ==
  ASSUME ElectionInv, NEW s \in Sentinels, ResetMaster(s)
  PROVE  ElectionInv'
<1> DEFINE n == sentinel[s]
           m == [Aborted(n) EXCEPT !.leader = Nobody]
<1>1. n \in Node(s) /\ Sound(n, stored[s]) /\ n.voted <= n.epoch /\ budget \in BudgetType
  BY NodeFacts
<1>2. /\ sentinel' = [sentinel EXCEPT ![s] = m] /\ stored' = [stored EXCEPT ![s] = Saved(m)]
      /\ UNCHANGED <<ask, votes, elected>> /\ (UNCHANGED budget \/ Fault)
  BY DEF ResetMaster
<1> HIDE DEF n
<1>3. /\ Aborted(n) \in Node(s) /\ Aborted(n).epoch = n.epoch /\ Aborted(n).voted = n.voted
      /\ Aborted(n).peer = n.peer /\ Aborted(n).failoverEpoch = 0
  BY <1>1, AbortedNode
<1>4. Nobody \in Ids
  BY DEF Ids
<1>5. /\ m \in Node(s) /\ m.epoch = n.epoch /\ m.voted = n.voted
      /\ m.leader = Nobody /\ m.peer = n.peer /\ m.failoverEpoch = 0
  BY <1>3, <1>4 DEF Node
<1> HIDE DEF m
<1>6. Saved(m) \in FileType /\ Sound(m, Saved(m))
  BY <1>1, <1>5 DEF Saved, FileType, Sound, Node, BudgetType
<1>7. budget' \in BudgetType /\ budget'.epoch = budget.epoch
  BY <1>1, <1>2, SpendKeeps DEF Fault
<1> QED
  BY <1>1, <1>2, <1>5, <1>6, <1>7, LinksUnchanged, QuietStep DEF n

(* What a Sentinel finds in its configuration file.                        *)
LEMMA BootedNode ==
  ASSUME NEW s \in Sentinels, NEW boots \in Nat, NEW epoch \in Nat, NEW voted \in Nat,
         NEW peer \in [Peers(s) -> Peer], NEW m,
         m = [boots |-> boots, epoch |-> epoch, leader |-> Nobody, voted |-> voted,
              failover |-> "none", forced |-> FALSE, failoverEpoch |-> 0, peer |-> peer]
  PROVE  /\ m \in Node(s) /\ m.epoch = epoch /\ m.voted = voted
         /\ m.leader = Nobody /\ m.peer = peer /\ m.failoverEpoch = 0
BY DEF Node, Ids

(* A restart from the configuration file.                                  *)
LEMMA CrashStep ==
  ASSUME ElectionInv, NEW s \in Sentinels, Crash(s)
  PROVE  ElectionInv'
<1> DEFINE n == sentinel[s]
           m == Booted(s, n.boots + 1, stored[s])
           peer == [p \in Peers(s) |-> UnknownPeer(<<p, sentinel[p].boots>>)]
<1>1. n \in Node(s) /\ Sound(n, stored[s]) /\ stored[s] \in FileType
      /\ stored = [stored EXCEPT ![s] = stored[s]] /\ budget \in BudgetType
  BY NodeFacts
<1>2. \A p \in Peers(s) : UnknownPeer(<<p, sentinel[p].boots>>) \in Peer
  <2> SUFFICES ASSUME NEW p \in Peers(s) PROVE UnknownPeer(<<p, sentinel[p].boots>>) \in Peer
    OBVIOUS
  <2>1. p \in Sentinels /\ sentinel[p].boots \in Nat
    BY NodeFacts DEF Peers, Node
  <2>2. <<p, sentinel[p].boots>> \in RunIds
    BY <2>1 DEF RunIds
  <2> QED
    BY <2>2 DEF Peer, UnknownPeer, Ids
<1>3. peer \in [Peers(s) -> Peer] /\ \A p \in Peers(s) : peer[p].leader = Nobody
  BY <1>2 DEF UnknownPeer
<1>4. m = [boots |-> n.boots + 1, epoch |-> stored[s].epoch, leader |-> Nobody,
           voted |-> stored[s].voted, failover |-> "none", forced |-> FALSE,
           failoverEpoch |-> 0, peer |-> peer]
  BY DEF Booted
<1>5. /\ sentinel' = [sentinel EXCEPT ![s] = m]
      /\ ask' = [q \in Sentinels |-> [p \in Peers(q) |->
                IF s \in {p, q} THEN NoRequest ELSE ask[q][p]]]
      /\ UNCHANGED <<stored, votes, elected>>
  BY DEF Crash
<1> HIDE DEF n, peer
<1>6. /\ m \in Node(s) /\ m.epoch = stored[s].epoch /\ m.voted = stored[s].voted
      /\ m.leader = Nobody /\ m.peer = peer /\ m.failoverEpoch = 0
  <2>1. /\ n.boots + 1 \in Nat /\ stored[s].epoch \in Nat /\ stored[s].voted \in Nat
        /\ peer \in [Peers(s) -> Peer]
    BY <1>1, <1>3 DEF Node, FileType
  <2> QED
    BY <1>4, <2>1, BootedNode
<1> HIDE DEF m
<1>7. Sound(m, stored[s])
  BY <1>1, <1>6 DEF Sound, FileType, Node, BudgetType
<1>8. m.voted = n.voted
  BY <1>1, <1>6 DEF Sound
<1>9. LinksSound
  <2>1. \A q \in Sentinels : ask[q] \in [Peers(q) -> Link]
    BY DEF ElectionInv, StateTyped
  <2>2. \A q \in Sentinels : ask'[q] \in [Peers(q) -> Link]
    BY <1>5, <2>1 DEF Link
  <2>3. ASSUME NEW q \in Sentinels, NEW p \in Peers(q) PROVE LinkSound(q, p)
    BY <1>5 DEF LinkSound
  <2> QED
    BY <1>5, <2>2, <2>3 DEF LinksSound
<1>10. budget' \in BudgetType /\ budget'.epoch = budget.epoch
  BY SpendKeeps DEF Crash, Fault
<1> QED
  BY <1>1, <1>3, <1>5, <1>6, <1>7, <1>8, <1>9, <1>10, QuietStep DEF n

-----------------------------------------------------------------------------
(* The timer.                                                              *)

(* A Sentinel votes for itself or for one its peers voted for.             *)
LEMMA FavouritesAreIds ==
  ASSUME NEW s \in Sentinels, NEW n \in Node(s), NEW self \in RunIds
  PROVE  Favourites(s, n, self) \subseteq RunIds
<1>1. Candidates(s, n) \subseteq RunIds
  <2> SUFFICES ASSUME NEW q \in Peers(s), n.peer[q].leader # Nobody
               PROVE  n.peer[q].leader \in RunIds
    BY DEF Candidates
  <2>1. n.peer[q] \in Peer
    BY DEF Node
  <2> QED
    BY <2>1 DEF Peer, Ids
<1> QED
  BY <1>1 DEF Favourites

(* The node once the votes are counted: what decides the next vote stays.  *)
LEMMA CountedNode ==
  ASSUME NEW s \in Sentinels, NEW n, NEW m \in Node(s), NEW isLeader, NEW late, NEW r,
         r = Counted(n, m, isLeader, late)
  PROVE  /\ r \in Node(s)
         /\ r.epoch = m.epoch /\ r.voted = m.voted /\ r.leader = m.leader /\ r.peer = m.peer
         /\ r.failoverEpoch \in {0, m.failoverEpoch}
<1>1. \/ r = [m EXCEPT !.failover = "elected"]
      \/ r = Aborted(m)
      \/ r = m
  BY Zenon DEF Counted
<1>2. CASE r = [m EXCEPT !.failover = "elected"]
  BY <1>2 DEF Node
<1>3. CASE r = Aborted(m)
  BY <1>3, AbortedNode
<1> QED
  BY <1>1, <1>2, <1>3

(* The votes a Sentinel counts for itself in the current epoch were cast.  *)
LEMMA CountedVotes ==
  ASSUME NEW s \in Sentinels, NEW n \in Node(s), NEW m, NEW cast \in SUBSET VoteType,
         NEW id \in RunIds, NEW e, e.runid = id, e.epoch = n.epoch,
         \A p \in Peers(s) : n.peer[p].leader # Nobody
           => Vote(p, n.peer[p].epoch, n.peer[p].leader) \in cast,
         m.leader # Nobody => Vote(s, m.voted, m.leader) \in cast
  PROVE  PeerVotes(s, n, id) + OwnVote(m, n.epoch, id) <= Cardinality(Voters(e, cast))
<1> DEFINE P == {p \in Peers(s) : n.peer[p].leader = id /\ n.peer[p].epoch = n.epoch}
<1>1. id # Nobody
  BY ElectionAssumption DEF RunIds
<1>2. P \subseteq Voters(e, cast)
  <2> SUFFICES ASSUME NEW p \in P PROVE p \in Voters(e, cast)
    OBVIOUS
  <2>1. Vote(p, n.epoch, id) \in cast
    BY <1>1
  <2> QED
    BY <2>1 DEF Voters, Vote
<1>3. IsFiniteSet(P) /\ Cardinality(P) \in Nat
  BY <1>2, VotersFinite, FS_Subset, FS_CardinalityType
<1>4. s \notin P
  BY DEF Peers
<1>5. CASE m.leader = id /\ m.voted = n.epoch
  <2>1. Vote(s, n.epoch, id) \in cast
    BY <1>1, <1>5
  <2>2. s \in Voters(e, cast)
    BY <2>1 DEF Voters, Vote
  <2>3. Cardinality(P \cup {s}) = Cardinality(P) + 1
    BY <1>3, <1>4, FS_AddElement
  <2>4. Cardinality(P \cup {s}) <= Cardinality(Voters(e, cast))
    BY <1>2, <2>2, VotersFinite, FS_Subset
  <2> QED
    BY <1>5, <2>3, <2>4 DEF PeerVotes, OwnVote
<1>6. CASE ~(m.leader = id /\ m.voted = n.epoch)
  <2>1. Cardinality(P) <= Cardinality(Voters(e, cast))
    BY <1>2, VotersFinite, FS_Subset
  <2> QED
    BY <1>3, <1>6, <2>1 DEF PeerVotes, OwnVote
<1> QED
  BY <1>5, <1>6

(* What the timer makes of a Sentinel before and after it votes.           *)
LEMMA AtStartNode ==
  ASSUME ElectionInv, NEW s \in Sentinels, NEW starts \in BOOLEAN, NEW old,
         starts => sentinel[s].epoch < budget.epoch,
         NEW m, m = AtStart(s, starts, old)
  PROVE  /\ m \in Node(s)
         /\ m.epoch >= sentinel[s].epoch /\ m.epoch <= budget.epoch
         /\ m.voted = sentinel[s].voted /\ m.leader = sentinel[s].leader
         /\ m.failoverEpoch <= m.epoch
         /\ \A p \in Peers(s) : m.peer[p] = sentinel[s].peer[p] \/ m.peer[p].leader = Nobody
<1> DEFINE n == sentinel[s]
<1>1. n \in Node(s) /\ Sound(n, stored[s]) /\ budget \in BudgetType
  BY NodeFacts
<1>2. n.epoch \in Nat /\ budget.epoch \in Nat
  BY <1>1 DEF Node, BudgetType
<1>3. CASE starts
  <2>1. m = Forgotten(s, Started(n), old)
    BY <1>3 DEF AtStart
  <2>2. /\ Started(n) \in Node(s) /\ Started(n).epoch = n.epoch + 1
        /\ Started(n).voted = n.voted /\ Started(n).leader = n.leader
        /\ Started(n).failoverEpoch = Started(n).epoch /\ Started(n).peer = n.peer
    BY <1>1, StartedNode
  <2>3. /\ m \in Node(s)
        /\ m.epoch = n.epoch + 1 /\ m.voted = n.voted /\ m.leader = n.leader
        /\ m.failoverEpoch = n.epoch + 1
        /\ \A p \in Peers(s) : m.peer[p] = n.peer[p] \/ m.peer[p].leader = Nobody
    BY <2>1, <2>2, ForgottenNode
  <2>4. n.epoch < budget.epoch
    BY <1>3
  <2> HIDE DEF n
  <2>5. m.epoch >= n.epoch /\ m.epoch <= budget.epoch /\ m.failoverEpoch <= m.epoch
    BY <1>2, <2>3, <2>4
  <2> QED
    BY <2>3, <2>5 DEF n
<1>4. CASE ~starts
  <2>1. m = n
    BY <1>4 DEF AtStart
  <2> QED
    BY <1>1, <1>2, <2>1 DEF Sound
<1> QED
  BY <1>3, <1>4

LEMMA AfterVoteNode ==
  ASSUME NEW s \in Sentinels, NEW n \in Node(s), NEW id \in RunIds,
         n.voted <= n.epoch, n.failoverEpoch <= n.epoch,
         NEW m, m = AfterVote(n, id)
  PROVE  /\ m \in Node(s) /\ m.epoch = n.epoch /\ m.peer = n.peer
         /\ m.failoverEpoch = n.failoverEpoch /\ m.voted <= m.epoch
         /\ \/ m.voted = n.voted /\ m.leader = n.leader /\ Cast(s, n, m) = {}
            \/ /\ m.voted > n.voted /\ m.leader # Nobody
               /\ Cast(s, n, m) = {Vote(s, m.voted, m.leader)}
<1>1. CASE Voting(n)
  <2>1. m = VoteLeader(n, n.failoverEpoch, id) /\ n.failoverEpoch \in Nat
    BY <1>1 DEF AfterVote, Node
  <2>2. Higher(n.epoch, n.failoverEpoch) = n.epoch
    BY DEF Higher, Node
  <2> QED
    BY <2>1, <2>2, VoteLeaderCasts
<1>2. CASE ~Voting(n)
  <2>1. m = n
    BY <1>2 DEF AfterVote
  <2> QED
    BY <2>1 DEF Cast
<1> QED
  BY <1>1, <1>2

(* The timer starts a failover, votes, counts and asks, in this order.     *)
LEMMA TimerStep ==
  ASSUME ElectionInv, NEW s \in Sentinels, Timer(s)
  PROVE  ElectionInv'
<1>1. PICK starts \in BOOLEAN, late \in BOOLEAN, asks \in BOOLEAN, old \in {{}, Peers(s)} :
        \E favourite \in Favourites(s, AtStart(s, starts, old), RunId(s)) :
          TimerRuns(s, starts, late, asks, old, favourite)
  BY DEF Timer
<1> DEFINE started == AtStart(s, starts, old)
<1>2. PICK favourite \in Favourites(s, started, RunId(s)) :
        TimerRuns(s, starts, late, asks, old, favourite)
  BY <1>1
<1> DEFINE voted == AfterVote(started, favourite)
           counted == AfterCount(s, started, voted, late)
           final == Forgotten(s, counted, old)
           file == Flushed(stored[s], started, voted)
           free == {p \in Peers(s) : ask[s][p] = NoRequest}
           win == [who |-> s, runid |-> RunId(s),
                   epoch |-> voted.failoverEpoch, during |-> voted.epoch]
<1>3. /\ starts => sentinel[s].epoch < budget.epoch
      /\ sentinel' = [sentinel EXCEPT ![s] = final]
      /\ stored' = [stored EXCEPT ![s] = file]
      /\ votes' = votes \cup Cast(s, started, voted)
      /\ \/ elected' = elected
         \/ Wins(s, started, voted) /\ elected' = elected \cup {win}
      /\ \/ ask' = ask
         \/ ask' = [ask EXCEPT ![s] = [p \in Peers(s) |->
               IF p \in free THEN Request(final.epoch, RunId(s)) ELSE ask[s][p]]]
      /\ Spend(IF starts THEN 1 ELSE 0, IF old # {} THEN 1 ELSE 0)
  BY <1>2 DEF TimerRuns
<1>4. /\ sentinel[s] \in Node(s) /\ stored[s] \in FileType
      /\ Sound(sentinel[s], stored[s]) /\ budget \in BudgetType
      /\ sentinel[s].voted <= sentinel[s].epoch
      /\ RunId(s) \in RunIds
  BY NodeFacts DEF RunId, RunIds, Node
<1> HIDE DEF started
<1>5. /\ started \in Node(s)
      /\ started.epoch >= sentinel[s].epoch /\ started.epoch <= budget.epoch
      /\ started.voted = sentinel[s].voted /\ started.leader = sentinel[s].leader
      /\ started.failoverEpoch <= started.epoch
      /\ \A p \in Peers(s) :
           started.peer[p] = sentinel[s].peer[p] \/ started.peer[p].leader = Nobody
  BY <1>3, AtStartNode DEF started
<1>6. favourite \in RunIds
  BY <1>2, <1>4, <1>5, FavouritesAreIds
<1> HIDE DEF voted
<1>7. /\ voted \in Node(s) /\ voted.epoch = started.epoch /\ voted.peer = started.peer
      /\ voted.failoverEpoch = started.failoverEpoch /\ voted.voted <= voted.epoch
      /\ \/ /\ voted.voted = started.voted /\ voted.leader = started.leader
            /\ Cast(s, started, voted) = {}
         \/ /\ voted.voted > started.voted /\ voted.leader # Nobody
            /\ Cast(s, started, voted) = {Vote(s, voted.voted, voted.leader)}
  <2>1. started.voted <= started.epoch
    BY <1>4, <1>5 DEF Node
  <2> QED
    BY <1>5, <1>6, <2>1, AfterVoteNode DEF voted
<1> HIDE DEF counted
<1>8. /\ counted \in Node(s)
      /\ counted.epoch = voted.epoch /\ counted.voted = voted.voted
      /\ counted.leader = voted.leader /\ counted.peer = voted.peer
      /\ counted.failoverEpoch \in {0, voted.failoverEpoch}
  <2>1. CASE Voting(started)
    BY <1>7, <2>1, CountedNode DEF counted, AfterCount
  <2>2. CASE ~Voting(started)
    <3>1. counted = started /\ voted = started
      BY <2>2 DEF counted, voted, AfterCount, AfterVote
    <3> QED
      BY <1>5, <3>1
  <2> QED
    BY <2>1, <2>2
<1> HIDE DEF final
<1>9. /\ final \in Node(s)
      /\ final.epoch = counted.epoch /\ final.voted = counted.voted
      /\ final.leader = counted.leader /\ final.failoverEpoch = counted.failoverEpoch
      /\ \A p \in Peers(s) : final.peer[p] = counted.peer[p] \/ final.peer[p].leader = Nobody
  BY <1>8, ForgottenNode DEF final
<1>10. file \in FileType /\ Sound(final, file)
  <2>1. /\ final.epoch = started.epoch /\ final.voted = voted.voted /\ voted.epoch = started.epoch
        /\ final.failoverEpoch <= final.epoch /\ final.epoch <= budget.epoch
        /\ voted.epoch \in Nat /\ voted.voted \in Nat
    BY <1>5, <1>7, <1>8, <1>9 DEF Node
  <2>2. CASE voted = started
    BY <1>4, <1>5, <2>1, <2>2 DEF Flushed, Sound, Node, FileType
  <2>3. CASE voted # started
    <3>1. file = Saved(voted)
      BY <2>3 DEF Flushed
    <3> QED
      BY <1>7, <2>1, <3>1 DEF Saved, Sound, FileType
  <2> QED
    BY <2>2, <2>3
<1> HIDE DEF file
<1>11. NoVote(s, final) \/ NewVote(s, final)
  BY <1>3, <1>5, <1>7, <1>8, <1>9 DEF NoVote, NewVote
<1>12. votes \subseteq votes' /\ votes' \in SUBSET VoteType
  <2>1. CASE Cast(s, started, voted) = {}
    BY <1>3, <2>1 DEF ElectionInv, StateTyped, VoteType
  <2>2. CASE voted.leader # Nobody /\ Cast(s, started, voted) = {Vote(s, voted.voted, voted.leader)}
    <3>1. voted.leader \in RunIds /\ voted.voted \in Nat
      BY <1>7, <2>2 DEF Node, Ids
    <3> QED
      BY <1>3, <2>2, <3>1 DEF ElectionInv, StateTyped, VoteType, Vote
  <2> QED
    BY <1>7, <2>1, <2>2
<1>13. \A p \in Peers(s) : started.peer[p].leader # Nobody
         => Vote(p, started.peer[p].epoch, started.peer[p].leader) \in votes'
  BY <1>5, <1>12 DEF ElectionInv, Truthful
<1>14. PeersTruthful(s, final)
  BY <1>7, <1>8, <1>9, <1>13 DEF PeersTruthful
<1>15. LinksSound
  <2>1. CASE ask' = ask
    BY <2>1, LinksUnchanged
  <2>2. CASE ask' = [ask EXCEPT ![s] = [p \in Peers(s) |->
               IF p \in free THEN Request(final.epoch, RunId(s)) ELSE ask[s][p]]]
    <3> DEFINE question == Request(final.epoch, RunId(s))
    <3>1. /\ question \in Link /\ question.type = "request" /\ question.epoch = final.epoch
          /\ final.epoch <= budget.epoch
      BY <1>4, <1>9, <1>10 DEF Request, Link, Sound, Node
    <3> HIDE DEF question
    <3>2. /\ ask = [q \in Sentinels |-> ask[q]]
          /\ \A q \in Sentinels : ask[q] \in [Peers(q) -> Link]
      BY DEF ElectionInv, StateTyped
    <3>3. /\ ask' = [q \in Sentinels |-> ask'[q]]
          /\ \A q \in Sentinels : q # s => ask'[q] = ask[q]
          /\ ask'[s] = [p \in Peers(s) |-> IF p \in free THEN question ELSE ask[s][p]]
      BY <2>2, <3>2 DEF question
    <3>4. \A q \in Sentinels : ask'[q] \in [Peers(q) -> Link]
      BY <3>1, <3>2, <3>3
    <3>5. \A q \in Sentinels : \A p \in Peers(q) : ask'[q][p] = ask[q][p] \/ ask'[q][p] = question
      BY <3>2, <3>3
    <3> QED
      BY <3>1, <3>3, <3>4, <3>5 DEF LinksSound, LinkSound
  <2> QED
    BY <1>3, <2>1, <2>2
<1>16. elected' \subseteq ElectedType /\ ElectedByMajority'
  <2>1. CASE elected' = elected
    BY <1>12, <2>1, ElectionsKept
  <2>2. CASE Wins(s, started, voted) /\ elected' = elected \cup {win}
    <3>1. win \in ElectedType
      BY <1>4, <1>7 DEF ElectedType, Node
    <3>2. /\ win.runid = RunId(s) /\ win.epoch = voted.failoverEpoch /\ win.during = voted.epoch
      OBVIOUS
    <3> HIDE DEF win
    <3>3. elected \subseteq ElectedType
      BY DEF ElectionInv, StateTyped, ElectedType
    <3>4. ASSUME NEW e \in elected, e.during = e.epoch
          PROVE  Cardinality(Voters(e, votes')) >= Majority
      <4>1. Cardinality(Voters(e, votes)) >= Majority /\ votes \in SUBSET VoteType
        BY <3>4 DEF ElectionInv, ElectedByMajority, Voters, StateTyped, VoteType
      <4> QED
        BY <1>12, <4>1, ElectionsStand
    <3>5. ASSUME win.during = win.epoch
          PROVE  Cardinality(Voters(win, votes')) >= Majority
      <4>1. win.epoch = started.epoch /\ started.failoverEpoch = started.epoch
        BY <1>7, <3>2, <3>5
      <4>2. voted.leader # Nobody => Vote(s, voted.voted, voted.leader) \in votes'
        BY <1>3, <1>5, <1>7 DEF ElectionInv, Truthful
      <4>3. PeerVotes(s, started, RunId(s)) + OwnVote(voted, started.epoch, RunId(s))
              <= Cardinality(Voters(win, votes'))
        BY <1>4, <1>5, <1>12, <1>13, <3>2, <4>1, <4>2, CountedVotes
      <4>4. PeerVotes(s, started, RunId(s)) + OwnVote(voted, started.epoch, RunId(s)) >= Majority
        BY <2>2, <4>1 DEF Wins, Enough
      <4>5. PeerVotes(s, started, RunId(s)) \in Nat /\ OwnVote(voted, started.epoch, RunId(s)) \in Nat
        <5>1. IsFiniteSet(Peers(s))
          BY ElectionAssumption, FS_Subset DEF Peers
        <5>2. {p \in Peers(s) : started.peer[p].leader = RunId(s)
                                /\ started.peer[p].epoch = started.epoch} \subseteq Peers(s)
          OBVIOUS
        <5> QED
          BY <5>1, <5>2, FS_Subset, FS_CardinalityType DEF PeerVotes, OwnVote
      <4>6. Cardinality(Voters(win, votes')) \in Nat
        BY <1>12, VotersFinite
      <4> QED
        BY <4>3, <4>4, <4>5, <4>6, MajorityNat
    <3> QED
      BY <2>2, <3>1, <3>3, <3>4, <3>5 DEF ElectedByMajority, Voters
  <2> QED
    BY <1>3, <2>1, <2>2
<1>17. budget' \in BudgetType /\ budget'.epoch = budget.epoch
  <2>1. (IF starts THEN 1 ELSE 0) \in {0, 1} /\ (IF old # {} THEN 1 ELSE 0) \in {0, 1}
    OBVIOUS
  <2> QED
    BY <1>3, <2>1, SpendKeeps
<1> QED
  BY <1>3, <1>9, <1>10, <1>11, <1>14, <1>15, <1>16, <1>17, NodeStep DEF LinksSound

-----------------------------------------------------------------------------
(* The theorems.                                                           *)

LEMMA InitElection == ElectionInit => ElectionInv
<1> SUFFICES ASSUME ElectionInit PROVE ElectionInv
  OBVIOUS
<1>1. \A s \in Sentinels : \A p \in Peers(s) : <<p, 0>> \in RunIds
  BY DEF Peers, RunIds
<1>2. \A s \in Sentinels : \A p \in Peers(s) : UnknownPeer(<<p, 0>>) \in Peer
  BY <1>1 DEF Peer, UnknownPeer, Ids
<1>3. ASSUME NEW s \in Sentinels
      PROVE  /\ sentinel[s] \in Node(s) /\ sentinel[s].epoch = 0 /\ sentinel[s].voted = 0
             /\ sentinel[s].leader = Nobody /\ sentinel[s].failoverEpoch = 0
             /\ \A p \in Peers(s) : sentinel[s].peer[p].leader = Nobody
  <2> DEFINE peer == [p \in Peers(s) |-> UnknownPeer(<<p, 0>>)]
  <2>1. peer \in [Peers(s) -> Peer] /\ \A p \in Peers(s) : peer[p].leader = Nobody
    BY <1>2 DEF UnknownPeer
  <2>2. sentinel[s] = [boots |-> 0, epoch |-> 0, leader |-> Nobody, voted |-> 0,
                       failover |-> "none", forced |-> FALSE, failoverEpoch |-> 0, peer |-> peer]
    BY DEF ElectionInit
  <2> HIDE DEF peer
  <2> QED
    BY <2>1, <2>2, BootedNode
<1>4. budget \in BudgetType /\ budget.epoch \in Nat
  BY ElectionAssumption DEF ElectionInit, BudgetType
<1>5. /\ votes = {} /\ elected = {}
      /\ stored = [s \in Sentinels |-> [epoch |-> 0, voted |-> 0]]
      /\ ask = [s \in Sentinels |-> [p \in Peers(s) |-> NoRequest]]
      /\ sentinel = [s \in Sentinels |-> sentinel[s]]
  BY DEF ElectionInit
<1>6. StateTyped
  BY <1>3, <1>4, <1>5 DEF StateTyped, Link, BudgetType
<1>7. ASSUME NEW s \in Sentinels PROVE InOrder(s) /\ Truthful(s)
  BY <1>3, <1>4, <1>5 DEF InOrder, Truthful, NoRequest
<1>8. AskedInBounds
  BY <1>5 DEF AskedInBounds, NoRequest
<1> QED
  BY <1>5, <1>6, <1>7, <1>8
  DEF ElectionInv, VotesAreOld, OneVotePerEpoch, ElectedByMajority

LEMMA NextElection == ElectionInv /\ [ElectionNext]_electionVars => ElectionInv'
<1> SUFFICES ASSUME ElectionInv, [ElectionNext]_electionVars PROVE ElectionInv'
  OBVIOUS
<1>1. Witnesses \subseteq Sentinels
  BY ElectionAssumption
<1>2. ASSUME NEW s \in Witnesses, Timer(s) PROVE ElectionInv'
  BY <1>1, <1>2, TimerStep
<1>3. ASSUME NEW s \in Witnesses, ForceFailover(s) PROVE ElectionInv'
  BY <1>1, <1>3, ForceFailoverStep
<1>4. ASSUME NEW s \in Sentinels, FailoverElsewhere(s) PROVE ElectionInv'
  BY <1>4, FailoverElsewhereStep
<1>5. ASSUME NEW s \in Sentinels, GiveUp(s) PROVE ElectionInv'
  BY <1>5, GiveUpStep
<1>6. ASSUME NEW s \in Sentinels, ResetMaster(s) PROVE ElectionInv'
  BY <1>6, ResetMasterStep
<1>7. ASSUME NEW s \in Sentinels, Crash(s) PROVE ElectionInv'
  BY <1>7, CrashStep
<1>8. ASSUME NEW s \in Sentinels, NEW p \in Peers(s), Answer(s, p) PROVE ElectionInv'
  BY <1>8, AnswerStep
<1>9. ASSUME NEW s \in Sentinels, NEW p \in Peers(s), Receive(s, p) PROVE ElectionInv'
  BY <1>9, ReceiveStep
<1>10. ASSUME NEW s \in Sentinels, NEW p \in Peers(s), LoseLink(s, p) PROVE ElectionInv'
  BY <1>10, LoseLinkStep
<1>11. ASSUME NEW s \in Sentinels, NEW p \in Peers(s), HearHello(s, p) PROVE ElectionInv'
  BY <1>11, HearHelloStep
<1>12. CASE UNCHANGED electionVars
  <2>1. UNCHANGED <<sentinel, stored, ask, votes, elected, budget>>
    BY <1>12 DEF electionVars
  <2>2. StateTyped'
    BY <2>1 DEF ElectionInv, StateTyped
  <2>3. \A s \in Sentinels : InOrder(s)' /\ Truthful(s)'
    BY <2>1 DEF ElectionInv, InOrder, Truthful
  <2> QED
    BY <2>1, <2>2, <2>3
    DEF ElectionInv, AskedInBounds, VotesAreOld, OneVotePerEpoch, ElectedByMajority
<1> QED
  BY <1>2, <1>3, <1>4, <1>5, <1>6, <1>7, <1>8, <1>9, <1>10, <1>11, <1>12 DEF ElectionNext

(* Every reachable state keeps the inductive invariant: the timers, the    *)
(* requests and replies, hellos, faults and restarts of sentinel.c.        *)
THEOREM ElectionInvariance == ElectionSpec => []ElectionInv
<1> QED
  BY InitElection, NextElection, PTL DEF ElectionSpec

(* A Sentinel votes for one candidate in an epoch, for ever: what          *)
(* sentinelVoteLeader() saves before it tells of a vote.                   *)
THEOREM VotesOncePerEpoch == ElectionSpec => []OneVotePerEpoch
<1>1. ElectionInv => OneVotePerEpoch
  BY DEF ElectionInv
<1> QED
  BY <1>1, ElectionInvariance, PTL

(* A Sentinel that sentinelGetLeader() elects in the current epoch has the *)
(* votes of a majority of the Sentinels in it, whatever was lost, late or  *)
(* restarted.                                                              *)
THEOREM MajorityElects == ElectionSpec => []ElectedByMajority
<1>1. ElectionInv => ElectedByMajority
  BY DEF ElectionInv
<1> QED
  BY <1>1, ElectionInvariance, PTL

(* Epochs in the file never pass those in memory, and a restart keeps the  *)
(* epoch of the last vote: the typing of the election.                     *)
THEOREM ElectionTyped == ElectionSpec => []ElectionTypeOK
<1>1. ASSUME ElectionInv PROVE ElectionTypeOK
  <2> SUFFICES ASSUME NEW s \in Sentinels
               PROVE  LET n == sentinel[s]
                      IN  /\ n.boots \in Nat /\ n.epoch \in 0 .. budget.epoch
                          /\ n.voted \in 0 .. n.epoch /\ n.failoverEpoch \in 0 .. n.epoch
                          /\ n.leader \in RunIds \cup {Nobody}
                          /\ n.failover \in {"none", "wait", "elected"}
                          /\ stored[s].epoch <= n.epoch /\ stored[s].voted = n.voted
                          /\ \A p \in Peers(s) : n.peer[p].leader \in RunIds \cup {Nobody}
    BY DEF ElectionTypeOK
  <2>1. sentinel[s] \in Node(s) /\ InOrder(s) /\ budget.epoch \in Nat
    BY <1>1 DEF ElectionInv, StateTyped
  <2>2. \A p \in Peers(s) : sentinel[s].peer[p] \in Peer
    BY <2>1 DEF Node
  <2> QED
    BY <2>1, <2>2 DEF Node, InOrder, Peer, Ids
<1> QED
  BY <1>1, ElectionInvariance, PTL

(* What the comment of sentinelGetLeader() promises (sentinel.c:3223), for *)
(* the elections won while the epoch was still that of the failover: two   *)
(* of them in one epoch are of one Sentinel.  Two majorities share a voter *)
(* and a voter votes once.                                                 *)
OneLeaderPerCurrentEpoch ==
  \A e, f \in elected :
    e.epoch = f.epoch /\ e.during = e.epoch /\ f.during = f.epoch => e.runid = f.runid

THEOREM LeaderIsUnique == ElectionSpec => []OneLeaderPerCurrentEpoch
<1>1. ASSUME ElectionInv PROVE OneLeaderPerCurrentEpoch
  <2> SUFFICES ASSUME NEW e \in elected, NEW f \in elected, e.epoch = f.epoch,
                      e.during = e.epoch, f.during = f.epoch
               PROVE  e.runid = f.runid
    BY DEF OneLeaderPerCurrentEpoch
  <2> DEFINE V == Voters(e, votes)
             W == Voters(f, votes)
  <2>1. votes \in SUBSET VoteType
    BY <1>1 DEF ElectionInv, StateTyped, VoteType
  <2>2. /\ V \subseteq Sentinels /\ IsFiniteSet(V) /\ Cardinality(V) \in Nat
        /\ W \subseteq Sentinels /\ IsFiniteSet(W) /\ Cardinality(W) \in Nat
    BY <2>1, VotersFinite
  <2>3. Cardinality(V) >= Majority /\ Cardinality(W) >= Majority
    BY <1>1 DEF ElectionInv, ElectedByMajority, Voters
  <2>4. Cardinality(V) + Cardinality(W) > Cardinality(Sentinels)
    <3>1. Cardinality(Sentinels) \in Nat
      BY ElectionAssumption, FS_CardinalityType
    <3> QED
      BY <2>2, <2>3, <3>1 DEF Majority
  <2> HIDE DEF V, W
  <2>5. PICK s \in V : s \in W
    <3>1. V \cap W # {}
      BY <2>2, <2>4, ElectionAssumption, FS_MajoritiesIntersect
    <3> QED
      BY <3>1
  <2>6. PICK v \in votes : v.voter = s /\ v.epoch = e.epoch /\ v.runid = e.runid
    BY <2>5 DEF Voters, V
  <2>7. PICK w \in votes : w.voter = s /\ w.epoch = f.epoch /\ w.runid = f.runid
    BY <2>5 DEF Voters, W
  <2>8. v = w
    BY <1>1, <2>6, <2>7 DEF ElectionInv, OneVotePerEpoch
  <2> QED
    BY <2>6, <2>7, <2>8
<1> QED
  BY <1>1, ElectionInvariance, PTL

-----------------------------------------------------------------------------
(* The failover.                                                           *)
Config(addr, epoch) == [addr |-> addr, epoch |-> epoch]
ViewConfig(v) == Config(CurrentAddress(v), v.epoch)
FileConfig(f) == Config(f.addr, f.epoch)

-----------------------------------------------------------------------------
(* The inductive invariant.                                                *)

States == {"none", "wait", "select", "noone", "promotion", "reconf"}
Marks == {"no", "sent", "inprog", "done"}
(* The states a call of the state machine goes through include "update".   *)
Views ==
  [addr : Instances, epoch : Nat, slaves : SUBSET Instances,
   state : States \cup {"update"}, failoverEpoch : Nat,
   promoted : Instances \cup {NoOne}, reconf : [Instances -> Marks],
   reported : {"master", "slave"}, sdown : BOOLEAN, odown : BOOLEAN,
   agree : SUBSET Watchers]
Files == [addr : Instances, epoch : Nat, slaves : SUBSET Instances]
Configs == [addr : Instances, epoch : Nat]

(* A slave is promoted, and others are reconfigured, in the states for it. *)
Coherent(v) ==
  /\ v.state \in States
  /\ v.promoted # NoOne <=> v.state \in {"noone", "promotion", "reconf"}
  /\ v.state # "reconf" => \A i \in Instances : v.reconf[i] = "no"

(* A failover under way, and one that has not told its slave yet.          *)
InFlight(v) == v.state \in {"wait", "select", "noone", "promotion"}
Unpromoted(v) == v.state \in {"wait", "select", "noone"}

ViewsTyped ==
  /\ view = [s \in Watchers |-> view[s]] /\ saved = [s \in Watchers |-> saved[s]]
  /\ \A s \in Watchers : view[s] \in Views /\ Coherent(view[s]) /\ saved[s] \in Files
  /\ hellos \subseteq Configs
  /\ promotions \subseteq [epoch : Nat, slave : Instances]
  /\ epochs \in Nat

(* The epochs in use were taken by a failover; the one of a failover under *)
(* way is nobody else's, and no configuration has it yet.                  *)
EpochsAreTaken ==
  /\ \A c \in Configurations : c.epoch <= epochs
  /\ \A p \in promotions : p.epoch <= epochs
  /\ \A s \in Watchers : view[s].failoverEpoch <= epochs
OwnEpoch(s) ==
  InFlight(view[s]) =>
    /\ \A c \in Configurations : c.epoch # view[s].failoverEpoch
    /\ \A q \in Watchers \ {s} :
         InFlight(view[q]) => view[q].failoverEpoch # view[s].failoverEpoch
    /\ Unpromoted(view[s]) => \A p \in promotions : p.epoch # view[s].failoverEpoch

(* A restart finds the address that is announced.                          *)
FileAgrees(s) ==
  /\ saved[s].epoch <= view[s].epoch
  /\ saved[s].addr = CurrentAddress(view[s]) \/ view[s].epoch \in disputed

FailoverInv ==
  /\ ViewsTyped
  /\ EpochsAreTaken
  /\ \A s \in Watchers : OwnEpoch(s) /\ FileAgrees(s)
  /\ OneConfigurationPerEpoch /\ OnePromotionPerEpoch

-----------------------------------------------------------------------------
(* What one call does to the master as a Sentinel knows it.                *)

(* The part of a view the invariant is about.                              *)
Same(v, w) ==
  /\ w.addr = v.addr /\ w.epoch = v.epoch /\ w.state = v.state
  /\ w.failoverEpoch = v.failoverEpoch /\ w.promoted = v.promoted /\ w.reconf = v.reconf

LEMMA SameView ==
  ASSUME NEW v \in Views, NEW w \in Views, Same(v, w)
  PROVE  /\ Coherent(v) => Coherent(w)
         /\ ViewConfig(w) = ViewConfig(v) /\ CurrentAddress(w) = CurrentAddress(v)
         /\ InFlight(w) = InFlight(v) /\ Unpromoted(w) = Unpromoted(v)
BY DEF Same, Coherent, ViewConfig, CurrentAddress, InFlight, Unpromoted

LEMMA CurrentAddressType ==
  ASSUME NEW v \in Views, Coherent(v) \/ v.promoted \in Instances
  PROVE  CurrentAddress(v) \in Instances
BY FailoverAssumption DEF CurrentAddress, Coherent, Views, States

LEMMA FreshViewType ==
  ASSUME NEW addr \in Instances, NEW epoch \in Nat, NEW slaves \in SUBSET Instances,
         NEW w, w = FreshView(addr, epoch, slaves)
  PROVE  /\ w \in Views /\ Coherent(w)
         /\ w.addr = addr /\ w.epoch = epoch /\ w.state = "none" /\ w.failoverEpoch = 0
         /\ w.slaves = slaves /\ CurrentAddress(w) = addr
<1>1. w = [addr |-> addr, epoch |-> epoch, slaves |-> slaves,
           state |-> "none", failoverEpoch |-> 0, promoted |-> NoOne,
           reconf |-> [i \in Instances |-> "no"],
           reported |-> "master", sdown |-> FALSE, odown |-> FALSE, agree |-> {}]
  BY DEF FreshView
<1>2. [i \in Instances |-> "no"] \in [Instances -> Marks]
  BY DEF Marks
<1>3. w \in Views
  BY <1>1, <1>2 DEF Views, States
<1>4. /\ w.addr = addr /\ w.epoch = epoch /\ w.state = "none" /\ w.failoverEpoch = 0
      /\ w.slaves = slaves /\ w.promoted = NoOne /\ w.reconf = [i \in Instances |-> "no"]
  BY <1>1
<1> QED
  BY <1>3, <1>4 DEF Coherent, States, CurrentAddress

(* The flags a timer sets on a view.                                       *)
LEMMA ObservedView ==
  ASSUME NEW v \in Views, NEW sdown \in BOOLEAN, NEW w, w = Observed(v, sdown)
  PROVE  w \in Views /\ Same(v, w)
<1> DEFINE odown == sdown /\ 1 + Cardinality(v.agree) >= DownQuorum
<1>1. w = [[v EXCEPT !.sdown = sdown] EXCEPT !.odown = odown] /\ odown \in BOOLEAN
  BY DEF Observed
<1> HIDE DEF odown
<1> QED
  BY <1>1 DEF Views, Same

(* sentinelStartFailover() takes the next epoch.                           *)
LEMMA StartedViewType ==
  ASSUME NEW v \in Views, Coherent(v), v.state = "none", epochs \in Nat,
         NEW w, w = StartedView(v)
  PROVE  /\ w \in Views /\ Coherent(w)
         /\ w.addr = v.addr /\ w.epoch = v.epoch /\ w.state = "wait"
         /\ w.failoverEpoch = epochs + 1 /\ CurrentAddress(w) = CurrentAddress(v)
<1>1. epochs + 1 \in Nat
  OBVIOUS
<1>2. /\ w \in Views /\ w.addr = v.addr /\ w.epoch = v.epoch /\ w.state = "wait"
      /\ w.failoverEpoch = epochs + 1 /\ w.promoted = v.promoted /\ w.reconf = v.reconf
  BY <1>1 DEF StartedView, Views, States
<1> QED
  BY <1>2 DEF Coherent, States, CurrentAddress

(* How a call of the state machine moves: a failover under way goes on or  *)
(* is given up, and the slaves are reconfigured until the end.             *)
Moves(v, w) ==
  /\ w.addr = v.addr /\ w.epoch = v.epoch /\ w.failoverEpoch = v.failoverEpoch
  /\ \/ w.state = v.state /\ w.promoted = v.promoted /\ Coherent(w)
     \/ InFlight(v) /\ w.state = "none" /\ Coherent(w)
     \/ v.state = "wait" /\ w.state = "select" /\ Coherent(w)
     \/ v.state = "select" /\ w.state = "noone" /\ Coherent(w)
     \/ v.state = "noone" /\ w.state = "promotion" /\ w.promoted = v.promoted /\ Coherent(w)
     \/ v.state = "reconf" /\ w.state = "update" /\ w.promoted = v.promoted

LEMMA AbortedMoves ==
  ASSUME NEW v \in Views, Coherent(v), InFlight(v)
  PROVE  AbortedView(v) \in Views /\ Moves(v, AbortedView(v))
<1>1. /\ AbortedView(v) \in Views /\ AbortedView(v).state = "none"
      /\ AbortedView(v).promoted = NoOne
      /\ AbortedView(v).addr = v.addr /\ AbortedView(v).epoch = v.epoch
      /\ AbortedView(v).failoverEpoch = v.failoverEpoch /\ AbortedView(v).reconf = v.reconf
  BY DEF AbortedView, Views, States
<1> QED
  BY <1>1 DEF Coherent, States, Moves, InFlight

LEMMA MarkedView ==
  ASSUME NEW v \in Views, NEW set, NEW mark \in Marks, NEW w, w = Marked(v, set, mark)
  PROVE  /\ w \in Views /\ w.state = v.state /\ w.promoted = v.promoted
         /\ w.addr = v.addr /\ w.epoch = v.epoch /\ w.failoverEpoch = v.failoverEpoch
<1> DEFINE reconf == [i \in Instances |-> IF i \in set THEN mark ELSE v.reconf[i]]
<1>1. reconf \in [Instances -> Marks]
  BY DEF Views
<1>2. w = [v EXCEPT !.reconf = reconf]
  BY DEF Marked
<1> HIDE DEF reconf
<1> QED
  BY <1>1, <1>2 DEF Views

LEMMA DetectEndMoves ==
  ASSUME NEW v \in Views, Coherent(v), v.state = "reconf", NEW out, NEW late \in BOOLEAN,
         NEW w \in Views, w.state = v.state, w.promoted = v.promoted, w.addr = v.addr,
         w.epoch = v.epoch, w.failoverEpoch = v.failoverEpoch,
         NEW r, r = DetectEnd(w, out, late)
  PROVE  r.view \in Views /\ Moves(v, r.view)
<1>1. Coherent(w)
  BY DEF Coherent
<1>2. r.view = w \/ r.view = Goto(w, "update")
  BY DEF DetectEnd, Result
<1>3. CASE r.view = w
  BY <1>1, <1>3 DEF Moves
<1>4. CASE r.view = Goto(w, "update")
  <2>1. /\ r.view \in Views /\ r.view.state = "update" /\ r.view.promoted = w.promoted
        /\ r.view.addr = w.addr /\ r.view.epoch = w.epoch
        /\ r.view.failoverEpoch = w.failoverEpoch
    BY <1>4 DEF Goto, Views
  <2> QED
    BY <2>1 DEF Moves
<1> QED
  BY <1>2, <1>3, <1>4

LEMMA ReconfMoves ==
  ASSUME NEW v \in Views, Coherent(v), v.state = "reconf", NEW out, NEW late \in BOOLEAN,
         NEW r \in ReconfNextSlave(v, out, late)
  PROVE  r.view \in Views /\ Moves(v, r.view)
<1>0. PICK told \in SUBSET Untold(v) :
        \E done : r = DetectEnd(Marked(Marked(v, told, "sent"), done, "done"),
                               Ordered(out, told, v.promoted), late)
  BY DEF ReconfNextSlave
<1>1. PICK done : r = DetectEnd(Marked(Marked(v, told, "sent"), done, "done"),
                               Ordered(out, told, v.promoted), late)
  BY <1>0
<1> DEFINE w == Marked(Marked(v, told, "sent"), done, "done")
<1>2. /\ Marked(v, told, "sent") \in Views
      /\ Marked(v, told, "sent").state = v.state
      /\ Marked(v, told, "sent").promoted = v.promoted
      /\ Marked(v, told, "sent").addr = v.addr
      /\ Marked(v, told, "sent").epoch = v.epoch
      /\ Marked(v, told, "sent").failoverEpoch = v.failoverEpoch
  BY MarkedView DEF Marks
<1>3. /\ w \in Views /\ w.state = v.state /\ w.promoted = v.promoted
      /\ w.addr = v.addr /\ w.epoch = v.epoch /\ w.failoverEpoch = v.failoverEpoch
  BY <1>2, MarkedView DEF Marks
<1>4. r = DetectEnd(w, Ordered(out, told, v.promoted), late)
  BY <1>1
<1> HIDE DEF w
<1> QED
  BY <1>3, <1>4, DetectEndMoves

(* A call of the state machine, in each of its states.                     *)
LEMMA MachineMoves ==
  ASSUME NEW v \in Views, Coherent(v), NEW out, NEW late \in BOOLEAN,
         NEW r \in StateMachine(v, out, late)
  PROVE  r.view \in Views /\ Moves(v, r.view)
<1>0. Moves(v, v)
  BY DEF Moves
<1>1. CASE v.state = "none"
  <2>1. r = Result(v, out)
    BY <1>1 DEF StateMachine
  <2> QED
    BY <1>0, <2>1 DEF Result
<1>2. CASE v.state = "wait"
  <2>1. r \in WaitStart(v, out, late)
    BY <1>2 DEF StateMachine
  <2>2. r.view = Goto(v, "select") \/ r.view = AbortedView(v) \/ r.view = v
    BY <2>1 DEF WaitStart, Result
  <2>3. Goto(v, "select") \in Views /\ Moves(v, Goto(v, "select"))
    <3>1. /\ Goto(v, "select") \in Views /\ Goto(v, "select").state = "select"
          /\ Goto(v, "select").promoted = v.promoted /\ Goto(v, "select").addr = v.addr
          /\ Goto(v, "select").epoch = v.epoch /\ Goto(v, "select").reconf = v.reconf
          /\ Goto(v, "select").failoverEpoch = v.failoverEpoch
      BY DEF Goto, Views, States
    <3> QED
      BY <1>2, <3>1 DEF Moves, Coherent, States
  <2> QED
    BY <1>0, <1>2, <2>2, <2>3, AbortedMoves DEF InFlight
<1>3. CASE v.state = "select"
  <2>1. r \in SelectSlave(v, out)
    BY <1>3 DEF StateMachine
  <2>2. \/ r.view = AbortedView(v)
        \/ \E i \in Best(v) : r.view = [Goto(v, "noone") EXCEPT !.promoted = i]
    BY <2>1 DEF SelectSlave, Result
  <2>3. ASSUME NEW i \in Best(v), r.view = [Goto(v, "noone") EXCEPT !.promoted = i]
        PROVE  r.view \in Views /\ Moves(v, r.view)
    <3>1. i \in Instances
      BY DEF Best, Selectable, Views
    <3>2. r.view = [v EXCEPT !.state = "noone", !.promoted = i]
      BY <2>3 DEF Goto
    <3>3. /\ r.view \in Views /\ r.view.state = "noone" /\ r.view.promoted = i
          /\ r.view.addr = v.addr /\ r.view.epoch = v.epoch /\ r.view.reconf = v.reconf
          /\ r.view.failoverEpoch = v.failoverEpoch
      BY <3>1, <3>2 DEF Views, States
    <3>4. i # NoOne
      BY <3>1, FailoverAssumption
    <3> QED
      BY <1>3, <3>3, <3>4 DEF Moves, Coherent, States
  <2> QED
    BY <1>3, <2>2, <2>3, AbortedMoves DEF InFlight
<1>4. CASE v.state = "noone"
  <2>1. r \in SendSlaveOfNoOne(v, out, late)
    BY <1>4 DEF StateMachine
  <2>2. r.view = Goto(v, "promotion") \/ r.view = AbortedView(v) \/ r.view = v
    BY <2>1 DEF SendSlaveOfNoOne, Result
  <2>3. Goto(v, "promotion") \in Views /\ Moves(v, Goto(v, "promotion"))
    <3>1. /\ Goto(v, "promotion") \in Views /\ Goto(v, "promotion").state = "promotion"
          /\ Goto(v, "promotion").promoted = v.promoted /\ Goto(v, "promotion").addr = v.addr
          /\ Goto(v, "promotion").epoch = v.epoch /\ Goto(v, "promotion").reconf = v.reconf
          /\ Goto(v, "promotion").failoverEpoch = v.failoverEpoch
      BY DEF Goto, Views, States
    <3> QED
      BY <1>4, <3>1 DEF Moves, Coherent, States
  <2> QED
    BY <1>0, <1>4, <2>2, <2>3, AbortedMoves DEF InFlight
<1>5. CASE v.state = "promotion"
  <2>1. r \in WaitPromotion(v, out, late)
    BY <1>5 DEF StateMachine
  <2>2. r.view = AbortedView(v) \/ r.view = v
    BY <2>1 DEF WaitPromotion, Result
  <2> QED
    BY <1>0, <1>5, <2>2, AbortedMoves DEF InFlight
<1>6. CASE v.state = "reconf"
  <2>1. r \in ReconfNextSlave(v, out, late)
    BY <1>6 DEF StateMachine
  <2> QED
    BY <1>6, <2>1, ReconfMoves
<1> QED
  BY <1>1, <1>2, <1>3, <1>4, <1>5, <1>6 DEF Coherent, States

(* sentinelFailoverSwitchToPromotedSlave(): what is announced stays.       *)
LEMMA SwitchedView ==
  ASSUME NEW v \in Views, Coherent(v), NEW r \in Views, Moves(v, r),
         NEW w, w = Switched(r)
  PROVE  /\ w \in Views /\ Coherent(w) /\ ViewConfig(w) = ViewConfig(v)
         /\ CurrentAddress(w) = CurrentAddress(v) /\ w.epoch = v.epoch
         /\ InFlight(w) => InFlight(v) /\ w.failoverEpoch = v.failoverEpoch
         /\ Unpromoted(w) => Unpromoted(v)
         /\ w.failoverEpoch \in {0, v.failoverEpoch}
         /\ r.state # "update" => w = r
<1>1. CASE r.state = "update"
  <2>1. v.state = "reconf" /\ r.promoted = v.promoted /\ r.epoch = v.epoch
    BY <1>1 DEF Moves, Coherent, States
  <2>2. r.promoted \in Instances
    BY <2>1 DEF Coherent, Views
  <2>3. w = FreshView(r.promoted, r.epoch, (r.slaves \cup {r.addr}) \ {r.promoted})
    BY <1>1 DEF Switched, ChangedAddress
  <2>4. r.epoch \in Nat /\ (r.slaves \cup {r.addr}) \ {r.promoted} \in SUBSET Instances
    BY DEF Views
  <2>5. /\ w \in Views /\ Coherent(w) /\ w.addr = r.promoted /\ w.epoch = r.epoch
        /\ w.state = "none" /\ w.failoverEpoch = 0 /\ CurrentAddress(w) = r.promoted
    BY <2>2, <2>3, <2>4, FreshViewType
  <2>6. CurrentAddress(v) = v.promoted
    BY <2>1 DEF CurrentAddress
  <2> QED
    BY <1>1, <2>1, <2>5, <2>6 DEF ViewConfig, InFlight, Unpromoted
<1>2. CASE r.state # "update"
  <2>1. w = r
    BY <1>2 DEF Switched
  <2>2. Coherent(r) /\ r.epoch = v.epoch /\ r.failoverEpoch = v.failoverEpoch /\ r.addr = v.addr
    BY <1>2 DEF Moves
  <2>3. CurrentAddress(r) = CurrentAddress(v)
    BY <1>2 DEF Moves, CurrentAddress, InFlight
  <2>4. (InFlight(r) => InFlight(v)) /\ (Unpromoted(r) => Unpromoted(v))
    BY <1>2 DEF Moves, InFlight, Unpromoted
  <2> QED
    BY <1>2, <2>1, <2>2, <2>3, <2>4 DEF ViewConfig
<1> QED
  BY <1>1, <1>2

-----------------------------------------------------------------------------
(* What a step of one Sentinel does to the invariant.                      *)

(* A configuration nobody has to wonder about: one that exists already, or *)
(* one that misrepresents an epoch that does.                              *)
Known(c) ==
  \/ c \in Configurations
  \/ c \in Configs /\ c.epoch \in disputed' /\ \E d \in Configurations : d.epoch = c.epoch

(* The epoch of a failover: that of the one under way, or a new one.       *)
KeepsEpoch(v, w) == InFlight(v) /\ w.failoverEpoch = v.failoverEpoch
TakesEpoch(w) == epochs' = epochs + 1 /\ w.failoverEpoch = epochs'
Promotion(epoch, slave) == [epoch |-> epoch, slave |-> slave]

LEMMA ConfigurationsOf ==
  ASSUME ViewsTyped
  PROVE  /\ \A s \in Watchers : /\ ViewConfig(view[s]) \in Configurations
                                /\ FileConfig(saved[s]) \in Configurations
         /\ hellos \subseteq Configurations /\ Configurations \subseteq Configs
         /\ \A c \in Configurations :
              \/ c \in hellos
              \/ \E s \in Watchers : c = ViewConfig(view[s]) \/ c = FileConfig(saved[s])
<1>1. \A c : c \in Configurations <=>
        \/ c \in hellos
        \/ \E s \in Watchers : c = ViewConfig(view[s])
        \/ \E s \in Watchers : c = FileConfig(saved[s])
  BY DEF Configurations, ViewConfig, FileConfig, Config
<1>2. \A s \in Watchers : CurrentAddress(view[s]) \in Instances
  BY CurrentAddressType DEF ViewsTyped
<1>3. \A s \in Watchers : ViewConfig(view[s]) \in Configs /\ FileConfig(saved[s]) \in Configs
  BY <1>2 DEF ViewsTyped, ViewConfig, FileConfig, Config, Configs, Views, Files
<1> QED
  BY <1>1, <1>3 DEF ViewsTyped

(* What a configuration of the next state can be, when one Sentinel moves. *)
LEMMA NextConfigurations ==
  ASSUME ViewsTyped, NEW s \in Watchers, NEW w, NEW f,
         view' = [view EXCEPT ![s] = w], saved' = [saved EXCEPT ![s] = f],
         NEW c \in Configurations'
  PROVE  c \in hellos' \/ c = ViewConfig(w) \/ c = FileConfig(f) \/ c \in Configurations
<1>1. \A q \in Watchers : /\ view'[q] = IF q = s THEN w ELSE view[q]
                          /\ saved'[q] = IF q = s THEN f ELSE saved[q]
  BY DEF ViewsTyped
<1>2. \/ c \in hellos'
      \/ \E q \in Watchers : c = Config(CurrentAddress(view'[q]), view'[q].epoch)
      \/ \E q \in Watchers : c = Config(saved'[q].addr, saved'[q].epoch)
  BY DEF Configurations, Config, CurrentAddress
<1>3. ASSUME NEW q \in Watchers, c = Config(CurrentAddress(view'[q]), view'[q].epoch)
      PROVE  c = ViewConfig(w) \/ c \in Configurations
  <2>1. CASE q = s
    BY <1>1, <1>3, <2>1 DEF ViewConfig
  <2>2. CASE q # s
    BY <1>1, <1>3, <2>2, ConfigurationsOf DEF ViewConfig
  <2> QED
    BY <2>1, <2>2
<1>4. ASSUME NEW q \in Watchers, c = Config(saved'[q].addr, saved'[q].epoch)
      PROVE  c = FileConfig(f) \/ c \in Configurations
  <2>1. CASE q = s
    BY <1>1, <1>4, <2>1 DEF FileConfig
  <2>2. CASE q # s
    BY <1>1, <1>4, <2>2, ConfigurationsOf DEF FileConfig
  <2> QED
    BY <2>1, <2>2
<1> QED
  BY <1>2, <1>3, <1>4

(* Known configurations are no threat to those that exist.                 *)
LEMMA KnownAreUnique ==
  ASSUME FailoverInv, disputed \subseteq disputed',
         \A c \in Configurations' : Known(c)
  PROVE  /\ OneConfigurationPerEpoch'
         /\ \A c \in Configurations' : \E d \in Configurations : d.epoch = c.epoch
<1>1. ASSUME NEW c \in Configurations', NEW d \in Configurations', c.epoch = d.epoch
      PROVE  c = d \/ c.epoch \in disputed'
  BY <1>1 DEF Known, FailoverInv, OneConfigurationPerEpoch
<1> QED
  BY <1>1 DEF OneConfigurationPerEpoch, Known

(* Epochs are unique after a step of one Sentinel that announces nothing   *)
(* but known configurations, and takes a new epoch for a new failover.     *)
LEMMA ViewStep ==
  ASSUME FailoverInv, NEW s \in Watchers, NEW w \in Views, NEW f \in Files, Coherent(w),
         view' = [view EXCEPT ![s] = w], saved' = [saved EXCEPT ![s] = f],
         hellos' \subseteq hellos \cup {ViewConfig(view[s])},
         epochs' \in {epochs, epochs + 1}, disputed \subseteq disputed',
         Known(ViewConfig(w)), Known(FileConfig(f)),
         f.epoch <= w.epoch, f.addr = CurrentAddress(w) \/ w.epoch \in disputed',
         w.failoverEpoch <= epochs',
         InFlight(w) => KeepsEpoch(view[s], w) \/ TakesEpoch(w),
         \/ /\ promotions' = promotions
            /\ Unpromoted(w) => Unpromoted(view[s]) \/ TakesEpoch(w)
         \/ /\ Unpromoted(view[s]) /\ ~Unpromoted(w)
            /\ \E i \in Instances :
                 promotions' = promotions \cup {Promotion(view[s].failoverEpoch, i)}
  PROVE  FailoverInv'
<1> USE DEF FailoverInv
<1>1. /\ view'[s] = w /\ saved'[s] = f
      /\ \A q \in Watchers : q # s => view'[q] = view[q] /\ saved'[q] = saved[q]
  BY DEF ViewsTyped
<1>2. /\ epochs \in Nat /\ epochs' \in Nat /\ epochs' >= epochs
      /\ \A q \in Watchers : view[q].failoverEpoch \in Nat /\ view[q].epoch \in Nat
      /\ w.failoverEpoch \in Nat
  BY DEF ViewsTyped, Views
<1>3. hellos' \subseteq Configurations
  BY ConfigurationsOf
<1>4. \A c \in Configurations' : Known(c)
  BY <1>3, NextConfigurations DEF Known
<1>5. /\ OneConfigurationPerEpoch'
      /\ \A c \in Configurations' : \E d \in Configurations : d.epoch = c.epoch
  BY <1>4, KnownAreUnique
<1>6. Configurations' \subseteq Configs /\ Configurations \subseteq Configs
  BY <1>4, ConfigurationsOf DEF Known
<1>7. ViewsTyped'
  <2>1. view' = [q \in Watchers |-> view'[q]] /\ saved' = [q \in Watchers |-> saved'[q]]
    BY DEF ViewsTyped
  <2>2. \A q \in Watchers : view'[q] \in Views /\ Coherent(view'[q]) /\ saved'[q] \in Files
    BY <1>1 DEF ViewsTyped
  <2>3. hellos' \subseteq Configs
    BY <1>3, <1>6
  <2>4. promotions' \subseteq [epoch : Nat, slave : Instances]
    BY <1>2 DEF ViewsTyped, Promotion
  <2> QED
    BY <1>2, <2>1, <2>2, <2>3, <2>4 DEF ViewsTyped, Coherent
<1>8. EpochsAreTaken'
  <2>1. ASSUME NEW c \in Configurations' PROVE c.epoch <= epochs'
    <3>1. PICK d \in Configurations : d.epoch = c.epoch
      BY <1>5
    <3>2. d.epoch <= epochs /\ d.epoch \in Nat
      BY <1>6 DEF EpochsAreTaken, Configs
    <3> QED
      BY <1>2, <3>1, <3>2
  <2>2. ASSUME NEW p \in promotions' PROVE p.epoch <= epochs'
    <3>1. CASE p \in promotions
      <4>1. p.epoch <= epochs /\ p.epoch \in Nat
        BY <3>1 DEF EpochsAreTaken, ViewsTyped
      <4> QED
        BY <1>2, <4>1
    <3>2. CASE p \notin promotions
      <4>1. p.epoch = view[s].failoverEpoch
        BY <3>2 DEF Promotion
      <4>2. view[s].failoverEpoch <= epochs
        BY DEF EpochsAreTaken
      <4> QED
        BY <1>2, <4>1, <4>2
    <3> QED
      BY <3>1, <3>2
  <2>3. ASSUME NEW q \in Watchers PROVE view'[q].failoverEpoch <= epochs'
    <3>1. view[q].failoverEpoch <= epochs
      BY DEF EpochsAreTaken
    <3> QED
      BY <1>1, <1>2, <3>1
  <2> QED
    BY <2>1, <2>2, <2>3 DEF EpochsAreTaken
<1>9. ASSUME NEW q \in Watchers, InFlight(view'[q])
      PROVE  /\ \A c \in Configurations' : c.epoch # view'[q].failoverEpoch
             /\ \A r \in Watchers \ {q} :
                  InFlight(view'[r]) => view'[r].failoverEpoch # view'[q].failoverEpoch
             /\ Unpromoted(view'[q]) => \A p \in promotions' : p.epoch # view'[q].failoverEpoch
  <2>1. /\ \A c \in Configurations : c.epoch <= epochs /\ c.epoch \in Nat
        /\ \A p \in promotions : p.epoch <= epochs /\ p.epoch \in Nat
        /\ \A r \in Watchers : view[r].failoverEpoch <= epochs
    BY <1>6 DEF EpochsAreTaken, ViewsTyped, Configs
  <2>2. \A r \in Watchers : r # s => OwnEpoch(r)
    OBVIOUS
  <2>3. CASE q = s /\ TakesEpoch(w)
    <3>1. view'[q].failoverEpoch = epochs + 1
      BY <1>1, <2>3 DEF TakesEpoch
    <3>2. \A c \in Configurations' : c.epoch # epochs + 1
      BY <1>2, <1>5, <2>1
    <3>3. \A r \in Watchers \ {q} : view'[r].failoverEpoch # epochs + 1
      BY <1>1, <1>2, <2>1, <2>3
    <3>4. \A p \in promotions' : p.epoch # epochs + 1
      BY <1>2, <2>1 DEF Promotion
    <3> QED
      BY <3>1, <3>2, <3>3, <3>4
  <2>4. CASE q = s /\ KeepsEpoch(view[s], w) /\ ~TakesEpoch(w)
    <3>1. view'[q].failoverEpoch = view[s].failoverEpoch /\ InFlight(view[s]) /\ OwnEpoch(s)
      BY <1>1, <2>4 DEF KeepsEpoch
    <3>2. \A c \in Configurations' : c.epoch # view[s].failoverEpoch
      BY <1>5, <3>1 DEF OwnEpoch
    <3>3. \A r \in Watchers \ {q} :
            InFlight(view'[r]) => view'[r].failoverEpoch # view[s].failoverEpoch
      BY <1>1, <2>4, <3>1 DEF OwnEpoch
    <3>4. Unpromoted(view'[q]) => \A p \in promotions' : p.epoch # view[s].failoverEpoch
      BY <1>1, <2>4, <3>1 DEF OwnEpoch
    <3> QED
      BY <3>1, <3>2, <3>3, <3>4
  <2>5. CASE q # s
    <3>1. view'[q] = view[q] /\ OwnEpoch(q) /\ InFlight(view[q])
      BY <1>1, <1>9, <2>5
    <3>2. \A c \in Configurations' : c.epoch # view[q].failoverEpoch
      BY <1>5, <3>1 DEF OwnEpoch
    <3>3. \A r \in Watchers \ {q} :
            InFlight(view'[r]) => view'[r].failoverEpoch # view[q].failoverEpoch
      <4> SUFFICES ASSUME NEW r \in Watchers \ {q}, InFlight(view'[r])
                   PROVE  view'[r].failoverEpoch # view[q].failoverEpoch
        OBVIOUS
      <4>1. CASE r # s
        BY <1>1, <3>1, <4>1 DEF OwnEpoch
      <4>2. CASE r = s /\ TakesEpoch(w)
        BY <1>1, <1>2, <2>1, <4>2 DEF TakesEpoch
      <4>3. CASE r = s /\ KeepsEpoch(view[s], w)
        BY <1>1, <3>1, <4>3 DEF KeepsEpoch, OwnEpoch
      <4> QED
        BY <1>1, <4>1, <4>2, <4>3
    <3>4. Unpromoted(view[q]) => \A p \in promotions' : p.epoch # view[q].failoverEpoch
      <4> SUFFICES ASSUME Unpromoted(view[q]), NEW p \in promotions'
                   PROVE  p.epoch # view[q].failoverEpoch
        OBVIOUS
      <4>1. CASE p \in promotions
        BY <3>1, <4>1 DEF OwnEpoch
      <4>2. CASE p \notin promotions
        <5>1. p.epoch = view[s].failoverEpoch /\ InFlight(view[s])
          BY <4>2 DEF Promotion, Unpromoted, InFlight
        <5> QED
          BY <2>5, <3>1, <5>1 DEF OwnEpoch
      <4> QED
        BY <4>1, <4>2
    <3> QED
      BY <3>1, <3>2, <3>3, <3>4
  <2> QED
    BY <1>1, <1>9, <2>3, <2>4, <2>5
<1>10. \A q \in Watchers : OwnEpoch(q)'
  BY <1>9 DEF OwnEpoch, InFlight, Unpromoted
<1>11. ASSUME NEW q \in Watchers PROVE FileAgrees(q)'
  <2>1. CASE q = s
    BY <1>1, <2>1 DEF FileAgrees, CurrentAddress
  <2>2. CASE q # s
    BY <1>1, <2>2 DEF FileAgrees, CurrentAddress
  <2> QED
    BY <2>1, <2>2
<1>12. OnePromotionPerEpoch'
  <2>1. CASE promotions' = promotions
    BY <2>1 DEF OnePromotionPerEpoch
  <2>2. CASE Unpromoted(view[s]) /\ \E i \in Instances :
                 promotions' = promotions \cup {Promotion(view[s].failoverEpoch, i)}
    <3>1. PICK i \in Instances : promotions' = promotions \cup {Promotion(view[s].failoverEpoch, i)}
      BY <2>2
    <3>2. \A p \in promotions : p.epoch # view[s].failoverEpoch
      BY <2>2 DEF OwnEpoch, InFlight, Unpromoted
    <3>3. Promotion(view[s].failoverEpoch, i).epoch = view[s].failoverEpoch
      BY DEF Promotion
    <3> QED
      BY <3>1, <3>2, <3>3 DEF OnePromotionPerEpoch
  <2> QED
    BY <2>1, <2>2
<1> QED
  BY <1>5, <1>7, <1>8, <1>10, <1>11, <1>12

-----------------------------------------------------------------------------
(* The actions.                                                            *)

(* What a step finds of the Sentinel it is a step of.                      *)
LEMMA ViewFacts ==
  ASSUME FailoverInv, NEW s \in Watchers
  PROVE  /\ view[s] \in Views /\ Coherent(view[s]) /\ saved[s] \in Files
         /\ Known(ViewConfig(view[s])) /\ Known(FileConfig(saved[s]))
         /\ saved[s].epoch <= view[s].epoch
         /\ saved[s].addr = CurrentAddress(view[s]) \/ view[s].epoch \in disputed
         /\ view[s].failoverEpoch <= epochs /\ epochs \in Nat
         /\ view = [view EXCEPT ![s] = view[s]] /\ saved = [saved EXCEPT ![s] = saved[s]]
<1>1. ViewsTyped
  BY DEF FailoverInv
<1>2. FileAgrees(s) /\ view[s].failoverEpoch <= epochs
  BY DEF FailoverInv, EpochsAreTaken
<1>3. Known(ViewConfig(view[s])) /\ Known(FileConfig(saved[s]))
  BY <1>1, ConfigurationsOf DEF Known
<1>4. view = [view EXCEPT ![s] = view[s]] /\ saved = [saved EXCEPT ![s] = saved[s]]
  BY <1>1 DEF ViewsTyped
<1> QED
  BY <1>1, <1>2, <1>3, <1>4 DEF FileAgrees, ViewsTyped

(* The file of a view is about the same configuration.                     *)
LEMMA FileOfView ==
  ASSUME NEW v \in Views, Coherent(v), NEW f, f = FileOf(v)
  PROVE  /\ f \in Files /\ f.epoch = v.epoch /\ f.addr = CurrentAddress(v)
         /\ FileConfig(f) = ViewConfig(v)
<1>1. CurrentAddress(v) \in Instances
  BY CurrentAddressType
<1> QED
  BY <1>1 DEF FileOf, Files, Views, FileConfig, ViewConfig, Config

(* An INFO reply or an opinion that changes nothing the invariant is about. *)
LEMMA SameStep ==
  ASSUME FailoverInv, NEW s \in Watchers, NEW w \in Views, Coherent(w),
         w.addr = view[s].addr, w.epoch = view[s].epoch, w.state = view[s].state,
         w.failoverEpoch = view[s].failoverEpoch, w.promoted = view[s].promoted,
         view' = [view EXCEPT ![s] = w],
         UNCHANGED <<saved, hellos, epochs, promotions, disputed>>
  PROVE  FailoverInv'
<1>1. /\ CurrentAddress(w) = CurrentAddress(view[s]) /\ ViewConfig(w) = ViewConfig(view[s])
      /\ InFlight(w) = InFlight(view[s]) /\ Unpromoted(w) = Unpromoted(view[s])
  BY DEF CurrentAddress, ViewConfig, InFlight, Unpromoted
<1>2. InFlight(w) => KeepsEpoch(view[s], w)
  BY <1>1 DEF KeepsEpoch
<1> QED
  BY <1>1, <1>2, ViewFacts, ViewStep

LEMMA LearnOpinionStep ==
  ASSUME FailoverInv, NEW s \in Watchers, NEW p \in Watchers, LearnOpinion(s, p)
  PROVE  FailoverInv'
<1>1. PICK agree \in SUBSET Watchers : view' = [view EXCEPT ![s].agree = agree]
  <2>1. view[s].agree \in SUBSET Watchers
    BY ViewFacts DEF Views
  <2>2. \/ view' = [view EXCEPT ![s].agree = view[s].agree \cup {p}]
        \/ view' = [view EXCEPT ![s].agree = view[s].agree \ {p}]
    BY DEF LearnOpinion
  <2>3. view[s].agree \cup {p} \in SUBSET Watchers /\ view[s].agree \ {p} \in SUBSET Watchers
    BY <2>1
  <2> QED
    BY <2>2, <2>3
<1> DEFINE w == [view[s] EXCEPT !.agree = agree]
<1>2. view' = [view EXCEPT ![s] = w]
  BY <1>1
<1>3. /\ w \in Views /\ w.addr = view[s].addr /\ w.epoch = view[s].epoch
      /\ w.state = view[s].state /\ w.failoverEpoch = view[s].failoverEpoch
      /\ w.promoted = view[s].promoted /\ w.reconf = view[s].reconf
  BY <1>1, ViewFacts DEF Views
<1> HIDE DEF w
<1>4. Coherent(w)
  BY <1>3, ViewFacts DEF Coherent
<1>5. UNCHANGED <<saved, hellos, epochs, promotions, disputed>>
  BY DEF LearnOpinion
<1> QED
  BY <1>2, <1>3, <1>4, <1>5, SameStep

LEMMA InfoMasterStep ==
  ASSUME FailoverInv, NEW s \in Watchers, InfoMaster(s)
  PROVE  FailoverInv'
<1> DEFINE v == view[s]
           attached == {i \in Instances : Reachable(i) /\ redis[i].master = v.addr} \ {v.addr}
           role == IF IsMaster(v.addr) THEN "master" ELSE "slave"
           w == [v EXCEPT !.reported = role, !.slaves = v.slaves \cup attached]
<1>1. view' = [view EXCEPT ![s] = w] /\ UNCHANGED <<saved, hellos, epochs, promotions, disputed>>
  BY DEF InfoMaster
<1>2. role \in {"master", "slave"} /\ v \in Views /\ v.slaves \cup attached \in SUBSET Instances
  BY ViewFacts DEF Views
<1> HIDE DEF role, attached
<1>3. /\ w \in Views /\ w.addr = view[s].addr /\ w.epoch = view[s].epoch
      /\ w.state = view[s].state /\ w.failoverEpoch = view[s].failoverEpoch
      /\ w.promoted = view[s].promoted /\ w.reconf = view[s].reconf
  BY <1>2 DEF Views
<1> HIDE DEF w
<1>4. Coherent(w)
  BY <1>3, ViewFacts DEF Coherent
<1> QED
  BY <1>1, <1>3, <1>4, SameStep

LEMMA InfoReconfiguredStep ==
  ASSUME FailoverInv, NEW s \in Watchers, NEW i \in Instances, InfoReconfigured(s, i)
  PROVE  FailoverInv'
<1>1. PICK mark \in {"inprog", "done"} : view' = [view EXCEPT ![s] = Marked(view[s], {i}, mark)]
  BY DEF InfoReconfigured
<1> DEFINE w == Marked(view[s], {i}, mark)
<1>2. /\ w \in Views /\ w.state = view[s].state /\ w.promoted = view[s].promoted
      /\ w.addr = view[s].addr /\ w.epoch = view[s].epoch
      /\ w.failoverEpoch = view[s].failoverEpoch
  BY ViewFacts, MarkedView DEF Marks
<1>3. view[s].state = "reconf"
  <2>1. view[s].reconf[i] # "no"
    BY DEF InfoReconfigured
  <2> QED
    BY <2>1, ViewFacts DEF Coherent
<1> HIDE DEF w
<1>4. Coherent(w)
  BY <1>2, <1>3, ViewFacts DEF Coherent
<1>5. UNCHANGED <<saved, hellos, epochs, promotions, disputed>>
  BY DEF InfoReconfigured
<1> QED
  BY <1>1, <1>2, <1>4, <1>5, SameStep DEF w

(* A newer configuration, with the address monitored or another one.       *)
LEMMA HearConfigurationStep ==
  ASSUME FailoverInv, NEW s \in Watchers, HearConfiguration(s)
  PROVE  FailoverInv'
<1> DEFINE v == view[s]
<1>1. PICK h \in hellos :
    LET newer == [v EXCEPT !.epoch = h.epoch]
        w == IF h.addr # v.addr THEN ChangedAddress(newer, h.addr) ELSE newer
    IN  /\ v.epoch < h.epoch
        /\ view' = [view EXCEPT ![s] = w]
        /\ saved' = [saved EXCEPT ![s] = IF h.addr # v.addr THEN FileOf(w) ELSE @]
        /\ disputed' = IF {CurrentAddress(w), saved'[s].addr} # {h.addr}
                       THEN disputed \cup {h.epoch} ELSE disputed
        /\ UNCHANGED <<redis, orders, hellos, epochs, promotions, limit>>
  BY DEF HearConfiguration
<1> DEFINE newer == [v EXCEPT !.epoch = h.epoch]
           w == IF h.addr # v.addr THEN ChangedAddress(newer, h.addr) ELSE newer
           f == IF h.addr # v.addr THEN FileOf(w) ELSE saved[s]
<1>2. /\ v \in Views /\ Coherent(v) /\ saved[s] \in Files /\ Known(FileConfig(saved[s]))
      /\ saved[s].epoch <= v.epoch /\ v.failoverEpoch <= epochs /\ epochs \in Nat
      /\ h \in Configs /\ h \in Configurations /\ ViewsTyped
  BY ViewFacts, ConfigurationsOf DEF FailoverInv, ViewsTyped
<1>3. /\ v.epoch < h.epoch /\ view' = [view EXCEPT ![s] = w] /\ saved' = [saved EXCEPT ![s] = f]
      /\ disputed' = IF {CurrentAddress(w), saved'[s].addr} # {h.addr}
                     THEN disputed \cup {h.epoch} ELSE disputed
      /\ UNCHANGED <<hellos, epochs, promotions>>
  BY <1>1
<1>4. saved'[s] = f
  BY <1>2, <1>3 DEF ViewsTyped
<1>5. /\ newer \in Views /\ newer.epoch = h.epoch /\ newer.addr = v.addr
      /\ newer.state = v.state /\ newer.failoverEpoch = v.failoverEpoch
      /\ newer.promoted = v.promoted /\ newer.reconf = v.reconf /\ newer.slaves = v.slaves
  BY <1>2 DEF Views, Configs
<1>6. h = Config(h.addr, h.epoch) /\ h.addr \in Instances /\ h.epoch \in Nat
  BY <1>2 DEF Configs, Config
<1> HIDE DEF newer
<1>7. CASE h.addr # v.addr
  <2>1. w = FreshView(h.addr, newer.epoch, (newer.slaves \cup {newer.addr}) \ {h.addr})
    BY <1>7 DEF ChangedAddress
  <2>2. (newer.slaves \cup {newer.addr}) \ {h.addr} \in SUBSET Instances /\ newer.epoch \in Nat
    BY <1>5 DEF Views
  <2>3. /\ w \in Views /\ Coherent(w) /\ w.epoch = h.epoch /\ w.state = "none"
        /\ w.failoverEpoch = 0 /\ CurrentAddress(w) = h.addr
    BY <1>5, <1>6, <2>1, <2>2, FreshViewType
  <2> HIDE DEF w
  <2>4. f = FileOf(w)
    BY <1>7
  <2> HIDE DEF f
  <2>5. f \in Files /\ f.epoch = w.epoch /\ f.addr = CurrentAddress(w) /\ FileConfig(f) = ViewConfig(w)
    BY <2>3, <2>4, FileOfView
  <2>6. ViewConfig(w) = h
    BY <1>6, <2>3 DEF ViewConfig
  <2>7. Known(ViewConfig(w)) /\ Known(FileConfig(f))
    BY <1>2, <2>5, <2>6 DEF Known
  <2>8. ~InFlight(w) /\ ~Unpromoted(w) /\ w.failoverEpoch <= epochs' /\ f.epoch <= w.epoch
    BY <1>2, <1>3, <1>6, <2>3, <2>5 DEF InFlight, Unpromoted
  <2>9. disputed \subseteq disputed'
    BY <1>3
  <2> QED
    BY <1>2, <1>3, <2>3, <2>5, <2>7, <2>8, <2>9, ViewStep
<1>8. CASE h.addr = v.addr
  <2>1. w = newer /\ f = saved[s]
    BY <1>8
  <2> HIDE DEF w, f
  <2>2. Coherent(w) /\ CurrentAddress(w) = CurrentAddress(v)
    BY <1>2, <1>5, <2>1 DEF Coherent, CurrentAddress
  <2>3. disputed \subseteq disputed' /\ (CurrentAddress(w) # h.addr => h.epoch \in disputed')
        /\ (f.addr # h.addr => h.epoch \in disputed')
    BY <1>3, <1>4
  <2>4. CurrentAddress(w) \in Instances
    BY <1>5, <2>1, <2>2, CurrentAddressType
  <2>5. ViewConfig(w) \in Configs /\ ViewConfig(w).epoch = h.epoch
    BY <1>5, <1>6, <2>1, <2>4 DEF ViewConfig, Config, Configs
  <2>6. Known(ViewConfig(w))
    <3>1. CASE CurrentAddress(w) = h.addr
      <4>1. ViewConfig(w) = h
        BY <1>5, <1>6, <2>1, <3>1 DEF ViewConfig
      <4> QED
        BY <1>2, <4>1 DEF Known
    <3>2. CASE CurrentAddress(w) # h.addr
      BY <1>2, <2>3, <2>5, <3>2 DEF Known
    <3> QED
      BY <3>1, <3>2
  <2>7. f.epoch <= w.epoch /\ (f.addr = CurrentAddress(w) \/ w.epoch \in disputed')
    BY <1>2, <1>3, <1>5, <1>6, <2>1, <2>3 DEF Views, Files
  <2>8. InFlight(w) => KeepsEpoch(v, w)
    BY <1>5, <2>1 DEF InFlight, KeepsEpoch
  <2>9. Unpromoted(w) = Unpromoted(v) /\ w.failoverEpoch <= epochs' /\ w \in Views
    BY <1>2, <1>3, <1>5, <2>1 DEF Unpromoted
  <2>10. Known(FileConfig(f)) /\ f \in Files
    BY <1>2, <2>1
  <2> QED
    BY <1>3, <2>2, <2>3, <2>6, <2>7, <2>8, <2>9, <2>10, ViewStep
<1> QED
  BY <1>7, <1>8

(* A failover that was asked for.                                          *)
LEMMA ForcedFailoverStep ==
  ASSUME FailoverInv, NEW s \in Watchers, ForcedFailover(s)
  PROVE  FailoverInv'
<1> DEFINE v == view[s]
           w == StartedView(v)
<1>1. /\ view' = [view EXCEPT ![s] = w] /\ epochs' = epochs + 1 /\ v.state = "none"
      /\ UNCHANGED <<saved, hellos, promotions, disputed>>
  BY DEF ForcedFailover, FailingOver
<1>2. v \in Views /\ Coherent(v) /\ epochs \in Nat
  BY ViewFacts
<1>3. /\ w \in Views /\ Coherent(w) /\ w.addr = v.addr /\ w.epoch = v.epoch /\ w.state = "wait"
      /\ w.failoverEpoch = epochs + 1 /\ CurrentAddress(w) = CurrentAddress(v)
  BY <1>1, <1>2, StartedViewType
<1> HIDE DEF w
<1>4. ViewConfig(w) = ViewConfig(v) /\ TakesEpoch(w)
  BY <1>1, <1>3 DEF ViewConfig, TakesEpoch
<1>5. w.failoverEpoch <= epochs' /\ disputed \subseteq disputed'
  BY <1>1, <1>2, <1>3
<1>6. /\ saved[s] \in Files /\ Known(ViewConfig(w)) /\ Known(FileConfig(saved[s]))
      /\ saved[s].epoch <= w.epoch
      /\ saved[s].addr = CurrentAddress(w) \/ w.epoch \in disputed'
      /\ saved' = [saved EXCEPT ![s] = saved[s]]
  BY <1>1, <1>3, <1>4, ViewFacts
<1> QED
  BY <1>1, <1>3, <1>4, <1>5, <1>6, ViewStep

(* SENTINEL RESET, in the middle of a failover or not.                     *)
LEMMA ResetCommandStep ==
  ASSUME FailoverInv, NEW s \in Watchers, ResetCommand(s)
  PROVE  FailoverInv'
<1> DEFINE v == view[s]
           w == FreshView(v.addr, v.epoch, {})
<1>1. /\ view' = [view EXCEPT ![s] = w]
      /\ disputed' = IF v.state = "reconf" THEN disputed \cup {v.epoch} ELSE disputed
      /\ UNCHANGED <<saved, hellos, epochs, promotions>>
  BY DEF ResetCommand
<1>2. v \in Views /\ Coherent(v) /\ epochs \in Nat /\ ViewsTyped
  BY ViewFacts DEF FailoverInv
<1>3. /\ w \in Views /\ Coherent(w) /\ w.addr = v.addr /\ w.epoch = v.epoch /\ w.state = "none"
      /\ w.failoverEpoch = 0 /\ CurrentAddress(w) = v.addr
  <2>1. v.addr \in Instances /\ v.epoch \in Nat /\ {} \in SUBSET Instances
    BY <1>2 DEF Views
  <2> QED
    BY <2>1, FreshViewType
<1> HIDE DEF w
<1>4. v.state # "reconf" => CurrentAddress(v) = v.addr
  BY DEF CurrentAddress
<1>5. Known(ViewConfig(w))
  <2>1. CASE v.state = "reconf"
    <3>1. ViewConfig(w) = Config(v.addr, v.epoch) /\ v.epoch \in disputed'
      BY <1>1, <1>3, <2>1 DEF ViewConfig
    <3>2. Config(v.addr, v.epoch) \in Configs /\ Config(v.addr, v.epoch).epoch = v.epoch
      BY <1>2 DEF Config, Configs, Views
    <3>3. ViewConfig(v) \in Configurations /\ ViewConfig(v).epoch = v.epoch
      BY <1>2, ConfigurationsOf DEF ViewConfig, Config
    <3> QED
      BY <3>1, <3>2, <3>3 DEF Known
  <2>2. CASE v.state # "reconf"
    BY <1>3, <1>4, <2>2, ViewFacts DEF ViewConfig
  <2> QED
    BY <2>1, <2>2
<1>6. /\ saved[s] \in Files /\ Known(FileConfig(saved[s])) /\ saved[s].epoch <= w.epoch
      /\ saved[s].addr = CurrentAddress(w) \/ w.epoch \in disputed'
      /\ saved' = [saved EXCEPT ![s] = saved[s]]
  BY <1>1, <1>3, <1>4, ViewFacts
<1>7. ~InFlight(w) /\ ~Unpromoted(w) /\ w.failoverEpoch <= epochs' /\ disputed \subseteq disputed'
  BY <1>1, <1>2, <1>3 DEF InFlight, Unpromoted
<1> QED
  BY <1>1, <1>3, <1>5, <1>6, <1>7, ViewStep

(* The file written for another reason.                                    *)
LEMMA SaveConfigurationStep ==
  ASSUME FailoverInv, NEW s \in Watchers, SaveConfiguration(s)
  PROVE  FailoverInv'
<1> DEFINE v == view[s]
           f == FileOf(v)
<1>1. saved' = [saved EXCEPT ![s] = f] /\ UNCHANGED <<view, hellos, epochs, promotions, disputed>>
  BY DEF SaveConfiguration
<1>2. v \in Views /\ Coherent(v) /\ v.epoch \in Nat
  BY ViewFacts DEF Views
<1>3. f \in Files /\ f.epoch = v.epoch /\ f.addr = CurrentAddress(v) /\ FileConfig(f) = ViewConfig(v)
  BY <1>2, FileOfView
<1> HIDE DEF f
<1>4. /\ Known(ViewConfig(v)) /\ Known(FileConfig(f)) /\ v.failoverEpoch <= epochs'
      /\ f.epoch <= v.epoch
      /\ view' = [view EXCEPT ![s] = v] /\ disputed \subseteq disputed'
  BY <1>1, <1>2, <1>3, ViewFacts
<1>5. InFlight(v) => KeepsEpoch(v, v)
  BY DEF KeepsEpoch
<1> QED
  BY <1>1, <1>2, <1>3, <1>4, <1>5, ViewStep

(* A restart: what the file says is known.                                 *)
LEMMA CrashSentinelStep ==
  ASSUME FailoverInv, NEW s \in Watchers, CrashSentinel(s)
  PROVE  FailoverInv'
<1> DEFINE f == saved[s]
           w == FreshView(f.addr, f.epoch, f.slaves)
<1>1. view' = [view EXCEPT ![s] = w] /\ UNCHANGED <<saved, hellos, epochs, promotions, disputed>>
  BY DEF CrashSentinel
<1>2. f \in Files /\ Known(FileConfig(f)) /\ saved' = [saved EXCEPT ![s] = f] /\ epochs \in Nat
  BY <1>1, ViewFacts
<1>3. /\ w \in Views /\ Coherent(w) /\ w.addr = f.addr /\ w.epoch = f.epoch /\ w.state = "none"
      /\ w.failoverEpoch = 0 /\ CurrentAddress(w) = f.addr
  BY <1>2, FreshViewType DEF Files
<1> HIDE DEF w
<1>4. ViewConfig(w) = FileConfig(f)
  BY <1>3 DEF ViewConfig, FileConfig
<1>5. /\ ~InFlight(w) /\ ~Unpromoted(w) /\ w.failoverEpoch <= epochs' /\ disputed \subseteq disputed'
      /\ f.epoch <= w.epoch
  BY <1>1, <1>2, <1>3 DEF InFlight, Unpromoted, Files
<1> QED
  BY <1>1, <1>2, <1>3, <1>4, <1>5, ViewStep

(* The promotion is known: the configuration that exists from now on has   *)
(* an epoch no other has.                                                  *)
LEMMA InfoPromotedStep ==
  ASSUME FailoverInv, NEW s \in Watchers, InfoPromoted(s)
  PROVE  FailoverInv'
<1> DEFINE v == view[s]
           w == [Goto(v, "reconf") EXCEPT !.epoch = v.failoverEpoch]
           f == FileOf(w)
           new == ViewConfig(w)
<1>1. /\ v.state = "promotion" /\ view' = [view EXCEPT ![s] = w]
      /\ saved' = [saved EXCEPT ![s] = f]
      /\ UNCHANGED <<hellos, epochs, promotions, disputed>>
  BY DEF InfoPromoted
<1>2. /\ v \in Views /\ Coherent(v) /\ v.failoverEpoch <= epochs /\ epochs \in Nat
      /\ ViewsTyped /\ OwnEpoch(s) /\ InFlight(v)
  BY <1>1, ViewFacts DEF FailoverInv, InFlight
<1>3. /\ w \in Views /\ w.addr = v.addr /\ w.state = "reconf" /\ w.epoch = v.failoverEpoch
      /\ w.failoverEpoch = v.failoverEpoch /\ w.promoted = v.promoted /\ w.reconf = v.reconf
  BY <1>2 DEF Goto, Views, States
<1> HIDE DEF w
<1>4. Coherent(w)
  BY <1>1, <1>2, <1>3 DEF Coherent, States
<1>5. f \in Files /\ f.epoch = w.epoch /\ f.addr = CurrentAddress(w) /\ FileConfig(f) = new
  BY <1>3, <1>4, FileOfView
<1>6. new.epoch = v.failoverEpoch /\ new \in Configs
  <2>1. CurrentAddress(w) \in Instances
    BY <1>3, <1>4, CurrentAddressType
  <2> QED
    BY <1>3, <2>1 DEF ViewConfig, Config, Configs, Views
<1> HIDE DEF f, new
<1>7. \A c \in Configurations : c.epoch # new.epoch
  BY <1>2, <1>6 DEF OwnEpoch
<1>8. \A c \in Configurations' : c \in Configurations \/ c = new
  BY <1>1, <1>2, <1>5, NextConfigurations, ConfigurationsOf DEF new
<1>9. /\ view'[s] = w /\ saved'[s] = f
      /\ \A q \in Watchers : q # s => view'[q] = view[q] /\ saved'[q] = saved[q]
  BY <1>1, <1>2 DEF ViewsTyped
<1>10. ViewsTyped'
  <2>1. view' = [q \in Watchers |-> view'[q]] /\ saved' = [q \in Watchers |-> saved'[q]]
    BY <1>1, <1>2 DEF ViewsTyped
  <2>2. \A q \in Watchers : view'[q] \in Views /\ Coherent(view'[q]) /\ saved'[q] \in Files
    BY <1>2, <1>3, <1>4, <1>5, <1>9 DEF ViewsTyped
  <2> QED
    BY <1>1, <1>2, <2>1, <2>2 DEF ViewsTyped, Coherent
<1>11. EpochsAreTaken'
  <2>1. EpochsAreTaken
    BY DEF FailoverInv
  <2>2. \A c \in Configurations' : c.epoch <= epochs'
    BY <1>1, <1>2, <1>6, <1>8, <2>1 DEF EpochsAreTaken
  <2>3. \A q \in Watchers : view'[q].failoverEpoch <= epochs'
    BY <1>1, <1>2, <1>3, <1>9, <2>1 DEF EpochsAreTaken
  <2> QED
    BY <1>1, <2>1, <2>2, <2>3 DEF EpochsAreTaken
<1>12. ASSUME NEW q \in Watchers, InFlight(view'[q])
       PROVE  /\ \A c \in Configurations' : c.epoch # view'[q].failoverEpoch
              /\ \A r \in Watchers \ {q} :
                   InFlight(view'[r]) => view'[r].failoverEpoch # view'[q].failoverEpoch
              /\ Unpromoted(view'[q]) => \A p \in promotions' : p.epoch # view'[q].failoverEpoch
  <2>1. ~InFlight(view'[s])
    BY <1>3, <1>9 DEF InFlight
  <2>2. q # s /\ view'[q] = view[q] /\ OwnEpoch(q) /\ InFlight(view[q])
    BY <1>9, <1>12, <2>1 DEF FailoverInv
  <2>3. new.epoch # view[q].failoverEpoch
    BY <1>2, <1>6, <2>2 DEF OwnEpoch
  <2>4. \A c \in Configurations' : c.epoch # view[q].failoverEpoch
    BY <1>8, <2>2, <2>3 DEF OwnEpoch
  <2>5. \A r \in Watchers \ {q} : InFlight(view'[r]) => view'[r].failoverEpoch # view[q].failoverEpoch
    BY <1>9, <2>1, <2>2 DEF OwnEpoch
  <2>6. Unpromoted(view[q]) => \A p \in promotions' : p.epoch # view[q].failoverEpoch
    BY <1>1, <2>2 DEF OwnEpoch
  <2> QED
    BY <2>2, <2>4, <2>5, <2>6
<1>13. \A q \in Watchers : OwnEpoch(q)'
  BY <1>12 DEF OwnEpoch, InFlight, Unpromoted
<1>14. ASSUME NEW q \in Watchers PROVE FileAgrees(q)'
  <2>1. CASE q = s
    <3>1. w.epoch \in Nat
      BY <1>3 DEF Views
    <3> QED
      BY <1>5, <1>9, <2>1, <3>1 DEF FileAgrees, CurrentAddress
  <2>2. CASE q # s
    BY <1>1, <1>9, <2>2 DEF FileAgrees, CurrentAddress, FailoverInv
  <2> QED
    BY <2>1, <2>2
<1>15. OneConfigurationPerEpoch'
  <2>1. OneConfigurationPerEpoch
    BY DEF FailoverInv
  <2> QED
    BY <1>1, <1>7, <1>8, <2>1 DEF OneConfigurationPerEpoch
<1>16. OnePromotionPerEpoch'
  BY <1>1 DEF FailoverInv, OnePromotionPerEpoch
<1> QED
  BY <1>10, <1>11, <1>13, <1>14, <1>15, <1>16 DEF FailoverInv

(* The master as the state machine finds it: the flags are set, and a      *)
(* failover may have been started.                                         *)
LEMMA ReadyView ==
  ASSUME FailoverInv, NEW s \in Watchers, NEW sdown \in BOOLEAN, NEW starts \in BOOLEAN,
         NEW late, NEW r, TimerCalls(s, sdown, starts, late, r),
         NEW ready, ready = Ready(view[s], sdown, starts)
  PROVE  /\ ready \in Views /\ Coherent(ready) /\ ready.epoch = view[s].epoch
         /\ ViewConfig(ready) = ViewConfig(view[s])
         /\ CurrentAddress(ready) = CurrentAddress(view[s])
         /\ \/ starts /\ ready.state = "wait" /\ ready.failoverEpoch = epochs + 1
            \/ ~starts /\ ready.state = view[s].state /\ ready.failoverEpoch = view[s].failoverEpoch
<1> DEFINE v == view[s]
           seen == Observed(v, sdown)
<1>0. starts => v.state = "none"
  BY DEF TimerCalls, FailingOver
<1>1. v \in Views /\ Coherent(v) /\ epochs \in Nat
  BY ViewFacts
<1>2. seen \in Views /\ Same(v, seen)
  BY <1>1, ObservedView
<1>3. Coherent(seen) /\ CurrentAddress(seen) = CurrentAddress(v) /\ ViewConfig(seen) = ViewConfig(v)
  BY <1>1, <1>2, SameView
<1>4. CASE starts
  <2>1. ready = StartedView(seen) /\ seen.state = "none" /\ seen.epoch = v.epoch
    BY <1>0, <1>2, <1>4 DEF Ready, Same
  <2> HIDE DEF seen
  <2>2. /\ ready \in Views /\ Coherent(ready) /\ ready.epoch = seen.epoch /\ ready.state = "wait"
        /\ ready.failoverEpoch = epochs + 1 /\ CurrentAddress(ready) = CurrentAddress(seen)
    BY <1>1, <1>2, <1>3, <2>1, StartedViewType
  <2> QED
    BY <1>3, <1>4, <2>1, <2>2 DEF ViewConfig
<1>5. CASE ~starts
  <2>1. ready = seen
    BY <1>5 DEF Ready
  <2> QED
    BY <1>1, <1>2, <1>3, <1>5, <2>1 DEF Same
<1> QED
  BY <1>4, <1>5

(* The timer: a failover may start, the machine takes one step, and the    *)
(* promoted slave becomes the master at the end.                           *)
LEMMA FailoverTimerStep ==
  ASSUME FailoverInv, NEW s \in Watchers, FailoverTimer(s)
  PROVE  FailoverInv'
<1> DEFINE v == view[s]
<1>1. PICK sdown \in BOOLEAN, starts \in BOOLEAN, late \in BOOLEAN :
        \E r \in StateMachine(Ready(v, sdown, starts), orders[s], late) :
          TimerCalls(s, sdown, starts, late, r)
  BY DEF FailoverTimer
<1> DEFINE ready == Ready(v, sdown, starts)
<1>2. PICK r \in StateMachine(ready, orders[s], late) : TimerCalls(s, sdown, starts, late, r)
  BY <1>1
<1> DEFINE final == Switched(r.view)
           f == IF final # r.view THEN FileOf(final) ELSE saved[s]
<1>3. /\ starts => v.state = "none"
      /\ view' = [view EXCEPT ![s] = final]
      /\ saved' = [saved EXCEPT ![s] = f]
      /\ IF r.view.state = "promotion" /\ ready.state = "noone"
         THEN promotions' = promotions \cup {Promotion(ready.failoverEpoch, ready.promoted)}
         ELSE promotions' = promotions
      /\ hellos' = hellos \cup Published(v)
      /\ epochs' = IF starts THEN epochs + 1 ELSE epochs
      /\ disputed' = disputed
  BY <1>2 DEF TimerCalls, FailingOver, Promotion
<1>4. /\ v \in Views /\ Coherent(v) /\ saved[s] \in Files /\ epochs \in Nat
      /\ Known(ViewConfig(v)) /\ Known(FileConfig(saved[s])) /\ v.failoverEpoch <= epochs
      /\ saved[s].epoch <= v.epoch
      /\ saved[s].addr = CurrentAddress(v) \/ v.epoch \in disputed
  BY ViewFacts
<1> HIDE DEF ready
<1>5. /\ ready \in Views /\ Coherent(ready) /\ ready.epoch = v.epoch
      /\ ViewConfig(ready) = ViewConfig(v) /\ CurrentAddress(ready) = CurrentAddress(v)
      /\ \/ starts /\ ready.state = "wait" /\ ready.failoverEpoch = epochs + 1
         \/ ~starts /\ ready.state = v.state /\ ready.failoverEpoch = v.failoverEpoch
  BY <1>2, ReadyView DEF ready
<1>6. r.view \in Views /\ Moves(ready, r.view)
  BY <1>2, <1>5, MachineMoves
<1> HIDE DEF final
<1>7. /\ final \in Views /\ Coherent(final) /\ ViewConfig(final) = ViewConfig(ready)
      /\ CurrentAddress(final) = CurrentAddress(ready) /\ final.epoch = ready.epoch
      /\ InFlight(final) => InFlight(ready) /\ final.failoverEpoch = ready.failoverEpoch
      /\ Unpromoted(final) => Unpromoted(ready)
      /\ final.failoverEpoch \in {0, ready.failoverEpoch}
      /\ r.view.state # "update" => final = r.view
  BY <1>5, <1>6, SwitchedView DEF final
<1>8. /\ f \in Files /\ f.epoch <= final.epoch /\ Known(FileConfig(f))
      /\ f.addr = CurrentAddress(final) \/ final.epoch \in disputed'
  <2>1. CASE f = saved[s]
    BY <1>3, <1>4, <1>5, <1>7, <2>1
  <2>2. CASE f = FileOf(final)
    <3>1. /\ f \in Files /\ f.epoch = final.epoch /\ f.addr = CurrentAddress(final)
          /\ FileConfig(f) = ViewConfig(final)
      BY <1>7, <2>2, FileOfView
    <3> QED
      BY <1>4, <1>5, <1>7, <3>1 DEF Views
  <2> QED
    BY <2>1, <2>2
<1> HIDE DEF f
<1>9. Known(ViewConfig(final)) /\ disputed \subseteq disputed' /\ epochs' \in {epochs, epochs + 1}
  BY <1>3, <1>4, <1>5, <1>7
<1>10. hellos' \subseteq hellos \cup {ViewConfig(v)}
  BY <1>3 DEF Published, ViewConfig, Config
<1>11. final.failoverEpoch <= epochs'
  BY <1>3, <1>4, <1>5, <1>7 DEF Views
<1>12. starts => TakesEpoch(final) \/ ~InFlight(final)
  BY <1>3, <1>5, <1>7 DEF TakesEpoch
<1>13. ~starts => (InFlight(ready) = InFlight(v) /\ Unpromoted(ready) = Unpromoted(v))
  BY <1>5 DEF InFlight, Unpromoted
<1>14. InFlight(final) => KeepsEpoch(v, final) \/ TakesEpoch(final)
  BY <1>5, <1>7, <1>12, <1>13 DEF KeepsEpoch
<1>15. Unpromoted(final) => Unpromoted(v) \/ TakesEpoch(final)
  <2>1. Unpromoted(final) => InFlight(final)
    BY DEF Unpromoted, InFlight
  <2> QED
    BY <1>7, <1>12, <1>13, <2>1
<1>16. \/ /\ promotions' = promotions
          /\ Unpromoted(final) => Unpromoted(v) \/ TakesEpoch(final)
       \/ /\ Unpromoted(v) /\ ~Unpromoted(final)
          /\ \E i \in Instances : promotions' = promotions \cup {Promotion(v.failoverEpoch, i)}
  <2>1. CASE r.view.state = "promotion" /\ ready.state = "noone"
    <3>1. ~starts /\ ready.failoverEpoch = v.failoverEpoch /\ v.state = "noone"
      BY <1>5, <2>1
    <3>2. ready.promoted \in Instances
      BY <1>5, <2>1 DEF Coherent, Views
    <3>3. promotions' = promotions \cup {Promotion(v.failoverEpoch, ready.promoted)}
      BY <1>3, <2>1, <3>1
    <3>4. Unpromoted(v) /\ ~Unpromoted(final)
      BY <1>7, <2>1, <3>1 DEF Unpromoted
    <3> QED
      BY <3>2, <3>3, <3>4
  <2>2. CASE ~(r.view.state = "promotion" /\ ready.state = "noone")
    BY <1>3, <1>15, <2>2
  <2> QED
    BY <2>1, <2>2
<1> QED
  BY <1>3, <1>7, <1>8, <1>9, <1>10, <1>11, <1>14, <1>16, ViewStep

-----------------------------------------------------------------------------
(* The invariant, and what it implies.                                     *)

LEMMA InitFailover ==
  ASSUME FailoverInit
  PROVE  FailoverInv
<1> DEFINE first == FreshView(FirstMaster, 0, Instances \ {FirstMaster})
<1>1. FirstMaster \in Instances /\ 0 \in Nat /\ Instances \ {FirstMaster} \in SUBSET Instances
  BY FailoverAssumption
<1>2. /\ first \in Views /\ Coherent(first) /\ first.epoch = 0 /\ first.state = "none"
      /\ first.failoverEpoch = 0 /\ CurrentAddress(first) = FirstMaster
  BY <1>1, FreshViewType
<1>3. /\ view = [s \in Watchers |-> first] /\ saved = [s \in Watchers |-> FileOf(view[s])]
      /\ hellos = {} /\ epochs = 0 /\ promotions = {}
  BY DEF FailoverInit
<1> HIDE DEF first
<1>4. /\ FileOf(first) \in Files /\ FileOf(first).epoch = 0 /\ FileOf(first).addr = FirstMaster
      /\ FileConfig(FileOf(first)) = Config(FirstMaster, 0) /\ ViewConfig(first) = Config(FirstMaster, 0)
  BY <1>2, FileOfView DEF ViewConfig
<1>5. \A s \in Watchers : view[s] = first /\ saved[s] = FileOf(first)
  BY <1>3
<1>6. ViewsTyped
  <2>1. view = [s \in Watchers |-> view[s]] /\ saved = [s \in Watchers |-> saved[s]]
    BY <1>3
  <2> QED
    BY <1>2, <1>3, <1>4, <1>5, <2>1 DEF ViewsTyped, Coherent
<1>7. \A c \in Configurations : c = Config(FirstMaster, 0)
  BY <1>2, <1>3, <1>4, <1>5 DEF Configurations, Config
<1>8. Config(FirstMaster, 0).epoch = 0
  BY DEF Config
<1>9. EpochsAreTaken
  BY <1>2, <1>3, <1>5, <1>7, <1>8 DEF EpochsAreTaken
<1>10. \A s \in Watchers : OwnEpoch(s) /\ FileAgrees(s)
  BY <1>2, <1>4, <1>5 DEF OwnEpoch, InFlight, FileAgrees
<1>11. OneConfigurationPerEpoch /\ OnePromotionPerEpoch
  BY <1>3, <1>7 DEF OneConfigurationPerEpoch, OnePromotionPerEpoch
<1> QED
  BY <1>6, <1>9, <1>10, <1>11 DEF FailoverInv

(* What the servers do, and what is ordered, is not the invariant's matter. *)
LEMMA UnchangedFailover ==
  ASSUME FailoverInv, UNCHANGED <<view, saved, hellos, epochs, promotions, disputed>>
  PROVE  FailoverInv'
BY DEF FailoverInv, ViewsTyped, Coherent, EpochsAreTaken, OwnEpoch, InFlight, Unpromoted,
       FileAgrees, CurrentAddress, OneConfigurationPerEpoch, OnePromotionPerEpoch, Configurations

LEMMA NextFailover ==
  ASSUME FailoverInv, [FailoverNext]_failoverVars
  PROVE  FailoverInv'
<1>1. CASE UNCHANGED failoverVars
  BY <1>1, UnchangedFailover DEF failoverVars
<1>2. ASSUME NEW s \in Watchers,
             \/ FailoverTimer(s) \/ InfoMaster(s) \/ InfoPromoted(s) \/ HearConfiguration(s)
             \/ ForcedFailover(s) \/ ResetCommand(s) \/ SaveConfiguration(s) \/ CrashSentinel(s)
      PROVE  FailoverInv'
  BY <1>2, FailoverTimerStep, InfoMasterStep, InfoPromotedStep, HearConfigurationStep,
     ForcedFailoverStep, ResetCommandStep, SaveConfigurationStep, CrashSentinelStep
<1>3. ASSUME NEW s \in Watchers, NEW p \in Watchers \ {s}, LearnOpinion(s, p)
      PROVE  FailoverInv'
  BY <1>3, LearnOpinionStep
<1>4. ASSUME NEW s \in Watchers, NEW i \in Instances, InfoReconfigured(s, i)
      PROVE  FailoverInv'
  BY <1>4, InfoReconfiguredStep
<1>5. ASSUME NEW s \in Watchers, NEW i \in Instances, InfoMisplaced(s, i) \/ Obey(s, i)
      PROVE  FailoverInv'
  BY <1>5, UnchangedFailover DEF InfoMisplaced, Obey
<1>6. ASSUME NEW i \in Instances, Outage(i) \/ ComeBack(i)
      PROVE  FailoverInv'
  BY <1>6, UnchangedFailover DEF Outage, ComeBack
<1> QED
  BY <1>1, <1>2, <1>3, <1>4, <1>5, <1>6 DEF FailoverNext

(* The invariant holds in every reachable state.                           *)
THEOREM FailoverInvariance == FailoverSpec => []FailoverInv
<1>1. FailoverInit => FailoverInv
  BY InitFailover
<1>2. FailoverInv /\ [FailoverNext]_failoverVars => FailoverInv'
  BY NextFailover
<1> QED
  BY <1>1, <1>2, PTL DEF FailoverSpec

(* An epoch has one configuration, in the memory, the files and the hellos *)
(* of all Sentinels, and promotes one slave, whatever fails or restarts    *)
(* (sentinelStartFailover(), sentinelRefreshInstanceInfo(),                *)
(* sentinelProcessHelloMessage(), sentinelFlushConfig()).                  *)
THEOREM EpochsStayUnique == FailoverSpec => []EpochsAreUnique
<1>1. FailoverInv => EpochsAreUnique
  BY DEF FailoverInv, EpochsAreUnique
<1> QED
  BY <1>1, FailoverInvariance, PTL

(* The states of the failover machine and what is known of the promoted    *)
(* slave agree, whatever aborts a failover (sentinelAbortFailover(),       *)
(* sentinelFailoverStateMachine()).                                        *)
THEOREM FailoverTyped == FailoverSpec => []FailoverTypeOK
<1>1. FailoverInv => FailoverTypeOK
  <2> SUFFICES ASSUME FailoverInv, NEW s \in Watchers
               PROVE  /\ view[s].addr \in Instances /\ view[s].slaves \subseteq Instances
                      /\ view[s].state \in States
                      /\ view[s].promoted # NoOne <=> view[s].state \in {"noone", "promotion", "reconf"}
                      /\ view[s].epoch <= epochs /\ view[s].failoverEpoch <= epochs
                      /\ saved[s].epoch <= view[s].epoch
                      /\ Syncing(view[s]) # {} => view[s].state = "reconf"
    BY DEF FailoverTypeOK, States
  <2>1. view[s] \in Views /\ Coherent(view[s])
    BY ViewFacts
  <2>2. view[s].epoch <= epochs /\ view[s].failoverEpoch <= epochs
    <3>1. ViewConfig(view[s]) \in Configurations /\ ViewConfig(view[s]).epoch = view[s].epoch
      BY ConfigurationsOf DEF FailoverInv, ViewConfig, Config
    <3> QED
      BY <3>1 DEF FailoverInv, EpochsAreTaken
  <2>3. saved[s].epoch <= view[s].epoch
    BY DEF FailoverInv, FileAgrees
  <2>4. Syncing(view[s]) # {} => view[s].state = "reconf"
    BY <2>1 DEF Syncing, Coherent, Views
  <2> QED
    BY <2>1, <2>2, <2>3, <2>4 DEF Coherent, Views
<1> QED
  BY <1>1, FailoverInvariance, PTL

-----------------------------------------------------------------------------
(* The address a Sentinel announces, from one step to the next.            *)

AddressStep(s) ==
  CurrentAddress(view'[s]) # CurrentAddress(view[s]) =>
    \/ view[s].epoch < view'[s].epoch
    \/ OwnFailover(s)
    \/ {view[s].epoch, view'[s].epoch} \cap disputed' # {}

LEMMA KeptAddress ==
  ASSUME FailoverInv, NEW s \in Watchers, NEW q \in Watchers, NEW w \in Views,
         CurrentAddress(w) = CurrentAddress(view[s]), view' = [view EXCEPT ![s] = w]
  PROVE  AddressStep(q)
<1>1. view'[q] = view[q] \/ (q = s /\ view'[q] = w)
  BY DEF FailoverInv, ViewsTyped
<1> QED
  BY <1>1 DEF AddressStep

LEMMA SameAddress ==
  ASSUME NEW v, NEW w, w.addr = v.addr, w.state = v.state, w.promoted = v.promoted
  PROVE  CurrentAddress(w) = CurrentAddress(v)
BY DEF CurrentAddress

(* A call of the timer announces the same address before and after.        *)
LEMMA TimerAddress ==
  ASSUME FailoverInv, NEW s \in Watchers, FailoverTimer(s)
  PROVE  \E w \in Views : /\ CurrentAddress(w) = CurrentAddress(view[s])
                          /\ view' = [view EXCEPT ![s] = w]
<1> DEFINE v == view[s]
<1>1. PICK sdown \in BOOLEAN, starts \in BOOLEAN, late \in BOOLEAN :
        \E r \in StateMachine(Ready(v, sdown, starts), orders[s], late) :
          TimerCalls(s, sdown, starts, late, r)
  BY DEF FailoverTimer
<1>2. PICK r \in StateMachine(Ready(v, sdown, starts), orders[s], late) :
        TimerCalls(s, sdown, starts, late, r)
  BY <1>1
<1> DEFINE final == Switched(r.view)
           ready == Ready(v, sdown, starts)
<1>3. view' = [view EXCEPT ![s] = final]
  BY <1>2 DEF TimerCalls
<1>4. /\ ready \in Views /\ Coherent(ready)
      /\ CurrentAddress(ready) = CurrentAddress(v)
  BY <1>2, ReadyView
<1>5. r.view \in Views /\ Moves(ready, r.view)
  BY <1>2, <1>4, MachineMoves
<1>6. final \in Views /\ CurrentAddress(final) = CurrentAddress(ready)
  BY <1>4, <1>5, SwitchedView
<1> QED
  BY <1>3, <1>4, <1>6

LEMMA OtherAddresses ==
  ASSUME FailoverInv, NEW s \in Watchers, NEW q \in Watchers, NEW w,
         view' = [view EXCEPT ![s] = w], AddressStep(s)
  PROVE  AddressStep(q)
<1>1. q # s => view'[q] = view[q]
  BY DEF FailoverInv, ViewsTyped
<1> QED
  BY <1>1 DEF AddressStep

LEMMA InfoAddress ==
  ASSUME FailoverInv, NEW s \in Watchers, NEW q \in Watchers,
         InfoMaster(s) \/ (\E i \in Instances : InfoReconfigured(s, i))
         \/ (\E p \in Watchers : LearnOpinion(s, p)) \/ ForcedFailover(s)
  PROVE  AddressStep(q)
<1> DEFINE v == view[s]
<1>0. v \in Views /\ Coherent(v) /\ view = [p \in Watchers |-> view[p]] /\ epochs \in Nat
  BY ViewFacts DEF FailoverInv, ViewsTyped
<1>1. PICK w : /\ view' = [view EXCEPT ![s] = w]
               /\ w.addr = v.addr /\ (w.state = "reconf" <=> v.state = "reconf")
               /\ w.promoted = v.promoted
  <2>1. CASE InfoMaster(s)
    <3>1. PICK role, slaves : view' = [view EXCEPT ![s] = [v EXCEPT !.reported = role, !.slaves = slaves]]
      BY <2>1 DEF InfoMaster
    <3> DEFINE w == [v EXCEPT !.reported = role, !.slaves = slaves]
    <3>2. w.addr = v.addr /\ w.state = v.state /\ w.promoted = v.promoted
      BY <1>0 DEF Views
    <3> QED
      BY <3>1, <3>2
  <2>2. ASSUME NEW i \in Instances, InfoReconfigured(s, i)
        PROVE  \E w : /\ view' = [view EXCEPT ![s] = w]
                      /\ w.addr = v.addr /\ (w.state = "reconf" <=> v.state = "reconf")
                      /\ w.promoted = v.promoted
    <3>1. PICK mark \in {"inprog", "done"} : view' = [view EXCEPT ![s] = Marked(view[s], {i}, mark)]
      BY <2>2 DEF InfoReconfigured
    <3>2. mark \in Marks
      BY DEF Marks
    <3>3. /\ Marked(v, {i}, mark).addr = v.addr /\ Marked(v, {i}, mark).state = v.state
          /\ Marked(v, {i}, mark).promoted = v.promoted
      BY <1>0, <3>2, MarkedView
    <3> QED
      BY <3>1, <3>3
  <2>3. ASSUME NEW p \in Watchers, LearnOpinion(s, p)
        PROVE  \E w : /\ view' = [view EXCEPT ![s] = w]
                      /\ w.addr = v.addr /\ (w.state = "reconf" <=> v.state = "reconf")
                      /\ w.promoted = v.promoted
    <3>1. PICK agree : view' = [view EXCEPT ![s].agree = agree]
      BY <2>3 DEF LearnOpinion
    <3> DEFINE w == [v EXCEPT !.agree = agree]
    <3>2. view' = [view EXCEPT ![s] = w]
      BY <3>1
    <3>3. w.addr = v.addr /\ w.state = v.state /\ w.promoted = v.promoted
      BY <1>0 DEF Views
    <3> HIDE DEF w
    <3> QED
      BY <3>2, <3>3
  <2>4. CASE ForcedFailover(s)
    <3>1. view' = [view EXCEPT ![s] = StartedView(v)] /\ v.state = "none"
      BY <2>4 DEF ForcedFailover, FailingOver
    <3>2. /\ StartedView(v).addr = v.addr /\ StartedView(v).state = "wait"
          /\ StartedView(v).promoted = v.promoted
      BY <1>0 DEF StartedView, Views
    <3> QED
      BY <3>1, <3>2
  <2> QED
    BY <2>1, <2>2, <2>3, <2>4
<1>2. CurrentAddress(w) = CurrentAddress(v)
  BY <1>1 DEF CurrentAddress
<1>3. view'[s] = w
  BY <1>0, <1>1
<1>4. AddressStep(s)
  BY <1>2, <1>3 DEF AddressStep
<1> QED
  BY <1>1, <1>4, OtherAddresses

LEMMA ConfigurationAddress ==
  ASSUME FailoverInv, NEW s \in Watchers, NEW q \in Watchers,
         InfoPromoted(s) \/ HearConfiguration(s) \/ ResetCommand(s) \/ CrashSentinel(s)
  PROVE  AddressStep(q)
<1> DEFINE v == view[s]
<1>0. /\ v \in Views /\ Coherent(v) /\ view = [p \in Watchers |-> view[p]]
      /\ saved[s] \in Files /\ (saved[s].addr = CurrentAddress(v) \/ v.epoch \in disputed)
      /\ hellos \subseteq Configs
  BY ViewFacts DEF FailoverInv, ViewsTyped
<1>1. CASE InfoPromoted(s)
  <2>1. /\ v.state = "promotion"
        /\ view' = [view EXCEPT ![s] = [Goto(v, "reconf") EXCEPT !.epoch = v.failoverEpoch]]
    BY <1>1 DEF InfoPromoted
  <2>2. [Goto(v, "reconf") EXCEPT !.epoch = v.failoverEpoch].epoch = v.failoverEpoch
    BY <1>0 DEF Goto, Views
  <2>3. OwnFailover(s)
    BY <1>0, <2>1, <2>2 DEF OwnFailover
  <2> QED
    BY <2>1, <2>3, OtherAddresses DEF AddressStep
<1>2. CASE HearConfiguration(s)
  <2>1. PICK h \in hellos :
      LET newer == [v EXCEPT !.epoch = h.epoch]
          w == IF h.addr # v.addr THEN ChangedAddress(newer, h.addr) ELSE newer
      IN  /\ v.epoch < h.epoch
          /\ view' = [view EXCEPT ![s] = w]
          /\ saved' = [saved EXCEPT ![s] = IF h.addr # v.addr THEN FileOf(w) ELSE @]
          /\ disputed' = IF {CurrentAddress(w), saved'[s].addr} # {h.addr}
                         THEN disputed \cup {h.epoch} ELSE disputed
          /\ UNCHANGED <<redis, orders, hellos, epochs, promotions, limit>>
    BY <1>2 DEF HearConfiguration
  <2> DEFINE newer == [v EXCEPT !.epoch = h.epoch]
             w == IF h.addr # v.addr THEN ChangedAddress(newer, h.addr) ELSE newer
  <2>2. v.epoch < h.epoch /\ view' = [view EXCEPT ![s] = w]
    BY <2>1
  <2>3. newer.epoch = h.epoch
    BY <1>0 DEF Views
  <2>4. w.epoch = h.epoch
    BY <2>3 DEF ChangedAddress, FreshView
  <2> HIDE DEF w, newer
  <2>5. view'[s].epoch = h.epoch
    BY <1>0, <2>2, <2>4
  <2> QED
    BY <2>2, <2>5, OtherAddresses DEF AddressStep
<1>3. CASE ResetCommand(s)
  <2> DEFINE w == FreshView(v.addr, v.epoch, {})
  <2>1. /\ view' = [view EXCEPT ![s] = w]
        /\ disputed' = IF v.state = "reconf" THEN disputed \cup {v.epoch} ELSE disputed
    BY <1>3 DEF ResetCommand
  <2>2. CurrentAddress(w) = v.addr
    BY DEF FreshView, CurrentAddress
  <2> HIDE DEF w
  <2>3. view'[s] = w
    BY <1>0, <2>1
  <2>4. v.state # "reconf" => CurrentAddress(w) = CurrentAddress(v)
    BY <2>2 DEF CurrentAddress
  <2> QED
    BY <2>1, <2>3, <2>4, OtherAddresses DEF AddressStep
<1>4. CASE CrashSentinel(s)
  <2> DEFINE w == FreshView(saved[s].addr, saved[s].epoch, saved[s].slaves)
  <2>1. view' = [view EXCEPT ![s] = w] /\ disputed' = disputed
    BY <1>4 DEF CrashSentinel
  <2>2. CurrentAddress(w) = saved[s].addr
    BY DEF FreshView, CurrentAddress
  <2> HIDE DEF w
  <2>3. view'[s] = w
    BY <1>0, <2>1
  <2> QED
    BY <1>0, <2>1, <2>2, <2>3, OtherAddresses DEF AddressStep
<1> QED
  BY <1>1, <1>2, <1>3, <1>4

LEMMA NextAddress ==
  ASSUME FailoverInv, [FailoverNext]_failoverVars, NEW q \in Watchers
  PROVE  AddressStep(q)
<1>1. CASE view' = view
  BY <1>1 DEF AddressStep
<1>2. CASE UNCHANGED failoverVars
  BY <1>1, <1>2 DEF failoverVars
<1>3. ASSUME NEW s \in Watchers, FailoverTimer(s)
      PROVE  AddressStep(q)
  BY <1>3, TimerAddress, KeptAddress
<1>4. ASSUME NEW s \in Watchers,
             InfoMaster(s) \/ InfoPromoted(s) \/ HearConfiguration(s) \/ ForcedFailover(s)
             \/ ResetCommand(s) \/ SaveConfiguration(s) \/ CrashSentinel(s)
      PROVE  AddressStep(q)
  BY <1>1, <1>4, InfoAddress, ConfigurationAddress DEF SaveConfiguration
<1>5. ASSUME NEW s \in Watchers, NEW p \in Watchers \ {s}, LearnOpinion(s, p)
      PROVE  AddressStep(q)
  BY <1>5, InfoAddress
<1>6. ASSUME NEW s \in Watchers, NEW i \in Instances, InfoReconfigured(s, i)
      PROVE  AddressStep(q)
  BY <1>6, InfoAddress
<1>7. ASSUME NEW s \in Watchers, NEW i \in Instances, InfoMisplaced(s, i) \/ Obey(s, i)
      PROVE  AddressStep(q)
  BY <1>1, <1>7 DEF InfoMisplaced, Obey
<1>8. ASSUME NEW i \in Instances, Outage(i) \/ ComeBack(i)
      PROVE  AddressStep(q)
  BY <1>1, <1>8 DEF Outage, ComeBack
<1> QED
  BY <1>2, <1>3, <1>4, <1>5, <1>6, <1>7, <1>8 DEF FailoverNext

(* What a Sentinel announces changes only for a newer epoch, for its own   *)
(* failover, or in an epoch it misrepresents: a restart falls back to no   *)
(* older address (sentinelGetCurrentMasterAddress(), sentinelFlushConfig()).*)
THEOREM AddressesFollowEpochs == FailoverSpec => AddressFollowsEpoch
<1>1. FailoverInv /\ [FailoverNext]_failoverVars =>
        [\A s \in Watchers :
           CurrentAddress(view[s])' # CurrentAddress(view[s]) =>
             \/ view[s].epoch < view'[s].epoch
             \/ OwnFailover(s)
             \/ {view[s].epoch, view'[s].epoch} \cap disputed' # {}]_failoverVars
  <2> SUFFICES ASSUME FailoverInv, [FailoverNext]_failoverVars, NEW s \in Watchers
               PROVE  CurrentAddress(view[s])' # CurrentAddress(view[s]) =>
                        \/ view[s].epoch < view'[s].epoch
                        \/ OwnFailover(s)
                        \/ {view[s].epoch, view'[s].epoch} \cap disputed' # {}
    OBVIOUS
  <2>1. AddressStep(s)
    BY NextAddress
  <2> QED
    BY <2>1 DEF AddressStep, CurrentAddress
<1> QED
  BY <1>1, FailoverInvariance, PTL DEF FailoverSpec, AddressFollowsEpoch

-----------------------------------------------------------------------------
(* The notification scripts.                                               *)
-----------------------------------------------------------------------------
(* The elements of a finite set of numbers, counted from the smallest.     *)

LEMMA BeforeFacts ==
  ASSUME NEW S \in SUBSET Nat, IsFiniteSet(S), NEW i \in S
  PROVE  /\ Cardinality(Before(S, i)) \in Nat
         /\ Cardinality(Before(S, i)) < Cardinality(S)
         /\ \A j \in S : i < j => Cardinality(Before(S, i)) < Cardinality(Before(S, j))
<1>1. ASSUME NEW T \in SUBSET S, Before(S, i) \subseteq T, i \in T
      PROVE  /\ Cardinality(Before(S, i)) \in Nat /\ Cardinality(T) \in Nat
             /\ Cardinality(Before(S, i)) < Cardinality(T)
  <2>1. IsFiniteSet(T) /\ IsFiniteSet(Before(S, i))
    BY <1>1, FS_Subset DEF Before
  <2>2. Cardinality(Before(S, i)) \in Nat /\ Cardinality(T) \in Nat
    BY <2>1, FS_CardinalityType
  <2>3. i \notin Before(S, i)
    <3>1. i \in Nat
      OBVIOUS
    <3> QED
      BY <3>1 DEF Before
  <2>4. Cardinality(Before(S, i)) <= Cardinality(T)
        /\ (Cardinality(T) = Cardinality(Before(S, i)) => T = Before(S, i))
    BY <1>1, <2>1, FS_Subset
  <2> QED
    BY <1>1, <2>2, <2>3, <2>4
<1>2. Before(S, i) \subseteq S
  BY DEF Before
<1>3. ASSUME NEW j \in S, i < j
      PROVE  Cardinality(Before(S, i)) < Cardinality(Before(S, j))
  <2>0. i \in Nat /\ j \in Nat /\ \A k \in S : k \in Nat
    OBVIOUS
  <2>1. \A k \in S : k < i => k < j
    BY <1>3, <2>0
  <2>2. Before(S, i) \subseteq Before(S, j) /\ i \in Before(S, j) /\ Before(S, j) \in SUBSET S
    BY <1>3, <2>1 DEF Before
  <2> QED
    BY <1>1, <2>2
<1> QED
  BY <1>1, <1>2, <1>3

(* Nth() counts every element once.                                        *)
LEMMA NthFacts ==
  ASSUME NEW S \in SUBSET Nat, IsFiniteSet(S)
  PROVE  /\ \A n \in 1 .. Cardinality(S) :
              Nth(S, n) \in S /\ Cardinality(Before(S, Nth(S, n))) = n - 1
         /\ \A i \in S : \E n \in 1 .. Cardinality(S) : Nth(S, n) = i
<1> DEFINE rank == [i \in S |-> Cardinality(Before(S, i)) + 1]
           T == 1 .. Cardinality(S)
<1>1. Cardinality(S) \in Nat /\ IsFiniteSet(T) /\ Cardinality(T) = Cardinality(S)
  <2>1. Cardinality(S) \in Nat
    BY FS_CardinalityType
  <2> QED
    BY <2>1, FS_Interval
<1>2. \A i \in S : rank[i] \in T
  BY <1>1, BeforeFacts
<1>3. \A i, j \in S : rank[i] = rank[j] => i = j
  <2> SUFFICES ASSUME NEW i \in S, NEW j \in S, i # j PROVE rank[i] # rank[j]
    OBVIOUS
  <2>1. CASE i < j
    BY <2>1, BeforeFacts
  <2>2. CASE j < i
    BY <2>2, BeforeFacts
  <2> QED
    BY <2>1, <2>2
<1>4. rank \in Injection(S, T)
  BY <1>2, <1>3 DEF Injection, IsInjective
<1>5. rank \in Surjection(S, T)
  BY <1>1, <1>4, FS_Injection
<1>6. \A n \in T : \E i \in S : Cardinality(Before(S, i)) = n - 1
  <2> SUFFICES ASSUME NEW n \in T PROVE \E i \in S : Cardinality(Before(S, i)) = n - 1
    OBVIOUS
  <2>1. PICK i \in S : rank[i] = n
    BY <1>5 DEF Surjection
  <2>2. Cardinality(Before(S, i)) \in Nat
    BY BeforeFacts
  <2> QED
    BY <2>1, <2>2
<1>7. \A n \in T : Nth(S, n) \in S /\ Cardinality(Before(S, Nth(S, n))) = n - 1
  BY <1>6 DEF Nth
<1>8. ASSUME NEW i \in S PROVE \E n \in T : Nth(S, n) = i
  <2> DEFINE n == rank[i]
  <2>1. n \in T /\ Cardinality(Before(S, i)) = n - 1 /\ Cardinality(Before(S, i)) \in Nat
    BY <1>2, BeforeFacts
  <2>2. Nth(S, n) \in S /\ Cardinality(Before(S, Nth(S, n))) = n - 1
    BY <1>7, <2>1
  <2>3. rank[Nth(S, n)] = rank[i]
    BY <2>1, <2>2
  <2> QED
    BY <1>3, <2>1, <2>2, <2>3
<1> QED
  BY <1>7, <1>8

LEMMA CountedTo ==
  ASSUME NEW n \in Nat
  PROVE  IsFiniteSet(1 .. n) /\ Cardinality(1 .. n) = n
BY FS_Interval

(* So many elements have few before them.                                  *)
LEMMA FewBefore ==
  ASSUME NEW S \in SUBSET Nat, IsFiniteSet(S), NEW m \in Nat,
         NEW A \in SUBSET S, \A i \in A : Cardinality(Before(S, i)) < m
  PROVE  IsFiniteSet(A) /\ Cardinality(A) \in Nat /\ Cardinality(A) <= m
<1> DEFINE rank == [i \in A |-> Cardinality(Before(S, i)) + 1]
<1>0. IsFiniteSet(1 .. m) /\ Cardinality(1 .. m) = m
  BY CountedTo
<1>1. IsFiniteSet(A)
  BY FS_Subset
<1>2. \A i \in A : rank[i] \in 1 .. m
  <2> SUFFICES ASSUME NEW i \in A PROVE Cardinality(Before(S, i)) + 1 \in 1 .. m
    OBVIOUS
  <2>1. Cardinality(Before(S, i)) \in Nat /\ Cardinality(Before(S, i)) < m
    BY BeforeFacts
  <2> QED
    BY <2>1
<1>3. \A i, j \in A : rank[i] = rank[j] => i = j
  <2> SUFFICES ASSUME NEW i \in A, NEW j \in A, i # j PROVE rank[i] # rank[j]
    OBVIOUS
  <2>1. CASE i < j
    BY <2>1, BeforeFacts
  <2>2. CASE j < i
    BY <2>2, BeforeFacts
  <2> QED
    BY <2>1, <2>2
<1>4. rank \in Injection(A, 1 .. m)
  BY <1>2, <1>3 DEF Injection, IsInjective
<1>5. Cardinality(A) <= Cardinality(1 .. m)
  BY <1>0, <1>4, FS_Injection
<1> QED
  BY <1>0, <1>1, <1>5, FS_CardinalityType

(* A queue without some of its jobs.                                       *)
LEMMA AtFacts ==
  ASSUME NEW J, NEW queue \in Seq(J), NEW S \in SUBSET DOMAIN queue
  PROVE  /\ IsFiniteSet(S) /\ Cardinality(S) \in Nat /\ Cardinality(S) <= Len(queue)
         /\ At(queue, S) \in Seq(J) /\ Len(At(queue, S)) = Cardinality(S)
         /\ DOMAIN At(queue, S) = 1 .. Cardinality(S)
         /\ \A n \in 1 .. Cardinality(S) :
              Nth(S, n) \in S /\ At(queue, S)[n] = queue[Nth(S, n)]
         /\ \A n, k \in 1 .. Cardinality(S) : Nth(S, n) = Nth(S, k) => n = k
         /\ \A i \in S : \E n \in 1 .. Cardinality(S) : Nth(S, n) = i
<1>1. DOMAIN queue = 1 .. Len(queue) /\ Len(queue) \in Nat /\ \A i \in DOMAIN queue : queue[i] \in J
  OBVIOUS
<1>2. IsFiniteSet(1 .. Len(queue)) /\ Cardinality(1 .. Len(queue)) = Len(queue)
  BY <1>1, CountedTo
<1>3. IsFiniteSet(S) /\ Cardinality(S) <= Len(queue)
  BY <1>1, <1>2, FS_Subset
<1>4. Cardinality(S) \in Nat /\ S \in SUBSET Nat
  BY <1>1, <1>3, FS_CardinalityType
<1>5. /\ \A n \in 1 .. Cardinality(S) :
           Nth(S, n) \in S /\ Cardinality(Before(S, Nth(S, n))) = n - 1
      /\ \A i \in S : \E n \in 1 .. Cardinality(S) : Nth(S, n) = i
  BY <1>3, <1>4, NthFacts
<1>6. At(queue, S) = [n \in 1 .. Cardinality(S) |-> queue[Nth(S, n)]]
  BY DEF At
<1>7. \A n \in 1 .. Cardinality(S) : queue[Nth(S, n)] \in J
  BY <1>1, <1>5
<1>8. At(queue, S) \in [1 .. Cardinality(S) -> J]
  BY <1>6, <1>7
<1>9. \A n, k \in 1 .. Cardinality(S) : Nth(S, n) = Nth(S, k) => n = k
  <2> SUFFICES ASSUME NEW n \in 1 .. Cardinality(S), NEW k \in 1 .. Cardinality(S),
                      Nth(S, n) = Nth(S, k)
               PROVE  n = k
    OBVIOUS
  <2>1. n - 1 = k - 1
    BY <1>5
  <2> QED
    BY <1>4, <2>1
<1>10. DOMAIN At(queue, S) = 1 .. Cardinality(S)
       /\ \A n \in 1 .. Cardinality(S) : At(queue, S)[n] = queue[Nth(S, n)]
  BY <1>6
<1>11. At(queue, S) \in Seq(J) /\ Len(At(queue, S)) = Cardinality(S)
  <2> HIDE <1>6
  <2> QED
    BY <1>4, <1>8, <1>10
<1> QED
  BY <1>3, <1>4, <1>5, <1>9, <1>10, <1>11

-----------------------------------------------------------------------------
(* The inductive invariant.                                                *)

Jobs == [pid : Pids \cup {0}, tries : Nat, delayed : BOOLEAN]

LEMMA JobType ==
  ASSUME NEW p \in Pids \cup {0}, NEW n \in Nat, NEW d \in BOOLEAN
  PROVE  Job(p, n, d) \in Jobs /\ Job(p, n, d).pid = p
BY DEF Job, Jobs

(* JobsAreProcesses of a queue and of the processes there are.             *)
Distinct(queue) ==
  \A i, k \in DOMAIN queue : Runs(queue[i]) /\ queue[i].pid = queue[k].pid => i = k
Agree(queue, processes) ==
  /\ \A pid \in processes : \E i \in DOMAIN queue : queue[i].pid = pid
  /\ \A i \in DOMAIN queue : Runs(queue[i]) => queue[i].pid \in processes
  /\ Distinct(queue)

ScriptsInv ==
  /\ jobs \in Seq(Jobs) /\ Len(jobs) <= MaxQueue
  /\ slots \in Nat /\ slots <= MaxRunning
  /\ DOMAIN children \subseteq Pids /\ children \in [DOMAIN children -> Endings \cup {"running"}]
  /\ Cardinality(DOMAIN children) <= slots
  /\ Agree(jobs, DOMAIN children)

LEMMA PidFacts ==
  /\ \A pid \in Pids : pid # 0
  /\ \A S \in SUBSET Pids : IsFiniteSet(S) /\ Cardinality(S) \in Nat
<1>1. ASSUME NEW S \in SUBSET Pids PROVE IsFiniteSet(S) /\ Cardinality(S) \in Nat
  <2>1. IsFiniteSet(S)
    BY ScriptsAssumption, FS_Subset
  <2> QED
    BY <2>1, FS_CardinalityType
<1> QED
  BY <1>1, ScriptsAssumption

(* Jobs that do not run may leave a queue.                                 *)
LEMMA AgreeAt ==
  ASSUME NEW queue \in Seq(Jobs), NEW processes \in SUBSET Pids, Agree(queue, processes),
         NEW S \in SUBSET DOMAIN queue, \A i \in DOMAIN queue : Runs(queue[i]) => i \in S
  PROVE  Agree(At(queue, S), processes)
<1> DEFINE rest == At(queue, S)
<1>1. /\ DOMAIN rest = 1 .. Cardinality(S)
      /\ \A n \in DOMAIN rest : Nth(S, n) \in DOMAIN queue /\ rest[n] = queue[Nth(S, n)]
      /\ \A n, k \in DOMAIN rest : Nth(S, n) = Nth(S, k) => n = k
      /\ \A i \in S : \E n \in DOMAIN rest : Nth(S, n) = i
  <2>1. DOMAIN rest = 1 .. Cardinality(S)
    BY AtFacts
  <2>2. /\ \A n \in 1 .. Cardinality(S) : Nth(S, n) \in S /\ rest[n] = queue[Nth(S, n)]
        /\ \A n, k \in 1 .. Cardinality(S) : Nth(S, n) = Nth(S, k) => n = k
        /\ \A i \in S : \E n \in 1 .. Cardinality(S) : Nth(S, n) = i
    BY AtFacts
  <2> HIDE DEF rest
  <2> QED
    BY <2>1, <2>2
<1> HIDE DEF rest
<1>2. ASSUME NEW pid \in processes PROVE \E n \in DOMAIN rest : rest[n].pid = pid
  <2>1. PICK i \in DOMAIN queue : queue[i].pid = pid
    BY DEF Agree
  <2>2. i \in S
    BY <2>1, PidFacts DEF Runs
  <2> QED
    BY <1>1, <2>1, <2>2
<1>3. \A n \in DOMAIN rest : Runs(rest[n]) => rest[n].pid \in processes
  BY <1>1 DEF Agree
<1>4. Distinct(rest)
  BY <1>1 DEF Agree, Distinct
<1> QED
  BY <1>2, <1>3, <1>4 DEF Agree, rest

-----------------------------------------------------------------------------
(* The actions.                                                            *)

LEMMA InitScripts ==
  ASSUME ScriptsInit
  PROVE  ScriptsInv
<1>1. jobs = <<>> /\ slots = 0 /\ children = <<>>
  BY DEF ScriptsInit
<1>2. DOMAIN children = {} /\ DOMAIN jobs = {} /\ Len(jobs) = 0 /\ jobs \in Seq(Jobs)
  BY <1>1
<1>3. children \in [DOMAIN children -> Endings \cup {"running"}]
  BY <1>1, <1>2
<1>4. Cardinality(DOMAIN children) = 0
  BY <1>2, FS_EmptySet
<1>5. Agree(jobs, DOMAIN children)
  BY <1>2 DEF Agree, Distinct
<1> QED
  BY <1>1, <1>2, <1>3, <1>4, <1>5, ScriptsAssumption DEF ScriptsInv

(* A script is scheduled, and the oldest idle one dropped if need be.      *)
LEMMA ScheduleScriptStep ==
  ASSUME ScriptsInv, ScheduleScript
  PROVE  ScriptsInv'
<1> DEFINE new == Job(0, 0, FALSE)
           queue == Append(jobs, new)
           last == Len(jobs) + 1
<1>1. jobs' = Shortened(queue) /\ UNCHANGED <<slots, children>>
  BY DEF ScheduleScript
<1>2. jobs \in Seq(Jobs) /\ Len(jobs) <= MaxQueue /\ Agree(jobs, DOMAIN children) /\ MaxQueue \in Nat
  BY ScriptsAssumption DEF ScriptsInv
<1>3. new \in Jobs /\ ~Runs(new) /\ new.pid = 0
  BY DEF Job, Jobs, Runs
<1> HIDE DEF new
<1>4. /\ queue \in Seq(Jobs) /\ Len(queue) = last /\ DOMAIN queue = 1 .. last
      /\ queue[last] = new /\ \A i \in 1 .. Len(jobs) : queue[i] = jobs[i]
      /\ DOMAIN jobs = 1 .. Len(jobs) /\ Len(jobs) \in Nat
  BY <1>2, <1>3
<1> HIDE DEF queue
<1>5. \A i \in DOMAIN queue : i = last \/ i \in DOMAIN jobs
  BY <1>4
<1>6. Agree(queue, DOMAIN children)
  <2>1. \A pid \in DOMAIN children : \E i \in DOMAIN queue : queue[i].pid = pid
    BY <1>2, <1>4 DEF Agree
  <2>2. \A i \in DOMAIN queue : Runs(queue[i]) => i \in DOMAIN jobs /\ queue[i] = jobs[i]
    BY <1>3, <1>4, <1>5
  <2>3. \A i, k \in DOMAIN queue :
          Runs(queue[i]) /\ queue[i].pid = queue[k].pid => Runs(queue[k])
    BY DEF Runs
  <2> QED
    BY <1>2, <2>1, <2>2, <2>3 DEF Agree, Distinct
<1>7. jobs' \in Seq(Jobs) /\ Len(jobs') <= MaxQueue /\ Agree(jobs', DOMAIN children)
  <2>1. CASE ~TooLong(queue)
    BY <1>1, <1>2, <1>4, <1>6, <2>1 DEF Shortened, TooLong
  <2>2. CASE TooLong(queue)
    <3> DEFINE idle == Droppable(queue)
               i == Nth(idle, 1)
               S == DOMAIN queue \ {i}
    <3>1. last \in idle /\ idle \in SUBSET DOMAIN queue
      BY <1>3, <1>4 DEF Droppable, Idle
    <3>2. jobs' = At(queue, S)
      BY <1>1, <2>2, <3>1 DEF Shortened
    <3>3. i \in idle
      <4>1. IsFiniteSet(idle) /\ idle \in SUBSET Nat /\ Cardinality(idle) \in Nat
        BY <1>4, <3>1, AtFacts
      <4>2. Cardinality(idle) # 0
        BY <3>1, <4>1, FS_EmptySet
      <4>3. 1 \in 1 .. Cardinality(idle)
        BY <4>1, <4>2
      <4> QED
        BY <4>1, <4>3, NthFacts
    <3>4. i \in DOMAIN queue /\ ~Runs(queue[i])
      BY <3>3 DEF Droppable, Idle
    <3> HIDE DEF i
    <3>5. Cardinality(S) = last - 1
      <4>1. IsFiniteSet(DOMAIN queue) /\ Cardinality(DOMAIN queue) = last
        BY <1>4, FS_Interval
      <4> QED
        BY <3>4, <4>1, FS_RemoveElement
    <3>6. At(queue, S) \in Seq(Jobs) /\ Len(At(queue, S)) = Cardinality(S)
      BY <1>4, AtFacts
    <3>7. Agree(At(queue, S), DOMAIN children)
      <4>1. \A k \in DOMAIN queue : Runs(queue[k]) => k \in S
        BY <3>4
      <4> QED
        BY <1>4, <1>6, <4>1, AgreeAt DEF ScriptsInv
    <3> QED
      BY <1>2, <1>4, <3>2, <3>5, <3>6, <3>7
  <2> QED
    BY <2>1, <2>2
<1> QED
  BY <1>1, <1>7 DEF ScriptsInv

(* A script ends: its process is still to be waited for.                   *)
LEMMA ScriptEndsStep ==
  ASSUME ScriptsInv, NEW pid \in DOMAIN children, ScriptEnds(pid)
  PROVE  ScriptsInv'
<1>1. PICK ending \in Endings : children' = [children EXCEPT ![pid] = ending]
  BY DEF ScriptEnds
<1>2. UNCHANGED <<slots, jobs>>
  BY DEF ScriptEnds
<1>3. DOMAIN children' = DOMAIN children
  BY <1>1
<1>4. children' \in [DOMAIN children' -> Endings \cup {"running"}]
  BY <1>1, <1>3 DEF ScriptsInv
<1> QED
  BY <1>2, <1>3, <1>4 DEF ScriptsInv

(* sentinelRunPendingScripts(): no more jobs start than there are slots.   *)
LEMMA StartedFew ==
  ASSUME ScriptsInv, NEW due \in SUBSET Idle(jobs), NEW failing \in SUBSET due,
         NEW started, started = Attempted(due, failing) \ failing
  PROVE  /\ started \in SUBSET Idle(jobs) /\ IsFiniteSet(started) /\ Cardinality(started) \in Nat
         /\ slots + Cardinality(started) <= MaxRunning
<1> DEFINE D == due \ failing
<1>1. D \in SUBSET DOMAIN jobs /\ jobs \in Seq(Jobs) /\ started \in SUBSET D
  BY DEF Idle, Attempted, ScriptsInv
<1>2. D \in SUBSET Nat /\ IsFiniteSet(D)
  <2>1. DOMAIN jobs \in SUBSET Nat
    BY <1>1
  <2> QED
    BY <1>1, <2>1, AtFacts
<1>3. slots \in Nat /\ MaxRunning \in Nat /\ MaxRunning - slots \in Nat
  BY ScriptsAssumption DEF ScriptsInv
<1>4. \A i \in started : Cardinality(Before(D, i)) < MaxRunning - slots
  <2> SUFFICES ASSUME NEW i \in started PROVE Cardinality(Before(D, i)) < MaxRunning - slots
    OBVIOUS
  <2>1. slots + Cardinality(Before(D, i)) < MaxRunning
    BY DEF Attempted
  <2>2. Cardinality(Before(D, i)) \in Nat
    BY <1>1, <1>2, BeforeFacts
  <2> QED
    BY <1>3, <2>1, <2>2
<1> HIDE DEF D
<1>5. IsFiniteSet(started) /\ Cardinality(started) \in Nat /\ Cardinality(started) <= MaxRunning - slots
  BY <1>1, <1>2, <1>3, <1>4, FewBefore
<1>6. started \in SUBSET Idle(jobs)
  BY <1>1 DEF D
<1> QED
  BY <1>3, <1>5, <1>6

(* The queue once the children are forked.                                 *)
LEMMA ForkedAgrees ==
  ASSUME ScriptsInv, NEW attempted \in SUBSET Idle(jobs), NEW failing \in SUBSET attempted,
         NEW pid \in Injection(attempted \ failing, Pids \ DOMAIN children),
         NEW queue, queue = Forked(attempted, failing, pid)
  PROVE  /\ queue \in Seq(Jobs) /\ Len(queue) = Len(jobs) /\ DOMAIN queue = DOMAIN jobs
         /\ Range(pid) \in SUBSET Pids /\ Range(pid) \cap DOMAIN children = {}
         /\ Agree(queue, DOMAIN children \cup Range(pid))
<1> DEFINE started == attempted \ failing
<1>1. jobs \in Seq(Jobs) /\ Agree(jobs, DOMAIN children)
  BY DEF ScriptsInv
<1>2. attempted \subseteq DOMAIN jobs /\ \A i \in attempted : ~Runs(jobs[i])
  BY DEF Idle
<1>3. /\ pid \in [started -> Pids \ DOMAIN children] /\ \A i \in started : pid[i] \in Pids
      /\ \A i, k \in started : pid[i] = pid[k] => i = k
  BY DEF Injection, IsInjective
<1>4. Range(pid) = {pid[i] : i \in started}
  BY <1>3 DEF Range
<1>5. queue = [i \in DOMAIN jobs |->
         IF i \notin attempted THEN jobs[i]
         ELSE Job(IF i \in failing THEN 0 ELSE pid[i], jobs[i].tries + 1, FALSE)]
  BY DEF Forked
<1>6. /\ DOMAIN queue = DOMAIN jobs
      /\ \A i \in DOMAIN jobs \ attempted : queue[i] = jobs[i]
      /\ \A i \in failing : queue[i] = Job(0, jobs[i].tries + 1, FALSE)
      /\ \A i \in started : queue[i] = Job(pid[i], jobs[i].tries + 1, FALSE)
  BY <1>2, <1>5
<1> HIDE DEF started
<1>7. /\ \A i \in failing : queue[i].pid = 0 /\ queue[i] \in Jobs
      /\ \A i \in started : queue[i].pid = pid[i] /\ queue[i] \in Jobs
  <2>1. ASSUME NEW i \in attempted PROVE jobs[i].tries + 1 \in Nat
    <3>1. jobs[i] \in Jobs
      BY <1>1, <1>2
    <3> QED
      BY <3>1 DEF Jobs
  <2>2. ASSUME NEW i \in failing PROVE queue[i].pid = 0 /\ queue[i] \in Jobs
    <3>1. queue[i] = Job(0, jobs[i].tries + 1, FALSE)
      BY <1>6
    <3>2. jobs[i].tries + 1 \in Nat /\ 0 \in Pids \cup {0} /\ FALSE \in BOOLEAN
      BY <2>1
    <3> QED
      BY <3>1, <3>2, JobType
  <2>3. ASSUME NEW i \in started PROVE queue[i].pid = pid[i] /\ queue[i] \in Jobs
    <3>1. i \in attempted /\ pid[i] \in Pids
      BY <1>3 DEF started
    <3>2. queue[i] = Job(pid[i], jobs[i].tries + 1, FALSE)
      BY <1>6
    <3>3. jobs[i].tries + 1 \in Nat /\ pid[i] \in Pids \cup {0} /\ FALSE \in BOOLEAN
      BY <2>1, <3>1
    <3> QED
      BY <3>2, <3>3, JobType
  <2> QED
    BY <2>2, <2>3
<1>8. \A i \in DOMAIN jobs : i \in failing \/ i \in started \/ i \in DOMAIN jobs \ attempted
  BY DEF started
<1>9. queue \in Seq(Jobs) /\ Len(queue) = Len(jobs)
  <2>1. \A i \in DOMAIN jobs : queue[i] \in Jobs
    BY <1>1, <1>6, <1>7, <1>8
  <2>2. DOMAIN jobs = 1 .. Len(jobs) /\ Len(jobs) \in Nat
    BY <1>1
  <2>3. queue \in [1 .. Len(jobs) -> Jobs]
    <3>1. queue = [i \in DOMAIN queue |-> queue[i]]
      BY <1>5
    <3> QED
      BY <1>6, <2>1, <2>2, <3>1
  <2> QED
    BY <2>2, <2>3
<1>10. Range(pid) \in SUBSET Pids /\ Range(pid) \cap DOMAIN children = {}
  BY <1>3, <1>4
<1>11. \A i \in DOMAIN queue : Runs(queue[i]) =>
          \/ i \in started /\ queue[i].pid = pid[i] /\ pid[i] \in Range(pid)
          \/ queue[i] = jobs[i] /\ queue[i].pid \in DOMAIN children
  BY <1>1, <1>4, <1>6, <1>7, <1>8 DEF Runs, Agree
<1>12. \A p \in DOMAIN children \cup Range(pid) : \E i \in DOMAIN queue : queue[i].pid = p
  <2>1. ASSUME NEW p \in DOMAIN children PROVE \E i \in DOMAIN queue : queue[i].pid = p
    <3>1. PICK i \in DOMAIN jobs : jobs[i].pid = p
      BY <1>1 DEF Agree
    <3>2. i \notin attempted
      BY <1>2, <3>1, PidFacts DEF Runs, ScriptsInv
    <3> QED
      BY <1>6, <3>1, <3>2
  <2>2. ASSUME NEW p \in Range(pid) PROVE \E i \in DOMAIN queue : queue[i].pid = p
    <3>1. PICK i \in started : pid[i] = p
      BY <1>4
    <3>2. i \in DOMAIN queue
      BY <1>2, <1>6 DEF started
    <3> QED
      BY <1>7, <3>1, <3>2
  <2> QED
    BY <2>1, <2>2
<1>13. Distinct(queue)
  <2> SUFFICES ASSUME NEW i \in DOMAIN queue, NEW k \in DOMAIN queue, Runs(queue[i]),
                      queue[i].pid = queue[k].pid
               PROVE  i = k
    BY DEF Distinct
  <2>1. Runs(queue[k])
    BY DEF Runs
  <2>2. i \in DOMAIN jobs /\ k \in DOMAIN jobs
    BY <1>6
  <2> QED
    BY <1>1, <1>3, <1>10, <1>11, <2>1, <2>2 DEF Agree, Distinct
<1> QED
  BY <1>6, <1>9, <1>10, <1>11, <1>12, <1>13 DEF Agree

(* sentinelCollectTerminatedScripts(): the jobs that are over, as many as  *)
(* processes that ended.                                                   *)
LEMMA ReleasedFew ==
  ASSUME ScriptsInv, NEW queue \in Seq(Jobs), Distinct(queue)
  PROVE  /\ Released(queue) \in Nat /\ Cardinality(Alive) \in Nat /\ IsFiniteSet(Alive)
         /\ Released(queue) + Cardinality(Alive) <= Cardinality(DOMAIN children)
<1> DEFINE over == {i \in DOMAIN queue : Over(queue[i])}
           gone == DOMAIN children \ Alive
           f    == [i \in over |-> queue[i].pid]
<1>1. over \in SUBSET DOMAIN queue
  OBVIOUS
<1>2. Cardinality(over) \in Nat
  BY <1>1, AtFacts
<1>3. Alive \in SUBSET DOMAIN children /\ DOMAIN children \in SUBSET Pids /\ gone \in SUBSET Pids
  BY DEF Alive, ScriptsInv
<1>4. /\ IsFiniteSet(DOMAIN children) /\ Cardinality(DOMAIN children) \in Nat
      /\ IsFiniteSet(Alive) /\ Cardinality(Alive) \in Nat
      /\ IsFiniteSet(gone) /\ Cardinality(gone) \in Nat
  <2>1. Alive \in SUBSET Pids
    BY <1>3
  <2> QED
    BY <1>3, <2>1, PidFacts
<1>5. Cardinality(gone) = Cardinality(DOMAIN children) - Cardinality(Alive)
  <2>1. DOMAIN children \cap Alive = Alive
    BY <1>3
  <2> QED
    BY <1>4, <2>1, FS_Difference
<1>6. \A i \in over : Runs(queue[i]) /\ queue[i].pid \in gone
  BY DEF Over, Ended, Endings, Alive
<1>7. f \in Injection(over, gone)
  <2>1. f \in [over -> gone]
    BY <1>6
  <2>2. \A i, k \in over : f[i] = f[k] => i = k
    BY <1>1, <1>6 DEF Distinct
  <2> QED
    BY <2>1, <2>2 DEF Injection, IsInjective
<1>8. Cardinality(over) <= Cardinality(gone)
  BY <1>4, <1>7, FS_Injection
<1>9. Released(queue) = Cardinality(over)
  BY DEF Released
<1> HIDE DEF over, gone
<1> QED
  BY <1>2, <1>4, <1>5, <1>8, <1>9

(* The queue once the ended children are collected.                        *)
LEMMA CollectedAgrees ==
  ASSUME ScriptsInv, NEW queue \in Seq(Jobs), NEW fresh \in SUBSET Pids,
         fresh \cap DOMAIN children = {}, Agree(queue, DOMAIN children \cup fresh)
  PROVE  /\ Collected(queue) \in Seq(Jobs) /\ Len(Collected(queue)) <= Len(queue)
         /\ Agree(Collected(queue), Alive \cup fresh)
<1> DEFINE S    == {i \in DOMAIN queue : ~Over(queue[i])}
           kept == At(queue, S)
           new  == Collected(queue)
           size == Cardinality(S)
<1>1. /\ size \in Nat /\ size <= Len(queue) /\ DOMAIN kept = 1 .. size
      /\ \A n \in 1 .. size : Nth(S, n) \in S /\ kept[n] = queue[Nth(S, n)]
      /\ \A n, k \in 1 .. size : Nth(S, n) = Nth(S, k) => n = k
      /\ \A i \in S : \E n \in 1 .. size : Nth(S, n) = i
  <2>1. S \in SUBSET DOMAIN queue
    OBVIOUS
  <2> HIDE DEF S
  <2> QED
    BY <2>1, AtFacts
<1>2. new = [n \in DOMAIN kept |-> Rescheduled(kept[n])]
  BY DEF Collected
<1>3. S \subseteq DOMAIN queue /\ \A i \in DOMAIN queue : i \in S <=> ~Over(queue[i])
  OBVIOUS
<1> HIDE DEF S, kept, size, new
<1>4. DOMAIN new = 1 .. size /\ \A n \in 1 .. size : new[n] = Rescheduled(queue[Nth(S, n)])
  BY <1>1, <1>2
<1>5. \A i \in DOMAIN queue :
        /\ queue[i] \in Jobs /\ Rescheduled(queue[i]) \in Jobs
        /\ Ended(queue[i]) => ~Runs(Rescheduled(queue[i]))
        /\ ~Ended(queue[i]) => Rescheduled(queue[i]) = queue[i]
  <2> SUFFICES ASSUME NEW j \in Jobs
               PROVE  /\ Rescheduled(j) \in Jobs
                      /\ Ended(j) => ~Runs(Rescheduled(j))
                      /\ ~Ended(j) => Rescheduled(j) = j
    OBVIOUS
  <2>1. CASE Ended(j)
    <3>1. Rescheduled(j) = Job(0, j.tries, TRUE) /\ j.tries \in Nat
      BY <2>1 DEF Rescheduled, Jobs
    <3> QED
      BY <2>1, <3>1, JobType DEF Runs
  <2>2. CASE ~Ended(j)
    BY <2>2 DEF Rescheduled
  <2> QED
    BY <2>1, <2>2
<1>6. new \in Seq(Jobs) /\ Len(new) <= Len(queue)
  <2>1. \A n \in 1 .. size : new[n] \in Jobs
    BY <1>1, <1>3, <1>4, <1>5
  <2>2. new = [n \in DOMAIN new |-> new[n]]
    BY <1>2
  <2>3. new \in [1 .. size -> Jobs]
    BY <1>4, <2>1, <2>2
  <2> QED
    BY <1>1, <2>3
<1>7. \A i \in DOMAIN queue : Ended(queue[i]) => queue[i].pid \in DOMAIN children \ Alive
  BY DEF Ended, Endings, Alive
<1>8. \A i \in DOMAIN queue : Runs(queue[i]) /\ ~Ended(queue[i]) => queue[i].pid \in Alive \cup fresh
  BY DEF Ended, Alive, Agree, ScriptsInv
<1>9. ASSUME NEW p \in Alive \cup fresh PROVE \E n \in DOMAIN new : new[n].pid = p
  <2>1. p \in DOMAIN children \cup fresh /\ p \notin DOMAIN children \ Alive
    BY DEF Alive
  <2>2. PICK i \in DOMAIN queue : queue[i].pid = p
    BY <2>1 DEF Agree
  <2>3. ~Ended(queue[i])
    BY <1>7, <2>1, <2>2
  <2>4. i \in S
    BY <1>3, <2>3 DEF Over
  <2>5. PICK n \in 1 .. size : Nth(S, n) = i
    BY <1>1, <2>4
  <2> QED
    BY <1>4, <1>5, <2>2, <2>3, <2>5
<1>10. \A n \in DOMAIN new : Runs(new[n]) =>
          /\ Nth(S, n) \in DOMAIN queue /\ ~Ended(queue[Nth(S, n)]) /\ new[n] = queue[Nth(S, n)]
  BY <1>1, <1>3, <1>4, <1>5
<1>11. \A n \in DOMAIN new : Runs(new[n]) => new[n].pid \in Alive \cup fresh
  BY <1>8, <1>10
<1>12. Distinct(new)
  <2> SUFFICES ASSUME NEW n \in DOMAIN new, NEW k \in DOMAIN new, Runs(new[n]),
                      new[n].pid = new[k].pid
               PROVE  n = k
    BY DEF Distinct
  <2>1. Runs(new[k])
    BY DEF Runs
  <2>2. Nth(S, n) = Nth(S, k)
    BY <1>10, <2>1 DEF Agree, Distinct
  <2> QED
    BY <1>1, <1>4, <2>2
<1> QED
  BY <1>6, <1>9, <1>11, <1>12 DEF Agree, new

(* The timer of the scripts.                                               *)
LEMMA ScriptsTimerStep ==
  ASSUME ScriptsInv, ScriptsTimer
  PROVE  ScriptsInv'
<1>0. PICK due \in SUBSET Idle(jobs) : \E failing \in SUBSET due :
        /\ failing \subseteq Attempted(due, failing)
        /\ \E pid \in Injection(Attempted(due, failing) \ failing, Pids \ DOMAIN children),
              slow \in SUBSET Alive :
             RunAndCollect(Attempted(due, failing), failing, pid, slow)
  BY DEF ScriptsTimer
<1>1. PICK failing \in SUBSET due :
        /\ failing \subseteq Attempted(due, failing)
        /\ \E pid \in Injection(Attempted(due, failing) \ failing, Pids \ DOMAIN children),
              slow \in SUBSET Alive :
             RunAndCollect(Attempted(due, failing), failing, pid, slow)
  BY <1>0
<1> DEFINE attempted == Attempted(due, failing)
           started == attempted \ failing
<1>2. PICK pid \in Injection(started, Pids \ DOMAIN children), slow \in SUBSET Alive :
        RunAndCollect(attempted, failing, pid, slow)
  BY <1>1
<1>3. attempted \in SUBSET Idle(jobs) /\ failing \in SUBSET attempted
  BY <1>1 DEF Attempted
<1>4. /\ started \in SUBSET Idle(jobs) /\ IsFiniteSet(started) /\ Cardinality(started) \in Nat
      /\ slots + Cardinality(started) <= MaxRunning
  BY StartedFew
<1> DEFINE queue == Forked(attempted, failing, pid)
           fresh == Range(pid)
<1>5. /\ jobs' = Collected(queue)
      /\ slots' = slots + Cardinality(started) - Released(queue)
      /\ children' = [p \in Alive \cup fresh |-> IF p \in slow THEN "signal" ELSE "running"]
  BY <1>2 DEF RunAndCollect
<1> HIDE DEF attempted
<1>6. /\ queue \in Seq(Jobs) /\ Len(queue) = Len(jobs)
      /\ fresh \in SUBSET Pids /\ fresh \cap DOMAIN children = {}
      /\ Agree(queue, DOMAIN children \cup fresh)
  BY <1>2, <1>3, ForkedAgrees
<1>7. IsFiniteSet(fresh) /\ Cardinality(fresh) \in Nat /\ Cardinality(fresh) <= Cardinality(started)
  <2>1. pid \in Surjection(started, fresh)
    BY <1>2 DEF Injection, Surjection, Range
  <2> QED
    BY <1>4, <1>6, <2>1, FS_Surjection, PidFacts
<1> HIDE DEF queue, fresh, started
<1>8. /\ Released(queue) \in Nat /\ Cardinality(Alive) \in Nat /\ IsFiniteSet(Alive)
      /\ Released(queue) + Cardinality(Alive) <= Cardinality(DOMAIN children)
  BY <1>6, ReleasedFew DEF Agree
<1>9. jobs' \in Seq(Jobs) /\ Len(jobs') <= Len(jobs) /\ Agree(jobs', Alive \cup fresh)
  BY <1>5, <1>6, CollectedAgrees
<1>10. /\ DOMAIN children' = Alive \cup fresh
       /\ children' \in [DOMAIN children' -> Endings \cup {"running"}]
  BY <1>5 DEF Endings
<1>11. Alive \cup fresh \subseteq Pids
  BY <1>6 DEF Alive, ScriptsInv
<1>12. Cardinality(Alive \cup fresh) \in Nat
       /\ Cardinality(Alive \cup fresh) <= Cardinality(Alive) + Cardinality(fresh)
  <2>1. Cardinality(Alive \cup fresh) =
          Cardinality(Alive) + Cardinality(fresh) - Cardinality(Alive \cap fresh)
    BY <1>7, <1>8, FS_Union
  <2>2. Cardinality(Alive \cap fresh) \in Nat /\ Cardinality(Alive \cup fresh) \in Nat
    BY <1>6, <1>11, PidFacts
  <2> QED
    BY <1>7, <1>8, <2>1, <2>2
<1>13. slots \in Nat /\ Cardinality(DOMAIN children) \in Nat /\ Cardinality(DOMAIN children) <= slots
       /\ Len(jobs) <= MaxQueue /\ MaxQueue \in Nat /\ MaxRunning \in Nat
  BY PidFacts, ScriptsAssumption DEF ScriptsInv
<1>14. slots' \in Nat /\ slots' <= MaxRunning /\ Cardinality(Alive \cup fresh) <= slots'
  BY <1>4, <1>5, <1>7, <1>8, <1>12, <1>13
<1>15. Len(jobs') <= MaxQueue
  <2>1. Len(jobs') \in Nat /\ Len(jobs) \in Nat
    BY <1>9 DEF ScriptsInv
  <2> QED
    BY <1>9, <1>13, <2>1
<1> QED
  BY <1>9, <1>10, <1>11, <1>14, <1>15 DEF ScriptsInv

-----------------------------------------------------------------------------
(* The invariant, and what it implies.                                     *)

(* The invariant holds in every reachable state.                           *)
THEOREM ScriptsInvariance == ScriptsSpec => []ScriptsInv
<1>1. ScriptsInit => ScriptsInv
  BY InitScripts
<1>2. ScriptsInv /\ [ScriptsNext]_scriptsVars => ScriptsInv'
  <2>1. CASE UNCHANGED scriptsVars
    BY <2>1 DEF scriptsVars, ScriptsInv
  <2>2. ASSUME ScriptsInv, ScriptsNext PROVE ScriptsInv'
    BY <2>2, ScheduleScriptStep, ScriptsTimerStep, ScriptEndsStep DEF ScriptsNext
  <2> QED
    BY <2>1, <2>2
<1> QED
  BY <1>1, <1>2, PTL DEF ScriptsSpec

(* Every process is that of one job and every running job has its process; *)
(* processes, slots and queue keep to their limits                         *)
(* (sentinelScheduleScriptExecution(), sentinelRunPendingScripts(),        *)
(* sentinelCollectTerminatedScripts()).                                    *)
THEOREM ScriptsCounted == ScriptsSpec => []ScriptsAreCounted
<1>1. ScriptsInv => ScriptsAreCounted
  BY DEF ScriptsInv, ScriptsAreCounted, JobsAreProcesses, ScriptsBounded, Agree, Distinct
<1> QED
  BY <1>1, ScriptsInvariance, PTL
=============================================================================
