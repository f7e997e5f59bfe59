------------------------- MODULE BlockingLists_proofs -------------------------
(* That waiting clients, the queues of the keys and the ready keys agree,    *)
(* that a replica has the lists of its master, and that nobody waits for a   *)
(* list that is there: for any keys, clients, pushes and commands.           *)
EXTENDS BlockingLists, FiniteSetTheorems, SequenceTheorems, WellFoundedInduction, TLAPS

----------------------------------------------------------------------------
(* The invariant                                                            *)

Values == [kind : {"none", "string", "list"}, items : Seq(Nat)]
Db == [value : [ListKeys -> Values], waiting : [ListKeys -> Seq(ListClients)],
       ready : Seq(ListKeys), signalled : SUBSET ListKeys]
Wait == [keys : SUBSET ListKeys, target : ListKeys \cup {NoKey}, where : Ends, timed : BOOLEAN]
Waiter == [alive : BOOLEAN, blocked : BOOLEAN, flagged : BOOLEAN, owed : Nat, since : Nat, wait : Wait]
Turn == [phase : {"files", "cron", "sleep"}, active : ListClients \cup {NoClient},
         seen : SUBSET ListClients, blocks : Nat]
Serving == [batch : Seq(ListKeys), key : ListKeys \cup {NoKey}, left : Nat]
ListsTyped ==
  /\ db \in Db /\ replica \in Db
  /\ bpop \in [ListClients -> Waiter]
  /\ unblocked \in Seq(ListClients)
  /\ turn \in Turn /\ serving \in Serving /\ pushed \in Nat

(* A list has elements, but for the one that is being served.               *)
FullBut(d, key) == \A k \in ListKeys : IsList(d, k) /\ k # key => d.value[k].items # <<>>

(* A client that has a target pops from the tail.                           *)
TargetsFromTail == \A c \in ListClients : bpop[c].wait.target # NoKey => bpop[c].wait.where = "tail"

(* Who is being processed does not wait, and while the timers are looked at *)
(* there is nobody to serve.                                                *)
OneAtATime ==
  /\ turn.active # NoClient => ~bpop[turn.active].blocked
  /\ turn.phase = "cron" => NobodyActive

(* A client and the keys it waits for.                                      *)
ClientAgrees(c) ==
  /\ \A key \in ListKeys : (c \in ToSet(db.waiting[key])) = (key \in bpop[c].wait.keys)
  /\ bpop[c].blocked = (bpop[c].wait.keys # {})
  /\ bpop[c].owed = (IF bpop[c].blocked THEN 1 ELSE 0)
  /\ bpop[c].flagged => c \in ToSet(unblocked)
ClientsAgree == \A c \in ListClients : ClientAgrees(c)
QueuesAreSets == \A key \in ListKeys : IsInjective(db.waiting[key])

(* The signalled keys are those of ready_keys and those taken from it.      *)
ReadyAgrees(d, taken) ==
  /\ d.signalled = ToSet(d.ready) \cup taken
  /\ IsInjective(d.ready)
  /\ ToSet(d.ready) \cap taken = {}
BatchAgrees == ReadyAgrees(db, ToSet(serving.batch)) /\ IsInjective(serving.batch)

(* The list that is being served is there, and so are its clients.          *)
ServesList ==
  serving.key # NoKey =>
    IsList(db, serving.key) /\ serving.left = Len(db.waiting[serving.key])

(* The replica has not heard yet that the list being served is empty.       *)
Mirrored ==
  replica.value = IF serving.key = NoKey THEN db.value ELSE TrimEmpty(db, serving.key).value

(* Queues are in the order in which their clients blocked.                  *)
InOrder(s) == \A i, j \in 1 .. Len(s) : i < j => bpop[s[i]].since <= bpop[s[j]].since
EldersFirst ==
  /\ \A c \in ListClients : bpop[c].since <= turn.blocks
  /\ \A key \in ListKeys : InOrder(db.waiting[key])

ListsInv ==
  /\ ListsTyped /\ FullBut(db, serving.key) /\ TargetsFromTail /\ OneAtATime
  /\ ClientsAgree /\ QueuesAreSets /\ EldersFirst /\ BatchAgrees /\ ServesList /\ Mirrored

(* A list that clients wait for is ready, or being served.                  *)
Awake ==
  \A k \in ListKeys : IsList(db, k) /\ db.waiting[k] # <<>> => k \in db.signalled \cup {serving.key}
NoStrings(d) == \A k \in ListKeys : d.value[k].kind # "string"

(* SORT with STORE is not used, or there are no strings to use it over.     *)
NoStringsOrSorts ==
  \/ chance["sort"] = 0
  \/ chance["set"] = 0 /\ chance["exec"] = 0 /\ NoStrings(db)
AwakeInv == chance \in [ListChance -> Nat] /\ NoStringsOrSorts /\ Awake

----------------------------------------------------------------------------
(* Sequences                                                                *)

(* A bounded non-empty set of numbers has a least element.                  *)
LEMMA Least ==
  ASSUME NEW n \in Nat, NEW S \in SUBSET (0 .. n), S # {}
  PROVE  \E m \in S : \A k \in S : m <= k
<1> DEFINE Below(i) == {k \in S : k < i}
           T == {Below(i) : i \in S}
           R == StrictSubsetOrdering(0 .. n)
           U == FiniteSubsetsOf(0 .. n)
<1>1. IsWellFoundedOn(R, U)
  BY FS_StrictSubsetOrderingWellFounded
<1>2. IsFiniteSet(0 .. n)
  BY FS_Interval
<1>3. T \subseteq U /\ T # {}
  <2>1. U = SUBSET (0 .. n)
    BY <1>2, FS_FiniteSubsetsOfFinite
  <2>2. \A i \in S : Below(i) \in SUBSET (0 .. n)
    OBVIOUS
  <2> HIDE DEF U, Below
  <2> QED BY <2>1, <2>2
<1>4. PICK B \in T : \A C \in T : <<C, B>> \notin R
  <2> HIDE DEF T, R, U
  <2> QED BY <1>1, <1>3, WFMin
<1>5. PICK m \in S : B = Below(m)
  BY <1>4
<1>6. ASSUME NEW k \in S, k < m
      PROVE  FALSE
  <2>1. k \in Int /\ m \in Int /\ \A j \in S : j \in Int
    OBVIOUS
  <2>2. Below(k) \subseteq Below(m) /\ k \in Below(m) /\ k \notin Below(k)
    <3>1. ASSUME NEW j \in Below(k) PROVE j \in S /\ j < m
      BY <1>6, <2>1
    <3>2. ~(k < k)
      BY <2>1
    <3> QED BY <1>6, <3>1, <3>2
  <2>3. Below(k) \in SUBSET (0 .. n) /\ Below(m) \in SUBSET (0 .. n) /\ Below(k) \in T
    OBVIOUS
  <2>4. <<Below(k), Below(m)>> \in R
    BY <2>2, <2>3 DEF StrictSubsetOrdering
  <2> QED BY <1>4, <1>5, <2>3, <2>4
<1>7. \A k \in S : k \in Int
  OBVIOUS
<1> QED BY <1>6, <1>7

(* The elements of a finite set of numbers, counted from the smallest.      *)
LEMMA EarlierFacts ==
  ASSUME NEW S \in SUBSET Nat, IsFiniteSet(S), NEW i \in S
  PROVE  /\ Cardinality(Earlier(S, i)) \in Nat
         /\ Cardinality(Earlier(S, i)) < Cardinality(S)
         /\ \A j \in S : i < j => Cardinality(Earlier(S, i)) < Cardinality(Earlier(S, j))
<1>1. ASSUME NEW T \in SUBSET S, Earlier(S, i) \subseteq T, i \in T
      PROVE  /\ Cardinality(Earlier(S, i)) \in Nat /\ Cardinality(T) \in Nat
             /\ Cardinality(Earlier(S, i)) < Cardinality(T)
  <2>1. IsFiniteSet(T) /\ IsFiniteSet(Earlier(S, i))
    BY <1>1, FS_Subset DEF Earlier
  <2>2. Cardinality(Earlier(S, i)) \in Nat /\ Cardinality(T) \in Nat
    BY <2>1, FS_CardinalityType
  <2>3. i \notin Earlier(S, i)
    <3>1. i \in Nat
      OBVIOUS
    <3> QED
      BY <3>1 DEF Earlier
  <2>4. Cardinality(Earlier(S, i)) <= Cardinality(T)
        /\ (Cardinality(T) = Cardinality(Earlier(S, i)) => T = Earlier(S, i))
    BY <1>1, <2>1, FS_Subset
  <2> QED
    BY <1>1, <2>2, <2>3, <2>4
<1>2. Earlier(S, i) \subseteq S
  BY DEF Earlier
<1>3. ASSUME NEW j \in S, i < j
      PROVE  Cardinality(Earlier(S, i)) < Cardinality(Earlier(S, j))
  <2>0. i \in Nat /\ j \in Nat /\ \A k \in S : k \in Nat
    OBVIOUS
  <2>1. \A k \in S : k < i => k < j
    BY <1>3, <2>0
  <2>2. Earlier(S, i) \subseteq Earlier(S, j) /\ i \in Earlier(S, j) /\ Earlier(S, j) \in SUBSET S
    BY <1>3, <2>1 DEF Earlier
  <2> QED
    BY <1>1, <2>2
<1> QED
  BY <1>1, <1>2, <1>3

LEMMA NthOfFacts ==
  ASSUME NEW S \in SUBSET Nat, IsFiniteSet(S)
  PROVE  \A n \in 1 .. Cardinality(S) : NthOf(S, n) \in S
<1> DEFINE rank == [i \in S |-> Cardinality(Earlier(S, i)) + 1]
           T == 1 .. Cardinality(S)
<1>1. Cardinality(S) \in Nat /\ IsFiniteSet(T) /\ Cardinality(T) = Cardinality(S)
  <2>1. Cardinality(S) \in Nat
    BY FS_CardinalityType
  <2> QED
    BY <2>1, FS_Interval
<1>2. \A i \in S : rank[i] \in T
  BY <1>1, EarlierFacts
<1>3. \A i, j \in S : rank[i] = rank[j] => i = j
  <2> SUFFICES ASSUME NEW i \in S, NEW j \in S, i # j PROVE rank[i] # rank[j]
    OBVIOUS
  <2>1. CASE i < j
    BY <2>1, EarlierFacts
  <2>2. CASE j < i
    BY <2>2, EarlierFacts
  <2> QED
    BY <2>1, <2>2
<1>4. rank \in Injection(S, T)
  BY <1>2, <1>3 DEF Injection, IsInjective
<1>5. rank \in Surjection(S, T)
  BY <1>1, <1>4, FS_Injection
<1>6. \A n \in T : \E i \in S : Cardinality(Earlier(S, i)) = n - 1
  <2> SUFFICES ASSUME NEW n \in T PROVE \E i \in S : Cardinality(Earlier(S, i)) = n - 1
    OBVIOUS
  <2>1. PICK i \in S : rank[i] = n
    BY <1>5 DEF Surjection
  <2>2. Cardinality(Earlier(S, i)) \in Nat
    BY EarlierFacts
  <2> QED
    BY <2>1, <2>2
<1>7. \A n \in T : NthOf(S, n) \in S /\ Cardinality(Earlier(S, NthOf(S, n))) = n - 1
  BY <1>6 DEF NthOf
<1> QED
  BY <1>7

LEMMA After ==
  ASSUME NEW n \in Nat, NEW m \in 1 .. n
  PROVE  /\ n - (m + 1) + 1 = n - m /\ (~(m + 1 <= n) => n - m = 0)
         /\ \A i \in 1 .. n - m : m + 1 + i - 1 = m + i
  OBVIOUS

(* What RemoveFirst() leaves of a sequence.                                 *)
LEMMA Removed ==
  ASSUME NEW S, NEW s \in Seq(S), NEW c
  PROVE  /\ RemoveFirst(s, c) \in Seq(S)
         /\ c \notin ToSet(s) => RemoveFirst(s, c) = s
         /\ ToSet(RemoveFirst(s, c)) \subseteq ToSet(s)
         /\ ToSet(s) \subseteq ToSet(RemoveFirst(s, c)) \cup {c}
         /\ c \in ToSet(s) => Len(RemoveFirst(s, c)) = Len(s) - 1
         /\ IsInjective(s) => c \notin ToSet(RemoveFirst(s, c)) /\ IsInjective(RemoveFirst(s, c))
         /\ \A i, j \in 1 .. Len(RemoveFirst(s, c)) :
              i < j => \E x, y \in 1 .. Len(s) :
                         x < y /\ RemoveFirst(s, c)[i] = s[x] /\ RemoveFirst(s, c)[j] = s[y]
<1> DEFINE I == {i \in 1 .. Len(s) : s[i] = c}
<1>0. Len(s) \in Nat /\ DOMAIN s = 1 .. Len(s) /\ \A i \in 1 .. Len(s) : s[i] \in S
  BY LenProperties, ElementOfSeq
<1>1. ToSet(s) = {s[i] : i \in 1 .. Len(s)}
  BY <1>0 DEF ToSet
<1>2. CASE c \notin ToSet(s)
  <2>1. ~ \E i \in 1 .. Len(s) : s[i] = c
    BY <1>1, <1>2
  <2>2. RemoveFirst(s, c) = s
    BY <2>1 DEF RemoveFirst
  <2> QED BY <1>2, <2>2
<1>3. CASE c \in ToSet(s)
  <2>1. (\E i \in 1 .. Len(s) : s[i] = c) /\ I # {}
    BY <1>1, <1>3
  <2> DEFINE m == CHOOSE x \in I : \A y \in I : x <= y
  <2>2. \E x \in I : \A y \in I : x <= y
    <3>1. I \in SUBSET (0 .. Len(s))
      BY <1>0
    <3> HIDE DEF I
    <3> QED BY <1>0, <2>1, <3>1, Least
  <2>3. m \in I
    BY <2>2
  <2>4. RemoveFirst(s, c) = SubSeq(s, 1, m - 1) \o SubSeq(s, m + 1, Len(s))
    <3>1. SelectInSeq(s, LAMBDA v : v = c) = m
      BY <2>1 DEF SelectInSeq, Min
    <3> QED BY <2>1, <3>1 DEF RemoveFirst, RemoveAt
  <2>5. m \in 1 .. Len(s) /\ s[m] = c
    BY <2>3
  <2> DEFINE a == SubSeq(s, 1, m - 1)
             b == SubSeq(s, m + 1, Len(s))
             r == RemoveFirst(s, c)
  <2> HIDE DEF m, I
  <2>6. /\ a \in Seq(S) /\ Len(a) = m - 1
        /\ \A i \in 1 .. m - 1 : a[i] = s[i]
    <3>1. m - 1 \in Int /\ 1 \in Int /\ \A i \in 1 .. m - 1 : s[i] \in S
      BY <1>0, <2>5
    <3>2. /\ a \in Seq(S) /\ Len(a) = IF 1 <= m - 1 THEN m - 1 - 1 + 1 ELSE 0
          /\ \A i \in 1 .. m - 1 - 1 + 1 : a[i] = s[1 + i - 1]
      BY <3>1, SubSeqProperties
    <3> HIDE DEF a
    <3> QED BY <1>0, <2>5, <3>2
  <2>7. /\ b \in Seq(S) /\ Len(b) = Len(s) - m
        /\ \A i \in 1 .. Len(s) - m : b[i] = s[m + i]
    <3>1. m + 1 \in Int /\ Len(s) \in Int /\ \A i \in m + 1 .. Len(s) : s[i] \in S
      BY <1>0, <2>5
    <3>2. /\ b \in Seq(S) /\ Len(b) = IF m + 1 <= Len(s) THEN Len(s) - (m + 1) + 1 ELSE 0
          /\ \A i \in 1 .. Len(s) - (m + 1) + 1 : b[i] = s[m + 1 + i - 1]
      BY <3>1, SubSeqProperties
    <3> HIDE DEF b
    <3>3. /\ Len(s) - (m + 1) + 1 = Len(s) - m /\ (~(m + 1 <= Len(s)) => Len(s) - m = 0)
          /\ \A i \in 1 .. Len(s) - m : m + 1 + i - 1 = m + i
      BY <1>0, <2>5, After
    <3> QED BY <3>2, <3>3
  <2>8. /\ r \in Seq(S) /\ Len(r) = Len(a) + Len(b)
        /\ \A i \in 1 .. Len(a) + Len(b) : r[i] = IF i <= Len(a) THEN a[i] ELSE b[i - Len(a)]
    <3> HIDE DEF a, b
    <3>1. r = a \o b
      BY <2>4 DEF a, b
    <3> HIDE DEF r
    <3> QED BY <2>6, <2>7, <3>1, ConcatProperties
  <2> HIDE DEF a, b, r
  <2>9. /\ Len(r) = Len(s) - 1
        /\ \A i \in 1 .. Len(s) - 1 : r[i] = IF i < m THEN s[i] ELSE s[i + 1]
    <3>1. Len(a) + Len(b) = Len(s) - 1
      BY <1>0, <2>5, <2>6, <2>7
    <3>2. ASSUME NEW i \in 1 .. Len(s) - 1, i < m PROVE r[i] = s[i]
      <4>1. i <= Len(a) /\ i \in 1 .. m - 1
        BY <1>0, <2>5, <2>6, <3>2
      <4> QED BY <2>6, <2>8, <3>1, <4>1
    <3>3. ASSUME NEW i \in 1 .. Len(s) - 1, ~(i < m) PROVE r[i] = s[i + 1]
      <4>1. ~(i <= Len(a)) /\ i - Len(a) \in 1 .. Len(s) - m /\ m + (i - Len(a)) = i + 1
        BY <1>0, <2>5, <2>6, <3>3
      <4> QED BY <2>7, <2>8, <3>1, <4>1
    <3> QED BY <2>8, <3>1, <3>2, <3>3
  <2>10. ToSet(r) = {r[i] : i \in 1 .. Len(s) - 1} /\ DOMAIN r = 1 .. Len(s) - 1
    <3>1. r \in Seq(S) /\ Len(r) = Len(s) - 1
      BY <2>8, <2>9
    <3>2. DOMAIN r = 1 .. Len(r)
      BY <3>1, LenProperties
    <3>3. DOMAIN r = 1 .. Len(s) - 1
      BY <3>1, <3>2
    <3> QED BY <3>3 DEF ToSet
  <2>11. ToSet(r) \subseteq ToSet(s)
    <3> SUFFICES ASSUME NEW i \in 1 .. Len(s) - 1 PROVE r[i] \in ToSet(s)
      BY <2>10
    <3>1. i \in 1 .. Len(s) /\ i + 1 \in 1 .. Len(s)
      BY <1>0
    <3> QED BY <1>1, <2>9, <3>1
  <2>12. ToSet(s) \subseteq ToSet(r) \cup {c}
    <3> SUFFICES ASSUME NEW i \in 1 .. Len(s), i # m PROVE s[i] \in ToSet(r)
      BY <1>1, <2>5
    <3>1. CASE i < m
      <4>1. i \in 1 .. Len(s) - 1
        BY <1>0, <2>5, <3>1
      <4>2. r[i] = s[i]
        BY <2>9, <3>1, <4>1
      <4> QED BY <2>10, <4>1, <4>2
    <3>2. CASE i > m
      <4>1. i - 1 \in 1 .. Len(s) - 1 /\ ~(i - 1 < m) /\ i - 1 + 1 = i
        BY <1>0, <2>5, <3>2
      <4>2. r[i - 1] = s[i]
        BY <2>9, <4>1
      <4> QED BY <2>10, <4>1, <4>2
    <3> QED BY <1>0, <2>5, <3>1, <3>2
  <2>13. ASSUME IsInjective(s) PROVE c \notin ToSet(r) /\ IsInjective(r)
    <3> DEFINE old(i) == IF i < m THEN i ELSE i + 1
    <3>1. \A i \in 1 .. Len(s) - 1 : old(i) \in 1 .. Len(s) /\ old(i) # m /\ r[i] = s[old(i)]
      BY <1>0, <2>5, <2>9
    <3>2. \A i, j \in 1 .. Len(s) - 1 : old(i) = old(j) => i = j
      BY <1>0, <2>5
    <3> HIDE DEF old
    <3>3. \A i, j \in 1 .. Len(s) : s[i] = s[j] => i = j
      BY <1>0, <2>13 DEF IsInjective
    <3>4. c \notin ToSet(r)
      BY <2>5, <2>10, <3>1, <3>3
    <3>5. \A i, j \in 1 .. Len(s) - 1 : r[i] = r[j] => i = j
      BY <3>1, <3>2, <3>3
    <3> QED BY <2>10, <3>4, <3>5 DEF IsInjective
  <2>14. \A i, j \in 1 .. Len(r) : i < j => \E x, y \in 1 .. Len(s) : x < y /\ r[i] = s[x] /\ r[j] = s[y]
    <3> SUFFICES ASSUME NEW i \in 1 .. Len(r), NEW j \in 1 .. Len(r), i < j
                 PROVE  \E x, y \in 1 .. Len(s) : x < y /\ r[i] = s[x] /\ r[j] = s[y]
      OBVIOUS
    <3> DEFINE old(n) == IF n < m THEN n ELSE n + 1
    <3>1. \A n \in 1 .. Len(s) - 1 : old(n) \in 1 .. Len(s) /\ r[n] = s[old(n)]
      BY <1>0, <2>5, <2>9
    <3>2. i \in 1 .. Len(s) - 1 /\ j \in 1 .. Len(s) - 1
      BY <2>9
    <3>3. old(i) < old(j)
      BY <1>0, <2>5, <3>2
    <3> HIDE DEF old
    <3> QED BY <3>1, <3>2, <3>3
  <2> QED BY <1>3, <2>8, <2>9, <2>11, <2>12, <2>13, <2>14 DEF r
<1> QED BY <1>2, <1>3

LEMMA AppendedSet ==
  ASSUME NEW S, NEW s \in Seq(S), NEW e \in S
  PROVE  /\ Append(s, e) \in Seq(S)
         /\ ToSet(Append(s, e)) = ToSet(s) \cup {e}
         /\ IsInjective(s) /\ e \notin ToSet(s) => IsInjective(Append(s, e))
         /\ Len(s) \in Nat /\ Len(Append(s, e)) = Len(s) + 1 /\ Append(s, e)[Len(s) + 1] = e
         /\ \A i \in 1 .. Len(s) : Append(s, e)[i] = s[i]
<1> DEFINE t == Append(s, e)
<1>1. Len(s) \in Nat /\ DOMAIN s = 1 .. Len(s)
  BY LenProperties
<1>2. /\ t \in Seq(S) /\ Len(t) = Len(s) + 1
      /\ \A i \in 1 .. Len(s) : t[i] = s[i]
      /\ t[Len(s) + 1] = e
  BY <1>1, AppendProperties
<1>3. DOMAIN t = 1 .. Len(s) + 1
  BY <1>2, LenProperties
<1> HIDE DEF t
<1>4. \A i \in 1 .. Len(s) + 1 : i \in 1 .. Len(s) \/ i = Len(s) + 1
  BY <1>1
<1>5. \A i \in 1 .. Len(s) : i \in 1 .. Len(s) + 1
  BY <1>1
<1>6. Len(s) + 1 \in 1 .. Len(s) + 1
  BY <1>1
<1>7. ToSet(t) = ToSet(s) \cup {e}
  BY <1>1, <1>2, <1>3, <1>4, <1>5, <1>6 DEF ToSet
<1>8. IsInjective(s) /\ e \notin ToSet(s) => IsInjective(t)
  BY <1>1, <1>2, <1>3, <1>4 DEF ToSet, IsInjective
<1> QED BY <1>1, <1>2, <1>7, <1>8 DEF t

----------------------------------------------------------------------------
(* What a command does to a dataset                                         *)

(* It blocks and serves nobody, and signals only keys not signalled yet.    *)
Keeps(d, e) ==
  /\ e \in Db /\ e.waiting = d.waiting /\ d.signalled \subseteq e.signalled
  /\ \A taken \in SUBSET ListKeys : ReadyAgrees(d, taken) => ReadyAgrees(e, taken)

(* A key that becomes a list is signalled if somebody waits for it.         *)
Loud(d, e) ==
  \A k \in ListKeys : IsList(e, k) /\ d.waiting[k] # <<>> => IsList(d, k) \/ k \in e.signalled

(* d2 is what a command makes of d; it makes e2 of the dataset of a replica.*)
Acts(d, d2, e2) == Keeps(d, d2) /\ e2 \in Db /\ e2.value = d2.value
Does(d, d2, e2) == Acts(d, d2, e2) /\ Loud(d, d2) /\ (NoStrings(d) => NoStrings(d2))

Assigns(d, e, key, v) == Keeps(d, e) /\ e.value = [d.value EXCEPT ![key] = v]

LEMMA KeepsTransitive ==
  ASSUME NEW d, NEW e, NEW f, Keeps(d, e), Keeps(e, f)
  PROVE  Keeps(d, f)
  BY DEF Keeps

LEMMA LoudTransitive ==
  ASSUME NEW d, NEW e, NEW f, Keeps(d, e), Keeps(e, f), Loud(d, e), Loud(e, f)
  PROVE  Loud(d, f)
  BY DEF Keeps, Loud

LEMMA ActsTransitive ==
  ASSUME NEW d, NEW d2, NEW e2, NEW d3, NEW e3, Acts(d, d2, e2), Acts(d2, d3, e3)
  PROVE  Acts(d, d3, e3)
  BY KeepsTransitive DEF Acts

LEMMA DoesTransitive ==
  ASSUME NEW d, NEW d2, NEW e2, NEW d3, NEW e3, Does(d, d2, e2), Does(d2, d3, e3)
  PROVE  Does(d, d3, e3)
<1>1. Acts(d, d3, e3)
  BY ActsTransitive DEF Does
<1>2. Loud(d, d3)
  BY LoudTransitive DEF Does, Acts
<1> QED BY <1>1, <1>2 DEF Does

LEMMA DoesNothing ==
  ASSUME NEW d \in Db, NEW e \in Db, e.value = d.value
  PROVE  Does(d, d, e)
  BY DEF Does, Acts, Keeps, Loud

LEMMA SignalledKeeps ==
  ASSUME NEW d \in Db, NEW key \in ListKeys
  PROVE  LET e == Signalled(d, key)
         IN  Keeps(d, e) /\ e.value = d.value /\ (d.waiting[key] # <<>> => key \in e.signalled)
<1>1. CASE d.waiting[key] = <<>> \/ key \in d.signalled
  BY <1>1 DEF Signalled, Keeps
<1>2. CASE ~(d.waiting[key] = <<>> \/ key \in d.signalled)
  <2> DEFINE e == [d EXCEPT !.ready = Append(@, key), !.signalled = @ \cup {key}]
  <2>1. Signalled(d, key) = e
    BY <1>2 DEF Signalled
  <2>2. d.ready \in Seq(ListKeys) /\ d.signalled \in SUBSET ListKeys
    BY DEF Db
  <2>3. /\ e.value = d.value /\ e.waiting = d.waiting
        /\ e.ready = Append(d.ready, key) /\ e.signalled = d.signalled \cup {key}
    BY DEF Db
  <2>4. Append(d.ready, key) \in Seq(ListKeys)
    BY <2>2
  <2>5. e \in Db
    BY <2>2, <2>4 DEF Db
  <2> HIDE DEF e
  <2>6. ASSUME NEW taken \in SUBSET ListKeys, ReadyAgrees(d, taken)
        PROVE  ReadyAgrees(e, taken)
    <3>1. key \notin ToSet(d.ready) /\ key \notin taken
      BY <1>2, <2>6 DEF ReadyAgrees
    <3>2. ToSet(e.ready) = ToSet(d.ready) \cup {key} /\ IsInjective(e.ready)
      BY <2>2, <2>3, <2>6, <3>1, AppendedSet DEF ReadyAgrees
    <3> QED BY <2>3, <2>6, <3>1, <3>2 DEF ReadyAgrees
  <2> QED BY <2>1, <2>3, <2>5, <2>6 DEF Keeps
<1> QED BY <1>1, <1>2

LEMMA WithValueAssigns ==
  ASSUME NEW d \in Db, NEW key \in ListKeys, NEW v \in Values
  PROVE  /\ Assigns(d, WithValue(d, key, v), key, v)
         /\ IsList(d, key) \/ v.kind # "list" => Loud(d, WithValue(d, key, v))
<1> DEFINE e == WithValue(d, key, v)
<1>1. /\ e.value = [d.value EXCEPT ![key] = v] /\ e.waiting = d.waiting
      /\ e.ready = d.ready /\ e.signalled = d.signalled
  BY DEF WithValue, Db
<1>2. e \in Db
  BY DEF WithValue, Db
<1>3. \A k \in ListKeys : e.value[k] = IF k = key THEN v ELSE d.value[k]
  BY <1>1 DEF Db
<1> HIDE DEF e
<1>4. Keeps(d, e)
  BY <1>1, <1>2 DEF Keeps, ReadyAgrees
<1>5. IsList(d, key) \/ v.kind # "list" => Loud(d, e)
  BY <1>1, <1>3 DEF Loud, IsList
<1> QED BY <1>1, <1>4, <1>5 DEF e, Assigns

LEMMA DbAddAssigns ==
  ASSUME NEW d \in Db, NEW key \in ListKeys, NEW v \in Values
  PROVE  Assigns(d, DbAdd(d, key, v), key, v) /\ Loud(d, DbAdd(d, key, v))
<1> DEFINE e == WithValue(d, key, v)
           f == DbAdd(d, key, v)
<1>1. Assigns(d, e, key, v) /\ (v.kind # "list" => Loud(d, e))
  BY WithValueAssigns
<1>2. CASE v.kind # "list"
  BY <1>1, <1>2 DEF DbAdd
<1>3. CASE v.kind = "list"
  <2>1. e \in Db /\ f = Signalled(e, key) /\ e.waiting = d.waiting
        /\ e.value = [d.value EXCEPT ![key] = v]
    BY <1>1, <1>3 DEF DbAdd, Assigns, Keeps
  <2>2. Keeps(e, f) /\ f.value = e.value /\ (d.waiting[key] # <<>> => key \in f.signalled)
    BY <2>1, SignalledKeeps
  <2>3. \A k \in ListKeys : k # key => f.value[k] = d.value[k]
    BY <2>1, <2>2 DEF Db
  <2>4. Loud(d, f)
    BY <2>2, <2>3 DEF Loud, IsList
  <2> QED BY <1>1, <2>1, <2>2, <2>4, KeepsTransitive DEF Assigns
<1> QED BY <1>2, <1>3

LEMMA AssignBoth ==
  ASSUME NEW d \in Db, NEW e \in Db, e.value = d.value, NEW key \in ListKeys, NEW v,
         NEW d2, NEW e2, Assigns(d, d2, key, v), Assigns(e, e2, key, v)
  PROVE  /\ Acts(d, d2, e2)
         /\ (NoStrings(d) => v.kind # "string") => (NoStrings(d) => NoStrings(d2))
         /\ Loud(d, d2) /\ (NoStrings(d) => v.kind # "string") => Does(d, d2, e2)
<1>1. \A k \in ListKeys : d2.value[k] = IF k = key THEN v ELSE d.value[k]
  BY DEF Assigns, Db
<1>2. (NoStrings(d) => v.kind # "string") => (NoStrings(d) => NoStrings(d2))
  BY <1>1 DEF NoStrings
<1>3. Acts(d, d2, e2)
  BY DEF Acts, Assigns, Keeps
<1> QED BY <1>2, <1>3 DEF Does

LEMMA FullAssigned ==
  ASSUME NEW d \in Db, NEW key \in ListKeys, NEW v, NEW e, Assigns(d, e, key, v),
         NEW x, FullBut(d, x), key = x \/ (v.kind = "list" => v.items # <<>>)
  PROVE  FullBut(e, x)
<1>1. \A k \in ListKeys : e.value[k] = IF k = key THEN v ELSE d.value[k]
  BY DEF Assigns, Db
<1> QED BY <1>1 DEF FullBut, IsList

----------------------------------------------------------------------------
(* The operations on one list                                               *)

LEMMA UpTo ==
  ASSUME NEW n \in Nat \ {0}
  PROVE  /\ n - 1 - 1 + 1 = n - 1 /\ (~(1 <= n - 1) => n - 1 = 0)
         /\ \A i \in 1 .. n - 1 : 1 + i - 1 = i
  OBVIOUS

LEMMA EndFacts ==
  ASSUME NEW items \in Seq(Nat), items # <<>>, NEW where \in Ends
  PROVE  /\ End(items, where) \in Nat /\ Popped(items, where) \in Seq(Nat)
         /\ Pushed(Popped(items, where), End(items, where), where) = items
<1>1. Len(items) \in Nat \ {0} /\ \A i \in 1 .. Len(items) : items[i] \in Nat
  BY EmptySeq, ElementOfSeq
<1>2. CASE where = "head"
  <2>1. End(items, where) = items[1] /\ Popped(items, where) = Tail(items)
    BY <1>2 DEF End, Popped
  <2> DEFINE t == Tail(items)
             h == items[1]
             one == <<h>>
  <2>2. h \in Nat
    BY <1>1
  <2>3. t \in Seq(Nat) /\ Len(t) = Len(items) - 1 /\ \A i \in 1 .. Len(t) : t[i] = items[i + 1]
    BY HeadTailProperties
  <2>4. one \in Seq(Nat) /\ Len(one) = 1 /\ one[1] = h
    BY <2>2
  <2>5. Pushed(Popped(items, where), End(items, where), where) = one \o t
    BY <1>2, <2>1 DEF Pushed
  <2> HIDE DEF t, h, one
  <2> DEFINE both == one \o t
  <2>6. /\ both \in Seq(Nat) /\ Len(both) = Len(one) + Len(t)
        /\ \A i \in 1 .. Len(one) + Len(t) : both[i] = IF i <= Len(one) THEN one[i] ELSE t[i - Len(one)]
    <3>1. both = one \o t
      OBVIOUS
    <3> HIDE DEF both
    <3> QED BY <2>3, <2>4, <3>1, ConcatProperties
  <2> HIDE DEF both
  <2>7. Len(both) = Len(items)
    BY <1>1, <2>3, <2>4, <2>6
  <2>8. ASSUME NEW i \in 1 .. Len(items) PROVE both[i] = items[i]
    <3>1. CASE i = 1
      BY <1>1, <2>3, <2>4, <2>6, <3>1 DEF h
    <3>2. CASE i # 1
      <4>1. i \in 1 .. 1 + Len(t) /\ ~(i <= 1) /\ i - 1 \in 1 .. Len(t) /\ (i - 1) + 1 = i
        BY <1>1, <2>3, <3>2
      <4>2. both[i] = t[i - 1]
        BY <2>4, <2>6, <4>1
      <4> QED BY <2>3, <4>1, <4>2
    <3> QED BY <3>1, <3>2
  <2>9. both = items
    BY <2>6, <2>7, <2>8, SeqEqual
  <2>10. Pushed(Popped(items, where), End(items, where), where) = items
    BY <2>5, <2>9 DEF both
  <2> QED BY <2>1, <2>2, <2>3, <2>10 DEF t, h
<1>3. CASE where # "head"
  <2> DEFINE f == SubSeq(items, 1, Len(items) - 1)
             l == items[Len(items)]
             a == Append(f, l)
  <2>1. End(items, where) = l /\ Popped(items, where) = f
    BY <1>3 DEF End, Popped, Front
  <2>2. l \in Nat
    BY <1>1
  <2>3. /\ f \in Seq(Nat) /\ Len(f) = Len(items) - 1
        /\ \A i \in 1 .. Len(items) - 1 : f[i] = items[i]
    <3>1. Len(items) - 1 \in Int /\ 1 \in Int /\ \A i \in 1 .. Len(items) - 1 : items[i] \in Nat
      BY <1>1
    <3>2. /\ f \in Seq(Nat) /\ Len(f) = IF 1 <= Len(items) - 1 THEN Len(items) - 1 - 1 + 1 ELSE 0
          /\ \A i \in 1 .. Len(items) - 1 - 1 + 1 : f[i] = items[1 + i - 1]
      BY <3>1, SubSeqProperties
    <3> HIDE DEF f
    <3>3. /\ Len(items) - 1 - 1 + 1 = Len(items) - 1 /\ (~(1 <= Len(items) - 1) => Len(items) - 1 = 0)
          /\ \A i \in 1 .. Len(items) - 1 : 1 + i - 1 = i
      BY <1>1, UpTo
    <3> QED BY <3>2, <3>3
  <2>4. Pushed(Popped(items, where), End(items, where), where) = a
    BY <1>3, <2>1 DEF Pushed
  <2> HIDE DEF f
  <2>5. /\ a \in Seq(Nat) /\ Len(a) = Len(f) + 1
        /\ \A i \in 1 .. Len(f) : a[i] = f[i]
        /\ a[Len(f) + 1] = l
    BY <2>2, <2>3, AppendProperties
  <2> HIDE DEF a
  <2>6. Len(a) = Len(items)
    BY <1>1, <2>3, <2>5
  <2>7. ASSUME NEW i \in 1 .. Len(items) PROVE a[i] = items[i]
    <3>1. CASE i = Len(items)
      <4>1. Len(f) + 1 = i
        BY <1>1, <2>3, <3>1
      <4> QED BY <2>5, <3>1, <4>1
    <3>2. CASE i # Len(items)
      <4>1. i \in 1 .. Len(items) - 1
        BY <1>1, <3>2
      <4> QED BY <2>3, <2>5, <4>1
    <3> QED BY <3>1, <3>2
  <2>8. a = items
    BY <2>5, <2>6, <2>7, SeqEqual
  <2> HIDE DEF l
  <2> QED BY <2>1, <2>2, <2>3, <2>4, <2>8
<1> QED BY <1>2, <1>3

LEMMA PushedFacts ==
  ASSUME NEW items \in Seq(Nat), NEW element \in Nat, NEW where \in Ends
  PROVE  /\ Pushed(items, element, where) \in Seq(Nat) /\ Pushed(items, element, where) # <<>>
         /\ Pushed(<<>>, element, "head") = <<element>>
<1> DEFINE one == <<element>>
<1>1. one \in Seq(Nat) /\ one # <<>>
  OBVIOUS
<1>2. Pushed(<<>>, element, "head") = one
  <2>1. Pushed(<<>>, element, "head") = one \o <<>>
    BY DEF Pushed
  <2> HIDE DEF one
  <2> QED BY <1>1, <2>1, ConcatEmptySeq
<1>3. CASE where = "head"
  <2>1. Pushed(items, element, where) = one \o items
    BY <1>3 DEF Pushed
  <2> HIDE DEF one
  <2>2. one \o items \in Seq(Nat) /\ one \o items # <<>>
    BY <1>1, ConcatProperties, ConcatEqualIffEmpty
  <2> QED BY <1>2, <2>1, <2>2 DEF one
<1>4. CASE where # "head"
  <2>1. Pushed(items, element, where) = Append(items, element)
    BY <1>4 DEF Pushed
  <2> QED BY <1>2, <2>1, AppendProperties
<1> QED BY <1>3, <1>4

LEMMA AListFacts ==
  ASSUME NEW items
  PROVE  /\ AList(items).kind = "list" /\ AList(items).items = items
         /\ items \in Seq(Nat) => AList(items) \in Values
  BY DEF AList, Value, Values

LEMMA OtherValues ==
  /\ NoValue \in Values /\ NoValue.kind = "none"
  /\ AString \in Values /\ AString.kind = "string"
<1>1. <<>> \in Seq(Nat)
  BY EmptySeq
<1> QED BY <1>1 DEF NoValue, AString, Value, Values

LEMMA ValueType ==
  ASSUME NEW d \in Db, NEW key \in ListKeys
  PROVE  d.value[key] \in Values /\ d.value[key].items \in Seq(Nat)
  BY DEF Db, Values

(* The length is that of the sequence.                                      *)
LEMMA NoLength ==
  ASSUME NEW d \in Db, NEW key \in ListKeys
  PROVE  /\ Length(d, key) = 0 <=> d.value[key].items = <<>>
         /\ Length(d, key) > 0 <=> d.value[key].items # <<>>
         /\ Length(d, key) \in Nat
<1> DEFINE s == d.value[key].items
<1>1. s \in Seq(Nat)
  BY ValueType
<1>2. Length(d, key) = Len(s)
  BY DEF Length
<1> HIDE DEF s
<1>3. (s # <<>> => Len(s) \in Nat \ {0}) /\ Len(s) \in Nat
  BY <1>1, EmptySeq, LenProperties
<1>4. s = <<>> => Len(s) = 0
  BY EmptySeq
<1> QED BY <1>2, <1>3, <1>4 DEF s

LEMMA RawPopAssigns ==
  ASSUME NEW d \in Db, NEW key \in ListKeys, NEW where \in Ends,
         IsList(d, key), d.value[key].items # <<>>
  PROVE  LET e == RawPop(d, key, where)
         IN  Assigns(d, e, key, AList(Popped(d.value[key].items, where))) /\ Loud(d, e)
<1> DEFINE s == d.value[key].items
<1>1. s \in Seq(Nat)
  BY ValueType
<1>2. Popped(s, where) \in Seq(Nat)
  <2> HIDE DEF s
  <2> QED BY <1>1, EndFacts DEF s
<1> DEFINE v == AList(Popped(s, where))
<1>3. v \in Values
  BY <1>2, AListFacts
<1> HIDE DEF v
<1>4. Assigns(d, WithValue(d, key, v), key, v) /\ Loud(d, WithValue(d, key, v))
  BY <1>3, WithValueAssigns
<1> QED BY <1>4 DEF RawPop, v

LEMMA TrimAssigns ==
  ASSUME NEW d \in Db, NEW key \in ListKeys
  PROVE  LET e == TrimEmpty(d, key)
             v == IF IsList(d, key) /\ d.value[key].items = <<>> THEN NoValue ELSE d.value[key]
         IN  Assigns(d, e, key, v) /\ Loud(d, e)
<1>1. CASE IsList(d, key) /\ d.value[key].items = <<>>
  <2>1. TrimEmpty(d, key) = WithValue(d, key, NoValue)
    BY <1>1, NoLength DEF TrimEmpty, DbDelete
  <2> QED BY <1>1, <2>1, WithValueAssigns, OtherValues
<1>2. CASE ~(IsList(d, key) /\ d.value[key].items = <<>>)
  <2>1. TrimEmpty(d, key) = d
    BY <1>2, NoLength DEF TrimEmpty
  <2>2. d.value = [d.value EXCEPT ![key] = d.value[key]]
    BY DEF Db
  <2>3. Keeps(d, d) /\ Loud(d, d)
    BY DEF Keeps, Loud
  <2>4. Assigns(d, d, key, d.value[key])
    BY <2>2, <2>3 DEF Assigns
  <2> QED BY <1>2, <2>1, <2>3, <2>4
<1> QED BY <1>1, <1>2

LEMMA RawPushAssigns ==
  ASSUME NEW d \in Db, NEW key \in ListKeys, NEW where \in Ends, NEW element \in Nat,
         KeyExists(d, key) => IsList(d, key)
  PROVE  LET e == RawPush(d, key, element, where)
             v == IF KeyExists(d, key) THEN AList(Pushed(d.value[key].items, element, where))
                  ELSE AList(<<element>>)
         IN  Assigns(d, e, key, v) /\ Loud(d, e) /\ v.kind = "list" /\ v.items # <<>>
<1>1. CASE KeyExists(d, key)
  <2> DEFINE s == d.value[key].items
             v == AList(Pushed(s, element, where))
  <2>1. s \in Seq(Nat)
    BY ValueType
  <2>2. Pushed(s, element, where) \in Seq(Nat) /\ Pushed(s, element, where) # <<>>
    <3> HIDE DEF s
    <3> QED BY <2>1, PushedFacts
  <2>3. v \in Values /\ v.kind = "list" /\ v.items # <<>>
    BY <2>2, AListFacts
  <2> HIDE DEF v
  <2>4. Assigns(d, WithValue(d, key, v), key, v) /\ Loud(d, WithValue(d, key, v))
    BY <1>1, <2>3, WithValueAssigns
  <2>5. RawPush(d, key, element, where) = WithValue(d, key, v)
    BY <1>1 DEF RawPush, v
  <2> QED BY <1>1, <2>3, <2>4, <2>5 DEF v
<1>2. CASE ~KeyExists(d, key)
  <2> DEFINE one == <<element>>
             v == AList(one)
  <2>1. one \in Seq(Nat) /\ one # <<>>
    OBVIOUS
  <2> HIDE DEF one
  <2>2. v \in Values /\ v.kind = "list" /\ v.items # <<>>
    BY <2>1, AListFacts
  <2> HIDE DEF v
  <2>3. Assigns(d, DbAdd(d, key, v), key, v) /\ Loud(d, DbAdd(d, key, v))
    BY <2>2, DbAddAssigns
  <2>4. RawPush(d, key, element, where) = DbAdd(d, key, v)
    BY <1>2 DEF RawPush, v, one
  <2> QED BY <1>2, <2>2, <2>3, <2>4 DEF v, one
<1> QED BY <1>1, <1>2

(* The same on a master and on its replica.                                 *)
Same(d, e) == d \in Db /\ e \in Db /\ e.value = d.value

LEMMA SameKeys ==
  ASSUME NEW d, NEW e, Same(d, e), NEW key
  PROVE  IsList(e, key) = IsList(d, key) /\ KeyExists(e, key) = KeyExists(d, key)
  BY DEF Same, IsList, KeyExists

LEMMA DoesSame ==
  ASSUME NEW d, NEW d2, NEW e2, Acts(d, d2, e2)
  PROVE  Same(d2, e2)
  BY DEF Acts, Keeps, Same

LEMMA RawPopDoes ==
  ASSUME NEW d, NEW e, Same(d, e), NEW key \in ListKeys, NEW where \in Ends,
         IsList(d, key), d.value[key].items # <<>>
  PROVE  /\ Does(d, RawPop(d, key, where), RawPop(e, key, where))
         /\ IsList(RawPop(d, key, where), key)
         /\ FullBut(d, NoKey) => FullBut(RawPop(d, key, where), key)
<1> DEFINE v == AList(Popped(d.value[key].items, where))
           d2 == RawPop(d, key, where)
           e2 == RawPop(e, key, where)
<1>1. d \in Db /\ e \in Db /\ e.value = d.value /\ IsList(e, key)
  BY SameKeys DEF Same
<1>2. Assigns(d, d2, key, v) /\ Loud(d, d2)
  BY <1>1, RawPopAssigns
<1>3. Assigns(e, e2, key, v)
  BY <1>1, RawPopAssigns
<1>4. v.kind = "list"
  BY AListFacts
<1> HIDE DEF v, d2, e2
<1>5. Does(d, d2, e2)
  BY <1>1, <1>2, <1>3, <1>4, AssignBoth
<1>6. IsList(d2, key)
  BY <1>1, <1>2, <1>4 DEF Assigns, IsList, Db
<1>7. ASSUME FullBut(d, NoKey) PROVE FullBut(d2, key)
  <2>1. FullBut(d, key)
    BY <1>7, ListAssumption DEF FullBut
  <2> QED BY <1>1, <1>2, <2>1, FullAssigned
<1> QED BY <1>5, <1>6, <1>7 DEF d2, e2

LEMMA TrimDoes ==
  ASSUME NEW d, NEW e, Same(d, e), NEW key \in ListKeys
  PROVE  /\ Does(d, TrimEmpty(d, key), TrimEmpty(e, key))
         /\ FullBut(d, key) => FullBut(TrimEmpty(d, key), NoKey)
<1> DEFINE v == IF IsList(d, key) /\ d.value[key].items = <<>> THEN NoValue ELSE d.value[key]
           d2 == TrimEmpty(d, key)
           e2 == TrimEmpty(e, key)
<1>1. d \in Db /\ e \in Db /\ e.value = d.value /\ IsList(e, key) = IsList(d, key)
  BY SameKeys DEF Same
<1>2. Assigns(d, d2, key, v) /\ Loud(d, d2)
  BY <1>1, TrimAssigns
<1>3. Assigns(e, e2, key, v)
  BY <1>1, TrimAssigns
<1>4. (NoStrings(d) => v.kind # "string") /\ (v.kind = "list" => v.items # <<>>)
  BY OtherValues DEF NoStrings, IsList
<1> HIDE DEF v, d2, e2
<1>5. Does(d, d2, e2)
  BY <1>1, <1>2, <1>3, <1>4, AssignBoth
<1>6. ASSUME FullBut(d, key) PROVE FullBut(d2, NoKey)
  <2>1. FullBut(d2, key)
    BY <1>1, <1>2, <1>6, FullAssigned
  <2>2. IsList(d2, key) => d2.value[key].items # <<>>
    BY <1>1, <1>2, <1>4 DEF Assigns, IsList, Db
  <2> QED BY <2>1, <2>2 DEF FullBut
<1> QED BY <1>5, <1>6 DEF d2, e2

LEMMA RawPushDoes ==
  ASSUME NEW d, NEW e, Same(d, e), NEW key \in ListKeys, NEW where \in Ends, NEW element \in Nat,
         KeyExists(d, key) => IsList(d, key)
  PROVE  /\ Does(d, RawPush(d, key, element, where), RawPush(e, key, element, where))
         /\ IsList(RawPush(d, key, element, where), key)
         /\ \A x : FullBut(d, x) => FullBut(RawPush(d, key, element, where), x)
<1> DEFINE v == IF KeyExists(d, key) THEN AList(Pushed(d.value[key].items, element, where))
                ELSE AList(<<element>>)
           d2 == RawPush(d, key, element, where)
           e2 == RawPush(e, key, element, where)
<1>1. /\ d \in Db /\ e \in Db /\ e.value = d.value
      /\ KeyExists(e, key) = KeyExists(d, key) /\ IsList(e, key) = IsList(d, key)
  BY SameKeys DEF Same
<1>2. Assigns(d, d2, key, v) /\ Loud(d, d2) /\ v.kind = "list" /\ v.items # <<>>
  BY <1>1, RawPushAssigns
<1>3. Assigns(e, e2, key, v)
  BY <1>1, RawPushAssigns
<1> HIDE DEF v, d2, e2
<1>4. Does(d, d2, e2)
  BY <1>1, <1>2, <1>3, AssignBoth
<1>5. IsList(d2, key)
  BY <1>1, <1>2 DEF Assigns, IsList, Db
<1>6. ASSUME NEW x, FullBut(d, x) PROVE FullBut(d2, x)
  BY <1>1, <1>2, <1>6, FullAssigned
<1> QED BY <1>4, <1>5, <1>6 DEF d2, e2

----------------------------------------------------------------------------
(* The commands                                                             *)

Full(d) == FullBut(d, NoKey)

LEMMA PopDoes ==
  ASSUME NEW d, NEW e, Same(d, e), Full(d), NEW key \in ListKeys, NEW where \in Ends
  PROVE  Does(d, Pop(d, key, where), Pop(e, key, where)) /\ Full(Pop(d, key, where))
<1>1. CASE IsList(d, key)
  <2> DEFINE d1 == RawPop(d, key, where)
             e1 == RawPop(e, key, where)
  <2>1. Pop(d, key, where) = TrimEmpty(d1, key) /\ Pop(e, key, where) = TrimEmpty(e1, key)
    BY <1>1, SameKeys DEF Pop
  <2>2. d.value[key].items # <<>>
    BY <1>1, ListAssumption DEF Full, FullBut
  <2>3. Does(d, d1, e1) /\ FullBut(d1, key)
    BY <1>1, <2>2, RawPopDoes DEF Full
  <2> HIDE DEF d1, e1
  <2>4. Does(d1, TrimEmpty(d1, key), TrimEmpty(e1, key)) /\ Full(TrimEmpty(d1, key))
    BY <2>3, DoesSame, TrimDoes DEF Does, Full
  <2> QED BY <2>1, <2>3, <2>4, DoesTransitive
<1>2. CASE ~IsList(d, key)
  <2>1. Pop(d, key, where) = d /\ Pop(e, key, where) = e
    BY <1>2, SameKeys DEF Pop
  <2> QED BY <2>1, DoesNothing DEF Same
<1> QED BY <1>1, <1>2

(* One element, or two.                                                     *)
LEMMA PushIs ==
  ASSUME NEW d, NEW key, NEW elements, NEW where, KeyExists(d, key) => IsList(d, key)
  PROVE  /\ Len(elements) = 1 => Push(d, key, elements, where) = RawPush(d, key, elements[1], where)
         /\ Len(elements) = 2 => Push(d, key, elements, where)
                                   = RawPush(RawPush(d, key, elements[1], where), key, elements[2], where)
<1> DEFINE one == RawPush(d, key, elements[1], where)
           two == RawPush(one, key, elements[2], where)
           after == CHOOSE f : f = [n \in 0 .. Len(elements) |->
                      IF n = 0 THEN d ELSE RawPush(f[n - 1], key, elements[n], where)]
<1>1. Push(d, key, elements, where) = after[Len(elements)]
  BY DEF Push
<1>2. ASSUME Len(elements) = 1 PROVE after[1] = one
  <2> DEFINE g == [n \in 0 .. 1 |-> IF n = 0 THEN d ELSE one]
  <2>1. g = [n \in 0 .. 1 |-> IF n = 0 THEN d ELSE RawPush(g[n - 1], key, elements[n], where)]
    <3> SUFFICES ASSUME NEW n \in 0 .. 1
                 PROVE  g[n] = IF n = 0 THEN d ELSE RawPush(g[n - 1], key, elements[n], where)
      OBVIOUS
    <3>1. n = 0 \/ n = 1
      OBVIOUS
    <3> QED BY <3>1
  <2>2. \E f : f = [n \in 0 .. 1 |-> IF n = 0 THEN d ELSE RawPush(f[n - 1], key, elements[n], where)]
    BY <2>1
  <2>3. after = [n \in 0 .. 1 |-> IF n = 0 THEN d ELSE RawPush(after[n - 1], key, elements[n], where)]
    BY <1>2, <2>2
  <2> HIDE DEF after
  <2> QED BY <2>3
<1>3. ASSUME Len(elements) = 2 PROVE after[2] = two
  <2> DEFINE g == [n \in 0 .. 2 |-> IF n = 0 THEN d ELSE IF n = 1 THEN one ELSE two]
  <2>1. g = [n \in 0 .. 2 |-> IF n = 0 THEN d ELSE RawPush(g[n - 1], key, elements[n], where)]
    <3> SUFFICES ASSUME NEW n \in 0 .. 2
                 PROVE  g[n] = IF n = 0 THEN d ELSE RawPush(g[n - 1], key, elements[n], where)
      OBVIOUS
    <3>1. n = 0 \/ n = 1 \/ n = 2
      OBVIOUS
    <3> QED BY <3>1
  <2>2. \E f : f = [n \in 0 .. 2 |-> IF n = 0 THEN d ELSE RawPush(f[n - 1], key, elements[n], where)]
    BY <2>1
  <2>3. after = [n \in 0 .. 2 |-> IF n = 0 THEN d ELSE RawPush(after[n - 1], key, elements[n], where)]
    BY <1>3, <2>2
  <2> HIDE DEF after
  <2>4. after[0] = d /\ after[1] = one
    BY <2>3
  <2> QED BY <2>3, <2>4
<1> QED BY <1>1, <1>2, <1>3

LEMMA PushDoes ==
  ASSUME NEW d, NEW e, Same(d, e), Full(d), NEW key \in ListKeys, NEW where \in Ends,
         NEW elements, Len(elements) \in 1 .. 2, \A i \in 1 .. Len(elements) : elements[i] \in Nat
  PROVE  /\ Does(d, Push(d, key, elements, where), Push(e, key, elements, where))
         /\ Full(Push(d, key, elements, where))
<1>1. CASE KeyExists(d, key) /\ ~IsList(d, key)
  <2>1. Push(d, key, elements, where) = d /\ Push(e, key, elements, where) = e
    BY <1>1, SameKeys DEF Push
  <2> QED BY <2>1, DoesNothing DEF Same
<1>2. CASE KeyExists(d, key) => IsList(d, key)
  <2> DEFINE d1 == RawPush(d, key, elements[1], where)
             e1 == RawPush(e, key, elements[1], where)
             d2 == RawPush(d1, key, elements[2], where)
             e2 == RawPush(e1, key, elements[2], where)
  <2>0. KeyExists(e, key) => IsList(e, key)
    BY <1>2, SameKeys
  <2>1. elements[1] \in Nat
    OBVIOUS
  <2>2. Does(d, d1, e1) /\ IsList(d1, key) /\ Full(d1)
    BY <1>2, <2>1, RawPushDoes DEF Full
  <2>3. CASE Len(elements) = 1
    BY <1>2, <2>0, <2>2, <2>3, PushIs
  <2>4. CASE Len(elements) = 2
    <3>1. elements[2] \in Nat
      BY <2>4
    <3>2. Push(d, key, elements, where) = d2 /\ Push(e, key, elements, where) = e2
      BY <1>2, <2>0, <2>4, PushIs
    <3> HIDE DEF d1, e1
    <3>3. Same(d1, e1)
      BY <2>2, DoesSame DEF Does
    <3>4. Does(d1, d2, e2) /\ Full(d2)
      BY <2>2, <3>1, <3>3, RawPushDoes DEF Full
    <3> HIDE DEF d2, e2
    <3> QED BY <2>2, <3>2, <3>4, DoesTransitive
  <2> QED BY <2>3, <2>4
<1> QED BY <1>1, <1>2

LEMMA RPopLPushDoes ==
  ASSUME NEW d, NEW e, Same(d, e), Full(d), NEW key \in ListKeys, NEW target \in ListKeys
  PROVE  /\ Does(d, RPopLPush(d, key, target), RPopLPush(e, key, target))
         /\ Full(RPopLPush(d, key, target))
<1>0. Movable(e, key, target) = Movable(d, key, target)
  BY SameKeys DEF Movable
<1>1. CASE ~Movable(d, key, target)
  <2>1. RPopLPush(d, key, target) = d /\ RPopLPush(e, key, target) = e
    BY <1>0, <1>1 DEF RPopLPush
  <2> QED BY <2>1, DoesNothing DEF Same
<1>2. CASE Movable(d, key, target)
  <2> DEFINE element == End(d.value[key].items, "tail")
             d1 == RawPop(d, key, "tail")
             e1 == RawPop(e, key, "tail")
             d2 == RawPush(d1, target, element, "head")
             e2 == RawPush(e1, target, element, "head")
  <2>1. /\ RPopLPush(d, key, target) = TrimEmpty(d2, key)
        /\ RPopLPush(e, key, target) = TrimEmpty(e2, key)
    BY <1>0, <1>2 DEF RPopLPush, Same
  <2>2. d.value[key].items # <<>> /\ IsList(d, key) /\ d \in Db /\ "tail" \in Ends /\ "head" \in Ends
    BY <1>2, ListAssumption DEF Full, FullBut, Movable, Same, Ends
  <2>3. element \in Nat
    <3> DEFINE s == d.value[key].items
    <3>1. s \in Seq(Nat) /\ s # <<>>
      BY <2>2, ValueType
    <3> HIDE DEF s
    <3>2. End(s, "tail") \in Nat
      BY <2>2, <3>1, EndFacts
    <3> QED BY <3>2 DEF s
  <2> HIDE DEF element
  <2>4. Does(d, d1, e1) /\ IsList(d1, key) /\ FullBut(d1, key)
    BY <2>2, RawPopDoes DEF Full
  <2>5. KeyExists(d1, target) => IsList(d1, target)
    <3>1. CASE target = key
      BY <2>4, <3>1
    <3>2. CASE target # key
      <4> DEFINE v == AList(Popped(d.value[key].items, "tail"))
      <4>2. Assigns(d, d1, key, v)
        BY <2>2, RawPopAssigns
      <4> HIDE DEF v, d1
      <4>1. d1.value[target] = d.value[target]
        BY <2>2, <3>2, <4>2 DEF Assigns, Db
      <4> QED BY <1>2, <4>1 DEF Movable, KeyExists, IsList
    <3> QED BY <3>1, <3>2
  <2> HIDE DEF d1, e1
  <2>6. Same(d1, e1)
    BY <2>4, DoesSame DEF Does
  <2>7. Does(d1, d2, e2) /\ FullBut(d2, key)
    BY <2>2, <2>3, <2>4, <2>5, <2>6, RawPushDoes
  <2> HIDE DEF d2, e2
  <2>8. Same(d2, e2)
    BY <2>7, DoesSame DEF Does
  <2>9. Does(d2, TrimEmpty(d2, key), TrimEmpty(e2, key)) /\ Full(TrimEmpty(d2, key))
    BY <2>7, <2>8, TrimDoes DEF Full
  <2>10. Does(d, d2, e2)
    BY <2>4, <2>7, DoesTransitive
  <2> QED BY <2>1, <2>9, <2>10, DoesTransitive
<1> QED BY <1>1, <1>2

LEMMA AddDoes ==
  ASSUME NEW d, NEW e, Same(d, e), Full(d), NEW key \in ListKeys, NEW v \in Values,
         NoStrings(d) => v.kind # "string", v.kind = "list" => v.items # <<>>
  PROVE  Does(d, DbAdd(d, key, v), DbAdd(e, key, v)) /\ Full(DbAdd(d, key, v))
<1>1. Assigns(d, DbAdd(d, key, v), key, v) /\ Loud(d, DbAdd(d, key, v)) /\ Assigns(e, DbAdd(e, key, v), key, v)
  BY DbAddAssigns DEF Same
<1>2. Does(d, DbAdd(d, key, v), DbAdd(e, key, v))
  BY <1>1, AssignBoth DEF Same
<1>3. Full(DbAdd(d, key, v))
  BY <1>1, FullAssigned DEF Same, Full
<1> QED BY <1>2, <1>3

LEMMA DeleteDoes ==
  ASSUME NEW d, NEW e, Same(d, e), Full(d), NEW key \in ListKeys
  PROVE  Does(d, DbDelete(d, key), DbDelete(e, key)) /\ Full(DbDelete(d, key))
<1> DEFINE d1 == DbDelete(d, key)
           e1 == DbDelete(e, key)
<1>1. Assigns(d, d1, key, NoValue) /\ Loud(d, d1) /\ Assigns(e, e1, key, NoValue)
  BY OtherValues, WithValueAssigns DEF Same, DbDelete
<1> HIDE DEF d1, e1
<1>2. Does(d, d1, e1)
  BY <1>1, AssignBoth, OtherValues DEF Same
<1>3. Full(d1)
  BY <1>1, FullAssigned, OtherValues DEF Same, Full
<1> QED BY <1>2, <1>3 DEF d1, e1

LEMMA RenameDoes ==
  ASSUME NEW d, NEW e, Same(d, e), Full(d), NEW key \in ListKeys, NEW target \in ListKeys
  PROVE  Does(d, Rename(d, key, target), Rename(e, key, target)) /\ Full(Rename(d, key, target))
<1>0. KeyExists(e, key) = KeyExists(d, key)
  BY SameKeys
<1>1. CASE ~KeyExists(d, key) \/ key = target
  <2>1. Rename(d, key, target) = d /\ Rename(e, key, target) = e
    BY <1>0, <1>1 DEF Rename
  <2> QED BY <2>1, DoesNothing DEF Same
<1>2. CASE ~(~KeyExists(d, key) \/ key = target)
  <2> DEFINE v == d.value[key]
             d1 == DbDelete(d, target)
             e1 == DbDelete(e, target)
             d2 == DbAdd(d1, target, v)
             e2 == DbAdd(e1, target, v)
  <2>1. Rename(d, key, target) = DbDelete(d2, key) /\ Rename(e, key, target) = DbDelete(e2, key)
    BY <1>0, <1>2 DEF Rename, Same
  <2>2. v \in Values /\ (v.kind = "list" => v.items # <<>>) /\ (NoStrings(d) => v.kind # "string")
    BY ValueType, ListAssumption DEF Same, Full, FullBut, IsList, NoStrings
  <2>3. Does(d, d1, e1) /\ Full(d1) /\ Same(d1, e1)
    BY DeleteDoes, DoesSame DEF Does
  <2>4. NoStrings(d1) => v.kind # "string"
    <3>1. d1.value = [d.value EXCEPT ![target] = NoValue]
      BY OtherValues, WithValueAssigns DEF DbDelete, Assigns, Same
    <3>2. d1.value[key] = v
      BY <1>2, <3>1 DEF Same, Db
    <3> QED BY <3>2 DEF NoStrings
  <2> HIDE DEF v, d1, e1
  <2>5. Does(d1, d2, e2) /\ Full(d2) /\ Same(d2, e2)
    BY <2>2, <2>3, <2>4, AddDoes, DoesSame DEF Does
  <2> HIDE DEF d2, e2
  <2>6. Does(d2, DbDelete(d2, key), DbDelete(e2, key)) /\ Full(DbDelete(d2, key))
    BY <2>5, DeleteDoes
  <2>7. Does(d, d2, e2)
    BY <2>3, <2>5, DoesTransitive
  <2> QED BY <2>1, <2>6, <2>7, DoesTransitive
<1> QED BY <1>1, <1>2

(* SET makes strings, and lists of no key.                                  *)
LEMMA SetStringDoes ==
  ASSUME NEW d, NEW e, Same(d, e), Full(d), NEW key \in ListKeys
  PROVE  /\ Acts(d, SetKey(d, key, AString), SetKey(e, key, AString))
         /\ Loud(d, SetKey(d, key, AString)) /\ Full(SetKey(d, key, AString))
<1> DEFINE d1 == SetKey(d, key, AString)
           e1 == SetKey(e, key, AString)
<1>1. d1 = WithValue(d, key, AString) /\ e1 = WithValue(e, key, AString)
  BY OtherValues DEF SetKey, DbAdd
<1>2. Assigns(d, d1, key, AString) /\ Loud(d, d1) /\ Assigns(e, e1, key, AString)
  BY <1>1, OtherValues, WithValueAssigns DEF Same
<1> HIDE DEF d1, e1
<1>3. Acts(d, d1, e1)
  BY <1>2, AssignBoth DEF Same
<1>4. Full(d1)
  BY <1>2, FullAssigned, OtherValues DEF Same, Full
<1> QED BY <1>2, <1>3, <1>4 DEF d1, e1

(* SORT with STORE signals a list unless it takes the place of a string.    *)
LEMMA SortStoreDoes ==
  ASSUME NEW d, NEW e, Same(d, e), Full(d), NEW key \in ListKeys, NEW target \in ListKeys
  PROVE  /\ Acts(d, SortStore(d, key, target), SortStore(e, key, target))
         /\ NoStrings(d) => Does(d, SortStore(d, key, target), SortStore(e, key, target))
         /\ Full(SortStore(d, key, target))
<1>0. /\ KeyExists(e, key) = KeyExists(d, key) /\ IsList(e, key) = IsList(d, key)
      /\ KeyExists(e, target) = KeyExists(d, target) /\ IsList(e, target) = IsList(d, target)
  BY SameKeys
<1>1. CASE KeyExists(d, key) /\ ~IsList(d, key)
  <2>1. SortStore(d, key, target) = d /\ SortStore(e, key, target) = e
    BY <1>0, <1>1 DEF SortStore
  <2> QED BY <2>1, DoesNothing DEF Same, Does
<1>2. CASE ~KeyExists(d, key)
  <2>1. SortStore(d, key, target) = DbDelete(d, target) /\ SortStore(e, key, target) = DbDelete(e, target)
    BY <1>0, <1>2 DEF SortStore
  <2> QED BY <2>1, DeleteDoes DEF Does
<1>3. CASE KeyExists(d, key) /\ IsList(d, key)
  <2> DEFINE v == d.value[key]
             d1 == SortStore(d, key, target)
             e1 == SortStore(e, key, target)
  <2>1. d1 = SetKey(d, target, v) /\ e1 = SetKey(e, target, v)
    BY <1>0, <1>3 DEF SortStore, Same
  <2>2. v \in Values /\ v.kind = "list" /\ v.items # <<>>
    BY <1>3, ValueType, ListAssumption DEF Same, Full, FullBut, IsList
  <2> HIDE DEF v
  <2>3. CASE KeyExists(d, target)
    <3>1. d1 = WithValue(d, target, v) /\ e1 = WithValue(e, target, v)
      BY <1>0, <2>1, <2>3 DEF SetKey
    <3> HIDE DEF d1, e1
    <3>2. Assigns(d, d1, target, v) /\ (IsList(d, target) => Loud(d, d1)) /\ Assigns(e, e1, target, v)
      BY <2>2, <3>1, WithValueAssigns DEF Same
    <3>3. Acts(d, d1, e1) /\ (Loud(d, d1) => Does(d, d1, e1))
      BY <2>2, <3>2, AssignBoth DEF Same
    <3>4. Full(d1)
      BY <2>2, <3>2, FullAssigned DEF Same, Full
    <3>5. NoStrings(d) => IsList(d, target)
      <4>1. d.value[target].kind \in {"none", "string", "list"}
        BY ValueType DEF Same, Values
      <4> QED BY <2>3, <4>1 DEF NoStrings, KeyExists, IsList
    <3> QED BY <3>2, <3>3, <3>4, <3>5 DEF d1, e1
  <2>4. CASE ~KeyExists(d, target)
    <3>1. d1 = DbAdd(d, target, v) /\ e1 = DbAdd(e, target, v)
      BY <1>0, <2>1, <2>4 DEF SetKey
    <3> HIDE DEF d1, e1
    <3>2. Does(d, d1, e1) /\ Full(d1)
      BY <2>2, <3>1, AddDoes
    <3> QED BY <3>2 DEF d1, e1, Does
  <2> QED BY <2>3, <2>4
<1> QED BY <1>1, <1>2, <1>3

(* A list that is edited in its place.                                      *)
LEMMA EditDoes ==
  ASSUME NEW d, NEW e, Same(d, e), Full(d), NEW key \in ListKeys, IsList(d, key), NEW items \in Seq(Nat)
  PROVE  LET d1 == WithValue(d, key, AList(items))
             e1 == WithValue(e, key, AList(items))
         IN  /\ Does(d, d1, e1) /\ (items # <<>> => Full(d1))
             /\ Does(d, TrimEmpty(d1, key), TrimEmpty(e1, key)) /\ Full(TrimEmpty(d1, key))
<1> DEFINE v == AList(items)
           d1 == WithValue(d, key, v)
           e1 == WithValue(e, key, v)
<1>1. v \in Values /\ v.kind = "list" /\ v.items = items /\ IsList(e, key)
  BY AListFacts, SameKeys
<1> HIDE DEF v
<1>2. Assigns(d, d1, key, v) /\ Loud(d, d1) /\ Assigns(e, e1, key, v)
  BY <1>1, WithValueAssigns DEF Same
<1> HIDE DEF d1, e1
<1>3. Does(d, d1, e1)
  BY <1>1, <1>2, AssignBoth DEF Same
<1>4. items # <<>> => Full(d1)
  BY <1>1, <1>2, FullAssigned DEF Same, Full
<1>5. FullBut(d1, key)
  <2>1. FullBut(d, key)
    BY ListAssumption DEF Full, FullBut
  <2> QED BY <1>2, <2>1, FullAssigned DEF Same
<1>6. Does(d1, TrimEmpty(d1, key), TrimEmpty(e1, key)) /\ Full(TrimEmpty(d1, key))
  BY <1>3, <1>5, DoesSame, TrimDoes DEF Does, Full
<1>7. Does(d, TrimEmpty(d1, key), TrimEmpty(e1, key))
  BY <1>3, <1>6, DoesTransitive
<1> QED BY <1>3, <1>4, <1>6, <1>7 DEF d1, e1, v

LEMMA TrimmedType ==
  ASSUME NEW items \in Seq(Nat), NEW start \in Int, NEW end \in Int
  PROVE  Trimmed(items, start, end) \in Seq(Nat)
<1> DEFINE m == 1 + (IF Index(items, start) < 0 THEN 0 ELSE Index(items, start))
           n == IF Index(items, end) >= Len(items) THEN Len(items) ELSE Index(items, end) + 1
<1>1. Len(items) \in Nat /\ \A i \in 1 .. Len(items) : items[i] \in Nat
  BY LenProperties, ElementOfSeq
<1>2. Index(items, start) \in Int /\ Index(items, end) \in Int
  BY <1>1 DEF Index
<1>3. m \in Int /\ n \in Int /\ m >= 1 /\ n <= Len(items)
  <2> DEFINE a == Index(items, start)
             b == Index(items, end)
  <2>1. a \in Int /\ b \in Int
    BY <1>2
  <2> HIDE DEF a, b
  <2> QED BY <1>1, <2>1 DEF a, b
<1>4. Trimmed(items, start, end) = SubSeq(items, m, n)
  BY DEF Trimmed
<1> HIDE DEF m, n
<1>5. \A i \in m .. n : items[i] \in Nat
  BY <1>1, <1>3
<1>6. SubSeq(items, m, n) \in Seq(Nat)
  BY <1>3, <1>5, SubSeqProperties
<1> QED BY <1>4, <1>6

LEMMA ItemsAtType ==
  ASSUME NEW items \in Seq(Nat), NEW set \in SUBSET DOMAIN items
  PROVE  ItemsAt(items, set) \in Seq(Nat)
<1>1. Len(items) \in Nat /\ DOMAIN items = 1 .. Len(items) /\ \A i \in 1 .. Len(items) : items[i] \in Nat
  BY LenProperties, ElementOfSeq
<1>2. IsFiniteSet(set) /\ set \in SUBSET Nat
  <2>1. set \in SUBSET (1 .. Len(items)) /\ 1 .. Len(items) \subseteq Nat
    BY <1>1
  <2>2. IsFiniteSet(1 .. Len(items))
    BY <1>1, FS_Interval
  <2> QED BY <2>1, <2>2, FS_Subset
<1>3. Cardinality(set) \in Nat
  BY <1>2, FS_CardinalityType
<1>4. \A n \in 1 .. Cardinality(set) : items[NthOf(set, n)] \in Nat
  BY <1>1, <1>2, NthOfFacts
<1> DEFINE t == [n \in 1 .. Cardinality(set) |-> items[NthOf(set, n)]]
<1>5. t \in [1 .. Cardinality(set) -> Nat]
  BY <1>4
<1> HIDE DEF t
<1>6. t \in Seq(Nat)
  BY <1>3, <1>5, SeqDef
<1> QED BY <1>6 DEF ItemsAt, t

LEMMA InsertAtType ==
  ASSUME NEW items \in Seq(Nat), NEW i \in 1 .. Len(items) + 1, NEW element \in Nat
  PROVE  InsertAt(items, i, element) \in Seq(Nat) /\ InsertAt(items, i, element) # <<>>
<1> DEFINE a == SubSeq(items, 1, i - 1)
           one == <<element>>
           b == SubSeq(items, i, Len(items))
<1>1. Len(items) \in Nat /\ \A k \in 1 .. Len(items) : items[k] \in Nat
  BY LenProperties, ElementOfSeq
<1>2. a \in Seq(Nat)
  <2>1. 1 \in Int /\ i - 1 \in Int /\ \A k \in 1 .. i - 1 : items[k] \in Nat
    BY <1>1
  <2> QED BY <2>1, SubSeqProperties
<1>3. b \in Seq(Nat)
  <2>1. i \in Int /\ Len(items) \in Int /\ \A k \in i .. Len(items) : items[k] \in Nat
    BY <1>1
  <2> QED BY <2>1, SubSeqProperties
<1>4. one \in Seq(Nat) /\ one # <<>>
  OBVIOUS
<1>5. InsertAt(items, i, element) = (a \o one) \o b
  BY DEF InsertAt
<1> HIDE DEF a, one, b
<1>6. a \o one \in Seq(Nat) /\ a \o one # <<>>
  BY <1>2, <1>4, ConcatProperties, ConcatEqualIffEmpty
<1>7. (a \o one) \o b \in Seq(Nat) /\ (a \o one) \o b # <<>>
  BY <1>3, <1>6, ConcatProperties, ConcatEqualIffEmpty
<1> QED BY <1>5, <1>7

LEMMA TrimCommand ==
  ASSUME NEW d, NEW e, Same(d, e), Full(d), NEW key \in ListKeys, NEW start \in Int, NEW end \in Int
  PROVE  Does(d, Trim(d, key, start, end), Trim(e, key, start, end)) /\ Full(Trim(d, key, start, end))
<1> DEFINE items == Trimmed(d.value[key].items, start, end)
<1>1. CASE IsList(d, key)
  <2>1. items \in Seq(Nat)
    BY ValueType, TrimmedType DEF Same
  <2>2. /\ Trim(d, key, start, end) = TrimEmpty(WithValue(d, key, AList(items)), key)
        /\ Trim(e, key, start, end) = TrimEmpty(WithValue(e, key, AList(items)), key)
    BY <1>1, SameKeys DEF Trim, Same
  <2> HIDE DEF items
  <2> QED BY <1>1, <2>1, <2>2, EditDoes
<1>2. CASE ~IsList(d, key)
  <2>1. Trim(d, key, start, end) = d /\ Trim(e, key, start, end) = e
    BY <1>2, SameKeys DEF Trim
  <2> QED BY <2>1, DoesNothing DEF Same
<1> QED BY <1>1, <1>2

LEMMA RemCommand ==
  ASSUME NEW d, NEW e, Same(d, e), Full(d), NEW key \in ListKeys, NEW count, NEW element
  PROVE  Does(d, Rem(d, key, count, element), Rem(e, key, count, element)) /\ Full(Rem(d, key, count, element))
<1> DEFINE items == d.value[key].items
           at    == {i \in DOMAIN items : items[i] = element}
           gone  == {i \in at : \/ count = 0
                                \/ count > 0 /\ Cardinality({j \in at : j <= i}) <= count
                                \/ count < 0 /\ Cardinality({j \in at : j >= i}) <= -count}
           left  == ItemsAt(items, DOMAIN items \ gone)
<1>1. CASE IsList(d, key)
  <2>1. left \in Seq(Nat)
    <3>1. items \in Seq(Nat)
      BY ValueType DEF Same
    <3> HIDE DEF items, gone
    <3> QED BY <3>1, ItemsAtType
  <2>2. /\ Rem(d, key, count, element) = TrimEmpty(WithValue(d, key, AList(left)), key)
        /\ Rem(e, key, count, element) = TrimEmpty(WithValue(e, key, AList(left)), key)
    BY <1>1, SameKeys DEF Rem, Same
  <2> HIDE DEF left
  <2> QED BY <1>1, <2>1, <2>2, EditDoes
<1>2. CASE ~IsList(d, key)
  <2>1. Rem(d, key, count, element) = d /\ Rem(e, key, count, element) = e
    BY <1>2, SameKeys DEF Rem
  <2> QED BY <2>1, DoesNothing DEF Same
<1> QED BY <1>1, <1>2

LEMMA LSetCommand ==
  ASSUME NEW d, NEW e, Same(d, e), Full(d), NEW key \in ListKeys, NEW i \in Int, NEW element \in Nat
  PROVE  Does(d, LSet(d, key, i, element), LSet(e, key, i, element)) /\ Full(LSet(d, key, i, element))
<1> DEFINE items == d.value[key].items
           n == Index(items, i) + 1
           set == [items EXCEPT ![n] = element]
<1>1. CASE IsList(d, key) /\ Index(items, i) \in 0 .. Length(d, key) - 1
  <2>1. items \in Seq(Nat) /\ items # <<>>
    BY <1>1, ValueType, ListAssumption DEF Same, Full, FullBut
  <2>2. n \in 1 .. Len(items)
    <3>1. Len(items) \in Nat /\ Length(d, key) = Len(items)
      BY <2>1, LenProperties DEF Length
    <3> QED BY <1>1, <3>1
  <2>3. /\ LSet(d, key, i, element) = WithValue(d, key, AList(set))
        /\ LSet(e, key, i, element) = WithValue(e, key, AList(set))
    BY <1>1, SameKeys DEF LSet, Same, Length
  <2> HIDE DEF n, items
  <2>4. set \in Seq(Nat) /\ Len(set) = Len(items)
    BY <2>1, <2>2, ExceptSeq
  <2> HIDE DEF set
  <2>5. set # <<>>
    BY <2>1, <2>4, EmptySeq
  <2> QED BY <1>1, <2>3, <2>4, <2>5, EditDoes
<1>2. CASE ~(IsList(d, key) /\ Index(items, i) \in 0 .. Length(d, key) - 1)
  <2>1. LSet(d, key, i, element) = d /\ LSet(e, key, i, element) = e
    BY <1>2, SameKeys DEF LSet, Same, Length
  <2> QED BY <2>1, DoesNothing DEF Same
<1> QED BY <1>1, <1>2

(* The place an element is inserted at is in the list.                      *)
LEMMA PivotPlace ==
  ASSUME NEW items \in Seq(Nat), NEW pivot, \E i \in 1 .. Len(items) : items[i] = pivot
  PROVE  (CHOOSE i \in DOMAIN items : items[i] = pivot /\ \A j \in 1 .. i - 1 : items[j] # pivot)
           \in 1 .. Len(items)
<1> DEFINE I == {i \in 1 .. Len(items) : items[i] = pivot}
<1>1. Len(items) \in Nat /\ DOMAIN items = 1 .. Len(items)
  BY LenProperties
<1>2. PICK m \in I : \A k \in I : m <= k
  <2>1. I \in SUBSET (0 .. Len(items)) /\ I # {}
    BY <1>1
  <2> HIDE DEF I
  <2> QED BY <1>1, <2>1, Least
<1>3. \A j \in 1 .. m - 1 : items[j] # pivot
  <2> SUFFICES ASSUME NEW j \in 1 .. m - 1, items[j] = pivot PROVE FALSE
    OBVIOUS
  <2>1. m \in 1 .. Len(items) /\ j \in 1 .. Len(items) /\ j < m
    BY <1>1, <1>2
  <2> QED BY <1>2, <2>1
<1>4. \E i \in DOMAIN items : items[i] = pivot /\ \A j \in 1 .. i - 1 : items[j] # pivot
  BY <1>1, <1>2, <1>3
<1> QED BY <1>1, <1>4

LEMMA LInsertCommand ==
  ASSUME NEW d, NEW e, Same(d, e), Full(d), NEW key \in ListKeys, NEW pivot, NEW element \in Nat, NEW where
  PROVE  /\ Does(d, LInsert(d, key, pivot, element, where), LInsert(e, key, pivot, element, where))
         /\ Full(LInsert(d, key, pivot, element, where))
<1> DEFINE items == d.value[key].items
           found == \E k \in 1 .. Length(d, key) : items[k] = pivot
           i == CHOOSE i \in DOMAIN items : items[i] = pivot /\ \A j \in 1 .. i - 1 : items[j] # pivot
           new == InsertAt(items, IF where = "head" THEN i ELSE i + 1, element)
<1>1. CASE IsList(d, key) /\ found
  <2>1. items \in Seq(Nat) /\ Len(items) \in Nat
    BY ValueType, LenProperties DEF Same
  <2>2. i \in 1 .. Len(items)
    <3>1. \E k \in 1 .. Len(items) : items[k] = pivot
      BY <1>1 DEF Length
    <3> HIDE DEF items
    <3> QED BY <2>1, <3>1, PivotPlace
  <2>3. /\ LInsert(d, key, pivot, element, where) = WithValue(d, key, AList(new))
        /\ LInsert(e, key, pivot, element, where) = WithValue(e, key, AList(new))
    BY <1>1, SameKeys DEF LInsert, Same, Length
  <2> HIDE DEF i, items
  <2>4. new \in Seq(Nat) /\ new # <<>>
    <3>1. (IF where = "head" THEN i ELSE i + 1) \in 1 .. Len(items) + 1
      BY <2>1, <2>2
    <3> QED BY <2>1, <3>1, InsertAtType
  <2> HIDE DEF new
  <2> QED BY <1>1, <2>3, <2>4, EditDoes
<1>2. CASE ~(IsList(d, key) /\ found)
  <2>1. LInsert(d, key, pivot, element, where) = d /\ LInsert(e, key, pivot, element, where) = e
    BY <1>2, SameKeys DEF LInsert, Same, Length
  <2> QED BY <2>1, DoesNothing DEF Same
<1> QED BY <1>1, <1>2

----------------------------------------------------------------------------
(* The steps of the event loop                                              *)

LEMMA TailSet ==
  ASSUME NEW S, NEW s \in Seq(S), s # <<>>
  PROVE  /\ Head(s) \in S /\ Tail(s) \in Seq(S) /\ Len(s) \in Nat \ {0}
         /\ Head(s) \in ToSet(s) /\ ToSet(s) = ToSet(Tail(s)) \cup {Head(s)}
         /\ IsInjective(s) => IsInjective(Tail(s)) /\ Head(s) \notin ToSet(Tail(s))
<1> DEFINE t == Tail(s)
<1>1. Len(s) \in Nat \ {0} /\ DOMAIN s = 1 .. Len(s)
  BY EmptySeq, LenProperties
<1>2. /\ Head(s) \in S /\ t \in Seq(S) /\ Len(t) = Len(s) - 1
      /\ \A i \in 1 .. Len(t) : t[i] = s[i + 1]
  BY HeadTailProperties
<1>3. DOMAIN t = 1 .. Len(s) - 1
  BY <1>2, LenProperties
<1>4. Head(s) = s[1]
  BY SMT
<1> HIDE DEF t
<1>5. \A i \in 1 .. Len(s) - 1 : i + 1 \in 1 .. Len(s) /\ i + 1 # 1 /\ t[i] = s[i + 1]
  BY <1>1, <1>2
<1>6. \A i \in 1 .. Len(s) : i = 1 \/ (i - 1 \in 1 .. Len(s) - 1 /\ (i - 1) + 1 = i)
  BY <1>1
<1>7. 1 \in 1 .. Len(s)
  BY <1>1
<1>8. \A i \in 1 .. Len(s) - 1 : t[i] \in ToSet(s)
  BY <1>1, <1>5 DEF ToSet
<1>9. \A i \in 1 .. Len(s) : i # 1 => s[i] \in ToSet(t)
  <2> SUFFICES ASSUME NEW i \in 1 .. Len(s), i # 1 PROVE s[i] \in ToSet(t)
    OBVIOUS
  <2>1. i - 1 \in 1 .. Len(s) - 1 /\ t[i - 1] = s[i]
    BY <1>5, <1>6
  <2> QED BY <1>3, <2>1 DEF ToSet
<1>10. ToSet(s) = ToSet(t) \cup {s[1]}
  <2>1. ToSet(t) \subseteq ToSet(s)
    BY <1>3, <1>8 DEF ToSet
  <2>2. s[1] \in ToSet(s)
    BY <1>1, <1>7 DEF ToSet
  <2>3. ToSet(s) \subseteq ToSet(t) \cup {s[1]}
    BY <1>1, <1>9 DEF ToSet
  <2> QED BY <2>1, <2>2, <2>3
<1>11. ASSUME IsInjective(s) PROVE IsInjective(t) /\ s[1] \notin ToSet(t)
  <2>1. \A i, j \in 1 .. Len(s) : s[i] = s[j] => i = j
    BY <1>1, <1>11 DEF IsInjective
  <2>2. \A i, j \in 1 .. Len(s) - 1 : i + 1 = j + 1 => i = j
    BY <1>1
  <2>3. \A i, j \in 1 .. Len(s) - 1 : t[i] = t[j] => i = j
    BY <1>5, <2>1, <2>2
  <2>4. \A i \in 1 .. Len(s) - 1 : t[i] # s[1]
    BY <1>5, <1>7, <2>1
  <2> QED BY <1>3, <2>3, <2>4 DEF IsInjective, ToSet
<1> QED BY <1>1, <1>2, <1>4, <1>7, <1>10, <1>11 DEF t, ToSet

LEMMA EmptyToSet == ToSet(<<>>) = {} /\ IsInjective(<<>>)
  BY DEF ToSet, IsInjective

LEMMA ToSetType ==
  ASSUME NEW S, NEW s \in Seq(S)
  PROVE  ToSet(s) \in SUBSET S /\ (s # <<>> <=> ToSet(s) # {})
<1>1. Len(s) \in Nat /\ DOMAIN s = 1 .. Len(s) /\ \A i \in 1 .. Len(s) : s[i] \in S
  BY LenProperties, ElementOfSeq
<1>2. s # <<>> => 1 \in 1 .. Len(s)
  BY <1>1, EmptySeq
<1>3. ToSet(s) \in SUBSET S
  BY <1>1 DEF ToSet
<1>4. s # <<>> => s[1] \in ToSet(s)
  BY <1>1, <1>2 DEF ToSet
<1> QED BY <1>3, <1>4, EmptyToSet

(* While a client is processed nobody is being served, and the replica is   *)
(* in step.                                                                 *)
LEMMA Idle ==
  ASSUME ListsInv, serving.key = NoKey
  PROVE  Same(db, replica) /\ Full(db)
  BY DEF ListsInv, ListsTyped, Mirrored, Same, Full

LEMMA CommandStep ==
  ASSUME ListsInv, NEW c \in ListClients, Processing(c),
         Acts(db, db', replica'), Full(db'), pushed' \in Nat,
         UNCHANGED <<bpop, unblocked, turn, serving>>
  PROVE  ListsInv' /\ (Awake /\ Loud(db, db') => Awake')
<1>1. /\ db' \in Db /\ db'.waiting = db.waiting /\ db.signalled \subseteq db'.signalled
      /\ replica' \in Db /\ replica'.value = db'.value
  BY DEF Acts, Keeps
<1>2. /\ serving.key = NoKey /\ turn.active = c /\ bpop' = bpop /\ unblocked' = unblocked
      /\ turn' = turn /\ serving' = serving /\ c # NoClient
  BY ListAssumption DEF Processing
<1>3. ListsTyped'
  BY <1>1, <1>2 DEF ListsInv, ListsTyped
<1>4. FullBut(db', serving'.key)
  BY <1>2 DEF Full
<1>5. TargetsFromTail' /\ ClientsAgree' /\ QueuesAreSets' /\ EldersFirst'
  BY <1>1, <1>2 DEF ListsInv, TargetsFromTail, ClientsAgree, ClientAgrees, QueuesAreSets, EldersFirst, InOrder
<1>6. OneAtATime'
  <2>1. turn.phase # "cron"
    BY <1>2 DEF ListsInv, OneAtATime, NobodyActive
  <2> QED BY <1>2, <2>1 DEF ListsInv, OneAtATime
<1>7. BatchAgrees'
  <2>1. ToSet(serving.batch) \in SUBSET ListKeys
    BY ToSetType DEF ListsInv, ListsTyped, Serving
  <2>2. ReadyAgrees(db', ToSet(serving.batch))
    BY <2>1 DEF Acts, Keeps, ListsInv, BatchAgrees
  <2> QED BY <1>2, <2>2 DEF BatchAgrees, ListsInv
<1>8. ServesList' /\ Mirrored'
  BY <1>1, <1>2 DEF ServesList, Mirrored
<1>9. ASSUME Awake, Loud(db, db') PROVE Awake'
  BY <1>1, <1>2, <1>9 DEF Awake, Loud
<1> QED BY <1>3, <1>4, <1>5, <1>6, <1>7, <1>8, <1>9 DEF ListsInv

(* What is left of the chances falls.                                       *)
Falls == chance' \in [ListChance -> Nat] /\ \A k \in ListChance : chance[k] = 0 => chance'[k] = 0

LEMMA ChanceNames ==
  /\ "block" \in ListChance /\ "two" \in ListChance /\ "move" \in ListChance
  /\ "set" \in ListChance /\ "rename" \in ListChance /\ "edit" \in ListChance
  /\ "sort" \in ListChance /\ "kill" \in ListChance /\ "leave" \in ListChance /\ "exec" \in ListChance
  BY DEF ListChance

LEMMA ChancesFall ==
  ASSUME chance \in [ListChance -> Nat], NEW kind \in ListChance, Uses(kind)
  PROVE  Falls /\ chance[kind] # 0
  BY DEF Falls, Uses

LEMMA ChancesStay ==
  ASSUME chance \in [ListChance -> Nat], UNCHANGED chance
  PROVE  Falls
  BY DEF Falls

LEMMA StillNoStringsOrSorts ==
  ASSUME NoStringsOrSorts, Falls, NoStrings(db) => NoStrings(db')
  PROVE  NoStringsOrSorts'
  BY ChanceNames DEF NoStringsOrSorts, Falls

(* The commands that change lists.  Those that may make a string, or        *)
(* overwrite one with a list, are told apart.                               *)
Stays == ListsInv' /\ (AwakeInv => AwakeInv')

LEMMA LoudCommand ==
  ASSUME ListsInv, NEW c \in ListClients, Processing(c),
         Does(db, db', replica'), Full(db'), pushed' \in Nat,
         UNCHANGED <<bpop, unblocked, turn, serving>>,
         chance \in [ListChance -> Nat] => Falls
  PROVE  Stays
<1>1. ListsInv' /\ (Awake => Awake')
  BY CommandStep DEF Does
<1>2. AwakeInv => AwakeInv'
  BY <1>1, StillNoStringsOrSorts DEF AwakeInv, Falls, Does
<1> QED BY <1>1, <1>2 DEF Stays

LEMMA PushStep ==
  ASSUME ListsInv, NEW c \in ListClients, Processing(c), NEW key \in ListKeys, NEW where \in Ends,
         NEW n \in 1 .. 2, PushCommand(key, where, n)
  PROVE  Stays
<1> DEFINE elements == [i \in 1 .. n |-> pushed + i]
<1>1. pushed \in Nat /\ pushed' = pushed + n
  BY DEF ListsInv, ListsTyped, PushCommand
<1>2. /\ db' = Push(db, key, elements, where) /\ replica' = Push(replica, key, elements, where)
      /\ UNCHANGED <<bpop, unblocked, turn, serving>>
  BY DEF PushCommand, Executes
<1>3. Same(db, replica) /\ Full(db)
  BY Idle DEF Processing
<1>4. Len(elements) = n /\ \A i \in 1 .. n : elements[i] \in Nat
  BY <1>1
<1> HIDE DEF elements
<1>5. Does(db, db', replica') /\ Full(db')
  BY <1>2, <1>3, <1>4, PushDoes
<1>6. chance \in [ListChance -> Nat] => Falls
  BY ChanceNames, ChancesFall, ChancesStay DEF PushCommand
<1> QED BY <1>1, <1>2, <1>5, <1>6, LoudCommand

LEMMA PopStep ==
  ASSUME ListsInv, NEW c \in ListClients, Processing(c), NEW key \in ListKeys, NEW where \in Ends,
         PopCommand(key, where)
  PROVE  Stays
<1>1. /\ db' = Pop(db, key, where) /\ replica' = Pop(replica, key, where)
      /\ UNCHANGED <<bpop, unblocked, turn, serving>> /\ pushed' = pushed /\ pushed \in Nat
  BY DEF PopCommand, Executes, ListsInv, ListsTyped
<1>2. Does(db, db', replica') /\ Full(db')
  BY <1>1, Idle, PopDoes DEF Processing
<1>3. chance \in [ListChance -> Nat] => Falls
  BY ChanceNames, ChancesFall DEF PopCommand
<1> QED BY <1>1, <1>2, <1>3, LoudCommand

LEMMA RPopLPushStep ==
  ASSUME ListsInv, NEW c \in ListClients, Processing(c), NEW key \in ListKeys, NEW target \in ListKeys,
         RPopLPushCommand(key, target)
  PROVE  Stays
<1>1. /\ db' = RPopLPush(db, key, target) /\ replica' = RPopLPush(replica, key, target)
      /\ UNCHANGED <<bpop, unblocked, turn, serving>> /\ pushed' = pushed /\ pushed \in Nat
  BY DEF RPopLPushCommand, Executes, ListsInv, ListsTyped
<1>2. Does(db, db', replica') /\ Full(db')
  BY <1>1, Idle, RPopLPushDoes DEF Processing
<1>3. chance \in [ListChance -> Nat] => Falls
  BY ChanceNames, ChancesFall DEF RPopLPushCommand
<1> QED BY <1>1, <1>2, <1>3, LoudCommand

LEMMA RenameStep ==
  ASSUME ListsInv, NEW c \in ListClients, Processing(c), NEW key \in ListKeys, NEW target \in ListKeys,
         ListRenameCommand(key, target)
  PROVE  Stays
<1>1. /\ db' = Rename(db, key, target) /\ replica' = Rename(replica, key, target)
      /\ UNCHANGED <<bpop, unblocked, turn, serving>> /\ pushed' = pushed /\ pushed \in Nat
  BY DEF ListRenameCommand, Executes, ListsInv, ListsTyped
<1>2. Does(db, db', replica') /\ Full(db')
  BY <1>1, Idle, RenameDoes DEF Processing
<1>3. chance \in [ListChance -> Nat] => Falls
  BY ChanceNames, ChancesFall DEF ListRenameCommand
<1> QED BY <1>1, <1>2, <1>3, LoudCommand

LEMMA SetStringStep ==
  ASSUME ListsInv, NEW c \in ListClients, Processing(c), NEW key \in ListKeys, SetStringCommand(key)
  PROVE  Stays
<1>1. /\ db' = SetKey(db, key, AString) /\ replica' = SetKey(replica, key, AString)
      /\ UNCHANGED <<bpop, unblocked, turn, serving>> /\ pushed' = pushed /\ pushed \in Nat
  BY DEF SetStringCommand, Executes, ListsInv, ListsTyped
<1>2. Acts(db, db', replica') /\ Loud(db, db') /\ Full(db')
  BY <1>1, Idle, SetStringDoes DEF Processing
<1>3. ListsInv' /\ (Awake => Awake')
  BY <1>1, <1>2, CommandStep
<1>4. ASSUME AwakeInv PROVE AwakeInv'
  <2>1. Falls /\ chance["set"] # 0
    BY <1>4, ChanceNames, ChancesFall DEF SetStringCommand, AwakeInv
  <2>2. NoStringsOrSorts'
    BY <1>4, <2>1, ChanceNames DEF AwakeInv, NoStringsOrSorts, Falls
  <2> QED BY <1>3, <1>4, <2>1, <2>2 DEF AwakeInv, Falls
<1> QED BY <1>3, <1>4 DEF Stays

LEMMA SortStoreStep ==
  ASSUME ListsInv, NEW c \in ListClients, Processing(c), NEW key \in ListKeys, NEW target \in ListKeys,
         SortStoreCommand(key, target)
  PROVE  Stays
<1>1. /\ db' = SortStore(db, key, target) /\ replica' = SortStore(replica, key, target)
      /\ UNCHANGED <<bpop, unblocked, turn, serving>> /\ pushed' = pushed /\ pushed \in Nat
  BY DEF SortStoreCommand, Executes, ListsInv, ListsTyped
<1>2. Acts(db, db', replica') /\ (NoStrings(db) => Does(db, db', replica')) /\ Full(db')
  BY <1>1, Idle, SortStoreDoes DEF Processing
<1>3. ListsInv' /\ (Awake /\ Loud(db, db') => Awake')
  BY <1>1, <1>2, CommandStep
<1>4. ASSUME AwakeInv PROVE AwakeInv'
  <2>1. Falls /\ chance["sort"] # 0
    BY <1>4, ChanceNames, ChancesFall DEF SortStoreCommand, AwakeInv
  <2>2. NoStrings(db)
    BY <1>4, <2>1 DEF AwakeInv, NoStringsOrSorts
  <2>3. Does(db, db', replica')
    BY <1>2, <2>2
  <2>4. NoStringsOrSorts'
    BY <1>4, <2>1, <2>3, StillNoStringsOrSorts DEF AwakeInv, Does
  <2> QED BY <1>3, <1>4, <2>1, <2>3, <2>4 DEF AwakeInv, Falls, Does
<1> QED BY <1>3, <1>4 DEF Stays

LEMMA EditStep ==
  ASSUME ListsInv, NEW c \in ListClients, Processing(c), NEW key \in ListKeys, EditCommand(key)
  PROVE  Stays
<1> DEFINE last == End(db.value[key].items, "tail")
<1>1. Same(db, replica) /\ Full(db) /\ pushed \in Nat
  BY Idle DEF Processing, ListsInv, ListsTyped
<1>2. chance \in [ListChance -> Nat] => Falls
  BY ChanceNames, ChancesFall DEF EditCommand
<1> HIDE DEF last
<1>3. ASSUME NEW start \in -2 .. 1, NEW end \in -2 .. 1,
             Executes(LAMBDA d : Trim(d, key, start, end)), UNCHANGED pushed
      PROVE  Stays
  <2>1. /\ db' = Trim(db, key, start, end) /\ replica' = Trim(replica, key, start, end)
        /\ UNCHANGED <<bpop, unblocked, turn, serving>>
    BY <1>3 DEF Executes
  <2>2. Does(db, db', replica') /\ Full(db')
    BY <1>1, <2>1, TrimCommand
  <2> QED BY <1>1, <1>2, <1>3, <2>1, <2>2, LoudCommand
<1>4. ASSUME NEW count \in -1 .. 1, Executes(LAMBDA d : Rem(d, key, count, last)), UNCHANGED pushed
      PROVE  Stays
  <2>1. /\ db' = Rem(db, key, count, last) /\ replica' = Rem(replica, key, count, last)
        /\ UNCHANGED <<bpop, unblocked, turn, serving>>
    BY <1>4 DEF Executes
  <2>2. Does(db, db', replica') /\ Full(db')
    BY <1>1, <2>1, RemCommand
  <2> QED BY <1>1, <1>2, <1>4, <2>1, <2>2, LoudCommand
<1>5. ASSUME NEW i \in -1 .. 1, Executes(LAMBDA d : LSet(d, key, i, pushed + 1)), pushed' = pushed + 1
      PROVE  Stays
  <2>1. /\ db' = LSet(db, key, i, pushed + 1) /\ replica' = LSet(replica, key, i, pushed + 1)
        /\ UNCHANGED <<bpop, unblocked, turn, serving>>
    BY <1>5 DEF Executes
  <2>2. Does(db, db', replica') /\ Full(db')
    BY <1>1, <2>1, LSetCommand
  <2>3. pushed' \in Nat
    BY <1>1, <1>5
  <2> QED BY <1>2, <2>1, <2>2, <2>3, LoudCommand
<1>6. ASSUME NEW where \in Ends, Executes(LAMBDA d : LInsert(d, key, last, pushed + 1, where)),
             pushed' = pushed + 1
      PROVE  Stays
  <2>1. /\ db' = LInsert(db, key, last, pushed + 1, where)
        /\ replica' = LInsert(replica, key, last, pushed + 1, where)
        /\ UNCHANGED <<bpop, unblocked, turn, serving>>
    BY <1>6 DEF Executes
  <2>2. Does(db, db', replica') /\ Full(db')
    BY <1>1, <2>1, LInsertCommand
  <2>3. pushed' \in Nat
    BY <1>1, <1>6
  <2> QED BY <1>2, <2>1, <2>2, <2>3, LoudCommand
<1> QED BY <1>3, <1>4, <1>5, <1>6 DEF EditCommand, last

LEMMA ListCommandStep ==
  ASSUME ListsInv, NEW c \in ListClients, ListCommand(c)
  PROVE  Stays
  BY PushStep, PopStep, RPopLPushStep, RenameStep, SortStoreStep, SetStringStep, EditStep DEF ListCommand

(* A transaction.                                                           *)
LEMMA ExecStep ==
  ASSUME ListsInv, NEW c \in ListClients, NEW key \in ListKeys, ExecCommand(c, key)
  PROVE  Stays
<1> DEFINE one == <<pushed + 1>>
           P(d, where) == Push(d, key, one, where)
<1>1. Processing(c) /\ Same(db, replica) /\ Full(db) /\ pushed \in Nat /\ pushed' = pushed + 1
  BY Idle DEF Processing, ListsInv, ListsTyped, ExecCommand
<1>2. chance \in [ListChance -> Nat] => Falls /\ chance["exec"] # 0
  BY ChanceNames, ChancesFall DEF ExecCommand
<1>3. ASSUME NEW where \in Ends
      PROVE  /\ Does(db, P(db, where), P(replica, where)) /\ Full(P(db, where))
             /\ Same(P(db, where), P(replica, where))
  <2>1. Len(one) \in 1 .. 2 /\ \A i \in 1 .. Len(one) : one[i] \in Nat
    BY <1>1
  <2> HIDE DEF one
  <2> QED BY <1>1, <2>1, PushDoes, DoesSame DEF Does
<1>4. ASSUME NEW where \in Ends, NEW other \in ListKeys,
             \/ Executes(LAMBDA d : Pop(P(d, where), key, where))
             \/ Executes(LAMBDA d : Rename(P(d, where), key, other))
      PROVE  Stays
  <2> DEFINE d1 == P(db, where)
             e1 == P(replica, where)
  <2>1. /\ \/ db' = Pop(d1, key, where) /\ replica' = Pop(e1, key, where)
           \/ db' = Rename(d1, key, other) /\ replica' = Rename(e1, key, other)
        /\ UNCHANGED <<bpop, unblocked, turn, serving>>
    BY <1>4 DEF Executes
  <2>2. Does(db, d1, e1) /\ Full(d1) /\ Same(d1, e1)
    BY <1>3
  <2> HIDE DEF d1, e1
  <2>3. Does(d1, db', replica') /\ Full(db')
    BY <2>1, <2>2, PopDoes, RenameDoes
  <2>4. Does(db, db', replica')
    BY <2>2, <2>3, DoesTransitive
  <2>5. pushed' \in Nat
    BY <1>1
  <2> QED BY <1>1, <1>2, <2>1, <2>3, <2>4, <2>5, LoudCommand
<1>5. ASSUME NEW where \in Ends, Executes(LAMBDA d : SetKey(P(d, where), key, AString))
      PROVE  Stays
  <2> DEFINE d1 == P(db, where)
             e1 == P(replica, where)
  <2>1. /\ db' = SetKey(d1, key, AString) /\ replica' = SetKey(e1, key, AString)
        /\ UNCHANGED <<bpop, unblocked, turn, serving>>
    BY <1>5 DEF Executes
  <2>2. Does(db, d1, e1) /\ Full(d1) /\ Same(d1, e1)
    BY <1>3
  <2> HIDE DEF d1, e1
  <2>3. Acts(d1, db', replica') /\ Loud(d1, db') /\ Full(db')
    BY <2>1, <2>2, SetStringDoes
  <2>4. Acts(db, db', replica') /\ Loud(db, db')
    BY <2>2, <2>3, ActsTransitive, LoudTransitive DEF Does, Acts
  <2>5. pushed' \in Nat
    BY <1>1
  <2>6. ListsInv' /\ (Awake => Awake')
    BY <1>1, <2>1, <2>3, <2>4, <2>5, CommandStep
  <2>7. AwakeInv => NoStringsOrSorts'
    BY <1>2, ChanceNames DEF AwakeInv, NoStringsOrSorts, Falls
  <2> QED BY <1>2, <2>6, <2>7 DEF Stays, AwakeInv, Falls
<1> QED BY <1>4, <1>5 DEF ExecCommand

----------------------------------------------------------------------------
(* Blocking, and the end of it                                              *)

LEMMA TurnUpdates ==
  ASSUME NEW t \in Turn, NEW n \in Nat
  PROVE  LET e == [t EXCEPT !.blocks = n, !.active = NoClient]
         IN  e \in Turn /\ e.active = NoClient /\ e.phase = t.phase
  BY DEF Turn

(* A client that is processed waits for keys that hold no list.             *)
LEMMA BlockStep ==
  ASSUME ListsInv, NEW c \in ListClients, Processing(c), NEW wait \in Wait, Block(c, wait),
         wait.keys # {}, \A key \in wait.keys : ~IsList(db, key),
         wait.target # NoKey => wait.where = "tail",
         UNCHANGED <<replica, unblocked, serving, pushed>>,
         chance \in [ListChance -> Nat] => Falls
  PROVE  Stays
<1>1. /\ serving.key = NoKey /\ serving.batch = <<>> /\ turn.active = c /\ c # NoClient
      /\ ~bpop[c].blocked
  BY ListAssumption DEF Processing, ListsInv, OneAtATime
<1>2. /\ bpop \in [ListClients -> Waiter] /\ db \in Db /\ turn \in Turn /\ wait.keys \in SUBSET ListKeys
      /\ bpop[c].owed = 0 /\ bpop[c].wait.keys = {}
  BY <1>1 DEF ListsInv, ListsTyped, ClientsAgree, ClientAgrees, Wait
<1> DEFINE after == [bpop[c] EXCEPT !.blocked = TRUE, !.wait = wait, !.owed = bpop[c].owed + 1, !.since = turn.blocks + 1]
<1>3. bpop' = [bpop EXCEPT ![c] = after]
  BY <1>2 DEF Block
<1>4. /\ after \in Waiter /\ after.blocked /\ after.wait = wait /\ after.owed = 1
      /\ after.flagged = bpop[c].flagged
  <2>1. bpop[c] \in Waiter /\ turn.blocks \in Nat
    BY <1>2 DEF Turn
  <2>2. turn.blocks + 1 \in Nat /\ bpop[c].owed + 1 = 1 /\ bpop[c].owed + 1 \in Nat
    BY <1>2, <2>1
  <2> DEFINE b == bpop[c]
             o == bpop[c].owed + 1
             n == turn.blocks + 1
  <2>3. after = [b EXCEPT !.blocked = TRUE, !.wait = wait, !.owed = o, !.since = n]
    OBVIOUS
  <2>4. b \in Waiter /\ o \in Nat /\ o = 1 /\ n \in Nat
    BY <2>1, <2>2
  <2>5. b.flagged = bpop[c].flagged
    OBVIOUS
  <2> HIDE DEF b, o, n, after
  <2>6. /\ after \in Waiter /\ after.blocked /\ after.wait = wait /\ after.owed = o
        /\ after.flagged = b.flagged
    BY <2>3, <2>4 DEF Waiter
  <2> QED BY <2>4, <2>5, <2>6
<1> HIDE DEF after
<1>5. \A x \in ListClients : bpop'[x] = IF x = c THEN after ELSE bpop[x]
  BY <1>2, <1>3
<1>6. /\ db'.value = db.value /\ db'.ready = db.ready /\ db'.signalled = db.signalled
      /\ db'.waiting = [k \in ListKeys |-> IF k \in wait.keys THEN Append(db.waiting[k], c) ELSE db.waiting[k]]
  BY <1>2 DEF Block, Queued, Db
<1>7. \A k \in ListKeys : db.waiting[k] \in Seq(ListClients) /\ c \notin ToSet(db.waiting[k])
  BY <1>2 DEF Db, ListsInv, ClientsAgree, ClientAgrees
<1>8. ASSUME NEW k \in ListKeys
      PROVE  /\ db'.waiting[k] \in Seq(ListClients) /\ IsInjective(db'.waiting[k])
             /\ ToSet(db'.waiting[k]) = ToSet(db.waiting[k]) \cup (IF k \in wait.keys THEN {c} ELSE {})
             /\ k \notin wait.keys => db'.waiting[k] = db.waiting[k]
  <2>1. IsInjective(db.waiting[k])
    BY DEF ListsInv, QueuesAreSets
  <2> DEFINE s == db.waiting[k]
  <2>2. s \in Seq(ListClients) /\ c \notin ToSet(s) /\ IsInjective(s)
    BY <1>7, <2>1
  <2>3. db'.waiting[k] = IF k \in wait.keys THEN Append(s, c) ELSE s
    BY <1>6
  <2> HIDE DEF s
  <2>4. Append(s, c) \in Seq(ListClients) /\ ToSet(Append(s, c)) = ToSet(s) \cup {c} /\ IsInjective(Append(s, c))
    BY <2>2, AppendedSet
  <2> QED BY <2>2, <2>3, <2>4 DEF s
<1>9. db' \in Db
  <2>1. db'.waiting \in [ListKeys -> Seq(ListClients)]
    BY <1>6, <1>8
  <2> DEFINE q == db'.waiting
  <2>2. db' = [db EXCEPT !.waiting = q]
    BY <1>2, <1>6 DEF Block, Queued, Db
  <2> HIDE DEF q
  <2> QED BY <1>2, <2>1, <2>2 DEF Db, q
<1>10. turn' \in Turn /\ turn'.active = NoClient /\ turn'.phase = turn.phase
  <2>1. turn.blocks + 1 \in Nat
    BY <1>2 DEF Turn
  <2>2. turn' = [turn EXCEPT !.blocks = turn.blocks + 1, !.active = NoClient]
    BY DEF Block
  <2> QED BY <1>2, <2>1, <2>2, TurnUpdates
<1>11. ListsTyped'
  <2>1. bpop' \in [ListClients -> Waiter]
    BY <1>2, <1>3, <1>4
  <2> QED BY <1>9, <1>10, <2>1 DEF ListsInv, ListsTyped
<1>12. FullBut(db', serving'.key) /\ TargetsFromTail' /\ ServesList' /\ Mirrored'
  BY <1>1, <1>4, <1>5, <1>6 DEF ListsInv, FullBut, IsList, TargetsFromTail, ServesList, Mirrored
<1>13. OneAtATime'
  <2>1. turn.phase # "cron"
    BY <1>1 DEF ListsInv, OneAtATime, NobodyActive
  <2> QED BY <1>10, <2>1 DEF OneAtATime
<1>14. ClientsAgree' /\ QueuesAreSets'
  <2>1. ASSUME NEW x \in ListClients PROVE ClientAgrees(x)'
    <3>0. ClientAgrees(x) /\ unblocked' = unblocked
      BY DEF ListsInv, ClientsAgree
    <3>1. CASE x = c
      <4>1. bpop'[c] = after /\ \A k \in ListKeys : c \notin ToSet(db.waiting[k])
        BY <1>5, <1>7
      <4>2. \A k \in ListKeys : (c \in ToSet(db'.waiting[k])) = (k \in wait.keys)
        BY <1>8, <4>1
      <4>3. bpop'[c].flagged => c \in ToSet(unblocked')
        BY <1>4, <3>0, <3>1, <4>1 DEF ClientAgrees
      <4> QED BY <1>4, <3>1, <4>1, <4>2, <4>3 DEF ClientAgrees
    <3>2. CASE x # c
      <4>1. bpop'[x] = bpop[x]
        BY <1>5, <3>2
      <4>2. \A k \in ListKeys : (x \in ToSet(db'.waiting[k])) = (x \in ToSet(db.waiting[k]))
        BY <1>8, <3>2
      <4> QED BY <3>0, <4>1, <4>2 DEF ClientAgrees
    <3> QED BY <3>1, <3>2
  <2> QED BY <1>8, <2>1 DEF ClientsAgree, QueuesAreSets
<1>15. EldersFirst'
  <2>1. /\ turn'.blocks = turn.blocks + 1 /\ turn.blocks \in Nat /\ bpop'[c].since = turn.blocks + 1
        /\ \A x \in ListClients : x # c => bpop'[x].since = bpop[x].since
        /\ \A x \in ListClients : bpop[x].since \in Nat /\ bpop[x].since <= turn.blocks
    <3>1. turn.blocks \in Nat /\ turn'.blocks = turn.blocks + 1
      BY <1>2 DEF Block, Turn
    <3>2. bpop[c] \in Waiter /\ after.since = turn.blocks + 1
      BY <1>2 DEF after, Waiter
    <3>3. \A x \in ListClients : bpop[x].since \in Nat /\ bpop[x].since <= turn.blocks
      BY <1>2 DEF Waiter, ListsInv, EldersFirst
    <3> QED BY <1>5, <3>1, <3>2, <3>3
  <2>2. \A x \in ListClients : bpop'[x].since \in Nat /\ bpop'[x].since <= turn'.blocks
    BY <2>1
  <2>3. ASSUME NEW k \in ListKeys PROVE InOrder(db.waiting[k])'
    <3> DEFINE s == db.waiting[k]
               t == db'.waiting[k]
    <3>1. s \in Seq(ListClients) /\ c \notin ToSet(s) /\ InOrder(s)
      BY <1>7 DEF ListsInv, EldersFirst
    <3>2. t = IF k \in wait.keys THEN Append(s, c) ELSE s
      BY <1>6
    <3>3. Len(s) \in Nat /\ \A i \in 1 .. Len(s) : s[i] \in ListClients /\ s[i] # c
      <4>1. Len(s) \in Nat /\ DOMAIN s = 1 .. Len(s) /\ \A i \in 1 .. Len(s) : s[i] \in ListClients
        BY <3>1, LenProperties, ElementOfSeq
      <4> QED BY <3>1, <4>1 DEF ToSet
    <3> HIDE DEF s
    <3>4. /\ Len(Append(s, c)) = Len(s) + 1 /\ Append(s, c)[Len(s) + 1] = c
          /\ \A i \in 1 .. Len(s) : Append(s, c)[i] = s[i]
      BY <3>1, AppendedSet
    <3> HIDE DEF t
    <3>5. /\ Len(t) = Len(s) \/ (Len(t) = Len(s) + 1 /\ t[Len(s) + 1] = c)
          /\ \A i \in 1 .. Len(s) : t[i] = s[i]
      BY <3>2, <3>4
    <3>6. ASSUME NEW i \in 1 .. Len(t), NEW j \in 1 .. Len(t), i < j
          PROVE  bpop'[t[i]].since <= bpop'[t[j]].since
      <4>1. i \in 1 .. Len(s)
        BY <3>3, <3>5, <3>6
      <4>2. bpop'[t[i]].since = bpop[s[i]].since /\ bpop[s[i]].since \in Nat /\ bpop[s[i]].since <= turn.blocks
        BY <2>1, <3>3, <3>5, <4>1
      <4>3. CASE j \in 1 .. Len(s)
        <5>1. bpop'[t[j]].since = bpop[s[j]].since /\ bpop[s[i]].since <= bpop[s[j]].since
          BY <2>1, <3>1, <3>3, <3>5, <3>6, <4>1, <4>3 DEF InOrder
        <5> QED BY <4>2, <5>1
      <4>4. CASE j \notin 1 .. Len(s)
        <5>1. t[j] = c
          BY <3>3, <3>5, <4>4
        <5> QED BY <2>1, <4>2, <5>1
      <4> QED BY <4>3, <4>4
    <3> QED BY <3>6 DEF InOrder, t
  <2> QED BY <2>2, <2>3 DEF EldersFirst
<1>16. BatchAgrees'
  BY <1>6 DEF ListsInv, BatchAgrees, ReadyAgrees
<1>17. ASSUME AwakeInv PROVE AwakeInv'
  <2>1. NoStrings(db) => NoStrings(db')
    BY <1>6 DEF NoStrings
  <2>2. NoStringsOrSorts'
    BY <1>17, <2>1, StillNoStringsOrSorts DEF AwakeInv
  <2>3. Awake'
    BY <1>6, <1>8, <1>17 DEF AwakeInv, Awake, IsList
  <2> QED BY <1>17, <2>2, <2>3 DEF AwakeInv, Falls
<1> QED BY <1>11, <1>12, <1>13, <1>14, <1>16, <1>17, <1>15 DEF Stays, ListsInv

LEMMA NoFirstKey ==
  ASSUME NEW keys, Len(keys) \in 1 .. 2, DOMAIN keys = 1 .. Len(keys)
  PROVE  /\ FirstKey(keys) = 0 => \A i \in 1 .. Len(keys) : ~KeyExists(db, keys[i])
         /\ FirstKey(keys) # 0 => FirstKey(keys) \in 1 .. Len(keys)
<1> DEFINE I == {i \in 1 .. Len(keys) : KeyExists(db, keys[i])}
<1>1. FirstKey(keys) = IF I # {} THEN CHOOSE x \in I : \A y \in I : x <= y ELSE 0
  BY DEF FirstKey, SelectInSeq, Min
<1>2. CASE I = {}
  BY <1>1, <1>2
<1>3. CASE I # {}
  <2>1. I \in SUBSET (0 .. 2) /\ I \in SUBSET (1 .. Len(keys))
    OBVIOUS
  <2>2. 0 \notin I
    OBVIOUS
  <2> HIDE DEF I
  <2>3. \E x \in I : \A y \in I : x <= y
    BY <1>3, <2>1, Least
  <2>4. FirstKey(keys) \in I
    BY <1>1, <1>3, <2>3
  <2> QED BY <2>1, <2>2, <2>4
<1> QED BY <1>2, <1>3

KeyLists == {s \in UNION {[1 .. n -> ListKeys] : n \in 1 .. 2} : IsInjective(s)}

LEMMA BlockingPopStep ==
  ASSUME ListsInv, NEW c \in ListClients, NEW keys \in KeyLists, NEW where \in Ends,
         NEW timed \in BOOLEAN, BlockingPopCommand(c, keys, where, timed)
  PROVE  Stays
<1>1. PICK n \in 1 .. 2 : keys \in [1 .. n -> ListKeys]
  BY DEF KeyLists
<1>2. Len(keys) = n /\ DOMAIN keys = 1 .. n /\ \A i \in 1 .. n : keys[i] \in ListKeys
  BY <1>1
<1>3. Processing(c) /\ Uses("block")
  BY DEF BlockingPopCommand
<1>4. chance \in [ListChance -> Nat] => Falls
  BY <1>3, ChanceNames, ChancesFall
<1>5. CASE FirstKey(keys) = 0
  <2> DEFINE wait == [keys |-> ToSet(keys), target |-> NoKey, where |-> where, timed |-> timed]
  <2>1. Block(c, wait) /\ UNCHANGED <<replica, unblocked, serving, pushed>>
    BY <1>5 DEF BlockingPopCommand
  <2>2. wait \in Wait /\ wait.keys = ToSet(keys) /\ wait.target = NoKey
    BY <1>2 DEF Wait, ToSet
  <2>3. ToSet(keys) # {} /\ \A key \in ToSet(keys) : ~IsList(db, key)
    <3>1. \A i \in 1 .. n : ~KeyExists(db, keys[i])
      BY <1>2, <1>5, NoFirstKey
    <3>2. 1 \in 1 .. n
      OBVIOUS
    <3> QED BY <1>2, <3>1, <3>2 DEF ToSet, KeyExists, IsList
  <2> HIDE DEF wait
  <2> QED BY <1>3, <1>4, <2>1, <2>2, <2>3, BlockStep
<1>6. CASE FirstKey(keys) # 0
  <2> DEFINE key == keys[FirstKey(keys)]
  <2>1. key \in ListKeys
    BY <1>2, <1>6, NoFirstKey
  <2>2. /\ db' = Pop(db, key, where) /\ replica' = Pop(replica, key, where)
        /\ UNCHANGED <<bpop, unblocked, turn, serving>> /\ pushed' = pushed /\ pushed \in Nat
    BY <1>6 DEF BlockingPopCommand, Executes, ListsInv, ListsTyped
  <2> HIDE DEF key
  <2>3. Does(db, db', replica') /\ Full(db')
    BY <1>3, <2>1, <2>2, Idle, PopDoes DEF Processing
  <2> QED BY <1>3, <1>4, <2>2, <2>3, LoudCommand
<1> QED BY <1>5, <1>6

LEMMA BRPopLPushStep ==
  ASSUME ListsInv, NEW c \in ListClients, NEW key \in ListKeys, NEW target \in ListKeys,
         NEW timed \in BOOLEAN, BRPopLPushCommand(c, key, target, timed)
  PROVE  Stays
<1>3. Processing(c) /\ Uses("block")
  BY DEF BRPopLPushCommand
<1>4. chance \in [ListChance -> Nat] => Falls
  BY <1>3, ChanceNames, ChancesFall
<1>5. CASE ~KeyExists(db, key)
  <2> DEFINE wait == [keys |-> {key}, target |-> target, where |-> "tail", timed |-> timed]
  <2>1. Block(c, wait) /\ UNCHANGED <<replica, unblocked, serving, pushed>>
    BY <1>5 DEF BRPopLPushCommand
  <2>2. wait \in Wait /\ wait.keys = {key} /\ wait.where = "tail"
    BY DEF Wait, Ends
  <2>3. ~IsList(db, key)
    BY <1>5 DEF KeyExists, IsList
  <2> HIDE DEF wait
  <2> QED BY <1>3, <1>4, <2>1, <2>2, <2>3, BlockStep
<1>6. CASE KeyExists(db, key)
  <2>2. /\ db' = RPopLPush(db, key, target) /\ replica' = RPopLPush(replica, key, target)
        /\ UNCHANGED <<bpop, unblocked, turn, serving>> /\ pushed' = pushed /\ pushed \in Nat
    BY <1>6 DEF BRPopLPushCommand, Executes, ListsInv, ListsTyped
  <2>3. Does(db, db', replica') /\ Full(db')
    BY <1>3, <2>2, Idle, RPopLPushDoes DEF Processing
  <2> QED BY <1>3, <1>4, <2>2, <2>3, LoudCommand
<1> QED BY <1>5, <1>6

(* Who is released is taken from all queues, and is owed nothing.           *)
LEMMA ReleasedFacts ==
  ASSUME NEW d \in Db, NEW c
  PROVE  LET e == Released(d, c)
         IN  /\ e \in Db /\ e.value = d.value /\ e.ready = d.ready /\ e.signalled = d.signalled
             /\ \A k \in ListKeys : e.waiting[k] = RemoveFirst(d.waiting[k], c)
<1> DEFINE e == Released(d, c)
           q == [k \in ListKeys |-> RemoveFirst(d.waiting[k], c)]
<1>1. e = [d EXCEPT !.waiting = q]
  BY DEF Released
<1>2. q \in [ListKeys -> Seq(ListClients)]
  <2>1. \A k \in ListKeys : d.waiting[k] \in Seq(ListClients)
    BY DEF Db
  <2>2. \A k \in ListKeys : RemoveFirst(d.waiting[k], c) \in Seq(ListClients)
    BY <2>1, Removed
  <2> QED BY <2>2
<1>3. \A k \in ListKeys : q[k] = RemoveFirst(d.waiting[k], c)
  OBVIOUS
<1> HIDE DEF e, q
<1>4. e \in Db /\ e.value = d.value /\ e.ready = d.ready /\ e.signalled = d.signalled /\ e.waiting = q
  BY <1>1, <1>2 DEF Db
<1> QED BY <1>3, <1>4 DEF e

LEMMA ReleaseStep ==
  ASSUME ListsInv, NEW c \in ListClients, NEW after \in Waiter,
         ~after.blocked, after.owed = 0, after.wait = NotWaiting, bpop' = [bpop EXCEPT ![c] = after],
         \A k \in ListKeys : db'.waiting[k] = RemoveFirst(db.waiting[k], c),
         after.flagged => c \in ToSet(unblocked'), ToSet(unblocked) \subseteq ToSet(unblocked') \cup {c},
         after.since = bpop[c].since, turn'.blocks = turn.blocks
  PROVE  /\ ClientsAgree' /\ QueuesAreSets' /\ EldersFirst' /\ TargetsFromTail' /\ bpop' \in [ListClients -> Waiter]
         /\ \A k \in ListKeys : db'.waiting[k] # <<>> => db.waiting[k] # <<>>
         /\ \A x \in ListClients : bpop'[x].blocked => bpop[x].blocked
<1>1. bpop \in [ListClients -> Waiter] /\ db \in Db
  BY DEF ListsInv, ListsTyped
<1>2. bpop' \in [ListClients -> Waiter] /\ \A x \in ListClients : bpop'[x] = IF x = c THEN after ELSE bpop[x]
  BY <1>1
<1>3. ASSUME NEW k \in ListKeys
      PROVE  /\ c \notin ToSet(db'.waiting[k]) /\ IsInjective(db'.waiting[k])
             /\ \A x \in ListClients : x # c => (x \in ToSet(db'.waiting[k])) = (x \in ToSet(db.waiting[k]))
             /\ db'.waiting[k] # <<>> => db.waiting[k] # <<>>
  <2> DEFINE s == db.waiting[k]
             r == RemoveFirst(s, c)
  <2>1. s \in Seq(ListClients) /\ IsInjective(s) /\ db'.waiting[k] = r
    BY <1>1 DEF Db, ListsInv, QueuesAreSets
  <2> HIDE DEF s
  <2>2. /\ r \in Seq(ListClients) /\ ToSet(r) \subseteq ToSet(s) /\ ToSet(s) \subseteq ToSet(r) \cup {c}
        /\ c \notin ToSet(r) /\ IsInjective(r)
    BY <2>1, Removed
  <2> HIDE DEF r
  <2>3. r # <<>> => s # <<>>
    BY <2>1, <2>2, ToSetType
  <2> QED BY <2>1, <2>2, <2>3 DEF s
<1>4. NotWaiting.keys = {} /\ NotWaiting.target = NoKey
  BY DEF NotWaiting
<1>5. TargetsFromTail'
  BY <1>2, <1>4 DEF ListsInv, TargetsFromTail
<1>6. ASSUME NEW x \in ListClients PROVE ClientAgrees(x)'
  <2>0. ClientAgrees(x)
    BY DEF ListsInv, ClientsAgree
  <2>1. CASE x = c
    <3>1. bpop'[c] = after
      BY <1>2
    <3>2. after.blocked = FALSE
      BY DEF Waiter
    <3>3. /\ bpop'[c].blocked = FALSE /\ bpop'[c].owed = 0 /\ bpop'[c].wait.keys = {}
          /\ (bpop'[c].flagged => c \in ToSet(unblocked'))
      BY <1>4, <3>1, <3>2
    <3>4. \A k \in ListKeys : (c \in ToSet(db'.waiting[k])) = (k \in bpop'[c].wait.keys)
      BY <1>3, <3>3
    <3> QED BY <2>1, <3>3, <3>4 DEF ClientAgrees
  <2>2. CASE x # c
    <3>1. bpop'[x] = bpop[x]
      BY <1>2, <2>2
    <3>2. bpop'[x].flagged => x \in ToSet(unblocked')
      BY <2>0, <2>2, <3>1 DEF ClientAgrees
    <3> QED BY <1>3, <2>0, <2>2, <3>1, <3>2 DEF ClientAgrees
  <2> QED BY <2>1, <2>2
<1>7. \A x \in ListClients : bpop'[x].blocked => bpop[x].blocked
  BY <1>2
<1>8. EldersFirst'
  <2>1. \A x \in ListClients : bpop'[x].since = bpop[x].since
    BY <1>2
  <2>2. ASSUME NEW k \in ListKeys PROVE InOrder(db.waiting[k])'
    <3> DEFINE s == db.waiting[k]
               r == RemoveFirst(s, c)
    <3>1. s \in Seq(ListClients) /\ InOrder(s) /\ db'.waiting[k] = r
      BY <1>1 DEF Db, ListsInv, EldersFirst
    <3> HIDE DEF s
    <3>2. \A i \in 1 .. Len(s) : s[i] \in ListClients
      BY <3>1, ElementOfSeq
    <3>3. \A i, j \in 1 .. Len(r) : i < j => \E x, y \in 1 .. Len(s) : x < y /\ r[i] = s[x] /\ r[j] = s[y]
      BY <3>1, Removed
    <3> HIDE DEF r
    <3>4. \A i, j \in 1 .. Len(r) : i < j => bpop'[r[i]].since <= bpop'[r[j]].since
      <4> SUFFICES ASSUME NEW i \in 1 .. Len(r), NEW j \in 1 .. Len(r), i < j
                   PROVE  bpop'[r[i]].since <= bpop'[r[j]].since
        OBVIOUS
      <4>1. PICK x \in 1 .. Len(s) : \E y \in 1 .. Len(s) : x < y /\ r[i] = s[x] /\ r[j] = s[y]
        BY <3>3
      <4>2. PICK y \in 1 .. Len(s) : x < y /\ r[i] = s[x] /\ r[j] = s[y]
        BY <4>1
      <4>3. bpop[s[x]].since <= bpop[s[y]].since
        BY <3>1, <4>2 DEF InOrder
      <4>4. bpop'[r[i]].since = bpop[s[x]].since /\ bpop'[r[j]].since = bpop[s[y]].since
        BY <2>1, <3>2, <4>2
      <4> QED BY <4>3, <4>4
    <3> QED BY <3>1, <3>4 DEF InOrder
  <2> QED BY <2>1, <2>2 DEF EldersFirst, ListsInv
<1> QED BY <1>2, <1>3, <1>5, <1>6, <1>7, <1>8 DEF ClientsAgree, QueuesAreSets

(* It is released while nobody is being served.                             *)
LEMMA DropStep ==
  ASSUME ListsInv, serving.key = NoKey, NEW c \in ListClients, NEW after \in Waiter,
         ~after.blocked, after.owed = 0, after.wait = NotWaiting, bpop' = [bpop EXCEPT ![c] = after],
         after.flagged => c \in ToSet(unblocked'), ToSet(unblocked) \subseteq ToSet(unblocked') \cup {c},
         unblocked' \in Seq(ListClients),
         db' = IF bpop[c].blocked THEN Released(db, c) ELSE db,
         UNCHANGED <<replica, serving, pushed>>, turn' \in Turn,
         turn'.active = turn.active, turn'.phase = turn.phase, turn'.blocks = turn.blocks,
         after.since = bpop[c].since,
         chance \in [ListChance -> Nat] => Falls
  PROVE  Stays
<1>0. db \in Db /\ replica \in Db /\ ClientAgrees(c) /\ bpop \in [ListClients -> Waiter]
  BY DEF ListsInv, ListsTyped, ClientsAgree
<1>1. /\ db' \in Db /\ db'.value = db.value /\ db'.ready = db.ready /\ db'.signalled = db.signalled
      /\ \A k \in ListKeys : db'.waiting[k] = RemoveFirst(db.waiting[k], c)
  <2>1. CASE bpop[c].blocked
    BY <1>0, <2>1, ReleasedFacts
  <2>2. CASE ~bpop[c].blocked
    <3>1. \A k \in ListKeys : db.waiting[k] \in Seq(ListClients) /\ c \notin ToSet(db.waiting[k])
      BY <1>0, <2>2 DEF ClientAgrees, Db
    <3>2. \A k \in ListKeys : db.waiting[k] = RemoveFirst(db.waiting[k], c)
      BY <3>1, Removed
    <3> QED BY <1>0, <2>2, <3>2
  <2> QED BY <2>1, <2>2
<1>2. /\ ClientsAgree' /\ QueuesAreSets' /\ EldersFirst' /\ TargetsFromTail' /\ bpop' \in [ListClients -> Waiter]
      /\ \A k \in ListKeys : db'.waiting[k] # <<>> => db.waiting[k] # <<>>
      /\ \A x \in ListClients : bpop'[x].blocked => bpop[x].blocked
  BY <1>1, ReleaseStep
<1>3. ListsTyped'
  BY <1>1, <1>2 DEF ListsInv, ListsTyped
<1>4. OneAtATime'
  <2>1. turn.active \in ListClients \cup {NoClient}
    BY DEF ListsInv, ListsTyped, Turn
  <2> QED BY <1>1, <1>2, <2>1 DEF ListsInv, OneAtATime, NobodyActive
<1>5. FullBut(db', serving'.key) /\ ServesList' /\ Mirrored'
  BY <1>1 DEF ListsInv, FullBut, IsList, ServesList, Mirrored
<1>6. BatchAgrees'
  BY <1>1 DEF ListsInv, BatchAgrees, ReadyAgrees
<1>7. ASSUME AwakeInv PROVE AwakeInv'
  <2>1. NoStrings(db) => NoStrings(db')
    BY <1>1 DEF NoStrings
  <2>2. NoStringsOrSorts'
    BY <1>7, <2>1, StillNoStringsOrSorts DEF AwakeInv
  <2>3. Awake'
    BY <1>1, <1>2, <1>7 DEF AwakeInv, Awake, IsList
  <2> QED BY <1>7, <2>2, <2>3 DEF AwakeInv, Falls
<1> QED BY <1>2, <1>3, <1>4, <1>5, <1>6, <1>7 DEF Stays, ListsInv

LEMMA FreedWaiter ==
  ASSUME NEW b \in Waiter, NEW e, e = [Unblocked(b) EXCEPT !.alive = FALSE, !.flagged = FALSE, !.owed = 0]
  PROVE  /\ e \in Waiter /\ ~e.blocked /\ ~e.flagged /\ e.owed = 0 /\ e.wait = NotWaiting
         /\ e.since = b.since
<1>1. NotWaiting \in Wait
  BY DEF NotWaiting, Wait, Ends
<1>2. /\ Unblocked(b) \in Waiter /\ ~Unblocked(b).blocked /\ Unblocked(b).wait = NotWaiting
      /\ Unblocked(b).since = b.since
  BY <1>1 DEF Unblocked, Waiter
<1> DEFINE u == Unblocked(b)
<1>3. /\ u \in Waiter /\ ~u.blocked /\ u.wait = NotWaiting /\ u.since = b.since
      /\ e = [u EXCEPT !.alive = FALSE, !.flagged = FALSE, !.owed = 0]
  BY <1>2
<1> HIDE DEF u
<1>4. e \in Waiter
  <2> DEFINE u2 == [u EXCEPT !.alive = FALSE, !.flagged = FALSE]
  <2>1. u2 \in Waiter
    BY <1>3 DEF Waiter
  <2>2. e = [u2 EXCEPT !.owed = 0]
    BY <1>3
  <2> HIDE DEF u2
  <2> QED BY <2>1, <2>2 DEF Waiter
<1>5. e.blocked = u.blocked /\ e.flagged = FALSE /\ e.owed = 0 /\ e.wait = u.wait /\ e.since = u.since
  BY <1>3 DEF Waiter
<1> QED BY <1>3, <1>4, <1>5

LEMMA AnsweredWaiter ==
  ASSUME NEW b \in Waiter, b.owed = 1, NEW e, e = Answered(Unblocked(b))
  PROVE  e \in Waiter /\ ~e.blocked /\ e.owed = 0 /\ e.wait = NotWaiting /\ e.since = b.since
<1>1. NotWaiting \in Wait
  BY DEF NotWaiting, Wait, Ends
<1> DEFINE u == Unblocked(b)
<1>2. u \in Waiter /\ ~u.blocked /\ u.wait = NotWaiting /\ u.owed = 1 /\ u.since = b.since
  BY <1>1 DEF Unblocked, Waiter
<1> DEFINE n == u.owed - 1
<1>3. n = 0
  BY <1>2
<1>4. e = [u EXCEPT !.owed = n]
  BY DEF Answered
<1> HIDE DEF u, n
<1> QED BY <1>2, <1>3, <1>4 DEF Waiter

(* One entry of the list of unblocked clients goes with the client.         *)
LEMMA FreeStep ==
  ASSUME ListsInv, serving.key = NoKey, NEW c \in ListClients, FreeListClient(c), turn' \in Turn,
         turn'.active = turn.active, turn'.phase = turn.phase, turn'.blocks = turn.blocks,
         chance \in [ListChance -> Nat] => Falls
  PROVE  Stays
<1> DEFINE after == [Unblocked(bpop[c]) EXCEPT !.alive = FALSE, !.flagged = FALSE, !.owed = 0]
           queue == IF bpop[c].blocked THEN Append(unblocked, c) ELSE unblocked
<1>1. bpop[c] \in Waiter /\ unblocked \in Seq(ListClients)
  BY DEF ListsInv, ListsTyped
<1>2. /\ bpop' = [bpop EXCEPT ![c] = after]
      /\ unblocked' = queue \/ unblocked' = RemoveFirst(queue, c)
      /\ db' = (IF bpop[c].blocked THEN Released(db, c) ELSE db)
      /\ UNCHANGED <<replica, serving, pushed>>
  BY DEF FreeListClient
<1>3. /\ after \in Waiter /\ ~after.blocked /\ ~after.flagged /\ after.owed = 0
      /\ after.wait = NotWaiting /\ after.since = bpop[c].since
  BY <1>1, FreedWaiter
<1>4. queue \in Seq(ListClients) /\ ToSet(unblocked) \subseteq ToSet(queue)
  BY <1>1, AppendedSet
<1> HIDE DEF after, queue
<1>5. unblocked' \in Seq(ListClients) /\ ToSet(unblocked) \subseteq ToSet(unblocked') \cup {c}
  <2>1. RemoveFirst(queue, c) \in Seq(ListClients) /\ ToSet(queue) \subseteq ToSet(RemoveFirst(queue, c)) \cup {c}
    BY <1>4, Removed
  <2> QED BY <1>2, <1>4, <2>1
<1> QED BY <1>2, <1>3, <1>5, DropStep

LEMMA DisconnectsStep ==
  ASSUME ListsInv, NEW c \in ListClients, Disconnects(c)
  PROVE  Stays
<1>1. serving.key = NoKey /\ FreeListClient(c) /\ turn \in Turn
  BY DEF Disconnects, NobodyActive, ListsInv, ListsTyped
<1>2. turn' \in Turn /\ turn'.active = turn.active /\ turn'.phase = turn.phase /\ turn'.blocks = turn.blocks
  BY <1>1 DEF Disconnects, Turn
<1>3. chance \in [ListChance -> Nat] => Falls
  BY ChanceNames, ChancesFall DEF Disconnects
<1> QED BY <1>1, <1>2, <1>3, FreeStep

LEMMA ClientKillStep ==
  ASSUME ListsInv, NEW c \in ListClients, ClientKill(c)
  PROVE  Stays
<1>1. serving.key = NoKey /\ FreeListClient(c) /\ turn \in Turn /\ turn' = turn
  BY DEF ClientKill, Processing, ListsInv, ListsTyped
<1>2. chance \in [ListChance -> Nat] => Falls
  BY ChanceNames, ChancesFall DEF ClientKill
<1> QED BY <1>1, <1>2, FreeStep

LEMMA TimeOutStep ==
  ASSUME ListsInv, NEW c \in ListClients, TimeOut(c)
  PROVE  Stays
<1> DEFINE after == Answered(Unblocked(bpop[c]))
<1>1. /\ serving.key = NoKey /\ bpop[c] \in Waiter /\ unblocked \in Seq(ListClients) /\ turn \in Turn
      /\ bpop[c].owed = 1
  BY DEF TimeOut, OneAtATime, NobodyActive, ListsInv, ListsTyped, ClientsAgree, ClientAgrees
<1>2. /\ bpop' = [bpop EXCEPT ![c] = after] /\ unblocked' = Append(unblocked, c)
      /\ db' = (IF bpop[c].blocked THEN Released(db, c) ELSE db)
      /\ UNCHANGED <<replica, serving, pushed, turn, chance>>
  BY DEF TimeOut
<1>3. after \in Waiter /\ ~after.blocked /\ after.owed = 0 /\ after.wait = NotWaiting /\ after.since = bpop[c].since
  BY <1>1, AnsweredWaiter
<1> HIDE DEF after
<1>4. /\ unblocked' \in Seq(ListClients) /\ ToSet(unblocked') = ToSet(unblocked) \cup {c}
  BY <1>1, <1>2, AppendedSet
<1>5. chance \in [ListChance -> Nat] => Falls
  BY <1>2, ChancesStay
<1> QED BY <1>1, <1>2, <1>3, <1>4, <1>5, DropStep

(* A step of the event loop that changes no lists and blocks nobody.        *)
LEMMA LoopStep ==
  ASSUME ListsInv, UNCHANGED <<db, replica, serving, pushed, chance>>,
         bpop' \in [ListClients -> Waiter], unblocked' \in Seq(ListClients),
         \A x \in ListClients : /\ bpop'[x].wait = bpop[x].wait /\ bpop'[x].blocked = bpop[x].blocked
                                /\ bpop'[x].owed = bpop[x].owed /\ bpop'[x].since = bpop[x].since
                                /\ bpop'[x].flagged => bpop[x].flagged /\ (x \in ToSet(unblocked) => x \in ToSet(unblocked')),
         turn' \in Turn, turn'.blocks = turn.blocks, OneAtATime'
  PROVE  Stays
<1>1. ListsTyped'
  BY DEF ListsInv, ListsTyped
<1>2. FullBut(db', serving'.key) /\ ServesList' /\ Mirrored' /\ BatchAgrees' /\ QueuesAreSets'
  BY DEF ListsInv, ServesList, Mirrored, BatchAgrees, QueuesAreSets
<1>3. TargetsFromTail'
  BY DEF ListsInv, TargetsFromTail
<1>4. ASSUME NEW x \in ListClients PROVE ClientAgrees(x)'
  <2>1. ClientAgrees(x)
    BY DEF ListsInv, ClientsAgree
  <2>2. /\ bpop'[x].wait = bpop[x].wait /\ bpop'[x].blocked = bpop[x].blocked
        /\ bpop'[x].owed = bpop[x].owed /\ db' = db
    OBVIOUS
  <2>3. bpop'[x].flagged => x \in ToSet(unblocked')
    BY <2>1 DEF ClientAgrees
  <2> QED BY <2>1, <2>2, <2>3 DEF ClientAgrees
<1>5. AwakeInv => AwakeInv'
  BY DEF AwakeInv, NoStringsOrSorts, Awake
<1>6. EldersFirst'
  <2>1. ASSUME NEW k \in ListKeys PROVE InOrder(db.waiting[k])'
    <3> DEFINE s == db.waiting[k]
    <3>1. s \in Seq(ListClients) /\ InOrder(s) /\ db'.waiting[k] = s
      BY DEF ListsInv, ListsTyped, Db, EldersFirst
    <3> HIDE DEF s
    <3>2. \A i \in 1 .. Len(s) : s[i] \in ListClients
      BY <3>1, ElementOfSeq
    <3> QED BY <3>1, <3>2 DEF InOrder
  <2> QED BY <2>1 DEF ListsInv, EldersFirst
<1> QED BY <1>1, <1>2, <1>3, <1>4, <1>5, <1>6 DEF Stays, ListsInv, ClientsAgree

LEMMA TurnStep ==
  ASSUME ListsInv,
         \/ \E c \in ListClients : ReadQuery(c)
         \/ QueryDone \/ TimersDue \/ BeforeSleepStarts \/ ProcessUnblocked \/ Wake
  PROVE  Stays
<1>1. /\ bpop \in [ListClients -> Waiter] /\ unblocked \in Seq(ListClients) /\ turn \in Turn
      /\ OneAtATime
  BY DEF ListsInv, ListsTyped
<1>2. ASSUME NEW c \in ListClients, ReadQuery(c) PROVE Stays
  <2>1. turn' \in Turn /\ turn'.blocks = turn.blocks /\ turn'.active = c /\ turn'.phase = "files" /\ bpop' = bpop /\ ~bpop[c].blocked
    BY <1>1, <1>2 DEF ReadQuery, Turn
  <2>2. OneAtATime'
    BY <2>1 DEF OneAtATime
  <2> QED BY <1>1, <1>2, <2>1, <2>2, LoopStep DEF ReadQuery
<1>3. CASE QueryDone
  <2>1. turn' \in Turn /\ turn'.blocks = turn.blocks /\ turn'.active = NoClient /\ turn'.phase = turn.phase
    BY <1>1, <1>3 DEF QueryDone, Turn
  <2>2. turn.phase # "cron"
    BY <1>1, <1>3 DEF QueryDone, OneAtATime, NobodyActive
  <2>3. OneAtATime'
    BY <2>1, <2>2 DEF OneAtATime
  <2> QED BY <1>1, <1>3, <2>1, <2>3, LoopStep DEF QueryDone
<1>4. CASE TimersDue
  <2>1. turn' \in Turn /\ turn'.blocks = turn.blocks /\ turn'.active = turn.active /\ bpop' = bpop /\ serving' = serving /\ db' = db
    BY <1>1, <1>4 DEF TimersDue, Turn
  <2>2. OneAtATime'
    BY <1>4, <2>1 DEF TimersDue, OneAtATime, NobodyActive
  <2> QED BY <1>1, <1>4, <2>1, <2>2, LoopStep DEF TimersDue
<1>5. CASE BeforeSleepStarts
  <2>1. turn' \in Turn /\ turn'.blocks = turn.blocks /\ turn'.active = turn.active /\ turn'.phase = "sleep" /\ bpop' = bpop
    BY <1>1, <1>5 DEF BeforeSleepStarts, Turn
  <2>2. OneAtATime'
    BY <1>1, <2>1 DEF OneAtATime
  <2> QED BY <1>1, <1>5, <2>1, <2>2, LoopStep DEF BeforeSleepStarts
<1>6. CASE Wake
  <2>1. turn' \in Turn /\ turn'.blocks = turn.blocks /\ turn'.active = NoClient /\ turn'.phase = "files" /\ bpop' = bpop
    BY <1>1, <1>6 DEF Wake, Turn, NobodyActive
  <2>2. OneAtATime'
    BY <1>1, <2>1 DEF OneAtATime
  <2> QED BY <1>1, <1>6, <2>1, <2>2, LoopStep DEF Wake
<1>7. CASE ProcessUnblocked
  <2> DEFINE h == Head(unblocked)
             t == Tail(unblocked)
  <2>1. h \in ListClients /\ t \in Seq(ListClients) /\ ToSet(unblocked) = ToSet(t) \cup {h} /\ unblocked' = t
    BY <1>1, <1>7, TailSet DEF ProcessUnblocked
  <2>2. /\ bpop' = [bpop EXCEPT ![h].flagged = FALSE]
        /\ turn' = [turn EXCEPT !.active = IF bpop[h].blocked THEN NoClient ELSE h]
        /\ turn.phase = "sleep" /\ UNCHANGED <<db, replica, serving, pushed, chance>>
    BY <1>7 DEF ProcessUnblocked
  <2> HIDE DEF h, t
  <2>3. bpop[h] \in Waiter /\ [bpop[h] EXCEPT !.flagged = FALSE] \in Waiter
    BY <1>1, <2>1 DEF Waiter
  <2>4. /\ bpop' \in [ListClients -> Waiter]
        /\ \A x \in ListClients : bpop'[x] = IF x = h THEN [bpop[h] EXCEPT !.flagged = FALSE] ELSE bpop[x]
    BY <1>1, <2>1, <2>2, <2>3
  <2>5. LET b == [bpop[h] EXCEPT !.flagged = FALSE]
        IN  b.wait = bpop[h].wait /\ b.blocked = bpop[h].blocked /\ b.owed = bpop[h].owed /\ b.since = bpop[h].since /\ ~b.flagged
    BY <2>3 DEF Waiter
  <2>6. \A x \in ListClients :
          /\ bpop'[x].wait = bpop[x].wait /\ bpop'[x].blocked = bpop[x].blocked
          /\ bpop'[x].owed = bpop[x].owed /\ bpop'[x].since = bpop[x].since
          /\ bpop'[x].flagged => bpop[x].flagged /\ (x \in ToSet(unblocked) => x \in ToSet(unblocked'))
    BY <2>1, <2>4, <2>5
  <2>7. turn' \in Turn /\ turn'.blocks = turn.blocks /\ turn'.phase = "sleep" /\ turn'.active = IF bpop[h].blocked THEN NoClient ELSE h
    BY <1>1, <2>1, <2>2 DEF Turn
  <2>8. OneAtATime'
    BY <2>1, <2>6, <2>7 DEF OneAtATime
  <2> QED BY <2>1, <2>2, <2>4, <2>6, <2>7, <2>8, LoopStep
<1> QED BY <1>2, <1>3, <1>4, <1>5, <1>6, <1>7

----------------------------------------------------------------------------
(* Serving the clients of the ready keys                                    *)

LEMMA Nothing ==
  ASSUME NEW d \in Db, NEW key \in ListKeys, d.value[key].items # <<>> \/ ~IsList(d, key)
  PROVE  TrimEmpty(d, key) = d
  BY NoLength DEF TrimEmpty

LEMMA ServeReadyStep ==
  ASSUME ListsInv, ServeReady
  PROVE  Stays
<1>1. db \in Db /\ serving \in Serving /\ serving.key = NoKey /\ serving.batch = <<>> /\ db.ready # <<>>
  BY DEF ServeReady, ListsInv, ListsTyped
<1> DEFINE ready == db.ready
           none == <<>>
<1>2. /\ serving' = [serving EXCEPT !.batch = ready] /\ db' = [db EXCEPT !.ready = none]
      /\ UNCHANGED <<replica, bpop, unblocked, turn, pushed, chance>>
  BY DEF ServeReady
<1>3. ready \in Seq(ListKeys) /\ none \in Seq(ListKeys) /\ ready = db.ready
  BY <1>1, EmptySeq DEF Db
<1> HIDE DEF ready, none
<1>4. /\ serving' \in Serving /\ serving'.batch = ready /\ serving'.key = NoKey
      /\ db' \in Db /\ db'.value = db.value /\ db'.waiting = db.waiting
      /\ db'.signalled = db.signalled /\ db'.ready = none
  BY <1>1, <1>2, <1>3 DEF Db, Serving
<1>5. ListsTyped'
  BY <1>2, <1>4 DEF ListsInv, ListsTyped
<1>6. FullBut(db', serving'.key) /\ TargetsFromTail' /\ ServesList' /\ Mirrored'
  BY <1>1, <1>2, <1>4, ListAssumption DEF ListsInv, FullBut, IsList, TargetsFromTail, ServesList, Mirrored
<1>7. OneAtATime'
  BY <1>1, <1>2 DEF ListsInv, OneAtATime, NobodyActive
<1>8. ClientsAgree' /\ QueuesAreSets' /\ EldersFirst'
  BY <1>2, <1>4 DEF ListsInv, ClientsAgree, ClientAgrees, QueuesAreSets, EldersFirst, InOrder
<1>9. BatchAgrees'
  <2>1. ReadyAgrees(db, {}) /\ ToSet(none) = {} /\ IsInjective(none)
    BY <1>1, EmptyToSet DEF ListsInv, BatchAgrees, none
  <2> QED BY <1>3, <1>4, <2>1 DEF BatchAgrees, ReadyAgrees
<1>10. AwakeInv => AwakeInv'
  BY <1>2, <1>4, <1>1 DEF AwakeInv, NoStringsOrSorts, NoStrings, Awake, IsList
<1> QED BY <1>5, <1>6, <1>7, <1>8, <1>9, <1>10 DEF Stays, ListsInv

LEMMA ServeKeyStep ==
  ASSUME ListsInv, ServeKey
  PROVE  Stays
<1> DEFINE key == Head(serving.batch)
           rest == Tail(serving.batch)
           signalled == db.signalled \ {key}
<1>1. /\ db \in Db /\ replica \in Db /\ serving \in Serving /\ serving.key = NoKey
      /\ serving.batch \in Seq(ListKeys) /\ serving.batch # <<>>
  BY DEF ServeKey, ListsInv, ListsTyped, Serving
<1>2. /\ db' = [db EXCEPT !.signalled = signalled]
      /\ serving' = [batch |-> rest, key |-> IF IsList(db, key) THEN key ELSE NoKey,
                     left |-> Len(db.waiting[key])]
      /\ UNCHANGED <<replica, bpop, unblocked, turn, pushed, chance>>
  BY DEF ServeKey
<1>3. /\ key \in ListKeys /\ rest \in Seq(ListKeys)
      /\ ToSet(serving.batch) = ToSet(rest) \cup {key}
      /\ IsInjective(rest) /\ key \notin ToSet(rest)
  BY <1>1, TailSet DEF ListsInv, BatchAgrees
<1>4. signalled = db.signalled \ {key}
  OBVIOUS
<1> HIDE DEF key, rest, signalled
<1>5. Len(db.waiting[key]) \in Nat /\ signalled \in SUBSET ListKeys
  <2>1. db.waiting[key] \in Seq(ListClients)
    BY <1>1, <1>3 DEF Db
  <2> QED BY <1>1, <1>4, <2>1, LenProperties DEF Db
<1>6. /\ serving' \in Serving /\ serving'.batch = rest /\ serving'.left = Len(db.waiting[key])
      /\ serving'.key = (IF IsList(db, key) THEN key ELSE NoKey)
  BY <1>2, <1>3, <1>5 DEF Serving
<1>7. /\ db' \in Db /\ db'.value = db.value /\ db'.waiting = db.waiting /\ db'.ready = db.ready
      /\ db'.signalled = signalled
  BY <1>1, <1>2, <1>5 DEF Db
<1>8. ListsTyped'
  BY <1>2, <1>6, <1>7 DEF ListsInv, ListsTyped
<1>9. FullBut(db', serving'.key) /\ TargetsFromTail'
  BY <1>1, <1>2, <1>3, <1>6, <1>7, ListAssumption DEF ListsInv, FullBut, IsList, TargetsFromTail
<1>10. ServesList'
  BY <1>3, <1>6, <1>7, ListAssumption DEF ServesList, IsList
<1>11. Mirrored'
  <2>1. IsList(db, key) => db.value[key].items # <<>>
    BY <1>1, <1>3, ListAssumption DEF ListsInv, FullBut
  <2>2. TrimEmpty(db', key) = db'
    BY <1>3, <1>7, <2>1, Nothing DEF IsList
  <2>3. replica'.value = db'.value
    BY <1>1, <1>2, <1>7 DEF ListsInv, Mirrored
  <2> QED BY <1>6, <2>2, <2>3 DEF Mirrored
<1>12. OneAtATime'
  BY <1>1, <1>2 DEF ListsInv, OneAtATime, NobodyActive
<1>13. ClientsAgree' /\ QueuesAreSets' /\ EldersFirst'
  BY <1>2, <1>7 DEF ListsInv, ClientsAgree, ClientAgrees, QueuesAreSets, EldersFirst, InOrder
<1>14. BatchAgrees'
  <2>1. ReadyAgrees(db, ToSet(rest) \cup {key})
    BY <1>3 DEF ListsInv, BatchAgrees
  <2>2. ReadyAgrees(db', ToSet(rest))
    BY <1>3, <1>4, <1>7, <2>1 DEF ReadyAgrees
  <2> QED BY <1>3, <1>6, <2>2 DEF BatchAgrees
<1>15. AwakeInv => AwakeInv'
  <2>1. ASSUME Awake PROVE Awake'
    <3> SUFFICES ASSUME NEW k \in ListKeys, IsList(db', k), db'.waiting[k] # <<>>
                 PROVE  k \in db'.signalled \cup {serving'.key}
      BY DEF Awake
    <3>1. IsList(db, k) /\ db.waiting[k] # <<>>
      BY <1>7 DEF IsList
    <3>2. k \in db.signalled
      BY <1>1, <2>1, <3>1, ListAssumption DEF Awake
    <3> QED BY <1>4, <1>6, <1>7, <3>1, <3>2
  <2> QED BY <1>2, <1>7, <2>1 DEF AwakeInv, NoStringsOrSorts, NoStrings
<1> QED BY <1>8, <1>9, <1>10, <1>11, <1>12, <1>13, <1>14, <1>15 DEF Stays, ListsInv

(* The list that was served is forgotten when it is empty.                  *)
LEMMA ServeDoneStep ==
  ASSUME ListsInv, ServeDone
  PROVE  Stays
<1> DEFINE key == serving.key
<1>1. /\ db \in Db /\ replica \in Db /\ serving \in Serving /\ key \in ListKeys /\ key # NoKey
      /\ serving.batch \in Seq(ListKeys)
  BY DEF ServeDone, ListsInv, ListsTyped, Serving
<1>2. /\ db' = TrimEmpty(db, key) /\ serving' = [serving EXCEPT !.key = NoKey, !.left = 0]
      /\ UNCHANGED <<replica, bpop, unblocked, turn, pushed, chance>>
      /\ serving.left = 0 \/ Length(db, key) = 0
  BY DEF ServeDone
<1>3. /\ key = serving.key /\ FullBut(db, key) /\ IsList(db, key) /\ serving.left = Len(db.waiting[key])
      /\ replica.value = TrimEmpty(db, key).value
  BY <1>1 DEF ListsInv, ServesList, Mirrored
<1> HIDE DEF key
<1>4. serving' \in Serving /\ serving'.key = NoKey /\ serving'.batch = serving.batch
  BY <1>1, <1>2 DEF Serving
<1>5. Does(db, db', db') /\ FullBut(db', NoKey)
  BY <1>1, <1>2, <1>3, TrimDoes DEF Same
<1>6. db' \in Db /\ db'.waiting = db.waiting /\ db.signalled \subseteq db'.signalled
  BY <1>5 DEF Does, Acts, Keeps
<1>7. ListsTyped'
  BY <1>2, <1>4, <1>6 DEF ListsInv, ListsTyped
<1>8. TargetsFromTail' /\ ServesList' /\ Mirrored'
  BY <1>2, <1>3, <1>4 DEF ListsInv, TargetsFromTail, ServesList, Mirrored
<1>9. OneAtATime'
  BY <1>1, <1>2, <1>3 DEF ListsInv, OneAtATime, NobodyActive
<1>10. ClientsAgree' /\ QueuesAreSets' /\ EldersFirst'
  BY <1>2, <1>6 DEF ListsInv, ClientsAgree, ClientAgrees, QueuesAreSets, EldersFirst, InOrder
<1>11. BatchAgrees'
  <2>1. ToSet(serving.batch) \in SUBSET ListKeys
    BY <1>1, ToSetType
  <2>2. ReadyAgrees(db', ToSet(serving.batch))
    BY <1>5, <2>1 DEF Does, Acts, Keeps, ListsInv, BatchAgrees
  <2> QED BY <1>4, <2>2 DEF BatchAgrees, ListsInv
<1>12. ASSUME IsList(db', key) PROVE db.waiting[key] = <<>>
  <2>1. db'.value[key].items # <<>>
    BY <1>1, <1>5, <1>12 DEF FullBut
  <2>2. Length(db, key) # 0
    <3> SUFFICES ASSUME Length(db, key) = 0 PROVE FALSE
      OBVIOUS
    <3>1. db' = DbDelete(db, key)
      BY <1>2, <1>3 DEF TrimEmpty
    <3>2. db'.value = [db.value EXCEPT ![key] = NoValue]
      BY <1>1, <3>1, OtherValues, WithValueAssigns DEF DbDelete, Assigns
    <3>3. db'.value[key] = NoValue
      BY <1>1, <3>2 DEF Db
    <3> QED BY <1>12, <3>3, OtherValues DEF IsList
  <2>3. Len(db.waiting[key]) = 0 /\ db.waiting[key] \in Seq(ListClients)
    BY <1>1, <1>2, <1>3, <2>2 DEF Db
  <2> QED BY <2>3, EmptySeq
<1>13. AwakeInv => AwakeInv'
  <2>1. ASSUME Awake PROVE Awake'
    <3> SUFFICES ASSUME NEW k \in ListKeys, IsList(db', k), db'.waiting[k] # <<>>
                 PROVE  k \in db'.signalled
      BY DEF Awake
    <3>1. k # key /\ (IsList(db, k) \/ k \in db'.signalled) /\ db.waiting[k] # <<>>
      BY <1>5, <1>6, <1>12 DEF Does, Loud
    <3> QED BY <1>3, <1>6, <2>1, <3>1 DEF Awake
  <2> QED BY <1>2, <1>5, <2>1 DEF AwakeInv, NoStringsOrSorts, Does
<1> QED BY <1>4, <1>5, <1>7, <1>8, <1>9, <1>10, <1>11, <1>13 DEF Stays, ListsInv

(* A client is answered with an element of the list: "rest" is what is left *)
(* of the dataset, and db' is what becomes of it.                           *)
LEMMA AnswerStep ==
  ASSUME ListsInv, NEW key \in ListKeys, serving.key = key, key # NoKey, serving.left > 0,
         NEW c \in ListClients, c = Head(db.waiting[key]),
         NEW d1, Does(db, d1, d1), NEW rest, rest = Released(d1, c),
         Keeps(rest, db'), Loud(rest, db'), NoStrings(rest) => NoStrings(db'),
         FullBut(db', key), IsList(db', key),
         replica' \in Db, replica'.value = TrimEmpty(db', key).value,
         bpop' = [bpop EXCEPT ![c] = Answered(Unblocked(bpop[c]))],
         unblocked' = Append(unblocked, c), serving' = [serving EXCEPT !.left = serving.left - 1],
         UNCHANGED <<turn, pushed, chance>>
  PROVE  Stays
<1> DEFINE after == Answered(Unblocked(bpop[c]))
           queue == db.waiting[key]
           left == serving.left - 1
<1>1. /\ db \in Db /\ bpop[c] \in Waiter /\ unblocked \in Seq(ListClients) /\ serving \in Serving
      /\ turn \in Turn /\ serving.left \in Nat
  BY DEF ListsInv, ListsTyped, Serving
<1>2. queue \in Seq(ListClients) /\ serving.left = Len(queue) /\ c = Head(queue)
  BY <1>1 DEF ListsInv, ServesList, Db
<1>3. left \in Nat /\ left = serving.left - 1
  BY <1>1
<1>4. queue # <<>>
  BY <1>2
<1> HIDE DEF queue
<1>5. c \in ToSet(queue)
  BY <1>2, <1>4, TailSet
<1>6. bpop[c].owed = 1
  <2>1. ClientAgrees(c)
    BY DEF ListsInv, ClientsAgree
  <2> QED BY <1>5, <2>1 DEF ClientAgrees, queue
<1>7. after \in Waiter /\ ~after.blocked /\ after.owed = 0 /\ after.wait = NotWaiting /\ after.since = bpop[c].since
  BY <1>1, <1>6, AnsweredWaiter
<1>8. bpop' = [bpop EXCEPT ![c] = after]
  OBVIOUS
<1> HIDE DEF after
<1>9. unblocked' \in Seq(ListClients) /\ ToSet(unblocked') = ToSet(unblocked) \cup {c}
  BY <1>1, AppendedSet
<1>10. /\ d1 \in Db /\ d1.waiting = db.waiting /\ db.signalled \subseteq d1.signalled
       /\ ReadyAgrees(d1, ToSet(serving.batch))
  <2>1. ToSet(serving.batch) \in SUBSET ListKeys
    BY <1>1, ToSetType DEF Serving
  <2> QED BY <2>1 DEF Does, Acts, Keeps, ListsInv, BatchAgrees
<1>11. /\ rest \in Db /\ rest.value = d1.value /\ rest.ready = d1.ready /\ rest.signalled = d1.signalled
       /\ \A k \in ListKeys : rest.waiting[k] = RemoveFirst(db.waiting[k], c)
  BY <1>10, ReleasedFacts
<1>12. /\ db' \in Db /\ db'.waiting = rest.waiting /\ d1.signalled \subseteq db'.signalled
       /\ ReadyAgrees(db', ToSet(serving.batch))
  <2>1. ToSet(serving.batch) \in SUBSET ListKeys
    BY <1>1, ToSetType DEF Serving
  <2>2. ReadyAgrees(rest, ToSet(serving.batch))
    BY <1>10, <1>11 DEF ReadyAgrees
  <2> QED BY <1>11, <2>1, <2>2 DEF Keeps
<1>13. \A k \in ListKeys : db'.waiting[k] = RemoveFirst(db.waiting[k], c)
  BY <1>11, <1>12
<1>14. /\ ClientsAgree' /\ QueuesAreSets' /\ EldersFirst' /\ TargetsFromTail' /\ bpop' \in [ListClients -> Waiter]
       /\ \A k \in ListKeys : db'.waiting[k] # <<>> => db.waiting[k] # <<>>
       /\ \A x \in ListClients : bpop'[x].blocked => bpop[x].blocked
  BY <1>7, <1>8, <1>9, <1>13, ReleaseStep
<1>15. serving' \in Serving /\ serving'.key = key /\ serving'.batch = serving.batch /\ serving'.left = left
  <2>1. serving' = [serving EXCEPT !.left = left]
    OBVIOUS
  <2> HIDE DEF left
  <2> QED BY <1>1, <1>3, <2>1 DEF Serving
<1>16. ListsTyped'
  BY <1>9, <1>12, <1>14, <1>15 DEF ListsInv, ListsTyped
<1>17. ServesList'
  <2>1. Len(RemoveFirst(queue, c)) = Len(queue) - 1
    BY <1>2, <1>5, Removed
  <2>2. db'.waiting[key] = RemoveFirst(queue, c)
    BY <1>13 DEF queue
  <2>3. Len(db'.waiting[key]) = serving'.left
    BY <1>2, <1>15, <2>1, <2>2
  <2> QED BY <1>15, <2>3 DEF ServesList
<1>18. Mirrored'
  BY <1>15 DEF Mirrored
<1>19. OneAtATime'
  <2>1. turn.active \in ListClients \cup {NoClient} /\ turn' = turn
    BY <1>1 DEF Turn
  <2>2. turn.phase # "cron"
    BY DEF ListsInv, OneAtATime, NobodyActive
  <2> QED BY <1>14, <2>1, <2>2 DEF ListsInv, OneAtATime
<1>20. BatchAgrees'
  BY <1>12, <1>15 DEF BatchAgrees, ListsInv
<1>21. FullBut(db', serving'.key)
  BY <1>15
<1>22. ASSUME AwakeInv PROVE AwakeInv'
  <2>1. NoStrings(db) => NoStrings(db')
    BY <1>11 DEF Does, NoStrings
  <2>2. NoStringsOrSorts'
    BY <1>22, <2>1, ChancesStay, StillNoStringsOrSorts DEF AwakeInv
  <2>3. ASSUME NEW k \in ListKeys, IsList(db', k), db'.waiting[k] # <<>>
        PROVE  k \in db'.signalled \cup {serving'.key}
    <3>1. db.waiting[k] # <<>> /\ rest.waiting[k] # <<>>
      BY <1>12, <1>14, <2>3
    <3>2. IsList(rest, k) \/ k \in db'.signalled
      BY <2>3, <3>1 DEF Loud
    <3>3. IsList(rest, k) => IsList(d1, k)
      BY <1>11 DEF IsList
    <3>4. IsList(d1, k) => IsList(db, k) \/ k \in d1.signalled
      BY <3>1 DEF Does, Loud
    <3>5. IsList(db, k) => k \in db.signalled \cup {serving.key}
      BY <1>22, <3>1 DEF AwakeInv, Awake
    <3> QED BY <1>10, <1>12, <1>15, <3>2, <3>3, <3>4, <3>5
  <2> QED BY <1>22, <2>2, <2>3 DEF AwakeInv, Awake
<1> QED BY <1>14, <1>16, <1>17, <1>18, <1>19, <1>20, <1>21, <1>22 DEF Stays, ListsInv

(* The value of a dataset after the element went from one list to another,  *)
(* and the list it was taken from was trimmed before or after.              *)
LEMMA MovedValues ==
  ASSUME NEW d \in Db, NEW e \in Db, NEW key \in ListKeys, NEW target \in ListKeys, NEW items \in Seq(Nat),
         d.value[key] = AList(items), KeyExists(d, target) => IsList(d, target),
         NEW v, e.value = [d.value EXCEPT ![key] = v], v = IF items = <<>> THEN NoValue ELSE AList(items),
         NEW element \in Nat
  PROVE  /\ KeyExists(e, target) => IsList(e, target)
         /\ TrimEmpty(RawPush(d, target, element, "head"), key).value
              = RawPush(e, target, element, "head").value
<1> DEFINE d2 == RawPush(d, target, element, "head")
           e2 == RawPush(e, target, element, "head")
           dv == IF KeyExists(d, target) THEN AList(Pushed(d.value[target].items, element, "head"))
                 ELSE AList(<<element>>)
           ev == IF KeyExists(e, target) THEN AList(Pushed(e.value[target].items, element, "head"))
                 ELSE AList(<<element>>)
<1>1. /\ "head" \in Ends /\ AList(items).kind = "list" /\ AList(items).items = items
      /\ NoValue.kind = "none" /\ d.value \in [ListKeys -> Values]
  BY AListFacts, OtherValues DEF Ends, Db
<1>2. e.value[key] = v /\ \A k \in ListKeys : k # key => e.value[k] = d.value[k]
  BY <1>1
<1>3. KeyExists(e, target) => IsList(e, target)
  BY <1>1, <1>2 DEF KeyExists, IsList
<1>4. /\ Keeps(d, d2) /\ d2.value = [d.value EXCEPT ![target] = dv] /\ dv.items # <<>>
      /\ Keeps(e, e2) /\ e2.value = [e.value EXCEPT ![target] = ev]
  BY <1>1, <1>3, RawPushAssigns DEF Assigns
<1>5. dv = ev
  <2>1. CASE target # key
    BY <1>2, <2>1 DEF KeyExists
  <2>2. CASE target = key
    <3>1. KeyExists(d, target) /\ d.value[target].items = items
      BY <1>1, <2>2 DEF KeyExists
    <3>2. CASE items = <<>>
      <4>1. ~KeyExists(e, target)
        BY <1>1, <1>2, <2>2, <3>2 DEF KeyExists
      <4>2. Pushed(items, element, "head") = <<element>>
        BY <3>2, EmptySeq, <1>1, PushedFacts
      <4> QED BY <3>1, <4>1, <4>2
    <3>3. CASE items # <<>>
      BY <1>1, <1>2, <2>2, <3>1, <3>3 DEF KeyExists
    <3> QED BY <3>2, <3>3
  <2> QED BY <2>1, <2>2
<1> HIDE DEF d2, e2, dv, ev
<1>6. d2 \in Db /\ e2 \in Db
  BY <1>4 DEF Keeps
<1> DEFINE t == TrimEmpty(d2, key)
           tv == IF IsList(d2, key) /\ d2.value[key].items = <<>> THEN NoValue ELSE d2.value[key]
<1>7. t \in Db /\ t.value = [d2.value EXCEPT ![key] = tv]
  BY <1>6, TrimAssigns DEF Assigns, Keeps
<1>8. ASSUME NEW k \in ListKeys PROVE t.value[k] = e2.value[k]
  <2>0. /\ t.value[k] = (IF k = key THEN tv ELSE d2.value[k])
        /\ d2.value[k] = (IF k = target THEN dv ELSE d.value[k])
        /\ e2.value[k] = (IF k = target THEN dv ELSE e.value[k])
    <3>1. d2.value \in [ListKeys -> Values] /\ e.value \in [ListKeys -> Values]
      BY <1>6 DEF Db
    <3> HIDE DEF t, tv
    <3> QED BY <1>1, <1>4, <1>5, <1>7, <3>1
  <2>1. CASE k # key
    BY <1>2, <2>0, <2>1
  <2>2. CASE k = key /\ k = target
    BY <1>4, <2>0, <2>2
  <2>3. CASE k = key /\ k # target
    <3>1. d2.value[key] = AList(items) /\ IsList(d2, key)
      BY <1>1, <2>0, <2>3 DEF IsList
    <3> QED BY <1>1, <1>2, <2>0, <2>3, <3>1
  <2> QED BY <2>1, <2>2, <2>3
<1>9. t.value \in [ListKeys -> Values] /\ e2.value \in [ListKeys -> Values]
  BY <1>6, <1>7 DEF Db
<1> HIDE DEF t
<1>10. t.value = e2.value
  BY <1>8, <1>9
<1> QED BY <1>3, <1>10 DEF t, d2, e2

LEMMA ServeClientStep ==
  ASSUME ListsInv, ServeClient
  PROVE  Stays
<1> DEFINE key == serving.key
           queue == db.waiting[key]
           c == Head(queue)
           target == bpop[c].wait.target
           where == bpop[c].wait.where
           items == db.value[key].items
           element == End(items, where)
           popped == Popped(items, where)
           d1 == RawPop(db, key, where)
           r1 == RawPop(replica, key, where)
           rest == Released(d1, c)
<1>1. /\ key # NoKey /\ serving.left > 0 /\ Length(db, key) > 0
      /\ bpop' = [bpop EXCEPT ![c] = Answered(Unblocked(bpop[c]))]
      /\ unblocked' = Append(unblocked, c) /\ serving' = [serving EXCEPT !.left = serving.left - 1]
      /\ UNCHANGED <<turn, pushed, chance>>
  BY DEF ServeClient
<1>2. \/ target = NoKey /\ db' = rest /\ replica' = Pop(replica, key, where)
      \/ /\ target # NoKey /\ (KeyExists(rest, target) => IsList(rest, target))
         /\ db' = RawPush(rest, target, element, "head")
         /\ replica' = Push(Pop(replica, key, "tail"), target, <<element>>, "head")
      \/ /\ target # NoKey /\ KeyExists(rest, target) /\ ~IsList(rest, target)
         /\ db' = UndonePop(rest, key, element, where) /\ replica' = replica
  BY DEF ServeClient
<1>3. /\ db \in Db /\ replica \in Db /\ key \in ListKeys /\ bpop \in [ListClients -> Waiter]
      /\ IsList(db, key) /\ serving.left = Len(queue) /\ FullBut(db, key)
      /\ replica.value = TrimEmpty(db, key).value /\ serving.key = key
  BY <1>1 DEF ListsInv, ListsTyped, Serving, ServesList, Mirrored
<1>4. queue \in Seq(ListClients) /\ queue # <<>> /\ c = Head(db.waiting[key])
  <2>1. queue \in Seq(ListClients)
    BY <1>3 DEF Db
  <2>2. queue # <<>>
    BY <1>1, <1>3
  <2> QED BY <2>1, <2>2
<1>5. items \in Seq(Nat) /\ items # <<>> /\ db.value[key] = AList(items)
  <2>1. items \in Seq(Nat) /\ items # <<>> /\ db.value[key] \in Values
    BY <1>1, <1>3, ValueType, NoLength
  <2>2. db.value[key] = [kind |-> "list", items |-> items]
    BY <1>3, <2>1 DEF Values, IsList
  <2> QED BY <2>1, <2>2 DEF AList, Value
<1> HIDE DEF key, queue
<1>6. c \in ListClients
  BY <1>4, TailSet
<1>7. /\ where \in Ends /\ target \in ListKeys \cup {NoKey} /\ (target # NoKey => where = "tail")
  <2>1. bpop[c] \in Waiter /\ bpop[c].wait \in Wait
    BY <1>3, <1>6 DEF Waiter
  <2> QED BY <1>6, <2>1 DEF Wait, ListsInv, TargetsFromTail
<1> HIDE DEF c, target, where, items
<1>8. Same(db, replica) /\ Full(db)
  <2>1. TrimEmpty(db, key) = db
    BY <1>3, <1>5, Nothing DEF items
  <2> QED BY <1>3, <1>5, <2>1 DEF Same, Full, FullBut, items
<1>9. element \in Nat /\ popped \in Seq(Nat) /\ Pushed(popped, element, where) = items
  BY <1>5, <1>7, EndFacts
<1>10. /\ Does(db, d1, r1) /\ Does(db, d1, d1) /\ IsList(d1, key) /\ FullBut(d1, key) /\ Same(d1, r1)
       /\ d1.value[key] = AList(popped) /\ d1.value = [db.value EXCEPT ![key] = AList(popped)]
  <2>1. Same(db, db)
    BY <1>3 DEF Same
  <2>2. /\ Does(db, d1, r1) /\ Does(db, d1, d1) /\ IsList(d1, key) /\ FullBut(d1, key)
    BY <1>3, <1>5, <1>7, <1>8, <2>1, RawPopDoes DEF Full, items
  <2>3. d1.value = [db.value EXCEPT ![key] = AList(popped)]
    BY <1>3, <1>5, <1>7, RawPopAssigns DEF Assigns, items
  <2>4. d1.value[key] = AList(popped)
    BY <1>3, <2>3 DEF Db
  <2> QED BY <2>2, <2>3, <2>4, DoesSame DEF Does
<1> HIDE DEF d1, r1, popped, element
<1>11. /\ d1 \in Db /\ r1 \in Db /\ r1.value = d1.value
  BY <1>10 DEF Same
<1>12. rest \in Db /\ rest.value = d1.value /\ rest = Released(d1, c)
  BY <1>11, ReleasedFacts
<1> HIDE DEF rest
<1>13. IsList(rest, key) /\ FullBut(rest, key)
  BY <1>10, <1>12 DEF IsList, FullBut
<1>14. Pop(replica, key, where) = TrimEmpty(r1, key)
  <2>1. IsList(replica, key)
    BY <1>3, <1>8, SameKeys
  <2> QED BY <2>1 DEF Pop, r1
<1>15. /\ TrimEmpty(r1, key) \in Db /\ TrimEmpty(rest, key).value = TrimEmpty(r1, key).value
       /\ TrimEmpty(r1, key).value = [rest.value EXCEPT ![key] = IF popped = <<>> THEN NoValue ELSE AList(popped)]
  <2>1. Same(rest, r1)
    BY <1>11, <1>12 DEF Same
  <2>2. TrimEmpty(r1, key) \in Db /\ TrimEmpty(rest, key).value = TrimEmpty(r1, key).value
    BY <1>3, <2>1, TrimDoes DEF Does, Acts
  <2>3. IsList(r1, key) /\ r1.value[key] = AList(popped) /\ r1.value[key].items = popped
    BY <1>10, <1>11, SameKeys, AListFacts
  <2>4. TrimEmpty(r1, key).value = [r1.value EXCEPT ![key] = IF popped = <<>> THEN NoValue ELSE AList(popped)]
    BY <1>3, <1>11, <2>3, TrimAssigns DEF Assigns
  <2> QED BY <1>11, <1>12, <2>2, <2>4
<1>16. CASE target = NoKey
  <2>1. db' = rest /\ replica' = TrimEmpty(r1, key)
    BY <1>2, <1>14, <1>16
  <2>2. Keeps(rest, db') /\ Loud(rest, db') /\ (NoStrings(rest) => NoStrings(db'))
    BY <1>12, <2>1 DEF Keeps, Loud
  <2>3. FullBut(db', key) /\ IsList(db', key)
    BY <1>13, <2>1
  <2>4. replica' \in Db /\ replica'.value = TrimEmpty(db', key).value
    BY <1>15, <2>1
  <2> QED BY <1>1, <1>3, <1>4, <1>6, <1>10, <1>12, <2>2, <2>3, <2>4, AnswerStep
<1>17. CASE target # NoKey /\ (KeyExists(rest, target) => IsList(rest, target))
  <2> DEFINE e == TrimEmpty(r1, key)
             one == <<element>>
             v == IF popped = <<>> THEN NoValue ELSE AList(popped)
  <2>1. /\ db' = RawPush(rest, target, element, "head") /\ replica' = Push(e, target, one, "head")
        /\ target \in ListKeys
    BY <1>2, <1>7, <1>14, <1>17
  <2>2. e \in Db /\ e.value = [rest.value EXCEPT ![key] = v]
    BY <1>15
  <2>3. rest.value[key] = AList(popped)
    BY <1>10, <1>12
  <2>4. "head" \in Ends /\ Len(one) = 1 /\ one[1] = element
    BY DEF Ends
  <2>5. v = IF popped = <<>> THEN NoValue ELSE AList(popped)
    OBVIOUS
  <2> HIDE DEF e, one, v
  <2>6. /\ KeyExists(e, target) => IsList(e, target)
        /\ TrimEmpty(db', key).value = RawPush(e, target, element, "head").value
    BY <1>3, <1>9, <1>12, <1>17, <2>1, <2>2, <2>3, <2>5, MovedValues
  <2>7. replica' = RawPush(e, target, element, "head")
    BY <2>1, <2>4, <2>6, PushIs
  <2>8. replica' \in Db
    <3>1. Same(e, e)
      BY <2>2 DEF Same
    <3>2. Does(e, replica', replica')
      BY <1>9, <2>1, <2>4, <2>6, <2>7, <3>1, RawPushDoes
    <3> QED BY <3>2 DEF Does, Acts
  <2>9. Same(rest, rest)
    BY <1>12 DEF Same
  <2>10. Does(rest, db', db') /\ IsList(db', target) /\ FullBut(db', key)
    BY <1>9, <1>13, <1>17, <2>1, <2>4, <2>9, RawPushDoes
  <2>11. Keeps(rest, db') /\ Loud(rest, db') /\ (NoStrings(rest) => NoStrings(db'))
    BY <2>10 DEF Does, Acts
  <2>12. IsList(db', key)
    <3>1. CASE key = target
      BY <2>10, <3>1
    <3>2. CASE key # target
      <4> DEFINE w == IF KeyExists(rest, target) THEN AList(Pushed(rest.value[target].items, element, "head"))
                      ELSE AList(one)
      <4>1. db'.value = [rest.value EXCEPT ![target] = w]
        BY <1>9, <1>12, <1>17, <2>1, <2>4, RawPushAssigns DEF Assigns, one
      <4> HIDE DEF w
      <4>2. db'.value[key] = rest.value[key]
        BY <1>3, <1>12, <3>2, <4>1 DEF Db
      <4> QED BY <1>13, <4>2 DEF IsList
    <3> QED BY <3>1, <3>2
  <2>13. replica'.value = TrimEmpty(db', key).value
    BY <2>6, <2>7
  <2> QED BY <1>1, <1>3, <1>4, <1>6, <1>10, <1>12, <2>8, <2>10, <2>11, <2>12, <2>13, AnswerStep
<1>18. CASE target # NoKey /\ KeyExists(rest, target) /\ ~IsList(rest, target)
  <2> DEFINE v == AList(Pushed(popped, element, where))
  <2>1. db' = RawPush(rest, key, element, where) /\ replica' = replica
    BY <1>2, <1>18 DEF UndonePop
  <2>2. KeyExists(rest, key) /\ rest.value[key].items = popped
    BY <1>10, <1>12, <1>13, AListFacts DEF IsList, KeyExists
  <2>3. /\ Assigns(rest, db', key, v) /\ Loud(rest, db')
    BY <1>3, <1>7, <1>9, <1>12, <1>13, <2>1, <2>2, RawPushAssigns
  <2>4. v = db.value[key]
    BY <1>5, <1>9
  <2> HIDE DEF v
  <2>5. db'.value = db.value /\ Keeps(rest, db')
    <3>1. db'.value = [rest.value EXCEPT ![key] = db.value[key]] /\ Keeps(rest, db')
      BY <2>3, <2>4 DEF Assigns
    <3>2. rest.value = [db.value EXCEPT ![key] = AList(popped)]
      BY <1>10, <1>12
    <3> QED BY <1>3, <3>1, <3>2 DEF Db
  <2>6. db' \in Db /\ IsList(db', key) /\ FullBut(db', key) /\ (NoStrings(rest) => NoStrings(db'))
    <3>1. \A k \in ListKeys : k # key => rest.value[k] = db'.value[k]
      BY <1>3, <1>10, <1>12, <2>5 DEF Db
    <3>2. db' \in Db /\ IsList(db', key) /\ FullBut(db', key)
      BY <1>3, <2>5 DEF Keeps, IsList, FullBut
    <3> QED BY <3>1, <3>2 DEF NoStrings, IsList
  <2>7. TrimEmpty(db', key) = db'
    BY <1>3, <1>5, <2>5, <2>6, Nothing DEF items
  <2>8. replica' \in Db /\ replica'.value = TrimEmpty(db', key).value
    BY <1>8, <2>1, <2>5, <2>7 DEF Same
  <2> QED BY <1>1, <1>3, <1>4, <1>6, <1>10, <1>12, <2>3, <2>5, <2>6, <2>8, AnswerStep
<1> QED BY <1>16, <1>17, <1>18

----------------------------------------------------------------------------
(* The invariant holds                                                      *)

LEMMA InitHolds ==
  ASSUME ListsInit
  PROVE  ListsInv /\ chance \in [ListChance -> Nat] /\ Awake /\ NoStrings(db)
<1> DEFINE none == <<>>
           d == [value |-> [k \in ListKeys |-> NoValue], waiting |-> [k \in ListKeys |-> none],
                 ready |-> none, signalled |-> {}]
           b == [alive |-> TRUE, blocked |-> FALSE, flagged |-> FALSE, owed |-> 0, since |-> 0,
                 wait |-> NotWaiting]
<1>1. /\ db = d /\ replica = d /\ bpop = [c \in ListClients |-> b] /\ unblocked = none
      /\ turn = [phase |-> "files", active |-> NoClient, seen |-> {}, blocks |-> 0]
      /\ serving = [batch |-> none, key |-> NoKey, left |-> 0] /\ pushed = 0
      /\ chance \in ListChances
  BY DEF ListsInit
<1>2. ToSet(none) = {} /\ IsInjective(none)
  BY EmptyToSet
<1>3. none \in Seq(ListKeys) /\ none \in Seq(ListClients)
  BY EmptySeq
<1>4. NoValue \in Values /\ NoValue.kind = "none"
  BY OtherValues
<1>5. NotWaiting \in Wait /\ NotWaiting.keys = {} /\ NotWaiting.target = NoKey
  BY DEF NotWaiting, Wait, Ends
<1>6. /\ d \in Db /\ d.ready = none /\ d.signalled = {}
      /\ \A k \in ListKeys : d.value[k] = NoValue /\ d.waiting[k] = none
  BY <1>3, <1>4 DEF Db
<1>7. b \in Waiter /\ b.blocked = FALSE /\ b.flagged = FALSE /\ b.owed = 0 /\ b.wait = NotWaiting
  BY <1>5 DEF Waiter
<1> HIDE DEF none, d, b
<1>8. /\ turn \in Turn /\ turn.active = NoClient /\ turn.phase = "files"
      /\ serving \in Serving /\ serving.key = NoKey /\ serving.batch = none
  BY <1>1, <1>3 DEF Turn, Serving
<1>9. bpop \in [ListClients -> Waiter] /\ \A c \in ListClients : bpop[c] = b
  BY <1>1, <1>7
<1>10. ListsTyped
  BY <1>1, <1>3, <1>6, <1>8, <1>9 DEF ListsTyped
<1>11. FullBut(db, serving.key) /\ TargetsFromTail /\ OneAtATime /\ ServesList /\ Mirrored
  BY <1>1, <1>4, <1>5, <1>6, <1>7, <1>8, <1>9
     DEF FullBut, IsList, TargetsFromTail, OneAtATime, ServesList, Mirrored
<1>12. ClientsAgree /\ QueuesAreSets
  <2>1. ASSUME NEW c \in ListClients PROVE ClientAgrees(c)
    <3>1. /\ bpop[c].blocked = FALSE /\ bpop[c].flagged = FALSE /\ bpop[c].owed = 0
          /\ bpop[c].wait.keys = {}
      BY <1>5, <1>7, <1>9
    <3>2. \A k \in ListKeys : c \notin ToSet(db.waiting[k])
      BY <1>1, <1>2, <1>6
    <3>3. \A k \in ListKeys : (c \in ToSet(db.waiting[k])) = (k \in bpop[c].wait.keys)
      BY <3>1, <3>2
    <3>4. bpop[c].flagged => c \in ToSet(unblocked)
      BY <3>1
    <3> QED BY <3>1, <3>3, <3>4 DEF ClientAgrees
  <2> QED BY <1>1, <1>2, <1>6, <2>1 DEF ClientsAgree, QueuesAreSets
<1>13. EldersFirst
  <2>1. \A c \in ListClients : bpop[c].since = 0 /\ turn.blocks = 0
    BY <1>1, <1>9 DEF b
  <2>2. \A k \in ListKeys : Len(db.waiting[k]) = 0
    BY <1>1, <1>6 DEF none
  <2>3. \A k \in ListKeys : InOrder(db.waiting[k])
    BY <2>2 DEF InOrder
  <2> QED BY <2>1, <2>3 DEF EldersFirst
<1>14. BatchAgrees
  BY <1>1, <1>2, <1>6, <1>8 DEF BatchAgrees, ReadyAgrees
<1>15. chance \in [ListChance -> Nat]
  BY <1>1, ListAssumption
<1>16. Awake /\ NoStrings(db)
  BY <1>1, <1>4, <1>6 DEF Awake, NoStrings, IsList
<1> QED BY <1>10, <1>11, <1>12, <1>14, <1>15, <1>16, <1>13 DEF ListsInv

LEMMA NextHolds ==
  ASSUME ListsInv, [ListsNext]_listsVars
  PROVE  Stays
<1>1. CASE UNCHANGED listsVars
  BY <1>1 DEF listsVars, Stays, ListsInv, AwakeInv, ListsTyped, TargetsFromTail, OneAtATime, NobodyActive,
     ClientsAgree, ClientAgrees, QueuesAreSets, EldersFirst, InOrder, BatchAgrees, ServesList, Mirrored, NoStringsOrSorts, Awake
<1>2. ASSUME NEW c \in ListClients,
             \/ ReadQuery(c) \/ ListCommand(c) \/ Disconnects(c) \/ ClientKill(c) \/ TimeOut(c)
             \/ \E key \in ListKeys : ExecCommand(c, key)
             \/ \E keys \in KeyLists, where \in Ends, timed \in BOOLEAN : BlockingPopCommand(c, keys, where, timed)
             \/ \E key, target \in ListKeys, timed \in BOOLEAN : BRPopLPushCommand(c, key, target, timed)
      PROVE  Stays
  BY <1>2, TurnStep, ListCommandStep, DisconnectsStep, ClientKillStep, TimeOutStep, ExecStep,
     BlockingPopStep, BRPopLPushStep
<1>3. CASE QueryDone \/ TimersDue \/ BeforeSleepStarts \/ ProcessUnblocked \/ Wake
  BY <1>3, TurnStep
<1>4. CASE ServeReady \/ ServeKey \/ ServeClient \/ ServeDone
  BY <1>4, ServeReadyStep, ServeKeyStep, ServeClientStep, ServeDoneStep
<1> QED BY <1>1, <1>2, <1>3, <1>4 DEF ListsNext, KeyLists

(* The keys of two sequences that share none are those of both.             *)
LEMMA ConcatAgrees ==
  ASSUME NEW S, NEW r \in Seq(S), NEW b \in Seq(S),
         IsInjective(r), IsInjective(b), ToSet(r) \cap ToSet(b) = {}
  PROVE  ToSet(r \o b) = ToSet(r) \cup ToSet(b) /\ IsInjective(r \o b)
<1> DEFINE s == r \o b
           m == Len(r)
           n == Len(b)
<1>1. /\ m \in Nat /\ n \in Nat /\ DOMAIN r = 1 .. m /\ DOMAIN b = 1 .. n
  BY LenProperties
<1>2. /\ s \in Seq(S) /\ Len(s) = m + n
      /\ \A i \in 1 .. m + n : s[i] = IF i <= m THEN r[i] ELSE b[i - m]
  BY ConcatProperties
<1> HIDE DEF s
<1>3. DOMAIN s = 1 .. m + n
  BY <1>2, LenProperties
<1> HIDE DEF m, n
<1>4. ASSUME NEW i \in 1 .. m + n
      PROVE  \/ i \in 1 .. m /\ s[i] = r[i] /\ s[i] \in ToSet(r)
             \/ i - m \in 1 .. n /\ ~(i <= m) /\ s[i] = b[i - m] /\ s[i] \in ToSet(b)
  <2>1. CASE i <= m
    <3>1. i \in 1 .. m /\ s[i] = r[i]
      BY <1>1, <1>2, <2>1
    <3> QED BY <1>1, <3>1 DEF ToSet
  <2>2. CASE ~(i <= m)
    <3>1. i - m \in 1 .. n /\ s[i] = b[i - m]
      BY <1>1, <1>2, <2>2
    <3> QED BY <1>1, <2>2, <3>1 DEF ToSet
  <2> QED BY <2>1, <2>2
<1>5. ToSet(s) \subseteq ToSet(r) \cup ToSet(b)
  <2>1. \A i \in DOMAIN s : s[i] \in ToSet(r) \cup ToSet(b)
    BY <1>3, <1>4
  <2> HIDE DEF s
  <2> QED BY <2>1 DEF ToSet
<1>6. ToSet(r) \subseteq ToSet(s)
  <2>1. \A i \in 1 .. m : i \in 1 .. m + n /\ s[i] = r[i]
    BY <1>1, <1>2
  <2> QED BY <1>1, <1>3, <2>1 DEF ToSet
<1>7. ToSet(b) \subseteq ToSet(s)
  <2> SUFFICES ASSUME NEW i \in 1 .. n PROVE b[i] \in ToSet(s)
    BY <1>1 DEF ToSet
  <2> DEFINE j == m + i
  <2>1. j \in 1 .. m + n /\ ~(j <= m) /\ j - m = i
    BY <1>1
  <2> HIDE DEF j
  <2>2. s[j] = b[i]
    BY <1>2, <2>1
  <2> QED BY <1>3, <2>1, <2>2 DEF ToSet
<1>8. ASSUME NEW i \in 1 .. m + n, NEW j \in 1 .. m + n, s[i] = s[j] PROVE i = j
  <2>1. (i \in 1 .. m /\ j \in 1 .. m /\ r[i] = r[j]) \/ (i - m \in 1 .. n /\ j - m \in 1 .. n /\ b[i - m] = b[j - m])
    BY <1>4, <1>8
  <2>2. i \in 1 .. m /\ j \in 1 .. m /\ r[i] = r[j] => i = j
    BY <1>1 DEF IsInjective
  <2>3. i - m \in 1 .. n /\ j - m \in 1 .. n /\ b[i - m] = b[j - m] => i - m = j - m
    BY <1>1 DEF IsInjective
  <2>4. i - m = j - m => i = j
    BY <1>1
  <2> QED BY <2>1, <2>2, <2>3, <2>4
<1> QED BY <1>3, <1>5, <1>6, <1>7, <1>8 DEF IsInjective, s

LEMMA InvAgrees ==
  ASSUME ListsInv
  PROVE  WaitersAgree /\ ReplicaHasLists /\ (AwakeInv => NobodyWaitsForAList)
<1>1. db \in Db /\ bpop \in [ListClients -> Waiter] /\ serving \in Serving
  BY DEF ListsInv, ListsTyped
<1>2. /\ db.signalled = ToSet(db.ready \o serving.batch) /\ IsInjective(db.ready \o serving.batch)
  <2>1. db.ready \in Seq(ListKeys) /\ serving.batch \in Seq(ListKeys)
    BY <1>1 DEF Db, Serving
  <2>2. /\ IsInjective(db.ready) /\ IsInjective(serving.batch)
        /\ ToSet(db.ready) \cap ToSet(serving.batch) = {}
        /\ db.signalled = ToSet(db.ready) \cup ToSet(serving.batch)
    BY DEF ListsInv, BatchAgrees, ReadyAgrees
  <2> QED BY <2>1, <2>2, ConcatAgrees
<1>3. WaitersAgree
  BY <1>2 DEF WaitersAgree, ListsInv, ClientsAgree, ClientAgrees, QueuesAreSets
<1>4. ReplicaHasLists
  BY DEF ReplicaHasLists, ListsInv, Mirrored
<1>5. ASSUME AwakeInv PROVE NobodyWaitsForAList
  <2> SUFFICES ASSUME serving.key = NoKey, serving.batch = <<>>, db.ready = <<>>,
                      NEW c \in ListClients, NEW key \in bpop[c].wait.keys
               PROVE  ~IsList(db, key)
    BY DEF NobodyWaitsForAList
  <2>1. bpop[c].wait.keys \in SUBSET ListKeys
    <3>1. bpop[c].wait \in Wait
      BY <1>1 DEF Waiter
    <3> QED BY <3>1 DEF Wait
  <2>2. key \in ListKeys /\ key # NoKey
    BY <2>1, ListAssumption
  <2>3. c \in ToSet(db.waiting[key])
    BY <2>2 DEF ListsInv, ClientsAgree, ClientAgrees
  <2>4. db.waiting[key] # <<>>
    BY <2>3, EmptyToSet
  <2>5. db.signalled = {}
    BY EmptyToSet DEF ListsInv, BatchAgrees, ReadyAgrees
  <2> QED BY <1>5, <2>2, <2>4, <2>5 DEF AwakeInv, Awake
<1> QED BY <1>3, <1>4, <1>5

(* Who is served was at the head of the queue, which is in order.           *)
LEMMA ServesEldest ==
  ASSUME ListsInv, [ListsNext]_listsVars, NEW c \in ListClients, NEW other \in ListClients,
         serving.key # NoKey, serving.key \in bpop[c].wait.keys \cap bpop[other].wait.keys,
         serving'.left < serving.left, bpop[c].blocked, ~bpop'[c].blocked
  PROVE  bpop[c].since <= bpop[other].since
<1> DEFINE key == serving.key
           queue == db.waiting[key]
<1>1. /\ db \in Db /\ bpop \in [ListClients -> Waiter] /\ serving \in Serving /\ key \in ListKeys
      /\ serving.left = Len(queue)
  BY DEF ListsInv, ListsTyped, Serving, ServesList
<1>2. queue \in Seq(ListClients) /\ InOrder(queue) /\ c \in ToSet(queue) /\ other \in ToSet(queue)
  BY <1>1 DEF Db, ListsInv, EldersFirst, ClientsAgree, ClientAgrees
<1>3. bpop' # bpop /\ serving' # serving
  <2>1. ~(serving.left < serving.left)
    BY <1>1 DEF Serving
  <2> QED BY <2>1
<1>4. ServeClient
  <2>1. ~Processing(turn.active) /\ ~NobodyActive /\ (\A x \in ListClients : ~Processing(x))
    BY DEF Processing, NobodyActive
  <2>2. turn.phase # "cron"
    BY <2>1 DEF ListsInv, OneAtATime
  <2>3. \A x \in ListClients :
          /\ ~ReadQuery(x) /\ ~ListCommand(x) /\ ~Disconnects(x) /\ ~ClientKill(x) /\ ~TimeOut(x)
          /\ \A k \in ListKeys : ~ExecCommand(x, k)
          /\ \A keys \in KeyLists, where \in Ends, timed \in BOOLEAN : ~BlockingPopCommand(x, keys, where, timed)
          /\ \A k, target \in ListKeys, timed \in BOOLEAN : ~BRPopLPushCommand(x, k, target, timed)
    BY <2>1, <2>2 DEF ReadQuery, ListCommand, Disconnects, ClientKill, TimeOut, ExecCommand,
       BlockingPopCommand, BRPopLPushCommand
  <2>4. ~QueryDone /\ ~TimersDue /\ ~BeforeSleepStarts /\ ~ProcessUnblocked /\ ~Wake
    BY <2>1, <2>2 DEF QueryDone, TimersDue, BeforeSleepStarts, ProcessUnblocked, Wake
  <2>5. ~ServeReady /\ ~ServeKey /\ ~ServeDone /\ listsVars' # listsVars
    BY <1>3 DEF ServeReady, ServeKey, ServeDone, listsVars
  <2> QED BY <2>3, <2>4, <2>5 DEF ListsNext, KeyLists
<1>5. c = Head(queue)
  BY <1>1, <1>4 DEF ServeClient
<1> HIDE DEF queue
<1>6. Len(queue) \in Nat \ {0} /\ DOMAIN queue = 1 .. Len(queue) /\ c = queue[1]
  <2>1. queue # <<>>
    BY <1>2, EmptyToSet
  <2>2. Head(queue) = queue[1]
    BY SMT
  <2> QED BY <1>2, <1>5, <2>1, <2>2, TailSet, LenProperties
<1>7. PICK j \in 1 .. Len(queue) : other = queue[j]
  BY <1>2, <1>6 DEF ToSet
<1>8. CASE j = 1
  BY <1>1, <1>6, <1>7, <1>8 DEF Waiter
<1>9. CASE j # 1
  <2>1. 1 \in 1 .. Len(queue) /\ 1 < j
    BY <1>6, <1>9
  <2> QED BY <1>2, <1>6, <1>7, <2>1 DEF InOrder
<1> QED BY <1>8, <1>9

----------------------------------------------------------------------------
(* Theorems                                                                 *)

LEMMA InvHolds == ListsSpec => []ListsInv
<1>1. ListsInit => ListsInv
  BY InitHolds
<1>2. ListsInv /\ [ListsNext]_listsVars => ListsInv'
  BY NextHolds DEF Stays
<1> QED BY <1>1, <1>2, PTL DEF ListsSpec

(* blockForKeys(), unblockClientWaitingData(), signalListAsReady() and       *)
(* freeClient() keep blocking_keys, the clients' own keys, ready_keys and    *)
(* unblocked_clients in step, whichever commands, timeouts and lost          *)
(* connections come in between; and what serveClientBlockedOnList()          *)
(* propagates gives a replica the lists of its master.                       *)
THEOREM WaitersAlwaysAgree == ListsSpec => [](WaitersAgree /\ ReplicaHasLists)
<1>1. ListsInv => WaitersAgree /\ ReplicaHasLists
  BY InvAgrees
<1> QED BY <1>1, InvHolds, PTL

(* SORT with STORE is the one way to make a key hold a list that nobody is   *)
(* told of (sortCommand() uses setKey(), which signals nobody when the key   *)
(* was there): either it is not called, or no key is ever set to a string.   *)
NoSortsOverStrings ==
  \A chances \in ListChances : chances["sort"] = 0 \/ (chances["set"] = 0 /\ chances["exec"] = 0)

(* Without SORT over a string nobody waits for a list that is there, once    *)
(* handleClientsBlockedOnLists() has returned: dbAdd() signals every key     *)
(* that becomes a list, and all of its clients are served.                   *)
THEOREM BlockingAlwaysExact ==
  ASSUME NoSortsOverStrings
  PROVE  ListsSpec => []BlockingIsExact
<1>1. ListsInit => ListsInv /\ AwakeInv
  <2> SUFFICES ASSUME ListsInit PROVE ListsInv /\ AwakeInv
    OBVIOUS
  <2>1. NoStringsOrSorts
    BY InitHolds DEF NoSortsOverStrings, NoStringsOrSorts, ListsInit
  <2> QED BY <2>1, InitHolds DEF AwakeInv
<1>2. ListsInv /\ AwakeInv /\ [ListsNext]_listsVars => (ListsInv /\ AwakeInv)'
  BY NextHolds DEF Stays
<1>3. ListsInv /\ AwakeInv => BlockingIsExact
  BY InvAgrees DEF BlockingIsExact
<1> QED BY <1>1, <1>2, <1>3, PTL DEF ListsSpec

(* "From the one that blocked first, to the last" (t_list.c:769):            *)
(* blockForKeys() appends to every queue, unblockClientWaitingData() keeps   *)
(* the order of those who stay, and handleClientsBlockedOnLists() serves the *)
(* head.                                                                     *)
THEOREM FirstAlwaysServedFirst == ListsSpec => FirstBlockedFirstServed
<1>1. ListsInv /\ [ListsNext]_listsVars =>
        [\A c, other \in ListClients :
           /\ serving.key # NoKey /\ serving.key \in bpop[c].wait.keys \cap bpop[other].wait.keys
           /\ serving'.left < serving.left /\ bpop[c].blocked /\ ~bpop'[c].blocked
           => bpop[c].since <= bpop[other].since]_listsVars
  BY ServesEldest
<1> QED BY <1>1, InvHolds, PTL DEF ListsSpec, FirstBlockedFirstServed
=============================================================================
