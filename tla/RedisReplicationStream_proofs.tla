-------------------- MODULE RedisReplicationStream_proofs --------------------
(* That no write is lost between a master and its slaves, and that what a   *)
(* slave shows is a past dataset: for any number of slaves, databases,      *)
(* buffer sizes and events.                                                 *)
EXTENDS RedisReplicationStream, RedisReplication_proofs, FiniteSetTheorems,
        SequenceTheorems, WellFoundedInduction

----------------------------------------------------------------------------
(* Deliver.  A bounded non-empty set of numbers has a least element, which  *)
(* is how the lemmas below do without induction.                            *)
LEMMA Least ==
  ASSUME NEW n \in Nat, NEW S \in SUBSET (0 .. n), S # {}
  PROVE  \E m \in S : \A k \in S : m <= k
<1> DEFINE Below(i) == {k \in S : k < i}
           T == {Below(i) : i \in S}
           R == StrictSubsetOrdering(0 .. n)
           U == FiniteSubsetsOf(0 .. n)
<1>1. IsWellFoundedOn(R, U)
  BY FS_StrictSubsetOrderingWellFounded
<1>2. IsFiniteSet(0 .. n)
  BY FS_Interval
<1>3. T \subseteq U /\ T # {}
  <2>1. U = SUBSET (0 .. n)
    BY <1>2, FS_FiniteSubsetsOfFinite
  <2>2. \A i \in S : Below(i) \in SUBSET (0 .. n)
    OBVIOUS
  <2> HIDE DEF U, Below
  <2> QED BY <2>1, <2>2
<1>4. PICK B \in T : \A C \in T : <<C, B>> \notin R
  <2> HIDE DEF T, R, U
  <2> QED BY <1>1, <1>3, WFMin
<1>5. PICK m \in S : B = Below(m)
  BY <1>4
<1>6. ASSUME NEW k \in S, k < m
      PROVE  FALSE
  <2>1. k \in Int /\ m \in Int /\ \A j \in S : j \in Int
    OBVIOUS
  <2>2. Below(k) \subseteq Below(m) /\ k \in Below(m) /\ k \notin Below(k)
    <3>1. ASSUME NEW j \in Below(k) PROVE j \in S /\ j < m
      BY <1>6, <2>1
    <3>2. ~(k < k)
      BY <2>1
    <3> QED BY <1>6, <3>1, <3>2
  <2>3. Below(k) \in SUBSET (0 .. n) /\ Below(m) \in SUBSET (0 .. n) /\ Below(k) \in T
    OBVIOUS
  <2>4. <<Below(k), Below(m)>> \in R
    BY <2>2, <2>3 DEF StrictSubsetOrdering
  <2> QED BY <1>4, <1>5, <2>3, <2>4
<1>7. \A k \in S : k \in Int
  OBVIOUS
<1> QED BY <1>6, <1>7

(* The states of a slave that takes the first n messages of q one by one.   *)
IsRun(f, x, q, n) ==
  f = [k \in 0 .. n |-> IF k = 0 THEN x ELSE Applied(f[k - 1], q[k])]

LEMMA RunExists ==
  ASSUME NEW x, NEW q, NEW n \in Nat
  PROVE  \E f : IsRun(f, x, q, n)
<1> DEFINE S == {k \in 0 .. n : ~\E f : IsRun(f, x, q, k)}
<1>1. SUFFICES ASSUME S # {} PROVE FALSE
  OBVIOUS
<1>2. PICK m \in S : \A k \in S : m <= k
  BY <1>1, Least
<1>3. m # 0
  <2>1. IsRun([k \in 0 .. 0 |-> x], x, q, 0)
    BY DEF IsRun
  <2> QED BY <2>1
<1>4. m \in Nat /\ m - 1 \in 0 .. n /\ m - 1 \notin S
  BY <1>2, <1>3
<1>5. PICK f : IsRun(f, x, q, m - 1)
  BY <1>4
<1> DEFINE g == [k \in 0 .. m |-> IF k = m THEN Applied(f[m - 1], q[m]) ELSE f[k]]
<1>6. ASSUME NEW k \in 0 .. m
      PROVE  g[k] = IF k = 0 THEN x ELSE Applied(g[k - 1], q[k])
  <2>1. CASE k = m
    BY <1>3, <1>4, <2>1
  <2>2. CASE k # m
    <3>1. k \in 0 .. m - 1 /\ (k # 0 => k - 1 \in 0 .. m - 1)
      BY <1>4, <2>2
    <3>2. f[k] = IF k = 0 THEN x ELSE Applied(f[k - 1], q[k])
      BY <1>5, <3>1 DEF IsRun
    <3> QED BY <1>4, <2>2, <3>1, <3>2
  <2> QED BY <2>1, <2>2
<1>7. IsRun(g, x, q, m)
  <2>1. g = [k \in 0 .. m |-> g[k]]
    OBVIOUS
  <2> HIDE DEF g
  <2> QED BY <1>6, <2>1 DEF IsRun
<1> QED BY <1>7

LEMMA RunFacts ==
  ASSUME NEW x, NEW q, NEW n \in Nat, NEW f, IsRun(f, x, q, n)
  PROVE  /\ DOMAIN f = 0 .. n /\ f[0] = x
         /\ \A k \in 1 .. n : f[k] = Applied(f[k - 1], q[k])
<1>1. DOMAIN f = 0 .. n /\ \A k \in 0 .. n : f[k] = IF k = 0 THEN x ELSE Applied(f[k - 1], q[k])
  BY DEF IsRun
<1> QED BY <1>1

(* There is one way to take the messages: what Deliver is, of any.          *)
LEMMA DeliverIs ==
  ASSUME NEW x, NEW q, Len(q) \in Nat, NEW f, f[0] = x,
         \A k \in 1 .. Len(q) : f[k] = Applied(f[k - 1], q[k])
  PROVE  Deliver(x, q) = f[Len(q)]
<1> DEFINE r == CHOOSE g : IsRun(g, x, q, Len(q))
<1>1. IsRun(r, x, q, Len(q))
  BY RunExists
<1>2. Deliver(x, q) = r[Len(q)]
  BY DEF Deliver, IsRun
<1> HIDE DEF r
<1>3. r[0] = x /\ \A k \in 1 .. Len(q) : r[k] = Applied(r[k - 1], q[k])
  BY <1>1, RunFacts
<1> DEFINE S == {k \in 0 .. Len(q) : r[k] # f[k]}
<1>4. ASSUME S # {}
      PROVE  FALSE
  <2>1. PICK m \in S : \A k \in S : m <= k
    BY <1>4, Least
  <2>2. m \in 1 .. Len(q) /\ m - 1 \in 0 .. Len(q) /\ m - 1 \notin S
    BY <1>3, <2>1
  <2> QED BY <1>3, <2>1, <2>2
<1> QED BY <1>2, <1>4

LEMMA DeliverRun ==
  ASSUME NEW x, NEW q, Len(q) \in Nat
  PROVE  \E f : /\ f[0] = x
                /\ \A k \in 1 .. Len(q) : f[k] = Applied(f[k - 1], q[k])
                /\ Deliver(x, q) = f[Len(q)]
<1>1. PICK f : IsRun(f, x, q, Len(q))
  BY RunExists
<1>2. f[0] = x /\ \A k \in 1 .. Len(q) : f[k] = Applied(f[k - 1], q[k])
  BY <1>1, RunFacts
<1> QED BY <1>2, DeliverIs

LEMMA DeliverNothing ==
  ASSUME NEW x
  PROVE  Deliver(x, <<>>) = x
<1>1. Len(<<>>) = 0
  OBVIOUS
<1>2. PICK f : f[0] = x /\ Deliver(x, <<>>) = f[Len(<<>>)]
  BY <1>1, DeliverRun
<1> QED BY <1>1, <1>2

(* Messages taken after others.                                             *)
LEMMA DeliverConcat ==
  ASSUME NEW S, NEW x, NEW p \in Seq(S), NEW q \in Seq(S)
  PROVE  Deliver(x, p \o q) = Deliver(Deliver(x, p), q)
<1> DEFINE y == Deliver(x, p)
<1>1. Len(p) \in Nat /\ Len(q) \in Nat /\ Len(p \o q) = Len(p) + Len(q)
  BY ConcatProperties
<1>2. PICK f : /\ f[0] = x
               /\ \A k \in 1 .. Len(p) : f[k] = Applied(f[k - 1], p[k])
               /\ Deliver(x, p) = f[Len(p)]
  BY <1>1, DeliverRun, Zenon
<1>3. PICK g : /\ g[0] = y
               /\ \A k \in 1 .. Len(q) : g[k] = Applied(g[k - 1], q[k])
               /\ Deliver(y, q) = g[Len(q)]
  BY <1>1, DeliverRun, Zenon
<1> DEFINE h == [k \in 0 .. Len(p) + Len(q) |->
                   IF k <= Len(p) THEN f[k] ELSE g[k - Len(p)]]
<1>4. h[0] = x
  BY <1>1, <1>2
<1>5. ASSUME NEW k \in 1 .. Len(p \o q)
      PROVE  h[k] = Applied(h[k - 1], (p \o q)[k])
  <2>0. k \in Nat /\ k - 1 \in Nat /\ 1 <= k /\ k <= Len(p) + Len(q)
    BY <1>1
  <2>1. CASE k <= Len(p)
    <3>1. (p \o q)[k] = p[k]
      BY <2>1, ConcatProperties
    <3>2. h[k] = f[k] /\ h[k - 1] = f[k - 1]
      BY <1>1, <2>0, <2>1
    <3> QED BY <1>1, <1>2, <2>0, <2>1, <3>1, <3>2
  <2>2. CASE k > Len(p)
    <3>0. k - Len(p) \in 1 .. Len(q) /\ k \in 1 .. Len(p) + Len(q)
      BY <1>1, <2>0, <2>2
    <3>1. (p \o q)[k] = q[k - Len(p)]
      BY <1>1, <2>0, <2>2, <3>0, ConcatProperties
    <3>2. h[k] = g[k - Len(p)]
      BY <1>1, <2>0, <2>2
    <3>3. h[k - 1] = g[k - Len(p) - 1]
      <4>1. CASE k - 1 = Len(p)
        BY <1>1, <1>2, <1>3, <2>0, <4>1
      <4>2. CASE k - 1 # Len(p)
        <5>1. ~(k - 1 <= Len(p)) /\ k - 1 \in 0 .. Len(p) + Len(q)
              /\ k - 1 - Len(p) = k - Len(p) - 1
          BY <1>1, <2>0, <2>2, <4>2
        <5> QED BY <5>1
      <4> QED BY <4>1, <4>2
    <3> HIDE DEF h
    <3> QED BY <1>3, <3>0, <3>1, <3>2, <3>3
  <2> QED BY <1>1, <2>0, <2>1, <2>2
<1>6. Deliver(x, p \o q) = h[Len(p \o q)]
  <2> DEFINE w == p \o q
  <2>1. Len(w) \in Nat
    BY <1>1
  <2>2. \A k \in 1 .. Len(w) : h[k] = Applied(h[k - 1], w[k])
    BY <1>5
  <2> HIDE DEF h, w
  <2>3. Deliver(x, w) = h[Len(w)]
    BY <1>4, <2>1, <2>2, DeliverIs
  <2> QED BY <2>3 DEF w
<1>7. h[Len(p) + Len(q)] = g[Len(q)]
  BY <1>1, <1>2, <1>3
<1> QED BY <1>1, <1>3, <1>6, <1>7

LEMMA DeliverOne ==
  ASSUME NEW x, NEW m
  PROVE  Deliver(x, <<m>>) = Applied(x, m)
<1> DEFINE q == <<m>>
<1>1. Len(q) = 1 /\ q[1] = m
  OBVIOUS
<1> HIDE DEF q
<1>6. Len(q) \in Nat
  BY <1>1
<1>2. PICK f : /\ f[0] = x
               /\ \A k \in 1 .. Len(q) : f[k] = Applied(f[k - 1], q[k])
               /\ Deliver(x, q) = f[Len(q)]
  BY <1>6, DeliverRun, Zenon
<1>3. 1 \in 1 .. Len(q) /\ 1 - 1 = 0
  BY <1>1
<1>4. f[1] = Applied(f[1 - 1], q[1])
  BY <1>2, <1>3
<1>5. Deliver(x, q) = Applied(x, m)
  BY <1>1, <1>2, <1>3, <1>4
<1> QED BY <1>5 DEF q

LEMMA DeliverAppend ==
  ASSUME NEW S, NEW x, NEW q \in Seq(S), NEW m \in S
  PROVE  Deliver(x, Append(q, m)) = Applied(Deliver(x, q), m)
<1> DEFINE t == <<m>>
<1>1. Append(q, m) = q \o t /\ t \in Seq(S)
  BY AppendIsConcat
<1> HIDE DEF t
<1>3. \A y : Deliver(y, t) = Applied(y, m)
  BY DeliverOne DEF t
<1> QED BY <1>1, <1>3, DeliverConcat

LEMMA DeliverHead ==
  ASSUME NEW S, NEW x, NEW q \in Seq(S), q # <<>>
  PROVE  Deliver(x, q) = Deliver(Applied(x, Head(q)), Tail(q))
<1> DEFINE h == <<Head(q)>>
           t == Tail(q)
<1>1. Head(q) \in S /\ t \in Seq(S) /\ h \in Seq(S) /\ q = h \o t
  <2>1. Head(q) \in S /\ Tail(q) \in Seq(S)
    BY HeadTailProperties
  <2>2. q = <<Head(q)>> \o Tail(q)
    <3>1. Len(q) \in Nat \ {0}
      BY EmptySeq
    <3>2. SubSeq(q, 1, Len(q)) = <<q[1]>> \o SubSeq(q, 2, Len(q))
      BY <3>1, SubSeqRecursiveFirst
    <3>3. Tail(q) = SubSeq(q, 2, Len(q)) /\ q = SubSeq(q, 1, Len(q)) /\ Head(q) = q[1]
      BY TailIsSubSeq, SubSeqFull
    <3> QED BY <3>2, <3>3
  <2> QED BY <2>1, <2>2
<1>2. Deliver(x, h) = Applied(x, Head(q))
  BY DeliverOne
<1> HIDE DEF h, t
<1>3. Deliver(x, q) = Deliver(Deliver(x, h), t)
  BY <1>1, DeliverConcat
<1> QED BY <1>2, <1>3 DEF t

----------------------------------------------------------------------------
(* Prefixes.                                                                *)
LEMMA PrefixIs ==
  ASSUME NEW S, NEW s \in Seq(S), NEW t \in Seq(S)
  PROVE  IsPrefix(s, t) <=> Len(s) <= Len(t) /\ \A k \in 1 .. Len(s) : s[k] = t[k]
<1> DEFINE n == Len(s)
<1>1. n \in Nat /\ Len(t) \in Nat
  OBVIOUS
<1>2. SubSeq(s, 1, n) = s
  BY SubSeqFull
<1>3. CASE n <= Len(t)
  <2>0. \A i \in 1 .. n : t[i] \in S
    BY <1>1, <1>3, ElementOfSeq
  <2>1. /\ SubSeq(t, 1, n) \in Seq(S) /\ Len(SubSeq(t, 1, n)) = n
        /\ \A k \in 1 .. n : SubSeq(t, 1, n)[k] = t[k]
    <3>1. /\ SubSeq(t, 1, n) \in Seq(S)
          /\ Len(SubSeq(t, 1, n)) = IF 1 <= n THEN n - 1 + 1 ELSE 0
          /\ \A k \in 1 .. n - 1 + 1 : SubSeq(t, 1, n)[k] = t[1 + k - 1]
      BY <1>1, <2>0, SubSeqProperties
    <3>2. n - 1 + 1 = n /\ (~(1 <= n) => n = 0) /\ \A k \in 1 .. n : 1 + k - 1 = k
      BY <1>1
    <3> QED BY <3>1, <3>2
  <2>2. (\A k \in 1 .. n : s[k] = t[k]) <=> s = SubSeq(t, 1, n)
    <3> DEFINE u == SubSeq(t, 1, n)
    <3> HIDE DEF u
    <3>1. u \in Seq(S) /\ Len(u) = Len(s) /\ \A k \in 1 .. Len(s) : u[k] = t[k]
      BY <2>1 DEF u
    <3>2. (\A k \in 1 .. Len(s) : s[k] = u[k]) => s = u
      BY <3>1, SeqEqual
    <3> QED BY <3>1, <3>2 DEF u
  <2> QED BY <1>2, <1>3, <2>2 DEF IsPrefix
<1>4. CASE ~(n <= Len(t))
  BY <1>4 DEF IsPrefix
<1> QED BY <1>3, <1>4

LEMMA PrefixFacts ==
  ASSUME NEW S, NEW s \in Seq(S), NEW t \in Seq(S)
  PROVE  /\ IsPrefix(s, s)
         /\ \A e \in S : IsPrefix(s, Append(s, e))
         /\ \A u \in Seq(S) : IsPrefix(s, t) /\ IsPrefix(t, u) => IsPrefix(s, u)
<1>1. IsPrefix(s, s)
  BY PrefixIs
<1>2. ASSUME NEW e \in S
      PROVE  IsPrefix(s, Append(s, e))
  <2>1. /\ Append(s, e) \in Seq(S) /\ Len(Append(s, e)) = Len(s) + 1
        /\ \A i \in 1 .. Len(s) : Append(s, e)[i] = s[i]
    BY AppendProperties
  <2>2. Len(s) \in Nat
    OBVIOUS
  <2>3. Len(s) <= Len(Append(s, e))
    BY <2>1, <2>2
  <2> QED BY <2>1, <2>3, PrefixIs
<1>3. ASSUME NEW u \in Seq(S), IsPrefix(s, t), IsPrefix(t, u)
      PROVE  IsPrefix(s, u)
  <2>1. /\ Len(s) <= Len(t) /\ \A k \in 1 .. Len(s) : s[k] = t[k]
        /\ Len(t) <= Len(u) /\ \A k \in 1 .. Len(t) : t[k] = u[k]
    BY <1>3, PrefixIs
  <2>2. Len(s) \in Nat /\ Len(t) \in Nat /\ Len(u) \in Nat
    OBVIOUS
  <2>3. Len(s) <= Len(u) /\ \A k \in 1 .. Len(s) : s[k] = u[k]
    BY <2>1, <2>2
  <2> QED BY <2>3, PrefixIs
<1> QED BY <1>1, <1>2, <1>3

----------------------------------------------------------------------------
(* What the entries of the stream do to a dataset.                          *)
Point == Dataset \X DBs
Streamed == Entry \cup {Burnt}

LEMMA AppliedTyped ==
  ASSUME NEW x \in Point, NEW m \in Streamed
  PROVE  Applied(x, m) \in Point /\ IsPrefix(x[1], Applied(x, m)[1])
<1>1. x[1] \in Seq(DBs \X Nat) /\ x[2] \in DBs /\ x = <<x[1], x[2]>>
  BY DEF Point, Dataset
<1>2. IsPrefix(x[1], x[1])
  BY <1>1, PrefixFacts
<1>3. CASE m.op = "SELECT"
  <2>1. m.arg \in DBs
    BY <1>3 DEF Streamed, Entry, Burnt, Ping
  <2> QED BY <1>1, <1>2, <1>3, <2>1 DEF Applied, Point, Dataset
<1>4. CASE m.op = "CMD"
  <2>1. m.arg \in Nat
    BY <1>4 DEF Streamed, Entry, Burnt, Ping
  <2>2. <<x[2], m.arg>> \in DBs \X Nat
    BY <1>1, <2>1
  <2>3. /\ Append(x[1], <<x[2], m.arg>>) \in Seq(DBs \X Nat)
        /\ IsPrefix(x[1], Append(x[1], <<x[2], m.arg>>))
    BY <1>1, <2>2, PrefixFacts, AppendProperties
  <2> QED BY <1>1, <1>4, <2>3 DEF Applied, Point, Dataset
<1>5. CASE m.op \notin {"SELECT", "CMD"}
  <2>1. m.op # "RDB"
    BY DEF Streamed, Entry, Burnt, Ping
  <2> QED BY <1>1, <1>2, <1>5, <2>1 DEF Applied
<1> QED BY <1>3, <1>4, <1>5

(* They only add writes.                                                    *)
LEMMA DeliverGrows ==
  ASSUME NEW x \in Point, NEW q \in Seq(Streamed)
  PROVE  Deliver(x, q) \in Point /\ IsPrefix(x[1], Deliver(x, q)[1])
<1>1. Len(q) \in Nat
  OBVIOUS
<1>2. PICK f : /\ f[0] = x
               /\ \A k \in 1 .. Len(q) : f[k] = Applied(f[k - 1], q[k])
               /\ Deliver(x, q) = f[Len(q)]
  BY <1>1, DeliverRun
<1> DEFINE S == {k \in 0 .. Len(q) : ~(f[k] \in Point /\ IsPrefix(x[1], f[k][1]))}
<1>3. ASSUME S # {}
      PROVE  FALSE
  <2>1. PICK m \in S : \A k \in S : m <= k
    BY <1>1, <1>3, Least
  <2>2. x[1] \in Seq(DBs \X Nat)
    BY DEF Point, Dataset
  <2>3. m # 0
    <3>1. IsPrefix(x[1], x[1])
      BY <2>2, PrefixFacts
    <3> QED BY <1>2, <2>1, <3>1
  <2>4. m \in 1 .. Len(q) /\ m - 1 \in 0 .. Len(q) /\ m - 1 \notin S
    BY <1>1, <2>1, <2>3
  <2> DEFINE y == f[m - 1]
  <2>5. y \in Point /\ IsPrefix(x[1], y[1]) /\ f[m] = Applied(y, q[m]) /\ q[m] \in Streamed
    BY <1>2, <2>4
  <2> HIDE DEF y
  <2>6. Applied(y, q[m]) \in Point /\ IsPrefix(y[1], Applied(y, q[m])[1])
    BY <2>5, AppliedTyped
  <2>7. y[1] \in Seq(DBs \X Nat) /\ Applied(y, q[m])[1] \in Seq(DBs \X Nat)
    BY <2>5, <2>6 DEF Point, Dataset
  <2>8. IsPrefix(x[1], Applied(y, q[m])[1])
    BY <2>2, <2>5, <2>6, <2>7, PrefixFacts
  <2>9. f[m] \in Point /\ IsPrefix(x[1], f[m][1])
    BY <2>5, <2>6, <2>8
  <2> QED BY <2>1, <2>9
<1>4. Len(q) \notin S
  BY <1>3
<1> QED BY <1>1, <1>2, <1>4

(* SELECTs add none, and the last one counts.                               *)
LEMMA DeliverSelects ==
  ASSUME NEW x \in Point, NEW q \in Seq(SelectsOnly)
  PROVE  /\ Deliver(x, q)[1] = x[1]
         /\ \A db \in DBs : q # <<>> /\ q[Len(q)] = Select(db) => Deliver(x, q)[2] = db
<1>1. Len(q) \in Nat
  OBVIOUS
<1>2. PICK f : /\ f[0] = x
               /\ \A k \in 1 .. Len(q) : f[k] = Applied(f[k - 1], q[k])
               /\ Deliver(x, q) = f[Len(q)]
  BY <1>1, DeliverRun
<1>3. ASSUME NEW k \in 1 .. Len(q)
      PROVE  \E db \in DBs : q[k] = Select(db) /\ f[k] = <<f[k - 1][1], db>>
  <2>1. q[k] \in SelectsOnly
    OBVIOUS
  <2>2. PICK db \in DBs : q[k] = Select(db)
    BY <2>1 DEF SelectsOnly
  <2>3. Applied(f[k - 1], Select(db)) = <<f[k - 1][1], db>>
    BY DEF Applied, Select
  <2> QED BY <1>2, <2>2, <2>3
<1> DEFINE S == {k \in 0 .. Len(q) : f[k][1] # x[1]}
<1>4. ASSUME S # {}
      PROVE  FALSE
  <2>1. PICK m \in S : \A k \in S : m <= k
    BY <1>1, <1>4, Least
  <2>2. m \in 1 .. Len(q) /\ m - 1 \in 0 .. Len(q) /\ m - 1 \notin S
    BY <1>1, <1>2, <2>1
  <2>3. f[m][1] = f[m - 1][1]
    BY <1>3, <2>2
  <2> QED BY <2>1, <2>2, <2>3
<1>5. Deliver(x, q)[1] = x[1]
  <2>1. Len(q) \in 0 .. Len(q) /\ Len(q) \notin S
    BY <1>1, <1>4
  <2> QED BY <1>2, <2>1
<1>6. ASSUME NEW db \in DBs, q # <<>>, q[Len(q)] = Select(db)
      PROVE  Deliver(x, q)[2] = db
  <2>1. Len(q) \in 1 .. Len(q)
    BY <1>1, <1>6, EmptySeq
  <2>2. PICK e \in DBs : q[Len(q)] = Select(e) /\ f[Len(q)] = <<f[Len(q) - 1][1], e>>
    BY <1>3, <2>1
  <2>3. e = db
    BY <1>6, <2>2 DEF Select
  <2> QED BY <1>2, <2>2, <2>3
<1> QED BY <1>5, <1>6
----------------------------------------------------------------------------
(* Sequences that are cut and put together again.                           *)
LEMMA SliceIs ==
  ASSUME NEW S, NEW st \in Seq(S), NEW a \in Nat, NEW b \in 0 .. Len(st)
  PROVE  /\ SubSeq(st, a + 1, b) \in Seq(S)
         /\ Len(SubSeq(st, a + 1, b)) = IF a <= b THEN b - a ELSE 0
         /\ \A k \in 1 .. Len(SubSeq(st, a + 1, b)) : SubSeq(st, a + 1, b)[k] = st[a + k]
<1>1. b \in Nat /\ a + 1 \in Nat
  OBVIOUS
<1>2. \A i \in a + 1 .. b : st[i] \in S
  <2> TAKE i \in a + 1 .. b
  <2>1. i \in 1 .. Len(st)
    BY <1>1
  <2> QED BY <2>1, ElementOfSeq
<1>3. /\ SubSeq(st, a + 1, b) \in Seq(S)
      /\ Len(SubSeq(st, a + 1, b)) = IF a + 1 <= b THEN b - (a + 1) + 1 ELSE 0
      /\ \A k \in 1 .. b - (a + 1) + 1 : SubSeq(st, a + 1, b)[k] = st[a + 1 + k - 1]
  BY <1>1, <1>2, SubSeqProperties
<1>4. /\ a + 1 <= b => b - (a + 1) + 1 = b - a
      /\ ~(a + 1 <= b) => (a <= b => b - a = 0)
      /\ \A k \in 1 .. b - (a + 1) + 1 : a + 1 + k - 1 = a + k
  BY <1>1
<1>5. Len(SubSeq(st, a + 1, b)) = IF a <= b THEN b - a ELSE 0
  BY <1>1, <1>3, <1>4
<1>6. \A k \in 1 .. Len(SubSeq(st, a + 1, b)) : k \in 1 .. b - (a + 1) + 1
  BY <1>1, <1>3
<1> QED BY <1>3, <1>4, <1>5, <1>6

(* Two sequences of the same length and elements are the same.              *)
LEMMA SameSeq ==
  ASSUME NEW S, NEW p \in Seq(S), NEW q \in Seq(S), Len(p) = Len(q),
         \A k \in 1 .. Len(p) : p[k] = q[k]
  PROVE  p = q
BY SeqEqual

LEMMA SinceFacts ==
  ASSUME NEW S, NEW st \in Seq(S), NEW a \in 0 .. Len(st)
  PROVE  /\ Since(st, a) \in Seq(S) /\ Len(Since(st, a)) = Len(st) - a
         /\ \A k \in 1 .. Len(st) - a : Since(st, a)[k] = st[a + k]
         /\ a = Len(st) => Since(st, a) = <<>>
<1>1. Len(st) \in 0 .. Len(st) /\ a \in Nat /\ a <= Len(st)
  OBVIOUS
<1>2. /\ Since(st, a) \in Seq(S) /\ Len(Since(st, a)) = Len(st) - a
      /\ \A k \in 1 .. Len(Since(st, a)) : Since(st, a)[k] = st[a + k]
  BY <1>1, SliceIs DEF Since
<1>3. a = Len(st) => Since(st, a) = <<>>
  <2>1. a = Len(st) => Len(st) - a = 0
    BY <1>1
  <2> QED BY <1>2, <2>1, EmptySeq
<1> QED BY <1>2, <1>3

Extends(t, st, r) == t = st \o r

LEMMA SliceOfLonger ==
  ASSUME NEW S, NEW st \in Seq(S), NEW r \in Seq(S), NEW a \in 0 .. Len(st),
         NEW t, Extends(t, st, r)
  PROVE  /\ t \in Seq(S) /\ Len(t) = Len(st) + Len(r)
         /\ \A y : Deliver(y, Since(t, a)) = Deliver(Deliver(y, Since(st, a)), r)
         /\ \A k \in 1 .. Len(st) : t[k] = st[k]
         /\ \A k \in 1 .. Len(r) : t[Len(st) + k] = r[k]
<1> DEFINE n == Len(st)
           u == SubSeq(t, a + 1, n + Len(r))
           v == SubSeq(st, a + 1, n)
<1>1. n \in Nat /\ Len(r) \in Nat /\ a \in Nat /\ a <= n
  OBVIOUS
<1>2. /\ t \in Seq(S) /\ Len(t) = n + Len(r)
      /\ \A k \in 1 .. n : t[k] = st[k]
      /\ \A k \in n + 1 .. n + Len(r) : t[k] = r[k - n]
  <2>1. /\ t \in Seq(S) /\ Len(t) = n + Len(r)
        /\ \A i \in 1 .. n + Len(r) : t[i] = IF i <= n THEN st[i] ELSE r[i - n]
    BY ConcatProperties DEF Extends
  <2>2. \A i \in 1 .. n : i \in 1 .. n + Len(r) /\ i <= n
    BY <1>1
  <2>3. \A i \in n + 1 .. n + Len(r) : i \in 1 .. n + Len(r) /\ ~(i <= n)
    BY <1>1
  <2> HIDE DEF n
  <2> QED BY <2>1, <2>2, <2>3
<1>3. /\ u \in Seq(S) /\ Len(u) = n + Len(r) - a
      /\ \A k \in 1 .. Len(u) : u[k] = t[a + k]
  <2>1. n + Len(r) \in 0 .. Len(t) /\ a <= n + Len(r)
    BY <1>1, <1>2
  <2> QED BY <1>1, <1>2, <2>1, SliceIs
<1>4. /\ v \in Seq(S) /\ Len(v) = n - a
      /\ \A k \in 1 .. Len(v) : v[k] = st[a + k]
  <2>1. n \in 0 .. Len(st)
    BY <1>1
  <2> QED BY <1>1, <2>1, SliceIs
<1> HIDE DEF u, v
<1>5. /\ v \o r \in Seq(S) /\ Len(v \o r) = Len(v) + Len(r)
      /\ \A i \in 1 .. Len(v) + Len(r) : (v \o r)[i] = IF i <= Len(v) THEN v[i] ELSE r[i - Len(v)]
  BY <1>4, ConcatProperties
<1> DEFINE w == v \o r
<1> HIDE DEF w
<1>6. ASSUME NEW k \in 1 .. Len(u)
      PROVE  u[k] = w[k]
  <2>0. k \in Nat /\ 1 <= k /\ k <= n - a + Len(r) /\ Len(v) = n - a /\ k \in 1 .. Len(v) + Len(r)
    BY <1>1, <1>3, <1>4
  <2>1. CASE k <= n - a
    <3>1. a + k \in 1 .. n /\ k \in 1 .. Len(v) /\ k <= Len(v)
      BY <1>1, <2>0, <2>1
    <3> QED BY <1>2, <1>3, <1>4, <1>5, <2>0, <3>1 DEF w
  <2>2. CASE ~(k <= n - a)
    <3>1. a + k \in n + 1 .. n + Len(r) /\ a + k - n = k - Len(v) /\ ~(k <= Len(v))
      BY <1>1, <2>0, <2>2
    <3> QED BY <1>2, <1>3, <1>5, <2>0, <3>1 DEF w
  <2> QED BY <2>1, <2>2
<1>7. u = w
  <2>1. w \in Seq(S) /\ Len(w) = Len(u)
    BY <1>1, <1>3, <1>4, <1>5 DEF w
  <2> QED BY <1>3, <1>6, <2>1, SameSeq
<1>8. \A k \in 1 .. Len(r) : t[n + k] = r[k]
  <2> TAKE k \in 1 .. Len(r)
  <2> DEFINE i == n + k
  <2>1. i \in n + 1 .. n + Len(r) /\ i - n = k
    BY <1>1
  <2> HIDE DEF i, n
  <2>2. t[i] = r[i - n]
    BY <1>2, <2>1
  <2> QED BY <2>1, <2>2 DEF i
<1>9. Since(t, a) = u /\ Since(st, a) = v
  BY <1>2 DEF u, v, Since
<1>10. \A y : Deliver(y, Since(t, a)) = Deliver(Deliver(y, Since(st, a)), r)
  BY <1>4, <1>7, <1>9, DeliverConcat DEF w
<1> QED BY <1>2, <1>8, <1>10

LEMMA ConcatFacts ==
  ASSUME NEW S, NEW p \in Seq(S), NEW q \in Seq(S)
  PROVE  /\ p \o q \in Seq(S) /\ Len(p \o q) = Len(p) + Len(q)
         /\ Len(p) \in Nat /\ Len(q) \in Nat
         /\ \A k \in 1 .. Len(p) : (p \o q)[k] = p[k]
         /\ \A k \in 1 .. Len(q) : (p \o q)[Len(p) + k] = q[k]
<1>1. /\ p \o q \in Seq(S) /\ Len(p \o q) = Len(p) + Len(q)
      /\ \A i \in 1 .. Len(p) + Len(q) : (p \o q)[i] = IF i <= Len(p) THEN p[i] ELSE q[i - Len(p)]
  BY ConcatProperties
<1>2. Len(p) \in Nat /\ Len(q) \in Nat
  OBVIOUS
<1> DEFINE w == p \o q
<1> HIDE DEF w
<1>3. \A k \in 1 .. Len(p) : w[k] = p[k]
  <2>1. \A k \in 1 .. Len(p) : k \in 1 .. Len(p) + Len(q) /\ k <= Len(p)
    BY <1>2
  <2> QED BY <1>1, <2>1 DEF w
<1>4. \A k \in 1 .. Len(q) : w[Len(p) + k] = q[k]
  <2>1. \A k \in 1 .. Len(q) : /\ Len(p) + k \in 1 .. Len(p) + Len(q) /\ ~(Len(p) + k <= Len(p))
                               /\ Len(p) + k - Len(p) = k
    BY <1>2
  <2> QED BY <1>1, <2>1 DEF w
<1> QED BY <1>1, <1>2, <1>3, <1>4 DEF w
----------------------------------------------------------------------------
(* What the operations of the backlog and of the slaves do to a position.   *)
MasterTypedAt(m) ==
  /\ m.data \in Dataset
  /\ m.backlog.active \in BOOLEAN
  /\ m.backlog.moff \in Nat /\ m.backlog.off \in Nat
  /\ m.backlog.stream \in Seq(Streamed) /\ m.backlog.moff = Len(m.backlog.stream)

(* The master n is m after it fed the commands r to its slaves.             *)
Grown(m, n, r) ==
  /\ MasterTypedAt(m) /\ MasterTypedAt(n)
  /\ IsPrefix(m.data, n.data)
  /\ n.backlog.active = m.backlog.active
  /\ m.backlog.active =>
       /\ \A y \in Point : Ends(y, m) => Ends(Deliver(y, r), n)
       /\ Extends(n.backlog.stream, m.backlog.stream, r)
       /\ m.backlog.off <= n.backlog.off
  /\ ~m.backlog.active => n.backlog.stream = m.backlog.stream

LEMMA PositionTyped ==
  ASSUME NEW q \in Seq(Entry), NEW o \in Nat
  PROVE  q \in Seq(Streamed) /\ Len(q) \in Nat /\ o + Len(q) \in Nat
BY DEF Streamed

(* A slave that is not fed keeps its position.                              *)
LEMMA UnfedPositioned ==
  ASSUME NEW m, NEW n, NEW r \in Seq(Streamed), Grown(m, n, r), NEW x \in Point,
         NEW q \in Seq(Streamed), NEW o \in Nat, Positioned(x, q, o, m)
  PROVE  Positioned(x, q, o, n)
<1> DEFINE st == m.backlog.stream
           su == n.backlog.stream
           a  == o + Len(q)
           y  == Deliver(x, q)
<1>1. /\ st \in Seq(Streamed) /\ m.backlog.moff = Len(st) /\ su \in Seq(Streamed)
      /\ n.backlog.moff = Len(su) /\ Len(q) \in Nat /\ a \in Nat
      /\ Len(st) \in Nat /\ Len(su) \in Nat /\ m.backlog.off \in Nat /\ n.backlog.off \in Nat
  BY DEF Grown, MasterTypedAt
<1>2. /\ a <= Len(st)
      /\ \A k \in 1 .. Len(q) : q[k] = st[o + k]
      /\ m.backlog.active /\ m.backlog.off <= a + 1 =>
           Ends(Deliver(y, Since(st, a)), m)
  BY <1>1 DEF Positioned
<1>3. \A k \in 1 .. Len(q) : o + k \in 1 .. Len(st)
  <2> TAKE k \in 1 .. Len(q)
  <2> QED BY <1>1, <1>2
<1>4. y \in Point
  BY DeliverGrows
<1> HIDE DEF y, a, st, su
<1>5. CASE m.backlog.active
  <2>1. Extends(su, st, r) /\ n.backlog.active /\ m.backlog.off <= n.backlog.off
        /\ \A z \in Point : Ends(z, m) => Ends(Deliver(z, r), n)
    BY <1>5 DEF Grown, st, su
  <2>2. /\ Len(su) = Len(st) + Len(r) /\ Len(r) \in Nat
        /\ \A z : Deliver(z, Since(su, a)) = Deliver(Deliver(z, Since(st, a)), r)
        /\ \A k \in 1 .. Len(st) : su[k] = st[k]
    <3>1. a \in 0 .. Len(st)
      BY <1>1, <1>2
    <3>2. Len(r) \in Nat
      OBVIOUS
    <3> QED BY <1>1, <2>1, <3>1, <3>2, SliceOfLonger
  <2>3. a <= Len(su)
    BY <1>1, <1>2, <2>2
  <2>4. \A k \in 1 .. Len(q) : q[k] = su[o + k]
    BY <1>2, <1>3, <2>2
  <2>5. ASSUME n.backlog.off <= a + 1
        PROVE  Ends(Deliver(y, Since(su, a)), n)
    <3> DEFINE t == Since(st, a)
    <3>1. m.backlog.off <= a + 1
      BY <1>1, <2>1, <2>5
    <3>2. t \in Seq(Streamed)
      <4>1. a \in 0 .. Len(st)
        BY <1>1, <1>2
      <4> QED BY <1>1, <4>1, SinceFacts
    <3>3. Ends(Deliver(y, t), m)
      BY <1>2, <1>5, <3>1
    <3> HIDE DEF t
    <3>4. Deliver(y, t) \in Point
      BY <1>4, <3>2, DeliverGrows
    <3>5. Ends(Deliver(Deliver(y, t), r), n)
      BY <2>1, <3>3, <3>4
    <3>6. Deliver(y, Since(su, a)) = Deliver(Deliver(y, t), r)
      BY <2>2 DEF t
    <3> QED BY <3>5, <3>6
  <2> QED BY <1>1, <2>3, <2>4, <2>5 DEF Positioned, y, a, su
<1>6. CASE ~m.backlog.active
  <2>1. su = st /\ ~n.backlog.active
    BY <1>6 DEF Grown, st, su, MasterTypedAt
  <2> QED BY <1>1, <1>2, <2>1 DEF Positioned, y, a, su
<1>7. m.backlog.active \in BOOLEAN
  BY DEF Grown, MasterTypedAt
<1> QED BY <1>5, <1>6, <1>7

LEMMA SecondPart ==
  ASSUME NEW k \in Nat, NEW a \in Nat, NEW b \in Nat, NEW c \in Nat, NEW o \in Nat,
         o + a = c, k <= a + b, ~(k <= a)
  PROVE  k - a \in 1 .. b /\ k = a + (k - a) /\ o + k = c + (k - a)
  OBVIOUS

(* A slave that is fed follows.                                             *)
LEMMA FedPositioned ==
  ASSUME NEW m, NEW n, NEW r \in Seq(Streamed), Grown(m, n, r), m.backlog.active,
         NEW x \in Point, NEW q \in Seq(Streamed), NEW o \in Nat,
         Positioned(x, q, o, m), o + Len(q) = m.backlog.moff,
         Ends(Deliver(x, q), m)
  PROVE  /\ Positioned(x, q \o r, o, n)
         /\ o + Len(q \o r) = n.backlog.moff
<1> DEFINE st == m.backlog.stream
           su == n.backlog.stream
           w  == q \o r
           y  == Deliver(x, w)
<1>1. /\ st \in Seq(Streamed) /\ m.backlog.moff = Len(st) /\ su \in Seq(Streamed)
      /\ n.backlog.moff = Len(su) /\ Len(q) \in Nat /\ Len(r) \in Nat
      /\ Len(st) \in Nat /\ Len(su) \in Nat
      /\ Extends(su, st, r) /\ \A z \in Point : Ends(z, m) => Ends(Deliver(z, r), n)
  BY DEF Grown, MasterTypedAt
<1>2. o + Len(q) = Len(st) /\ \A k \in 1 .. Len(q) : q[k] = st[o + k]
  BY <1>1 DEF Positioned
<1>3. /\ w \in Seq(Streamed) /\ Len(w) = Len(q) + Len(r)
      /\ \A k \in 1 .. Len(q) : w[k] = q[k]
      /\ \A k \in 1 .. Len(r) : w[Len(q) + k] = r[k]
  BY ConcatFacts
<1>4. /\ Len(su) = Len(st) + Len(r)
      /\ \A k \in 1 .. Len(st) : su[k] = st[k]
      /\ \A k \in 1 .. Len(r) : su[Len(st) + k] = r[k]
  <2> HIDE DEF st, su
  <2> QED BY <1>1, ConcatFacts DEF Extends
<1>0. /\ Len(st) \in Nat /\ Len(su) \in Nat /\ Len(q) \in Nat /\ Len(r) \in Nat
      /\ o + Len(q) = Len(st) /\ Len(w) = Len(q) + Len(r) /\ Len(su) = Len(st) + Len(r)
  BY <1>1, <1>2, <1>3, <1>4
<1>5. Ends(y, n)
  <2>1. Deliver(x, q) \in Point /\ y = Deliver(Deliver(x, q), r)
    BY DeliverGrows, DeliverConcat
  <2> HIDE DEF y
  <2> QED BY <1>1, <2>1
<1> HIDE DEF st, su, w, y
<1>6. ASSUME NEW k \in 1 .. Len(w)
      PROVE  w[k] = su[o + k]
  <2>0. k \in Nat /\ 1 <= k /\ k <= Len(q) + Len(r)
    BY <1>1, <1>3
  <2>1. CASE k <= Len(q)
    <3>1. k \in 1 .. Len(q) /\ o + k \in 1 .. Len(st)
      BY <1>1, <1>2, <2>0, <2>1
    <3> QED BY <1>2, <1>3, <1>4, <3>1
  <2>2. CASE ~(k <= Len(q))
    <3> DEFINE i == k - Len(q)
    <3>1. i \in 1 .. Len(r) /\ k = Len(q) + i /\ o + k = Len(st) + i
      BY <1>0, <2>0, <2>2, SecondPart
    <3> HIDE DEF i
    <3>2. w[Len(q) + i] = r[i]
      BY <1>3, <3>1
    <3>3. su[Len(st) + i] = r[i]
      BY <1>4, <3>1
    <3> QED BY <3>1, <3>2, <3>3
  <2> QED BY <2>1, <2>2
<1>7. o + Len(w) = Len(su)
  BY <1>0
<1>8. Since(su, o + Len(w)) = <<>>
  <2>1. Len(su) \in 0 .. Len(su) /\ su \in Seq(Streamed)
    BY <1>0, <1>1 DEF su
  <2> QED BY <1>7, <2>1, SinceFacts
<1>9. Deliver(y, <<>>) = y
  BY DeliverNothing
<1>10. n.backlog.moff = Len(su) /\ Len(su) <= Len(su)
  BY <1>0, <1>1 DEF su
<1>11. Positioned(x, w, o, n)
  BY <1>5, <1>6, <1>7, <1>8, <1>9, <1>10 DEF Positioned, su, y
<1> QED BY <1>7, <1>10, <1>11 DEF w

(* What follows a part of the stream.                                       *)
LEMMA SinceSplit ==
  ASSUME NEW S, NEW st \in Seq(S), NEW r \in Seq(S), NEW a \in Nat,
         a + Len(r) <= Len(st), \A k \in 1 .. Len(r) : r[k] = st[a + k]
  PROVE  \A y : Deliver(y, Since(st, a)) = Deliver(Deliver(y, r), Since(st, a + Len(r)))
<1> DEFINE u == Since(st, a)
           v == Since(st, a + Len(r))
           w == r \o v
<1>1. Len(st) \in Nat /\ Len(r) \in Nat /\ a \in 0 .. Len(st) /\ a + Len(r) \in 0 .. Len(st)
  OBVIOUS
<1>2. u \in Seq(S) /\ Len(u) = Len(st) - a /\ \A k \in 1 .. Len(st) - a : u[k] = st[a + k]
  BY <1>1, SinceFacts
<1>3. /\ v \in Seq(S) /\ Len(v) = Len(st) - (a + Len(r))
      /\ \A k \in 1 .. Len(st) - (a + Len(r)) : v[k] = st[a + Len(r) + k]
  BY <1>1, SinceFacts
<1> HIDE DEF u, v
<1>4. /\ w \in Seq(S) /\ Len(w) = Len(r) + Len(v)
      /\ \A k \in 1 .. Len(r) : w[k] = r[k]
      /\ \A k \in 1 .. Len(v) : w[Len(r) + k] = v[k]
  BY <1>3, ConcatFacts
<1>5. \A y : Deliver(y, w) = Deliver(Deliver(y, r), v)
  BY <1>3, DeliverConcat
<1> HIDE DEF w
<1>6. ASSUME NEW k \in 1 .. Len(u)
      PROVE  u[k] = w[k]
  <2>0. k \in Nat /\ 1 <= k /\ k <= Len(st) - a /\ k \in 1 .. Len(st) - a
    BY <1>1, <1>2
  <2>1. CASE k <= Len(r)
    <3>1. k \in 1 .. Len(r)
      BY <1>1, <2>0, <2>1
    <3> QED BY <1>2, <1>4, <2>0, <3>1
  <2>2. CASE ~(k <= Len(r))
    <3> DEFINE i == k - Len(r)
    <3>1. /\ i \in 1 .. Len(st) - (a + Len(r)) /\ i \in 1 .. Len(v)
          /\ k = Len(r) + i /\ a + k = a + Len(r) + i
      BY <1>1, <1>3, <2>0, <2>2
    <3> HIDE DEF i
    <3> QED BY <1>2, <1>3, <1>4, <2>0, <3>1
  <2> QED BY <2>1, <2>2
<1>7. Len(w) = Len(u)
  BY <1>1, <1>2, <1>3, <1>4
<1>8. u = w
  BY <1>2, <1>4, <1>6, <1>7, SameSeq
<1> QED BY <1>5, <1>8 DEF u, v

(* The end of what the slave was sent is lost.                              *)
LEMMA CutPositioned ==
  ASSUME NEW m, MasterTypedAt(m), NEW x \in Point, NEW q \in Seq(Streamed),
         NEW r \in Seq(Streamed), NEW p, Extends(p, q, r), NEW o \in Nat
  PROVE  /\ Positioned(x, p, o, m) => Positioned(x, q, o, m)
         /\ IsPrefix(Deliver(x, p)[1], m.data) => IsPrefix(Deliver(x, q)[1], m.data)
<1> DEFINE st == m.backlog.stream
           y == Deliver(x, q)
           z == Deliver(x, p)
           a == o + Len(q)
<1>1. /\ st \in Seq(Streamed) /\ m.backlog.moff = Len(st) /\ m.backlog.off \in Nat
      /\ m.data \in Seq(DBs \X Nat)
  BY DEF MasterTypedAt, Dataset
<1>2. /\ Len(q) \in Nat /\ Len(r) \in Nat /\ Len(p) = Len(q) + Len(r) /\ Len(st) \in Nat
      /\ \A k \in 1 .. Len(q) : p[k] = q[k]
      /\ \A k \in 1 .. Len(r) : p[Len(q) + k] = r[k]
  BY <1>1, ConcatFacts DEF Extends
<1>3. z = Deliver(y, r)
  BY DeliverConcat DEF Extends
<1>4. y \in Point /\ Deliver(y, r) \in Point /\ IsPrefix(y[1], Deliver(y, r)[1])
  BY DeliverGrows
<1> HIDE DEF y, z, st
<1>5. IsPrefix(z[1], m.data) => IsPrefix(y[1], m.data)
  <2>1. y[1] \in Seq(DBs \X Nat) /\ z[1] \in Seq(DBs \X Nat)
    BY <1>3, <1>4 DEF Point, Dataset
  <2> QED BY <1>1, <1>3, <1>4, <2>1, PrefixFacts
<1>6. ASSUME Positioned(x, p, o, m)
      PROVE  Positioned(x, q, o, m)
  <2>1. /\ o + Len(p) <= Len(st)
        /\ \A k \in 1 .. Len(p) : p[k] = st[o + k]
        /\ m.backlog.active /\ m.backlog.off <= o + Len(p) + 1 =>
             Ends(Deliver(z, Since(st, o + Len(p))), m)
    BY <1>1, <1>6 DEF Positioned, st, z
  <2>2. a <= Len(st) /\ a \in Nat /\ o + Len(p) = a + Len(r) /\ a + Len(r) <= Len(st)
    BY <1>2, <2>1
  <2>3. \A k \in 1 .. Len(q) : q[k] = st[o + k]
    <3>1. \A k \in 1 .. Len(q) : k \in 1 .. Len(p)
      BY <1>2
    <3> QED BY <1>2, <2>1, <3>1
  <2>4. \A k \in 1 .. Len(r) : r[k] = st[a + k]
    <3> TAKE k \in 1 .. Len(r)
    <3>1. Len(q) + k \in 1 .. Len(p) /\ o + (Len(q) + k) = a + k
      BY <1>2
    <3> HIDE DEF a
    <3>2. p[Len(q) + k] = st[o + (Len(q) + k)]
      BY <2>1, <3>1
    <3> QED BY <1>2, <3>1, <3>2
  <2> HIDE DEF a
  <2>5. Deliver(y, Since(st, a)) = Deliver(Deliver(y, r), Since(st, a + Len(r)))
    <3>1. st \in Seq(Streamed) /\ a \in Nat /\ a + Len(r) <= Len(st)
      BY <1>1, <2>2
    <3>2. \A z0 : Deliver(z0, Since(st, a)) = Deliver(Deliver(z0, r), Since(st, a + Len(r)))
      BY <2>4, <3>1, SinceSplit
    <3> QED BY <3>2
  <2>6. m.backlog.off <= a + 1 => m.backlog.off <= o + Len(p) + 1
    BY <1>1, <1>2, <2>2
  <2>7. m.backlog.active /\ m.backlog.off <= a + 1 => Ends(Deliver(y, Since(st, a)), m)
    BY <1>3, <2>1, <2>2, <2>5, <2>6
  <2> QED BY <1>1, <2>2, <2>3, <2>7 DEF Positioned, st, y, a
<1> QED BY <1>5, <1>6 DEF y, z

(* The slave takes the next command.                                        *)
LEMMA NextPositioned ==
  ASSUME NEW m, MasterTypedAt(m), NEW x \in Point, NEW q \in Seq(Streamed), q # <<>>,
         NEW o \in Nat
  PROVE  /\ Applied(x, Head(q)) \in Point /\ Tail(q) \in Seq(Streamed)
         /\ Deliver(Applied(x, Head(q)), Tail(q)) = Deliver(x, q)
         /\ o + 1 + Len(Tail(q)) = o + Len(q)
         /\ Positioned(x, q, o, m) => Positioned(Applied(x, Head(q)), Tail(q), o + 1, m)
<1>1. /\ Head(q) \in Streamed /\ Tail(q) \in Seq(Streamed) /\ Len(Tail(q)) = Len(q) - 1
      /\ \A i \in 1 .. Len(Tail(q)) : Tail(q)[i] = q[i + 1]
  BY HeadTailProperties
<1>2. Applied(x, Head(q)) \in Point
  BY <1>1, AppliedTyped
<1>3. Deliver(Applied(x, Head(q)), Tail(q)) = Deliver(x, q)
  BY DeliverHead
<1> DEFINE t == Tail(q)
           z == Applied(x, Head(q))
<1> HIDE DEF t, z
<1>4. Len(q) \in Nat /\ Len(t) \in Nat /\ Len(t) = Len(q) - 1 /\ o + 1 + Len(t) = o + Len(q)
  <2>1. Len(q) \in Nat
    OBVIOUS
  <2>2. Len(t) \in Nat /\ Len(t) = Len(q) - 1
    BY <1>1 DEF t
  <2> QED BY <2>1, <2>2
<1>5. ASSUME Positioned(x, q, o, m)
      PROVE  Positioned(z, t, o + 1, m)
  <2>1. \A k \in 1 .. Len(t) : t[k] = m.backlog.stream[o + 1 + k]
    <3> TAKE k \in 1 .. Len(t)
    <3>1. k + 1 \in 1 .. Len(q) /\ o + (k + 1) = o + 1 + k
      BY <1>4
    <3>2. q[k + 1] = m.backlog.stream[o + (k + 1)]
      BY <1>5, <3>1 DEF Positioned
    <3>3. t[k] = q[k + 1]
      BY <1>1 DEF t
    <3> QED BY <3>1, <3>2, <3>3
  <2>2. Deliver(z, t) = Deliver(x, q)
    BY <1>3 DEF t, z
  <2> QED BY <1>4, <1>5, <2>1, <2>2 DEF Positioned
<1> QED BY <1>1, <1>2, <1>3, <1>4, <1>5 DEF t, z

(* A slave at the end of the stream.                                        *)
LEMMA EndPositioned ==
  ASSUME NEW m, MasterTypedAt(m), NEW x \in Point, NEW q \in Seq(Streamed), NEW o \in Nat,
         o + Len(q) = m.backlog.moff, Ends(Deliver(x, q), m),
         \A k \in 1 .. Len(q) : q[k] = m.backlog.stream[o + k]
  PROVE  Positioned(x, q, o, m)
<1> DEFINE st == m.backlog.stream
<1>1. st \in Seq(Streamed) /\ m.backlog.moff = Len(st) /\ Len(st) \in 0 .. Len(st)
  BY DEF MasterTypedAt
<1>2. Since(st, Len(st)) = <<>>
  BY <1>1, SinceFacts
<1>3. Deliver(Deliver(x, q), <<>>) = Deliver(x, q)
  BY DeliverNothing
<1> QED BY <1>1, <1>2, <1>3 DEF Positioned

(* The master resumes the stream where the slave lost it.                   *)
LEMMA ResumePositioned ==
  ASSUME NEW m, MasterTypedAt(m), m.backlog.active, NEW x \in Point, NEW o \in Nat,
         Positioned(x, <<>>, o, m), m.backlog.off <= o + 1
  PROVE  LET q == Since(m.backlog.stream, o) IN
         /\ Ends(Deliver(x, q), m)
         /\ Positioned(x, q, o, m)
         /\ o + Len(q) = m.backlog.moff
<1> DEFINE st == m.backlog.stream
           q == Since(st, o)
<1>1. st \in Seq(Streamed) /\ m.backlog.moff = Len(st) /\ Len(st) \in Nat
  BY DEF MasterTypedAt
<1>2. o <= Len(st) /\ Ends(Deliver(x, q), m)
  <2>1. Len(<<>>) = 0 /\ o + 0 = o
    OBVIOUS
  <2>2. Deliver(x, <<>>) = x
    BY DeliverNothing
  <2> QED BY <1>1, <2>1, <2>2 DEF Positioned
<1>3. /\ q \in Seq(Streamed) /\ Len(q) = Len(st) - o
      /\ \A k \in 1 .. Len(st) - o : q[k] = st[o + k]
  <2>1. o \in 0 .. Len(st)
    BY <1>1, <1>2
  <2> QED BY <1>1, <2>1, SinceFacts
<1> HIDE DEF q
<1>4. o + Len(q) = m.backlog.moff
  BY <1>1, <1>2, <1>3
<1>5. Positioned(x, q, o, m)
  BY <1>1, <1>2, <1>3, <1>4, EndPositioned
<1> QED BY <1>2, <1>4, <1>5 DEF q

(* The master n is m after it created, resized or freed its backlog, or     *)
(* forgot the database selected last.                                       *)
Kept(m, n) ==
  /\ MasterTypedAt(m) /\ MasterTypedAt(n)
  /\ n.data = m.data /\ n.db \in {m.db, -1}
  /\ m.backlog.moff <= n.backlog.moff
  /\ \A k \in 1 .. m.backlog.moff : n.backlog.stream[k] = m.backlog.stream[k]
  /\ n.backlog.active =>
       \/ /\ m.backlog.active /\ m.backlog.off <= n.backlog.off
          /\ n.backlog.stream = m.backlog.stream
       \/ n.backlog.off > m.backlog.moff + 1

LEMMA KeptPositioned ==
  ASSUME NEW m, NEW n, Kept(m, n), NEW x \in Point, NEW q \in Seq(Streamed), NEW o \in Nat
  PROVE  /\ \A y : Ends(y, m) => Ends(y, n)
         /\ Positioned(x, q, o, m) => Positioned(x, q, o, n)
<1>1. \A y : Ends(y, m) => Ends(y, n)
  BY DEF Ends, Kept
<1> DEFINE a == o + Len(q)
<1>2. ASSUME Positioned(x, q, o, m)
      PROVE  Positioned(x, q, o, n)
  <2>1. /\ m.backlog.moff \in Nat /\ n.backlog.moff \in Nat /\ m.backlog.off \in Nat
        /\ n.backlog.off \in Nat /\ Len(q) \in Nat /\ m.backlog.moff <= n.backlog.moff
        /\ a \in Nat /\ a <= m.backlog.moff
    <3>1. Len(q) \in Nat
      OBVIOUS
    <3> QED BY <1>2, <3>1 DEF Positioned, Kept, MasterTypedAt
  <2>2. a <= n.backlog.moff
    BY <2>1
  <2>3. \A k \in 1 .. Len(q) : q[k] = n.backlog.stream[o + k]
    <3> TAKE k \in 1 .. Len(q)
    <3>1. o + k \in 1 .. m.backlog.moff
      BY <2>1
    <3> QED BY <1>2, <3>1 DEF Positioned, Kept
  <2>4. ASSUME n.backlog.active, n.backlog.off <= a + 1
        PROVE  Ends(Deliver(Deliver(x, q), Since(n.backlog.stream, a)), n)
    <3>1. ~(n.backlog.off > m.backlog.moff + 1)
      BY <2>1, <2>4
    <3>2. /\ m.backlog.active /\ m.backlog.off <= n.backlog.off
          /\ n.backlog.stream = m.backlog.stream
      BY <2>4, <3>1 DEF Kept
    <3>3. m.backlog.off <= a + 1
      BY <2>1, <2>4, <3>2
    <3>4. Ends(Deliver(Deliver(x, q), Since(m.backlog.stream, a)), m)
      BY <1>2, <3>2, <3>3 DEF Positioned
    <3> QED BY <1>1, <3>2, <3>4
  <2> QED BY <2>2, <2>3, <2>4 DEF Positioned
<1> QED BY <1>1, <1>2
----------------------------------------------------------------------------
(* What is on the wire, as messages are sent and read.                      *)
LEMMA AppendFacts ==
  ASSUME NEW S, NEW q \in Seq(S), NEW e
  PROVE  /\ Append(q, e) # <<>>
         /\ q # <<>> => Head(Append(q, e)) = Head(q) /\ Tail(Append(q, e)) = Append(Tail(q), e)
         /\ q = <<>> => Head(Append(q, e)) = e /\ Tail(Append(q, e)) = <<>>
<1>1. Append(q, e) # <<>>
  <2> DEFINE T == S \cup {e}
  <2>1. q \in Seq(T) /\ e \in T
    OBVIOUS
  <2> HIDE DEF T
  <2> QED BY <2>1, AppendProperties
<1>2. ASSUME q # <<>>
      PROVE  Head(Append(q, e)) = Head(q) /\ Tail(Append(q, e)) = Append(Tail(q), e)
  <2>1. Head(Append(q, e)) = Head(q)
    BY <1>2
  <2>2. Tail(Append(q, e)) = Append(Tail(q), e)
    <3> DEFINE T == S \cup {e}
               v == Append(q, e)
               a == Tail(v)
               b == Append(Tail(q), e)
               t == Tail(q)
    <3>1. q \in Seq(T) /\ e \in T /\ Len(q) \in Nat /\ Len(q) # 0
      BY <1>2, EmptySeq
    <3> HIDE DEF T
    <3>2. /\ v \in Seq(T) /\ Len(v) = Len(q) + 1 /\ v # <<>>
          /\ \A i \in 1 .. Len(q) : v[i] = q[i]
          /\ v[Len(q) + 1] = e
      BY <3>1, AppendProperties
    <3>3. /\ t \in Seq(T) /\ Len(t) = Len(q) - 1
          /\ \A i \in 1 .. Len(t) : t[i] = q[i + 1]
      BY <1>2, <3>1, HeadTailProperties
    <3> HIDE DEF v, t
    <3>4. /\ a \in Seq(T) /\ Len(a) = Len(v) - 1
          /\ \A i \in 1 .. Len(a) : a[i] = v[i + 1]
      BY <3>2, HeadTailProperties
    <3>5. /\ b \in Seq(T) /\ Len(b) = Len(t) + 1
          /\ \A i \in 1 .. Len(t) : b[i] = t[i]
          /\ b[Len(t) + 1] = e
      BY <3>1, <3>3, AppendProperties DEF t
    <3> HIDE DEF a, b
    <3>6. Len(a) = Len(q) /\ Len(b) = Len(q)
      BY <3>1, <3>2, <3>3, <3>4, <3>5
    <3>7. ASSUME NEW i \in 1 .. Len(a)
          PROVE  a[i] = b[i]
      <4>1. i \in Nat /\ 1 <= i /\ i <= Len(q)
        BY <3>1, <3>6
      <4>2. CASE i = Len(q)
        <5>1. i = Len(t) + 1
          BY <3>1, <3>3, <4>2
        <5> QED BY <3>2, <3>4, <3>5, <4>2, <5>1
      <4>3. CASE i # Len(q)
        <5>1. i \in 1 .. Len(t) /\ i + 1 \in 1 .. Len(q)
          BY <3>1, <3>3, <4>1, <4>3
        <5>2. a[i] = v[i + 1] /\ v[i + 1] = q[i + 1]
          BY <3>2, <3>4, <5>1
        <5>3. b[i] = t[i] /\ t[i] = q[i + 1]
          BY <3>3, <3>5, <5>1
        <5> QED BY <5>2, <5>3
      <4> QED BY <4>2, <4>3
    <3>8. a = b
      BY <3>4, <3>5, <3>6, <3>7, SameSeq
    <3> QED BY <3>8 DEF a, b, v, t
  <2> QED BY <2>1, <2>2
<1>3. ASSUME q = <<>>
      PROVE  Head(Append(q, e)) = e /\ Tail(Append(q, e)) = <<>>
  BY <1>3
<1> QED BY <1>1, <1>2, <1>3

LEMMA MessageKinds ==
  /\ \A e \in Entry : e.op \in {"SELECT", "CMD", "PING"} /\ e \in Message /\ e \in Streamed
  /\ \A r \in RdbFile : r.op = "RDB" /\ r \in Message
BY DEF Entry, RdbFile, Ping, Message, Streamed

(* Only commands, or nothing at all.                                        *)
LEMMA WireOfCommands ==
  ASSUME NEW w \in Seq(Entry)
  PROVE  /\ ~Replied(w) /\ ~Announces(w) /\ ~HasRdb(w) /\ ~NextIs(w, {"CONTINUE"})
         /\ Body(w) = w /\ Commands(w) = w
<1>1. w # <<>> => Head(w).op \in {"SELECT", "CMD", "PING"}
  <2>1. w # <<>> => Head(w) \in Entry
    BY HeadTailProperties
  <2> QED BY <2>1, MessageKinds
<1> QED BY <1>1 DEF Replied, Announces, HasRdb, Body, Commands, NextIs

LEMMA WireEmpty ==
  /\ ~Replied(<<>>) /\ ~Announces(<<>>) /\ ~HasRdb(<<>>) /\ ~NextIs(<<>>, {"CONTINUE"})
  /\ Body(<<>>) = <<>> /\ Commands(<<>>) = <<>>
BY DEF Replied, Announces, HasRdb, Body, Commands, NextIs

(* The master writes an RDB or a command.                                   *)
LEMMA WireAppend ==
  ASSUME NEW w \in Seq(Message), NEW e \in Entry \cup RdbFile
  PROVE  LET v == Append(w, e) IN
         /\ Announces(v) <=> Announces(w)
         /\ Replied(v) <=> Replied(w)
         /\ NextIs(v, {"CONTINUE"}) <=> NextIs(w, {"CONTINUE"})
         /\ Announces(w) => Head(v) = Head(w)
         /\ Body(v) = Append(Body(w), e)
<1> DEFINE v == Append(w, e)
<1>1. e.op \in {"SELECT", "CMD", "PING", "RDB"}
  BY MessageKinds
<1>2. /\ v # <<>>
      /\ w # <<>> => Head(v) = Head(w) /\ Tail(v) = Append(Tail(w), e)
      /\ w = <<>> => Head(v) = e
  BY AppendFacts
<1>3. w = <<>> => ~Replied(w)
  BY DEF Replied, NextIs
<1> HIDE DEF v
<1>4. \A ops \in {{"CONTINUE"}, {"FULLRESYNC"}, {"CONTINUE", "FULLRESYNC"}} :
         NextIs(v, ops) <=> NextIs(w, ops)
  BY <1>1, <1>2 DEF NextIs
<1>5. Body(v) = Append(Body(w), e)
  <2>1. CASE Replied(w)
    BY <1>2, <1>3, <1>4, <2>1 DEF Body, Replied
  <2>2. CASE ~Replied(w)
    BY <1>4, <2>2 DEF Body, Replied, v
  <2> QED BY <2>1, <2>2
<1>6. Announces(w) => Head(v) = Head(w)
  BY <1>2 DEF Announces, NextIs
<1> QED BY <1>4, <1>5, <1>6 DEF v, Announces, Replied

LEMMA BodyTyped ==
  ASSUME NEW w \in Seq(Message)
  PROVE  Body(w) \in Seq(Message)
BY DEF Body, Replied, NextIs

LEMMA WireCommand ==
  ASSUME NEW w \in Seq(Message), NEW e \in Entry
  PROVE  LET v == Append(w, e) IN
         /\ HasRdb(v) <=> HasRdb(w)
         /\ HasRdb(w) => Head(Body(v)) = Head(Body(w))
         /\ Commands(v) = Append(Commands(w), e)
<1> DEFINE b == Body(w)
           c == Append(b, e)
           v == Append(w, e)
<1>1. Body(v) = c
  BY WireAppend
<1>2. b \in Seq(Message)
  BY BodyTyped
<1> HIDE DEF b, v
<1>3. /\ c # <<>>
      /\ b # <<>> => Head(c) = Head(b) /\ Tail(c) = Append(Tail(b), e)
      /\ b = <<>> => Head(c) = e
  BY <1>2, AppendFacts
<1>4. e.op # "RDB"
  BY MessageKinds
<1>5. HasRdb(w) <=> b # <<>> /\ Head(b).op = "RDB"
  BY DEF HasRdb, NextIs, b
<1>6. HasRdb(v) <=> Head(c).op = "RDB"
  BY <1>1, <1>3 DEF HasRdb, NextIs
<1>7. Commands(v) = IF HasRdb(v) THEN Tail(c) ELSE c
  BY <1>1 DEF Commands
<1>8. Commands(w) = IF HasRdb(w) THEN Tail(b) ELSE b
  BY DEF Commands, b
<1>9. HasRdb(v) <=> HasRdb(w)
  BY <1>3, <1>4, <1>5, <1>6
<1>10. HasRdb(w) => Head(Body(v)) = Head(b)
  BY <1>1, <1>3, <1>5
<1>11. Commands(v) = Append(Commands(w), e)
  BY <1>3, <1>5, <1>7, <1>8, <1>9
<1> QED BY <1>9, <1>10, <1>11 DEF b, v

LEMMA WireRdb ==
  ASSUME NEW w \in Seq(Message), NEW r \in RdbFile, Body(w) = <<>>
  PROVE  LET v == Append(w, r) IN
         HasRdb(v) /\ Head(Body(v)) = r /\ Commands(v) = <<>>
<1> DEFINE v == Append(w, r)
<1>1. Body(v) = Append(<<>>, r)
  BY WireAppend
<1>2. Append(<<>>, r) # <<>> /\ Head(Append(<<>>, r)) = r /\ Tail(Append(<<>>, r)) = <<>>
  OBVIOUS
<1>3. r.op = "RDB"
  BY MessageKinds
<1> HIDE DEF v
<1> QED BY <1>1, <1>2, <1>3 DEF HasRdb, NextIs, Commands, v

(* The slave reads the reply to PSYNC.                                      *)
LEMMA WireReply ==
  ASSUME NEW w, Replied(w), ~Replied(Body(w))
  PROVE  LET v == Tail(w) IN
         /\ ~Replied(v) /\ ~Announces(v) /\ ~NextIs(v, {"CONTINUE"})
         /\ Body(v) = Body(w) /\ (HasRdb(v) <=> HasRdb(w)) /\ Commands(v) = Commands(w)
<1>1. Body(w) = Tail(w)
  BY DEF Body
<1>2. ~Announces(Tail(w)) /\ ~NextIs(Tail(w), {"CONTINUE"})
  BY <1>1 DEF Replied, Announces, NextIs
<1> QED BY <1>1, <1>2 DEF Body, HasRdb, Commands

(* The slave reads the RDB.                                                 *)
LEMMA WireLoaded ==
  ASSUME NEW w, ~Replied(w), HasRdb(w), Commands(w) \in Seq(Entry)
  PROVE  LET v == Tail(w) IN
         /\ v \in Seq(Entry) /\ v = Commands(w)
         /\ w # <<>> /\ Head(Body(w)) = Head(w)
BY DEF Body, HasRdb, Commands, NextIs

(* The master replies to PSYNC.                                             *)
LEMMA WireFull ==
  ASSUME NEW r, r.op = "FULLRESYNC"
  PROVE  LET v == Append(<<>>, r) IN
         /\ Replied(v) /\ Announces(v) /\ Head(v) = r /\ Body(v) = <<>>
         /\ ~HasRdb(v) /\ Commands(v) = <<>>
<1> DEFINE v == Append(<<>>, r)
<1>1. v # <<>> /\ Head(v) = r /\ Tail(v) = <<>>
  OBVIOUS
<1> HIDE DEF v
<1> QED BY <1>1 DEF Replied, Announces, NextIs, Body, HasRdb, Commands, v

LEMMA WireContinue ==
  ASSUME NEW r, r.op = "CONTINUE"
  PROVE  LET v == Append(<<>>, r) IN
         /\ Replied(v) /\ ~Announces(v) /\ NextIs(v, {"CONTINUE"}) /\ Body(v) = <<>>
         /\ ~HasRdb(v) /\ Commands(v) = <<>>
<1> DEFINE v == Append(<<>>, r)
<1>1. v # <<>> /\ Head(v) = r /\ Tail(v) = <<>>
  OBVIOUS
<1> HIDE DEF v
<1> QED BY <1>1 DEF Replied, Announces, NextIs, Body, HasRdb, Commands, v
----------------------------------------------------------------------------
(* The view of one slave.                                                   *)
LEMMA NowTyped ==
  ASSUME IInv
  PROVE  MasterTypedAt(Now)
<1>1. data \in Dataset /\ BacklogInOrder(backlog)
  BY DEF IInv, TypeOK, MasterTyped
<1>2. /\ backlog.active \in BOOLEAN /\ backlog.off \in Nat /\ backlog.moff \in Nat
      /\ backlog.stream \in Seq(Streamed)
  BY <1>1, BacklogFields DEF BacklogInOrder, Streamed
<1>3. backlog.moff = Len(backlog.stream)
  BY <1>1 DEF BacklogInOrder, RingMatchesStream
<1>4. Now.data = data /\ Now.backlog = backlog
  BY DEF Now
<1> QED BY <1>1, <1>2, <1>3, <1>4 DEF MasterTypedAt

LEMMA SlaveTyped ==
  ASSUME IInv, NEW s \in Slaves
  PROVE  /\ wire[s] \in Seq(Message) /\ client[s] \in ClientType
         /\ client[s].obuf \in Seq(Entry) /\ client[s].file \in Seq(RdbFile)
         /\ slave[s] \in SlaveType /\ Held(s) \in Point
         /\ slave[s].runid \in Nat /\ slave[s].reploff \in Nat
         /\ slave[s].data \in Dataset /\ slave[s].db \in DBs
         /\ slave[s].initial \in Nat \cup {-1}
         /\ runid \in Nat
<1>1. wire[s] \in Seq(Message) /\ client[s] \in ClientType /\ slave[s] \in SlaveType /\ runid \in Nat
  BY DEF IInv, TypeOK, MasterTyped
<1>2. client[s].obuf \in Seq(Entry) /\ client[s].file \in Seq(RdbFile)
  BY <1>1 DEF ClientType
<1>3. /\ slave[s].runid \in Nat /\ slave[s].reploff \in Nat
      /\ slave[s].data \in Dataset /\ slave[s].db \in DBs
      /\ slave[s].initial \in Nat \cup {-1}
  BY <1>1 DEF SlaveType
<1>4. Held(s) \in Point
  BY <1>3 DEF Held, Point
<1> QED BY <1>1, <1>2, <1>3, <1>4

(* What the messages at the head of the wire are.                           *)
LEMMA HeadTyped ==
  ASSUME NEW w \in Seq(Message), w # <<>>
  PROVE  /\ Head(w).op = "RDB" => Head(w) \in RdbFile
         /\ Head(w).op = "FULLRESYNC" => Head(w).runid \in Nat /\ Head(w).offset \in Nat
         /\ Tail(w) \in Seq(Message)
<1>1. Head(w) \in Message /\ Tail(w) \in Seq(Message)
  BY HeadTailProperties
<1>2. \A m \in Message : /\ m.op = "RDB" => m \in RdbFile
                         /\ m.op = "FULLRESYNC" => m.runid \in Nat /\ m.offset \in Nat
  BY DEF Message, Entry, Ping, RdbFile, Continue, Error
<1> QED BY <1>1, <1>2

LEMMA ToComeFacts ==
  ASSUME IInv, NEW s \in Slaves, Stage(s), Files(s)
  PROVE  /\ RdbToCome(s) \in Seq(RdbFile)
         /\ client[s].replstate \notin {"END", "SEND_BULK"} => RdbToCome(s) = <<>>
         /\ SentRdb(s) => RdbToCome(s) = <<>>
         /\ client[s].replstate = "END" /\ ~Served(s) => RdbToCome(s) = <<>>
         /\ RdbToCome(s) # <<>> =>
              /\ Body(wire[s]) = <<>> /\ Commands(wire[s]) = <<>> /\ ~HasRdb(wire[s])
              /\ slave[s].state = "TRANSFER" \/ Announces(wire[s])
<1>1. client[s].file \in Seq(RdbFile)
  BY SlaveTyped
<1>2. client[s].replstate # "SEND_BULK" => client[s].file = <<>>
  BY DEF Files
<1>3. RdbToCome(s) \in Seq(RdbFile)
  <2> DEFINE end == IF child.type = "disk" THEN "length" ELSE "eofmark"
             r == RdbFor(client[s], end)
  <2>1. r \in RdbFile
    BY RdbForTyped DEF IInv, TypeOK
  <2> HIDE DEF end
  <2>2. RdbToCome(s) \in {<<r>>, client[s].file}
    BY DEF RdbToCome, end
  <2> HIDE DEF r
  <2>3. <<r>> \in Seq(RdbFile)
    BY <2>1
  <2> QED BY <1>1, <2>2, <2>3
<1>4. /\ client[s].replstate \notin {"END", "SEND_BULK"} => RdbToCome(s) = <<>>
      /\ SentRdb(s) => RdbToCome(s) = <<>>
      /\ client[s].replstate = "END" /\ ~Served(s) => RdbToCome(s) = <<>>
  BY <1>2 DEF RdbToCome, SentRdb
<1>5. ASSUME RdbToCome(s) # <<>>
      PROVE  /\ Body(wire[s]) = <<>> /\ Commands(wire[s]) = <<>> /\ ~HasRdb(wire[s])
             /\ slave[s].state = "TRANSFER" \/ Announces(wire[s])
  <2>1. client[s].replstate \in {"END", "SEND_BULK"} /\ ~SentRdb(s)
    BY <1>4, <1>5
  <2>2. slave[s].state \in {"CONNECT", "RECEIVE_PONG", "TRANSFER", "CONNECTED"}
    BY SlaveTyped DEF SlaveType
  <2>3. /\ Body(wire[s]) = <<>>
        /\ slave[s].state = "TRANSFER" \/ Announces(wire[s])
    BY <2>1, <2>2 DEF Stage, Streams, Transfers
  <2> QED BY <2>3 DEF Commands, HasRdb, NextIs
<1> QED BY <1>3, <1>4, <1>5

LEMMA ViewTyped ==
  ASSUME IInv, NEW s \in Slaves, Stage(s), Files(s)
  PROVE  /\ Replaced(s) => RdbOf(s)[1] \in RdbFile
         /\ Announces(wire[s]) => Head(wire[s]).runid \in Nat /\ Head(wire[s]).offset \in Nat
         /\ RunOf(s) \in Nat
         /\ OffsetOf(s) \in Nat \cup {-1}
         /\ Known(s) => /\ Commands(wire[s]) \in Seq(Entry) /\ Rest(s) \in Seq(Entry)
                        /\ Rest(s) \in Seq(Streamed)
                        /\ Start(s) \in Point /\ From(s) \in Nat
<1>1. /\ wire[s] \in Seq(Message) /\ client[s].obuf \in Seq(Entry) /\ Held(s) \in Point
      /\ slave[s].runid \in Nat /\ slave[s].reploff \in Nat
      /\ slave[s].initial \in Nat \cup {-1}
      /\ slave[s].state \in {"CONNECT", "RECEIVE_PONG", "TRANSFER", "CONNECTED"}
  BY SlaveTyped DEF SlaveType
<1>2. Replaced(s) => RdbOf(s)[1] \in RdbFile
  <2>1. CASE HasRdb(wire[s])
    <3> DEFINE b == Body(wire[s])
    <3>1. b \in Seq(Message) /\ b # <<>> /\ Head(b).op = "RDB"
      BY <1>1, <2>1, BodyTyped DEF HasRdb, NextIs
    <3>2. Head(b) \in RdbFile
      <4> HIDE DEF b
      <4> QED BY <3>1, HeadTyped
    <3>3. RdbOf(s) = <<Head(b)>>
      BY <2>1 DEF RdbOf
    <3> HIDE DEF b
    <3> QED BY <3>2, <3>3
  <2>2. CASE ~HasRdb(wire[s])
    <3>1. RdbOf(s) = RdbToCome(s) /\ RdbToCome(s) \in Seq(RdbFile)
      BY <2>2, ToComeFacts DEF RdbOf
    <3> HIDE DEF RdbOf
    <3> QED BY <3>1 DEF Replaced
  <2> QED BY <2>1, <2>2
<1>3. Announces(wire[s]) => Head(wire[s]).runid \in Nat /\ Head(wire[s]).offset \in Nat
  BY <1>1, HeadTyped DEF Announces, NextIs
<1>4. RunOf(s) \in Nat /\ OffsetOf(s) \in Nat \cup {-1}
  BY <1>1, <1>3 DEF RunOf, OffsetOf
<1>5. ASSUME Known(s)
      PROVE  /\ Commands(wire[s]) \in Seq(Entry)
             /\ Replaced(s) => OffsetOf(s) \in Nat
  <2>0. <<>> \in Seq(Entry)
    OBVIOUS
  <2>1. CASE RdbToCome(s) # <<>>
    <3>1. Commands(wire[s]) \in Seq(Entry)
      BY <2>0, <2>1, ToComeFacts
    <3>2. OffsetOf(s) \in Nat
      <4>1. slave[s].state = "TRANSFER" \/ Announces(wire[s])
        BY <2>1, ToComeFacts
      <4>2. slave[s].state = "TRANSFER" => slave[s].initial # -1
        BY DEF IInv, RepliesFirst, ReplyFirst
      <4> QED BY <1>1, <1>3, <4>1, <4>2 DEF OffsetOf
    <3> QED BY <3>1, <3>2
  <2>2. CASE HasRdb(wire[s])
    <3>1. /\ Commands(wire[s]) \in Seq(Entry)
          /\ slave[s].state = "TRANSFER" \/ Announces(wire[s])
      <4>1. ~Streams(s) /\ wire[s] # <<>> /\ Body(wire[s]) # <<>>
        <5>1. wire[s] # <<>> /\ Body(wire[s]) # <<>>
          BY <2>2 DEF HasRdb, NextIs, Body, Replied
        <5>2. ASSUME Streams(s) PROVE FALSE
          <6>1. Head(Body(wire[s])) \in Entry
            BY <5>1, <5>2, HeadTailProperties DEF Streams
          <6> QED BY <2>2, <6>1, MessageKinds DEF HasRdb, NextIs
        <5> QED BY <5>1, <5>2
      <4> QED BY <1>1, <4>1 DEF Stage, Transfers
    <3>2. OffsetOf(s) \in Nat
      <4>2. slave[s].state = "TRANSFER" => slave[s].initial # -1
        BY DEF IInv, RepliesFirst, ReplyFirst
      <4> QED BY <1>1, <1>3, <3>1, <4>2 DEF OffsetOf
    <3> QED BY <3>1, <3>2
  <2>3. CASE RdbToCome(s) = <<>> /\ ~HasRdb(wire[s])
    <3>1. ~Replaced(s)
      BY <2>3 DEF Replaced, RdbOf
    <3>2. /\ Commands(wire[s]) = Body(wire[s])
          /\ wire[s] = <<>> => Body(wire[s]) = <<>>
      BY <2>3, WireEmpty DEF Commands
    <3>3. Body(wire[s]) \in Seq(Entry)
      <4>1. slave[s].state = "TRANSFER" => ~slave[s].cached
        BY DEF Stage
      <4>2. slave[s].state = "CONNECT" => wire[s] = <<>>
        BY DEF Stage
      <4>3. slave[s].state = "CONNECTED" => Streams(s) \/ wire[s] = <<>>
        BY DEF Stage
      <4>4. slave[s].state = "RECEIVE_PONG" => Streams(s) \/ wire[s] = <<>> \/ Announces(wire[s])
        BY DEF Stage
      <4> QED BY <1>1, <1>5, <2>0, <3>1, <3>2, <4>1, <4>2, <4>3, <4>4 DEF Known, Streams
    <3> QED BY <3>1, <3>2, <3>3
  <2> QED BY <2>1, <2>2, <2>3
<1>6. ASSUME Known(s)
      PROVE  /\ Rest(s) \in Seq(Entry) /\ Rest(s) \in Seq(Streamed)
             /\ Start(s) \in Point /\ From(s) \in Nat
  <2>1. Rest(s) \in Seq(Entry)
    BY <1>1, <1>5, <1>6, ConcatProperties DEF Rest
  <2>2. Rest(s) \in Seq(Streamed)
    <3> HIDE DEF Rest
    <3> QED BY <2>1 DEF Streamed
  <2>3. Start(s) \in Point
    <3>1. CASE Replaced(s)
      <4>1. RdbOf(s)[1].content \in Dataset
        BY <1>2, <3>1 DEF RdbFile
      <4>2. 0 \in DBs
        BY ConstantsTyped
      <4> QED BY <3>1, <4>1, <4>2 DEF Start, Point
    <3>2. CASE ~Replaced(s)
      BY <1>1, <3>2 DEF Start
    <3> QED BY <3>1, <3>2
  <2>4. From(s) \in Nat
    BY <1>1, <1>5, <1>6 DEF From
  <2> QED BY <2>1, <2>2, <2>3, <2>4
<1> QED BY <1>2, <1>3, <1>4, <1>5, <1>6
(* A handler that moves messages along, or touches other slaves only, keeps *)
(* the view of a slave.                                                     *)
ViewKept(s) ==
  /\ slave'[s] = slave[s]
  /\ Announces(wire'[s]) <=> Announces(wire[s])
  /\ Announces(wire[s]) => Head(wire'[s]) = Head(wire[s])
  /\ RdbOf(s)' = RdbOf(s)
  /\ Rest(s)' = Rest(s)

LEMMA ViewIsKept ==
  ASSUME NEW s \in Slaves, ViewKept(s)
  PROVE  /\ Start(s)' = Start(s) /\ From(s)' = From(s)
         /\ Exact(s)' <=> Exact(s)
         /\ Known(s)' <=> Known(s)
         /\ RunOf(s)' = RunOf(s) /\ OffsetOf(s)' = OffsetOf(s)
<1>1. /\ slave'[s] = slave[s] /\ RdbOf(s)' = RdbOf(s)
      /\ Announces(wire'[s]) <=> Announces(wire[s])
      /\ Announces(wire[s]) => Head(wire'[s]) = Head(wire[s])
  BY DEF ViewKept
<1>2. Replaced(s)' <=> Replaced(s)
  BY <1>1 DEF Replaced
<1>3. RunOf(s)' = RunOf(s) /\ OffsetOf(s)' = OffsetOf(s)
  BY <1>1 DEF RunOf, OffsetOf
<1>4. Start(s)' = Start(s)
  BY <1>1, <1>2 DEF Start, Held
<1>5. From(s)' = From(s)
  BY <1>1, <1>2, <1>3 DEF From
<1>6. Exact(s)' <=> Exact(s)
  BY <1>1, <1>2, <1>3 DEF Exact
<1>7. Known(s)' <=> Known(s)
  BY <1>1, <1>2 DEF Known
<1> QED BY <1>3, <1>4, <1>5, <1>6, <1>7

LEMMA InLineIs ==
  ASSUME NEW s \in Slaves
  PROVE  InLine(s) <=>
           (Known(s) /\ RunOf(s) = runid =>
              /\ IsPrefix(Deliver(Start(s), Rest(s))[1], Now.data)
              /\ IsSlave(client[s]) => Ends(Deliver(Start(s), Rest(s)), Now)
              /\ Exact(s) => Positioned(Start(s), Rest(s), From(s), Now)
              /\ Exact(s) /\ IsSlave(client[s]) =>
                   From(s) + Len(Rest(s)) = Now.backlog.moff)
<1>1. Now.data = data /\ Now.backlog = backlog
  BY DEF Now
<1>2. s \in SlaveList <=> IsSlave(client[s])
  BY DEF SlaveList
<1> QED BY <1>1, <1>2 DEF InLine

LEMMA InLineNext ==
  ASSUME NEW s \in Slaves
  PROVE  InLine(s)' <=>
           (Known(s)' /\ RunOf(s)' = runid' =>
              /\ IsPrefix(Deliver(Start(s)', Rest(s)')[1], Now'.data)
              /\ IsSlave(client'[s]) => Ends(Deliver(Start(s)', Rest(s)'), Now')
              /\ Exact(s)' => Positioned(Start(s)', Rest(s)', From(s)', Now')
              /\ Exact(s)' /\ IsSlave(client'[s]) =>
                   From(s)' + Len(Rest(s)') = Now'.backlog.moff)
<1>1. Now'.data = data' /\ Now'.backlog = backlog'
  BY DEF Now
<1>2. (s \in SlaveList)' <=> IsSlave(client'[s])
  BY DEF SlaveList
<1> QED BY <1>1, <1>2 DEF InLine

(* If it is fed, the stream has not moved.                                  *)
LEMMA InLineKept ==
  ASSUME IInv, NEW s \in Slaves, Stage(s), Files(s), InLine(s),
         ViewKept(s), Kept(Now, Now'), runid' = runid,
         IsSlave(client'[s]) => IsSlave(client[s]) /\ backlog'.moff = backlog.moff
  PROVE  InLine(s)'
<1>1. /\ Start(s)' = Start(s) /\ From(s)' = From(s) /\ Rest(s)' = Rest(s)
      /\ Exact(s)' <=> Exact(s)
      /\ Known(s)' <=> Known(s)
      /\ RunOf(s)' = RunOf(s)
  BY ViewIsKept DEF ViewKept
<1>2. SUFFICES ASSUME Known(s), RunOf(s) = runid
               PROVE  /\ IsPrefix(Deliver(Start(s), Rest(s))[1], Now'.data)
                      /\ IsSlave(client'[s]) => Ends(Deliver(Start(s), Rest(s)), Now')
                      /\ Exact(s) => Positioned(Start(s), Rest(s), From(s), Now')
                      /\ Exact(s) /\ IsSlave(client'[s]) =>
                           From(s) + Len(Rest(s)) = Now'.backlog.moff
  BY <1>1, InLineNext
<1> DEFINE x == Start(s)
           q == Rest(s)
           o == From(s)
           m == Now
           n == Now'
<1>3. /\ IsPrefix(Deliver(x, q)[1], m.data)
      /\ IsSlave(client[s]) => Ends(Deliver(x, q), m)
      /\ Exact(s) => Positioned(x, q, o, m)
      /\ Exact(s) /\ IsSlave(client[s]) => o + Len(q) = m.backlog.moff
  BY <1>2, InLineIs
<1>4. x \in Point /\ q \in Seq(Streamed) /\ o \in Nat
  BY <1>2, ViewTyped
<1>5. m.backlog.moff = backlog.moff /\ n.backlog.moff = backlog'.moff
  BY DEF Now
<1>6. Kept(m, n) /\ n.data = m.data
  BY DEF Kept
<1> HIDE DEF x, q, o, m, n
<1>7. /\ \A y : Ends(y, m) => Ends(y, n)
      /\ Positioned(x, q, o, m) => Positioned(x, q, o, n)
  BY <1>4, <1>6, KeptPositioned
<1>8. /\ IsPrefix(Deliver(x, q)[1], n.data)
      /\ IsSlave(client'[s]) => Ends(Deliver(x, q), n)
      /\ Exact(s) => Positioned(x, q, o, n)
      /\ Exact(s) /\ IsSlave(client'[s]) => o + Len(q) = n.backlog.moff
  BY <1>3, <1>5, <1>6, <1>7
<1> QED BY <1>8 DEF x, q, o, m, n
----------------------------------------------------------------------------
(* The steps of one connection.                                             *)
Untouched(t) ==
  /\ client'[t] = client[t] /\ slave'[t] = slave[t] /\ wire'[t] = wire[t]
  /\ RdbToCome(t)' = RdbToCome(t)
  /\ SentRdb(t)' <=> SentRdb(t)

LEMMA KeptSelf ==
  ASSUME IInv, UNCHANGED <<data, slaveseldb, backlog>>
  PROVE  Kept(Now, Now') /\ Now' = Now
<1>1. MasterTypedAt(Now)
  BY NowTyped
<1>2. Now' = Now
  BY DEF Now
<1> DEFINE m == Now
<1> HIDE DEF m
<1>3. MasterTypedAt(m) => Kept(m, m)
  BY DEF Kept, MasterTypedAt
<1> QED BY <1>1, <1>2, <1>3 DEF m

LEMMA SlaveKept ==
  ASSUME IInv, NEW t \in Slaves, SlaveInOrder(t), Untouched(t), Kept(Now, Now'),
         runid' = runid,
         IsSlave(client[t]) => /\ backlog'.moff = backlog.moff
                               /\ backlog'.stream = backlog.stream
  PROVE  SlaveInOrder(t)'
<1>1. /\ client'[t] = client[t] /\ slave'[t] = slave[t] /\ wire'[t] = wire[t]
      /\ RdbToCome(t)' = RdbToCome(t)
      /\ SentRdb(t)' <=> SentRdb(t)
  BY DEF Untouched
<1>2. /\ Stage(t) /\ Files(t) /\ Runs(t) /\ CachedPast(t) /\ Waits(t) /\ InLine(t)
  BY DEF SlaveInOrder
<1>3. data' = data /\ slaveseldb' \in {slaveseldb, -1}
  BY DEF Kept, Now
<1>4. ViewKept(t)
  BY <1>1 DEF ViewKept, RdbOf, Rest
<1>5. RunOf(t)' = RunOf(t) /\ OffsetOf(t)' = OffsetOf(t)
  BY <1>4, ViewIsKept
<1>6. Stage(t)'
  <2>1. Streams(t)' <=> Streams(t)
    BY <1>1 DEF Streams
  <2>2. Transfers(t)' <=> Transfers(t)
    BY <1>1 DEF Transfers
  <2> QED BY <1>1, <1>2, <2>1, <2>2 DEF Stage
<1>7. Files(t)'
  BY <1>1, <1>2 DEF Files
<1>8. Runs(t)'
  BY <1>1, <1>2, <1>5 DEF Runs, SlaveList
<1>9. CachedPast(t)'
  BY <1>1, <1>2, <1>3 DEF CachedPast
<1>10. Waits(t)'
  <2>1. SUFFICES ASSUME client[t].replstate = "START" PROVE Waits(t)'
    BY <1>1 DEF Waits
  <2>2. backlog'.moff = backlog.moff /\ backlog'.stream = backlog.stream
    BY <2>1 DEF IsSlave, SlaveStates
  <2> QED BY <1>1, <1>2, <1>3, <1>5, <2>1, <2>2 DEF Waits
<1>11. InLine(t)'
  BY <1>1, <1>2, <1>4, InLineKept
<1> QED BY <1>6, <1>7, <1>8, <1>9, <1>10, <1>11 DEF SlaveInOrder

LEMMA ToComeSame ==
  ASSUME NEW t \in Slaves, client'[t] = client[t], child'.type = child.type,
         child'.content = child.content, backlog'.moff = backlog.moff,
         t \in child'.fds <=> t \in child.fds,
         t \in child'.sent <=> t \in child.sent
  PROVE  RdbToCome(t)' = RdbToCome(t) /\ (SentRdb(t)' <=> SentRdb(t))
<1>1. Served(t)' <=> Served(t)
  BY DEF Served
<1>2. \A end : RdbFor(client[t], end)' = RdbFor(client[t], end)
  BY DEF RdbFor
<1>3. RdbToCome(t)' = RdbToCome(t)
  BY <1>1 DEF RdbToCome, RdbFor
<1> QED BY <1>3 DEF SentRdb

LEMMA LocalStep ==
  ASSUME IInv, AllInOrder, NEW s \in Slaves,
         UNCHANGED <<masterVars, backlog, slaveseldb>>,
         \A t \in Slaves \ {s} : Untouched(t),
         Children', SlaveInOrder(s)'
  PROVE  AllInOrder'
<1>1. Kept(Now, Now') /\ runid' = runid /\ backlog' = backlog
  BY KeptSelf DEF masterVars
<1>2. ASSUME NEW t \in Slaves
      PROVE  SlaveInOrder(t)'
  <2>1. CASE t = s
    BY <2>1
  <2>2. CASE t # s
    <3>1. SlaveInOrder(t) /\ Untouched(t)
      BY <2>2 DEF AllInOrder
    <3> QED BY <1>1, <3>1, SlaveKept
  <2> QED BY <2>1, <2>2
<1> QED BY <1>2 DEF AllInOrder

(* The others, when only the connection of s changes.                       *)
LEMMA OthersUntouched ==
  ASSUME IInv, NEW s \in Slaves, backlog' = backlog,
         \A t \in Slaves \ {s} : /\ client'[t] = client[t] /\ slave'[t] = slave[t]
                                 /\ wire'[t] = wire[t]
                                 /\ t \in child'.fds <=> t \in child.fds
                                 /\ t \in child'.sent <=> t \in child.sent,
         child'.type = child.type, child'.content = child.content
  PROVE  \A t \in Slaves \ {s} : Untouched(t)
BY ToComeSame DEF Untouched

LEMMA ChildrenLess ==
  ASSUME Children, child'.type = child.type, child'.fds \subseteq child.fds,
         \A e \in Events : budget'[e] <= budget[e],
         \A e \in Events : budget[e] \in Nat /\ budget'[e] \in Nat /\ Budget[e] \in Nat,
         \A t \in Slaves : client'[t].replstate = "END" => client[t].replstate = "END"
  PROVE  Children'
<1>1. EndHasChild => EndHasChild'
  BY DEF EndHasChild, In
<1>2. "forkfail" \in Events /\ "bgsave" \in Events
  BY DEF Events
<1>3. Happened("forkfail") => Happened("forkfail")'
  BY <1>2 DEF Happened
<1>4. Happened("bgsave") => Happened("bgsave")'
  BY <1>2 DEF Happened
<1>5. \A e \in Events : budget'[e] <= Budget[e]
  BY DEF Children
<1> QED BY <1>1, <1>3, <1>4, <1>5 DEF Children

LEMMA ChildrenKept ==
  ASSUME IInv, Children, child' = child, budget' = budget,
         \A t \in Slaves : client'[t].replstate = "END" => client[t].replstate = "END"
  PROVE  Children'
<1>1. \A e \in Events : budget[e] \in Nat /\ budget'[e] \in Nat /\ Budget[e] \in Nat
  BY ConstantsTyped DEF IInv, TypeOK, MasterTyped
<1>2. \A e \in Events : budget'[e] <= budget[e]
  BY <1>1
<1> QED BY <1>1, <1>2, ChildrenLess

LEMMA MoveHead ==
  ASSUME NEW S, NEW p \in Seq(S), NEW q \in Seq(S), q # <<>>
  PROVE  Append(p, Head(q)) \o Tail(q) = p \o q
<1> DEFINE h == Head(q)
           t == Tail(q)
           a == Append(p, h)
           u == a \o t
           v == p \o q
<1>1. /\ h \in S /\ t \in Seq(S) /\ Len(t) = Len(q) - 1
      /\ \A i \in 1 .. Len(t) : t[i] = q[i + 1]
  BY HeadTailProperties
<1>2. h = q[1] /\ Len(q) \in Nat /\ Len(q) # 0 /\ Len(p) \in Nat
  BY EmptySeq
<1> HIDE DEF h, t
<1>3. /\ a \in Seq(S) /\ Len(a) = Len(p) + 1
      /\ \A i \in 1 .. Len(p) : a[i] = p[i]
      /\ a[Len(p) + 1] = h
  BY <1>1, AppendProperties
<1> HIDE DEF a
<1>4. /\ u \in Seq(S) /\ Len(u) = Len(a) + Len(t)
      /\ \A k \in 1 .. Len(a) : u[k] = a[k]
      /\ \A k \in 1 .. Len(t) : u[Len(a) + k] = t[k]
  <2>1. a \in Seq(S) /\ t \in Seq(S)
    BY <1>1, <1>3
  <2> QED BY <2>1, ConcatFacts
<1>5. /\ v \in Seq(S) /\ Len(v) = Len(p) + Len(q)
      /\ \A k \in 1 .. Len(p) : v[k] = p[k]
      /\ \A k \in 1 .. Len(q) : v[Len(p) + k] = q[k]
  BY ConcatFacts
<1> HIDE DEF u, v
<1>6. Len(u) = Len(v)
  BY <1>1, <1>2, <1>3, <1>4, <1>5
<1>7. ASSUME NEW k \in 1 .. Len(u)
      PROVE  u[k] = v[k]
  <2>0. k \in Nat /\ 1 <= k /\ k <= Len(p) + Len(q)
    BY <1>2, <1>5, <1>6
  <2>1. CASE k <= Len(p)
    <3>1. k \in 1 .. Len(p) /\ k \in 1 .. Len(a)
      BY <1>2, <1>3, <2>0, <2>1
    <3> QED BY <1>3, <1>4, <1>5, <3>1
  <2>2. CASE k = Len(p) + 1
    <3>1. k \in 1 .. Len(a) /\ 1 \in 1 .. Len(q)
      BY <1>2, <1>3, <2>0, <2>2
    <3> QED BY <1>2, <1>3, <1>4, <1>5, <2>2, <3>1
  <2>3. CASE k > Len(p) + 1
    <3> DEFINE i == k - Len(p) - 1
    <3>1. i \in 1 .. Len(t) /\ i + 1 \in 1 .. Len(q) /\ k = Len(a) + i /\ k = Len(p) + (i + 1)
      BY <1>1, <1>2, <1>3, <2>0, <2>3
    <3> HIDE DEF i
    <3>2. u[k] = t[i] /\ v[k] = q[i + 1]
      BY <1>4, <1>5, <3>1
    <3> QED BY <1>1, <3>1, <3>2
  <2> QED BY <1>2, <2>0, <2>1, <2>2, <2>3
<1>8. u = v
  BY <1>4, <1>5, <1>6, <1>7, SameSeq
<1> QED BY <1>8 DEF u, v, a, h, t

LEMMA StreamsFacts ==
  ASSUME NEW s \in Slaves, Streams(s)
  PROVE  /\ ~HasRdb(wire[s]) /\ ~Replied(Body(wire[s]))
         /\ Commands(wire[s]) = Body(wire[s]) /\ Commands(wire[s]) \in Seq(Entry)
<1> DEFINE b == Body(wire[s])
<1>1. b \in Seq(Entry)
  BY DEF Streams
<1>2. b # <<>> => Head(b).op \in {"SELECT", "CMD", "PING"}
  BY <1>1, HeadTailProperties, MessageKinds
<1> QED BY <1>1, <1>2 DEF HasRdb, Replied, NextIs, Commands

(* sendReplyToClient()                                                      *)
LEMMA SendReplyInOrder ==
  ASSUME IInv, AllInOrder, NEW s \in Slaves, SendReply(s)
  PROVE  AllInOrder'
<1> DEFINE c == client[s]
           e == Head(c.obuf)
           w == wire[s]
           v == Append(w, e)
<1>1. /\ Stage(s) /\ Files(s) /\ Runs(s) /\ CachedPast(s) /\ Waits(s) /\ InLine(s)
  BY DEF AllInOrder, SlaveInOrder
<1>2. /\ c \in ClientType /\ c.obuf \in Seq(Entry) /\ w \in Seq(Message)
  BY SlaveTyped
<1>3. c.replstate = "ONLINE" /\ c.obuf # <<>>
  BY DEF SendReply, IInv, ClientsConsistent, ClientInOrder
<1>4. e \in Entry /\ Tail(c.obuf) \in Seq(Entry)
  BY <1>2, <1>3, HeadTailProperties
<1>5. /\ client'[s].replstate = "ONLINE" /\ client'[s].obuf = Tail(c.obuf)
      /\ client'[s].file = c.file /\ wire'[s] = v
      /\ \A t \in Slaves \ {s} : client'[t] = client[t] /\ wire'[t] = wire[t]
      /\ slave' = slave /\ child' = child /\ budget' = budget
      /\ UNCHANGED <<masterVars, backlog, slaveseldb>>
  <2>1. client \in [Slaves -> ClientType] /\ wire \in [Slaves -> Seq(Message)]
    BY DEF IInv, TypeOK
  <2> QED BY <1>2, <1>3, <2>1 DEF SendReply, Sent, ClientType
<1> HIDE DEF e
<1>6. /\ Announces(v) <=> Announces(w)
      /\ Replied(v) <=> Replied(w)
      /\ NextIs(v, {"CONTINUE"}) <=> NextIs(w, {"CONTINUE"})
      /\ Announces(w) => Head(v) = Head(w)
      /\ Body(v) = Append(Body(w), e)
      /\ HasRdb(v) <=> HasRdb(w)
      /\ HasRdb(w) => Head(Body(v)) = Head(Body(w))
      /\ Commands(v) = Append(Commands(w), e)
  BY <1>2, <1>4, WireAppend, WireCommand
<1> HIDE DEF v
<1>7. Commands(w) \in Seq(Entry)
  BY <1>1, <1>3, StreamsFacts DEF Stage, Transfers, SentRdb
<1>8. RdbToCome(s) = <<>> /\ RdbToCome(s)' = <<>>
  BY <1>1, <1>3, <1>5 DEF RdbToCome, Files
<1>9. ViewKept(s)
  <2>1. RdbOf(s)' = RdbOf(s)
    BY <1>5, <1>6, <1>8 DEF RdbOf
  <2>2. Rest(s)' = Rest(s)
    <3>1. Append(Commands(w), e) \o Tail(c.obuf) = Commands(w) \o c.obuf
      <4> DEFINE p == Commands(w)
      <4> HIDE DEF p
      <4>1. p \in Seq(Entry)
        BY <1>7 DEF p
      <4>2. Append(p, Head(c.obuf)) \o Tail(c.obuf) = p \o c.obuf
        BY <1>2, <1>3, <4>1, MoveHead
      <4> QED BY <4>2 DEF p, e
    <3> QED BY <1>5, <1>6, <3>1 DEF Rest
  <2> QED BY <1>5, <1>6, <2>1, <2>2 DEF ViewKept
<1>10. InLine(s)'
  <2>1. Kept(Now, Now')
    BY <1>5, KeptSelf DEF masterVars
  <2>2. IsSlave(client[s])
    BY <1>3 DEF IsSlave, SlaveStates
  <2> QED BY <1>1, <1>5, <1>9, <2>1, <2>2, InLineKept DEF masterVars
<1>11. Stage(s)'
  <2>1. ~SentRdb(s) /\ ~SentRdb(s)'
    BY <1>3, <1>5 DEF SentRdb
  <2>2. Append(Commands(w), e) \in Seq(Entry)
    BY <1>4, <1>7, AppendProperties
  <2>3. Streams(s) => Streams(s)'
    BY <1>4, <1>5, <1>6, <2>2, StreamsFacts DEF Streams
  <2>4. Transfers(s) => Transfers(s)'
    BY <1>3, <1>5, <1>6, <2>1, <2>2 DEF Transfers
  <2>5. w # <<>> \/ slave[s].state # "RECEIVE_PONG"
    BY <1>1, <1>3 DEF Stage, NextIs, Announces
  <2> QED BY <1>1, <1>3, <1>5, <1>6, <2>1, <2>3, <2>4, <2>5 DEF Stage
<1>12. RunOf(s)' = RunOf(s) /\ OffsetOf(s)' = OffsetOf(s)
  BY <1>9, ViewIsKept
<1>13. Files(s)' /\ Runs(s)' /\ CachedPast(s)' /\ Waits(s)'
  <2>1. (s \in SlaveList)' => s \in SlaveList
    BY <1>3 DEF SlaveList, IsSlave, SlaveStates
  <2> QED BY <1>1, <1>3, <1>5, <1>12, <2>1 DEF Files, Runs, CachedPast, Waits, masterVars
<1>14. Children'
  <2>1. \A t \in Slaves : client'[t].replstate = "END" => client[t].replstate = "END"
    BY <1>5
  <2> QED BY <1>5, <2>1, ChildrenKept DEF AllInOrder
<1>15. \A t \in Slaves \ {s} : Untouched(t)
  BY <1>5, OthersUntouched
<1> QED BY <1>5, <1>10, <1>11, <1>13, <1>14, <1>15, LocalStep DEF SlaveInOrder

(* A step of one connection that only moves messages along.                 *)
LEMMA ViewStep ==
  ASSUME IInv, AllInOrder, NEW s \in Slaves,
         UNCHANGED <<masterVars, backlog, slaveseldb>>,
         \A t \in Slaves \ {s} : Untouched(t),
         ViewKept(s), IsSlave(client'[s]) => IsSlave(client[s]),
         Stage(s)', Files(s)', Waits(s)', Children'
  PROVE  AllInOrder'
<1>1. Stage(s) /\ Files(s) /\ Runs(s) /\ CachedPast(s) /\ InLine(s)
  BY DEF AllInOrder, SlaveInOrder
<1>2. InLine(s)'
  <2>1. Kept(Now, Now')
    BY KeptSelf DEF masterVars
  <2> QED BY <1>1, <2>1, InLineKept DEF masterVars
<1>3. RunOf(s)' = RunOf(s)
  BY ViewIsKept
<1>4. slave'[s] = slave[s] /\ runid' = runid /\ data' = data
  BY DEF ViewKept, masterVars
<1>5. Runs(s)'
  BY <1>1, <1>3, <1>4 DEF Runs, SlaveList
<1>6. CachedPast(s)'
  BY <1>1, <1>4 DEF CachedPast
<1> QED BY <1>2, <1>5, <1>6, LocalStep DEF SlaveInOrder

LEMMA OneFile ==
  ASSUME NEW S, NEW q \in Seq(S), Len(q) = 1, NEW w \in Seq(S)
  PROVE  q[1] \in S /\ q = <<q[1]>> /\ w \o q = Append(w, q[1])
<1>1. q[1] \in S
  OBVIOUS
<1>2. q = <<q[1]>>
  OBVIOUS
<1>3. w \o <<q[1]>> = Append(w, q[1])
  BY <1>1
<1> QED BY <1>1, <1>2, <1>3

(* sendBulkToSlave()                                                        *)
LEMMA SendBulkInOrder ==
  ASSUME IInv, AllInOrder, NEW s \in Slaves, SendBulk(s)
  PROVE  AllInOrder'
<1> DEFINE c == client[s]
           w == wire[s]
           r == c.file[1]
           v == Append(w, r)
<1>1. Stage(s) /\ Files(s) /\ c.replstate = "SEND_BULK"
  BY DEF AllInOrder, SlaveInOrder, SendBulk
<1>2. c \in ClientType /\ c.obuf \in Seq(Entry) /\ w \in Seq(Message)
      /\ c.file \in Seq(RdbFile)
  BY SlaveTyped
<1>3. r \in RdbFile /\ c.file = <<r>> /\ w \o c.file = v
  <2>1. Len(c.file) = 1 /\ c.file \in Seq(Message)
    BY <1>1, <1>2, MessageKinds DEF Files
  <2>2. w \o c.file = Append(w, c.file[1]) /\ c.file = <<c.file[1]>>
    BY <1>2, <2>1, OneFile
  <2>3. c.file[1] \in RdbFile
    BY <1>2, <2>1, OneFile
  <2> QED BY <2>2, <2>3
<1>4. /\ client'[s].replstate = "ONLINE" /\ client'[s].obuf = c.obuf
      /\ client'[s].file = <<>> /\ wire'[s] = v
      /\ \A t \in Slaves \ {s} : client'[t] = client[t] /\ wire'[t] = wire[t]
      /\ slave' = slave /\ child' = child /\ budget' = budget
      /\ UNCHANGED <<masterVars, backlog, slaveseldb>>
  <2>1. client \in [Slaves -> ClientType] /\ wire \in [Slaves -> Seq(Message)]
    BY DEF IInv, TypeOK
  <2> QED BY <1>2, <1>3, <2>1 DEF SendBulk, PutOnline, ClientType
<1> HIDE DEF r
<1>5. /\ Body(w) = <<>> /\ ~SentRdb(s) /\ ~HasRdb(w) /\ Commands(w) = <<>>
      /\ slave[s].state = "TRANSFER" \/ Announces(w)
  <2>1. RdbToCome(s) = c.file
    BY <1>1 DEF RdbToCome
  <2>2. RdbToCome(s) # <<>>
    BY <1>3, <2>1
  <2> QED BY <1>1, <2>2, ToComeFacts DEF SentRdb
<1>6. /\ Announces(v) <=> Announces(w)
      /\ Replied(v) <=> Replied(w)
      /\ NextIs(v, {"CONTINUE"}) <=> NextIs(w, {"CONTINUE"})
      /\ Announces(w) => Head(v) = Head(w)
      /\ HasRdb(v) /\ Head(Body(v)) = r /\ Commands(v) = <<>>
  <2>1. HasRdb(v) /\ Head(Body(v)) = r /\ Commands(v) = <<>>
    BY <1>2, <1>3, <1>5, WireRdb
  <2>2. r \in Entry \cup RdbFile
    BY <1>3
  <2> QED BY <1>2, <2>1, <2>2, WireAppend
<1> HIDE DEF v
<1>7. ViewKept(s)
  <2>1. RdbToCome(s) = <<r>>
    BY <1>1, <1>3 DEF RdbToCome
  <2>2. RdbOf(s)' = RdbOf(s)
    BY <1>4, <1>5, <1>6, <2>1 DEF RdbOf
  <2>3. Rest(s)' = Rest(s)
    BY <1>4, <1>5, <1>6 DEF Rest
  <2> QED BY <1>4, <1>6, <2>2, <2>3 DEF ViewKept
<1>8. Stage(s)'
  <2>1. Transfers(s)'
    <3>1. Commands(v) \in Seq(Entry)
      BY <1>6
    <3> QED BY <1>4, <1>6, <3>1 DEF Transfers
  <2>2. w # <<>> \/ slave[s].state # "RECEIVE_PONG"
    BY <1>5 DEF NextIs, Announces
  <2>3. slave[s].state = "TRANSFER" => ~Replied(w) /\ ~slave[s].cached
    BY <1>1 DEF Stage
  <2>4. slave[s].state \in {"TRANSFER", "RECEIVE_PONG"}
    BY <1>1, <1>5, WireEmpty DEF Stage, Announces, Replied, NextIs
  <2>5. slave[s].state = "RECEIVE_PONG" => Announces(w)
    BY <1>5
  <2>6. slave'[s].state = slave[s].state /\ slave'[s].cached = slave[s].cached
        /\ wire'[s] = v
    BY <1>4
  <2>7. CASE slave[s].state = "TRANSFER"
    BY <1>6, <2>1, <2>3, <2>6, <2>7 DEF Stage
  <2>8. CASE slave[s].state = "RECEIVE_PONG"
    BY <1>6, <2>1, <2>5, <2>6, <2>8 DEF Stage
  <2> QED BY <2>4, <2>7, <2>8
<1>9. Files(s)' /\ Waits(s)'
  BY <1>4 DEF Files, Waits
<1>10. Children'
  <2>1. \A t \in Slaves : client'[t].replstate = "END" => client[t].replstate = "END"
    BY <1>4
  <2> QED BY <1>4, <2>1, ChildrenKept DEF AllInOrder
<1>11. \A t \in Slaves \ {s} : Untouched(t)
  BY <1>4, OthersUntouched
<1>12. IsSlave(client[s])
  BY <1>1 DEF IsSlave, SlaveStates
<1> QED BY <1>4, <1>7, <1>8, <1>9, <1>10, <1>11, <1>12, ViewStep

(* REPLCONF ACK                                                             *)
LEMMA ReplconfAckInOrder ==
  ASSUME IInv, AllInOrder, NEW s \in Slaves, ReplconfAck(s)
  PROVE  AllInOrder'
<1> DEFINE c == client[s]
<1>1. Stage(s) /\ Files(s) /\ Waits(s)
  BY DEF AllInOrder, SlaveInOrder
<1>2. /\ client'[s].replstate = c.replstate /\ client'[s].obuf = c.obuf
      /\ client'[s].file = c.file
      /\ \A t \in Slaves \ {s} : client'[t] = client[t]
      /\ slave' = slave /\ child' = child /\ budget' = budget /\ wire' = wire
      /\ client'[s].psync = c.psync
      /\ UNCHANGED <<masterVars, backlog, slaveseldb>>
  <2>1. client \in [Slaves -> ClientType] /\ c \in ClientType
    BY DEF IInv, TypeOK
  <2>2. CASE c.replstate = "ONLINE" /\ c.onack
    BY <2>1, <2>2 DEF ReplconfAck, PutOnline, ClientType
  <2>3. CASE ~(c.replstate = "ONLINE" /\ c.onack)
    BY <2>1, <2>3 DEF ReplconfAck
  <2> QED BY <2>2, <2>3
<1>3. RdbToCome(s)' = RdbToCome(s) /\ (SentRdb(s)' <=> SentRdb(s))
      /\ (IsSlave(client'[s]) <=> IsSlave(c))
  <2>1. Served(s)' <=> Served(s)
    BY <1>2 DEF Served
  <2>2. \A end : RdbFor(client[s], end)' = RdbFor(client[s], end)
    BY <1>2 DEF RdbFor
  <2>3. RdbToCome(s)' = RdbToCome(s)
    BY <1>2, <2>1, <2>2 DEF RdbToCome, RdbFor
  <2> QED BY <1>2, <2>3 DEF SentRdb, IsSlave
<1>4. ViewKept(s)
  BY <1>2, <1>3 DEF ViewKept, RdbOf, Rest
<1>5. Stage(s)'
  <2>1. (Streams(s)' <=> Streams(s)) /\ (Transfers(s)' <=> Transfers(s))
    BY <1>2, <1>3 DEF Streams, Transfers
  <2> QED BY <1>1, <1>2, <1>3, <2>1 DEF Stage
<1>6. Files(s)'
  BY <1>1, <1>2 DEF Files
<1>7. Waits(s)'
  <2>1. OffsetOf(s)' = OffsetOf(s)
    BY <1>4, ViewIsKept
  <2> QED BY <1>1, <1>2, <2>1 DEF Waits
<1>8. Children'
  <2>1. \A t \in Slaves : client'[t].replstate = "END" => client[t].replstate = "END"
    BY <1>2
  <2> QED BY <1>2, <2>1, ChildrenKept DEF AllInOrder
<1>9. \A t \in Slaves \ {s} : Untouched(t)
  BY <1>2, OthersUntouched
<1> QED BY <1>2, <1>3, <1>4, <1>5, <1>6, <1>7, <1>8, <1>9, ViewStep

(* A step of one slave, which the master does not see.                      *)
LEMMA SlaveLocalStep ==
  ASSUME IInv, AllInOrder, NEW s \in Slaves, UNCHANGED <<masterSide, client, budget>>,
         \A t \in Slaves \ {s} : slave'[t] = slave[t] /\ wire'[t] = wire[t],
         Stage(s)', Runs(s)', CachedPast(s)', Waits(s)', InLine(s)'
  PROVE  AllInOrder'
<1>1. /\ client' = client /\ child' = child /\ budget' = budget
      /\ backlog' = backlog /\ slaveseldb' = slaveseldb
      /\ UNCHANGED <<masterVars, backlog, slaveseldb>>
  BY DEF masterSide
<1>2. Files(s)'
  BY <1>1 DEF AllInOrder, SlaveInOrder, Files
<1>3. Children'
  BY <1>1, ChildrenKept DEF AllInOrder
<1>4. \A t \in Slaves \ {s} : Untouched(t)
  BY <1>1, OthersUntouched
<1> QED BY <1>1, <1>2, <1>3, <1>4, LocalStep DEF SlaveInOrder

(* The view of s is the same, though s is not.                              *)
LEMMA InLineSame ==
  ASSUME IInv, NEW s \in Slaves, Stage(s), Files(s), InLine(s),
         Known(s)' => /\ Known(s) /\ Start(s)' = Start(s) /\ Rest(s)' = Rest(s)
                      /\ From(s)' = From(s) /\ (Exact(s)' => Exact(s)),
         RunOf(s)' = RunOf(s), runid' = runid, Now' = Now,
         IsSlave(client'[s]) => IsSlave(client[s])
  PROVE  InLine(s)'
<1>1. CASE ~Known(s)'
  BY <1>1 DEF InLine
<1>2. CASE Known(s)' /\ RunOf(s) # runid
  BY <1>2 DEF InLine
<1>3. CASE Known(s)' /\ RunOf(s) = runid
  <2>1. /\ IsPrefix(Deliver(Start(s), Rest(s))[1], Now.data)
        /\ IsSlave(client[s]) => Ends(Deliver(Start(s), Rest(s)), Now)
        /\ Exact(s) => Positioned(Start(s), Rest(s), From(s), Now)
        /\ Exact(s) /\ IsSlave(client[s]) =>
              From(s) + Len(Rest(s)) = Now.backlog.moff
    BY <1>3, InLineIs
  <2> QED BY <1>3, <2>1, InLineNext
<1> QED BY <1>1, <1>2, <1>3

(* syncWithMaster()                                                         *)
LEMMA SyncWithMasterInOrder ==
  ASSUME IInv, AllInOrder, NEW s \in Slaves, SyncWithMaster(s)
  PROVE  AllInOrder'
<1>1. Stage(s) /\ Files(s) /\ Runs(s) /\ CachedPast(s) /\ InLine(s)
  BY DEF AllInOrder, SlaveInOrder
<1>2. slave[s].state = "CONNECT" /\ client[s].replstate = "CLOSED"
  BY DEF SyncWithMaster
<1>3. /\ wire[s] = <<>> /\ client[s].obuf = <<>> /\ client[s].file = <<>>
  BY <1>1, <1>2 DEF Stage, Files
<1>4. /\ client'[s].replstate = "NONE" /\ client'[s].obuf = <<>>
      /\ client'[s].file = <<>> /\ client'[s].psync
      /\ slave'[s].state = "RECEIVE_PONG" /\ slave'[s].data = slave[s].data
      /\ slave'[s].db = slave[s].db /\ slave'[s].cached = slave[s].cached
      /\ slave'[s].trust = slave[s].trust /\ slave'[s].runid = slave[s].runid
      /\ slave'[s].reploff = slave[s].reploff
      /\ \A t \in Slaves \ {s} : client'[t] = client[t] /\ slave'[t] = slave[t]
      /\ wire' = wire /\ child' = child /\ budget' = budget
      /\ UNCHANGED <<masterVars, backlog, slaveseldb>>
  <2>1. /\ client \in [Slaves -> ClientType] /\ slave \in [Slaves -> SlaveType]
        /\ slave[s] \in SlaveType
    BY DEF IInv, TypeOK
  <2> QED BY <2>1 DEF SyncWithMaster, Accepted, Closed, SlaveType, masterSide
<1>5. /\ ~Announces(wire[s]) /\ ~HasRdb(wire[s]) /\ Commands(wire[s]) = <<>>
      /\ ~Announces(wire'[s]) /\ ~HasRdb(wire'[s]) /\ Commands(wire'[s]) = <<>>
  BY <1>3, <1>4, WireEmpty
<1>6. RdbOf(s) = <<>> /\ RdbOf(s)' = <<>>
  BY <1>2, <1>3, <1>4, <1>5 DEF RdbOf, RdbToCome
<1>7. RunOf(s)' = RunOf(s) /\ RunOf(s) = slave[s].runid
  BY <1>4, <1>5 DEF RunOf
<1>8. ~IsSlave(client'[s])
  BY <1>4 DEF IsSlave, SlaveStates
<1>9. InLine(s)'
  <2>1. Known(s)' => /\ Known(s) /\ Start(s)' = Start(s) /\ Rest(s)' = Rest(s)
                     /\ From(s)' = From(s) /\ (Exact(s)' => Exact(s))
    <3>1. Rest(s)' = Rest(s)
      BY <1>3, <1>4, <1>5 DEF Rest
    <3>2. Known(s)' => Known(s)
      BY <1>4, <1>5, <1>6 DEF Known, Replaced
    <3>3. Start(s)' = Start(s) /\ From(s)' = From(s) /\ (Exact(s)' => Exact(s))
      BY <1>4, <1>6 DEF Start, From, Exact, Replaced, Held
    <3> QED BY <3>1, <3>2, <3>3
  <2>2. Now' = Now
    BY <1>4, KeptSelf DEF masterVars
  <2> QED BY <1>1, <1>4, <1>7, <1>8, <2>1, <2>2, InLineSame DEF masterVars
<1>10. Stage(s)' /\ Files(s)' /\ Waits(s)'
  BY <1>3, <1>4 DEF Stage, Files, Waits
<1>11. Runs(s)'
  BY <1>1, <1>4, <1>7, <1>8 DEF Runs, SlaveList, masterVars
<1>12. CachedPast(s)'
  BY <1>1, <1>4 DEF CachedPast, masterVars
<1>13. Children'
  <2>1. \A t \in Slaves : client'[t].replstate = "END" => client[t].replstate = "END"
    BY <1>4
  <2> QED BY <1>4, <2>1, ChildrenKept DEF AllInOrder
<1>14. \A t \in Slaves \ {s} : Untouched(t)
  BY <1>4, OthersUntouched
<1> QED BY <1>4, <1>9, <1>10, <1>11, <1>12, <1>13, <1>14, LocalStep DEF SlaveInOrder

(* sendBulkToSlave()'s counterpart of a diskless child.                     *)
LEMMA ChildWriteInOrder ==
  ASSUME IInv, AllInOrder, NEW s \in Slaves, ChildWrite(s)
  PROVE  AllInOrder'
<1> DEFINE c == client[s]
           w == wire[s]
           r == RdbFor(c, "eofmark")
           v == Append(w, r)
<1>1. Stage(s) /\ Files(s) /\ c.replstate = "END"
  BY DEF AllInOrder, SlaveInOrder, ChildWrite, IInv, ClientsConsistent
<1>2. c \in ClientType /\ w \in Seq(Message) /\ r \in RdbFile
  <2>1. c \in ClientType /\ w \in Seq(Message)
    BY SlaveTyped
  <2> QED BY <2>1, RdbForTyped
<1>3. RdbToCome(s) = <<r>>
  BY <1>1 DEF RdbToCome, Served, ChildWrite
<1>4. /\ wire'[s] = v /\ child'.type = child.type /\ child'.fds = child.fds
      /\ child'.content = child.content /\ s \in child'.sent
      /\ \A t \in Slaves \ {s} : wire'[t] = wire[t] /\ (t \in child'.sent <=> t \in child.sent)
      /\ slave' = slave /\ client' = client /\ budget' = budget
      /\ UNCHANGED <<masterVars, backlog, slaveseldb>>
  <2>1. wire \in [Slaves -> Seq(Message)] /\ child \in ChildType
    BY DEF IInv, TypeOK
  <2> QED BY <2>1 DEF ChildWrite, ChildType
<1> HIDE DEF r
<1>5. /\ Body(w) = <<>> /\ ~HasRdb(w) /\ Commands(w) = <<>>
      /\ slave[s].state = "TRANSFER" \/ Announces(w)
  <2>1. RdbToCome(s) # <<>>
    BY <1>3
  <2> QED BY <1>1, <2>1, ToComeFacts
<1>6. /\ Announces(v) <=> Announces(w)
      /\ Replied(v) <=> Replied(w)
      /\ NextIs(v, {"CONTINUE"}) <=> NextIs(w, {"CONTINUE"})
      /\ Announces(w) => Head(v) = Head(w)
      /\ HasRdb(v) /\ Head(Body(v)) = r /\ Commands(v) = <<>>
  <2>1. HasRdb(v) /\ Head(Body(v)) = r /\ Commands(v) = <<>>
    BY <1>2, <1>5, WireRdb
  <2>2. r \in Entry \cup RdbFile
    BY <1>2
  <2> QED BY <1>2, <2>1, <2>2, WireAppend
<1> HIDE DEF v
<1>7. ViewKept(s)
  <2>1. RdbOf(s)' = RdbOf(s)
    BY <1>3, <1>4, <1>5, <1>6 DEF RdbOf
  <2>2. Rest(s)' = Rest(s)
    BY <1>4, <1>5, <1>6 DEF Rest
  <2> QED BY <1>4, <1>6, <2>1, <2>2 DEF ViewKept
<1>8. Stage(s)'
  <2>1. Transfers(s)'
    <3>1. SentRdb(s)'
      BY <1>1, <1>4 DEF SentRdb
    <3>2. Commands(v) \in Seq(Entry)
      BY <1>6
    <3> QED BY <1>4, <1>6, <3>1, <3>2 DEF Transfers
  <2>2. slave[s].state = "TRANSFER" => ~Replied(w) /\ ~slave[s].cached
    BY <1>1 DEF Stage
  <2>3. slave[s].state \in {"TRANSFER", "RECEIVE_PONG"}
    BY <1>1, <1>5, WireEmpty DEF Stage, Announces, Replied, NextIs
  <2>4. slave'[s].state = slave[s].state /\ slave'[s].cached = slave[s].cached
        /\ wire'[s] = v
    BY <1>4
  <2>5. CASE slave[s].state = "TRANSFER"
    BY <1>6, <2>1, <2>2, <2>4, <2>5 DEF Stage
  <2>6. CASE slave[s].state = "RECEIVE_PONG"
    BY <1>5, <1>6, <2>1, <2>4, <2>6 DEF Stage
  <2> QED BY <2>3, <2>5, <2>6
<1>9. Files(s)' /\ Waits(s)'
  BY <1>1, <1>4 DEF Files, Waits
<1>10. Children'
  <2>1. \A e \in Events : budget[e] \in Nat /\ budget'[e] \in Nat /\ Budget[e] \in Nat
    BY <1>4, ConstantsTyped DEF IInv, TypeOK, MasterTyped
  <2>2. \A e \in Events : budget'[e] <= budget[e]
    BY <1>4, <2>1
  <2> QED BY <1>4, <2>1, <2>2, ChildrenLess DEF AllInOrder
<1>11. \A t \in Slaves \ {s} : Untouched(t)
  BY <1>4, OthersUntouched
<1> QED BY <1>4, <1>7, <1>8, <1>9, <1>10, <1>11, ViewStep

(* What a slave in TRANSFER or RECEIVE_PONG that takes the head of its wire *)
(* leaves.                                                                  *)
LEMMA TransfersFacts ==
  ASSUME NEW s \in Slaves, Transfers(s) \/ Streams(s)
  PROVE  /\ ~Replied(Body(wire[s])) /\ Commands(wire[s]) \in Seq(Entry)
         /\ Body(wire[s]) # <<>> => HasRdb(wire[s]) \/ Streams(s)
         /\ HasRdb(wire[s]) => ~Streams(s) /\ Transfers(s)
<1>1. CASE Streams(s)
  BY <1>1, StreamsFacts
<1>2. CASE ~Streams(s) /\ Body(wire[s]) = <<>>
  BY <1>2 DEF HasRdb, Replied, NextIs, Commands
<1>3. CASE ~Streams(s) /\ HasRdb(wire[s]) /\ Commands(wire[s]) \in Seq(Entry)
  BY <1>3 DEF HasRdb, Replied, NextIs
<1> QED BY <1>1, <1>2, <1>3 DEF Transfers

(* slaveTryPartialResynchronization()                                       *)
LEMMA ReadPsyncReplyInOrder ==
  ASSUME IInv, AllInOrder, NEW s \in Slaves, ReadPsyncReply(s)
  PROVE  AllInOrder'
<1> DEFINE w == wire[s]
           v == Tail(w)
           r == Head(w)
<1>1. /\ Stage(s) /\ Files(s) /\ Runs(s) /\ Waits(s) /\ InLine(s)
      /\ slave[s].state = "RECEIVE_PONG" /\ w # <<>>
  BY DEF AllInOrder, SlaveInOrder, ReadPsyncReply
<1>2. /\ wire'[s] = v /\ client' = client /\ child' = child
      /\ \A t \in Slaves \ {s} : slave'[t] = slave[t] /\ wire'[t] = wire[t]
      /\ UNCHANGED <<masterSide, client, budget>>
      /\ UNCHANGED <<masterVars, backlog, slaveseldb>>
  <2>1. wire \in [Slaves -> Seq(Message)] /\ slave \in [Slaves -> SlaveType]
    BY DEF IInv, TypeOK
  <2> QED BY <2>1 DEF ReadPsyncReply, masterSide
<1>3. /\ Replied(w)
      /\ Announces(w) => r.op = "FULLRESYNC" /\ Transfers(s)
      /\ ~Announces(w) => r.op = "CONTINUE" /\ Streams(s) /\ slave[s].cached
  BY <1>1 DEF Stage, NextIs, Announces, Replied
<1>4. /\ ~Replied(v) /\ ~Announces(v) /\ ~NextIs(v, {"CONTINUE"})
      /\ Body(v) = Body(w) /\ (HasRdb(v) <=> HasRdb(w)) /\ Commands(v) = Commands(w)
  BY <1>3, TransfersFacts, WireReply
<1>5. /\ RdbOf(s)' = RdbOf(s) /\ Rest(s)' = Rest(s)
      /\ Streams(s)' <=> Streams(s)
      /\ Transfers(s)' <=> Transfers(s)
  <2>1. RdbToCome(s)' = RdbToCome(s) /\ (SentRdb(s)' <=> SentRdb(s))
    BY <1>2, ToComeSame DEF masterSide
  <2> QED BY <1>2, <1>4, <2>1 DEF RdbOf, Rest, Streams, Transfers
<1>6. Now' = Now
  BY <1>2, KeptSelf DEF masterVars
<1> HIDE DEF v, r
<1>7. CASE Announces(w)
  <2>1. /\ slave'[s].state = "TRANSFER" /\ ~slave'[s].cached
        /\ slave'[s].runid = r.runid /\ slave'[s].initial = r.offset
    <3>1. slave \in [Slaves -> SlaveType] /\ slave[s] \in SlaveType
      BY DEF IInv, TypeOK
    <3> QED BY <1>3, <1>7, <3>1 DEF ReadPsyncReply, ToTransfer, SlaveType, r
  <2>2. RunOf(s)' = RunOf(s) /\ OffsetOf(s)' = OffsetOf(s) /\ slave'[s].runid = RunOf(s)
    BY <1>2, <1>4, <1>7, <2>1 DEF RunOf, OffsetOf, r
  <2>3. Stage(s)'
    BY <1>2, <1>3, <1>4, <1>5, <1>7, <2>1 DEF Stage
  <2>4. InLine(s)'
    <3>1. Known(s)' => /\ Known(s) /\ Start(s)' = Start(s) /\ Rest(s)' = Rest(s)
                       /\ From(s)' = From(s) /\ (Exact(s)' => Exact(s))
      <4>1. SUFFICES ASSUME Known(s)'
                     PROVE  /\ Known(s) /\ Start(s)' = Start(s) /\ Rest(s)' = Rest(s)
                            /\ From(s)' = From(s) /\ (Exact(s)' => Exact(s))
        OBVIOUS
      <4>2. Replaced(s)' /\ Replaced(s)
        BY <1>5, <2>1, <4>1 DEF Known, Replaced
      <4> QED BY <1>5, <2>2, <4>2 DEF Known, Start, From, Exact
    <3> QED BY <1>1, <1>2, <1>6, <2>2, <3>1, InLineSame DEF masterVars
  <2>5. CachedPast(s)'
    BY <2>1 DEF CachedPast
  <2>6. Waits(s)'
    BY <1>1, <1>2, <2>2 DEF Waits
  <2>7. Runs(s)'
    BY <1>1, <1>2, <2>2 DEF Runs, SlaveList, masterVars
  <2> QED BY <1>2, <2>3, <2>4, <2>5, <2>6, <2>7, SlaveLocalStep
<1>8. CASE ~Announces(w)
  <2>1. /\ slave'[s].state = "CONNECTED" /\ ~slave'[s].cached
        /\ slave'[s].runid = slave[s].runid /\ slave'[s].initial = slave[s].initial
        /\ slave'[s].data = slave[s].data /\ slave'[s].db = slave[s].db
        /\ slave'[s].reploff = slave[s].reploff
        /\ slave'[s].trust \in {"exact", "resumed"}
        /\ slave'[s].trust = "exact" => slave[s].trust = "exact"
    <3>1. slave \in [Slaves -> SlaveType] /\ slave[s] \in SlaveType
      BY DEF IInv, TypeOK
    <3> QED BY <1>3, <1>8, <3>1 DEF ReadPsyncReply, Continued, SlaveType, r
  <2>2. RunOf(s)' = RunOf(s) /\ OffsetOf(s)' = OffsetOf(s)
    BY <1>2, <1>4, <1>8, <2>1 DEF RunOf, OffsetOf
  <2>3. Stage(s)'
    <3>1. ~Replied(wire'[s]) /\ Streams(s)'
      BY <1>2, <1>3, <1>4, <1>5, <1>8
    <3> QED BY <2>1, <3>1 DEF Stage
  <2>4. RdbOf(s) = <<>>
    <3>1. Streams(s) /\ ~HasRdb(w)
      BY <1>3, <1>8, StreamsFacts
    <3>2. RdbToCome(s) = <<>>
      BY <1>1, <3>1, ToComeFacts DEF Streams
    <3> QED BY <3>1, <3>2 DEF RdbOf
  <2>5. InLine(s)'
    <3>1. Known(s)' => /\ Known(s) /\ Start(s)' = Start(s) /\ Rest(s)' = Rest(s)
                       /\ From(s)' = From(s) /\ (Exact(s)' => Exact(s))
      BY <1>3, <1>5, <1>8, <2>1, <2>4 DEF Known, Replaced, Start, From, Exact, Held
    <3> QED BY <1>1, <1>2, <1>6, <2>2, <3>1, InLineSame DEF masterVars
  <2>6. CachedPast(s)'
    BY <2>1 DEF CachedPast
  <2>7. Waits(s)'
    BY <1>1, <1>2, <2>2 DEF Waits
  <2>8. Runs(s)'
    BY <1>1, <1>2, <2>1, <2>2 DEF Runs, SlaveList, masterVars
  <2> QED BY <1>2, <2>3, <2>5, <2>6, <2>7, <2>8, SlaveLocalStep
<1> QED BY <1>7, <1>8

(* readSyncBulkPayload() at the end of the RDB                              *)
LEMMA LoadRdbInOrder ==
  ASSUME IInv, AllInOrder, NEW s \in Slaves, LoadRdb(s)
  PROVE  AllInOrder'
<1> DEFINE w == wire[s]
           v == Tail(w)
           r == Head(w)
<1>1. /\ Stage(s) /\ Files(s) /\ Runs(s) /\ Waits(s) /\ InLine(s)
      /\ slave[s].state = "TRANSFER" /\ w # <<>> /\ r.op = "RDB"
  BY DEF AllInOrder, SlaveInOrder, LoadRdb
<1>2. /\ wire'[s] = v /\ client' = client /\ child' = child
      /\ \A t \in Slaves \ {s} : slave'[t] = slave[t] /\ wire'[t] = wire[t]
      /\ UNCHANGED <<masterSide, client, budget>>
      /\ UNCHANGED <<masterVars, backlog, slaveseldb>>
      /\ slave'[s].state = "CONNECTED" /\ slave'[s].cached = slave[s].cached
      /\ slave'[s].runid = slave[s].runid /\ slave'[s].initial = slave[s].initial
      /\ slave'[s].data = r.content /\ slave'[s].db = 0
      /\ slave'[s].reploff = slave[s].initial
      /\ slave'[s].trust \in {"exact", "inexact"}
      /\ slave'[s].trust = "exact" => r.at = slave[s].initial
  <2>1. wire \in [Slaves -> Seq(Message)] /\ slave \in [Slaves -> SlaveType]
        /\ slave[s] \in SlaveType
    BY DEF IInv, TypeOK
  <2> QED BY <2>1 DEF LoadRdb, masterSide, SlaveType
<1>3. /\ ~Replied(w) /\ ~slave[s].cached /\ (Transfers(s) \/ Streams(s))
  BY <1>1 DEF Stage
<1>4. Body(w) = w /\ HasRdb(w) /\ ~Streams(s) /\ Transfers(s) /\ Commands(w) \in Seq(Entry)
  <2>1. Body(w) = w /\ HasRdb(w)
    BY <1>1, <1>3 DEF Body, HasRdb, NextIs
  <2> QED BY <1>3, <2>1, TransfersFacts
<1>5. /\ client[s].replstate \in {"ONLINE", "CLOSED"} \/ (SentRdb(s) /\ Commands(w) = <<>>)
  BY <1>1, <1>4 DEF Transfers, NextIs, HasRdb
<1>6. v \in Seq(Entry) /\ v = Commands(w)
  BY <1>3, <1>4, WireLoaded
<1> HIDE DEF v
<1>7. /\ ~Replied(v) /\ ~Announces(v) /\ ~HasRdb(v) /\ Body(v) = v /\ Commands(v) = v
  BY <1>6, WireOfCommands
<1>8. RdbToCome(s)' = <<>> /\ (SentRdb(s)' <=> SentRdb(s))
  <2>1. RdbToCome(s)' = RdbToCome(s) /\ (SentRdb(s)' <=> SentRdb(s))
    BY <1>2, ToComeSame DEF masterSide
  <2>2. RdbToCome(s) = <<>>
    BY <1>1, <1>5, ToComeFacts
  <2> QED BY <2>1, <2>2
<1>9. ~Announces(w) /\ ~Announces(wire'[s])
  BY <1>2, <1>3, <1>7 DEF Announces, Replied, NextIs
<1>10. RdbOf(s) = <<r>> /\ RdbOf(s)' = <<>>
  BY <1>2, <1>4, <1>7, <1>8 DEF RdbOf
<1>11. /\ RunOf(s)' = RunOf(s) /\ OffsetOf(s)' = OffsetOf(s)
       /\ OffsetOf(s) = slave[s].initial
  BY <1>2, <1>9 DEF RunOf, OffsetOf
<1> HIDE DEF r
<1>12. InLine(s)'
  <2>1. Known(s) /\ Replaced(s) /\ ~Replaced(s)'
    BY <1>10 DEF Known, Replaced
  <2>2. Start(s) = <<r.content, 0>> /\ Start(s)' = <<r.content, 0>>
    BY <1>2, <1>10, <2>1 DEF Start, Held
  <2>3. Rest(s)' = Rest(s)
    BY <1>2, <1>6, <1>7 DEF Rest
  <2>4. From(s)' = From(s)
    BY <1>2, <1>11, <2>1 DEF From
  <2>5. Exact(s)' => Exact(s)
    BY <1>2, <1>10, <1>11, <2>1 DEF Exact
  <2>6. Now' = Now
    BY <1>2, KeptSelf DEF masterVars
  <2> QED BY <1>1, <1>2, <1>11, <2>1, <2>2, <2>3, <2>4, <2>5, <2>6, InLineSame DEF masterVars
<1>13. Stage(s)'
  <2>1. Streams(s)' \/ (SentRdb(s)' /\ v = <<>>)
    BY <1>2, <1>5, <1>6, <1>7, <1>8 DEF Streams
  <2> QED BY <1>2, <1>3, <1>7, <2>1 DEF Stage
<1>14. CachedPast(s)' /\ Waits(s)'
  BY <1>1, <1>2, <1>3, <1>11 DEF CachedPast, Waits
<1>15. Runs(s)'
  BY <1>1, <1>2, <1>11 DEF Runs, SlaveList, masterVars
<1> QED BY <1>2, <1>12, <1>13, <1>14, <1>15, SlaveLocalStep

(* A transfer that goes on in a file that already ended.                    *)
LEMMA SwallowedInOrder ==
  ASSUME IInv, AllInOrder, NEW s \in Slaves, slave[s].state = "TRANSFER",
         wire[s] # <<>>, wire'[s] = Tail(wire[s]), Tail(wire[s]) \in Seq(Entry),
         client[s].replstate \in {"ONLINE", "CLOSED"},
         \A t \in Slaves \ {s} : wire'[t] = wire[t],
         UNCHANGED <<masterSide, client, slave, budget>>
  PROVE  AllInOrder'
<1> DEFINE v == Tail(wire[s])
<1>1. Stage(s) /\ Files(s) /\ Runs(s) /\ Waits(s)
  BY DEF AllInOrder, SlaveInOrder
<1>2. ~Replied(wire[s]) /\ ~slave[s].cached /\ ~Announces(wire[s])
  BY <1>1 DEF Stage, Replied, Announces, NextIs
<1>3. v \in Seq(Entry) /\ wire'[s] = v
  OBVIOUS
<1> HIDE DEF v
<1>4. /\ ~Replied(v) /\ ~Announces(v) /\ ~HasRdb(v) /\ Body(v) = v
  BY <1>3, WireOfCommands
<1>5. RdbToCome(s)' = <<>>
  <2>1. RdbToCome(s)' = RdbToCome(s)
    BY ToComeSame DEF masterSide
  <2>2. RdbToCome(s) = <<>>
    BY <1>1, ToComeFacts
  <2> QED BY <2>1, <2>2
<1>6. InLine(s)'
  <2>1. ~Known(s)'
    BY <1>2, <1>3, <1>4, <1>5 DEF Known, Replaced, RdbOf
  <2> QED BY <2>1 DEF InLine
<1>7. Stage(s)'
  <2>1. Streams(s)'
    BY <1>3, <1>4 DEF Streams
  <2> QED BY <1>2, <1>3, <1>4, <2>1 DEF Stage
<1>8. RunOf(s)' = RunOf(s)
  BY <1>2, <1>3, <1>4 DEF RunOf
<1>9. CachedPast(s)' /\ Waits(s)' /\ Runs(s)'
  BY <1>1, <1>2, <1>8 DEF CachedPast, Waits, Runs, SlaveList, masterSide, masterVars
<1> QED BY <1>6, <1>7, <1>9, SlaveLocalStep

LEMMA MissEofMarkInOrder ==
  ASSUME IInv, AllInOrder, NEW s \in Slaves, MissEofMark(s)
  PROVE  AllInOrder'
<1> DEFINE w == wire[s]
<1>1. Stage(s) /\ slave[s].state = "TRANSFER" /\ w \in Seq(Message) /\ Len(w) > 1
      /\ Head(w).op = "RDB"
  BY SlaveTyped DEF AllInOrder, SlaveInOrder, MissEofMark
<1>2. w # <<>> /\ Tail(w) # <<>>
  <2>1. w # <<>>
    BY <1>1, EmptySeq
  <2> DEFINE n == Len(w)
             k == Len(Tail(w))
  <2>2. k = n - 1 /\ n \in Nat /\ n > 1
    BY <1>1, <2>1, HeadTailProperties
  <2> HIDE DEF n, k
  <2>3. k # 0
    BY <2>2
  <2> QED BY <2>1, <2>3, EmptySeq DEF k
<1>3. /\ ~Replied(w) /\ (Transfers(s) \/ Streams(s))
  BY <1>1 DEF Stage
<1>4. Body(w) = w /\ HasRdb(w) /\ ~Streams(s) /\ Transfers(s) /\ Commands(w) \in Seq(Entry)
  <2>1. Body(w) = w /\ HasRdb(w)
    BY <1>1, <1>2, <1>3 DEF Body, HasRdb, NextIs
  <2> QED BY <1>3, <2>1, TransfersFacts
<1>5. Commands(w) = Tail(w)
  BY <1>4 DEF Commands
<1>6. client[s].replstate \in {"ONLINE", "CLOSED"}
  BY <1>2, <1>4, <1>5 DEF Transfers
<1>7. /\ wire'[s] = Tail(w) /\ \A t \in Slaves \ {s} : wire'[t] = wire[t]
      /\ UNCHANGED <<masterSide, client, slave, budget>>
  BY DEF MissEofMark, IInv, TypeOK
<1> QED BY <1>1, <1>2, <1>4, <1>5, <1>6, <1>7, SwallowedInOrder

LEMMA SwallowStreamInOrder ==
  ASSUME IInv, AllInOrder, NEW s \in Slaves, SwallowStream(s)
  PROVE  AllInOrder'
<1> DEFINE w == wire[s]
<1>1. Stage(s) /\ slave[s].state = "TRANSFER" /\ w # <<>> /\ IsEntry(Head(w))
  BY DEF AllInOrder, SlaveInOrder, SwallowStream
<1>2. /\ ~Replied(w) /\ (Transfers(s) \/ Streams(s))
  BY <1>1 DEF Stage
<1>3. Body(w) = w /\ ~HasRdb(w)
  BY <1>1, <1>2 DEF Body, HasRdb, NextIs, IsEntry
<1>4. Streams(s) /\ w \in Seq(Entry)
  <2>1. Streams(s)
    BY <1>1, <1>2, <1>3, TransfersFacts
  <2> QED BY <1>3, <2>1 DEF Streams
<1>5. Tail(w) \in Seq(Entry)
  BY <1>1, <1>4, HeadTailProperties
<1>6. /\ wire'[s] = Tail(w) /\ \A t \in Slaves \ {s} : wire'[t] = wire[t]
      /\ UNCHANGED <<masterSide, client, slave, budget>>
  BY DEF SwallowStream, IInv, TypeOK
<1>7. client[s].replstate \in {"ONLINE", "CLOSED"}
  BY <1>4 DEF Streams
<1> QED BY <1>1, <1>5, <1>6, <1>7, SwallowedInOrder

LEMMA ReadSyncErrorInOrder ==
  ASSUME AllInOrder, NEW s \in Slaves, ReadSyncError(s)
  PROVE  AllInOrder'
<1> DEFINE w == wire[s]
<1>1. Stage(s) /\ slave[s].state = "TRANSFER" /\ w # <<>> /\ Head(w).op = "ERR"
  BY DEF AllInOrder, SlaveInOrder, ReadSyncError
<1>2. /\ ~Replied(w) /\ (Transfers(s) \/ Streams(s))
  BY <1>1 DEF Stage
<1>3. Body(w) = w /\ ~HasRdb(w)
  BY <1>1, <1>2 DEF Body, HasRdb, NextIs
<1>4. w \in Seq(Entry)
  BY <1>1, <1>2, <1>3, TransfersFacts DEF Streams
<1>5. Head(w) \in Entry
  BY <1>1, <1>4, HeadTailProperties
<1> QED BY <1>1, <1>5, MessageKinds

LEMMA ConcatHead ==
  ASSUME NEW S, NEW p \in Seq(S), NEW q \in Seq(S), p # <<>>
  PROVE  /\ p \o q # <<>> /\ Head(p \o q) = Head(p)
         /\ Tail(p \o q) = Tail(p) \o q
<1> DEFINE h == Head(p)
           t == Tail(p)
           u == p \o q
           v == t \o q
           z == Tail(u)
<1>1. /\ h \in S /\ t \in Seq(S) /\ Len(t) = Len(p) - 1
      /\ \A i \in 1 .. Len(t) : t[i] = p[i + 1]
  BY HeadTailProperties
<1>2. h = p[1] /\ Len(p) \in Nat /\ Len(p) # 0 /\ Len(q) \in Nat
  BY EmptySeq
<1>3. /\ u \in Seq(S) /\ Len(u) = Len(p) + Len(q)
      /\ \A k \in 1 .. Len(p) : u[k] = p[k]
      /\ \A k \in 1 .. Len(q) : u[Len(p) + k] = q[k]
  BY ConcatFacts
<1> HIDE DEF h, t
<1>4. /\ v \in Seq(S) /\ Len(v) = Len(t) + Len(q)
      /\ \A k \in 1 .. Len(t) : v[k] = t[k]
      /\ \A k \in 1 .. Len(q) : v[Len(t) + k] = q[k]
  <2>1. t \in Seq(S)
    BY <1>1
  <2> QED BY <2>1, ConcatFacts
<1> HIDE DEF u, v
<1>5. u # <<>>
  BY <1>2, <1>3, EmptySeq
<1>6. Head(u) = h
  <2>1. Head(u) = u[1] /\ 1 \in 1 .. Len(p)
    BY <1>2, <1>3, <1>5
  <2> QED BY <1>2, <1>3, <2>1
<1>7. /\ z \in Seq(S) /\ Len(z) = Len(u) - 1
      /\ \A i \in 1 .. Len(z) : z[i] = u[i + 1]
  BY <1>3, <1>5, HeadTailProperties
<1> HIDE DEF z
<1>8. Len(z) = Len(v) /\ Len(z) \in Nat
  BY <1>1, <1>2, <1>3, <1>4, <1>7
<1>9. ASSUME NEW k \in 1 .. Len(z)
      PROVE  z[k] = v[k]
  <2>0. k \in Nat /\ 1 <= k /\ k + 1 <= Len(p) + Len(q) /\ z[k] = u[k + 1]
    BY <1>2, <1>3, <1>7, <1>8
  <2>1. CASE k <= Len(t)
    <3>1. k \in 1 .. Len(t) /\ k + 1 \in 1 .. Len(p)
      BY <1>1, <1>2, <2>0, <2>1
    <3> QED BY <1>1, <1>3, <1>4, <2>0, <3>1
  <2>2. CASE k > Len(t)
    <3> DEFINE i == k - Len(t)
    <3>1. i \in 1 .. Len(q) /\ k = Len(t) + i /\ k + 1 = Len(p) + i
      BY <1>1, <1>2, <2>0, <2>2
    <3> HIDE DEF i
    <3>2. u[Len(p) + i] = q[i] /\ v[Len(t) + i] = q[i]
      BY <1>3, <1>4, <3>1
    <3> QED BY <2>0, <3>1, <3>2
  <2>3. Len(t) \in Nat
    BY <1>1, <1>2
  <2> QED BY <2>0, <2>1, <2>2, <2>3
<1>10. z = v
  BY <1>4, <1>7, <1>8, <1>9, SameSeq
<1> QED BY <1>5, <1>6, <1>10 DEF h, t, u, v, z

(* readQueryFromClient() of the master client                               *)
LEMMA ReadStreamInOrder ==
  ASSUME IInv, AllInOrder, NEW s \in Slaves, ReadStream(s)
  PROVE  AllInOrder'
<1> DEFINE w == wire[s]
           v == Tail(w)
           e == Head(w)
<1>1. /\ Stage(s) /\ Files(s) /\ Runs(s) /\ Waits(s) /\ InLine(s)
      /\ slave[s].state = "CONNECTED" /\ w # <<>>
  BY DEF AllInOrder, SlaveInOrder, ReadStream
<1>2. /\ ~Replied(w) /\ ~slave[s].cached /\ Streams(s)
      /\ client[s].replstate \in {"ONLINE", "CLOSED"}
  BY <1>1 DEF Stage, Streams
<1>3. Body(w) = w /\ w \in Seq(Entry) /\ Commands(w) = w /\ ~HasRdb(w)
  BY <1>2, WireOfCommands DEF Streams, Body
<1>4. e \in Entry /\ v \in Seq(Entry)
  BY <1>1, <1>3, HeadTailProperties
<1>5. /\ wire'[s] = v /\ client' = client /\ child' = child
      /\ \A t \in Slaves \ {s} : slave'[t] = slave[t] /\ wire'[t] = wire[t]
      /\ UNCHANGED <<masterSide, client, budget>>
      /\ UNCHANGED <<masterVars, backlog, slaveseldb>>
      /\ slave'[s] = Executed(slave[s], e)
  <2>1. wire \in [Slaves -> Seq(Message)] /\ slave \in [Slaves -> SlaveType]
    BY DEF IInv, TypeOK
  <2> QED BY <2>1 DEF ReadStream, masterSide
<1> HIDE DEF v, e
<1>6. /\ slave'[s].state = slave[s].state /\ slave'[s].cached = slave[s].cached
      /\ slave'[s].runid = slave[s].runid /\ slave'[s].initial = slave[s].initial
      /\ slave'[s].trust = slave[s].trust
      /\ slave'[s].reploff = slave[s].reploff + 1
      /\ <<slave'[s].data, slave'[s].db>> = Applied(<<slave[s].data, slave[s].db>>, e)
  <2>1. slave[s] \in SlaveType
    BY SlaveTyped
  <2>2. e.op \in {"SELECT", "CMD", "PING"}
    BY <1>4, MessageKinds
  <2>3. CASE e.op = "SELECT"
    BY <1>5, <2>1, <2>3 DEF Executed, SlaveType, Applied
  <2>4. CASE e.op = "CMD"
    BY <1>5, <2>1, <2>4 DEF Executed, SlaveType, Applied
  <2>5. CASE e.op = "PING"
    BY <1>5, <2>1, <2>5 DEF Executed, SlaveType, Applied
  <2> QED BY <2>2, <2>3, <2>4, <2>5
<1>7. /\ ~Replied(v) /\ ~Announces(v) /\ ~HasRdb(v) /\ Body(v) = v /\ Commands(v) = v
  BY <1>4, WireOfCommands
<1>8. ~Announces(w)
  BY <1>2 DEF Announces, Replied, NextIs
<1>9. RdbOf(s) = <<>> /\ RdbOf(s)' = <<>>
  <2>1. RdbToCome(s) = <<>>
    BY <1>1, <1>2, ToComeFacts
  <2>2. RdbToCome(s)' = <<>>
    BY <1>5, <2>1, ToComeSame DEF masterSide
  <2> QED BY <1>3, <1>5, <1>7, <2>1, <2>2 DEF RdbOf
<1>10. /\ RunOf(s)' = RunOf(s) /\ OffsetOf(s)' = OffsetOf(s)
  BY <1>5, <1>6, <1>7, <1>8 DEF RunOf, OffsetOf
<1>11. InLine(s)'
  <2>1. /\ ~Replaced(s) /\ ~Replaced(s)'
        /\ Known(s)' <=> Known(s)
        /\ Exact(s)' <=> Exact(s)
        /\ From(s) = slave[s].reploff /\ From(s)' = From(s) + 1
        /\ Start(s) = Held(s) /\ Start(s)' = Applied(Held(s), e)
    BY <1>2, <1>5, <1>6, <1>7, <1>8, <1>9 DEF Replaced, Known, Exact, From, Start, Held
  <2>2. /\ Rest(s) = w \o client[s].obuf /\ Rest(s)' = v \o client[s].obuf
    BY <1>3, <1>5, <1>7 DEF Rest
  <2>3. Rest(s) # <<>> /\ Head(Rest(s)) = e /\ Tail(Rest(s)) = Rest(s)'
    <3>1. client[s].obuf \in Seq(Entry)
      BY SlaveTyped
    <3>2. /\ w \o client[s].obuf # <<>> /\ Head(w \o client[s].obuf) = Head(w)
          /\ Tail(w \o client[s].obuf) = Tail(w) \o client[s].obuf
      BY <1>1, <1>3, <3>1, ConcatHead
    <3> QED BY <2>2, <3>2 DEF e, v
  <2>4. SUFFICES ASSUME Known(s), RunOf(s) = runid
                 PROVE  InLine(s)'
    BY <1>5, <1>10, <2>1 DEF InLine, masterVars
  <2> DEFINE x == Held(s)
             q == Rest(s)
             o == From(s)
             m == Now
  <2>5. /\ IsPrefix(Deliver(x, q)[1], m.data)
        /\ IsSlave(client[s]) => Ends(Deliver(x, q), m)
        /\ Exact(s) => Positioned(x, q, o, m)
        /\ Exact(s) /\ IsSlave(client[s]) => o + Len(q) = m.backlog.moff
    BY <1>1, <2>1, <2>4, InLineIs
  <2>6. x \in Point /\ q \in Seq(Streamed) /\ o \in Nat /\ MasterTypedAt(m)
    BY <1>1, <2>1, <2>4, ViewTyped, NowTyped
  <2>7. q # <<>> /\ Head(q) = e /\ Tail(q) = Rest(s)'
    BY <2>3
  <2>8. Now' = m
    BY <1>5, KeptSelf DEF masterVars
  <2>9. Start(s)' = Applied(x, e) /\ From(s)' = o + 1 /\ (Exact(s)' <=> Exact(s))
    BY <2>1
  <2> HIDE DEF x, q, o, m
  <2>10. /\ Deliver(Applied(x, Head(q)), Tail(q)) = Deliver(x, q)
         /\ o + 1 + Len(Tail(q)) = o + Len(q)
         /\ Positioned(x, q, o, m) => Positioned(Applied(x, Head(q)), Tail(q), o + 1, m)
    BY <2>6, <2>7, NextPositioned
  <2> QED BY <1>5, <2>5, <2>7, <2>8, <2>9, <2>10, InLineNext
<1>12. Stage(s)'
  <2>1. Streams(s)'
    BY <1>2, <1>4, <1>5, <1>7 DEF Streams
  <2> QED BY <1>1, <1>2, <1>5, <1>6, <1>7, <2>1 DEF Stage
<1>13. CachedPast(s)' /\ Waits(s)'
  BY <1>1, <1>2, <1>5, <1>6, <1>10 DEF CachedPast, Waits
<1>14. Runs(s)'
  BY <1>1, <1>5, <1>6, <1>10 DEF Runs, SlaveList, masterVars
<1> QED BY <1>5, <1>11, <1>12, <1>13, <1>14, SlaveLocalStep

(* Nothing more is read of what follows q.                                  *)
LEMMA CutInLine ==
  ASSUME IInv, NEW s \in Slaves, Stage(s), Files(s), InLine(s), Known(s),
         RunOf(s)' = RunOf(s), runid' = runid, Now' = Now,
         Start(s)' = Start(s), From(s)' = From(s), Exact(s)' => Exact(s),
         ~IsSlave(client'[s]),
         Rest(s)' \in Seq(Streamed), NEW r \in Seq(Streamed),
         Extends(Rest(s), Rest(s)', r)
  PROVE  /\ InLine(s)'
         /\ RunOf(s) = runid => IsPrefix(Deliver(Start(s), Rest(s)')[1], data)
<1> DEFINE x == Start(s)
           p == Rest(s)
           q == Rest(s)'
           o == From(s)
           m == Now
<1>1. CASE RunOf(s) # runid
  BY <1>1 DEF InLine
<1>2. CASE RunOf(s) = runid
  <2>1. /\ IsPrefix(Deliver(x, p)[1], m.data)
        /\ Exact(s) => Positioned(x, p, o, m)
    BY <1>2, InLineIs
  <2>2. x \in Point /\ o \in Nat /\ MasterTypedAt(m) /\ q \in Seq(Streamed)
        /\ Extends(p, q, r)
    BY ViewTyped, NowTyped
  <2>3. Start(s)' = x /\ From(s)' = o /\ Rest(s)' = q /\ Now' = m
    OBVIOUS
  <2>4. m.data = data
    BY DEF Now
  <2> HIDE DEF x, p, q, o, m
  <2>5. /\ Positioned(x, p, o, m) => Positioned(x, q, o, m)
        /\ IsPrefix(Deliver(x, p)[1], m.data) => IsPrefix(Deliver(x, q)[1], m.data)
    BY <2>2, CutPositioned
  <2>6. InLine(s)'
    BY <2>1, <2>3, <2>5, InLineNext
  <2>7. IsPrefix(Deliver(x, q)[1], data)
    BY <2>1, <2>4, <2>5
  <2> QED BY <2>6, <2>7 DEF x, q
<1> QED BY <1>1, <1>2

(* The slave finds the connection closed.                                   *)
LEMMA SeeCloseInOrder ==
  ASSUME IInv, AllInOrder, NEW s \in Slaves, SeeClose(s)
  PROVE  AllInOrder'
<1>1. /\ Stage(s) /\ Files(s) /\ Runs(s) /\ InLine(s)
      /\ client[s].replstate = "CLOSED" /\ slave[s].state # "CONNECT"
  BY DEF AllInOrder, SlaveInOrder, SeeClose
<1>2. client[s].obuf = <<>> /\ client[s].file = <<>> /\ ~IsSlave(client[s])
  BY <1>1 DEF Files, IsSlave, SlaveStates
<1>3. /\ wire'[s] = <<>> /\ client' = client /\ child' = child
      /\ \A t \in Slaves \ {s} : slave'[t] = slave[t] /\ wire'[t] = wire[t]
      /\ UNCHANGED <<masterSide, client, budget>>
      /\ UNCHANGED <<masterVars, backlog, slaveseldb>>
      /\ slave'[s].state = "CONNECT" /\ (slave'[s].cached <=> slave[s].state = "CONNECTED")
      /\ slave'[s].runid = slave[s].runid /\ slave'[s].initial = slave[s].initial
      /\ slave'[s].trust = slave[s].trust /\ slave'[s].reploff = slave[s].reploff
      /\ slave'[s].data = slave[s].data /\ slave'[s].db = slave[s].db
  <2>1. wire \in [Slaves -> Seq(Message)] /\ slave \in [Slaves -> SlaveType]
        /\ slave[s] \in SlaveType
    BY DEF IInv, TypeOK
  <2> QED BY <2>1 DEF SeeClose, masterSide, SlaveType
<1>4. /\ ~Announces(wire'[s]) /\ ~HasRdb(wire'[s]) /\ Commands(wire'[s]) = <<>>
  BY <1>3, WireEmpty
<1>5. RdbOf(s)' = <<>> /\ Rest(s)' = <<>>
  BY <1>1, <1>2, <1>3, <1>4 DEF RdbOf, RdbToCome, Rest
<1>6. RunOf(s)' = slave[s].runid
  BY <1>3, <1>4 DEF RunOf
<1>7. Now' = Now
  BY <1>3, KeptSelf DEF masterVars
<1>8. ASSUME slave[s].state = "CONNECTED", slave[s].trust # "resumed"
      PROVE  InLine(s)' /\ CachedPast(s)'
  <2>1. ~Replied(wire[s]) /\ Streams(s)
    BY <1>1, <1>8 DEF Stage, SentRdb
  <2>2. ~Announces(wire[s]) /\ ~HasRdb(wire[s])
    BY <2>1, StreamsFacts DEF Announces, Replied, NextIs
  <2>3. RdbOf(s) = <<>>
    BY <1>1, <1>2, <2>2 DEF RdbOf, RdbToCome
  <2>4. /\ Known(s) /\ RunOf(s)' = RunOf(s) /\ Start(s)' = Start(s) /\ From(s)' = From(s)
        /\ Start(s) = <<slave[s].data, slave[s].db>>
        /\ (Exact(s)' => Exact(s))
    BY <1>3, <1>5, <1>6, <1>8, <2>2, <2>3
    DEF Known, RunOf, Start, From, Exact, Replaced, Held
  <2> DEFINE r == Rest(s)
  <2>5. r \in Seq(Streamed) /\ <<>> \in Seq(Streamed)
    BY <1>1, <2>4, ViewTyped
  <2>6. Extends(Rest(s), Rest(s)', r)
    <3> HIDE DEF r
    <3>1. r = <<>> \o r
      BY <2>5
    <3> QED BY <1>5, <3>1 DEF Extends, r
  <2> HIDE DEF r
  <2>7. /\ InLine(s)'
        /\ RunOf(s) = runid => IsPrefix(Deliver(Start(s), Rest(s)')[1], data)
    BY <1>1, <1>2, <1>3, <1>5, <1>7, <2>4, <2>5, <2>6, CutInLine DEF masterVars
  <2>8. RunOf(s) = runid => IsPrefix(slave[s].data, data)
    <3>1. Deliver(Start(s), Rest(s)') = Start(s)
      BY <1>5, DeliverNothing
    <3>2. Start(s)[1] = slave[s].data
      BY <2>4
    <3> QED BY <2>7, <3>1, <3>2
  <2>9. CachedPast(s)'
    BY <1>3, <1>6, <2>4, <2>8 DEF CachedPast, masterVars
  <2> QED BY <2>7, <2>9
<1>9. ASSUME ~(slave[s].state = "CONNECTED" /\ slave[s].trust # "resumed")
      PROVE  InLine(s)' /\ CachedPast(s)'
  <2>1. ~Known(s)'
    BY <1>3, <1>5, <1>9 DEF Known, Replaced
  <2>2. CachedPast(s)'
    BY <1>3, <1>9 DEF CachedPast
  <2> QED BY <2>1, <2>2 DEF InLine
<1>10. InLine(s)' /\ CachedPast(s)'
  BY <1>8, <1>9
<1>11. Stage(s)' /\ Waits(s)'
  BY <1>1, <1>3 DEF Stage, Waits
<1>12. Runs(s)'
  BY <1>1, <1>2, <1>3, <1>6 DEF Runs, SlaveList, masterVars
<1> QED BY <1>3, <1>10, <1>11, <1>12, SlaveLocalStep

(* An event that happened stays one.                                        *)
LEMMA SpendFacts ==
  ASSUME IInv, IInv', NEW events, Spend(events)
  PROVE  /\ \A e \in Events : budget'[e] <= budget[e]
         /\ \A e \in Events : budget[e] \in Nat /\ budget'[e] \in Nat /\ Budget[e] \in Nat
         /\ Children => \A e \in events \cap Events : Happened(e)'
<1>1. /\ budget \in [Events -> Nat] /\ Budget \in [Events -> Nat]
      /\ budget' \in [Events -> Nat]
  BY ConstantsTyped DEF IInv, TypeOK, MasterTyped
<1>2. \A e \in Events : budget'[e] = budget[e] - IF e \in events THEN 1 ELSE 0
  BY DEF Spend
<1>3. ASSUME NEW e \in Events
      PROVE  /\ budget'[e] <= budget[e]
             /\ budget[e] \in Nat /\ budget'[e] \in Nat /\ Budget[e] \in Nat
             /\ Children /\ e \in events => budget'[e] < Budget[e]
  <2>1. budget[e] \in Nat /\ budget'[e] \in Nat /\ Budget[e] \in Nat
    BY <1>1
  <2>2. Children => budget[e] <= Budget[e]
    BY DEF Children
  <2> QED BY <1>2, <2>1, <2>2
<1> QED BY <1>3 DEF Happened

LEMMA ChildrenSpent ==
  ASSUME IInv, IInv', Children, NEW events, Spend(events),
         child'.type = child.type, child'.fds \subseteq child.fds,
         \A t \in Slaves : client'[t].replstate = "END" => client[t].replstate = "END"
  PROVE  Children'
BY SpendFacts, ChildrenLess

(* A slave whose connection is closed on the side of the master.            *)
LEMMA ClosedStage ==
  ASSUME NEW s \in Slaves, Stage(s), client'[s].replstate = "CLOSED",
         slave'[s] = slave[s], wire'[s] = wire[s]
  PROVE  Stage(s)'
<1>1. ~SentRdb(s)'
  BY DEF SentRdb
<1>2. Streams(s) => Streams(s)'
  BY DEF Streams
<1>3. Transfers(s) => Transfers(s)'
  BY <1>1 DEF Transfers
<1>4. wire[s] = <<>> => Streams(s)'
  <2>1. <<>> \in Seq(Entry) /\ Body(<<>>) = <<>>
    BY WireEmpty
  <2> QED BY <2>1 DEF Streams
<1> QED BY <1>2, <1>3, <1>4 DEF Stage

(* freeClient(): the slave may still read what is on the wire.              *)
LEMMA FreedInOrder ==
  ASSUME IInv, NEW s \in Slaves, SlaveInOrder(s), client'[s] = Closed,
         UNCHANGED <<runid, data, backlog, slaveseldb, slave, wire>>
  PROVE  SlaveInOrder(s)'
<1> DEFINE w == wire[s]
<1>1. /\ Stage(s) /\ Files(s) /\ Runs(s) /\ InLine(s) /\ CachedPast(s)
  BY DEF SlaveInOrder
<1>2. /\ client'[s] = Closed /\ slave' = slave /\ wire' = wire
      /\ runid' = runid /\ data' = data
  OBVIOUS
<1>3. /\ client'[s].replstate = "CLOSED" /\ client'[s].obuf = <<>>
      /\ client'[s].file = <<>> /\ ~IsSlave(client'[s])
  BY <1>2 DEF Closed, IsSlave, SlaveStates
<1>4. RdbToCome(s)' = <<>>
  BY <1>3 DEF RdbToCome
<1>5. RunOf(s)' = RunOf(s) /\ OffsetOf(s)' = OffsetOf(s)
  BY <1>2 DEF RunOf, OffsetOf
<1>6. Now' = Now
  BY KeptSelf
<1>7. Known(s)' => RdbOf(s)' = RdbOf(s)
  <2>1. CASE RdbToCome(s) = <<>> \/ HasRdb(w)
    BY <1>2, <1>4, <2>1 DEF RdbOf
  <2>2. CASE RdbToCome(s) # <<>> /\ ~HasRdb(w)
    <3>1. slave[s].state = "TRANSFER" \/ Announces(w)
      BY <1>1, <2>2, ToComeFacts
    <3>2. RdbOf(s)' = <<>>
      BY <1>2, <1>4, <2>2 DEF RdbOf
    <3>3. slave[s].state = "TRANSFER" => ~slave[s].cached
      BY <1>1 DEF Stage
    <3>4. Announces(w) => slave[s].state # "CONNECTED"
      BY <1>1 DEF Stage, Announces, Replied, NextIs
    <3> QED BY <1>2, <3>1, <3>2, <3>3, <3>4 DEF Known, Replaced
  <2> QED BY <2>1, <2>2
<1>8. InLine(s)'
  <2>1. SUFFICES ASSUME Known(s)' PROVE InLine(s)'
    BY DEF InLine
  <2>2. RdbOf(s)' = RdbOf(s)
    BY <1>7, <2>1
  <2>3. /\ Known(s) /\ Start(s)' = Start(s) /\ From(s)' = From(s)
        /\ (Exact(s)' => Exact(s))
    <3>1. Known(s)
      BY <1>2, <2>1, <2>2 DEF Known, Replaced
    <3>2. Start(s)' = Start(s)
      BY <1>2, <2>2 DEF Start, Replaced, Held
    <3>3. From(s)' = From(s)
      BY <1>2, <1>5, <2>2 DEF From, Replaced
    <3>4. Exact(s)' => Exact(s)
      BY <1>2, <1>5, <2>2 DEF Exact, Replaced
    <3> QED BY <3>1, <3>2, <3>3, <3>4
  <2> DEFINE r == client[s].obuf
  <2>4. /\ Commands(w) \in Seq(Entry) /\ r \in Seq(Entry)
    BY <1>1, <2>3, ViewTyped, SlaveTyped
  <2>5. Rest(s)' = Commands(w)
    <3>1. Rest(s)' = Commands(w) \o <<>>
      BY <1>2, <1>3 DEF Rest
    <3> QED BY <2>4, <3>1
  <2>6. r \in Seq(Streamed) /\ Commands(w) \in Seq(Streamed)
    BY <2>4, PositionTyped DEF Streamed
  <2>7. Extends(Rest(s), Rest(s)', r)
    BY <2>5 DEF Extends, Rest
  <2> HIDE DEF r
  <2> QED BY <1>1, <1>2, <1>3, <1>5, <1>6, <2>3, <2>5, <2>6, <2>7, CutInLine
<1>9. Stage(s)'
  BY <1>1, <1>2, <1>3, ClosedStage
<1>10. CachedPast(s)' /\ Waits(s)' /\ Files(s)'
  BY <1>1, <1>2, <1>3 DEF CachedPast, Waits, Files
<1>11. Runs(s)'
  BY <1>1, <1>2, <1>3, <1>5 DEF Runs, SlaveList
<1> QED BY <1>8, <1>9, <1>10, <1>11 DEF SlaveInOrder

(* The link broke.                                                          *)
LEMMA LinkLostInOrder ==
  ASSUME IInv, IInv', AllInOrder, NEW s \in Slaves, LinkLost(s)
  PROVE  AllInOrder'
<1>1. /\ client'[s] = Closed
      /\ \A t \in Slaves \ {s} : /\ client'[t] = client[t]
                                 /\ t \in child'.fds <=> t \in child.fds
                                 /\ t \in child'.sent <=> t \in child.sent
      /\ child'.type = child.type /\ child'.content = child.content
      /\ child'.fds \subseteq child.fds
      /\ slave' = slave /\ wire' = wire
      /\ UNCHANGED <<masterVars, backlog, slaveseldb>>
  <2>1. client \in [Slaves -> ClientType] /\ child \in ChildType
    BY DEF IInv, TypeOK
  <2> QED BY <2>1 DEF LinkLost, FreeClient, ChildType
<1>2. SlaveInOrder(s)'
  BY <1>1, FreedInOrder DEF AllInOrder, masterVars
<1>3. Children'
  <2>1. \A t \in Slaves : client'[t].replstate = "END" => client[t].replstate = "END"
    BY <1>1 DEF Closed
  <2> QED BY <1>1, <2>1, ChildrenSpent DEF LinkLost, AllInOrder
<1>4. \A t \in Slaves \ {s} : Untouched(t)
  BY <1>1, OthersUntouched
<1> QED BY <1>1, <1>2, <1>3, <1>4, LocalStep

(* A slave that waits for the reply to its PSYNC.                           *)
LEMMA AsksFacts ==
  ASSUME IInv, AllInOrder, NEW s \in Slaves, client[s].psync
  PROVE  /\ client[s].replstate = "NONE" /\ slave[s].state = "RECEIVE_PONG"
         /\ wire[s] = <<>> /\ client[s].obuf = <<>> /\ client[s].file = <<>>
         /\ RdbToCome(s) = <<>> /\ RdbOf(s) = <<>> /\ Rest(s) = <<>>
         /\ ~Announces(wire[s]) /\ s \notin child.fds /\ s \notin child.sent
         /\ ~IsSlave(client[s])
<1>1. client[s].replstate = "NONE"
  BY DEF IInv, ClientsConsistent, ClientInOrder
<1>2. Stage(s) /\ Files(s)
  BY DEF AllInOrder, SlaveInOrder
<1>3. slave[s].state = "RECEIVE_PONG" /\ wire[s] = <<>>
  <2>1. ~Streams(s) /\ ~Transfers(s) /\ ~SentRdb(s)
    BY <1>1 DEF Streams, Transfers, SentRdb
  <2>2. slave[s] \in SlaveType
    BY SlaveTyped
  <2> QED BY <1>1, <1>2, <2>1, <2>2 DEF Stage, SlaveType
<1>4. client[s].obuf = <<>> /\ client[s].file = <<>>
  BY <1>1, <1>2 DEF Files
<1>5. /\ ~Announces(wire[s]) /\ ~HasRdb(wire[s]) /\ Commands(wire[s]) = <<>>
  BY <1>3, WireEmpty
<1>6. RdbToCome(s) = <<>> /\ RdbOf(s) = <<>> /\ Rest(s) = <<>>
  BY <1>1, <1>4, <1>5 DEF RdbToCome, RdbOf, Rest
<1>7. s \notin child.fds /\ s \notin child.sent
  BY <1>1 DEF IInv, ClientsConsistent, ChildConsistent
<1> QED BY <1>1, <1>3, <1>4, <1>5, <1>6, <1>7 DEF IsSlave, SlaveStates

(* addReplyReplicationBacklog()                                             *)
LEMMA TailIsSince ==
  ASSUME IInv, NEW o \in Nat, Holds(backlog, o + 1)
  PROVE  /\ BacklogTail(backlog, o + 1) = Since(backlog.stream, o)
         /\ BacklogTail(backlog, o + 1) \in Seq(Entry)
         /\ backlog.active /\ backlog.off <= o + 1
<1>1. /\ IsBacklog(backlog, Entry) /\ RingMatchesStream(backlog) /\ BacklogInOrder(backlog)
  BY DEF IInv, BacklogInOrder
<1>2. /\ backlog.moff = Len(backlog.stream) /\ backlog.moff \in Nat
      /\ backlog.active /\ backlog.off <= o + 1
      /\ backlog.off = backlog.moff - backlog.histlen + 1
      /\ backlog.off \in Nat /\ backlog.histlen \in Nat
      /\ o + 1 <= backlog.off + backlog.histlen
  BY <1>1, BacklogFields DEF Holds, RingMatchesStream
<1>3. o + 1 \in 1 .. backlog.moff + 1
  BY <1>2
<1>4. TailMatchesStream(backlog)
  BY <1>1, RingServesStream
<1>5. BacklogTail(backlog, o + 1) = SubSeq(backlog.stream, o + 1, backlog.moff)
  BY <1>3, <1>4 DEF TailMatchesStream
<1>6. BacklogTail(backlog, o + 1) \in Seq(Entry)
  <2>1. o + 1 \in Nat
    OBVIOUS
  <2> QED BY <1>1, <2>1, TailIsCommands
<1> QED BY <1>2, <1>5, <1>6 DEF Since

(* masterTryPartialResynchronization()                                      *)
LEMMA SyncPartialInOrder ==
  ASSUME IInv, IInv', AllInOrder, NEW s \in Slaves, SyncPartial(s)
  PROVE  AllInOrder'
<1> DEFINE c == client[s]
           o == slave[s].reploff
           b == BacklogTail(backlog, o + 1)
           v == Append(<<>>, Continue)
<1>1. /\ Stage(s) /\ Files(s) /\ Runs(s) /\ InLine(s) /\ CachedPast(s)
      /\ c.psync /\ PsyncAccepted(s)
      /\ slave[s].cached /\ slave[s].runid = runid /\ Holds(backlog, o + 1)
  BY DEF AllInOrder, SlaveInOrder, SyncPartial, PsyncAccepted
<1>2. /\ c.replstate = "NONE" /\ slave[s].state = "RECEIVE_PONG"
      /\ wire[s] = <<>> /\ c.obuf = <<>> /\ c.file = <<>>
      /\ RdbToCome(s) = <<>> /\ RdbOf(s) = <<>> /\ Rest(s) = <<>>
      /\ ~Announces(wire[s])
  BY <1>1, AsksFacts
<1>3. o \in Nat /\ c \in ClientType
  BY SlaveTyped
<1>4. /\ b = Since(backlog.stream, o) /\ b \in Seq(Entry)
      /\ backlog.active /\ backlog.off <= o + 1
  BY <1>1, <1>3, TailIsSince
<1> HIDE DEF b
<1>5. /\ client'[s].replstate = "ONLINE" /\ client'[s].obuf = b
      /\ client'[s].file = <<>> /\ wire'[s] = v
      /\ \A t \in Slaves \ {s} : client'[t] = client[t] /\ wire'[t] = wire[t]
      /\ slave' = slave /\ child' = child /\ budget' = budget
      /\ UNCHANGED <<masterVars, backlog, slaveseldb>>
  <2>1. client \in [Slaves -> ClientType] /\ wire \in [Slaves -> Seq(Message)]
    BY DEF IInv, TypeOK
  <2>2. <<>> \o b = b
    BY <1>4
  <2> QED BY <1>2, <1>3, <2>1, <2>2 DEF SyncPartial, AddReply, ClientType, b
<1>6. /\ Replied(v) /\ ~Announces(v) /\ NextIs(v, {"CONTINUE"}) /\ Body(v) = <<>>
      /\ ~HasRdb(v) /\ Commands(v) = <<>>
  BY WireContinue DEF Continue
<1> HIDE DEF v
<1>7. RdbOf(s)' = <<>> /\ Rest(s)' = b
  <2>1. RdbToCome(s)' = <<>>
    BY <1>5 DEF RdbToCome
  <2>2. <<>> \o b = b
    BY <1>4
  <2> QED BY <1>5, <1>6, <2>1, <2>2 DEF RdbOf, Rest
<1>8. RunOf(s)' = runid /\ RunOf(s) = runid
  BY <1>1, <1>2, <1>5, <1>6 DEF RunOf
<1>9. InLine(s)'
  <2>1. SUFFICES ASSUME Known(s)' PROVE InLine(s)'
    BY DEF InLine
  <2>2. /\ Known(s) /\ Start(s)' = Start(s) /\ From(s)' = o /\ From(s) = o
        /\ Exact(s)
    BY <1>1, <1>2, <1>5, <1>6, <1>7, <2>1 DEF Known, Replaced, Start, Held, From, Exact
  <2> DEFINE x == Start(s)
             m == Now
  <2>3. Positioned(x, <<>>, o, m)
    BY <1>1, <1>2, <1>8, <2>2, InLineIs
  <2>4. MasterTypedAt(m) /\ x \in Point
    BY <1>1, <2>2, ViewTyped, NowTyped
  <2>5. /\ m.backlog.active /\ m.backlog.off <= o + 1
        /\ b = Since(m.backlog.stream, o) /\ m.data = data
    BY <1>4 DEF Now
  <2>6. Now' = m
    BY <1>5, KeptSelf DEF masterVars
  <2> HIDE DEF x, m, o
  <2>7. /\ Ends(Deliver(x, b), m)
        /\ Positioned(x, b, o, m)
        /\ o + Len(b) = m.backlog.moff
    BY <1>3, <2>3, <2>4, <2>5, ResumePositioned
  <2>8. IsPrefix(Deliver(x, b)[1], m.data)
    <3>1. Deliver(x, b)[1] = m.data
      BY <2>7 DEF Ends
    <3>2. m.data \in Seq(DBs \X Nat)
      BY <2>4 DEF MasterTypedAt, Dataset
    <3> QED BY <3>1, <3>2, PrefixFacts
  <2>9. Start(s)' = x /\ Rest(s)' = b /\ From(s)' = o
    BY <1>7, <2>2 DEF x
  <2> QED BY <2>6, <2>7, <2>8, <2>9, InLineNext
<1>10. Stage(s)'
  <2>1. Streams(s)'
    <3>1. <<>> \in Seq(Entry)
      OBVIOUS
    <3> QED BY <1>5, <1>6, <3>1 DEF Streams
  <2> QED BY <1>1, <1>2, <1>5, <1>6, <2>1 DEF Stage
<1>11. CachedPast(s)' /\ Waits(s)' /\ Files(s)'
  BY <1>1, <1>5 DEF CachedPast, Waits, Files, masterVars
<1>12. Runs(s)'
  BY <1>1, <1>5, <1>8 DEF Runs, SlaveList, masterVars
<1>13. Children'
  <2>1. \A t \in Slaves : client'[t].replstate = "END" => client[t].replstate = "END"
    BY <1>5
  <2> QED BY <1>5, <2>1, ChildrenKept DEF AllInOrder
<1>14. \A t \in Slaves \ {s} : Untouched(t)
  BY <1>5, OthersUntouched
<1> QED BY <1>5, <1>9, <1>10, <1>11, <1>12, <1>13, <1>14, LocalStep DEF SlaveInOrder

(* syncCommand() after a refused PSYNC: what it announces is the offset of  *)
(* the master, and a new backlog only serves offsets after it.              *)
LEMMA SyncFullFacts ==
  ASSUME IInv, IInv', NEW s \in Slaves, SyncFull(s), client'[s].replstate # "CLOSED"
  PROVE  /\ backlog'.active /\ Announced = backlog'.moff
         /\ \A t \in Slaves : IsSlave(client[t]) => backlog.active
         /\ backlog.active => backlog' = backlog
         /\ slaveseldb' = -1 /\ data' = data /\ runid' = runid
         /\ Kept(Now, Now')
<1>1. /\ slaveseldb' = -1 /\ data' = data /\ runid' = runid
      /\ backlog' = IF SlaveList = {} /\ ~backlog.active THEN Create(backlog) ELSE backlog
  BY DEF SyncFull, masterVars
<1>2. SlaveList # {} => backlog.active
  BY DEF IInv, SlavesHaveBacklog
<1>3. /\ IsBacklog(backlog, Entry) /\ RingMatchesStream(backlog)
  BY DEF IInv, BacklogInOrder
<1>4. /\ backlog.moff \in Nat /\ backlog.moff = Len(backlog.stream)
      /\ backlog.active \in BOOLEAN
      /\ backlog.stream \in Seq(Streamed) /\ backlog.off \in Nat
  BY <1>3, BacklogFields DEF RingMatchesStream, Streamed
<1>5. MasterTypedAt(Now) /\ MasterTypedAt(Now')
  <2>1. MasterTypedAt(Now)'
    BY NowTyped, PTL
  <2>2. MasterTypedAt(Now)' <=> MasterTypedAt(Now')
    BY DEF MasterTypedAt
  <2> QED BY <2>1, <2>2, NowTyped
<1>6. /\ Now.db = slaveseldb /\ Now'.db = -1 /\ Now'.data = data /\ Now.data = data
      /\ Now.backlog = backlog /\ Now'.backlog = backlog'
  BY <1>1 DEF Now
<1>7. CASE backlog.active
  <2>1. backlog' = backlog
    BY <1>1, <1>7
  <2>2. Kept(Now, Now')
    BY <1>4, <1>5, <1>6, <2>1 DEF Kept
  <2> QED BY <1>1, <1>2, <1>7, <2>1, <2>2 DEF Announced, SlaveList
<1>8. CASE ~backlog.active
  <2>1. backlog' = Create(backlog)
    BY <1>1, <1>2, <1>8
  <2>2. /\ backlog'.active /\ backlog'.moff = backlog.moff + 1
        /\ backlog'.off = backlog.moff + 2
        /\ backlog'.stream = Append(backlog.stream, Burnt)
    BY <1>4, <2>1 DEF Create, Emptied
  <2>3. \A k \in 1 .. backlog.moff : backlog'.stream[k] = backlog.stream[k]
    BY <1>4, <2>2, AppendProperties DEF Streamed
  <2>4. Kept(Now, Now')
    BY <1>4, <1>5, <1>6, <1>8, <2>2, <2>3 DEF Kept
  <2> QED BY <1>1, <1>2, <1>8, <2>2, <2>4 DEF Announced, SlaveList
<1> QED BY <1>4, <1>7, <1>8

LEMMA AttachFacts ==
  ASSUME IInv, IInv', AllInOrder, NEW s \in Slaves, SyncFull(s),
         NEW state \in {"START", "END"}, NEW obuf \in Seq(Entry), Attach(s, state, obuf)
  PROVE  /\ client'[s].replstate = state /\ client'[s].obuf = obuf
         /\ client'[s].file = <<>>
         /\ \A t \in Slaves \ {s} : client'[t] = client[t] /\ wire'[t] = wire[t]
         /\ slave' = slave /\ slave[s].state = "RECEIVE_PONG"
         /\ Announces(wire'[s]) /\ ~HasRdb(wire'[s])
         /\ Body(wire'[s]) = <<>> /\ Commands(wire'[s]) = <<>>
         /\ Head(wire'[s]).runid = runid /\ Head(wire'[s]).offset = backlog'.moff
         /\ RunOf(s)' = runid' /\ OffsetOf(s)' = backlog'.moff /\ Rest(s)' = obuf
<1> DEFINE c == client[s]
           m == FullResync(Announced)
           v == Append(<<>>, m)
<1>1. c.psync /\ ~PsyncAccepted(s)
  BY DEF SyncFull
<1>2. /\ c.replstate = "NONE" /\ slave[s].state = "RECEIVE_PONG" /\ wire[s] = <<>>
      /\ c.file = <<>>
  BY <1>1, AsksFacts
<1>3. /\ client'[s].replstate = state /\ client'[s].obuf = obuf /\ client'[s].file = <<>>
      /\ \A t \in Slaves \ {s} : client'[t] = client[t] /\ wire'[t] = wire[t]
      /\ wire'[s] = v /\ slave' = slave
  <2>1. client \in [Slaves -> ClientType] /\ wire \in [Slaves -> Seq(Message)]
        /\ c \in ClientType
    BY DEF IInv, TypeOK
  <2>2. wire' = [wire EXCEPT ![s] = Append(@, m)] /\ slave' = slave
    BY DEF SyncFull
  <2> HIDE DEF m
  <2>3. /\ client'[s].replstate = state /\ client'[s].obuf = obuf /\ client'[s].file = <<>>
        /\ \A t \in Slaves \ {s} : client'[t] = client[t]
    BY <1>2, <2>1 DEF Attach, ClientType
  <2> QED BY <1>2, <2>1, <2>2, <2>3
<1>4. Announced = backlog'.moff /\ runid' = runid
  BY <1>3, SyncFullFacts
<1>5. m.op = "FULLRESYNC" /\ m.runid = runid /\ m.offset = backlog'.moff
  BY <1>4 DEF FullResync
<1> HIDE DEF m
<1>6. /\ Replied(v) /\ Announces(v) /\ Head(v) = m /\ Body(v) = <<>>
      /\ ~HasRdb(v) /\ Commands(v) = <<>>
  BY <1>5, WireFull
<1> HIDE DEF v
<1>7. /\ RunOf(s)' = runid' /\ OffsetOf(s)' = backlog'.moff
  BY <1>3, <1>4, <1>5, <1>6 DEF RunOf, OffsetOf
<1>8. Rest(s)' = obuf
  <2>1. <<>> \o obuf = obuf
    OBVIOUS
  <2> QED BY <1>3, <1>6, <2>1 DEF Rest
<1> QED BY <1>2, <1>3, <1>5, <1>6, <1>7, <1>8

LEMMA AttachedStep ==
  ASSUME IInv, IInv', AllInOrder, NEW s \in Slaves, SyncFull(s),
         NEW state \in {"START", "END"}, NEW obuf \in Seq(Entry), Attach(s, state, obuf),
         \A t \in Slaves \ {s} : RdbToCome(t)' = RdbToCome(t) /\ (SentRdb(t)' <=> SentRdb(t)),
         s \notin child'.sent, Children', InLine(s)', Waits(s)'
  PROVE  AllInOrder'
<1>1. /\ client'[s].replstate = state /\ client'[s].obuf = obuf
      /\ client'[s].file = <<>>
      /\ \A t \in Slaves \ {s} : client'[t] = client[t] /\ wire'[t] = wire[t]
      /\ slave' = slave /\ slave[s].state = "RECEIVE_PONG"
      /\ Announces(wire'[s]) /\ Body(wire'[s]) = <<>>
      /\ RunOf(s)' = runid'
  BY AttachFacts
<1>2. /\ backlog.active => backlog' = backlog
      /\ \A t \in Slaves : IsSlave(client[t]) => backlog.active
      /\ data' = data /\ runid' = runid /\ Kept(Now, Now')
  BY <1>1, SyncFullFacts
<1>3. Stage(s)'
  <2>1. Transfers(s)'
    BY <1>1 DEF Transfers, SentRdb
  <2> QED BY <1>1, <2>1 DEF Stage
<1>4. CachedPast(s)' /\ Runs(s)' /\ Files(s)'
  <2>1. slave[s].runid \in Nat /\ runid \in Nat /\ slave[s].runid <= runid /\ CachedPast(s)
    BY SlaveTyped DEF AllInOrder, SlaveInOrder, Runs
  <2> QED BY <1>1, <1>2, <2>1 DEF CachedPast, Runs, Files
<1>5. ASSUME NEW t \in Slaves
      PROVE  SlaveInOrder(t)'
  <2>1. CASE t = s
    BY <1>3, <1>4, <2>1 DEF SlaveInOrder
  <2>2. CASE t # s
    <3>1. SlaveInOrder(t) /\ Untouched(t)
      BY <1>1, <2>2 DEF AllInOrder, Untouched
    <3> QED BY <1>2, <3>1, SlaveKept
  <2> QED BY <2>1, <2>2
<1> QED BY <1>5 DEF AllInOrder

LEMMA OthersToCome ==
  ASSUME NEW t \in Slaves, client'[t] = client[t],
         IsSlave(client[t]) => backlog' = backlog,
         \/ child' = child
         \/ client[t].replstate # "END"
  PROVE  RdbToCome(t)' = RdbToCome(t) /\ (SentRdb(t)' <=> SentRdb(t))
<1>1. CASE client[t].replstate # "END"
  BY <1>1 DEF RdbToCome, SentRdb
<1>2. CASE client[t].replstate = "END"
  <2>1. child' = child /\ backlog' = backlog
    BY <1>2 DEF IsSlave, SlaveStates
  <2> QED BY <2>1, ToComeSame
<1> QED BY <1>1, <1>2

(* The view of a slave that joins a child: nothing precedes its RDB.        *)
LEMMA JoinedInLine ==
  ASSUME IInv, IInv', NEW s \in Slaves, NEW content \in Dataset, NEW at, NEW end,
         NEW obuf \in Seq(Entry),
         RdbOf(s)' = <<Rdb(content, at, end)>>, Rest(s)' = obuf, OffsetOf(s)' = backlog'.moff,
         at = backlog'.moff - Len(obuf),
         IsPrefix(Deliver(<<content, 0>>, obuf)[1], Now'.data),
         Ends(Deliver(<<content, 0>>, obuf), Now')
  PROVE  InLine(s)'
<1> DEFINE x == <<content, 0>>
           m == Now'
           o == backlog'.moff
<1>1. MasterTypedAt(m)
  <2>1. MasterTypedAt(Now)'
    BY NowTyped, PTL
  <2> QED BY <2>1 DEF MasterTypedAt
<1>2. m.backlog.moff = o /\ o \in Nat
  BY <1>1 DEF Now, MasterTypedAt
<1>3. /\ Replaced(s)' /\ Start(s)' = x /\ From(s)' = o
      /\ Exact(s)' <=> at = o
  BY DEF Replaced, Start, From, Exact, Rdb
<1>4. x \in Point /\ obuf \in Seq(Streamed) /\ Len(obuf) \in Nat
  BY ConstantsTyped, PositionTyped DEF Point
<1> HIDE DEF x, m, o
<1>5. ASSUME at = o
      PROVE  Positioned(x, obuf, o, m) /\ o + Len(obuf) = m.backlog.moff
  <2>1. Len(obuf) = 0
    BY <1>2, <1>4, <1>5 DEF o
  <2>2. o + Len(obuf) = m.backlog.moff
    BY <1>2, <2>1
  <2>3. \A k \in 1 .. Len(obuf) : obuf[k] = m.backlog.stream[o + k]
    BY <2>1
  <2>4. Ends(Deliver(x, obuf), m)
    BY DEF x, m
  <2> QED BY <1>1, <1>2, <1>4, <2>2, <2>3, <2>4, EndPositioned
<1> QED BY <1>3, <1>5, InLineNext DEF x, m

(* A slave that finds a child at work and another one waiting for it.       *)
LEMMA SyncJoinsInOrder ==
  ASSUME IInv, IInv', AllInOrder, NEW s \in Slaves, SyncJoinsBgsave(s)
  PROVE  AllInOrder'
<1>1. PICK t \in In("END") : Attach(s, "END", client[t].obuf)
  BY DEF SyncJoinsBgsave
<1> DEFINE obuf == client[t].obuf
<1>2. /\ SyncFull(s) /\ child.type = "disk" /\ child' = child /\ budget' = budget
      /\ t \in Slaves /\ client[t].replstate = "END"
  BY DEF SyncJoinsBgsave, In
<1>3. /\ Stage(t) /\ Files(t) /\ Runs(t) /\ InLine(t) /\ obuf \in Seq(Entry)
  BY <1>2, SlaveTyped DEF AllInOrder, SlaveInOrder
<1>4. /\ client'[s].replstate = "END" /\ client'[s].obuf = obuf /\ client'[s].file = <<>>
      /\ \A u \in Slaves \ {s} : client'[u] = client[u]
      /\ ~HasRdb(wire'[s])
      /\ OffsetOf(s)' = backlog'.moff /\ Rest(s)' = obuf
  BY <1>1, <1>2, <1>3, AttachFacts
<1>5. /\ backlog.active => backlog' = backlog
      /\ \A u \in Slaves : IsSlave(client[u]) => backlog.active
      /\ data' = data /\ runid' = runid /\ Kept(Now, Now')
  BY <1>2, <1>4, SyncFullFacts
<1>6. IsSlave(client[t]) /\ t \in SlaveList /\ RunOf(t) = runid /\ backlog' = backlog
  BY <1>2, <1>3, <1>5 DEF IsSlave, SlaveStates, SlaveList, Runs
<1>7. child.fds = {} /\ child.sent = {} /\ child.content \in Dataset
  BY <1>2 DEF AllInOrder, Children, IInv, ChildConsistent, TypeOK, ChildType
<1>8. InLine(s)'
  <2> DEFINE r == RdbFor(client[t], "length")
             x == <<child.content, 0>>
  <2>1. RdbToCome(t) = <<r>>
    BY <1>2, <1>7 DEF RdbToCome, Served
  <2>2. RdbToCome(s)' = <<r>>
    BY <1>2, <1>4, <1>6, <1>7 DEF RdbToCome, Served, RdbFor
  <2>3. ~HasRdb(wire[t]) /\ Commands(wire[t]) = <<>>
    <3>1. RdbToCome(t) # <<>>
      BY <2>1
    <3> QED BY <1>2, <1>3, <3>1, ToComeFacts
  <2>4. r = Rdb(child.content, backlog'.moff - Len(obuf), "length")
    BY <1>6 DEF RdbFor
  <2>5. RdbOf(t) = <<r>> /\ RdbOf(s)' = <<r>>
    BY <1>4, <2>1, <2>2, <2>3 DEF RdbOf
  <2>6. Start(t) = x /\ Rest(t) = obuf /\ Known(t)
    <3>1. r.content = child.content
      BY <2>4 DEF Rdb
    <3>2. <<>> \o obuf = obuf
      BY <1>3
    <3> QED BY <2>3, <2>5, <3>1, <3>2 DEF Start, Replaced, Rest, Known
  <2>7. IsPrefix(Deliver(x, obuf)[1], Now.data) /\ Ends(Deliver(x, obuf), Now)
    BY <1>2, <1>3, <1>6, <2>6, InLineIs
  <2>8. Ends(Deliver(x, obuf), Now') /\ Now'.data = Now.data
    <3>1. Now'.data = Now.data /\ Now'.db \in {Now.db, -1}
      BY <1>5 DEF Kept
    <3> QED BY <2>7, <3>1 DEF Ends
  <2> HIDE DEF x, r, obuf
  <2> QED BY <1>3, <1>4, <1>7, <2>4, <2>5, <2>7, <2>8, JoinedInLine DEF x
<1>9. Children'
  <2>1. EndHasChild'
    BY <1>2 DEF EndHasChild
  <2>2. /\ Happened("forkfail")' <=> Happened("forkfail")
        /\ Happened("bgsave")' <=> Happened("bgsave")
    BY <1>2 DEF Happened
  <2> QED BY <1>2, <2>1, <2>2 DEF AllInOrder, Children
<1>10. \A u \in Slaves \ {s} : RdbToCome(u)' = RdbToCome(u) /\ (SentRdb(u)' <=> SentRdb(u))
  BY <1>2, <1>4, <1>5, OthersToCome
<1>11. Waits(s)' /\ s \notin child'.sent
  BY <1>2, <1>4, <1>7 DEF Waits
<1> QED BY <1>1, <1>2, <1>3, <1>8, <1>9, <1>10, <1>11, AttachedStep

LEMMA SyncWaitsInOrder ==
  ASSUME IInv, IInv', AllInOrder, NEW s \in Slaves, SyncWaits(s)
  PROVE  AllInOrder'
<1> DEFINE obuf == <<>>
<1>1. /\ SyncFull(s) /\ child' = child /\ budget' = budget /\ Attach(s, "START", obuf)
  BY DEF SyncWaits
<1>2. obuf \in Seq(Entry) /\ obuf \in Seq(SelectsOnly) /\ Len(obuf) = 0
  OBVIOUS
<1> HIDE DEF obuf
<1>3. /\ client'[s].replstate = "START" /\ client'[s].obuf = obuf /\ client'[s].file = <<>>
      /\ \A u \in Slaves \ {s} : client'[u] = client[u]
      /\ ~HasRdb(wire'[s]) /\ Announces(wire'[s])
      /\ OffsetOf(s)' = backlog'.moff /\ slave' = slave /\ slave[s].state = "RECEIVE_PONG"
  BY <1>1, <1>2, AttachFacts
<1>4. /\ backlog.active => backlog' = backlog
      /\ \A u \in Slaves : IsSlave(client[u]) => backlog.active
      /\ slaveseldb' = -1
  BY <1>1, <1>3, SyncFullFacts
<1>5. InLine(s)'
  <2>1. RdbOf(s)' = <<>>
    BY <1>3 DEF RdbOf, RdbToCome
  <2>2. ~Known(s)'
    BY <1>3, <2>1 DEF Known, Replaced
  <2> QED BY <2>2 DEF InLine
<1>6. Waits(s)'
  <2>1. backlog'.moff \in Nat
    BY BacklogFields DEF IInv, BacklogInOrder
  <2> QED BY <1>2, <1>3, <1>4, <2>1 DEF Waits
<1>7. Children'
  <2>1. \A t \in Slaves : client'[t].replstate = "END" => client[t].replstate = "END"
    BY <1>3
  <2> QED BY <1>1, <2>1, ChildrenKept DEF AllInOrder
<1>8. \A u \in Slaves \ {s} : RdbToCome(u)' = RdbToCome(u) /\ (SentRdb(u)' <=> SentRdb(u))
  BY <1>1, <1>3, <1>4, OthersToCome
<1>9. s \notin child'.sent
  <2>1. client[s].psync
    BY <1>1 DEF SyncFull
  <2> QED BY <1>1, <2>1, AsksFacts
<1> QED BY <1>1, <1>2, <1>5, <1>6, <1>7, <1>8, <1>9, AttachedStep

LEMMA SyncStartsInOrder ==
  ASSUME IInv, IInv', AllInOrder, ~MayBeLeftInEnd, NEW s \in Slaves, SyncStartsBgsave(s)
  PROVE  AllInOrder'
<1> DEFINE obuf == <<>>
<1>1. /\ SyncFull(s) /\ child.type = "none" /\ ~Diskless /\ budget' = budget
      /\ child' = Forked("disk", {}) /\ Attach(s, "END", obuf)
  BY DEF SyncStartsBgsave, ReplChild
<1>2. obuf \in Seq(Entry) /\ Len(obuf) = 0 /\ obuf = <<>>
  OBVIOUS
<1> HIDE DEF obuf
<1>3. /\ client'[s].replstate = "END" /\ client'[s].obuf = obuf /\ client'[s].file = <<>>
      /\ \A u \in Slaves \ {s} : client'[u] = client[u]
      /\ ~HasRdb(wire'[s]) /\ Rest(s)' = obuf
      /\ OffsetOf(s)' = backlog'.moff
  BY <1>1, <1>2, AttachFacts
<1>4. /\ backlog.active => backlog' = backlog
      /\ \A u \in Slaves : IsSlave(client[u]) => backlog.active
      /\ data' = data /\ slaveseldb' = -1
  BY <1>1, <1>3, SyncFullFacts
<1>5. /\ child'.type = "disk" /\ child'.content = data /\ child'.fds = {}
      /\ child'.sent = {}
  BY <1>1 DEF Forked
<1>6. In("END") = {}
  BY <1>1 DEF MayBeLeftInEnd, AllInOrder, Children, EndHasChild
<1>7. InLine(s)'
  <2>1. RdbToCome(s)' = <<Rdb(data, backlog'.moff - Len(obuf), "length")>>
    BY <1>3, <1>5 DEF RdbToCome, Served, RdbFor
  <2>2. RdbOf(s)' = <<Rdb(data, backlog'.moff - Len(obuf), "length")>>
    BY <1>3, <2>1 DEF RdbOf
  <2>3. Deliver(<<data, 0>>, obuf) = <<data, 0>>
    BY <1>2, DeliverNothing
  <2>4. Now'.data = data /\ Now'.db = -1
    BY <1>4 DEF Now
  <2>5. data \in Dataset /\ IsPrefix(data, data)
    BY PrefixFacts DEF IInv, TypeOK, MasterTyped, Dataset
  <2>6. IsPrefix(Deliver(<<data, 0>>, obuf)[1], Now'.data) /\ Ends(Deliver(<<data, 0>>, obuf), Now')
    BY <2>3, <2>4, <2>5 DEF Ends
  <2> DEFINE at == backlog'.moff - Len(obuf)
  <2>7. at = backlog'.moff - Len(obuf) /\ RdbOf(s)' = <<Rdb(data, at, "length")>>
    BY <2>2
  <2> HIDE DEF at
  <2> QED BY <1>2, <1>3, <2>5, <2>6, <2>7, JoinedInLine
<1>8. Children'
  <2>1. EndHasChild'
    BY <1>5 DEF EndHasChild
  <2>2. /\ Happened("forkfail")' <=> Happened("forkfail")
        /\ Happened("bgsave")' <=> Happened("bgsave")
    BY <1>1 DEF Happened
  <2> QED BY <1>1, <1>5, <2>1, <2>2 DEF AllInOrder, Children
<1>9. \A u \in Slaves \ {s} : RdbToCome(u)' = RdbToCome(u) /\ (SentRdb(u)' <=> SentRdb(u))
  BY <1>3, <1>4, <1>6, OthersToCome DEF In
<1>10. Waits(s)' /\ s \notin child'.sent
  BY <1>3, <1>5 DEF Waits
<1> QED BY <1>1, <1>2, <1>7, <1>8, <1>9, <1>10, AttachedStep

LEMMA SyncFailsLeaves ==
  ASSUME IInv, IInv', AllInOrder, NEW s \in Slaves, SyncFails(s)
  PROVE  MayBeLeftInEnd'
<1>1. Spend({"forkfail"}) /\ ~Diskless
  BY DEF SyncFails
<1>2. "forkfail" \in {"forkfail"} \cap Events
  BY DEF Events
<1>3. Happened("forkfail")'
  BY <1>1, <1>2, SpendFacts DEF AllInOrder
<1> QED BY <1>1, <1>3 DEF MayBeLeftInEnd

----------------------------------------------------------------------------
(* The steps of the master that touch no connection.                        *)
LEMMA NowTypedNext ==
  ASSUME IInv'
  PROVE  MasterTypedAt(Now')
<1>1. MasterTypedAt(Now)'
  BY NowTyped, PTL
<1> QED BY <1>1 DEF MasterTypedAt

LEMMA MasterSideKept ==
  ASSUME IInv, AllInOrder, Kept(Now, Now'), runid' = runid,
         backlog'.moff = backlog.moff, backlog'.stream = backlog.stream,
         Children', \A t \in Slaves : Untouched(t)
  PROVE  AllInOrder'
<1>1. ASSUME NEW t \in Slaves
      PROVE  SlaveInOrder(t)'
  <2>1. SlaveInOrder(t) /\ Untouched(t)
    BY DEF AllInOrder
  <2> QED BY <2>1, SlaveKept
<1> QED BY <1>1 DEF AllInOrder

LEMMA BacklogSideInOrder ==
  ASSUME IInv, IInv', AllInOrder, CronFreeBacklog \/ \E size \in BacklogSizes : ConfigResize(size)
  PROVE  AllInOrder'
<1>1. /\ UNCHANGED <<masterVars, slaveseldb, child, client, slave, wire>>
      /\ \/ backlog' = Free(backlog)
         \/ \E size \in BacklogSizes : size # backlog.size /\ backlog' = Resize(backlog, size)
  BY DEF CronFreeBacklog, ConfigResize
<1>2. /\ IsBacklog(backlog, Entry) /\ RingMatchesStream(backlog)
  BY DEF IInv, BacklogInOrder
<1>3. /\ backlog.moff \in Nat /\ backlog.histlen \in Nat /\ backlog.off \in Nat
      /\ backlog.active \in BOOLEAN
      /\ backlog.active => backlog.off = backlog.moff - backlog.histlen + 1
  BY <1>2, BacklogFields DEF RingMatchesStream
<1>4. /\ backlog'.moff = backlog.moff /\ backlog'.stream = backlog.stream
      /\ backlog'.active => backlog.active /\ backlog.off <= backlog'.off
  <2>1. CASE backlog' = Free(backlog)
    BY <2>1 DEF Free
  <2>2. ASSUME NEW size \in BacklogSizes, size # backlog.size,
               backlog' = Resize(backlog, size)
        PROVE  /\ backlog'.moff = backlog.moff /\ backlog'.stream = backlog.stream
               /\ backlog'.active => backlog.active /\ backlog.off <= backlog'.off
    BY <1>3, <2>2 DEF Resize, Emptied
  <2> QED BY <1>1, <2>1, <2>2
<1>5. Kept(Now, Now')
  <2>1. MasterTypedAt(Now) /\ MasterTypedAt(Now')
    BY NowTyped, NowTypedNext
  <2>2. /\ Now'.data = Now.data /\ Now'.db = Now.db
        /\ Now.backlog = backlog /\ Now'.backlog = backlog'
    BY <1>1 DEF Now, masterVars
  <2> QED BY <1>3, <1>4, <2>1, <2>2 DEF Kept
<1>6. \A t \in Slaves : Untouched(t)
  <2>1. ASSUME NEW t \in Slaves PROVE Untouched(t)
    <3>1. client'[t] = client[t] /\ child' = child
      BY <1>1
    <3> QED BY <1>1, <1>4, <3>1, ToComeSame DEF Untouched
  <2> QED BY <2>1
<1>7. Children'
  <2>1. \A e \in Events : budget[e] \in Nat /\ budget'[e] \in Nat /\ Budget[e] \in Nat
    BY ConstantsTyped DEF IInv, TypeOK, MasterTyped
  <2>2. \A e \in Events : budget'[e] <= budget[e]
    <3>1. CASE CronFreeBacklog
      BY <2>1, <3>1 DEF CronFreeBacklog
    <3>2. CASE \E size \in BacklogSizes : ConfigResize(size)
      BY <3>2, SpendFacts DEF ConfigResize
    <3> QED BY <3>1, <3>2
  <2>3. \A t \in Slaves : client'[t].replstate = "END" => client[t].replstate = "END"
    BY <1>1
  <2> QED BY <1>1, <2>1, <2>2, <2>3, ChildrenLess DEF AllInOrder
<1> QED BY <1>1, <1>4, <1>5, <1>6, <1>7, MasterSideKept DEF masterVars

(* BGSAVE by hand: slaves that a failed fork left in END would be taken for *)
(* those the child is for.                                                  *)
LEMMA BgsaveInOrder ==
  ASSUME IInv, IInv', AllInOrder, Bgsave
  PROVE  MayBeLeftInEnd' \/ AllInOrder'
<1>1. /\ child.type = "none" /\ Spend({"bgsave"}) /\ child' = Forked("disk", {})
      /\ UNCHANGED <<masterVars, backlog, slaveseldb, client, slave, wire>>
  BY DEF Bgsave
<1>2. "bgsave" \in {"bgsave"} \cap Events /\ "forkfail" \in Events
  BY DEF Events
<1>3. /\ \A e \in Events : budget'[e] <= budget[e]
      /\ \A e \in Events : budget[e] \in Nat /\ budget'[e] \in Nat /\ Budget[e] \in Nat
      /\ Happened("bgsave")'
  BY <1>1, <1>2, SpendFacts DEF AllInOrder
<1>4. Happened("forkfail") => Happened("forkfail")'
  BY <1>2, <1>3 DEF Happened
<1>5. ASSUME ~Happened("forkfail")
      PROVE  AllInOrder'
  <2>1. In("END") = {}
    BY <1>1, <1>5 DEF AllInOrder, Children, EndHasChild
  <2>2. child'.type = "disk" /\ child'.fds = {}
    BY <1>1 DEF Forked
  <2>3. Children'
    <3>1. EndHasChild'
      BY <2>2 DEF EndHasChild
    <3>2. \A e \in Events : budget'[e] <= Budget[e]
      BY <1>3 DEF AllInOrder, Children
    <3> QED BY <1>3, <2>2, <3>1, <3>2 DEF Children
  <2>4. \A t \in Slaves : Untouched(t)
    BY <1>1, <2>1, OthersToCome DEF Untouched, In
  <2>5. Kept(Now, Now')
    BY <1>1, KeptSelf DEF masterVars
  <2> QED BY <1>1, <2>3, <2>4, <2>5, MasterSideKept DEF masterVars
<1> QED BY <1>3, <1>4, <1>5 DEF MayBeLeftInEnd

(* A new process: nothing is known of it yet.                               *)
LEMMA MasterCrashInOrder ==
  ASSUME IInv, IInv', AllInOrder, MasterCrash
  PROVE  AllInOrder'
<1>1. /\ runid' = runid + 1 /\ slave' = slave /\ wire' = wire /\ child' = NoChild
      /\ client' = [s \in Slaves |-> Closed] /\ Spend({"crash"})
  BY DEF MasterCrash
<1>2. ASSUME NEW s \in Slaves
      PROVE  SlaveInOrder(s)'
  <2>1. Stage(s) /\ Files(s) /\ Runs(s)
    BY DEF AllInOrder, SlaveInOrder
  <2>2. /\ client'[s].replstate = "CLOSED" /\ client'[s].obuf = <<>>
        /\ client'[s].file = <<>> /\ ~IsSlave(client'[s])
        /\ slave'[s] = slave[s] /\ wire'[s] = wire[s]
    BY <1>1 DEF Closed, IsSlave, SlaveStates
  <2>3. RunOf(s)' = RunOf(s)
    BY <2>2 DEF RunOf
  <2>4. /\ RunOf(s)' <= runid /\ slave'[s].runid <= runid /\ runid \in Nat
        /\ RunOf(s)' \in Nat /\ slave'[s].runid \in Nat
    BY <2>1, <2>2, <2>3, ViewTyped, SlaveTyped DEF Runs
  <2>5. RunOf(s)' # runid' /\ slave'[s].runid # runid'
        /\ RunOf(s)' <= runid' /\ slave'[s].runid <= runid'
    BY <1>1, <2>4
  <2>6. InLine(s)' /\ CachedPast(s)'
    BY <2>5 DEF InLine, CachedPast
  <2>7. Runs(s)' /\ Files(s)' /\ Waits(s)'
    BY <2>2, <2>5 DEF Runs, Files, Waits, SlaveList
  <2> QED BY <2>1, <2>2, <2>6, <2>7, ClosedStage DEF SlaveInOrder
<1>3. Children'
  <2>1. child'.type = "none" /\ child'.fds = {}
    BY <1>1 DEF NoChild
  <2>2. EndHasChild'
    BY <1>1 DEF EndHasChild, In, Closed
  <2>3. \A e \in Events : budget'[e] <= Budget[e]
    BY <1>1, SpendFacts DEF AllInOrder, Children
  <2> QED BY <2>1, <2>2, <2>3 DEF Children
<1> QED BY <1>2, <1>3 DEF AllInOrder

----------------------------------------------------------------------------
(* replicationFeedSlaves()                                                  *)
Propagated(db, e) == Append(Selects(db), e)

LEMMA SelectsTyped ==
  ASSUME NEW db, db \in DBs \/ db = slaveseldb, NEW e \in Entry
  PROVE  /\ Selects(db) \in Seq(Entry) /\ Selects(db) \in Seq(SelectsOnly)
         /\ Propagated(db, e) \in Seq(Entry) /\ Propagated(db, e) \in Seq(Streamed)
         /\ Len(Propagated(db, e)) = Len(Selects(db)) + 1 /\ Len(Selects(db)) \in Nat
         /\ slaveseldb = db => Selects(db) = <<>> /\ Propagated(db, e) = <<e>>
         /\ slaveseldb # db => /\ Selects(db) = <<Select(db)>>
                               /\ Propagated(db, e) = Append(<<Select(db)>>, e)
<1>1. CASE slaveseldb = db
  <2>1. Selects(db) = <<>>
    BY <1>1 DEF Selects
  <2>2. Append(<<>>, e) = <<e>>
    OBVIOUS
  <2> QED BY <1>1, <2>1, <2>2, PositionTyped DEF Propagated, Streamed
<1>2. CASE slaveseldb # db
  <2>1. Selects(db) = <<Select(db)>>
    BY <1>2 DEF Selects
  <2>2. Select(db) \in Entry /\ Select(db) \in SelectsOnly
    BY <1>2 DEF Entry, Select, SelectsOnly
  <2> DEFINE a == Select(db)
  <2> HIDE DEF a
  <2>3. <<a>> \in Seq(Entry) /\ <<a>> \in Seq(SelectsOnly) /\ Len(<<a>>) = 1
    BY <2>2 DEF a
  <2>4. Append(<<a>>, e) \in Seq(Entry) /\ Len(Append(<<a>>, e)) = 2
    BY <2>2, <2>3 DEF a
  <2>5. Append(<<a>>, e) \in Seq(Streamed)
    BY <2>4 DEF Streamed
  <2> QED BY <1>2, <2>1, <2>3, <2>4, <2>5 DEF Propagated, a
<1> QED BY <1>1, <1>2

LEMMA FeedGrows ==
  ASSUME NEW b, IsBacklog(b, Entry), RingMatchesStream(b), b.active, NEW e \in Entry
  PROVE  /\ Feed(b, e).active /\ Feed(b, e).moff = b.moff + 1
         /\ Feed(b, e).stream = Append(b.stream, e)
         /\ b.off <= Feed(b, e).off
         /\ IsBacklog(Feed(b, e), Entry) /\ RingMatchesStream(Feed(b, e))
<1>1. /\ b.moff \in Nat /\ b.histlen \in Nat /\ b.off \in Nat /\ b.size \in Nat
      /\ b.off = b.moff - b.histlen + 1
  BY BacklogFields DEF RingMatchesStream
<1>2. b.off <= Feed(b, e).off
  BY <1>1 DEF Feed
<1>3. IsBacklog(Feed(b, e), Entry) /\ RingMatchesStream(Feed(b, e))
  BY FeedPreserves
<1> QED BY <1>2, <1>3 DEF Feed

LEMMA AppendTwice ==
  ASSUME NEW S, NEW st \in Seq(S), NEW a \in S, NEW e \in S
  PROVE  /\ Append(st, e) = st \o <<e>>
         /\ Append(Append(st, a), e) = st \o Append(<<a>>, e)
<1>1. Append(st, e) = st \o <<e>>
  OBVIOUS
<1>2. Append(Append(st, a), e) = st \o Append(<<a>>, e)
  OBVIOUS
<1> QED BY <1>1, <1>2

LEMMA FedBacklogGrows ==
  ASSUME IInv, NEW db, db \in DBs \/ db = slaveseldb, NEW e \in Entry, backlog.active
  PROVE  LET b == FedBacklog(db, e) IN
         /\ b.active /\ b.moff = backlog.moff + Len(Propagated(db, e))
         /\ backlog.off <= b.off
         /\ Extends(b.stream, backlog.stream, Propagated(db, e))
<1>1. /\ IsBacklog(backlog, Entry) /\ RingMatchesStream(backlog)
  BY DEF IInv, BacklogInOrder
<1>2. backlog.stream \in Seq(Streamed) /\ backlog.moff \in Nat /\ backlog.off \in Nat
  BY <1>1, BacklogFields DEF Streamed
<1>3. CASE slaveseldb = db
  <2> DEFINE b == Feed(backlog, e)
  <2>1. FedBacklog(db, e) = b
    BY <1>3 DEF FedBacklog
  <2>2. b.active /\ b.moff = backlog.moff + 1 /\ backlog.off <= b.off
        /\ b.stream = Append(backlog.stream, e)
    BY <1>1, FeedGrows
  <2>3. Append(backlog.stream, e) = backlog.stream \o <<e>> /\ Len(<<e>>) = 1
    BY <1>2, AppendTwice DEF Streamed
  <2> HIDE DEF b
  <2> QED BY <1>3, <2>1, <2>2, <2>3, SelectsTyped DEF Extends
<1>4. CASE slaveseldb # db
  <2> DEFINE a == Select(db)
             c == Feed(backlog, a)
             b == Feed(c, e)
  <2>1. FedBacklog(db, e) = b
    BY <1>4 DEF FedBacklog
  <2>2. a \in Entry
    BY <1>4 DEF Entry, Select
  <2> HIDE DEF a
  <2>3. /\ c.active /\ c.moff = backlog.moff + 1 /\ backlog.off <= c.off
        /\ c.stream = Append(backlog.stream, a)
        /\ IsBacklog(c, Entry) /\ RingMatchesStream(c)
    BY <1>1, <2>2, FeedGrows
  <2> HIDE DEF c
  <2>4. /\ b.active /\ b.moff = c.moff + 1 /\ c.off <= b.off
        /\ b.stream = Append(c.stream, e) /\ IsBacklog(b, Entry)
    BY <2>3, FeedGrows
  <2> HIDE DEF b
  <2>5. c.off \in Nat /\ b.off \in Nat
    BY <2>3, <2>4, BacklogFields
  <2>6. backlog.off <= b.off /\ b.moff = backlog.moff + 2
    BY <1>2, <2>3, <2>4, <2>5
  <2>7. b.stream = backlog.stream \o Append(<<a>>, e)
    BY <1>2, <2>2, <2>3, <2>4, AppendTwice DEF Streamed
  <2>8. Propagated(db, e) = Append(<<a>>, e) /\ Len(Propagated(db, e)) = 2
    <3>1. Len(Append(<<a>>, e)) = 2
      OBVIOUS
    <3> QED BY <1>4, <3>1, SelectsTyped DEF a
  <2> QED BY <2>1, <2>4, <2>6, <2>7, <2>8 DEF Extends
<1> QED BY <1>3, <1>4

(* What the feeding does to the connections.                                *)
LEMMA FedClients ==
  ASSUME IInv, NEW db, db \in DBs \/ db = slaveseldb, NEW e \in Entry,
         client' = [s \in Slaves |-> FedClient(client[s], db, e)], NEW s \in Slaves
  PROVE  LET q == client[s].obuf IN
         /\ client'[s].replstate = client[s].replstate
         /\ client'[s].psync = client[s].psync /\ client'[s].file = client[s].file
         /\ ~IsSlave(client[s]) => client'[s].obuf = q
         /\ client[s].replstate = "START" => client'[s].obuf = q \o Selects(db)
         /\ IsSlave(client[s]) /\ client[s].replstate # "START" =>
              client'[s].obuf = q \o Propagated(db, e)
<1>1. client[s] \in ClientType
  BY SlaveTyped
<1>2. client'[s] = FedClient(client[s], db, e)
  OBVIOUS
<1> DEFINE p == Propagated(db, e)
           r == Selects(db)
<1>3. FedClient(client[s], db, e) =
        IF ~IsSlave(client[s]) THEN client[s]
        ELSE AddReply(client[s], IF client[s].replstate = "START" THEN r ELSE p)
  BY DEF FedClient, Propagated
<1> HIDE DEF p, r
<1> QED BY <1>1, <1>2, <1>3 DEF AddReply, ClientType, IsSlave, SlaveStates, p, r

(* A slave that waits for a child: nothing is known of it.                  *)
LEMMA WaitingUnknown ==
  ASSUME IInv, NEW s \in Slaves, Stage(s), Files(s), client[s].replstate = "START"
  PROVE  ~Known(s)
<1>1. ~Streams(s) /\ ~SentRdb(s)
  BY DEF Streams, SentRdb
<1>2. RdbToCome(s) = <<>>
  BY ToComeFacts
<1>3. Transfers(s) => ~HasRdb(wire[s])
  BY <1>1, WireEmpty DEF Transfers, HasRdb, NextIs
<1>4. slave[s] \in SlaveType
  BY SlaveTyped
<1>5. /\ Transfers(s) /\ slave[s].state \in {"TRANSFER", "RECEIVE_PONG"}
      /\ Announces(wire[s]) \/ ~slave[s].cached
  BY <1>1, <1>4 DEF Stage, SlaveType
<1>6. RdbOf(s) = <<>>
  BY <1>2, <1>3, <1>5 DEF RdbOf
<1> QED BY <1>5, <1>6 DEF Known, Replaced

(* A slave the master does not feed.                                        *)
LEMMA UnfedInLine ==
  ASSUME IInv, IInv', NEW s \in Slaves, Stage(s), Files(s), InLine(s), ViewKept(s),
         NEW r \in Seq(Streamed), Grown(Now, Now', r), runid' = runid,
         ~IsSlave(client'[s])
  PROVE  InLine(s)'
<1>1. /\ Start(s)' = Start(s) /\ From(s)' = From(s) /\ Rest(s)' = Rest(s)
      /\ Exact(s)' <=> Exact(s)
      /\ Known(s)' <=> Known(s)
      /\ RunOf(s)' = RunOf(s)
  BY ViewIsKept DEF ViewKept
<1>2. SUFFICES ASSUME Known(s), RunOf(s) = runid PROVE InLine(s)'
  BY <1>1 DEF InLine
<1> DEFINE x == Start(s)
           q == Rest(s)
           o == From(s)
           m == Now
           n == Now'
<1>3. /\ IsPrefix(Deliver(x, q)[1], m.data)
      /\ Exact(s) => Positioned(x, q, o, m)
  BY <1>2, InLineIs
<1>4. x \in Point /\ q \in Seq(Streamed) /\ o \in Nat
  BY <1>2, ViewTyped
<1>5. /\ Start(s)' = x /\ Rest(s)' = q /\ From(s)' = o /\ Grown(m, n, r)
  BY <1>1
<1> HIDE DEF x, q, o, m, n
<1>6. Positioned(x, q, o, m) => Positioned(x, q, o, n)
  BY <1>4, <1>5, UnfedPositioned
<1>7. IsPrefix(Deliver(x, q)[1], n.data)
  <2>1. Deliver(x, q)[1] \in Seq(DBs \X Nat)
    BY <1>4, DeliverGrows DEF Point, Dataset
  <2>2. m.data \in Seq(DBs \X Nat) /\ n.data \in Seq(DBs \X Nat) /\ IsPrefix(m.data, n.data)
    BY <1>5 DEF Grown, MasterTypedAt, Dataset
  <2> QED BY <1>3, <2>1, <2>2, PrefixFacts
<1> QED BY <1>1, <1>3, <1>5, <1>6, <1>7, InLineNext DEF n

(* A slave the master feeds.                                                *)
LEMMA FedInLine ==
  ASSUME IInv, IInv', NEW s \in Slaves, Stage(s), Files(s), InLine(s), IsSlave(client[s]),
         slave'[s] = slave[s], wire'[s] = wire[s], RdbOf(s)' = RdbOf(s),
         NEW r \in Seq(Entry), client'[s].obuf = client[s].obuf \o r,
         Grown(Now, Now', r), runid' = runid
  PROVE  InLine(s)'
<1>0. backlog.active
  BY DEF IInv, SlavesHaveBacklog, SlaveList
<1>1. /\ Start(s)' = Start(s) /\ From(s)' = From(s)
      /\ Exact(s)' <=> Exact(s)
      /\ Known(s)' <=> Known(s)
      /\ RunOf(s)' = RunOf(s)
  <2>1. (Replaced(s)' <=> Replaced(s)) /\ OffsetOf(s)' = OffsetOf(s)
    BY DEF Replaced, OffsetOf
  <2> QED BY <2>1 DEF Known, RunOf, From, Start, Exact, Held
<1>2. SUFFICES ASSUME Known(s), RunOf(s) = runid PROVE InLine(s)'
  BY <1>1 DEF InLine
<1> DEFINE x == Start(s)
           q == Rest(s)
           o == From(s)
           m == Now
           n == Now'
<1>3. /\ Ends(Deliver(x, q), m)
      /\ Exact(s) => Positioned(x, q, o, m) /\ o + Len(q) = m.backlog.moff
  BY <1>2, InLineIs
<1>4. x \in Point /\ q \in Seq(Streamed) /\ o \in Nat /\ r \in Seq(Streamed)
  BY <1>2, ViewTyped, PositionTyped
<1>5. Rest(s)' = q \o r
  <2>1. Commands(wire[s]) \in Seq(Entry) /\ client[s].obuf \in Seq(Entry)
    BY <1>2, ViewTyped, SlaveTyped
  <2> DEFINE a == Commands(wire[s])
             c == client[s].obuf
  <2>2. a \o (c \o r) = (a \o c) \o r
    <3> HIDE DEF a, c
    <3>1. a \in Seq(Entry) /\ c \in Seq(Entry)
      BY <2>1 DEF a, c
    <3> QED BY <3>1, ConcatAssociative
  <2> QED BY <2>2 DEF Rest
<1>6. /\ Start(s)' = x /\ From(s)' = o /\ Grown(m, n, r) /\ m.backlog.active
  BY <1>0, <1>1 DEF Now
<1> HIDE DEF x, q, o, m, n
<1>7. Deliver(x, q \o r) = Deliver(Deliver(x, q), r)
  BY <1>4, DeliverConcat
<1>8. Ends(Deliver(Deliver(x, q), r), n)
  <2>1. Deliver(x, q) \in Point
    BY <1>4, DeliverGrows
  <2> QED BY <1>3, <1>6, <2>1 DEF Grown
<1>9. Exact(s) => Positioned(x, q \o r, o, n) /\ o + Len(q \o r) = n.backlog.moff
  BY <1>3, <1>4, <1>6, FedPositioned
<1>10. IsPrefix(Deliver(x, q \o r)[1], n.data)
  <2>1. Deliver(x, q \o r)[1] = n.data
    BY <1>7, <1>8 DEF Ends
  <2>2. n.data \in Seq(DBs \X Nat)
    BY <1>6 DEF Grown, MasterTypedAt, Dataset
  <2> QED BY <2>1, <2>2, PrefixFacts
<1> DEFINE y == q \o r
<1>11. /\ IsPrefix(Deliver(x, y)[1], n.data) /\ Ends(Deliver(x, y), n)
       /\ Exact(s) => Positioned(x, y, o, n) /\ o + Len(y) = n.backlog.moff
       /\ Rest(s)' = y
  BY <1>5, <1>7, <1>8, <1>9, <1>10
<1> HIDE DEF y
<1> QED BY <1>1, <1>6, <1>11, InLineNext DEF n

LEMMA LastOf ==
  ASSUME NEW S, NEW q \in Seq(S), NEW e \in S
  PROVE  q \o <<e>> # <<>> /\ (q \o <<e>>)[Len(q \o <<e>>)] = e
OBVIOUS

(* A slave that waits for a child gets the SELECT only.                     *)
LEMMA FedWaits ==
  ASSUME IInv, NEW s \in Slaves, Files(s), Stage(s), Waits(s),
         NEW db, db \in DBs \/ db = slaveseldb, NEW e \in Entry,
         client' = [t \in Slaves |-> FedClient(client[t], db, e)],
         slave'[s] = slave[s], wire'[s] = wire[s], slaveseldb' = db,
         backlog.active, backlog'.moff = backlog.moff + Len(Propagated(db, e))
  PROVE  Waits(s)'
<1>1. SUFFICES ASSUME client[s].replstate = "START" PROVE Waits(s)'
  BY FedClients DEF Waits
<1> DEFINE q == client[s].obuf
           r == Selects(db)
           p == q \o r
<1>2. client'[s].obuf = p
  BY <1>1, FedClients
<1>3. /\ q \in Seq(SelectsOnly)
      /\ slaveseldb # -1 => q # <<>> /\ q[Len(q)] = Select(slaveseldb)
      /\ OffsetOf(s) + Len(q) <= backlog.moff
  BY <1>1 DEF Waits
<1>4. /\ r \in Seq(SelectsOnly) /\ Len(r) \in Nat
      /\ Len(Propagated(db, e)) = Len(r) + 1
      /\ slaveseldb = db => r = <<>>
      /\ slaveseldb # db => r = <<Select(db)>>
  BY SelectsTyped
<1>5. OffsetOf(s)' = OffsetOf(s) /\ OffsetOf(s) \in Int /\ backlog.moff \in Nat
  <2>1. OffsetOf(s) \in Nat \cup {-1}
    BY ViewTyped
  <2>2. backlog.moff \in Nat
    BY BacklogFields DEF IInv, BacklogInOrder
  <2> QED BY <2>1, <2>2 DEF OffsetOf
<1>6. slaveseldb' # -1 => p # <<>> /\ p[Len(p)] = Select(slaveseldb')
  <2>1. CASE slaveseldb = db
    <3>1. p = q
      <4> HIDE DEF q
      <4>1. q \o <<>> = q
        BY <1>3
      <4> QED BY <1>4, <2>1, <4>1
    <3> HIDE DEF p
    <3> QED BY <1>3, <2>1, <3>1
  <2>2. CASE slaveseldb # db
    <3> DEFINE a == Select(db)
    <3>1. a \in SelectsOnly /\ r = <<a>>
      BY <1>4, <2>2 DEF SelectsOnly
    <3> HIDE DEF a, q, r
    <3>2. p = q \o <<a>>
      BY <3>1
    <3>3. p # <<>> /\ p[Len(p)] = a
      BY <1>3, <3>1, <3>2, LastOf
    <3> HIDE DEF p
    <3> QED BY <3>3 DEF a
  <2> QED BY <2>1, <2>2
<1>7. p \in Seq(SelectsOnly) /\ Len(p) = Len(q) + Len(r) /\ Len(q) \in Nat
  <2> HIDE DEF q, r
  <2> QED BY <1>3, <1>4, ConcatFacts
<1> HIDE DEF p, q, r
<1>8. OffsetOf(s)' + Len(p) < backlog'.moff
  BY <1>3, <1>4, <1>5, <1>7
<1>9. backlog'.moff \in Nat /\ OffsetOf(s)' + Len(p) <= backlog'.moff
      /\ OffsetOf(s)' + Len(p) # backlog'.moff
  BY <1>4, <1>5, <1>7, <1>8
<1> QED BY <1>2, <1>6, <1>7, <1>9 DEF Waits

(* The feeding, and the writing that made it necessary.                     *)
LEMMA FeedInOrderStep ==
  ASSUME IInv, IInv', AllInOrder, NEW db, db \in DBs \/ db = slaveseldb, NEW e \in Entry,
         FeedSlaves(db, e), ~(~backlog.active /\ SlaveList = {}),
         Grown(Now, Now', Propagated(db, e)),
         backlog.active => backlog'.moff = backlog.moff + Len(Propagated(db, e)),
         UNCHANGED <<runid, child, slave, wire>>, NEW events, Spend(events)
  PROVE  AllInOrder'
<1> DEFINE r == Propagated(db, e)
<1>1. /\ client' = [s \in Slaves |-> FedClient(client[s], db, e)]
      /\ slaveseldb' = db
  BY DEF FeedSlaves
<1>2. r \in Seq(Entry) /\ r \in Seq(Streamed)
  BY SelectsTyped
<1>3. IsPrefix(data, data') /\ data \in Seq(DBs \X Nat) /\ data' \in Seq(DBs \X Nat)
  BY DEF Grown, Now, IInv, TypeOK, MasterTyped, Dataset
<1>4. ASSUME NEW s \in Slaves
      PROVE  SlaveInOrder(s)'
  <2>1. Stage(s) /\ Files(s) /\ Runs(s) /\ CachedPast(s) /\ Waits(s) /\ InLine(s)
    BY DEF AllInOrder, SlaveInOrder
  <2> DEFINE q == client[s].obuf
  <2>2. /\ client'[s].replstate = client[s].replstate
        /\ client'[s].psync = client[s].psync /\ client'[s].file = client[s].file
        /\ ~IsSlave(client[s]) => client'[s].obuf = q
        /\ client[s].replstate = "START" => client'[s].obuf = q \o Selects(db)
        /\ IsSlave(client[s]) /\ client[s].replstate # "START" => client'[s].obuf = q \o r
        /\ slave'[s] = slave[s] /\ wire'[s] = wire[s] /\ child' = child
    BY <1>1, FedClients
  <2>3. IsSlave(client[s]) => backlog.active
    BY DEF IInv, SlavesHaveBacklog, SlaveList
  <2>4. RdbToCome(s)' = RdbToCome(s) /\ (SentRdb(s)' <=> SentRdb(s))
    <3>1. SentRdb(s)' <=> SentRdb(s)
      BY <2>2 DEF SentRdb
    <3>2. CASE client[s].replstate # "END"
      BY <2>2, <3>1, <3>2 DEF RdbToCome
    <3>3. CASE client[s].replstate = "END"
      <4>1. client'[s].obuf = q \o r /\ backlog'.moff = backlog.moff + Len(r)
        BY <2>2, <2>3, <3>3 DEF IsSlave, SlaveStates
      <4>2. Len(q \o r) = Len(q) + Len(r) /\ Len(q) \in Nat /\ Len(r) \in Nat
        <5>1. q \in Seq(Entry)
          BY SlaveTyped
        <5> HIDE DEF q, r
        <5> QED BY <1>2, <5>1, ConcatFacts
      <4>3. backlog'.moff - Len(q \o r) = backlog.moff - Len(q)
        <5>1. backlog.moff \in Nat
          BY BacklogFields DEF IInv, BacklogInOrder
        <5> HIDE DEF q, r
        <5> QED BY <4>1, <4>2, <5>1
      <4> HIDE DEF r
      <4>4. \A end : RdbFor(client[s], end)' = RdbFor(client[s], end)
        BY <2>2, <4>1, <4>3 DEF RdbFor
      <4>5. Served(s)' <=> Served(s)
        BY <2>2 DEF Served
      <4>6. RdbToCome(s)' = RdbToCome(s)
        BY <2>2, <3>3, <4>4, <4>5 DEF RdbToCome, RdbFor
      <4> QED BY <3>1, <4>6
    <3> QED BY <3>2, <3>3
  <2> HIDE DEF r
  <2>5. RdbOf(s)' = RdbOf(s) /\ RunOf(s)' = RunOf(s)
    BY <2>2, <2>4 DEF RdbOf, RunOf
  <2>6. InLine(s)'
    <3>1. CASE ~IsSlave(client[s])
      <4>1. ViewKept(s)
        BY <2>2, <2>5, <3>1 DEF ViewKept, Rest
      <4>2. ~IsSlave(client'[s])
        BY <2>2, <3>1 DEF IsSlave
      <4> QED BY <1>2, <2>1, <4>1, <4>2, UnfedInLine DEF r
    <3>2. CASE client[s].replstate = "START"
      <4>1. ~Known(s)
        BY <2>1, <3>2, WaitingUnknown
      <4>2. ~Known(s)'
        BY <2>2, <2>5, <4>1 DEF Known, Replaced
      <4> QED BY <4>2 DEF InLine
    <3>3. CASE IsSlave(client[s]) /\ client[s].replstate # "START"
      BY <1>2, <2>1, <2>2, <2>5, <3>3, FedInLine DEF r
    <3> QED BY <3>1, <3>2, <3>3
  <2>7. Stage(s)'
    <3>1. (Streams(s)' <=> Streams(s)) /\ (Transfers(s)' <=> Transfers(s))
      BY <2>2, <2>4 DEF Streams, Transfers
    <3> QED BY <2>1, <2>2, <2>4, <3>1 DEF Stage
  <2>8. Files(s)'
    BY <2>1, <2>2 DEF Files, IsSlave, SlaveStates
  <2>9. Runs(s)'
    BY <2>1, <2>2, <2>5 DEF Runs, SlaveList, IsSlave
  <2>10. CachedPast(s)'
    <3>1. slave[s].data \in Seq(DBs \X Nat)
      BY SlaveTyped DEF Dataset
    <3> QED BY <1>3, <2>1, <2>2, <3>1, PrefixFacts DEF CachedPast
  <2>11. Waits(s)'
    <3>1. CASE client[s].replstate # "START"
      BY <2>2, <3>1 DEF Waits
    <3>2. CASE client[s].replstate = "START"
      <4>1. backlog.active
        BY <2>3, <3>2 DEF IsSlave, SlaveStates
      <4> QED BY <1>1, <2>1, <2>2, <4>1, FedWaits
    <3> QED BY <3>1, <3>2
  <2> QED BY <2>6, <2>7, <2>8, <2>9, <2>10, <2>11 DEF SlaveInOrder
<1>5. Children'
  <2>1. \A t \in Slaves : client'[t].replstate = client[t].replstate
    BY <1>1, FedClients
  <2> QED BY <2>1, ChildrenSpent DEF AllInOrder
<1> QED BY <1>4, <1>5 DEF AllInOrder

(* Nobody is there to be fed.                                               *)
LEMMA UnfedStep ==
  ASSUME IInv, IInv', AllInOrder, ~backlog.active, SlaveList = {},
         UNCHANGED <<backlog, client, slaveseldb, runid, child, slave, wire>>,
         IsPrefix(data, data'), NEW events, Spend(events)
  PROVE  AllInOrder'
<1> DEFINE r == <<>>
<1>1. Grown(Now, Now', r)
  <2>1. MasterTypedAt(Now) /\ MasterTypedAt(Now')
    BY NowTyped, NowTypedNext
  <2>2. /\ Now.data = data /\ Now'.data = data' /\ Now.backlog = backlog
        /\ Now'.backlog = backlog
    BY DEF Now
  <2> QED BY <2>1, <2>2 DEF Grown
<1>2. data \in Seq(DBs \X Nat) /\ data' \in Seq(DBs \X Nat) /\ r \in Seq(Streamed)
  BY DEF IInv, TypeOK, MasterTyped, Dataset
<1> HIDE DEF r
<1>3. ASSUME NEW s \in Slaves
      PROVE  SlaveInOrder(s)'
  <2>1. Stage(s) /\ Files(s) /\ Runs(s) /\ CachedPast(s) /\ Waits(s) /\ InLine(s)
    BY DEF AllInOrder, SlaveInOrder
  <2>2. RdbToCome(s)' = RdbToCome(s) /\ (SentRdb(s)' <=> SentRdb(s))
    BY ToComeSame
  <2>3. ViewKept(s)
    BY <2>2 DEF ViewKept, RdbOf, Rest
  <2>4. ~IsSlave(client'[s]) /\ s \notin SlaveList
    BY DEF SlaveList
  <2>5. InLine(s)'
    BY <1>1, <1>2, <2>1, <2>3, <2>4, UnfedInLine
  <2>6. Stage(s)'
    <3>1. (Streams(s)' <=> Streams(s)) /\ (Transfers(s)' <=> Transfers(s))
      BY <2>2 DEF Streams, Transfers
    <3> QED BY <2>1, <2>2, <3>1 DEF Stage
  <2>7. RunOf(s)' = RunOf(s)
    BY DEF RunOf
  <2>8. Files(s)' /\ Runs(s)'
    BY <2>1, <2>4, <2>7 DEF Files, Runs, SlaveList
  <2>9. Waits(s)'
    BY <2>4 DEF Waits, IsSlave, SlaveStates
  <2>10. CachedPast(s)'
    <3>1. slave[s].data \in Seq(DBs \X Nat)
      BY SlaveTyped DEF Dataset
    <3> QED BY <1>2, <2>1, <3>1, PrefixFacts DEF CachedPast
  <2> QED BY <2>5, <2>6, <2>8, <2>9, <2>10 DEF SlaveInOrder
<1>4. Children'
  <2>1. \A t \in Slaves : client'[t].replstate = client[t].replstate
    OBVIOUS
  <2> QED BY <2>1, ChildrenSpent DEF AllInOrder
<1> QED BY <1>3, <1>4 DEF AllInOrder

LEMMA GrownByFeeding ==
  ASSUME IInv, IInv', NEW db, db \in DBs \/ db = slaveseldb, NEW e \in Entry,
         FeedSlaves(db, e), ~(~backlog.active /\ SlaveList = {}),
         IsPrefix(data, data'),
         \A y \in Point : Ends(y, Now) => Ends(Deliver(y, Propagated(db, e)), Now')
  PROVE  /\ Grown(Now, Now', Propagated(db, e))
         /\ backlog.active => backlog'.moff = backlog.moff + Len(Propagated(db, e))
<1>1. backlog' = FedBacklog(db, e)
  BY DEF FeedSlaves
<1>2. MasterTypedAt(Now) /\ MasterTypedAt(Now')
  BY NowTyped, NowTypedNext
<1>3. /\ Now.data = data /\ Now'.data = data' /\ Now.backlog = backlog
      /\ Now'.backlog = backlog'
  BY DEF Now
<1>4. CASE backlog.active
  <2>1. /\ backlog'.active /\ backlog'.moff = backlog.moff + Len(Propagated(db, e))
        /\ backlog.off <= backlog'.off
        /\ Extends(backlog'.stream, backlog.stream, Propagated(db, e))
    BY <1>1, <1>4, FedBacklogGrows
  <2> QED BY <1>2, <1>3, <1>4, <2>1 DEF Grown
<1>5. CASE ~backlog.active
  <2>1. backlog' = backlog
    BY <1>1, <1>5 DEF FedBacklog
  <2> QED BY <1>2, <1>3, <1>5, <2>1 DEF Grown
<1>6. backlog.active \in BOOLEAN
  BY <1>2, <1>3 DEF MasterTypedAt
<1> QED BY <1>4, <1>5, <1>6

(* A client's write command.                                                *)
LEMMA WriteInOrder ==
  ASSUME IInv, IInv', AllInOrder, NEW db \in DBs, Write(db)
  PROVE  AllInOrder'
<1> DEFINE e == Cmd(nextid)
           d == Append(data, <<db, nextid>>)
<1>1. /\ data' = d /\ FeedSlaves(db, e) /\ Spend({"write"})
      /\ UNCHANGED <<runid, dump, child, slave, wire>>
  BY DEF Write
<1>2. nextid \in Nat /\ data \in Seq(DBs \X Nat) /\ db # -1
  BY ConstantsTyped DEF IInv, TypeOK, MasterTyped, Dataset
<1>3. e \in Entry /\ e.op = "CMD" /\ e.arg = nextid
  BY <1>2 DEF Entry, Cmd
<1>4. IsPrefix(data, data')
  <2>1. <<db, nextid>> \in DBs \X Nat
    BY <1>2
  <2> QED BY <1>1, <1>2, <2>1, PrefixFacts
<1>5. CASE ~backlog.active /\ SlaveList = {}
  <2>1. UNCHANGED <<backlog, client, slaveseldb>>
    BY <1>1, <1>5 DEF FeedSlaves
  <2> QED BY <1>1, <1>4, <1>5, <2>1, UnfedStep
<1>6. CASE ~(~backlog.active /\ SlaveList = {})
  <2>1. slaveseldb' = db
    BY <1>1, <1>6 DEF FeedSlaves
  <2>2. Now.data = data /\ Now.db = slaveseldb /\ Now'.data = d /\ Now'.db = db
    BY <1>1, <2>1 DEF Now
  <2> HIDE DEF e
  <2>3. ASSUME NEW y \in Point, Ends(y, Now)
        PROVE  Ends(Deliver(y, Propagated(db, e)), Now')
    <3>1. y[1] = data /\ slaveseldb \in {-1, y[2]} /\ y = <<y[1], y[2]>>
      BY <2>2, <2>3 DEF Ends, Point
    <3>2. CASE slaveseldb = db
      <4>1. y[2] = db
        BY <1>2, <3>1, <3>2
      <4>2. Deliver(y, Propagated(db, e)) = Applied(y, e)
        BY <1>3, <3>2, SelectsTyped, DeliverOne
      <4>3. Applied(y, e) = <<d, db>>
        BY <1>3, <3>1, <4>1 DEF Applied
      <4> QED BY <2>2, <4>2, <4>3 DEF Ends
    <3>3. CASE slaveseldb # db
      <4> DEFINE a == Select(db)
                 q == <<a>>
      <4>1. a \in Entry /\ a.op = "SELECT" /\ a.arg = db
        BY DEF Entry, Select
      <4>2. Propagated(db, e) = Append(q, e)
        BY <1>3, <3>3, SelectsTyped
      <4>3. Deliver(y, q) = Applied(y, a)
        BY DeliverOne
      <4> HIDE DEF a
      <4>4. q \in Seq(Entry)
        BY <4>1
      <4> HIDE DEF q
      <4>5. Deliver(y, Append(q, e)) = Applied(Applied(y, a), e)
        BY <1>3, <4>3, <4>4, DeliverAppend
      <4>6. Applied(y, a) = <<data, db>>
        BY <3>1, <4>1 DEF Applied
      <4>7. Applied(<<data, db>>, e) = <<d, db>>
        BY <1>3 DEF Applied
      <4>8. Deliver(y, Propagated(db, e)) = <<d, db>>
        BY <4>2, <4>5, <4>6, <4>7
      <4> HIDE DEF d
      <4> QED BY <2>2, <4>8 DEF Ends
    <3> QED BY <3>2, <3>3
  <2>4. /\ Grown(Now, Now', Propagated(db, e))
        /\ backlog.active => backlog'.moff = backlog.moff + Len(Propagated(db, e))
    BY <1>1, <1>3, <1>4, <1>6, <2>3, GrownByFeeding DEF e
  <2> QED BY <1>1, <1>3, <1>6, <2>4, FeedInOrderStep DEF e
<1> QED BY <1>5, <1>6

(* replicationCron(): the PING                                              *)
LEMMA CronPingInOrder ==
  ASSUME IInv, IInv', AllInOrder, CronPing
  PROVE  AllInOrder'
<1> DEFINE db == slaveseldb
<1>1. /\ ~(~backlog.active /\ SlaveList = {}) /\ FeedSlaves(db, Ping) /\ Spend({"ping"})
      /\ UNCHANGED masterVars /\ UNCHANGED <<child, slave, wire>>
      /\ slaveseldb' = slaveseldb
  BY DEF CronPing, FeedSlaves
<1>2. Ping \in Entry /\ Ping.op = "PING"
  BY DEF Entry, Ping
<1>3. data' = data /\ runid' = runid /\ IsPrefix(data, data')
  BY <1>1, PrefixFacts DEF masterVars, IInv, TypeOK, MasterTyped, Dataset
<1>4. ASSUME NEW y \in Point, Ends(y, Now)
      PROVE  Ends(Deliver(y, Propagated(db, Ping)), Now')
  <2>1. Deliver(y, Propagated(db, Ping)) = Applied(y, Ping)
    BY <1>2, SelectsTyped, DeliverOne
  <2>2. Applied(y, Ping) = y
    BY <1>2 DEF Applied
  <2>3. Now'.data = Now.data /\ Now'.db = Now.db
    BY <1>1, <1>3 DEF Now
  <2> QED BY <1>4, <2>1, <2>2, <2>3 DEF Ends
<1>5. /\ Grown(Now, Now', Propagated(db, Ping))
      /\ backlog.active => backlog'.moff = backlog.moff + Len(Propagated(db, Ping))
  BY <1>1, <1>2, <1>3, <1>4, GrownByFeeding
<1> QED BY <1>1, <1>2, <1>3, <1>5, FeedInOrderStep
----------------------------------------------------------------------------
(* The end and the start of a child: the stream and the wires are as before,*)
(* only what the master keeps of a slave changes.                           *)
ChildOnly == UNCHANGED <<runid, data, backlog, slaveseldb, slave, wire>>

LEMMA ViewOnly ==
  ASSUME IInv, NEW s \in Slaves, SlaveInOrder(s), ChildOnly, ViewKept(s),
         IsSlave(client'[s]) => IsSlave(client[s]), Stage(s)', Files(s)', Waits(s)'
  PROVE  SlaveInOrder(s)'
<1>1. Stage(s) /\ Files(s) /\ Runs(s) /\ CachedPast(s) /\ InLine(s)
  BY DEF SlaveInOrder
<1>2. InLine(s)'
  <2>1. Kept(Now, Now')
    BY KeptSelf DEF ChildOnly
  <2> QED BY <1>1, <2>1, InLineKept DEF ChildOnly
<1>3. RunOf(s)' = RunOf(s)
  BY ViewIsKept
<1>4. slave'[s] = slave[s] /\ runid' = runid /\ data' = data
  BY DEF ChildOnly
<1>5. Runs(s)'
  BY <1>1, <1>3, <1>4 DEF Runs, SlaveList
<1>6. CachedPast(s)'
  BY <1>1, <1>4 DEF CachedPast
<1> QED BY <1>2, <1>5, <1>6 DEF SlaveInOrder

(* A slave that waits for an RDB, or is being sent one by a child.          *)
LEMMA ChildStage ==
  ASSUME IInv, NEW s \in Slaves, Stage(s), ChildOnly, client[s].replstate \in {"START", "END"},
         SentRdb(s) => client'[s].replstate = "ONLINE",
         ~SentRdb(s) => client'[s].replstate \in {"END", "SEND_BULK"} /\ ~SentRdb(s)'
  PROVE  Stage(s)'
<1>1. slave'[s] = slave[s] /\ wire'[s] = wire[s]
  BY DEF ChildOnly
<1>2. ~Streams(s)
  BY DEF Streams
<1>3. Transfers(s) => Transfers(s)'
  <2>1. CASE SentRdb(s)
    <3>1. client'[s].replstate = "ONLINE"
      BY <2>1
    <3> QED BY <1>1, <2>1, <3>1 DEF Transfers
  <2>2. CASE ~SentRdb(s)
    BY <1>1, <2>2 DEF Transfers
  <2> QED BY <2>1, <2>2
<1>4. SentRdb(s) /\ wire[s] = <<>> => Streams(s)'
  <2>1. <<>> \in Seq(Entry) /\ Body(<<>>) = <<>>
    BY WireEmpty
  <2> QED BY <1>1, <2>1 DEF Streams
<1>5. slave[s].state \in {"CONNECT", "RECEIVE_PONG", "TRANSFER", "CONNECTED"}
  BY SlaveTyped DEF SlaveType
<1>6. slave[s].state # "CONNECT"
  BY DEF Stage
<1>7. CASE slave[s].state = "RECEIVE_PONG"
  BY <1>1, <1>2, <1>3, <1>7 DEF Stage
<1>8. CASE slave[s].state = "TRANSFER"
  BY <1>1, <1>2, <1>3, <1>8 DEF Stage
<1>9. CASE slave[s].state = "CONNECTED"
  BY <1>1, <1>2, <1>4, <1>9 DEF Stage
<1> QED BY <1>5, <1>6, <1>7, <1>8, <1>9

(* A slave in START that no child is for is moved to END all the same.      *)
LEMMA UnservedInOrder ==
  ASSUME IInv, NEW s \in Slaves, SlaveInOrder(s), ChildOnly, client[s].replstate = "START",
         client'[s] = [client[s] EXCEPT !.replstate = "END"],
         ~Served(s)', s \notin child'.sent
  PROVE  SlaveInOrder(s)'
<1>1. /\ client'[s].replstate = "END" /\ client'[s].obuf = client[s].obuf
      /\ client'[s].file = client[s].file /\ slave'[s] = slave[s] /\ wire'[s] = wire[s]
  <2>1. client[s] \in ClientType
    BY SlaveTyped
  <2> QED BY <2>1 DEF ClientType, ChildOnly
<1>2. Stage(s) /\ Files(s)
  BY DEF SlaveInOrder
<1>3. RdbToCome(s) = client[s].file /\ RdbToCome(s)' = client[s].file
  BY <1>1 DEF RdbToCome
<1>4. ViewKept(s)
  BY <1>1, <1>3 DEF ViewKept, RdbOf, Rest
<1>5. Files(s)' /\ Waits(s)'
  BY <1>1, <1>2 DEF Files, Waits
<1>6. Stage(s)'
  <2>1. ~SentRdb(s) /\ ~SentRdb(s)'
    BY DEF SentRdb
  <2> QED BY <1>1, <1>2, <2>1, ChildStage
<1>7. IsSlave(client[s])
  BY DEF IsSlave, SlaveStates
<1> QED BY <1>4, <1>5, <1>6, <1>7, ViewOnly

(* The disk child is done: its RDB is the file to send.                     *)
LEMMA ToSendInOrder ==
  ASSUME IInv, NEW s \in Slaves, SlaveInOrder(s), ChildOnly, client[s].replstate = "END",
         child.type = "disk", s \notin child.sent, s \notin child'.sent,
         client'[s] = [client[s] EXCEPT !.replstate = "SEND_BULK",
                                        !.file = <<RdbFor(client[s], "length")>>]
  PROVE  SlaveInOrder(s)'
<1> DEFINE r == RdbFor(client[s], "length")
<1>1. /\ client'[s].replstate = "SEND_BULK" /\ client'[s].obuf = client[s].obuf
      /\ client'[s].file = <<r>> /\ slave'[s] = slave[s] /\ wire'[s] = wire[s]
  <2>1. client[s] \in ClientType
    BY SlaveTyped
  <2> QED BY <2>1 DEF ClientType, ChildOnly
<1>2. Stage(s) /\ Files(s)
  BY DEF SlaveInOrder
<1>3. RdbToCome(s) = <<r>> /\ RdbToCome(s)' = <<r>>
  BY <1>1 DEF RdbToCome, Served
<1> HIDE DEF r
<1>4. ViewKept(s)
  BY <1>1, <1>3 DEF ViewKept, RdbOf, Rest
<1>5. Files(s)' /\ Waits(s)'
  <2>1. Len(<<r>>) = 1
    OBVIOUS
  <2> QED BY <1>1, <2>1 DEF Files, Waits
<1>6. Stage(s)'
  <2>1. ~SentRdb(s) /\ ~SentRdb(s)'
    BY DEF SentRdb
  <2> QED BY <1>1, <1>2, <2>1, ChildStage
<1>7. IsSlave(client[s])
  BY DEF IsSlave, SlaveStates
<1> QED BY <1>4, <1>5, <1>6, <1>7, ViewOnly

(* The socket child is done with the slaves it wrote its RDB to.            *)
LEMMA WrittenInOrder ==
  ASSUME IInv, NEW s \in Slaves, SlaveInOrder(s), ChildOnly, client[s].replstate = "END",
         s \in child.sent,
         client'[s] = [client[s] EXCEPT !.replstate = "ONLINE", !.onack = TRUE]
  PROVE  SlaveInOrder(s)'
<1>1. /\ client'[s].replstate = "ONLINE" /\ client'[s].obuf = client[s].obuf
      /\ client'[s].file = client[s].file /\ slave'[s] = slave[s] /\ wire'[s] = wire[s]
  <2>1. client[s] \in ClientType
    BY SlaveTyped
  <2> QED BY <2>1 DEF ClientType, ChildOnly
<1>2. Stage(s) /\ Files(s)
  BY DEF SlaveInOrder
<1>3. RdbToCome(s) = client[s].file /\ RdbToCome(s)' = client[s].file
  BY <1>1 DEF RdbToCome
<1>4. ViewKept(s)
  BY <1>1, <1>3 DEF ViewKept, RdbOf, Rest
<1>5. Files(s)' /\ Waits(s)'
  BY <1>1, <1>2 DEF Files, Waits
<1>6. Stage(s)'
  <2>1. SentRdb(s)
    BY DEF SentRdb
  <2> QED BY <1>1, <1>2, <2>1, ChildStage
<1>7. IsSlave(client[s])
  BY DEF IsSlave, SlaveStates
<1> QED BY <1>4, <1>5, <1>6, <1>7, ViewOnly

(* The child a slave waited for is forked: it was sent SELECTs at most, and *)
(* the copy of the dataset is the present one.                              *)
LEMMA ServedInOrder ==
  ASSUME IInv, IInv', NEW s \in Slaves, SlaveInOrder(s), ChildOnly,
         client[s].replstate = "START",
         client'[s] = [client[s] EXCEPT !.replstate = "END"],
         child'.content = data, Served(s)', s \notin child'.sent
  PROVE  SlaveInOrder(s)'
<1> DEFINE w == wire[s]
           q == client[s].obuf
           o == OffsetOf(s)
           m == Now'
           x == <<data, 0>>
           at == backlog.moff - Len(q)
           end == IF child'.type = "disk" THEN "length" ELSE "eofmark"
           r == Rdb(data, at, end)
<1>1. /\ client'[s].replstate = "END" /\ client'[s].obuf = q
      /\ client'[s].file = client[s].file /\ slave'[s] = slave[s] /\ wire'[s] = w
  <2>1. client[s] \in ClientType
    BY SlaveTyped
  <2> QED BY <2>1 DEF ClientType, ChildOnly
<1>2. Stage(s) /\ Files(s) /\ Runs(s) /\ CachedPast(s) /\ Waits(s)
  BY DEF SlaveInOrder
<1>3. /\ runid' = runid /\ data' = data /\ backlog' = backlog /\ slaveseldb' = slaveseldb
      /\ Kept(Now, Now')
  BY KeptSelf DEF ChildOnly
<1>4. ~Streams(s) /\ ~SentRdb(s) /\ ~SentRdb(s)'
  BY DEF Streams, SentRdb
<1>5. /\ Body(w) = <<>>
      /\ slave[s].state = "TRANSFER" \/ Announces(w)
  <2>1. slave[s].state \in {"CONNECT", "RECEIVE_PONG", "TRANSFER", "CONNECTED"}
    BY SlaveTyped DEF SlaveType
  <2> QED BY <1>2, <1>4, <2>1 DEF Stage, Transfers
<1>6. ~HasRdb(w) /\ Commands(w) = <<>>
  BY <1>5 DEF HasRdb, Commands, NextIs
<1>7. RdbToCome(s)' = <<r>>
  BY <1>1, <1>3 DEF RdbToCome, RdbFor
<1>8. /\ q \in Seq(SelectsOnly) /\ q \in Seq(Entry)
      /\ slaveseldb # -1 => q # <<>> /\ q[Len(q)] = Select(slaveseldb)
      /\ o + Len(q) = backlog.moff => \A k \in 1 .. Len(q) : q[k] = backlog.stream[o + k]
  BY <1>2, SlaveTyped DEF Waits
<1>9. OffsetOf(s)' = o /\ RunOf(s)' = RunOf(s) /\ o \in Nat
  <2>1. OffsetOf(s)' = o /\ RunOf(s)' = RunOf(s)
    BY <1>1 DEF OffsetOf, RunOf
  <2>2. Announces(w) => Head(w).offset \in Nat
    BY <1>2, ViewTyped
  <2>3. slave[s].state = "TRANSFER" => slave[s].initial # -1
    BY DEF IInv, RepliesFirst, ReplyFirst
  <2>4. slave[s].initial \in Nat \cup {-1}
    BY SlaveTyped
  <2> QED BY <1>5, <2>1, <2>2, <2>3, <2>4 DEF OffsetOf
<1>10. /\ Replaced(s)' /\ Start(s)' = x /\ From(s)' = o /\ Rest(s)' = q
       /\ Exact(s)' <=> at = o
  <2>1. RdbOf(s)' = <<r>>
    BY <1>1, <1>6, <1>7 DEF RdbOf
  <2>2. <<>> \o q = q
    BY <1>8
  <2>3. Rest(s)' = q
    BY <1>1, <1>6, <2>2 DEF Rest
  <2> QED BY <1>9, <2>1, <2>3 DEF Replaced, Start, From, Exact, Rdb
<1>11. InLine(s)'
  <2>1. MasterTypedAt(m) /\ m.data = data /\ m.db = slaveseldb /\ m.backlog = backlog
    BY <1>3, NowTypedNext DEF Now
  <2>2. x \in Point /\ q \in Seq(Streamed) /\ Len(q) \in Nat
    BY <1>8, ConstantsTyped, PositionTyped DEF Point, IInv, TypeOK, MasterTyped
  <2>3. slaveseldb \in DBs \cup {-1} /\ IsPrefix(data, data)
    BY PrefixFacts DEF IInv, TypeOK, MasterTyped, Dataset
  <2>4. /\ Deliver(x, q)[1] = data
        /\ slaveseldb # -1 => Deliver(x, q)[2] = slaveseldb
    <3>1. x[1] = data
      OBVIOUS
    <3> HIDE DEF x, q
    <3> QED BY <1>8, <2>2, <2>3, <3>1, DeliverSelects
  <2>5. Ends(Deliver(x, q), m)
    BY <2>1, <2>3, <2>4 DEF Ends
  <2>6. backlog.moff \in Nat
    BY <2>1 DEF MasterTypedAt
  <2>7. at = o => o + Len(q) = backlog.moff
    BY <1>9, <2>2, <2>6
  <2> HIDE DEF x, q, o, at, m
  <2>8. at = o => Positioned(x, q, o, m)
    BY <1>8, <1>9, <2>1, <2>2, <2>5, <2>7, EndPositioned
  <2> QED BY <1>10, <2>1, <2>3, <2>4, <2>5, <2>7, <2>8, InLineNext DEF m
<1>12. Stage(s)'
  BY <1>1, <1>2, <1>4, ChildStage
<1>13. Runs(s)'
  <2>1. IsSlave(client[s])
    BY DEF IsSlave, SlaveStates
  <2> QED BY <1>1, <1>2, <1>3, <1>9, <2>1 DEF Runs, SlaveList
<1>14. CachedPast(s)' /\ Waits(s)' /\ Files(s)'
  BY <1>1, <1>2, <1>3 DEF CachedPast, Waits, Files
<1> QED BY <1>11, <1>12, <1>13, <1>14 DEF SlaveInOrder

(* A slave that the end or the start of a child does not concern.           *)
LEMMA OtherInOrder ==
  ASSUME IInv, NEW s \in Slaves, SlaveInOrder(s), ChildOnly, client'[s] = client[s],
         RdbToCome(s)' = RdbToCome(s), SentRdb(s)' <=> SentRdb(s)
  PROVE  SlaveInOrder(s)'
<1>1. Kept(Now, Now') /\ Untouched(s)
  BY KeptSelf DEF ChildOnly, Untouched
<1> QED BY <1>1, SlaveKept DEF ChildOnly

(* replicationCron(): slaves are waiting and no child runs.                 *)
LEMMA CronStartBgsaveInOrder ==
  ASSUME IInv, IInv', AllInOrder, ~MayBeLeftInEnd, NEW forked \in BOOLEAN,
         CronStartBgsave(forked)
  PROVE  AllInOrder'
<1>1. /\ child.type = "none" /\ Spend(When("forkfail", ~forked))
      /\ child' = IF forked THEN ReplChild(In("START")) ELSE child
      /\ In("START") # {}
      /\ ChildOnly
  BY DEF CronStartBgsave, ChildOnly, masterVars
<1>2. ASSUME NEW t \in Slaves
      PROVE  client'[t] = IF client[t].replstate = "START" /\ (forked \/ Diskless)
                          THEN [client[t] EXCEPT !.replstate = "END"] ELSE client[t]
  BY DEF CronStartBgsave, In
<1>3. /\ \A e \in Events : budget'[e] <= budget[e]
      /\ \A e \in Events : budget[e] \in Nat /\ budget'[e] \in Nat /\ Budget[e] \in Nat
      /\ ~forked => Happened("forkfail")'
  <2>1. "forkfail" \in Events
    BY DEF Events
  <2>2. ~forked => "forkfail" \in When("forkfail", ~forked)
    BY DEF When
  <2>3. Children
    BY DEF AllInOrder
  <2> QED BY <1>1, <2>1, <2>2, <2>3, SpendFacts
<1>4. child.fds = {} /\ child.sent = {}
  BY <1>1 DEF AllInOrder, Children, IInv, ChildConsistent
<1>5. CASE ~forked
  <2>1. child' = child
    BY <1>1, <1>5
  <2>2. ASSUME NEW t \in Slaves
        PROVE  SlaveInOrder(t)'
    <3>1. SlaveInOrder(t) /\ ~Served(t)' /\ ~Served(t) /\ t \notin child'.sent /\ t \notin child.sent
      BY <1>1, <1>4, <2>1 DEF AllInOrder, Served
    <3>2. CASE client[t].replstate = "START" /\ Diskless
      BY <1>1, <1>2, <3>1, <3>2, UnservedInOrder
    <3>3. CASE ~(client[t].replstate = "START" /\ Diskless)
      <4>1. client'[t] = client[t]
        BY <1>2, <1>5, <3>3
      <4>2. RdbToCome(t)' = RdbToCome(t) /\ (SentRdb(t)' <=> SentRdb(t))
        BY <3>1, <4>1 DEF RdbToCome, SentRdb
      <4> QED BY <1>1, <3>1, <4>1, <4>2, OtherInOrder
    <3> QED BY <3>2, <3>3
  <2>3. Children'
    <3>1. Happened("forkfail")' /\ \A e \in Events : budget'[e] <= Budget[e]
      BY <1>3, <1>5 DEF AllInOrder, Children
    <3> QED BY <1>1, <1>4, <2>1, <3>1 DEF Children
  <2> QED BY <2>2, <2>3 DEF AllInOrder
<1>6. CASE forked
  <2>1. /\ child'.type = IF Diskless THEN "socket" ELSE "disk"
        /\ child'.content = data /\ child'.sent = {}
        /\ child'.fds = IF Diskless THEN In("START") ELSE {}
    BY <1>1, <1>6 DEF ReplChild, Forked
  <2>2. ASSUME NEW t \in Slaves
        PROVE  SlaveInOrder(t)'
    <3>1. SlaveInOrder(t) /\ t \notin child'.sent /\ t \notin child.sent
      BY <1>4, <2>1 DEF AllInOrder
    <3>2. CASE client[t].replstate = "START"
      <4>1. Served(t)'
        BY <2>1, <3>2 DEF Served, In
      <4>2. client'[t] = [client[t] EXCEPT !.replstate = "END"]
        BY <1>2, <1>6, <3>2
      <4> QED BY <1>1, <2>1, <3>1, <3>2, <4>1, <4>2, ServedInOrder
    <3>3. CASE client[t].replstate # "START"
      <4>1. client'[t] = client[t]
        BY <1>2, <3>3
      <4>2. client[t].replstate = "END" => ~Served(t) /\ ~Served(t)'
        <5>1. client[t].replstate = "END" => Diskless
          BY <1>1 DEF MayBeLeftInEnd, AllInOrder, Children, EndHasChild, In
        <5> QED BY <1>1, <1>4, <2>1, <3>3, <5>1 DEF Served, In
      <4>3. RdbToCome(t)' = RdbToCome(t) /\ (SentRdb(t)' <=> SentRdb(t))
        BY <3>1, <4>1, <4>2 DEF RdbToCome, SentRdb
      <4> QED BY <1>1, <3>1, <4>1, <4>3, OtherInOrder
    <3> QED BY <3>2, <3>3
  <2>3. Children'
    <3>1. EndHasChild'
      BY <2>1 DEF EndHasChild
    <3>2. \A e \in Events : budget'[e] <= Budget[e]
      BY <1>3 DEF AllInOrder, Children
    <3> QED BY <2>1, <3>1, <3>2 DEF Children
  <2> QED BY <2>2, <2>3 DEF AllInOrder
<1> QED BY <1>5, <1>6

(* The child that is started next when one is done.                         *)
LEMMA NextChildFacts ==
  ASSUME NEW waiting \in BOOLEAN, NEW forked \in BOOLEAN, child' = NextChild(waiting, forked)
  PROVE  /\ child'.fds = {} /\ child'.sent = {}
         /\ IF waiting /\ forked
            THEN /\ child'.content = data
                 /\ child'.type = IF Diskless THEN "socket" ELSE "disk"
            ELSE child'.type = "none"
BY DEF NextChild, ReplChild, Forked, NoChild

(* backgroundSaveDoneHandlerDisk(): when no next child can be forked, the   *)
(* slaves that waited for it are left in END.                               *)
LEMMA BgsaveDoneDiskInOrder ==
  ASSUME IInv, IInv', AllInOrder, NEW ok \in BOOLEAN, NEW forked \in BOOLEAN,
         BgsaveDoneDisk(ok, forked)
  PROVE  MayBeLeftInEnd' \/ AllInOrder'
<1> DEFINE waiting == In("START") # {}
<1>1. /\ child.type = "disk"
      /\ Spend(When("childfail", ~ok) \cup When("forkfail", ~forked))
      /\ child' = NextChild(waiting, forked)
      /\ ChildOnly
  BY DEF BgsaveDoneDisk, ChildOnly
<1>2. ASSUME NEW t \in Slaves
      PROVE  client'[t] = UpdatedSlave(client[t], "disk", ok)
  BY DEF BgsaveDoneDisk
<1>3. /\ \A e \in Events : budget'[e] <= budget[e]
      /\ \A e \in Events : budget[e] \in Nat /\ budget'[e] \in Nat /\ Budget[e] \in Nat
      /\ ~forked => Happened("forkfail")'
  <2> DEFINE spent == When("childfail", ~ok) \cup When("forkfail", ~forked)
  <2>1. "forkfail" \in Events
    BY DEF Events
  <2>2. ~forked => "forkfail" \in spent
    BY DEF When
  <2>3. Children /\ Spend(spent)
    BY <1>1 DEF AllInOrder
  <2> HIDE DEF spent
  <2> QED BY <2>1, <2>2, <2>3, SpendFacts
<1>4. child.fds = {} /\ child.sent = {}
  BY <1>1 DEF AllInOrder, Children, IInv, ChildConsistent
<1>5. Diskless => Happened("bgsave") /\ Happened("bgsave")'
  <2>1. Diskless => Happened("bgsave") /\ "bgsave" \in Events
    BY <1>1 DEF AllInOrder, Children, Events
  <2> QED BY <1>3, <2>1 DEF Happened
<1>6. CASE ~forked
  BY <1>3, <1>5, <1>6 DEF MayBeLeftInEnd
<1>7. CASE forked
  <2>1. /\ child'.fds = {} /\ child'.sent = {}
        /\ IF waiting
           THEN /\ child'.content = data
                /\ child'.type = IF Diskless THEN "socket" ELSE "disk"
           ELSE child'.type = "none"
    <3>1. waiting \in BOOLEAN
      OBVIOUS
    <3> HIDE DEF waiting
    <3> QED BY <1>1, <1>7, <3>1, NextChildFacts
  <2>2. ASSUME NEW t \in Slaves
        PROVE  SlaveInOrder(t)'
    <3>1. SlaveInOrder(t) /\ t \notin child'.sent /\ t \notin child.sent
      BY <1>4, <2>1 DEF AllInOrder
    <3>2. CASE client[t].replstate = "START"
      <4>1. client'[t] = [client[t] EXCEPT !.replstate = "END"] /\ waiting
        BY <1>2, <3>2 DEF UpdatedSlave, In
      <4>2. CASE Diskless
        <5>1. ~Served(t)'
          BY <2>1, <4>1, <4>2 DEF Served
        <5> QED BY <1>1, <3>1, <3>2, <4>1, <5>1, UnservedInOrder
      <4>3. CASE ~Diskless
        <5>1. Served(t)' /\ child'.content = data
          BY <2>1, <4>1, <4>3 DEF Served
        <5> QED BY <1>1, <3>1, <3>2, <4>1, <5>1, ServedInOrder
      <4> QED BY <4>2, <4>3
    <3>3. CASE client[t].replstate = "END" /\ ok
      <4>1. client'[t] = [client[t] EXCEPT !.replstate = "SEND_BULK",
                                           !.file = <<RdbFor(client[t], "length")>>]
        BY <1>2, <3>3 DEF UpdatedSlave
      <4> QED BY <1>1, <3>1, <3>3, <4>1, ToSendInOrder
    <3>4. CASE client[t].replstate = "END" /\ ~ok
      <4>1. client'[t] = Closed
        BY <1>2, <3>4 DEF UpdatedSlave
      <4> QED BY <1>1, <3>1, <4>1, FreedInOrder DEF ChildOnly
    <3>5. CASE client[t].replstate \notin {"START", "END"}
      <4>1. client'[t] = client[t]
        BY <1>2, <3>5 DEF UpdatedSlave
      <4>2. RdbToCome(t)' = RdbToCome(t) /\ (SentRdb(t)' <=> SentRdb(t))
        BY <3>5, <4>1 DEF RdbToCome, SentRdb
      <4> QED BY <1>1, <3>1, <4>1, <4>2, OtherInOrder
    <3> QED BY <3>2, <3>3, <3>4, <3>5
  <2>3. Children'
    <3>1. EndHasChild'
      <4>1. SUFFICES ASSUME NEW t \in Slaves, client'[t].replstate = "END"
                     PROVE  child'.type # "none"
        BY DEF EndHasChild, In
      <4>2. client[t].replstate = "START"
        <5>1. client[t] \in ClientType
          BY SlaveTyped
        <5>2. CASE client[t].replstate = "END" /\ ok
          <6>1. client'[t] = [client[t] EXCEPT !.replstate = "SEND_BULK",
                                               !.file = <<RdbFor(client[t], "length")>>]
            BY <1>2, <5>2 DEF UpdatedSlave
          <6> QED BY <4>1, <5>1, <6>1 DEF ClientType
        <5>3. CASE client[t].replstate = "END" /\ ~ok
          <6>1. client'[t] = Closed
            BY <1>2, <5>3 DEF UpdatedSlave
          <6> QED BY <4>1, <6>1 DEF Closed
        <5>4. CASE client[t].replstate \notin {"START", "END"}
          BY <1>2, <4>1, <5>4 DEF UpdatedSlave
        <5> QED BY <5>2, <5>3, <5>4
      <4> QED BY <2>1, <4>2 DEF In
    <3>2. \A e \in Events : budget'[e] <= Budget[e]
      BY <1>3 DEF AllInOrder, Children
    <3> QED BY <2>1, <3>1, <3>2 DEF Children
  <2> QED BY <2>2, <2>3 DEF AllInOrder
<1> QED BY <1>6, <1>7

(* backgroundSaveDoneHandlerSocket(): those it did not serve are freed, and *)
(* those who waited are left in END, with a child that has no sockets.      *)
LEMMA BgsaveDoneSocketInOrder ==
  ASSUME IInv, IInv', AllInOrder, NEW ok \in BOOLEAN, NEW forked \in BOOLEAN,
         BgsaveDoneSocket(ok, forked)
  PROVE  AllInOrder'
<1> DEFINE waiting == In("START") # {}
           served  == IF ok THEN child.sent ELSE {}
           spent   == When("childfail", ~ok /\ child.fds # {}) \cup When("forkfail", ~forked)
<1>1. /\ child.type = "socket"
      /\ Spend(spent)
      /\ child' = NextChild(waiting, forked)
      /\ forked \/ waiting
      /\ ChildOnly
  BY DEF BgsaveDoneSocket, ChildOnly, masterVars
<1>2. ASSUME NEW t \in Slaves
      PROVE  client'[t] = IF client[t].replstate = "END" /\ t \notin served THEN Closed
                          ELSE UpdatedSlave(client[t], "socket", ok)
  BY DEF BgsaveDoneSocket, In
<1>3. /\ \A e \in Events : budget'[e] <= budget[e]
      /\ \A e \in Events : budget[e] \in Nat /\ budget'[e] \in Nat /\ Budget[e] \in Nat
      /\ ~forked => Happened("forkfail")'
  <2>1. "forkfail" \in Events
    BY DEF Events
  <2>2. ~forked => "forkfail" \in spent
    BY DEF When
  <2>3. Children /\ Spend(spent)
    BY <1>1 DEF AllInOrder
  <2> HIDE DEF spent
  <2> QED BY <2>1, <2>2, <2>3, SpendFacts
<1>4. Diskless
  BY <1>1 DEF AllInOrder, Children
<1>5. /\ child'.fds = {} /\ child'.sent = {}
      /\ IF waiting /\ forked THEN child'.type = "socket" ELSE child'.type = "none"
  <2>1. waiting \in BOOLEAN
    OBVIOUS
  <2> HIDE DEF waiting
  <2> QED BY <1>1, <1>4, <2>1, NextChildFacts
<1>6. ASSUME NEW t \in Slaves
      PROVE  SlaveInOrder(t)'
  <2>1. SlaveInOrder(t) /\ t \notin child'.sent /\ ~Served(t)'
    BY <1>5 DEF AllInOrder, Served
  <2>2. CASE client[t].replstate = "START"
    <3>1. client'[t] = [client[t] EXCEPT !.replstate = "END"]
      BY <1>2, <2>2 DEF UpdatedSlave
    <3> QED BY <1>1, <2>1, <2>2, <3>1, UnservedInOrder
  <2>3. CASE client[t].replstate = "END" /\ t \in served
    <3>1. t \in child.sent
      BY <2>3
    <3>2. client'[t] = [client[t] EXCEPT !.replstate = "ONLINE", !.onack = TRUE]
      BY <1>2, <2>3 DEF UpdatedSlave
    <3> QED BY <1>1, <2>1, <2>3, <3>1, <3>2, WrittenInOrder
  <2>4. CASE client[t].replstate = "END" /\ t \notin served
    <3>1. client'[t] = Closed
      BY <1>2, <2>4
    <3> QED BY <1>1, <2>1, <3>1, FreedInOrder DEF ChildOnly
  <2>5. CASE client[t].replstate \notin {"START", "END"}
    <3>1. client'[t] = client[t]
      BY <1>2, <2>5 DEF UpdatedSlave
    <3>2. RdbToCome(t)' = RdbToCome(t) /\ (SentRdb(t)' <=> SentRdb(t))
      BY <2>5, <3>1 DEF RdbToCome, SentRdb
    <3> QED BY <1>1, <2>1, <3>1, <3>2, OtherInOrder
  <2> QED BY <2>2, <2>3, <2>4, <2>5
<1>7. Children'
  <2>1. forked => EndHasChild'
    <3>1. SUFFICES ASSUME NEW t \in Slaves, client'[t].replstate = "END", forked
                   PROVE  child'.type # "none"
      BY DEF EndHasChild, In
    <3>2. client[t].replstate = "START"
      <4>1. client[t] \in ClientType
        BY SlaveTyped
      <4>2. CASE client[t].replstate = "END" /\ t \in served
        <5>1. client'[t] = [client[t] EXCEPT !.replstate = "ONLINE", !.onack = TRUE]
          BY <1>2, <4>2 DEF UpdatedSlave
        <5> QED BY <3>1, <4>1, <5>1 DEF ClientType
      <4>3. CASE client[t].replstate = "END" /\ t \notin served
        BY <1>2, <3>1, <4>3 DEF Closed
      <4>4. CASE client[t].replstate \notin {"START", "END"}
        BY <1>2, <3>1, <4>4 DEF UpdatedSlave
      <4> QED BY <4>2, <4>3, <4>4
    <3> QED BY <1>5, <3>1, <3>2 DEF In
  <2>2. \A e \in Events : budget'[e] <= Budget[e]
    BY <1>3 DEF AllInOrder, Children
  <2> QED BY <1>3, <1>4, <1>5, <2>1, <2>2 DEF Children
<1> QED BY <1>6, <1>7 DEF AllInOrder

----------------------------------------------------------------------------
(* Every step.                                                              *)
LEMMA BudgetFalls ==
  ASSUME IInv, IInv', [Next]_vars
  PROVE  /\ \A e \in Events : budget'[e] <= budget[e]
         /\ \A e \in Events : budget[e] \in Nat /\ budget'[e] \in Nat /\ Budget[e] \in Nat
<1>1. \A e \in Events : budget[e] \in Nat /\ budget'[e] \in Nat /\ Budget[e] \in Nat
  BY ConstantsTyped DEF IInv, TypeOK, MasterTyped
<1>2. ASSUME budget' = budget PROVE \A e \in Events : budget'[e] <= budget[e]
  BY <1>1, <1>2
<1>3. ASSUME NEW events, Spend(events) PROVE \A e \in Events : budget'[e] <= budget[e]
  BY <1>3, SpendFacts
<1>4. CASE UNCHANGED vars
  BY <1>1, <1>2, <1>4 DEF vars
<1>5. CASE MasterStep
  <2>1. CASE \E db \in DBs : Write(db)
    BY <1>1, <1>3, <2>1 DEF Write
  <2>2. CASE CronPing \/ Bgsave \/ MasterCrash
    BY <1>1, <1>3, <2>2 DEF CronPing, Bgsave, MasterCrash
  <2>3. CASE CronFreeBacklog
    BY <1>1, <1>2, <2>3 DEF CronFreeBacklog
  <2>4. CASE \E size \in BacklogSizes : ConfigResize(size)
    BY <1>1, <1>3, <2>4 DEF ConfigResize
  <2>5. CASE \E forked \in BOOLEAN : CronStartBgsave(forked)
    BY <1>1, <1>3, <2>5 DEF CronStartBgsave
  <2>6. CASE \E ok, forked \in BOOLEAN : BgsaveDoneDisk(ok, forked)
    BY <1>1, <1>3, <2>6 DEF BgsaveDoneDisk
  <2>7. CASE \E ok, forked \in BOOLEAN : BgsaveDoneSocket(ok, forked)
    BY <1>1, <1>3, <2>7 DEF BgsaveDoneSocket
  <2> QED BY <1>5, <2>1, <2>2, <2>3, <2>4, <2>5, <2>6, <2>7 DEF MasterStep
<1>6. ASSUME NEW s \in Slaves, ClientStep(s)
      PROVE  \A e \in Events : budget'[e] <= budget[e]
  <2>1. CASE LinkLost(s)
    BY <1>1, <1>3, <2>1 DEF LinkLost
  <2>2. CASE SyncFails(s)
    BY <1>1, <1>3, <2>2 DEF SyncFails
  <2>3. CASE SyncPartial(s) \/ SyncJoinsBgsave(s) \/ SyncWaits(s) \/ SyncStartsBgsave(s)
    BY <1>1, <1>2, <2>3 DEF SyncPartial, SyncJoinsBgsave, SyncWaits, SyncStartsBgsave
  <2>4. CASE SendBulk(s) \/ SendReply(s) \/ ReplconfAck(s) \/ ChildWrite(s)
    BY <1>1, <1>2, <2>4 DEF SendBulk, SendReply, ReplconfAck, ChildWrite
  <2> QED BY <1>6, <2>1, <2>2, <2>3, <2>4 DEF ClientStep, SyncCommand
<1>7. ASSUME NEW s \in Slaves, SlaveStep(s)
      PROVE  \A e \in Events : budget'[e] <= budget[e]
  BY <1>1, <1>2, <1>7 DEF SlaveStep, SyncWithMaster, ReadPsyncReply, LoadRdb, MissEofMark,
                          SwallowStream, ReadSyncError, ReadStream, SeeClose
<1> QED BY <1>1, <1>4, <1>5, <1>6, <1>7 DEF Next

LEMMA LeftInEndStays ==
  ASSUME IInv, IInv', [Next]_vars, MayBeLeftInEnd
  PROVE  MayBeLeftInEnd'
<1>1. "forkfail" \in Events /\ "bgsave" \in Events
  BY DEF Events
<1>2. \A e \in Events : Happened(e) => Happened(e)'
  BY BudgetFalls DEF Happened
<1> QED BY <1>1, <1>2 DEF MayBeLeftInEnd

LEMMA InitialStream ==
  ASSUME Init
  PROVE  AllInOrder
<1>1. /\ runid = 0 /\ data = <<>> /\ slaveseldb = -1 /\ child = NoChild /\ budget = Budget
      /\ client = [s \in Slaves |-> Closed] /\ wire = [s \in Slaves |-> <<>>]
  BY DEF Init
<1>2. IInv /\ Budget \in [Events -> Nat]
  BY InitInOrder, ConstantsTyped
<1>3. Children
  <2>1. In("END") = {}
    BY <1>1 DEF In, Closed
  <2>2. \A e \in Events : budget[e] <= Budget[e]
    BY <1>1, <1>2
  <2> QED BY <1>1, <2>1, <2>2 DEF Children, NoChild, EndHasChild
<1>4. ASSUME NEW s \in Slaves
      PROVE  SlaveInOrder(s)
  <2>1. /\ client[s].replstate = "CLOSED" /\ client[s].obuf = <<>> /\ client[s].file = <<>>
        /\ wire[s] = <<>>
    BY <1>1 DEF Closed
  <2>2. /\ slave[s].state = "CONNECT" /\ ~slave[s].cached /\ slave[s].runid = 0
    BY DEF Init
  <2>3. ~HasRdb(wire[s]) /\ ~Announces(wire[s]) /\ RdbToCome(s) = <<>>
    BY <2>1, WireEmpty DEF RdbToCome, HasRdb, Announces, NextIs
  <2>4. InLine(s)
    <3>1. RdbOf(s) = <<>>
      BY <2>3 DEF RdbOf
    <3> QED BY <2>2, <3>1 DEF InLine, Known, Replaced
  <2>5. Stage(s) /\ Files(s) /\ CachedPast(s) /\ Waits(s)
    BY <2>1, <2>2 DEF Stage, Files, CachedPast, Waits
  <2>6. Runs(s)
    BY <1>1, <2>1, <2>2, <2>3 DEF Runs, RunOf, SlaveList, IsSlave, SlaveStates
  <2> QED BY <2>4, <2>5, <2>6 DEF SlaveInOrder
<1> QED BY <1>3, <1>4 DEF AllInOrder

LEMMA MasterStepInOrder ==
  ASSUME IInv, IInv', AllInOrder, ~MayBeLeftInEnd, MasterStep
  PROVE  MayBeLeftInEnd' \/ AllInOrder'
<1>1. CASE \E db \in DBs : Write(db)
  BY <1>1, WriteInOrder
<1>2. CASE CronPing
  BY <1>2, CronPingInOrder
<1>3. CASE CronFreeBacklog
  BY <1>3, BacklogSideInOrder
<1>4. CASE Bgsave
  BY <1>4, BgsaveInOrder
<1>5. CASE MasterCrash
  BY <1>5, MasterCrashInOrder
<1>6. CASE \E size \in BacklogSizes : ConfigResize(size)
  BY <1>6, BacklogSideInOrder
<1>7. CASE \E forked \in BOOLEAN : CronStartBgsave(forked)
  BY <1>7, CronStartBgsaveInOrder
<1>8. CASE \E ok, forked \in BOOLEAN : BgsaveDoneDisk(ok, forked)
  BY <1>8, BgsaveDoneDiskInOrder
<1>9. CASE \E ok, forked \in BOOLEAN : BgsaveDoneSocket(ok, forked)
  BY <1>9, BgsaveDoneSocketInOrder
<1> QED
  BY <1>1, <1>2, <1>3, <1>4, <1>5, <1>6, <1>7, <1>8, <1>9 DEF MasterStep

LEMMA ClientStepInOrder ==
  ASSUME IInv, IInv', AllInOrder, ~MayBeLeftInEnd, NEW s \in Slaves, ClientStep(s)
  PROVE  MayBeLeftInEnd' \/ AllInOrder'
<1>1. CASE SyncCommand(s)
  <2>1. CASE SyncPartial(s)
    BY <2>1, SyncPartialInOrder
  <2>2. CASE SyncJoinsBgsave(s)
    BY <2>2, SyncJoinsInOrder
  <2>3. CASE SyncWaits(s)
    BY <2>3, SyncWaitsInOrder
  <2>4. CASE SyncStartsBgsave(s)
    BY <2>4, SyncStartsInOrder
  <2>5. CASE SyncFails(s)
    BY <2>5, SyncFailsLeaves
  <2> QED BY <1>1, <2>1, <2>2, <2>3, <2>4, <2>5 DEF SyncCommand
<1>2. CASE LinkLost(s)
  BY <1>2, LinkLostInOrder
<1>3. CASE SendBulk(s)
  BY <1>3, SendBulkInOrder
<1>4. CASE SendReply(s)
  BY <1>4, SendReplyInOrder
<1>5. CASE ReplconfAck(s)
  BY <1>5, ReplconfAckInOrder
<1>6. CASE ChildWrite(s)
  BY <1>6, ChildWriteInOrder
<1> QED BY <1>1, <1>2, <1>3, <1>4, <1>5, <1>6 DEF ClientStep

LEMMA SlaveStepInOrder ==
  ASSUME IInv, IInv', AllInOrder, NEW s \in Slaves, SlaveStep(s)
  PROVE  AllInOrder'
<1>1. CASE SyncWithMaster(s)
  BY <1>1, SyncWithMasterInOrder
<1>2. CASE ReadPsyncReply(s)
  BY <1>2, ReadPsyncReplyInOrder
<1>3. CASE LoadRdb(s)
  BY <1>3, LoadRdbInOrder
<1>4. CASE MissEofMark(s)
  BY <1>4, MissEofMarkInOrder
<1>5. CASE SwallowStream(s)
  BY <1>5, SwallowStreamInOrder
<1>6. CASE ReadSyncError(s)
  BY <1>6, ReadSyncErrorInOrder
<1>7. CASE ReadStream(s)
  BY <1>7, ReadStreamInOrder
<1>8. CASE SeeClose(s)
  BY <1>8, SeeCloseInOrder
<1> QED
  BY <1>1, <1>2, <1>3, <1>4, <1>5, <1>6, <1>7, <1>8 DEF SlaveStep

LEMMA StutterInOrder ==
  ASSUME IInv, AllInOrder, UNCHANGED vars
  PROVE  AllInOrder'
<1>1. /\ UNCHANGED <<masterVars, backlog, slaveseldb, child, client, slave, wire, budget>>
  BY DEF vars
<1>2. Children'
  BY <1>1, ChildrenKept DEF AllInOrder
<1>3. \A t \in Slaves : Untouched(t)
  <2>1. ASSUME NEW t \in Slaves PROVE Untouched(t)
    BY <1>1, ToComeSame DEF Untouched
  <2> QED BY <2>1
<1>4. Kept(Now, Now')
  BY <1>1, KeptSelf DEF masterVars
<1> QED BY <1>1, <1>2, <1>3, <1>4, MasterSideKept DEF masterVars

LEMMA NextStream == IInv /\ StreamInv /\ [Next]_vars => StreamInv'
<1> SUFFICES ASSUME IInv, StreamInv, [Next]_vars PROVE StreamInv'
  OBVIOUS
<1>1. IInv'
  BY NextInOrder
<1>2. CASE MayBeLeftInEnd
  BY <1>1, <1>2, LeftInEndStays DEF StreamInv
<1>3. CASE ~MayBeLeftInEnd
  <2>1. AllInOrder
    BY <1>3 DEF StreamInv
  <2>2. CASE UNCHANGED vars
    BY <2>1, <2>2, StutterInOrder DEF StreamInv
  <2>3. CASE MasterStep
    BY <1>1, <1>3, <2>1, <2>3, MasterStepInOrder DEF StreamInv
  <2>4. CASE \E s \in Slaves : ClientStep(s)
    BY <1>1, <1>3, <2>1, <2>4, ClientStepInOrder DEF StreamInv
  <2>5. CASE \E s \in Slaves : SlaveStep(s)
    BY <1>1, <2>1, <2>5, SlaveStepInOrder DEF StreamInv
  <2> QED BY <2>2, <2>3, <2>4, <2>5 DEF Next
<1> QED BY <1>2, <1>3

(* In every state the handlers can reach, what a slave has and will read    *)
(* leads it to a past dataset, or to the present one if the master feeds it.*)
THEOREM StreamInvariance == Spec => []StreamInv
<1>1. Init => StreamInv
  BY InitialStream DEF StreamInv
<1>2. Spec => []IInv
  BY Invariance
<1> QED BY <1>1, <1>2, NextStream, PTL DEF Spec

----------------------------------------------------------------------------
(* What follows for SlavesAreServed and TrustedSlavesShowThePast.           *)
LEMMA AnyWire ==
  ASSUME IInv, NEW s \in Slaves, Stage(s)
  PROVE  \/ Streams(s)
         \/ Transfers(s) /\ slave[s].state \in {"TRANSFER", "RECEIVE_PONG"}
         \/ wire[s] = <<>>
<1>1. slave[s].state \in {"CONNECT", "RECEIVE_PONG", "TRANSFER", "CONNECTED"}
  BY SlaveTyped DEF SlaveType
<1> QED BY <1>1 DEF Stage

(* A slave that takes no RDB has a dataset.                                 *)
LEMMA NotReplaced ==
  ASSUME IInv, NEW s \in Slaves, Stage(s), ~Replaced(s)
  PROVE  /\ ~HasRdb(wire[s]) /\ RdbToCome(s) = <<>>
         /\ Commands(wire[s]) = Body(wire[s]) /\ Body(wire[s]) \in Seq(Entry)
<1>1. ~HasRdb(wire[s]) /\ RdbToCome(s) = <<>>
  <2>1. RdbOf(s) = <<>>
    BY DEF Replaced
  <2>2. <<Head(Body(wire[s]))>> # <<>>
    OBVIOUS
  <2> QED BY <2>1, <2>2 DEF RdbOf
<1>2. Commands(wire[s]) = Body(wire[s])
  BY <1>1 DEF Commands
<1>3. Body(wire[s]) \in Seq(Entry)
  <2>1. <<>> \in Seq(Entry)
    OBVIOUS
  <2> QED BY <1>1, <2>1, AnyWire, WireEmpty DEF Streams, Transfers
<1> QED BY <1>1, <1>2, <1>3

LEMMA ConnectedFacts ==
  ASSUME IInv, NEW s \in Slaves, SlaveInOrder(s), slave[s].state = "CONNECTED"
  PROVE  /\ ~Replaced(s) /\ RunOf(s) = slave[s].runid
         /\ Commands(wire[s]) = wire[s]
         /\ slave[s].trust # "resumed" => Known(s)
<1>1. /\ Stage(s) /\ Files(s)
  BY DEF SlaveInOrder
<1>2. ~Replied(wire[s]) /\ (Streams(s) \/ wire[s] = <<>>)
  BY <1>1 DEF Stage
<1>3. ~Announces(wire[s]) /\ Body(wire[s]) = wire[s]
  BY <1>2 DEF Announces, Replied, NextIs, Body
<1>4. ~HasRdb(wire[s])
  BY <1>2, WireEmpty, StreamsFacts
<1>5. RdbToCome(s) = <<>>
  BY <1>1, <1>3, ToComeFacts
<1> QED BY <1>3, <1>4, <1>5 DEF Replaced, RdbOf, RunOf, Commands, Known

LEMMA ShownIsPast ==
  ASSUME IInv, NEW s \in Slaves, SlaveInOrder(s), slave[s].trust # "resumed"
  PROVE  ShowsThePast(s)
<1>1. SUFFICES ASSUME slave[s].runid = runid, slave[s].state = "CONNECTED" \/ slave[s].cached
               PROVE  IsPrefix(slave[s].data, data)
  BY DEF ShowsThePast
<1>2. CASE slave[s].cached
  BY <1>1, <1>2 DEF SlaveInOrder, CachedPast
<1>3. CASE slave[s].state = "CONNECTED"
  <2> DEFINE x == Held(s)
             q == Rest(s)
  <2>1. Known(s) /\ RunOf(s) = runid /\ Start(s) = x
    BY <1>1, <1>3, ConnectedFacts DEF Start
  <2>2. IsPrefix(Deliver(x, q)[1], data)
    BY <2>1 DEF SlaveInOrder, InLine
  <2>3. x \in Point /\ q \in Seq(Streamed) /\ x[1] = slave[s].data
    BY <2>1, ViewTyped, SlaveTyped DEF SlaveInOrder, Held
  <2>4. data \in Seq(DBs \X Nat) /\ x[1] \in Seq(DBs \X Nat)
    BY <2>3, SlaveTyped DEF IInv, TypeOK, MasterTyped, Dataset
  <2> HIDE DEF x, q
  <2>5. IsPrefix(x[1], Deliver(x, q)[1]) /\ Deliver(x, q)[1] \in Seq(DBs \X Nat)
    BY <2>3, DeliverGrows DEF Point, Dataset
  <2>6. IsPrefix(x[1], data)
    BY <2>2, <2>4, <2>5, PrefixFacts
  <2> QED BY <2>3, <2>6
<1> QED BY <1>1, <1>2, <1>3

LEMMA OffsetAgrees ==
  ASSUME IInv, NEW s \in Slaves, SlaveInOrder(s),
         slave[s].state = "CONNECTED", slave[s].trust = "exact", client[s].replstate = "ONLINE"
  PROVE  slave[s].reploff + Len(wire[s]) + Len(client[s].obuf) = backlog.moff
<1>1. ~Replaced(s) /\ Known(s) /\ Commands(wire[s]) = wire[s]
  BY ConnectedFacts
<1>2. s \in SlaveList /\ RunOf(s) = runid
  BY DEF SlaveInOrder, Runs, SlaveList, IsSlave, SlaveStates
<1>3. From(s) + Len(Rest(s)) = backlog.moff
  BY <1>1, <1>2 DEF SlaveInOrder, InLine, Exact
<1>4. From(s) = slave[s].reploff /\ slave[s].reploff \in Nat
  BY <1>1, SlaveTyped DEF From
<1>5. Rest(s) = wire[s] \o client[s].obuf
  BY <1>1 DEF Rest
<1>6. /\ Len(wire[s]) \in Nat /\ Len(client[s].obuf) \in Nat
      /\ Len(Rest(s)) = Len(wire[s]) + Len(client[s].obuf)
  BY <1>5, SlaveTyped, MessageKinds, ConcatProperties
<1> DEFINE o == slave[s].reploff
           k == Len(wire[s])
           n == Len(client[s].obuf)
<1>7. o + (k + n) = backlog.moff /\ o \in Nat /\ k \in Nat /\ n \in Nat
  BY <1>3, <1>4, <1>6
<1> HIDE DEF o, k, n
<1>8. o + k + n = backlog.moff
  BY <1>7
<1> QED BY <1>8 DEF o, k, n

(* The messages under way, one after another, and the view of the slave.    *)
LEMMA PipelineIsView ==
  ASSUME IInv, NEW s \in Slaves, SlaveInOrder(s), Known(s)
  PROVE  Deliver(Held(s), Pipeline(s)) = Deliver(Start(s), Rest(s))
<1> DEFINE w == wire[s]
           b == Body(w)
           c == Commands(w)
           t == RdbToCome(s)
           q == client[s].obuf
           x == Held(s)
<1>1. /\ Stage(s) /\ Files(s)
  BY DEF SlaveInOrder
<1>2. /\ w \in Seq(Message) /\ q \in Seq(Entry) /\ q \in Seq(Message)
      /\ c \in Seq(Entry) /\ b \in Seq(Message)
      /\ t \in Seq(RdbFile) /\ t \in Seq(Message)
  <2>1. w \in Seq(Message) /\ q \in Seq(Entry) /\ c \in Seq(Entry) /\ t \in Seq(RdbFile)
    BY <1>1, SlaveTyped, ViewTyped, ToComeFacts
  <2>2. b \in Seq(Message)
    BY <2>1, BodyTyped
  <2> HIDE DEF w, b, c, t, q
  <2>3. q \in Seq(Message) /\ t \in Seq(Message)
    BY <2>1 DEF Message
  <2> QED BY <2>1, <2>2, <2>3
<1>3. Deliver(x, w) = Deliver(x, b)
  <2>1. CASE Replied(w)
    <3>1. Applied(x, Head(w)) = x /\ w # <<>> /\ b = Tail(w)
      BY <2>1 DEF Replied, NextIs, Applied, Body
    <3> HIDE DEF x, w, b
    <3> QED BY <1>2, <3>1, DeliverHead
  <2>2. CASE ~Replied(w)
    BY <2>2 DEF Body
  <2> QED BY <2>1, <2>2
<1>4. Deliver(x, Pipeline(s)) = Deliver(Deliver(Deliver(x, b), t), q)
  <2> DEFINE p == w \o t
  <2>1. Pipeline(s) = p \o q
    BY DEF Pipeline
  <2> HIDE DEF x, w, b, t, q
  <2>2. p \in Seq(Message)
    BY <1>2
  <2>3. Deliver(x, p) = Deliver(Deliver(x, w), t)
    BY <1>2, DeliverConcat
  <2> HIDE DEF p
  <2>4. Deliver(x, p \o q) = Deliver(Deliver(x, p), q)
    BY <1>2, <2>2, DeliverConcat
  <2> QED BY <1>3, <2>1, <2>3, <2>4
<1>5. Deliver(Start(s), Rest(s)) = Deliver(Deliver(Start(s), c), q)
  <2> DEFINE y == Start(s)
  <2>1. Rest(s) = c \o q
    BY DEF Rest
  <2> HIDE DEF y, c, q
  <2>2. Deliver(y, c \o q) = Deliver(Deliver(y, c), q)
    BY <1>2, DeliverConcat
  <2> QED BY <2>1, <2>2 DEF y
<1>6. Deliver(Deliver(x, b), t) = Deliver(Start(s), c)
  <2>1. CASE HasRdb(w)
    <3> DEFINE h == Head(b)
    <3>1. b # <<>> /\ h.op = "RDB" /\ c = Tail(b)
      BY <2>1 DEF HasRdb, NextIs, Commands
    <3>2. t = <<>>
      BY <1>1, <2>1, ToComeFacts
    <3>3. Start(s) = <<h.content, 0>>
      <4>1. RdbOf(s) = <<h>>
        BY <2>1 DEF RdbOf
      <4> HIDE DEF h
      <4> QED BY <4>1 DEF Start, Replaced
    <3>4. Applied(x, h) = Start(s)
      <4> HIDE DEF x, h
      <4> QED BY <3>1, <3>3 DEF Applied
    <3> HIDE DEF x, b, c, t
    <3>5. Deliver(x, b) = Deliver(Start(s), c)
      BY <1>2, <3>1, <3>4, DeliverHead
    <3> QED BY <3>2, <3>5, DeliverNothing
  <2>2. CASE t # <<>>
    <3>1. b = <<>> /\ c = <<>> /\ ~HasRdb(w)
      BY <1>1, <2>2, ToComeFacts
    <3>2. Len(t) = 1
      <4>1. CASE t = client[s].file
        BY <1>1, <2>2, <4>1 DEF Files
      <4>2. ASSUME NEW r, t = <<r>> PROVE Len(t) = 1
        <5>1. Len(<<r>>) = 1
          OBVIOUS
        <5> QED BY <4>2, <5>1
      <4>3. t = client[s].file \/ \E r : t = <<r>>
        BY DEF RdbToCome
      <4> QED BY <4>1, <4>2, <4>3
    <3>3. t = <<t[1]>> /\ t[1] \in RdbFile
      <4> HIDE DEF t
      <4> QED BY <1>2, <3>2, OneFile
    <3>4. t[1].op = "RDB"
      BY <3>3, MessageKinds
    <3>5. Start(s) = <<t[1].content, 0>>
      BY <2>2, <3>1 DEF Start, Replaced, RdbOf
    <3>6. Applied(x, t[1]) = Start(s)
      <4> HIDE DEF x, t
      <4> QED BY <3>4, <3>5 DEF Applied
    <3>7. Deliver(x, t) = Start(s)
      <4> HIDE DEF x, t
      <4> QED BY <3>3, <3>6, DeliverOne
    <3> QED BY <3>1, <3>7, DeliverNothing
  <2>3. CASE ~HasRdb(w) /\ t = <<>>
    <3>1. b = c /\ Start(s) = x
      BY <2>3 DEF Commands, Start, Replaced, RdbOf
    <3> QED BY <2>3, <3>1, DeliverNothing
  <2> QED BY <2>1, <2>2, <2>3
<1> QED BY <1>4, <1>5, <1>6

(* A slave the master feeds is seen.                                        *)
LEMMA FedKnown ==
  ASSUME IInv, NEW s \in Slaves, SlaveInOrder(s), Fed(s)
  PROVE  Known(s) /\ RunOf(s) = runid /\ s \in SlaveList
<1> DEFINE w == wire[s]
           q == client[s].obuf
           t == RdbToCome(s)
<1>1. /\ Stage(s) /\ Files(s) /\ s \in SlaveList /\ RunOf(s) = runid
  BY DEF Fed, SlaveInOrder, Runs
<1>2. /\ client[s].replstate \in {"END", "SEND_BULK", "ONLINE"}
      /\ client[s].replstate = "END" => Served(s)
  BY DEF Fed, SlaveList, IsSlave, SlaveStates, In
<1>3. SUFFICES ASSUME ~Replaced(s) PROVE Known(s)
  BY <1>1 DEF Known
<1>4. /\ ~HasRdb(w) /\ t = <<>> /\ Body(w) \in Seq(Entry)
  BY <1>1, <1>3, NotReplaced
<1>5. w \in Seq(Message) /\ q \in Seq(Entry)
  BY SlaveTyped
<1>6. ~Carries(s)
  <2>1. ASSUME NEW i \in 1 .. Len(w) PROVE w[i].op # "RDB"
    <3>1. CASE ~Replied(w)
      <4>1. w \in Seq(Entry)
        BY <1>4, <3>1 DEF Body
      <4> HIDE DEF w
      <4>2. w[i] \in Entry
        BY <4>1
      <4> QED BY <4>2, MessageKinds
    <3>2. CASE Replied(w)
      <4>1. w # <<>> /\ Head(w).op \in {"CONTINUE", "FULLRESYNC"} /\ Tail(w) \in Seq(Entry)
        BY <1>4, <3>2 DEF Body, Replied, NextIs
      <4> HIDE DEF w
      <4>2. CASE i = 1
        BY <1>5, <4>1, <4>2
      <4>3. CASE i # 1
        <5>1. i - 1 \in 1 .. Len(Tail(w)) /\ w[i] = Tail(w)[i - 1]
          BY <1>5, <4>1, <4>3
        <5>2. w[i] \in Entry
          BY <4>1, <5>1
        <5> QED BY <5>2, MessageKinds
      <4> QED BY <4>2, <4>3
    <3> QED BY <3>1, <3>2
  <2>2. ASSUME NEW i \in 1 .. Len(q) PROVE q[i].op # "RDB"
    <3>1. q[i] \in Entry
      <4> HIDE DEF q
      <4> QED BY <1>5
    <3> QED BY <3>1, MessageKinds
  <2>3. Pipeline(s) = w \o q
    <3>1. Pipeline(s) = (w \o t) \o q
      BY DEF Pipeline
    <3>2. w \o <<>> = w
      <4> HIDE DEF w
      <4> QED BY <1>5
    <3> HIDE DEF w, q, t
    <3> QED BY <1>4, <3>1, <3>2
  <2> DEFINE p == w \o q
  <2>4. q \in Seq(Message)
    <3> HIDE DEF q
    <3> QED BY <1>5 DEF Message
  <2>5. ASSUME NEW i \in DOMAIN p PROVE p[i].op # "RDB"
    <3> HIDE DEF w, q
    <3>1. /\ Len(w) \in Nat /\ Len(q) \in Nat /\ i \in 1 .. Len(w) + Len(q)
          /\ p[i] = IF i <= Len(w) THEN w[i] ELSE q[i - Len(w)]
      BY <1>5, <2>4, ConcatProperties
    <3> HIDE DEF p
    <3>2. CASE i <= Len(w)
      BY <2>1, <3>1, <3>2
    <3>3. CASE i > Len(w)
      <4>1. i - Len(w) \in 1 .. Len(q)
        BY <3>1, <3>3
      <4> QED BY <2>2, <3>1, <3>3, <4>1
    <3> QED BY <3>1, <3>2, <3>3
  <2> HIDE DEF p
  <2> QED BY <2>3, <2>5 DEF Carries, p
<1>7. CASE slave[s].state = "CONNECTED"
  <2>1. slave[s].trust # "resumed"
    BY <1>6, <1>7 DEF Fed
  <2> QED BY <1>7, <2>1 DEF Known
<1>8. CASE slave[s].state # "CONNECTED"
  <2>1. slave[s].state # "TRANSFER" /\ slave[s].trust = "exact"
    BY <1>6, <1>8 DEF Fed
  <2>2. slave[s].state = "RECEIVE_PONG"
    <3>1. slave[s].state \in {"CONNECT", "RECEIVE_PONG", "TRANSFER", "CONNECTED"}
      BY SlaveTyped DEF SlaveType
    <3>2. slave[s].state # "CONNECT"
      BY <1>1, <1>2 DEF Stage
    <3> QED BY <1>8, <2>1, <3>1, <3>2
  <2>3. ~Transfers(s)
    <3>1. CASE client[s].replstate = "END"
      <4>1. SentRdb(s)
        <5>1. CASE s \notin child.sent
          <6>1. \E r : t = <<r>>
            BY <1>2, <3>1, <5>1 DEF RdbToCome
          <6>2. \A r : <<r>> # <<>>
            OBVIOUS
          <6> QED BY <1>4, <6>1, <6>2
        <5> QED BY <3>1, <5>1 DEF SentRdb
      <4> QED BY <1>4, <4>1 DEF Transfers
    <3>2. CASE client[s].replstate = "SEND_BULK"
      <4> DEFINE file == client[s].file
      <4>1. t = file /\ Len(file) = 1
        BY <1>1, <3>2 DEF RdbToCome, Files
      <4>2. file \in Seq(RdbFile)
        BY SlaveTyped
      <4> HIDE DEF file, t
      <4>3. file # <<>>
        BY <4>1, <4>2
      <4> QED BY <1>4, <4>1, <4>3
    <3>3. CASE client[s].replstate = "ONLINE"
      BY <1>4, <3>3 DEF Transfers
    <3> QED BY <1>2, <3>1, <3>2, <3>3
  <2>4. NextIs(w, {"CONTINUE"}) /\ slave[s].cached
    BY <1>1, <1>2, <2>2, <2>3 DEF Stage
  <2> QED BY <2>1, <2>4 DEF Known, Announces, NextIs
<1> QED BY <1>7, <1>8

LEMMA FedIsWhole ==
  ASSUME IInv, NEW s \in Slaves, SlaveInOrder(s), Fed(s)
  PROVE  Deliver(Held(s), Pipeline(s))[1] = data
<1>1. Known(s) /\ RunOf(s) = runid /\ s \in SlaveList
  BY FedKnown
<1>2. Ends(Deliver(Start(s), Rest(s)), Now)
  BY <1>1 DEF SlaveInOrder, InLine
<1>3. Deliver(Start(s), Rest(s))[1] = data
  BY <1>2 DEF Ends, Now
<1> QED BY <1>1, <1>3, PipelineIsView

LEMMA StreamServes == IInv /\ StreamInv => SlavesAreServed
<1> SUFFICES ASSUME IInv, AllInOrder, ~MayBeLeftInEnd
             PROVE  NothingLost /\ OffsetsAgree /\ (~Diskless => EndHasChild)
  BY DEF StreamInv, SlavesAreServed
<1>1. NothingLost
  BY FedIsWhole DEF NothingLost, AllInOrder
<1>2. OffsetsAgree
  BY OffsetAgrees DEF OffsetsAgree, AllInOrder
<1>3. ~Diskless => EndHasChild
  BY DEF MayBeLeftInEnd, AllInOrder, Children
<1> QED BY <1>1, <1>2, <1>3

(* Whichever way a slave attaches, what it has and what is under way to it  *)
(* is the dataset of the master, for any number of slaves, databases and    *)
(* events: no write is lost, repeated or reordered, and the offset it       *)
(* reports is the position of its dataset.                                  *)
THEOREM EverySlaveIsServed == Spec => []SlavesAreServed
BY Invariance, StreamInvariance, StreamServes, PTL

(* What a slave shows is a past dataset of the master, unless a fork failed *)
(* and left a slave in END, where the next child finds it.                  *)
THEOREM SlavesShowPastOnly == Spec => [](MayBeLeftInEnd \/ TrustedSlavesShowThePast)
<1>1. IInv /\ StreamInv => MayBeLeftInEnd \/ TrustedSlavesShowThePast
  BY ShownIsPast DEF StreamInv, AllInOrder, TrustedSlavesShowThePast
<1> QED BY <1>1, Invariance, StreamInvariance, PTL

----------------------------------------------------------------------------
(* The refinement of ReplicatedLog.  A process that does not crash keeps its*)
(* run id and numbers its writes from 1.                                    *)
Quiet == Budget["crash"] = 0 /\ Budget["forkfail"] = 0
OneRun ==
  /\ runid = 0 /\ nextid \in Nat \ {0}
  /\ nextid + budget["write"] = Budget["write"] + 1
  /\ \A e \in Events : budget[e] <= Budget[e]

LEMMA OneRunStays ==
  ASSUME Quiet, IInv, IInv', OneRun, [Next]_vars
  PROVE  /\ OneRun' /\ ~MasterCrash
         /\ \A db \in DBs : Write(db) => nextid \in 1 .. Budget["write"]
<1>1. \A e \in Events : budget[e] \in Nat /\ budget'[e] \in Nat /\ budget'[e] <= Budget[e]
  <2>1. ASSUME NEW e \in Events
        PROVE  budget[e] \in Nat /\ budget'[e] \in Nat /\ budget'[e] <= Budget[e]
    BY BudgetFalls DEF OneRun
  <2> QED BY <2>1
<1>2. "crash" \in Events /\ "write" \in Events
  BY DEF Events
<1>3. ~MasterCrash
  <2>1. budget["crash"] = 0
    BY <1>1, <1>2 DEF OneRun, Quiet
  <2> QED BY <2>1 DEF MasterCrash, Spend
<1>4. ASSUME NEW db \in DBs, Write(db)
      PROVE  /\ nextid \in 1 .. Budget["write"]
             /\ runid' = runid /\ nextid' = nextid + 1 /\ budget'["write"] = budget["write"] - 1
  <2>1. budget["write"] > 0 /\ budget'["write"] = budget["write"] - 1
    BY <1>2, <1>4 DEF Write, Spend
  <2>2. runid' = runid /\ nextid' = nextid + 1
    BY <1>4 DEF Write
  <2>3. budget["write"] \in Nat /\ Budget["write"] \in Nat
    BY <1>2, BudgetFalls
  <2> QED BY <2>1, <2>2, <2>3 DEF OneRun
<1>5. ASSUME ~\E db \in DBs : Write(db)
      PROVE  runid' = runid /\ nextid' = nextid /\ budget'["write"] = budget["write"]
  <2>1. ASSUME NEW events, Spend(events), "write" \notin events
        PROVE  budget'["write"] = budget["write"]
    <3>1. budget'["write"] = budget["write"] - 0
      BY <1>2, <2>1 DEF Spend
    <3> QED BY <1>1, <1>2, <3>1
  <2>2. CASE UNCHANGED vars
    BY <2>2 DEF vars, masterVars
  <2>3. CASE MasterStep
    <3>1. CASE CronPing
      BY <2>1, <3>1 DEF CronPing, masterVars
    <3>2. CASE CronFreeBacklog
      BY <3>2 DEF CronFreeBacklog, masterVars
    <3>3. CASE Bgsave
      BY <2>1, <3>3 DEF Bgsave, masterVars
    <3>4. CASE \E size \in BacklogSizes : ConfigResize(size)
      BY <2>1, <3>4 DEF ConfigResize, masterVars
    <3>5. CASE \E forked \in BOOLEAN : CronStartBgsave(forked)
      BY <2>1, <3>5 DEF CronStartBgsave, masterVars, When
    <3>6. CASE \E ok, forked \in BOOLEAN : BgsaveDoneDisk(ok, forked)
      BY <2>1, <3>6 DEF BgsaveDoneDisk, masterVars, When
    <3>7. CASE \E ok, forked \in BOOLEAN : BgsaveDoneSocket(ok, forked)
      BY <2>1, <3>7 DEF BgsaveDoneSocket, masterVars, When
    <3> QED
      BY <1>3, <1>5, <2>3, <3>1, <3>2, <3>3, <3>4, <3>5, <3>6, <3>7 DEF MasterStep
  <2>4. ASSUME NEW s \in Slaves, ClientStep(s)
        PROVE  runid' = runid /\ nextid' = nextid /\ budget'["write"] = budget["write"]
    <3>1. CASE LinkLost(s)
      BY <2>1, <3>1 DEF LinkLost, masterVars
    <3>2. CASE SyncFails(s)
      BY <2>1, <3>2 DEF SyncFails, masterVars
    <3>3. CASE SyncPartial(s) \/ SyncJoinsBgsave(s) \/ SyncWaits(s) \/ SyncStartsBgsave(s)
      BY <3>3 DEF SyncPartial, SyncJoinsBgsave, SyncWaits, SyncStartsBgsave, SyncFull, masterVars
    <3>4. CASE SendBulk(s) \/ SendReply(s) \/ ReplconfAck(s) \/ ChildWrite(s)
      BY <3>4 DEF SendBulk, SendReply, ReplconfAck, ChildWrite, masterVars
    <3> QED BY <2>4, <3>1, <3>2, <3>3, <3>4 DEF ClientStep, SyncCommand
  <2>5. ASSUME NEW s \in Slaves, SlaveStep(s)
        PROVE  runid' = runid /\ nextid' = nextid /\ budget'["write"] = budget["write"]
    BY <2>5 DEF SlaveStep, SyncWithMaster, ReadPsyncReply, LoadRdb, MissEofMark,
                SwallowStream, ReadSyncError, ReadStream, SeeClose, masterSide, masterVars
  <2> QED BY <2>2, <2>3, <2>4, <2>5 DEF Next
<1>6. OneRun'
  <2>1. budget["write"] \in Nat
    BY <1>1, <1>2
  <2>2. CASE \E db \in DBs : Write(db)
    BY <1>1, <1>4, <2>1, <2>2 DEF OneRun
  <2>3. CASE ~\E db \in DBs : Write(db)
    BY <1>1, <1>5, <2>3 DEF OneRun
  <2> QED BY <2>2, <2>3
<1> QED BY <1>3, <1>4, <1>6

(* In one run, a slave that may be trusted shows a past dataset.            *)
LEMMA OneRunShown ==
  ASSUME Quiet, IInv, StreamInv, OneRun, NEW s \in Slaves,
         slave[s].trust # "resumed", slave[s].state = "CONNECTED"
  PROVE  IsPrefix(slave[s].data, data)
<1>1. "forkfail" \in Events
  BY DEF Events
<1>2. ~MayBeLeftInEnd
  <2>1. budget \in [Events -> Nat]
    BY DEF IInv, TypeOK, MasterTyped
  <2> QED BY <1>1, <2>1 DEF MayBeLeftInEnd, Happened, Quiet
<1>3. SlaveInOrder(s)
  BY <1>2 DEF StreamInv, AllInOrder
<1>4. slave[s].runid = runid
  <2>1. slave[s].runid \in Nat /\ slave[s].runid <= runid
    BY <1>3, SlaveTyped DEF SlaveInOrder, Runs
  <2> QED BY <2>1 DEF OneRun
<1> QED BY <1>3, <1>4, ShownIsPast DEF ShowsThePast

----------------------------------------------------------------------------
Copies == [s \in Slaves |-> Trusted(s)]
LogStep == [Log!LogNext]_<<data, Copies>>

LEMMA LogStutters ==
  ASSUME data' = data, \A s \in Slaves : Trusted(s)' = Trusted(s)
  PROVE  LogStep
<1>1. Copies' = Copies
  BY DEF Copies
<1> QED BY <1>1 DEF LogStep

LEMMA LogResynchronises ==
  ASSUME NEW s \in Slaves, data' = data, data \in Dataset, Trusted(s)' \in Dataset,
         IsPrefix(Trusted(s)', data), \A t \in Slaves \ {s} : Trusted(t)' = Trusted(t)
  PROVE  LogStep
<1> DEFINE p == Trusted(s)'
<1>1. Len(p) \in 0 .. Len(data) /\ p = SubSeq(data, 1, Len(p))
  <2>1. p \in Seq(DBs \X Nat) /\ data \in Seq(DBs \X Nat)
    BY DEF Dataset
  <2> HIDE DEF p
  <2>2. Len(p) <= Len(data) /\ \A k \in 1 .. Len(p) : p[k] = data[k]
    BY <2>1, PrefixIs DEF p
  <2>3. Len(p) \in Nat /\ Len(data) \in Nat
    BY <2>1
  <2>4. /\ SubSeq(data, 1, Len(p)) \in Seq(DBs \X Nat)
        /\ Len(SubSeq(data, 1, Len(p))) = Len(p)
        /\ \A k \in 1 .. Len(p) : SubSeq(data, 1, Len(p))[k] = data[k]
    BY <2>1, <2>2, <2>3, SubSeqProperties
  <2> QED BY <2>1, <2>2, <2>3, <2>4, SeqEqual
<1>2. p \in Log!Past(data)
  BY <1>1 DEF Log!Past
<1>3. Copies' = [Copies EXCEPT ![s] = p]
  BY DEF Copies
<1>4. Log!Resynchronise(s)
  BY <1>2, <1>3 DEF Log!Resynchronise, Copies
<1> QED BY <1>4 DEF LogStep, Log!LogNext, Copies

LEMMA LogAdvances ==
  ASSUME NEW s \in Slaves, data' = data, data \in Dataset, Trusted(s) \in Dataset,
         NEW w \in DBs \X Nat, Trusted(s)' = Append(Trusted(s), w),
         IsPrefix(Trusted(s)', data), \A t \in Slaves \ {s} : Trusted(t)' = Trusted(t)
  PROVE  LogStep
<1> DEFINE c == Trusted(s)
           n == Len(c)
<1>1. n < Len(data) /\ w = data[n + 1]
  <2> DEFINE p == Append(c, w)
  <2>1. c \in Seq(DBs \X Nat) /\ data \in Seq(DBs \X Nat) /\ IsPrefix(p, data)
    BY DEF Dataset
  <2> HIDE DEF c
  <2>2. n \in Nat /\ Len(data) \in Nat /\ p \in Seq(DBs \X Nat) /\ Len(p) = n + 1 /\ p[n + 1] = w
    BY <2>1
  <2>3. /\ p \in Seq(DBs \X Nat) /\ data \in Seq(DBs \X Nat) /\ IsPrefix(p, data)
        /\ n \in Nat /\ Len(data) \in Nat /\ Len(p) = n + 1 /\ p[n + 1] = w
    BY <2>1, <2>2
  <2> HIDE DEF p, n
  <2>4. Len(p) <= Len(data) /\ \A k \in 1 .. Len(p) : p[k] = data[k]
    BY <2>3, PrefixIs
  <2> QED BY <2>3, <2>4
<1>2. Copies[s] = c
  BY DEF Copies
<1>3. Copies' = [Copies EXCEPT ![s] = Append(c, data[n + 1])]
  BY <1>1 DEF Copies
<1>4. Log!Advance(s)
  BY <1>1, <1>2, <1>3 DEF Log!Advance, Copies
<1> QED BY <1>4 DEF LogStep, Log!LogNext, Copies

LEMMA LogAppends ==
  ASSUME NEW w \in DBs \X (1 .. Budget["write"]), data' = Append(data, w),
         \A s \in Slaves : Trusted(s)' = Trusted(s)
  PROVE  LogStep
<1>1. Copies' = Copies
  BY DEF Copies
<1>2. Log!AppendWrite(w)
  BY <1>1 DEF Log!AppendWrite, Copies
<1> QED BY <1>2 DEF LogStep, Log!LogNext

LEMMA TrustedTyped ==
  ASSUME IInv, NEW s \in Slaves
  PROVE  Trusted(s) \in Dataset
<1>1. <<>> \in Dataset
  BY DEF Dataset
<1> QED BY <1>1, SlaveTyped DEF Trusted

(* The steps of a slave.                                                    *)
LEMMA SlaveStepLogs ==
  ASSUME Quiet, IInv, IInv', StreamInv', OneRun', NEW s \in Slaves, SlaveStep(s)
  PROVE  LogStep
<1>1. /\ slave \in [Slaves -> SlaveType] /\ data \in Dataset
      /\ Trusted(s) \in Dataset
  BY TrustedTyped DEF IInv, TypeOK, MasterTyped
<1>2. data' = data /\ \A t \in Slaves \ {s} : slave'[t] = slave[t]
  <2>1. data' = data
    BY DEF SlaveStep, SyncWithMaster, ReadPsyncReply, LoadRdb, MissEofMark, SwallowStream,
           ReadSyncError, ReadStream, SeeClose, masterSide, masterVars
  <2>2. slave' = slave \/ \E new : slave' = [slave EXCEPT ![s] = new]
    <3>1. CASE SyncWithMaster(s)
      BY <3>1 DEF SyncWithMaster
    <3>2. CASE ReadPsyncReply(s)
      BY <3>2 DEF ReadPsyncReply
    <3>3. CASE LoadRdb(s)
      BY <3>3 DEF LoadRdb
    <3>4. CASE MissEofMark(s) \/ SwallowStream(s)
      BY <3>4 DEF MissEofMark, SwallowStream
    <3>5. CASE ReadSyncError(s)
      BY <3>5 DEF ReadSyncError
    <3>6. CASE ReadStream(s)
      BY <3>6 DEF ReadStream
    <3>7. CASE SeeClose(s)
      BY <3>7 DEF SeeClose
    <3> QED BY <3>1, <3>2, <3>3, <3>4, <3>5, <3>6, <3>7 DEF SlaveStep
  <2> QED BY <1>1, <2>1, <2>2
<1>3. \A t \in Slaves \ {s} : Trusted(t)' = Trusted(t)
  BY <1>2 DEF Trusted
<1>4. ASSUME slave'[s].data = slave[s].data, slave'[s].trust = slave[s].trust
      PROVE  LogStep
  <2>1. Trusted(s)' = Trusted(s)
    BY <1>4 DEF Trusted
  <2> QED BY <1>2, <1>3, <2>1, LogStutters
<1>5. ASSUME slave'[s].trust # "resumed", slave'[s].state = "CONNECTED"
      PROVE  Trusted(s)' = slave'[s].data /\ IsPrefix(Trusted(s)', data)
  <2>1. (slave[s].trust # "resumed")' /\ (slave[s].state = "CONNECTED")'
    BY <1>5
  <2>2. IsPrefix(slave[s].data, data)'
    BY <2>1, OneRunShown, PTL
  <2>3. IsPrefix(slave'[s].data, data')
    BY <2>2 DEF IsPrefix
  <2> QED BY <1>2, <1>5, <2>3 DEF Trusted
<1>6. Trusted(s)' \in Dataset
  <2>1. (Trusted(s) \in Dataset)'
    BY TrustedTyped, PTL
  <2> QED BY <2>1
<1>7. CASE MissEofMark(s) \/ SwallowStream(s)
  <2>1. slave' = slave
    BY <1>7 DEF MissEofMark, SwallowStream
  <2> QED BY <1>4, <2>1
<1>8. CASE SyncWithMaster(s) \/ ReadSyncError(s) \/ SeeClose(s)
  <2>1. slave'[s].data = slave[s].data /\ slave'[s].trust = slave[s].trust
    BY <1>1, <1>8 DEF SyncWithMaster, ReadSyncError, SeeClose, SlaveType
  <2> QED BY <1>4, <2>1
<1>9. CASE ReadPsyncReply(s)
  <2> DEFINE reply == Head(wire[s])
  <2>1. slave'[s] = IF reply.op = "CONTINUE" THEN Continued(slave[s])
                    ELSE ToTransfer(slave[s], reply)
    BY <1>1, <1>9 DEF ReadPsyncReply
  <2> HIDE DEF reply
  <2>2. slave[s] \in SlaveType
    BY <1>1
  <2>3. CASE reply.op # "CONTINUE"
    <3>1. slave'[s].data = slave[s].data /\ slave'[s].trust = slave[s].trust
      BY <2>1, <2>2, <2>3 DEF ToTransfer, SlaveType
    <3> QED BY <1>4, <3>1
  <2>4. CASE reply.op = "CONTINUE" /\ slave[s].trust = "exact"
    <3>1. slave'[s].data = slave[s].data /\ slave'[s].trust = slave[s].trust
      BY <2>1, <2>2, <2>4 DEF Continued, SlaveType
    <3> QED BY <1>4, <3>1
  <2>5. CASE reply.op = "CONTINUE" /\ slave[s].trust # "exact"
    <3>1. slave'[s].trust = "resumed"
      BY <2>1, <2>2, <2>5 DEF Continued, SlaveType
    <3>2. Trusted(s)' = <<>>
      BY <3>1 DEF Trusted
    <3>3. IsPrefix(<<>>, data)
      <4> DEFINE z == <<>>
      <4>1. z \in Seq(DBs \X Nat) /\ data \in Seq(DBs \X Nat) /\ Len(z) = 0
            /\ Len(data) \in Nat
        BY <1>1 DEF Dataset
      <4> HIDE DEF z
      <4>2. Len(z) <= Len(data) /\ \A k \in 1 .. Len(z) : z[k] = data[k]
        BY <4>1
      <4>3. IsPrefix(z, data)
        BY <4>1, <4>2, PrefixIs
      <4> QED BY <4>3 DEF z
    <3> QED BY <1>1, <1>2, <1>3, <1>6, <3>2, <3>3, LogResynchronises
  <2> QED BY <2>3, <2>4, <2>5
<1>10. CASE LoadRdb(s)
  <2>1. slave'[s].state = "CONNECTED" /\ slave'[s].trust \in {"exact", "inexact"}
    BY <1>1, <1>10 DEF LoadRdb, SlaveType
  <2>2. IsPrefix(Trusted(s)', data)
    BY <1>5, <2>1
  <2> QED BY <1>1, <1>2, <1>3, <1>6, <2>2, LogResynchronises
<1>11. CASE ReadStream(s)
  <2> DEFINE e == Head(wire[s])
             inst == slave[s]
  <2>1. slave'[s] = Executed(inst, e) /\ inst.state = "CONNECTED"
    BY <1>1, <1>11 DEF ReadStream
  <2>2. inst \in SlaveType
    BY <1>1
  <2> HIDE DEF e
  <2>3. CASE e.op # "CMD"
    <3>1. slave'[s].data = inst.data /\ slave'[s].trust = inst.trust
      BY <2>1, <2>2, <2>3 DEF Executed, SlaveType
    <3> QED BY <1>4, <3>1
  <2>4. CASE e.op = "CMD"
    <3>1. slave'[s] = [inst EXCEPT !.reploff = @ + 1,
                                   !.data = Append(@, <<inst.db, e.arg>>)]
      BY <2>1, <2>4 DEF Executed
    <3>2. /\ slave'[s].trust = inst.trust /\ slave'[s].state = "CONNECTED"
          /\ slave'[s].data = Append(inst.data, <<inst.db, e.arg>>)
      BY <2>1, <2>2, <3>1 DEF SlaveType
    <3>3. CASE inst.trust = "resumed"
      <4>1. Trusted(s)' = Trusted(s)
        BY <3>2, <3>3 DEF Trusted
      <4> QED BY <1>2, <1>3, <4>1, LogStutters
    <3>4. CASE inst.trust # "resumed"
      <4>1. /\ Trusted(s) = inst.data
            /\ Trusted(s)' = Append(inst.data, <<inst.db, e.arg>>)
            /\ IsPrefix(Trusted(s)', data)
        BY <1>5, <3>2, <3>4 DEF Trusted
      <4> DEFINE w == <<inst.db, e.arg>>
      <4>2. w \in DBs \X Nat
        <5> DEFINE q == Append(inst.data, w)
        <5>1. q \in Seq(DBs \X Nat) /\ inst.data \in Seq(DBs \X Nat)
          BY <1>6, <2>2, <4>1 DEF Dataset, SlaveType
        <5> HIDE DEF w
        <5>2. q[Len(inst.data) + 1] = w /\ Len(q) = Len(inst.data) + 1 /\ Len(inst.data) \in Nat
          BY <5>1
        <5> HIDE DEF q
        <5>3. Len(inst.data) + 1 \in 1 .. Len(q)
          BY <5>2
        <5> QED BY <5>1, <5>2, <5>3
      <4> HIDE DEF w, inst
      <4>3. Trusted(s)' = Append(Trusted(s), w)
        BY <4>1 DEF w
      <4> QED BY <1>1, <1>2, <1>3, <4>1, <4>2, <4>3, LogAdvances
    <3> QED BY <3>3, <3>4
  <2> QED BY <2>3, <2>4
<1> QED BY <1>7, <1>8, <1>9, <1>10, <1>11 DEF SlaveStep

(* The steps of the master.                                                 *)
LEMMA WriteLogs ==
  ASSUME NEW db \in DBs, Write(db), nextid \in 1 .. Budget["write"]
  PROVE  LogStep
<1>1. data' = Append(data, <<db, nextid>>) /\ slave' = slave
  BY DEF Write
<1>2. \A s \in Slaves : Trusted(s)' = Trusted(s)
  BY <1>1 DEF Trusted
<1>3. <<db, nextid>> \in DBs \X (1 .. Budget["write"])
  OBVIOUS
<1> QED BY <1>1, <1>2, <1>3, LogAppends

LEMMA IdleLogs ==
  ASSUME [Next]_vars, ~MasterCrash, ~\E db \in DBs : Write(db),
         ~\E s \in Slaves : SlaveStep(s)
  PROVE  LogStep
<1>1. data' = data /\ slave' = slave
  <2>1. CASE UNCHANGED vars
    BY <2>1 DEF vars, masterVars
  <2>2. CASE MasterStep
    BY <2>2 DEF MasterStep, CronPing, CronFreeBacklog, Bgsave, ConfigResize, CronStartBgsave,
                BgsaveDoneDisk, BgsaveDoneSocket, masterVars
  <2>3. ASSUME NEW s \in Slaves, ClientStep(s)
        PROVE  data' = data /\ slave' = slave
    BY <2>3 DEF ClientStep, SyncCommand, LinkLost, SyncFails, SyncPartial, SyncJoinsBgsave,
                SyncWaits, SyncStartsBgsave, SyncFull, SendBulk, SendReply, ReplconfAck,
                ChildWrite, masterVars
  <2> QED BY <2>1, <2>2, <2>3 DEF Next
<1>2. \A s \in Slaves : Trusted(s)' = Trusted(s)
  BY <1>1 DEF Trusted
<1> QED BY <1>1, <1>2, LogStutters

LEMMA EveryStepLogs ==
  Quiet /\ IInv /\ StreamInv /\ OneRun /\ [Next]_vars => LogStep /\ OneRun'
<1> SUFFICES ASSUME Quiet, IInv, StreamInv, OneRun, [Next]_vars
             PROVE  LogStep /\ OneRun'
  OBVIOUS
<1>1. IInv' /\ StreamInv'
  BY NextInOrder, NextStream
<1>2. /\ OneRun' /\ ~MasterCrash
      /\ \A db \in DBs : Write(db) => nextid \in 1 .. Budget["write"]
  BY <1>1, OneRunStays
<1>3. CASE \E db \in DBs : Write(db)
  BY <1>2, <1>3, WriteLogs
<1>4. CASE \E s \in Slaves : SlaveStep(s)
  BY <1>1, <1>2, <1>4, SlaveStepLogs
<1>5. CASE (~\E db \in DBs : Write(db)) /\ ~\E s \in Slaves : SlaveStep(s)
  BY <1>2, <1>5, IdleLogs
<1> QED BY <1>2, <1>3, <1>4, <1>5

LEMMA FirstLog ==
  ASSUME Init
  PROVE  Log!LogInit /\ OneRun
<1>1. /\ data = <<>> /\ \A s \in Slaves : slave[s].data = <<>>
      /\ runid = 0 /\ nextid = 1 /\ budget = Budget
  BY DEF Init
<1>2. [s \in Slaves |-> Trusted(s)] = [s \in Slaves |-> <<>>]
  BY <1>1 DEF Trusted
<1>3. \A e \in Events : Budget[e] \in Nat
  BY ConstantsTyped
<1>4. "write" \in Events
  BY DEF Events
<1> QED BY <1>1, <1>2, <1>3, <1>4 DEF Log!LogInit, OneRun

(* A master that does not crash and whose forks succeed implements the      *)
(* abstract log: a slave changes by the next write or by a whole RDB, and   *)
(* only ever holds a past dataset, however often links break and children   *)
(* fail, and whoever else starts a BGSAVE.                                  *)
THEOREM ReplicationImplementsLog ==
  ASSUME Budget["crash"] = 0, Budget["forkfail"] = 0
  PROVE  Spec => ReplicatesLog
<1>1. Quiet
  BY DEF Quiet
<1>2. Init => Log!LogInit /\ OneRun
  BY FirstLog
<1>3. IInv /\ StreamInv /\ OneRun /\ [Next]_vars =>
        [Log!LogNext]_<<data, [s \in Slaves |-> Trusted(s)]>> /\ OneRun'
  BY <1>1, EveryStepLogs DEF LogStep, Copies
<1> QED
  BY <1>2, <1>3, Invariance, StreamInvariance, PTL DEF Spec, ReplicatesLog, Log!ReplicatedLogSpec

============================================================================
