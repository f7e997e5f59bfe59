------------------------ MODULE RedisClients_proofs ------------------------
(* Proofs about the clients of a server: for any descriptors, sizes of the   *)
(* buffers, limits and chances, a client is sent its replies in order, none  *)
(* missing and none twice; and clients, lists of clients, write handlers and *)
(* limits agree.                                                             *)
EXTENDS RedisClients, FiniteSetTheorems, SequenceTheorems, WellFoundedInduction, TLAPS

----------------------------------------------------------------------------
(* Numbers and functions.                                                   *)
(* A set of numbers up to n has a least one.                                *)
LEMMA Least ==
  ASSUME NEW n \in Nat, NEW S \in SUBSET (0 .. n), S # {}
  PROVE  \E m \in S : \A k \in S : m <= k
<1> DEFINE Below(i) == {k \in S : k < i}
           T == {Below(i) : i \in S}
           R == StrictSubsetOrdering(0 .. n)
           U == FiniteSubsetsOf(0 .. n)
<1>1. IsWellFoundedOn(R, U)
  BY FS_StrictSubsetOrderingWellFounded
<1>2. IsFiniteSet(0 .. n)
  BY FS_Interval
<1>3. T \subseteq U /\ T # {}
  <2>1. U = SUBSET (0 .. n)
    BY <1>2, FS_FiniteSubsetsOfFinite
  <2>2. \A i \in S : Below(i) \in SUBSET (0 .. n)
    OBVIOUS
  <2> HIDE DEF U, Below
  <2> QED BY <2>1, <2>2
<1>4. PICK B \in T : \A C \in T : <<C, B>> \notin R
  <2> HIDE DEF T, R, U
  <2> QED BY <1>1, <1>3, WFMin
<1>5. PICK m \in S : B = Below(m)
  BY <1>4
<1>6. ASSUME NEW k \in S, k < m
      PROVE  FALSE
  <2>1. k \in Int /\ m \in Int /\ \A j \in S : j \in Int
    OBVIOUS
  <2>2. Below(k) \subseteq Below(m) /\ k \in Below(m) /\ k \notin Below(k)
    <3>1. ASSUME NEW j \in Below(k) PROVE j \in S /\ j < m
      BY <1>6, <2>1
    <3>2. ~(k < k)
      BY <2>1
    <3> QED BY <1>6, <3>1, <3>2
  <2>3. Below(k) \in SUBSET (0 .. n) /\ Below(m) \in SUBSET (0 .. n) /\ Below(k) \in T
    OBVIOUS
  <2>4. <<Below(k), Below(m)>> \in R
    BY <2>2, <2>3 DEF StrictSubsetOrdering
  <2> QED BY <1>4, <1>5, <2>3, <2>4
<1>7. \A k \in S : k \in Int
  OBVIOUS
<1> QED BY <1>6, <1>7

(* Induction on a number up to n, for a set that is given.                  *)
LEMMA Induct ==
  ASSUME NEW n \in Nat, NEW T \in SUBSET (0 .. n), 0 \in T,
         \A k \in 1 .. n : k - 1 \in T => k \in T
  PROVE  \A k \in 0 .. n : k \in T
<1> DEFINE S == {k \in 0 .. n : k \notin T}
<1>1. SUFFICES ASSUME S # {} PROVE FALSE
  OBVIOUS
<1>2. PICK m \in S : \A k \in S : m <= k
  BY <1>1, Least
<1>3. m \in 1 .. n /\ m - 1 \in 0 .. n /\ m - 1 \notin S
  BY <1>2
<1> QED BY <1>2, <1>3

(* A function that is defined step by step exists, and stays in a set that  *)
(* every step stays in.                                                     *)
StepsIn(n, S) == [1 .. n -> [S -> S]]
Follows(f, n, S, x, F) ==
  f \in [0 .. n -> S] /\ f[0] = x /\ \A i \in 1 .. n : f[i] = F[i][f[i - 1]]
(* Functions that are applied one after the other.                          *)
LEMMA Iterate ==
  ASSUME NEW n \in Nat, NEW S, NEW x \in S, NEW F \in StepsIn(n, S)
  PROVE  \E f : Follows(f, n, S, x, F)
<1> DEFINE Steps(k) == {f \in [0 .. k -> S] : f[0] = x /\ \A i \in 1 .. k : f[i] = F[i][f[i - 1]]}
           T == {k \in 0 .. n : Steps(k) # {}}
<1>1. 0 \in T
  <2> DEFINE f == [i \in 0 .. 0 |-> x]
  <2>1. f \in Steps(0)
    OBVIOUS
  <2> QED BY <2>1
<1>2. ASSUME NEW k \in 1 .. n, k - 1 \in T
      PROVE  k \in T
  <2>1. PICK f \in [0 .. k - 1 -> S] : f[0] = x /\ \A i \in 1 .. k - 1 : f[i] = F[i][f[i - 1]]
    BY <1>2
  <2> DEFINE g == [i \in 0 .. k |-> IF i = k THEN F[k][f[k - 1]] ELSE f[i]]
  <2>2. f[k - 1] \in S /\ F[k] \in [S -> S]
    BY <2>1 DEF StepsIn
  <2>3. g \in [0 .. k -> S] /\ g[0] = x
    BY <2>1, <2>2
  <2>4. ASSUME NEW i \in 1 .. k PROVE g[i] = F[i][g[i - 1]]
    <3>1. CASE i = k
      BY <3>1
    <3>2. CASE i # k
      <4>1. i \in 1 .. k - 1 /\ i - 1 \in 0 .. k - 1 /\ i - 1 # k
        BY <3>2
      <4> QED BY <2>1, <3>2, <4>1
    <3> QED BY <3>1, <3>2
  <2> HIDE DEF g
  <2>5. g \in Steps(k)
    BY <2>3, <2>4
  <2> HIDE DEF Steps
  <2> QED BY <2>5
<1>3. n \in T
  <2>1. T \in SUBSET (0 .. n)
    OBVIOUS
  <2> HIDE DEF T
  <2>2. \A k \in 0 .. n : k \in T
    BY <1>1, <1>2, <2>1, Induct
  <2> QED BY <2>2
<1> QED BY <1>3 DEF Follows

----------------------------------------------------------------------------
(* The units of a list of nodes, and their bytes.                           *)
NodeType == [units : Seq(Nat) \ {<<>>}, open : BOOLEAN]

UnitsStep(y, node) == y \o node.units
IsUnits(f, list) ==
  f = [i \in 0 .. Len(list) |-> IF i = 0 THEN <<>> ELSE UnitsStep(f[i - 1], list[i])]
(* The recursive function of UnitsOf(), and what it yields.                 *)
LEMMA UnitsSteps ==
  ASSUME NEW list \in Seq(NodeType)
  PROVE  \E f \in [0 .. Len(list) -> Seq(Nat)] :
           /\ f[0] = <<>> /\ \A i \in 1 .. Len(list) : f[i] = UnitsStep(f[i - 1], list[i])
           /\ UnitsOf(list) = f[Len(list)]
<1> DEFINE n == Len(list)
           S == Seq(Nat)
           e == <<>>
           F == [i \in 1 .. n |-> [y \in S |-> UnitsStep(y, list[i])]]
           r == CHOOSE g : IsUnits(g, list)
<1>0. n \in Nat /\ e \in S
  OBVIOUS
<1>1. ASSUME NEW i \in 1 .. n, NEW y \in S PROVE UnitsStep(y, list[i]) \in S
  <2>1. list[i].units \in S
    <3>1. list[i] \in NodeType
      OBVIOUS
    <3> QED BY <3>1 DEF NodeType
  <2> QED BY <2>1 DEF UnitsStep
<1>2. UnitsOf(list) = r[n]
  BY DEF UnitsOf, IsUnits, UnitsStep
<1>3. \A g : IsUnits(g, list) <=> g = [i \in 0 .. n |-> IF i = 0 THEN e ELSE UnitsStep(g[i - 1], list[i])]
  BY DEF IsUnits
<1> HIDE DEF n, S, e, r
<1>4. F \in StepsIn(n, S)
  BY <1>1 DEF StepsIn
<1>5. PICK f \in [0 .. n -> S] : f[0] = e /\ \A i \in 1 .. n : f[i] = F[i][f[i - 1]]
  <2> HIDE DEF F
  <2>1. \E f : Follows(f, n, S, e, F)
    BY <1>0, <1>4, Iterate
  <2> QED BY <2>1 DEF Follows
<1>6. \A i \in 0 .. n : f[i] = IF i = 0 THEN e ELSE UnitsStep(f[i - 1], list[i])
  <2> TAKE i \in 0 .. n
  <2>1. CASE i = 0
    BY <1>5, <2>1
  <2>2. CASE i # 0
    <3>1. i \in 1 .. n /\ f[i - 1] \in S
      BY <1>0, <1>5, <2>2
    <3> QED BY <1>5, <2>2, <3>1
  <2> QED BY <2>1, <2>2
<1>7. IsUnits(f, list)
  <2>1. f = [i \in 0 .. n |-> f[i]]
    BY <1>5
  <2> QED BY <1>3, <1>6, <2>1
<1>8. IsUnits(r, list)
  BY <1>7 DEF r
<1>9. \A i \in 0 .. n : r[i] = IF i = 0 THEN e ELSE UnitsStep(r[i - 1], list[i])
  BY <1>3, <1>8
<1> DEFINE T == {i \in 0 .. n : r[i] = f[i]}
<1>10. \A i \in 0 .. n : i \in T
  <2>1. 0 \in T
    BY <1>0, <1>6, <1>9
  <2>2. ASSUME NEW i \in 1 .. n, i - 1 \in T PROVE i \in T
    <3>1. i \in 0 .. n /\ i # 0 /\ r[i - 1] = f[i - 1]
      BY <1>0, <2>2
    <3> QED BY <1>6, <1>9, <3>1
  <2>3. T \in SUBSET (0 .. n)
    OBVIOUS
  <2> HIDE DEF T
  <2> QED BY <1>0, <2>1, <2>2, <2>3, Induct
<1>11. UnitsOf(list) = f[n]
  BY <1>0, <1>2, <1>10
<1>12. \A i \in 1 .. n : f[i] = UnitsStep(f[i - 1], list[i])
  <2>1. \A i \in 1 .. n : i \in 0 .. n /\ i # 0
    BY <1>0
  <2> QED BY <1>6, <2>1
<1> QED BY <1>5, <1>11, <1>12 DEF n, S, e

BytesStep(y, node) == y + NodeBytes(node)
IsBytes(f, list) ==
  f = [i \in 0 .. Len(list) |-> IF i = 0 THEN 0 ELSE BytesStep(f[i - 1], list[i])]
(* The recursive function of BytesOf(), and what it yields.                 *)
LEMMA BytesSteps ==
  ASSUME NEW list \in Seq(NodeType)
  PROVE  \E f \in [0 .. Len(list) -> Nat] :
           /\ f[0] = 0 /\ \A i \in 1 .. Len(list) : f[i] = BytesStep(f[i - 1], list[i])
           /\ BytesOf(list) = f[Len(list)]
<1> DEFINE n == Len(list)
           S == Nat
           e == 0
           F == [i \in 1 .. n |-> [y \in S |-> BytesStep(y, list[i])]]
           r == CHOOSE g : IsBytes(g, list)
<1>0. n \in Nat /\ e \in S
  OBVIOUS
<1>1. ASSUME NEW i \in 1 .. n, NEW y \in S PROVE BytesStep(y, list[i]) \in S
  <2>1. list[i].units \in Seq(Nat)
    <3>1. list[i] \in NodeType
      OBVIOUS
    <3> QED BY <3>1 DEF NodeType
  <2>2. NodeBytes(list[i]) \in Nat
    BY <2>1 DEF NodeBytes
  <2> QED BY <2>2 DEF BytesStep
<1>2. BytesOf(list) = r[n]
  BY DEF BytesOf, IsBytes, BytesStep
<1>3. \A g : IsBytes(g, list) <=> g = [i \in 0 .. n |-> IF i = 0 THEN e ELSE BytesStep(g[i - 1], list[i])]
  BY DEF IsBytes
<1> HIDE DEF n, S, e, r
<1>4. F \in StepsIn(n, S)
  BY <1>1 DEF StepsIn
<1>5. PICK f \in [0 .. n -> S] : f[0] = e /\ \A i \in 1 .. n : f[i] = F[i][f[i - 1]]
  <2> HIDE DEF F
  <2>1. \E f : Follows(f, n, S, e, F)
    BY <1>0, <1>4, Iterate
  <2> QED BY <2>1 DEF Follows
<1>6. \A i \in 0 .. n : f[i] = IF i = 0 THEN e ELSE BytesStep(f[i - 1], list[i])
  <2> TAKE i \in 0 .. n
  <2>1. CASE i = 0
    BY <1>5, <2>1
  <2>2. CASE i # 0
    <3>1. i \in 1 .. n /\ f[i - 1] \in S
      BY <1>0, <1>5, <2>2
    <3> QED BY <1>5, <2>2, <3>1
  <2> QED BY <2>1, <2>2
<1>7. IsBytes(f, list)
  <2>1. f = [i \in 0 .. n |-> f[i]]
    BY <1>5
  <2> QED BY <1>3, <1>6, <2>1
<1>8. IsBytes(r, list)
  BY <1>7 DEF r
<1>9. \A i \in 0 .. n : r[i] = IF i = 0 THEN e ELSE BytesStep(r[i - 1], list[i])
  BY <1>3, <1>8
<1> DEFINE T == {i \in 0 .. n : r[i] = f[i]}
<1>10. \A i \in 0 .. n : i \in T
  <2>1. 0 \in T
    BY <1>0, <1>6, <1>9
  <2>2. ASSUME NEW i \in 1 .. n, i - 1 \in T PROVE i \in T
    <3>1. i \in 0 .. n /\ i # 0 /\ r[i - 1] = f[i - 1]
      BY <1>0, <2>2
    <3> QED BY <1>6, <1>9, <3>1
  <2>3. T \in SUBSET (0 .. n)
    OBVIOUS
  <2> HIDE DEF T
  <2> QED BY <1>0, <2>1, <2>2, <2>3, Induct
<1>11. BytesOf(list) = f[n]
  BY <1>0, <1>2, <1>10
<1>12. \A i \in 1 .. n : f[i] = BytesStep(f[i - 1], list[i])
  <2>1. \A i \in 1 .. n : i \in 0 .. n /\ i # 0
    BY <1>0
  <2> QED BY <1>6, <2>1
<1> QED BY <1>5, <1>11, <1>12 DEF n, S, e

(* Concatenation is associative.                                            *)
LEMMA UnitsAssociate ==
  \A a, b, c \in Seq(Nat) : (a \o b) \o c = a \o (b \o c)
<1> TAKE a, b, c \in Seq(Nat)
<1> QED BY ConcatAssociative

(* The units of two lists.                                                  *)
LEMMA UnitsOfConcat ==
  ASSUME NEW p \in Seq(NodeType), NEW q \in Seq(NodeType)
  PROVE  UnitsOf(p \o q) = UnitsOf(p) \o UnitsOf(q) /\ UnitsOf(p) \in Seq(Nat)
<1> DEFINE m == Len(p)
           n == Len(q)
<1>0. m \in Nat /\ n \in Nat /\ Len(p \o q) = m + n /\ p \o q \in Seq(NodeType)
  BY ConcatProperties
<1>1. (\A i \in 1 .. m : (p \o q)[i] = p[i]) /\ (\A i \in 1 .. n : (p \o q)[m + i] = q[i])
  <2>1. \A i \in 1 .. m : i \in 1 .. m + n /\ i <= m
    BY <1>0
  <2>2. \A i \in 1 .. n : m + i \in 1 .. m + n /\ ~(m + i <= m) /\ m + i - m = i
    BY <1>0
  <2> QED BY <2>1, <2>2, ConcatProperties
<1>2. PICK f \in [0 .. m -> Seq(Nat)] :
        /\ f[0] = <<>> /\ \A i \in 1 .. m : f[i] = UnitsStep(f[i - 1], p[i])
        /\ UnitsOf(p) = f[m]
  BY UnitsSteps
<1>3. PICK g \in [0 .. n -> Seq(Nat)] :
        /\ g[0] = <<>> /\ \A i \in 1 .. n : g[i] = UnitsStep(g[i - 1], q[i])
        /\ UnitsOf(q) = g[n]
  BY UnitsSteps
<1>4. PICK h \in [0 .. m + n -> Seq(Nat)] :
        /\ h[0] = <<>> /\ \A i \in 1 .. m + n : h[i] = UnitsStep(h[i - 1], (p \o q)[i])
        /\ UnitsOf(p \o q) = h[m + n]
  BY <1>0, UnitsSteps
<1> DEFINE T == {i \in 0 .. m : h[i] = f[i]}
           U == {i \in 0 .. n : h[m + i] = f[m] \o g[i]}
<1> HIDE DEF m, n
<1>5. \A i \in 0 .. m : i \in T
  <2>1. 0 \in T
    BY <1>0, <1>2, <1>4
  <2>2. ASSUME NEW i \in 1 .. m, i - 1 \in T PROVE i \in T
    <3>1. i \in 0 .. m /\ i \in 1 .. m + n /\ h[i - 1] = f[i - 1] /\ (p \o q)[i] = p[i]
      BY <1>0, <1>1, <2>2
    <3> QED BY <1>2, <1>4, <3>1
  <2>3. T \in SUBSET (0 .. m)
    OBVIOUS
  <2> HIDE DEF T
  <2> QED BY <1>0, <2>1, <2>2, <2>3, Induct
<1>6. h[m] = f[m] /\ f[m] \in Seq(Nat)
  BY <1>0, <1>2, <1>5
<1>7. \A i \in 0 .. n : i \in U
  <2>1. 0 \in U
    <3>1. 0 \in 0 .. n /\ m + 0 = m
      BY <1>0
    <3> QED BY <1>3, <1>6, <3>1, ConcatEmptySeq
  <2>2. ASSUME NEW i \in 1 .. n, i - 1 \in U PROVE i \in U
    <3>1. i \in 0 .. n /\ m + i \in 1 .. m + n /\ (m + i) - 1 = m + (i - 1) /\ i - 1 \in 0 .. n
      BY <1>0
    <3>2. h[m + i] = (f[m] \o g[i - 1]) \o q[i].units /\ g[i] = g[i - 1] \o q[i].units
      <4>1. h[m + (i - 1)] = f[m] \o g[i - 1]
        BY <2>2
      <4>2. h[m + i] = UnitsStep(h[(m + i) - 1], (p \o q)[m + i]) /\ g[i] = UnitsStep(g[i - 1], q[i])
        BY <1>3, <1>4, <3>1
      <4>3. (p \o q)[m + i] = q[i] /\ h[(m + i) - 1] = h[m + (i - 1)]
        BY <1>1, <3>1
      <4> QED BY <4>1, <4>2, <4>3 DEF UnitsStep
    <3>3. g[i - 1] \in Seq(Nat) /\ q[i].units \in Seq(Nat)
      <4>1. q[i] \in NodeType
        BY ElementOfSeq DEF n
      <4> QED BY <1>3, <3>1, <4>1 DEF NodeType
    <3>4. (f[m] \o g[i - 1]) \o q[i].units = f[m] \o (g[i - 1] \o q[i].units)
      <4>1. f[m] \in Seq(Nat)
        BY <1>6
      <4> QED BY <3>3, <4>1, UnitsAssociate
    <3>5. h[m + i] = f[m] \o g[i]
      BY <3>2, <3>4
    <3> QED BY <3>1, <3>5
  <2>3. U \in SUBSET (0 .. n)
    OBVIOUS
  <2> HIDE DEF U
  <2> QED BY <1>0, <2>1, <2>2, <2>3, Induct
<1>8. h[m + n] = f[m] \o g[n]
  BY <1>0, <1>7
<1> QED BY <1>2, <1>3, <1>4, <1>6, <1>8

(* The bytes of two lists.                                                  *)
LEMMA BytesOfConcat ==
  ASSUME NEW p \in Seq(NodeType), NEW q \in Seq(NodeType)
  PROVE  BytesOf(p \o q) = BytesOf(p) + BytesOf(q) /\ BytesOf(p) \in Nat
<1> DEFINE m == Len(p)
           n == Len(q)
<1>0. m \in Nat /\ n \in Nat /\ Len(p \o q) = m + n /\ p \o q \in Seq(NodeType)
  BY ConcatProperties
<1>1. (\A i \in 1 .. m : (p \o q)[i] = p[i]) /\ (\A i \in 1 .. n : (p \o q)[m + i] = q[i])
  <2>1. \A i \in 1 .. m : i \in 1 .. m + n /\ i <= m
    BY <1>0
  <2>2. \A i \in 1 .. n : m + i \in 1 .. m + n /\ ~(m + i <= m) /\ m + i - m = i
    BY <1>0
  <2> QED BY <2>1, <2>2, ConcatProperties
<1>2. PICK f \in [0 .. m -> Nat] :
        /\ f[0] = 0 /\ \A i \in 1 .. m : f[i] = BytesStep(f[i - 1], p[i])
        /\ BytesOf(p) = f[m]
  BY BytesSteps
<1>3. PICK g \in [0 .. n -> Nat] :
        /\ g[0] = 0 /\ \A i \in 1 .. n : g[i] = BytesStep(g[i - 1], q[i])
        /\ BytesOf(q) = g[n]
  BY BytesSteps
<1>4. PICK h \in [0 .. m + n -> Nat] :
        /\ h[0] = 0 /\ \A i \in 1 .. m + n : h[i] = BytesStep(h[i - 1], (p \o q)[i])
        /\ BytesOf(p \o q) = h[m + n]
  BY <1>0, BytesSteps
<1> DEFINE T == {i \in 0 .. m : h[i] = f[i]}
           U == {i \in 0 .. n : h[m + i] = f[m] + g[i]}
<1> HIDE DEF m, n
<1>5. \A i \in 0 .. m : i \in T
  <2>1. 0 \in T
    BY <1>0, <1>2, <1>4
  <2>2. ASSUME NEW i \in 1 .. m, i - 1 \in T PROVE i \in T
    <3>1. i \in 0 .. m /\ i \in 1 .. m + n /\ h[i - 1] = f[i - 1] /\ (p \o q)[i] = p[i]
      <4>1. i \in 0 .. m /\ i \in 1 .. m + n
        BY <1>0
      <4> QED BY <1>1, <2>2, <4>1
    <3> QED BY <1>2, <1>4, <3>1
  <2>3. T \in SUBSET (0 .. m)
    OBVIOUS
  <2> HIDE DEF T
  <2> QED BY <1>0, <2>1, <2>2, <2>3, Induct
<1>6. h[m] = f[m] /\ f[m] \in Nat
  BY <1>0, <1>2, <1>5
<1>7. \A i \in 0 .. n : i \in U
  <2>1. 0 \in U
    <3>1. 0 \in 0 .. n /\ m + 0 = m /\ f[m] + 0 = f[m]
      BY <1>0, <1>6
    <3> QED BY <1>3, <1>6, <3>1
  <2>2. ASSUME NEW i \in 1 .. n, i - 1 \in U PROVE i \in U
    <3>1. i \in 0 .. n /\ m + i \in 1 .. m + n /\ (m + i) - 1 = m + (i - 1) /\ i - 1 \in 0 .. n
      BY <1>0
    <3>2. h[m + i] = (f[m] + g[i - 1]) + NodeBytes(q[i]) /\ g[i] = g[i - 1] + NodeBytes(q[i])
      <4>1. h[m + (i - 1)] = f[m] + g[i - 1]
        BY <2>2
      <4>2. h[m + i] = BytesStep(h[(m + i) - 1], (p \o q)[m + i]) /\ g[i] = BytesStep(g[i - 1], q[i])
        BY <1>3, <1>4, <3>1
      <4>3. (p \o q)[m + i] = q[i] /\ h[(m + i) - 1] = h[m + (i - 1)]
        BY <1>1, <3>1
      <4> QED BY <4>1, <4>2, <4>3 DEF BytesStep
    <3>3. g[i - 1] \in Nat /\ NodeBytes(q[i]) \in Nat
      <4>1. q[i] \in NodeType
        BY DEF n
      <4>2. q[i].units \in Seq(Nat)
        BY <4>1 DEF NodeType
      <4>3. NodeBytes(q[i]) \in Nat
        BY <4>2 DEF NodeBytes
      <4> QED BY <1>3, <3>1, <4>3
    <3>4. h[m + i] = f[m] + g[i]
      BY <1>6, <3>2, <3>3
    <3> QED BY <3>1, <3>4
  <2>3. U \in SUBSET (0 .. n)
    OBVIOUS
  <2> HIDE DEF U
  <2> QED BY <1>0, <2>1, <2>2, <2>3, Induct
<1>8. h[m + n] = f[m] + g[n]
  BY <1>0, <1>7
<1> QED BY <1>2, <1>3, <1>4, <1>6, <1>8

(* An empty list.                                                           *)
LEMMA NoNodes ==
  UnitsOf(<<>>) = <<>> /\ BytesOf(<<>>) = 0
<1>1. <<>> \in Seq(NodeType) /\ Len(<<>>) = 0
  OBVIOUS
<1> QED BY <1>1, UnitsSteps, BytesSteps

(* A list of one node.                                                      *)
LEMMA OneNode ==
  ASSUME NEW node \in NodeType
  PROVE  UnitsOf(<<node>>) = node.units /\ BytesOf(<<node>>) = NodeBytes(node)
<1> DEFINE list == <<node>>
<1>1. list \in Seq(NodeType) /\ Len(list) = 1 /\ list[1] = node
  OBVIOUS
<1>2. node.units \in Seq(Nat) /\ NodeBytes(node) \in Nat
  <2>1. node.units \in Seq(Nat)
    BY DEF NodeType
  <2> QED BY <2>1 DEF NodeBytes
<1> HIDE DEF list
<1>3. UnitsOf(list) = <<>> \o node.units
  <2>1. PICK f \in [0 .. 1 -> Seq(Nat)] :
          /\ f[0] = <<>> /\ \A i \in 1 .. 1 : f[i] = UnitsStep(f[i - 1], list[i])
          /\ UnitsOf(list) = f[1]
    BY <1>1, UnitsSteps
  <2>2. f[1] = UnitsStep(f[0], node)
    BY <1>1, <2>1
  <2> QED BY <2>1, <2>2 DEF UnitsStep
<1>4. BytesOf(list) = 0 + NodeBytes(node)
  <2>1. PICK f \in [0 .. 1 -> Nat] :
          /\ f[0] = 0 /\ \A i \in 1 .. 1 : f[i] = BytesStep(f[i - 1], list[i])
          /\ BytesOf(list) = f[1]
    BY <1>1, BytesSteps
  <2>2. f[1] = BytesStep(f[0], node)
    BY <1>1, <2>1
  <2> QED BY <2>1, <2>2 DEF BytesStep
<1>5. <<>> \o node.units = node.units
  BY <1>2, ConcatEmptySeq
<1> QED BY <1>2, <1>3, <1>4, <1>5 DEF list

(* A new node at the end, as addReply() appends one.                        *)
LEMMA NodeAppended ==
  ASSUME NEW list \in Seq(NodeType), NEW node \in NodeType
  PROVE  /\ Append(list, node) \in Seq(NodeType)
         /\ Len(Append(list, node)) = Len(list) + 1
         /\ UnitsOf(Append(list, node)) = UnitsOf(list) \o node.units
         /\ BytesOf(Append(list, node)) = BytesOf(list) + NodeBytes(node)
         /\ Append(list, node)[1] = IF list = <<>> THEN node ELSE list[1]
<1>1. Append(list, node) = list \o <<node>> /\ <<node>> \in Seq(NodeType)
  BY AppendIsConcat
<1>2. /\ UnitsOf(Append(list, node)) = UnitsOf(list) \o UnitsOf(<<node>>)
      /\ BytesOf(Append(list, node)) = BytesOf(list) + BytesOf(<<node>>)
  BY <1>1, UnitsOfConcat, BytesOfConcat
<1>3. /\ Append(list, node) \in Seq(NodeType) /\ Len(Append(list, node)) = Len(list) + 1
      /\ Append(list, node)[1] = IF list = <<>> THEN node ELSE list[1]
  <2>1. Len(list) \in Nat /\ (list # <<>> => 1 <= Len(list)) /\ (list = <<>> => Len(list) = 0)
    BY EmptySeq, LenProperties
  <2>2. \A i \in 1 .. Len(list) + 1 : Append(list, node)[i] = IF i <= Len(list) THEN list[i] ELSE node
    BY AppendProperties
  <2>3. Append(list, node)[1] = IF 1 <= Len(list) THEN list[1] ELSE node
    BY <2>1, <2>2
  <2>4. Append(list, node) \in Seq(NodeType) /\ Len(Append(list, node)) = Len(list) + 1
    BY AppendProperties
  <2> QED BY <2>1, <2>3, <2>4
<1>4. UnitsOf(<<node>>) = node.units /\ BytesOf(<<node>>) = NodeBytes(node)
  BY OneNode
<1> QED BY <1>2, <1>3, <1>4

(* The first node and the others: what is written and what remains.         *)
LEMMA FirstNode ==
  ASSUME NEW list \in Seq(NodeType), list # <<>>
  PROVE  /\ list[1] \in NodeType /\ Tail(list) \in Seq(NodeType)
         /\ Len(list) >= 1 /\ Len(Tail(list)) = Len(list) - 1
         /\ UnitsOf(list) = list[1].units \o UnitsOf(Tail(list))
         /\ BytesOf(list) = NodeBytes(list[1]) + BytesOf(Tail(list))
<1>1. list[1] \in NodeType /\ Tail(list) \in Seq(NodeType) /\ Len(list) >= 1 /\ Len(Tail(list)) = Len(list) - 1
  BY EmptySeq
<1>2. list = <<list[1]>> \o Tail(list) /\ <<list[1]>> \in Seq(NodeType)
  BY <1>1, EmptySeq
<1> DEFINE first == <<list[1]>>
           rest == Tail(list)
<1>3. UnitsOf(first) = list[1].units /\ BytesOf(first) = NodeBytes(list[1])
  BY <1>1, OneNode
<1>4. list = first \o rest /\ first \in Seq(NodeType) /\ rest \in Seq(NodeType)
  BY <1>1, <1>2
<1> HIDE DEF first, rest
<1>5. UnitsOf(list) = UnitsOf(first) \o UnitsOf(rest) /\ BytesOf(list) = BytesOf(first) + BytesOf(rest)
  BY <1>4, UnitsOfConcat, BytesOfConcat
<1> QED BY <1>1, <1>3, <1>5 DEF rest

(* The last node and the others: what addReply() may glue to.               *)
LEMMA LastNode ==
  ASSUME NEW list \in Seq(NodeType), list # <<>>, NEW node \in NodeType
  PROVE  LET front == SubSeq(list, 1, Len(list) - 1)
         IN  /\ front \in Seq(NodeType) /\ Len(list) >= 1 /\ list[Len(list)] \in NodeType
             /\ list = front \o <<list[Len(list)]>>
             /\ [list EXCEPT ![Len(list)] = node] = front \o <<node>>
<1> DEFINE n == Len(list)
           front == SubSeq(list, 1, n - 1)
<1>1. n \in Nat /\ n >= 1 /\ list[n] \in NodeType
  BY EmptySeq
<1>2. front \in Seq(NodeType) /\ Len(front) = n - 1 /\ \A i \in 1 .. n - 1 : front[i] = list[i]
  <2>1. 1 \in 1 .. n + 1 /\ n - 1 \in 1 - 1 .. n
    BY <1>1
  <2>2. \A i \in 1 .. n - 1 : 1 + i - 1 = i
    OBVIOUS
  <2>3. /\ front \in Seq(NodeType)
        /\ Len(front) = IF 1 <= n - 1 THEN n - 1 - 1 + 1 ELSE 0
        /\ \A i \in 1 .. n - 1 - 1 + 1 : front[i] = list[1 + i - 1]
    BY <2>1, SubSeqProperties
  <2>4. n - 1 - 1 + 1 = n - 1
    BY <1>1
  <2>5. Len(front) = n - 1
    BY <1>1, <2>3, <2>4
  <2> QED BY <2>2, <2>3, <2>4, <2>5
<1> HIDE DEF front
<1>3. ASSUME NEW x \in NodeType
      PROVE  /\ front \o <<x>> \in Seq(NodeType) /\ Len(front \o <<x>>) = n
             /\ \A i \in 1 .. n : (front \o <<x>>)[i] = IF i = n THEN x ELSE list[i]
  BY <1>1, <1>2
<1>4. /\ [list EXCEPT ![n] = node] \in Seq(NodeType) /\ Len([list EXCEPT ![n] = node]) = n
      /\ \A i \in 1 .. n : [list EXCEPT ![n] = node][i] = IF i = n THEN node ELSE list[i]
  BY <1>1
<1>5. list = front \o <<list[n]>>
  <2>1. \A i \in 1 .. n : (front \o <<list[n]>>)[i] = list[i]
    BY <1>1, <1>3
  <2> QED BY <1>1, <1>3, <2>1, SeqEqual
<1>6. [list EXCEPT ![n] = node] = front \o <<node>>
  <2>1. \A i \in 1 .. n : (front \o <<node>>)[i] = [list EXCEPT ![n] = node][i]
    BY <1>3, <1>4
  <2> QED BY <1>3, <1>4, <2>1, SeqEqual
<1> QED BY <1>1, <1>2, <1>5, <1>6 DEF front

(* The last node replaced by a longer one.                                  *)
LEMMA LastExtended ==
  ASSUME NEW list \in Seq(NodeType), list # <<>>, NEW node \in NodeType, NEW u \in Seq(Nat),
         node.units = list[Len(list)].units \o u
  PROVE  LET new == [list EXCEPT ![Len(list)] = node]
         IN  /\ new \in Seq(NodeType) /\ Len(new) = Len(list)
             /\ UnitsOf(new) = UnitsOf(list) \o u
             /\ BytesOf(new) >= NodeBytes(node) /\ BytesOf(new) \in Nat
             /\ Len(new[1].units) >= Len(list[1].units)
<1> DEFINE n == Len(list)
           last == list[n]
           front == SubSeq(list, 1, n - 1)
           new == [list EXCEPT ![n] = node]
<1>0. n \in Nat /\ n \in 1 .. n /\ 1 \in 1 .. n
  <2>1. n \in Nat /\ n # 0
    BY EmptySeq
  <2> QED BY <2>1
<1>1. front \in Seq(NodeType) /\ n >= 1 /\ last \in NodeType /\ list = front \o <<last>> /\ new = front \o <<node>>
  BY LastNode
<1>2. new \in Seq(NodeType) /\ Len(new) = n /\ n \in Nat
  <2>1. n \in Nat /\ n \in 1 .. n
    BY <1>0
  <2> HIDE DEF n
  <2>2. n = Len(list)
    BY DEF n
  <2>3. new \in Seq(NodeType) /\ Len(new) = Len(list)
    BY <2>1, <2>2, ExceptSeq
  <2> QED BY <2>1, <2>2, <2>3
<1>3. Len(new[1].units) >= Len(list[1].units)
  <2>1. last.units \in Seq(Nat)
    BY <1>1 DEF NodeType
  <2>2. Len(node.units) = Len(last.units) + Len(u) /\ Len(u) \in Nat /\ Len(last.units) \in Nat
    BY <2>1, ConcatProperties, LenProperties
  <2>3. CASE n = 1
    <3>1. new[1] = node /\ list[1] = last
      BY <2>3
    <3> QED BY <2>2, <3>1
  <2>4. CASE n # 1
    <3>1. new[1] = list[1] /\ list[1] \in NodeType
      <4>1. 1 \in 1 .. n
        BY <1>0
      <4>2. DOMAIN list = 1 .. n
        BY LenProperties
      <4>3. new[1] = list[1]
        BY <2>4, <4>1, <4>2
      <4> QED BY <4>1, <4>3, ElementOfSeq
    <3>2. list[1].units \in Seq(Nat)
      BY <3>1 DEF NodeType
    <3>3. Len(list[1].units) \in Nat
      BY <3>2
    <3> QED BY <3>1, <3>3
  <2> QED BY <2>3, <2>4
<1> HIDE DEF front, last, new
<1>4. /\ UnitsOf(list) = UnitsOf(front) \o last.units /\ UnitsOf(front) \in Seq(Nat) /\ last.units \in Seq(Nat)
      /\ UnitsOf(new) = UnitsOf(front) \o node.units /\ BytesOf(new) = BytesOf(front) + NodeBytes(node)
      /\ BytesOf(front) \in Nat
  <2>1. <<last>> \in Seq(NodeType) /\ <<node>> \in Seq(NodeType)
    BY <1>1
  <2>2. UnitsOf(<<last>>) = last.units /\ UnitsOf(<<node>>) = node.units /\ BytesOf(<<node>>) = NodeBytes(node)
    BY <1>1, OneNode
  <2>3. /\ UnitsOf(front \o <<last>>) = UnitsOf(front) \o UnitsOf(<<last>>)
        /\ UnitsOf(front \o <<node>>) = UnitsOf(front) \o UnitsOf(<<node>>) /\ UnitsOf(front) \in Seq(Nat)
    BY <1>1, <2>1, UnitsOfConcat
  <2>4. BytesOf(front \o <<node>>) = BytesOf(front) + BytesOf(<<node>>) /\ BytesOf(front) \in Nat
    BY <1>1, <2>1, BytesOfConcat
  <2>5. last.units \in Seq(Nat)
    BY <1>1 DEF NodeType
  <2> QED BY <1>1, <2>2, <2>3, <2>4, <2>5
<1>5. NodeBytes(node) \in Nat
  <2>1. node.units \in Seq(Nat)
    BY DEF NodeType
  <2> QED BY <2>1, LenProperties DEF NodeBytes
<1>6. UnitsOf(new) = UnitsOf(list) \o u
  <2>1. node.units = last.units \o u
    BY DEF last
  <2>2. UnitsOf(front) \o (last.units \o u) = (UnitsOf(front) \o last.units) \o u
    BY <1>4, UnitsAssociate
  <2> QED BY <1>4, <2>1, <2>2
<1>7. BytesOf(new) >= NodeBytes(node) /\ BytesOf(new) \in Nat
  BY <1>4, <1>5
<1> QED BY <1>2, <1>3, <1>6, <1>7 DEF new

(* The rest of a list, from a node on.                                      *)
LEMMA RestOfNodes ==
  ASSUME NEW list \in Seq(NodeType), NEW i \in 1 .. Len(list)
  PROVE  LET rest == SubSeq(list, i, Len(list))
         IN  /\ rest \in Seq(NodeType) /\ rest # <<>> /\ rest[1] = list[i]
             /\ Tail(rest) = SubSeq(list, i + 1, Len(list)) /\ Tail(rest) \in Seq(NodeType)
<1> DEFINE n == Len(list)
           rest == SubSeq(list, i, n)
           more == SubSeq(list, i + 1, n)
<1>1. n \in Nat /\ i \in Int /\ n \in Int /\ i + 1 \in Int /\ i <= n /\ 1 <= i
  BY LenProperties
<1>2. \A j \in i .. n : list[j] \in NodeType
  BY <1>1, ElementOfSeq
<1>3. \A j \in i + 1 .. n : list[j] \in NodeType
  BY <1>1, <1>2
<1>4. rest \in Seq(NodeType) /\ Len(rest) = n - i + 1 /\ \A j \in 1 .. n - i + 1 : rest[j] = list[i + j - 1]
  BY <1>1, <1>2, SubSeqProperties
<1>5. /\ more \in Seq(NodeType) /\ Len(more) = IF i + 1 <= n THEN n - (i + 1) + 1 ELSE 0
      /\ \A j \in 1 .. n - (i + 1) + 1 : more[j] = list[(i + 1) + j - 1]
  BY <1>1, <1>3, SubSeqProperties
<1> HIDE DEF rest, more
<1>6. rest # <<>> /\ rest[1] = list[i]
  <2>1. 1 \in 1 .. n - i + 1 /\ i + 1 - 1 = i /\ n - i + 1 # 0
    BY <1>1
  <2> QED BY <1>4, <2>1, EmptySeq
<1>7. Tail(rest) = more /\ Tail(rest) \in Seq(NodeType)
  <2>1. /\ Tail(rest) \in Seq(NodeType) /\ Len(Tail(rest)) = Len(rest) - 1
        /\ \A j \in 1 .. Len(rest) - 1 : Tail(rest)[j] = rest[j + 1]
    BY <1>4, <1>6
  <2>2. Len(more) = n - i /\ Len(Tail(rest)) = n - i
    BY <1>1, <1>4, <1>5, <2>1
  <2>3. ASSUME NEW j \in 1 .. n - i PROVE Tail(rest)[j] = more[j]
    <3>1. j + 1 \in 1 .. n - i + 1 /\ i + (j + 1) - 1 = (i + 1) + j - 1 /\ j \in 1 .. n - (i + 1) + 1 /\ j \in 1 .. Len(rest) - 1
      BY <1>1, <1>4
    <3> QED BY <1>4, <1>5, <2>1, <3>1
  <2> QED BY <1>5, <2>1, <2>2, <2>3, SeqEqual
<1> QED BY <1>4, <1>6, <1>7 DEF rest, more

(* Two nodes replaced by one that has the units of both.                    *)
LEMMA NodesGlued ==
  ASSUME NEW list \in Seq(NodeType), NEW i \in 1 .. Len(list) - 1, NEW node \in NodeType,
         node.units = list[i].units \o list[i + 1].units
  PROVE  LET new == SubSeq(list, 1, i - 1) \o <<node>> \o SubSeq(list, i + 2, Len(list))
         IN  /\ new \in Seq(NodeType) /\ new # <<>>
             /\ UnitsOf(new) = UnitsOf(list)
             /\ BytesOf(new) >= NodeBytes(node) /\ BytesOf(new) \in Nat
             /\ Len(new[1].units) >= Len(list[1].units)
<1> DEFINE n == Len(list)
           front == SubSeq(list, 1, i - 1)
           rest == SubSeq(list, i, n)
           more == SubSeq(list, i + 1, n)
           back == SubSeq(list, i + 2, n)
           new == front \o <<node>> \o back
<1>1. n \in Nat /\ i \in 1 .. n /\ i + 1 \in 1 .. n /\ (i + 1) + 1 = i + 2 /\ n >= 2
  BY LenProperties
<1>2. /\ rest \in Seq(NodeType) /\ rest # <<>> /\ rest[1] = list[i] /\ Tail(rest) = more
      /\ more \in Seq(NodeType) /\ more # <<>> /\ more[1] = list[i + 1] /\ Tail(more) = back /\ back \in Seq(NodeType)
  <2>1. rest \in Seq(NodeType) /\ rest # <<>> /\ rest[1] = list[i] /\ Tail(rest) = more
    BY <1>1, RestOfNodes
  <2>2. /\ more \in Seq(NodeType) /\ more # <<>> /\ more[1] = list[i + 1]
        /\ Tail(more) = SubSeq(list, (i + 1) + 1, n) /\ Tail(more) \in Seq(NodeType)
    BY <1>1, RestOfNodes
  <2> QED BY <1>1, <2>1, <2>2
<1>3. front \in Seq(NodeType) /\ Len(front) = i - 1 /\ \A j \in 1 .. i - 1 : front[j] = list[j]
  <2>1. \A j \in 1 .. i - 1 : list[j] \in NodeType
    <3>1. \A j \in 1 .. i - 1 : j \in 1 .. n
      BY <1>1
    <3> QED BY <3>1, ElementOfSeq
  <2>2. /\ front \in Seq(NodeType) /\ Len(front) = IF 1 <= i - 1 THEN i - 1 - 1 + 1 ELSE 0
        /\ \A j \in 1 .. i - 1 - 1 + 1 : front[j] = list[1 + j - 1]
    BY <2>1, SubSeqProperties
  <2>3. i - 1 - 1 + 1 = i - 1 /\ \A j \in 1 .. i - 1 : 1 + j - 1 = j
    OBVIOUS
  <2>4. Len(front) = i - 1
    BY <2>2, <2>3
  <2> QED BY <2>2, <2>3, <2>4
<1>4. list = front \o rest
  <2>1. 1 \in 1 .. n + 1 /\ i - 1 \in 1 - 1 .. n /\ n \in i - 1 .. n /\ (i - 1) + 1 = i
    BY <1>1
  <2>2. SubSeq(list, 1, i - 1) \o SubSeq(list, (i - 1) + 1, n) = SubSeq(list, 1, n)
    BY <2>1, ConcatAdjacentSubSeq
  <2>3. SubSeq(list, 1, n) = list
    BY SubSeqFull
  <2> QED BY <2>1, <2>2, <2>3
<1>5. list[1] = (front \o rest)[1]
  BY <1>4
<1> DEFINE glued == <<node>>
           begun == front \o glued
<1>6. glued \in Seq(NodeType) /\ begun \in Seq(NodeType) /\ new = begun \o back /\ new \in Seq(NodeType)
  BY <1>2, <1>3, ConcatProperties
<1>7. Len(begun) = i /\ Len(back) \in Nat /\ \A j \in 1 .. i : begun[j] = IF j <= i - 1 THEN list[j] ELSE node
  BY <1>1, <1>2, <1>3
<1>8. new # <<>> /\ new[1] = IF i = 1 THEN node ELSE list[1]
  <2> HIDE DEF new, begun, back, n
  <2>1. Len(new) = i + Len(back) /\ \A j \in 1 .. i + Len(back) : new[j] = IF j <= i THEN begun[j] ELSE back[j - i]
    <3>1. new = begun \o back /\ begun \in Seq(NodeType) /\ back \in Seq(NodeType)
      BY <1>2, <1>6
    <3>2. Len(begun) = i
      BY <1>7
    <3>3. /\ Len(begun \o back) = Len(begun) + Len(back)
          /\ \A j \in 1 .. Len(begun) + Len(back) : (begun \o back)[j] = IF j <= Len(begun) THEN begun[j] ELSE back[j - Len(begun)]
      BY <3>1, ConcatProperties
    <3> QED BY <3>1, <3>2, <3>3
  <2>2. 1 \in 1 .. i + Len(back) /\ 1 <= i /\ 1 \in 1 .. i /\ (1 <= i - 1 <=> i # 1) /\ i + Len(back) # 0
    BY <1>1, <1>7
  <2>3. new[1] = begun[1] /\ begun[1] = IF i = 1 THEN node ELSE list[1]
    BY <1>7, <2>1, <2>2
  <2> QED BY <2>1, <2>2, <2>3, EmptySeq
<1>9. list[i].units \in Seq(Nat) /\ list[i + 1].units \in Seq(Nat) /\ list[1].units \in Seq(Nat)
  <2>1. list[i] \in NodeType /\ list[i + 1] \in NodeType /\ list[1] \in NodeType
    <3>1. 1 \in 1 .. n
      BY <1>1
    <3> QED BY <1>1, <3>1, ElementOfSeq
  <2> QED BY <2>1 DEF NodeType
<1>10. Len(new[1].units) >= Len(list[1].units)
  <2>1. /\ Len(node.units) = Len(list[i].units) + Len(list[i + 1].units)
        /\ Len(list[i + 1].units) \in Nat /\ Len(list[i].units) \in Nat /\ Len(list[1].units) \in Nat
    BY <1>9, ConcatProperties, LenProperties
  <2>2. CASE i = 1
    <3>1. new[1] = node /\ list[1] = list[i]
      BY <1>8, <2>2
    <3> HIDE DEF new
    <3>2. Len(new[1].units) = Len(list[i].units) + Len(list[i + 1].units) /\ Len(list[1].units) = Len(list[i].units)
      BY <2>1, <3>1
    <3>3. \A a, b \in Nat : a + b >= a
      OBVIOUS
    <3>4. Len(list[i].units) + Len(list[i + 1].units) >= Len(list[i].units)
      BY <2>1, <3>3
    <3> QED BY <3>2, <3>4
  <2>3. CASE i # 1
    <3>1. new[1] = list[1]
      BY <1>8, <2>3
    <3> HIDE DEF new
    <3> QED BY <2>1, <3>1
  <2> QED BY <2>2, <2>3
<1> HIDE DEF n, front, rest, more, back, new, glued, begun
<1>11. UnitsOf(list) = UnitsOf(front) \o (list[i].units \o (list[i + 1].units \o UnitsOf(back)))
  <2>1. UnitsOf(list) = UnitsOf(front) \o UnitsOf(rest)
    BY <1>2, <1>3, <1>4, UnitsOfConcat
  <2>2. UnitsOf(rest) = list[i].units \o UnitsOf(more)
    BY <1>2, FirstNode
  <2>3. UnitsOf(more) = list[i + 1].units \o UnitsOf(back)
    BY <1>2, FirstNode
  <2> QED BY <2>1, <2>2, <2>3
<1>12. /\ UnitsOf(new) = (UnitsOf(front) \o node.units) \o UnitsOf(back)
       /\ BytesOf(new) = (BytesOf(front) + NodeBytes(node)) + BytesOf(back)
       /\ UnitsOf(front) \in Seq(Nat) /\ UnitsOf(back) \in Seq(Nat) /\ BytesOf(front) \in Nat /\ BytesOf(back) \in Nat
  <2>1. UnitsOf(new) = UnitsOf(begun) \o UnitsOf(back) /\ BytesOf(new) = BytesOf(begun) + BytesOf(back)
    BY <1>2, <1>6, UnitsOfConcat, BytesOfConcat
  <2>2. UnitsOf(begun) = UnitsOf(front) \o UnitsOf(glued) /\ BytesOf(begun) = BytesOf(front) + BytesOf(glued)
    BY <1>3, <1>6, UnitsOfConcat, BytesOfConcat DEF begun
  <2>3. UnitsOf(glued) = node.units /\ BytesOf(glued) = NodeBytes(node)
    BY OneNode DEF glued
  <2>4. UnitsOf(front) \in Seq(Nat) /\ UnitsOf(back) \in Seq(Nat) /\ BytesOf(front) \in Nat /\ BytesOf(back) \in Nat
    BY <1>2, <1>3, UnitsOfConcat, BytesOfConcat
  <2> QED BY <2>1, <2>2, <2>3, <2>4
<1>13. UnitsOf(new) = UnitsOf(list)
  <2>1. node.units \o UnitsOf(back) = list[i].units \o (list[i + 1].units \o UnitsOf(back))
    <3>1. (list[i].units \o list[i + 1].units) \o UnitsOf(back) = list[i].units \o (list[i + 1].units \o UnitsOf(back))
      BY <1>9, <1>12, UnitsAssociate
    <3> QED BY <3>1
  <2>2. node.units \in Seq(Nat)
    BY DEF NodeType
  <2>3. (UnitsOf(front) \o node.units) \o UnitsOf(back) = UnitsOf(front) \o (node.units \o UnitsOf(back))
    BY <1>12, <2>2, UnitsAssociate
  <2> QED BY <1>11, <1>12, <2>1, <2>3
<1>14. BytesOf(new) >= NodeBytes(node) /\ BytesOf(new) \in Nat
  <2>1. NodeBytes(node) \in Nat
    <3>1. node.units \in Seq(Nat)
      BY DEF NodeType
    <3> QED BY <3>1, LenProperties DEF NodeBytes
  <2> QED BY <1>12, <2>1
<1> QED BY <1>6, <1>8, <1>10, <1>13, <1>14 DEF new, front, back, n

----------------------------------------------------------------------------
(* What was written, followed by what is buffered beyond the part that was  *)
(* written already, are the replies that were told.                         *)
IsStream(wire, all, sent, told) ==
  /\ wire \in Seq(Nat) /\ all \in Seq(Nat) /\ sent \in Nat /\ told \in Nat
  /\ sent <= Len(all) /\ Len(wire) + Len(all) = told + sent
  /\ \A i \in 1 .. Len(wire) : wire[i] = i
  /\ \A j \in sent + 1 .. Len(all) : all[j] + sent = Len(wire) + j

NewOf(told, n) == [i \in 1 .. n |-> told + i]

(* The units of a new reply.                                                *)
LEMMA NewOfIsSeq ==
  ASSUME NEW told \in Nat, NEW n \in Nat
  PROVE  NewOf(told, n) \in Seq(Nat) /\ Len(NewOf(told, n)) = n /\ \A i \in 1 .. n : NewOf(told, n)[i] = told + i
BY DEF NewOf

(* A reply at the end of the buffer.                                        *)
LEMMA StreamGrows ==
  ASSUME NEW wire, NEW all, NEW sent, NEW told, IsStream(wire, all, sent, told), NEW n \in Nat
  PROVE  IsStream(wire, all \o NewOf(told, n), sent, told + n)
<1> DEFINE new == NewOf(told, n)
           more == all \o new
<1>0. /\ wire \in Seq(Nat) /\ all \in Seq(Nat) /\ sent \in Nat /\ told \in Nat
      /\ Len(wire) \in Nat /\ Len(all) \in Nat /\ sent <= Len(all) /\ Len(wire) + Len(all) = told + sent
  BY LenProperties DEF IsStream
<1>7. Len(wire) \in Nat /\ Len(all) \in Nat /\ sent \in Nat /\ told \in Nat /\ sent <= Len(all) /\ Len(wire) + Len(all) = told + sent
  BY <1>0
<1>1. new \in Seq(Nat) /\ Len(new) = n /\ \A i \in 1 .. n : new[i] = told + i
  BY <1>0, NewOfIsSeq
<1> HIDE DEF new
<1>2. /\ more \in Seq(Nat) /\ Len(more) = Len(all) + n
      /\ \A j \in 1 .. Len(all) + n : more[j] = IF j <= Len(all) THEN all[j] ELSE new[j - Len(all)]
  BY <1>0, <1>1, ConcatProperties
<1> HIDE DEF more
<1>3. ASSUME NEW j \in sent + 1 .. Len(more)
      PROVE  more[j] + sent = Len(wire) + j
  <2>1. j \in 1 .. Len(all) + n /\ j \in Nat
    BY <1>0, <1>2
  <2>2. CASE j <= Len(all)
    <3>1. j \in sent + 1 .. Len(all)
      BY <1>0, <2>1, <2>2
    <3>2. all[j] + sent = Len(wire) + j
      BY <3>1 DEF IsStream
    <3> QED BY <1>2, <2>1, <2>2, <3>2
  <2>3. CASE ~(j <= Len(all))
    <3>1. j - Len(all) \in 1 .. n
      BY <1>0, <2>1, <2>3
    <3>2. more[j] = told + (j - Len(all))
      BY <1>1, <1>2, <2>1, <2>3, <3>1
    <3> QED BY <1>7, <2>1, <3>2
  <2> QED BY <2>2, <2>3
<1>4. sent <= Len(more) /\ Len(wire) + Len(more) = (told + n) + sent /\ told + n \in Nat
  BY <1>0, <1>2
<1>5. \A i \in 1 .. Len(wire) : wire[i] = i
  BY DEF IsStream
<1>6. IsStream(wire, more, sent, told + n)
  BY <1>0, <1>2, <1>3, <1>4, <1>5 DEF IsStream
<1> QED BY <1>6 DEF more, new

(* One unit written.                                                        *)
LEMMA StreamIsWritten ==
  ASSUME NEW wire, NEW all, NEW sent, NEW told, IsStream(wire, all, sent, told), sent < Len(all)
  PROVE  IsStream(Append(wire, all[sent + 1]), all, sent + 1, told)
<1> DEFINE longer == Append(wire, all[sent + 1])
<1>0. /\ wire \in Seq(Nat) /\ all \in Seq(Nat) /\ sent \in Nat /\ told \in Nat
      /\ Len(wire) \in Nat /\ Len(all) \in Nat /\ sent <= Len(all) /\ Len(wire) + Len(all) = told + sent
  BY LenProperties DEF IsStream
<1>10. Len(wire) \in Nat /\ Len(all) \in Nat /\ sent \in Nat /\ told \in Nat /\ sent <= Len(all) /\ Len(wire) + Len(all) = told + sent
  BY <1>0
<1>1. sent + 1 \in 1 .. Len(all) /\ sent + 1 \in sent + 1 .. Len(all)
  BY <1>0
<1>2. all[sent + 1] \in Nat /\ all[sent + 1] + sent = Len(wire) + (sent + 1)
  <2>1. all[sent + 1] \in Nat
    BY <1>0, <1>1, ElementOfSeq
  <2>2. all[sent + 1] + sent = Len(wire) + (sent + 1)
    BY <1>1 DEF IsStream
  <2> QED BY <2>1, <2>2
<1>3. all[sent + 1] = Len(wire) + 1
  BY <1>0, <1>2
<1>4. longer \in Seq(Nat) /\ Len(longer) = Len(wire) + 1 /\ \A i \in 1 .. Len(wire) + 1 : longer[i] = IF i <= Len(wire) THEN wire[i] ELSE all[sent + 1]
  BY <1>0, <1>2, AppendProperties
<1>5. \A i \in 1 .. Len(wire) : wire[i] = i
  BY DEF IsStream
<1> HIDE DEF longer
<1>11. Len(longer) = Len(wire) + 1
  BY <1>4
<1>6. ASSUME NEW i \in 1 .. Len(longer) PROVE longer[i] = i
  <2>1. i \in 1 .. Len(wire) + 1 /\ (i <= Len(wire) => i \in 1 .. Len(wire)) /\ (~(i <= Len(wire)) => i = Len(wire) + 1)
    BY <1>10, <1>11
  <2> QED BY <1>3, <1>4, <1>5, <2>1
<1>7. ASSUME NEW j \in (sent + 1) + 1 .. Len(all) PROVE all[j] + (sent + 1) = Len(longer) + j
  <2>1. j \in sent + 1 .. Len(all) /\ j \in 1 .. Len(all)
    BY <1>0
  <2>2. all[j] + sent = Len(wire) + j /\ all[j] \in Nat
    <3>1. all[j] + sent = Len(wire) + j
      BY <2>1 DEF IsStream
    <3>2. all[j] \in Nat
      BY <1>0, <2>1, ElementOfSeq
    <3> QED BY <3>1, <3>2
  <2> QED BY <1>10, <1>11, <2>2
<1>8. sent + 1 <= Len(all) /\ Len(longer) + Len(all) = told + (sent + 1) /\ sent + 1 \in Nat
  BY <1>10, <1>11
<1>9. IsStream(longer, all, sent + 1, told)
  BY <1>0, <1>4, <1>6, <1>7, <1>8 DEF IsStream
<1> QED BY <1>9 DEF longer

(* What is written completely is dropped.                                   *)
LEMMA StreamIsCut ==
  ASSUME NEW wire, NEW p \in Seq(Nat), NEW q \in Seq(Nat), NEW told, IsStream(wire, p \o q, Len(p), told)
  PROVE  IsStream(wire, q, 0, told)
<1>0. /\ wire \in Seq(Nat) /\ Len(p) \in Nat /\ Len(q) \in Nat /\ told \in Nat
      /\ Len(wire) \in Nat /\ Len(p \o q) = Len(p) + Len(q) /\ Len(wire) + Len(p \o q) = told + Len(p)
  BY ConcatProperties, LenProperties DEF IsStream
<1>1. ASSUME NEW j \in 1 .. Len(q) PROVE q[j] + 0 = Len(wire) + j
  <2>1. Len(p) + j \in Len(p) + 1 .. Len(p \o q) /\ Len(p) + j \in 1 .. Len(p) + Len(q) /\ ~(Len(p) + j <= Len(p)) /\ Len(p) + j - Len(p) = j
    BY <1>0
  <2>2. (p \o q)[Len(p) + j] + Len(p) = Len(wire) + (Len(p) + j)
    BY <2>1 DEF IsStream
  <2>3. (p \o q)[Len(p) + j] = q[j]
    BY <2>1, ConcatProperties
  <2>4. q[j] \in Nat
    BY ElementOfSeq
  <2> QED BY <1>0, <2>2, <2>3, <2>4
<1>2. \A i \in 1 .. Len(wire) : wire[i] = i
  BY DEF IsStream
<1>3. 0 <= Len(q) /\ Len(wire) + Len(q) = told + 0 /\ 0 + 1 = 1 /\ 0 \in Nat
  <2>1. /\ Len(p) \in Nat /\ Len(q) \in Nat /\ told \in Nat /\ Len(wire) \in Nat
        /\ Len(wire) + (Len(p) + Len(q)) = told + Len(p)
    BY <1>0
  <2> QED BY <2>1
<1> QED BY <1>0, <1>1, <1>2, <1>3 DEF IsStream

(* The property, from its form by positions.                                *)
LEMMA StreamIsOfReplies ==
  ASSUME NEW wire, NEW all, NEW sent, NEW told, IsStream(wire, all, sent, told)
  PROVE  wire \o SubSeq(all, sent + 1, Len(all)) = [i \in 1 .. told |-> i]
<1> DEFINE rest == SubSeq(all, sent + 1, Len(all))
           whole == wire \o rest
           nums == [i \in 1 .. told |-> i]
<1>0. /\ wire \in Seq(Nat) /\ all \in Seq(Nat) /\ sent \in Nat /\ told \in Nat
      /\ Len(wire) \in Nat /\ Len(all) \in Nat /\ sent <= Len(all) /\ Len(wire) + Len(all) = told + sent
  BY LenProperties DEF IsStream
<1>1. \A i \in sent + 1 .. Len(all) : all[i] \in Nat
  BY <1>0, ElementOfSeq
<1>2. /\ rest \in Seq(Nat) /\ Len(rest) = IF sent + 1 <= Len(all) THEN Len(all) - (sent + 1) + 1 ELSE 0
      /\ \A i \in 1 .. Len(all) - (sent + 1) + 1 : rest[i] = all[(sent + 1) + i - 1]
  BY <1>0, <1>1, SubSeqProperties
<1> HIDE DEF rest
<1>3. Len(rest) = Len(all) - sent /\ Len(wire) + Len(rest) = told
  BY <1>0, <1>2
<1>4. /\ whole \in Seq(Nat) /\ Len(whole) = told
      /\ \A i \in 1 .. told : whole[i] = IF i <= Len(wire) THEN wire[i] ELSE rest[i - Len(wire)]
  <2>1. wire \in Seq(Nat) /\ rest \in Seq(Nat)
    BY <1>0, <1>2
  <2>2. /\ wire \o rest \in Seq(Nat) /\ Len(wire \o rest) = Len(wire) + Len(rest)
        /\ \A i \in 1 .. Len(wire) + Len(rest) : (wire \o rest)[i] = IF i <= Len(wire) THEN wire[i] ELSE rest[i - Len(wire)]
    BY <2>1, ConcatProperties
  <2> QED BY <1>3, <2>2
<1> HIDE DEF whole
<1>5. nums \in Seq(Nat) /\ Len(nums) = told /\ \A i \in 1 .. told : nums[i] = i
  BY <1>0
<1> HIDE DEF nums
<1>6. ASSUME NEW i \in 1 .. told PROVE whole[i] = nums[i]
  <2>1. CASE i <= Len(wire)
    <3>1. i \in 1 .. Len(wire)
      BY <1>0, <2>1
    <3>2. wire[i] = i
      BY <3>1 DEF IsStream
    <3> QED BY <1>4, <1>5, <2>1, <3>2
  <2>2. CASE ~(i <= Len(wire))
    <3> DEFINE j == i - Len(wire)
    <3>1. j \in 1 .. Len(all) - (sent + 1) + 1 /\ sent + j \in sent + 1 .. Len(all) /\ (sent + 1) + j - 1 = sent + j /\ sent + j \in 1 .. Len(all)
      BY <1>0, <1>3, <2>2
    <3>2. rest[j] = all[sent + j] /\ all[sent + j] \in Nat
      BY <1>0, <1>2, <3>1, ElementOfSeq
    <3>3. all[sent + j] + sent = Len(wire) + (sent + j)
      BY <3>1 DEF IsStream
    <3>4. all[sent + j] = i
      BY <1>0, <3>2, <3>3
    <3> QED BY <1>4, <1>5, <2>2, <3>2, <3>4
  <2> QED BY <2>1, <2>2
<1>7. whole = nums
  BY <1>4, <1>5, <1>6, SeqEqual
<1> QED BY <1>7 DEF whole, rest, nums

----------------------------------------------------------------------------
(* One client: its output is the stream of its replies, "sent" lies in the  *)
(* buffer that is being written, and what is pending has a handler.         *)
ClientType ==
  [alive : BOOLEAN, flags : SUBSET {"quit", "closing", "channel", "pattern", "monitor"},
   buf : Seq(Nat), reply : Seq(NodeType), sent : Nat, handler : BOOLEAN,
   over : Nat, told : Nat, wire : Seq(Nat), steady : Nat]
SentOk(k) ==
  IF k.buf # <<>> THEN k.sent < Len(k.buf)
  ELSE IF k.reply # <<>> THEN k.sent < Len(k.reply[1].units)
  ELSE k.sent = 0
StreamOk(k) == IsStream(k.wire, k.buf \o Units(k), k.sent, k.told)
OutputOk(k) ==
  k \in ClientType /\ SentOk(k) /\ StreamOk(k) /\ (Pending(k) => k.handler) /\ (~k.alive => k = Closed)
LimitOk(k) == HardLimit # 0 /\ UsedMemory(k) >= HardLimit => "closing" \in k.flags

(* What a change of the other fields leaves alone.                          *)
SameOutput(u, k) ==
  /\ u.buf = k.buf /\ u.reply = k.reply /\ u.sent = k.sent /\ u.told = k.told /\ u.wire = k.wire
(* A client whose output is the same is as good.                            *)
LEMMA SameOutputOk ==
  ASSUME NEW k, OutputOk(k), NEW u \in ClientType, SameOutput(u, k), u.alive, k.handler => u.handler
  PROVE  /\ OutputOk(u) /\ Units(u) = Units(k) /\ Bytes(u) = Bytes(k) /\ UsedMemory(u) = UsedMemory(k)
         /\ (LimitOk(k) /\ k.flags \subseteq u.flags => LimitOk(u))
<1>1. Units(u) = Units(k) /\ Bytes(u) = Bytes(k) /\ UsedMemory(u) = UsedMemory(k) /\ (Pending(u) <=> Pending(k))
  BY DEF SameOutput, Units, Bytes, UsedMemory, Pending
<1>2. SentOk(u)
  BY DEF SameOutput, SentOk, OutputOk
<1>3. StreamOk(u)
  BY <1>1 DEF SameOutput, StreamOk, OutputOk
<1>4. Pending(u) => u.handler
  BY <1>1 DEF OutputOk
<1> QED BY <1>1, <1>2, <1>3, <1>4 DEF OutputOk, LimitOk

(* A descriptor without a client, and a new client.                         *)
LEMMA ClosedOk ==
  /\ OutputOk(Closed) /\ Closed \in ClientType /\ Closed.flags = {} /\ ~Closed.alive
  /\ OutputOk(NewClient) /\ NewClient.alive /\ NewClient.flags = {}
  /\ (HardLimit \in Nat /\ NodeSize \in Nat => LimitOk(Closed) /\ LimitOk(NewClient))
<1>1. /\ Closed \in ClientType /\ Closed.flags = {} /\ ~Closed.alive /\ Closed.buf = <<>> /\ Closed.reply = <<>>
      /\ Closed.sent = 0 /\ Closed.told = 0 /\ Closed.wire = <<>>
  BY DEF Closed, ClientType
<1>2. /\ NewClient \in ClientType /\ NewClient.flags = {} /\ NewClient.alive /\ NewClient.buf = <<>> /\ NewClient.reply = <<>>
      /\ NewClient.sent = 0 /\ NewClient.told = 0 /\ NewClient.wire = <<>>
  BY <1>1 DEF NewClient, ClientType
<1>3. ASSUME NEW k, k.buf = <<>>, k.reply = <<>>, k.sent = 0, k.told = 0, k.wire = <<>>
      PROVE  SentOk(k) /\ StreamOk(k) /\ ~Pending(k) /\ Bytes(k) = 0 /\ Len(k.reply) = 0
  <2>1. Units(k) = <<>> /\ Bytes(k) = 0
    BY <1>3, NoNodes DEF Units, Bytes
  <2>2. <<>> \o <<>> = <<>> /\ <<>> \in Seq(Nat) /\ Len(<<>>) = 0
    OBVIOUS
  <2>3. IsStream(<<>>, <<>>, 0, 0)
    BY <2>2 DEF IsStream
  <2> QED BY <1>3, <2>1, <2>2, <2>3 DEF SentOk, StreamOk, Pending
<1>4. ASSUME HardLimit \in Nat, NodeSize \in Nat, NEW k, Bytes(k) = 0, Len(k.reply) = 0
      PROVE  LimitOk(k)
  <2>1. UsedMemory(k) = 0
    BY <1>4 DEF UsedMemory
  <2> QED BY <1>4, <2>1 DEF LimitOk
<1>5. SentOk(Closed) /\ StreamOk(Closed) /\ ~Pending(Closed) /\ Bytes(Closed) = 0 /\ Len(Closed.reply) = 0
  BY <1>1, <1>3
<1>6. SentOk(NewClient) /\ StreamOk(NewClient) /\ ~Pending(NewClient) /\ Bytes(NewClient) = 0 /\ Len(NewClient.reply) = 0
  BY <1>2, <1>3
<1> QED BY <1>1, <1>2, <1>4, <1>5, <1>6 DEF OutputOk

(* prepareClientToWrite() adds the handler.                                 *)
LEMMA PreparedOk ==
  ASSUME NEW k, OutputOk(k), k.alive
  PROVE  /\ OutputOk(Prepared(k)) /\ Prepared(k).handler = TRUE /\ Prepared(k).alive /\ Prepared(k).flags = k.flags
         /\ Prepared(k).reply = k.reply /\ Prepared(k).told = k.told /\ UsedMemory(Prepared(k)) = UsedMemory(k)
<1> DEFINE u == Prepared(k)
<1>0. k \in ClientType /\ k.handler \in BOOLEAN /\ k.alive \in BOOLEAN /\ (Pending(k) => k.handler)
  BY DEF OutputOk, ClientType
<1>1. u \in ClientType /\ SameOutput(u, k) /\ u.alive = k.alive /\ u.flags = k.flags /\ u.handler = (k.handler \/ ~Pending(k))
  <2>1. (k.handler \/ ~Pending(k)) \in BOOLEAN
    OBVIOUS
  <2> DEFINE h == k.handler \/ ~Pending(k)
  <2>2. u = [k EXCEPT !.handler = h]
    BY DEF Prepared
  <2> HIDE DEF h
  <2>3. h \in BOOLEAN
    BY <2>1 DEF h
  <2>4. u \in ClientType /\ SameOutput(u, k) /\ u.alive = k.alive /\ u.flags = k.flags /\ u.handler = h
    BY <1>0, <2>2, <2>3 DEF ClientType, SameOutput
  <2> QED BY <2>4 DEF h
<1> HIDE DEF u
<1>2. u.handler = TRUE
  BY <1>0, <1>1
<1>3. OutputOk(u) /\ UsedMemory(u) = UsedMemory(k)
  BY <1>1, <1>2, SameOutputOk
<1> QED BY <1>1, <1>2, <1>3 DEF u, SameOutput

(* The units that a reply adds.                                             *)
LEMMA NewUnitsOf ==
  ASSUME NEW k \in ClientType, NEW n \in Nat \ {0}
  PROVE  NewUnits(k, n) = NewOf(k.told, n) /\ NewUnits(k, n) \in Seq(Nat) \ {<<>>} /\ Len(NewUnits(k, n)) = n /\ k.told + n \in Nat
<1>1. k.told \in Nat
  BY DEF ClientType
<1>2. NewUnits(k, n) = NewOf(k.told, n)
  BY DEF NewUnits, NewOf
<1>3. NewOf(k.told, n) \in Seq(Nat) /\ Len(NewOf(k.told, n)) = n
  BY <1>1, NewOfIsSeq
<1> QED BY <1>1, <1>2, <1>3, EmptySeq

(* What any way to add units to the list keeps.                             *)
LEMMA ListGrows ==
  ASSUME NEW k, OutputOk(k), NEW u \in ClientType, NEW n \in Nat,
         u.buf = k.buf, u.sent = k.sent, u.wire = k.wire, u.told = k.told + n, u.alive, u.handler,
         Units(u) = Units(k) \o NewUnits(k, n), u.reply # <<>>, u.reply[1].units # <<>>,
         k.reply # <<>> => Len(u.reply[1].units) >= Len(k.reply[1].units)
  PROVE  OutputOk(u)
<1>0. k \in ClientType /\ SentOk(k) /\ StreamOk(k) /\ k.buf \in Seq(Nat) /\ k.reply \in Seq(NodeType) /\ u.reply \in Seq(NodeType) /\ k.sent \in Nat
  BY DEF OutputOk, ClientType
<1>1. Units(k) \in Seq(Nat)
  <2>1. <<>> \in Seq(NodeType)
    OBVIOUS
  <2> QED BY <1>0, <2>1, UnitsOfConcat DEF Units
<1>2. NewUnits(k, n) = NewOf(k.told, n) /\ NewUnits(k, n) \in Seq(Nat)
  <2>1. k.told \in Nat
    BY <1>0 DEF ClientType
  <2>2. NewUnits(k, n) = NewOf(k.told, n)
    BY DEF NewUnits, NewOf
  <2> QED BY <2>1, <2>2, NewOfIsSeq
<1>3. StreamOk(u)
  <2>1. IsStream(k.wire, (k.buf \o Units(k)) \o NewOf(k.told, n), k.sent, k.told + n)
    BY <1>0, StreamGrows DEF StreamOk
  <2>2. (k.buf \o Units(k)) \o NewUnits(k, n) = k.buf \o (Units(k) \o NewUnits(k, n))
    BY <1>0, <1>1, <1>2, UnitsAssociate
  <2> QED BY <1>2, <2>1, <2>2 DEF StreamOk
<1>4. SentOk(u)
  <2>1. u.reply[1] \in NodeType
    BY <1>0, FirstNode
  <2>2. u.reply[1].units \in Seq(Nat) /\ Len(u.reply[1].units) \in Nat \ {0}
    <3>1. u.reply[1].units \in Seq(Nat)
      BY <2>1 DEF NodeType
    <3> QED BY <3>1, EmptySeq
  <2>3. k.reply # <<>> => Len(k.reply[1].units) \in Nat
    <3>1. SUFFICES ASSUME k.reply # <<>> PROVE Len(k.reply[1].units) \in Nat
      OBVIOUS
    <3>2. k.reply[1] \in NodeType
      BY <1>0, <3>1, FirstNode
    <3>3. k.reply[1].units \in Seq(Nat)
      BY <3>2 DEF NodeType
    <3> QED BY <3>3, LenProperties
  <2>4. CASE k.buf # <<>>
    BY <1>0, <2>4 DEF SentOk
  <2>5. CASE k.buf = <<>> /\ k.reply # <<>>
    <3>1. k.sent < Len(k.reply[1].units) /\ Len(u.reply[1].units) >= Len(k.reply[1].units)
      BY <1>0, <2>5 DEF SentOk
    <3>2. k.sent < Len(u.reply[1].units)
      <4>1. \A a, b, c \in Nat : a < b /\ c >= b => a < c
        OBVIOUS
      <4>2. k.sent \in Nat /\ Len(k.reply[1].units) \in Nat /\ Len(u.reply[1].units) \in Nat
        BY <1>0, <2>2, <2>3, <2>5
      <4> QED BY <3>1, <4>1, <4>2
    <3> QED BY <2>5, <3>2 DEF SentOk
  <2>6. CASE k.buf = <<>> /\ k.reply = <<>>
    <3>1. k.sent = 0
      BY <1>0, <2>6 DEF SentOk
    <3> QED BY <2>2, <2>6, <3>1 DEF SentOk
  <2> QED BY <2>4, <2>5, <2>6
<1> QED BY <1>3, <1>4 DEF OutputOk

(* The count of what was replied, and nothing else.                         *)
LEMMA ToldOf ==
  ASSUME NEW k \in ClientType, NEW n \in Nat \ {0}
  PROVE  /\ Told(k, n) \in ClientType /\ Told(k, n).told = k.told + n /\ Told(k, n).buf = k.buf /\ Told(k, n).reply = k.reply
         /\ Told(k, n).sent = k.sent /\ Told(k, n).wire = k.wire /\ Told(k, n).alive = k.alive
         /\ Told(k, n).handler = k.handler /\ Told(k, n).flags = k.flags
<1>1. k.told + n \in Nat
  BY DEF ClientType
<1> DEFINE t == k.told + n
<1>2. Told(k, n) = [k EXCEPT !.told = t]
  BY DEF Told
<1> HIDE DEF t
<1>3. t \in Nat
  BY <1>1 DEF t
<1>4. /\ Told(k, n) \in ClientType /\ Told(k, n).told = t /\ Told(k, n).buf = k.buf /\ Told(k, n).reply = k.reply
      /\ Told(k, n).sent = k.sent /\ Told(k, n).wire = k.wire /\ Told(k, n).alive = k.alive
      /\ Told(k, n).handler = k.handler /\ Told(k, n).flags = k.flags
  BY <1>2, <1>3 DEF ClientType
<1> QED BY <1>4 DEF t

(* _addReplyToBuffer() where it fits.                                       *)
LEMMA ToBufferOk ==
  ASSUME NEW k, OutputOk(k), k.alive, k.handler, NEW n \in Nat \ {0}, k.reply = <<>>
  PROVE  LET u == Told(ToBuffer(k, n), n)
         IN  OutputOk(u) /\ u.reply = k.reply /\ u.alive /\ u.flags = k.flags /\ u.handler
<1> DEFINE b == k.buf \o NewUnits(k, n)
           v == ToBuffer(k, n)
           u == Told(v, n)
<1>0. k \in ClientType /\ SentOk(k) /\ StreamOk(k) /\ k.buf \in Seq(Nat) /\ k.sent \in Nat
  BY DEF OutputOk, ClientType
<1>1. NewUnits(k, n) = NewOf(k.told, n) /\ NewUnits(k, n) \in Seq(Nat) /\ Len(NewUnits(k, n)) = n
  BY <1>0, NewUnitsOf
<1>2. b \in Seq(Nat) /\ Len(b) = Len(k.buf) + n /\ Len(k.buf) \in Nat
  <2>1. k.buf \in Seq(Nat) /\ NewUnits(k, n) \in Seq(Nat)
    BY <1>0, <1>1
  <2>2. b \in Seq(Nat) /\ Len(b) = Len(k.buf) + Len(NewUnits(k, n)) /\ Len(k.buf) \in Nat
    BY <2>1, ConcatProperties, LenProperties
  <2> QED BY <1>1, <2>2
<1>3. v = [k EXCEPT !.buf = b]
  BY DEF ToBuffer
<1> HIDE DEF b, v
<1>4. /\ v \in ClientType /\ v.buf = b /\ v.reply = k.reply /\ v.sent = k.sent /\ v.wire = k.wire /\ v.told = k.told
      /\ v.alive = k.alive /\ v.handler = k.handler /\ v.flags = k.flags
  BY <1>0, <1>2, <1>3 DEF ClientType
<1>5. /\ u \in ClientType /\ u.buf = b /\ u.reply = k.reply /\ u.sent = k.sent /\ u.wire = k.wire /\ u.told = k.told + n
      /\ u.alive = k.alive /\ u.handler = k.handler /\ u.flags = k.flags
  <2>1. v \in ClientType
    BY <1>4
  <2>2. /\ u \in ClientType /\ u.told = v.told + n /\ u.buf = v.buf /\ u.reply = v.reply
       /\ u.sent = v.sent /\ u.wire = v.wire /\ u.alive = v.alive
       /\ u.handler = v.handler /\ u.flags = v.flags
    BY <2>1, ToldOf
  <2> QED BY <1>4, <2>2
<1> HIDE DEF u
<1>6. StreamOk(u)
  <2>1. Units(k) = <<>> /\ Units(u) = <<>>
    BY <1>5, NoNodes DEF Units
  <2>2. k.buf \o <<>> = k.buf /\ b \o <<>> = b
    BY <1>0, <1>2, ConcatEmptySeq
  <2>3. IsStream(k.wire, k.buf, k.sent, k.told)
    BY <1>0, <2>1, <2>2 DEF StreamOk
  <2>4. IsStream(k.wire, k.buf \o NewOf(k.told, n), k.sent, k.told + n)
    BY <2>3, StreamGrows
  <2> QED BY <1>1, <1>5, <2>1, <2>2, <2>4 DEF StreamOk, b
<1>7. SentOk(u)
  <2>1. b # <<>>
    BY <1>2, EmptySeq
  <2>2. k.sent < Len(k.buf) \/ k.sent = 0
    <3>1. CASE k.buf # <<>>
      BY <1>0, <3>1 DEF SentOk
    <3>2. CASE k.buf = <<>>
      BY <1>0, <3>2 DEF SentOk
    <3> QED BY <3>1, <3>2
  <2>3. k.sent < Len(b)
    <3>1. k.sent \in Nat /\ Len(k.buf) \in Nat /\ Len(b) = Len(k.buf) + n
      BY <1>0, <1>2
    <3> QED BY <2>2, <3>1
  <2> QED BY <1>5, <2>1, <2>3 DEF SentOk
<1> QED BY <1>5, <1>6, <1>7 DEF OutputOk, u, v

(* _addReplyToList(): the last node extended, or a new one.                 *)
LEMMA ToListOk ==
  ASSUME NEW k, OutputOk(k), k.alive, k.handler, NEW n \in Nat \ {0}
  PROVE  LET u == Told(ToList(k, n), n)
         IN  OutputOk(u) /\ u.alive /\ u.flags = k.flags /\ u.handler /\ Bytes(u) \in Nat \ {0}
<1> DEFINE new == NewUnits(k, n)
           last == k.reply[Len(k.reply)]
           longer == [last EXCEPT !.units = @ \o new]
           v == ToList(k, n)
           u == Told(v, n)
<1>0. k \in ClientType /\ k.reply \in Seq(NodeType)
  BY DEF OutputOk, ClientType
<1>1. new \in Seq(Nat) \ {<<>>} /\ Len(new) = n
  BY <1>0, NewUnitsOf
<1> HIDE DEF new
<1>2. ASSUME NEW r \in Seq(NodeType), v = [k EXCEPT !.reply = r], UnitsOf(r) = UnitsOf(k.reply) \o new, r # <<>>,
             r[1].units # <<>>, k.reply # <<>> => Len(r[1].units) >= Len(k.reply[1].units), BytesOf(r) \in Nat \ {0}
      PROVE  OutputOk(u) /\ u.alive /\ u.flags = k.flags /\ u.handler /\ Bytes(u) \in Nat \ {0}
  <2> HIDE DEF v
  <2>1. /\ v \in ClientType /\ v.buf = k.buf /\ v.reply = r /\ v.sent = k.sent /\ v.wire = k.wire /\ v.told = k.told
        /\ v.alive = k.alive /\ v.handler = k.handler /\ v.flags = k.flags
    BY <1>0, <1>2 DEF ClientType
  <2>2. /\ u \in ClientType /\ u.buf = k.buf /\ u.reply = r /\ u.sent = k.sent /\ u.wire = k.wire /\ u.told = k.told + n
        /\ u.alive = k.alive /\ u.handler = k.handler /\ u.flags = k.flags
    <3>1. v \in ClientType
      BY <2>1
    <3>2. /\ u \in ClientType /\ u.told = v.told + n /\ u.buf = v.buf /\ u.reply = v.reply
         /\ u.sent = v.sent /\ u.wire = v.wire /\ u.alive = v.alive
         /\ u.handler = v.handler /\ u.flags = v.flags
      BY <3>1, ToldOf
    <3> QED BY <2>1, <3>2
  <2> HIDE DEF u
  <2>3. Units(u) = Units(k) \o NewUnits(k, n) /\ Bytes(u) \in Nat \ {0}
    BY <1>2, <2>2 DEF Units, Bytes, new
  <2>4. OutputOk(u)
    BY <1>2, <2>2, <2>3, ListGrows
  <2> QED BY <2>2, <2>3, <2>4
<1>3. CASE k.reply # <<>> /\ ~last.open /\ Len(last.units) + n <= ChunkSize
  <2> DEFINE r == [k.reply EXCEPT ![Len(k.reply)] = longer]
  <2>1. last \in NodeType /\ last.units \in Seq(Nat) /\ last.units # <<>>
    <3>1. last \in NodeType
      BY <1>0, <1>3, LastNode
    <3> QED BY <3>1 DEF NodeType
  <2>2. last.units \o new \in Seq(Nat) /\ Len(last.units \o new) = Len(last.units) + n /\ Len(last.units) \in Nat
    BY <1>1, <2>1, ConcatProperties, LenProperties
  <2> DEFINE w == last.units \o new
  <2>3. w \in Seq(Nat) /\ Len(w) \in Nat \ {0}
    <3>1. Len(last.units) \in Nat /\ Len(w) = Len(last.units) + n
      BY <2>2
    <3> QED BY <2>2, <3>1
  <2>4. w # <<>>
    BY <2>3, EmptySeq
  <2>5. longer = [last EXCEPT !.units = w]
    OBVIOUS
  <2> HIDE DEF last, w, longer
  <2>6. longer \in NodeType /\ longer.units = w /\ longer.open = last.open
    BY <2>1, <2>3, <2>4, <2>5 DEF NodeType
  <2>7. NodeBytes(longer) \in Nat \ {0}
    BY <1>3, <2>3, <2>6 DEF NodeBytes
  <2>8. v = [k EXCEPT !.reply = r]
    <3>1. v = [k EXCEPT !.reply[Len(k.reply)].units = @ \o NewUnits(k, n)]
      BY <1>3 DEF ToList, last
    <3> QED BY <3>1 DEF last, longer, new
  <2>9. longer.units = k.reply[Len(k.reply)].units \o new
    BY <2>6 DEF w, last
  <2>10. /\ r \in Seq(NodeType) /\ Len(r) = Len(k.reply) /\ UnitsOf(r) = UnitsOf(k.reply) \o new
         /\ BytesOf(r) >= NodeBytes(longer) /\ BytesOf(r) \in Nat /\ Len(r[1].units) >= Len(k.reply[1].units)
    BY <1>0, <1>1, <1>3, <2>6, <2>9, LastExtended
  <2> HIDE DEF r
  <2>11. r # <<>>
    BY <1>0, <1>3, <2>10, EmptySeq
  <2>12. r[1].units # <<>>
    <3>1. r[1] \in NodeType
      BY <2>10, <2>11, FirstNode
    <3> QED BY <3>1 DEF NodeType
  <2>13. BytesOf(r) \in Nat \ {0}
    BY <2>7, <2>10
  <2> HIDE DEF v, u
  <2> QED BY <1>2, <2>8, <2>10, <2>11, <2>12, <2>13 DEF u, v
<1>4. CASE ~(k.reply # <<>> /\ ~last.open /\ Len(last.units) + n <= ChunkSize)
  <2> DEFINE node == Node(new, FALSE)
             r == Append(k.reply, node)
  <2>1. node \in NodeType /\ node.units = new /\ NodeBytes(node) = n
    BY <1>1 DEF Node, NodeType, NodeBytes
  <2>2. v = [k EXCEPT !.reply = r]
    BY <1>4 DEF ToList, new
  <2> HIDE DEF node
  <2>3. /\ r \in Seq(NodeType) /\ Len(r) = Len(k.reply) + 1 /\ UnitsOf(r) = UnitsOf(k.reply) \o new
        /\ BytesOf(r) = BytesOf(k.reply) + n /\ r[1] = IF k.reply = <<>> THEN node ELSE k.reply[1]
    BY <1>0, <2>1, NodeAppended
  <2>4. BytesOf(k.reply) \in Nat
    BY <1>0, BytesOfConcat
  <2> HIDE DEF r
  <2>5. Len(k.reply) \in Nat /\ r # <<>>
    BY <1>0, <2>3, EmptySeq, LenProperties
  <2>6. r[1].units # <<>>
    <3>1. r[1] \in NodeType
      BY <2>3, <2>5, FirstNode
    <3> QED BY <3>1 DEF NodeType
  <2>7. k.reply # <<>> => Len(r[1].units) >= Len(k.reply[1].units)
    <3>1. SUFFICES ASSUME k.reply # <<>> PROVE Len(r[1].units) >= Len(k.reply[1].units)
      OBVIOUS
    <3>2. r[1] = k.reply[1] /\ r[1] \in NodeType
      BY <2>3, <2>5, <3>1, FirstNode
    <3>3. r[1].units \in Seq(Nat)
      BY <3>2 DEF NodeType
    <3>4. Len(r[1].units) \in Nat
      BY <3>3, LenProperties
    <3> QED BY <3>2, <3>4
  <2>8. BytesOf(r) \in Nat \ {0}
    BY <2>3, <2>4
  <2> HIDE DEF v, u
  <2> QED BY <1>2, <2>2, <2>3, <2>5, <2>6, <2>7, <2>8 DEF u, v
<1> QED BY <1>3, <1>4 DEF u, v

HasOpen(k) == \E i \in DOMAIN k.reply : k.reply[i].open
(* A length that is still to come stays so.                                 *)
LEMMA ToListKeepsOpen ==
  ASSUME NEW k \in ClientType, HasOpen(k), NEW n \in Nat \ {0}
  PROVE  HasOpen(Told(ToList(k, n), n))
<1> DEFINE v == ToList(k, n)
           m == Len(k.reply)
<1>0. k.reply \in Seq(NodeType) /\ m \in Nat /\ DOMAIN k.reply = 1 .. m
  BY LenProperties DEF ClientType
<1>1. PICK i \in 1 .. m : k.reply[i].open
  BY <1>0 DEF HasOpen
<1>2. HasOpen(v)
  <2>1. CASE v = [k EXCEPT !.reply[Len(k.reply)].units = @ \o NewUnits(k, n)]
    <3> DEFINE w == k.reply[m].units \o NewUnits(k, n)
               x == [k.reply[m] EXCEPT !.units = w]
    <3>1. v = [k EXCEPT !.reply = [k.reply EXCEPT ![m] = x]]
      BY <2>1
    <3>2. x.open = k.reply[m].open
      <4>1. k.reply[m] \in NodeType
        BY <1>0, <1>1, ElementOfSeq
      <4> HIDE DEF w
      <4> QED BY <4>1 DEF NodeType
    <3> HIDE DEF x, m, v
    <3>3. v.reply = [k.reply EXCEPT ![m] = x]
      BY <3>1 DEF ClientType
    <3>4. v.reply[i].open /\ i \in DOMAIN v.reply
      BY <1>0, <1>1, <3>2, <3>3
    <3> QED BY <3>4 DEF HasOpen
  <2>2. CASE v = [k EXCEPT !.reply = Append(@, Node(NewUnits(k, n), FALSE))]
    <3> DEFINE x == Node(NewUnits(k, n), FALSE)
    <3>1. v = [k EXCEPT !.reply = Append(k.reply, x)]
      BY <2>2
    <3>2. x \in NodeType
      BY NewUnitsOf DEF Node, NodeType
    <3> HIDE DEF x, v
    <3>3. v.reply = Append(k.reply, x)
      BY <3>1 DEF ClientType
    <3>4. DOMAIN Append(k.reply, x) = 1 .. m + 1 /\ Append(k.reply, x)[i] = k.reply[i]
      <4>1. Append(k.reply, x) \in Seq(NodeType) /\ Len(Append(k.reply, x)) = m + 1 /\ Append(k.reply, x)[i] = k.reply[i]
        BY <1>0, <1>1, <3>2, AppendProperties
      <4> QED BY <4>1, LenProperties
    <3>5. i \in 1 .. m + 1
      BY <1>0
    <3> QED BY <1>1, <3>3, <3>4, <3>5 DEF HasOpen
  <2> QED BY <2>1, <2>2 DEF ToList
<1> HIDE DEF v
<1>3. Told(v, n) = [v EXCEPT !.told = @ + n]
  BY DEF Told
<1>4. Told(v, n).reply = v.reply
  <2>1. DOMAIN v = DOMAIN k
    BY DEF v, ToList, ClientType
  <2> QED BY <1>3, <2>1 DEF ClientType
<1> QED BY <1>2, <1>4 DEF HasOpen, v

(* addDeferredMultiBulkLength(): an open node at the end.                   *)
LEMMA DeferredOk ==
  ASSUME NEW k, OutputOk(k), k.alive, k.handler
  PROVE  LET u == Told([k EXCEPT !.reply = Append(@, Node(<<k.told + 1>>, TRUE))], 1)
         IN  OutputOk(u) /\ u.alive /\ u.flags = k.flags /\ u.handler /\ u.reply # <<>> /\ HasOpen(u)
<1> DEFINE new == <<k.told + 1>>
           node == Node(new, TRUE)
           r == Append(k.reply, node)
           v == [k EXCEPT !.reply = r]
           u == Told(v, 1)
<1>0. k \in ClientType /\ k.reply \in Seq(NodeType) /\ k.told \in Nat
  BY DEF OutputOk, ClientType
<1>1. new \in Seq(Nat) \ {<<>>} /\ new = NewUnits(k, 1)
  BY <1>0 DEF NewUnits
<1> HIDE DEF new
<1>2. node \in NodeType /\ node.units = new /\ node.open = TRUE
  BY <1>1 DEF Node, NodeType
<1> HIDE DEF node
<1>3. /\ r \in Seq(NodeType) /\ Len(r) = Len(k.reply) + 1 /\ UnitsOf(r) = UnitsOf(k.reply) \o new
      /\ r[1] = IF k.reply = <<>> THEN node ELSE k.reply[1]
  BY <1>0, <1>2, NodeAppended
<1>4. Len(k.reply) \in Nat /\ r # <<>> /\ r[Len(r)] = node /\ Len(r) \in DOMAIN r
  <2>1. Len(k.reply) \in Nat /\ r[Len(k.reply) + 1] = node
    BY <1>0, <1>2, LenProperties, AppendProperties
  <2>2. DOMAIN r = 1 .. Len(k.reply) + 1
    BY <1>3, LenProperties
  <2>3. r # <<>>
    BY <1>2, <1>0, AppendProperties
  <2> QED BY <1>3, <2>1, <2>2, <2>3
<1> HIDE DEF r
<1>5. r[1].units # <<>> /\ (k.reply # <<>> => Len(r[1].units) >= Len(k.reply[1].units))
  <2>1. r[1] \in NodeType
    BY <1>3, <1>4, FirstNode
  <2>2. r[1].units # <<>> /\ r[1].units \in Seq(Nat)
    BY <2>1 DEF NodeType
  <2>3. Len(r[1].units) \in Nat
    BY <2>2, LenProperties
  <2> QED BY <1>3, <2>2, <2>3
<1>6. /\ v \in ClientType /\ v.buf = k.buf /\ v.reply = r /\ v.sent = k.sent /\ v.wire = k.wire /\ v.told = k.told
      /\ v.alive = k.alive /\ v.handler = k.handler /\ v.flags = k.flags
  BY <1>0, <1>3 DEF ClientType
<1> HIDE DEF v
<1>7. /\ u \in ClientType /\ u.told = v.told + 1 /\ u.buf = v.buf /\ u.reply = v.reply
      /\ u.sent = v.sent /\ u.wire = v.wire /\ u.alive = v.alive
      /\ u.handler = v.handler /\ u.flags = v.flags
  <2>1. v \in ClientType /\ 1 \in Nat \ {0}
    BY <1>6
  <2> QED BY <2>1, ToldOf
<1> HIDE DEF u
<1>8. Units(u) = Units(k) \o NewUnits(k, 1)
  BY <1>1, <1>3, <1>6, <1>7 DEF Units
<1>9. OutputOk(u)
  BY <1>4, <1>5, <1>6, <1>7, <1>8, ListGrows
<1>10. HasOpen(u)
  BY <1>2, <1>4, <1>6, <1>7 DEF HasOpen
<1> QED BY <1>4, <1>6, <1>7, <1>9, <1>10 DEF u, v, r, node, new

Glued(k) ==
  LET i == CHOOSE i \in DOMAIN k.reply : k.reply[i].open
  IN  IF i = Len(k.reply) THEN [k.reply EXCEPT ![i].open = FALSE]
      ELSE SubSeq(k.reply, 1, i - 1)
             \o <<Node(k.reply[i].units \o k.reply[i + 1].units, FALSE)>>
             \o SubSeq(k.reply, i + 2, Len(k.reply))
(* setDeferredMultiBulkLength(): the node closed, or glued to the next.     *)
LEMMA GluedOk ==
  ASSUME NEW k, OutputOk(k), k.alive, k.handler, HasOpen(k)
  PROVE  LET u == [k EXCEPT !.reply = Glued(k)]
         IN  OutputOk(u) /\ u.alive /\ u.flags = k.flags /\ u.handler /\ Bytes(u) \in Nat \ {0}
<1> DEFINE list == k.reply
           m == Len(list)
           i == CHOOSE i \in DOMAIN list : list[i].open
           r == Glued(k)
           u == [k EXCEPT !.reply = r]
<1>0. k \in ClientType /\ list \in Seq(NodeType) /\ m \in Nat /\ DOMAIN list = 1 .. m
  BY LenProperties DEF OutputOk, ClientType
<1>1. i \in 1 .. m /\ list[i].open /\ list # <<>>
  <2>1. \E j \in DOMAIN list : list[j].open
    BY DEF HasOpen
  <2>2. i \in DOMAIN list /\ list[i].open
    BY <2>1
  <2>3. m # 0
    BY <1>0, <2>2
  <2> QED BY <1>0, <2>2, <2>3, EmptySeq
<1>2. r = IF i = m THEN [list EXCEPT ![i].open = FALSE]
          ELSE SubSeq(list, 1, i - 1) \o <<Node(list[i].units \o list[i + 1].units, FALSE)>> \o SubSeq(list, i + 2, m)
  BY DEF Glued
<1> HIDE DEF i, r
<1>3. list[i] \in NodeType /\ list[i].units \in Seq(Nat) /\ list[i].units # <<>>
  <2>1. list[i] \in NodeType
    BY <1>0, <1>1, ElementOfSeq
  <2> QED BY <2>1 DEF NodeType
<1>4. /\ r \in Seq(NodeType) /\ r # <<>> /\ UnitsOf(r) = UnitsOf(list) /\ BytesOf(r) \in Nat \ {0}
      /\ Len(r[1].units) >= Len(list[1].units)
  <2>1. CASE i = m
    <3> DEFINE node == [list[i] EXCEPT !.open = FALSE]
    <3>1. node \in NodeType /\ node.units = list[i].units /\ node.open = FALSE
      BY <1>3 DEF NodeType
    <3>2. r = [list EXCEPT ![Len(list)] = node]
      BY <1>2, <2>1
    <3> HIDE DEF node
    <3>3. node.units = list[Len(list)].units \o <<>> /\ <<>> \in Seq(Nat)
      BY <1>3, <2>1, <3>1, ConcatEmptySeq
    <3>4. /\ r \in Seq(NodeType) /\ Len(r) = Len(list) /\ UnitsOf(r) = UnitsOf(list) \o <<>>
          /\ BytesOf(r) >= NodeBytes(node) /\ BytesOf(r) \in Nat /\ Len(r[1].units) >= Len(list[1].units)
      BY <1>0, <1>1, <3>1, <3>2, <3>3, LastExtended
    <3>5. NodeBytes(node) \in Nat \ {0}
      <4>1. node.units \in Seq(Nat) /\ node.units # <<>>
        BY <1>3, <3>1
      <4> QED BY <3>1, <4>1, EmptySeq DEF NodeBytes
    <3>6. BytesOf(r) \in Nat \ {0}
      BY <3>4, <3>5
    <3>7. UnitsOf(r) = UnitsOf(list)
      <4>1. UnitsOf(list) \in Seq(Nat)
        <5>1. <<>> \in Seq(NodeType)
          OBVIOUS
        <5> QED BY <1>0, <5>1, UnitsOfConcat
      <4> QED BY <3>4, <4>1, ConcatEmptySeq
    <3>8. r # <<>>
      <4>1. m # 0 /\ Len(r) = m
        BY <1>0, <1>1, <3>4
      <4> QED BY <4>1, EmptySeq
    <3> QED BY <3>4, <3>6, <3>7, <3>8
  <2>2. CASE i # m
    <3> DEFINE w == list[i].units \o list[i + 1].units
               node == Node(w, FALSE)
    <3>1. i \in 1 .. m - 1 /\ i + 1 \in 1 .. m
      BY <1>0, <1>1, <2>2
    <3>2. list[i + 1].units \in Seq(Nat)
      <4>1. list[i + 1] \in NodeType
        BY <1>0, <3>1, ElementOfSeq
      <4> QED BY <4>1 DEF NodeType
    <3>3. w \in Seq(Nat) /\ Len(w) = Len(list[i].units) + Len(list[i + 1].units)
      BY <1>3, <3>2, ConcatProperties
    <3>4. Len(list[i].units) \in Nat \ {0} /\ Len(list[i + 1].units) \in Nat
      BY <1>3, <3>2, EmptySeq, LenProperties
    <3>5. Len(w) \in Nat \ {0}
      <4>1. Len(w) = Len(list[i].units) + Len(list[i + 1].units)
        BY <3>3
      <4>2. \A a \in Nat \ {0}, b \in Nat : a + b \in Nat \ {0}
        OBVIOUS
      <4>3. Len(list[i].units) + Len(list[i + 1].units) \in Nat \ {0}
        BY <3>4, <4>2
      <4> QED BY <4>1, <4>3
    <3> HIDE DEF w
    <3>6. node \in NodeType /\ node.units = w /\ NodeBytes(node) = Len(w)
      <4>1. w # <<>>
        BY <3>5, EmptySeq
      <4> QED BY <3>3, <4>1 DEF Node, NodeType, NodeBytes
    <3>7. node.units = list[i].units \o list[i + 1].units
      BY <3>6 DEF w
    <3>8. r = SubSeq(list, 1, i - 1) \o <<node>> \o SubSeq(list, i + 2, Len(list))
      BY <1>2, <2>2 DEF w
    <3> HIDE DEF node
    <3>9. /\ r \in Seq(NodeType) /\ r # <<>> /\ UnitsOf(r) = UnitsOf(list)
          /\ BytesOf(r) >= NodeBytes(node) /\ BytesOf(r) \in Nat /\ Len(r[1].units) >= Len(list[1].units)
      BY <1>0, <3>1, <3>6, <3>7, <3>8, NodesGlued
    <3>10. BytesOf(r) \in Nat \ {0}
      BY <3>5, <3>6, <3>9
    <3> QED BY <3>9, <3>10
  <2> QED BY <2>1, <2>2
<1>5. /\ u \in ClientType /\ u.buf = k.buf /\ u.reply = r /\ u.sent = k.sent /\ u.wire = k.wire /\ u.told = k.told
      /\ u.alive = k.alive /\ u.handler = k.handler /\ u.flags = k.flags
  BY <1>0, <1>4 DEF ClientType
<1> HIDE DEF u
<1>6. Units(u) = Units(k) \o NewUnits(k, 0) /\ Bytes(u) \in Nat \ {0}
  <2>1. NewUnits(k, 0) = <<>>
    BY DEF NewUnits
  <2>2. UnitsOf(list) \in Seq(Nat)
    <3>1. <<>> \in Seq(NodeType)
      OBVIOUS
    <3> QED BY <1>0, <3>1, UnitsOfConcat
  <2>3. UnitsOf(list) \o <<>> = UnitsOf(list)
    BY <2>2, ConcatEmptySeq
  <2> QED BY <1>4, <1>5, <2>1, <2>3 DEF Units, Bytes
<1>7. r[1].units # <<>>
  <2>1. r[1] \in NodeType
    BY <1>4, FirstNode
  <2> QED BY <2>1 DEF NodeType
<1>8. OutputOk(u)
  <2>1. u.told = k.told + 0
    BY <1>0, <1>5 DEF ClientType
  <2> QED BY <1>4, <1>5, <1>6, <1>7, <2>1, ListGrows
<1> QED BY <1>5, <1>6, <1>8 DEF u, r

(* What the module assumes of its constants.                                *)
LEMMA SizesAreNat ==
  /\ Fds \subseteq Nat \ {0} /\ StaticSize \in Nat /\ ChunkSize \in Nat /\ NodeSize \in Nat
  /\ HardLimit \in Nat /\ SoftLimit \in Nat /\ SoftSeconds \in Nat
BY ClientsAssumption

(* What a client takes, and that it takes no more with a node less.         *)
LEMMA MemoryOf ==
  ASSUME NEW k \in ClientType
  PROVE  /\ UsedMemory(k) \in Nat /\ Bytes(k) \in Nat /\ Units(k) \in Seq(Nat)
         /\ (k.reply # <<>> => BytesOf(Tail(k.reply)) + NodeSize * Len(Tail(k.reply)) <= UsedMemory(k))
<1>0. k.reply \in Seq(NodeType) /\ Len(k.reply) \in Nat /\ <<>> \in Seq(NodeType)
  BY LenProperties DEF ClientType
<1>1. Bytes(k) \in Nat /\ Units(k) \in Seq(Nat)
  BY <1>0, BytesOfConcat, UnitsOfConcat DEF Bytes, Units
<1>2. \A a, b \in Nat : a * b \in Nat /\ a * b <= a * (b + 1)
  OBVIOUS
<1>3. NodeSize * Len(k.reply) \in Nat
  BY <1>0, <1>2, SizesAreNat
<1>4. UsedMemory(k) \in Nat
  BY <1>1, <1>3 DEF UsedMemory
<1>5. ASSUME k.reply # <<>>
      PROVE  BytesOf(Tail(k.reply)) + NodeSize * Len(Tail(k.reply)) <= UsedMemory(k)
  <2> DEFINE t == Tail(k.reply)
             f == k.reply[1]
  <2>1. /\ f \in NodeType /\ t \in Seq(NodeType) /\ Len(k.reply) >= 1 /\ Len(t) = Len(k.reply) - 1
        /\ BytesOf(k.reply) = NodeBytes(f) + BytesOf(t)
    BY <1>0, <1>5, FirstNode
  <2> HIDE DEF f, t
  <2>2. NodeBytes(f) \in Nat /\ BytesOf(t) \in Nat
    <3>1. f.units \in Seq(Nat)
      BY <2>1 DEF NodeType
    <3>2. NodeBytes(f) \in Nat
      BY <3>1, LenProperties DEF NodeBytes
    <3> QED BY <2>1, <3>2, <1>0, BytesOfConcat
  <2>3. Len(t) \in Nat /\ Len(k.reply) = Len(t) + 1
    BY <1>0, <2>1
  <2>4. NodeSize * Len(t) <= NodeSize * Len(k.reply) /\ NodeSize * Len(t) \in Nat
    BY <1>2, <2>3, SizesAreNat
  <2>5. \A a, b, c, d \in Nat : c <= d => a + c <= (b + a) + d
    OBVIOUS
  <2>6. BytesOf(t) + NodeSize * Len(t) <= (NodeBytes(f) + BytesOf(t)) + NodeSize * Len(k.reply)
    BY <1>3, <2>2, <2>4, <2>5
  <2> QED BY <2>1, <2>6 DEF UsedMemory, Bytes, t
<1> QED BY <1>1, <1>4, <1>5

(* A limit that was respected, with less memory.                            *)
LEMMA LessMemory ==
  ASSUME NEW k \in ClientType, NEW u \in ClientType, UsedMemory(u) <= UsedMemory(k), k.flags \subseteq u.flags, LimitOk(k)
  PROVE  LimitOk(u)
<1>1. UsedMemory(k) \in Nat /\ UsedMemory(u) \in Nat
  BY MemoryOf
<1>2. HardLimit \in Nat
  BY SizesAreNat
<1>3. UsedMemory(u) >= HardLimit => UsedMemory(k) >= HardLimit
  BY <1>1, <1>2
<1> QED BY <1>3 DEF LimitOk

Left(k) == (Len(k.buf) + Len(Units(k))) - k.sent
(* What is left to write is what was replied and not yet written.           *)
LEMMA LeftIs ==
  ASSUME NEW k, OutputOk(k)
  PROVE  /\ Left(k) = k.told - Len(k.wire) /\ Left(k) \in Nat
         /\ (Left(k) > 0 <=> Pending(k)) /\ (Pending(k) => k.sent < Len(k.buf \o Units(k)))
<1>0. /\ k \in ClientType /\ SentOk(k) /\ StreamOk(k) /\ k.buf \in Seq(Nat) /\ k.sent \in Nat /\ k.told \in Nat /\ k.wire \in Seq(Nat)
      /\ Units(k) \in Seq(Nat) /\ k.reply \in Seq(NodeType)
  BY MemoryOf DEF OutputOk, ClientType
<1> DEFINE b == Len(k.buf)
           c == Len(Units(k))
           w == Len(k.wire)
           a == Len(k.buf \o Units(k))
<1>1. b \in Nat /\ c \in Nat /\ w \in Nat /\ a = b + c
  <2>1. k.buf \in Seq(Nat) /\ Units(k) \in Seq(Nat)
    BY <1>0
  <2>2. a = b + c /\ b \in Nat /\ c \in Nat
    BY <2>1, LenProperties, ConcatProperties
  <2> QED BY <1>0, <2>2, LenProperties
<1>2. k.sent <= a /\ w + a = k.told + k.sent
  BY <1>0 DEF StreamOk, IsStream
<1>3. k.buf # <<>> => k.sent < b
  BY <1>0 DEF SentOk
<1>4. k.buf = <<>> /\ k.reply # <<>> => k.sent < c
  <2>1. SUFFICES ASSUME k.buf = <<>>, k.reply # <<>> PROVE k.sent < c
    OBVIOUS
  <2> DEFINE f == k.reply[1].units
             t == UnitsOf(Tail(k.reply))
  <2>2. f \in Seq(Nat) /\ t \in Seq(Nat) /\ Units(k) = f \o t
    <3>1. /\ k.reply[1] \in NodeType /\ Tail(k.reply) \in Seq(NodeType) /\ UnitsOf(k.reply) = f \o t
      BY <1>0, <2>1, FirstNode
    <3>2. f \in Seq(Nat)
      BY <3>1 DEF NodeType
    <3>3. t \in Seq(Nat)
      <4>1. <<>> \in Seq(NodeType)
        OBVIOUS
      <4> QED BY <3>1, <4>1, UnitsOfConcat
    <3> QED BY <3>1, <3>2, <3>3 DEF Units
  <2>3. c = Len(f) + Len(t) /\ Len(f) \in Nat /\ Len(t) \in Nat
    BY <2>2, ConcatProperties, LenProperties
  <2>4. k.sent < Len(f)
    BY <1>0, <2>1 DEF SentOk
  <2> HIDE DEF c, f, t
  <2> QED BY <1>0, <2>3, <2>4
<1>5. ~Pending(k) => b = 0 /\ c = 0 /\ k.sent = 0
  <2>1. ~Pending(k) => k.buf = <<>> /\ k.reply = <<>>
    BY DEF Pending
  <2>2. k.reply = <<>> => Units(k) = <<>>
    BY NoNodes DEF Units
  <2> QED BY <1>0, <2>1, <2>2 DEF SentOk
<1>6. Left(k) = (b + c) - k.sent
  BY DEF Left
<1> HIDE DEF a, b, c, w
<1>7. Left(k) = k.told - w /\ Left(k) \in Nat
  BY <1>0, <1>1, <1>2, <1>6
<1>8. Pending(k) => k.sent < a
  <2>1. Pending(k) => k.sent < b \/ k.sent < c
    BY <1>3, <1>4 DEF Pending
  <2> QED BY <1>0, <1>1, <2>1
<1>9. Left(k) > 0 <=> Pending(k)
  <2>1. CASE Pending(k)
    BY <1>0, <1>1, <1>6, <1>8, <2>1
  <2>2. CASE ~Pending(k)
    BY <1>5, <1>6, <2>2
  <2> QED BY <2>1, <2>2
<1> QED BY <1>7, <1>8, <1>9 DEF a, w

WrittenFrom(k, u) ==
  /\ OutputOk(u) /\ u.alive /\ u.handler /\ u.flags = k.flags
  /\ Left(u) = Left(k) - 1 /\ (LimitOk(k) => LimitOk(u))

(* What writing one unit leaves, from the facts about its fields.           *)
LEMMA WrittenIsOk ==
  ASSUME NEW k, OutputOk(k), k.alive, k.handler, Pending(k), NEW u \in ClientType,
         u.wire = Append(k.wire, (k.buf \o Units(k))[k.sent + 1]), u.told = k.told,
         u.alive = k.alive, u.handler = k.handler, u.flags = k.flags,
         SentOk(u), UsedMemory(u) <= UsedMemory(k),
         \/ u.buf = k.buf /\ u.reply = k.reply /\ u.sent = k.sent + 1
         \/ /\ u.sent = 0
            /\ \E p, q \in Seq(Nat) : /\ k.buf \o Units(k) = p \o q /\ Len(p) = k.sent + 1
                                      /\ u.buf \o Units(u) = q
  PROVE  WrittenFrom(k, u)
<1>0. k \in ClientType /\ StreamOk(k) /\ k.wire \in Seq(Nat) /\ k.told \in Nat /\ k.sent < Len(k.buf \o Units(k))
  BY LeftIs DEF OutputOk, ClientType
<1>1. IsStream(u.wire, k.buf \o Units(k), k.sent + 1, u.told)
  BY <1>0, StreamIsWritten DEF StreamOk
<1>2. StreamOk(u)
  <2>1. CASE u.buf = k.buf /\ u.reply = k.reply /\ u.sent = k.sent + 1
    <3>1. Units(u) = Units(k)
      BY <2>1 DEF Units
    <3> QED BY <1>1, <2>1, <3>1 DEF StreamOk
  <2>2. ASSUME u.sent = 0, NEW p \in Seq(Nat), NEW q \in Seq(Nat), k.buf \o Units(k) = p \o q, Len(p) = k.sent + 1,
               u.buf \o Units(u) = q
        PROVE  StreamOk(u)
    <3>1. IsStream(u.wire, p \o q, Len(p), u.told)
      BY <1>1, <2>2
    <3>2. IsStream(u.wire, q, 0, u.told)
      BY <3>1, StreamIsCut
    <3> QED BY <2>2, <3>2 DEF StreamOk
  <2> QED BY <2>1, <2>2
<1>3. OutputOk(u)
  BY <1>2 DEF OutputOk
<1>4. Left(u) = Left(k) - 1
  <2>1. Left(u) = u.told - Len(u.wire) /\ Left(k) = k.told - Len(k.wire)
    BY <1>3, LeftIs
  <2>2. Len(u.wire) = Len(k.wire) + 1 /\ Len(k.wire) \in Nat
    <3>1. k.sent + 1 \in 1 .. Len(k.buf \o Units(k)) /\ k.buf \o Units(k) \in Seq(Nat)
      <4>1. k.buf \o Units(k) \in Seq(Nat) /\ k.sent \in Nat
        BY <1>0 DEF StreamOk, IsStream
      <4>2. Len(k.buf \o Units(k)) \in Nat
        BY <4>1, LenProperties
      <4> QED BY <1>0, <4>1, <4>2
    <3>2. (k.buf \o Units(k))[k.sent + 1] \in Nat
      BY <3>1, ElementOfSeq
    <3> QED BY <1>0, <3>2, AppendProperties, LenProperties
  <2>3. \A a, b \in Nat : a - (b + 1) = (a - b) - 1
    OBVIOUS
  <2> QED BY <1>0, <2>1, <2>2, <2>3
<1>5. LimitOk(k) => LimitOk(u)
  BY <1>0, LessMemory
<1> QED BY <1>3, <1>4, <1>5 DEF WrittenFrom

(* The empty buffer.                                                        *)
LEMMA NoNumbers == <<>> \in Seq(Nat) /\ 0 \in Nat
OBVIOUS

Wrote(k, w, b, r, n) == [k EXCEPT !.wire = w, !.buf = b, !.reply = r, !.sent = n]
WroteIs(k, w, b, r, n, u) ==
  /\ u \in ClientType /\ u.wire = w /\ u.buf = b /\ u.reply = r /\ u.sent = n /\ u.told = k.told
  /\ u.alive = k.alive /\ u.handler = k.handler /\ u.flags = k.flags
(* A client after a write: its fields.                                      *)
LEMMA WroteOf ==
  ASSUME NEW k \in ClientType, NEW w \in Seq(Nat), NEW b \in Seq(Nat), NEW r \in Seq(NodeType), NEW n \in Nat
  PROVE  WroteIs(k, w, b, r, n, Wrote(k, w, b, r, n))
BY DEF WroteIs, Wrote, ClientType

(* sendReplyToClient() writes a unit.                                       *)
LEMMA WrittenOk ==
  ASSUME NEW k, OutputOk(k), k.alive, k.handler, Pending(k)
  PROVE  WrittenFrom(k, Written(k))
<1>0. /\ k \in ClientType /\ SentOk(k) /\ k.buf \in Seq(Nat) /\ k.sent \in Nat /\ k.wire \in Seq(Nat)
      /\ k.reply \in Seq(NodeType) /\ Units(k) \in Seq(Nat) /\ UsedMemory(k) \in Nat
  BY MemoryOf DEF OutputOk, ClientType
<1> DEFINE all == k.buf \o Units(k)
           x == all[k.sent + 1]
<1>1. all \in Seq(Nat) /\ Len(all) \in Nat /\ k.sent < Len(all) /\ x \in Nat
  <2>1. all \in Seq(Nat) /\ Len(all) \in Nat
    BY <1>0, ConcatProperties, LenProperties
  <2>2. k.sent < Len(all)
    BY LeftIs
  <2> HIDE DEF all
  <2>3. k.sent + 1 \in 1 .. Len(all)
    BY <1>0, <2>1, <2>2
  <2> QED BY <2>1, <2>2, <2>3, ElementOfSeq
<1>2. Append(k.wire, x) \in Seq(Nat)
  BY <1>0, <1>1, AppendProperties
<1>4. \A u : u.reply = k.reply => Units(u) = Units(k) /\ UsedMemory(u) = UsedMemory(k)
  BY DEF Units, UsedMemory, Bytes
<1> DEFINE u == Written(k)
<1>5. CASE k.buf # <<>>
  <2>1. k.sent < Len(k.buf) /\ Len(k.buf) \in Nat
    BY <1>0, <1>5, LenProperties DEF SentOk
  <2>2. k.sent + 1 \in 1 .. Len(k.buf) /\ k.sent + 1 \in Nat
    BY <1>0, <2>1
  <2>3. x = k.buf[k.sent + 1]
    BY <1>0, <2>2
  <2> DEFINE t == [k EXCEPT !.wire = Append(k.wire, x), !.sent = k.sent + 1]
  <2>4. u = IF t.sent = Len(k.buf) THEN [t EXCEPT !.buf = <<>>, !.sent = 0] ELSE t
    BY <1>5, <2>3 DEF Written
  <2>5. t.sent = k.sent + 1
    BY <1>0 DEF ClientType
  <2>6. CASE k.sent + 1 = Len(k.buf)
    <3>1. u = Wrote(k, Append(k.wire, x), <<>>, k.reply, 0)
      <4>1. u = [t EXCEPT !.buf = <<>>, !.sent = 0]
        BY <2>4, <2>5, <2>6
      <4> HIDE DEF x, u
      <4> QED BY <1>0, <4>1 DEF ClientType, Wrote
    <3> HIDE DEF u
    <3>2. /\ u \in ClientType /\ u.wire = Append(k.wire, x) /\ u.buf = <<>> /\ u.reply = k.reply /\ u.sent = 0 /\ u.told = k.told
          /\ u.alive = k.alive /\ u.handler = k.handler /\ u.flags = k.flags
      <4> DEFINE w == Append(k.wire, x)
      <4>1. k \in ClientType /\ w \in Seq(Nat) /\ <<>> \in Seq(Nat) /\ k.reply \in Seq(NodeType) /\ 0 \in Nat
        BY <1>0, <1>2, NoNumbers
      <4>2. u = Wrote(k, w, <<>>, k.reply, 0)
        BY <3>1
      <4> HIDE DEF w
      <4>3. WroteIs(k, w, <<>>, k.reply, 0, Wrote(k, w, <<>>, k.reply, 0))
        BY <4>1, WroteOf
      <4> QED BY <4>2, <4>3 DEF WroteIs, w
    <3>3. Units(u) = Units(k) /\ UsedMemory(u) = UsedMemory(k) /\ UsedMemory(u) <= UsedMemory(k)
      BY <1>0, <1>4, <3>2
    <3>4. u.buf \o Units(u) = Units(k)
      BY <1>0, <3>2, <3>3, ConcatEmptySeq
    <3>5. SentOk(u)
      <4>1. CASE k.reply # <<>>
        <5>1. k.reply[1] \in NodeType
          BY <1>0, <4>1, FirstNode
        <5>2. k.reply[1].units \in Seq(Nat) /\ k.reply[1].units # <<>>
          BY <5>1 DEF NodeType
        <5>3. 0 < Len(k.reply[1].units)
          BY <5>2, EmptySeq
        <5> QED BY <3>2, <4>1, <5>3 DEF SentOk
      <4>2. CASE k.reply = <<>>
        BY <3>2, <4>2 DEF SentOk
      <4> QED BY <4>1, <4>2
    <3> HIDE DEF x
    <3>6. \E p, q \in Seq(Nat) : all = p \o q /\ Len(p) = k.sent + 1 /\ u.buf \o Units(u) = q
      BY <1>0, <2>6, <3>4
    <3> QED BY <3>2, <3>3, <3>5, <3>6, WrittenIsOk DEF x, u
  <2>7. CASE k.sent + 1 # Len(k.buf)
    <3>1. u = Wrote(k, Append(k.wire, x), k.buf, k.reply, k.sent + 1)
      <4>1. u = t
        BY <2>4, <2>5, <2>7
      <4> HIDE DEF x, u
      <4> QED BY <1>0, <4>1 DEF ClientType, Wrote
    <3> HIDE DEF u
    <3>2. /\ u \in ClientType /\ u.wire = Append(k.wire, x) /\ u.buf = k.buf /\ u.reply = k.reply /\ u.sent = k.sent + 1 /\ u.told = k.told
          /\ u.alive = k.alive /\ u.handler = k.handler /\ u.flags = k.flags
      <4> DEFINE w == Append(k.wire, x)
      <4>1. k \in ClientType /\ w \in Seq(Nat) /\ k.buf \in Seq(Nat) /\ k.reply \in Seq(NodeType) /\ k.sent + 1 \in Nat
        BY <1>0, <1>2, NoNumbers, <2>2
      <4>2. u = Wrote(k, w, k.buf, k.reply, k.sent + 1)
        BY <3>1
      <4> HIDE DEF w
      <4>3. WroteIs(k, w, k.buf, k.reply, k.sent + 1, Wrote(k, w, k.buf, k.reply, k.sent + 1))
        BY <4>1, WroteOf
      <4> QED BY <4>2, <4>3 DEF WroteIs, w
    <3>3. UsedMemory(u) <= UsedMemory(k)
      BY <1>0, <1>4, <3>2
    <3>4. SentOk(u)
      <4>1. k.sent + 1 < Len(k.buf)
        BY <1>0, <2>1, <2>7
      <4> QED BY <1>5, <3>2, <4>1 DEF SentOk
    <3> HIDE DEF x
    <3> QED BY <3>2, <3>3, <3>4, WrittenIsOk DEF x, u
  <2> QED BY <2>6, <2>7
<1>6. CASE k.buf = <<>>
  <2> DEFINE f == k.reply[1].units
             tail == Tail(k.reply)
  <2>0. k.reply # <<>>
    BY <1>6 DEF Pending
  <2>1. k.sent < Len(f)
    BY <1>0, <1>6, <2>0 DEF SentOk
  <2>2. /\ k.reply[1] \in NodeType /\ tail \in Seq(NodeType) /\ UnitsOf(k.reply) = f \o UnitsOf(tail)
    BY <1>0, <2>0, FirstNode
  <2>3. f \in Seq(Nat) /\ UnitsOf(tail) \in Seq(Nat) /\ Len(f) \in Nat
    <3>1. f \in Seq(Nat)
      BY <2>2 DEF NodeType
    <3>2. <<>> \in Seq(NodeType)
      OBVIOUS
    <3> QED BY <2>2, <3>1, <3>2, UnitsOfConcat, LenProperties
  <2>4. all = f \o UnitsOf(tail)
    <3>1. all = Units(k)
      BY <1>0, <1>6, ConcatEmptySeq
    <3> QED BY <2>2, <3>1 DEF Units
  <2>5. k.sent + 1 \in 1 .. Len(f) /\ k.sent + 1 \in Nat
    BY <1>0, <2>1, <2>3
  <2>6. x = f[k.sent + 1]
    <3>1. (f \o UnitsOf(tail))[k.sent + 1] = f[k.sent + 1]
      <4>1. /\ Len(f) + Len(UnitsOf(tail)) \in Nat /\ k.sent + 1 \in 1 .. Len(f) + Len(UnitsOf(tail)) /\ k.sent + 1 <= Len(f)
        <5>1. Len(UnitsOf(tail)) \in Nat
          BY <2>3, LenProperties
        <5>2. \A a, b \in Nat : a + b \in Nat /\ \A j \in 1 .. a : j \in 1 .. a + b /\ j <= a
          OBVIOUS
        <5> QED BY <2>3, <2>5, <5>1, <5>2
      <4> HIDE DEF f, tail
      <4> QED BY <2>3, <4>1, ConcatProperties
    <3> QED BY <2>4, <3>1
  <2> DEFINE t == [k EXCEPT !.wire = Append(k.wire, x), !.sent = k.sent + 1]
  <2>7. u = IF t.sent = Len(k.reply[1].units) THEN [t EXCEPT !.reply = Tail(@), !.sent = 0] ELSE t
    BY <1>6, <2>6 DEF Written
  <2>8. t.sent = k.sent + 1 /\ t.reply = k.reply
    <3> HIDE DEF x
    <3> QED BY <1>0 DEF ClientType
  <2>9. CASE k.sent + 1 = Len(f)
    <3>1. u = Wrote(k, Append(k.wire, x), k.buf, tail, 0)
      <4>1. u = [t EXCEPT !.reply = Tail(@), !.sent = 0]
        BY <2>7, <2>8, <2>9
      <4> HIDE DEF x, u
      <4> QED BY <1>0, <4>1 DEF ClientType, Wrote
    <3> HIDE DEF u, tail
    <3>2. /\ u \in ClientType /\ u.wire = Append(k.wire, x) /\ u.buf = k.buf /\ u.reply = tail /\ u.sent = 0 /\ u.told = k.told
          /\ u.alive = k.alive /\ u.handler = k.handler /\ u.flags = k.flags
      <4> DEFINE w == Append(k.wire, x)
      <4>1. k \in ClientType /\ w \in Seq(Nat) /\ k.buf \in Seq(Nat) /\ tail \in Seq(NodeType) /\ 0 \in Nat
        BY <1>0, <1>2, NoNumbers, <2>2
      <4>2. u = Wrote(k, w, k.buf, tail, 0)
        BY <3>1
      <4> HIDE DEF w
      <4>3. WroteIs(k, w, k.buf, tail, 0, Wrote(k, w, k.buf, tail, 0))
        BY <4>1, WroteOf
      <4> QED BY <4>2, <4>3 DEF WroteIs, w
    <3>3. Units(u) = UnitsOf(tail) /\ UsedMemory(u) <= UsedMemory(k)
      <4>1. BytesOf(tail) + NodeSize * Len(tail) <= UsedMemory(k)
        BY <1>0, <2>0, MemoryOf DEF tail
      <4> QED BY <3>2, <4>1 DEF Units, UsedMemory, Bytes
    <3>4. u.buf \o Units(u) = UnitsOf(tail)
      BY <1>6, <2>3, <3>2, <3>3, ConcatEmptySeq
    <3>5. SentOk(u)
      <4>1. CASE tail # <<>>
        <5>1. tail[1] \in NodeType
          BY <2>2, <4>1, FirstNode
        <5>2. tail[1].units \in Seq(Nat) /\ tail[1].units # <<>>
          BY <5>1 DEF NodeType
        <5>3. 0 < Len(tail[1].units)
          BY <5>2, EmptySeq
        <5> QED BY <1>6, <3>2, <4>1, <5>3 DEF SentOk
      <4>2. CASE tail = <<>>
        BY <1>6, <3>2, <4>2 DEF SentOk
      <4> QED BY <4>1, <4>2
    <3>6. \E p, q \in Seq(Nat) : all = p \o q /\ Len(p) = k.sent + 1 /\ u.buf \o Units(u) = q
      BY <2>3, <2>4, <2>9, <3>4
    <3> HIDE DEF x
    <3> QED BY <3>2, <3>3, <3>5, <3>6, WrittenIsOk DEF x, u
  <2>10. CASE k.sent + 1 # Len(f)
    <3>1. u = Wrote(k, Append(k.wire, x), k.buf, k.reply, k.sent + 1)
      <4>1. u = t
        BY <2>7, <2>8, <2>10
      <4> HIDE DEF x, u
      <4> QED BY <1>0, <4>1 DEF ClientType, Wrote
    <3> HIDE DEF u
    <3>2. /\ u \in ClientType /\ u.wire = Append(k.wire, x) /\ u.buf = k.buf /\ u.reply = k.reply /\ u.sent = k.sent + 1 /\ u.told = k.told
          /\ u.alive = k.alive /\ u.handler = k.handler /\ u.flags = k.flags
      <4> DEFINE w == Append(k.wire, x)
      <4>1. k \in ClientType /\ w \in Seq(Nat) /\ k.buf \in Seq(Nat) /\ k.reply \in Seq(NodeType) /\ k.sent + 1 \in Nat
        BY <1>0, <1>2, NoNumbers, <2>5
      <4>2. u = Wrote(k, w, k.buf, k.reply, k.sent + 1)
        BY <3>1
      <4> HIDE DEF w
      <4>3. WroteIs(k, w, k.buf, k.reply, k.sent + 1, Wrote(k, w, k.buf, k.reply, k.sent + 1))
        BY <4>1, WroteOf
      <4> QED BY <4>2, <4>3 DEF WroteIs, w
    <3>3. UsedMemory(u) <= UsedMemory(k)
      BY <1>0, <1>4, <3>2
    <3>4. SentOk(u)
      <4>1. k.sent + 1 < Len(f)
        BY <1>0, <2>1, <2>3, <2>10
      <4> QED BY <1>6, <2>0, <3>2, <4>1 DEF SentOk
    <3> HIDE DEF x
    <3> QED BY <3>2, <3>3, <3>4, WrittenIsOk DEF x, u
  <2> QED BY <2>9, <2>10
<1> QED BY <1>5, <1>6

WrittenSet(k) ==
  {u \in ClientType : OutputOk(u) /\ u.alive /\ u.handler /\ u.flags = k.flags /\ (LimitOk(k) => LimitOk(u))}
AfterWriting(f, k, n) == f = [i \in 0 .. n |-> IF i = 0 THEN k ELSE Written(f[i - 1])]
(* sendReplyToClient() writes any number of units.                          *)
LEMMA WrittenUnitsOk ==
  ASSUME NEW k, OutputOk(k), k.alive, k.handler, NEW n \in 0 .. Left(k)
  PROVE  WrittenUnits(k, n) \in WrittenSet(k)
<1> DEFINE S == WrittenSet(k)
           F == [i \in 1 .. n |-> [y \in S |-> IF Pending(y) THEN Written(y) ELSE y]]
           r == CHOOSE g : AfterWriting(g, k, n)
<1>0. Left(k) \in Nat /\ n \in Nat /\ n <= Left(k)
  BY LeftIs
<1>1. k \in S
  BY DEF WrittenSet, OutputOk
<1>2. ASSUME NEW y \in S, Pending(y)
      PROVE  Written(y) \in S /\ Left(Written(y)) = Left(y) - 1
  <2>1. OutputOk(y) /\ y.alive /\ y.handler /\ y.flags = k.flags /\ (LimitOk(k) => LimitOk(y))
    BY DEF WrittenSet
  <2>2. WrittenFrom(y, Written(y))
    BY <1>2, <2>1, WrittenOk
  <2> QED BY <2>1, <2>2 DEF WrittenFrom, WrittenSet, OutputOk
<1> HIDE DEF S
<1>3. F \in StepsIn(n, S)
  BY <1>2 DEF StepsIn
<1>4. PICK f \in [0 .. n -> S] : f[0] = k /\ \A i \in 1 .. n : f[i] = F[i][f[i - 1]]
  <2> HIDE DEF F
  <2>1. \E f : Follows(f, n, S, k, F)
    BY <1>0, <1>1, <1>3, Iterate
  <2> QED BY <2>1 DEF Follows
<1>5. \A i \in 1 .. n : i - 1 \in 0 .. n /\ f[i - 1] \in S /\ f[i] = IF Pending(f[i - 1]) THEN Written(f[i - 1]) ELSE f[i - 1]
  <2> TAKE i \in 1 .. n
  <2>1. i - 1 \in 0 .. n
    BY <1>0
  <2>2. f[i - 1] \in S
    BY <2>1
  <2> QED BY <1>4, <2>1, <2>2
<1> DEFINE T == {i \in 0 .. n : Left(f[i]) = Left(k) - i}
<1>6. ASSUME NEW i \in 1 .. n, i - 1 \in T
      PROVE  i \in T /\ f[i] = Written(f[i - 1])
  <2> DEFINE y == f[i - 1]
  <2>1. y \in S /\ Left(y) = Left(k) - (i - 1)
    BY <1>5, <1>6
  <2>2. OutputOk(y)
    BY <2>1 DEF S, WrittenSet
  <2>3. Left(k) - (i - 1) > 0 /\ (Left(k) - (i - 1)) - 1 = Left(k) - i /\ i \in 0 .. n
    BY <1>0
  <2> HIDE DEF y
  <2>4. Left(y) > 0
    BY <2>1, <2>3
  <2>5. Pending(y)
    BY <2>2, <2>4, LeftIs
  <2>6. Left(Written(y)) = Left(k) - i
    BY <1>2, <2>1, <2>3, <2>5
  <2> QED BY <1>5, <2>3, <2>5, <2>6 DEF y
<1>7. \A i \in 0 .. n : i \in T
  <2>1. 0 \in T
    BY <1>0, <1>4
  <2>2. T \in SUBSET (0 .. n)
    OBVIOUS
  <2> HIDE DEF T
  <2> QED BY <1>0, <1>6, <2>1, <2>2, Induct
<1> HIDE DEF T, F
<1>8. \A i \in 0 .. n : f[i] = IF i = 0 THEN k ELSE Written(f[i - 1])
  <2> TAKE i \in 0 .. n
  <2>1. CASE i = 0
    BY <1>4, <2>1
  <2>2. CASE i # 0
    <3>1. i \in 1 .. n
      BY <1>0, <2>2
    <3> QED BY <1>5, <1>6, <1>7, <2>2, <3>1
  <2> QED BY <2>1, <2>2
<1>9. AfterWriting(f, k, n)
  <2>1. f = [i \in 0 .. n |-> f[i]]
    BY <1>4
  <2> QED BY <1>8, <2>1 DEF AfterWriting
<1>10. AfterWriting(r, k, n)
  BY <1>9
<1> HIDE DEF r
<1>11. \A i \in 0 .. n : r[i] = IF i = 0 THEN k ELSE Written(r[i - 1])
  BY <1>10 DEF AfterWriting
<1> DEFINE U == {i \in 0 .. n : r[i] = f[i]}
<1>12. \A i \in 0 .. n : i \in U
  <2>1. 0 \in U
    BY <1>0, <1>8, <1>11
  <2>2. ASSUME NEW i \in 1 .. n, i - 1 \in U PROVE i \in U
    <3>1. i \in 0 .. n /\ i # 0 /\ r[i - 1] = f[i - 1]
      BY <1>0, <2>2
    <3> QED BY <1>8, <1>11, <3>1
  <2>3. U \in SUBSET (0 .. n)
    OBVIOUS
  <2> HIDE DEF U
  <2> QED BY <1>0, <2>1, <2>2, <2>3, Induct
<1>13. WrittenUnits(k, n) = r[n]
  BY DEF WrittenUnits, AfterWriting, r
<1>14. n \in 0 .. n
  BY <1>0
<1> QED BY <1>4, <1>12, <1>13, <1>14 DEF S

(* What the model remembers of the soft limit changes nothing else.         *)
LEMMA SteadyOk ==
  ASSUME NEW k, OutputOk(k), k.alive, NEW clock \in Nat
  PROVE  LET u == Steady(k, clock)
         IN  /\ OutputOk(u) /\ u.alive /\ u.flags = k.flags /\ u.handler = k.handler /\ u.reply = k.reply
             /\ Bytes(u) = Bytes(k) /\ (LimitOk(k) => LimitOk(u)) /\ (Pending(u) <=> Pending(k))
<1> DEFINE x == IF SoftLimit = 0 \/ UsedMemory(k) < SoftLimit THEN 0 ELSE IF k.steady = 0 THEN clock ELSE k.steady
           u == Steady(k, clock)
<1>0. k \in ClientType /\ k.steady \in Nat
  BY DEF OutputOk, ClientType
<1>1. x \in Nat
  BY <1>0
<1>2. u = [k EXCEPT !.steady = x]
  BY DEF Steady
<1> HIDE DEF x, u
<1>3. u \in ClientType /\ SameOutput(u, k) /\ u.alive = k.alive /\ u.flags = k.flags /\ u.handler = k.handler
  BY <1>0, <1>1, <1>2 DEF ClientType, SameOutput
<1>4. OutputOk(u) /\ Bytes(u) = Bytes(k) /\ (LimitOk(k) => LimitOk(u))
  BY <1>3, SameOutputOk
<1> QED BY <1>3, <1>4 DEF u, SameOutput, Pending

----------------------------------------------------------------------------
(* The lists of clients: each client that has the flag, once.               *)
ListedIn(list, client, flag) ==
  /\ \A i, j \in 1 .. Len(list) : list[i] = list[j] => i = j
  /\ \A d \in Fds : (\E i \in 1 .. Len(list) : list[i] = d) <=> flag \in client[d].flags

(* A list and a client whose flag stays.                                    *)
LEMMA ListedSame ==
  ASSUME NEW list, NEW client \in [Fds -> ClientType], NEW flag, ListedIn(list, client, flag), NEW c \in Fds, NEW u,
         flag \in u.flags <=> flag \in client[c].flags
  PROVE  ListedIn(list, [client EXCEPT ![c] = u], flag)
BY DEF ListedIn

(* A client appended to a list, with its flag.                              *)
LEMMA ListedMore ==
  ASSUME NEW list \in Seq(Fds), NEW client \in [Fds -> ClientType], NEW flag, ListedIn(list, client, flag), NEW c \in Fds, NEW u,
         flag \in u.flags, flag \notin client[c].flags
  PROVE  Append(list, c) \in Seq(Fds) /\ ListedIn(Append(list, c), [client EXCEPT ![c] = u], flag)
<1> DEFINE m == Len(list)
           new == Append(list, c)
           after == [client EXCEPT ![c] = u]
<1>1. m \in Nat /\ new \in Seq(Fds) /\ Len(new) = m + 1 /\ new[m + 1] = c /\ \A i \in 1 .. m : new[i] = list[i]
  BY AppendProperties, LenProperties
<1>2. \A i \in 1 .. m : list[i] # c
  BY DEF ListedIn
<1>3. \A i \in 1 .. m + 1 : i \in 1 .. m \/ i = m + 1
  BY <1>1
<1>4. \A i \in 1 .. m : i \in 1 .. m + 1
  BY <1>1
<1>5. m + 1 \in 1 .. m + 1
  BY <1>1
<1>6. \A d \in Fds : after[d] = IF d = c THEN u ELSE client[d]
  OBVIOUS
<1> HIDE DEF new, after, m
<1>7. \A i, j \in 1 .. m : list[i] = list[j] => i = j
  BY DEF ListedIn, m
<1>8. \A d \in Fds : (\E i \in 1 .. m : list[i] = d) <=> flag \in client[d].flags
  BY DEF ListedIn, m
<1>9. ASSUME NEW i \in 1 .. m + 1, NEW j \in 1 .. m + 1, new[i] = new[j]
      PROVE  i = j
  BY <1>1, <1>2, <1>3, <1>7, <1>9
<1>10. ASSUME NEW d \in Fds
       PROVE  (\E i \in 1 .. m + 1 : new[i] = d) <=> flag \in after[d].flags
  <2>1. CASE d = c
    BY <1>1, <1>5, <1>6, <2>1
  <2>2. CASE d # c
    <3>1. (\E i \in 1 .. m + 1 : new[i] = d) <=> (\E i \in 1 .. m : list[i] = d)
      BY <1>1, <1>3, <1>4, <2>2
    <3> QED BY <1>6, <1>8, <2>2, <3>1
  <2> QED BY <2>1, <2>2
<1>11. ListedIn(new, after, flag)
  BY <1>1, <1>9, <1>10 DEF ListedIn
<1> QED BY <1>1, <1>11 DEF new, after

(* A client removed from a list, with its flag.                             *)
LEMMA ListedLess ==
  ASSUME NEW list \in Seq(Fds), NEW client \in [Fds -> ClientType], NEW flag, ListedIn(list, client, flag), NEW c \in Fds, NEW u,
         flag \notin u.flags
  PROVE  Without(list, c) \in Seq(Fds) /\ ListedIn(Without(list, c), [client EXCEPT ![c] = u], flag)
<1> DEFINE m == Len(list)
           after == [client EXCEPT ![c] = u]
<1>0. m \in Nat /\ DOMAIN list = 1 .. m
  BY LenProperties
<1>1. /\ \A i, j \in 1 .. m : list[i] = list[j] => i = j
      /\ \A d \in Fds : (\E i \in 1 .. m : list[i] = d) <=> flag \in client[d].flags
  BY DEF ListedIn
<1>2. \A d \in Fds : after[d] = IF d = c THEN u ELSE client[d]
  OBVIOUS
<1>3. c \in ToSet(list) <=> \E i \in 1 .. m : list[i] = c
  BY <1>0 DEF ToSet
<1>4. CASE c \notin ToSet(list)
  <2>1. Without(list, c) = list
    BY <1>4 DEF Without
  <2> HIDE DEF after
  <2>2. ListedIn(list, after, flag)
    BY <1>1, <1>2, <1>3, <1>4 DEF ListedIn
  <2> QED BY <2>1, <2>2 DEF after
<1>5. CASE c \in ToSet(list)
  <2> DEFINE p == CHOOSE i \in DOMAIN list : list[i] = c
             front == SubSeq(list, 1, p - 1)
             back == SubSeq(list, p + 1, m)
             new == front \o back
  <2>1. p \in 1 .. m /\ list[p] = c
    <3>1. \E i \in DOMAIN list : list[i] = c
      BY <1>0, <1>3, <1>5
    <3> QED BY <1>0, <3>1
  <2>2. Without(list, c) = new
    BY <1>5 DEF Without
  <2> HIDE DEF p, m
  <2>3. front \in Seq(Fds) /\ Len(front) = p - 1 /\ \A i \in 1 .. p - 1 : front[i] = list[i]
    <3>1. \A i \in 1 .. p - 1 : list[i] \in Fds
      <4>1. \A i \in 1 .. p - 1 : i \in 1 .. m
        BY <1>0, <2>1
      <4> QED BY <4>1, ElementOfSeq DEF m
    <3>2. /\ front \in Seq(Fds) /\ Len(front) = IF 1 <= p - 1 THEN p - 1 - 1 + 1 ELSE 0
          /\ \A i \in 1 .. p - 1 - 1 + 1 : front[i] = list[1 + i - 1]
      <4>1. 1 \in Int /\ p - 1 \in Int
        BY <1>0, <2>1
      <4> QED BY <3>1, <4>1, SubSeqProperties
    <3>3. p - 1 - 1 + 1 = p - 1 /\ p - 1 >= 0 /\ \A i \in 1 .. p - 1 : 1 + i - 1 = i
      BY <1>0, <2>1
    <3>4. Len(front) = p - 1
      BY <1>0, <2>1, <3>2, <3>3
    <3> QED BY <3>2, <3>3, <3>4
  <2>4. back \in Seq(Fds) /\ Len(back) = m - p /\ \A i \in 1 .. m - p : back[i] = list[p + i]
    <3>1. \A i \in p + 1 .. m : list[i] \in Fds
      <4>1. \A i \in p + 1 .. m : i \in 1 .. m
        BY <1>0, <2>1
      <4> QED BY <4>1, ElementOfSeq DEF m
    <3>2. /\ back \in Seq(Fds) /\ Len(back) = IF p + 1 <= m THEN m - (p + 1) + 1 ELSE 0
          /\ \A i \in 1 .. m - (p + 1) + 1 : back[i] = list[(p + 1) + i - 1]
      <4>1. p + 1 \in Int /\ m \in Int
        BY <1>0, <2>1
      <4> QED BY <3>1, <4>1, SubSeqProperties
    <3>3. m - (p + 1) + 1 = m - p /\ \A i \in 1 .. m - p : (p + 1) + i - 1 = p + i
      BY <1>0, <2>1
    <3>4. Len(back) = m - p
      BY <1>0, <2>1, <3>2, <3>3
    <3> QED BY <3>2, <3>3, <3>4
  <2> HIDE DEF front, back
  <2>5. new \in Seq(Fds) /\ Len(new) = Len(front) + Len(back) /\ \A i \in 1 .. Len(front) + Len(back) :
          new[i] = IF i <= Len(front) THEN front[i] ELSE back[i - Len(front)]
    BY <2>3, <2>4, ConcatProperties
  <2>6. Len(new) = m - 1 /\ \A i \in 1 .. m - 1 : new[i] = IF i < p THEN list[i] ELSE list[i + 1]
    <3>1. (p - 1) + (m - p) = m - 1
      BY <1>0, <2>1
    <3>2. Len(new) = m - 1
      BY <2>3, <2>4, <2>5, <3>1
    <3>3. ASSUME NEW i \in 1 .. m - 1
          PROVE  new[i] = IF i < p THEN list[i] ELSE list[i + 1]
      <4>1. new[i] = IF i <= p - 1 THEN front[i] ELSE back[i - (p - 1)]
        BY <2>3, <2>4, <2>5, <3>1
      <4>2. CASE i < p
        <5>1. i <= p - 1 /\ i \in 1 .. p - 1
          BY <1>0, <2>1, <4>2
        <5> QED BY <2>3, <4>1, <4>2, <5>1
      <4>3. CASE ~(i < p)
        <5>1. ~(i <= p - 1) /\ i - (p - 1) \in 1 .. m - p /\ p + (i - (p - 1)) = i + 1
          BY <1>0, <2>1, <4>3
        <5>2. back[i - (p - 1)] = list[p + (i - (p - 1))]
          BY <2>4, <5>1
        <5> QED BY <4>1, <4>3, <5>1, <5>2
      <4> QED BY <4>2, <4>3
    <3> QED BY <3>2, <3>3
  <2> HIDE DEF new, after
  <2> DEFINE at(i) == IF i < p THEN i ELSE i + 1
  <2>7. \A i \in 1 .. m - 1 : at(i) \in 1 .. m /\ at(i) # p /\ new[i] = list[at(i)]
    BY <1>0, <2>1, <2>6
  <2>8. \A i, j \in 1 .. m - 1 : at(i) = at(j) => i = j
    BY <1>0, <2>1
  <2>9. \A j \in 1 .. m : j # p => \E i \in 1 .. m - 1 : at(i) = j
    <3> TAKE j \in 1 .. m
    <3>1. CASE j < p
      <4>1. j \in 1 .. m - 1 /\ at(j) = j
        BY <1>0, <2>1, <3>1
      <4> QED BY <4>1
    <3>2. CASE j > p
      <4>1. j - 1 \in 1 .. m - 1 /\ at(j - 1) = j
        BY <1>0, <2>1, <3>2
      <4> QED BY <4>1
    <3> QED BY <1>0, <2>1, <3>1, <3>2
  <2> HIDE DEF at
  <2>10. ASSUME NEW i \in 1 .. m - 1, NEW j \in 1 .. m - 1, new[i] = new[j]
         PROVE  i = j
    <3>1. list[at(i)] = list[at(j)] /\ at(i) \in 1 .. m /\ at(j) \in 1 .. m
      BY <2>7, <2>10
    <3>2. at(i) = at(j)
      BY <1>1, <3>1 DEF m
    <3> QED BY <2>8, <3>2
  <2>11. ASSUME NEW d \in Fds
         PROVE  (\E i \in 1 .. m - 1 : new[i] = d) <=> flag \in after[d].flags
    <3>1. CASE d = c
      <4>1. \A i \in 1 .. m - 1 : new[i] # c
        <5> TAKE i \in 1 .. m - 1
        <5>1. at(i) \in 1 .. m /\ at(i) # p /\ new[i] = list[at(i)]
          BY <2>7
        <5> QED BY <1>1, <2>1, <5>1 DEF m
      <4> QED BY <1>2, <3>1, <4>1
    <3>2. CASE d # c
      <4>1. (\E i \in 1 .. m - 1 : new[i] = d) => \E i \in 1 .. m : list[i] = d
        BY <2>7
      <4>2. (\E i \in 1 .. m : list[i] = d) => \E i \in 1 .. m - 1 : new[i] = d
        BY <2>1, <2>7, <2>9, <3>2
      <4>3. (\E i \in 1 .. m : list[i] = d) <=> flag \in client[d].flags
        BY <1>1 DEF m
      <4> QED BY <1>2, <3>2, <4>1, <4>2, <4>3
    <3> QED BY <3>1, <3>2
  <2>12. ListedIn(new, after, flag)
    BY <2>6, <2>10, <2>11 DEF ListedIn
  <2> QED BY <2>2, <2>5, <2>12 DEF after
<1> QED BY <1>4, <1>5

----------------------------------------------------------------------------
(* All the clients.                                                         *)
NetType ==
  [client : [Fds -> ClientType], subscribers : Seq(Fds), patterns : Seq(Fds), monitors : Seq(Fds),
   closing : Seq(Fds), clock : Nat, left : [NetChance -> Int], softClosed : BOOLEAN]
RegOk(s) ==
  /\ ListedIn(s.subscribers, s.client, "channel") /\ ListedIn(s.patterns, s.client, "pattern")
  /\ ListedIn(s.monitors, s.client, "monitor") /\ ListedIn(s.closing, s.client, "closing")
Sound(s) == s \in NetType /\ RegOk(s) /\ \A d \in Fds : OutputOk(s.client[d])
OthersLimited(s, c) == \A d \in Fds \ {c} : LimitOk(s.client[d])
NetOk(s) == Sound(s) /\ \A d \in Fds : LimitOk(s.client[d])

(* What replies leave alone.                                                *)
Like(s, t) ==
  /\ t.subscribers = s.subscribers /\ t.patterns = s.patterns /\ t.monitors = s.monitors
  /\ \A d \in Fds : /\ t.client[d].alive = s.client[d].alive
                    /\ t.client[d].flags \ {"closing"} = s.client[d].flags \ {"closing"}
(* Like is transitive.                                                      *)
LEMMA LikeLike ==
  ASSUME NEW s, NEW t, NEW u, Like(s, t), Like(t, u)
  PROVE  Like(s, u)
BY DEF Like

SameLists(s, t) ==
  t.subscribers = s.subscribers /\ t.patterns = s.patterns /\ t.monitors = s.monitors /\ t.closing = s.closing

(* A change of the time or of the chances.                                  *)
LEMMA RestSet ==
  ASSUME NEW s, Sound(s), NEW t \in NetType, t.client = s.client, SameLists(s, t)
  PROVE  /\ Sound(t) /\ Like(s, t) /\ (NetOk(s) => NetOk(t)) /\ \A c \in Fds : OthersLimited(s, c) => OthersLimited(t, c)
<1>1. RegOk(t)
  BY DEF Sound, RegOk, SameLists
<1> QED BY <1>1 DEF Sound, Like, SameLists, NetOk, OthersLimited

ClientIsSet(s, c, u, t) ==
  /\ Sound(t) /\ t.client = [s.client EXCEPT ![c] = u] /\ SameLists(s, t) /\ t.clock = s.clock /\ t.left = s.left
  /\ t.client[c] = u /\ \A d \in Fds \ {c} : t.client[d] = s.client[d]
  /\ (u.alive = s.client[c].alive => Like(s, t)) /\ (OthersLimited(s, c) => OthersLimited(t, c))
  /\ (OthersLimited(s, c) /\ LimitOk(u) => NetOk(t))
(* A change of one client that keeps its flags.                             *)
LEMMA ClientSet ==
  ASSUME NEW s, Sound(s), NEW c \in Fds, NEW u, OutputOk(u), u.flags = s.client[c].flags
  PROVE  ClientIsSet(s, c, u, [s EXCEPT !.client[c] = u])
<1> DEFINE t == [s EXCEPT !.client[c] = u]
           after == [s.client EXCEPT ![c] = u]
<1>0. s \in NetType /\ s.client \in [Fds -> ClientType] /\ u \in ClientType
  BY DEF Sound, NetType, OutputOk
<1>1. after \in [Fds -> ClientType] /\ after[c] = u /\ \A d \in Fds \ {c} : after[d] = s.client[d]
  BY <1>0
<1>2. t = [s EXCEPT !.client = after]
  OBVIOUS
<1> HIDE DEF after, t
<1>3. t \in NetType /\ t.client = after /\ SameLists(s, t) /\ t.clock = s.clock /\ t.left = s.left
  BY <1>0, <1>1, <1>2 DEF NetType, SameLists
<1>4. RegOk(t)
  <2>1. \A flag : flag \in u.flags <=> flag \in s.client[c].flags
    OBVIOUS
  <2>2. /\ ListedIn(s.subscribers, after, "channel") /\ ListedIn(s.patterns, after, "pattern")
        /\ ListedIn(s.monitors, after, "monitor") /\ ListedIn(s.closing, after, "closing")
    BY <1>0, <2>1, ListedSame DEF Sound, RegOk, after
  <2> QED BY <1>3, <2>2 DEF RegOk, SameLists
<1>5. \A d \in Fds : OutputOk(t.client[d])
  BY <1>1, <1>3 DEF Sound
<1>6. u.alive = s.client[c].alive => Like(s, t)
  BY <1>1, <1>3 DEF Like, SameLists
<1>7. OthersLimited(s, c) => OthersLimited(t, c)
  BY <1>1, <1>3 DEF OthersLimited
<1>8. OthersLimited(s, c) /\ LimitOk(u) => \A d \in Fds : LimitOk(t.client[d])
  BY <1>1, <1>3 DEF OthersLimited
<1>9. ClientIsSet(s, c, u, t)
  BY <1>1, <1>3, <1>4, <1>5, <1>6, <1>7, <1>8 DEF Sound, NetOk, after, ClientIsSet
<1> QED BY <1>9 DEF t

(* asyncCloseClientOnOutputBufferLimitReached(): the queue and the flag.    *)
LEMMA ClosingOk ==
  ASSUME NEW s, Sound(s), NEW c \in Fds, s.client[c].alive, "closing" \notin s.client[c].flags, OthersLimited(s, c)
  PROVE  LET t == FreeClientAsync(s, c)
         IN  NetOk(t) /\ Like(s, t) /\ t.client[c].reply = s.client[c].reply
<1> DEFINE k == s.client[c]
           fl == k.flags \cup {"closing"}
           u == [k EXCEPT !.flags = fl]
           after == [s.client EXCEPT ![c] = u]
           list == Append(s.closing, c)
           t == FreeClientAsync(s, c)
<1>0. /\ s \in NetType /\ s.client \in [Fds -> ClientType] /\ k \in ClientType /\ OutputOk(k) /\ s.closing \in Seq(Fds)
  BY DEF Sound, NetType, OutputOk
<1>1. fl \in SUBSET {"quit", "closing", "channel", "pattern", "monitor"} /\ "closing" \in fl /\ k.flags \subseteq fl
      /\ fl \ {"closing"} = k.flags \ {"closing"}
  <2>1. k.flags \in SUBSET {"quit", "closing", "channel", "pattern", "monitor"}
    BY <1>0 DEF ClientType
  <2> HIDE DEF k
  <2> QED BY <2>1
<1>2. t = [s EXCEPT !.client = after, !.closing = list]
  BY DEF FreeClientAsync
<1> HIDE DEF k, fl
<1>3. u \in ClientType /\ SameOutput(u, k) /\ u.flags = fl /\ u.alive = k.alive /\ u.handler = k.handler
  BY <1>0, <1>1 DEF ClientType, SameOutput
<1>4. OutputOk(u) /\ LimitOk(u)
  <2>1. OutputOk(u)
    BY <1>0, <1>3, SameOutputOk DEF k
  <2>2. LimitOk(u)
    BY <1>1, <1>3 DEF LimitOk
  <2> QED BY <2>1, <2>2
<1> HIDE DEF u
<1>5. after \in [Fds -> ClientType] /\ after[c] = u /\ \A d \in Fds \ {c} : after[d] = s.client[d]
  BY <1>0, <1>3
<1>6. list \in Seq(Fds) /\ ListedIn(list, after, "closing")
  <2>1. "closing" \in u.flags /\ "closing" \notin s.client[c].flags
    BY <1>1, <1>3
  <2> QED BY <1>0, <2>1, ListedMore DEF Sound, RegOk
<1>7. ListedIn(s.subscribers, after, "channel") /\ ListedIn(s.patterns, after, "pattern") /\ ListedIn(s.monitors, after, "monitor")
  <2>1. \A flag \in {"channel", "pattern", "monitor"} : flag \in u.flags <=> flag \in s.client[c].flags
    BY <1>1, <1>3 DEF k
  <2>2. "channel" \in u.flags <=> "channel" \in s.client[c].flags
    BY <2>1
  <2>3. "pattern" \in u.flags <=> "pattern" \in s.client[c].flags
    BY <2>1
  <2>4. "monitor" \in u.flags <=> "monitor" \in s.client[c].flags
    BY <2>1
  <2> QED BY <1>0, <2>2, <2>3, <2>4, ListedSame DEF Sound, RegOk
<1> HIDE DEF after, list, t
<1>8. /\ t \in NetType /\ t.client = after /\ t.closing = list
      /\ t.subscribers = s.subscribers /\ t.patterns = s.patterns /\ t.monitors = s.monitors
  BY <1>0, <1>2, <1>5, <1>6 DEF NetType
<1>9. Sound(t)
  <2>1. \A d \in Fds : OutputOk(t.client[d])
    BY <1>4, <1>5, <1>8 DEF Sound
  <2> QED BY <1>6, <1>7, <1>8, <2>1 DEF Sound, RegOk
<1>10. \A d \in Fds : LimitOk(t.client[d])
  BY <1>4, <1>5, <1>8 DEF OthersLimited
<1>11. Like(s, t)
  BY <1>1, <1>3, <1>5, <1>8 DEF Like, k
<1>12. t.client[c].reply = s.client[c].reply
  BY <1>3, <1>5, <1>8 DEF SameOutput, k
<1> QED BY <1>9, <1>10, <1>11, <1>12 DEF NetOk, t

(* The limits, once a reply is in the list.                                 *)
LEMMA LimitedOk ==
  ASSUME NEW s, Sound(s), NEW c \in Fds, s.client[c].alive, OthersLimited(s, c),
         Bytes(s.client[c]) # 0 \/ LimitOk(s.client[c])
  PROVE  NetOk(Limited(s, c)) /\ Like(s, Limited(s, c)) /\ Limited(s, c).client[c].reply = s.client[c].reply
<1> DEFINE k == s.client[c]
           x == SoftStart(k, s.clock)
           v == [k EXCEPT !.over = x]
           t == [s EXCEPT !.client[c] = v]
<1>0. s \in NetType /\ k \in ClientType /\ OutputOk(k) /\ s.clock \in Nat /\ k.over \in Nat
  BY DEF Sound, NetType, ClientType
<1>1. x \in Nat
  BY <1>0 DEF SoftStart
<1>2. Limited(s, c) =
        IF Bytes(k) = 0 \/ "closing" \in k.flags THEN s
        ELSE IF OverHard(k) THEN FreeClientAsync(t, c)
        ELSE IF OverSoft(k, s.clock)
             THEN [FreeClientAsync(t, c) EXCEPT !.softClosed = @ \/ s.clock - k.steady <= SoftSeconds]
        ELSE t
  BY DEF Limited
<1>3. Like(s, s)
  BY DEF Like
<1> HIDE DEF x
<1>4. v \in ClientType /\ SameOutput(v, k) /\ v.flags = k.flags /\ v.alive = k.alive /\ v.handler = k.handler
  BY <1>0, <1>1 DEF ClientType, SameOutput
<1>5. OutputOk(v) /\ UsedMemory(v) = UsedMemory(k)
  BY <1>0, <1>4, SameOutputOk
<1> HIDE DEF v
<1>6. /\ Sound(t) /\ t.client[c] = v /\ Like(s, t) /\ OthersLimited(t, c) /\ (LimitOk(v) => NetOk(t))
  <2>1. ClientIsSet(s, c, v, t)
    BY <1>4, <1>5, ClientSet
  <2> HIDE DEF t
  <2> QED BY <1>4, <2>1 DEF ClientIsSet
<1> HIDE DEF t
<1>7. CASE Bytes(k) = 0 \/ "closing" \in k.flags
  <2>1. LimitOk(k)
    BY <1>7 DEF LimitOk
  <2>2. NetOk(s)
    BY <2>1 DEF NetOk, OthersLimited
  <2> QED BY <1>2, <1>3, <1>7, <2>2
<1>8. CASE ~(Bytes(k) = 0 \/ "closing" \in k.flags)
  <2> DEFINE f == FreeClientAsync(t, c)
  <2>1. NetOk(f) /\ Like(t, f) /\ f.client[c].reply = t.client[c].reply
    BY <1>4, <1>6, <1>8, ClosingOk
  <2>2. Like(s, f) /\ f.client[c].reply = k.reply
    BY <1>4, <1>6, <2>1, LikeLike DEF SameOutput
  <2> HIDE DEF f
  <2>3. CASE OverHard(k)
    BY <1>2, <1>8, <2>1, <2>2, <2>3 DEF f
  <2>4. CASE ~OverHard(k) /\ OverSoft(k, s.clock)
    <3> DEFINE b == f.softClosed \/ s.clock - k.steady <= SoftSeconds
               g == [f EXCEPT !.softClosed = b]
    <3>1. Limited(s, c) = g
      BY <1>2, <1>8, <2>4 DEF f
    <3>2. b \in BOOLEAN
      OBVIOUS
    <3> HIDE DEF b
    <3>3. g \in NetType /\ g.client = f.client /\ SameLists(f, g)
      BY <2>1, <3>2 DEF NetOk, Sound, NetType, SameLists
    <3> HIDE DEF g
    <3>4. NetOk(g) /\ Like(f, g)
      BY <2>1, <3>3, RestSet DEF NetOk
    <3>5. Like(s, g)
      BY <2>2, <3>4, LikeLike
    <3> QED BY <2>2, <3>1, <3>3, <3>4, <3>5
  <2>5. CASE ~OverHard(k) /\ ~OverSoft(k, s.clock)
    <3>1. Limited(s, c) = t
      BY <1>2, <1>8, <2>5
    <3>2. LimitOk(v)
      BY <1>5, <2>5 DEF LimitOk, OverHard
    <3> QED BY <1>4, <1>6, <3>1, <3>2 DEF SameOutput
  <2> QED BY <2>3, <2>4, <2>5
<1> QED BY <1>7, <1>8

Replied(s, c, t) ==
  NetOk(t) /\ Like(s, t) /\ (HasOpen(s.client[c]) => HasOpen(t.client[c]))
(* addReply(), also between a length deferred and the limits checked.       *)
LEMMA AddReplyOk ==
  ASSUME NEW s, Sound(s), NEW c \in Fds, s.client[c].alive, OthersLimited(s, c), NEW n \in Nat \ {0},
         LimitOk(s.client[c]) \/ (s.client[c].reply # <<>> /\ "quit" \notin s.client[c].flags)
  PROVE  Replied(s, c, AddReply(s, c, n))
<1> DEFINE o == s.client[c]
           k == Prepared(o)
           b == Told(ToBuffer(k, n), n)
           l == Told(ToList(k, n), n)
           w == Steady(l, s.clock)
<1>0. OutputOk(o) /\ o.alive /\ s.clock \in Nat
  BY DEF Sound, NetType
<1>1. /\ OutputOk(k) /\ k.handler = TRUE /\ k.alive /\ k.flags = o.flags /\ k.reply = o.reply /\ UsedMemory(k) = UsedMemory(o)
      /\ k \in ClientType
  <2>1. /\ OutputOk(k) /\ k.handler = TRUE /\ k.alive /\ k.flags = o.flags /\ k.reply = o.reply /\ UsedMemory(k) = UsedMemory(o)
    BY <1>0, PreparedOk
  <2> QED BY <2>1 DEF OutputOk
<1>2. LimitOk(o) => LimitOk(k)
  BY <1>1 DEF LimitOk
<1>3. AddReply(s, c, n) =
        IF "quit" \in k.flags THEN [s EXCEPT !.client[c] = k]
        ELSE IF Fits(k, n) THEN [s EXCEPT !.client[c] = b]
        ELSE Limited([s EXCEPT !.client[c] = w], c)
  BY DEF AddReply
<1>4. o.alive = TRUE /\ k.alive = TRUE
  <2>1. o.alive \in BOOLEAN /\ k.alive \in BOOLEAN
    BY <1>0, <1>1 DEF OutputOk, ClientType
  <2> QED BY <1>0, <1>1, <2>1
<1> HIDE DEF k, b, w, l
<1>5. CASE "quit" \in k.flags
  <2> DEFINE t == [s EXCEPT !.client[c] = k]
  <2>1. ClientIsSet(s, c, k, t)
    BY <1>1, ClientSet
  <2> HIDE DEF t
  <2>2. LimitOk(k)
    BY <1>1, <1>2, <1>5
  <2>3. HasOpen(o) => HasOpen(k)
    BY <1>1 DEF HasOpen
  <2>4. Replied(s, c, t)
    BY <1>4, <2>1, <2>2, <2>3 DEF ClientIsSet, Replied
  <2> QED BY <1>3, <1>5, <2>4 DEF t
<1>6. CASE "quit" \notin k.flags /\ Fits(k, n)
  <2> DEFINE t == [s EXCEPT !.client[c] = b]
  <2>1. k.reply = <<>>
    BY <1>6 DEF Fits
  <2>2. OutputOk(b) /\ b.reply = k.reply /\ b.alive /\ b.flags = k.flags
    BY <1>1, <2>1, ToBufferOk DEF b
  <2>3. b.alive = TRUE
    <3>1. b.alive \in BOOLEAN
      BY <2>2 DEF OutputOk, ClientType
    <3> QED BY <2>2, <3>1
  <2>4. ClientIsSet(s, c, b, t)
    BY <1>1, <2>2, ClientSet
  <2> HIDE DEF t
  <2>5. LimitOk(b)
    <3>1. LimitOk(k)
      BY <1>1, <1>2, <2>1
    <3> QED BY <2>2, <3>1 DEF LimitOk, UsedMemory, Bytes
  <2>6. HasOpen(o) => HasOpen(b)
    BY <1>1, <2>2 DEF HasOpen
  <2>7. Replied(s, c, t)
    BY <1>4, <2>3, <2>4, <2>5, <2>6 DEF ClientIsSet, Replied
  <2> QED BY <1>3, <1>6, <2>7 DEF t
<1>7. CASE "quit" \notin k.flags /\ ~Fits(k, n)
  <2> DEFINE t == [s EXCEPT !.client[c] = w]
  <2>1. OutputOk(l) /\ l.alive /\ l.flags = k.flags /\ Bytes(l) \in Nat \ {0}
    BY <1>1, ToListOk DEF l
  <2>2. OutputOk(w) /\ w.alive /\ w.flags = l.flags /\ w.reply = l.reply /\ Bytes(w) = Bytes(l)
    BY <1>0, <2>1, SteadyOk DEF w
  <2>3. w.alive = TRUE
    <3>1. w.alive \in BOOLEAN
      BY <2>2 DEF OutputOk, ClientType
    <3> QED BY <2>2, <3>1
  <2>4. ClientIsSet(s, c, w, t)
    BY <1>1, <2>1, <2>2, ClientSet
  <2>5. HasOpen(o) => HasOpen(w)
    <3>1. HasOpen(o) => HasOpen(k)
      BY <1>1 DEF HasOpen
    <3>2. HasOpen(k) => HasOpen(l)
      BY <1>1, ToListKeepsOpen DEF l
    <3>3. HasOpen(l) => HasOpen(w)
      BY <2>2 DEF HasOpen
    <3> QED BY <3>1, <3>2, <3>3
  <2> HIDE DEF t
  <2>6. Sound(t) /\ t.client[c] = w /\ OthersLimited(t, c) /\ Like(s, t)
    BY <1>4, <2>3, <2>4 DEF ClientIsSet
  <2>7. Bytes(t.client[c]) # 0 /\ t.client[c].alive
    BY <2>1, <2>2, <2>6
  <2> DEFINE u == Limited(t, c)
  <2>8. NetOk(u) /\ Like(t, u) /\ u.client[c].reply = t.client[c].reply
    BY <2>6, <2>7, LimitedOk
  <2> HIDE DEF u
  <2>9. HasOpen(w) => HasOpen(u.client[c])
    BY <2>6, <2>8 DEF HasOpen
  <2>10. Replied(s, c, u)
    BY <2>5, <2>6, <2>8, <2>9, LikeLike DEF Replied
  <2> QED BY <1>3, <1>7, <2>10 DEF u, t
<1> QED BY <1>5, <1>6, <1>7

(* addReply() to a client that is alive.                                    *)
LEMMA OneReply ==
  ASSUME NEW s, NetOk(s), NEW c \in Fds, s.client[c].alive, NEW n \in Nat \ {0}
  PROVE  NetOk(AddReply(s, c, n)) /\ Like(s, AddReply(s, c, n))
<1>1. Sound(s) /\ OthersLimited(s, c) /\ LimitOk(s.client[c])
  BY DEF NetOk, OthersLimited
<1>2. Replied(s, c, AddReply(s, c, n))
  BY <1>1, AddReplyOk
<1> QED BY <1>2 DEF Replied

RepliedTo(s) == {t \in NetType : NetOk(t) /\ Like(s, t)}
AfterReplies(f, s, list, n) ==
  f = [i \in 0 .. Len(list) |-> IF i = 0 THEN s ELSE AddReply(f[i - 1], list[i], n)]
(* addReply() to the clients of a list, one after the other.                *)
LEMMA ReplyToOk ==
  ASSUME NEW s, NetOk(s), NEW list \in Seq(Fds), \A i \in 1 .. Len(list) : s.client[list[i]].alive, NEW n \in Nat \ {0}
  PROVE  NetOk(ReplyTo(s, list, n)) /\ Like(s, ReplyTo(s, list, n))
<1> DEFINE m == Len(list)
           S == RepliedTo(s)
           F == [i \in 1 .. m |-> [t \in S |-> AddReply(t, list[i], n)]]
           r == CHOOSE g : AfterReplies(g, s, list, n)
<1>0. m \in Nat /\ \A i \in 1 .. m : list[i] \in Fds
  BY LenProperties, ElementOfSeq
<1>1. s \in S
  BY DEF RepliedTo, NetOk, Sound, Like
<1>2. ASSUME NEW t \in S, NEW i \in 1 .. m
      PROVE  AddReply(t, list[i], n) \in S
  <2> DEFINE u == AddReply(t, list[i], n)
  <2>1. NetOk(t) /\ Like(s, t) /\ list[i] \in Fds
    BY <1>0 DEF RepliedTo
  <2>2. t.client[list[i]].alive
    BY <2>1 DEF Like
  <2>3. NetOk(u) /\ Like(t, u)
    BY <2>1, <2>2, OneReply
  <2> HIDE DEF u
  <2>4. Like(s, u) /\ u \in NetType
    BY <2>1, <2>3, LikeLike DEF NetOk, Sound
  <2> QED BY <2>3, <2>4 DEF RepliedTo, u
<1> HIDE DEF S
<1>3. F \in StepsIn(m, S)
  BY <1>2 DEF StepsIn
<1>4. PICK f \in [0 .. m -> S] : f[0] = s /\ \A i \in 1 .. m : f[i] = F[i][f[i - 1]]
  <2> HIDE DEF F, m
  <2>1. \E f : Follows(f, m, S, s, F)
    BY <1>0, <1>1, <1>3, Iterate
  <2> QED BY <2>1 DEF Follows
<1> HIDE DEF m
<1>5. \A i \in 0 .. m : f[i] = IF i = 0 THEN s ELSE AddReply(f[i - 1], list[i], n)
  <2> TAKE i \in 0 .. m
  <2>1. CASE i = 0
    BY <1>4, <2>1
  <2>2. CASE i # 0
    <3>1. i \in 1 .. m /\ i - 1 \in 0 .. m
      BY <1>0, <2>2
    <3>2. f[i - 1] \in S
      BY <3>1
    <3> QED BY <1>4, <2>2, <3>1, <3>2
  <2> QED BY <2>1, <2>2
<1>6. AfterReplies(f, s, list, n)
  <2>1. f = [i \in 0 .. m |-> f[i]]
    BY <1>4
  <2> QED BY <1>5, <2>1 DEF AfterReplies, m
<1>7. AfterReplies(r, s, list, n)
  BY <1>6
<1> HIDE DEF r, F
<1>8. \A i \in 0 .. m : r[i] = IF i = 0 THEN s ELSE AddReply(r[i - 1], list[i], n)
  BY <1>7 DEF AfterReplies, m
<1> DEFINE T == {i \in 0 .. m : r[i] = f[i]}
<1>9. \A i \in 0 .. m : i \in T
  <2>1. 0 \in T
    BY <1>0, <1>5, <1>8
  <2>2. ASSUME NEW i \in 1 .. m, i - 1 \in T PROVE i \in T
    <3>1. i \in 0 .. m /\ i # 0 /\ r[i - 1] = f[i - 1]
      BY <1>0, <2>2
    <3> QED BY <1>5, <1>8, <3>1
  <2>3. T \in SUBSET (0 .. m)
    OBVIOUS
  <2> HIDE DEF T
  <2> QED BY <1>0, <2>1, <2>2, <2>3, Induct
<1>10. ReplyTo(s, list, n) = r[m]
  BY DEF ReplyTo, AfterReplies, r, m
<1>11. m \in 0 .. m
  BY <1>0
<1>12. ReplyTo(s, list, n) \in S
  BY <1>4, <1>9, <1>10, <1>11
<1> QED BY <1>12 DEF S, RepliedTo

(* Who is in a list is alive.                                               *)
LEMMA MembersAlive ==
  ASSUME NEW s, Sound(s), NEW list \in Seq(Fds), NEW flag, ListedIn(list, s.client, flag)
  PROVE  \A i \in 1 .. Len(list) : s.client[list[i]].alive
<1> TAKE i \in 1 .. Len(list)
<1>1. list[i] \in Fds
  BY ElementOfSeq
<1>2. flag \in s.client[list[i]].flags
  BY <1>1 DEF ListedIn
<1>3. ~s.client[list[i]].alive => s.client[list[i]] = Closed
  BY <1>1 DEF Sound, OutputOk
<1> QED BY <1>2, <1>3, ClosedOk

(* replicationFeedMonitors().                                               *)
LEMMA MonitoredOk ==
  ASSUME NEW s, NetOk(s)
  PROVE  NetOk(Monitored(s)) /\ Like(s, Monitored(s))
<1>1. Sound(s) /\ s.monitors \in Seq(Fds) /\ ListedIn(s.monitors, s.client, "monitor")
  BY DEF NetOk, Sound, NetType, RegOk
<1>2. \A i \in 1 .. Len(s.monitors) : s.client[s.monitors[i]].alive
  BY <1>1, MembersAlive
<1> QED BY <1>1, <1>2, ReplyToOk DEF Monitored

(* The bound on what may happen.                                            *)
LEMMA SpentOk ==
  ASSUME NEW s, NetOk(s), NEW kind
  PROVE  NetOk(NetSpent(s, kind)) /\ Like(s, NetSpent(s, kind)) /\ NetSpent(s, kind).client = s.client
<1> DEFINE t == NetSpent(s, kind)
           l == [s.left EXCEPT ![kind] = s.left[kind] - 1]
<1>0. s \in NetType /\ s.left \in [NetChance -> Int] /\ Sound(s)
  BY DEF NetOk, Sound, NetType
<1>1. l \in [NetChance -> Int]
  <2>1. CASE kind \in NetChance
    BY <1>0, <2>1
  <2>2. CASE kind \notin NetChance
    <3>1. l = s.left
      BY <1>0, <2>2
    <3> QED BY <1>0, <3>1
  <2> QED BY <2>1, <2>2
<1>2. t = [s EXCEPT !.left = l]
  BY DEF NetSpent
<1> HIDE DEF l, t
<1>3. t \in NetType /\ t.client = s.client /\ SameLists(s, t)
  BY <1>0, <1>1, <1>2 DEF NetType, SameLists
<1>4. NetOk(t) /\ Like(s, t)
  BY <1>0, <1>3, RestSet
<1> QED BY <1>3, <1>4 DEF t

(* setDeferredMultiBulkLength() and the limits.                             *)
LEMMA SetDeferredOk ==
  ASSUME NEW s, NetOk(s), NEW c \in Fds, s.client[c].alive, s.client[c].handler, HasOpen(s.client[c])
  PROVE  NetOk(SetDeferred(s, c)) /\ Like(s, SetDeferred(s, c))
<1> DEFINE k == s.client[c]
           g == [k EXCEPT !.reply = Glued(k)]
           w == Steady(g, s.clock)
           t == [s EXCEPT !.client[c] = w]
           u == Limited(t, c)
<1>0. OutputOk(k) /\ k.alive /\ s.clock \in Nat /\ Sound(s) /\ OthersLimited(s, c) /\ k.alive \in BOOLEAN
  BY DEF NetOk, Sound, NetType, OthersLimited, OutputOk, ClientType
<1>1. SetDeferred(s, c) = u
  BY DEF SetDeferred, Glued
<1>2. OutputOk(g) /\ g.alive /\ g.flags = k.flags /\ g.handler /\ Bytes(g) \in Nat \ {0}
  BY <1>0, GluedOk
<1> HIDE DEF g
<1>3. OutputOk(w) /\ w.alive /\ w.flags = g.flags /\ Bytes(w) = Bytes(g)
  BY <1>0, <1>2, SteadyOk
<1> HIDE DEF w
<1>4. ClientIsSet(s, c, w, t)
  BY <1>0, <1>2, <1>3, ClientSet
<1> HIDE DEF t
<1>5. w.alive = k.alive
  BY <1>0, <1>3 DEF OutputOk, ClientType
<1>6. Sound(t) /\ t.client[c] = w /\ OthersLimited(t, c) /\ Like(s, t)
  BY <1>0, <1>4, <1>5 DEF ClientIsSet
<1>7. Bytes(t.client[c]) # 0 /\ t.client[c].alive
  BY <1>2, <1>3, <1>6
<1>8. NetOk(u) /\ Like(t, u)
  BY <1>6, <1>7, LimitedOk
<1> HIDE DEF u
<1> QED BY <1>1, <1>6, <1>8, LikeLike

(* keysCommand(): a length deferred, the replies, the length.               *)
LEMMA KeysReplyOk ==
  ASSUME NEW s, NetOk(s), NEW c \in Fds, s.client[c].alive, "quit" \notin s.client[c].flags
  PROVE  NetOk(KeysReply(s, c))
<1> DEFINE o == s.client[c]
           k == Prepared(o)
           d == Told([k EXCEPT !.reply = Append(@, Node(<<k.told + 1>>, TRUE))], 1)
           t == AddDeferred(s, c)
           u == AddReply(t, c, 2)
<1>0. OutputOk(o) /\ o.alive /\ Sound(s) /\ OthersLimited(s, c) /\ o.alive \in BOOLEAN
  BY DEF NetOk, Sound, NetType, OthersLimited, OutputOk, ClientType
<1>1. OutputOk(k) /\ k.handler = TRUE /\ k.alive /\ k.flags = o.flags
  BY <1>0, PreparedOk
<1>2. t = [s EXCEPT !.client[c] = d]
  BY DEF AddDeferred
<1> HIDE DEF k
<1>3. OutputOk(d) /\ d.alive /\ d.flags = k.flags /\ d.handler /\ d.reply # <<>> /\ HasOpen(d)
  BY <1>1, DeferredOk
<1> HIDE DEF d, t
<1>4. ClientIsSet(s, c, d, t)
  BY <1>0, <1>1, <1>2, <1>3, ClientSet
<1>5. d.alive = o.alive
  BY <1>0, <1>3 DEF OutputOk, ClientType
<1>6. Sound(t) /\ t.client[c] = d /\ OthersLimited(t, c) /\ Like(s, t)
  BY <1>0, <1>4, <1>5 DEF ClientIsSet
<1>7. t.client[c].alive /\ t.client[c].reply # <<>> /\ "quit" \notin t.client[c].flags /\ HasOpen(t.client[c])
  BY <1>1, <1>3, <1>6
<1>8. Replied(t, c, u)
  BY <1>6, <1>7, AddReplyOk
<1>9. u.client[c].handler
  <2>1. OutputOk(u.client[c]) /\ HasOpen(u.client[c])
    BY <1>7, <1>8 DEF Replied, NetOk, Sound
  <2>2. Pending(u.client[c])
    <3>1. u.client[c].reply # <<>>
      <4>1. PICK i \in DOMAIN u.client[c].reply : TRUE
        BY <2>1 DEF HasOpen
      <4>2. DOMAIN u.client[c].reply = 1 .. Len(u.client[c].reply)
        BY <2>1, LenProperties DEF OutputOk, ClientType
      <4>3. Len(<<>>) = 0
        OBVIOUS
      <4> QED BY <4>1, <4>2, <4>3
    <3> QED BY <3>1 DEF Pending
  <2> QED BY <2>1, <2>2 DEF OutputOk
<1>10. NetOk(u) /\ u.client[c].alive /\ HasOpen(u.client[c])
  <2>1. NetOk(u) /\ Like(t, u) /\ HasOpen(u.client[c])
    BY <1>7, <1>8 DEF Replied
  <2>2. u.client[c].alive
    BY <1>7, <2>1 DEF Like
  <2> QED BY <2>1, <2>2
<1> HIDE DEF u
<1>11. NetOk(SetDeferred(u, c))
  BY <1>9, <1>10, SetDeferredOk
<1> QED BY <1>11 DEF KeysReply, u, t

(* freeClient() of any descriptor: out of every list.                       *)
LEMMA FreeClientOk ==
  ASSUME NEW s, NetOk(s), NEW c \in Fds
  PROVE  NetOk(FreeClient(s, c)) /\ \A d \in Fds \ {c} : FreeClient(s, c).client[d] = s.client[d]
<1> DEFINE after == [s.client EXCEPT ![c] = Closed]
           su == Without(s.subscribers, c)
           pa == Without(s.patterns, c)
           mo == Without(s.monitors, c)
           cl == IF Has(s, c, "closing") THEN Without(s.closing, c) ELSE s.closing
           t == FreeClient(s, c)
<1>0. /\ s \in NetType /\ s.client \in [Fds -> ClientType] /\ Sound(s) /\ s.subscribers \in Seq(Fds) /\ s.patterns \in Seq(Fds)
      /\ s.monitors \in Seq(Fds) /\ s.closing \in Seq(Fds)
  BY DEF NetOk, Sound, NetType
<1>1. /\ OutputOk(Closed) /\ LimitOk(Closed) /\ Closed \in ClientType /\ Closed.flags = {}
  BY ClosedOk, SizesAreNat
<1>2. \A flag : flag \notin Closed.flags
  BY <1>1
<1>3. after \in [Fds -> ClientType] /\ after[c] = Closed /\ \A d \in Fds \ {c} : after[d] = s.client[d]
  BY <1>0, <1>1
<1>4. su \in Seq(Fds) /\ ListedIn(su, after, "channel")
  BY <1>0, <1>2, ListedLess DEF Sound, RegOk
<1>5. pa \in Seq(Fds) /\ ListedIn(pa, after, "pattern")
  BY <1>0, <1>2, ListedLess DEF Sound, RegOk
<1>6. mo \in Seq(Fds) /\ ListedIn(mo, after, "monitor")
  BY <1>0, <1>2, ListedLess DEF Sound, RegOk
<1>7. cl \in Seq(Fds) /\ ListedIn(cl, after, "closing")
  <2>1. CASE Has(s, c, "closing")
    <3>1. cl = Without(s.closing, c)
      BY <2>1
    <3>2. Without(s.closing, c) \in Seq(Fds) /\ ListedIn(Without(s.closing, c), after, "closing")
      BY <1>0, <1>2, ListedLess DEF Sound, RegOk
    <3> HIDE DEF cl, after
    <3> QED BY <3>1, <3>2
  <2>2. CASE ~Has(s, c, "closing")
    <3>1. "closing" \in Closed.flags <=> "closing" \in s.client[c].flags
      BY <1>2, <2>2 DEF Has
    <3> QED BY <1>0, <2>2, <3>1, ListedSame DEF Sound, RegOk
  <2> QED BY <2>1, <2>2
<1>8. t = [s EXCEPT !.client = after, !.subscribers = su, !.patterns = pa, !.monitors = mo, !.closing = cl]
  BY DEF FreeClient
<1> HIDE DEF after, su, pa, mo, cl, t
<1>9. t \in NetType /\ t.client = after /\ t.subscribers = su /\ t.patterns = pa /\ t.monitors = mo /\ t.closing = cl
  BY <1>0, <1>3, <1>4, <1>5, <1>6, <1>7, <1>8 DEF NetType
<1>10. \A d \in Fds : OutputOk(t.client[d]) /\ LimitOk(t.client[d])
  BY <1>0, <1>1, <1>3, <1>9 DEF NetOk, Sound
<1>11. NetOk(t)
  BY <1>4, <1>5, <1>6, <1>7, <1>9, <1>10 DEF NetOk, Sound, RegOk
<1> QED BY <1>3, <1>9, <1>11 DEF t

(* Another set of flags, and the lists that go with it.                     *)
Flagged(s, c, fl) == [s.client EXCEPT ![c] = [s.client[c] EXCEPT !.flags = fl]]
FlagsFit(s, c, fl, su, pa, mo, t) ==
  /\ fl \in SUBSET {"quit", "closing", "channel", "pattern", "monitor"}
  /\ "closing" \in fl <=> "closing" \in s.client[c].flags
  /\ su \in Seq(Fds) /\ pa \in Seq(Fds) /\ mo \in Seq(Fds)
  /\ ListedIn(su, Flagged(s, c, fl), "channel") /\ ListedIn(pa, Flagged(s, c, fl), "pattern")
  /\ ListedIn(mo, Flagged(s, c, fl), "monitor")
  /\ t = [s EXCEPT !.client = Flagged(s, c, fl), !.subscribers = su, !.patterns = pa, !.monitors = mo]
(* A client with other flags in lists that agree with them.                 *)
LEMMA FlaggedOk ==
  ASSUME NEW s, NetOk(s), NEW c \in Fds, s.client[c].alive,
         NEW fl, NEW su, NEW pa, NEW mo, NEW t, FlagsFit(s, c, fl, su, pa, mo, t)
  PROVE  NetOk(t) /\ t.client[c].alive /\ t.client[c].flags = fl /\ \A d \in Fds : t.client[d].alive = s.client[d].alive
<1> USE DEF FlagsFit
<1> DEFINE k == s.client[c]
           u == [k EXCEPT !.flags = fl]
           after == Flagged(s, c, fl)
<1>0. /\ s \in NetType /\ s.client \in [Fds -> ClientType] /\ Sound(s) /\ k \in ClientType /\ OutputOk(k) /\ LimitOk(k) /\ k.alive
      /\ s.closing \in Seq(Fds)
  BY DEF NetOk, Sound, NetType
<1>1. u \in ClientType /\ SameOutput(u, k) /\ u.flags = fl /\ u.alive = k.alive /\ u.handler = k.handler
  BY <1>0 DEF ClientType, SameOutput
<1>2. after = [s.client EXCEPT ![c] = u]
  BY DEF Flagged
<1> HIDE DEF u, after
<1>3. OutputOk(u) /\ UsedMemory(u) = UsedMemory(k)
  BY <1>0, <1>1, SameOutputOk
<1>4. LimitOk(u)
  BY <1>0, <1>1, <1>3 DEF LimitOk
<1>5. after \in [Fds -> ClientType] /\ after[c] = u /\ \A d \in Fds \ {c} : after[d] = s.client[d]
  BY <1>0, <1>1, <1>2
<1>6. ListedIn(s.closing, after, "closing")
  <2>1. "closing" \in u.flags <=> "closing" \in s.client[c].flags
    BY <1>1
  <2> QED BY <1>0, <1>2, <2>1, ListedSame DEF Sound, RegOk
<1>7. t \in NetType /\ t.client = after /\ t.subscribers = su /\ t.patterns = pa /\ t.monitors = mo /\ t.closing = s.closing
  <2>1. t = [s EXCEPT !.client = after, !.subscribers = su, !.patterns = pa, !.monitors = mo]
    BY DEF after
  <2> QED BY <1>0, <1>5, <2>1 DEF NetType
<1>8. \A d \in Fds : OutputOk(t.client[d]) /\ LimitOk(t.client[d]) /\ t.client[d].alive = s.client[d].alive
  BY <1>0, <1>1, <1>3, <1>4, <1>5, <1>7 DEF NetOk, Sound
<1>9. NetOk(t)
  BY <1>6, <1>7, <1>8 DEF NetOk, Sound, RegOk, after
<1> QED BY <1>0, <1>1, <1>5, <1>7, <1>8, <1>9

(* The parts of the invariant that are about lists.                         *)
LEMMA ListsOf ==
  ASSUME NEW s, NetOk(s)
  PROVE  /\ s \in NetType /\ s.client \in [Fds -> ClientType]
         /\ s.subscribers \in Seq(Fds) /\ s.patterns \in Seq(Fds) /\ s.monitors \in Seq(Fds)
         /\ ListedIn(s.subscribers, s.client, "channel") /\ ListedIn(s.patterns, s.client, "pattern")
         /\ ListedIn(s.monitors, s.client, "monitor")
         /\ \A c \in Fds : s.client[c].flags \in SUBSET {"quit", "closing", "channel", "pattern", "monitor"}
BY DEF NetOk, Sound, RegOk, NetType, ClientType

(* What a change of flags does to a list: nothing, one more, one less.      *)
LEMMA FlagsOf ==
  ASSUME NEW s, NetOk(s), NEW c \in Fds, NEW fl
  PROVE  LET u == [s.client[c] EXCEPT !.flags = fl]
         IN  u.flags = fl /\ Flagged(s, c, fl) = [s.client EXCEPT ![c] = u]
<1>1. s.client[c] \in ClientType
  BY ListsOf
<1> QED BY <1>1 DEF Flagged, ClientType

LEMMA FlaggedSame ==
  ASSUME NEW s, NetOk(s), NEW c \in Fds, NEW fl, NEW list, NEW flag, ListedIn(list, s.client, flag),
         flag \in fl <=> flag \in s.client[c].flags
  PROVE  ListedIn(list, Flagged(s, c, fl), flag)
<1> DEFINE u == [s.client[c] EXCEPT !.flags = fl]
<1>1. u.flags = fl /\ Flagged(s, c, fl) = [s.client EXCEPT ![c] = u]
  BY FlagsOf
<1>2. s.client \in [Fds -> ClientType]
  BY ListsOf
<1> HIDE DEF u
<1>3. flag \in u.flags <=> flag \in s.client[c].flags
  BY <1>1
<1> QED BY <1>1, <1>2, <1>3, ListedSame

LEMMA FlaggedMore ==
  ASSUME NEW s, NetOk(s), NEW c \in Fds, NEW fl, NEW list \in Seq(Fds), NEW flag, ListedIn(list, s.client, flag),
         flag \in fl, flag \notin s.client[c].flags
  PROVE  Append(list, c) \in Seq(Fds) /\ ListedIn(Append(list, c), Flagged(s, c, fl), flag)
<1> DEFINE u == [s.client[c] EXCEPT !.flags = fl]
<1>1. u.flags = fl /\ Flagged(s, c, fl) = [s.client EXCEPT ![c] = u]
  BY FlagsOf
<1>2. s.client \in [Fds -> ClientType]
  BY ListsOf
<1> HIDE DEF u
<1>3. flag \in u.flags
  BY <1>1
<1> QED BY <1>1, <1>2, <1>3, ListedMore

LEMMA FlaggedLess ==
  ASSUME NEW s, NetOk(s), NEW c \in Fds, NEW fl, NEW list \in Seq(Fds), NEW flag, ListedIn(list, s.client, flag), flag \notin fl
  PROVE  Without(list, c) \in Seq(Fds) /\ ListedIn(Without(list, c), Flagged(s, c, fl), flag)
<1> DEFINE u == [s.client[c] EXCEPT !.flags = fl]
<1>1. u.flags = fl /\ Flagged(s, c, fl) = [s.client EXCEPT ![c] = u]
  BY FlagsOf
<1>2. s.client \in [Fds -> ClientType]
  BY ListsOf
<1> HIDE DEF u
<1>3. flag \notin u.flags
  BY <1>1
<1> QED BY <1>1, <1>2, <1>3, ListedLess

----------------------------------------------------------------------------
(* Commands.                                                                *)

LEMMA LikeKeeps ==
  ASSUME NEW s, NEW t, Like(s, t), NEW c \in Fds
  PROVE  t.client[c].alive = s.client[c].alive /\ \A flag : flag # "closing" => (flag \in t.client[c].flags <=> flag \in s.client[c].flags)
BY DEF Like

(* FlaggedOk for the lists as they are.                                     *)
LEMMA FlagOk ==
  ASSUME NEW s, NetOk(s), NEW c \in Fds, s.client[c].alive,
         NEW fl \in SUBSET {"quit", "closing", "channel", "pattern", "monitor"},
         fl \ {"quit"} = s.client[c].flags \ {"quit"}
  PROVE  LET t == [s EXCEPT !.client = Flagged(s, c, fl)]
         IN  NetOk(t) /\ t.client[c].alive /\ t.client[c].flags = fl /\ \A d \in Fds : t.client[d].alive = s.client[d].alive
<1>1. \A flag : flag # "quit" => (flag \in fl <=> flag \in s.client[c].flags)
  OBVIOUS
<1>2. /\ s \in NetType /\ s.subscribers \in Seq(Fds) /\ s.patterns \in Seq(Fds) /\ s.monitors \in Seq(Fds)
      /\ ListedIn(s.subscribers, s.client, "channel") /\ ListedIn(s.patterns, s.client, "pattern")
      /\ ListedIn(s.monitors, s.client, "monitor")
  BY ListsOf
<1>3. ListedIn(s.subscribers, Flagged(s, c, fl), "channel")
  BY <1>1, <1>2, FlaggedSame
<1>4. ListedIn(s.patterns, Flagged(s, c, fl), "pattern")
  BY <1>1, <1>2, FlaggedSame
<1>5. ListedIn(s.monitors, Flagged(s, c, fl), "monitor")
  BY <1>1, <1>2, FlaggedSame
<1> DEFINE t == [s EXCEPT !.client = Flagged(s, c, fl)]
<1>6. t = [s EXCEPT !.client = Flagged(s, c, fl), !.subscribers = s.subscribers, !.patterns = s.patterns, !.monitors = s.monitors]
  BY <1>2 DEF NetType
<1>7. "closing" \in fl <=> "closing" \in s.client[c].flags
  BY <1>1
<1> HIDE DEF t
<1>8. FlagsFit(s, c, fl, s.subscribers, s.patterns, s.monitors, t)
  BY <1>2, <1>3, <1>4, <1>5, <1>6, <1>7 DEF FlagsFit
<1>9. NetOk(t) /\ t.client[c].alive /\ t.client[c].flags = fl /\ \A d \in Fds : t.client[d].alive = s.client[d].alive
  BY <1>8, FlaggedOk
<1> QED BY <1>9 DEF t

(* REDIS_CLOSE_AFTER_REPLY is in no list.                                   *)
LEMMA QuitOk ==
  ASSUME NEW s, NetOk(s), NEW c \in Fds, s.client[c].alive
  PROVE  NetOk(WithFlag(s, c, "quit"))
<1> DEFINE fl == s.client[c].flags \cup {"quit"}
           t == [s EXCEPT !.client = Flagged(s, c, fl)]
<1>1. s.client[c].flags \in SUBSET {"quit", "closing", "channel", "pattern", "monitor"}
  BY ListsOf
<1>2. fl \in SUBSET {"quit", "closing", "channel", "pattern", "monitor"} /\ fl \ {"quit"} = s.client[c].flags \ {"quit"}
  BY <1>1
<1>3. WithFlag(s, c, "quit") = t
  BY DEF WithFlag, Flagged
<1> HIDE DEF fl
<1>4. NetOk(t)
  BY <1>2, FlagOk
<1> QED BY <1>3, <1>4

(* subscribeCommand(), psubscribeCommand().                                 *)
LEMMA SubscribeOk ==
  ASSUME NEW s, NetOk(s), NEW c \in Fds, s.client[c].alive, NEW flag \in {"channel", "pattern"}
  PROVE  NetOk(Subscribe(s, c, flag))
<1> DEFINE t == IF Has(s, c, flag) THEN s
                ELSE IF flag = "channel" THEN [s EXCEPT !.subscribers = Append(@, c)]
                ELSE [s EXCEPT !.patterns = Append(@, c)]
           w == WithFlag(t, c, flag)
           fl == s.client[c].flags \cup {flag}
           after == Flagged(s, c, fl)
           su == IF flag = "channel" /\ ~Has(s, c, flag) THEN Append(s.subscribers, c) ELSE s.subscribers
           pa == IF flag = "pattern" /\ ~Has(s, c, flag) THEN Append(s.patterns, c) ELSE s.patterns
<1>0. /\ s \in NetType /\ s.subscribers \in Seq(Fds) /\ s.patterns \in Seq(Fds) /\ s.monitors \in Seq(Fds)
      /\ ListedIn(s.subscribers, s.client, "channel") /\ ListedIn(s.patterns, s.client, "pattern")
      /\ ListedIn(s.monitors, s.client, "monitor")
      /\ s.client[c].flags \in SUBSET {"quit", "closing", "channel", "pattern", "monitor"}
  BY ListsOf
<1>1. /\ fl \in SUBSET {"quit", "closing", "channel", "pattern", "monitor"}
      /\ flag \in fl /\ \A g : g # flag => (g \in fl <=> g \in s.client[c].flags)
  BY <1>0
<1>2. w = [s EXCEPT !.client = after, !.subscribers = su, !.patterns = pa, !.monitors = s.monitors]
  <2>1. w = [t EXCEPT !.client = Flagged(t, c, t.client[c].flags \cup {flag})]
    BY DEF WithFlag, Flagged
  <2>2. t.client = s.client
    BY <1>0 DEF NetType
  <2>3. Flagged(t, c, t.client[c].flags \cup {flag}) = after
    BY <2>2 DEF Flagged
  <2>4. w = [t EXCEPT !.client = after]
    BY <2>1, <2>3
  <2>5. t = [s EXCEPT !.subscribers = su, !.patterns = pa, !.monitors = s.monitors]
    BY <1>0 DEF NetType
  <2> HIDE DEF t, w, after, su, pa
  <2> QED BY <1>0, <2>4, <2>5 DEF NetType
<1> HIDE DEF w, fl
<1>3. su \in Seq(Fds) /\ ListedIn(su, after, "channel")
  <2>1. CASE flag = "channel" /\ ~Has(s, c, flag)
    <3>1. "channel" \in fl /\ "channel" \notin s.client[c].flags
      BY <1>1, <2>1 DEF Has
    <3>2. Append(s.subscribers, c) \in Seq(Fds) /\ ListedIn(Append(s.subscribers, c), after, "channel")
      BY <1>0, <3>1, FlaggedMore
    <3> QED BY <2>1, <3>2
  <2>2. CASE ~(flag = "channel" /\ ~Has(s, c, flag))
    <3>1. "channel" \in fl <=> "channel" \in s.client[c].flags
      BY <1>1, <2>2 DEF Has
    <3>2. ListedIn(s.subscribers, after, "channel")
      BY <1>0, <3>1, FlaggedSame
    <3>3. su = s.subscribers
      BY <2>2
    <3> HIDE DEF su, after
    <3> QED BY <1>0, <3>2, <3>3
  <2> QED BY <2>1, <2>2
<1>4. pa \in Seq(Fds) /\ ListedIn(pa, after, "pattern")
  <2>1. CASE flag = "pattern" /\ ~Has(s, c, flag)
    <3>1. "pattern" \in fl /\ "pattern" \notin s.client[c].flags
      BY <1>1, <2>1 DEF Has
    <3>2. Append(s.patterns, c) \in Seq(Fds) /\ ListedIn(Append(s.patterns, c), after, "pattern")
      BY <1>0, <3>1, FlaggedMore
    <3> QED BY <2>1, <3>2
  <2>2. CASE ~(flag = "pattern" /\ ~Has(s, c, flag))
    <3>1. "pattern" \in fl <=> "pattern" \in s.client[c].flags
      BY <1>1, <2>2 DEF Has
    <3>2. ListedIn(s.patterns, after, "pattern")
      BY <1>0, <3>1, FlaggedSame
    <3>3. pa = s.patterns
      BY <2>2
    <3> HIDE DEF pa, after
    <3> QED BY <1>0, <3>2, <3>3
  <2> QED BY <2>1, <2>2
<1>5. ListedIn(s.monitors, after, "monitor")
  <2>1. "monitor" \in fl <=> "monitor" \in s.client[c].flags
    BY <1>1
  <2> QED BY <1>0, <2>1, FlaggedSame
<1>6. "closing" \in fl <=> "closing" \in s.client[c].flags
  BY <1>1
<1> HIDE DEF su, pa
<1>7. FlagsFit(s, c, fl, su, pa, s.monitors, w)
  BY <1>0, <1>1, <1>2, <1>3, <1>4, <1>5, <1>6 DEF FlagsFit
<1>8. NetOk(w) /\ w.client[c].alive
  BY <1>7, FlaggedOk
<1>9. NetOk(AddReply(w, c, 1))
  BY <1>8, OneReply
<1> QED BY <1>9 DEF Subscribe, w

(* unsubscribeCommand(), punsubscribeCommand().                             *)
LEMMA UnsubscribeOk ==
  ASSUME NEW s, NetOk(s), NEW c \in Fds, s.client[c].alive, NEW flag \in {"channel", "pattern"}
  PROVE  NetOk(Unsubscribe(s, c, flag))
<1> DEFINE t == IF flag = "channel" THEN [s EXCEPT !.subscribers = Without(@, c)]
                ELSE [s EXCEPT !.patterns = Without(@, c)]
           w == [t EXCEPT !.client[c].flags = @ \ {flag}]
           fl == s.client[c].flags \ {flag}
           after == Flagged(s, c, fl)
           su == IF flag = "channel" THEN Without(s.subscribers, c) ELSE s.subscribers
           pa == IF flag = "pattern" THEN Without(s.patterns, c) ELSE s.patterns
<1>0. /\ s \in NetType /\ s.subscribers \in Seq(Fds) /\ s.patterns \in Seq(Fds) /\ s.monitors \in Seq(Fds)
      /\ ListedIn(s.subscribers, s.client, "channel") /\ ListedIn(s.patterns, s.client, "pattern")
      /\ ListedIn(s.monitors, s.client, "monitor")
      /\ s.client[c].flags \in SUBSET {"quit", "closing", "channel", "pattern", "monitor"}
  BY ListsOf
<1>1. /\ fl \in SUBSET {"quit", "closing", "channel", "pattern", "monitor"}
      /\ flag \notin fl /\ \A g : g # flag => (g \in fl <=> g \in s.client[c].flags)
  BY <1>0
<1>2. w = [s EXCEPT !.client = after, !.subscribers = su, !.patterns = pa, !.monitors = s.monitors]
  <2>1. w = [t EXCEPT !.client = Flagged(t, c, t.client[c].flags \ {flag})]
    BY DEF Flagged
  <2>2. t.client = s.client
    BY <1>0 DEF NetType
  <2>3. Flagged(t, c, t.client[c].flags \ {flag}) = after
    BY <2>2 DEF Flagged
  <2>4. w = [t EXCEPT !.client = after]
    BY <2>1, <2>3
  <2>5. t = [s EXCEPT !.subscribers = su, !.patterns = pa, !.monitors = s.monitors]
    BY <1>0 DEF NetType
  <2> HIDE DEF t, w, after, su, pa
  <2> QED BY <1>0, <2>4, <2>5 DEF NetType
<1> HIDE DEF w, fl
<1>3. su \in Seq(Fds) /\ ListedIn(su, after, "channel")
  <2>1. CASE flag = "channel"
    <3>1. "channel" \notin fl
      BY <1>1, <2>1
    <3>2. Without(s.subscribers, c) \in Seq(Fds) /\ ListedIn(Without(s.subscribers, c), after, "channel")
      BY <1>0, <3>1, FlaggedLess
    <3> QED BY <2>1, <3>2
  <2>2. CASE flag # "channel"
    <3>1. "channel" \in fl <=> "channel" \in s.client[c].flags
      BY <1>1, <2>2
    <3>2. ListedIn(s.subscribers, after, "channel")
      BY <1>0, <3>1, FlaggedSame
    <3> HIDE DEF after
    <3> QED BY <1>0, <2>2, <3>2
  <2> QED BY <2>1, <2>2
<1>4. pa \in Seq(Fds) /\ ListedIn(pa, after, "pattern")
  <2>1. CASE flag = "pattern"
    <3>1. "pattern" \notin fl
      BY <1>1, <2>1
    <3>2. Without(s.patterns, c) \in Seq(Fds) /\ ListedIn(Without(s.patterns, c), after, "pattern")
      BY <1>0, <3>1, FlaggedLess
    <3> QED BY <2>1, <3>2
  <2>2. CASE flag # "pattern"
    <3>1. "pattern" \in fl <=> "pattern" \in s.client[c].flags
      BY <1>1, <2>2
    <3>2. ListedIn(s.patterns, after, "pattern")
      BY <1>0, <3>1, FlaggedSame
    <3> HIDE DEF after
    <3> QED BY <1>0, <2>2, <3>2
  <2> QED BY <2>1, <2>2
<1>5. ListedIn(s.monitors, after, "monitor")
  <2>1. "monitor" \in fl <=> "monitor" \in s.client[c].flags
    BY <1>1
  <2> QED BY <1>0, <2>1, FlaggedSame
<1>6. "closing" \in fl <=> "closing" \in s.client[c].flags
  BY <1>1
<1> HIDE DEF su, pa
<1>7. FlagsFit(s, c, fl, su, pa, s.monitors, w)
  BY <1>0, <1>1, <1>2, <1>3, <1>4, <1>5, <1>6 DEF FlagsFit
<1>8. NetOk(w) /\ w.client[c].alive
  BY <1>7, FlaggedOk
<1>9. NetOk(AddReply(w, c, 1))
  BY <1>8, OneReply
<1> QED BY <1>9 DEF Unsubscribe, w

(* publishCommand(): the channel, then the patterns, then the publisher.    *)
LEMMA PublishOk ==
  ASSUME NEW s, NetOk(s), NEW c \in Fds, s.client[c].alive, NEW n \in Nat \ {0}
  PROVE  NetOk(Publish(s, c, n))
<1> DEFINE t == ReplyTo(s, s.subscribers, n)
           u == ReplyTo(t, s.patterns, n)
<1>0. /\ s.subscribers \in Seq(Fds) /\ s.patterns \in Seq(Fds) /\ Sound(s)
      /\ ListedIn(s.subscribers, s.client, "channel") /\ ListedIn(s.patterns, s.client, "pattern")
  BY ListsOf DEF NetOk
<1>1. \A i \in 1 .. Len(s.subscribers) : s.client[s.subscribers[i]].alive
  BY <1>0, MembersAlive
<1>2. NetOk(t) /\ Like(s, t)
  BY <1>0, <1>1, ReplyToOk
<1> HIDE DEF t
<1>3. \A i \in 1 .. Len(s.patterns) : s.client[s.patterns[i]].alive /\ s.patterns[i] \in Fds
  BY <1>0, MembersAlive, ElementOfSeq
<1>4. \A i \in 1 .. Len(s.patterns) : t.client[s.patterns[i]].alive
  BY <1>2, <1>3, LikeKeeps
<1>5. NetOk(u) /\ Like(t, u)
  BY <1>0, <1>2, <1>4, ReplyToOk
<1>6. u.client[c].alive
  BY <1>2, <1>5, LikeKeeps
<1>7. t.patterns = s.patterns
  BY <1>2 DEF Like
<1> HIDE DEF u
<1>8. NetOk(AddReply(u, c, 1))
  BY <1>5, <1>6, OneReply
<1> QED BY <1>7, <1>8 DEF Publish, t, u

(* monitorCommand().                                                        *)
LEMMA MonitorCommandOk ==
  ASSUME NEW s, NetOk(s), NEW c \in Fds, s.client[c].alive
  PROVE  NetOk(MonitorCommand(s, c))
<1> DEFINE fl == s.client[c].flags \cup {"monitor"}
           after == Flagged(s, c, fl)
           mo == Append(s.monitors, c)
           w == [WithFlag(s, c, "monitor") EXCEPT !.monitors = Append(@, c)]
<1>0. /\ s \in NetType /\ s.subscribers \in Seq(Fds) /\ s.patterns \in Seq(Fds) /\ s.monitors \in Seq(Fds)
      /\ ListedIn(s.subscribers, s.client, "channel") /\ ListedIn(s.patterns, s.client, "pattern")
      /\ ListedIn(s.monitors, s.client, "monitor")
      /\ s.client[c].flags \in SUBSET {"quit", "closing", "channel", "pattern", "monitor"}
  BY ListsOf
<1>1. /\ fl \in SUBSET {"quit", "closing", "channel", "pattern", "monitor"}
      /\ "monitor" \in fl /\ \A g : g # "monitor" => (g \in fl <=> g \in s.client[c].flags)
  BY <1>0
<1>2. CASE Has(s, c, "monitor")
  BY <1>2 DEF MonitorCommand
<1>3. CASE ~Has(s, c, "monitor")
  <2>1. w = [s EXCEPT !.client = after, !.subscribers = s.subscribers, !.patterns = s.patterns, !.monitors = mo]
    <3>1. WithFlag(s, c, "monitor") = [s EXCEPT !.client = after]
      BY DEF WithFlag, Flagged
    <3> HIDE DEF after
    <3> QED BY <1>0, <3>1 DEF NetType
  <2> HIDE DEF w, fl
  <2>2. mo \in Seq(Fds) /\ ListedIn(mo, after, "monitor")
    <3>1. "monitor" \notin s.client[c].flags
      BY <1>3 DEF Has
    <3> QED BY <1>0, <1>1, <3>1, FlaggedMore
  <2>3. ListedIn(s.subscribers, after, "channel")
    <3>1. "channel" \in fl <=> "channel" \in s.client[c].flags
      BY <1>1
    <3> QED BY <1>0, <3>1, FlaggedSame
  <2>4. ListedIn(s.patterns, after, "pattern")
    <3>1. "pattern" \in fl <=> "pattern" \in s.client[c].flags
      BY <1>1
    <3> QED BY <1>0, <3>1, FlaggedSame
  <2>5. "closing" \in fl <=> "closing" \in s.client[c].flags
    BY <1>1
  <2> HIDE DEF mo
  <2>6. FlagsFit(s, c, fl, s.subscribers, s.patterns, mo, w)
    BY <1>0, <1>1, <2>1, <2>2, <2>3, <2>4, <2>5 DEF FlagsFit
  <2>7. NetOk(w) /\ w.client[c].alive
    BY <2>6, FlaggedOk
  <2>8. NetOk(AddReply(w, c, 1))
    BY <2>7, OneReply
  <2> QED BY <1>3, <2>8 DEF MonitorCommand, w
<1> QED BY <1>2, <1>3

(* A reply, after which the client is closed.                               *)
LEMMA ReplyAndQuitOk ==
  ASSUME NEW s, NetOk(s), NEW c \in Fds, s.client[c].alive
  PROVE  NetOk(WithFlag(AddReply(s, c, 1), c, "quit"))
<1> DEFINE t == AddReply(s, c, 1)
<1>1. NetOk(t) /\ Like(s, t)
  BY OneReply
<1> HIDE DEF t
<1>2. t.client[c].alive
  BY <1>1, LikeKeeps
<1>3. NetOk(WithFlag(t, c, "quit"))
  BY <1>1, <1>2, QuitOk
<1> QED BY <1>3 DEF t

(* clientCommand(): the client itself, or another one.                      *)
LEMMA KillOk ==
  ASSUME NEW s, NetOk(s), NEW c \in Fds, s.client[c].alive, NEW d \in Fds
  PROVE  NetOk(Kill(s, c, d))
<1>1. CASE d = c
  BY <1>1, ReplyAndQuitOk DEF Kill
<1>2. CASE d # c
  <2> DEFINE t == FreeClient(s, d)
  <2>1. NetOk(t) /\ \A e \in Fds \ {d} : t.client[e] = s.client[e]
    BY FreeClientOk
  <2> HIDE DEF t
  <2>2. t.client[c].alive
    BY <1>2, <2>1
  <2>3. NetOk(AddReply(t, c, 1))
    BY <2>1, <2>2, OneReply
  <2> QED BY <1>2, <2>3 DEF Kill, t
<1> QED BY <1>1, <1>2

(* What happens before any command.                                         *)
LEMMA MonitoredSpent ==
  ASSUME NEW s, NetOk(s), NEW c \in Fds, s.client[c].alive, NEW kind
  PROVE  LET t == Monitored(NetSpent(s, kind))
         IN  NetOk(t) /\ t.client[c].alive /\ ("quit" \notin s.client[c].flags => "quit" \notin t.client[c].flags)
<1> DEFINE u == NetSpent(s, kind)
           t == Monitored(u)
<1>1. NetOk(u) /\ u.client = s.client
  BY SpentOk
<1> HIDE DEF u
<1>2. NetOk(t) /\ Like(u, t)
  BY <1>1, MonitoredOk
<1> HIDE DEF t
<1>3. NetOk(t) /\ t.client[c].alive /\ ("quit" \notin s.client[c].flags => "quit" \notin t.client[c].flags)
  BY <1>1, <1>2, LikeKeeps
<1> QED BY <1>3 DEF t, u

(* One command.                                                             *)
LEMMA CommandsOk ==
  ASSUME NEW s, NetOk(s), NEW c \in Fds, s.client[c].alive
  PROVE  \A t \in Commands(s, c) : NetOk(t)
<1> DEFINE spent(kind) == NetSpent(s, kind)
           m(kind) == Monitored(NetSpent(s, kind))
<1>1. \A kind : NetOk(m(kind)) /\ m(kind).client[c].alive
  BY MonitoredSpent
<1>2. \A kind : NetOk(spent(kind)) /\ spent(kind).client[c].alive
  BY SpentOk
<1>3. CASE Has(s, c, "quit")
  BY <1>3 DEF Commands
<1>4. CASE ~Has(s, c, "quit")
  <2>1. "quit" \notin m("deferred").client[c].flags
    BY <1>4, MonitoredSpent DEF Has
  <2> HIDE DEF m, spent
  <2>2. \A flag \in {"channel", "pattern"} : NetOk(Subscribe(m("subscribe"), c, flag)) /\ NetOk(Unsubscribe(m("subscribe"), c, flag))
    BY <1>1, SubscribeOk, UnsubscribeOk
  <2>3. \A t \in SubscriptionCommands(s, c) : NetOk(t)
    BY <2>2 DEF SubscriptionCommands, m
  <2>4. \A n \in 1 .. 2 : NetOk(Publish(m("publish"), c, n))
    BY <1>1, PublishOk
  <2>5. NetOk(MonitorCommand(spent("monitor"), c))
    BY <1>2, MonitorCommandOk
  <2>6. \A d \in Fds : NetOk(Kill(m("kill"), c, d))
    BY <1>1, KillOk
  <2>7. NetOk(KeysReply(m("deferred"), c))
    BY <1>1, <2>1, KeysReplyOk
  <2>8. \A t \in OtherCommands(s, c) : NetOk(t)
    BY <2>4, <2>5, <2>6, <2>7 DEF OtherCommands, m, spent
  <2>9. NetOk(WithFlag(AddReply(spent("quit"), c, 1), c, "quit"))
    BY <1>2, ReplyAndQuitOk
  <2> QED BY <1>4, <2>3, <2>8, <2>9 DEF Commands, spent
<1> QED BY <1>3, <1>4

(* readQueryFromClient().                                                   *)
LEMMA ReadFromOk ==
  ASSUME NEW s, NetOk(s), NEW c \in Fds, s.client[c].alive
  PROVE  \A t \in ReadFrom(s, c) : NetOk(t)
<1>1. NetOk(FreeClient(NetSpent(s, "close"), c))
  BY SpentOk, FreeClientOk
<1> QED BY <1>1, CommandsOk DEF ReadFrom

(* aeDeleteFileEvent() when nothing is pending.                             *)
LEMMA HandlerGone ==
  ASSUME NEW s, NetOk(s), NEW c \in Fds, s.client[c].alive, ~Pending(s.client[c])
  PROVE  NetOk([s EXCEPT !.client[c].handler = FALSE])
<1> DEFINE k == s.client[c]
           u == [k EXCEPT !.handler = FALSE]
           t == [s EXCEPT !.client[c] = u]
<1>0. Sound(s) /\ OutputOk(k) /\ k \in ClientType /\ LimitOk(k) /\ OthersLimited(s, c) /\ ~Pending(k) /\ k.alive
  BY DEF NetOk, Sound, OutputOk, OthersLimited
<1>1. u \in ClientType /\ SameOutput(u, k) /\ u.alive /\ u.flags = k.flags
  BY <1>0 DEF ClientType, SameOutput
<1> HIDE DEF u
<1>2. SentOk(u) /\ StreamOk(u) /\ ~Pending(u) /\ UsedMemory(u) = UsedMemory(k)
  BY <1>0, <1>1 DEF OutputOk, SameOutput, SentOk, StreamOk, Pending, UsedMemory, Units, Bytes
<1>3. OutputOk(u) /\ LimitOk(u)
  BY <1>0, <1>1, <1>2 DEF OutputOk, LimitOk
<1>4. ClientIsSet(s, c, u, t)
  BY <1>0, <1>1, <1>3, ClientSet
<1> HIDE DEF t
<1>5. NetOk(t)
  BY <1>0, <1>3, <1>4 DEF ClientIsSet
<1> QED BY <1>5 DEF t, u

(* The writes of sendReplyToClient(), before it looks at what is left.      *)
LEMMA SentReplyOk ==
  ASSUME NEW s, NetOk(s), NEW c \in Fds, s.client[c].alive, s.client[c].handler, NEW n \in 0 .. Left(s.client[c])
  PROVE  LET t == [s EXCEPT !.client[c] = Steady(WrittenUnits(s.client[c], n), s.clock)]
         IN  NetOk(t) /\ t.client[c].alive
<1> DEFINE k == s.client[c]
           w == WrittenUnits(k, n)
           u == Steady(w, s.clock)
           t == [s EXCEPT !.client[c] = u]
<1>0. Sound(s) /\ OutputOk(k) /\ k \in ClientType /\ LimitOk(k) /\ OthersLimited(s, c) /\ k.alive /\ k.handler /\ s.clock \in Nat
  BY DEF NetOk, Sound, OutputOk, OthersLimited, NetType
<1>1. w \in WrittenSet(k)
  BY <1>0, WrittenUnitsOk
<1> HIDE DEF w
<1>2. OutputOk(w) /\ w.alive /\ w.flags = k.flags /\ LimitOk(w)
  BY <1>0, <1>1 DEF WrittenSet
<1>3. OutputOk(u) /\ u.alive /\ u.flags = w.flags /\ LimitOk(u)
  BY <1>0, <1>2, SteadyOk
<1> HIDE DEF u
<1>4. ClientIsSet(s, c, u, t)
  BY <1>0, <1>2, <1>3, ClientSet
<1> HIDE DEF t
<1>5. NetOk(t) /\ t.client[c].alive
  BY <1>0, <1>3, <1>4 DEF ClientIsSet
<1> QED BY <1>5 DEF t, u, w

(* sendReplyToClient().                                                     *)
LEMMA SendReplyOk ==
  ASSUME NEW s, NetOk(s), NEW c \in Fds, s.client[c].alive, s.client[c].handler
  PROVE  \A t \in SendReply(s, c) : NetOk(t)
<1> DEFINE k == s.client[c]
           after(n) == [s EXCEPT !.client[c] = Steady(WrittenUnits(k, n), s.clock)]
           done(t) == [t EXCEPT !.client[c].handler = FALSE]
           sent == {after(n) : n \in 0 .. Left(k)}
           results == {IF ~AllSent(t.client[c]) THEN t
                       ELSE IF Has(t, c, "quit") THEN FreeClient(done(t), c) ELSE done(t) : t \in sent}
<1>1. \A t \in sent : NetOk(t) /\ t.client[c].alive
  BY SentReplyOk
<1>2. \A t : NetOk(t) /\ t.client[c].alive /\ AllSent(t.client[c]) => NetOk(done(t))
  BY HandlerGone DEF AllSent
<1>3. NetOk(FreeClient(NetSpent(s, "close"), c))
  BY SpentOk, FreeClientOk
<1>4. SendReply(s, c) = results \cup (IF NetCan(s, "close") THEN {FreeClient(NetSpent(s, "close"), c)} ELSE {})
  <2>1. Len(k.buf) + Len(Units(k)) - k.sent = Left(k)
    <3>1. k \in ClientType
      BY DEF NetOk, Sound, OutputOk
    <3>2. Units(k) \in Seq(Nat) /\ k.buf \in Seq(Nat) /\ k.sent \in Nat
      BY <3>1, MemoryOf DEF ClientType
    <3>3. Len(Units(k)) \in Nat /\ Len(k.buf) \in Nat
      BY <3>2, LenProperties
    <3>4. \A x, y, z \in Nat : x + (y - z) = (x + y) - z
      OBVIOUS
    <3> QED BY <3>2, <3>3, <3>4 DEF Left
  <2> QED BY <2>1, Zenon DEF SendReply
<1> HIDE DEF sent, done
<1>5. \A t \in results : NetOk(t)
  BY <1>1, <1>2, FreeClientOk
<1> HIDE DEF results
<1> QED BY <1>3, <1>4, <1>5

----------------------------------------------------------------------------
(* The event loop.                                                          *)

AfterFreeing(f, s) ==
  f = [i \in 0 .. Len(s.closing) |-> IF i = 0 THEN s ELSE FreeClient(f[i - 1], s.closing[i])]
(* freeClientsInAsyncFreeQueue().                                           *)
LEMMA FreeQueueOk ==
  ASSUME NEW s, NetOk(s)
  PROVE  NetOk(FreeClientsInAsyncFreeQueue(s))
<1> DEFINE S == {t \in NetType : NetOk(t)}
           n == Len(s.closing)
           F == [i \in 1 .. n |-> [t \in S |-> FreeClient(t, s.closing[i])]]
<1>0. s.closing \in Seq(Fds) /\ s \in S /\ n \in Nat
  BY LenProperties DEF NetOk, Sound, NetType
<1>1. F \in StepsIn(n, S)
  <2> SUFFICES ASSUME NEW i \in 1 .. n, NEW t \in S
               PROVE  FreeClient(t, s.closing[i]) \in S
    BY DEF StepsIn
  <2>1. s.closing[i] \in Fds
    BY <1>0, ElementOfSeq
  <2>2. NetOk(FreeClient(t, s.closing[i]))
    BY <2>1, FreeClientOk
  <2> QED BY <2>2 DEF NetOk, Sound
<1> DEFINE r == CHOOSE g : AfterFreeing(g, s)
<1> HIDE DEF S
<1>2. PICK f \in [0 .. n -> S] : f[0] = s /\ \A i \in 1 .. n : f[i] = F[i][f[i - 1]]
  <2> HIDE DEF F, n
  <2>1. \E f : Follows(f, n, S, s, F)
    BY <1>0, <1>1, Iterate
  <2> QED BY <2>1 DEF Follows
<1> HIDE DEF n
<1>3. \A i \in 0 .. n : f[i] = IF i = 0 THEN s ELSE FreeClient(f[i - 1], s.closing[i])
  <2> TAKE i \in 0 .. n
  <2>1. CASE i = 0
    BY <1>2, <2>1
  <2>2. CASE i # 0
    <3>1. i \in 1 .. n /\ i - 1 \in 0 .. n
      BY <1>0, <2>2
    <3>2. f[i - 1] \in S
      BY <3>1
    <3> QED BY <1>2, <2>2, <3>1, <3>2
  <2> QED BY <2>1, <2>2
<1>4. AfterFreeing(f, s)
  <2>1. f = [i \in 0 .. n |-> f[i]]
    BY <1>2
  <2> QED BY <1>3, <2>1 DEF AfterFreeing, n
<1>5. AfterFreeing(r, s)
  BY <1>4
<1> HIDE DEF r, F
<1>6. \A i \in 0 .. n : r[i] = IF i = 0 THEN s ELSE FreeClient(r[i - 1], s.closing[i])
  BY <1>5 DEF AfterFreeing, n
<1> DEFINE T == {i \in 0 .. n : r[i] = f[i]}
<1>7. \A i \in 0 .. n : i \in T
  <2>1. 0 \in T
    BY <1>0, <1>3, <1>6
  <2>2. ASSUME NEW i \in 1 .. n, i - 1 \in T PROVE i \in T
    <3>1. i \in 0 .. n /\ i # 0 /\ r[i - 1] = f[i - 1]
      BY <1>0, <2>2
    <3> QED BY <1>3, <1>6, <3>1
  <2>3. T \in SUBSET (0 .. n)
    OBVIOUS
  <2> HIDE DEF T
  <2> QED BY <1>0, <2>1, <2>2, <2>3, Induct
<1>8. FreeClientsInAsyncFreeQueue(s) = r[n]
  BY DEF FreeClientsInAsyncFreeQueue, AfterFreeing, r, n
<1>9. n \in 0 .. n
  BY <1>0
<1>10. FreeClientsInAsyncFreeQueue(s) \in S
  BY <1>2, <1>7, <1>8, <1>9
<1> QED BY <1>10 DEF S

(* What holds between two steps of the loop: the invariant that every step  *)
(* preserves.  The lists of clients, the flags, the buffers and the memory  *)
(* they take are one invariant, because a reply that meets a limit writes   *)
(* all of them, and an event that is still to be processed names only a     *)
(* descriptor, whose client may have gone.                                  *)
LoopType ==
  [phase : {"poll", "events"}, fired : SUBSET [fd : Fds \cup {Listening}, mask : SUBSET {Readable, Writable}]]
FiredOk(l) == l \in LoopType
ClientsInvariant == NetOk(net) /\ FiredOk(loop)

(* No client at the start.                                                  *)
LEMMA ClientsInitOk ==
  ClientsInit => ClientsInvariant
<1> SUFFICES ASSUME ClientsInit PROVE ClientsInvariant
  OBVIOUS
<1>1. PICK left \in NetChances :
        net = [client |-> [f \in Fds |-> Closed], subscribers |-> <<>>, patterns |-> <<>>,
               monitors |-> <<>>, closing |-> <<>>, clock |-> 1, left |-> left, softClosed |-> FALSE]
  BY DEF ClientsInit
<1>2. left \in [NetChance -> Int]
  BY ClientsAssumption
<1>3. Closed \in ClientType /\ OutputOk(Closed) /\ LimitOk(Closed) /\ Closed.flags = {}
  BY ClosedOk, SizesAreNat
<1>4. <<>> \in Seq(Fds) /\ Len(<<>>) = 0
  OBVIOUS
<1>5. net \in NetType
  BY <1>1, <1>2, <1>3, <1>4 DEF NetType
<1>6. \A d \in Fds : net.client[d] = Closed
  BY <1>1
<1>7. \A flag : ListedIn(<<>>, net.client, flag)
  BY <1>3, <1>4, <1>6 DEF ListedIn
<1>8. net.subscribers = <<>> /\ net.patterns = <<>> /\ net.monitors = <<>> /\ net.closing = <<>>
  BY <1>1
<1>9. NetOk(net)
  BY <1>3, <1>5, <1>6, <1>7, <1>8 DEF NetOk, Sound, RegOk
<1>10. FiredOk(loop)
  BY DEF ClientsInit, FiredOk, LoopType
<1> QED BY <1>9, <1>10 DEF ClientsInvariant

(* aeApiPoll() returns events of descriptors.                               *)
LEMMA PollOk ==
  ClientsInvariant /\ Poll => ClientsInvariant'
<1> SUFFICES ASSUME ClientsInvariant, Poll PROVE ClientsInvariant'
  OBVIOUS
<1>1. PICK mask \in [Fds \cup {Listening} -> SUBSET {Readable, Writable}] :
        loop' = [phase |-> "events",
                 fired |-> {Event(fd, mask[fd]) : fd \in {f \in DOMAIN mask : mask[f] # {}}}]
  BY DEF Poll
<1> DEFINE fired == {Event(fd, mask[fd]) : fd \in {f \in DOMAIN mask : mask[f] # {}}}
<1>2. fired \in SUBSET [fd : Fds \cup {Listening}, mask : SUBSET {Readable, Writable}]
  <2> SUFFICES ASSUME NEW fd \in DOMAIN mask
               PROVE  Event(fd, mask[fd]) \in [fd : Fds \cup {Listening}, mask : SUBSET {Readable, Writable}]
    OBVIOUS
  <2>1. fd \in Fds \cup {Listening} /\ mask[fd] \in SUBSET {Readable, Writable}
    OBVIOUS
  <2> QED BY <2>1 DEF Event
<1> HIDE DEF fired
<1>3. net' = net
  BY DEF Poll
<1> QED BY <1>1, <1>2, <1>3 DEF ClientsInvariant, FiredOk, LoopType, fired

(* Both handlers of one event, the client being gone after the first or     *)
(* not.                                                                     *)
LEMMA ProcessEventOk ==
  ASSUME ClientsInvariant, NEW event \in loop.fired, ProcessEvent(event)
  PROVE  ClientsInvariant'
<1> DEFINE c == event.fd
<1>1. c \in Fds /\ NetOk(net)
  BY DEF ProcessEvent, ClientsInvariant, FiredOk, LoopType
<1>2. \A s \in Handled(net, event, Readable, ReadFrom) : NetOk(s)
  BY <1>1, ReadFromOk DEF Handled, Registered
<1>3. ASSUME NEW s, NetOk(s) PROVE \A t \in Handled(s, event, Writable, SendReply) : NetOk(t)
  BY <1>1, <1>3, SendReplyOk DEF Handled, Registered
<1>4. net' \in UNION {Handled(s, event, Writable, SendReply) : s \in Handled(net, event, Readable, ReadFrom)}
  BY DEF ProcessEvent
<1>5. PICK s \in Handled(net, event, Readable, ReadFrom) : net' \in Handled(s, event, Writable, SendReply)
  BY <1>4
<1>6. NetOk(net')
  BY <1>2, <1>3, <1>5
<1>7. FiredOk(loop')
  BY DEF ProcessEvent, ClientsInvariant, FiredOk, LoopType
<1> QED BY <1>6, <1>7 DEF ClientsInvariant, FiredOk

(* acceptTcpHandler(): the lowest free descriptor.                          *)
LEMMA AcceptOk ==
  ASSUME ClientsInvariant, NEW event \in loop.fired, Accept(event)
  PROVE  ClientsInvariant'
<1> DEFINE m == Min(FreeFds)
           s == NetSpent(net, "accept")
<1>1. NetOk(net) /\ NetOk(s) /\ s.client = net.client
  BY SpentOk DEF ClientsInvariant
<1>2. NetOk(net')
  <2>1. CASE FreeFds = {}
    BY <1>1, <2>1 DEF Accept
  <2>2. CASE FreeFds # {}
    <3>1. net' = [s EXCEPT !.client[m] = NewClient]
      BY <2>2 DEF Accept
    <3> HIDE DEF s
    <3>2. m \in FreeFds
      <4>1. PICK x \in FreeFds : x \in Nat
        BY <2>2, ClientsAssumption DEF FreeFds
      <4> DEFINE S == {y \in FreeFds : y <= x}
      <4>2. S \in SUBSET (0 .. x) /\ S # {}
        <5>1. \A y \in FreeFds : y \in Nat
          BY ClientsAssumption DEF FreeFds
        <5>2. x \in S
          BY <4>1
        <5>3. \A y \in S : y \in 0 .. x
          BY <4>1, <5>1
        <5> QED BY <5>2, <5>3
      <4>3. PICK z \in S : \A y \in S : z <= y
        BY <4>1, <4>2, Least
      <4>4. z \in FreeFds /\ \A y \in FreeFds : z <= y
        BY <4>1, <4>3, ClientsAssumption DEF FreeFds
      <4>5. m = CHOOSE y \in FreeFds : \A w \in FreeFds : y <= w
        BY DEF Min
      <4> HIDE DEF m
      <4> QED BY <4>4, <4>5
    <3> HIDE DEF m
    <3>3. m \in Fds /\ ~net.client[m].alive
      BY <3>2 DEF FreeFds
    <3>4. s.client[m] = Closed
      BY <1>1, <3>3 DEF NetOk, Sound, OutputOk
    <3>5. OutputOk(NewClient) /\ LimitOk(NewClient) /\ NewClient.flags = s.client[m].flags
      BY <3>4, ClosedOk, SizesAreNat
    <3>6. Sound(s) /\ OthersLimited(s, m)
      BY <1>1 DEF NetOk, OthersLimited
    <3>7. ClientIsSet(s, m, NewClient, net')
      BY <3>1, <3>3, <3>5, <3>6, ClientSet
    <3> QED BY <3>5, <3>6, <3>7 DEF ClientIsSet
  <2> QED BY <2>1, <2>2
<1>3. FiredOk(loop')
  BY DEF Accept, ClientsInvariant, FiredOk, LoopType
<1> QED BY <1>2, <1>3 DEF ClientsInvariant, FiredOk

(* serverCron().                                                            *)
LEMMA ServerCronOk ==
  ASSUME ClientsInvariant, ServerCronOfClients
  PROVE  ClientsInvariant'
<1>1. PICK clock \in {net.clock, net.clock + 1} :
        net' \in {FreeClientsInAsyncFreeQueue(s) : s \in Idled([net EXCEPT !.clock = clock])}
  BY DEF ServerCronOfClients
<1> DEFINE s == [net EXCEPT !.clock = clock]
<1>2. NetOk(net) /\ Sound(net) /\ net \in NetType /\ net.clock \in Nat
  BY DEF ClientsInvariant, NetOk, Sound, NetType
<1>3. s \in NetType /\ s.client = net.client /\ SameLists(net, s)
  <2>1. clock \in Nat
    BY <1>1, <1>2
  <2> QED BY <1>2, <2>1 DEF NetType, SameLists
<1> HIDE DEF s
<1>4. NetOk(s)
  BY <1>2, <1>3, RestSet
<1>5. \A t \in Idled(s) : NetOk(t)
  BY <1>4, SpentOk, FreeClientOk DEF Idled
<1>6. NetOk(net')
  BY <1>1, <1>5, FreeQueueOk DEF s
<1>7. loop' = [loop EXCEPT !.phase = "poll"] /\ loop.fired = {}
  BY DEF ServerCronOfClients
<1>8. FiredOk(loop')
  BY <1>7 DEF ClientsInvariant, FiredOk, LoopType
<1> QED BY <1>6, <1>8 DEF ClientsInvariant, FiredOk

(* Every step.                                                              *)
LEMMA ClientsStep ==
  ClientsInvariant /\ [ClientsNext]_clientsVars => ClientsInvariant'
<1> SUFFICES ASSUME ClientsInvariant, [ClientsNext]_clientsVars PROVE ClientsInvariant'
  OBVIOUS
<1>1. CASE Poll
  BY <1>1, PollOk
<1>2. ASSUME NEW event \in loop.fired, ProcessEvent(event) PROVE ClientsInvariant'
  BY <1>2, ProcessEventOk
<1>3. ASSUME NEW event \in loop.fired, Accept(event) PROVE ClientsInvariant'
  BY <1>3, AcceptOk
<1>4. CASE ServerCronOfClients
  BY <1>4, ServerCronOk
<1>5. CASE UNCHANGED clientsVars
  BY <1>5 DEF clientsVars, ClientsInvariant, FiredOk
<1> QED BY <1>1, <1>2, <1>3, <1>4, <1>5 DEF ClientsNext

(* The lists, in the words of the property.                                 *)
LEMMA ListMatches ==
  ASSUME NEW list \in Seq(Fds), NEW client, NEW flag, ListedIn(list, client, flag)
  PROVE  IsInjective(list) /\ \A c \in Fds : (c \in ToSet(list)) = (flag \in client[c].flags)
<1>1. DOMAIN list = 1 .. Len(list)
  BY LenProperties
<1>2. \A i, j \in DOMAIN list : list[i] = list[j] => i = j
  BY <1>1 DEF ListedIn
<1>3. ASSUME NEW c \in Fds PROVE (c \in ToSet(list)) = (flag \in client[c].flags)
  <2>1. c \in ToSet(list) <=> \E i \in 1 .. Len(list) : list[i] = c
    BY <1>1 DEF ToSet
  <2> QED BY <2>1 DEF ListedIn
<1> QED BY <1>2, <1>3 DEF IsInjective

(* The invariant implies the properties.                                    *)
LEMMA ClientsInvariantMeans ==
  ClientsInvariant => ClientsGetTheirReplies /\ ClientsAreTracked
<1> SUFFICES ASSUME ClientsInvariant PROVE OutputIsStream /\ ClientsAreTracked
  BY DEF ClientsGetTheirReplies
<1>0. /\ net.subscribers \in Seq(Fds) /\ net.patterns \in Seq(Fds) /\ net.monitors \in Seq(Fds) /\ net.closing \in Seq(Fds)
      /\ ListedIn(net.subscribers, net.client, "channel") /\ ListedIn(net.patterns, net.client, "pattern")
      /\ ListedIn(net.monitors, net.client, "monitor") /\ ListedIn(net.closing, net.client, "closing")
      /\ \A c \in Fds : OutputOk(net.client[c]) /\ LimitOk(net.client[c])
  BY DEF ClientsInvariant, NetOk, Sound, NetType, RegOk
<1>1. OutputIsStream
  <2> SUFFICES ASSUME NEW c \in Fds
               PROVE  LET k == net.client[c]
                          all == k.buf \o Units(k)
                      IN  k.wire \o SubSeq(all, k.sent + 1, Len(all)) = [i \in 1 .. k.told |-> i]
    BY DEF OutputIsStream
  <2> DEFINE k == net.client[c]
             all == k.buf \o Units(k)
  <2>1. IsStream(k.wire, all, k.sent, k.told)
    BY <1>0 DEF OutputOk, StreamOk
  <2> HIDE DEF all, k
  <2>2. k.wire \o SubSeq(all, k.sent + 1, Len(all)) = [i \in 1 .. k.told |-> i]
    BY <2>1, StreamIsOfReplies
  <2> QED BY <2>2 DEF all, k
<1>2. RegistriesAgree
  <2>1. \A r \in {<<"channel", net.subscribers>>, <<"pattern", net.patterns>>,
                  <<"monitor", net.monitors>>, <<"closing", net.closing>>} :
          r[2] \in Seq(Fds) /\ ListedIn(r[2], net.client, r[1])
    BY <1>0
  <2>2. \A c \in Fds : ~net.client[c].alive => net.client[c] = Closed
    BY <1>0 DEF OutputOk
  <2> QED BY <2>1, <2>2, ListMatches DEF RegistriesAgree, Has
<1>3. PendingHasHandler
  BY <1>0 DEF PendingHasHandler, OutputOk
<1>4. OverLimitIsClosing
  BY <1>0 DEF OverLimitIsClosing, LimitOk, Has
<1> QED BY <1>1, <1>2, <1>3, <1>4 DEF ClientsAreTracked

(* For every size of the buffers and every limit, including none: what a    *)
(* client received, followed by what is still in its static buffer and its  *)
(* list, is what it was answered, in the order of the answers, none missing *)
(* and none twice, however the replies were split over the buffer and the   *)
(* nodes, however much each write took, and when the length of a multi bulk *)
(* was added behind what followed it (addReply(), setDeferredMultiBulkLength(), *)
(* sendReplyToClient()).                                                    *)
THEOREM ClientsAreAnswered ==
  ClientsSpec => []ClientsGetTheirReplies
<1>1. ClientsInvariant => ClientsGetTheirReplies
  BY ClientsInvariantMeans
<1> QED BY <1>1, ClientsInitOk, ClientsStep, PTL DEF ClientsSpec

(* For every set of descriptors and every limit: the lists of subscribers,  *)
(* monitors and clients to close hold exactly the clients whose flags say   *)
(* so, each once, and none that is gone, although events of a descriptor    *)
(* may be processed after another client freed it; output that is pending   *)
(* always has a write handler; and a client that reached the hard limit is  *)
(* in the queue of those to close (freeClient(), prepareClientToWrite(),    *)
(* asyncCloseClientOnOutputBufferLimitReached()).                           *)
THEOREM ClientsStayTracked ==
  ClientsSpec => []ClientsAreTracked
<1>1. ClientsInvariant => ClientsAreTracked
  BY ClientsInvariantMeans
<1> QED BY <1>1, ClientsInitOk, ClientsStep, PTL DEF ClientsSpec
=============================================================================
