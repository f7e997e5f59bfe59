---------------------------- MODULE Server_proofs ----------------------------
(* What the append only file holds.  First the file of the changes: that the *)
(* file and its buffer are the dataset, that what was acknowledged under     *)
(* "always" is on the disk, and that the counter of unsaved changes misses   *)
(* nothing, for any number of databases, events and lengths of the dataset.  *)
(* Then the scripts: for any scripts and programs, any number of slaves, any *)
(* size of the cache and any number of events, whoever is sent the hash of a *)
(* script, the file included, knows the script, and a script that SCRIPT     *)
(* KILL ends has written nothing.  Last the keys: for any places, values,    *)
(* times and lengths of what is still to be executed, a slave and the file   *)
(* have the keys of the master that have not expired.                        *)
EXTENDS RedisPersistence, RedisScripting, RedisKeyspace, FiniteSetTheorems, SequenceTheorems,
        WellFoundedInduction, TLAPS

----------------------------------------------------------------------------
(* The state of the server is one record.  Each operator of the module       *)
(* changes some of its fields.                                               *)
Fields ==
  {"life", "data", "acked", "dirty", "before", "saved", "state", "fd", "buf", "size", "db",
   "written", "postponed", "scheduled", "rewrite", "diff", "save", "children", "fsyncs",
   "file", "synced", "dump", "left"}
IsState(s) == s = [f \in Fields |-> s[f]]

Changed(s, t, fs) == IsState(t) /\ \A f \in Fields \ fs : t[f] = s[f]

AofItems == [kind : {"snapshot", "write", "half", "rest", "hole"}, n : Nat, select : BOOLEAN]
BufItems == {item \in AofItems : item.kind \in {"write", "rest"}}
Results  == [n : Nat, db : Databases \cup {NoDatabase}, half : BOOLEAN, bad : BOOLEAN]
Children == [kind : {"save", "rewrite"},
             life : {"running", "ok", "failed", "signal", "killed"}, n : Nat]

Typed(s) ==
  /\ IsState(s)
  /\ s.life \in {"up", "crashed", "exited", "switching"}
  /\ s.state \in {"on", "wait", "off"} /\ s.fd \in {"open", "none", "stale"}
  /\ s.data \in Seq(Databases) /\ s.db \in Databases \cup {NoDatabase}
  /\ s.file \in Seq(AofItems) /\ s.buf \in Seq(BufItems) /\ s.diff \in Seq(BufItems)
  /\ s.acked \in Nat /\ s.dirty \in Nat /\ s.before \in Nat /\ s.size \in Nat
  /\ s.rewrite \in Nat /\ s.save \in Nat /\ s.synced \in Nat /\ s.dump \in Nat
  /\ s.left \in [Chance -> Nat]
  /\ s.children \in [DOMAIN s.children -> Children]
  /\ IsFiniteSet(DOMAIN s.children) /\ DOMAIN s.children \subseteq Nat \ {0}

----------------------------------------------------------------------------
(* A file that can be loaded, and one that gives the dataset.                *)
Sound(file, data) == ~Loaded(file, data).bad /\ Loaded(file, data).n <= Len(data)
Whole(file, data) ==
  /\ ~Loaded(file, data).bad /\ ~Loaded(file, data).half
  /\ Loaded(file, data).n = Len(data)
Selected(db, file, data) == db \in {NoDatabase, Loaded(file, data).db}

(* A scenario in which the AOF is turned off with a buffer that could not be *)
(* written, and on again: the buffer is then written behind whatever file is *)
(* there, until the rewrite that was started replaces it.                    *)
Stale(c) == c["toggle"] > 1 /\ c["fault"] > 0 /\ policy # "always"

(* The AOF is on: the file and the buffer are the dataset, and the selected  *)
(* database is the one they end in.                                          *)
OnInv(s) ==
  s.state = "on" =>
    /\ s.fd = "open" /\ s.size = Len(s.file)
    /\ Whole(s.file \o s.buf, s.data) /\ Selected(s.db, s.file \o s.buf, s.data)

(* It is off, or waits for its first rewrite: the file can be loaded, and    *)
(* nothing is written to it.                                                 *)
OffInv(s, c) ==
  s.state # "on" =>
    /\ s.state = "wait" => s.fd = "open"
    /\ ~Stale(c) =>
         /\ Sound(s.file, s.data)
         /\ s.buf = <<>> \/ (s.fd = "none" /\ s.left["toggle"] = 0)

(* A rewrite: the file of the child with the differences can be loaded, and  *)
(* unless the AOF is off it is the dataset.                                  *)
Rewritten(s) == <<Snapshot(s.children[s.rewrite].n)>> \o s.diff
RewriteInv(s) ==
  IF s.rewrite = 0 THEN s.diff = <<>>
  ELSE /\ s.rewrite \in DOMAIN s.children /\ s.rewrite # s.save
       /\ Sound(Rewritten(s), s.data)
       /\ s.state # "off" =>
            Whole(Rewritten(s), s.data) /\ Selected(s.db, Rewritten(s), s.data)

AckInv(s) ==
  /\ s.acked <= Len(s.data)
  /\ policy = "always" /\ ~NoFsyncOnRewrite /\ s.state = "on" =>
       s.synced = Len(s.file) /\ s.acked <= Loaded(s.file, s.data).n

(* The RDB child: the changes counted since its fork are those its file does *)
(* not have.                                                                 *)
SaveChild(s) == s.children[s.save]
SaveInv(s) ==
  /\ Len(s.data) <= s.dump + s.dirty
  /\ \A pid \in DOMAIN s.children :
       s.children[pid].kind = "save" /\ s.children[pid].life = "running" => pid = s.save
  /\ s.save # 0 /\ s.save \in DOMAIN s.children =>
       /\ SaveChild(s).kind = "save" /\ SaveChild(s).n <= Len(s.data)
       /\ Len(s.data) + s.before <= SaveChild(s).n + s.dirty
       /\ SaveChild(s).life = "ok" => s.dump = SaveChild(s).n

UpInv(s, c) == OnInv(s) /\ OffInv(s, c) /\ RewriteInv(s) /\ AckInv(s) /\ SaveInv(s)
AckDown(s) ==
  policy = "always" /\ ~NoFsyncOnRewrite /\ s.state = "on" /\ s.life # "switching" =>
    s.acked <= Loaded(s.file, s.data).n
DownInv(s, c) == ~Stale(c) /\ Sound(s.file, s.data) /\ AckDown(s)

Good(s, c) ==
  /\ Typed(s) /\ \A k \in Chance : s.left[k] <= c[k]
  /\ IF s.life = "up" THEN UpInv(s, c) ELSE DownInv(s, c)

PersistenceInv == policy \in Policies /\ \E c \in Chances : Good(server, c)

----------------------------------------------------------------------------
(* Loading.  A bounded non-empty set of numbers has a least element, which   *)
(* is how the lemmas below do without induction.                             *)
LEMMA Least ==
  ASSUME NEW n \in Nat, NEW S \in SUBSET (0 .. n), S # {}
  PROVE  \E m \in S : \A k \in S : m <= k
<1> DEFINE Below(i) == {k \in S : k < i}
           T == {Below(i) : i \in S}
           R == StrictSubsetOrdering(0 .. n)
           U == FiniteSubsetsOf(0 .. n)
<1>1. IsWellFoundedOn(R, U)
  BY FS_StrictSubsetOrderingWellFounded
<1>2. IsFiniteSet(0 .. n)
  BY FS_Interval
<1>3. T \subseteq U /\ T # {}
  <2>1. U = SUBSET (0 .. n)
    BY <1>2, FS_FiniteSubsetsOfFinite
  <2>2. \A i \in S : Below(i) \in SUBSET (0 .. n)
    OBVIOUS
  <2> HIDE DEF U, Below
  <2> QED BY <2>1, <2>2
<1>4. PICK B \in T : \A C \in T : <<C, B>> \notin R
  <2> HIDE DEF T, R, U
  <2> QED BY <1>1, <1>3, WFMin
<1>5. PICK m \in S : B = Below(m)
  BY <1>4
<1>6. ASSUME NEW k \in S, k < m
      PROVE  FALSE
  <2>1. k \in Int /\ m \in Int /\ \A j \in S : j \in Int
    OBVIOUS
  <2>2. Below(k) \subseteq Below(m) /\ k \in Below(m) /\ k \notin Below(k)
    <3>1. ASSUME NEW j \in Below(k) PROVE j \in S /\ j < m
      BY <1>6, <2>1
    <3>2. ~(k < k)
      BY <2>1
    <3> QED BY <1>6, <3>1, <3>2
  <2>3. Below(k) \in SUBSET (0 .. n) /\ Below(m) \in SUBSET (0 .. n) /\ Below(k) \in T
    OBVIOUS
  <2>4. <<Below(k), Below(m)>> \in R
    BY <2>2, <2>3 DEF StrictSubsetOrdering
  <2> QED BY <1>4, <1>5, <2>3, <2>4
<1>7. \A k \in S : k \in Int
  OBVIOUS
<1> QED BY <1>6, <1>7

(* What is known after each of the first n items of q.                       *)
IsRun(f, x, q, data, n) ==
  f = [k \in 0 .. n |-> IF k = 0 THEN x ELSE LoadItem(f[k - 1], q[k], data)]

(* There is such a function.                                                *)
LEMMA RunExists ==
  ASSUME NEW data, NEW x, NEW q, NEW n \in Nat
  PROVE  \E f : IsRun(f, x, q, data, n)
<1> DEFINE S == {k \in 0 .. n : ~\E f : IsRun(f, x, q, data, k)}
<1>1. SUFFICES ASSUME S # {} PROVE FALSE
  OBVIOUS
<1>2. PICK m \in S : \A k \in S : m <= k
  BY <1>1, Least
<1>3. m # 0
  <2>1. IsRun([k \in 0 .. 0 |-> x], x, q, data, 0)
    BY DEF IsRun
  <2> QED BY <2>1
<1>4. m \in Nat /\ m - 1 \in 0 .. n /\ m - 1 \notin S
  BY <1>2, <1>3
<1>5. PICK f : IsRun(f, x, q, data, m - 1)
  BY <1>4
<1> DEFINE g == [k \in 0 .. m |-> IF k = m THEN LoadItem(f[m - 1], q[m], data) ELSE f[k]]
<1>6. ASSUME NEW k \in 0 .. m
      PROVE  g[k] = IF k = 0 THEN x ELSE LoadItem(g[k - 1], q[k], data)
  <2>1. CASE k = m
    BY <1>3, <1>4, <2>1
  <2>2. CASE k # m
    <3>1. k \in 0 .. m - 1 /\ (k # 0 => k - 1 \in 0 .. m - 1)
      BY <1>4, <2>2
    <3>2. f[k] = IF k = 0 THEN x ELSE LoadItem(f[k - 1], q[k], data)
      BY <1>5, <3>1 DEF IsRun
    <3> QED BY <1>4, <2>2, <3>1, <3>2
  <2> QED BY <2>1, <2>2
<1>7. IsRun(g, x, q, data, m)
  <2>1. g = [k \in 0 .. m |-> g[k]]
    OBVIOUS
  <2> HIDE DEF g
  <2> QED BY <1>6, <2>1 DEF IsRun
<1> QED BY <1>7

(* What it is, place by place.                                              *)
LEMMA RunFacts ==
  ASSUME NEW data, NEW x, NEW q, NEW n \in Nat, NEW f, IsRun(f, x, q, data, n)
  PROVE  /\ DOMAIN f = 0 .. n /\ f[0] = x
         /\ \A k \in 1 .. n : f[k] = LoadItem(f[k - 1], q[k], data)
<1>1. DOMAIN f = 0 .. n /\ \A k \in 0 .. n : f[k] = IF k = 0 THEN x ELSE LoadItem(f[k - 1], q[k], data)
  BY DEF IsRun
<1> QED BY <1>1

(* There is one way to load the items: any such function is that of Loads.   *)
LEMMA LoadsIs ==
  ASSUME NEW data, NEW x, NEW q, Len(q) \in Nat, NEW f, f[0] = x,
         \A k \in 1 .. Len(q) : f[k] = LoadItem(f[k - 1], q[k], data)
  PROVE  Loads(x, q, data) = f[Len(q)]
<1> DEFINE r == CHOOSE g : IsRun(g, x, q, data, Len(q))
<1>1. IsRun(r, x, q, data, Len(q))
  BY RunExists
<1>2. Loads(x, q, data) = r[Len(q)]
  BY DEF Loads, IsRun
<1> HIDE DEF r
<1>3. r[0] = x /\ \A k \in 1 .. Len(q) : r[k] = LoadItem(r[k - 1], q[k], data)
  <2>1. \A k \in 0 .. Len(q) : r[k] = IF k = 0 THEN x ELSE LoadItem(r[k - 1], q[k], data)
    BY <1>1 DEF IsRun
  <2> QED BY <2>1
<1> DEFINE S == {k \in 0 .. Len(q) : r[k] # f[k]}
<1>4. ASSUME S # {}
      PROVE  FALSE
  <2>1. PICK m \in S : \A k \in S : m <= k
    BY <1>4, Least
  <2>2. m \in 1 .. Len(q) /\ m - 1 \in 0 .. Len(q) /\ m - 1 \notin S
    BY <1>3, <2>1
  <2> QED BY <1>3, <2>1, <2>2
<1> QED BY <1>2, <1>4

(* Loads is the last of a run.                                              *)
LEMMA LoadsRun ==
  ASSUME NEW data, NEW x, NEW q, Len(q) \in Nat
  PROVE  \E f : /\ f[0] = x
                /\ \A k \in 1 .. Len(q) : f[k] = LoadItem(f[k - 1], q[k], data)
                /\ Loads(x, q, data) = f[Len(q)]
<1>1. PICK f : IsRun(f, x, q, data, Len(q))
  BY RunExists
<1>2. f[0] = x /\ \A k \in 1 .. Len(q) : f[k] = LoadItem(f[k - 1], q[k], data)
  BY <1>1, RunFacts
<1> QED BY <1>2, LoadsIs

(* So is Loaded, from nothing.                                              *)
LEMMA LoadedRun ==
  ASSUME NEW data, NEW q, Len(q) \in Nat
  PROVE  \E f : /\ f[0] = Loading
                /\ \A k \in 1 .. Len(q) : f[k] = LoadItem(f[k - 1], q[k], data)
                /\ Loads(Loading, q, data) = f[Len(q)]
<1> DEFINE x == Loading
<1> HIDE DEF x
<1>1. PICK f : /\ f[0] = x
               /\ \A k \in 1 .. Len(q) : f[k] = LoadItem(f[k - 1], q[k], data)
               /\ Loads(x, q, data) = f[Len(q)]
  BY LoadsRun
<1> QED BY <1>1 DEF x

(* No items change nothing.                                                 *)
LEMMA LoadsNothing ==
  ASSUME NEW data, NEW x
  PROVE  Loads(x, <<>>, data) = x
<1>1. Len(<<>>) = 0
  OBVIOUS
<1>2. PICK f : f[0] = x /\ Loads(x, <<>>, data) = f[Len(<<>>)]
  BY <1>1, LoadsRun
<1> QED BY <1>1, <1>2

(* Items loaded after others.                                                *)
LEMMA LoadsConcat ==
  ASSUME NEW data, NEW S, NEW x, NEW p \in Seq(S), NEW q \in Seq(S)
  PROVE  Loads(x, p \o q, data) = Loads(Loads(x, p, data), q, data)
<1> DEFINE y == Loads(x, p, data)
<1>1. Len(p) \in Nat /\ Len(q) \in Nat /\ Len(p \o q) = Len(p) + Len(q)
  BY ConcatProperties
<1>2. PICK f : /\ f[0] = x
               /\ \A k \in 1 .. Len(p) : f[k] = LoadItem(f[k - 1], p[k], data)
               /\ Loads(x, p, data) = f[Len(p)]
  <2> HIDE DEF y
  <2>1. Len(p) \in Nat
    BY <1>1
  <2> QED BY ONLY <2>1, LoadsRun, SMT
<1>3. PICK g : /\ g[0] = y
               /\ \A k \in 1 .. Len(q) : g[k] = LoadItem(g[k - 1], q[k], data)
               /\ Loads(y, q, data) = g[Len(q)]
  <2> HIDE DEF y
  <2> QED BY <1>1, LoadsRun
<1> DEFINE h == [k \in 0 .. Len(p) + Len(q) |->
                   IF k <= Len(p) THEN f[k] ELSE g[k - Len(p)]]
<1>4. h[0] = x
  BY <1>1, <1>2
<1>5. ASSUME NEW k \in 1 .. Len(p \o q)
      PROVE  h[k] = LoadItem(h[k - 1], (p \o q)[k], data)
  <2>0. k \in Nat /\ k - 1 \in Nat /\ 1 <= k /\ k <= Len(p) + Len(q)
    BY <1>1
  <2>1. CASE k <= Len(p)
    <3>1. (p \o q)[k] = p[k]
      BY <2>1, ConcatProperties
    <3>2. h[k] = f[k] /\ h[k - 1] = f[k - 1]
      BY <1>1, <2>0, <2>1
    <3> QED BY <1>1, <1>2, <2>0, <2>1, <3>1, <3>2
  <2>2. CASE k > Len(p)
    <3>0. k - Len(p) \in 1 .. Len(q) /\ k \in 1 .. Len(p) + Len(q)
      BY <1>1, <2>0, <2>2
    <3>1. (p \o q)[k] = q[k - Len(p)]
      BY <1>1, <2>0, <2>2, <3>0, ConcatProperties
    <3>2. h[k] = g[k - Len(p)]
      BY <1>1, <2>0, <2>2
    <3>3. h[k - 1] = g[k - Len(p) - 1]
      <4>1. CASE k - 1 = Len(p)
        BY <1>1, <1>2, <1>3, <2>0, <4>1
      <4>2. CASE k - 1 # Len(p)
        <5>1. ~(k - 1 <= Len(p)) /\ k - 1 \in 0 .. Len(p) + Len(q)
              /\ k - 1 - Len(p) = k - Len(p) - 1
          BY <1>1, <2>0, <2>2, <4>2
        <5> QED BY <5>1
      <4> QED BY <4>1, <4>2
    <3> HIDE DEF h
    <3> QED BY <1>3, <3>0, <3>1, <3>2, <3>3
  <2> QED BY <1>1, <2>0, <2>1, <2>2
<1>6. Loads(x, p \o q, data) = h[Len(p \o q)]
  <2> DEFINE w == p \o q
  <2>1. Len(w) \in Nat
    BY <1>1
  <2>2. \A k \in 1 .. Len(w) : h[k] = LoadItem(h[k - 1], w[k], data)
    BY <1>5
  <2> HIDE DEF h, w
  <2>3. Loads(x, w, data) = h[Len(w)]
    BY <1>4, <2>1, <2>2, LoadsIs
  <2> QED BY <2>3 DEF w
<1>7. h[Len(p) + Len(q)] = g[Len(q)]
  BY <1>1, <1>2, <1>3
<1> QED BY <1>1, <1>3, <1>6, <1>7

----------------------------------------------------------------------------
(* One item: what loadAppendOnlyFile() makes of it.                          *)
LEMMA LoadingFacts ==
  /\ Loading \in Results
  /\ \A n \in Nat : LET r == [n |-> n, db |-> NoDatabase, half |-> FALSE, bad |-> FALSE]
                   IN  /\ [Loading EXCEPT !.n = n] = r
                       /\ [Loading EXCEPT !.n = n, !.bad = FALSE] = r
<1>1. Loading = [n |-> 0, db |-> NoDatabase, half |-> FALSE, bad |-> FALSE]
  BY DEF Loading
<1>2. Loading \in Results
  BY <1>1 DEF Results
<1> HIDE DEF Loading
<1>3. ASSUME NEW n \in Nat
      PROVE  [Loading EXCEPT !.n = n] = [n |-> n, db |-> NoDatabase, half |-> FALSE, bad |-> FALSE]
  <2>1. [Loading EXCEPT !.n = n] =
          [n |-> n, db |-> Loading.db, half |-> Loading.half, bad |-> Loading.bad]
    BY <1>2 DEF Results
  <2>2. Loading.db = NoDatabase /\ Loading.half = FALSE /\ Loading.bad = FALSE
    BY <1>1
  <2> QED BY <2>1, <2>2
<1>4. ASSUME NEW n \in Nat
      PROVE  [Loading EXCEPT !.n = n, !.bad = FALSE] =
               [n |-> n, db |-> NoDatabase, half |-> FALSE, bad |-> FALSE]
  <2> DEFINE r == [Loading EXCEPT !.n = n]
  <2>1. r = [n |-> n, db |-> NoDatabase, half |-> FALSE, bad |-> FALSE]
    BY <1>3
  <2>2. r \in Results
    BY <1>2 DEF Results
  <2>3. r.n = n /\ [Loading EXCEPT !.n = n, !.bad = FALSE] = [r EXCEPT !.bad = FALSE]
    BY <1>2, Zenon DEF Results
  <2> HIDE DEF r
  <2> DEFINE t == [r EXCEPT !.bad = FALSE]
             u == [n |-> n, db |-> NoDatabase, half |-> FALSE, bad |-> FALSE]
  <2>4. t \in Results /\ t.n = r.n /\ t.db = r.db /\ t.half = r.half /\ t.bad = FALSE
    BY <2>2 DEF Results
  <2>5. u \in Results /\ u.n = n /\ u.db = NoDatabase /\ u.half = FALSE /\ u.bad = FALSE
    BY DEF Results
  <2>6. r.n = n /\ r.db = NoDatabase /\ r.half = FALSE
    BY <2>1
  <2>7. t = u
    <3> HIDE DEF t, u
    <3> QED BY <2>4, <2>5, <2>6 DEF Results
  <2> QED BY <2>3, <2>7
<1> QED BY <1>2, <1>3, <1>4

(* The result of an item is typed.                                          *)
LEMMA StepTyped ==
  ASSUME NEW data \in Seq(Databases), NEW r \in Results, NEW item \in AofItems
  PROVE  LoadItem(r, item, data) \in Results
<1> DEFINE db == IF item.select THEN data[item.n] ELSE r.db
           next == item.n = r.n + 1 /\ item.n <= Len(data) /\ db = data[item.n]
           done == [n |-> item.n, db |-> db, half |-> FALSE, bad |-> r.bad]
<1>1. next => item.n \in 1 .. Len(data)
  BY DEF AofItems, Results
<1>2. next => done \in Results
  <2>1. next => data[item.n] \in Databases
    BY <1>1, ElementOfSeq
  <2> QED BY <2>1 DEF AofItems, Results
<1>3. [r EXCEPT !.bad = TRUE] \in Results /\ [r EXCEPT !.half = TRUE] \in Results
  BY DEF Results
<1>4. [Loading EXCEPT !.n = item.n, !.bad = r.bad \/ r # Loading] \in Results
  BY DEF Results, Loading, AofItems
<1> HIDE DEF next, done
<1>5. LoadItem(r, item, data) =
        CASE item.kind = "snapshot" -> [Loading EXCEPT !.n = item.n, !.bad = r.bad \/ r # Loading]
          [] item.kind = "write" -> IF next /\ ~r.half THEN done ELSE [r EXCEPT !.bad = TRUE]
          [] item.kind = "half"  -> IF next /\ ~r.half THEN [r EXCEPT !.half = TRUE]
                                                       ELSE [r EXCEPT !.bad = TRUE]
          [] item.kind = "rest"  -> IF next /\ r.half THEN done ELSE [r EXCEPT !.bad = TRUE]
          [] item.kind = "hole"  -> [r EXCEPT !.bad = TRUE]
  BY DEF LoadItem, next, done
<1>6. item.kind \in {"snapshot", "write", "half", "rest", "hole"}
  BY DEF AofItems
<1> QED BY <1>2, <1>3, <1>4, <1>5, <1>6

(* The next write of the dataset, in its database.                           *)
IsNext(r, item, data) ==
  /\ item.n = r.n + 1 /\ item.n <= Len(data)
  /\ ~item.select => r.db = data[item.n]
Done(r, item, data) == [n |-> item.n, db |-> data[item.n], half |-> FALSE, bad |-> FALSE]

(* What an item does that is not refused.                                    *)
LEMMA StepHow ==
  ASSUME NEW data \in Seq(Databases), NEW r \in Results, NEW item \in AofItems,
         ~LoadItem(r, item, data).bad
  PROVE  /\ ~r.bad
         /\ item.kind \in {"snapshot", "write", "half", "rest"}
         /\ item.kind = "snapshot" =>
              r = Loading /\ LoadItem(r, item, data) = [Loading EXCEPT !.n = item.n]
         /\ item.kind # "snapshot" => IsNext(r, item, data)
         /\ item.kind = "write" => ~r.half
         /\ item.kind = "rest" => r.half
         /\ item.kind \in {"write", "rest"} => LoadItem(r, item, data) = Done(r, item, data)
         /\ item.kind = "half" => ~r.half /\ LoadItem(r, item, data) = [r EXCEPT !.half = TRUE]
<1> DEFINE bad == [r EXCEPT !.bad = TRUE]
<1>1. bad.bad
  BY DEF Results
<1>2. item.kind \in {"snapshot", "write", "half", "rest"} /\ item.select \in BOOLEAN
  <2>1. item.kind \in {"snapshot", "write", "half", "rest", "hole"} /\ item.select \in BOOLEAN
    BY DEF AofItems
  <2>2. item.kind # "hole"
    <3>1. item.kind = "hole" => LoadItem(r, item, data) = bad
      BY DEF LoadItem
    <3> HIDE DEF bad
    <3> QED BY <1>1, <3>1
  <2> QED BY <2>1, <2>2
<1>0. r.bad \in BOOLEAN /\ r.half \in BOOLEAN
  BY DEF Results
<1>3. CASE item.kind = "snapshot"
  <2>1. LoadItem(r, item, data) = [Loading EXCEPT !.n = item.n, !.bad = r.bad \/ r # Loading]
    BY <1>3 DEF LoadItem
  <2>2. [Loading EXCEPT !.n = item.n, !.bad = r.bad \/ r # Loading].bad = (r.bad \/ r # Loading)
    BY DEF Loading
  <2>3. ~r.bad /\ r = Loading
    BY <2>1, <2>2
  <2>4. [Loading EXCEPT !.n = item.n, !.bad = FALSE] = [Loading EXCEPT !.n = item.n]
    <3>1. item.n \in Nat
      BY DEF AofItems
    <3> QED BY <3>1, LoadingFacts
  <2>5. (r.bad \/ r # Loading) = FALSE
    BY <2>3
  <2>6. LoadItem(r, item, data) = [Loading EXCEPT !.n = item.n, !.bad = FALSE]
    BY <2>1, <2>5
  <2> QED BY <1>3, <2>3, <2>4, <2>6
<1>4. CASE item.kind = "write"
  <2>1. LoadItem(r, item, data) = IF IsNext(r, item, data) /\ ~r.half
          THEN [n |-> item.n, db |-> data[item.n], half |-> FALSE, bad |-> r.bad] ELSE bad
    BY <1>2, <1>4 DEF LoadItem, IsNext
  <2> HIDE DEF bad
  <2>2. IsNext(r, item, data) /\ ~r.half
    BY <1>1, <2>1
  <2>3. ~r.bad
    BY <2>1, <2>2
  <2>4. r.bad = FALSE
    BY <1>0, <2>3
  <2> QED BY <1>4, <2>1, <2>2, <2>3, <2>4 DEF Done
<1>5. CASE item.kind = "half"
  <2>1. LoadItem(r, item, data) = IF IsNext(r, item, data) /\ ~r.half
          THEN [r EXCEPT !.half = TRUE] ELSE bad
    BY <1>2, <1>5 DEF LoadItem, IsNext
  <2> HIDE DEF bad
  <2>2. IsNext(r, item, data) /\ ~r.half
    BY <1>1, <2>1
  <2>3. ~r.bad
    BY <2>1, <2>2 DEF Results
  <2> QED BY <1>5, <2>1, <2>2, <2>3
<1>6. CASE item.kind = "rest"
  <2>1. LoadItem(r, item, data) = IF IsNext(r, item, data) /\ r.half
          THEN [n |-> item.n, db |-> data[item.n], half |-> FALSE, bad |-> r.bad] ELSE bad
    BY <1>2, <1>6 DEF LoadItem, IsNext
  <2> HIDE DEF bad
  <2>2. IsNext(r, item, data) /\ r.half
    BY <1>1, <2>1
  <2>3. ~r.bad
    BY <2>1, <2>2
  <2>4. r.bad = FALSE
    BY <1>0, <2>3
  <2> QED BY <1>6, <2>1, <2>2, <2>3, <2>4 DEF Done
<1> QED BY <1>2, <1>3, <1>4, <1>5, <1>6

(* And an item that is not refused.                                          *)
LEMMA StepTakes ==
  ASSUME NEW data \in Seq(Databases), NEW r \in Results, NEW item \in AofItems,
         ~r.bad, IsNext(r, item, data)
  PROVE  /\ item.kind = "write" /\ ~r.half => LoadItem(r, item, data) = Done(r, item, data)
         /\ item.kind = "rest" /\ r.half => LoadItem(r, item, data) = Done(r, item, data)
         /\ item.kind = "half" /\ ~r.half => LoadItem(r, item, data) = [r EXCEPT !.half = TRUE]
<1>1. r.bad = FALSE /\ item.select \in BOOLEAN
  BY DEF AofItems, Results
<1> QED BY <1>1 DEF LoadItem, IsNext, Done

(* Nothing but a snapshot in front skips a write, and none undoes one.       *)
LEMMA StepMono ==
  ASSUME NEW data \in Seq(Databases), NEW r \in Results, NEW item \in AofItems,
         ~LoadItem(r, item, data).bad
  PROVE  /\ ~r.bad /\ r.n <= LoadItem(r, item, data).n
         /\ r.n <= Len(data) /\ item.kind # "snapshot" => LoadItem(r, item, data).n <= Len(data)
<1>1. item.kind \in {"snapshot", "write", "half", "rest"} /\ item.n \in Nat /\ r.n \in Nat
  BY StepHow DEF AofItems, Results
<1>2. CASE item.kind = "snapshot"
  <2>1. r.n = 0 /\ LoadItem(r, item, data).n = item.n
    BY <1>2, StepHow DEF Loading
  <2> QED BY <1>1, <1>2, <2>1, StepHow
<1>3. CASE item.kind \in {"write", "rest"}
  <2>1. item.n = r.n + 1 /\ item.n <= Len(data) /\ LoadItem(r, item, data).n = item.n
    BY <1>3, StepHow DEF IsNext, Done
  <2> QED BY <1>1, <2>1, StepHow
<1>4. CASE item.kind = "half"
  <2>1. LoadItem(r, item, data).n = r.n
    BY <1>4, StepHow DEF Results
  <2> QED BY <1>1, <2>1, StepHow
<1> QED BY <1>1, <1>2, <1>3, <1>4

----------------------------------------------------------------------------
(* Whole files.                                                              *)
(* Induction, over a set of numbers.                                         *)
LEMMA Induct ==
  ASSUME NEW n \in Nat, NEW T \in SUBSET (0 .. n), 0 \in T,
         \A k \in 1 .. n : k - 1 \in T => k \in T
  PROVE  \A k \in 0 .. n : k \in T
<1> DEFINE S == {k \in 0 .. n : k \notin T}
<1>1. SUFFICES ASSUME S # {} PROVE FALSE
  OBVIOUS
<1>2. PICK m \in S : \A k \in S : m <= k
  BY <1>1, Least
<1>3. m \in 1 .. n /\ m - 1 \in 0 .. n /\ m - 1 \notin S
  BY <1>2
<1> QED BY <1>2, <1>3

(* What is known after each item is of its type.                             *)
LEMMA RunTyped ==
  ASSUME NEW data \in Seq(Databases), NEW q \in Seq(AofItems), NEW f, f[0] \in Results,
         \A k \in 1 .. Len(q) : f[k] = LoadItem(f[k - 1], q[k], data)
  PROVE  \A k \in 0 .. Len(q) : f[k] \in Results
<1> DEFINE T == {k \in 0 .. Len(q) : f[k] \in Results}
<1>1. Len(q) \in Nat
  OBVIOUS
<1>2. ASSUME NEW k \in 1 .. Len(q), k - 1 \in T
      PROVE  k \in T
  <2>1. f[k - 1] \in Results /\ q[k] \in AofItems
    BY <1>2, ElementOfSeq
  <2>2. LoadItem(f[k - 1], q[k], data) \in Results
    BY <2>1, StepTyped
  <2> QED BY <1>1, <1>2, <2>2
<1>3. 0 \in T /\ T \in SUBSET (0 .. Len(q))
  BY <1>1
<1>4. \A k \in 0 .. Len(q) : k \in T
  <2> HIDE DEF T
  <2> QED BY <1>1, <1>2, <1>3, Induct
<1> QED BY <1>4

(* What a file gives is typed.                                              *)
LEMMA LoadsTyped ==
  ASSUME NEW data \in Seq(Databases), NEW q \in Seq(AofItems), NEW x \in Results
  PROVE  Loads(x, q, data) \in Results
<1>1. Len(q) \in Nat
  OBVIOUS
<1>2. PICK f : /\ f[0] = x
               /\ \A k \in 1 .. Len(q) : f[k] = LoadItem(f[k - 1], q[k], data)
               /\ Loads(x, q, data) = f[Len(q)]
  BY <1>1, LoadsRun
<1>3. f[Len(q)] \in Results
  BY <1>1, <1>2, RunTyped
<1> QED BY <1>2, <1>3

(* How many writes it gives is a number.                                    *)
LEMMA LoadedNumber ==
  ASSUME NEW data \in Seq(Databases), NEW q \in Seq(AofItems)
  PROVE  Loaded(q, data).n \in Nat
BY LoadingFacts, LoadsTyped DEF Loaded, Results

(* A file is refused at its first bad item, and the number of the writes     *)
(* that are executed never falls.                                            *)
LEMMA RunMono ==
  ASSUME NEW data \in Seq(Databases), NEW q \in Seq(AofItems), NEW f, f[0] \in Results,
         \A k \in 1 .. Len(q) : f[k] = LoadItem(f[k - 1], q[k], data), ~f[Len(q)].bad
  PROVE  \A k \in 0 .. Len(q) : f[k] \in Results /\ ~f[k].bad /\ f[k].n <= f[Len(q)].n
<1> DEFINE n == Len(q)
           T == {j \in 0 .. n : ~f[n - j].bad /\ f[n - j].n <= f[n].n}
<1>1. n \in Nat
  OBVIOUS
<1>2. \A k \in 0 .. n : f[k] \in Results
  BY RunTyped
<1>3. \A k \in 0 .. n : f[k].n \in Nat
  BY <1>2 DEF Results
<1> HIDE DEF n
<1>4. 0 \in T
  BY <1>1, <1>3 DEF n
<1>5. ASSUME NEW j \in 1 .. n, j - 1 \in T
      PROVE  j \in T
  <2> DEFINE k == n - j + 1
  <2>1. k \in 1 .. n /\ k - 1 = n - j /\ n - (j - 1) = k /\ k - 1 \in 0 .. n /\ k \in 0 .. n
    BY <1>1
  <2>2. ~f[k].bad /\ f[k].n <= f[n].n
    BY <1>5, <2>1
  <2>3. q[k] \in AofItems /\ f[k] = LoadItem(f[k - 1], q[k], data) /\ f[k - 1] \in Results
    BY <1>2, <2>1, ElementOfSeq DEF n
  <2>4. ~f[k - 1].bad /\ f[k - 1].n <= f[k].n
    BY <2>2, <2>3, StepMono
  <2> HIDE DEF k
  <2>6. f[k - 1].n \in Nat /\ f[k].n \in Nat /\ f[n].n \in Nat
    BY <1>1, <1>3, <2>1
  <2>5. f[k - 1].n <= f[n].n
    BY <2>2, <2>4, <2>6
  <2> QED BY <2>1, <2>4, <2>5
<1>6. \A k \in 0 .. n : k \in T
  <2>1. T \in SUBSET (0 .. n)
    OBVIOUS
  <2> HIDE DEF T
  <2> QED BY <1>1, <1>4, <1>5, <2>1, Induct
<1>7. ASSUME NEW k \in 0 .. n
      PROVE  ~f[k].bad /\ f[k].n <= f[n].n
  <2>1. n - k \in 0 .. n /\ n - (n - k) = k
    BY <1>1
  <2>2. n - k \in T
    <3> HIDE DEF T
    <3> QED BY <1>6, <2>1
  <2> QED BY <2>1, <2>2
<1> QED BY <1>2, <1>7 DEF n

(* The same of whole files.                                                 *)
LEMMA LoadsMono ==
  ASSUME NEW data \in Seq(Databases), NEW q \in Seq(AofItems), NEW x \in Results,
         ~Loads(x, q, data).bad
  PROVE  ~x.bad /\ x.n <= Loads(x, q, data).n
<1>1. Len(q) \in Nat
  OBVIOUS
<1>2. PICK f : /\ f[0] = x
               /\ \A k \in 1 .. Len(q) : f[k] = LoadItem(f[k - 1], q[k], data)
               /\ Loads(x, q, data) = f[Len(q)]
  BY <1>1, LoadsRun
<1>3. ~f[0].bad /\ f[0].n <= f[Len(q)].n
  BY <1>1, <1>2, RunMono
<1> QED BY <1>2, <1>3

(* What is before the end of a file that can be loaded can be loaded too.    *)
LEMMA LoadedPrefix ==
  ASSUME NEW data \in Seq(Databases), NEW p \in Seq(AofItems), NEW q \in Seq(AofItems),
         ~Loaded(p \o q, data).bad
  PROVE  ~Loaded(p, data).bad /\ Loaded(p, data).n <= Loaded(p \o q, data).n
<1>1. Loaded(p \o q, data) = Loads(Loaded(p, data), q, data)
  BY LoadsConcat DEF Loaded
<1>2. Loaded(p, data) \in Results
  BY LoadingFacts, LoadsTyped DEF Loaded
<1> QED BY <1>1, <1>2, LoadsMono

(* An item does the same with another dataset that has the same write.       *)
SameWrite(item, data, other) ==
  item.kind = "snapshot" \/ (item.n <= Len(other) /\ other[item.n] = data[item.n])

(* The two agree on that write: the results are the same.                   *)
LEMMA StepSame ==
  ASSUME NEW data \in Seq(Databases), NEW other \in Seq(Databases),
         NEW r \in Results, NEW item \in AofItems,
         ~LoadItem(r, item, data).bad, SameWrite(item, data, other)
  PROVE  LoadItem(r, item, other) = LoadItem(r, item, data)
<1>1. item.kind \in {"snapshot", "write", "half", "rest"}
  BY StepHow
<1>2. CASE item.kind = "snapshot"
  BY <1>2 DEF LoadItem
<1>3. CASE item.kind # "snapshot"
  <2>1. ~r.bad /\ IsNext(r, item, data)
    BY <1>3, StepHow
  <2>2. IsNext(r, item, other) /\ other[item.n] = data[item.n]
    BY <1>3, <2>1 DEF IsNext, SameWrite
  <2>3. Done(r, item, other) = Done(r, item, data)
    BY <2>2 DEF Done
  <2>4. CASE item.kind = "half"
    <3>1. ~r.half /\ LoadItem(r, item, data) = [r EXCEPT !.half = TRUE]
      BY <2>4, StepHow
    <3> QED BY <2>1, <2>2, <2>4, <3>1, StepTakes
  <2>5. CASE item.kind = "write"
    <3>1. ~r.half /\ LoadItem(r, item, data) = Done(r, item, data)
      BY <2>5, StepHow
    <3> QED BY <2>1, <2>2, <2>3, <2>5, <3>1, StepTakes
  <2>6. CASE item.kind = "rest"
    <3>1. r.half /\ LoadItem(r, item, data) = Done(r, item, data)
      BY <2>6, StepHow
    <3> QED BY <2>1, <2>2, <2>3, <2>6, <3>1, StepTakes
  <2> QED BY <1>1, <1>3, <2>4, <2>5, <2>6
<1> QED BY <1>2, <1>3

(* The same of whole files.                                                 *)
LEMMA LoadsSame ==
  ASSUME NEW data \in Seq(Databases), NEW other \in Seq(Databases), NEW q \in Seq(AofItems),
         NEW x \in Results, ~Loads(x, q, data).bad,
         \A k \in 1 .. Len(q) : SameWrite(q[k], data, other)
  PROVE  Loads(x, q, other) = Loads(x, q, data)
<1>1. Len(q) \in Nat
  OBVIOUS
<1>2. PICK f : /\ f[0] = x
               /\ \A k \in 1 .. Len(q) : f[k] = LoadItem(f[k - 1], q[k], data)
               /\ Loads(x, q, data) = f[Len(q)]
  BY <1>1, LoadsRun
<1>3. \A k \in 0 .. Len(q) : f[k] \in Results /\ ~f[k].bad
  BY <1>2, RunMono
<1>4. ASSUME NEW k \in 1 .. Len(q)
      PROVE  f[k] = LoadItem(f[k - 1], q[k], other)
  <2>1. k \in 0 .. Len(q) /\ k - 1 \in 0 .. Len(q) /\ q[k] \in AofItems
    BY <1>1, ElementOfSeq
  <2>2. f[k - 1] \in Results /\ ~LoadItem(f[k - 1], q[k], data).bad
    BY <1>2, <1>3, <2>1
  <2> QED BY <1>2, <2>1, <2>2, StepSame
<1>5. Loads(x, q, other) = f[Len(q)]
  BY <1>1, <1>2, <1>4, LoadsIs
<1> QED BY <1>2, <1>5

(* The dataset grows, and the file gives what it gave.                       *)
LEMMA LoadsLonger ==
  ASSUME NEW data \in Seq(Databases), NEW db \in Databases, NEW q \in Seq(AofItems),
         ~Loaded(q, data).bad, Loaded(q, data).n <= Len(data)
  PROVE  Loaded(q, Append(data, db)) = Loaded(q, data)
<1> DEFINE other == Append(data, db)
<1>1. other \in Seq(Databases) /\ Len(other) = Len(data) + 1 /\ Len(data) \in Nat
      /\ \A k \in 1 .. Len(data) : other[k] = data[k]
  OBVIOUS
<1> HIDE DEF other
<1>2. Len(q) \in Nat
  OBVIOUS
<1>3. PICK f : /\ f[0] = Loading
               /\ \A k \in 1 .. Len(q) : f[k] = LoadItem(f[k - 1], q[k], data)
               /\ Loads(Loading, q, data) = f[Len(q)]
  BY <1>2, LoadedRun
<1>4. \A k \in 0 .. Len(q) : f[k] \in Results /\ ~f[k].bad
  BY <1>3, LoadingFacts, RunMono DEF Loaded
<1>5. ASSUME NEW k \in 1 .. Len(q)
      PROVE  SameWrite(q[k], data, other)
  <2>1. k \in 0 .. Len(q) /\ k - 1 \in 0 .. Len(q) /\ q[k] \in AofItems
    BY <1>2, ElementOfSeq
  <2>2. f[k - 1] \in Results /\ ~LoadItem(f[k - 1], q[k], data).bad
    BY <1>3, <1>4, <2>1
  <2>3. q[k].kind # "snapshot" => IsNext(f[k - 1], q[k], data)
    BY <2>1, <2>2, StepHow
  <2>4. q[k].kind # "snapshot" => q[k].n \in 1 .. Len(data)
    <3>1. q[k].n \in Nat /\ f[k - 1].n \in Nat
      BY <2>1, <2>2 DEF AofItems, Results
    <3> QED BY <1>1, <2>3, <3>1 DEF IsNext
  <2> QED BY <1>1, <2>4 DEF SameWrite
<1>6. Loads(Loading, q, other) = Loads(Loading, q, data)
  BY <1>1, <1>5, LoadingFacts, LoadsSame DEF Loaded
<1> QED BY <1>6 DEF Loaded, other

(* One item, and a snapshot.                                                 *)
LEMMA LoadsOne ==
  ASSUME NEW data, NEW x, NEW item
  PROVE  Loads(x, <<item>>, data) = LoadItem(x, item, data)
<1> DEFINE q == <<item>>
<1>1. Len(q) = 1 /\ q[1] = item /\ Len(q) \in Nat
  OBVIOUS
<1> HIDE DEF q
<1>2. PICK f : /\ f[0] = x
               /\ \A k \in 1 .. Len(q) : f[k] = LoadItem(f[k - 1], q[k], data)
               /\ Loads(x, q, data) = f[Len(q)]
  BY <1>1, LoadsRun
<1>3. 1 \in 1 .. Len(q) /\ 1 - 1 = 0
  BY <1>1
<1>4. f[1] = LoadItem(x, item, data)
  BY <1>1, <1>2, <1>3
<1> QED BY <1>1, <1>2, <1>4 DEF q

(* A rewritten file begins with all the writes of its child.                *)
LEMMA LoadsSnapshot ==
  ASSUME NEW data, NEW n \in Nat
  PROVE  /\ Snapshot(n) \in AofItems
         /\ Loaded(<<Snapshot(n)>>, data) = [n |-> n, db |-> NoDatabase, half |-> FALSE, bad |-> FALSE]
<1>1. Snapshot(n).kind = "snapshot" /\ Snapshot(n).n = n /\ Snapshot(n) \in AofItems
  BY DEF Snapshot, Item, AofItems
<1>2. (Loading.bad \/ Loading # Loading) = FALSE
  BY DEF Loading
<1>3. LoadItem(Loading, Snapshot(n), data) = [Loading EXCEPT !.n = n, !.bad = FALSE]
  BY <1>1, <1>2 DEF LoadItem
<1>4. [Loading EXCEPT !.n = n, !.bad = FALSE] =
        [n |-> n, db |-> NoDatabase, half |-> FALSE, bad |-> FALSE]
  BY LoadingFacts
<1> QED BY <1>1, <1>3, <1>4, LoadsOne DEF Loaded

(* The next write of the dataset, behind a file that is whole.               *)
LEMMA WholeFed ==
  ASSUME NEW data \in Seq(Databases), NEW q \in Seq(AofItems), NEW db \in Databases,
         NEW old, Whole(q, data), Selected(old, q, data)
  PROVE  LET item == Item("write", Len(data) + 1, old # db)
         IN  /\ item \in BufItems
             /\ Whole(Append(q, item), Append(data, db))
             /\ Loaded(Append(q, item), Append(data, db)).db = db
<1> DEFINE more == Append(data, db)
           item == Item("write", Len(data) + 1, old # db)
           r == Loaded(q, data)
<1>1. more \in Seq(Databases) /\ Len(more) = Len(data) + 1 /\ Len(data) \in Nat
      /\ more[Len(data) + 1] = db
  OBVIOUS
<1>2. /\ item.kind = "write" /\ item.n = Len(data) + 1
      /\ item \in AofItems /\ item \in BufItems
      /\ ~item.select => old = db
  <2>1. Len(data) + 1 \in Nat /\ (old # db) \in BOOLEAN
    BY <1>1
  <2>2. ASSUME NEW n \in Nat, NEW b \in BOOLEAN
        PROVE  /\ Item("write", n, b).kind = "write" /\ Item("write", n, b).n = n
               /\ Item("write", n, b) \in AofItems /\ Item("write", n, b) \in BufItems
               /\ Item("write", n, b).select = b
    BY DEF Item, AofItems, BufItems
  <2>3. item.select = (old # db)
    BY <2>1, <2>2
  <2>4. ~item.select => old = db
    BY <2>3
  <2> QED BY <2>1, <2>2, <2>4
<1>3. ~r.bad /\ ~r.half /\ r.n = Len(data) /\ r \in Results
  BY LoadingFacts, LoadsTyped DEF Whole, Loaded
<1>4. Loaded(q, more) = r
  BY <1>1, <1>3, LoadsLonger
<1> HIDE DEF more, item, r
<1>5. IsNext(r, item, more)
  <2>1. db # NoDatabase
    BY PersistenceAssumption
  <2>2. old = db => r.db = db
    BY <2>1 DEF Selected, r
  <2> QED BY <1>1, <1>2, <1>3, <2>2 DEF IsNext
<1>6. LoadItem(r, item, more) = Done(r, item, more)
  BY <1>1, <1>2, <1>3, <1>5, StepTakes
<1>7. Loaded(Append(q, item), more) = Done(r, item, more)
  <2>1. Append(q, item) = q \o <<item>> /\ <<item>> \in Seq(AofItems)
    BY <1>2, AppendIsConcat
  <2>2. Loaded(q \o <<item>>, more) = Loads(Loaded(q, more), <<item>>, more)
    BY <2>1, LoadsConcat DEF Loaded
  <2> QED BY <1>4, <1>6, <2>1, <2>2, LoadsOne
<1>8. Whole(Append(q, item), more) /\ Loaded(Append(q, item), more).db = db
  BY <1>1, <1>2, <1>7 DEF Whole, Done
<1> QED BY <1>2, <1>8 DEF more, item

(* A command in two halves is the command.                                   *)
LEMMA HalvesTyped ==
  ASSUME NEW w \in AofItems
  PROVE  /\ FirstHalf(w) \in AofItems /\ OtherHalf(w) \in BufItems /\ OtherHalf(w) \in AofItems
         /\ FirstHalf(w).kind = "half" /\ OtherHalf(w).kind = "rest"
         /\ FirstHalf(w).n = w.n /\ OtherHalf(w).n = w.n
         /\ FirstHalf(w).select = w.select /\ OtherHalf(w).select = w.select
BY DEF AofItems, BufItems, FirstHalf, OtherHalf, Item

(* The two halves, read one after the other.                                *)
LEMMA HalvesLoad ==
  ASSUME NEW data \in Seq(Databases), NEW r \in Results, NEW w \in AofItems,
         w.kind = "write", ~LoadItem(r, w, data).bad
  PROVE  LoadItem(LoadItem(r, FirstHalf(w), data), OtherHalf(w), data) = LoadItem(r, w, data)
<1> DEFINE h == FirstHalf(w)
           o == OtherHalf(w)
           t == LoadItem(r, h, data)
<1>1. /\ h \in AofItems /\ o \in AofItems /\ h.kind = "half" /\ o.kind = "rest"
      /\ h.n = w.n /\ o.n = w.n /\ h.select = w.select /\ o.select = w.select
  BY HalvesTyped
<1>2. ~r.bad /\ ~r.half /\ IsNext(r, w, data) /\ LoadItem(r, w, data) = Done(r, w, data)
  BY StepHow
<1> HIDE DEF h, o
<1>3. IsNext(r, h, data)
  BY <1>1, <1>2 DEF IsNext
<1>4. t = [r EXCEPT !.half = TRUE]
  BY <1>1, <1>2, <1>3, StepTakes
<1>5. t \in Results /\ t.half /\ ~t.bad /\ t.n = r.n /\ t.db = r.db
  BY <1>2, <1>4 DEF Results
<1>6. IsNext(t, o, data)
  BY <1>1, <1>2, <1>5 DEF IsNext
<1>7. LoadItem(t, o, data) = Done(t, o, data)
  BY <1>1, <1>5, <1>6, StepTakes
<1>8. Done(t, o, data) = Done(r, w, data)
  BY <1>1 DEF Done
<1> QED BY <1>2, <1>7, <1>8 DEF h, o, t

(* A short write: what is in the file with what is left is what there was to *)
(* write.                                                                    *)
LEMMA ShortWriteFacts ==
  ASSUME NEW data \in Seq(Databases), NEW buf \in Seq(BufItems), NEW w \in ShortWrites(buf),
         NEW y \in Results
  PROVE  /\ w.part \in Seq(AofItems) /\ w.rest \in Seq(BufItems)
         /\ ~Loads(y, buf, data).bad =>
              Loads(Loads(y, w.part, data), w.rest, data) = Loads(y, buf, data)
<1>1. buf \in Seq(AofItems) /\ Len(buf) \in Nat
  BY SeqMonotonic DEF BufItems
<1>2. CASE \E k \in 1 .. Len(buf) - 1 :
             w = [part |-> SubSeq(buf, 1, k), rest |-> SubSeq(buf, k + 1, Len(buf))]
  <2>1. PICK k \in 1 .. Len(buf) - 1 :
          w = [part |-> SubSeq(buf, 1, k), rest |-> SubSeq(buf, k + 1, Len(buf))]
    BY <1>2
  <2> DEFINE p == SubSeq(buf, 1, k)
             q == SubSeq(buf, k + 1, Len(buf))
  <2>2. p \in Seq(AofItems) /\ q \in Seq(AofItems) /\ q \in Seq(BufItems)
    BY <1>1, <2>1, SubSeqProperties
  <2>3. buf = p \o q
    BY <1>1, <2>1 DEF BufItems
  <2> HIDE DEF p, q
  <2>4. Loads(y, p \o q, data) = Loads(Loads(y, p, data), q, data)
    BY <2>2, LoadsConcat
  <2>5. w.part = p /\ w.rest = q
    BY <2>1 DEF p, q
  <2> QED BY <2>2, <2>3, <2>4, <2>5
<1>3. CASE \E k \in {i \in 0 .. Len(buf) - 1 : buf[i + 1].kind = "write"} :
             w = [part |-> Append(SubSeq(buf, 1, k), FirstHalf(buf[k + 1])),
                  rest |-> <<OtherHalf(buf[k + 1])>> \o SubSeq(buf, k + 2, Len(buf))]
  <2>1. PICK k \in 0 .. Len(buf) - 1 :
          /\ buf[k + 1].kind = "write"
          /\ w = [part |-> Append(SubSeq(buf, 1, k), FirstHalf(buf[k + 1])),
                  rest |-> <<OtherHalf(buf[k + 1])>> \o SubSeq(buf, k + 2, Len(buf))]
    BY <1>3
  <2> DEFINE p == SubSeq(buf, 1, k)
             q == SubSeq(buf, k + 2, Len(buf))
             c == buf[k + 1]
             h == FirstHalf(c)
             o == OtherHalf(c)
  <2>2. p \in Seq(AofItems) /\ q \in Seq(AofItems) /\ q \in Seq(BufItems) /\ c \in AofItems
    <3>1. \A i \in 1 .. Len(buf) : buf[i] \in BufItems /\ buf[i] \in AofItems
      BY <1>1, ElementOfSeq
    <3>2. c \in AofItems
      BY <1>1, <2>1, <3>1
    <3>3. \A i \in 1 .. k : buf[i] \in AofItems
      BY <1>1, <2>1, <3>1
    <3>4. \A i \in k + 2 .. Len(buf) : buf[i] \in AofItems /\ buf[i] \in BufItems
      BY <1>1, <2>1, <3>1
    <3>5. k \in Int /\ k + 2 \in Int /\ Len(buf) \in Int
      BY <1>1, <2>1
    <3>6. p \in Seq(AofItems)
      <4>1. 1 \in Int
        OBVIOUS
      <4> QED BY <3>3, <3>5, <4>1, SubSeqProperties, Zenon
    <3>7. q \in Seq(AofItems) /\ q \in Seq(BufItems)
      BY <3>4, <3>5, SubSeqProperties, Zenon
    <3> QED BY <3>2, <3>6, <3>7
  <2>3. buf = p \o (<<c>> \o q)
    <3>1. /\ Len(p) = k /\ Len(q) = Len(buf) - k - 1
          /\ \A i \in 1 .. k : p[i] = buf[i]
          /\ \A i \in 1 .. Len(buf) - k - 1 : q[i] = buf[k + 1 + i]
      BY <1>1, <2>1
    <3> DEFINE v == <<c>> \o q
    <3> HIDE DEF c, q
    <3>2. /\ Len(v) = Len(buf) - k /\ v[1] = c /\ v \in Seq(AofItems)
          /\ \A i \in 2 .. Len(buf) - k : v[i] = q[i - 1]
      BY <1>1, <2>1, <2>2, <3>1
    <3> HIDE DEF v
    <3>3. \A i \in 1 .. Len(buf) - k : v[i] = buf[k + i]
      <4> HIDE DEF p
      <4> USE DEF c
      <4> SUFFICES ASSUME NEW i \in 1 .. Len(buf) - k PROVE v[i] = buf[k + i]
        OBVIOUS
      <4>1. CASE i = 1
        BY <3>2, <4>1
      <4>2. CASE i # 1
        <5>1. i \in 2 .. Len(buf) - k /\ i - 1 \in 1 .. Len(buf) - k - 1 /\ k + 1 + (i - 1) = k + i
          BY <1>1, <2>1, <4>2
        <5>2. q[i - 1] = buf[k + 1 + (i - 1)]
          <6> HIDE DEF q
          <6> QED BY <3>1, <5>1
        <5> HIDE DEF q
        <5> QED BY <3>2, <5>1, <5>2
      <4> QED BY <4>1, <4>2
    <3> DEFINE u == p \o v
    <3>4. /\ u \in Seq(AofItems) /\ Len(u) = Len(buf)
          /\ \A i \in 1 .. Len(buf) : u[i] = IF i <= k THEN p[i] ELSE v[i - k]
      <4> HIDE DEF p
      <4>1. p \in Seq(AofItems) /\ v \in Seq(AofItems) /\ Len(p) = k /\ Len(v) = Len(buf) - k
        BY <2>2, <3>1, <3>2
      <4>2. /\ u \in Seq(AofItems) /\ Len(u) = Len(p) + Len(v)
            /\ \A i \in 1 .. Len(p) + Len(v) : u[i] = IF i <= Len(p) THEN p[i] ELSE v[i - Len(p)]
        BY <4>1, ConcatProperties, Zenon
      <4>3. k + (Len(buf) - k) = Len(buf) /\ k \in Nat /\ Len(buf) \in Nat /\ k <= Len(buf)
        BY <1>1, <2>1
      <4> HIDE DEF u
      <4> QED BY <4>1, <4>2, <4>3
    <3> HIDE DEF u, p, q
    <3>5. ASSUME NEW i \in 1 .. Len(buf) PROVE u[i] = buf[i]
      <4>1. CASE i <= k
        BY <1>1, <2>1, <3>1, <3>4, <4>1
      <4>2. CASE i > k
        <5>1. ~(i <= k) /\ i - k \in 1 .. Len(buf) - k /\ k + (i - k) = i
          BY <1>1, <2>1, <4>2
        <5> QED BY <3>3, <3>4, <5>1
      <4> QED BY <1>1, <2>1, <4>1, <4>2
    <3>6. u = buf
      BY <1>1, <3>4, <3>5, SeqEqual
    <3> QED BY <3>6 DEF u, v
  <2>4. h \in AofItems /\ o \in BufItems /\ o \in AofItems
    BY <2>2, HalvesTyped
  <2>5. w.part = Append(p, h) /\ w.rest = <<o>> \o q
    BY <2>1
  <2>6. c.kind = "write"
    BY <2>1
  <2> HIDE DEF p, q, c, h, o
  <2> DEFINE z == Loads(y, p, data)
  <2>7. z \in Results
    BY <2>2, LoadsTyped
  <2>8. /\ Append(p, h) = p \o <<h>> /\ Append(p, h) \in Seq(AofItems)
        /\ <<h>> \in Seq(AofItems) /\ <<o>> \in Seq(AofItems) /\ <<o>> \in Seq(BufItems)
        /\ <<c>> \in Seq(AofItems) /\ <<c>> \o q \in Seq(AofItems)
        /\ <<o>> \o q \in Seq(BufItems)
    BY <2>2, <2>4, AppendIsConcat, ConcatProperties
  <2>9. Loads(y, buf, data) = Loads(LoadItem(z, c, data), q, data)
    <3>1. Loads(y, p \o (<<c>> \o q), data) = Loads(z, <<c>> \o q, data)
      <4> DEFINE v == <<c>> \o q
      <4>1. v \in Seq(AofItems)
        BY <2>8
      <4> HIDE DEF v
      <4>2. Loads(y, p \o v, data) = Loads(z, v, data)
        BY <2>2, <4>1, LoadsConcat
      <4> QED BY <4>2 DEF v
    <3>2. Loads(z, <<c>> \o q, data) = Loads(Loads(z, <<c>>, data), q, data)
      <4> DEFINE one == <<c>>
      <4>1. one \in Seq(AofItems)
        BY <2>8
      <4> HIDE DEF one, z
      <4>2. Loads(z, one \o q, data) = Loads(Loads(z, one, data), q, data)
        BY <2>2, <4>1, LoadsConcat
      <4> QED BY <4>2 DEF one
    <3> QED BY <2>3, <3>1, <3>2, LoadsOne
  <2>10. Loads(y, Append(p, h), data) = LoadItem(z, h, data)
    <3>1. Loads(y, p \o <<h>>, data) = Loads(z, <<h>>, data)
      BY <2>2, <2>8, LoadsConcat
    <3> QED BY <2>8, <3>1, LoadsOne
  <2>11. Loads(LoadItem(z, h, data), <<o>> \o q, data) =
           Loads(LoadItem(LoadItem(z, h, data), o, data), q, data)
    <3>1. Loads(LoadItem(z, h, data), <<o>> \o q, data) =
            Loads(Loads(LoadItem(z, h, data), <<o>>, data), q, data)
      BY <2>2, <2>8, LoadsConcat
    <3> QED BY <3>1, LoadsOne
  <2>12. ASSUME ~Loads(y, buf, data).bad
         PROVE  LoadItem(LoadItem(z, h, data), o, data) = LoadItem(z, c, data)
    <3>1. LoadItem(z, c, data) \in Results
      BY <2>2, <2>7, StepTyped
    <3>2. ~LoadItem(z, c, data).bad
      BY <2>2, <2>9, <2>12, <3>1, LoadsMono
    <3> HIDE DEF z
    <3> QED BY <2>2, <2>6, <2>7, <3>2, HalvesLoad DEF h, o
  <2> HIDE DEF z
  <2> QED BY <2>5, <2>8, <2>9, <2>10, <2>11, <2>12
<1> QED BY <1>2, <1>3 DEF ShortWrites

(* A command that is cut can only be the last one of a file that can be      *)
(* loaded: without it the file gives the same.                               *)
LEMMA HalfIsLast ==
  ASSUME NEW data \in Seq(Databases), NEW r \in Results, NEW item \in AofItems,
         ~LoadItem(r, item, data).bad
  PROVE  /\ LoadItem(r, item, data).half => item.kind = "half"
         /\ item.kind = "half" => ~r.half /\ LoadItem(r, item, data).n = r.n
                                  /\ LoadItem(r, item, data).half
         /\ r.half => item.kind = "rest"
<1>1. item.kind \in {"snapshot", "write", "half", "rest"}
  BY StepHow
<1>2. CASE item.kind = "snapshot"
  <2>1. r = Loading /\ LoadItem(r, item, data) = [Loading EXCEPT !.n = item.n] /\ item.n \in Nat
    BY <1>2, StepHow DEF AofItems
  <2>2. LoadItem(r, item, data) = [n |-> item.n, db |-> NoDatabase, half |-> FALSE, bad |-> FALSE]
    BY <2>1, LoadingFacts
  <2>3. ~LoadItem(r, item, data).half
    BY <2>2
  <2>4. ~r.half
    BY <2>1 DEF Loading
  <2> QED BY <1>2, <2>3, <2>4
<1>3. CASE item.kind \in {"write", "rest"}
  <2>1. LoadItem(r, item, data) = Done(r, item, data)
    BY <1>3, StepHow
  <2>2. ~LoadItem(r, item, data).half
    BY <2>1 DEF Done
  <2> QED BY <1>3, <2>2, StepHow
<1>4. CASE item.kind = "half"
  <2>1. ~r.half /\ LoadItem(r, item, data) = [r EXCEPT !.half = TRUE]
    BY <1>4, StepHow
  <2>2. LoadItem(r, item, data).n = r.n /\ LoadItem(r, item, data).half
    BY <2>1 DEF Results
  <2> QED BY <1>4, <2>1, <2>2
<1> QED BY <1>1, <1>2, <1>3, <1>4

(* What loadAppendOnlyFile() leaves of a file with a cut command.           *)
LEMMA UntornFacts ==
  ASSUME NEW data \in Seq(Databases), NEW q \in Seq(AofItems), ~Loaded(q, data).bad
  PROVE  /\ Untorn(q, data) \in Seq(AofItems)
         /\ ~Loaded(Untorn(q, data), data).bad /\ ~Loaded(Untorn(q, data), data).half
         /\ Loaded(Untorn(q, data), data).n = Loaded(q, data).n
<1>3. Len(q) \in Nat
  OBVIOUS
<1>4. PICK f : /\ f[0] = Loading
               /\ \A k \in 1 .. Len(q) : f[k] = LoadItem(f[k - 1], q[k], data)
               /\ Loads(Loading, q, data) = f[Len(q)]
  BY <1>3, LoadedRun
<1>5. CASE ~Loaded(q, data).half
  BY <1>5 DEF Untorn
<1>6. CASE Loaded(q, data).half
  <2> DEFINE m == Len(q) - 1
             p == SubSeq(q, 1, m)
  <2>3. \A k \in 0 .. Len(q) : f[k] \in Results /\ ~f[k].bad
    <3>1. ~f[Len(q)].bad /\ f[0] \in Results
      BY <1>4, LoadingFacts DEF Loaded
    <3> QED BY <1>4, <3>1, RunMono
  <2>4. Len(q) # 0
    BY <1>6, <1>4 DEF Loaded, Loading
  <2>5. m \in Nat /\ m \in 0 .. Len(q) /\ Len(q) \in 1 .. Len(q) /\ Len(q) \in 0 .. Len(q)
    BY <1>3, <2>4
  <2>6. q[Len(q)] \in AofItems /\ f[m] \in Results /\ f[Len(q)] = LoadItem(f[m], q[Len(q)], data)
    BY <1>4, <2>3, <2>5, ElementOfSeq
  <2>7. ~f[Len(q)].bad /\ f[Len(q)].half
    BY <1>6, <1>4, <2>3, <2>5 DEF Loaded
  <2>8. q[Len(q)].kind = "half"
    BY <2>6, <2>7, HalfIsLast
  <2>9. ~f[m].half /\ f[Len(q)].n = f[m].n /\ ~f[m].bad
    BY <2>3, <2>5, <2>6, <2>7, <2>8, HalfIsLast
  <2>10. p \in Seq(AofItems) /\ Len(p) = m /\ \A k \in 1 .. m : p[k] = q[k]
    <3>1. 1 \in 1 .. Len(q) + 1 /\ m \in 1 - 1 .. Len(q) /\ m - 1 + 1 = m
      BY <1>3, <2>4
    <3> QED BY <1>3, <3>1, SubSeqProperties
  <2>11. Untorn(q, data) = p
    BY <1>6 DEF Untorn
  <2> HIDE DEF p
  <2>12. \A k \in 1 .. Len(p) : f[k] = LoadItem(f[k - 1], p[k], data)
    <3> SUFFICES ASSUME NEW k \in 1 .. Len(p) PROVE f[k] = LoadItem(f[k - 1], p[k], data)
      OBVIOUS
    <3>1. k \in 1 .. m /\ k \in 1 .. Len(q)
      BY <1>3, <2>10
    <3> HIDE DEF m
    <3> QED BY <1>4, <2>10, <3>1
  <2>13. Loads(Loading, p, data) = f[Len(p)]
    BY <1>4, <2>10, <2>12, LoadsIs
  <2> HIDE DEF m
  <2> QED BY <1>4, <2>9, <2>10, <2>11, <2>13 DEF Loaded
<1> QED BY <1>5, <1>6

(* The server restarts with the writes that were executed: they are the      *)
(* dataset now, and the file gives them.                                     *)
LEMMA LoadsTrimmed ==
  ASSUME NEW data \in Seq(Databases), NEW q \in Seq(AofItems),
         ~Loaded(q, data).bad, ~Loaded(q, data).half, Loaded(q, data).n <= Len(data)
  PROVE  LET other == SubSeq(data, 1, Loaded(q, data).n)
         IN  other \in Seq(Databases) /\ Whole(q, other)
<1> DEFINE n == Loaded(q, data).n
           other == SubSeq(data, 1, n)
<1>1. Len(q) \in Nat /\ Len(data) \in Nat
  OBVIOUS
<1>2. PICK f : /\ f[0] = Loading
               /\ \A k \in 1 .. Len(q) : f[k] = LoadItem(f[k - 1], q[k], data)
               /\ Loads(Loading, q, data) = f[Len(q)]
  BY <1>1, LoadedRun
<1>3. \A k \in 0 .. Len(q) : f[k] \in Results /\ ~f[k].bad /\ f[k].n <= n
  <2>1. ~f[Len(q)].bad /\ f[0] \in Results /\ f[Len(q)].n = n
    BY <1>2, LoadingFacts DEF Loaded
  <2> HIDE DEF n
  <2> QED BY <1>2, <2>1, RunMono
<1>4. n \in Nat /\ n <= Len(data)
  <2>1. Loaded(q, data) \in Results
    BY LoadingFacts, LoadsTyped DEF Loaded
  <2> QED BY <2>1 DEF Results
<1> HIDE DEF n
<1>5. other \in Seq(Databases) /\ Len(other) = n /\ \A k \in 1 .. n : other[k] = data[k]
  BY <1>1, <1>4
<1> HIDE DEF other
<1>6. ASSUME NEW k \in 1 .. Len(q)
      PROVE  SameWrite(q[k], data, other)
  <2>1. k \in 0 .. Len(q) /\ k - 1 \in 0 .. Len(q) /\ q[k] \in AofItems
    BY <1>1, ElementOfSeq
  <2>2. f[k - 1] \in Results /\ f[k] \in Results /\ f[k] = LoadItem(f[k - 1], q[k], data) /\ ~f[k].bad
    BY <1>2, <1>3, <2>1
  <2>3. f[k - 1].n \in Nat /\ f[k].n \in Nat /\ q[k].n \in Nat
    BY <2>1, <2>2 DEF AofItems, Results
  <2>4. q[k].kind \in {"snapshot", "write", "half", "rest"}
    BY <2>1, <2>2, StepHow
  <2>5. q[k].kind # "snapshot" => q[k].n = f[k - 1].n + 1
    BY <2>1, <2>2, StepHow DEF IsNext
  <2>6. q[k].kind \in {"write", "rest"} => q[k].n <= n
    <3>1. q[k].kind \in {"write", "rest"} => f[k].n = q[k].n
      BY <2>1, <2>2, StepHow DEF Done
    <3> QED BY <1>3, <2>1, <3>1
  <2>7. CASE q[k].kind = "half"
    <3>1. f[k].half /\ f[k].n = f[k - 1].n
      BY <2>1, <2>2, <2>7, HalfIsLast
    <3>2. k # Len(q)
      BY <1>2, <3>1 DEF Loaded
    <3>3. k + 1 \in 1 .. Len(q) /\ k + 1 \in 0 .. Len(q) /\ (k + 1) - 1 = k
      BY <1>1, <3>2
    <3>4. f[k + 1] = LoadItem(f[k], q[k + 1], data) /\ ~f[k + 1].bad /\ f[k + 1].n <= n
          /\ q[k + 1] \in AofItems
      BY <1>2, <1>3, <3>3, ElementOfSeq
    <3>5. q[k + 1].kind = "rest"
      BY <2>2, <3>1, <3>4, HalfIsLast
    <3>6. f[k + 1].n = f[k].n + 1
      BY <2>2, <3>4, <3>5, StepHow DEF IsNext, Done
    <3>7. q[k].n <= n
      BY <2>5, <2>7, <3>1, <3>4, <3>6
    <3> QED BY <1>5, <2>3, <2>5, <2>7, <3>7 DEF SameWrite
  <2>8. CASE q[k].kind \in {"write", "rest"}
    <3>1. q[k].n \in 1 .. n
      BY <1>4, <2>3, <2>5, <2>6, <2>8
    <3> QED BY <1>5, <3>1 DEF SameWrite
  <2> QED BY <2>4, <2>7, <2>8 DEF SameWrite
<1>7. Loaded(q, other) = Loaded(q, data)
  BY <1>5, <1>6, LoadingFacts, LoadsSame DEF Loaded
<1>8. Whole(q, other)
  BY <1>5, <1>7 DEF Whole, n
<1> QED BY <1>5, <1>8 DEF other, n

----------------------------------------------------------------------------
(* Facts about states.  Spending a chance.                                   *)
LEMMA SpentFacts ==
  ASSUME NEW s, Typed(s), NEW kind \in Chance, Can(s, kind)
  PROVE  LET t == Spent(s, kind)
         IN  /\ Typed(t) /\ Changed(s, t, {"left"})
             /\ t.left = [s.left EXCEPT ![kind] = s.left[kind] - 1]
             /\ \A k \in Chance : t.left[k] \in Nat /\ t.left[k] <= s.left[k]
             /\ t.left[kind] < s.left[kind]
<1> DEFINE t == Spent(s, kind)
           left == [s.left EXCEPT ![kind] = s.left[kind] - 1]
<1>1. Changed(s, t, {"left"}) /\ t.left = left
  BY DEF Typed, IsState, Changed, Fields, Spent
<1>2. s.left \in [Chance -> Nat] /\ s.left[kind] \in Nat \ {0}
  BY DEF Typed, Can
<1>3. \A k \in Chance : left[k] = IF k = kind THEN s.left[kind] - 1 ELSE s.left[k]
  BY <1>2
<1>4. \A k \in Chance : left[k] \in Nat /\ left[k] <= s.left[k]
  BY <1>2, <1>3
<1>5. left \in [Chance -> Nat] /\ left[kind] < s.left[kind]
  BY <1>2, <1>3, <1>4
<1> HIDE DEF t, left
<1>6. Typed(t)
  BY <1>1, <1>5 DEF Typed, Changed, Fields
<1> QED BY <1>1, <1>4, <1>5, <1>6 DEF t, left

(* A chance that is spent disturbs nothing.                                 *)
LEMMA SpentGood ==
  ASSUME NEW s, NEW c \in Chances, Good(s, c), NEW kind \in Chance, Can(s, kind)
  PROVE  Good(Spent(s, kind), c) /\ Changed(s, Spent(s, kind), {"left"}) /\ c[kind] > 0
<1> DEFINE t == Spent(s, kind)
<1>1. c \in [Chance -> Nat]
  BY PersistenceAssumption
<1>2. s.left \in [Chance -> Nat] /\ \A k \in Chance : s.left[k] <= c[k]
  BY DEF Good, Typed
<1>3. /\ Typed(t) /\ Changed(s, t, {"left"})
      /\ \A k \in Chance : t.left[k] \in Nat /\ t.left[k] <= s.left[k]
  BY SpentFacts DEF Good
<1>4. c[kind] > 0
  BY <1>1, <1>2 DEF Can
<1> HIDE DEF t
<1>5. \A k \in Chance : t.left[k] <= c[k]
  BY <1>1, <1>2, <1>3
<1>6. s.left["toggle"] = 0 => t.left["toggle"] = 0
  BY <1>2, <1>3 DEF Chance
<1>7. s.life = "up" => UpInv(t, c)
  BY <1>3, <1>6
     DEF Good, UpInv, OnInv, OffInv, RewriteInv, AckInv, SaveInv, SaveChild, Rewritten, Changed, Fields
<1>8. s.life # "up" => DownInv(t, c)
  BY <1>3 DEF Good, DownInv, AckDown, Changed, Fields
<1> QED BY <1>3, <1>4, <1>5, <1>7, <1>8 DEF Good, Changed, Fields, t

(* A call that changes none of the fields a part of the invariant is about   *)
(* keeps it.                                                                 *)
LEMMA ChangedKeeps ==
  ASSUME NEW s, NEW t, NEW c, NEW fs, Changed(s, t, fs)
  PROVE  /\ OnInv(s) /\ fs \cap {"state", "fd", "size", "file", "buf", "data", "db"} = {} => OnInv(t)
         /\ OffInv(s, c) /\ fs \cap {"state", "fd", "file", "buf", "data", "left"} = {} => OffInv(t, c)
         /\ RewriteInv(s) /\ fs \cap {"rewrite", "save", "children", "diff", "data", "state", "db"} = {} =>
              RewriteInv(t)
         /\ AckInv(s) /\ fs \cap {"acked", "data", "state", "synced", "file"} = {} => AckInv(t)
         /\ SaveInv(s) /\ fs \cap {"data", "dump", "dirty", "before", "children", "save"} = {} => SaveInv(t)
<1>1. OnInv(s) /\ fs \cap {"state", "fd", "size", "file", "buf", "data", "db"} = {} => OnInv(t)
  BY DEF OnInv, Changed, Fields
<1>2. OffInv(s, c) /\ fs \cap {"state", "fd", "file", "buf", "data", "left"} = {} => OffInv(t, c)
  BY DEF OffInv, Changed, Fields
<1>3. RewriteInv(s) /\ fs \cap {"rewrite", "save", "children", "diff", "data", "state", "db"} = {} =>
        RewriteInv(t)
  BY DEF RewriteInv, Rewritten, Changed, Fields
<1>4. AckInv(s) /\ fs \cap {"acked", "data", "state", "synced", "file"} = {} => AckInv(t)
  BY DEF AckInv, Changed, Fields
<1>5. SaveInv(s) /\ fs \cap {"data", "dump", "dirty", "before", "children", "save"} = {} => SaveInv(t)
  BY DEF SaveInv, SaveChild, Changed, Fields
<1> QED BY <1>1, <1>2, <1>3, <1>4, <1>5

(* One more at the end of what is behind.                                    *)
LEMMA AppendBehind ==
  ASSUME NEW S, NEW p \in Seq(S), NEW q \in Seq(S), NEW e \in S
  PROVE  p \o Append(q, e) = Append(p \o q, e)
<1> DEFINE one == <<e>>
<1>1. one \in Seq(S) /\ Append(q, e) = q \o one
  BY AppendIsConcat
<1>2. p \o q \in Seq(S)
  BY ConcatProperties
<1> DEFINE w == p \o q
<1>3. Append(w, e) = w \o one
  BY <1>2, AppendIsConcat
<1> HIDE DEF one
<1>4. p \o (q \o one) = (p \o q) \o one
  BY <1>1, ConcatAssociative
<1> QED BY <1>1, <1>3, <1>4

(* What is buffered is commands, and the sequences of the state are items.   *)
LEMMA ItemsOfState ==
  ASSUME NEW s, Typed(s)
  PROVE  /\ s.file \in Seq(AofItems) /\ s.buf \in Seq(BufItems) /\ s.diff \in Seq(BufItems)
         /\ s.buf \in Seq(AofItems) /\ s.diff \in Seq(AofItems)
         /\ s.file \o s.buf \in Seq(AofItems)
         /\ s.data \in Seq(Databases) /\ Len(s.data) \in Nat /\ Len(s.file) \in Nat
<1>1. \A q \in Seq(BufItems) : q \in Seq(AofItems)
  BY SeqMonotonic DEF BufItems
<1>2. s.file \in Seq(AofItems) /\ s.buf \in Seq(BufItems) /\ s.diff \in Seq(BufItems)
      /\ s.data \in Seq(Databases)
  BY DEF Typed
<1>3. s.buf \in Seq(AofItems) /\ s.diff \in Seq(AofItems)
  BY <1>1, <1>2
<1>4. s.file \o s.buf \in Seq(AofItems)
  BY <1>2, <1>3, ConcatProperties
<1> QED BY <1>2, <1>3, <1>4

(* The file of the rewrite is items.                                        *)
LEMMA RewrittenTyped ==
  ASSUME NEW n \in Nat, NEW diff \in Seq(BufItems)
  PROVE  <<Snapshot(n)>> \o diff \in Seq(AofItems)
<1>1. diff \in Seq(AofItems)
  BY SeqMonotonic DEF BufItems
<1>2. Snapshot(n) \in AofItems
  BY LoadsSnapshot
<1>3. <<Snapshot(n)>> \in Seq(AofItems)
  BY <1>2
<1> DEFINE q == <<Snapshot(n)>>
<1> HIDE DEF q
<1>4. q \o diff \in Seq(AofItems)
  BY <1>1, <1>3, ConcatProperties DEF q
<1> QED BY <1>4 DEF q

(* A file that can be loaded can be loaded with a longer dataset.           *)
LEMMA SoundLonger ==
  ASSUME NEW data \in Seq(Databases), NEW db \in Databases, NEW q \in Seq(AofItems), Sound(q, data)
  PROVE  Sound(q, Append(data, db)) /\ Loaded(q, Append(data, db)) = Loaded(q, data)
<1>1. Loaded(q, Append(data, db)) = Loaded(q, data)
  BY LoadsLonger DEF Sound
<1>2. Len(Append(data, db)) = Len(data) + 1 /\ Len(data) \in Nat
  OBVIOUS
<1>3. Loaded(q, data).n \in Nat
  BY LoadingFacts, LoadsTyped DEF Loaded, Results
<1> DEFINE more == Append(data, db)
<1> HIDE DEF more
<1> QED BY <1>1, <1>2, <1>3 DEF Sound, more

(* A whole file can be loaded.                                              *)
LEMMA WholeSound ==
  ASSUME NEW data \in Seq(Databases), NEW q \in Seq(AofItems), NEW p \in Seq(AofItems),
         Whole(q \o p, data)
  PROVE  Sound(q \o p, data) /\ Sound(q, data)
<1>1. q \o p \in Seq(AofItems) /\ Len(data) \in Nat
  BY ConcatProperties
<1> DEFINE w == q \o p
<1>2. ~Loaded(w, data).bad /\ Loaded(w, data).n = Len(data)
  BY DEF Whole
<1>3. ~Loaded(q, data).bad /\ Loaded(q, data).n <= Loaded(w, data).n
  BY <1>2, LoadedPrefix
<1> HIDE DEF w
<1>4. Sound(w, data) /\ Sound(q, data)
  BY <1>1, <1>2, <1>3 DEF Sound
<1> QED BY <1>4 DEF w

(* As long as the server runs, the file can be loaded.                       *)
LEMMA FileIsSound ==
  ASSUME NEW s, NEW c, Good(s, c), ~Stale(c)
  PROVE  Sound(s.file, s.data)
<1>1. Typed(s)
  BY DEF Good
<1>2. CASE s.life # "up"
  BY <1>2 DEF Good, DownInv
<1>3. CASE s.life = "up" /\ s.state # "on"
  BY <1>3 DEF Good, UpInv, OffInv
<1>4. CASE s.life = "up" /\ s.state = "on"
  <2>1. Whole(s.file \o s.buf, s.data)
    BY <1>4 DEF Good, UpInv, OnInv
  <2> QED BY <1>1, <2>1, ItemsOfState, WholeSound
<1> QED BY <1>2, <1>3, <1>4

(* A command: feedAppendOnlyFile().                                          *)
LEMMA ExecutedFacts ==
  ASSUME NEW s, Typed(s), NEW db \in Databases
  PROVE  LET t    == Executed(s, db)
             item == Item("write", Len(s.data) + 1, s.db # db)
         IN  /\ Typed(t) /\ Changed(s, t, {"data", "dirty", "db", "buf", "diff"})
             /\ t.data = Append(s.data, db) /\ t.dirty = s.dirty + 1
             /\ t.db = (IF s.state = "off" THEN s.db ELSE db)
             /\ t.buf = (IF s.state = "on" THEN Append(s.buf, item) ELSE s.buf)
             /\ t.diff = (IF s.state # "off" /\ s.rewrite # 0 THEN Append(s.diff, item) ELSE s.diff)
<1> DEFINE u == [s EXCEPT !.data = Append(s.data, db), !.dirty = s.dirty + 1]
           item == Item("write", Len(s.data) + 1, s.db # db)
           t == Executed(s, db)
<1>1. Changed(s, u, {"data", "dirty"}) /\ u.data = Append(s.data, db) /\ u.dirty = s.dirty + 1
  BY DEF Typed, IsState, Changed, Fields
<1>2. Len(u.data) = Len(s.data) + 1 /\ Len(s.data) \in Nat /\ s.dirty + 1 \in Nat
      /\ Append(s.data, db) \in Seq(Databases)
  BY <1>1 DEF Typed
<1>3. t = Fed(u, db)
  BY DEF Executed
<1> HIDE DEF u
<1>4. u.db = s.db /\ u.state = s.state /\ u.buf = s.buf /\ u.diff = s.diff /\ u.rewrite = s.rewrite
      /\ IsState(u)
  BY <1>1 DEF Changed, Fields
<1>5. item = Item("write", Len(u.data), u.db # db)
  BY <1>2, <1>4
<1> DEFINE b == IF s.state = "on" THEN Append(s.buf, item) ELSE s.buf
           d == IF s.rewrite # 0 THEN Append(s.diff, item) ELSE s.diff
           v == [u EXCEPT !.db = db, !.buf = b, !.diff = d]
<1> HIDE DEF item
<1>6. t = IF s.state = "off" THEN u ELSE v
  <2>1. t = IF u.state = "off" THEN u
            ELSE [u EXCEPT !.db = db,
                           !.buf = IF u.state = "on" THEN Append(u.buf, item) ELSE u.buf,
                           !.diff = IF u.rewrite # 0 THEN Append(u.diff, item) ELSE u.diff]
    BY <1>3, <1>5 DEF Fed
  <2> QED BY <1>4, <2>1
<1>7. Changed(u, v, {"db", "buf", "diff"}) /\ v.db = db /\ v.buf = b /\ v.diff = d
  <2> HIDE DEF b, d
  <2> QED BY <1>4 DEF IsState, Changed, Fields
<1> HIDE DEF v
<1>8. /\ Changed(s, t, {"data", "dirty", "db", "buf", "diff"})
      /\ t.data = Append(s.data, db) /\ t.dirty = s.dirty + 1
      /\ t.db = (IF s.state = "off" THEN s.db ELSE db)
      /\ t.buf = (IF s.state = "off" THEN s.buf ELSE b)
      /\ t.diff = (IF s.state = "off" THEN s.diff ELSE d)
  <2> HIDE DEF b, d, t
  <2>1. CASE s.state = "off"
    <3>1. t = u
      BY <1>6, <2>1
    <3> QED BY <1>1, <1>4, <2>1, <3>1 DEF Changed, Fields
  <2>2. CASE s.state # "off"
    <3>1. t = v
      BY <1>6, <2>2
    <3>2. v.data = u.data /\ v.dirty = u.dirty
      BY <1>7 DEF Changed, Fields
    <3>3. Changed(s, v, {"data", "dirty", "db", "buf", "diff"})
      BY <1>1, <1>7 DEF Changed, Fields
    <3> QED BY <1>1, <1>7, <2>2, <3>1, <3>2, <3>3
  <2> QED BY <2>1, <2>2
<1>9. item \in BufItems
  <2>1. (s.db # db) \in BOOLEAN /\ Len(s.data) + 1 \in Nat
    BY <1>2
  <2>2. \A n \in Nat, x \in BOOLEAN : Item("write", n, x) \in BufItems
    BY DEF Item, BufItems, AofItems
  <2> QED BY <2>1, <2>2 DEF item
<1>10. Typed(t)
  <2>1. b \in Seq(BufItems) /\ d \in Seq(BufItems)
    BY <1>9 DEF Typed
  <2> HIDE DEF b, d, t
  <2> QED BY <1>2, <1>8, <2>1 DEF Typed, Changed, Fields
<1> QED BY <1>8, <1>10 DEF item, t

(* A command keeps the invariant.                                           *)
LEMMA ExecutedGood ==
  ASSUME NEW s, NEW c \in Chances, Good(s, c), s.life = "up", NEW db \in Databases
  PROVE  Good(Executed(s, db), c)
<1> DEFINE t == Executed(s, db)
           item == Item("write", Len(s.data) + 1, s.db # db)
<1>1. /\ Typed(s) /\ Typed(t) /\ Changed(s, t, {"data", "dirty", "db", "buf", "diff"})
      /\ t.data = Append(s.data, db) /\ t.dirty = s.dirty + 1
      /\ t.db = (IF s.state = "off" THEN s.db ELSE db)
      /\ t.buf = (IF s.state = "on" THEN Append(s.buf, item) ELSE s.buf)
      /\ t.diff = (IF s.state # "off" /\ s.rewrite # 0 THEN Append(s.diff, item) ELSE s.diff)
  BY ExecutedFacts DEF Good
<1>2. UpInv(s, c)
  BY DEF Good
<1> HIDE DEF t
<1>3. /\ t.life = "up" /\ t.state = s.state /\ t.fd = s.fd /\ t.size = s.size /\ t.file = s.file
      /\ t.left = s.left /\ t.rewrite = s.rewrite /\ t.save = s.save /\ t.children = s.children
      /\ t.acked = s.acked /\ t.synced = s.synced /\ t.dump = s.dump /\ t.before = s.before
  BY <1>1 DEF Changed, Fields
<1>4. /\ s.file \in Seq(AofItems) /\ s.buf \in Seq(AofItems) /\ s.diff \in Seq(BufItems)
      /\ s.file \o s.buf \in Seq(AofItems) /\ s.data \in Seq(Databases) /\ Len(s.data) \in Nat
      /\ Len(Append(s.data, db)) = Len(s.data) + 1
  BY <1>1, ItemsOfState
<1>5. OnInv(t)
  <2>1. SUFFICES ASSUME s.state = "on" PROVE OnInv(t)
    BY <1>3 DEF OnInv
  <2> DEFINE q == s.file \o s.buf
  <2>2. Whole(q, s.data) /\ Selected(s.db, q, s.data) /\ q \in Seq(AofItems)
    BY <1>2, <1>4, <2>1 DEF UpInv, OnInv
  <2>3. Whole(Append(q, item), Append(s.data, db)) /\ Loaded(Append(q, item), Append(s.data, db)).db = db
        /\ item \in BufItems
    <3> HIDE DEF q
    <3> QED BY <1>4, <2>2, WholeFed
  <2>4. t.file \o t.buf = Append(q, item)
    <3>1. s.file \o Append(s.buf, item) = Append(s.file \o s.buf, item)
      <4> HIDE DEF item
      <4>1. item \in AofItems
        BY <2>3 DEF BufItems
      <4> DEFINE f == s.file
                 b == s.buf
      <4>2. f \in Seq(AofItems) /\ b \in Seq(AofItems)
        BY <1>4
      <4> HIDE DEF f, b
      <4>3. f \o Append(b, item) = Append(f \o b, item)
        BY <4>1, <4>2, AppendBehind
      <4> QED BY <4>3 DEF f, b
    <3> QED BY <1>1, <1>3, <2>1, <3>1
  <2> HIDE DEF q, item
  <2> QED BY <1>1, <1>2, <1>3, <2>1, <2>3, <2>4 DEF UpInv, OnInv, Selected
<1>6. OffInv(t, c)
  <2>1. s.state # "on" /\ ~Stale(c) => Sound(s.file, Append(s.data, db))
    BY <1>2, <1>4, SoundLonger DEF UpInv, OffInv
  <2> QED BY <1>1, <1>2, <1>3, <2>1 DEF UpInv, OffInv
<1>7. RewriteInv(t)
  <2>1. CASE s.rewrite = 0
    BY <1>1, <1>2, <1>3, <2>1 DEF UpInv, RewriteInv
  <2>2. CASE s.rewrite # 0
    <3> DEFINE q == Rewritten(s)
    <3>1. /\ s.rewrite \in DOMAIN s.children /\ s.rewrite # s.save /\ Sound(q, s.data)
          /\ s.state # "off" => Whole(q, s.data) /\ Selected(s.db, q, s.data)
      BY <1>2, <2>2 DEF UpInv, RewriteInv
    <3>2. s.children[s.rewrite].n \in Nat
      BY <1>1, <3>1 DEF Typed, Children
    <3>3. q \in Seq(AofItems)
      BY <1>4, <3>2, RewrittenTyped DEF Rewritten
    <3>4. CASE s.state = "off"
      <4>1. Rewritten(t) = q
        BY <1>1, <1>3, <3>4 DEF Rewritten
      <4> HIDE DEF q
      <4>2. Sound(q, Append(s.data, db))
        BY <1>4, <3>1, <3>3, SoundLonger
      <4> QED BY <1>1, <1>3, <2>2, <3>1, <3>4, <4>1, <4>2 DEF RewriteInv
    <3>5. CASE s.state # "off"
      <4>1. Whole(Append(q, item), Append(s.data, db)) /\ Loaded(Append(q, item), Append(s.data, db)).db = db
            /\ item \in BufItems
        <5> HIDE DEF q
        <5> QED BY <1>4, <3>1, <3>3, <3>5, WholeFed
      <4>2. Rewritten(t) = Append(q, item)
        <5> DEFINE one == <<Snapshot(s.children[s.rewrite].n)>>
        <5>1. one \in Seq(AofItems) /\ item \in AofItems /\ s.diff \in Seq(AofItems)
          <6>1. Snapshot(s.children[s.rewrite].n) \in AofItems
            BY <3>2, LoadsSnapshot
          <6>2. one \in Seq(AofItems)
            BY <6>1
          <6>3. item \in AofItems
            BY <4>1 DEF BufItems
          <6>4. s.diff \in Seq(AofItems)
            BY <1>1, ItemsOfState
          <6> QED BY <6>2, <6>3, <6>4
        <5>2. Rewritten(t) = one \o Append(s.diff, item) /\ q = one \o s.diff
          BY <1>1, <1>3, <2>2, <3>5 DEF Rewritten
        <5> HIDE DEF one, item, q
        <5>3. one \o Append(s.diff, item) = Append(one \o s.diff, item)
          BY <5>1, AppendBehind
        <5> QED BY <5>2, <5>3
      <4> DEFINE w == Append(q, item)
      <4>3. Sound(w, Append(s.data, db))
        <5>1. Whole(w, Append(s.data, db))
          BY <4>1
        <5> HIDE DEF w
        <5> QED BY <1>4, <5>1 DEF Sound, Whole
      <4> HIDE DEF w
      <4>4. Rewritten(t) = w /\ Whole(w, Append(s.data, db)) /\ Loaded(w, Append(s.data, db)).db = db
        BY <4>1, <4>2 DEF w
      <4> QED BY <1>1, <1>3, <2>2, <3>1, <3>5, <4>3, <4>4 DEF RewriteInv, Selected
    <3> QED BY <3>4, <3>5
  <2> QED BY <2>1, <2>2
<1>8. AckInv(t)
  <2>1. s.acked <= Len(s.data) /\ s.acked \in Nat
    BY <1>1, <1>2 DEF UpInv, AckInv, Typed
  <2>2. s.state = "on" => Loaded(s.file, Append(s.data, db)) = Loaded(s.file, s.data)
    <3>1. s.state = "on" => Whole(s.file \o s.buf, s.data)
      BY <1>2 DEF UpInv, OnInv
    <3>2. s.state = "on" => Sound(s.file, s.data)
      BY <1>4, <3>1, WholeSound
    <3> QED BY <1>4, <3>2, SoundLonger
  <2> QED BY <1>1, <1>2, <1>3, <1>4, <2>1, <2>2 DEF UpInv, AckInv
<1>9. SaveInv(t)
  <2>1. s.dirty \in Nat /\ s.dump \in Nat /\ s.before \in Nat
    BY <1>1 DEF Typed
  <2>2. s.save \in DOMAIN s.children => SaveChild(s).n \in Nat
    BY <1>1 DEF Typed, Children, SaveChild
  <2>3. SaveChild(t) = SaveChild(s)
    BY <1>3 DEF SaveChild
  <2>4. SaveInv(s)
    BY <1>2 DEF UpInv
  <2>5. Len(t.data) = Len(s.data) + 1
    BY <1>1, <1>4
  <2>6. Len(t.data) <= t.dump + t.dirty
    BY <1>1, <1>3, <1>4, <2>1, <2>4, <2>5 DEF SaveInv
  <2>7. s.save # 0 /\ s.save \in DOMAIN s.children =>
          /\ SaveChild(s).n <= Len(t.data) /\ Len(t.data) + s.before <= SaveChild(s).n + t.dirty
    BY <1>1, <1>4, <2>1, <2>2, <2>4, <2>5 DEF SaveInv
  <2> QED BY <1>3, <2>3, <2>4, <2>6, <2>7 DEF SaveInv
<1>10. \A k \in Chance : t.left[k] <= c[k]
  BY <1>3 DEF Good
<1> QED BY <1>1, <1>3, <1>5, <1>6, <1>7, <1>8, <1>9, <1>10 DEF Good, UpInv, t

----------------------------------------------------------------------------
(* flushAppendOnlyFile().                                                    *)
LEMMA TruncatedFacts ==
  ASSUME NEW f \in Seq(AofItems), NEW p \in Seq(AofItems), NEW size \in Nat
  PROVE  /\ Truncated(f \o p, size) \in Seq(AofItems)
         /\ size = Len(f) => Truncated(f \o p, size) = f
<1> DEFINE w == f \o p
<1>1. w \in Seq(AofItems) /\ Len(w) = Len(f) + Len(p) /\ Len(f) \in Nat /\ Len(p) \in Nat
  BY ConcatProperties
<1>2. Hole \in AofItems
  BY DEF Hole, Item, AofItems
<1>3. \A i \in 1 .. Len(f) : w[i] = f[i]
  BY ConcatProperties
<1> HIDE DEF w
<1>4. CASE size <= Len(w)
  <2> DEFINE t == SubSeq(w, 1, size)
  <2>1. t \in Seq(AofItems) /\ Len(t) = size /\ \A i \in 1 .. size : t[i] = w[i]
    <3>1. \A i \in 1 .. size : w[i] \in AofItems
      BY <1>1, <1>4, ElementOfSeq
    <3>2. t \in Seq(AofItems) /\ Len(t) = (IF 1 <= size THEN size - 1 + 1 ELSE 0)
          /\ \A i \in 1 .. size - 1 + 1 : t[i] = w[1 + i - 1]
      BY <3>1, SubSeqProperties
    <3> HIDE DEF t
    <3> QED BY <3>2
  <2> HIDE DEF t
  <2>2. Truncated(w, size) = t
    BY <1>4 DEF Truncated, t
  <2>3. size = Len(f) => t = f
    BY <1>3, <2>1, SeqEqual
  <2> QED BY <2>1, <2>2, <2>3 DEF w
<1>5. CASE ~(size <= Len(w))
  <2>1. Truncated(w, size) \in Seq(AofItems)
    BY <1>1, <1>2, <1>5 DEF Truncated
  <2>2. size # Len(f)
    BY <1>1, <1>5
  <2> QED BY <2>1, <2>2 DEF w
<1> QED BY <1>4, <1>5

(* What a write does to the state, however it ends: the file and the buffer  *)
(* are what they were together, unless they are of no use to anyone.         *)
Flushable == {"life", "buf", "size", "written", "postponed", "fsyncs", "file", "synced", "left"}
FlushLeaves(s, c, t) ==
  /\ Typed(t) /\ Changed(s, t, Flushable \ {"left"})
  /\ s.state = "on" /\ t.life = "up" =>
       /\ t.size = Len(t.file)
       /\ Loaded(t.file \o t.buf, s.data) = Loaded(s.file \o s.buf, s.data)
  /\ s.state = "on" /\ t.life # "up" =>
       Sound(t.file, s.data) /\ Loaded(s.file, s.data).n <= Loaded(t.file, s.data).n
  /\ s.state # "on" /\ ~Stale(c) => t.file = s.file /\ t.buf = s.buf
  /\ t.life # s.life => policy = "always"
  /\ t.life = "up" /\ s.state = "on" /\ policy = "always" /\ ~NoFsyncOnRewrite =>
       t.buf = <<>> /\ t.synced = Len(t.file)

(* Such a write keeps the invariant.                                        *)
LEMMA FlushedGood ==
  ASSUME NEW s, NEW c, Good(s, c), s.life = "up", NEW t, FlushLeaves(s, c, t)
  PROVE  Good(t, c)
<1>1. /\ Typed(s) /\ Typed(t) /\ Changed(s, t, Flushable \ {"left"}) /\ UpInv(s, c)
      /\ \A k \in Chance : s.left[k] <= c[k]
  BY DEF FlushLeaves, Good
<1>2. /\ t.state = s.state /\ t.data = s.data /\ t.db = s.db /\ t.fd = s.fd /\ t.left = s.left
      /\ t.acked = s.acked
  BY <1>1 DEF Changed, Fields, Flushable
<1>3. /\ t.file \in Seq(AofItems) /\ t.buf \in Seq(AofItems) /\ t.file \o t.buf \in Seq(AofItems)
      /\ s.data \in Seq(Databases) /\ Len(s.data) \in Nat
  BY <1>1, <1>2, ItemsOfState
<1>4. RewriteInv(t) /\ SaveInv(t)
  BY <1>1, ChangedKeeps DEF Flushable, UpInv
<1>5. s.state = "on" /\ t.life = "up" => Whole(t.file \o t.buf, s.data) /\ Selected(s.db, t.file \o t.buf, s.data)
  BY <1>1 DEF FlushLeaves, UpInv, OnInv, Whole, Selected
<1>6. t.life = "up" => OnInv(t)
  BY <1>1, <1>2, <1>5 DEF FlushLeaves, UpInv, OnInv
<1>7. OffInv(t, c)
  BY <1>1, <1>2 DEF FlushLeaves, UpInv, OffInv
<1>8. t.life = "up" => AckInv(t)
  <2>1. SUFFICES ASSUME t.life = "up", policy = "always", ~NoFsyncOnRewrite, s.state = "on"
                 PROVE  t.synced = Len(t.file) /\ t.acked <= Loaded(t.file, t.data).n
    BY <1>1, <1>2 DEF UpInv, AckInv
  <2>2. t.buf = <<>> /\ t.synced = Len(t.file)
    BY <2>1 DEF FlushLeaves
  <2>3. t.file \o t.buf = t.file
    BY <1>3, <2>2, ConcatEmptySeq
  <2>4. Loaded(t.file, s.data).n = Len(s.data)
    BY <1>5, <2>1, <2>3 DEF Whole
  <2> QED BY <1>1, <1>2, <2>2, <2>4 DEF UpInv, AckInv
<1>9. t.life # "up" => DownInv(t, c)
  <2>1. SUFFICES ASSUME t.life # "up" PROVE DownInv(t, c)
    OBVIOUS
  <2>2. policy = "always" /\ ~Stale(c)
    BY <2>1 DEF FlushLeaves, Stale
  <2>3. s.state # "on" => Sound(t.file, t.data)
    BY <1>1, <1>2, <2>2, FileIsSound DEF FlushLeaves
  <2>4. s.state = "on" => Sound(t.file, t.data)
    BY <1>2, <2>1 DEF FlushLeaves
  <2>5. AckDown(t)
    <3>1. SUFFICES ASSUME policy = "always", ~NoFsyncOnRewrite, s.state = "on"
                   PROVE  s.acked <= Loaded(t.file, s.data).n
      BY <1>2 DEF AckDown
    <3>2. Loaded(s.file, s.data).n <= Loaded(t.file, s.data).n
      BY <2>1, <3>1 DEF FlushLeaves
    <3>3. s.acked <= Loaded(s.file, s.data).n
      BY <1>1, <3>1 DEF UpInv, AckInv
    <3>4. s.acked \in Nat /\ s.file \in Seq(AofItems)
      BY <1>1 DEF Typed
    <3>5. Loaded(s.file, s.data).n \in Nat /\ Loaded(t.file, s.data).n \in Nat
      BY <1>3, <3>4, LoadedNumber
    <3> QED BY <3>2, <3>3, <3>4, <3>5
  <2> QED BY <2>2, <2>3, <2>4, <2>5 DEF DownInv
<1> QED BY <1>1, <1>2, <1>4, <1>6, <1>7, <1>8, <1>9 DEF Good, UpInv

(* With the AOF off, or waiting, a descriptor and something in the buffer    *)
(* only go together in the scenarios of Stale.                               *)
LEMMA OffIsQuiet ==
  ASSUME NEW s, NEW c, Good(s, c), s.life = "up", s.buf # <<>>, s.fd = "open", s.state # "on"
  PROVE  Stale(c)
BY DEF Good, UpInv, OffInv

(* A write() that takes all of the buffer, and its fsync.                   *)
LEMMA SucceedsGood ==
  ASSUME NEW s, NEW c, Good(s, c), s.life = "up", s.buf # <<>>, NEW busy \in BOOLEAN,
         NEW t \in WriteSucceeds(s, busy), policy \in {"always", "everysec", "no"}
  PROVE  FlushLeaves(s, c, t) /\ t.buf = <<>> /\ t.life = "up"
<1> DEFINE f == s.file \o s.buf
           n == s.size + Len(s.buf)
           u == [s EXCEPT !.file = f, !.size = n, !.buf = <<>>, !.written = TRUE]
<1>1. s.fd = "open" /\ t \in Fsynced(u, busy)
  BY DEF WriteSucceeds
<1>2. /\ Typed(s) /\ f \in Seq(AofItems) /\ Len(s.file) \in Nat /\ Len(s.buf) \in Nat /\ s.size \in Nat
      /\ Len(f) = Len(s.file) + Len(s.buf) /\ n \in Nat
  <2>1. Typed(s)
    BY DEF Good
  <2>2. s.file \in Seq(AofItems) /\ s.buf \in Seq(AofItems) /\ s.size \in Nat
    BY <2>1, ItemsOfState DEF Typed
  <2> QED BY <2>1, <2>2, ConcatProperties
<1>3. /\ Changed(s, u, {"file", "size", "buf", "written"})
      /\ u.file = f /\ u.size = n /\ u.buf = <<>>
  <2> HIDE DEF f, n
  <2> QED BY <1>2 DEF Typed, IsState, Changed, Fields
<1> HIDE DEF f, n
<1>4. Typed(u)
  <2>1. <<>> \in Seq(BufItems)
    OBVIOUS
  <2> HIDE DEF u
  <2> QED BY <1>2, <1>3, <2>1 DEF Typed, Changed, Fields
<1> HIDE DEF u
<1>5. /\ Typed(t) /\ Changed(u, t, {"synced", "fsyncs"})
      /\ policy = "always" /\ ~NoFsyncOnRewrite => t.synced = Len(u.file)
  <2>1. Changed(u, u, {"synced", "fsyncs"})
    BY <1>4 DEF Typed, Changed
  <2>2. t = u \/ t = [u EXCEPT !.synced = Len(u.file)]
        \/ t = [u EXCEPT !.fsyncs = IF busy THEN u.fsyncs ELSE Append(u.fsyncs, "todo")]
    BY <1>1 DEF Fsynced
  <2>3. policy = "always" /\ ~NoFsyncOnRewrite => t = [u EXCEPT !.synced = Len(u.file)]
    BY <1>1 DEF Fsynced
  <2>4. LET v == [u EXCEPT !.synced = Len(u.file)]
        IN  Typed(v) /\ Changed(u, v, {"synced", "fsyncs"}) /\ v.synced = Len(u.file)
    <3> DEFINE v == [u EXCEPT !.synced = Len(u.file)]
    <3>1. Changed(u, v, {"synced"}) /\ v.synced = Len(u.file)
      BY <1>4 DEF Typed, IsState, Changed, Fields
    <3>2. Len(u.file) \in Nat
      BY <1>4 DEF Typed
    <3> HIDE DEF v
    <3>3. Typed(v) /\ Changed(u, v, {"synced", "fsyncs"})
      BY <1>4, <3>1, <3>2 DEF Typed, Changed, Fields
    <3> QED BY <3>1, <3>3 DEF v
  <2>5. \A q : LET v == [u EXCEPT !.fsyncs = q] IN Typed(v) /\ Changed(u, v, {"synced", "fsyncs"})
    <3> TAKE q
    <3> DEFINE v == [u EXCEPT !.fsyncs = q]
    <3>1. Changed(u, v, {"fsyncs"})
      BY <1>4 DEF Typed, IsState, Changed, Fields
    <3> HIDE DEF v
    <3>2. Typed(v) /\ Changed(u, v, {"synced", "fsyncs"})
      BY <1>4, <3>1 DEF Typed, Changed, Fields
    <3> QED BY <3>2 DEF v
  <2> QED BY <1>4, <2>1, <2>2, <2>3, <2>4, <2>5
<1>6. /\ Changed(s, t, Flushable \ {"left"}) /\ t.file = f /\ t.size = n /\ t.buf = <<>> /\ t.life = "up"
      /\ u.file = f
  BY <1>3, <1>5 DEF Changed, Fields, Flushable
<1>7. s.state = "on" => t.size = Len(t.file)
  BY <1>2, <1>6 DEF Good, UpInv, OnInv, n
<1>8. t.file \o t.buf = f
  BY <1>2, <1>6, ConcatEmptySeq
<1>9. s.state # "on" => Stale(c)
  BY <1>1, OffIsQuiet
<1> QED BY <1>5, <1>6, <1>7, <1>8, <1>9 DEF FlushLeaves, f

(* A failed write: nothing, some of it, or half of an item is in the file.   *)
FailedTo(s, u, rest, t) ==
  /\ Typed(t) /\ Changed(s, t, Flushable \ {"left"}) /\ t.file = u.file /\ t.size = u.size
  /\ policy = "always" => t.life = "crashed" /\ t.buf = s.buf
  /\ policy # "always" => t.life = s.life /\ t.buf = rest

(* What such an error changes.                                              *)
LEMMA FailedFacts ==
  ASSUME NEW s, NEW u, Typed(s), Typed(u), Changed(s, u, {"file", "size"}), NEW rest \in Seq(BufItems),
         NEW t, t = Failed(u, rest)
  PROVE  FailedTo(s, u, rest, t)
<1>1. u.life = s.life /\ u.buf = s.buf
  BY DEF Changed, Fields
<1>2. CASE policy = "always"
  <2>1. Changed(u, t, {"life"}) /\ t.life = "crashed"
    BY <1>2 DEF Failed, Died, Typed, IsState, Changed, Fields
  <2>2. t.file = u.file /\ t.size = u.size /\ t.buf = u.buf /\ Changed(s, t, Flushable \ {"left"})
    BY <2>1 DEF Changed, Fields, Flushable
  <2>3. Typed(t)
    BY <2>1 DEF Typed, Changed, Fields
  <2> QED BY <1>1, <1>2, <2>1, <2>2, <2>3 DEF FailedTo
<1>3. CASE policy # "always"
  <2>1. Changed(u, t, {"written", "buf"}) /\ t.buf = rest
    BY <1>3 DEF Failed, Typed, IsState, Changed, Fields
  <2>2. t.file = u.file /\ t.size = u.size /\ t.life = u.life /\ Changed(s, t, Flushable \ {"left"})
    BY <2>1 DEF Changed, Fields, Flushable
  <2>3. Typed(t)
    BY <2>1 DEF Typed, Changed, Fields
  <2> QED BY <1>1, <1>3, <2>1, <2>2, <2>3 DEF FailedTo
<1> QED BY <1>2, <1>3

(* A write() that fails or is short keeps the invariant.                    *)
LEMMA FailsGood ==
  ASSUME NEW s, NEW c, Good(s, c), s.life = "up", s.buf # <<>>, NEW t \in WriteFails(s)
  PROVE  FlushLeaves(s, c, t) /\ (t.life = "up" => policy # "always")
<1>1. /\ Typed(s) /\ s.file \in Seq(AofItems) /\ s.buf \in Seq(BufItems) /\ s.buf \in Seq(AofItems)
      /\ s.data \in Seq(Databases) /\ s.size \in Nat
      /\ Len(s.file) \in Nat /\ Len(s.data) \in Nat
  BY ItemsOfState DEF Good, Typed
<1>2. s.state = "on" => /\ s.size = Len(s.file) /\ Whole(s.file \o s.buf, s.data)
                        /\ Sound(s.file, s.data) /\ s.fd = "open"
  <2>1. s.state = "on" => s.size = Len(s.file) /\ Whole(s.file \o s.buf, s.data) /\ s.fd = "open"
    BY DEF Good, UpInv, OnInv
  <2> QED BY <1>1, <2>1, WholeSound
<1>3. Changed(s, s, {"file", "size"})
  BY <1>1 DEF Typed, Changed
<1>4. CASE t = Failed(s, s.buf)
  <2>1. /\ Typed(t) /\ Changed(s, t, Flushable \ {"left"}) /\ t.file = s.file /\ t.size = s.size
        /\ t.buf = s.buf /\ (policy = "always" => t.life = "crashed") /\ (policy # "always" => t.life = s.life)
    <3>1. FailedTo(s, s, s.buf, t)
      BY <1>1, <1>3, <1>4, FailedFacts
    <3> QED BY <3>1 DEF FailedTo
  <2>2. Loaded(s.file, s.data).n <= Loaded(t.file, s.data).n
    BY <1>1, <2>1, LoadedNumber
  <2> QED BY <1>2, <2>1, <2>2 DEF FlushLeaves
<1>5. ASSUME NEW w \in ShortWrites(s.buf), s.fd = "open", t = Unwound(s, w)
      PROVE  FlushLeaves(s, c, t) /\ (t.life = "up" => policy # "always")
  <2> DEFINE f == Truncated(s.file \o w.part, s.size)
             u == [s EXCEPT !.file = f]
  <2>1. w.part \in Seq(AofItems)
    BY <1>1, LoadingFacts, ShortWriteFacts
  <2>2. f \in Seq(AofItems) /\ (s.state = "on" => f = s.file)
    <3> DEFINE g == s.file
               p == w.part
    <3>1. g \in Seq(AofItems) /\ p \in Seq(AofItems)
      BY <1>1, <2>1
    <3>2. \A size \in Nat : Truncated(g \o p, size) \in Seq(AofItems)
                           /\ (size = Len(g) => Truncated(g \o p, size) = g)
      <4> HIDE DEF g, p
      <4> QED BY <3>1, TruncatedFacts
    <3> QED BY <1>1, <1>2, <3>2, Zenon
  <2>3. t = Failed(u, s.buf)
    BY <1>5 DEF Unwound
  <2> HIDE DEF f
  <2>4. Changed(s, u, {"file"}) /\ u.file = f
    BY <1>1 DEF Typed, IsState, Changed, Fields
  <2> HIDE DEF u
  <2>5. Typed(u) /\ Changed(s, u, {"file", "size"}) /\ u.size = s.size
    BY <1>1, <2>2, <2>4 DEF Typed, Changed, Fields
  <2>6. /\ Typed(t) /\ Changed(s, t, Flushable \ {"left"}) /\ t.file = f /\ t.size = s.size
        /\ t.buf = s.buf /\ (policy = "always" => t.life = "crashed") /\ (policy # "always" => t.life = s.life)
    <3>1. FailedTo(s, u, s.buf, t)
      BY <1>1, <2>3, <2>5, FailedFacts
    <3> QED BY <2>4, <2>5, <3>1 DEF FailedTo
  <2>7. s.state # "on" => Stale(c)
    BY <1>5, OffIsQuiet
  <2>8. s.state = "on" => Loaded(s.file, s.data).n <= Loaded(f, s.data).n
    BY <1>1, <2>2, LoadedNumber
  <2> QED BY <1>2, <2>2, <2>6, <2>7, <2>8 DEF FlushLeaves
<1>6. ASSUME NEW w \in ShortWrites(s.buf), s.fd = "open", t = Kept(s, w)
      PROVE  FlushLeaves(s, c, t) /\ (t.life = "up" => policy # "always")
  <2> DEFINE f == s.file \o w.part
             n == s.size + Len(w.part)
             u == [s EXCEPT !.file = f, !.size = n]
             y == Loaded(s.file, s.data)
  <2>0. y \in Results
    BY <1>1, LoadingFacts, LoadsTyped DEF Loaded
  <2>1. /\ w.part \in Seq(AofItems) /\ w.rest \in Seq(BufItems)
        /\ ~Loads(y, s.buf, s.data).bad =>
             Loads(Loads(y, w.part, s.data), w.rest, s.data) = Loads(y, s.buf, s.data)
    <3> HIDE DEF y
    <3> QED BY <1>1, <2>0, ShortWriteFacts
  <2>2. /\ w.rest \in Seq(AofItems) /\ f \in Seq(AofItems) /\ Len(w.part) \in Nat
        /\ Len(f) = Len(s.file) + Len(w.part) /\ n \in Nat
    <3>1. w.rest \in Seq(AofItems)
      BY <2>1, SeqMonotonic DEF BufItems
    <3> QED BY <1>1, <2>1, <3>1, ConcatProperties
  <2>3. t = Failed(u, w.rest)
    BY <1>6 DEF Kept
  <2>4. Loaded(f \o w.rest, s.data) = Loads(Loads(y, w.part, s.data), w.rest, s.data)
        /\ Loaded(s.file \o s.buf, s.data) = Loads(y, s.buf, s.data)
        /\ Loaded(f, s.data) = Loads(y, w.part, s.data)
    <3>1. Loaded(f, s.data) = Loads(y, w.part, s.data)
      BY <1>1, <2>1, LoadsConcat DEF Loaded
    <3>2. Loaded(s.file \o s.buf, s.data) = Loads(y, s.buf, s.data)
      BY <1>1, LoadsConcat DEF Loaded
    <3>3. Loaded(f \o w.rest, s.data) = Loads(Loaded(f, s.data), w.rest, s.data)
      <4> HIDE DEF f
      <4> QED BY <2>2, LoadsConcat DEF Loaded
    <3> QED BY <3>1, <3>2, <3>3
  <2> HIDE DEF f, n, y
  <2>5. s.state = "on" => Loaded(f \o w.rest, s.data) = Loaded(s.file \o s.buf, s.data)
    BY <1>2, <2>1, <2>4 DEF Whole
  <2>6. s.state = "on" => Sound(f, s.data)
    <3>1. s.state = "on" => Whole(f \o w.rest, s.data)
      BY <1>2, <2>5 DEF Whole
    <3> QED BY <1>1, <2>2, <3>1, WholeSound
  <2>12. s.state = "on" => Loaded(s.file, s.data).n <= Loaded(f, s.data).n
    <3>1. s.state = "on" => ~Loaded(s.file \o w.part, s.data).bad
      BY <2>6 DEF Sound, f
    <3> QED BY <1>1, <2>1, <3>1, LoadedPrefix DEF f
  <2>7. Changed(s, u, {"file", "size"}) /\ u.file = f /\ u.size = n
    BY <1>1 DEF Typed, IsState, Changed, Fields
  <2> HIDE DEF u
  <2>8. Typed(u)
    BY <1>1, <2>2, <2>7 DEF Typed, Changed, Fields
  <2>9. /\ Typed(t) /\ Changed(s, t, Flushable \ {"left"}) /\ t.file = f /\ t.size = n
        /\ policy = "always" => t.life = "crashed" /\ t.buf = s.buf
        /\ policy # "always" => t.life = s.life /\ t.buf = w.rest
    <3>1. Changed(s, u, {"file", "size"})
      BY <2>7
    <3>2. FailedTo(s, u, w.rest, t)
      BY <1>1, <2>1, <2>3, <2>8, <3>1, FailedFacts
    <3> QED BY <2>7, <3>2 DEF FailedTo
  <2>10. s.state # "on" => Stale(c)
    BY <1>6, OffIsQuiet
  <2>11. s.state = "on" => n = Len(f)
    BY <1>2, <2>2 DEF n
  <2> QED BY <2>5, <2>6, <2>9, <2>10, <2>11, <2>12 DEF FlushLeaves
<1> QED BY <1>4, <1>5, <1>6 DEF WriteFails

(* What no part of the invariant is about.                                   *)
LEMMA QuietGood ==
  ASSUME NEW s, NEW c, Good(s, c), NEW t,
         Changed(s, t, {"written", "postponed", "scheduled", "saved", "fsyncs"})
  PROVE  Good(t, c)
<1>1. /\ Typed(s) /\ Typed(t) /\ t.life = s.life /\ t.left = s.left /\ t.file = s.file
      /\ t.data = s.data /\ t.state = s.state /\ t.acked = s.acked
  BY DEF Good, Typed, Changed, Fields
<1>2. s.life = "up" => UpInv(t, c)
  BY ChangedKeeps DEF Good, UpInv
<1>3. s.life # "up" => DownInv(t, c)
  BY <1>1 DEF Good, DownInv, AckDown
<1> QED BY <1>1, <1>2, <1>3 DEF Good

(* A write: under "always" it leaves nothing, or the server exits; under the *)
(* other policies something is left only by an error.                        *)
WriteEnd(s, c, t) ==
  /\ Good(t, c) /\ Changed(s, t, Flushable)
  /\ \A k \in Chance : t.left[k] <= s.left[k]
  /\ t.life = "up" /\ policy = "always" => t.buf = <<>>
  /\ t.life = "up" /\ s.fd = "open" => t.buf = <<>> \/ (policy # "always" /\ c["fault"] > 0)

(* The ends of flushAppendOnlyFile()'s write.                               *)
LEMMA WriteEnds ==
  ASSUME NEW s, NEW u, NEW c, NEW t, Good(u, c), u.life = "up", Changed(s, u, {"postponed", "left"}),
         \A k \in Chance : u.left[k] <= s.left[k],
         FlushLeaves(u, c, t), t.life = "up" /\ policy = "always" => t.buf = <<>>,
         t.life = "up" /\ s.fd = "open" => t.buf = <<>> \/ (policy # "always" /\ c["fault"] > 0)
  PROVE  WriteEnd(s, c, t)
<1>1. Good(t, c)
  BY FlushedGood
<1>2. Changed(u, t, Flushable \ {"left"})
  BY DEF FlushLeaves
<1>3. Changed(s, t, Flushable) /\ t.left = u.left
  BY <1>2 DEF Changed, Fields, Flushable
<1> QED BY <1>1, <1>3 DEF WriteEnd

(* Each of them keeps the invariant.                                        *)
LEMMA WriteGood ==
  ASSUME NEW s, NEW c \in Chances, Good(s, c), s.life = "up", s.buf # <<>>, NEW busy \in BOOLEAN,
         policy \in {"always", "everysec", "no"}, NEW t \in Write(s, busy)
  PROVE  WriteEnd(s, c, t)
<1> DEFINE u == [s EXCEPT !.postponed = FALSE]
           v == Spent(u, "fault")
<1>1. Typed(s) /\ s.left \in [Chance -> Nat]
  BY DEF Good, Typed
<1>2. Changed(s, u, {"postponed"}) /\ Can(u, "fault") = Can(s, "fault")
  BY <1>1 DEF Typed, IsState, Changed, Fields, Can
<1>3. \/ t \in WriteSucceeds(u, busy)
      \/ s.fd # "open" /\ t \in WriteFails(u)
      \/ Can(s, "fault") /\ t \in WriteFails(v)
  BY DEF Write
<1> HIDE DEF u
<1>4. /\ Changed(s, u, {"written", "postponed", "scheduled", "saved", "fsyncs"})
      /\ Changed(s, u, {"postponed", "left"})
      /\ u.life = "up" /\ u.buf # <<>> /\ u.fd = s.fd /\ u.left = s.left
  BY <1>2 DEF Changed, Fields
<1>5. Good(u, c)
  BY <1>4, QuietGood
<1>6. \A k \in Chance : u.left[k] <= s.left[k]
  BY <1>1, <1>4
<1>7. CASE t \in WriteSucceeds(u, busy)
  <2>1. FlushLeaves(u, c, t) /\ t.buf = <<>>
    BY <1>4, <1>5, <1>7, SucceedsGood
  <2> QED BY <1>4, <1>5, <1>6, <2>1, WriteEnds
<1>8. CASE s.fd # "open" /\ t \in WriteFails(u)
  <2>1. FlushLeaves(u, c, t) /\ (t.life = "up" => policy # "always")
    BY <1>4, <1>5, <1>8, FailsGood
  <2> QED BY <1>4, <1>5, <1>6, <1>8, <2>1, WriteEnds
<1>9. CASE Can(s, "fault") /\ t \in WriteFails(v)
  <2>1. "fault" \in Chance /\ Can(u, "fault") /\ Typed(u)
    BY <1>2, <1>5, <1>9 DEF Chance, Good
  <2>2. Good(v, c) /\ Changed(u, v, {"left"}) /\ c["fault"] > 0
    BY <1>5, <2>1, SpentGood
  <2>3. \A k \in Chance : v.left[k] <= s.left[k]
    <3>1. \A k \in Chance : v.left[k] <= u.left[k]
      BY <2>1, SpentFacts
    <3> QED BY <1>4, <3>1
  <2> HIDE DEF v
  <2>4. v.life = "up" /\ v.buf # <<>> /\ Changed(s, v, {"postponed", "left"})
    BY <1>4, <2>2 DEF Changed, Fields
  <2>5. FlushLeaves(v, c, t) /\ (t.life = "up" => policy # "always")
    BY <1>9, <2>2, <2>4, FailsGood
  <2> QED BY <2>2, <2>3, <2>4, <2>5, WriteEnds
<1> QED BY <1>3, <1>7, <1>8, <1>9

FlushEnd(s, c, force, t) ==
  /\ Good(t, c) /\ Changed(s, t, Flushable)
  /\ \A k \in Chance : t.left[k] <= s.left[k]
  /\ t.life = "up" /\ policy = "always" => t.buf = <<>>
  /\ t.life = "up" /\ s.fd = "open" /\ force => t.buf = <<>> \/ (policy # "always" /\ c["fault"] > 0)
  /\ s.buf = <<>> => t = s

(* flushAppendOnlyFile(), forced, postponed or neither.                     *)
LEMMA FlushGood ==
  ASSUME NEW s, NEW c \in Chances, Good(s, c), s.life = "up", NEW force \in BOOLEAN,
         policy \in {"always", "everysec", "no"}, NEW t \in Flush(s, force)
  PROVE  FlushEnd(s, c, force, t)
<1>1. Typed(s) /\ s.left \in [Chance -> Nat]
  BY DEF Good, Typed
<1>2. CASE s.buf = <<>>
  <2>1. t = s
    BY <1>2 DEF Flush
  <2>2. Changed(s, s, Flushable) /\ \A k \in Chance : s.left[k] <= s.left[k]
    BY <1>1 DEF Typed, Changed
  <2> QED BY <1>2, <2>1, <2>2 DEF FlushEnd
<1>3. CASE s.buf # <<>>
  <2> DEFINE busy == s.fsyncs # <<>>
             waits == policy = "everysec" /\ ~force /\ busy
             u == [s EXCEPT !.postponed = TRUE]
  <2>1. \/ waits /\ t = u
        \/ t \in Write(s, busy)
    BY <1>3 DEF Flush
  <2>2. CASE waits /\ t = u
    <3>1. Changed(s, u, {"postponed"})
      BY <1>1 DEF Typed, IsState, Changed, Fields
    <3> HIDE DEF u
    <3>2. /\ Changed(s, t, {"written", "postponed", "scheduled", "saved", "fsyncs"})
          /\ Changed(s, t, Flushable) /\ t.left = s.left
      BY <2>2, <3>1 DEF Changed, Fields, Flushable
    <3>3. Good(t, c)
      BY <3>2, QuietGood
    <3>4. \A k \in Chance : t.left[k] <= s.left[k]
      BY <1>1, <3>2
    <3> QED BY <1>3, <2>2, <3>2, <3>3, <3>4 DEF FlushEnd
  <2>3. CASE t \in Write(s, busy)
    <3>1. busy \in BOOLEAN
      OBVIOUS
    <3> HIDE DEF busy
    <3>2. WriteEnd(s, c, t)
      BY <1>3, <2>3, <3>1, WriteGood
    <3> QED BY <1>3, <3>2 DEF WriteEnd, FlushEnd
  <2> QED BY <2>1, <2>2, <2>3
<1> QED BY <1>2, <1>3

(* beforeSleep(): what may be answered after it.                             *)
LEMMA RepliedGood ==
  ASSUME NEW s, NEW c \in Chances, Good(s, c), s.life = "up",
         policy = "always" => s.buf = <<>>
  PROVE  Good(Replied(s), c)
<1> DEFINE t == Replied(s)
<1>1. Typed(s) /\ Len(s.data) \in Nat /\ s.file \in Seq(AofItems)
  BY ItemsOfState DEF Good
<1>2. Changed(s, t, {"acked"}) /\ t.acked = Len(s.data)
  BY <1>1 DEF Typed, IsState, Changed, Fields, Replied
<1> HIDE DEF t
<1>3. Typed(t)
  BY <1>1, <1>2 DEF Typed, Changed, Fields
<1>4. /\ t.life = "up" /\ t.left = s.left /\ t.data = s.data /\ t.file = s.file
      /\ t.state = s.state /\ t.synced = s.synced
  BY <1>2 DEF Changed, Fields
<1>5. OnInv(t) /\ OffInv(t, c) /\ RewriteInv(t) /\ SaveInv(t)
  <2>1. OnInv(s) /\ OffInv(s, c) /\ RewriteInv(s) /\ SaveInv(s)
    BY DEF Good, UpInv
  <2>2. OnInv(t)
    BY <1>2, <2>1 DEF OnInv, Changed, Fields
  <2>3. OffInv(t, c)
    BY <1>2, <2>1 DEF OffInv, Changed, Fields
  <2>4. RewriteInv(t)
    BY <1>2, <2>1 DEF RewriteInv, Rewritten, Changed, Fields
  <2>5. SaveInv(t)
    BY <1>2, <2>1 DEF SaveInv, SaveChild, Changed, Fields
  <2> QED BY <2>2, <2>3, <2>4, <2>5
<1>6. policy = "always" /\ s.state = "on" => Loaded(s.file, s.data).n = Len(s.data)
  <2>1. policy = "always" => s.file \o s.buf = s.file
    BY <1>1, ConcatEmptySeq
  <2> QED BY <2>1 DEF Good, UpInv, OnInv, Whole
<1>7. AckInv(t)
  BY <1>1, <1>2, <1>4, <1>6 DEF Good, UpInv, AckInv
<1> QED BY <1>3, <1>4, <1>5, <1>7 DEF Good, UpInv, t

----------------------------------------------------------------------------
(* The children.                                                             *)
LEMMA FreePidFacts ==
  ASSUME NEW s, Typed(s)
  PROVE  FreePid(s) \in Nat \ {0} /\ FreePid(s) \notin DOMAIN s.children
         /\ FreePid(s) # s.save /\ FreePid(s) # s.rewrite
<1> DEFINE S == DOMAIN s.children
           n == Cardinality(S)
           T == S \cup {s.save}
           U == T \cup {s.rewrite}
<1>1. IsFiniteSet(S) /\ n \in Nat
  BY FS_CardinalityType DEF Typed
<1>2. IsFiniteSet(T) /\ Cardinality(T) <= n + 1 /\ Cardinality(T) \in Nat
  <2> HIDE DEF S
  <2>1. IsFiniteSet(T) /\ Cardinality(T) = IF s.save \in S THEN Cardinality(S) ELSE Cardinality(S) + 1
    BY <1>1, FS_AddElement
  <2> QED BY <1>1, <2>1
<1>3. IsFiniteSet(U) /\ Cardinality(U) <= n + 2 /\ Cardinality(U) \in Nat
  <2> HIDE DEF T, n
  <2>1. IsFiniteSet(U) /\ Cardinality(U) = IF s.rewrite \in T THEN Cardinality(T) ELSE Cardinality(T) + 1
    BY <1>2, FS_AddElement
  <2> QED BY <1>1, <1>2, <2>1
<1>4. Cardinality(1 .. n + 3) = n + 3
  <2> DEFINE m == n + 3
  <2>1. m \in Int /\ 1 \in Int /\ ~(1 > m) /\ m - 1 + 1 = n + 3
    BY <1>1
  <2> HIDE DEF n, m
  <2>2. Cardinality(1 .. m) = IF 1 > m THEN 0 ELSE m - 1 + 1
    BY <2>1, FS_Interval, Zenon
  <2> QED BY <2>1, <2>2 DEF m
<1>5. \E pid \in 1 .. n + 3 : pid \notin U
  <2>1. SUFFICES ASSUME 1 .. n + 3 \in SUBSET U PROVE FALSE
    OBVIOUS
  <2>2. Cardinality(1 .. n + 3) <= Cardinality(U)
    <3> HIDE DEF U, n
    <3> QED BY <1>3, <2>1, FS_Subset
  <2> HIDE DEF U, n
  <2> QED BY <1>1, <1>3, <1>4, <2>2
<1>6. Pids(s) = U
  BY DEF Pids
<1>7. FreePid(s) \in 1 .. n + 3 /\ FreePid(s) \notin U
  <2>1. FreePid(s) = CHOOSE pid \in 1 .. n + 3 : pid \notin U
    BY <1>6 DEF FreePid
  <2> HIDE DEF U, n
  <2> QED BY <1>5, <2>1
<1>8. FreePid(s) \in Nat \ {0}
  <2> HIDE DEF U, n
  <2> QED BY <1>1, <1>7
<1> QED BY <1>7, <1>8

(* fork(): a child with a pid of its own.                                   *)
LEMMA WithChildFacts ==
  ASSUME NEW s, Typed(s), NEW pid \in Nat \ {0}, NEW kind \in {"save", "rewrite"}
  PROVE  LET t == WithChild(s, pid, kind)
         IN  /\ Typed(t) /\ Changed(s, t, {"children"})
             /\ DOMAIN t.children = DOMAIN s.children \cup {pid}
             /\ t.children[pid] = [kind |-> kind, life |-> "running", n |-> Len(s.data)]
             /\ \A p \in DOMAIN s.children : p # pid => t.children[p] = s.children[p]
<1> DEFINE t == WithChild(s, pid, kind)
           child == [kind |-> kind, life |-> "running", n |-> Len(s.data)]
           D == DOMAIN s.children \cup {pid}
           fun == [p \in D |-> IF p = pid THEN child ELSE s.children[p]]
<1>1. t = [s EXCEPT !.children = fun]
  BY DEF WithChild, Child
<1>2. Len(s.data) \in Nat
  BY DEF Typed
<1>3. child \in Children
  BY <1>2 DEF Children
<1>4. fun \in [D -> Children] /\ DOMAIN fun = D
  BY <1>3 DEF Typed
<1>5. IsFiniteSet(D) /\ D \subseteq Nat \ {0}
  BY FS_AddElement DEF Typed
<1>6. fun[pid] = child /\ \A p \in DOMAIN s.children : p # pid => fun[p] = s.children[p]
  OBVIOUS
<1> HIDE DEF fun, D
<1>7. Changed(s, t, {"children"}) /\ t.children = fun
  BY <1>1 DEF Typed, IsState, Changed, Fields
<1> HIDE DEF t
<1>8. Typed(t)
  BY <1>4, <1>5, <1>7 DEF Typed, Changed, Fields
<1> QED BY <1>4, <1>6, <1>7, <1>8 DEF t, D

(* wait3(): one child is gone.                                              *)
LEMMA ReapedFacts ==
  ASSUME NEW s, Typed(s), NEW pid
  PROVE  LET t == Reaped(s, pid)
         IN  /\ Typed(t) /\ Changed(s, t, {"children"})
             /\ DOMAIN t.children = DOMAIN s.children \ {pid}
             /\ \A p \in DOMAIN t.children : t.children[p] = s.children[p]
<1> DEFINE t == Reaped(s, pid)
           D == DOMAIN s.children \ {pid}
           fun == [p \in D |-> s.children[p]]
<1>1. t = [s EXCEPT !.children = fun]
  BY DEF Reaped
<1>2. fun \in [D -> Children] /\ DOMAIN fun = D /\ \A p \in D : fun[p] = s.children[p]
  BY DEF Typed
<1>3. IsFiniteSet(D) /\ D \subseteq Nat \ {0}
  BY FS_RemoveElement DEF Typed
<1> HIDE DEF fun, D
<1>4. Changed(s, t, {"children"}) /\ t.children = fun
  BY <1>1 DEF Typed, IsState, Changed, Fields
<1> HIDE DEF t
<1>5. Typed(t)
  BY <1>2, <1>3, <1>4 DEF Typed, Changed, Fields
<1> QED BY <1>2, <1>4, <1>5 DEF t, D

(* The life of one child changes.                                            *)
Lived(s, pid, life) == [s EXCEPT !.children[pid].life = life]

(* No other field and no other child changes.                               *)
LEMMA LivedFacts ==
  ASSUME NEW s, Typed(s), NEW pid \in DOMAIN s.children,
         NEW life \in {"running", "ok", "failed", "signal", "killed"}
  PROVE  LET t == Lived(s, pid, life)
         IN  /\ Typed(t) /\ Changed(s, t, {"children"})
             /\ DOMAIN t.children = DOMAIN s.children
             /\ \A p \in DOMAIN s.children : p # pid => t.children[p] = s.children[p]
             /\ t.children[pid].life = life /\ t.children[pid].kind = s.children[pid].kind
             /\ t.children[pid].n = s.children[pid].n
<1> DEFINE t == Lived(s, pid, life)
           child == [s.children[pid] EXCEPT !.life = life]
           fun == [s.children EXCEPT ![pid] = child]
<1>1. t = [s EXCEPT !.children = fun]
  BY DEF Lived
<1>2. s.children \in [DOMAIN s.children -> Children] /\ s.children[pid] \in Children
  BY DEF Typed
<1>3. child \in Children /\ child.life = life /\ child.kind = s.children[pid].kind
      /\ child.n = s.children[pid].n
  BY <1>2 DEF Children
<1> HIDE DEF child
<1>4. /\ fun \in [DOMAIN s.children -> Children] /\ DOMAIN fun = DOMAIN s.children /\ fun[pid] = child
      /\ \A p \in DOMAIN s.children : p # pid => fun[p] = s.children[p]
  BY <1>2, <1>3
<1> HIDE DEF fun
<1>5. Changed(s, t, {"children"}) /\ t.children = fun
  BY <1>1 DEF Typed, IsState, Changed, Fields
<1> HIDE DEF t
<1>6. Typed(t)
  BY <1>4, <1>5 DEF Typed, Changed, Fields
<1> QED BY <1>3, <1>4, <1>5, <1>6 DEF t

(* Children that are collected, killed or end in another way than well       *)
(* disturb nothing, if the one that rewrites is not taken away.              *)
Fewer(s, t) ==
  \A p \in DOMAIN t.children :
    /\ p \in DOMAIN s.children
    /\ t.children[p].kind = s.children[p].kind /\ t.children[p].n = s.children[p].n
    /\ t.children[p].life = s.children[p].life \/ t.children[p].life \notin {"running", "ok"}

(* Such a change keeps the invariant.                                       *)
LEMMA FewerGood ==
  ASSUME NEW s, NEW c, Good(s, c), NEW t, Typed(t), Changed(s, t, {"children"}),
         Fewer(s, t), s.rewrite # 0 => s.rewrite \in DOMAIN t.children
  PROVE  Good(t, c)
<1>1. /\ t.life = s.life /\ t.left = s.left /\ t.file = s.file /\ t.data = s.data
      /\ t.rewrite = s.rewrite /\ t.save = s.save /\ t.diff = s.diff /\ t.state = s.state
      /\ t.dump = s.dump /\ t.dirty = s.dirty /\ t.before = s.before /\ t.db = s.db
      /\ t.acked = s.acked
  BY DEF Changed, Fields
<1>2. s.life # "up" => DownInv(t, c)
  BY <1>1 DEF Good, DownInv, AckDown
<1>3. ASSUME s.life = "up" PROVE UpInv(t, c)
  <2>1. UpInv(s, c)
    BY <1>3 DEF Good
  <2>2. OnInv(t) /\ OffInv(t, c) /\ AckInv(t)
    BY <2>1 DEF UpInv, OnInv, OffInv, AckInv, Changed, Fields
  <2>3. SaveInv(t)
    BY <1>1, <2>1 DEF UpInv, SaveInv, SaveChild, Fewer
  <2>4. RewriteInv(t)
    <3>1. s.rewrite # 0 => Rewritten(t) = Rewritten(s)
      BY <1>1 DEF Rewritten, Fewer
    <3> QED BY <1>1, <2>1, <3>1 DEF UpInv, RewriteInv
  <2> QED BY <2>2, <2>3, <2>4 DEF UpInv
<1> QED BY <1>1, <1>2, <1>3 DEF Good

(* Fields of the state and the chances, when only some of the fields change. *)
LEMMA LeftFacts ==
  ASSUME NEW s, NEW c, Good(s, c)
  PROVE  \A k \in Chance : s.left[k] \in Nat /\ s.left[k] <= c[k]
BY DEF Good, Typed

(* rewriteAppendOnlyFileBackground(): the child has the dataset as it is,    *)
(* and the differences begin without a database.                             *)
RewriteFields == {"left", "children", "rewrite", "scheduled", "db"}
RewriteStarted(s, c, t) ==
  /\ Good(t, c) /\ Changed(s, t, RewriteFields)
  /\ \A k \in Chance : t.left[k] <= s.left[k]
  /\ s.rewrite = 0 /\ t.rewrite # 0 /\ t.db = NoDatabase
  /\ Whole(Rewritten(t), t.data)

(* What the child writes is the dataset at its fork.                        *)
LEMMA SnapshotWhole ==
  ASSUME NEW n \in Nat, NEW data \in Seq(Databases), n = Len(data)
  PROVE  LET q == <<Snapshot(n)>> \o <<>> IN Sound(q, data) /\ Whole(q, data)
<1> DEFINE one == <<Snapshot(n)>>
<1>1. Loaded(one, data) = [n |-> n, db |-> NoDatabase, half |-> FALSE, bad |-> FALSE]
      /\ Snapshot(n) \in AofItems
  BY LoadsSnapshot
<1>2. one \in Seq(AofItems)
  BY <1>1
<1> HIDE DEF one
<1>3. one \o <<>> = one
  BY <1>2, ConcatEmptySeq
<1>4. Sound(one, data) /\ Whole(one, data)
  BY <1>1 DEF Sound, Whole
<1> QED BY <1>3, <1>4 DEF one

(* The fork of a rewrite keeps the invariant.                               *)
LEMMA RewritingGood ==
  ASSUME NEW s, NEW c \in Chances, Good(s, c), s.life = "up", NEW t \in Rewriting(s)
  PROVE  RewriteStarted(s, c, t)
<1> DEFINE pid == FreePid(s)
           a == Spent(s, "fork")
           b == WithChild(a, pid, "rewrite")
           d == [b EXCEPT !.rewrite = pid, !.scheduled = FALSE]
<1>1. s.rewrite = 0 /\ Can(s, "fork") /\ t = Unselected(d)
  BY DEF Rewriting
<1>2. /\ Typed(s) /\ "fork" \in Chance /\ pid \in Nat \ {0} /\ pid \notin DOMAIN s.children
      /\ pid # s.save
  BY FreePidFacts DEF Good, Chance
<1>3. Good(a, c) /\ Changed(s, a, {"left"}) /\ \A k \in Chance : a.left[k] <= s.left[k]
  BY <1>1, <1>2, SpentGood, SpentFacts
<1> HIDE DEF a, pid
<1>4. /\ Typed(b) /\ Changed(a, b, {"children"})
      /\ DOMAIN b.children = DOMAIN a.children \cup {pid}
      /\ b.children[pid] = [kind |-> "rewrite", life |-> "running", n |-> Len(a.data)]
      /\ \A p \in DOMAIN a.children : p # pid => b.children[p] = a.children[p]
  BY <1>2, <1>3, WithChildFacts DEF Good
<1> HIDE DEF b
<1>5. Changed(b, d, {"rewrite", "scheduled"}) /\ d.rewrite = pid
  BY <1>4 DEF Typed, IsState, Changed, Fields
<1> HIDE DEF d
<1>6. Changed(d, t, {"db"}) /\ t.db = NoDatabase
  BY <1>1, <1>5 DEF IsState, Changed, Fields, Unselected
<1>7. /\ a.children = s.children /\ a.save = s.save /\ a.data = s.data /\ a.life = "up"
      /\ a.rewrite = 0
  BY <1>1, <1>3 DEF Changed, Fields
<1>8. /\ Changed(a, t, {"children", "rewrite", "scheduled", "db"})
      /\ t.rewrite = pid /\ t.children = b.children /\ t.save = a.save /\ t.left = a.left
      /\ t.data = a.data /\ t.diff = a.diff /\ t.life = "up" /\ t.state = a.state
      /\ t.dump = a.dump /\ t.dirty = a.dirty /\ t.before = a.before
  BY <1>4, <1>5, <1>6, <1>7 DEF Changed, Fields
<1>9. Typed(t)
  <2>1. Typed(d)
    BY <1>2, <1>4, <1>5 DEF Typed, Changed, Fields
  <2> QED BY <1>6, <2>1 DEF Typed, Changed, Fields
<1>10. UpInv(a, c)
  BY <1>3, <1>7 DEF Good
<1>11. Sound(Rewritten(t), t.data) /\ Whole(Rewritten(t), t.data)
  <2>1. a.diff = <<>>
    BY <1>7, <1>10 DEF UpInv, RewriteInv
  <2>2. Rewritten(t) = <<Snapshot(Len(a.data))>> \o <<>>
    BY <1>4, <1>8, <2>1 DEF Rewritten
  <2>3. a.data \in Seq(Databases) /\ Len(a.data) \in Nat
    BY <1>3, ItemsOfState DEF Good
  <2>4. LET q == <<Snapshot(Len(a.data))>> \o <<>> IN Sound(q, a.data) /\ Whole(q, a.data)
    BY <2>3, SnapshotWhole
  <2> QED BY <1>8, <2>2, <2>4
<1>12. RewriteInv(t)
  BY <1>2, <1>4, <1>6, <1>7, <1>8, <1>11 DEF RewriteInv, Selected
<1>13. SaveInv(t)
  <2>1. SaveInv(a)
    BY <1>10 DEF UpInv
  <2>2. \A p \in DOMAIN t.children : p # pid => p \in DOMAIN a.children /\ t.children[p] = a.children[p]
    BY <1>4, <1>8
  <2>3. t.children[pid].kind = "rewrite"
    BY <1>4, <1>8
  <2>4. t.save # pid
    BY <1>2, <1>7, <1>8
  <2>5. t.save \in DOMAIN t.children => t.save \in DOMAIN a.children /\ SaveChild(t) = SaveChild(a)
    BY <1>8, <2>2, <2>4 DEF SaveChild
  <2>6. \A p \in DOMAIN t.children :
          t.children[p].kind = "save" /\ t.children[p].life = "running" => p = t.save
    BY <1>8, <2>1, <2>2, <2>3 DEF SaveInv
  <2> QED BY <1>8, <2>1, <2>5, <2>6 DEF SaveInv
<1>14. OnInv(t) /\ OffInv(t, c) /\ AckInv(t)
  <2>1. OnInv(t)
    BY <1>6, <1>8, <1>10 DEF UpInv, OnInv, Selected, Changed, Fields
  <2>2. OffInv(t, c)
    BY <1>8, <1>10 DEF UpInv, OffInv, Changed, Fields
  <2>3. AckInv(t)
    BY <1>8, <1>10 DEF UpInv, AckInv, Changed, Fields
  <2> QED BY <2>1, <2>2, <2>3
<1>15. Good(t, c)
  BY <1>3, <1>8, <1>9, <1>12, <1>13, <1>14 DEF Good, UpInv
<1>16. Changed(s, t, RewriteFields)
  BY <1>3, <1>8 DEF Changed, Fields, RewriteFields
<1> QED BY <1>1, <1>2, <1>3, <1>6, <1>8, <1>11, <1>15, <1>16 DEF RewriteStarted

(* A fork that fails costs a chance only.                                   *)
LEMMA ForkFailsGood ==
  ASSUME NEW s, NEW c \in Chances, Good(s, c), NEW t \in ForkFails(s)
  PROVE  /\ Good(t, c) /\ Changed(s, t, {"left"}) /\ \A k \in Chance : t.left[k] <= s.left[k]
         /\ Can(s, "fault") /\ t = Spent(s, "fault")
<1>1. "fault" \in Chance /\ Typed(s)
  BY DEF Chance, Good
<1>2. Can(s, "fault") /\ t = Spent(s, "fault")
  BY DEF ForkFails
<1>3. Good(t, c) /\ Changed(s, t, {"left"})
  BY <1>1, <1>2, SpentGood
<1>4. \A k \in Chance : t.left[k] <= s.left[k]
  BY <1>1, <1>2, SpentFacts
<1> QED BY <1>2, <1>3, <1>4

(* Both ways, for all who call it.                                          *)
LEMMA RewriteBackgroundGood ==
  ASSUME NEW s, NEW c \in Chances, Good(s, c), s.life = "up", NEW t \in RewriteBackground(s)
  PROVE  Good(t, c)
<1>1. t = s \/ t \in Rewriting(s) \/ t \in ForkFails(s)
  BY DEF RewriteBackground
<1>2. t \in Rewriting(s) => Good(t, c)
  BY RewritingGood DEF RewriteStarted
<1>3. t \in ForkFails(s) => Good(t, c)
  BY ForkFailsGood
<1> QED BY <1>1, <1>2, <1>3

(* rdbSaveBackground().                                                      *)
LEMMA SaveBackgroundGood ==
  ASSUME NEW s, NEW c \in Chances, Good(s, c), s.life = "up", NEW t \in SaveBackground(s)
  PROVE  Good(t, c)
<1> DEFINE pid == FreePid(s)
           a == Spent(s, "bgsave")
           b == WithChild(a, pid, "save")
           d == [b EXCEPT !.save = pid, !.before = s.dirty]
<1>1. \/ t = s
      \/ s.save = 0 /\ Can(s, "bgsave") /\ t = d
      \/ s.save = 0 /\ \E u \in ForkFails(s) : t = [u EXCEPT !.before = s.dirty, !.saved = FALSE]
  BY DEF SaveBackground
<1>2. CASE s.save = 0 /\ Can(s, "bgsave") /\ t = d
  <2>2. /\ Typed(s) /\ "bgsave" \in Chance /\ pid \in Nat \ {0} /\ pid \notin DOMAIN s.children
        /\ pid # s.rewrite
    BY FreePidFacts DEF Good, Chance
  <2>3. Good(a, c) /\ Changed(s, a, {"left"}) /\ \A k \in Chance : a.left[k] <= s.left[k]
    BY <1>2, <2>2, SpentGood, SpentFacts
  <2> HIDE DEF a, pid
  <2>4. /\ Typed(b) /\ Changed(a, b, {"children"})
        /\ DOMAIN b.children = DOMAIN a.children \cup {pid}
        /\ b.children[pid] = [kind |-> "save", life |-> "running", n |-> Len(a.data)]
        /\ \A p \in DOMAIN a.children : p # pid => b.children[p] = a.children[p]
    BY <2>2, <2>3, WithChildFacts DEF Good
  <2> HIDE DEF b
  <2>5. Changed(b, t, {"save", "before"}) /\ t.save = pid /\ t.before = s.dirty
    BY <1>2, <2>4 DEF Typed, IsState, Changed, Fields
  <2>6. /\ a.children = s.children /\ a.save = 0 /\ a.data = s.data /\ a.life = "up"
        /\ a.rewrite = s.rewrite /\ a.dirty = s.dirty
    BY <1>2, <2>3 DEF Changed, Fields
  <2>7. /\ Changed(a, t, {"children", "save", "before"})
        /\ t.children = b.children /\ t.left = a.left /\ t.rewrite = a.rewrite
        /\ t.data = a.data /\ t.diff = a.diff /\ t.life = "up" /\ t.state = a.state
        /\ t.dump = a.dump /\ t.dirty = a.dirty /\ t.db = a.db
    BY <2>4, <2>5, <2>6 DEF Changed, Fields
  <2>8. Typed(t)
    <3>1. s.dirty \in Nat
      BY <2>2 DEF Typed
    <3> QED BY <2>2, <2>4, <2>5, <3>1 DEF Typed, Changed, Fields
  <2>9. UpInv(a, c) /\ Typed(a)
    BY <2>3, <2>6 DEF Good
  <2>10. \A p \in DOMAIN t.children : p # pid => p \in DOMAIN a.children /\ t.children[p] = a.children[p]
    BY <2>4, <2>7
  <2>11. RewriteInv(t)
    <3>1. a.rewrite # 0 => a.rewrite \in DOMAIN t.children /\ Rewritten(t) = Rewritten(a)
      BY <2>2, <2>4, <2>6, <2>7, <2>9 DEF UpInv, RewriteInv, Rewritten
    <3> QED BY <2>2, <2>5, <2>6, <2>7, <2>9, <3>1 DEF UpInv, RewriteInv
  <2>12. SaveInv(t)
    <3>1. SaveInv(a) /\ 0 \notin DOMAIN a.children
      BY <2>9 DEF UpInv, Typed
    <3>2. SaveChild(t) = [kind |-> "save", life |-> "running", n |-> Len(a.data)]
      BY <2>4, <2>5, <2>7 DEF SaveChild
    <3>3. \A p \in DOMAIN t.children :
            t.children[p].kind = "save" /\ t.children[p].life = "running" => p = t.save
      BY <2>5, <2>6, <2>10, <3>1 DEF SaveInv
    <3>4. Len(t.data) + t.before <= SaveChild(t).n + t.dirty /\ SaveChild(t).n <= Len(t.data)
      <4>1. Len(a.data) \in Nat /\ a.dirty \in Nat
        BY <2>9 DEF Typed
      <4> QED BY <2>5, <2>6, <2>7, <3>2, <4>1
    <3> QED BY <2>7, <3>1, <3>2, <3>3, <3>4 DEF SaveInv
  <2>13. OnInv(t) /\ OffInv(t, c) /\ AckInv(t)
    <3>1. OnInv(t)
      BY <2>7, <2>9 DEF UpInv, OnInv, Changed, Fields
    <3>2. OffInv(t, c)
      BY <2>7, <2>9 DEF UpInv, OffInv, Changed, Fields
    <3>3. AckInv(t)
      BY <2>7, <2>9 DEF UpInv, AckInv, Changed, Fields
    <3> QED BY <3>1, <3>2, <3>3
  <2> QED BY <2>3, <2>7, <2>8, <2>11, <2>12, <2>13 DEF Good, UpInv
<1>3. ASSUME s.save = 0, NEW u \in ForkFails(s), t = [u EXCEPT !.before = s.dirty, !.saved = FALSE]
      PROVE  Good(t, c)
  <2>1. Good(u, c) /\ Changed(s, u, {"left"})
    BY ForkFailsGood
  <2>2. Typed(u) /\ u.life = "up" /\ u.save = 0 /\ s.dirty \in Nat
    BY <1>3, <2>1 DEF Good, Typed, Changed, Fields
  <2>3. Changed(u, t, {"before", "saved"}) /\ t.before = s.dirty
    BY <1>3, <2>2 DEF Typed, IsState, Changed, Fields
  <2>4. Typed(t) /\ t.life = "up" /\ t.left = u.left
    BY <2>2, <2>3 DEF Typed, Changed, Fields
  <2>5. UpInv(u, c)
    BY <2>1, <2>2 DEF Good
  <2>6. OnInv(t) /\ OffInv(t, c)
    BY <2>3, <2>5 DEF UpInv, OnInv, OffInv, Changed, Fields
  <2>7. RewriteInv(t) /\ AckInv(t)
    BY <2>3, <2>5 DEF UpInv, RewriteInv, Rewritten, AckInv, Changed, Fields
  <2>8. SaveInv(t)
    BY <2>2, <2>3, <2>5 DEF UpInv, SaveInv, Changed, Fields
  <2> QED BY <2>1, <2>4, <2>6, <2>7, <2>8 DEF Good, UpInv
<1> QED BY <1>1, <1>2, <1>3

(* A rdbSave() in the server: the dataset is in dump.rdb.                    *)
LEMMA SaveNowFacts ==
  ASSUME NEW s, Typed(s)
  PROVE  LET t == SaveNow(s)
         IN  /\ Typed(t) /\ Changed(s, t, {"dump", "dirty", "saved"})
             /\ t.dump = Len(s.data) /\ t.dirty = 0
<1> DEFINE t == SaveNow(s)
<1>1. Changed(s, t, {"dump", "dirty", "saved"}) /\ t.dump = Len(s.data) /\ t.dirty = 0
  BY DEF Typed, IsState, Changed, Fields, SaveNow
<1>2. Len(s.data) \in Nat
  BY DEF Typed
<1> HIDE DEF t
<1>3. Typed(t)
  <2>1. Changed(s, t, {"dump", "dirty", "saved"})
    BY <1>1
  <2>2. t.dump \in Nat /\ t.dirty \in Nat
    BY <1>1, <1>2
  <2> QED BY <2>1, <2>2 DEF Typed, Changed, Fields
<1> QED BY <1>1, <1>3 DEF t

(* SAVE keeps the invariant.                                                *)
LEMMA SaveNowGood ==
  ASSUME NEW s, NEW c, Good(s, c), s.life = "up", s.save = 0
  PROVE  Good(SaveNow(s), c)
<1> DEFINE t == SaveNow(s)
<1>1. /\ Typed(s) /\ Typed(t) /\ Changed(s, t, {"dump", "dirty", "saved"})
      /\ t.dump = Len(s.data) /\ t.dirty = 0 /\ Len(s.data) \in Nat
  BY SaveNowFacts DEF Good, Typed
<1> HIDE DEF t
<1>2. t.life = "up" /\ t.left = s.left /\ t.save = 0 /\ t.data = s.data /\ t.children = s.children
  BY <1>1 DEF Changed, Fields
<1>3. UpInv(s, c)
  BY DEF Good
<1>4. OnInv(t) /\ OffInv(t, c)
  BY <1>1, <1>3 DEF UpInv, OnInv, OffInv, Changed, Fields
<1>5. RewriteInv(t) /\ AckInv(t)
  BY <1>1, <1>3 DEF UpInv, RewriteInv, Rewritten, AckInv, Changed, Fields
<1>6. SaveInv(t)
  BY <1>1, <1>2, <1>3 DEF UpInv, SaveInv
<1> QED BY <1>1, <1>2, <1>4, <1>5, <1>6 DEF Good, UpInv, t

(* backgroundSaveDoneHandlerDisk(), for the child that was collected.        *)
LEMMA SaveDoneGood ==
  ASSUME NEW s, NEW c, Good(s, c), s.life = "up", s.save # 0, s.save \in DOMAIN s.children
  PROVE  Good(SaveDone(Reaped(s, s.save), s.children[s.save].life), c)
<1> DEFINE life == s.children[s.save].life
           r == Reaped(s, s.save)
           dirty == IF life = "ok" THEN r.dirty - r.before ELSE r.dirty
           saved == IF life = "killed" THEN r.saved ELSE life = "ok"
           t == [r EXCEPT !.save = 0, !.dirty = dirty, !.saved = saved]
<1>1. Typed(s) /\ UpInv(s, c)
  BY DEF Good
<1>2. /\ Typed(r) /\ Changed(s, r, {"children"}) /\ DOMAIN r.children = DOMAIN s.children \ {s.save}
      /\ \A p \in DOMAIN r.children : r.children[p] = s.children[p]
  BY <1>1, ReapedFacts
<1>3. SaveDone(r, life) = t
  BY DEF SaveDone
<1> HIDE DEF r
<1>4. Changed(r, t, {"save", "dirty", "saved"}) /\ t.save = 0 /\ t.dirty = dirty
  <2> HIDE DEF dirty, saved
  <2> QED BY <1>2 DEF Typed, IsState, Changed, Fields
<1> HIDE DEF t
<1>5. /\ r.dirty = s.dirty /\ r.before = s.before /\ r.life = "up" /\ r.left = s.left /\ r.data = s.data
      /\ r.rewrite = s.rewrite /\ r.diff = s.diff /\ r.state = s.state /\ r.db = s.db
  BY <1>2 DEF Changed, Fields
<1>6. /\ Changed(s, t, {"children", "save", "dirty", "saved"})
      /\ t.life = "up" /\ t.left = s.left /\ t.data = s.data /\ t.children = r.children
      /\ t.rewrite = s.rewrite /\ t.diff = s.diff /\ t.state = s.state /\ t.dump = s.dump /\ t.db = s.db
  BY <1>2, <1>4, <1>5 DEF Changed, Fields
<1>7. /\ SaveChild(s).n \in Nat /\ s.dirty \in Nat /\ s.before \in Nat /\ Len(s.data) \in Nat
      /\ s.dump \in Nat
  BY <1>1 DEF Typed, Children, SaveChild
<1>8. /\ SaveChild(s).n <= Len(s.data) /\ Len(s.data) + s.before <= SaveChild(s).n + s.dirty
      /\ life = "ok" => s.dump = SaveChild(s).n
      /\ Len(s.data) <= s.dump + s.dirty
  BY <1>1 DEF UpInv, SaveInv, SaveChild
<1>9. dirty \in Nat /\ Len(s.data) <= s.dump + dirty
  <2>1. dirty = IF life = "ok" THEN s.dirty - s.before ELSE s.dirty
    BY <1>5
  <2> HIDE DEF dirty, life
  <2> QED BY <1>7, <1>8, <2>1
<1> HIDE DEF dirty
<1>10. Typed(t)
  <2>1. Typed(r) /\ Changed(r, t, {"save", "dirty", "saved"})
    BY <1>2, <1>4
  <2>2. t.save \in Nat /\ t.dirty \in Nat
    BY <1>4, <1>9
  <2> QED BY <2>1, <2>2 DEF Typed, Changed, Fields
<1>11. SaveInv(t)
  <2>1. \A p \in DOMAIN t.children :
          ~(t.children[p].kind = "save" /\ t.children[p].life = "running")
    BY <1>1, <1>2, <1>6 DEF UpInv, SaveInv
  <2> QED BY <1>4, <1>6, <1>9, <2>1 DEF SaveInv
<1>12. RewriteInv(t)
  <2>1. s.rewrite # 0 => s.rewrite \in DOMAIN t.children /\ Rewritten(t) = Rewritten(s)
    BY <1>1, <1>2, <1>6 DEF UpInv, RewriteInv, Rewritten
  <2> QED BY <1>1, <1>4, <1>6, <2>1 DEF UpInv, RewriteInv
<1>13. OnInv(t) /\ OffInv(t, c) /\ AckInv(t)
  <2>1. OnInv(t)
    BY <1>1, <1>6 DEF UpInv, OnInv, Changed, Fields
  <2>2. OffInv(t, c)
    BY <1>1, <1>6 DEF UpInv, OffInv, Changed, Fields
  <2>3. AckInv(t)
    BY <1>1, <1>6 DEF UpInv, AckInv, Changed, Fields
  <2> QED BY <2>1, <2>2, <2>3
<1> QED BY <1>3, <1>6, <1>10, <1>11, <1>12, <1>13 DEF Good, UpInv, r

(* A rewrite that ends without a file for the server: what was kept for it   *)
(* is dropped.                                                               *)
LEMMA ForgottenFacts ==
  ASSUME NEW s, Typed(s)
  PROVE  LET t == Forgotten(s)
         IN  /\ Typed(t) /\ Changed(s, t, {"diff", "rewrite", "scheduled"})
             /\ t.diff = <<>> /\ t.rewrite = 0
<1> DEFINE t == Forgotten(s)
<1>1. Changed(s, t, {"diff", "rewrite", "scheduled"}) /\ t.diff = <<>> /\ t.rewrite = 0
  <2> DEFINE x == s.scheduled \/ s.state = "wait"
  <2>1. t = [s EXCEPT !.diff = <<>>, !.rewrite = 0, !.scheduled = x]
    BY DEF Forgotten
  <2> HIDE DEF x, t
  <2> QED BY <2>1 DEF Typed, IsState, Changed, Fields
<1>2. <<>> \in Seq(BufItems)
  OBVIOUS
<1> HIDE DEF t
<1>3. Typed(t)
  <2>1. Changed(s, t, {"diff", "rewrite", "scheduled"})
    BY <1>1
  <2>2. t.rewrite \in Nat /\ t.diff \in Seq(BufItems)
    BY <1>1, <1>2
  <2> QED BY <2>1, <2>2 DEF Typed, Changed, Fields
<1> QED BY <1>1, <1>3 DEF t

(* All of the invariant but the part about the rewrite.                      *)
But(s, c) ==
  /\ Typed(s) /\ s.life = "up" /\ \A k \in Chance : s.left[k] <= c[k]
  /\ OnInv(s) /\ OffInv(s, c) /\ AckInv(s) /\ SaveInv(s)

(* It makes good whatever the part about the rewrite was.                   *)
LEMMA ForgottenGood ==
  ASSUME NEW s, NEW c, But(s, c)
  PROVE  Good(Forgotten(s), c)
<1> DEFINE t == Forgotten(s)
<1>1. Typed(t) /\ Changed(s, t, {"diff", "rewrite", "scheduled"}) /\ t.diff = <<>> /\ t.rewrite = 0
  BY ForgottenFacts DEF But
<1> HIDE DEF t
<1>2. RewriteInv(t)
  BY <1>1 DEF RewriteInv
<1>3. OnInv(t)
  BY <1>1 DEF But, OnInv, Changed, Fields
<1>4. OffInv(t, c)
  BY <1>1 DEF But, OffInv, Changed, Fields
<1>5. AckInv(t)
  BY <1>1 DEF But, AckInv, Changed, Fields
<1>6. SaveInv(t)
  BY <1>1 DEF But, SaveInv, SaveChild, Changed, Fields
<1>7. t.life = "up" /\ t.left = s.left
  BY <1>1 DEF But, Changed, Fields
<1> QED BY <1>1, <1>2, <1>3, <1>4, <1>5, <1>6, <1>7 DEF But, Good, UpInv, t

(* The rewriting child is collected: all but the part about it stays.       *)
LEMMA ReapedBut ==
  ASSUME NEW s, NEW c, Good(s, c), s.life = "up", NEW pid
  PROVE  But(Reaped(s, pid), c)
<1> DEFINE t == Reaped(s, pid)
<1>1. /\ Typed(t) /\ Changed(s, t, {"children"})
      /\ DOMAIN t.children = DOMAIN s.children \ {pid}
      /\ \A p \in DOMAIN t.children : t.children[p] = s.children[p]
  BY ReapedFacts DEF Good
<1> HIDE DEF t
<1>2. OnInv(t)
  BY <1>1 DEF Good, UpInv, OnInv, Changed, Fields
<1>3. OffInv(t, c)
  BY <1>1 DEF Good, UpInv, OffInv, Changed, Fields
<1>4. AckInv(t)
  BY <1>1 DEF Good, UpInv, AckInv, Changed, Fields
<1>5. /\ t.life = "up" /\ t.left = s.left /\ t.save = s.save /\ t.data = s.data /\ t.dump = s.dump
      /\ t.dirty = s.dirty /\ t.before = s.before
  BY <1>1 DEF Changed, Fields
<1>6. SaveInv(t)
  BY <1>1, <1>5 DEF Good, UpInv, SaveInv, SaveChild
<1> QED BY <1>1, <1>2, <1>3, <1>4, <1>5, <1>6 DEF Good, But, t

(* And so when a chance is spent.                                           *)
LEMMA SpentBut ==
  ASSUME NEW s, NEW c \in Chances, But(s, c), NEW t \in ForkFails(s)
  PROVE  But(t, c)
<1>1. "fault" \in Chance /\ Typed(s) /\ Can(s, "fault") /\ t = Spent(s, "fault")
  BY DEF Chance, But, ForkFails
<1>2. /\ Typed(t) /\ Changed(s, t, {"left"})
      /\ \A k \in Chance : t.left[k] \in Nat /\ t.left[k] <= s.left[k]
  BY <1>1, SpentFacts
<1>3. s.left \in [Chance -> Nat]
  BY <1>1 DEF Typed
<1>4. \A k \in Chance : t.left[k] <= c[k]
  <2> TAKE k \in Chance
  <2>1. c \in [Chance -> Nat]
    BY PersistenceAssumption
  <2>2. s.left[k] \in Nat /\ t.left[k] \in Nat /\ c[k] \in Nat
    BY <1>2, <1>3, <2>1
  <2>3. t.left[k] <= s.left[k] /\ s.left[k] <= c[k]
    BY <1>2 DEF But
  <2> HIDE DEF But
  <2> QED BY <2>2, <2>3
<1>5. OnInv(t) /\ AckInv(t)
  BY <1>2 DEF But, OnInv, AckInv, Changed, Fields
<1>6. SaveInv(t)
  BY <1>2 DEF But, SaveInv, SaveChild, Changed, Fields
<1>7. OffInv(t, c)
  <2>1. s.left["toggle"] = 0 => t.left["toggle"] = 0
    <3>1. t.left["toggle"] \in Nat /\ t.left["toggle"] <= s.left["toggle"]
      BY <1>2 DEF Chance
    <3> QED BY <3>1
  <2> QED BY <1>2, <2>1 DEF But, OffInv, Changed, Fields
<1>8. t.life = "up"
  BY <1>2 DEF But, Changed, Fields
<1> QED BY <1>2, <1>4, <1>5, <1>6, <1>7, <1>8 DEF But

(* backgroundRewriteDoneHandler(): the file of the child, with what was      *)
(* executed since the fork, becomes the append only file.                    *)
LEMMA RenamedFacts ==
  ASSUME NEW s, Typed(s), NEW n \in Nat
  PROVE  LET t == Renamed(s, n)
         IN  /\ Typed(t) /\ Changed(s, t, {"file", "synced"})
             /\ t.file = <<Snapshot(n)>> \o s.diff
<1> DEFINE t == Renamed(s, n)
           f == <<Snapshot(n)>> \o s.diff
<1>1. f \in Seq(AofItems)
  BY RewrittenTyped DEF Typed
<1>2. t = [s EXCEPT !.file = f, !.synced = 1]
  BY DEF Renamed
<1> HIDE DEF f, t
<1>3. Changed(s, t, {"file", "synced"}) /\ t.file = f /\ t.synced = 1
  BY <1>2 DEF Typed, IsState, Changed, Fields
<1>4. Typed(t)
  <2>1. Changed(s, t, {"file", "synced"})
    BY <1>3
  <2>2. t.file \in Seq(AofItems) /\ t.synced \in Nat
    BY <1>1, <1>3
  <2> QED BY <2>1, <2>2 DEF Typed, Changed, Fields
<1> QED BY <1>3, <1>4 DEF t, f

(* What the descriptor of the new file changes.                             *)
LEMMA SwitchedFacts ==
  ASSUME NEW s, Typed(s)
  PROVE  LET t == SwitchedFd(s)
         IN  /\ Typed(t) /\ Changed(s, t, {"fd", "db", "size", "buf", "synced", "fsyncs"})
             /\ t.fd = "open" /\ t.db = NoDatabase /\ t.size = Len(s.file) /\ t.buf = <<>>
             /\ policy = "always" => t.synced = Len(s.file)
<1> DEFINE t == SwitchedFd(s)
           synced == IF policy = "always" THEN Len(s.file) ELSE s.synced
           fsyncs == OldFsyncs(s) \o (IF policy = "everysec" THEN <<"todo">> ELSE <<>>)
<1>1. Len(s.file) \in Nat /\ synced \in Nat /\ <<>> \in Seq(BufItems)
  BY DEF Typed
<1>2. t = [s EXCEPT !.fd = "open", !.db = NoDatabase, !.size = Len(s.file), !.buf = <<>>,
                    !.synced = synced, !.fsyncs = fsyncs]
  BY DEF SwitchedFd
<1>3. policy = "always" => synced = Len(s.file)
  OBVIOUS
<1> HIDE DEF synced, fsyncs, t
<1>4. /\ Changed(s, t, {"fd", "db", "size", "buf", "synced", "fsyncs"})
      /\ t.fd = "open" /\ t.db = NoDatabase /\ t.size = Len(s.file) /\ t.buf = <<>> /\ t.synced = synced
  BY <1>2 DEF Typed, IsState, Changed, Fields
<1>5. Typed(t)
  <2>1. Changed(s, t, {"fd", "db", "size", "buf", "synced", "fsyncs"})
    BY <1>4
  <2>2. /\ t.fd \in {"open", "none", "stale"} /\ t.db \in Databases \cup {NoDatabase}
        /\ t.size \in Nat /\ t.buf \in Seq(BufItems) /\ t.synced \in Nat
    BY <1>1, <1>4
  <2> QED BY <2>1, <2>2 DEF Typed, Changed, Fields
<1> QED BY <1>3, <1>4, <1>5 DEF t

(* The new file is good for all but the child that is gone.                 *)
LEMMA InstalledBut ==
  ASSUME NEW s, NEW c, But(s, c), NEW n \in Nat,
         Sound(<<Snapshot(n)>> \o s.diff, s.data),
         s.state # "off" => Whole(<<Snapshot(n)>> \o s.diff, s.data)
  PROVE  But(Installed(s, n), c)
<1> DEFINE f == <<Snapshot(n)>> \o s.diff
           a == Renamed(s, n)
           b == IF s.fd = "none" THEN a ELSE SwitchedFd(a)
           state == IF b.state = "wait" THEN "on" ELSE b.state
           t == Installed(s, n)
<1>1. Typed(a) /\ Changed(s, a, {"file", "synced"}) /\ a.file = f
  BY RenamedFacts DEF But
<1>2. t = [b EXCEPT !.state = state]
  BY DEF Installed, TurnedOn
<1>3. f \in Seq(AofItems) /\ Len(f) \in Nat /\ s.data \in Seq(Databases) /\ Len(s.data) \in Nat
  <2>1. s.diff \in Seq(BufItems) /\ s.data \in Seq(Databases)
    BY DEF Typed, But
  <2>2. f \in Seq(AofItems)
    BY <2>1, RewrittenTyped
  <2> HIDE DEF f
  <2> QED BY <2>1, <2>2
<1>4. Sound(f, s.data) /\ (s.state # "off" => Whole(f, s.data))
  OBVIOUS
<1> HIDE DEF f, a, t
<1>5. CASE s.fd = "none"
  <2>1. b = a /\ s.state = "off"
    BY <1>5 DEF But, OnInv, OffInv, Typed
  <2> HIDE DEF b
  <2>2. a.state = "off"
    BY <1>1, <2>1 DEF Changed, Fields
  <2>3. state = "off"
    BY <2>1, <2>2
  <2> HIDE DEF state
  <2>4. Changed(a, t, {"state"}) /\ t.state = "off"
    BY <1>1, <1>2, <2>1, <2>3 DEF Typed, IsState, Changed, Fields
  <2>5. Typed(t)
    BY <1>1, <2>4 DEF Typed, Changed, Fields
  <2>6. /\ Changed(s, t, {"file", "synced", "state"}) /\ t.file = f /\ t.buf = s.buf /\ t.fd = s.fd
        /\ t.left = s.left /\ t.data = s.data /\ t.life = s.life /\ t.acked = s.acked
    BY <1>1, <2>4 DEF Changed, Fields
  <2>7. OnInv(t) /\ AckInv(t)
    BY <2>4, <2>6 DEF OnInv, AckInv, But
  <2>8. OffInv(t, c)
    BY <1>4, <2>1, <2>4, <2>6 DEF OffInv, But
  <2>9. SaveInv(t)
    BY <2>6 DEF But, SaveInv, SaveChild, Changed, Fields
  <2> QED BY <2>5, <2>6, <2>7, <2>8, <2>9 DEF But, t
<1>6. CASE s.fd # "none"
  <2>1. b = SwitchedFd(a)
    BY <1>6
  <2>2. /\ Typed(b) /\ Changed(a, b, {"fd", "db", "size", "buf", "synced", "fsyncs"})
        /\ b.fd = "open" /\ b.db = NoDatabase /\ b.size = Len(a.file) /\ b.buf = <<>>
        /\ policy = "always" => b.synced = Len(a.file)
    BY <1>1, <2>1, SwitchedFacts
  <2> HIDE DEF b
  <2>3. b.file = f /\ b.state = s.state
    BY <1>1, <2>2 DEF Changed, Fields
  <2>4. state \in {"on", "off"} /\ (state = "off" <=> s.state = "off")
    BY <2>3 DEF But, Typed
  <2> HIDE DEF state
  <2>5. Changed(b, t, {"state"}) /\ t.state = state
    BY <1>2, <2>2 DEF Typed, IsState, Changed, Fields
  <2>6. Typed(t)
    BY <2>2, <2>4, <2>5 DEF Typed, Changed, Fields
  <2>7. /\ Changed(s, t, {"file", "synced", "state", "fd", "db", "size", "buf", "fsyncs"})
        /\ t.file = f /\ t.buf = <<>> /\ t.fd = "open" /\ t.db = NoDatabase /\ t.size = Len(f)
        /\ t.left = s.left /\ t.data = s.data /\ t.life = s.life /\ t.acked = s.acked
    BY <1>1, <2>2, <2>5 DEF Changed, Fields
  <2>8. policy = "always" => t.synced = Len(f)
    BY <1>1, <2>2, <2>5 DEF Changed, Fields
  <2>9. f \o t.buf = f
    BY <1>3, <2>7, ConcatEmptySeq
  <2>10. OnInv(t)
    BY <1>4, <2>4, <2>5, <2>7, <2>9 DEF OnInv, Selected
  <2>11. OffInv(t, c)
    BY <1>4, <2>4, <2>5, <2>7 DEF OffInv
  <2>12. AckInv(t)
    <3>1. s.acked <= Len(s.data)
      BY DEF But, AckInv
    <3>2. state = "on" => Loaded(f, s.data).n = Len(s.data)
      BY <1>4, <2>4 DEF Whole
    <3> QED BY <2>5, <2>7, <2>8, <3>1, <3>2 DEF AckInv
  <2>13. SaveInv(t)
    BY <2>7 DEF But, SaveInv, SaveChild, Changed, Fields
  <2> QED BY <2>6, <2>7, <2>10, <2>11, <2>12, <2>13 DEF But, t
<1> QED BY <1>5, <1>6

(* A buffer that was turned off with data in it and on again is written into *)
(* the wrong file, so the scenarios in which both may happen do not go on    *)
(* after the process.                                                        *)
NoStaleBuffers ==
  \A c \in Chances : c["toggle"] > 1 /\ c["fault"] > 0 => c["crash"] = 0 /\ c["shutdown"] = 0

(* The process is gone: its file is what matters.                            *)
LEMMA GoneGood ==
  ASSUME NEW s, NEW c, Good(s, c), s.life = "up", ~Stale(c), NEW t, Typed(t), t.life # "up",
         t.left = s.left, t.data = s.data, Sound(t.file, s.data), AckDown(t)
  PROVE  Good(t, c)
BY DEF Good, DownInv

(* What is in front of a file that can be loaded can be loaded.              *)
LEMMA FrontIsSound ==
  ASSUME NEW data \in Seq(Databases), NEW q \in Seq(AofItems), Sound(q, data), NEW k \in 0 .. Len(q)
  PROVE  SubSeq(q, 1, k) \in Seq(AofItems) /\ Sound(SubSeq(q, 1, k), data)
<1> DEFINE n == Len(q)
           p == SubSeq(q, 1, k)
           r == SubSeq(q, k + 1, n)
<1>1. n \in Nat /\ Len(data) \in Nat /\ k \in Nat /\ k <= n
  OBVIOUS
<1>2. \A i \in 1 .. n : q[i] \in AofItems
  BY ElementOfSeq
<1>3. p \in Seq(AofItems)
  <2>1. 1 \in Int /\ k \in Int /\ \A i \in 1 .. k : q[i] \in AofItems
    BY <1>1, <1>2
  <2> QED BY <2>1, SubSeqProperties, Zenon
<1>4. r \in Seq(AofItems)
  <2>1. k + 1 \in Int /\ n \in Int /\ \A i \in k + 1 .. n : q[i] \in AofItems
    BY <1>1, <1>2
  <2> QED BY <2>1, SubSeqProperties, Zenon
<1>5. p \o r = q
  <2>1. 1 \in 1 .. n + 1 /\ k \in 1 - 1 .. n /\ n \in k .. n
    BY <1>1
  <2>2. SubSeq(q, 1, k) \o SubSeq(q, k + 1, n) = SubSeq(q, 1, n)
    BY <2>1, ConcatAdjacentSubSeq
  <2>3. SubSeq(q, 1, n) = q
    BY SubSeqFull
  <2> QED BY <2>2, <2>3
<1> HIDE DEF p, r
<1>6. ~Loaded(p, data).bad /\ Loaded(p, data).n <= Loaded(q, data).n
  <2>1. ~Loaded(p \o r, data).bad
    BY <1>5 DEF Sound
  <2> QED BY <1>3, <1>4, <1>5, <2>1, LoadedPrefix
<1>7. Loaded(p, data).n \in Nat /\ Loaded(q, data).n \in Nat
  BY <1>3, LoadingFacts, LoadsTyped DEF Loaded, Results
<1>8. Sound(p, data)
  BY <1>1, <1>6, <1>7 DEF Sound
<1> QED BY <1>3, <1>8 DEF p

(* The process ends in the middle of the switch, before the fsync: what the  *)
(* disk has of the new file can be loaded.                                   *)
LEMMA StoppedGood ==
  ASSUME NoStaleBuffers, NEW s, NEW c \in Chances, But(s, c), NEW n \in Nat,
         Sound(<<Snapshot(n)>> \o s.diff, s.data), NEW t \in StoppedSwitching(s, n)
  PROVE  Good(t, c)
<1> DEFINE f == <<Snapshot(n)>> \o s.diff
           a == Renamed(s, n)
           u == Spent(a, "crash")
<1>1. Typed(a) /\ Changed(s, a, {"file", "synced"}) /\ a.file = f
  BY RenamedFacts DEF But
<1>2. f \in Seq(AofItems) /\ s.data \in Seq(Databases) /\ Sound(f, s.data)
  <2>1. s.diff \in Seq(BufItems) /\ s.data \in Seq(Databases)
    BY DEF Typed, But
  <2> QED BY <2>1, RewrittenTyped
<1> HIDE DEF f
<1>3. s.left["crash"] > 0 /\ "crash" \in Chance
  BY DEF StoppedSwitching, Can, Chance
<1>4. PICK k \in 1 .. Len(f) : t = [u EXCEPT !.life = "switching", !.file = SubSeq(u.file, 1, k)]
  BY <1>1 DEF StoppedSwitching
<1> HIDE DEF a
<1>5. a.left = s.left /\ a.data = s.data
  BY <1>1 DEF Changed, Fields
<1>6. /\ Typed(u) /\ Changed(a, u, {"left"})
      /\ \A j \in Chance : u.left[j] \in Nat /\ u.left[j] <= a.left[j]
  BY <1>1, <1>3, <1>5, SpentFacts DEF Can
<1> HIDE DEF u
<1>7. u.file = f /\ u.data = s.data
  BY <1>1, <1>5, <1>6 DEF Changed, Fields
<1>8. /\ Changed(u, t, {"life", "file"}) /\ t.life = "switching" /\ t.file = SubSeq(f, 1, k)
      /\ t.left = u.left
  BY <1>4, <1>6, <1>7 DEF Typed, IsState, Changed, Fields
<1>9. SubSeq(f, 1, k) \in Seq(AofItems) /\ Sound(SubSeq(f, 1, k), s.data)
  <2>1. k \in 0 .. Len(f)
    BY <1>2, <1>4
  <2> QED BY <1>2, <2>1, FrontIsSound
<1>10. Typed(t)
  BY <1>6, <1>8, <1>9 DEF Typed, Changed, Fields
<1>11. \A j \in Chance : t.left[j] <= c[j]
  <2> TAKE j \in Chance
  <2>1. u.left[j] \in Nat /\ u.left[j] <= s.left[j] /\ s.left[j] <= c[j]
    BY <1>5, <1>6 DEF But
  <2>2. s.left[j] \in Nat /\ c[j] \in Nat
    BY PersistenceAssumption DEF But, Typed
  <2> QED BY <1>8, <2>1, <2>2
<1>12. ~Stale(c)
  <2>1. c["crash"] > 0
    <3>1. s.left["crash"] \in Nat /\ s.left["crash"] <= c["crash"] /\ c["crash"] \in Nat
      BY <1>3, PersistenceAssumption DEF But, Typed
    <3> QED BY <1>3, <3>1
  <2> QED BY <2>1 DEF NoStaleBuffers, Stale
<1>13. t.data = s.data
  BY <1>7, <1>8 DEF Changed, Fields
<1> QED BY <1>8, <1>9, <1>10, <1>11, <1>12, <1>13 DEF Good, DownInv, AckDown

(* The end of a rewrite, well or not, keeps the invariant.                  *)
LEMMA RewriteDoneGood ==
  ASSUME NoStaleBuffers, NEW s, NEW c \in Chances, Good(s, c), s.life = "up", s.rewrite # 0,
         s.rewrite \in DOMAIN s.children,
         NEW t \in RewriteDone(Reaped(s, s.rewrite), s.children[s.rewrite].life,
                               s.children[s.rewrite].n)
  PROVE  Good(t, c)
<1> DEFINE r == Reaped(s, s.rewrite)
           n == s.children[s.rewrite].n
<1>1. But(r, c)
  BY ReapedBut
<1>2. Typed(s) /\ n \in Nat
  BY DEF Good, Typed, Children
<1>3. Changed(s, r, {"children"})
  BY <1>2, ReapedFacts
<1>4. \/ t = Forgotten(r)
      \/ t = Forgotten(Installed(r, n))
      \/ t \in StoppedSwitching(r, n)
      \/ \E u \in ForkFails(r) : t = Forgotten(u)
  BY DEF RewriteDone
<1>5. r.diff = s.diff /\ r.data = s.data /\ r.state = s.state
  BY <1>3 DEF Changed, Fields
<1>6. /\ Sound(<<Snapshot(n)>> \o r.diff, r.data)
      /\ r.state # "off" => Whole(<<Snapshot(n)>> \o r.diff, r.data)
  BY <1>5 DEF Good, UpInv, RewriteInv, Rewritten
<1> HIDE DEF r, n
<1>7. But(Installed(r, n), c)
  BY <1>1, <1>2, <1>6, InstalledBut
<1>8. \A u \in ForkFails(r) : But(u, c)
  BY <1>1, SpentBut
<1>9. t \in StoppedSwitching(r, n) => Good(t, c)
  BY <1>1, <1>2, <1>6, StoppedGood
<1> QED BY <1>1, <1>4, <1>7, <1>8, <1>9, ForgottenGood

(* serverCron(): wait3().                                                    *)
LEMMA CollectGood ==
  ASSUME NoStaleBuffers, NEW s, NEW c \in Chances, Good(s, c), s.life = "up", NEW t \in Collect(s)
  PROVE  Good(t, c)
<1>1. Typed(s) /\ UpInv(s, c)
  BY DEF Good
<1>2. \/ t = s
      \/ t = Forgotten(s) /\ s.rewrite = 0
      \/ \E pid \in Zombies(s) :
           \/ pid = s.save /\ t = SaveDone(Reaped(s, pid), s.children[pid].life)
           \/ pid = s.rewrite /\ t \in RewriteDone(Reaped(s, pid), s.children[pid].life, s.children[pid].n)
           \/ pid # s.save /\ pid # s.rewrite /\ t = Reaped(s, pid)
  <2>1. CASE DOMAIN s.children = {}
    BY <2>1 DEF Collect
  <2>2. CASE DOMAIN s.children # {} /\ Zombies(s) = {}
    BY <2>2 DEF Collect
  <2>3. CASE DOMAIN s.children # {} /\ Zombies(s) # {}
    <3>1. PICK pid \in Zombies(s) :
            t \in CASE pid = s.save    -> {SaveDone(Reaped(s, pid), s.children[pid].life)}
                    [] pid = s.rewrite -> RewriteDone(Reaped(s, pid), s.children[pid].life, s.children[pid].n)
                    [] OTHER           -> {Reaped(s, pid)}
      BY <2>3 DEF Collect
    <3>2. CASE pid = s.save
      <4>1. pid # s.rewrite
        BY <1>1, <3>2 DEF UpInv, RewriteInv, Zombies, Typed
      <4> QED BY <3>1, <3>2, <4>1
    <3>3. CASE pid # s.save /\ pid = s.rewrite
      BY <3>1, <3>3
    <3>4. CASE pid # s.save /\ pid # s.rewrite
      BY <3>1, <3>4
    <3> QED BY <3>2, <3>3, <3>4
  <2> QED BY <2>1, <2>2, <2>3
<1>3. CASE t = Forgotten(s)
  <2>1. But(s, c)
    BY DEF But, Good, UpInv
  <2> QED BY <1>3, <2>1, ForgottenGood
<1>4. ASSUME NEW pid \in Zombies(s), pid = s.save, t = SaveDone(Reaped(s, pid), s.children[pid].life)
      PROVE  Good(t, c)
  <2>1. s.save # 0 /\ s.save \in DOMAIN s.children
    BY <1>1, <1>4 DEF Zombies, Typed
  <2> QED BY <1>4, <2>1, SaveDoneGood
<1>5. ASSUME NEW pid \in Zombies(s), pid = s.rewrite,
             t \in RewriteDone(Reaped(s, pid), s.children[pid].life, s.children[pid].n)
      PROVE  Good(t, c)
  <2>1. s.rewrite # 0 /\ s.rewrite \in DOMAIN s.children
    BY <1>1, <1>5 DEF Zombies, Typed
  <2> QED BY <1>5, <2>1, RewriteDoneGood
<1>6. ASSUME NEW pid \in Zombies(s), pid # s.save, pid # s.rewrite, t = Reaped(s, pid)
      PROVE  Good(t, c)
  <2>1. /\ Typed(t) /\ Changed(s, t, {"children"}) /\ DOMAIN t.children = DOMAIN s.children \ {pid}
        /\ \A p \in DOMAIN t.children : t.children[p] = s.children[p]
    BY <1>1, <1>6, ReapedFacts
  <2>2. Fewer(s, t)
    BY <2>1 DEF Fewer
  <2>3. s.rewrite # 0 => s.rewrite \in DOMAIN t.children
    BY <1>1, <1>6, <2>1 DEF UpInv, RewriteInv
  <2> QED BY <2>1, <2>2, <2>3, FewerGood
<1> QED BY <1>2, <1>3, <1>4, <1>5, <1>6

(* startAppendOnly(): the AOF is off, and nothing waits to be written unless *)
(* the scenario is one of Stale.                                             *)
LEMMA FdGood ==
  ASSUME NEW s, NEW c, Good(s, c), s.life = "up", s.state = "off", ~Stale(c) => s.buf = <<>>,
         NEW t, t = [s EXCEPT !.fd = "stale"]
  PROVE  Good(t, c)
<1>1. Typed(s) /\ UpInv(s, c)
  BY DEF Good
<1>2. Changed(s, t, {"fd"}) /\ t.fd = "stale"
  BY <1>1 DEF Typed, IsState, Changed, Fields
<1>3. Typed(t)
  BY <1>1, <1>2 DEF Typed, Changed, Fields
<1>4. t.state = "off" /\ t.life = "up" /\ t.left = s.left /\ t.file = s.file /\ t.data = s.data /\ t.buf = s.buf
  BY <1>2 DEF Changed, Fields
<1>5. OnInv(t) /\ OffInv(t, c)
  BY <1>1, <1>4 DEF UpInv, OnInv, OffInv
<1>6. RewriteInv(t) /\ AckInv(t)
  BY <1>1, <1>2 DEF UpInv, RewriteInv, Rewritten, AckInv, Changed, Fields
<1>7. SaveInv(t)
  BY <1>1, <1>2 DEF UpInv, SaveInv, SaveChild, Changed, Fields
<1> QED BY <1>3, <1>4, <1>5, <1>6, <1>7 DEF Good, UpInv

(* CONFIG SET appendonly yes keeps the invariant.                           *)
LEMMA StartAppendOnlyGood ==
  ASSUME NEW s, NEW c \in Chances, Good(s, c), s.life = "up", s.state = "off",
         ~Stale(c) => s.buf = <<>>, NEW t \in StartAppendOnly(s)
  PROVE  Good(t, c)
<1>1. \/ t = [s EXCEPT !.fd = "stale"]
      \/ \E u \in ForkFails(s) : t = [u EXCEPT !.fd = "stale"]
      \/ \E u \in Rewriting(s) : t = [u EXCEPT !.fd = "open", !.state = "wait"]
  BY DEF StartAppendOnly
<1>2. CASE t = [s EXCEPT !.fd = "stale"]
  BY <1>2, FdGood
<1>3. ASSUME NEW u \in ForkFails(s), t = [u EXCEPT !.fd = "stale"]
      PROVE  Good(t, c)
  <2>1. Good(u, c) /\ Changed(s, u, {"left"})
    BY ForkFailsGood
  <2>2. u.life = "up" /\ u.state = "off" /\ u.buf = s.buf
    BY <2>1 DEF Changed, Fields
  <2> QED BY <1>3, <2>1, <2>2, FdGood
<1>4. ASSUME NEW u \in Rewriting(s), t = [u EXCEPT !.fd = "open", !.state = "wait"]
      PROVE  Good(t, c)
  <2>1. RewriteStarted(s, c, u)
    BY RewritingGood
  <2>2. Typed(u) /\ UpInv(u, c) /\ u.state = "off" /\ u.buf = s.buf /\ u.life = "up"
    BY <2>1 DEF RewriteStarted, RewriteFields, Good, Changed, Fields
  <2>3. Changed(u, t, {"fd", "state"}) /\ t.fd = "open" /\ t.state = "wait"
    BY <1>4, <2>2 DEF Typed, IsState, Changed, Fields
  <2>4. Typed(t)
    BY <2>2, <2>3 DEF Typed, Changed, Fields
  <2>5. /\ t.life = "up" /\ t.left = u.left /\ t.file = u.file /\ t.data = u.data /\ t.buf = u.buf
        /\ t.rewrite = u.rewrite /\ t.db = u.db /\ t.diff = u.diff /\ t.children = u.children
        /\ t.save = u.save /\ t.acked = u.acked
    BY <2>2, <2>3 DEF Changed, Fields
  <2>6. OnInv(t) /\ OffInv(t, c)
    BY <2>2, <2>3, <2>5 DEF UpInv, OnInv, OffInv
  <2>7. RewriteInv(t)
    <3>1. Rewritten(t) = Rewritten(u)
      BY <2>5 DEF Rewritten
    <3>2. Whole(Rewritten(u), u.data) /\ u.db = NoDatabase /\ u.rewrite # 0
      BY <2>1 DEF RewriteStarted
    <3> QED BY <2>2, <2>5, <3>1, <3>2 DEF UpInv, RewriteInv, Selected
  <2>8. AckInv(t)
    BY <2>2, <2>3, <2>5 DEF UpInv, AckInv
  <2>9. SaveInv(t)
    BY <2>2, <2>3 DEF UpInv, SaveInv, SaveChild, Changed, Fields
  <2> QED BY <2>1, <2>4, <2>5, <2>6, <2>7, <2>8, <2>9 DEF RewriteStarted, Good, UpInv
<1> QED BY <1>1, <1>2, <1>3, <1>4

(* stopAppendOnly(): the buffer was flushed, and what an error left in it    *)
(* stays there.                                                              *)
LEMMA OffGood ==
  ASSUME NEW s, NEW c, Good(s, c), s.life = "up",
         ~Stale(c) => s.buf = <<>> \/ s.left["toggle"] = 0
  PROVE  Good(Off(s), c)
<1> DEFINE t == Off(s)
           fsyncs == OldFsyncs(s)
<1>1. Typed(s) /\ UpInv(s, c) /\ Len(s.file) \in Nat
  BY DEF Good, Typed
<1>2. t = [s EXCEPT !.synced = Len(s.file), !.fd = "none", !.db = NoDatabase,
                    !.state = "off", !.fsyncs = fsyncs]
  BY DEF Off
<1> HIDE DEF t, fsyncs
<1>3. /\ Changed(s, t, {"synced", "fd", "db", "state", "fsyncs"})
      /\ t.synced = Len(s.file) /\ t.fd = "none" /\ t.db = NoDatabase /\ t.state = "off"
  BY <1>1, <1>2 DEF Typed, IsState, Changed, Fields
<1>4. Typed(t)
  <2>1. Changed(s, t, {"synced", "fd", "db", "state", "fsyncs"})
    BY <1>3
  <2>2. /\ t.synced \in Nat /\ t.fd \in {"open", "none", "stale"} /\ t.state \in {"on", "wait", "off"}
        /\ t.db \in Databases \cup {NoDatabase}
    BY <1>1, <1>3
  <2> QED BY <1>1, <2>1, <2>2 DEF Typed, Changed, Fields
<1>5. /\ t.life = "up" /\ t.left = s.left /\ t.file = s.file /\ t.data = s.data /\ t.buf = s.buf
      /\ t.acked = s.acked
  BY <1>3 DEF Changed, Fields
<1>6. ~Stale(c) => Sound(t.file, t.data)
  BY <1>5, FileIsSound
<1>7. OnInv(t) /\ OffInv(t, c) /\ AckInv(t)
  BY <1>1, <1>3, <1>5, <1>6 DEF UpInv, OnInv, OffInv, AckInv
<1>8. RewriteInv(t)
  BY <1>1, <1>3 DEF UpInv, RewriteInv, Rewritten, Changed, Fields
<1>9. SaveInv(t)
  BY <1>1, <1>3 DEF UpInv, SaveInv, SaveChild, Changed, Fields
<1> QED BY <1>1, <1>4, <1>5, <1>7, <1>8, <1>9 DEF Good, UpInv, t

(* kill(): what changes is the life of one child.                           *)
LEMMA KillFacts ==
  ASSUME NEW s, Typed(s), NEW pid
  PROVE  LET t == KillChild(s, pid)
         IN  Typed(t) /\ Changed(s, t, {"children"}) /\ Fewer(s, t)
             /\ DOMAIN t.children = DOMAIN s.children
<1> DEFINE t == KillChild(s, pid)
<1>1. CASE pid \in DOMAIN s.children /\ s.children[pid].life = "running"
  <2>1. t = Lived(s, pid, "killed")
    BY <1>1 DEF KillChild, Lived
  <2>2. /\ Typed(t) /\ Changed(s, t, {"children"}) /\ DOMAIN t.children = DOMAIN s.children
        /\ \A p \in DOMAIN s.children : p # pid => t.children[p] = s.children[p]
        /\ t.children[pid].life = "killed" /\ t.children[pid].kind = s.children[pid].kind
        /\ t.children[pid].n = s.children[pid].n
    BY <1>1, <2>1, LivedFacts
  <2> HIDE DEF t
  <2>3. Fewer(s, t)
    BY <2>2 DEF Fewer
  <2> QED BY <2>2, <2>3 DEF t
<1>2. CASE ~(pid \in DOMAIN s.children /\ s.children[pid].life = "running")
  <2>1. t = s
    BY <1>2 DEF KillChild
  <2>2. Changed(s, s, {"children"}) /\ Fewer(s, s)
    BY DEF Typed, Changed, Fewer
  <2> QED BY <2>1, <2>2
<1> QED BY <1>1, <1>2

(* A child that is killed disturbs nothing.                                 *)
LEMMA KillGood ==
  ASSUME NEW s, NEW c, Good(s, c), s.life = "up", NEW pid
  PROVE  Good(KillChild(s, pid), c) /\ Changed(s, KillChild(s, pid), {"children"})
<1> DEFINE t == KillChild(s, pid)
<1>1. /\ Typed(t) /\ Changed(s, t, {"children"}) /\ Fewer(s, t)
      /\ DOMAIN t.children = DOMAIN s.children
  BY KillFacts DEF Good
<1>2. s.rewrite # 0 => s.rewrite \in DOMAIN t.children
  BY <1>1 DEF Good, UpInv, RewriteInv
<1> HIDE DEF t
<1> QED BY <1>1, <1>2, FewerGood DEF t

(* The rewrite is stopped; wait3() may collect the other child.             *)
LEMMA StopRewriteGood ==
  ASSUME NEW s, NEW c, Good(s, c), s.life = "up", NEW t \in StopRewrite(s)
  PROVE  Good(t, c)
<1>1. CASE s.rewrite = 0
  BY <1>1 DEF StopRewrite
<1>2. CASE s.rewrite # 0
  <2> DEFINE k == KillChild(s, s.rewrite)
  <2>1. Good(k, c) /\ Changed(s, k, {"children"})
    BY KillGood
  <2>2. PICK pid \in Zombies(k) : t = [Reaped(k, pid) EXCEPT !.diff = <<>>, !.rewrite = 0]
    BY <1>2 DEF StopRewrite
  <2> DEFINE r == Reaped(k, pid)
  <2>3. k.life = "up"
    BY <2>1 DEF Changed, Fields
  <2>4. But(r, c)
    BY <2>1, <2>3, ReapedBut
  <2> HIDE DEF k, r
  <2>5. Changed(r, t, {"diff", "rewrite"}) /\ t.diff = <<>> /\ t.rewrite = 0
    BY <2>2, <2>4 DEF r, But, Typed, IsState, Changed, Fields
  <2>6. Typed(t)
    <3>1. Typed(r) /\ Changed(r, t, {"diff", "rewrite"})
      BY <2>4, <2>5 DEF But
    <3>2. t.diff \in Seq(BufItems) /\ t.rewrite \in Nat
      BY <2>5
    <3> QED BY <3>1, <3>2 DEF Typed, Changed, Fields
  <2>7. RewriteInv(t)
    BY <2>5 DEF RewriteInv
  <2>8. OnInv(t) /\ OffInv(t, c)
    BY <2>4, <2>5 DEF But, OnInv, OffInv, Changed, Fields
  <2>9. AckInv(t)
    BY <2>4, <2>5 DEF But, AckInv, Changed, Fields
  <2>10. SaveInv(t)
    BY <2>4, <2>5 DEF But, SaveInv, SaveChild, Changed, Fields
  <2>11. t.life = "up" /\ t.left = r.left
    BY <2>4, <2>5 DEF But, Changed, Fields
  <2> QED BY <2>4, <2>6, <2>7, <2>8, <2>9, <2>10, <2>11 DEF But, Good, UpInv
<1> QED BY <1>1, <1>2

(* CONFIG SET appendonly no keeps the invariant.                            *)
LEMMA StopAppendOnlyGood ==
  ASSUME NEW s, NEW c \in Chances, Good(s, c), s.life = "up", s.state # "off",
         policy \in {"always", "everysec", "no"}, c["toggle"] > 1 \/ s.left["toggle"] = 0,
         NEW t \in StopAppendOnly(s)
  PROVE  Good(t, c)
<1>1. PICK u \in Flush(s, TRUE) : IF u.life = "up" THEN t \in StopRewrite(Off(u)) ELSE t = u
  BY DEF StopAppendOnly, Then
<1>2. FlushEnd(s, c, TRUE, u)
  BY FlushGood
<1>3. Good(u, c) /\ Changed(s, u, Flushable) /\ \A k \in Chance : u.left[k] <= s.left[k]
  BY <1>2 DEF FlushEnd
<1>4. CASE u.life # "up"
  BY <1>1, <1>3, <1>4
<1>5. CASE u.life = "up"
  <2>1. s.fd = "open"
    BY DEF Good, Typed, UpInv, OnInv, OffInv
  <2>2. u.buf = <<>> \/ (policy # "always" /\ c["fault"] > 0)
    BY <1>2, <1>5, <2>1 DEF FlushEnd
  <2>3. s.left["toggle"] = 0 => u.left["toggle"] = 0
    <3>1. u.left["toggle"] \in Nat /\ u.left["toggle"] <= s.left["toggle"]
      BY <1>3 DEF Good, Typed, Chance
    <3> QED BY <3>1
  <2>4. ~Stale(c) => u.buf = <<>> \/ u.left["toggle"] = 0
    BY <2>2, <2>3 DEF Stale
  <2>5. Good(Off(u), c)
    BY <1>3, <1>5, <2>4, OffGood
  <2>6. Off(u).life = "up"
    BY <1>5 DEF Off, Good, Typed, IsState, Fields
  <2>7. t \in StopRewrite(Off(u))
    BY <1>1, <1>5
  <2> DEFINE o == Off(u)
  <2> HIDE DEF o
  <2>8. Good(o, c) /\ o.life = "up" /\ t \in StopRewrite(o)
    BY <2>5, <2>6, <2>7 DEF o
  <2> QED BY <2>8, StopRewriteGood
<1> QED BY <1>4, <1>5

----------------------------------------------------------------------------
(* The steps.                                                                *)
Values == policy \in {"always", "everysec", "no"}

(* The policy is one of the three.                                          *)
LEMMA PolicyValues ==
  ASSUME policy \in Policies
  PROVE  Values
BY PersistenceAssumption DEF Values

(* serverCron(), one stage after the other.                                  *)
LEMMA CronScheduledGood ==
  ASSUME NEW s, NEW c \in Chances, Good(s, c), s.life = "up", NEW t \in CronScheduled(s)
  PROVE  Good(t, c)
<1>1. t = s \/ t \in RewriteBackground(s)
  BY DEF CronScheduled
<1> QED BY <1>1, RewriteBackgroundGood

(* The file has grown: a rewrite.                                           *)
LEMMA CronGrowthGood ==
  ASSUME NEW s, NEW c \in Chances, Good(s, c), s.life = "up", NEW t \in CronGrowth(s)
  PROVE  Good(t, c)
<1>1. t = s \/ t \in RewriteBackground(s)
  BY DEF CronGrowth
<1> QED BY <1>1, RewriteBackgroundGood

(* A save point is reached: a save.                                         *)
LEMMA CronSavePointGood ==
  ASSUME NEW s, NEW c \in Chances, Good(s, c), s.life = "up", NEW t \in CronSavePoint(s)
  PROVE  Good(t, c)
<1>1. t = s \/ t \in SaveBackground(s)
  BY DEF CronSavePoint
<1> QED BY <1>1, SaveBackgroundGood

(* A child is collected, or else these two.                                 *)
LEMMA CronChildrenGood ==
  ASSUME NoStaleBuffers, NEW s, NEW c \in Chances, Good(s, c), s.life = "up", NEW t \in CronChildren(s)
  PROVE  Good(t, c)
<1>1. CASE ~NoChild(s)
  <2>1. t \in Collect(s)
    BY <1>1 DEF CronChildren
  <2> QED BY <2>1, CollectGood
<1>2. CASE NoChild(s)
  <2>1. PICK u \in CronSavePoint(s) : IF u.life = "up" THEN t \in CronGrowth(u) ELSE t = u
    BY <1>2 DEF CronChildren, Then
  <2>2. Good(u, c)
    BY CronSavePointGood
  <2> QED BY <2>1, <2>2, CronGrowthGood
<1> QED BY <1>1, <1>2

(* A second flush, when the first has left the server running.              *)
LEMMA FlushedAgain ==
  ASSUME NEW s, NEW c \in Chances, Good(s, c), s.life = "up", Values, NEW t \in Flush(s, FALSE)
  PROVE  Good(t, c)
<1>1. FlushEnd(s, c, FALSE, t)
  BY FlushGood DEF Values
<1> QED BY <1>1 DEF FlushEnd

(* The flush that was postponed.                                            *)
LEMMA CronPostponedGood ==
  ASSUME NEW s, NEW c \in Chances, Good(s, c), s.life = "up", Values, NEW t \in CronPostponed(s)
  PROVE  Good(t, c)
<1>1. t = s \/ t \in Flush(s, FALSE)
  BY DEF CronPostponed
<1> QED BY <1>1, FlushedAgain

(* The flush after an error.                                                *)
LEMMA CronRetryGood ==
  ASSUME NEW s, NEW c \in Chances, Good(s, c), s.life = "up", Values, NEW t \in CronRetry(s)
  PROVE  Good(t, c)
<1>1. t = s \/ t \in Flush(s, FALSE)
  BY DEF CronRetry
<1> QED BY <1>1, FlushedAgain

(* All the stages.                                                          *)
LEMMA ServerCronGood ==
  ASSUME NoStaleBuffers, NEW c \in Chances, Good(server, c), Values, ServerCron
  PROVE  Good(server', c)
<1> DEFINE S1 == CronScheduled(server)
           S2 == Then(S1, CronChildren)
           S3 == Then(S2, CronPostponed)
<1>1. server.life = "up" /\ server' \in Then(S3, CronRetry)
  BY DEF ServerCron, Becomes, Up
<1>2. \A s \in S1 : Good(s, c)
  BY <1>1, CronScheduledGood
<1>3. \A s \in S2 : Good(s, c)
  <2>1. SUFFICES ASSUME NEW t \in S2 PROVE Good(t, c)
    OBVIOUS
  <2>2. PICK u \in S1 : IF u.life = "up" THEN t \in CronChildren(u) ELSE t = u
    BY DEF Then
  <2> QED BY <1>2, <2>2, CronChildrenGood
<1>4. \A s \in S3 : Good(s, c)
  <2>1. SUFFICES ASSUME NEW t \in S3 PROVE Good(t, c)
    OBVIOUS
  <2>2. PICK u \in S2 : IF u.life = "up" THEN t \in CronPostponed(u) ELSE t = u
    BY DEF Then
  <2> QED BY <1>3, <2>2, CronPostponedGood
<1>5. PICK u \in S3 : IF u.life = "up" THEN server' \in CronRetry(u) ELSE server' = u
  BY <1>1 DEF Then
<1> QED BY <1>4, <1>5, CronRetryGood

(* The flush before the replies.                                            *)
LEMMA BeforeSleepGood ==
  ASSUME NEW c \in Chances, Good(server, c), Values, BeforeSleep
  PROVE  Good(server', c)
<1>1. server.life = "up"
  BY DEF BeforeSleep, Up
<1>2. PICK u \in Flush(server, FALSE) : IF u.life = "up" THEN server' = Replied(u) ELSE server' = u
  BY DEF BeforeSleep, Becomes, Then
<1>3. FlushEnd(server, c, FALSE, u)
  BY <1>1, FlushGood DEF Values
<1> QED BY <1>2, <1>3, RepliedGood DEF FlushEnd

(* A child ends, whatever became of the server.                              *)
LEMMA DownGood ==
  ASSUME NEW s, NEW c, Good(s, c), s.life # "up", NEW t, Typed(t), NEW fs, Changed(s, t, fs),
         fs \cap {"life", "left", "file", "data", "state", "acked"} = {}
  PROVE  Good(t, c)
<1>1. /\ t.life = s.life /\ t.left = s.left /\ t.file = s.file /\ t.data = s.data
      /\ t.state = s.state /\ t.acked = s.acked
  BY DEF Changed, Fields
<1> QED BY <1>1 DEF Good, DownInv, AckDown

(* A child that did not write its file.                                     *)
LEMMA EndedBadly ==
  ASSUME NEW s, NEW c, Good(s, c), NEW pid \in DOMAIN s.children, NEW life \in {"failed", "signal"}
  PROVE  Good(Lived(s, pid, life), c)
<1> DEFINE t == Lived(s, pid, life)
<1>1. /\ Typed(t) /\ Changed(s, t, {"children"}) /\ DOMAIN t.children = DOMAIN s.children
      /\ \A p \in DOMAIN s.children : p # pid => t.children[p] = s.children[p]
      /\ t.children[pid].life = life /\ t.children[pid].kind = s.children[pid].kind
      /\ t.children[pid].n = s.children[pid].n
  BY LivedFacts DEF Good
<1> HIDE DEF t
<1>2. Fewer(s, t)
  BY <1>1 DEF Fewer
<1>3. CASE s.life = "up"
  <2>1. s.rewrite # 0 => s.rewrite \in DOMAIN t.children
    BY <1>1, <1>3 DEF Good, UpInv, RewriteInv
  <2> QED BY <1>1, <1>2, <2>1, FewerGood DEF t
<1>4. CASE s.life # "up"
  <2>1. {"children"} \cap {"life", "left", "file", "data"} = {}
    OBVIOUS
  <2> QED BY <1>1, <1>4, <2>1, DownGood DEF t
<1> QED BY <1>3, <1>4

(* A child that did: a new dump.rdb, or a file to install.                  *)
LEMMA EndedWell ==
  ASSUME NEW s, NEW c, Good(s, c), NEW pid \in DOMAIN s.children, s.children[pid].life = "running",
         NEW t, t = IF s.children[pid].kind = "save"
                    THEN [Lived(s, pid, "ok") EXCEPT !.dump = s.children[pid].n]
                    ELSE Lived(s, pid, "ok")
  PROVE  Good(t, c)
<1> DEFINE u == Lived(s, pid, "ok")
           n == s.children[pid].n
<1>1. /\ Typed(u) /\ Changed(s, u, {"children"}) /\ DOMAIN u.children = DOMAIN s.children
      /\ \A p \in DOMAIN s.children : p # pid => u.children[p] = s.children[p]
      /\ u.children[pid].life = "ok" /\ u.children[pid].kind = s.children[pid].kind
      /\ u.children[pid].n = n
  BY LivedFacts DEF Good
<1>2. n \in Nat /\ s.children[pid].kind \in {"save", "rewrite"} /\ Typed(s) /\ pid \in Nat \ {0}
  BY DEF Good, Typed, Children
<1> HIDE DEF u
<1>3. /\ Changed(u, t, {"dump"})
      /\ s.children[pid].kind = "save" => t.dump = n
      /\ s.children[pid].kind # "save" => t.dump = u.dump
  <2>1. CASE s.children[pid].kind = "save"
    <3>1. t = [u EXCEPT !.dump = n]
      BY <2>1 DEF u
    <3> HIDE DEF n
    <3> QED BY <1>1, <2>1, <3>1 DEF Typed, IsState, Changed, Fields
  <2>2. CASE s.children[pid].kind # "save"
    <3>1. t = u
      BY <2>2 DEF u
    <3> QED BY <1>1, <2>2, <3>1 DEF Typed, Changed, Fields
  <2> QED BY <2>1, <2>2
<1>4. Typed(t)
  <2>1. t.dump \in Nat
    BY <1>1, <1>2, <1>3 DEF Typed
  <2> QED BY <1>1, <1>3, <2>1 DEF Typed, Changed, Fields
<1>5. /\ Changed(s, t, {"children", "dump"}) /\ t.children = u.children
      /\ (s.children[pid].kind # "save" => t.dump = s.dump)
  BY <1>1, <1>3 DEF Changed, Fields
<1> HIDE DEF n
<1>6. CASE s.life # "up"
  <2>1. {"children", "dump"} \cap {"life", "left", "file", "data"} = {}
    OBVIOUS
  <2> QED BY <1>4, <1>5, <1>6, <2>1, DownGood
<1>7. CASE s.life = "up"
  <2>1. UpInv(s, c)
    BY <1>7 DEF Good
  <2>2. OnInv(t)
    BY <1>5, <2>1 DEF UpInv, OnInv, Changed, Fields
  <2>3. OffInv(t, c)
    BY <1>5, <2>1 DEF UpInv, OffInv, Changed, Fields
  <2>4. AckInv(t)
    BY <1>5, <2>1 DEF UpInv, AckInv, Changed, Fields
  <2>5. /\ t.rewrite = s.rewrite /\ t.save = s.save /\ t.diff = s.diff /\ t.data = s.data
        /\ t.state = s.state /\ t.db = s.db /\ t.dirty = s.dirty /\ t.before = s.before
        /\ t.life = "up" /\ t.left = s.left
    BY <1>5, <1>7 DEF Changed, Fields
  <2>6. RewriteInv(t)
    <3>1. \A p \in DOMAIN s.children : u.children[p].n = s.children[p].n
      BY <1>1 DEF n
    <3>2. s.rewrite \in DOMAIN s.children => Rewritten(t) = Rewritten(s)
      BY <1>5, <2>5, <3>1 DEF Rewritten
    <3> QED BY <1>1, <1>5, <2>1, <2>5, <3>2 DEF UpInv, RewriteInv
  <2>7. SaveInv(t)
    <3>1. SaveInv(s)
      BY <2>1 DEF UpInv
    <3>2. \A p \in DOMAIN t.children :
            t.children[p].kind = "save" /\ t.children[p].life = "running" => p = t.save
      BY <1>1, <1>5, <2>5, <3>1 DEF SaveInv
    <3>3. CASE s.children[pid].kind = "save"
      <4>1. pid = s.save /\ s.save # 0 /\ n = SaveChild(s).n
        BY <1>2, <3>1, <3>3 DEF SaveInv, SaveChild, n
      <4>2. n <= Len(s.data) /\ Len(s.data) + s.before <= n + s.dirty
        BY <3>1, <4>1 DEF SaveInv
      <4>3. SaveChild(t).kind = "save" /\ SaveChild(t).n = n /\ t.dump = n
        BY <1>1, <1>3, <1>5, <2>5, <3>3, <4>1 DEF SaveChild
      <4>4. Len(s.data) <= n + s.dirty
        <5>1. Len(s.data) \in Nat /\ s.before \in Nat /\ s.dirty \in Nat
          BY <1>2 DEF Typed
        <5> QED BY <1>2, <4>2, <5>1
      <4> QED BY <2>5, <3>2, <4>2, <4>3, <4>4 DEF SaveInv
    <3>4. CASE s.children[pid].kind # "save"
      <4>1. s.save # 0 /\ s.save \in DOMAIN s.children => s.save # pid /\ SaveChild(t) = SaveChild(s)
        BY <1>1, <1>5, <2>5, <3>1, <3>4 DEF SaveInv, SaveChild
      <4> QED BY <1>1, <1>5, <2>5, <3>1, <3>2, <3>4, <4>1 DEF SaveInv
    <3> QED BY <3>3, <3>4
  <2> QED BY <1>4, <2>2, <2>3, <2>4, <2>5, <2>6, <2>7 DEF Good, UpInv
<1> QED BY <1>6, <1>7

(* Both.                                                                    *)
LEMMA ChildExitsGood ==
  ASSUME NEW c \in Chances, Good(server, c), NEW pid \in DOMAIN server.children, ChildExits(pid)
  PROVE  Good(server', c)
<1> DEFINE s == server
<1>1. s.children[pid].life = "running"
  BY DEF ChildExits
<1>2. \/ server' = IF s.children[pid].kind = "save"
                   THEN [Lived(s, pid, "ok") EXCEPT !.dump = s.children[pid].n]
                   ELSE Lived(s, pid, "ok")
      \/ \E u \in ForkFails(s), life \in {"failed", "signal"} : server' = Lived(u, pid, life)
  BY DEF ChildExits, Becomes, Lived
<1>3. ASSUME NEW u \in ForkFails(s), NEW life \in {"failed", "signal"}, server' = Lived(u, pid, life)
      PROVE  Good(server', c)
  <2>1. Good(u, c) /\ Changed(s, u, {"left"})
    BY ForkFailsGood
  <2>2. pid \in DOMAIN u.children
    BY <2>1 DEF Changed, Fields
  <2> QED BY <1>3, <2>1, <2>2, EndedBadly
<1>4. ASSUME server' = IF s.children[pid].kind = "save"
                       THEN [Lived(s, pid, "ok") EXCEPT !.dump = s.children[pid].n]
                       ELSE Lived(s, pid, "ok")
      PROVE  Good(server', c)
  <2> DEFINE t == server'
  <2>1. t = IF s.children[pid].kind = "save"
            THEN [Lived(s, pid, "ok") EXCEPT !.dump = s.children[pid].n]
            ELSE Lived(s, pid, "ok")
    BY <1>4
  <2> HIDE DEF t
  <2>2. Good(t, c)
    BY <1>1, <2>1, EndedWell
  <2> QED BY <2>2 DEF t
<1> QED BY <1>2, <1>3, <1>4

(* A command that writes, and the DEL of an expired key.                    *)
LEMMA WritesGood ==
  ASSUME NEW c \in Chances, Good(server, c), NEW db \in Databases,
         WriteCommand(db) \/ ExpireKey(db)
  PROVE  Good(server', c)
<1>1. server.life = "up"
  BY DEF WriteCommand, ExpireKey, Up
<1>2. CASE WriteCommand(db)
  <2>1. server' = Executed(server, db)
    BY <1>2 DEF WriteCommand, Becomes
  <2> QED BY <1>1, <2>1, ExecutedGood
<1>3. CASE ExpireKey(db)
  <2> DEFINE u == Spent(server, "expire")
  <2>1. Can(server, "expire") /\ "expire" \in Chance /\ server' = Executed(u, db)
    BY <1>3 DEF ExpireKey, Becomes, Chance
  <2>2. Good(u, c) /\ Changed(server, u, {"left"})
    BY <2>1, SpentGood
  <2> HIDE DEF u
  <2>3. u.life = "up"
    BY <1>1, <2>2 DEF Changed, Fields
  <2> QED BY <2>1, <2>2, <2>3, ExecutedGood
<1> QED BY <1>2, <1>3

(* bioProcessBackgroundJobs().                                               *)
LEMMA BioGood ==
  ASSUME NEW c \in Chances, Good(server, c), BioFsync \/ BioDone
  PROVE  Good(server', c)
<1>1. Typed(server) /\ Len(server.file) \in Nat
  BY DEF Good, Typed
<1>2. CASE BioFsync
  <2> DEFINE t == server'
             q == [server.fsyncs EXCEPT ![1] = "done"]
  <2>1. t = [server EXCEPT !.fsyncs = q, !.synced = Len(server.file)]
    BY <1>2 DEF BioFsync, Becomes
  <2> HIDE DEF t, q
  <2>2. Changed(server, t, {"fsyncs", "synced"}) /\ t.synced = Len(server.file)
    BY <1>1, <2>1 DEF Typed, IsState, Changed, Fields
  <2>3. Typed(t)
    <3>1. Changed(server, t, {"fsyncs", "synced"}) /\ t.synced \in Nat
      BY <1>1, <2>2
    <3> QED BY <1>1, <3>1 DEF Typed, Changed, Fields
  <2>4. CASE server.life # "up"
    <3>1. {"fsyncs", "synced"} \cap {"life", "left", "file", "data"} = {}
      OBVIOUS
    <3>2. Good(t, c)
      BY <2>2, <2>3, <2>4, <3>1, DownGood
    <3> QED BY <3>2 DEF t
  <2>5. CASE server.life = "up"
    <3>1. UpInv(server, c)
      BY <2>5 DEF Good
    <3>2. OnInv(t)
      BY <2>2, <3>1 DEF UpInv, OnInv, Changed, Fields
    <3>3. OffInv(t, c)
      BY <2>2, <3>1 DEF UpInv, OffInv, Changed, Fields
    <3>4. RewriteInv(t)
      BY <2>2, <3>1 DEF UpInv, RewriteInv, Rewritten, Changed, Fields
    <3>5. AckInv(t)
      BY <2>2, <3>1 DEF UpInv, AckInv, Changed, Fields
    <3>6. SaveInv(t)
      BY <2>2, <3>1 DEF UpInv, SaveInv, SaveChild, Changed, Fields
    <3>7. t.life = "up" /\ t.left = server.left
      BY <2>2, <2>5 DEF Changed, Fields
    <3>8. Good(t, c)
      BY <2>3, <3>2, <3>3, <3>4, <3>5, <3>6, <3>7 DEF Good, UpInv
    <3> QED BY <3>8 DEF t
  <2> QED BY <2>4, <2>5
<1>3. CASE BioDone
  <2> DEFINE t == server'
             q == Tail(server.fsyncs)
  <2>1. t = [server EXCEPT !.fsyncs = q]
    BY <1>3 DEF BioDone, Becomes
  <2> HIDE DEF t, q
  <2>2. Changed(server, t, {"fsyncs"})
    BY <1>1, <2>1 DEF Typed, IsState, Changed, Fields
  <2>3. Changed(server, t, {"written", "postponed", "scheduled", "saved", "fsyncs"})
    BY <2>2 DEF Changed
  <2>4. Good(t, c)
    BY <2>3, QuietGood
  <2> QED BY <2>4 DEF t
<1> QED BY <1>2, <1>3

(* CONFIG SET appendonly.                                                    *)
LEMMA ConfigGood ==
  ASSUME NEW c \in Chances, Good(server, c), Values, ConfigAppendOnly
  PROVE  Good(server', c)
<1> DEFINE s == Spent(server, "toggle")
<1>1. server.life = "up" /\ Can(server, "toggle") /\ "toggle" \in Chance /\ Typed(server)
  BY DEF ConfigAppendOnly, Up, Chance, Good
<1>2. server' \in IF s.state = "off" THEN StartAppendOnly(s) ELSE StopAppendOnly(s)
  BY DEF ConfigAppendOnly, Becomes
<1>3. Good(s, c) /\ Changed(server, s, {"left"}) /\ s.left["toggle"] < server.left["toggle"]
  BY <1>1, SpentGood, SpentFacts
<1> HIDE DEF s
<1>4. s.life = "up" /\ s.state = server.state /\ s.buf = server.buf
  BY <1>1, <1>3 DEF Changed, Fields
<1>5. /\ s.left["toggle"] \in Nat /\ server.left["toggle"] \in Nat /\ c["toggle"] \in Nat
      /\ server.left["toggle"] <= c["toggle"]
  <2>1. c \in [Chance -> Nat] /\ s.left \in [Chance -> Nat] /\ server.left \in [Chance -> Nat]
    BY <1>1, <1>3, PersistenceAssumption DEF Good, Typed
  <2>2. server.left["toggle"] <= c["toggle"]
    BY <1>1 DEF Good
  <2> QED BY <1>1, <2>1, <2>2
<1>6. CASE s.state = "off"
  <2>1. ~Stale(c) => s.buf = <<>>
    BY <1>1, <1>3, <1>4, <1>5, <1>6 DEF Good, UpInv, OffInv
  <2> QED BY <1>2, <1>3, <1>4, <1>6, <2>1, StartAppendOnlyGood
<1>7. CASE s.state # "off"
  <2>1. c["toggle"] > 1 \/ s.left["toggle"] = 0
    BY <1>3, <1>5
  <2> QED BY <1>2, <1>3, <1>4, <1>7, <2>1, StopAppendOnlyGood DEF Values
<1> QED BY <1>6, <1>7

(* BGREWRITEAOF, BGSAVE and SAVE.                                           *)
LEMMA CommandsGood ==
  ASSUME NEW c \in Chances, Good(server, c), BgrewriteaofCommand \/ BgsaveCommand \/ SaveCommand
  PROVE  Good(server', c)
<1>1. server.life = "up" /\ Typed(server)
  BY DEF BgrewriteaofCommand, BgsaveCommand, SaveCommand, Up, Good
<1>2. CASE BgrewriteaofCommand
  <2>1. server' = [server EXCEPT !.scheduled = TRUE] \/ server' \in RewriteBackground(server)
    BY <1>2 DEF BgrewriteaofCommand, Becomes
  <2>2. ASSUME NEW t, t = [server EXCEPT !.scheduled = TRUE] PROVE Good(t, c)
    <3>1. Changed(server, t, {"written", "postponed", "scheduled", "saved", "fsyncs"})
      BY <1>1, <2>2 DEF Typed, IsState, Changed, Fields
    <3> QED BY <3>1, QuietGood
  <2> QED BY <1>1, <2>1, <2>2, RewriteBackgroundGood
<1>3. CASE BgsaveCommand
  <2>1. server' \in SaveBackground(server)
    BY <1>3 DEF BgsaveCommand, Becomes
  <2> QED BY <1>1, <2>1, SaveBackgroundGood
<1>4. CASE SaveCommand
  <2> DEFINE u == Spent(server, "bgsave")
  <2>1. /\ server.save = 0 /\ Can(server, "bgsave") /\ "bgsave" \in Chance
        /\ server' = SaveNow(u) \/ server' \in ForkFails(server)
    BY <1>4 DEF SaveCommand, Becomes, Chance
  <2>2. Good(u, c) /\ Changed(server, u, {"left"})
    BY <2>1, SpentGood
  <2> HIDE DEF u
  <2>3. u.life = "up" /\ u.save = 0
    BY <1>1, <2>1, <2>2 DEF Changed, Fields
  <2>4. Good(SaveNow(u), c)
    BY <2>2, <2>3, SaveNowGood
  <2> QED BY <2>1, <2>4, ForkFailsGood
<1> QED BY <1>2, <1>3, <1>4

----------------------------------------------------------------------------
(* The end of the process, and the next one.                                 *)

(* SHUTDOWN kills the rewrite and fsyncs; it flushes nothing.               *)
LEMMA ShutdownAofFacts ==
  ASSUME NEW s, NEW c, Good(s, c), s.life = "up"
  PROVE  LET t == ShutdownAof(s)
         IN  Good(t, c) /\ Changed(s, t, {"children", "synced"})
<1> DEFINE t == ShutdownAof(s)
           k == KillChild(s, s.rewrite)
           synced == IF k.fd = "open" THEN Len(k.file) ELSE k.synced
<1>1. Typed(s)
  BY DEF Good
<1>2. CASE s.state = "off"
  <2>1. t = s
    BY <1>2 DEF ShutdownAof
  <2> QED BY <1>1, <2>1 DEF Typed, Changed
<1>3. CASE s.state # "off"
  <2>1. Good(k, c) /\ Changed(s, k, {"children"})
    BY KillGood
  <2>2. k.fd = s.fd /\ k.file = s.file /\ k.life = "up"
    BY <2>1 DEF Changed, Fields
  <2>3. t = [k EXCEPT !.synced = synced]
    BY <1>3, <2>2 DEF ShutdownAof
  <2> HIDE DEF t, k
  <2>4. synced \in Nat /\ (k.fd = "open" => synced = Len(k.file))
    BY <2>1 DEF Good, Typed
  <2> HIDE DEF synced
  <2>5. Changed(k, t, {"synced"}) /\ t.synced = synced
    BY <2>1, <2>3 DEF Good, Typed, IsState, Changed, Fields
  <2>6. Typed(t)
    BY <2>1, <2>4, <2>5 DEF Good, Typed, Changed, Fields
  <2>7. UpInv(k, c)
    BY <2>1, <2>2 DEF Good
  <2>8. OnInv(t)
    BY <2>5, <2>7 DEF UpInv, OnInv, Changed, Fields
  <2>9. OffInv(t, c)
    BY <2>5, <2>7 DEF UpInv, OffInv, Changed, Fields
  <2>10. RewriteInv(t)
    BY <2>5, <2>7 DEF UpInv, RewriteInv, Rewritten, Changed, Fields
  <2>11. SaveInv(t)
    BY <2>5, <2>7 DEF UpInv, SaveInv, SaveChild, Changed, Fields
  <2>12. t.life = "up" /\ t.left = k.left /\ t.file = k.file /\ t.data = k.data
         /\ t.acked = k.acked /\ t.state = k.state
    BY <2>2, <2>5 DEF Changed, Fields
  <2>13. AckInv(t)
    BY <2>4, <2>5, <2>7, <2>12 DEF UpInv, AckInv, OnInv
  <2>14. Good(t, c)
    BY <2>1, <2>6, <2>8, <2>9, <2>10, <2>11, <2>12, <2>13 DEF Good, UpInv
  <2> QED BY <2>1, <2>5, <2>14 DEF Changed, Fields, t
<1> QED BY <1>2, <1>3

(* The exit: the children are no longer its own.                            *)
LEMMA ExitedFacts ==
  ASSUME NEW s, Typed(s)
  PROVE  LET t == Exited(s)
         IN  Typed(t) /\ Changed(s, t, {"life", "children"}) /\ t.life = "exited"
<1> DEFINE t == Exited(s)
<1>1. Changed(s, t, {"life", "children"}) /\ t.life = "exited" /\ t.children = <<>>
  BY DEF Typed, IsState, Changed, Fields, Exited
<1>2. DOMAIN <<>> = {} /\ <<>> \in [{} -> Children] /\ IsFiniteSet({})
  BY FS_EmptySet
<1> HIDE DEF t
<1>3. Typed(t)
  <2>1. /\ t.children \in [DOMAIN t.children -> Children] /\ IsFiniteSet(DOMAIN t.children)
        /\ DOMAIN t.children \subseteq Nat \ {0} /\ t.life \in {"up", "crashed", "exited", "switching"}
    BY <1>1, <1>2
  <2>2. Changed(s, t, {"life", "children"})
    BY <1>1
  <2> QED BY <2>1, <2>2 DEF Typed, Changed, Fields
<1> QED BY <1>1, <1>3 DEF t

(* The file that is left can be loaded.                                     *)
LEMMA ExitedGood ==
  ASSUME NEW s, NEW c, Good(s, c), s.life = "up", ~Stale(c), NEW u, Typed(u),
         u.left = s.left, u.data = s.data, u.file = s.file, u.state = s.state, u.acked = s.acked,
         NEW t, t = Exited(u)
  PROVE  Good(t, c)
<1>1. Typed(t) /\ Changed(u, t, {"life", "children"}) /\ t.life = "exited"
  BY ExitedFacts
<1>2. /\ t.left = s.left /\ t.data = s.data /\ t.file = s.file
      /\ t.state = s.state /\ t.acked = s.acked
  BY <1>1 DEF Changed, Fields
<1>3. Sound(t.file, s.data)
  BY <1>2, FileIsSound
<1>4. AckDown(t)
  BY <1>2 DEF AckDown, AckInv, Good, UpInv
<1> QED BY <1>1, <1>2, <1>3, <1>4, GoneGood

(* SHUTDOWN keeps the invariant.                                            *)
LEMMA ShutdownGood ==
  ASSUME NoStaleBuffers, NEW c \in Chances, Good(server, c), NEW save \in BOOLEAN, ShutdownCommand(save)
  PROVE  Good(server', c)
<1> DEFINE u == Spent(server, "shutdown")
           s == KillChild(u, server.save)
           a == ShutdownAof(s)
<1>1. server.life = "up" /\ Can(server, "shutdown") /\ "shutdown" \in Chance
  BY DEF ShutdownCommand, Up, Chance
<1>2. \/ server' = s
      \/ server' = Exited(SaveNow(a))
      \/ server' \in ForkFails(a)
      \/ server' = Exited(a)
  BY DEF ShutdownCommand, Becomes
<1>3. Good(u, c) /\ Changed(server, u, {"left"}) /\ c["shutdown"] > 0
  BY <1>1, SpentGood
<1>4. ~Stale(c)
  BY <1>3 DEF NoStaleBuffers, Stale
<1> HIDE DEF u
<1>5. u.life = "up"
  BY <1>1, <1>3 DEF Changed, Fields
<1>6. Good(s, c) /\ Changed(u, s, {"children"})
  BY <1>3, <1>5, KillGood
<1> HIDE DEF s
<1>7. s.life = "up"
  BY <1>5, <1>6 DEF Changed, Fields
<1>8. Good(a, c) /\ Changed(s, a, {"children", "synced"})
  BY <1>6, <1>7, ShutdownAofFacts
<1> HIDE DEF a
<1>9. a.life = "up" /\ Typed(a)
  BY <1>7, <1>8 DEF Changed, Fields, Good
<1>10. Good(Exited(a), c)
  BY <1>4, <1>8, <1>9, ExitedGood
<1>11. Good(Exited(SaveNow(a)), c)
  <2> DEFINE v == SaveNow(a)
  <2>1. Typed(v) /\ Changed(a, v, {"dump", "dirty", "saved"})
    BY <1>9, SaveNowFacts
  <2> HIDE DEF v
  <2>2. /\ v.left = a.left /\ v.data = a.data /\ v.file = a.file
        /\ v.state = a.state /\ v.acked = a.acked
    BY <2>1 DEF Changed, Fields
  <2>3. Good(Exited(v), c)
    BY <1>4, <1>8, <1>9, <2>1, <2>2, ExitedGood
  <2> QED BY <2>3 DEF v
<1>12. \A t \in ForkFails(a) : Good(t, c)
  BY <1>8, ForkFailsGood
<1> QED BY <1>2, <1>6, <1>10, <1>11, <1>12

(* What the disk keeps of the file can be loaded.                           *)
LEMMA CrashGood ==
  ASSUME NoStaleBuffers, NEW c \in Chances, Good(server, c), Crash
  PROVE  Good(server', c)
<1> DEFINE u == Spent(server, "crash")
<1>1. server.life = "up" /\ Can(server, "crash") /\ "crash" \in Chance /\ Typed(server)
  BY DEF Crash, Up, Chance, Good
<1>2. Good(u, c) /\ Changed(server, u, {"left"}) /\ c["crash"] > 0
  BY <1>1, SpentGood
<1>3. ~Stale(c)
  BY <1>2 DEF NoStaleBuffers, Stale
<1>4. u.life = "up" /\ u.file = server.file /\ u.data = server.data
  BY <1>1, <1>2 DEF Changed, Fields
<1>5. PICK k \in {Len(server.file)} \cup (server.synced .. Len(server.file)) :
        server' = Died([u EXCEPT !.file = SubSeq(u.file, 1, k)])
  BY DEF Crash, Becomes
<1> HIDE DEF u
<1>6. Typed(u) /\ u.file \in Seq(AofItems) /\ u.data \in Seq(Databases) /\ k \in 0 .. Len(u.file)
  <2>1. Len(server.file) \in Nat /\ server.synced \in Nat
    BY <1>1 DEF Typed
  <2> DEFINE n == Len(server.file)
             m == server.synced
  <2>2. k \in {n} \cup (m .. n)
    BY <1>5
  <2>3. n \in Nat /\ m \in Nat
    BY <2>1
  <2> HIDE DEF n, m
  <2>4. k \in 0 .. n
    BY <2>2, <2>3
  <2>5. k \in 0 .. Len(u.file)
    BY <1>4, <2>4 DEF n
  <2>6. Typed(u)
    BY <1>2 DEF Good
  <2> QED BY <2>5, <2>6 DEF Typed
<1> DEFINE f == SubSeq(u.file, 1, k)
           v == [u EXCEPT !.file = f]
           t == Died(v)
<1>7. f \in Seq(AofItems) /\ Sound(f, u.data)
  <2>1. Sound(u.file, u.data)
    BY <1>2, <1>3, FileIsSound
  <2> QED BY <1>6, <2>1, FrontIsSound
<1> HIDE DEF f
<1>8. Changed(u, v, {"file"}) /\ v.file = f
  BY <1>6 DEF Typed, IsState, Changed, Fields
<1>9. server' = t
  BY <1>5 DEF f
<1> HIDE DEF v
<1>10. Changed(v, t, {"life"}) /\ t.life = "crashed"
  BY <1>8 DEF Changed, IsState, Fields, Died
<1> HIDE DEF t
<1>11. /\ Changed(u, t, {"file", "life"}) /\ t.file = f /\ t.left = u.left /\ t.data = u.data
       /\ t.state = u.state /\ t.acked = u.acked
  BY <1>8, <1>10 DEF Changed, Fields
<1>12. Typed(t)
  BY <1>6, <1>7, <1>10, <1>11 DEF Typed, Changed, Fields
<1>13. AckDown(t)
  <2>1. SUFFICES ASSUME policy = "always", ~NoFsyncOnRewrite, u.state = "on"
                 PROVE  u.acked <= Loaded(f, u.data).n
    BY <1>11 DEF AckDown
  <2>2. u.synced = Len(u.file) /\ u.acked <= Loaded(u.file, u.data).n
    BY <1>2, <1>4, <2>1 DEF Good, UpInv, AckInv
  <2>3. server.synced = u.synced
    BY <1>2 DEF Changed, Fields
  <2>4. k = Len(u.file)
    BY <1>4, <1>5, <1>6, <2>2, <2>3
  <2> QED BY <1>6, <2>2, <2>4, SubSeqFull DEF f
<1>14. Good(t, c)
  BY <1>2, <1>3, <1>4, <1>7, <1>10, <1>11, <1>12, <1>13, GoneGood
<1> QED BY <1>9, <1>14

(* A start: from a file that gives a dataset.                                *)
LEMMA StartedGood ==
  ASSUME NEW file \in Seq(AofItems), NEW data \in Seq(Databases), Whole(file, data),
         NEW dump \in Nat, NEW c, NEW left \in [Chance -> Nat], \A k \in Chance : left[k] <= c[k]
  PROVE  Good(Started(file, dump, data, left), c)
<1> DEFINE t == Started(file, dump, data, left)
<1>1. /\ IsState(t) /\ t.life = "up" /\ t.data = data /\ t.acked = Len(data)
      /\ t.dirty = Len(data) /\ t.before = 0 /\ t.state = "on" /\ t.fd = "open" /\ t.buf = <<>>
      /\ t.size = Len(file) /\ t.db = NoDatabase /\ t.rewrite = 0 /\ t.diff = <<>> /\ t.save = 0
      /\ t.children = <<>> /\ t.file = file /\ t.synced = Len(file) /\ t.dump = dump /\ t.left = left
  BY DEF IsState, Fields, Started
<1>2. Len(data) \in Nat /\ Len(file) \in Nat /\ <<>> \in Seq(BufItems)
  OBVIOUS
<1>3. DOMAIN <<>> = {} /\ <<>> \in [{} -> Children] /\ IsFiniteSet({})
  BY FS_EmptySet
<1> HIDE DEF t
<1>4. Typed(t)
  BY <1>1, <1>2, <1>3 DEF Typed
<1>5. file \o t.buf = file
  BY <1>1, ConcatEmptySeq
<1>6. OnInv(t) /\ OffInv(t, c) /\ RewriteInv(t)
  BY <1>1, <1>5 DEF OnInv, OffInv, RewriteInv, Selected
<1>7. AckInv(t)
  BY <1>1, <1>2 DEF AckInv, Whole
<1>8. SaveInv(t)
  BY <1>1, <1>2, <1>3 DEF SaveInv
<1> QED BY <1>1, <1>4, <1>6, <1>7, <1>8 DEF Good, UpInv, t

(* loadDataFromDisk() keeps the invariant.                                  *)
LEMMA RestartGood ==
  ASSUME NEW c \in Chances, Good(server, c), Restart
  PROVE  Good(server', c)
<1> DEFINE data == server.data
           q == Untorn(server.file, data)
           n == Loaded(q, data).n
           other == SubSeq(data, 1, n)
<1>1. server.life # "up" /\ server' = Started(q, server.dump, other, server.left)
  BY DEF Restart, Up, Becomes
<1>2. Typed(server) /\ Sound(server.file, data) /\ \A k \in Chance : server.left[k] <= c[k]
  BY <1>1 DEF Good, DownInv
<1>3. /\ server.file \in Seq(AofItems) /\ data \in Seq(Databases) /\ server.dump \in Nat
      /\ server.left \in [Chance -> Nat]
  BY <1>2 DEF Typed
<1>4. q \in Seq(AofItems) /\ ~Loaded(q, data).bad /\ ~Loaded(q, data).half
      /\ n = Loaded(server.file, data).n
  BY <1>2, <1>3, UntornFacts DEF Sound
<1>5. n <= Len(data)
  BY <1>2, <1>4 DEF Sound
<1> HIDE DEF q
<1>6. other \in Seq(Databases) /\ Whole(q, other)
  BY <1>3, <1>4, <1>5, LoadsTrimmed
<1> HIDE DEF other
<1> QED BY <1>1, <1>2, <1>3, <1>4, <1>6, StartedGood

----------------------------------------------------------------------------
(* The invariant of the specification.                                       *)
LEMMA InitHolds ==
  ASSUME PersistenceInit
  PROVE  PersistenceInv
<1>1. PICK left \in Chances : server = Started(<<>>, 0, <<>>, left)
  BY DEF PersistenceInit
<1>2. left \in [Chance -> Nat] /\ \A k \in Chance : left[k] <= left[k]
  BY PersistenceAssumption
<1>3. <<>> \in Seq(AofItems) /\ <<>> \in Seq(Databases) /\ Len(<<>>) = 0 /\ 0 \in Nat
  OBVIOUS
<1>4. Whole(<<>>, <<>>)
  <2>1. Loads(Loading, <<>>, <<>>) = Loading
    BY LoadsNothing
  <2> QED BY <1>3, <2>1 DEF Whole, Loaded, Loading
<1>5. Good(Started(<<>>, 0, <<>>, left), left)
  BY <1>2, <1>3, <1>4, StartedGood
<1> QED BY <1>1, <1>5 DEF PersistenceInv, PersistenceInit

(* Each step keeps the invariant.                                           *)
LEMMA NextKeeps ==
  ASSUME NoStaleBuffers, PersistenceInv, [PersistenceNext]_persistenceVars
  PROVE  PersistenceInv'
<1>1. PICK c \in Chances : Good(server, c)
  BY DEF PersistenceInv
<1>2. Values
  BY PolicyValues DEF PersistenceInv
<1>3. CASE PersistenceNext
  <2>1. policy' = policy
    <3>1. ASSUME NEW db, WriteCommand(db) \/ ExpireKey(db) PROVE policy' = policy
      BY <3>1 DEF WriteCommand, ExpireKey, Becomes
    <3>2. BeforeSleep \/ ServerCron => policy' = policy
      BY DEF BeforeSleep, ServerCron, Becomes
    <3>3. ASSUME NEW pid, ChildExits(pid) PROVE policy' = policy
      BY <3>3 DEF ChildExits, Becomes
    <3>4. BioFsync \/ BioDone \/ ConfigAppendOnly => policy' = policy
      BY DEF BioFsync, BioDone, ConfigAppendOnly, Becomes
    <3>5. BgrewriteaofCommand \/ BgsaveCommand \/ SaveCommand => policy' = policy
      BY DEF BgrewriteaofCommand, BgsaveCommand, SaveCommand, Becomes
    <3>6. ASSUME NEW save, ShutdownCommand(save) PROVE policy' = policy
      BY <3>6 DEF ShutdownCommand, Becomes
    <3>7. Crash \/ Restart => policy' = policy
      BY DEF Crash, Restart, Becomes
    <3> QED BY <1>3, <3>1, <3>2, <3>3, <3>4, <3>5, <3>6, <3>7 DEF PersistenceNext
  <2>2. ASSUME NEW db \in Databases, WriteCommand(db) \/ ExpireKey(db) PROVE Good(server', c)
    BY <1>1, <2>2, WritesGood
  <2>3. BeforeSleep => Good(server', c)
    BY <1>1, <1>2, BeforeSleepGood
  <2>4. ServerCron => Good(server', c)
    BY <1>1, <1>2, ServerCronGood
  <2>5. ASSUME NEW pid \in DOMAIN server.children, ChildExits(pid) PROVE Good(server', c)
    BY <1>1, <2>5, ChildExitsGood
  <2>6. BioFsync \/ BioDone => Good(server', c)
    BY <1>1, BioGood
  <2>7. ConfigAppendOnly => Good(server', c)
    BY <1>1, <1>2, ConfigGood
  <2>8. BgrewriteaofCommand \/ BgsaveCommand \/ SaveCommand => Good(server', c)
    BY <1>1, CommandsGood
  <2>9. ASSUME NEW save \in BOOLEAN, ShutdownCommand(save) PROVE Good(server', c)
    BY <1>1, <2>9, ShutdownGood
  <2>10. Crash => Good(server', c)
    BY <1>1, CrashGood
  <2>11. Restart => Good(server', c)
    BY <1>1, RestartGood
  <2>12. Good(server', c)
    BY <1>3, <2>2, <2>3, <2>4, <2>5, <2>6, <2>7, <2>8, <2>9, <2>10, <2>11 DEF PersistenceNext
  <2>13. (\E d \in Chances : Good(server, d))'
    <3>1. Good(server', c) => Good(server, c)'
      BY <2>1 DEF Good, UpInv, DownInv, AckDown, OffInv, AckInv, Stale, OnInv, RewriteInv, SaveInv, Typed
    <3> QED BY <2>12, <3>1
  <2> QED BY <2>1, <2>13 DEF PersistenceInv
<1>4. CASE UNCHANGED persistenceVars
  <2>1. server' = server /\ policy' = policy
    BY <1>4 DEF persistenceVars
  <2>2. (Good(server, c))'
    BY <1>1, <2>1 DEF Good, UpInv, DownInv, AckDown, OffInv, AckInv, Stale
  <2> QED BY <2>1, <2>2 DEF PersistenceInv
<1> QED BY <1>3, <1>4

(* With the AOF on, the file and its buffer are the dataset; a file that is  *)
(* there can be loaded; what was acknowledged under "always" is on the disk; *)
(* and the unsaved changes are counted: feedAppendOnlyFile(),                *)
(* flushAppendOnlyFile(), the rewrite, the saves, CONFIG SET appendonly, the *)
(* end of the process and the next start.                                    *)
THEOREM PersistenceStaysExact ==
  ASSUME NoStaleBuffers
  PROVE  PersistenceSpec => []PersistenceIsExact
<1>1. PersistenceInv => PersistenceIsExact
  <2>1. SUFFICES ASSUME NEW c \in Chances, Good(server, c) PROVE PersistenceIsExact
    BY DEF PersistenceInv
  <2>2. Typed(server) /\ server.file \in Seq(AofItems) /\ server.buf \in Seq(AofItems)
        /\ server.data \in Seq(Databases) /\ Len(server.data) \in Nat
    BY <2>1, ItemsOfState DEF Good
  <2>3. CASE server.life = "up"
    <3>1. UpInv(server, c)
      BY <2>1, <2>3 DEF Good
    <3>2. server.state = "on" => Whole(server.file \o server.buf, server.data)
      BY <3>1 DEF UpInv, OnInv
    <3>3. server.state = "on" => Sound(server.file, server.data)
      BY <2>2, <3>2, WholeSound
    <3>4. AofIsDataset
      BY <3>2, <3>3 DEF AofIsDataset, Whole, Sound
    <3>5. AckedIsSynced
      <4>1. SUFFICES ASSUME policy = "always", ~NoFsyncOnRewrite, server.state = "on"
                     PROVE  Loaded(SubSeq(server.file, 1, server.synced), server.data).n >= server.acked
        BY <2>3 DEF AckedIsSynced, Up
      <4>2. server.synced = Len(server.file) /\ server.acked <= Loaded(server.file, server.data).n
        BY <3>1, <4>1 DEF UpInv, AckInv
      <4>3. SubSeq(server.file, 1, server.synced) = server.file
        BY <2>2, <4>2, SubSeqFull
      <4>4. Loaded(server.file, server.data).n \in Nat /\ server.acked \in Nat
        BY <2>2, LoadingFacts, LoadsTyped DEF Loaded, Results, Typed
      <4> QED BY <4>2, <4>3, <4>4
    <3>6. DirtyCountsUnsaved
      <4>1. Len(server.data) <= server.dump + server.dirty /\ server.dump \in Nat /\ server.dirty \in Nat
        BY <2>2, <3>1 DEF UpInv, SaveInv, Typed
      <4> QED BY <2>2, <4>1 DEF DirtyCountsUnsaved
    <3> QED BY <3>4, <3>5, <3>6 DEF PersistenceIsExact
  <2>4. CASE server.life # "up"
    <3>1. Sound(server.file, server.data) /\ AckDown(server)
      BY <2>1, <2>4 DEF Good, DownInv
    <3>2. Loaded(server.file, server.data).n \in Nat /\ server.acked \in Nat
      BY <2>2, LoadedNumber DEF Typed
    <3>3. AckedIsSynced
      BY <2>4, <3>1, <3>2 DEF AckedIsSynced, AckDown, Up
    <3> QED BY <2>4, <3>1, <3>3 DEF PersistenceIsExact, AofIsDataset, DirtyCountsUnsaved, Up, Sound
  <2> QED BY <2>3, <2>4
<1> QED BY <1>1, InitHolds, NextKeeps, PTL DEF PersistenceSpec

----------------------------------------------------------------------------
(* Scripts: the inductive invariant.                                        *)
States == {"off", "wait_start", "wait_end", "online", "lost", "wait_rewrite", "on"}
Reader == [state : States, knows : SUBSET Scripts]
Running ==
  [script : Scripts \cup {NoScript}, sha : BOOLEAN, pos : Nat \ {0}, wrote : BOOLEAN,
   random : BOOLEAN, timedout : BOOLEAN, kill : BOOLEAN]

StreamsTyped ==
  /\ cache \in Seq(Scripts)
  /\ reader \in [Readers -> Reader]
  /\ rewriting \in [on : BOOLEAN, knows : SUBSET Scripts]

(* A script that is sent by its hash is known to all that are fed, or will  *)
(* be fed from what they miss, but to those a failed fork has stranded.     *)
KnownToAll(fifo) ==
  \A s \in ToSet(fifo) :
    /\ \A r \in Readers \ stranded : IsFed(r) => s \in reader[r].knows
    /\ rewriting.on => s \in rewriting.knows

(* A script that takes long is at a command of its program.                 *)
LuaTyped ==
  /\ lua \in Running
  /\ lua # NoLua => lua.script \in Scripts
  /\ lua.timedout => lua.script \in Scripts /\ lua.pos \in 1 .. Len(Program[lua.script])

ScriptingInv == StreamsTyped /\ KnownToAll(cache) /\ LuaTyped /\ ~unknown

(* No program takes long inside pcall().                                    *)
NothingGuarded ==
  \A s \in Scripts : \A i \in 1 .. Len(Program[s]) : Program[s][i] # "guarded"
KillInv == lua.kill => lua.timedout /\ ~lua.wrote

----------------------------------------------------------------------------
(* The cache.                                                               *)
LEMMA CacheAdded ==
  ASSUME NEW s \in Scripts, NEW fifo \in Seq(Scripts)
  PROVE  /\ CacheAdd(s, fifo) \in Seq(Scripts)
         /\ ToSet(CacheAdd(s, fifo)) \subseteq {s} \cup ToSet(fifo)
<1> DEFINE older == IF Len(fifo) = CacheSize THEN Front(fifo) ELSE fifo
           new == <<s>>
<1>1. /\ older \in Seq(Scripts) /\ Len(older) <= Len(fifo)
      /\ \A i \in 1 .. Len(older) : older[i] = fifo[i]
  <2>1. CASE Len(fifo) = CacheSize
    <3>1. /\ Len(fifo) - 1 \in Nat /\ Len(fifo) - 1 < Len(fifo) /\ Len(fifo) \in Nat
      BY <2>1, ScriptingAssumption
    <3>2. /\ Front(fifo) \in Seq(Scripts) /\ Len(Front(fifo)) = Len(fifo) - 1
          /\ \A i \in 1 .. Len(fifo) - 1 : Front(fifo)[i] = fifo[i]
      <4> DEFINE n == Len(fifo) - 1
      <4>1. n \in Nat /\ n < Len(fifo) /\ 1 \in Int /\ n \in Int
        BY <3>1
      <4>2. \A i \in 1 .. n : fifo[i] \in Scripts
        BY <4>1, ElementOfSeq
      <4>3. Front(fifo) = SubSeq(fifo, 1, n)
        BY DEF Front
      <4> HIDE DEF n
      <4>4. /\ SubSeq(fifo, 1, n) \in Seq(Scripts)
            /\ Len(SubSeq(fifo, 1, n)) = IF 1 <= n THEN n - 1 + 1 ELSE 0
            /\ \A i \in 1 .. n - 1 + 1 : SubSeq(fifo, 1, n)[i] = fifo[1 + i - 1]
        BY <4>1, <4>2, SubSeqProperties
      <4>5. n - 1 + 1 = n /\ \A i \in 1 .. n : 1 + i - 1 = i
        BY <4>1
      <4>6. (IF 1 <= n THEN n ELSE 0) = n
        BY <4>1
      <4> QED
        BY <4>3, <4>4, <4>5, <4>6 DEF n
    <3> QED
      BY <2>1, <3>1, <3>2
  <2>2. CASE Len(fifo) # CacheSize
    BY <2>2
  <2> QED
    BY <2>1, <2>2
<1>2. new \in Seq(Scripts) /\ Len(new) = 1 /\ new[1] = s
  OBVIOUS
<1> HIDE DEF older, new
<1>3. /\ new \o older \in Seq(Scripts) /\ Len(new \o older) = 1 + Len(older)
      /\ \A i \in 1 .. 1 + Len(older) :
           (new \o older)[i] = IF i <= 1 THEN new[i] ELSE older[i - 1]
  <2>1. /\ new \o older \in Seq(Scripts) /\ Len(new \o older) = Len(new) + Len(older)
        /\ \A i \in 1 .. Len(new) + Len(older) :
             (new \o older)[i] = IF i <= Len(new) THEN new[i] ELSE older[i - Len(new)]
    BY <1>1, <1>2, ConcatProperties, Zenon
  <2> QED
    BY <1>2, <2>1, Zenon
<1> DEFINE all == new \o older
<1> HIDE DEF all
<1>4. ASSUME NEW i \in DOMAIN all PROVE all[i] \in {s} \cup ToSet(fifo)
  <2>1. i \in 1 .. 1 + Len(older) /\ Len(older) \in Nat /\ Len(fifo) \in Nat
    BY <1>1, <1>3, <1>4 DEF all
  <2>2. CASE i = 1
    BY <1>2, <1>3, <2>1, <2>2 DEF all
  <2>3. CASE i # 1
    <3>1. i - 1 \in 1 .. Len(older) /\ ~(i <= 1) /\ i - 1 \in DOMAIN fifo
      BY <1>1, <2>1, <2>3
    <3>2. all[i] = fifo[i - 1]
      BY <1>1, <1>3, <2>1, <3>1 DEF all
    <3> QED
      BY <3>1, <3>2 DEF ToSet
  <2> QED
    BY <2>2, <2>3
<1>5. CacheAdd(s, fifo) = all
  BY DEF CacheAdd, all, new, older
<1> QED
  BY <1>3, <1>4, <1>5 DEF ToSet, all

LEMMA NothingCached == ToSet(<<>>) = {} /\ <<>> \in Seq(Scripts)
  BY DEF ToSet

(* What is propagated reaches all that are fed.                             *)
LEMMA Propagated ==
  ASSUME StreamsTyped, NEW message \in {"EVAL", "EVALSHA", "LOAD", "FLUSH"}, NEW s,
         message # "FLUSH" => s \in Scripts, Propagate(message, s)
  PROVE  /\ reader' \in [Readers -> Reader]
         /\ rewriting' \in [on : BOOLEAN, knows : SUBSET Scripts]
         /\ rewriting'.on = rewriting.on
         /\ rewriting.on => rewriting'.knows = Sent(message, rewriting.knows, s)
         /\ \A r \in Readers :
              /\ IsFed(r)' = IsFed(r)
              /\ IsFed(r) => reader'[r].knows = Sent(message, reader[r].knows, s)
<1>1. ASSUME NEW k \in SUBSET Scripts PROVE Sent(message, k, s) \in SUBSET Scripts
  BY DEF Sent
<1>2. /\ reader' = [r \in Readers |-> IF IsFed(r) THEN [reader[r] EXCEPT !.knows = Sent(message, @, s)]
                                      ELSE reader[r]]
      /\ rewriting' = IF rewriting.on THEN [rewriting EXCEPT !.knows = Sent(message, @, s)]
                      ELSE rewriting
  BY DEF Propagate
<1>3. reader \in [Readers -> Reader] /\ rewriting \in [on : BOOLEAN, knows : SUBSET Scripts]
  BY DEF StreamsTyped
<1>4. ASSUME NEW r \in Readers
      PROVE  /\ reader'[r] \in Reader /\ reader'[r].state = reader[r].state
             /\ IsFed(r) => reader'[r].knows = Sent(message, reader[r].knows, s)
  <2>1. reader[r] \in Reader /\ Sent(message, reader[r].knows, s) \in SUBSET Scripts
    BY <1>1, <1>3 DEF Reader
  <2> QED
    BY <1>2, <2>1 DEF Reader
<1>5. Sent(message, rewriting.knows, s) \in SUBSET Scripts
  BY <1>1, <1>3
<1> QED
  BY <1>2, <1>3, <1>4, <1>5 DEF IsFed

(* As long as a message does not make anybody forget a script, a cache of   *)
(* known scripts stays one.                                                 *)
LEMMA StillKnown ==
  ASSUME StreamsTyped, KnownToAll(cache), NEW message \in {"EVAL", "EVALSHA", "LOAD"},
         NEW s \in Scripts, Propagate(message, s), stranded' = stranded
  PROVE  /\ cache' \in Seq(Scripts) => StreamsTyped'
         /\ \A fifo : ToSet(fifo) \subseteq ToSet(cache) \cup (IF message = "EVALSHA" THEN {} ELSE {s})
              => KnownToAll(fifo)'
<1>1. /\ reader' \in [Readers -> Reader]
      /\ rewriting' \in [on : BOOLEAN, knows : SUBSET Scripts]
      /\ rewriting'.on = rewriting.on
      /\ rewriting.on => rewriting'.knows = Sent(message, rewriting.knows, s)
      /\ \A r \in Readers :
           /\ IsFed(r)' = IsFed(r)
           /\ IsFed(r) => reader'[r].knows = Sent(message, reader[r].knows, s)
  BY Propagated
<1>2. ASSUME NEW k PROVE Sent(message, k, s) = IF message = "EVALSHA" THEN k ELSE k \cup {s}
  BY DEF Sent
<1>3. ASSUME NEW fifo,
             ToSet(fifo) \subseteq ToSet(cache) \cup (IF message = "EVALSHA" THEN {} ELSE {s})
      PROVE  KnownToAll(fifo)'
  <2> SUFFICES ASSUME NEW t \in ToSet(fifo)
               PROVE  /\ \A r \in Readers \ stranded' : IsFed(r)' => t \in reader'[r].knows
                      /\ rewriting'.on => t \in rewriting'.knows
    BY DEF KnownToAll
  <2>1. t \in ToSet(cache) \/ (message # "EVALSHA" /\ t = s)
    BY <1>3
  <2>2. ASSUME NEW r \in Readers \ stranded, IsFed(r)' PROVE t \in reader'[r].knows
    <3>1. IsFed(r) /\ reader'[r].knows = Sent(message, reader[r].knows, s)
      BY <1>1, <2>2
    <3> QED
      BY <1>2, <2>1, <3>1 DEF KnownToAll
  <2>3. ASSUME rewriting'.on PROVE t \in rewriting'.knows
    <3>1. rewriting.on /\ rewriting'.knows = Sent(message, rewriting.knows, s)
      BY <1>1, <2>3
    <3> QED
      BY <1>2, <2>1, <3>1 DEF KnownToAll
  <2> QED
    BY <2>2, <2>3
<1> QED
  BY <1>1, <1>3 DEF StreamsTyped

----------------------------------------------------------------------------
(* The script that runs.                                                    *)
LEMMA LuaFacts ==
  ASSUME LuaTyped, NEW l \in Running
  PROVE  /\ NoLua \in Running /\ ~NoLua.timedout /\ ~NoLua.kill
         /\ l.pos + 1 \in Nat \ {0}
  BY DEF NoLua, Running

LEMMA QuietStreams ==
  ASSUME ScriptingInv, UNCHANGED <<scriptCache, reader, children, unknown>>
  PROVE  StreamsTyped' /\ KnownToAll(cache)' /\ ~unknown'
<1>1. StreamsTyped'
  BY DEF ScriptingInv, StreamsTyped, children, scriptCache
<1>2. KnownToAll(cache)'
  BY DEF ScriptingInv, KnownToAll, IsFed, children, scriptCache
<1> QED
  BY <1>1, <1>2 DEF ScriptingInv

LEMMA EvalStep ==
  ASSUME ScriptingInv, NEW s \in Scripts, Eval(s) \/ EvalSha(s)
  PROVE  ScriptingInv' /\ KillInv'
<1>1. PICK sha \in BOOLEAN : EvalGeneric(s, sha)
  BY DEF Eval, EvalSha
<1>2. lua' \in Running /\ lua'.script \in Scripts /\ ~lua'.timedout /\ ~lua'.kill
  <2>1. lua' = [NoLua EXCEPT !.script = s, !.sha = sha]
    BY <1>1 DEF EvalGeneric
  <2>2. NoLua \in Running /\ ~NoLua.timedout /\ ~NoLua.kill
    BY DEF Running, NoLua
  <2> QED
    BY <2>1, <2>2 DEF Running
<1>3. LuaTyped' /\ KillInv'
  BY <1>2 DEF LuaTyped, KillInv
<1> QED
  BY <1>1, <1>3, QuietStreams DEF EvalGeneric, ScriptingInv

LEMMA PropagateStep ==
  ASSUME ScriptingInv, NEW message \in {"EVAL", "EVALSHA", "LOAD"}, NEW s \in Scripts,
         Propagate(message, s), cache' \in Seq(Scripts), stranded' = stranded,
         message = "EVALSHA" => s \in ToSet(cache),
         ToSet(cache') \subseteq ToSet(cache) \cup (IF message = "EVALSHA" THEN {} ELSE {s})
  PROVE  StreamsTyped' /\ KnownToAll(cache)' /\ ~unknown'
<1>1. StreamsTyped' /\ \A fifo :
        ToSet(fifo) \subseteq ToSet(cache) \cup (IF message = "EVALSHA" THEN {} ELSE {s})
          => KnownToAll(fifo)'
  BY StillKnown DEF ScriptingInv
<1>2. KnownToAll(cache)'
  <2>1. ASSUME NEW t \in ToSet(cache') PROVE KnownToAll(<<t>>)' /\ t \in ToSet(<<t>>)
    <3>1. ToSet(<<t>>) = {t}
      BY DEF ToSet
    <3> QED
      BY <1>1, <2>1, <3>1
  <2> QED
    BY <2>1 DEF KnownToAll
<1>3. ~unknown'
  BY DEF Propagate, ScriptingInv, KnownToAll
<1> QED
  BY <1>1, <1>2, <1>3

LEMMA EndsStep ==
  ASSUME ScriptingInv, NEW l \in Running, l.script \in Scripts, ScriptEnds(l)
  PROVE  ScriptingInv' /\ KillInv'
<1>1. LuaTyped' /\ KillInv'
  BY LuaFacts DEF ScriptEnds, LuaTyped, KillInv, ScriptingInv
<1>2. CASE l.sha /\ ~Cached(l.script)
  <2>1. cache' = CacheAdd(l.script, cache) /\ Propagate("EVAL", l.script) /\ stranded' = stranded
    BY <1>2 DEF ScriptEnds
  <2>2. cache' \in Seq(Scripts) /\ ToSet(cache') \subseteq {l.script} \cup ToSet(cache)
    BY <2>1, CacheAdded DEF ScriptingInv, StreamsTyped
  <2>3. StreamsTyped' /\ KnownToAll(cache)' /\ ~unknown'
    BY <2>1, <2>2, PropagateStep
  <2> QED
    BY <1>1, <2>3 DEF ScriptingInv
<1>3. CASE ~(l.sha /\ ~Cached(l.script)) /\ l.wrote
  <2> DEFINE message == IF l.sha THEN "EVALSHA" ELSE "EVAL"
  <2>1. cache' = cache /\ Propagate(message, l.script) /\ stranded' = stranded
    BY <1>3 DEF ScriptEnds
  <2>2. message = "EVALSHA" => l.script \in ToSet(cache)
    BY <1>3 DEF Cached
  <2>3. message \in {"EVAL", "EVALSHA", "LOAD"}
    OBVIOUS
  <2> HIDE DEF message
  <2>4. StreamsTyped' /\ KnownToAll(cache)' /\ ~unknown'
    BY <2>1, <2>2, <2>3, PropagateStep DEF ScriptingInv, StreamsTyped
  <2> QED
    BY <1>1, <2>4 DEF ScriptingInv
<1>4. CASE ~(l.sha /\ ~Cached(l.script)) /\ ~l.wrote
  BY <1>1, <1>4, QuietStreams DEF ScriptEnds, ScriptingInv, scriptCache
<1> QED
  BY <1>2, <1>3, <1>4

(* A command of the script, and what SCRIPT KILL and the hook do to it.     *)
LEMMA CommandStep ==
  ASSUME ScriptingInv, RedisCall
  PROVE  ScriptingInv' /\ (KillInv => KillInv')
<1>1. lua \in Running /\ lua.script \in Scripts /\ ~lua.timedout /\ lua.pos + 1 \in Nat \ {0}
  BY LuaFacts DEF RedisCall, Idle, ScriptingInv, LuaTyped
<1> DEFINE Moved(l) == l \in Running /\ l.script = lua.script /\ ~l.timedout /\ l.kill = lua.kill
<1>2. ASSUME NEW l, Moved(l), Steps(l) PROVE ScriptingInv' /\ (KillInv => KillInv')
  <2>1. lua' \in Running /\ lua'.script = l.script /\ ~lua'.timedout /\ lua'.kill = l.kill
    BY <1>2, LuaFacts DEF Steps, Running, ScriptingInv
  <2>2. LuaTyped'
    BY <1>1, <1>2, <2>1 DEF LuaTyped, NoLua
  <2>3. KillInv => KillInv'
    BY <1>1, <1>2, <2>1 DEF KillInv
  <2> QED
    BY <1>2, <2>2, <2>3, QuietStreams DEF Steps, ScriptingInv
<1>3. CASE lua.pos > Len(Program[lua.script])
  BY <1>1, <1>3, EndsStep DEF RedisCall
<1>4. CASE ~(lua.pos > Len(Program[lua.script]))
  <2>1. CASE Op = "write" /\ lua.random
    BY <1>1, <1>4, <2>1, EndsStep DEF RedisCall
  <2>2. CASE Op = "write" /\ ~lua.random
    <3>1. Steps([lua EXCEPT !.wrote = TRUE])
      BY <1>4, <2>2 DEF RedisCall
    <3>2. Moved([lua EXCEPT !.wrote = TRUE])
      BY <1>1 DEF Running
    <3> QED
      BY <1>2, <3>1, <3>2
  <2>3. CASE Op = "random"
    <3>1. Steps([lua EXCEPT !.random = TRUE])
      BY <1>4, <2>3 DEF RedisCall
    <3>2. Moved([lua EXCEPT !.random = TRUE])
      BY <1>1 DEF Running
    <3> QED
      BY <1>2, <3>1, <3>2
  <2>4. CASE Op = "read"
    BY <1>1, <1>2, <1>4, <2>4 DEF RedisCall
  <2>5. CASE Op \notin {"write", "random", "read"}
    <3>1. lua' = [lua EXCEPT !.timedout = TRUE] /\ UNCHANGED <<scriptCache, reader, children, unknown>>
      BY <1>4, <2>5 DEF RedisCall
    <3>2. lua' \in Running /\ lua'.script = lua.script /\ lua'.pos = lua.pos /\ lua'.kill = lua.kill
      BY <1>1, <3>1 DEF Running
    <3>3. Program[lua.script] \in Seq(ScriptOps)
      BY <1>1, ScriptingAssumption
    <3>4. lua.pos \in 1 .. Len(Program[lua.script])
      BY <1>1, <1>4, <3>3 DEF Running
    <3>5. LuaTyped'
      BY <1>1, <3>2, <3>4 DEF LuaTyped, NoLua
    <3>6. KillInv => KillInv'
      BY <1>1, <3>2 DEF KillInv
    <3> QED
      BY <3>1, <3>5, <3>6, QuietStreams DEF ScriptingInv
  <2> QED
    BY <2>1, <2>2, <2>3, <2>4, <2>5
<1> QED
  BY <1>3, <1>4

LEMMA KillStep ==
  ASSUME ScriptingInv, ScriptKill
  PROVE  ScriptingInv' /\ KillInv'
<1>1. lua \in Running /\ lua.timedout /\ ~lua.wrote /\ lua' = [lua EXCEPT !.kill = TRUE]
  BY DEF ScriptKill, Killable, ScriptingInv, LuaTyped
<1>2. /\ lua' \in Running /\ lua'.script = lua.script /\ lua'.pos = lua.pos
      /\ lua'.timedout /\ ~lua'.wrote
  BY <1>1 DEF Running
<1>3. LuaTyped' /\ KillInv'
  BY <1>1, <1>2 DEF ScriptingInv, LuaTyped, KillInv
<1> QED
  BY <1>3, QuietStreams DEF ScriptKill, ScriptingInv

LEMMA HookStep ==
  ASSUME ScriptingInv, MaskCountHook \/ SlowEnds
  PROVE  ScriptingInv' /\ (KillInv /\ NothingGuarded => KillInv')
<1>1. /\ lua \in Running /\ lua.timedout /\ lua.script \in Scripts
      /\ lua.pos \in 1 .. Len(Program[lua.script]) /\ lua.pos + 1 \in Nat \ {0}
  BY LuaFacts DEF MaskCountHook, SlowEnds, ScriptingInv, LuaTyped
<1>2. ASSUME lua' = [lua EXCEPT !.timedout = FALSE, !.pos = @ + 1],
             UNCHANGED <<scriptCache, reader, children, unknown>>
      PROVE  ScriptingInv' /\ lua'.kill = lua.kill
  <2>1. lua' \in Running /\ lua'.script = lua.script /\ ~lua'.timedout /\ lua'.kill = lua.kill
    BY <1>1, <1>2 DEF Running
  <2>2. LuaTyped'
    BY <1>1, <2>1 DEF LuaTyped
  <2> QED
    BY <1>2, <2>1, <2>2, QuietStreams DEF ScriptingInv
<1>3. CASE SlowEnds
  BY <1>2, <1>3 DEF SlowEnds, KillInv
<1>4. CASE MaskCountHook /\ Op = "guarded"
  <2>1. ScriptingInv'
    BY <1>2, <1>4 DEF MaskCountHook
  <2>2. ~NothingGuarded
    BY <1>1, <1>4 DEF NothingGuarded, Op
  <2> QED
    BY <2>1, <2>2
<1>5. CASE MaskCountHook /\ Op # "guarded"
  BY <1>1, <1>5, EndsStep DEF MaskCountHook
<1> QED
  BY <1>3, <1>4, <1>5

----------------------------------------------------------------------------
(* The scripts that are loaded and forgotten, the slaves and the append     *)
(* only file.                                                               *)
LEMMA LoadStep ==
  ASSUME ScriptingInv, NEW s \in Scripts, ScriptLoad(s)
  PROVE  ScriptingInv' /\ lua' = lua
<1>1. Propagate("LOAD", s) /\ cache' = cache /\ stranded' = stranded /\ lua' = lua
  BY DEF ScriptLoad, scriptCache
<1>2. StreamsTyped' /\ KnownToAll(cache)' /\ ~unknown'
  BY <1>1, PropagateStep DEF ScriptingInv, StreamsTyped
<1> QED
  BY <1>1, <1>2 DEF ScriptingInv, LuaTyped

LEMMA FlushStep ==
  ASSUME ScriptingInv, ScriptFlush
  PROVE  ScriptingInv' /\ lua' = lua
<1>1. Propagate("FLUSH", NoScript) /\ cache' = <<>> /\ lua' = lua
  BY DEF ScriptFlush, FlushCache, Flushed
<1>2. /\ reader' \in [Readers -> Reader]
      /\ rewriting' \in [on : BOOLEAN, knows : SUBSET Scripts]
  BY <1>1, Propagated DEF ScriptingInv
<1>3. ~unknown'
  BY <1>1 DEF Propagate, ScriptingInv
<1> QED
  BY <1>1, <1>2, <1>3, NothingCached DEF ScriptingInv, StreamsTyped, KnownToAll, LuaTyped

(* Who attaches, is lost, goes on line or off without anything being sent.  *)
Follows(r) == r \notin stranded' /\ IsFed(r)' => ToSet(cache) \subseteq reader'[r].knows
Excepted(who) == stranded \ who \subseteq stranded'
LEMMA ReadersStep ==
  ASSUME ScriptingInv, reader' \in [Readers -> Reader],
         rewriting' \in [on : BOOLEAN, knows : SUBSET Scripts],
         \/ cache' = <<>>
         \/ /\ cache' = cache /\ \A r \in Readers : Follows(r)
            /\ rewriting'.on => ToSet(cache) \subseteq rewriting'.knows,
         lua' = lua, unknown' = unknown
  PROVE  ScriptingInv'
<1>1. StreamsTyped'
  BY NothingCached DEF ScriptingInv, StreamsTyped
<1>2. KnownToAll(cache)'
  <2>1. CASE cache' = <<>>
    BY <2>1, NothingCached DEF KnownToAll
  <2>2. CASE /\ cache' = cache /\ \A r \in Readers : Follows(r)
             /\ rewriting'.on => ToSet(cache) \subseteq rewriting'.knows
    BY <2>2 DEF KnownToAll, Follows
  <2> QED
    BY <2>1, <2>2
<1>3. LuaTyped'
  BY DEF ScriptingInv, LuaTyped
<1> QED
  BY <1>1, <1>2, <1>3 DEF ScriptingInv

LEMMA ReaderFacts ==
  ASSUME ScriptingInv
  PROVE  /\ reader \in [Readers -> Reader]
         /\ rewriting \in [on : BOOLEAN, knows : SUBSET Scripts]
         /\ rewriting.on => ToSet(cache) \subseteq rewriting.knows
         /\ \A r \in Readers \ stranded : IsFed(r) => ToSet(cache) \subseteq reader[r].knows
         /\ \A r \in Readers :
              reader'[r] = reader[r] /\ (r \in stranded => r \in stranded') => Follows(r)
  BY DEF ScriptingInv, StreamsTyped, KnownToAll, Follows, IsFed

LEMMA AttachedTyped ==
  ASSUME ScriptingInv, NEW who, NEW state \in States, NEW knows \in SUBSET Scripts,
         reader' = Attached(who, state, knows)
  PROVE  /\ reader' \in [Readers -> Reader]
         /\ Excepted(who) =>
              /\ state \notin {"wait_end", "online", "lost", "on"} => \A r \in Readers : Follows(r)
              /\ ToSet(cache) \subseteq knows => \A r \in Readers : Follows(r)
              /\ who \subseteq stranded' => \A r \in Readers : Follows(r)
<1>1. /\ reader \in [Readers -> Reader]
      /\ \A r \in Readers :
           reader'[r] = reader[r] /\ (r \in stranded => r \in stranded') => Follows(r)
  BY ReaderFacts
<1>2. reader' = [r \in Readers |-> IF r \in who THEN [state |-> state, knows |-> knows] ELSE reader[r]]
  BY DEF Attached
<1>3. reader' \in [Readers -> Reader]
  BY <1>1, <1>2 DEF Reader
<1>4. Excepted(who) => \A r \in Readers \ who : Follows(r)
  BY <1>1, <1>2 DEF Excepted
<1>5. ASSUME NEW r \in Readers, r \in who,
             \/ state \notin {"wait_end", "online", "lost", "on"}
             \/ ToSet(cache) \subseteq knows
             \/ who \subseteq stranded'
      PROVE  Follows(r)
  BY <1>2, <1>5 DEF Follows, IsFed
<1> QED
  BY <1>3, <1>4, <1>5

Unfed == {"off", "wait_start", "wait_rewrite"}
LEMMA StateFacts ==
  /\ "off" \in Unfed /\ "wait_start" \in Unfed /\ "wait_rewrite" \in Unfed
  /\ "wait_end" \in States /\ "on" \in States /\ {} \in SUBSET Scripts
  BY DEF States, Unfed

LEMMA DetachedTyped ==
  ASSUME ScriptingInv, NEW who, NEW state \in Unfed, reader' = Attached(who, state, {})
  PROVE  reader' \in [Readers -> Reader] /\ (Excepted(who) => \A r \in Readers : Follows(r))
<1>1. state \in States /\ state \notin {"wait_end", "online", "lost", "on"}
  BY DEF States, Unfed
<1>2. {} \in SUBSET Scripts
  OBVIOUS
<1> QED
  BY <1>1, <1>2, AttachedTyped

LEMMA SyncStep ==
  ASSUME ScriptingInv, NEW r \in LuaSlaves, Sync(r)
  PROVE  ScriptingInv' /\ lua' = lua
<1>1. lua' = lua /\ unknown' = unknown /\ rewriting' = rewriting
  BY DEF Sync
<1>2. CASE ~saving
  <2>1. reader' = Attached({r}, "wait_end", {}) /\ cache' = <<>>
    BY <1>2 DEF Sync, FlushCache, Flushed
  <2>2. reader' \in [Readers -> Reader]
    BY <2>1, AttachedTyped, StateFacts
  <2>3. rewriting' \in [on : BOOLEAN, knows : SUBSET Scripts]
    BY <1>1, ReaderFacts
  <2> QED
    BY <1>1, <2>1, <2>2, <2>3, ReadersStep
<1>3. CASE saving /\ InState("wait_end") # {}
  <2>1. PICK other \in InState("wait_end") :
          /\ reader' = Attached({r}, "wait_end", reader[other].knows)
          /\ stranded' = IF other \in stranded THEN stranded \cup {r} ELSE stranded \ {r}
          /\ cache' = cache
    BY <1>3 DEF Sync
  <2>2. other \in Readers /\ IsFed(other)
    BY DEF InState, IsFed, Readers
  <2>3. /\ reader[other].knows \in SUBSET Scripts
        /\ other \notin stranded => ToSet(cache) \subseteq reader[other].knows
    BY <2>2, ReaderFacts DEF Reader
  <2>4. Excepted({r}) /\ (other \in stranded => {r} \subseteq stranded')
    BY <2>1 DEF Excepted
  <2>5. reader' \in [Readers -> Reader] /\ \A q \in Readers : Follows(q)
    BY <2>1, <2>3, <2>4, AttachedTyped, StateFacts
  <2> QED
    BY <1>1, <2>1, <2>5, ReaderFacts, ReadersStep
<1>4. CASE saving /\ ~(InState("wait_end") # {})
  <2>1. reader' = Attached({r}, "wait_start", {}) /\ cache' = cache /\ stranded' = stranded
    BY <1>4 DEF Sync, scriptCache
  <2>2. reader' \in [Readers -> Reader] /\ \A q \in Readers : Follows(q)
    BY <2>1, DetachedTyped, StateFacts DEF Excepted
  <2> QED
    BY <1>1, <2>1, <2>2, ReaderFacts, ReadersStep
<1> QED
  BY <1>2, <1>3, <1>4

(* A state changed alone: a slave is lost with what it was sent last, and   *)
(* comes back by the backlog.                                               *)
LEMMA StateStep ==
  ASSUME ScriptingInv, NEW r \in Readers, NEW state \in States, IsFed(r), stranded' = stranded,
         reader' = [reader EXCEPT ![r].state = state]
  PROVE  reader' \in [Readers -> Reader] /\ \A q \in Readers : Follows(q)
<1>1. /\ reader \in [Readers -> Reader] /\ (r \notin stranded => ToSet(cache) \subseteq reader[r].knows)
      /\ \A q \in Readers : reader'[q] = reader[q] => Follows(q)
  BY ReaderFacts
<1>2. reader'[r] = [reader[r] EXCEPT !.state = state] /\ \A q \in Readers \ {r} : reader'[q] = reader[q]
  BY <1>1
<1>3. reader[r] \in Reader
  BY <1>1
<1>4. reader'[r].knows = reader[r].knows /\ reader'[r] \in Reader
  BY <1>2, <1>3 DEF Reader
<1>5. Follows(r)
  BY <1>1, <1>4 DEF Follows
<1>6. reader' \in [Readers -> Reader]
  BY <1>1, <1>2, <1>4
<1> QED
  BY <1>1, <1>2, <1>5, <1>6

LEMMA LinkStep ==
  ASSUME ScriptingInv, NEW r \in LuaSlaves, Psync(r) \/ SlaveLost(r)
  PROVE  ScriptingInv' /\ lua' = lua
<1>1. /\ cache' = cache /\ stranded' = stranded /\ lua' = lua /\ unknown' = unknown
      /\ rewriting' = rewriting /\ r \in Readers
  BY DEF Psync, SlaveLost, children, scriptCache, Readers
<1>2. reader' \in [Readers -> Reader] /\ \A q \in Readers : Follows(q)
  <2>1. CASE Psync(r)
    BY <1>1, <2>1, StateStep DEF Psync, IsFed, States
  <2>2. CASE SlaveLost(r) /\ reader[r].state = "online"
    BY <1>1, <2>2, StateStep DEF SlaveLost, IsFed, States
  <2>3. CASE SlaveLost(r) /\ reader[r].state # "online"
    <3>1. reader' = Attached({r}, "off", {})
      BY <2>3 DEF SlaveLost
    <3> QED
      BY <1>1, <3>1, DetachedTyped, StateFacts DEF Excepted
  <2> QED
    BY <2>1, <2>2, <2>3
<1> QED
  BY <1>1, <1>2, ReaderFacts, ReadersStep

LEMMA CronStep ==
  ASSUME ScriptingInv, BacklogFreed \/ ReplicationCronFlush \/ UserBgsave
  PROVE  ScriptingInv' /\ lua' = lua
<1>1. lua' = lua /\ unknown' = unknown /\ rewriting' = rewriting
  BY DEF BacklogFreed, ReplicationCronFlush, UserBgsave, children
<1>2. CASE BacklogFreed
  <2>1. reader' = Attached(InState("lost"), "off", {}) /\ cache' = cache /\ stranded' = stranded
    BY <1>2 DEF BacklogFreed, scriptCache
  <2>2. reader' \in [Readers -> Reader] /\ \A q \in Readers : Follows(q)
    BY <2>1, DetachedTyped, StateFacts DEF Excepted
  <2> QED
    BY <1>1, <2>1, <2>2, ReaderFacts, ReadersStep
<1>3. CASE ReplicationCronFlush \/ UserBgsave
  <2>1. reader' = reader /\ (cache' = <<>> \/ (cache' = cache /\ stranded' = stranded))
    BY <1>3 DEF ReplicationCronFlush, UserBgsave, FlushCache, Flushed, scriptCache
  <2>2. cache' = <<>> \/ (cache' = cache /\ \A r \in Readers : Follows(r))
    BY <2>1, ReaderFacts
  <2>3. /\ reader' \in [Readers -> Reader]
        /\ rewriting' \in [on : BOOLEAN, knows : SUBSET Scripts]
        /\ rewriting'.on => ToSet(cache) \subseteq rewriting'.knows
    BY <1>1, <2>1, ReaderFacts
  <2> QED
    BY <1>1, <2>2, <2>3, ReadersStep
<1> QED
  BY <1>2, <1>3

LEMMA SaveDoneStep ==
  ASSUME ScriptingInv, NEW ok \in BOOLEAN, NEW forked \in BOOLEAN, BackgroundSaveDone(ok, forked)
  PROVE  ScriptingInv' /\ lua' = lua
<1> DEFINE waited == InState("wait_end")
           starting == InState("wait_start")
           started == starting # {} /\ forked
<1>1. lua' = lua /\ unknown' = unknown /\ rewriting' = rewriting
  BY DEF BackgroundSaveDone
<1>2. reader' = [r \in Readers |->
             CASE r \in waited /\ ok -> [reader[r] EXCEPT !.state = "online"]
               [] r \in waited /\ ~ok -> [state |-> "off", knows |-> {}]
               [] r \in starting -> [state |-> "wait_end", knows |-> {}]
               [] OTHER -> reader[r]]
  BY DEF BackgroundSaveDone
<1>3. IF started THEN cache' = <<>> ELSE cache' = cache /\ stranded' = stranded \cup starting
  BY DEF BackgroundSaveDone, FlushCache, Flushed
<1>4. \A r \in waited : reader[r].state = "wait_end" /\ IsFed(r)
  BY DEF InState, IsFed
<1>5. \A r \in starting : reader[r].state = "wait_start" /\ r \notin waited
  BY DEF InState
<1> HIDE DEF waited, starting
<1>6. ASSUME NEW r \in Readers
      PROVE  reader'[r] \in Reader /\ (Follows(r) \/ started)
  <2>0. /\ reader[r] \in Reader
        /\ r \notin stranded /\ IsFed(r) => ToSet(cache) \subseteq reader[r].knows
        /\ ~started /\ reader'[r] = reader[r] => Follows(r)
    BY <1>3, ReaderFacts
  <2>1. CASE r \in waited /\ ok
    <3>1. reader'[r] = [reader[r] EXCEPT !.state = "online"]
      BY <1>2, <1>5, <2>1
    <3>2. reader'[r] \in Reader /\ reader'[r].knows = reader[r].knows
      BY <2>0, <3>1 DEF Reader, States
    <3> QED
      BY <1>3, <1>4, <2>0, <2>1, <3>2 DEF Follows
  <2>2. CASE r \in waited /\ ~ok
    <3>1. reader'[r] = [state |-> "off", knows |-> {}]
      BY <1>2, <1>5, <2>2
    <3> QED
      BY <3>1 DEF Reader, States, Follows, IsFed
  <2>3. CASE r \in starting
    <3>1. reader'[r] = [state |-> "wait_end", knows |-> {}]
      BY <1>2, <1>5, <2>3
    <3> QED
      BY <1>3, <2>3, <3>1 DEF Reader, States, Follows
  <2>4. CASE r \notin waited /\ r \notin starting
    BY <1>2, <2>0, <2>4
  <2> QED
    BY <2>1, <2>2, <2>3, <2>4
<1>7. reader' \in [Readers -> Reader]
  BY <1>2, <1>6
<1> QED
  BY <1>1, <1>3, <1>6, <1>7, ReaderFacts, ReadersStep

LEMMA RewriteStep ==
  ASSUME ScriptingInv, RewriteAofBackground \/ BackgroundRewriteDone \/ TurnAofOff
  PROVE  ScriptingInv' /\ lua' = lua
<1>1. lua' = lua /\ unknown' = unknown
  BY DEF RewriteAofBackground, BackgroundRewriteDone, TurnAofOff
<1>2. CASE RewriteAofBackground
  <2>1. rewriting' = [on |-> TRUE, knows |-> {}] /\ cache' = <<>>
    BY <1>2 DEF RewriteAofBackground, FlushCache, Flushed
  <2>2. reader' = reader \/ reader' = Attached({Aof}, "wait_rewrite", {})
    BY <1>2 DEF RewriteAofBackground
  <2>3. reader' \in [Readers -> Reader]
    BY <2>2, DetachedTyped, StateFacts, ReaderFacts
  <2>4. rewriting' \in [on : BOOLEAN, knows : SUBSET Scripts]
    BY <2>1
  <2> QED
    BY <1>1, <2>1, <2>3, <2>4, ReadersStep
<1>3. CASE BackgroundRewriteDone
  <2>1. rewriting' = NotRewriting /\ cache' = cache /\ stranded' = stranded /\ rewriting.on
    BY <1>3 DEF BackgroundRewriteDone, scriptCache
  <2>2. reader' = reader \/ reader' = Attached({Aof}, "on", rewriting.knows)
    BY <1>3 DEF BackgroundRewriteDone
  <2>3. rewriting.knows \in SUBSET Scripts /\ ToSet(cache) \subseteq rewriting.knows
    BY <2>1, ReaderFacts
  <2>4. reader' \in [Readers -> Reader] /\ \A q \in Readers : Follows(q)
    BY <2>1, <2>2, <2>3, AttachedTyped, ReaderFacts DEF States, Excepted
  <2> QED
    BY <1>1, <2>1, <2>4, ReadersStep DEF NotRewriting
<1>4. CASE TurnAofOff
  <2>1. /\ rewriting' = NotRewriting /\ cache' = cache /\ stranded' = stranded
        /\ reader' = Attached({Aof}, "off", {})
    BY <1>4 DEF TurnAofOff, scriptCache
  <2>2. reader' \in [Readers -> Reader] /\ \A q \in Readers : Follows(q)
    BY <2>1, DetachedTyped, StateFacts DEF Excepted
  <2> QED
    BY <1>1, <2>1, <2>2, ReadersStep DEF NotRewriting
<1> QED
  BY <1>2, <1>3, <1>4

----------------------------------------------------------------------------
(* The invariant, and what it implies.                                      *)
LEMMA InitScripting == ScriptingInit => ScriptingInv /\ KillInv
<1> SUFFICES ASSUME ScriptingInit PROVE ScriptingInv /\ KillInv
  OBVIOUS
<1>1. cache = <<>> /\ lua = NoLua /\ ~unknown /\ rewriting = [on |-> FALSE, knows |-> {}]
  BY DEF ScriptingInit, NotRewriting
<1>2. reader \in [Readers -> Reader]
  BY DEF ScriptingInit, Reader, States
<1>3. LuaTyped /\ KillInv
  BY <1>1 DEF LuaTyped, KillInv, NoLua, Running
<1> QED
  BY <1>1, <1>2, <1>3, NothingCached DEF ScriptingInv, StreamsTyped, KnownToAll

LEMMA NextScripting ==
  ASSUME ScriptingInv, [ScriptingNext]_scriptingVars
  PROVE  ScriptingInv' /\ (KillInv /\ NothingGuarded => KillInv')
<1>1. CASE UNCHANGED scriptingVars
  BY <1>1, QuietStreams DEF scriptingVars, children, scriptCache, ScriptingInv, LuaTyped, KillInv
<1>2. ASSUME NEW s \in Scripts, Eval(s) \/ EvalSha(s)
      PROVE  ScriptingInv' /\ KillInv'
  BY <1>2, EvalStep
<1>3. CASE RedisCall
  BY <1>3, CommandStep
<1>4. CASE ScriptKill
  BY <1>4, KillStep
<1>5. CASE MaskCountHook \/ SlowEnds
  BY <1>5, HookStep
<1>6. ASSUME ScriptingInv' /\ lua' = lua
      PROVE  ScriptingInv' /\ (KillInv => KillInv')
  BY <1>6 DEF KillInv
<1>7. CASE \/ \E s \in Scripts : ScriptLoad(s)
           \/ ScriptFlush
           \/ \E r \in LuaSlaves : Sync(r) \/ Psync(r) \/ SlaveLost(r)
           \/ BacklogFreed \/ ReplicationCronFlush \/ UserBgsave
           \/ \E ok, forked \in BOOLEAN : BackgroundSaveDone(ok, forked)
           \/ RewriteAofBackground \/ BackgroundRewriteDone \/ TurnAofOff
  BY <1>6, <1>7, LoadStep, FlushStep, SyncStep, LinkStep, CronStep, SaveDoneStep, RewriteStep
<1> QED
  BY <1>1, <1>2, <1>3, <1>4, <1>5, <1>7 DEF ScriptingNext

(* The invariant holds in every reachable state.                            *)
THEOREM ScriptingInvariance == ScriptingSpec => []ScriptingInv
<1>1. ScriptingInit => ScriptingInv
  BY InitScripting
<1>2. ScriptingInv /\ [ScriptingNext]_scriptingVars => ScriptingInv'
  BY NextScripting
<1> QED
  BY <1>1, <1>2, PTL DEF ScriptingSpec

(* Nobody is sent the hash of a script it does not know: neither a slave,   *)
(* on line, waiting for its RDB or lost and served by the backlog, nor the  *)
(* append only file, nor the one that is being written                      *)
(* (replicationScriptCacheExists(), evalGenericCommand()).  The slaves that *)
(* a failed fork has left waiting for the end of a BGSAVE are excepted,     *)
(* until the cache is emptied (updateSlavesWaitingBgsave()).                *)
THEOREM HashesReachWhoKnows == ScriptingSpec => []HashesAreKnown
<1>1. ScriptingInv => HashesAreKnown
  BY DEF ScriptingInv, HashesAreKnown
<1> QED
  BY <1>1, ScriptingInvariance, PTL

(* A script is executed as a whole, by all but the slaves of that exception, *)
(* if no script catches by pcall() the error that is to kill it: SCRIPT KILL *)
(* finds only scripts that have not written, and none writes after it        *)
(* (luaMaskCountHook(), scriptCommand()).                                    *)
THEOREM ScriptsStayWhole ==
  ASSUME NothingGuarded
  PROVE  ScriptingSpec => []ScriptsAreWhole
<1>1. ScriptingInit => KillInv
  BY InitScripting
<1>2. ScriptingInv /\ KillInv /\ [ScriptingNext]_scriptingVars => KillInv'
  BY NextScripting
<1>3. ScriptingInv /\ KillInv => ScriptsAreWhole
  BY DEF ScriptingInv, KillInv, ScriptsAreWhole, HashesAreKnown, KilledWroteNothing
<1> QED
  BY <1>1, <1>2, <1>3, ScriptingInvariance, PTL DEF ScriptingSpec
----------------------------------------------------------------------------
(* The keys and their copies.  A copy is told commands; what it will hold    *)
(* when it has executed them is compared with what the master holds, with    *)
(* the very times for the file, and for the slave only whether a key is to   *)
(* expire.                                                                   *)
Vals == KeyValues \cup {"none"}
Entry == {e \in [v : Vals, when : Nat \cup {Never}] : e.v = "none" => e.when = Never}
Datasets == [Slots -> Entry]
Scripted == {c \in [op : {"set", "persist", "del"}, at : Slots, to : Slots, v : Vals, time : {0},
                    nx : BOOLEAN, body : {<<>>}] : c.op = "set" => c.v \in KeyValues}
KeyOps == {"set", "setex", "expire", "expireat", "persist", "del", "rename", "move", "flushdb", "flushall"}
Bodied == {<<>>} \cup {<<d>> : d \in Scripted}
Commands == [op : KeyOps \cup {"get", "eval"}, at : Slots, to : Slots, v : Vals, time : Int,
             nx : BOOLEAN, body : Bodied]

(* The commands clients send, those a slave is told, those in the file.      *)
Legal(c) ==
  /\ c.op \notin {"expire", "expireat"} => c.time \in Nat
  /\ c.op = "set" => c.time = 0 /\ c.v \in KeyValues
  /\ c.op = "setex" => c.time > 0 /\ ~c.nx /\ c.v \in KeyValues
  /\ c.op \in {"rename", "move"} => c.to # c.at
  /\ c.op = "eval" => \E d \in Scripted : c.body = <<d>> /\ (d.op = "persist" => d.at = c.at)
Given == {c \in Commands : Legal(c)}
Told == {c \in Given : /\ c.op # "get"
                       /\ c.op = "expire" => c.time > 0
                       /\ c.op = "expireat" => c.time \in Nat}
Filed == {c \in Told : c.op \notin {"setex", "expire"}}
ToldTo(exact) == IF exact THEN Filed ELSE Told

Contexts == [db : Datasets, role : {"master", "slave", "loading"}, now : Nat, lua : BOOLEAN,
             luaStart : Nat, out : Seq(Told), fed : Seq(Filed), dirty : Nat]

(* A command, apart from who executes it: whether it does something, and     *)
(* what, when the time it gives is `when`.                                   *)
Applies(db, c) ==
  CASE c.op \in {"set", "setex"} -> ~(c.nx /\ db[c.at] # NoEntry)
    [] c.op \in {"expire", "expireat", "del"} -> db[c.at] # NoEntry
    [] c.op = "rename" -> db[c.at] # NoEntry /\ ~(c.nx /\ db[c.to] # NoEntry)
    [] c.op = "move" -> db[c.at] # NoEntry /\ db[c.to] = NoEntry
    [] c.op = "get" -> FALSE
    [] OTHER -> TRUE
Effect(db, c, when) ==
  CASE c.op \in {"set", "setex"} -> [db EXCEPT ![c.at] = Held(c.v, when)]
    [] c.op \in {"expire", "expireat"} -> [db EXCEPT ![c.at] = Held(db[c.at].v, when)]
    [] c.op = "persist" -> [db EXCEPT ![c.at] = Held(db[c.at].v, Never)]
    [] c.op = "del" -> [db EXCEPT ![c.at] = NoEntry]
    [] c.op = "rename" -> [[db EXCEPT ![c.to] = db[c.at]] EXCEPT ![c.at] = NoEntry]
    [] c.op = "move" -> [[db EXCEPT ![c.to] = Held(db[c.at].v, Never)] EXCEPT ![c.at] = NoEntry]
    [] c.op \in {"flushdb", "flushall"} -> Emptied(db, {p \in Slots : c.op = "flushall" \/ p[1] = c.at[1]})
Made(db, c, when) == IF Applies(db, c) THEN Effect(db, c, when) ELSE db

(* What is compared of a time, an entry, a dataset; what a copy reads in a   *)
(* command.                                                                  *)
SeenTime(exact, t) == IF exact \/ t = Never THEN t ELSE 0
Seen(exact, e) == Held(e.v, SeenTime(exact, e.when))
SeenIn(exact, db) == [p \in Slots |-> Seen(exact, db[p])]
TimeOf(now, c) == IF c.op = "set" THEN Never ELSE IF c.op \in {"setex", "expire"} THEN now + c.time ELSE c.time
ReadTime(exact, c) == IF c.op = "set" THEN Never ELSE IF exact THEN c.time ELSE 0
Reads(exact, w, c) ==
  IF c.op = "eval" THEN IF w[c.at] = NoEntry THEN w ELSE Made(w, c.body[1], ReadTime(exact, c.body[1]))
  ELSE Made(w, c, ReadTime(exact, c))

(* Reading the commands q, one who holds v will hold w.                      *)
Leads(exact, v, q, w) ==
  \E f : /\ f \in [0 .. Len(q) -> Datasets] /\ f[0] = v /\ f[Len(q)] = w
         /\ \A i \in 1 .. Len(q) : f[i] = Reads(exact, f[i - 1], q[i])

(* A copy has what the master has, but, where a child may have left them     *)
(* out, for the keys whose time has passed.                                  *)
Agrees(exact, loose, now, w, db) ==
  \A p \in Slots : \/ loose /\ db[p].when # Never /\ now > db[p].when
                   \/ w[p] = Seen(exact, db[p])
NewsFor(exact, s) == IF exact THEN s.fed ELSE s.out
Copied(exact, loose, now, v, base, s) ==
  \E w \in Datasets : Leads(exact, v, base \o NewsFor(exact, s), w) /\ Agrees(exact, loose, now, w, s.db)

----------------------------------------------------------------------------
(* Entries and commands.                                                     *)
LEMMA NoEntryIs ==
  /\ NoEntry \in Entry /\ Never \notin Nat /\ Never = -1
  /\ \A e \in Entry : e.v \in Vals /\ e.when \in Nat \cup {Never}
  /\ \A x \in KeyValues, t \in Nat \cup {Never} : Held(x, t) \in Entry
  /\ \A x \in Vals : Held(x, Never) \in Entry
  /\ \A e \in Entry : e # NoEntry => e.v \in KeyValues
<1>1. "none" \in Vals /\ KeyValues \subseteq Vals /\ \A x \in Vals : x # "none" => x \in KeyValues
  BY DEF Vals
<1>2. \A x \in KeyValues : x # "none"
  BY KeyspaceAssumption
<1>3. Never = -1
  BY DEF Never
<1>4. \A x \in Vals, t \in Nat \cup {Never} : (x = "none" => t = Never) => Held(x, t) \in Entry
  BY DEF Entry, Held
<1>5. \A e \in Entry : e.v \in Vals /\ e.when \in Nat \cup {Never} /\ (e.v = "none" => e.when = Never)
  BY DEF Entry
<1>6. \A e \in Entry : e # NoEntry => e.v \in KeyValues
  <2>1. \A e \in Entry : e.v = "none" /\ e.when = Never => e = NoEntry
    BY DEF Entry, NoEntry
  <2> QED BY <1>1, <1>5, <2>1
<1>7. NoEntry = Held("none", Never)
  BY DEF NoEntry, Held
<1> QED BY <1>1, <1>2, <1>3, <1>4, <1>5, <1>6, <1>7

LEMMA SeenIs ==
  ASSUME NEW exact \in BOOLEAN, NEW e \in Entry
  PROVE  /\ Seen(exact, e) \in Entry /\ Seen(exact, e).v = e.v
         /\ Seen(exact, e).when = SeenTime(exact, e.when)
         /\ Seen(exact, e) = NoEntry <=> e = NoEntry
         /\ exact => Seen(exact, e) = e
         /\ ~exact => Seen(exact, Seen(exact, e)) = Seen(exact, e)
<1>1. Never = -1 /\ Never \notin Nat
  BY DEF Never
<1> QED BY <1>1 DEF Seen, SeenTime, Entry, NoEntry, Held

LEMMA CommandIs ==
  ASSUME NEW c \in Given
  PROVE  /\ c.op \in KeyOps \cup {"get", "eval"} /\ c.at \in Slots /\ c.to \in Slots
         /\ c.v \in Vals /\ c.time \in Int /\ c.nx \in BOOLEAN /\ Legal(c)
         /\ c.op = "eval" => c.body[1] \in Given /\ c.body[1] \in Filed
                             /\ (c.body[1].op = "persist" => c.body[1].at = c.at)
                             /\ c.body[1].op \in {"set", "persist", "del"}
<1>1. c \in Commands /\ Legal(c)
  BY DEF Given
<1>2. ASSUME c.op = "eval"
      PROVE  c.body[1] \in Given /\ c.body[1] \in Filed /\ (c.body[1].op = "persist" => c.body[1].at = c.at)
             /\ c.body[1].op \in {"set", "persist", "del"}
  <2>1. PICK d \in Scripted : c.body = <<d>> /\ (d.op = "persist" => d.at = c.at)
    BY <1>1, <1>2 DEF Legal
  <2>2. c.body[1] = d
    BY <2>1
  <2>3. d \in Commands
    BY DEF Scripted, Commands, KeyOps, Bodied
  <2>4. d.op \in {"set", "persist", "del"} /\ d.time = 0 /\ (d.op = "set" => d.v \in KeyValues)
    BY DEF Scripted
  <2>5. Legal(d)
    BY <2>4 DEF Legal
  <2> QED BY <2>1, <2>2, <2>3, <2>4, <2>5 DEF Given, Told, Filed
<1> QED BY <1>1, <1>2 DEF Commands

LEMMA EmptiedIs ==
  ASSUME NEW db \in Datasets, NEW ps
  PROVE  /\ Emptied(db, ps) \in Datasets
         /\ \A p \in Slots : Emptied(db, ps)[p] = IF p \in ps THEN NoEntry ELSE db[p]
BY NoEntryIs DEF Emptied, Datasets

LEMMA EffectTyped ==
  ASSUME NEW db \in Datasets, NEW c \in Given, c.op \notin {"get", "eval"}, NEW t \in Nat \cup {Never},
         Applies(db, c)
  PROVE  Effect(db, c, t) \in Datasets
<1>1. c.at \in Slots /\ c.to \in Slots /\ c.v \in Vals /\ c.op \in KeyOps
  BY CommandIs
<1>2. \A p \in Slots : db[p] \in Entry /\ db[p].v \in Vals
  BY NoEntryIs DEF Datasets
<1>3. /\ NoEntry \in Entry
      /\ c.op \in {"set", "setex"} => Held(c.v, t) \in Entry
      /\ c.op \in {"expire", "expireat"} => Held(db[c.at].v, t) \in Entry
      /\ \A p \in Slots : Held(db[p].v, Never) \in Entry
  <2>1. c.op \in {"set", "setex"} => c.v \in KeyValues
    BY CommandIs DEF Legal
  <2>2. c.op \in {"expire", "expireat"} => db[c.at] # NoEntry
    BY DEF Applies
  <2> QED BY <1>1, <1>2, <2>1, <2>2, NoEntryIs
<1>4. \A p \in Slots, e \in Entry : [db EXCEPT ![p] = e] \in Datasets
  BY DEF Datasets
<1>5. \A p, q \in Slots, e, f \in Entry : [[db EXCEPT ![p] = e] EXCEPT ![q] = f] \in Datasets
  BY DEF Datasets
<1>6. CASE c.op \in {"set", "setex", "expire", "expireat", "persist", "del"}
  BY <1>1, <1>3, <1>4, <1>6 DEF Effect
<1>7. CASE c.op \in {"rename", "move"}
  BY <1>1, <1>2, <1>3, <1>5, <1>7 DEF Effect
<1>8. CASE c.op \in {"flushdb", "flushall"}
  BY <1>8, EmptiedIs DEF Effect
<1> QED BY <1>1, <1>6, <1>7, <1>8 DEF KeyOps

(* A command touches the places it names, or, if it flushes, all it empties. *)
LEMMA EffectAt ==
  ASSUME NEW db \in Datasets, NEW c \in Given, NEW t
  PROVE  /\ c.op \in {"set", "setex"} =>
              \A p \in Slots : Effect(db, c, t)[p] = IF p = c.at THEN Held(c.v, t) ELSE db[p]
         /\ c.op \in {"expire", "expireat"} =>
              \A p \in Slots : Effect(db, c, t)[p] = IF p = c.at THEN Held(db[p].v, t) ELSE db[p]
         /\ c.op = "persist" =>
              \A p \in Slots : Effect(db, c, t)[p] = IF p = c.at THEN Held(db[p].v, Never) ELSE db[p]
         /\ c.op = "del" =>
              \A p \in Slots : Effect(db, c, t)[p] = IF p = c.at THEN NoEntry ELSE db[p]
         /\ c.op = "rename" =>
              \A p \in Slots : Effect(db, c, t)[p] = IF p = c.at THEN NoEntry
                                                     ELSE IF p = c.to THEN db[c.at] ELSE db[p]
         /\ c.op = "move" =>
              \A p \in Slots : Effect(db, c, t)[p] = IF p = c.at THEN NoEntry
                                                     ELSE IF p = c.to THEN Held(db[c.at].v, Never) ELSE db[p]
         /\ c.op \in {"flushdb", "flushall"} =>
              \A p \in Slots : Effect(db, c, t)[p] = IF c.op = "flushall" \/ p[1] = c.at[1]
                                                     THEN NoEntry ELSE db[p]
<1>1. DOMAIN db = Slots /\ c.at \in Slots /\ c.to \in Slots
  BY CommandIs DEF Datasets
<1>2. ASSUME c.op \in {"flushdb", "flushall"}
      PROVE  \A p \in Slots : Effect(db, c, t)[p] = IF c.op = "flushall" \/ p[1] = c.at[1]
                                                    THEN NoEntry ELSE db[p]
  BY <1>2, EmptiedIs DEF Effect
<1>3. ASSUME c.op \in {"rename", "move"}, NEW e, NEW p \in Slots
      PROVE  [[db EXCEPT ![c.to] = e] EXCEPT ![c.at] = NoEntry][p] =
               IF p = c.at THEN NoEntry ELSE IF p = c.to THEN e ELSE db[p]
  BY <1>1
<1>4. ASSUME NEW e, NEW p \in Slots
      PROVE  [db EXCEPT ![c.at] = e][p] = IF p = c.at THEN e ELSE db[p]
  BY <1>1
<1>5. ASSUME c.op = "rename"
      PROVE  \A p \in Slots : Effect(db, c, t)[p] = IF p = c.at THEN NoEntry
                                                    ELSE IF p = c.to THEN db[c.at] ELSE db[p]
  BY <1>3, <1>5 DEF Effect
<1>6. ASSUME c.op = "move"
      PROVE  \A p \in Slots : Effect(db, c, t)[p] = IF p = c.at THEN NoEntry
                                                    ELSE IF p = c.to THEN Held(db[c.at].v, Never) ELSE db[p]
  BY <1>3, <1>6 DEF Effect
<1>7. c.op \in {"set", "setex"} =>
        \A p \in Slots : Effect(db, c, t)[p] = IF p = c.at THEN Held(c.v, t) ELSE db[p]
  BY <1>4 DEF Effect
<1>8. c.op \in {"expire", "expireat"} =>
        \A p \in Slots : Effect(db, c, t)[p] = IF p = c.at THEN Held(db[p].v, t) ELSE db[p]
  <2>1. ASSUME c.op \in {"expire", "expireat"} PROVE Effect(db, c, t) = [db EXCEPT ![c.at] = Held(db[c.at].v, t)]
    BY <2>1 DEF Effect
  <2> QED BY <1>1, <2>1 DEF Held
<1>9. c.op = "persist" =>
        \A p \in Slots : Effect(db, c, t)[p] = IF p = c.at THEN Held(db[p].v, Never) ELSE db[p]
  <2>1. ASSUME c.op = "persist" PROVE Effect(db, c, t) = [db EXCEPT ![c.at] = Held(db[c.at].v, Never)]
    BY <2>1 DEF Effect
  <2> QED BY <1>1, <2>1 DEF Held
<1>10. c.op = "del" => \A p \in Slots : Effect(db, c, t)[p] = IF p = c.at THEN NoEntry ELSE db[p]
  BY <1>4 DEF Effect
<1> QED BY <1>2, <1>5, <1>6, <1>7, <1>8, <1>9, <1>10

(* A command that does something to the master's keys does the same to those *)
(* of a copy, if the copy has the keys the command looks at.                 *)
Clear(exact, w, db, c) ==
  /\ c.op \notin {"flushdb", "flushall"} => w[c.at] = Seen(exact, db[c.at])
  /\ c.op \in {"rename", "move"} /\ db[c.at] # NoEntry => w[c.to] = Seen(exact, db[c.to])
LEMMA AppliesSame ==
  ASSUME NEW exact \in BOOLEAN, NEW w \in Datasets, NEW db \in Datasets, NEW c \in Given,
         Clear(exact, w, db, c)
  PROVE  Applies(w, c) <=> Applies(db, c)
<1>1. c.at \in Slots /\ c.to \in Slots /\ c.op \in KeyOps \cup {"get", "eval"}
  BY CommandIs
<1>2. \A p \in Slots : Seen(exact, db[p]) = NoEntry <=> db[p] = NoEntry
  BY SeenIs DEF Datasets
<1> QED BY <1>1, <1>2 DEF Applies, Clear, KeyOps
LEMMA EffectAgrees ==
  ASSUME NEW exact \in BOOLEAN, NEW loose \in BOOLEAN, NEW now \in Nat,
         NEW w \in Datasets, NEW db \in Datasets, NEW c \in Given, c.op \notin {"get", "eval"},
         NEW t \in Nat \cup {Never}, Agrees(exact, loose, now, w, db), Clear(exact, w, db, c)
  PROVE  Agrees(exact, loose, now, Effect(w, c, SeenTime(exact, t)), Effect(db, c, t))
<1> DEFINE x == Effect(w, c, SeenTime(exact, t))
           d == Effect(db, c, t)
<1>0. c.at \in Slots /\ c.to \in Slots /\ c.op \in KeyOps
  BY CommandIs
<1>1. ASSUME NEW p \in Slots, d[p] = db[p], x[p] = w[p]
      PROVE  \/ loose /\ d[p].when # Never /\ now > d[p].when
             \/ x[p] = Seen(exact, d[p])
  BY <1>1 DEF Agrees
<1>2. NoEntry = Seen(exact, NoEntry) /\ \A y : Held(y, Never) = Seen(exact, Held(y, Never))
  BY DEF NoEntry, Held, Seen, SeenTime
<1>3. \A y : Held(y, SeenTime(exact, t)) = Seen(exact, Held(y, t))
  BY DEF Held, Seen
<1>4. \A p \in Slots : w[p] = Seen(exact, db[p]) => w[p].v = db[p].v
  BY SeenIs DEF Datasets
<1>5. ASSUME NEW p \in Slots
      PROVE  (d[p] = db[p] /\ x[p] = w[p]) \/ x[p] = Seen(exact, d[p])
  <2>1. CASE c.op \in {"set", "setex", "expire", "expireat", "persist", "del"}
    <3>1. w[c.at] = Seen(exact, db[c.at])
      BY <2>1 DEF Clear
    <3>2. w[c.at].v = db[c.at].v
      BY <1>0, <1>4, <3>1
    <3>3. CASE p # c.at
      BY <2>1, <3>3, EffectAt
    <3>4. CASE p = c.at /\ c.op \in {"set", "setex"}
      BY <1>3, <3>4, EffectAt
    <3>5. CASE p = c.at /\ c.op \in {"expire", "expireat"}
      BY <1>3, <3>2, <3>5, EffectAt
    <3>6. CASE p = c.at /\ c.op = "persist"
      BY <1>2, <3>2, <3>6, EffectAt
    <3>7. CASE p = c.at /\ c.op = "del"
      BY <1>2, <3>7, EffectAt
    <3> QED BY <2>1, <3>3, <3>4, <3>5, <3>6, <3>7
  <2>2. CASE c.op \in {"rename", "move"}
    <3>1. w[c.at] = Seen(exact, db[c.at]) /\ w[c.at].v = db[c.at].v
      BY <1>0, <1>4, <2>2 DEF Clear
    <3>2. CASE p = c.at
      BY <1>2, <2>2, <3>2, EffectAt
    <3>3. CASE p # c.at /\ p = c.to
      BY <1>2, <2>2, <3>1, <3>3, EffectAt
    <3>4. CASE p # c.at /\ p # c.to
      BY <2>2, <3>4, EffectAt
    <3> QED BY <3>2, <3>3, <3>4
  <2>3. CASE c.op \in {"flushdb", "flushall"}
    BY <1>2, <2>3, EffectAt
  <2> QED BY <1>0, <2>1, <2>2, <2>3 DEF KeyOps
<1> HIDE DEF x, d
<1>6. \A p \in Slots : \/ loose /\ d[p].when # Never /\ now > d[p].when
                       \/ x[p] = Seen(exact, d[p])
  BY <1>1, <1>5
<1> QED BY <1>6 DEF Agrees, x, d
LEMMA DoneAgrees ==
  ASSUME NEW exact \in BOOLEAN, NEW loose \in BOOLEAN, NEW now \in Nat,
         NEW w \in Datasets, NEW db \in Datasets, NEW c \in Given, c.op # "eval",
         NEW t \in Nat \cup {Never}, Agrees(exact, loose, now, w, db), Clear(exact, w, db, c)
  PROVE  Agrees(exact, loose, now, Made(w, c, SeenTime(exact, t)), Made(db, c, t))
<1>1. CASE Applies(db, c)
  <2>1. c.op # "get"
    BY <1>1 DEF Applies
  <2> QED BY <1>1, <2>1, AppliesSame, EffectAgrees DEF Made
<1>2. CASE ~Applies(db, c)
  BY <1>2, AppliesSame DEF Made
<1> QED BY <1>1, <1>2
LEMMA DoneTyped ==
  ASSUME NEW db \in Datasets, NEW c \in Given, c.op # "eval", NEW t \in Nat \cup {Never}
  PROVE  Made(db, c, t) \in Datasets
<1>1. CASE c.op = "get"
  BY <1>1 DEF Made, Applies
<1>2. CASE c.op # "get"
  BY <1>2, EffectTyped DEF Made
<1> QED BY <1>1, <1>2

----------------------------------------------------------------------------
(* What a command is executed in.                                            *)
Alike(s, t) == t.role = s.role /\ t.now = s.now /\ t.lua = s.lua /\ t.luaStart = s.luaStart
LEMMA ContextIs ==
  ASSUME NEW s \in Contexts
  PROVE  /\ s.db \in Datasets /\ s.now \in Nat /\ s.luaStart \in Nat /\ s.lua \in BOOLEAN
         /\ s.out \in Seq(Told) /\ s.fed \in Seq(Filed) /\ s.dirty \in Nat
         /\ \A p \in Slots : /\ s.db[p] \in Entry
                             /\ s.db[p].when \in Nat \cup {Never} /\ s.db[p].v \in Vals
<1>1. s.db \in Datasets
  BY DEF Contexts
<1>2. \A p \in Slots : s.db[p] \in Entry
  BY <1>1 DEF Datasets
<1> QED BY <1>1, <1>2, NoEntryIs DEF Contexts

LEMMA DelIs ==
  ASSUME NEW p \in Slots
  PROVE  /\ DelOf(p) \in Filed /\ DelOf(p) \in Told /\ DelOf(p) \in Given
         /\ DelOf(p).op = "del" /\ DelOf(p).at = p
         /\ \A now : FedToAof(DelOf(p), now) = <<DelOf(p)>>
<1>1. DelOf(p) \in Commands
  BY DEF DelOf, Cmd, Commands, KeyOps, Bodied, Vals
<1>2. DelOf(p).op = "del" /\ DelOf(p).at = p /\ DelOf(p).time = 0
  BY DEF DelOf, Cmd
<1> QED BY <1>1, <1>2 DEF Filed, Told, Given, Legal, FedToAof

LEMMA WithIs ==
  ASSUME NEW s \in Contexts, NEW p \in Slots, NEW e \in Entry
  PROVE  /\ With(s, p, e) \in Contexts /\ Alike(s, With(s, p, e))
         /\ With(s, p, e).db = [s.db EXCEPT ![p] = e]
         /\ With(s, p, e).dirty = s.dirty
         /\ With(s, p, e).out = s.out /\ With(s, p, e).fed = s.fed
<1>1. [s.db EXCEPT ![p] = e] \in Datasets
  BY ContextIs DEF Datasets
<1> QED BY <1>1 DEF With, Contexts, Alike
LEMMA DirtyIs ==
  ASSUME NEW s \in Contexts
  PROVE  /\ Dirty(s) \in Contexts /\ Alike(s, Dirty(s)) /\ Dirty(s).db = s.db
         /\ Dirty(s).dirty = s.dirty + 1 /\ Dirty(s).dirty > s.dirty
         /\ Dirty(s).out = s.out /\ Dirty(s).fed = s.fed
<1>1. s.dirty \in Nat
  BY ContextIs
<1> QED BY <1>1 DEF Dirty, Contexts, Alike

(* A key that is looked up is deleted if it has expired, on a master, and    *)
(* the copies are told.                                                      *)
LEMMA ExpireIs ==
  ASSUME NEW s \in Contexts, NEW p \in Slots
  PROVE  LET t == ExpireIfNeeded(s, p)
         IN /\ t \in Contexts /\ Alike(s, t) /\ t.dirty = s.dirty
            /\ s.role # "master" => t = s
            /\ s.role = "master" => ~IsExpired(t, p)
            /\ \A q \in Slots : ~IsExpired(s, q) => ~IsExpired(t, q) /\ t.db[q] = s.db[q]
            /\ \/ t = s
               \/ /\ t.db = [s.db EXCEPT ![p] = NoEntry]
                  /\ t.out = s.out \o <<DelOf(p)>> /\ t.fed = s.fed \o <<DelOf(p)>>
<1> DEFINE t == ExpireIfNeeded(s, p)
           u == PropagateExpire(s, p)
<1>1. CASE ~(s.role = "master" /\ IsExpired(s, p))
  BY <1>1 DEF ExpireIfNeeded, Alike
<1>2. CASE s.role = "master" /\ IsExpired(s, p)
  <2>1. t = With(u, p, NoEntry)
    BY <1>2 DEF ExpireIfNeeded
  <2>2. u = [s EXCEPT !.out = Append(@, DelOf(p)), !.fed = @ \o <<DelOf(p)>>]
    BY DelIs DEF PropagateExpire, Feed
  <2>3. Append(s.out, DelOf(p)) \in Seq(Told) /\ s.fed \o <<DelOf(p)>> \in Seq(Filed)
    BY ContextIs, DelIs
  <2>4. Append(s.out, DelOf(p)) = s.out \o <<DelOf(p)>>
    BY ContextIs, DelIs, AppendIsConcat
  <2>5. u \in Contexts /\ Alike(s, u) /\ u.db = s.db /\ u.dirty = s.dirty
        /\ u.out = s.out \o <<DelOf(p)>> /\ u.fed = s.fed \o <<DelOf(p)>>
    BY <2>2, <2>3, <2>4 DEF Contexts, Alike
  <2> HIDE DEF u
  <2>6. /\ t \in Contexts /\ Alike(s, t) /\ t.dirty = s.dirty /\ t.db = [s.db EXCEPT ![p] = NoEntry]
        /\ t.out = s.out \o <<DelOf(p)>> /\ t.fed = s.fed \o <<DelOf(p)>>
    BY <2>1, <2>5, WithIs, NoEntryIs DEF Alike
  <2> HIDE DEF t
  <2>7. \A q \in Slots : t.db[q] = IF q = p THEN NoEntry ELSE s.db[q]
    BY <2>6, ContextIs DEF Datasets
  <2>8. ~IsExpired(t, p)
    BY <2>7 DEF IsExpired, NoEntry
  <2>9. \A q \in Slots : ~IsExpired(s, q) => ~IsExpired(t, q) /\ t.db[q] = s.db[q]
    BY <1>2, <2>6, <2>7 DEF IsExpired, Alike, ExpireTime
  <2> QED BY <1>2, <2>6, <2>8, <2>9 DEF t
<1> QED BY <1>1, <1>2

(* The keys a command looks up.                                              *)
Looked(s, c) ==
  IF c.op \in {"persist", "flushdb", "flushall"} THEN s
  ELSE IF c.op \in {"rename", "move"} /\ Exists(ExpireIfNeeded(s, c.at), c.at)
  THEN ExpireIfNeeded(ExpireIfNeeded(s, c.at), c.to)
  ELSE ExpireIfNeeded(s, c.at)
LEMMA LookedIs ==
  ASSUME NEW s \in Contexts, NEW c \in Given
  PROVE  LET u == Looked(s, c)
         IN /\ u \in Contexts /\ Alike(s, u) /\ u.dirty = s.dirty
            /\ s.role # "master" => u = s
            /\ s.role = "master" /\ c.op \notin {"persist", "flushdb", "flushall"} => ~IsExpired(u, c.at)
            /\ s.role = "master" /\ c.op \in {"rename", "move"} /\ Exists(u, c.at) => ~IsExpired(u, c.to)
            /\ \A q \in Slots : ~IsExpired(s, q) => ~IsExpired(u, q) /\ u.db[q] = s.db[q]
<1> DEFINE t == ExpireIfNeeded(s, c.at)
           x == ExpireIfNeeded(t, c.to)
<1>1. c.at \in Slots /\ c.to \in Slots
  BY CommandIs
<1>2. /\ t \in Contexts /\ Alike(s, t) /\ t.dirty = s.dirty
      /\ s.role # "master" => t = s
      /\ s.role = "master" => ~IsExpired(t, c.at)
      /\ \A q \in Slots : ~IsExpired(s, q) => ~IsExpired(t, q) /\ t.db[q] = s.db[q]
  BY <1>1, ExpireIs
<1>3. /\ x \in Contexts /\ Alike(t, x) /\ x.dirty = t.dirty
      /\ t.role # "master" => x = t
      /\ t.role = "master" => ~IsExpired(x, c.to)
      /\ \A q \in Slots : ~IsExpired(t, q) => ~IsExpired(x, q) /\ x.db[q] = t.db[q]
  <2> HIDE DEF t
  <2> QED BY <1>1, <1>2, ExpireIs
<1>4. Looked(s, c) = IF c.op \in {"persist", "flushdb", "flushall"} THEN s
                     ELSE IF c.op \in {"rename", "move"} /\ Exists(t, c.at) THEN x ELSE t
  BY DEF Looked
<1> HIDE DEF t, x
<1>5. CASE c.op \in {"persist", "flushdb", "flushall"}
  BY <1>4, <1>5 DEF Alike
<1>6. CASE c.op \notin {"persist", "flushdb", "flushall"} /\ ~(c.op \in {"rename", "move"} /\ Exists(t, c.at))
  BY <1>2, <1>4, <1>6
<1>7. CASE c.op \in {"rename", "move"} /\ Exists(t, c.at)
  <2>1. Looked(s, c) = x
    BY <1>4, <1>7
  <2>2. Alike(s, x)
    BY <1>2, <1>3 DEF Alike
  <2>3. t.role = s.role
    BY <1>2 DEF Alike
  <2>4. s.role = "master" => ~IsExpired(x, c.at) /\ ~IsExpired(x, c.to)
    BY <1>1, <1>2, <1>3, <2>3
  <2>5. s.role # "master" => x = s
    BY <1>2, <1>3, <2>3
  <2>6. \A q \in Slots : ~IsExpired(s, q) => ~IsExpired(x, q) /\ x.db[q] = s.db[q]
    BY <1>2, <1>3
  <2>7. x \in Contexts /\ x.dirty = s.dirty
    BY <1>2, <1>3
  <2> QED BY <2>1, <2>2, <2>4, <2>5, <2>6, <2>7
<1> QED BY <1>5, <1>6, <1>7

----------------------------------------------------------------------------
(* What a copy holds after the commands it was told.                         *)
LEMMA ReadsTyped ==
  ASSUME NEW exact \in BOOLEAN, NEW w \in Datasets, NEW c \in Told
  PROVE  Reads(exact, w, c) \in Datasets
<1>1. c \in Given /\ (c.op # "eval" => ReadTime(exact, c) \in Nat \cup {Never})
  BY CommandIs DEF Told, ReadTime, Legal
<1>2. ASSUME c.op = "eval"
      PROVE  /\ c.body[1] \in Given /\ c.body[1].op # "eval"
             /\ ReadTime(exact, c.body[1]) \in Nat \cup {Never}
  <2>1. c.body[1] \in Given /\ c.body[1].op \in {"set", "persist", "del"}
    BY <1>1, <1>2, CommandIs
  <2>2. c.body[1].time \in Nat
    BY <2>1, CommandIs DEF Legal
  <2> QED BY <2>1, <2>2 DEF ReadTime
<1> QED BY <1>1, <1>2, DoneTyped DEF Reads

LEMMA LeadsNothing ==
  ASSUME NEW exact, NEW v \in Datasets
  PROVE  Leads(exact, v, <<>>, v)
<1> DEFINE f == [i \in 0 .. 0 |-> v]
<1>1. f \in [0 .. Len(<<>>) -> Datasets] /\ f[0] = v /\ f[Len(<<>>)] = v /\ 1 .. Len(<<>>) = {}
  OBVIOUS
<1> QED BY <1>1 DEF Leads

LEMMA LeadsConcat ==
  ASSUME NEW exact, NEW S, NEW q \in Seq(S), NEW r \in Seq(S), NEW v, NEW w, NEW x,
         Leads(exact, v, q, w), Leads(exact, w, r, x)
  PROVE  Leads(exact, v, q \o r, x)
<1>1. PICK f \in [0 .. Len(q) -> Datasets] :
        f[0] = v /\ f[Len(q)] = w /\ \A i \in 1 .. Len(q) : f[i] = Reads(exact, f[i - 1], q[i])
  BY DEF Leads
<1>2. PICK g \in [0 .. Len(r) -> Datasets] :
        g[0] = w /\ g[Len(r)] = x /\ \A i \in 1 .. Len(r) : g[i] = Reads(exact, g[i - 1], r[i])
  BY DEF Leads
<1> DEFINE m == Len(q)
           n == Len(r)
           h == [i \in 0 .. m + n |-> IF i <= m THEN f[i] ELSE g[i - m]]
<1>3. m \in Nat /\ n \in Nat /\ Len(q \o r) = m + n
      /\ \A i \in 1 .. m + n : (q \o r)[i] = IF i <= m THEN q[i] ELSE r[i - m]
  BY ConcatProperties
<1> HIDE DEF m, n
<1>4. \A i \in 0 .. m + n : h[i] \in Datasets
  <2> TAKE i \in 0 .. m + n
  <2>1. CASE i <= m
    BY <1>1, <1>3, <2>1 DEF m
  <2>2. CASE ~(i <= m)
    <3>1. i - m \in 0 .. n
      BY <1>3, <2>2
    <3> QED BY <1>2, <2>2, <3>1 DEF n
  <2> QED BY <2>1, <2>2
<1>5. h[0] = v /\ h[m + n] = x
  <2>1. h[0] = v
    BY <1>1, <1>3
  <2>2. CASE n = 0
    BY <1>1, <1>2, <1>3, <2>2 DEF m, n
  <2>3. CASE n # 0
    <3>1. ~(m + n <= m) /\ (m + n) - m = n /\ m + n \in 0 .. m + n
      BY <1>3, <2>3
    <3>2. h[m + n] = g[(m + n) - m]
      BY <3>1
    <3> QED BY <1>2, <2>1, <3>1, <3>2 DEF n
  <2> QED BY <2>1, <2>2, <2>3
<1>6. ASSUME NEW i \in 1 .. m + n
      PROVE  h[i] = Reads(exact, h[i - 1], (q \o r)[i])
  <2>1. CASE i <= m
    <3>1. i \in 1 .. m /\ i - 1 <= m /\ i - 1 \in 0 .. m + n
      BY <1>3, <2>1
    <3> QED BY <1>1, <1>3, <2>1, <3>1 DEF m
  <2>2. CASE i = m + 1
    <3>1. 1 \in 1 .. n /\ i - m = 1 /\ i - 1 = m /\ m \in 0 .. m + n /\ ~(i <= m)
      <4>1. i \in Int /\ i <= m + n /\ m \in Nat /\ n \in Nat
        BY <1>3
      <4> QED BY <2>2, <4>1
    <3>2. h[i] = g[1] /\ h[i - 1] = f[m] /\ (q \o r)[i] = r[1]
      BY <1>3, <3>1
    <3>3. g[1] = Reads(exact, g[1 - 1], r[1])
      BY <1>2, <3>1 DEF n
    <3> QED BY <1>1, <1>2, <3>2, <3>3 DEF m
  <2>3. CASE i > m + 1
    <3>1. i - m \in 1 .. n /\ (i - m) - 1 = (i - 1) - m /\ i - 1 \in 0 .. m + n
          /\ ~(i <= m) /\ ~(i - 1 <= m)
      BY <1>3, <2>3
    <3>2. h[i] = g[i - m] /\ h[i - 1] = g[(i - m) - 1] /\ (q \o r)[i] = r[i - m]
      BY <1>3, <3>1
    <3> QED BY <1>2, <3>1, <3>2 DEF n
  <2> QED BY <1>3, <2>1, <2>2, <2>3
<1>7. h \in [0 .. m + n -> Datasets]
  BY <1>4
<1> HIDE DEF h
<1> QED BY <1>3, <1>5, <1>6, <1>7 DEF Leads

LEMMA LeadsOne ==
  ASSUME NEW exact \in BOOLEAN, NEW w \in Datasets, NEW c \in Told
  PROVE  Leads(exact, w, <<c>>, Reads(exact, w, c))
<1> DEFINE f == [i \in 0 .. 1 |-> IF i = 0 THEN w ELSE Reads(exact, w, c)]
<1>1. f \in [0 .. 1 -> Datasets] /\ f[0] = w /\ f[1] = Reads(exact, w, c)
  BY ReadsTyped
<1>2. Len(<<c>>) = 1 /\ <<c>>[1] = c /\ 1 - 1 = 0 /\ \A i \in 1 .. 1 : i = 1
  OBVIOUS
<1> HIDE DEF f
<1> QED BY <1>1, <1>2 DEF Leads

LEMMA LeadsHead ==
  ASSUME NEW exact, NEW S, NEW q \in Seq(S), q # <<>>, NEW v, NEW w, Leads(exact, v, q, w)
  PROVE  Leads(exact, Reads(exact, v, q[1]), Tail(q), w)
<1>1. PICK f \in [0 .. Len(q) -> Datasets] :
        f[0] = v /\ f[Len(q)] = w /\ \A i \in 1 .. Len(q) : f[i] = Reads(exact, f[i - 1], q[i])
  BY DEF Leads
<1> DEFINE n == Len(Tail(q))
           g == [i \in 0 .. n |-> f[i + 1]]
<1>2. n \in Nat /\ Len(q) = n + 1 /\ \A i \in 1 .. n : Tail(q)[i] = q[i + 1]
  BY HeadTailProperties
<1> HIDE DEF n
<1>3. g \in [0 .. n -> Datasets]
  BY <1>1, <1>2
<1>4. g[0] = Reads(exact, v, q[1]) /\ g[n] = w
  <2>1. 1 \in 1 .. Len(q) /\ 1 - 1 = 0
    BY <1>2
  <2>2. g[0] = f[1] /\ g[n] = f[n + 1]
    BY <1>2
  <2>3. f[1] = Reads(exact, f[1 - 1], q[1])
    BY <1>1, <2>1
  <2> QED BY <1>1, <1>2, <2>1, <2>2, <2>3
<1>5. ASSUME NEW i \in 1 .. n PROVE g[i] = Reads(exact, g[i - 1], Tail(q)[i])
  <2>1. i + 1 \in 1 .. Len(q) /\ (i + 1) - 1 = i /\ (i - 1) + 1 = i /\ i - 1 \in 0 .. n /\ i \in 0 .. n
    BY <1>2
  <2>2. g[i] = f[i + 1] /\ g[i - 1] = f[i]
    BY <2>1
  <2>3. f[i + 1] = Reads(exact, f[(i + 1) - 1], q[i + 1])
    BY <1>1, <2>1
  <2> QED BY <1>2, <2>1, <2>2, <2>3
<1> HIDE DEF g
<1> QED BY <1>3, <1>4, <1>5 DEF Leads, n

LEMMA LeadsEmpty ==
  ASSUME NEW exact, NEW v, NEW w, Leads(exact, v, <<>>, w)
  PROVE  w = v
<1>1. Len(<<>>) = 0
  OBVIOUS
<1> QED BY <1>1 DEF Leads

(* A DEL for each key that is deleted.                                       *)
LEMMA ReadsDel ==
  ASSUME NEW exact \in BOOLEAN, NEW w \in Datasets, NEW p \in Slots
  PROVE  Reads(exact, w, DelOf(p)) = [w EXCEPT ![p] = NoEntry]
<1>1. DelOf(p) \in Given /\ DelOf(p).op = "del" /\ DelOf(p).at = p
  BY DelIs
<1>2. CASE w[p] # NoEntry
  BY <1>1, <1>2 DEF Reads, Made, Applies, Effect
<1>3. CASE w[p] = NoEntry
  <2>1. Reads(exact, w, DelOf(p)) = w
    BY <1>1, <1>3 DEF Reads, Made, Applies
  <2> QED BY <1>3, <2>1 DEF Datasets
<1> QED BY <1>2, <1>3
LEMMA LeadsDels ==
  ASSUME NEW exact \in BOOLEAN, NEW w \in Datasets, NEW n \in Nat, NEW keys \in [1 .. n -> Slots]
  PROVE  /\ [i \in 1 .. n |-> DelOf(keys[i])] \in Seq(Filed)
         /\ Leads(exact, w, [i \in 1 .. n |-> DelOf(keys[i])], Emptied(w, {keys[i] : i \in 1 .. n}))
<1> DEFINE dels == [i \in 1 .. n |-> DelOf(keys[i])]
           Gone(k) == {keys[i] : i \in 1 .. k}
           f == [k \in 0 .. n |-> Emptied(w, Gone(k))]
<1>1. dels \in Seq(Filed) /\ Len(dels) = n /\ \A i \in 1 .. n : dels[i] = DelOf(keys[i])
  <2>1. \A i \in 1 .. n : DelOf(keys[i]) \in Filed
    BY DelIs
  <2> QED BY <2>1
<1>2. f \in [0 .. n -> Datasets] /\ f[n] = Emptied(w, Gone(n))
  BY EmptiedIs
<1>3. f[0] = w
  <2>1. f[0] = Emptied(w, Gone(0)) /\ Gone(0) = {}
    OBVIOUS
  <2> HIDE DEF f, Gone
  <2> QED BY <2>1 DEF Emptied, Datasets
<1>4. ASSUME NEW k \in 1 .. n PROVE f[k] = Reads(exact, f[k - 1], dels[k])
  <2>1. f[k] = Emptied(w, Gone(k)) /\ f[k - 1] = Emptied(w, Gone(k - 1)) /\ f[k - 1] \in Datasets
    BY EmptiedIs
  <2>2. dels[k] = DelOf(keys[k]) /\ keys[k] \in Slots
    OBVIOUS
  <2>3. \A p : p \in Gone(k) <=> p = keys[k] \/ p \in Gone(k - 1)
    <3>1. \A i : i \in 1 .. k <=> i = k \/ i \in 1 .. k - 1
      OBVIOUS
    <3> QED BY <3>1
  <2> HIDE DEF f, Gone, dels
  <2>4. Reads(exact, f[k - 1], dels[k]) = [f[k - 1] EXCEPT ![keys[k]] = NoEntry]
    BY <2>1, <2>2, ReadsDel
  <2>5. Emptied(w, Gone(k)) = [Emptied(w, Gone(k - 1)) EXCEPT ![keys[k]] = NoEntry]
    BY <2>2, <2>3 DEF Emptied
  <2> QED BY <2>1, <2>4, <2>5
<1>5. Leads(exact, w, dels, Emptied(w, Gone(n)))
  <2> HIDE DEF f, dels, Gone
  <2> QED BY <1>1, <1>2, <1>3, <1>4 DEF Leads
<1> QED BY <1>1, <1>5

----------------------------------------------------------------------------
(* The commands, on whatever they look up.                                   *)
LEMMA TimeTyped ==
  ASSUME NEW now \in Nat, NEW c \in Given, c.op \in {"expire", "expireat"} => TimeOf(now, c) \in Nat
  PROVE  TimeOf(now, c) \in Nat \cup {Never}
<1>1. c.time \in Int /\ Legal(c)
  BY CommandIs
<1> QED BY <1>1 DEF TimeOf, Legal

(* From u to r by a write, or not at all.                                    *)
Wrote(u, r, db) ==
  /\ r \in Contexts /\ Alike(u, r) /\ r.out = u.out /\ r.fed = u.fed /\ r.db = db
  /\ \/ r.dirty > u.dirty
     \/ r.dirty = u.dirty /\ r.db = u.db
LEMMA WroteNothing ==
  ASSUME NEW u \in Contexts
  PROVE  Wrote(u, u, u.db)
BY DEF Wrote, Alike
LEMMA WroteOne ==
  ASSUME NEW u \in Contexts, NEW p \in Slots, NEW e \in Entry
  PROVE  Wrote(u, Dirty(With(u, p, e)), [u.db EXCEPT ![p] = e])
<1> DEFINE x == With(u, p, e)
<1>1. x \in Contexts /\ Alike(u, x) /\ x.db = [u.db EXCEPT ![p] = e] /\ x.dirty = u.dirty
      /\ x.out = u.out /\ x.fed = u.fed
  BY WithIs
<1> HIDE DEF x
<1> QED BY <1>1, DirtyIs DEF Wrote, Alike, x
LEMMA WroteTwo ==
  ASSUME NEW u \in Contexts, NEW p \in Slots, NEW e \in Entry, NEW q \in Slots, NEW f \in Entry
  PROVE  Wrote(u, Dirty(With(With(u, p, e), q, f)), [[u.db EXCEPT ![p] = e] EXCEPT ![q] = f])
<1> DEFINE x == With(u, p, e)
<1>1. x \in Contexts /\ Alike(u, x) /\ x.db = [u.db EXCEPT ![p] = e] /\ x.dirty = u.dirty
      /\ x.out = u.out /\ x.fed = u.fed
  BY WithIs
<1> HIDE DEF x
<1>2. Wrote(x, Dirty(With(x, q, f)), [x.db EXCEPT ![q] = f])
  BY <1>1, WroteOne
<1>3. Dirty(With(x, q, f)).dirty > x.dirty
  <2>1. x \in Contexts
    BY <1>1
  <2>2. With(x, q, f) \in Contexts /\ With(x, q, f).dirty = x.dirty
    BY <2>1, WithIs
  <2> QED BY <2>2, DirtyIs
<1> QED BY <1>1, <1>2, <1>3 DEF Wrote, Alike, x

LEMMA SetIs ==
  ASSUME NEW s \in Contexts, NEW c \in Given, c.op \in {"set", "setex"}
  PROVE  Wrote(Looked(s, c), Simple(s, c), Made(Looked(s, c).db, c, TimeOf(s.now, c)))
<1> DEFINE t == TimeOf(s.now, c)
           u == Looked(s, c)
<1>1. c.at \in Slots /\ c.v \in Vals /\ c.time \in Int /\ Legal(c) /\ s.now \in Nat
  BY CommandIs, ContextIs
<1>2. t \in Nat \cup {Never} /\ t = IF c.time = 0 THEN Never ELSE s.now + c.time
  BY <1>1, TimeTyped DEF TimeOf, Legal
<1>3. u \in Contexts /\ u = ExpireIfNeeded(s, c.at)
  BY LookedIs DEF Looked
<1> HIDE DEF t, u
<1>4. Simple(s, c) = IF c.nx /\ Exists(u, c.at) THEN u ELSE Dirty(With(u, c.at, Held(c.v, t)))
  BY <1>2, <1>3 DEF Simple, SetGeneric
<1>5. Made(u.db, c, t) = IF c.nx /\ Exists(u, c.at) THEN u.db ELSE [u.db EXCEPT ![c.at] = Held(c.v, t)]
  BY DEF Made, Applies, Effect, Exists
<1>6. Held(c.v, t) \in Entry
  <2>1. c.v \in KeyValues
    BY <1>1 DEF Legal
  <2> QED BY <1>2, <2>1, NoEntryIs
<1>7. Wrote(u, u, u.db) /\ Wrote(u, Dirty(With(u, c.at, Held(c.v, t))), [u.db EXCEPT ![c.at] = Held(c.v, t)])
  BY <1>1, <1>3, <1>6, WroteNothing, WroteOne
<1> QED BY <1>4, <1>5, <1>7 DEF t, u

LEMMA ExpireCommandIs ==
  ASSUME NEW s \in Contexts, NEW c \in Given, c.op \in {"expire", "expireat"},
         TimeOf(s.now, c) \in Nat, s.role = "master" => TimeOf(s.now, c) > s.now
  PROVE  Wrote(Looked(s, c), Simple(s, c), Made(Looked(s, c).db, c, TimeOf(s.now, c)))
<1> DEFINE t == TimeOf(s.now, c)
           u == Looked(s, c)
<1>1. c.at \in Slots /\ s.now \in Nat
  BY CommandIs, ContextIs
<1>2. t \in Nat /\ t = (IF c.op = "expire" THEN s.now + c.time ELSE c.time) /\ ~(t <= s.now /\ s.role = "master")
  BY <1>1 DEF TimeOf
<1>3. u \in Contexts /\ u = ExpireIfNeeded(s, c.at)
  BY LookedIs DEF Looked
<1> HIDE DEF t, u
<1>4. Simple(s, c) = IF Exists(u, c.at) THEN Dirty(With(u, c.at, Held(u.db[c.at].v, t))) ELSE u
  BY <1>2, <1>3 DEF Simple, ExpireGeneric
<1>5. Made(u.db, c, t) = IF Exists(u, c.at) THEN [u.db EXCEPT ![c.at] = Held(u.db[c.at].v, t)] ELSE u.db
  BY DEF Made, Applies, Effect, Exists
<1>6. Exists(u, c.at) => Held(u.db[c.at].v, t) \in Entry
  <2>1. Exists(u, c.at) => u.db[c.at].v \in KeyValues
    BY <1>1, <1>3, NoEntryIs, ContextIs DEF Exists
  <2> QED BY <1>2, <2>1, NoEntryIs
<1>7. /\ Wrote(u, u, u.db)
      /\ Exists(u, c.at) => Wrote(u, Dirty(With(u, c.at, Held(u.db[c.at].v, t))),
                                  [u.db EXCEPT ![c.at] = Held(u.db[c.at].v, t)])
  BY <1>1, <1>3, <1>6, WroteNothing, WroteOne
<1> QED BY <1>4, <1>5, <1>7 DEF t, u

LEMMA PersistIs ==
  ASSUME NEW s \in Contexts, NEW c \in Given, c.op = "persist"
  PROVE  Wrote(Looked(s, c), Simple(s, c), Made(Looked(s, c).db, c, TimeOf(s.now, c)))
<1> DEFINE e == Held(s.db[c.at].v, Never)
<1>1. c.at \in Slots /\ s.db \in Datasets /\ s.db[c.at] \in Entry
  BY CommandIs, ContextIs
<1>2. Looked(s, c) = s /\ Made(s.db, c, TimeOf(s.now, c)) = [s.db EXCEPT ![c.at] = e]
  BY DEF Looked, Made, Applies, Effect
<1>3. Simple(s, c) = IF s.db[c.at].when # Never THEN Dirty(With(s, c.at, e)) ELSE s
  BY DEF Simple, Persist
<1>4. e \in Entry
  BY <1>1, NoEntryIs
<1>5. s.db[c.at].when = Never => [s.db EXCEPT ![c.at] = e] = s.db
  <2>1. s.db[c.at].when = Never => e = s.db[c.at]
    BY <1>1 DEF Entry, Held
  <2> HIDE DEF e
  <2> QED BY <1>1, <2>1 DEF Datasets
<1> HIDE DEF e
<1> QED BY <1>1, <1>2, <1>3, <1>4, <1>5, WroteNothing, WroteOne

LEMMA DelCommandIs ==
  ASSUME NEW s \in Contexts, NEW c \in Given, c.op = "del"
  PROVE  Wrote(Looked(s, c), Simple(s, c), Made(Looked(s, c).db, c, TimeOf(s.now, c)))
<1> DEFINE u == Looked(s, c)
<1>1. c.at \in Slots /\ NoEntry \in Entry
  BY CommandIs, NoEntryIs
<1>2. u \in Contexts /\ u = ExpireIfNeeded(s, c.at)
  BY LookedIs DEF Looked
<1> HIDE DEF u
<1>3. Simple(s, c) = IF Exists(u, c.at) THEN Dirty(With(u, c.at, NoEntry)) ELSE u
  BY <1>2 DEF Simple, Del
<1>4. Made(u.db, c, TimeOf(s.now, c)) = IF Exists(u, c.at) THEN [u.db EXCEPT ![c.at] = NoEntry] ELSE u.db
  BY DEF Made, Applies, Effect, Exists
<1> QED BY <1>1, <1>2, <1>3, <1>4, WroteNothing, WroteOne DEF u

(* RENAME and MOVE use what the key was before the other one was looked up.  *)
LEMMA MovedIs ==
  ASSUME NEW s \in Contexts, NEW c \in Given, c.op \in {"rename", "move"}
  PROVE  Wrote(Looked(s, c), Simple(s, c), Made(Looked(s, c).db, c, TimeOf(s.now, c)))
<1> DEFINE t == ExpireIfNeeded(s, c.at)
           u == ExpireIfNeeded(t, c.to)
           y == Looked(s, c)
<1>1. c.at \in Slots /\ c.to \in Slots /\ c.to # c.at /\ NoEntry \in Entry
  BY CommandIs, NoEntryIs DEF Legal
<1>2. t \in Contexts /\ u \in Contexts /\ (u.db = t.db \/ u.db = [t.db EXCEPT ![c.to] = NoEntry])
  <2>1. t \in Contexts
    BY <1>1, ExpireIs
  <2> HIDE DEF t
  <2> QED BY <1>1, <2>1, ExpireIs
<1>3. y = IF Exists(t, c.at) THEN u ELSE t
  BY DEF Looked
<1>4. Simple(s, c) =
        IF ~Exists(t, c.at) THEN t
        ELSE IF c.op = "rename" THEN IF c.nx /\ Exists(u, c.to) THEN u
                                     ELSE Dirty(With(With(u, c.to, t.db[c.at]), c.at, NoEntry))
        ELSE IF Exists(u, c.to) THEN u
             ELSE Dirty(With(With(u, c.to, Held(t.db[c.at].v, Never)), c.at, NoEntry))
  BY DEF Simple, RenameGeneric, Move
<1> HIDE DEF t, u
<1>5. u.db[c.at] = t.db[c.at] /\ t.db[c.at] \in Entry /\ Held(t.db[c.at].v, Never) \in Entry
  <2>1. t.db \in Datasets /\ t.db[c.at] \in Entry
    BY <1>1, <1>2, ContextIs
  <2>2. u.db[c.at] = t.db[c.at]
    BY <1>1, <1>2, <2>1 DEF Datasets
  <2> QED BY <2>1, <2>2, NoEntryIs
<1>6. CASE ~Exists(t, c.at)
  <2>1. Made(t.db, c, TimeOf(s.now, c)) = t.db
    BY <1>6 DEF Made, Applies, Exists
  <2> QED BY <1>2, <1>3, <1>4, <1>6, <2>1, WroteNothing
<1>7. CASE Exists(t, c.at) /\ c.op = "rename"
  <2>1. Made(u.db, c, TimeOf(s.now, c)) =
          IF c.nx /\ Exists(u, c.to) THEN u.db
          ELSE [[u.db EXCEPT ![c.to] = t.db[c.at]] EXCEPT ![c.at] = NoEntry]
    BY <1>5, <1>7 DEF Made, Applies, Effect, Exists
  <2>2. Wrote(u, Dirty(With(With(u, c.to, t.db[c.at]), c.at, NoEntry)),
              [[u.db EXCEPT ![c.to] = t.db[c.at]] EXCEPT ![c.at] = NoEntry])
    BY <1>1, <1>2, <1>5, WroteTwo
  <2> QED BY <1>2, <1>3, <1>4, <1>7, <2>1, <2>2, WroteNothing
<1>8. CASE Exists(t, c.at) /\ c.op = "move"
  <2>1. Made(u.db, c, TimeOf(s.now, c)) =
          IF Exists(u, c.to) THEN u.db
          ELSE [[u.db EXCEPT ![c.to] = Held(t.db[c.at].v, Never)] EXCEPT ![c.at] = NoEntry]
    BY <1>5, <1>8 DEF Made, Applies, Effect, Exists
  <2>2. Wrote(u, Dirty(With(With(u, c.to, Held(t.db[c.at].v, Never)), c.at, NoEntry)),
              [[u.db EXCEPT ![c.to] = Held(t.db[c.at].v, Never)] EXCEPT ![c.at] = NoEntry])
    BY <1>1, <1>2, <1>5, WroteTwo
  <2> QED BY <1>2, <1>3, <1>4, <1>8, <2>1, <2>2, WroteNothing
<1> QED BY <1>6, <1>7, <1>8

LEMMA FlushIs ==
  ASSUME NEW s \in Contexts, NEW c \in Given, c.op \in {"flushdb", "flushall"}
  PROVE  Wrote(Looked(s, c), Simple(s, c), Made(Looked(s, c).db, c, TimeOf(s.now, c)))
<1> DEFINE gone == {p \in Slots : c.op = "flushall" \/ p[1] = c.at[1]}
           x == gone \cap Present(s.db)
           n == Cardinality(x)
           m == IF c.op = "flushall" THEN 1 ELSE 0
           r == [s EXCEPT !.db = Emptied(@, gone), !.dirty = @ + n + m]
<1>1. Looked(s, c) = s /\ Made(s.db, c, TimeOf(s.now, c)) = Emptied(s.db, gone)
  BY DEF Looked, Made, Applies, Effect
<1>2. Simple(s, c) = r
  BY DEF Simple, FlushDbs
<1>3. n \in Nat /\ (n = 0 => x = {})
  <2>1. IsFiniteSet(Slots)
    BY KeyspaceAssumption
  <2>2. IsFiniteSet(x)
    BY <2>1, FS_Subset
  <2> HIDE DEF x
  <2> QED BY <2>2, FS_CardinalityType, FS_EmptySet
<1>4. s.db \in Datasets /\ Emptied(s.db, gone) \in Datasets /\ s.dirty \in Nat /\ m \in Nat
  BY ContextIs, EmptiedIs
<1>5. x = {} => Emptied(s.db, gone) = s.db
  <2>1. ASSUME x = {}, NEW p \in Slots
        PROVE  p \in gone => s.db[p] = NoEntry
    BY <2>1 DEF Present
  <2> HIDE DEF gone, x
  <2> QED BY <1>4, <2>1 DEF Emptied, Datasets
<1> HIDE DEF gone, x, n, m
<1>6. r \in Contexts /\ Alike(s, r) /\ r.out = s.out /\ r.fed = s.fed
      /\ r.db = Emptied(s.db, gone) /\ r.dirty = s.dirty + n + m
  <2> DEFINE d == s.dirty + n + m
             e == Emptied(s.db, gone)
  <2>1. r = [s EXCEPT !.db = e, !.dirty = d] /\ d \in Nat /\ e \in Datasets
    BY <1>3, <1>4
  <2> HIDE DEF r, d, e
  <2>2. r \in Contexts /\ Alike(s, r) /\ r.out = s.out /\ r.fed = s.fed /\ r.db = e /\ r.dirty = d
    BY <2>1 DEF Contexts, Alike
  <2> QED BY <2>2 DEF d, e
<1> HIDE DEF r
<1>7. r.dirty > s.dirty \/ (n = 0 /\ r.dirty = s.dirty)
  BY <1>3, <1>4, <1>6
<1> QED BY <1>1, <1>2, <1>3, <1>5, <1>6, <1>7 DEF Wrote

LEMMA SimpleIs ==
  ASSUME NEW s \in Contexts, NEW c \in Given, c.op # "eval",
         c.op \in {"expire", "expireat"} =>
           TimeOf(s.now, c) \in Nat /\ (s.role = "master" => TimeOf(s.now, c) > s.now)
  PROVE  Wrote(Looked(s, c), Simple(s, c), Made(Looked(s, c).db, c, TimeOf(s.now, c)))
<1>1. c.op \in KeyOps \cup {"get"}
  BY CommandIs
<1>2. CASE c.op = "get"
  <2>1. Looked(s, c) = Simple(s, c) /\ Made(Looked(s, c).db, c, TimeOf(s.now, c)) = Looked(s, c).db
    BY <1>2 DEF Looked, Simple, Made, Applies
  <2> QED BY <2>1, LookedIs, WroteNothing
<1> QED BY <1>1, <1>2, SetIs, ExpireCommandIs, PersistIs, DelCommandIs, MovedIs, FlushIs DEF KeyOps

----------------------------------------------------------------------------
(* Whoever executes what it was told, and deletes nothing on its own: a      *)
(* slave, or a server that loads the file.                                   *)
LEMMA TimeSame ==
  ASSUME NEW exact \in BOOLEAN, NEW c \in Told, exact => c \in Filed, c.op # "eval", NEW now \in Nat
  PROVE  /\ SeenTime(exact, TimeOf(now, c)) = ReadTime(exact, c)
         /\ c.op \in {"expire", "expireat"} => TimeOf(now, c) \in Nat
         /\ TimeOf(now, c) \in Nat \cup {Never}
<1>1. c \in Given /\ c.time \in Int /\ Legal(c) /\ (c.op = "expire" => c.time > 0)
      /\ (c.op = "expireat" => c.time \in Nat)
  BY CommandIs DEF Told
<1>2. exact => c.op \notin {"setex", "expire"}
  BY DEF Filed
<1>3. Never = -1
  BY DEF Never
<1> QED BY <1>1, <1>2, <1>3 DEF SeenTime, TimeOf, ReadTime, Legal

LEMMA SeenInIs ==
  ASSUME NEW exact \in BOOLEAN, NEW loose \in BOOLEAN, NEW now \in Nat, NEW db \in Datasets
  PROVE  /\ SeenIn(exact, db) \in Datasets
         /\ Agrees(exact, loose, now, SeenIn(exact, db), db)
         /\ \A w \in Datasets : Agrees(exact, FALSE, now, w, db) => w = SeenIn(exact, db)
         /\ exact => SeenIn(exact, db) = db
<1>1. SeenIn(exact, db) \in Datasets
  BY SeenIs DEF SeenIn, Datasets
<1>2. Agrees(exact, loose, now, SeenIn(exact, db), db)
  BY DEF Agrees, SeenIn
<1>3. ASSUME NEW w \in Datasets, Agrees(exact, FALSE, now, w, db)
      PROVE  w = SeenIn(exact, db)
  <2>1. \A p \in Slots : w[p] = Seen(exact, db[p])
    BY <1>3 DEF Agrees
  <2> QED BY <2>1 DEF SeenIn, Datasets
<1>4. exact => SeenIn(exact, db) = db
  BY SeenIs DEF SeenIn, Datasets
<1> QED BY <1>1, <1>2, <1>3, <1>4

LEMMA ReaderSimple ==
  ASSUME NEW exact \in BOOLEAN, NEW s \in Contexts, s.role # "master",
         NEW c \in Told, exact => c \in Filed, c.op # "eval"
  PROVE  /\ Simple(s, c).db \in Datasets
         /\ SeenIn(exact, Simple(s, c).db) = Made(SeenIn(exact, s.db), c, ReadTime(exact, c))
<1> DEFINE t == TimeOf(s.now, c)
           w == SeenIn(exact, s.db)
<1>1. c \in Given /\ s.now \in Nat /\ s.db \in Datasets
  BY ContextIs DEF Told
<1>2. SeenTime(exact, t) = ReadTime(exact, c) /\ t \in Nat \cup {Never}
      /\ (c.op \in {"expire", "expireat"} => t \in Nat)
  BY <1>1, TimeSame
<1>3. Looked(s, c) = s
  BY <1>1, LookedIs
<1>4. Wrote(s, Simple(s, c), Made(s.db, c, t))
  BY <1>1, <1>2, <1>3, SimpleIs
<1>5. w \in Datasets /\ Agrees(exact, FALSE, s.now, w, s.db)
  BY <1>1, SeenInIs
<1>6. Clear(exact, w, s.db, c)
  BY <1>1, CommandIs DEF Clear, SeenIn
<1> HIDE DEF t, w
<1>7. Agrees(exact, FALSE, s.now, Made(w, c, ReadTime(exact, c)), Made(s.db, c, t))
  BY <1>1, <1>2, <1>5, <1>6, DoneAgrees
<1>8. Made(s.db, c, t) \in Datasets /\ Made(w, c, ReadTime(exact, c)) \in Datasets
  <2>1. ReadTime(exact, c) \in Nat \cup {Never}
    BY <1>2 DEF SeenTime
  <2> QED BY <1>1, <1>2, <1>5, <2>1, DoneTyped
<1>9. Made(w, c, ReadTime(exact, c)) = SeenIn(exact, Made(s.db, c, t))
  <2>1. \A x, db \in Datasets : Agrees(exact, FALSE, s.now, x, db) => x = SeenIn(exact, db)
    BY <1>1, SeenInIs
  <2> QED BY <1>7, <1>8, <2>1
<1> QED BY <1>4, <1>8, <1>9 DEF Wrote, w

(* In a script, the time stands still for what it looks up.                  *)
Begun(s) == [s EXCEPT !.lua = TRUE, !.luaStart = s.now]
Later(s, elapsed) == [s EXCEPT !.now = @ + elapsed]
LEMMA BegunIs ==
  ASSUME NEW s \in Contexts
  PROVE  /\ Begun(s) \in Contexts /\ Begun(s).db = s.db /\ Begun(s).out = s.out /\ Begun(s).fed = s.fed
         /\ Begun(s).dirty = s.dirty /\ Begun(s).role = s.role /\ Begun(s).now = s.now
         /\ Begun(s).lua = TRUE /\ ExpireTime(Begun(s)) = s.now
BY DEF Contexts, Begun, ExpireTime
LEMMA LaterIs ==
  ASSUME NEW s \in Contexts, NEW elapsed \in Nat
  PROVE  /\ Later(s, elapsed) \in Contexts /\ Later(s, elapsed).db = s.db
         /\ Later(s, elapsed).out = s.out /\ Later(s, elapsed).fed = s.fed
         /\ Later(s, elapsed).dirty = s.dirty /\ Later(s, elapsed).role = s.role
         /\ Later(s, elapsed).now = s.now + elapsed
         /\ s.lua => \A p : IsExpired(Later(s, elapsed), p) <=> IsExpired(s, p)
<1>1. s.now \in Nat /\ s.now + elapsed \in Nat
  BY ContextIs
<1> QED BY <1>1 DEF Contexts, Later, ExpireTime, IsExpired
LEMMA EndedIs ==
  ASSUME NEW s \in Contexts
  PROVE  LET e == [s EXCEPT !.lua = FALSE]
         IN /\ e \in Contexts /\ e.db = s.db /\ e.out = s.out /\ e.fed = s.fed
            /\ e.dirty = s.dirty /\ e.now = s.now
BY DEF Contexts
LEMMA EvalIs ==
  ASSUME NEW s, NEW c, NEW elapsed
  PROVE  LET t == Later(ExpireIfNeeded(Begun(s), c.at), elapsed)
         IN EvalScript(s, c, elapsed) =
              [IF Exists(t, c.at) THEN Simple(t, c.body[1]) ELSE t EXCEPT !.lua = FALSE]
BY DEF EvalScript, Begun, Later

LEMMA ReaderExecutes ==
  ASSUME NEW exact \in BOOLEAN, NEW s \in Contexts, s.role # "master",
         NEW c \in Told, exact => c \in Filed, NEW elapsed \in Nat
  PROVE  /\ Execute(s, c, elapsed).db \in Datasets
         /\ SeenIn(exact, Execute(s, c, elapsed).db) = Reads(exact, SeenIn(exact, s.db), c)
<1>1. CASE c.op # "eval"
  BY <1>1, ReaderSimple DEF Execute, Reads
<1>2. CASE c.op = "eval"
  <2> DEFINE t == Later(ExpireIfNeeded(Begun(s), c.at), elapsed)
             d == c.body[1]
             r == IF Exists(t, c.at) THEN Simple(t, d) ELSE t
             w == SeenIn(exact, s.db)
  <2>1. c \in Given /\ c.at \in Slots /\ d \in Given /\ d \in Filed /\ d \in Told /\ d.op # "eval"
    BY <1>2, CommandIs DEF Told, Filed
  <2>2. Execute(s, c, elapsed) = [r EXCEPT !.lua = FALSE]
    BY <1>2, EvalIs DEF Execute
  <2>3. ExpireIfNeeded(Begun(s), c.at) = Begun(s)
    BY BegunIs DEF ExpireIfNeeded
  <2>4. t \in Contexts /\ t.db = s.db /\ t.role # "master"
    <3>1. Begun(s) \in Contexts /\ Begun(s).db = s.db /\ Begun(s).role # "master"
      BY BegunIs
    <3> QED BY <2>3, <3>1, LaterIs
  <2>5. s.db \in Datasets /\ s.db[c.at] \in Entry /\ w[c.at] = Seen(exact, s.db[c.at])
    BY <2>1, ContextIs DEF SeenIn
  <2>6. Exists(t, c.at) <=> w[c.at] # NoEntry
    BY <2>4, <2>5, SeenIs DEF Exists
  <2> HIDE DEF t
  <2>7. r \in Contexts
    <3>1. CASE ~Exists(t, c.at)
      BY <2>4, <3>1
    <3>2. CASE Exists(t, c.at)
      <4>1. d.op \notin {"expire", "expireat"}
        BY <1>2, <2>1, CommandIs
      <4>2. Wrote(Looked(t, d), Simple(t, d), Made(Looked(t, d).db, d, TimeOf(t.now, d)))
        BY <2>1, <2>4, <4>1, SimpleIs
      <4> QED BY <3>2, <4>2 DEF Wrote
    <3> QED BY <3>1, <3>2
  <2>8. r.db \in Datasets /\ SeenIn(exact, r.db) = Reads(exact, w, c)
    <3>1. CASE ~Exists(t, c.at)
      BY <1>2, <2>4, <2>5, <2>6, <3>1 DEF Reads
    <3>2. CASE Exists(t, c.at)
      <4>1. /\ Simple(t, d).db \in Datasets
            /\ SeenIn(exact, Simple(t, d).db) = Made(SeenIn(exact, t.db), d, ReadTime(exact, d))
        BY <2>1, <2>4, ReaderSimple
      <4> QED BY <1>2, <2>4, <2>6, <3>2, <4>1 DEF Reads
    <3> QED BY <3>1, <3>2
  <2> HIDE DEF r
  <2>9. [r EXCEPT !.lua = FALSE].db = r.db
    BY <2>7 DEF Contexts
  <2> QED BY <2>2, <2>8, <2>9
<1> QED BY <1>1, <1>2

----------------------------------------------------------------------------
(* The master: what it deletes and what it writes reaches the copies.        *)
LEMMA ToldIs ==
  ASSUME NEW exact \in BOOLEAN
  PROVE  ToldTo(exact) \subseteq Told /\ Filed \subseteq Told /\ Filed \subseteq ToldTo(exact)
BY DEF ToldTo, Filed
LEMMA NewsIs ==
  ASSUME NEW exact \in BOOLEAN, NEW s \in Contexts
  PROVE  NewsFor(exact, s) \in Seq(ToldTo(exact)) /\ NewsFor(exact, s) \in Seq(Told)
<1>1. s.out \in Seq(Told) /\ s.fed \in Seq(Filed) /\ s.fed \in Seq(Told)
  BY ContextIs, ToldIs
<1> QED BY <1>1 DEF NewsFor, ToldTo

LEMMA AgreesLater ==
  ASSUME NEW exact \in BOOLEAN, NEW loose \in BOOLEAN, NEW now \in Nat, NEW later \in Nat, now <= later,
         NEW w, NEW db \in Datasets, Agrees(exact, loose, now, w, db)
  PROVE  Agrees(exact, loose, later, w, db)
<1>1. \A p \in Slots : db[p].when # Never => db[p].when \in Nat
  BY NoEntryIs DEF Datasets
<1>2. ASSUME NEW p \in Slots
      PROVE  \/ loose /\ db[p].when # Never /\ later > db[p].when
             \/ w[p] = Seen(exact, db[p])
  <2>1. CASE w[p] = Seen(exact, db[p])
    BY <2>1
  <2>2. CASE loose /\ db[p].when # Never /\ now > db[p].when
    <3>1. db[p].when \in Nat
      BY <1>1, <2>2
    <3> QED BY <2>2, <3>1
  <2> QED BY <2>1, <2>2 DEF Agrees
<1> QED BY <1>2 DEF Agrees

LEMMA AgreesWithout ==
  ASSUME NEW exact \in BOOLEAN, NEW loose \in BOOLEAN, NEW now \in Nat, NEW ps,
         NEW w \in Datasets, NEW db \in Datasets, Agrees(exact, loose, now, w, db)
  PROVE  Agrees(exact, loose, now, Emptied(w, ps), Emptied(db, ps))
<1>1. Seen(exact, NoEntry) = NoEntry
  BY NoEntryIs, SeenIs
<1>2. \A p \in Slots : /\ Emptied(w, ps)[p] = IF p \in ps THEN NoEntry ELSE w[p]
                       /\ Emptied(db, ps)[p] = IF p \in ps THEN NoEntry ELSE db[p]
  BY EmptiedIs
<1> QED BY <1>1, <1>2 DEF Agrees

(* The commands q, if they lead a copy from w to x that agrees with s again. *)
LEMMA CopiedMore ==
  ASSUME NEW exact \in BOOLEAN, NEW loose, NEW now, NEW v, NEW base \in Seq(Told),
         NEW u \in Contexts, NEW w, Leads(exact, v, base \o NewsFor(exact, u), w),
         NEW q \in Seq(Told), NEW x \in Datasets, Leads(exact, w, q, x),
         NEW s \in Contexts, NewsFor(exact, s) = NewsFor(exact, u) \o q,
         Agrees(exact, loose, now, x, s.db)
  PROVE  Copied(exact, loose, now, v, base, s)
<1>1. NewsFor(exact, u) \in Seq(Told) /\ base \o NewsFor(exact, u) \in Seq(Told)
  BY NewsIs, ConcatProperties
<1>2. Leads(exact, v, (base \o NewsFor(exact, u)) \o q, x)
  BY <1>1, LeadsConcat
<1>3. (base \o NewsFor(exact, u)) \o q = base \o NewsFor(exact, s)
  BY <1>1, ConcatAssociative
<1> QED BY <1>2, <1>3 DEF Copied

LEMMA CopiedExpire ==
  ASSUME NEW exact \in BOOLEAN, NEW loose \in BOOLEAN, NEW now \in Nat, NEW v, NEW base \in Seq(Told),
         NEW s \in Contexts, NEW p \in Slots, Copied(exact, loose, now, v, base, s)
  PROVE  Copied(exact, loose, now, v, base, ExpireIfNeeded(s, p))
<1> DEFINE t == ExpireIfNeeded(s, p)
           q == <<DelOf(p)>>
<1>1. /\ t \in Contexts
      /\ \/ t = s
         \/ t.db = [s.db EXCEPT ![p] = NoEntry] /\ t.out = s.out \o q /\ t.fed = s.fed \o q
  BY ExpireIs
<1> HIDE DEF t
<1>2. CASE t = s
  BY <1>2 DEF t
<1>3. CASE t.db = [s.db EXCEPT ![p] = NoEntry] /\ t.out = s.out \o q /\ t.fed = s.fed \o q
  <2>1. PICK w \in Datasets :
          Leads(exact, v, base \o NewsFor(exact, s), w) /\ Agrees(exact, loose, now, w, s.db)
    BY DEF Copied
  <2> DEFINE x == [w EXCEPT ![p] = NoEntry]
  <2>2. DelOf(p) \in Told /\ q \in Seq(Told)
    BY DelIs
  <2>3. Leads(exact, w, q, x)
    BY <2>2, LeadsOne, ReadsDel
  <2>4. s.db \in Datasets
    BY ContextIs
  <2>5. \A d \in Datasets : [d EXCEPT ![p] = NoEntry] = Emptied(d, {p})
    BY DEF Datasets, Emptied
  <2>6. x = Emptied(w, {p}) /\ t.db = Emptied(s.db, {p}) /\ x \in Datasets
    <3>1. x = Emptied(w, {p})
      BY <2>5
    <3>2. t.db = Emptied(s.db, {p})
      BY <1>3, <2>4, <2>5
    <3>3. x \in Datasets
      <4> HIDE DEF x
      <4> QED BY <3>1, EmptiedIs
    <3> QED BY <3>1, <3>2, <3>3
  <2>7. Agrees(exact, loose, now, x, t.db)
    BY <2>1, <2>4, <2>6, AgreesWithout
  <2>8. NewsFor(exact, t) = NewsFor(exact, s) \o q
    BY <1>3 DEF NewsFor
  <2> HIDE DEF x, q
  <2>9. Copied(exact, loose, now, v, base, t)
    BY <1>1, <2>1, <2>2, <2>3, <2>6, <2>7, <2>8, CopiedMore
  <2> QED BY <2>9 DEF t
<1> QED BY <1>1, <1>2, <1>3

LEMMA CopiedLooked ==
  ASSUME NEW exact \in BOOLEAN, NEW loose \in BOOLEAN, NEW now \in Nat, NEW v, NEW base \in Seq(Told),
         NEW s \in Contexts, NEW c \in Given, Copied(exact, loose, now, v, base, s)
  PROVE  Copied(exact, loose, now, v, base, Looked(s, c))
<1> DEFINE t == ExpireIfNeeded(s, c.at)
<1>1. c.at \in Slots /\ c.to \in Slots
  BY CommandIs
<1>2. t \in Contexts /\ Copied(exact, loose, now, v, base, t)
  BY <1>1, ExpireIs, CopiedExpire
<1>3. Looked(s, c) \in {s, t, ExpireIfNeeded(t, c.to)}
  BY DEF Looked
<1> HIDE DEF t
<1>4. Copied(exact, loose, now, v, base, ExpireIfNeeded(t, c.to))
  BY <1>1, <1>2, CopiedExpire
<1> QED BY <1>2, <1>3, <1>4

(* What has not expired, the copies have.                                    *)
LEMMA ClearIs ==
  ASSUME NEW exact \in BOOLEAN, NEW loose \in BOOLEAN, NEW u \in Contexts, u.role = "master",
         NEW w, Agrees(exact, loose, ExpireTime(u), w, u.db), NEW c \in Given,
         loose /\ c.op \notin {"flushdb", "flushall"} => ~IsExpired(u, c.at),
         c.op \in {"rename", "move"} /\ Exists(u, c.at) => ~IsExpired(u, c.to)
  PROVE  Clear(exact, w, u.db, c)
<1>1. c.at \in Slots /\ c.to \in Slots
  BY CommandIs
<1> QED BY <1>1 DEF Clear, Agrees, IsExpired, Exists

(* A command that was executed, as it is sent and as it is fed.              *)
Outcome(exact, w, c, now) ==
  IF c.op = "eval" THEN Reads(exact, w, c) ELSE Made(w, c, SeenTime(exact, TimeOf(now, c)))
LEMMA ExpireAtIs ==
  ASSUME NEW p \in Slots, NEW t \in Nat
  PROVE  LET e == ExpireAtCmd(p, t)
         IN e \in Filed /\ e \in Told /\ e.op = "expireat" /\ e.at = p /\ e.time = t
<1> DEFINE x == Cmd("expireat", p)
           e == [x EXCEPT !.time = t]
<1>1. x \in Commands /\ x.op = "expireat" /\ x.at = p
  BY DEF Cmd, Commands, KeyOps, Bodied, Vals
<1> HIDE DEF x
<1>2. e \in Commands /\ e.op = "expireat" /\ e.at = p /\ e.time = t
  BY <1>1 DEF Commands
<1>3. ExpireAtCmd(p, t) = e
  BY DEF ExpireAtCmd, x
<1> HIDE DEF e
<1>4. Legal(e)
  BY <1>2 DEF Legal
<1>5. e \in Given
  BY <1>2, <1>4 DEF Given
<1>6. e \in Told
  BY <1>2, <1>5 DEF Told
<1>7. e \in Filed
  BY <1>2, <1>6 DEF Filed
<1> QED BY <1>2, <1>3, <1>6, <1>7
LEMMA SetOfIs ==
  ASSUME NEW c \in Given, c.v \in KeyValues
  PROVE  LET d == [c EXCEPT !.op = "set", !.time = 0]
         IN d \in Filed /\ d \in Told /\ d.op = "set" /\ d.at = c.at /\ d.v = c.v /\ d.nx = c.nx
<1> DEFINE d == [c EXCEPT !.op = "set", !.time = 0]
<1>1. c \in Commands
  BY DEF Given
<1>2. d \in Commands /\ d.op = "set" /\ d.at = c.at /\ d.v = c.v /\ d.nx = c.nx /\ d.time = 0
  <2> DEFINE x == [c EXCEPT !.op = "set"]
  <2>1. x \in Commands /\ x.op = "set" /\ x.at = c.at /\ x.v = c.v /\ x.nx = c.nx
    BY <1>1 DEF Commands, KeyOps
  <2>2. d = [x EXCEPT !.time = 0]
    OBVIOUS
  <2> HIDE DEF x, d
  <2> QED BY <2>1, <2>2 DEF Commands
<1> HIDE DEF d
<1>3. Legal(d)
  BY <1>2 DEF Legal
<1>4. d \in Given
  BY <1>2, <1>3 DEF Given
<1>5. d \in Told
  BY <1>2, <1>4 DEF Told
<1>6. d \in Filed
  BY <1>2, <1>5 DEF Filed
<1> QED BY <1>2, <1>5, <1>6 DEF d
LEMMA LeadsFed ==
  \A w \in Datasets, c \in Told : Leads(TRUE, w, <<c>>, Reads(TRUE, w, c))
<1>1. TRUE \in BOOLEAN
  OBVIOUS
<1> QED BY <1>1, LeadsOne
LEMMA FedIs ==
  ASSUME NEW c \in Told, NEW now \in Nat, c.op \in {"expire", "expireat"} => TimeOf(now, c) \in Nat
  PROVE  /\ FedToAof(c, now) \in Seq(Filed)
         /\ \A w \in Datasets : Leads(TRUE, w, FedToAof(c, now), Outcome(TRUE, w, c, now))
<1> DEFINE e == ExpireAtCmd(c.at, now + c.time)
           d == [c EXCEPT !.op = "set", !.time = 0]
<1>1. c \in Given /\ c.at \in Slots /\ c.v \in Vals /\ c.time \in Int /\ Legal(c) /\ c \in Commands
  BY CommandIs DEF Told, Given
<1>2. ASSUME c.op \in {"expire", "setex"}
      PROVE  /\ e \in Filed /\ e.op = "expireat" /\ e.at = c.at /\ e.time = now + c.time
             /\ e.time = TimeOf(now, c)
  <2>1. now + c.time \in Nat /\ now + c.time = TimeOf(now, c)
    BY <1>1, <1>2 DEF TimeOf, Legal
  <2> QED BY <1>1, <2>1, ExpireAtIs
<1>3. ASSUME c.op = "setex"
      PROVE  /\ d \in Filed /\ d.op = "set" /\ d.at = c.at /\ d.v = c.v /\ d.nx = FALSE /\ c.v # "none"
             /\ c.nx = FALSE
  <2>1. d \in Filed /\ d.op = "set" /\ d.at = c.at /\ d.v = c.v /\ d.nx = c.nx
    BY <1>1, <1>3, SetOfIs DEF Legal
  <2>2. c.nx = FALSE /\ c.v # "none"
    BY <1>1, <1>3, CommandIs, KeyspaceAssumption DEF Legal
  <2> QED BY <2>1, <2>2
<1> HIDE DEF d, e
<1>4. CASE c.op = "expire"
  <2>1. FedToAof(c, now) = <<e>>
    BY <1>4 DEF FedToAof, e
  <2>2. ASSUME NEW w \in Datasets PROVE Reads(TRUE, w, e) = Outcome(TRUE, w, c, now)
    <3>1. SeenTime(TRUE, TimeOf(now, c)) = ReadTime(TRUE, e)
      BY <1>2, <1>4 DEF SeenTime, ReadTime
    <3>2. \A t : Made(w, e, t) = Made(w, c, t)
      BY <1>2, <1>4 DEF Made, Applies, Effect
    <3> QED BY <1>2, <1>4, <3>1, <3>2 DEF Reads, Outcome
  <2>3. e \in Filed /\ e \in Told /\ <<e>> \in Seq(Filed)
    BY <1>2, <1>4 DEF Filed
  <2>4. \A w \in Datasets : Leads(TRUE, w, <<e>>, Outcome(TRUE, w, c, now))
    BY <2>2, <2>3, LeadsFed, Zenon
  <2> QED BY <2>1, <2>3, <2>4, Zenon
<1>5. CASE c.op = "setex"
  <2>1. FedToAof(c, now) = <<d, e>> /\ <<d, e>> = <<d>> \o <<e>>
    BY <1>5 DEF FedToAof, e, d
  <2>2. d \in Told /\ e \in Told /\ <<d>> \in Seq(Told) /\ <<e>> \in Seq(Told)
    BY <1>2, <1>3, <1>5 DEF Filed
  <2>3. ASSUME NEW w \in Datasets PROVE Leads(TRUE, w, <<d>> \o <<e>>, Outcome(TRUE, w, c, now))
    <3> DEFINE x == [w EXCEPT ![c.at] = Held(c.v, Never)]
               t == now + c.time
    <3>1. Reads(TRUE, w, d) = x
      BY <1>3, <1>5 DEF Reads, Made, Applies, Effect, ReadTime
    <3>2. x \in Datasets /\ x[c.at] = Held(c.v, Never)
      <4>1. Held(c.v, Never) \in Entry
        BY <1>1, NoEntryIs
      <4> QED BY <1>1, <4>1 DEF Datasets
    <3>3. x[c.at] # NoEntry /\ x[c.at].v = c.v
      BY <1>3, <1>5, <3>2 DEF Held, NoEntry
    <3>4. [x EXCEPT ![c.at] = Held(c.v, t)] = [w EXCEPT ![c.at] = Held(c.v, t)]
      BY <1>1 DEF Datasets
    <3> HIDE DEF x
    <3>5. Reads(TRUE, x, e) = [x EXCEPT ![c.at] = Held(c.v, t)]
      BY <1>2, <1>5, <3>3 DEF Reads, Made, Applies, Effect, ReadTime
    <3>6. Outcome(TRUE, w, c, now) = [w EXCEPT ![c.at] = Held(c.v, t)]
      BY <1>3, <1>5 DEF Outcome, Made, Applies, Effect, SeenTime, TimeOf
    <3>7. Leads(TRUE, w, <<d>>, x)
      BY <2>2, <3>1, LeadsFed, Zenon
    <3>8. Reads(TRUE, x, e) = Outcome(TRUE, w, c, now)
      BY <3>4, <3>5, <3>6
    <3>9. Leads(TRUE, x, <<e>>, Outcome(TRUE, w, c, now))
      BY <2>2, <3>2, <3>8, LeadsFed, Zenon
    <3> QED BY <2>2, <3>7, <3>9, LeadsConcat
  <2>4. <<d, e>> \in Seq(Filed)
    BY <1>2, <1>3, <1>5
  <2> QED BY <2>1, <2>3, <2>4
<1>6. CASE c.op \notin {"expire", "setex"}
  <2>1. FedToAof(c, now) = <<c>> /\ c \in Filed
    BY <1>6 DEF FedToAof, Filed
  <2>2. ASSUME NEW w \in Datasets PROVE Reads(TRUE, w, c) = Outcome(TRUE, w, c, now)
    <3>1. c.op # "eval" => SeenTime(TRUE, TimeOf(now, c)) = ReadTime(TRUE, c)
      BY <2>1, TimeSame
    <3> QED BY <3>1 DEF Reads, Outcome
  <2>3. <<c>> \in Seq(Filed)
    BY <2>1
  <2>4. \A w \in Datasets : Leads(TRUE, w, <<c>>, Outcome(TRUE, w, c, now))
    BY <2>2, LeadsFed, Zenon
  <2> QED BY <2>1, <2>3, <2>4, Zenon
<1> QED BY <1>4, <1>5, <1>6
LEMMA SentIs ==
  ASSUME NEW c \in Told, NEW now \in Nat, NEW w \in Datasets
  PROVE  Leads(FALSE, w, <<c>>, Outcome(FALSE, w, c, now))
<1>1. c.op # "eval" => SeenTime(FALSE, TimeOf(now, c)) = ReadTime(FALSE, c)
  BY TimeSame
<1>2. Reads(FALSE, w, c) = Outcome(FALSE, w, c, now)
  BY <1>1 DEF Reads, Outcome
<1> QED BY <1>2, LeadsOne

----------------------------------------------------------------------------
(* call(): what changed the keys is propagated.                              *)
LEMMA LeadsTyped ==
  ASSUME NEW exact, NEW v, NEW S, NEW q \in Seq(S), NEW x, Leads(exact, v, q, x)
  PROVE  x \in Datasets
<1>1. Len(q) \in Nat /\ Len(q) \in 0 .. Len(q)
  OBVIOUS
<1> QED BY <1>1 DEF Leads
LEMMA FeedIs ==
  ASSUME NEW r \in Contexts, NEW c \in Told, FedToAof(c, r.now) \in Seq(Filed)
  PROVE  /\ Feed(r, c) \in Contexts /\ Alike(r, Feed(r, c)) /\ Feed(r, c).db = r.db
         /\ Feed(r, c).out = r.out \o <<c>> /\ Feed(r, c).fed = r.fed \o FedToAof(c, r.now)
<1> DEFINE a == Append(r.out, c)
           b == r.fed \o FedToAof(c, r.now)
<1>1. a \in Seq(Told) /\ a = r.out \o <<c>> /\ b \in Seq(Filed)
  BY ContextIs, AppendIsConcat, ConcatProperties
<1>2. Feed(r, c) = [r EXCEPT !.out = a, !.fed = b]
  BY DEF Feed
<1> HIDE DEF a, b
<1>3. Feed(r, c) \in Contexts /\ Alike(r, Feed(r, c)) /\ Feed(r, c).db = r.db
      /\ Feed(r, c).out = a /\ Feed(r, c).fed = b
  BY <1>1, <1>2 DEF Contexts, Alike
<1> QED BY <1>1, <1>3 DEF b
LEMMA CopiedFeed ==
  ASSUME NEW exact \in BOOLEAN, NEW loose \in BOOLEAN, NEW now \in Nat, NEW v, NEW base \in Seq(Told),
         NEW u \in Contexts, NEW w \in Datasets, Leads(exact, v, base \o NewsFor(exact, u), w),
         NEW r \in Contexts, NewsFor(exact, r) = NewsFor(exact, u),
         NEW c \in Told, c.op \in {"expire", "expireat"} => TimeOf(r.now, c) \in Nat,
         Agrees(exact, loose, now, Outcome(exact, w, c, r.now), r.db)
  PROVE  Feed(r, c) \in Contexts /\ Copied(exact, loose, now, v, base, Feed(r, c))
<1> DEFINE q == IF exact THEN FedToAof(c, r.now) ELSE <<c>>
           x == Outcome(exact, w, c, r.now)
<1>1. r.now \in Nat
  BY ContextIs
<1>2. FedToAof(c, r.now) \in Seq(Filed) /\ FedToAof(c, r.now) \in Seq(Told)
  <2>1. FedToAof(c, r.now) \in Seq(Filed)
    BY <1>1, FedIs
  <2>2. Filed \subseteq Told
    BY DEF Filed
  <2> HIDE DEF q, x
  <2> QED BY <2>1, <2>2
<1>3. Feed(r, c) \in Contexts /\ Feed(r, c).db = r.db /\ NewsFor(exact, Feed(r, c)) = NewsFor(exact, u) \o q
  BY <1>2, FeedIs DEF NewsFor
<1>4. Leads(exact, w, q, x)
  <2>1. CASE exact
    <3>1. exact = TRUE
      BY <2>1
    <3>2. Leads(TRUE, w, FedToAof(c, r.now), Outcome(TRUE, w, c, r.now))
      BY <1>1, FedIs
    <3> QED BY <3>1, <3>2
  <2>2. CASE ~exact
    <3>1. exact = FALSE
      BY <2>2
    <3>2. Leads(FALSE, w, <<c>>, Outcome(FALSE, w, c, r.now))
      BY <1>1, SentIs
    <3> QED BY <3>1, <3>2
  <2> QED BY <2>1, <2>2
<1>5. q \in Seq(Told)
  BY <1>2
<1> HIDE DEF q, x
<1>6. x \in Datasets
  BY <1>4, <1>5, LeadsTyped
<1>7. Agrees(exact, loose, now, x, Feed(r, c).db)
  BY <1>3 DEF x
<1>8. Copied(exact, loose, now, v, base, Feed(r, c))
  BY <1>3, <1>4, <1>5, <1>6, <1>7, CopiedMore
<1> QED BY <1>3, <1>8

LEMMA AsSentIs ==
  ASSUME NEW s \in Contexts, s.role = "master", NEW c \in Given
  PROVE  LET d == AsSent(s, c)
         IN /\ d \in Given /\ (c.op = "eval" => d = c)
            /\ d.op \in {c.op, "del"} /\ d.at = c.at
            /\ c.op # "eval" => Simple(s, c) = Simple(s, d)
            /\ d.op \in {"expire", "expireat"} => TimeOf(s.now, d) \in Nat /\ TimeOf(s.now, d) > s.now
            /\ d.op # "get" => d \in Told
<1> DEFINE when == IF c.op = "expire" THEN s.now + c.time ELSE c.time
           d == AsSent(s, c)
<1>1. c.at \in Slots /\ c.time \in Int /\ s.now \in Nat /\ c \in Given
  BY CommandIs, ContextIs
<1>2. CASE c.op \in {"expire", "expireat"} /\ when <= s.now
  <2>1. d = DelOf(c.at)
    BY <1>2 DEF AsSent
  <2>2. d \in Given /\ d \in Told /\ d.op = "del" /\ d.at = c.at
    BY <1>1, <2>1, DelIs
  <2>3. Simple(s, c) = ExpireGeneric(s, c) /\ Simple(s, d) = Del(s, d)
    BY <1>2, <2>2 DEF Simple
  <2>4. ExpireGeneric(s, c) = Del(s, d)
    BY <1>2, <2>2 DEF ExpireGeneric, Del
  <2> HIDE DEF d
  <2> QED BY <1>2, <2>2, <2>3, <2>4 DEF d
<1>3. CASE ~(c.op \in {"expire", "expireat"} /\ when <= s.now)
  <2>1. d = c
    BY <1>3 DEF AsSent
  <2>2. c.op \in {"expire", "expireat"} => TimeOf(s.now, c) \in Nat /\ TimeOf(s.now, c) > s.now
    BY <1>1, <1>3 DEF TimeOf
  <2>3. c.op # "get" => c \in Told
    <3>1. c.op = "expire" => c.time > 0
      BY <1>1, <1>3
    <3>2. c.op = "expireat" => c.time \in Nat
      BY <1>1, <1>3
    <3> QED BY <3>1, <3>2 DEF Told
  <2> HIDE DEF d
  <2> QED BY <1>1, <2>1, <2>2, <2>3 DEF d
<1> QED BY <1>2, <1>3

LEMMA CallSimple ==
  ASSUME NEW exact \in BOOLEAN, NEW loose \in BOOLEAN, NEW v, NEW base \in Seq(Told),
         NEW s \in Contexts, s.role = "master", ~s.lua, NEW c \in Given, c.op # "eval", NEW elapsed,
         c.op = "persist" => ~loose, Copied(exact, loose, s.now, v, base, s)
  PROVE  LET r == Call(s, c, elapsed)
         IN r \in Contexts /\ r.now = s.now /\ Copied(exact, loose, r.now, v, base, r)
<1> DEFINE d == AsSent(s, c)
           u == Looked(s, d)
           x == Simple(s, d)
           t == TimeOf(s.now, d)
           r == Call(s, c, elapsed)
<1>1. /\ d \in Given /\ d.op \in {c.op, "del"} /\ d.at = c.at /\ Simple(s, c) = Simple(s, d)
      /\ d.op \in {"expire", "expireat"} => TimeOf(s.now, d) \in Nat /\ TimeOf(s.now, d) > s.now
      /\ d.op # "get" => d \in Told
  BY AsSentIs
<1>2. r = IF x.dirty > s.dirty THEN Feed(x, d) ELSE x
  BY <1>1 DEF Call, Execute
<1> HIDE DEF d, r
<1>3. d.op # "eval"
  BY <1>1
<1>4. Wrote(u, x, Made(u.db, d, t))
  BY <1>1, <1>3, SimpleIs
<1>5. /\ u \in Contexts /\ Alike(s, u) /\ u.dirty = s.dirty
      /\ d.op \notin {"persist", "flushdb", "flushall"} => ~IsExpired(u, d.at)
      /\ d.op \in {"rename", "move"} /\ Exists(u, d.at) => ~IsExpired(u, d.to)
  BY <1>1, LookedIs
<1>6. s.now \in Nat /\ u.db \in Datasets
  BY <1>5, ContextIs
<1>7. t \in Nat \cup {Never}
  BY <1>1, <1>6, TimeTyped
<1>8. Copied(exact, loose, s.now, v, base, u)
  BY <1>1, <1>6, CopiedLooked
<1> HIDE DEF u, x, t
<1>9. PICK w \in Datasets : Leads(exact, v, base \o NewsFor(exact, u), w) /\ Agrees(exact, loose, s.now, w, u.db)
  BY <1>8 DEF Copied
<1>10. ExpireTime(u) = s.now /\ u.role = "master"
  BY <1>5 DEF ExpireTime, Alike
<1>11. Clear(exact, w, u.db, d)
  <2>1. loose /\ d.op \notin {"flushdb", "flushall"} => ~IsExpired(u, d.at)
    BY <1>1, <1>5
  <2> QED BY <1>1, <1>5, <1>9, <1>10, <2>1, ClearIs
<1>12. Agrees(exact, loose, s.now, Made(w, d, SeenTime(exact, t)), x.db)
  <2>1. Agrees(exact, loose, s.now, Made(w, d, SeenTime(exact, t)), Made(u.db, d, t))
    BY <1>1, <1>3, <1>6, <1>7, <1>9, <1>11, DoneAgrees
  <2> QED BY <1>4, <2>1 DEF Wrote
<1>13. x \in Contexts /\ x.now = s.now /\ NewsFor(exact, x) = NewsFor(exact, u)
  BY <1>4, <1>5 DEF Wrote, Alike, NewsFor
<1>14. CASE x.dirty > s.dirty
  <2>1. d.op # "get"
    <3>1. d.op = "get" => x = u
      BY DEF x, u, Simple, Looked
    <3>2. s.dirty \in Nat
      BY ContextIs
    <3>3. ~(s.dirty > s.dirty)
      BY <3>2
    <3> QED BY <1>5, <1>14, <3>1, <3>3
  <2>2. d \in Told /\ Outcome(exact, w, d, x.now) = Made(w, d, SeenTime(exact, t))
    BY <1>1, <1>3, <1>13, <2>1 DEF Outcome, t
  <2>3. d.op \in {"expire", "expireat"} => TimeOf(x.now, d) \in Nat
    BY <1>1, <1>13
  <2>4. Feed(x, d) \in Contexts /\ Copied(exact, loose, s.now, v, base, Feed(x, d))
    BY <1>5, <1>6, <1>9, <1>12, <1>13, <2>2, <2>3, CopiedFeed
  <2>5. Feed(x, d).now = x.now
    BY <1>13 DEF Feed, Contexts
  <2>6. r = Feed(x, d)
    BY <1>2, <1>14
  <2> QED BY <1>13, <2>4, <2>5, <2>6 DEF r
<1>15. CASE ~(x.dirty > s.dirty)
  <2>1. x.db = u.db
    BY <1>4, <1>5, <1>15 DEF Wrote
  <2>2. Copied(exact, loose, s.now, v, base, x)
    BY <1>8, <1>13, <2>1 DEF Copied
  <2>3. r = x
    BY <1>2, <1>15
  <2> QED BY <1>13, <2>2, <2>3 DEF r
<1> QED BY <1>14, <1>15
LEMMA CallEval ==
  ASSUME NEW exact \in BOOLEAN, NEW loose \in BOOLEAN, NEW v, NEW base \in Seq(Told),
         NEW s \in Contexts, s.role = "master", NEW c \in Given, c.op = "eval", NEW elapsed \in Nat,
         Copied(exact, loose, s.now, v, base, s)
  PROVE  LET r == Call(s, c, elapsed)
         IN r \in Contexts /\ r.now = s.now + elapsed /\ Copied(exact, loose, r.now, v, base, r)
<1> DEFINE b == Begun(s)
           e == ExpireIfNeeded(b, c.at)
           t == Later(e, elapsed)
           d == c.body[1]
           x == IF Exists(t, c.at) THEN Simple(t, d) ELSE t
           y == [x EXCEPT !.lua = FALSE]
           r == Call(s, c, elapsed)
<1>1. /\ c.at \in Slots /\ d \in Given /\ d \in Filed /\ d \in Told /\ (d.op = "persist" => d.at = c.at)
      /\ d.op \in {"set", "persist", "del"} /\ c \in Told
  <2>1. /\ c.at \in Slots /\ d \in Given /\ d \in Filed /\ (d.op = "persist" => d.at = c.at)
        /\ d.op \in {"set", "persist", "del"}
    BY CommandIs
  <2>2. c \in Told
    BY DEF Told
  <2> HIDE DEF d
  <2> QED BY <2>1, <2>2 DEF Filed
<1>2. r = IF y.dirty > s.dirty THEN Feed(y, c) ELSE y
  <2>1. Execute(s, c, elapsed) = y
    BY EvalIs DEF Execute
  <2>2. AsSent(s, c) = c
    BY DEF AsSent
  <2> HIDE DEF y
  <2> QED BY <2>1, <2>2 DEF Call
<1>3. /\ b \in Contexts /\ b.db = s.db /\ b.out = s.out /\ b.fed = s.fed /\ b.dirty = s.dirty
      /\ b.role = "master" /\ b.now = s.now /\ b.lua = TRUE /\ ExpireTime(b) = s.now
  BY BegunIs
<1>4. s.now \in Nat /\ s.now + elapsed \in Nat
  BY ContextIs
<1> HIDE DEF b, d
<1>5. Copied(exact, loose, s.now, v, base, b)
  <2>1. NewsFor(exact, b) = NewsFor(exact, s)
    BY <1>3 DEF NewsFor
  <2> QED BY <1>3, <2>1 DEF Copied
<1>6. e \in Contexts /\ Alike(b, e) /\ e.dirty = b.dirty /\ ~IsExpired(e, c.at)
  BY <1>1, <1>3, ExpireIs
<1>7. Copied(exact, loose, s.now, v, base, e)
  BY <1>1, <1>3, <1>4, <1>5, CopiedExpire
<1> HIDE DEF e
<1>8. /\ t \in Contexts /\ t.db = e.db /\ t.out = e.out /\ t.fed = e.fed /\ t.dirty = s.dirty
      /\ t.role = "master" /\ t.now = s.now + elapsed /\ ~IsExpired(t, c.at)
  <2>1. e \in Contexts /\ e.role = "master" /\ e.now = s.now /\ e.lua = TRUE /\ e.dirty = s.dirty
    BY <1>3, <1>6 DEF Alike
  <2>2. /\ t \in Contexts /\ t.db = e.db /\ t.out = e.out /\ t.fed = e.fed /\ t.dirty = e.dirty
        /\ t.role = e.role /\ t.now = e.now + elapsed
        /\ e.lua => \A p : IsExpired(t, p) <=> IsExpired(e, p)
    BY <2>1, LaterIs
  <2> HIDE DEF t
  <2> QED BY <1>6, <2>1, <2>2
<1>9. ExpireTime(t) = s.now
  <2>1. t.lua = e.lua /\ t.luaStart = e.luaStart
    BY <1>6 DEF Later, Contexts
  <2> HIDE DEF t
  <2> QED BY <1>3, <1>6, <2>1 DEF ExpireTime, Alike
<1> HIDE DEF t
<1>10. Copied(exact, loose, s.now, v, base, t)
  <2>1. NewsFor(exact, t) = NewsFor(exact, e)
    BY <1>8 DEF NewsFor
  <2> QED BY <1>7, <1>8, <2>1 DEF Copied
<1>11. t.db \in Datasets /\ t.now \in Nat
  BY <1>8, ContextIs
<1>12. CASE ~Exists(t, c.at)
  <2>0. PICK w \in Datasets : Leads(exact, v, base \o NewsFor(exact, t), w) /\ Agrees(exact, loose, s.now, w, t.db)
    BY <1>10 DEF Copied
  <2>1. x = t
    BY <1>12
  <2> HIDE DEF x
  <2>2. y \in Contexts /\ y.db = t.db /\ y.out = t.out /\ y.fed = t.fed /\ y.dirty = s.dirty /\ y.now = t.now
    BY <1>8, <2>1, EndedIs
  <2> HIDE DEF y
  <2>3. r = y
    <3>1. s.dirty \in Nat
      BY ContextIs
    <3>2. ~(y.dirty > s.dirty)
      BY <2>2, <3>1
    <3> QED BY <1>2, <3>2
  <2>4. Agrees(exact, loose, t.now, w, t.db)
    BY <1>4, <1>8, <1>11, <2>0, AgreesLater
  <2>5. Copied(exact, loose, t.now, v, base, y)
    BY <2>0, <2>2, <2>4 DEF Copied, NewsFor
  <2> QED BY <1>8, <2>2, <2>3, <2>5 DEF r
<1>13. CASE Exists(t, c.at)
  <2> DEFINE u == Looked(t, d)
             z == Simple(t, d)
             m == TimeOf(t.now, d)
  <2>1. /\ u \in Contexts /\ Alike(t, u) /\ u.dirty = s.dirty
        /\ d.op \in {"set", "del"} => ~IsExpired(u, d.at)
        /\ ~IsExpired(u, c.at) /\ u.db[c.at] = t.db[c.at]
    BY <1>1, <1>8, LookedIs
  <2>2. d.op # "eval" /\ d.op \notin {"expire", "expireat"} /\ d.op \notin {"rename", "move"}
    BY <1>1
  <2>3. Wrote(u, z, Made(u.db, d, m))
    BY <1>1, <1>8, <2>2, SimpleIs
  <2>4. SeenTime(exact, m) = ReadTime(exact, d) /\ m \in Nat \cup {Never}
    BY <1>1, <1>11, <2>2, TimeSame
  <2>5. Copied(exact, loose, s.now, v, base, u)
    BY <1>1, <1>4, <1>8, <1>10, CopiedLooked
  <2> HIDE DEF u, z, m
  <2>6. PICK w \in Datasets : Leads(exact, v, base \o NewsFor(exact, u), w) /\ Agrees(exact, loose, s.now, w, u.db)
    BY <2>5 DEF Copied
  <2>7. u.role = "master" /\ ExpireTime(u) = s.now /\ u.now = t.now /\ u.db \in Datasets
    BY <1>8, <1>9, <2>1, ContextIs DEF Alike, ExpireTime
  <2>8. Clear(exact, w, u.db, d)
    <3>1. ~IsExpired(u, d.at)
      BY <1>1, <2>1
    <3> QED BY <1>1, <2>1, <2>2, <2>6, <2>7, <3>1, ClearIs
  <2>9. w[c.at] # NoEntry
    <3>1. w[c.at] = Seen(exact, u.db[c.at])
      BY <1>1, <2>1, <2>6, <2>7 DEF Agrees, IsExpired
    <3>2. u.db[c.at] \in Entry /\ u.db[c.at] # NoEntry
      BY <1>1, <1>13, <2>1, <2>7 DEF Datasets, Exists
    <3> QED BY <3>1, <3>2, SeenIs
  <2>10. Reads(exact, w, c) = Made(w, d, SeenTime(exact, m))
    BY <2>4, <2>9 DEF Reads, d
  <2>11. Agrees(exact, loose, s.now, Reads(exact, w, c), z.db)
    <3>1. Agrees(exact, loose, s.now, Made(w, d, SeenTime(exact, m)), Made(u.db, d, m))
      BY <1>1, <1>4, <2>2, <2>4, <2>6, <2>7, <2>8, DoneAgrees
    <3> QED BY <2>3, <2>10, <3>1 DEF Wrote
  <2>12. z \in Contexts /\ z.now = t.now /\ NewsFor(exact, z) = NewsFor(exact, u)
        /\ (z.dirty > s.dirty \/ (z.dirty = s.dirty /\ z.db = u.db))
    BY <2>1, <2>3, <2>7 DEF Wrote, Alike, NewsFor
  <2>13. x = z
    BY <1>13 DEF z
  <2> HIDE DEF x
  <2>14. y \in Contexts /\ y.db = z.db /\ NewsFor(exact, y) = NewsFor(exact, u) /\ y.dirty = z.dirty /\ y.now = t.now
    <3>1. y \in Contexts /\ y.db = z.db /\ y.out = z.out /\ y.fed = z.fed /\ y.dirty = z.dirty /\ y.now = z.now
      BY <2>12, <2>13, EndedIs
    <3> HIDE DEF y
    <3> QED BY <2>12, <3>1 DEF NewsFor
  <2> HIDE DEF y
  <2>15. z.db \in Datasets
    BY <2>12, ContextIs
  <2>16. CASE y.dirty > s.dirty
    <3>1. Outcome(exact, w, c, y.now) = Reads(exact, w, c)
      BY DEF Outcome
    <3>2. Agrees(exact, loose, y.now, Outcome(exact, w, c, y.now), y.db)
      BY <1>4, <1>8, <1>11, <2>11, <2>14, <2>15, <3>1, AgreesLater
    <3>3. Feed(y, c) \in Contexts /\ Copied(exact, loose, y.now, v, base, Feed(y, c))
      BY <1>1, <1>8, <1>11, <2>1, <2>6, <2>14, <3>2, CopiedFeed
    <3>4. Feed(y, c).now = y.now
      BY <2>14 DEF Feed, Contexts
    <3>5. r = Feed(y, c)
      BY <1>2, <2>16
    <3> HIDE DEF r
    <3>6. r.now = s.now + elapsed
      BY <1>8, <2>14, <3>4, <3>5
    <3> QED BY <2>14, <3>3, <3>4, <3>5, <3>6 DEF r
  <2>17. CASE ~(y.dirty > s.dirty)
    <3>1. y.db = u.db
      BY <2>12, <2>14, <2>17
    <3>2. Agrees(exact, loose, y.now, w, y.db)
      BY <1>4, <1>8, <1>11, <2>6, <2>7, <2>14, <3>1, AgreesLater
    <3>3. Copied(exact, loose, y.now, v, base, y)
      BY <2>6, <2>14, <3>2 DEF Copied
    <3>4. r = y
      BY <1>2, <2>17
    <3> QED BY <1>8, <2>14, <3>3, <3>4 DEF r
  <2> QED BY <2>16, <2>17
<1> QED BY <1>12, <1>13

(* call(), of any command but one that gives a key that was written off its  *)
(* life back.                                                                *)
LEMMA CallCopied ==
  ASSUME NEW exact \in BOOLEAN, NEW loose \in BOOLEAN, NEW v, NEW base \in Seq(Told),
         NEW s \in Contexts, s.role = "master", ~s.lua, NEW c \in Given, NEW elapsed \in Nat,
         c.op # "eval" => elapsed = 0, c.op = "persist" => ~loose,
         Copied(exact, loose, s.now, v, base, s)
  PROVE  LET r == Call(s, c, elapsed)
         IN r \in Contexts /\ r.now = s.now + elapsed /\ Copied(exact, loose, r.now, v, base, r)
<1>1. CASE c.op = "eval"
  BY <1>1, CallEval
<1>2. CASE c.op # "eval"
  <2>1. s.now \in Nat /\ s.now + elapsed = s.now
    BY <1>2, ContextIs
  <2> DEFINE r == Call(s, c, elapsed)
  <2>2. r \in Contexts /\ r.now = s.now /\ Copied(exact, loose, r.now, v, base, r)
    BY <1>2, CallSimple
  <2> HIDE DEF r
  <2> QED BY <2>1, <2>2 DEF r
<1> QED BY <1>1, <1>2

----------------------------------------------------------------------------
(* Keys that are evicted, or that the cron finds expired: a DEL for each.    *)
LEMMA AsSeq ==
  ASSUME NEW S, IsFiniteSet(S)
  PROVE  LET n == Cardinality(S)
         IN n \in Nat /\ SetToSeq(S) \in [1 .. n -> S] /\ {SetToSeq(S)[i] : i \in 1 .. n} = S
<1> DEFINE n == Cardinality(S)
           q == SetToSeq(S)
<1>1. PICK m \in Nat : ExistsBijection(1 .. m, S)
  BY FS_NatBijection
<1>2. n = m /\ n \in Nat
  BY <1>1, FS_CountingElements
<1>3. PICK b \in [1 .. n -> S] : IsInjective(b)
  BY <1>1, <1>2 DEF ExistsBijection, Bijection, Injection
<1>4. q \in [1 .. n -> S] /\ IsInjective(q)
  BY <1>3 DEF SetToSeq
<1> HIDE DEF q, n
<1>5. q \in Injection(1 .. n, S)
  BY <1>4 DEF Injection
<1>6. Cardinality(1 .. n) = n
  BY <1>2, FS_Interval
<1>7. q \in Surjection(1 .. n, S)
  BY <1>5, <1>6, FS_Injection DEF n
<1>8. {q[i] : i \in 1 .. n} = S
  BY <1>4, <1>7 DEF Surjection
<1> QED BY <1>2, <1>4, <1>8 DEF q, n
LEMMA EvictedCopied ==
  ASSUME NEW exact \in BOOLEAN, NEW loose \in BOOLEAN, NEW now \in Nat, NEW v, NEW base \in Seq(Told),
         NEW s \in Contexts, NEW e \in SUBSET Slots, Copied(exact, loose, now, v, base, s)
  PROVE  LET t == Evicted(s, e)
         IN t \in Contexts /\ Alike(s, t) /\ Copied(exact, loose, now, v, base, t)
<1> DEFINE n == Cardinality(e)
           keys == SetToSeq(e)
           q == [i \in 1 .. n |-> DelOf(keys[i])]
           db == Emptied(s.db, e)
           out == s.out \o q
           fed == s.fed \o q
           t == Evicted(s, e)
<1>1. IsFiniteSet(e)
  BY KeyspaceAssumption, FS_Subset
<1>2. n \in Nat /\ keys \in [1 .. n -> e] /\ {keys[i] : i \in 1 .. n} = e
  BY <1>1, AsSeq
<1>3. t = [s EXCEPT !.db = db, !.out = out, !.fed = fed]
  BY DEF Evicted
<1> HIDE DEF n, keys, t
<1>4. keys \in [1 .. n -> Slots]
  BY <1>2
<1>5. PICK w \in Datasets : Leads(exact, v, base \o NewsFor(exact, s), w) /\ Agrees(exact, loose, now, w, s.db)
  BY DEF Copied
<1>6. q \in Seq(Filed) /\ Leads(exact, w, q, Emptied(w, e))
  BY <1>2, <1>4, LeadsDels
<1> HIDE DEF q
<1>7. q \in Seq(Told)
  BY <1>6, ToldIs
<1>8. s.db \in Datasets /\ db \in Datasets /\ Emptied(w, e) \in Datasets
  BY ContextIs, EmptiedIs
<1>9. out \in Seq(Told) /\ fed \in Seq(Filed)
  BY <1>6, <1>7, ContextIs, ConcatProperties
<1> HIDE DEF db, out, fed
<1>10. t \in Contexts /\ Alike(s, t) /\ t.db = db /\ t.out = out /\ t.fed = fed
  BY <1>3, <1>8, <1>9 DEF Contexts, Alike
<1>11. Agrees(exact, loose, now, Emptied(w, e), t.db)
  BY <1>5, <1>8, <1>10, AgreesWithout DEF db
<1>12. NewsFor(exact, t) = NewsFor(exact, s) \o q
  BY <1>10 DEF NewsFor, out, fed
<1>13. Copied(exact, loose, now, v, base, t)
  BY <1>5, <1>6, <1>7, <1>8, <1>10, <1>11, <1>12, CopiedMore
<1> QED BY <1>10, <1>13 DEF t

----------------------------------------------------------------------------
(* The file a child writes says what the keys are.                           *)
Nothing == [p \in Slots |-> NoEntry]
LEMMA NothingIs ==
  Nothing \in Datasets
BY NoEntryIs DEF Nothing, Datasets
SetKey(db, p) == [Cmd("set", p) EXCEPT !.v = db[p].v]
LEMMA SetKeyIs ==
  ASSUME NEW db \in Datasets, NEW p \in Slots, db[p] # NoEntry
  PROVE  LET c == SetKey(db, p)
         IN c \in Filed /\ c \in Told /\ c.op = "set" /\ c.at = p /\ c.v = db[p].v /\ ~c.nx
<1> DEFINE x == Cmd("set", p)
           c == [x EXCEPT !.v = db[p].v]
<1>1. x \in Commands /\ x.op = "set" /\ x.at = p /\ x.time = 0 /\ x.nx = FALSE
  BY DEF Cmd, Commands, KeyOps, Bodied, Vals
<1> HIDE DEF x
<1>2. db[p].v \in KeyValues /\ db[p].v \in Vals
  BY NoEntryIs DEF Datasets
<1>3. c \in Commands /\ c.op = "set" /\ c.at = p /\ c.v = db[p].v /\ c.time = 0 /\ c.nx = FALSE
  BY <1>1, <1>2 DEF Commands
<1>4. SetKey(db, p) = c
  BY DEF SetKey, x
<1> HIDE DEF c
<1>5. Legal(c)
  BY <1>2, <1>3 DEF Legal
<1>6. c \in Given
  BY <1>3, <1>5 DEF Given
<1>7. c \in Told
  BY <1>3, <1>6 DEF Told
<1>8. c \in Filed
  BY <1>3, <1>7 DEF Filed
<1> QED BY <1>3, <1>4, <1>7, <1>8
LEMMA KeyCommandsAre ==
  ASSUME NEW db \in Datasets, NEW p \in Slots, db[p] # NoEntry
  PROVE  /\ KeyCommands(db, p) \in Seq(Filed)
         /\ \A w \in Datasets : Leads(TRUE, w, KeyCommands(db, p), [w EXCEPT ![p] = db[p]])
<1> DEFINE s == SetKey(db, p)
           t == db[p].when
           e == ExpireAtCmd(p, t)
           x == Held(db[p].v, Never)
<1>1. s \in Filed /\ s \in Told /\ s.op = "set" /\ s.at = p /\ s.v = db[p].v /\ ~s.nx
  BY SetKeyIs
<1>2. db[p] \in Entry /\ db[p].v \in KeyValues /\ db[p].v # "none" /\ t \in Nat \cup {Never}
  BY NoEntryIs, KeyspaceAssumption DEF Datasets
<1>3. Held(db[p].v, t) = db[p]
  BY <1>2 DEF Held, Entry
<1>4. KeyCommands(db, p) = IF t = Never THEN <<s>> ELSE <<s, e>>
  BY DEF KeyCommands, SetKey
<1>5. x \in Entry /\ x.v = db[p].v /\ x # NoEntry
  <2>1. x \in Entry
    BY <1>2, NoEntryIs DEF Vals
  <2>2. x.v = db[p].v
    BY DEF Held
  <2>3. NoEntry.v = "none"
    BY DEF NoEntry
  <2> HIDE DEF x
  <2> QED BY <1>2, <2>1, <2>2, <2>3
<1> HIDE DEF s, t, e
<1>6. ASSUME NEW w \in Datasets
      PROVE  [w EXCEPT ![p] = x] \in Datasets /\ Leads(TRUE, w, <<s>>, [w EXCEPT ![p] = x])
  <2>1. [w EXCEPT ![p] = x] \in Datasets
    BY <1>5 DEF Datasets
  <2>2. Reads(TRUE, w, s) = [w EXCEPT ![p] = x]
    BY <1>1 DEF Reads, Made, Applies, Effect, ReadTime
  <2>3. Leads(TRUE, w, <<s>>, Reads(TRUE, w, s))
    BY <1>1, LeadsFed, Zenon
  <2> QED BY <2>1, <2>2, <2>3
<1>7. CASE t = Never
  <2>1. KeyCommands(db, p) = <<s>> /\ x = db[p]
    BY <1>3, <1>4, <1>7
  <2> HIDE DEF x
  <2>2. \A w \in Datasets : Leads(TRUE, w, <<s>>, [w EXCEPT ![p] = db[p]])
    BY <1>6, <2>1
  <2>3. <<s>> \in Seq(Filed)
    BY <1>1
  <2> QED BY <2>1, <2>2, <2>3
<1>8. CASE t # Never
  <2>1. e \in Filed /\ e \in Told /\ e.op = "expireat" /\ e.at = p /\ e.time = t
    <3>1. t \in Nat
      BY <1>2, <1>8
    <3> QED BY <3>1, ExpireAtIs DEF e
  <2>2. KeyCommands(db, p) = <<s, e>> /\ <<s, e>> = <<s>> \o <<e>> /\ <<s, e>> \in Seq(Filed)
    BY <1>1, <1>4, <1>8, <2>1
  <2>3. <<s>> \in Seq(Told) /\ <<e>> \in Seq(Told)
    BY <1>1, <2>1
  <2>4. ASSUME NEW w \in Datasets PROVE Leads(TRUE, w, <<s>> \o <<e>>, [w EXCEPT ![p] = db[p]])
    <3> DEFINE y == [w EXCEPT ![p] = x]
    <3>1. y \in Datasets /\ Leads(TRUE, w, <<s>>, y)
      BY <1>6
    <3>2. y[p] = x /\ [y EXCEPT ![p] = db[p]] = [w EXCEPT ![p] = db[p]]
      BY DEF Datasets
    <3> HIDE DEF x, y
    <3>3. Reads(TRUE, y, e) = [y EXCEPT ![p] = db[p]]
      BY <1>3, <1>5, <2>1, <3>2 DEF Reads, Made, Applies, Effect, ReadTime
    <3>4. Reads(TRUE, y, e) = [w EXCEPT ![p] = db[p]]
      BY <3>2, <3>3
    <3>5. Leads(TRUE, y, <<e>>, Reads(TRUE, y, e))
      BY <2>1, <3>1, LeadsFed, Zenon
    <3> QED BY <2>3, <3>1, <3>4, <3>5, LeadsConcat
  <2> QED BY <2>2, <2>4
<1> QED BY <1>7, <1>8

IsWritten(f, db, keys, n) ==
  f = [i \in 0 .. n |-> IF i = 0 THEN <<>> ELSE f[i - 1] \o KeyCommands(db, keys[i])]
LEMMA WrittenExists ==
  ASSUME NEW db, NEW keys, NEW n \in Nat
  PROVE  \E f : IsWritten(f, db, keys, n)
<1> DEFINE T == {k \in 0 .. n : \E f : IsWritten(f, db, keys, k)}
<1>1. 0 \in T
  <2>1. IsWritten([i \in 0 .. 0 |-> <<>>], db, keys, 0)
    BY DEF IsWritten
  <2> QED BY <2>1
<1>2. ASSUME NEW m \in 1 .. n, m - 1 \in T
      PROVE  m \in T
  <2>1. PICK f : IsWritten(f, db, keys, m - 1)
    BY <1>2
  <2> DEFINE g == [k \in 0 .. m |-> IF k = m THEN f[m - 1] \o KeyCommands(db, keys[m]) ELSE f[k]]
  <2>2. ASSUME NEW k \in 0 .. m
        PROVE  g[k] = IF k = 0 THEN <<>> ELSE g[k - 1] \o KeyCommands(db, keys[k])
    <3>1. CASE k = m
      <4>1. k # 0 /\ k - 1 \in 0 .. m /\ k - 1 # m /\ k - 1 = m - 1
        BY <3>1
      <4> QED BY <3>1, <4>1
    <3>2. CASE k # m
      <4>1. k \in 0 .. m - 1 /\ (k # 0 => k - 1 \in 0 .. m - 1)
        BY <3>2
      <4>2. f[k] = IF k = 0 THEN <<>> ELSE f[k - 1] \o KeyCommands(db, keys[k])
        BY <2>1, <4>1 DEF IsWritten
      <4> QED BY <3>2, <4>1, <4>2
    <3> QED BY <3>1, <3>2
  <2>3. g = [k \in 0 .. m |-> g[k]]
    OBVIOUS
  <2> HIDE DEF g
  <2>4. IsWritten(g, db, keys, m)
    BY <2>2, <2>3 DEF IsWritten
  <2> QED BY <2>4
<1>3. T \in SUBSET (0 .. n)
  OBVIOUS
<1> HIDE DEF T
<1>4. n \in T
  BY <1>1, <1>2, <1>3, Induct
<1> QED BY <1>4 DEF T
LEMMA RewrittenIs ==
  ASSUME NEW db \in Datasets
  PROVE  RewrittenAof(db) \in Seq(Filed) /\ Leads(TRUE, Nothing, RewrittenAof(db), db)
<1> DEFINE ps == Present(db)
           n == Cardinality(ps)
           keys == SetToSeq(ps)
           f == CHOOSE g : IsWritten(g, db, keys, n)
           Upto(k) == [p \in Slots |-> IF p \in {keys[i] : i \in 1 .. k} THEN db[p] ELSE NoEntry]
           T == {k \in 0 .. n : f[k] \in Seq(Filed) /\ Leads(TRUE, Nothing, f[k], Upto(k))}
<1>1. IsFiniteSet(ps)
  <2>1. ps \subseteq Slots
    BY DEF Present
  <2> QED BY <2>1, KeyspaceAssumption, FS_Subset
<1>2. n \in Nat /\ keys \in [1 .. n -> ps] /\ {keys[i] : i \in 1 .. n} = ps
  BY <1>1, AsSeq
<1>3. Len(keys) = n
  BY <1>2
<1>4. IsWritten(f, db, keys, n)
  BY <1>2, WrittenExists
<1>5. RewrittenAof(db) = f[n]
  BY <1>3 DEF RewrittenAof, IsWritten
<1> HIDE DEF f, n, keys
<1>6. f[0] = <<>> /\ \A k \in 1 .. n : f[k] = f[k - 1] \o KeyCommands(db, keys[k])
  <2>1. \A k \in 0 .. n : f[k] = IF k = 0 THEN <<>> ELSE f[k - 1] \o KeyCommands(db, keys[k])
    BY <1>4 DEF IsWritten
  <2>2. n \in Nat
    BY <1>2
  <2>3. 0 \in 0 .. n /\ \A k \in 1 .. n : k \in 0 .. n /\ k # 0
    BY <2>2
  <2> QED BY <2>1, <2>3
<1>7. 0 \in T
  <2>1. Upto(0) = Nothing
    <3>1. {keys[i] : i \in 1 .. 0} = {}
      OBVIOUS
    <3> QED BY <3>1 DEF Nothing
  <2>2. TRUE \in BOOLEAN
    OBVIOUS
  <2>3. Leads(TRUE, Nothing, <<>>, Nothing)
    BY NothingIs, LeadsNothing
  <2> HIDE DEF Upto
  <2>4. <<>> \in Seq(Filed)
    OBVIOUS
  <2>5. f[0] \in Seq(Filed) /\ Leads(TRUE, Nothing, f[0], Upto(0))
    BY <1>6, <2>1, <2>3, <2>4, Zenon
  <2>6. 0 \in 0 .. n
    BY <1>2
  <2> QED BY <2>5, <2>6
<1>8. ASSUME NEW k \in 1 .. n, k - 1 \in T
      PROVE  k \in T
  <2> DEFINE p == keys[k]
             x == Upto(k - 1)
  <2>1. p \in Slots /\ db[p] # NoEntry
    BY <1>2 DEF Present
  <2>2. /\ KeyCommands(db, p) \in Seq(Filed)
        /\ \A w \in Datasets : Leads(TRUE, w, KeyCommands(db, p), [w EXCEPT ![p] = db[p]])
    BY <2>1, KeyCommandsAre
  <2>3. x \in Datasets
    BY NoEntryIs DEF Datasets
  <2>4. Upto(k) = [x EXCEPT ![p] = db[p]]
    <3>1. k \in Nat /\ \A i \in Int : i \in 1 .. k <=> i \in 1 .. k - 1 \/ i = k
      BY <1>2
    <3>2. {keys[i] : i \in 1 .. k} = {keys[i] : i \in 1 .. k - 1} \cup {p}
      BY <3>1
    <3> QED BY <3>2
  <2>5. f[k - 1] \in Seq(Filed) /\ Leads(TRUE, Nothing, f[k - 1], x)
    BY <1>8
  <2> HIDE DEF p, x, Upto
  <2>6. Leads(TRUE, x, KeyCommands(db, p), Upto(k))
    BY <2>2, <2>3, <2>4
  <2>7. f[k] = f[k - 1] \o KeyCommands(db, p)
    BY <1>6 DEF p
  <2>8. f[k] \in Seq(Filed) /\ Leads(TRUE, Nothing, f[k], Upto(k))
    <3>1. f[k - 1] \o KeyCommands(db, p) \in Seq(Filed)
      BY <2>2, <2>5, ConcatProperties
    <3>2. Leads(TRUE, Nothing, f[k - 1] \o KeyCommands(db, p), Upto(k))
      BY <2>2, <2>5, <2>6, LeadsConcat, Zenon
    <3> QED BY <2>7, <3>1, <3>2, Zenon
  <2>9. k \in 0 .. n
    BY <1>2
  <2> QED BY <2>8, <2>9
<1>9. T \in SUBSET (0 .. n)
  OBVIOUS
<1> HIDE DEF T
<1>10. n \in T
  BY <1>2, <1>7, <1>8, <1>9, Induct
<1>11. Upto(n) = db
  BY <1>2 DEF Datasets, Present
<1> QED BY <1>5, <1>10, <1>11 DEF T

----------------------------------------------------------------------------
(* A server that loads the file, at any time, has what the file says.        *)
LEMMA ContextTyped ==
  ASSUME NEW db \in Datasets, NEW role \in {"master", "slave", "loading"}, NEW now \in Nat
  PROVE  LET s == Context(db, role, now)
         IN /\ s \in Contexts /\ s.db = db /\ s.role = role /\ s.now = now /\ ~s.lua
            /\ s.out = <<>> /\ s.fed = <<>>
BY DEF Context, Contexts
LEMMA ReaderLoads ==
  ASSUME NEW db \in Datasets, NEW c \in Filed, NEW now \in Nat
  PROVE  Execute(Context(db, "loading", now), c, 0).db = Reads(TRUE, db, c)
<1> DEFINE s == Context(db, "loading", now)
           r == Execute(s, c, 0).db
<1>1. s \in Contexts /\ s.db = db /\ s.role # "master"
  BY ContextTyped
<1>2. c \in Told /\ 0 \in Nat /\ TRUE \in BOOLEAN
  BY DEF Filed
<1> HIDE DEF s
<1>3. ASSUME NEW exact \in BOOLEAN, exact = TRUE
      PROVE  r = Reads(exact, db, c)
  <2>1. r \in Datasets /\ SeenIn(exact, r) = Reads(exact, SeenIn(exact, s.db), c)
    BY <1>1, <1>2, ReaderExecutes
  <2>2. \A d \in Datasets : SeenIn(exact, d) = d
    BY <1>2, <1>3, SeenInIs
  <2> HIDE DEF r
  <2> QED BY <1>1, <2>1, <2>2
<1> QED BY <1>2, <1>3, Zenon DEF s, r

IsLoaded(f, commands, now, n) ==
  f = [i \in 0 .. n |-> IF i = 0 THEN [p \in Slots |-> NoEntry]
                        ELSE Execute(Context(f[i - 1], "loading", now), commands[i], 0).db]
LEMMA LoadedExists ==
  ASSUME NEW commands, NEW now, NEW n \in Nat
  PROVE  \E f : IsLoaded(f, commands, now, n)
<1> DEFINE T == {k \in 0 .. n : \E f : IsLoaded(f, commands, now, k)}
           Next1(db, c) == Execute(Context(db, "loading", now), c, 0).db
<1>1. 0 \in T
  <2>1. IsLoaded([i \in 0 .. 0 |-> [p \in Slots |-> NoEntry]], commands, now, 0)
    BY DEF IsLoaded
  <2> QED BY <2>1
<1>2. ASSUME NEW m \in 1 .. n, m - 1 \in T
      PROVE  m \in T
  <2>1. PICK f : IsLoaded(f, commands, now, m - 1)
    BY <1>2
  <2> DEFINE g == [k \in 0 .. m |-> IF k = m THEN Next1(f[m - 1], commands[m]) ELSE f[k]]
             x == [p \in Slots |-> NoEntry]
  <2>2. \A k \in 0 .. m - 1 : f[k] = IF k = 0 THEN x ELSE Next1(f[k - 1], commands[k])
    BY <2>1 DEF IsLoaded
  <2> HIDE DEF Next1, x
  <2>3. ASSUME NEW k \in 0 .. m
        PROVE  g[k] = IF k = 0 THEN x ELSE Next1(g[k - 1], commands[k])
    <3>1. CASE k = m
      <4>1. k # 0 /\ k - 1 \in 0 .. m /\ k - 1 # m /\ k - 1 = m - 1
        BY <3>1
      <4> QED BY <3>1, <4>1
    <3>2. CASE k # m
      <4>1. k \in 0 .. m - 1 /\ (k # 0 => k - 1 \in 0 .. m - 1)
        BY <3>2
      <4> QED BY <2>2, <3>2, <4>1
    <3> QED BY <3>1, <3>2
  <2>4. g = [k \in 0 .. m |-> g[k]]
    OBVIOUS
  <2> HIDE DEF g
  <2>5. IsLoaded(g, commands, now, m)
    BY <2>3, <2>4 DEF IsLoaded, Next1, x
  <2> QED BY <2>5
<1>3. T \in SUBSET (0 .. n)
  OBVIOUS
<1> HIDE DEF T
<1>4. n \in T
  BY <1>1, <1>2, <1>3, Induct
<1> QED BY <1>4 DEF T
LEMMA LoadedIs ==
  ASSUME NEW q \in Seq(Filed), NEW now \in Nat, NEW w, Leads(TRUE, Nothing, q, w)
  PROVE  LoadedFrom(q, now) = w
<1> DEFINE n == Len(q)
           f == CHOOSE g : IsLoaded(g, q, now, n)
<1>1. n \in Nat /\ \A k \in 1 .. n : q[k] \in Filed
  OBVIOUS
<1>2. IsLoaded(f, q, now, n)
  BY <1>1, LoadedExists
<1>3. LoadedFrom(q, now) = f[n]
  BY DEF LoadedFrom, IsLoaded
<1>4. PICK g \in [0 .. n -> Datasets] :
        g[0] = Nothing /\ g[n] = w /\ \A i \in 1 .. n : g[i] = Reads(TRUE, g[i - 1], q[i])
  BY DEF Leads
<1> HIDE DEF f, n
<1>5. f[0] = Nothing /\ \A k \in 1 .. n : f[k] = Execute(Context(f[k - 1], "loading", now), q[k], 0).db
  <2>1. \A k \in 0 .. n : f[k] = IF k = 0 THEN Nothing
                                 ELSE Execute(Context(f[k - 1], "loading", now), q[k], 0).db
    BY <1>2 DEF IsLoaded, Nothing
  <2>2. 0 \in 0 .. n /\ \A k \in 1 .. n : k \in 0 .. n /\ k # 0
    BY <1>1
  <2> QED BY <2>1, <2>2
<1> DEFINE T == {k \in 0 .. n : f[k] = g[k]}
<1>6. 0 \in T
  BY <1>1, <1>4, <1>5
<1>7. ASSUME NEW k \in 1 .. n, k - 1 \in T
      PROVE  k \in T
  <2>1. f[k - 1] = g[k - 1] /\ g[k - 1] \in Datasets /\ k \in 0 .. n
    BY <1>1, <1>4, <1>7
  <2>2. q[k] \in Filed
    BY <1>1
  <2>3. Execute(Context(g[k - 1], "loading", now), q[k], 0).db = Reads(TRUE, g[k - 1], q[k])
    BY <2>1, <2>2, ReaderLoads
  <2>4. f[k] = Execute(Context(g[k - 1], "loading", now), q[k], 0).db
    BY <1>5, <2>1
  <2>5. g[k] = Reads(TRUE, g[k - 1], q[k])
    BY <1>4
  <2>6. f[k] = g[k]
    BY <2>3, <2>4, <2>5, Zenon
  <2> QED BY <2>1, <2>6
<1>8. T \in SUBSET (0 .. n)
  OBVIOUS
<1> HIDE DEF T
<1>9. n \in T
  <2>1. n \in Nat /\ n \in 0 .. n
    BY <1>1
  <2>2. \A k \in 1 .. n : k - 1 \in T => k \in T
    BY <1>7
  <2>3. \A k \in 0 .. n : k \in T
    BY <1>6, <1>8, <2>1, <2>2, Induct
  <2> QED BY <2>1, <2>3
<1> QED BY <1>3, <1>4, <1>9 DEF T

----------------------------------------------------------------------------
(* The copies stay complete.  SET with EX or PX and an EXPIRE in a script    *)
(* mean another moment wherever they are executed again, and a PERSIST gives *)
(* a key its life back that a child may have left out: without the first     *)
(* two, and without PERSIST where copies are made afresh.                    *)
NoTimeMoves ==
  \A c \in KeyChances : /\ c["setpx"] = 0 /\ c["scriptexpire"] = 0
                        /\ c["persist"] = 0 \/ (c["sync"] = 0 /\ c["rewrite"] = 0)
Loose == chances["persist"] = 0
ChancesInv ==
  /\ chances \in [KeyChance -> Nat]
  /\ chances["setpx"] = 0 /\ chances["scriptexpire"] = 0
  /\ Loose \/ (chances["sync"] = 0 /\ chances["rewrite"] = 0)
CopyOf(exact, loose, now, v, q, db) ==
  \E w \in Datasets : Leads(exact, v, q, w) /\ Agrees(exact, loose, now, w, db)
KeyspaceTyped ==
  /\ clock \in Nat /\ main \in Datasets /\ slave \in Datasets
  /\ toSlave \in Seq(Told) /\ aof \in Seq(Filed)
Start(exact) == IF exact THEN Nothing ELSE SeenIn(exact, slave)
Queue(exact) == IF exact THEN aof ELSE toSlave
KeyspaceInv ==
  /\ KeyspaceTyped /\ ChancesInv
  /\ \A exact \in BOOLEAN : CopyOf(exact, Loose, clock, Start(exact), Queue(exact), main)

LEMMA CopyLooser ==
  ASSUME NEW exact \in BOOLEAN, NEW loose \in BOOLEAN, NEW looser \in BOOLEAN, loose => looser,
         NEW now \in Nat, NEW later \in Nat, now <= later, NEW v, NEW q, NEW db \in Datasets,
         CopyOf(exact, loose, now, v, q, db)
  PROVE  CopyOf(exact, looser, later, v, q, db)
<1>1. PICK w \in Datasets : Leads(exact, v, q, w) /\ Agrees(exact, loose, now, w, db)
  BY DEF CopyOf
<1>2. Agrees(exact, looser, now, w, db)
  BY <1>1 DEF Agrees
<1>3. Agrees(exact, looser, later, w, db)
  BY <1>2, AgreesLater
<1> QED BY <1>1, <1>3 DEF CopyOf
LEMMA CopiedIs ==
  ASSUME NEW exact, NEW loose, NEW now, NEW v, NEW base, NEW s
  PROVE  Copied(exact, loose, now, v, base, s)
           <=> CopyOf(exact, loose, now, v, base \o NewsFor(exact, s), s.db)
BY DEF Copied, CopyOf
(* What happens does so at most as often as it may.                          *)
LEMMA HappensIs ==
  ASSUME ChancesInv, NEW kind \in KeyChance, Happens(kind)
  PROVE  ChancesInv' /\ (Loose => Loose') /\ chances[kind] > 0
<1>1. chances \in [KeyChance -> Nat] /\ {"setpx", "scriptexpire", "sync", "rewrite", "persist"} \subseteq KeyChance
  BY DEF ChancesInv, KeyChance
<1>2. \A k \in KeyChance : chances'[k] \in Nat /\ (chances[k] = 0 => chances'[k] = 0)
  BY <1>1 DEF Happens
<1>3. DOMAIN chances' = KeyChance /\ chances' \in [KeyChance -> Nat]
  BY <1>1, <1>2 DEF Happens
<1> QED BY <1>1, <1>2, <1>3 DEF ChancesInv, Loose, Happens

LEMMA QueueIs ==
  ASSUME KeyspaceTyped, NEW exact \in BOOLEAN
  PROVE  Queue(exact) \in Seq(Told) /\ Start(exact) \in Datasets
<1>1. aof \in Seq(Told) /\ toSlave \in Seq(Told)
  BY ToldIs DEF KeyspaceTyped
<1> QED BY <1>1, NothingIs, SeenIs DEF Queue, Start, SeenIn, Datasets, KeyspaceTyped

(* A master about to execute a command, and when it has.                     *)
LEMMA MasterCopied ==
  ASSUME KeyspaceInv
  PROVE  LET s == Context(main, "master", clock)
         IN /\ s \in Contexts /\ s.db = main /\ s.role = "master" /\ s.now = clock /\ ~s.lua
            /\ \A exact \in BOOLEAN : Copied(exact, Loose, clock, Start(exact), Queue(exact), s)
<1> DEFINE s == Context(main, "master", clock)
<1>1. /\ s \in Contexts /\ s.db = main /\ s.role = "master" /\ s.now = clock /\ ~s.lua
      /\ s.out = <<>> /\ s.fed = <<>>
  BY ContextTyped DEF KeyspaceInv, KeyspaceTyped
<1> HIDE DEF s
<1>2. ASSUME NEW exact \in BOOLEAN
      PROVE  Copied(exact, Loose, clock, Start(exact), Queue(exact), s)
  <2>1. Queue(exact) \in Seq(Told) /\ CopyOf(exact, Loose, clock, Start(exact), Queue(exact), main)
    BY QueueIs DEF KeyspaceInv
  <2>2. NewsFor(exact, s) = <<>> /\ Queue(exact) \o <<>> = Queue(exact)
    BY <1>1, <2>1 DEF NewsFor
  <2> QED BY <1>1, <2>1, <2>2, CopiedIs
<1> QED BY <1>1, <1>2 DEF s
LEMMA PerformedKeeps ==
  ASSUME KeyspaceTyped, NEW r \in Contexts, Performed(r), UNCHANGED slave, ChancesInv', Loose => Loose',
         \A exact \in BOOLEAN : Copied(exact, Loose, r.now, Start(exact), Queue(exact), r)
  PROVE  KeyspaceInv'
<1>1. main' = r.db /\ toSlave' = toSlave \o r.out /\ aof' = aof \o r.fed /\ clock' = r.now /\ slave' = slave
  BY DEF Performed
<1>2. r.db \in Datasets /\ r.out \in Seq(Told) /\ r.fed \in Seq(Filed) /\ r.now \in Nat
  BY ContextIs
<1>3. KeyspaceTyped'
  BY <1>1, <1>2, ConcatProperties DEF KeyspaceTyped
<1>4. ASSUME NEW exact \in BOOLEAN
      PROVE  CopyOf(exact, Loose', clock', Start(exact)', Queue(exact)', main')
  <2>1. CopyOf(exact, Loose, r.now, Start(exact), Queue(exact) \o NewsFor(exact, r), r.db)
    BY CopiedIs
  <2>2. Start(exact)' = Start(exact) /\ Queue(exact)' = Queue(exact) \o NewsFor(exact, r)
    BY <1>1 DEF Start, Queue, NewsFor
  <2>3. Loose \in BOOLEAN /\ Loose' \in BOOLEAN /\ r.now <= r.now
    BY <1>2 DEF Loose
  <2>4. CopyOf(exact, Loose', r.now, Start(exact), Queue(exact) \o NewsFor(exact, r), r.db)
    BY <1>2, <2>1, <2>3, CopyLooser
  <2> QED BY <1>1, <2>2, <2>4
<1> QED BY <1>3, <1>4 DEF KeyspaceInv
LEMMA ProcessKeeps ==
  ASSUME KeyspaceInv, NEW c \in Given, NEW elapsed \in Nat, c.op # "eval" => elapsed = 0,
         c.op = "persist" => ~Loose, ProcessCommand(c, elapsed), ChancesInv', Loose => Loose'
  PROVE  KeyspaceInv'
<1> DEFINE s == Context(main, "master", clock)
<1>1. /\ s \in Contexts /\ s.role = "master" /\ s.now = clock /\ ~s.lua
      /\ \A exact \in BOOLEAN : Copied(exact, Loose, clock, Start(exact), Queue(exact), s)
  BY MasterCopied
<1> HIDE DEF s
<1>2. PICK e \in Evictions(main) :
        Performed(IF c.op \in DenyOom /\ OverMemory(Evicted(s, e)) THEN Evicted(s, e)
                  ELSE Call(Evicted(s, e), c, elapsed))
  BY DEF ProcessCommand, s
<1> DEFINE t == Evicted(s, e)
           r == IF c.op \in DenyOom /\ OverMemory(t) THEN t ELSE Call(t, c, elapsed)
<1>3. e \in SUBSET Slots
  BY DEF Evictions, Candidates, Present, Volatile
<1>4. KeyspaceTyped /\ clock \in Nat /\ Loose \in BOOLEAN
  BY DEF KeyspaceInv, KeyspaceTyped, Loose
<1>5. \A exact \in BOOLEAN : Start(exact) \in Datasets /\ Queue(exact) \in Seq(Told)
  BY <1>4, QueueIs
<1>6. t \in Contexts /\ Alike(s, t)
  <2>1. TRUE \in BOOLEAN
    OBVIOUS
  <2>2. \A exact \in BOOLEAN : t \in Contexts /\ Alike(s, t)
    BY <1>1, <1>3, <1>4, <1>5, EvictedCopied
  <2> QED BY <2>1, <2>2
<1>7. \A exact \in BOOLEAN : Copied(exact, Loose, clock, Start(exact), Queue(exact), t)
  BY <1>1, <1>3, <1>4, <1>5, EvictedCopied
<1> HIDE DEF t
<1>8. t.role = "master" /\ t.now = clock /\ ~t.lua
  BY <1>1, <1>6 DEF Alike
<1>9. r \in Contexts /\ \A exact \in BOOLEAN : Copied(exact, Loose, r.now, Start(exact), Queue(exact), r)
  <2>1. CASE c.op \in DenyOom /\ OverMemory(t)
    BY <1>6, <1>7, <1>8, <2>1
  <2>2. CASE ~(c.op \in DenyOom /\ OverMemory(t))
    <3>1. r = Call(t, c, elapsed)
      BY <2>2
    <3> HIDE DEF r
    <3>2. ASSUME NEW exact \in BOOLEAN
          PROVE  r \in Contexts /\ Copied(exact, Loose, r.now, Start(exact), Queue(exact), r)
      <4>1. Copied(exact, Loose, t.now, Start(exact), Queue(exact), t)
        BY <1>7, <1>8
      <4> QED BY <1>4, <1>5, <1>6, <1>8, <3>1, <4>1, CallCopied
    <3>3. TRUE \in BOOLEAN
      OBVIOUS
    <3> QED BY <3>2, <3>3
  <2> QED BY <2>1, <2>2
<1>10. Performed(r)
  BY <1>2 DEF t
<1>11. UNCHANGED slave
  BY DEF ProcessCommand
<1> HIDE DEF r
<1> QED BY <1>4, <1>9, <1>10, <1>11, PerformedKeeps

----------------------------------------------------------------------------
(* The commands clients send.                                                *)
Spells(c, op, at, to, v, time, nx, body) ==
  c.op = op /\ c.at = at /\ c.to = to /\ c.v = v /\ c.time = time /\ c.nx = nx /\ c.body = body
LEMMA CmdIs ==
  ASSUME NEW op \in KeyOps \cup {"get", "eval"}, NEW p \in Slots
  PROVE  Cmd(op, p) \in Commands /\ Spells(Cmd(op, p), op, p, p, "none", 0, FALSE, <<>>)
BY DEF Cmd, Commands, Bodied, Vals, Spells
LEMMA ChangedIs ==
  ASSUME NEW c \in Commands
  PROVE  /\ \A v \in Vals : LET d == [c EXCEPT !.v = v]
                            IN d \in Commands /\ Spells(d, c.op, c.at, c.to, v, c.time, c.nx, c.body)
         /\ \A p \in Slots : LET d == [c EXCEPT !.to = p]
                             IN d \in Commands /\ Spells(d, c.op, c.at, p, c.v, c.time, c.nx, c.body)
         /\ \A t \in Int : LET d == [c EXCEPT !.time = t]
                           IN d \in Commands /\ Spells(d, c.op, c.at, c.to, c.v, t, c.nx, c.body)
         /\ \A nx \in BOOLEAN : LET d == [c EXCEPT !.nx = nx]
                                IN d \in Commands /\ Spells(d, c.op, c.at, c.to, c.v, c.time, nx, c.body)
         /\ \A b \in Bodied : LET d == [c EXCEPT !.body = b]
                              IN d \in Commands /\ Spells(d, c.op, c.at, c.to, c.v, c.time, c.nx, b)
BY DEF Commands, Spells
LEMMA PlainGiven ==
  ASSUME NEW op \in {"persist", "del", "flushdb", "flushall", "get"}, NEW p \in Slots
  PROVE  Cmd(op, p) \in Given /\ Cmd(op, p).op = op
<1>1. Cmd(op, p) \in Commands /\ Cmd(op, p).op = op /\ Cmd(op, p).time = 0
  BY CmdIs DEF KeyOps, Spells
<1> QED BY <1>1 DEF Given, Legal
LEMMA SetGiven ==
  ASSUME NEW p \in Slots, NEW v \in KeyValues, NEW nx \in BOOLEAN
  PROVE  [Cmd("set", p) EXCEPT !.v = v, !.nx = nx] \in Given
         /\ [Cmd("set", p) EXCEPT !.v = v, !.nx = nx].op = "set"
<1> DEFINE x == Cmd("set", p)
           y == [x EXCEPT !.v = v]
           c == [y EXCEPT !.nx = nx]
<1>1. [Cmd("set", p) EXCEPT !.v = v, !.nx = nx] = c
  OBVIOUS
<1>2. x \in Commands /\ x.op = "set" /\ x.time = 0
  BY CmdIs DEF KeyOps, Spells
<1> HIDE DEF x
<1>3. y \in Commands /\ y.op = "set" /\ y.time = 0 /\ y.v = v
  BY <1>2, ChangedIs DEF Vals, Spells
<1> HIDE DEF y
<1>4. c \in Commands /\ c.op = "set" /\ c.time = 0 /\ c.v = v
  BY <1>3, ChangedIs DEF Spells
<1> HIDE DEF c
<1>5. c \in Given
  BY <1>4 DEF Given, Legal
<1> QED BY <1>1, <1>4, <1>5
LEMMA SetexGiven ==
  ASSUME NEW p \in Slots, NEW v \in KeyValues, NEW ttl \in Int, ttl > 0
  PROVE  [Cmd("setex", p) EXCEPT !.v = v, !.time = ttl] \in Given
         /\ [Cmd("setex", p) EXCEPT !.v = v, !.time = ttl].op = "setex"
<1> DEFINE x == Cmd("setex", p)
           y == [x EXCEPT !.v = v]
           c == [y EXCEPT !.time = ttl]
<1>1. [Cmd("setex", p) EXCEPT !.v = v, !.time = ttl] = c
  OBVIOUS
<1>2. x \in Commands /\ x.op = "setex" /\ x.nx = FALSE
  BY CmdIs DEF KeyOps, Spells
<1> HIDE DEF x
<1>3. y \in Commands /\ y.op = "setex" /\ y.nx = FALSE /\ y.v = v
  BY <1>2, ChangedIs DEF Vals, Spells
<1> HIDE DEF y
<1>4. c \in Commands /\ c.op = "setex" /\ c.time = ttl /\ c.v = v /\ c.nx = FALSE
  BY <1>3, ChangedIs DEF Spells
<1> HIDE DEF c
<1>5. Legal(c)
  BY <1>4 DEF Legal
<1> QED BY <1>1, <1>4, <1>5 DEF Given
LEMMA ExpireGiven ==
  ASSUME NEW p \in Slots, NEW op \in {"expire", "expireat"}, NEW time \in Int
  PROVE  [Cmd(op, p) EXCEPT !.time = time] \in Given /\ [Cmd(op, p) EXCEPT !.time = time].op = op
<1> DEFINE x == Cmd(op, p)
           c == [x EXCEPT !.time = time]
<1>1. x \in Commands /\ x.op = op
  BY CmdIs DEF KeyOps, Spells
<1> HIDE DEF x
<1>2. c \in Commands /\ c.op = op
  BY <1>1, ChangedIs DEF Spells
<1> HIDE DEF c
<1>3. c \in Given
  BY <1>2 DEF Given, Legal
<1> QED BY <1>2, <1>3 DEF c, x
LEMMA RenameGiven ==
  ASSUME NEW p \in Slots, NEW q \in Slots, q # p, NEW nx \in BOOLEAN
  PROVE  [Cmd("rename", p) EXCEPT !.to = q, !.nx = nx] \in Given
         /\ [Cmd("rename", p) EXCEPT !.to = q, !.nx = nx].op = "rename"
<1> DEFINE x == Cmd("rename", p)
           y == [x EXCEPT !.to = q]
           c == [y EXCEPT !.nx = nx]
<1>1. [Cmd("rename", p) EXCEPT !.to = q, !.nx = nx] = c
  OBVIOUS
<1>2. x \in Commands /\ x.op = "rename" /\ x.time = 0 /\ x.at = p
  BY CmdIs DEF KeyOps, Spells
<1> HIDE DEF x
<1>3. y \in Commands /\ y.op = "rename" /\ y.time = 0 /\ y.at = p /\ y.to = q
  BY <1>2, ChangedIs DEF Spells
<1> HIDE DEF y
<1>4. c \in Commands /\ c.op = "rename" /\ c.time = 0 /\ c.at = p /\ c.to = q
  BY <1>3, ChangedIs DEF Spells
<1> HIDE DEF c
<1>5. c \in Given
  BY <1>4 DEF Given, Legal
<1> QED BY <1>1, <1>4, <1>5
LEMMA MoveGiven ==
  ASSUME NEW p \in Slots, NEW q \in Slots, q # p
  PROVE  [Cmd("move", p) EXCEPT !.to = q] \in Given /\ [Cmd("move", p) EXCEPT !.to = q].op = "move"
<1> DEFINE x == Cmd("move", p)
           c == [x EXCEPT !.to = q]
<1>1. x \in Commands /\ x.op = "move" /\ x.time = 0 /\ x.at = p
  BY CmdIs DEF KeyOps, Spells
<1> HIDE DEF x
<1>2. c \in Commands /\ c.op = "move" /\ c.time = 0 /\ c.at = p /\ c.to = q
  BY <1>1, ChangedIs DEF Spells
<1> HIDE DEF c
<1>3. c \in Given
  BY <1>2 DEF Given, Legal
<1> QED BY <1>2, <1>3 DEF c, x
LEMMA EvalGiven ==
  ASSUME NEW p \in Slots, NEW d \in Bodies(p)
  PROVE  [Cmd("eval", p) EXCEPT !.body = <<d>>] \in Given
         /\ [Cmd("eval", p) EXCEPT !.body = <<d>>].op = "eval"
<1> DEFINE x == Cmd("eval", p)
           c == [x EXCEPT !.body = <<d>>]
<1>1. d \in Scripted /\ (d.op = "persist" => d.at = p)
  <2>1. CASE d \in [op : {"set"}, at : Slots, to : {p}, v : KeyValues, time : {0}, nx : {TRUE}, body : {<<>>}]
    BY <2>1 DEF Scripted, Vals
  <2>2. CASE d \in {Cmd("del", p), Cmd("persist", p)}
    <3>1. PICK op \in {"del", "persist"} : d = Cmd(op, p)
      BY <2>2
    <3>2. d = [op |-> op, at |-> p, to |-> p, v |-> "none", time |-> 0, nx |-> FALSE, body |-> <<>>]
      BY <3>1 DEF Cmd
    <3>3. d \in [op : {"set", "persist", "del"}, at : Slots, to : Slots, v : Vals, time : {0},
                 nx : BOOLEAN, body : {<<>>}]
      BY <3>2 DEF Vals
    <3>4. d.op = op /\ d.at = p
      BY <3>2
    <3> QED BY <3>3, <3>4 DEF Scripted
  <2> QED BY <2>1, <2>2 DEF Bodies
<1>2. x \in Commands /\ x.op = "eval" /\ x.time = 0 /\ x.at = p
  BY CmdIs DEF Spells
<1> HIDE DEF x
<1>3. c \in Commands /\ c.op = "eval" /\ c.time = 0 /\ c.at = p /\ c.body = <<d>>
  <2>1. <<d>> \in Bodied
    BY <1>1 DEF Bodied
  <2> QED BY <1>2, <2>1, ChangedIs DEF Spells
<1> HIDE DEF c
<1>4. Legal(c)
  BY <1>1, <1>3 DEF Legal
<1> QED BY <1>3, <1>4 DEF c, x, Given

----------------------------------------------------------------------------
(* Every step keeps the copies complete.                                     *)
LEMMA CommandKeeps ==
  ASSUME KeyspaceInv, NEW kind \in KeyChance, Happens(kind), NEW c \in Given, NEW elapsed \in Nat,
         c.op # "eval" => elapsed = 0, c.op = "persist" => kind = "persist", ProcessCommand(c, elapsed)
  PROVE  KeyspaceInv'
<1>1. ChancesInv' /\ (Loose => Loose') /\ chances[kind] > 0
  BY HappensIs DEF KeyspaceInv
<1>2. c.op = "persist" => ~Loose
  BY <1>1 DEF Loose
<1> QED BY <1>1, <1>2, ProcessKeeps
LEMMA NowKeeps ==
  ASSUME KeyspaceInv, NEW kind \in KeyChance, Happens(kind), NEW c \in Given,
         c.op = "persist" => kind = "persist", Now(c)
  PROVE  KeyspaceInv'
<1>1. ProcessCommand(c, 0) /\ 0 \in Nat
  BY DEF Now
<1> QED BY <1>1, CommandKeeps
LEMMA ClientKeeps ==
  ASSUME KeyspaceInv, NEW p \in Slots,
         \/ SetCommand(p) \/ SetexCommand(p) \/ SetPxCommand(p)
         \/ ExpireCommand(p) \/ PersistCommand(p)
         \/ DelCommand(p) \/ RenameCommand(p) \/ MoveCommand(p) \/ FlushCommand(p)
         \/ GetCommand(p)
         \/ EvalCommand(p) \/ EvalExpire(p)
  PROVE  KeyspaceInv'
<1>1. /\ {"set", "setex", "setpx", "expire", "persist", "del", "rename", "move", "flush", "read",
          "script", "scriptexpire"} \subseteq KeyChance
      /\ Ttls \subseteq Int
  BY KeyspaceAssumption DEF KeyChance
<1>2. ~Happens("setpx") /\ ~Happens("scriptexpire")
  <2>1. chances["setpx"] = 0 /\ chances["scriptexpire"] = 0
    BY DEF KeyspaceInv, ChancesInv
  <2> QED BY <2>1 DEF Happens
<1>3. CASE SetCommand(p)
  <2>1. PICK v \in KeyValues, nx \in BOOLEAN : Happens("set") /\ Now([Cmd("set", p) EXCEPT !.v = v, !.nx = nx])
    BY <1>3 DEF SetCommand
  <2> DEFINE c == [Cmd("set", p) EXCEPT !.v = v, !.nx = nx]
  <2>2. c \in Given /\ c.op = "set"
    BY SetGiven
  <2>3. Now(c)
    BY <2>1
  <2> HIDE DEF c
  <2> QED BY <1>1, <2>1, <2>2, <2>3, NowKeeps
<1>4. CASE SetexCommand(p)
  <2>1. PICK v \in KeyValues, ttl \in Ttls :
          Happens("setex") /\ ttl > 0 /\ Now([Cmd("setex", p) EXCEPT !.v = v, !.time = ttl])
    BY <1>4 DEF SetexCommand
  <2> DEFINE c == [Cmd("setex", p) EXCEPT !.v = v, !.time = ttl]
  <2>2. c \in Given /\ c.op = "setex"
    BY <1>1, <2>1, SetexGiven
  <2>3. Now(c)
    BY <2>1
  <2> HIDE DEF c
  <2> QED BY <1>1, <2>1, <2>2, <2>3, NowKeeps
<1>5. CASE SetPxCommand(p)
  BY <1>2, <1>5 DEF SetPxCommand
<1>6. CASE ExpireCommand(p)
  <2>1. PICK op \in {"expire", "expireat"}, time \in Ttls :
          Happens("expire") /\ Now([Cmd(op, p) EXCEPT !.time = time])
    BY <1>6 DEF ExpireCommand
  <2> DEFINE c == [Cmd(op, p) EXCEPT !.time = time]
  <2>2. c \in Given /\ c.op = op
    BY <1>1, ExpireGiven
  <2>3. Now(c)
    BY <2>1
  <2> HIDE DEF c
  <2> QED BY <1>1, <2>1, <2>2, <2>3, NowKeeps
<1>7. CASE PersistCommand(p)
  <2>1. Happens("persist") /\ Now(Cmd("persist", p)) /\ Cmd("persist", p) \in Given
    BY <1>7, PlainGiven DEF PersistCommand
  <2> QED BY <1>1, <2>1, NowKeeps
<1>8. CASE DelCommand(p)
  <2>1. Happens("del") /\ Now(Cmd("del", p)) /\ Cmd("del", p) \in Given /\ Cmd("del", p).op = "del"
    BY <1>8, PlainGiven DEF DelCommand
  <2> QED BY <1>1, <2>1, NowKeeps
<1>9. CASE RenameCommand(p)
  <2>1. PICK q \in Names(p), nx \in BOOLEAN :
          Happens("rename") /\ Now([Cmd("rename", p) EXCEPT !.to = q, !.nx = nx])
    BY <1>9 DEF RenameCommand
  <2> DEFINE c == [Cmd("rename", p) EXCEPT !.to = q, !.nx = nx]
  <2>2. c \in Given /\ c.op = "rename"
    BY RenameGiven DEF Names
  <2>3. Now(c)
    BY <2>1
  <2> HIDE DEF c
  <2> QED BY <1>1, <2>1, <2>2, <2>3, NowKeeps
<1>10. CASE MoveCommand(p)
  <2>1. PICK q \in Dests(p) : Happens("move") /\ Now([Cmd("move", p) EXCEPT !.to = q])
    BY <1>10 DEF MoveCommand
  <2> DEFINE c == [Cmd("move", p) EXCEPT !.to = q]
  <2>2. c \in Given /\ c.op = "move"
    BY MoveGiven DEF Dests
  <2>3. Now(c)
    BY <2>1
  <2> HIDE DEF c
  <2> QED BY <1>1, <2>1, <2>2, <2>3, NowKeeps
<1>11. CASE FlushCommand(p)
  <2>1. PICK op \in {"flushdb", "flushall"} : Happens("flush") /\ Now(Cmd(op, p))
    BY <1>11 DEF FlushCommand
  <2>2. Cmd(op, p) \in Given /\ Cmd(op, p).op = op
    BY PlainGiven
  <2> QED BY <1>1, <2>1, <2>2, NowKeeps
<1>12. CASE GetCommand(p)
  <2>1. Happens("read") /\ Now(Cmd("get", p)) /\ Cmd("get", p) \in Given /\ Cmd("get", p).op = "get"
    BY <1>12, PlainGiven DEF GetCommand
  <2> QED BY <1>1, <2>1, NowKeeps
<1>13. CASE EvalCommand(p)
  <2>1. PICK d \in Bodies(p), elapsed \in 0 .. 1 :
          Happens("script") /\ ProcessCommand([Cmd("eval", p) EXCEPT !.body = <<d>>], elapsed)
    BY <1>13 DEF EvalCommand
  <2> DEFINE c == [Cmd("eval", p) EXCEPT !.body = <<d>>]
  <2>2. c \in Given /\ c.op = "eval"
    BY EvalGiven
  <2>3. ProcessCommand(c, elapsed) /\ elapsed \in Nat
    BY <2>1
  <2> HIDE DEF c
  <2> QED BY <1>1, <2>1, <2>2, <2>3, CommandKeeps
<1>14. CASE EvalExpire(p)
  BY <1>2, <1>14 DEF EvalExpire
<1> QED BY <1>3, <1>4, <1>5, <1>6, <1>7, <1>8, <1>9, <1>10, <1>11, <1>12, <1>13, <1>14

LEMMA CycleKeeps ==
  ASSUME KeyspaceInv, NEW ps \in SUBSET Slots, ActiveExpireCycle(ps)
  PROVE  KeyspaceInv'
<1> DEFINE s == Context(main, "master", clock)
           t == Evicted(s, ps)
<1>1. /\ s \in Contexts /\ s.now = clock
      /\ \A exact \in BOOLEAN : Copied(exact, Loose, clock, Start(exact), Queue(exact), s)
  BY MasterCopied
<1>2. Performed(t) /\ UNCHANGED slave /\ chances' = chances
  BY DEF ActiveExpireCycle
<1> HIDE DEF s
<1>3. KeyspaceTyped /\ ChancesInv /\ clock \in Nat /\ Loose \in BOOLEAN
  BY DEF KeyspaceInv, KeyspaceTyped, Loose
<1>4. \A exact \in BOOLEAN : Start(exact) \in Datasets /\ Queue(exact) \in Seq(Told)
  BY <1>3, QueueIs
<1>5. ASSUME NEW exact \in BOOLEAN
      PROVE  t \in Contexts /\ Alike(s, t) /\ Copied(exact, Loose, clock, Start(exact), Queue(exact), t)
  BY <1>1, <1>3, <1>4, EvictedCopied
<1>6. t \in Contexts /\ t.now = clock
  <2>1. TRUE \in BOOLEAN
    OBVIOUS
  <2>2. t \in Contexts /\ Alike(s, t)
    BY <1>5, <2>1
  <2> QED BY <1>1, <2>2 DEF Alike
<1> HIDE DEF t
<1>7. ChancesInv' /\ (Loose => Loose')
  BY <1>2, <1>3 DEF ChancesInv, Loose
<1> QED BY <1>2, <1>3, <1>5, <1>6, <1>7, PerformedKeeps

LEMMA SlaveKeeps ==
  ASSUME KeyspaceInv, SlaveExecutes
  PROVE  KeyspaceInv'
<1>1. PICK elapsed \in 0 .. 1 :
        /\ toSlave # <<>>
        /\ slave' = Execute(Context(slave, "slave", clock), toSlave[1], elapsed).db
        /\ toSlave' = Tail(toSlave) /\ clock' = clock + elapsed
        /\ UNCHANGED <<main, aof, chances>>
  BY DEF SlaveExecutes
<1> DEFINE s == Context(slave, "slave", clock)
           c == toSlave[1]
<1>2. /\ clock \in Nat /\ main \in Datasets /\ slave \in Datasets /\ toSlave \in Seq(Told)
      /\ aof \in Seq(Filed) /\ ChancesInv /\ KeyspaceTyped /\ Loose \in BOOLEAN
      /\ \A exact \in BOOLEAN : CopyOf(exact, Loose, clock, Start(exact), Queue(exact), main)
  BY DEF KeyspaceInv, KeyspaceTyped, Loose
<1>3. c \in Told /\ Tail(toSlave) \in Seq(Told)
  BY <1>1, <1>2
<1>4. s \in Contexts /\ s.db = slave /\ s.role # "master"
  BY <1>2, ContextTyped
<1> HIDE DEF s, c
<1>5. slave' = Execute(s, c, elapsed).db /\ elapsed \in Nat
  BY <1>1 DEF s, c
<1>6. ASSUME NEW exact \in BOOLEAN, ~exact
      PROVE  slave' \in Datasets /\ SeenIn(exact, slave') = Reads(exact, SeenIn(exact, slave), c)
  BY <1>3, <1>4, <1>5, <1>6, ReaderExecutes
<1>7. slave' \in Datasets
  <2>1. FALSE \in BOOLEAN /\ ~FALSE
    OBVIOUS
  <2> QED BY <1>6, <2>1
<1>8. KeyspaceTyped' /\ ChancesInv' /\ Loose' = Loose
  BY <1>1, <1>2, <1>3, <1>5, <1>7 DEF KeyspaceTyped, ChancesInv, Loose
<1>9. ASSUME NEW exact \in BOOLEAN
      PROVE  CopyOf(exact, Loose', clock', Start(exact)', Queue(exact)', main')
  <2>1. CopyOf(exact, Loose, clock, Start(exact)', Queue(exact)', main)
    <3>1. CASE exact
      <4>1. Start(exact)' = Start(exact) /\ Queue(exact)' = Queue(exact)
        BY <1>1, <3>1 DEF Start, Queue
      <4> QED BY <1>2, <4>1
    <3>2. CASE ~exact
      <4>1. Start(exact) = SeenIn(exact, slave) /\ Queue(exact) = toSlave
        BY <3>2 DEF Start, Queue
      <4>2. Start(exact)' = Reads(exact, SeenIn(exact, slave), c) /\ Queue(exact)' = Tail(toSlave)
        BY <1>1, <1>6, <3>2 DEF Start, Queue
      <4>3. PICK w \in Datasets : /\ Leads(exact, SeenIn(exact, slave), toSlave, w)
                                  /\ Agrees(exact, Loose, clock, w, main)
        BY <1>2, <4>1 DEF CopyOf
      <4>4. Leads(exact, Reads(exact, SeenIn(exact, slave), c), Tail(toSlave), w)
        BY <1>1, <1>2, <4>3, LeadsHead DEF c
      <4> QED BY <4>2, <4>3, <4>4 DEF CopyOf
    <3> QED BY <3>1, <3>2
  <2>2. clock' \in Nat /\ clock <= clock' /\ main' = main
    BY <1>1, <1>2, <1>5
  <2>3. CopyOf(exact, Loose, clock', Start(exact)', Queue(exact)', main)
    BY <1>2, <2>1, <2>2, CopyLooser
  <2> QED BY <1>8, <2>2, <2>3
<1> QED BY <1>8, <1>9 DEF KeyspaceInv

(* What a child writes.                                                      *)
LEMMA UnexpiredIs ==
  ASSUME NEW exact \in BOOLEAN, NEW loose \in BOOLEAN, loose, NEW now \in Nat, NEW db \in Datasets
  PROVE  /\ Unexpired(db, now) \in Datasets
         /\ Agrees(exact, loose, now, SeenIn(exact, Unexpired(db, now)), db)
<1> DEFINE gone == {p \in Slots : db[p].when # Never /\ db[p].when < now}
           u == Emptied(db, gone)
<1>1. u \in Datasets /\ \A p \in Slots : u[p] = IF p \in gone THEN NoEntry ELSE db[p]
  BY EmptiedIs
<1>2. Unexpired(db, now) = u
  BY DEF Unexpired
<1> HIDE DEF u
<1>3. ASSUME NEW p \in Slots
      PROVE  \/ loose /\ db[p].when # Never /\ now > db[p].when
             \/ SeenIn(exact, u)[p] = Seen(exact, db[p])
  <2>1. CASE p \in gone
    <3>1. db[p].when \in Nat \cup {Never}
      BY NoEntryIs DEF Datasets
    <3> QED BY <2>1, <3>1
  <2>2. CASE p \notin gone
    BY <1>1, <2>2 DEF SeenIn
  <2> QED BY <2>1, <2>2
<1> HIDE DEF gone
<1>4. Agrees(exact, loose, now, SeenIn(exact, u), db)
  BY <1>3 DEF Agrees
<1> QED BY <1>1, <1>2, <1>4
LEMMA SyncKeeps ==
  ASSUME KeyspaceInv, FullSync
  PROVE  KeyspaceInv'
<1> DEFINE u == Unexpired(main, clock)
<1>1. Happens("sync") /\ slave' = u /\ toSlave' = <<>> /\ UNCHANGED <<main, aof, clock>>
  BY DEF FullSync
<1>2. /\ clock \in Nat /\ main \in Datasets /\ aof \in Seq(Filed) /\ ChancesInv
      /\ Loose \in BOOLEAN /\ Loose' \in BOOLEAN
      /\ \A exact \in BOOLEAN : CopyOf(exact, Loose, clock, Start(exact), Queue(exact), main)
  BY DEF KeyspaceInv, KeyspaceTyped, Loose
<1>3. ChancesInv' /\ (Loose => Loose') /\ Loose
  <2>1. "sync" \in KeyChance
    BY DEF KeyChance
  <2>2. ChancesInv' /\ (Loose => Loose') /\ chances["sync"] > 0
    BY <1>1, <1>2, <2>1, HappensIs
  <2> QED BY <1>2, <2>2 DEF ChancesInv
<1> HIDE DEF u
<1>4. ASSUME NEW exact \in BOOLEAN
      PROVE  u \in Datasets /\ Agrees(exact, Loose, clock, SeenIn(exact, u), main)
  BY <1>2, <1>3, UnexpiredIs DEF u
<1>5. u \in Datasets
  <2>1. TRUE \in BOOLEAN
    OBVIOUS
  <2> QED BY <1>4, <2>1
<1>6. KeyspaceTyped'
  BY <1>1, <1>2, <1>5 DEF KeyspaceTyped
<1>7. ASSUME NEW exact \in BOOLEAN
      PROVE  CopyOf(exact, Loose', clock', Start(exact)', Queue(exact)', main')
  <2>1. CASE exact
    <3>1. Start(exact)' = Start(exact) /\ Queue(exact)' = Queue(exact) /\ clock' = clock /\ main' = main
      BY <1>1, <2>1 DEF Start, Queue
    <3>2. clock <= clock
      BY <1>2
    <3>3. CopyOf(exact, Loose', clock, Start(exact), Queue(exact), main)
      BY <1>2, <1>3, <3>2, CopyLooser
    <3> QED BY <3>1, <3>3
  <2>2. CASE ~exact
    <3>1. Start(exact)' = SeenIn(exact, u) /\ Queue(exact)' = <<>> /\ clock' = clock /\ main' = main
      BY <1>1, <2>2 DEF Start, Queue
    <3>2. SeenIn(exact, u) \in Datasets
      BY <1>2, <1>5, SeenInIs
    <3>3. CopyOf(exact, Loose, clock, SeenIn(exact, u), <<>>, main)
      BY <1>4, <3>2, LeadsNothing DEF CopyOf
    <3>4. Loose' = Loose
      BY <1>2, <1>3
    <3> QED BY <3>1, <3>3, <3>4
  <2> QED BY <2>1, <2>2
<1> QED BY <1>3, <1>6, <1>7 DEF KeyspaceInv
LEMMA RewriteKeeps ==
  ASSUME KeyspaceInv, RewriteAof
  PROVE  KeyspaceInv'
<1> DEFINE u == Unexpired(main, clock)
<1>1. Happens("rewrite") /\ aof' = RewrittenAof(u) /\ UNCHANGED <<main, slave, toSlave, clock>>
  BY DEF RewriteAof
<1>2. /\ clock \in Nat /\ main \in Datasets /\ slave \in Datasets /\ toSlave \in Seq(Told) /\ ChancesInv
      /\ Loose \in BOOLEAN /\ Loose' \in BOOLEAN
      /\ \A exact \in BOOLEAN : CopyOf(exact, Loose, clock, Start(exact), Queue(exact), main)
  BY DEF KeyspaceInv, KeyspaceTyped, Loose
<1>3. ChancesInv' /\ (Loose => Loose') /\ Loose
  <2>1. "rewrite" \in KeyChance
    BY DEF KeyChance
  <2>2. ChancesInv' /\ (Loose => Loose') /\ chances["rewrite"] > 0
    BY <1>1, <1>2, <2>1, HappensIs
  <2> QED BY <1>2, <2>2 DEF ChancesInv
<1> HIDE DEF u
<1>4. ASSUME NEW exact \in BOOLEAN
      PROVE  u \in Datasets /\ Agrees(exact, Loose, clock, SeenIn(exact, u), main)
  BY <1>2, <1>3, UnexpiredIs DEF u
<1>5. u \in Datasets
  <2>1. TRUE \in BOOLEAN
    OBVIOUS
  <2> QED BY <1>4, <2>1
<1>6. aof' \in Seq(Filed) /\ Leads(TRUE, Nothing, RewrittenAof(u), u)
  BY <1>1, <1>5, RewrittenIs
<1>7. KeyspaceTyped'
  BY <1>1, <1>2, <1>6 DEF KeyspaceTyped
<1>8. ASSUME NEW exact \in BOOLEAN
      PROVE  CopyOf(exact, Loose', clock', Start(exact)', Queue(exact)', main')
  <2>1. CASE ~exact
    <3>1. Start(exact)' = Start(exact) /\ Queue(exact)' = Queue(exact) /\ clock' = clock /\ main' = main
      BY <1>1, <2>1 DEF Start, Queue
    <3>2. clock <= clock
      BY <1>2
    <3>3. CopyOf(exact, Loose', clock, Start(exact), Queue(exact), main)
      BY <1>2, <1>3, <3>2, CopyLooser
    <3> QED BY <3>1, <3>3
  <2>2. CASE exact
    <3>1. Start(exact)' = Nothing /\ Queue(exact)' = RewrittenAof(u) /\ clock' = clock /\ main' = main
      BY <1>1, <2>2 DEF Start, Queue, Nothing
    <3>2. exact = TRUE
      BY <2>2
    <3>3. Leads(exact, Nothing, RewrittenAof(u), u)
      BY <1>6, <3>2, Zenon
    <3>4. Agrees(exact, Loose, clock, u, main)
      BY <1>2, <1>4, <1>5, <2>2, SeenInIs
    <3>5. CopyOf(exact, Loose, clock, Nothing, RewrittenAof(u), main)
      BY <1>5, <3>3, <3>4 DEF CopyOf
    <3>6. Loose' = Loose
      BY <1>2, <1>3
    <3> QED BY <3>1, <3>5, <3>6
  <2> QED BY <2>1, <2>2
<1> QED BY <1>3, <1>7, <1>8 DEF KeyspaceInv
LEMMA TickKeeps ==
  ASSUME KeyspaceInv, Tick
  PROVE  KeyspaceInv'
<1>1. /\ clock \in Nat /\ clock' = clock + 1 /\ main \in Datasets /\ Loose \in BOOLEAN
      /\ UNCHANGED <<main, slave, toSlave, aof, chances>>
  BY DEF KeyspaceInv, KeyspaceTyped, Loose, Tick
<1>2. KeyspaceTyped' /\ ChancesInv' /\ Loose' = Loose
  BY <1>1 DEF KeyspaceInv, KeyspaceTyped, ChancesInv, Loose
<1>3. ASSUME NEW exact \in BOOLEAN
      PROVE  CopyOf(exact, Loose', clock', Start(exact)', Queue(exact)', main')
  <2>1. CopyOf(exact, Loose, clock, Start(exact), Queue(exact), main)
    BY DEF KeyspaceInv
  <2>2. clock' \in Nat /\ clock <= clock'
    BY <1>1
  <2>3. CopyOf(exact, Loose, clock', Start(exact), Queue(exact), main)
    BY <1>1, <2>1, <2>2, CopyLooser
  <2>4. Start(exact)' = Start(exact) /\ Queue(exact)' = Queue(exact) /\ main' = main
    BY <1>1 DEF Start, Queue
  <2> QED BY <1>2, <2>3, <2>4
<1> QED BY <1>2, <1>3 DEF KeyspaceInv
LEMMA KeyspaceStarts ==
  ASSUME NoTimeMoves, KeyspaceInit
  PROVE  KeyspaceInv
<1>1. clock = 0 /\ main \in StartKeys /\ slave = main /\ toSlave = <<>> /\ aof = RewrittenAof(main)
      /\ chances \in KeyChances
  BY DEF KeyspaceInit
<1>2. main \in Datasets
  <2>1. main \in [Slots -> [v : KeyValues, when : Nat \cup {-1}] \cup {[v |-> "none", when |-> -1]}]
    BY <1>1, KeyspaceAssumption
  <2>2. [v : KeyValues, when : Nat \cup {-1}] \subseteq Entry
    BY KeyspaceAssumption DEF Entry, Vals, Never
  <2>3. [v |-> "none", when |-> -1] \in Entry
    BY DEF Entry, Vals, Never
  <2> QED BY <2>1, <2>2, <2>3 DEF Datasets
<1>3. ChancesInv
  <2>1. chances \in [KeyChance -> Nat]
    BY <1>1, KeyspaceAssumption
  <2> QED BY <1>1, <2>1 DEF NoTimeMoves, ChancesInv, Loose
<1>4. aof \in Seq(Filed) /\ Leads(TRUE, Nothing, RewrittenAof(main), main)
  BY <1>1, <1>2, RewrittenIs
<1>5. KeyspaceTyped
  BY <1>1, <1>2, <1>4 DEF KeyspaceTyped
<1>6. ASSUME NEW exact \in BOOLEAN
      PROVE  CopyOf(exact, Loose, clock, Start(exact), Queue(exact), main)
  <2>1. SeenIn(exact, main) \in Datasets /\ Agrees(exact, Loose, clock, SeenIn(exact, main), main)
        /\ (exact => SeenIn(exact, main) = main)
    <3>1. clock \in Nat
      BY <1>1
    <3>2. Loose \in BOOLEAN
      BY DEF Loose
    <3>3. SeenIn(exact, main) \in Datasets /\ Agrees(exact, Loose, clock, SeenIn(exact, main), main)
      <4>1. Agrees(exact, Loose, clock, SeenIn(exact, main), main)
        BY DEF Agrees, SeenIn
      <4>2. SeenIn(exact, main) \in Datasets
        BY <1>2, <3>1, <3>2, SeenInIs
      <4> QED BY <4>1, <4>2
    <3>4. ASSUME exact
          PROVE  SeenIn(exact, main) = main
      BY <1>2, <3>1, <3>2, <3>4, SeenInIs
    <3> QED BY <3>3, <3>4
  <2>2. CASE exact
    <3>1. exact = TRUE
      BY <2>2
    <3>2. Start(exact) = Nothing /\ Queue(exact) = RewrittenAof(main)
      BY <1>1, <2>2 DEF Start, Queue
    <3>3. Leads(exact, Nothing, RewrittenAof(main), main)
      BY <1>4, <3>1, Zenon
    <3>4. Agrees(exact, Loose, clock, main, main)
      BY <2>1, <2>2
    <3> QED BY <1>2, <3>2, <3>3, <3>4 DEF CopyOf
  <2>3. CASE ~exact
    <3>1. Start(exact) = SeenIn(exact, main) /\ Queue(exact) = <<>>
      BY <1>1, <2>3 DEF Start, Queue
    <3>2. Leads(exact, SeenIn(exact, main), <<>>, SeenIn(exact, main))
      BY <2>1, LeadsNothing
    <3> QED BY <2>1, <3>1, <3>2 DEF CopyOf
  <2> QED BY <2>2, <2>3
<1> QED BY <1>3, <1>5, <1>6 DEF KeyspaceInv
LEMMA KeyspaceSteps ==
  ASSUME KeyspaceInv, [KeyspaceNext]_keyspaceVars
  PROVE  KeyspaceInv'
<1>1. CASE \E p \in Slots :
             \/ SetCommand(p) \/ SetexCommand(p) \/ SetPxCommand(p)
             \/ ExpireCommand(p) \/ PersistCommand(p)
             \/ DelCommand(p) \/ RenameCommand(p) \/ MoveCommand(p) \/ FlushCommand(p)
             \/ GetCommand(p)
             \/ EvalCommand(p) \/ EvalExpire(p)
  BY <1>1, ClientKeeps
<1>2. CASE \E ps \in SUBSET Slots : ActiveExpireCycle(ps)
  BY <1>2, CycleKeeps
<1>3. CASE SlaveExecutes
  BY <1>3, SlaveKeeps
<1>4. CASE FullSync
  BY <1>4, SyncKeeps
<1>5. CASE RewriteAof
  BY <1>5, RewriteKeeps
<1>6. CASE Tick
  BY <1>6, TickKeeps
<1>7. CASE UNCHANGED keyspaceVars
  BY <1>7 DEF keyspaceVars, KeyspaceInv, KeyspaceTyped, ChancesInv, Loose, Start, Queue
<1> QED BY <1>1, <1>2, <1>3, <1>4, <1>5, <1>6, <1>7 DEF KeyspaceNext

(* What the invariant says of the copies as they are.                        *)
LEMMA InvCopies ==
  ASSUME KeyspaceInv
  PROVE  CopiesHaveDataset
<1>1. /\ clock \in Nat /\ main \in Datasets /\ slave \in Datasets /\ aof \in Seq(Filed)
      /\ \A exact \in BOOLEAN : CopyOf(exact, Loose, clock, Start(exact), Queue(exact), main)
  BY DEF KeyspaceInv, KeyspaceTyped
<1>2. \A p \in Slots : main[p] \in Entry /\ slave[p] \in Entry
  BY <1>1 DEF Datasets
<1>3. ReplicaHasDataset
  <2>1. SUFFICES ASSUME toSlave = <<>>, NEW p \in Slots
                 PROVE  Past(p) \/ (slave[p].v = main[p].v /\ (slave[p].when = Never <=> main[p].when = Never))
    BY DEF ReplicaHasDataset
  <2>2. ASSUME NEW exact \in BOOLEAN, ~exact
        PROVE  Past(p) \/ (slave[p].v = main[p].v /\ (slave[p].when = Never <=> main[p].when = Never))
    <3>1. Start(exact) = SeenIn(exact, slave) /\ Queue(exact) = <<>>
      BY <2>1, <2>2 DEF Start, Queue
    <3>2. PICK w \in Datasets : Leads(exact, SeenIn(exact, slave), <<>>, w) /\ Agrees(exact, Loose, clock, w, main)
      BY <1>1, <3>1 DEF CopyOf
    <3>3. w = SeenIn(exact, slave)
      BY <3>2, LeadsEmpty
    <3>4. Past(p) \/ Seen(exact, slave[p]) = Seen(exact, main[p])
      BY <3>2, <3>3 DEF Agrees, SeenIn, Past
    <3>5. ASSUME NEW e \in Entry
          PROVE  Seen(exact, e).v = e.v /\ (Seen(exact, e).when = Never <=> e.when = Never)
      BY <2>2 DEF Seen, Held, SeenTime, Never
    <3> QED BY <1>2, <3>4, <3>5
  <2>3. FALSE \in BOOLEAN /\ ~FALSE
    OBVIOUS
  <2> QED BY <2>2, <2>3
<1>4. AofHasDataset
  <2> DEFINE loaded == LoadedFrom(aof, MaxClock + 1)
  <2>1. ASSUME NEW exact \in BOOLEAN, exact
        PROVE  \A p \in Slots : Past(p) \/ loaded[p] = main[p]
    <3>1. Start(exact) = Nothing /\ Queue(exact) = aof /\ exact = TRUE
      BY <2>1 DEF Start, Queue
    <3>2. PICK w \in Datasets : Leads(exact, Nothing, aof, w) /\ Agrees(exact, Loose, clock, w, main)
      BY <1>1, <3>1 DEF CopyOf
    <3>3. Leads(TRUE, Nothing, aof, w)
      BY <3>1, <3>2, Zenon
    <3>4. loaded = w
      <4>1. MaxClock + 1 \in Nat
        BY KeyspaceAssumption
      <4> QED BY <1>1, <3>3, <4>1, LoadedIs
    <3>5. \A p \in Slots : Seen(exact, main[p]) = main[p]
      BY <1>2, <2>1, SeenIs
    <3> HIDE DEF loaded
    <3> QED BY <3>2, <3>4, <3>5 DEF Agrees, Past
  <2>2. \A p \in Slots : Past(p) \/ loaded[p] = main[p]
    <3>1. TRUE \in BOOLEAN /\ TRUE
      OBVIOUS
    <3> HIDE DEF loaded
    <3> QED BY <2>1, <3>1
  <2> QED BY <2>2 DEF AofHasDataset
<1> QED BY <1>3, <1>4 DEF CopiesHaveDataset

(* A slave that executed what it was told, and the append only file loaded   *)
(* at any time, have the master's keys (propagateExpire(), call(),           *)
(* catAppendOnlyExpireAtCommand(), rewriteAppendOnlyFile()), but for what    *)
(* expired, whoever reads the clock when, in every order of what clients,    *)
(* scripts, the cron, evictions, synchronisations and rewrites do.           *)
THEOREM CopiesAreComplete ==
  ASSUME NoTimeMoves
  PROVE  KeyspaceSpec => []CopiesHaveDataset
<1>1. KeyspaceInit => KeyspaceInv
  BY KeyspaceStarts
<1>2. KeyspaceInv /\ [KeyspaceNext]_keyspaceVars => KeyspaceInv'
  BY KeyspaceSteps
<1>3. KeyspaceInv => CopiesHaveDataset
  BY InvCopies
<1> QED BY <1>1, <1>2, <1>3, PTL DEF KeyspaceSpec
============================================================================
