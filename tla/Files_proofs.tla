---------------------------- MODULE Files_proofs ----------------------------
(* Theorems of the files, for every FAT, every directory, every number of    *)
(* slots and objects, and whatever sectors are bad in each call.             *)
EXTENDS Files, WellFoundedInduction, SequenceTheorems, TLAPS

-----------------------------------------------------------------------------
(* Iterations.  The loops of the code are recursive functions on 0 .. n.     *)

(* Induction up to n, with the set of the numbers for which it holds.        *)
LEMMA Induct ==
  ASSUME NEW n \in Nat, NEW S, 0 \in S,
         \A i \in 0 .. n : i # 0 /\ i - 1 \in S => i \in S
  PROVE  \A i \in 0 .. n : i \in S
<1> DEFINE T == {i \in 0 .. n : i \notin S}
<1>1. SUFFICES ASSUME T # {}
               PROVE  FALSE
  BY Zenon
<1>2. T \subseteq Nat
  OBVIOUS
<1>3. PICK i \in T : \A j \in T : ~(<<j, i>> \in OpToRel(<, Nat))
  BY <1>1, <1>2, WFMin, NatLessThanWellFounded
<1>4. \A j \in Nat : j < i => <<j, i>> \in OpToRel(<, Nat)
  BY <1>2, <1>3 DEF OpToRel
<1>5. i # 0 /\ i \in 0 .. n /\ i \notin S
  BY <1>3
<1>6. i - 1 \in 0 .. n /\ i - 1 < i /\ i - 1 \in Nat
  BY <1>5
<1>7. i - 1 \notin T
  BY <1>3, <1>4, <1>6
<1> QED
  BY <1>5, <1>6, <1>7

(* f is the iteration of G from a.                                           *)
Iterates(f, a, G, n) ==
  f = [i \in 0 .. n |-> IF i = 0 THEN a ELSE G[f[i - 1]]]

LEMMA IterationExists ==
  ASSUME NEW R, NEW G \in [R -> R], NEW a \in R, NEW n \in Nat
  PROVE  \E f \in [0 .. n -> R] : Iterates(f, a, G, n)
<1> DEFINE S == {k \in 0 .. n : \E f \in [0 .. k -> R] : Iterates(f, a, G, k)}
<1>1. 0 \in S
  <2>1. [i \in 0 .. 0 |-> a] \in [0 .. 0 -> R]
    OBVIOUS
  <2>2. Iterates([i \in 0 .. 0 |-> a], a, G, 0)
    BY DEF Iterates
  <2> QED
    BY <2>1, <2>2
<1>2. ASSUME NEW k \in 0 .. n, k # 0, k - 1 \in S
      PROVE  k \in S
  <2>1. PICK f \in [0 .. k - 1 -> R] : Iterates(f, a, G, k - 1)
    BY <1>2
  <2> DEFINE g == [i \in 0 .. k |-> IF i = k THEN G[f[k - 1]] ELSE f[i]]
  <2>2. k \in Nat /\ k - 1 \in Nat /\ k - 1 \in 0 .. k - 1
    BY <1>2
  <2>3. G[f[k - 1]] \in R
    BY <2>2
  <2>4. g \in [0 .. k -> R]
    <3>1. \A i \in 0 .. k : i # k => i \in 0 .. k - 1
      BY <2>2
    <3> QED
      BY <2>3, <3>1
  <2>5. ASSUME NEW i \in 0 .. k
        PROVE  g[i] = IF i = 0 THEN a ELSE G[g[i - 1]]
    <3>1. f[0] = a
      BY <2>1, <2>2 DEF Iterates
    <3>2. CASE i = 0
      BY <1>2, <3>1, <3>2
    <3>3. CASE i = k
      <4>1. g[i - 1] = f[k - 1]
        BY <2>2, <3>3
      <4> QED
        BY <1>2, <3>3, <4>1
    <3>4. CASE i # 0 /\ i # k
      <4>1. i \in 0 .. k - 1 /\ i - 1 \in 0 .. k /\ i - 1 # k
        BY <2>2, <3>4
      <4>2. f[i] = G[f[i - 1]]
        BY <2>1, <3>4, <4>1 DEF Iterates
      <4>3. g[i] = f[i] /\ g[i - 1] = f[i - 1]
        BY <3>4, <4>1
      <4> QED
        BY <3>4, <4>2, <4>3
    <3> QED
      BY <3>2, <3>3, <3>4
  <2>6. Iterates(g, a, G, k)
    <3>1. g = [i \in 0 .. k |-> g[i]]
      OBVIOUS
    <3> HIDE DEF g
    <3> QED
      BY <2>5, <3>1 DEF Iterates
  <2> QED
    BY <2>4, <2>6
<1>3. n \in S
  <2> HIDE DEF S
  <2>1. \A i \in 0 .. n : i \in S
    BY <1>1, <1>2, Induct
  <2> QED
    BY <2>1
<1> QED
  BY <1>3

(* Two iterations agree as far as both go.                                   *)
LEMMA IterationsAgree ==
  ASSUME NEW a, NEW G, NEW m \in Nat, NEW n \in Nat, m <= n,
         NEW f, NEW g, Iterates(f, a, G, m), Iterates(g, a, G, n)
  PROVE  \A i \in 0 .. m : f[i] = g[i]
<1> DEFINE S == {i \in 0 .. m : f[i] = g[i]}
<1>1. 0 \in S
  BY DEF Iterates
<1>2. ASSUME NEW i \in 0 .. m, i # 0, i - 1 \in S
      PROVE  i \in S
  <2>1. i \in 0 .. n
    OBVIOUS
  <2>2. f[i] = G[f[i - 1]] /\ g[i] = G[g[i - 1]]
    BY <1>2, <2>1 DEF Iterates
  <2> QED
    BY <1>2, <2>2
<1> HIDE DEF S
<1>3. \A i \in 0 .. m : i \in S
  BY <1>1, <1>2, Induct
<1> QED
  BY <1>3 DEF S

(* A function that is an iteration wherever it is in R is one throughout.    *)
LEMMA IterationStays ==
  ASSUME NEW R, NEW G \in [R -> R], NEW a \in R, NEW n \in Nat, NEW f,
         f = [i \in 0 .. n |-> f[i]], f[0] = a,
         \A i \in 0 .. n : i # 0 /\ f[i - 1] \in R => f[i] = G[f[i - 1]]
  PROVE  f \in [0 .. n -> R] /\ Iterates(f, a, G, n)
<1> DEFINE S == {i \in 0 .. n : f[i] \in R}
<1>1. 0 \in S
  OBVIOUS
<1>2. ASSUME NEW i \in 0 .. n, i # 0, i - 1 \in S
      PROVE  i \in S
  <2>1. f[i - 1] \in R
    BY <1>2
  <2>2. f[i] = G[f[i - 1]]
    BY <1>2, <2>1
  <2>3. G[f[i - 1]] \in R
    BY <2>1
  <2> QED
    BY <2>2, <2>3
<1> HIDE DEF S
<1>3. \A i \in 0 .. n : i \in S
  BY <1>1, <1>2, Induct
<1>4. \A i \in 0 .. n : f[i] \in R
  BY <1>3 DEF S
<1>5. f \in [0 .. n -> R]
  BY <1>4
<1>6. \A i \in 0 .. n : f[i] = IF i = 0 THEN a ELSE G[f[i - 1]]
  <2>1. \A i \in 0 .. n : i # 0 => i - 1 \in 0 .. n
    OBVIOUS
  <2> QED
    BY <1>4, <2>1
<1>7. f = [i \in 0 .. n |-> IF i = 0 THEN a ELSE G[f[i - 1]]]
  BY <1>6
<1> QED
  BY <1>5, <1>7 DEF Iterates

-----------------------------------------------------------------------------
(* The chain of clusters that a file's first cluster begins.                 *)

Cluster == Clusters \union {0, EOC}

LEMMA LinksAreClusters == \A c : LinkOf(c) \in Cluster
BY FatAssumption DEF LinkOf, Cluster

LEMMA ClusterAtIs ==
  ASSUME NEW start \in Cluster, NEW k \in Nat
  PROVE  /\ ClusterAt(start, 0) = start
         /\ ClusterAt(start, k) \in Cluster
         /\ ClusterAt(start, k + 1) = LinkOf(ClusterAt(start, k))
<1> DEFINE G == [c \in Cluster |-> LinkOf(c)]
           Chain(f, n) == f = [i \in 0 .. n |-> IF i = 0 THEN start ELSE LinkOf(f[i - 1])]
           chain(n) == CHOOSE f : Chain(f, n)
<1>1. G \in [Cluster -> Cluster]
  BY LinksAreClusters
<1>2. ASSUME NEW n \in Nat
      PROVE  chain(n) \in [0 .. n -> Cluster] /\ Iterates(chain(n), start, G, n)
  <2> HIDE DEF G
  <2>1. PICK f \in [0 .. n -> Cluster] : Iterates(f, start, G, n)
    BY <1>1, IterationExists
  <2>2. \A i \in 0 .. n : f[i] = IF i = 0 THEN start ELSE LinkOf(f[i - 1])
    <3>1. \A i \in 0 .. n : i # 0 => i - 1 \in 0 .. n
      OBVIOUS
    <3>2. \A c \in Cluster : G[c] = LinkOf(c)
      BY DEF G
    <3> QED
      BY <2>1, <3>1, <3>2 DEF Iterates
  <2>3. Chain(f, n)
    BY <2>2
  <2> DEFINE c == chain(n)
  <2>4. Chain(c, n)
    BY <2>3
  <2> HIDE DEF c
  <2>5. /\ c = [i \in 0 .. n |-> c[i]] /\ c[0] = start
        /\ \A i \in 0 .. n : i # 0 => c[i] = LinkOf(c[i - 1])
    BY <2>4, SMTT(30)
  <2>6. \A i \in 0 .. n : i # 0 /\ c[i - 1] \in Cluster => c[i] = G[c[i - 1]]
    BY <2>5 DEF G
  <2>7. c \in [0 .. n -> Cluster] /\ Iterates(c, start, G, n)
    BY <1>1, <2>5, <2>6, IterationStays
  <2> QED
    BY <2>7 DEF c
<1>3. \A n \in Nat : ClusterAt(start, n) = chain(n)[n]
  BY DEF ClusterAt
<1> HIDE DEF G, chain
<1>4. ClusterAt(start, 0) = start
  BY <1>2, <1>3 DEF Iterates
<1>5. ClusterAt(start, k) \in Cluster
  BY <1>2, <1>3
<1>6. chain(k)[k] = chain(k + 1)[k]
  <2>1. k \in Nat /\ k + 1 \in Nat /\ k <= k + 1 /\ k \in 0 .. k
    OBVIOUS
  <2> QED
    BY <1>2, <2>1, IterationsAgree
<1>7. chain(k + 1)[k + 1] = LinkOf(chain(k + 1)[k])
  <2>1. k + 1 \in 0 .. k + 1 /\ k \in 0 .. k + 1 /\ k + 1 # 0 /\ (k + 1) - 1 = k /\ k + 1 \in Nat
    OBVIOUS
  <2>2. chain(k + 1)[k] \in Cluster
    BY <1>2, <2>1
  <2>3. chain(k + 1)[k + 1] = G[chain(k + 1)[k]]
    BY <1>2, <2>1 DEF Iterates
  <2> QED
    BY <2>2, <2>3 DEF G
<1> QED
  BY <1>3, <1>4, <1>5, <1>6, <1>7

-----------------------------------------------------------------------------
(* The FAT buffer, and the moves of one file.                                *)

Index  == Nat \union {-1}
File   == [start_cluster : Clusters \union {0}, cluster : Cluster, sector : Nat]

(* Caches whose index is that of the sector they hold.                       *)
Caches == {c \in [index : Index, sector : Index] : c.index = c.sector}

(* The file's cluster is the one of its sector.                              *)
OnChain(file) ==
  file.cluster = ClusterAt(file.start_cluster, file.sector \div ClusterSize)

LEMMA Division ==
  ASSUME NEW a \in Nat, NEW n \in Nat \ {0}
  PROVE  /\ a \div n \in Nat /\ a % n \in 0 .. (n - 1)
         /\ a = (n * (a \div n)) + (a % n)
OBVIOUS

(* Quotients are unique, and grow with the dividend.                         *)
LEMMA Quotient ==
  ASSUME NEW q \in Nat, NEW r \in Nat, NEW n \in Nat \ {0}, r < n
  PROVE  /\ ((n * q) + r) \div n = q /\ ((n * q) + r) % n = r
<1> DEFINE a == (n * q) + r
           p == a \div n
           s == a % n
<1>1. a \in Nat
  <2>1. n * q \in Nat
    OBVIOUS
  <2> HIDE DEF a
  <2> QED
    BY <2>1 DEF a
<1>2. p \in Nat /\ s \in 0 .. (n - 1) /\ a = (n * p) + s
  <2> HIDE DEF a
  <2> QED
    BY <1>1, Division
<1>3. (n * p) + s = (n * q) + r
  BY <1>2
<1> HIDE DEF p, s, a
<1>4. \A x, y \in Nat : x > y => n * x >= (n * y) + n
  <2> SUFFICES ASSUME NEW x \in Nat, NEW y \in Nat, x > y
               PROVE  n * x >= (n * y) + n
    OBVIOUS
  <2>1. \A z \in Nat : n * (y + 1 + z) = (n * y) + n + (n * z) /\ n * z >= 0
    OBVIOUS
  <2>2. x - (y + 1) \in Nat /\ x = y + 1 + (x - (y + 1))
    OBVIOUS
  <2> QED
    BY <2>1, <2>2
<1>5. n * p \in Nat /\ n * q \in Nat
  BY <1>2
<1>6. p = q
  <2>1. ~(p > q)
    <3> SUFFICES ASSUME p > q
                 PROVE  FALSE
      OBVIOUS
    <3>1. n * p >= (n * q) + n
      BY <1>2, <1>4
    <3> QED
      BY <1>2, <1>3, <1>5, <3>1
  <2>2. ~(q > p)
    <3> SUFFICES ASSUME q > p
                 PROVE  FALSE
      OBVIOUS
    <3>1. n * q >= (n * p) + n
      BY <1>2, <1>4
    <3> QED
      BY <1>2, <1>3, <1>5, <3>1
  <2> QED
    BY <1>2, <2>1, <2>2
<1>7. s = r
  BY <1>2, <1>3, <1>5, <1>6
<1> QED
  BY <1>6, <1>7 DEF p, s, a

LEMMA NextQuotient ==
  ASSUME NEW a \in Nat, NEW n \in Nat \ {0}
  PROVE  /\ (a + 1) % n # 0 => (a + 1) \div n = a \div n
         /\ (a + 1) % n = 0 => (a + 1) \div n = (a \div n) + 1
<1> DEFINE q == a \div n
           r == a % n
<1>1. q \in Nat /\ r \in 0 .. (n - 1) /\ a = (n * q) + r
  BY Division
<1> HIDE DEF q, r
<1>2. n * q \in Nat /\ n * (q + 1) = (n * q) + n
  BY <1>1
<1>3. CASE r + 1 < n
  <2>1. a + 1 = (n * q) + (r + 1) /\ r + 1 \in Nat
    BY <1>1, <1>2
  <2>2. (a + 1) \div n = q /\ (a + 1) % n = r + 1
    BY <1>1, <1>3, <2>1, Quotient
  <2> QED
    BY <1>1, <2>2 DEF q
<1>4. CASE ~(r + 1 < n)
  <2>1. a + 1 = (n * (q + 1)) + 0 /\ q + 1 \in Nat
    BY <1>1, <1>2, <1>4
  <2>2. (a + 1) \div n = q + 1 /\ (a + 1) % n = 0
    <3>1. \A t \in Nat : ((n * t) + 0) \div n = t /\ ((n * t) + 0) % n = 0
      <4>1. 0 \in Nat /\ 0 < n
        OBVIOUS
      <4> QED
        BY <4>1, Quotient
    <3> QED
      BY <2>1, <3>1
  <2> QED
    BY <2>2 DEF q
<1> QED
  BY <1>3, <1>4

LEMMA QuotientsGrow ==
  ASSUME NEW a \in Nat, NEW b \in Nat, NEW n \in Nat \ {0}, a <= b
  PROVE  a \div n <= b \div n
<1> DEFINE p == a \div n
           q == b \div n
           r == b % n
           s == a % n
<1>1. /\ p \in Nat /\ q \in Nat /\ r \in 0 .. (n - 1) /\ s \in 0 .. (n - 1)
      /\ a = (n * p) + s /\ b = (n * q) + r
  BY Division
<1> HIDE DEF p, q, r, s
<1>2. SUFFICES ASSUME p > q
               PROVE  FALSE
  BY <1>1 DEF p, q
<1>3. p - (q + 1) \in Nat /\ p = q + 1 + (p - (q + 1))
  BY <1>1, <1>2
<1>4. \A z \in Nat : n * (q + 1 + z) = (n * q) + n + (n * z) /\ n * z >= 0 /\ n * z \in Int
  BY <1>1
<1>5. n * p >= (n * q) + n /\ n * q \in Nat /\ n * p \in Nat
  <2>1. n * q \in Nat /\ n * p \in Nat
    BY <1>1
  <2> QED
    BY <1>3, <1>4, <2>1
<1> QED
  BY <1>1, <1>5

LEMMA ClustersAreNumbers ==
  /\ Cluster \subseteq Nat /\ Clusters \union {0} \subseteq Cluster
  /\ Clusters \subseteq Cluster /\ EOC \in Cluster
BY FatAssumption DEF Cluster

LEMMA LoadIs ==
  ASSUME NEW c \in Caches, NEW k \in Nat, NEW bad
  PROVE  LET l == Load(c, k, bad)
         IN  l.cache \in Caches /\ l.ok \in BOOLEAN /\ (l.ok => l.cache.sector = k)
<1>1. c \in [index : Index, sector : Index] /\ c.index = c.sector
  BY DEF Caches
<1>2. [index |-> k, sector |-> k] \in Caches
  BY DEF Caches, Index
<1>3. CASE k = c.index
  BY <1>1, <1>3 DEF Load
<1>4. CASE k # c.index
  BY <1>1, <1>2, <1>4 DEF Load
<1> QED
  BY <1>3, <1>4

LEMMA LinkInIs ==
  ASSUME NEW c \in Caches, NEW x \in Cluster
  PROVE  /\ LinkIn(c, x) \in Cluster
         /\ c.sector = FatSector(x) => LinkIn(c, x) = LinkOf(x)
<1>1. LinkIn(c, x) \in Cluster
  BY LinksAreClusters DEF LinkIn
<1>2. x = (Links * (x \div Links)) + (x % Links)
  BY FatAssumption, ClustersAreNumbers, Division
<1>3. x \div Links \in Nat /\ Links \in Nat
  BY FatAssumption, ClustersAreNumbers, Division
<1>4. (x \div Links) * Links = Links * (x \div Links)
  <2>1. \A a, b \in Nat : a * b = b * a
    OBVIOUS
  <2> QED
    BY <1>3, <2>1
<1> QED
  BY <1>1, <1>2, <1>4 DEF LinkIn, FatSector

LEMMA FatSectorIs == \A x \in Cluster : FatSector(x) \in Nat
BY FatAssumption, ClustersAreNumbers, Division DEF FatSector

(* FileNextSector moves to the next sector, and to its cluster unless it     *)
(* reports a failure.                                                        *)
LEMMA NextSectorIs ==
  ASSUME NEW file \in File, NEW c \in Caches, NEW bad
  PROVE  LET r == FileNextSector(file, c, bad)
         IN  /\ r.file \in File /\ r.cache \in Caches /\ r.ok \in BOOLEAN
             /\ r.file.start_cluster = file.start_cluster
             /\ r.file.sector = file.sector + 1
             /\ r.ok /\ OnChain(file) => OnChain(r.file)
<1> DEFINE f == [file EXCEPT !.sector = @ + 1]
           l == Load(c, FatSector(file.cluster), bad)
           x == LinkIn(l.cache, file.cluster)
           g == [f EXCEPT !.cluster = x]
           r == FileNextSector(file, c, bad)
<1>1. file.cluster \in Cluster /\ file.sector \in Nat /\ file.start_cluster \in Cluster
  BY ClustersAreNumbers DEF File
<1>2. l.cache \in Caches /\ l.ok \in BOOLEAN /\ (l.ok => l.cache.sector = FatSector(file.cluster))
  BY <1>1, LoadIs, FatSectorIs
<1> HIDE DEF l
<1>3. x \in Cluster /\ (l.ok => x = LinkOf(file.cluster))
  BY <1>1, <1>2, LinkInIs
<1> HIDE DEF x
<1>4. f \in File /\ g \in File
  <2>1. f \in File
    BY <1>1 DEF File
  <2> HIDE DEF f
  <2>2. g \in File
    BY <1>3, <2>1 DEF File
  <2> QED
    BY <2>1, <2>2 DEF f
<1>5. /\ f.start_cluster = file.start_cluster /\ f.sector = file.sector + 1
      /\ f.cluster = file.cluster
      /\ g.start_cluster = file.start_cluster /\ g.sector = file.sector + 1
      /\ g.cluster = x
  BY <1>1 DEF File
<1>6. r = IF f.sector % ClusterSize # 0 THEN Result(f, c, TRUE)
          ELSE IF ~l.ok THEN Result(f, l.cache, FALSE)
          ELSE Result(g, l.cache, TRUE)
  BY DEF FileNextSector, l, x
<1> HIDE DEF f, g, r
<1>7. /\ (file.sector + 1) % ClusterSize # 0 =>
           (file.sector + 1) \div ClusterSize = file.sector \div ClusterSize
      /\ (file.sector + 1) % ClusterSize = 0 =>
           (file.sector + 1) \div ClusterSize = (file.sector \div ClusterSize) + 1
  BY <1>1, FatAssumption, NextQuotient
<1>8. file.sector \div ClusterSize \in Nat
  BY <1>1, FatAssumption, Division
<1>9. CASE f.sector % ClusterSize # 0
  <2>1. r = Result(f, c, TRUE)
    BY <1>6, <1>9
  <2>2. OnChain(file) => OnChain(f)
    BY <1>5, <1>7, <1>9 DEF OnChain
  <2> QED
    BY <1>4, <1>5, <2>1, <2>2 DEF Result, r
<1>10. CASE f.sector % ClusterSize = 0 /\ ~l.ok
  <2>1. r = Result(f, l.cache, FALSE)
    BY <1>6, <1>10
  <2> QED
    BY <1>2, <1>4, <1>5, <2>1 DEF Result, r
<1>11. CASE f.sector % ClusterSize = 0 /\ l.ok
  <2>1. r = Result(g, l.cache, TRUE)
    BY <1>6, <1>11
  <2>2. OnChain(file) => OnChain(g)
    <3> SUFFICES ASSUME OnChain(file)
                 PROVE  OnChain(g)
      OBVIOUS
    <3>1. file.cluster = ClusterAt(file.start_cluster, file.sector \div ClusterSize)
      BY DEF OnChain
    <3>2. ClusterAt(file.start_cluster, (file.sector \div ClusterSize) + 1)
            = LinkOf(file.cluster)
      BY <1>1, <1>8, <3>1, ClusterAtIs
    <3> QED
      BY <1>3, <1>5, <1>7, <1>11, <3>2 DEF OnChain
  <2> QED
    BY <1>2, <1>4, <1>5, <2>1, <2>2 DEF Result, r
<1> QED
  BY <1>2, <1>9, <1>10, <1>11

LEMMA SeekBackIs ==
  ASSUME NEW file \in File, NEW offset \in Nat
  PROVE  LET f == SeekBack(file, offset)
         IN  /\ f \in File /\ f.start_cluster = file.start_cluster
             /\ f.sector <= offset
             /\ OnChain(file) => OnChain(f)
<1>1. file.sector \in Nat /\ file.start_cluster \in Cluster
  BY ClustersAreNumbers DEF File
<1>2. CASE file.sector <= offset
  BY <1>2 DEF SeekBack
<1>3. CASE /\ ~(file.sector <= offset)
           /\ file.sector \div ClusterSize = offset \div ClusterSize
  <2> DEFINE f == [file EXCEPT !.sector = offset]
  <2>1. f \in File /\ f.start_cluster = file.start_cluster /\ f.cluster = file.cluster
        /\ f.sector = offset
    BY DEF File
  <2>2. SeekBack(file, offset) = f
    BY <1>3 DEF SeekBack
  <2> HIDE DEF f
  <2>3. OnChain(file) => OnChain(f)
    BY <1>3, <2>1 DEF OnChain
  <2> QED
    BY <2>1, <2>2, <2>3
<1>4. CASE /\ ~(file.sector <= offset)
           /\ file.sector \div ClusterSize # offset \div ClusterSize
  <2> DEFINE f == [file EXCEPT !.cluster = file.start_cluster, !.sector = 0]
  <2>1. f \in File
    BY <1>1 DEF File
  <2>2. f.start_cluster = file.start_cluster /\ f.cluster = file.start_cluster /\ f.sector = 0
    BY DEF File
  <2>3. SeekBack(file, offset) = f
    BY <1>4 DEF SeekBack
  <2> HIDE DEF f
  <2>4. OnChain(f)
    <3>1. 0 \div ClusterSize = 0
      BY FatAssumption
    <3> QED
      BY <1>1, <2>2, <3>1, ClusterAtIs DEF OnChain
  <2> QED
    BY <2>1, <2>2, <2>3, <2>4
<1> QED
  BY <1>2, <1>3, <1>4

Results == [file : File, cache : Caches, ok : BOOLEAN]

LEMMA ResultIs ==
  ASSUME NEW file \in File, NEW c \in Caches, NEW ok \in BOOLEAN
  PROVE  /\ Result(file, c, ok) \in Results
         /\ Result(file, c, ok).file = file /\ Result(file, c, ok).cache = c
         /\ Result(file, c, ok).ok = ok
BY DEF Result, Results

LEMMA NextClusterIs ==
  ASSUME NEW r \in Results, NEW bad
  PROVE  LET n == NextCluster(r, bad)
         IN  /\ n \in Results
             /\ n.file.start_cluster = r.file.start_cluster
             /\ n.ok => n.file.cluster = LinkOf(r.file.cluster)
<1> DEFINE c == r.file.cluster
           l == Load(r.cache, FatSector(c), bad)
           x == LinkIn(l.cache, c)
           g == [r.file EXCEPT !.cluster = x]
           h == [r.file EXCEPT !.cluster = x, !.sector = @ + ClusterSize]
           n == NextCluster(r, bad)
<1>1. r.file \in File /\ r.cache \in Caches
  BY DEF Results
<1>2. c \in Cluster /\ r.file.sector \in Nat
  BY <1>1 DEF File
<1>3. l.cache \in Caches /\ (l.ok => l.cache.sector = FatSector(c))
  BY <1>1, <1>2, LoadIs, FatSectorIs
<1>4. n = IF ~l.ok THEN Result(r.file, l.cache, FALSE)
          ELSE IF x = EOC THEN Result(g, l.cache, FALSE)
          ELSE Result(h, l.cache, TRUE)
  BY DEF NextCluster
<1> HIDE DEF l, n
<1>5. x \in Cluster /\ (l.ok => x = LinkOf(c))
  BY <1>2, <1>3, LinkInIs
<1> HIDE DEF x
<1>6. /\ g \in File /\ g.start_cluster = r.file.start_cluster
  BY <1>1, <1>5 DEF File
<1>7. h \in File
  <2>1. r.file.sector + ClusterSize \in Nat
    BY <1>2, FatAssumption
  <2> QED
    BY <1>1, <1>5, <2>1 DEF File
<1>8. h.start_cluster = r.file.start_cluster /\ h.cluster = x
  BY <1>1 DEF File
<1> HIDE DEF g, h, c
<1>9. CASE ~l.ok
  <2>1. n = Result(r.file, l.cache, FALSE)
    BY <1>4, <1>9
  <2>2. n \in Results /\ n.file = r.file /\ ~n.ok
    BY <1>1, <1>3, <2>1, ResultIs
  <2> QED
    BY <2>2 DEF n
<1>10. CASE l.ok /\ x = EOC
  <2>1. n = Result(g, l.cache, FALSE)
    BY <1>4, <1>10
  <2>2. n \in Results /\ n.file = g /\ ~n.ok
    BY <1>3, <1>6, <2>1, ResultIs
  <2> QED
    BY <1>6, <2>2 DEF n
<1>11. CASE l.ok /\ x # EOC
  <2>1. n = Result(h, l.cache, TRUE)
    BY <1>4, <1>11
  <2>2. n \in Results /\ n.file = h
    BY <1>3, <1>7, <2>1, ResultIs
  <2> QED
    BY <1>5, <1>8, <1>11, <2>2 DEF n, c
<1> QED
  BY <1>9, <1>10, <1>11

(* The walk of FileSeek over d clusters.                                     *)
Walked(r, bad) == IF r.ok THEN NextCluster(r, bad) ELSE r
IsWalk(w, f, c, d, bad) ==
  w = [n \in 0 .. d |-> IF n = 0 THEN Result(f, c, TRUE) ELSE Walked(w[n - 1], bad)]

LEMMA WalkExists ==
  ASSUME NEW f \in File, NEW c \in Caches, NEW bad, NEW d \in Nat
  PROVE  \E w : IsWalk(w, f, c, d, bad)
<1> DEFINE a == Result(f, c, TRUE)
           G == [r \in Results |-> Walked(r, bad)]
<1>1. a \in Results
  BY ResultIs
<1>2. G \in [Results -> Results]
  BY NextClusterIs DEF Walked
<1> HIDE DEF a, G
<1>3. PICK w \in [0 .. d -> Results] : Iterates(w, a, G, d)
  BY <1>1, <1>2, IterationExists
<1>4. \A n \in 0 .. d : w[n] = IF n = 0 THEN a ELSE Walked(w[n - 1], bad)
  <2>1. \A n \in 0 .. d : n # 0 => n - 1 \in 0 .. d
    OBVIOUS
  <2>2. \A r \in Results : G[r] = Walked(r, bad)
    BY DEF G
  <2> QED
    BY <1>3, <2>1, <2>2 DEF Iterates
<1>5. w = [n \in 0 .. d |-> IF n = 0 THEN a ELSE Walked(w[n - 1], bad)]
  BY <1>4
<1> QED
  BY <1>5 DEF IsWalk, a

LEMMA WalkIs ==
  ASSUME NEW f \in File, NEW c \in Caches, NEW bad, NEW d \in Nat,
         NEW w, IsWalk(w, f, c, d, bad)
  PROVE  /\ w[d] \in Results /\ w[d].file.start_cluster = f.start_cluster
         /\ w[d].ok /\ OnChain(f) =>
              w[d].file.cluster = ClusterAt(f.start_cluster, (f.sector \div ClusterSize) + d)
<1> DEFINE a == Result(f, c, TRUE)
           G == [r \in Results |-> Walked(r, bad)]
<1>1. a \in Results /\ a.file = f
  BY ResultIs
<1>2. G \in [Results -> Results]
  BY NextClusterIs DEF Walked
<1> HIDE DEF a, G
<1>3. w = [n \in 0 .. d |-> IF n = 0 THEN a ELSE Walked(w[n - 1], bad)]
  BY DEF IsWalk, a
<1>4. w[0] = a /\ w = [n \in 0 .. d |-> w[n]]
  BY <1>3
<1>5. \A n \in 0 .. d : n # 0 => w[n] = Walked(w[n - 1], bad)
  BY <1>3
<1>6. w \in [0 .. d -> Results]
  <2>1. \A r \in Results : G[r] = Walked(r, bad)
    BY DEF G
  <2>2. \A n \in 0 .. d : n # 0 /\ w[n - 1] \in Results => w[n] = G[w[n - 1]]
    BY <1>5, <2>1
  <2> QED
    BY <1>1, <1>2, <1>4, <2>2, IterationStays
<1> DEFINE start == f.start_cluster
           q == f.sector \div ClusterSize
           Good(n) == /\ w[n].file.start_cluster = start
                      /\ w[n].ok /\ OnChain(f) => w[n].file.cluster = ClusterAt(start, q + n)
           S == {n \in 0 .. d : Good(n)}
<1>9. start \in Cluster /\ q \in Nat
  BY FatAssumption, ClustersAreNumbers, Division DEF File
<1>10. 0 \in S
  <2>1. q + 0 = q
    BY <1>9
  <2> QED
    BY <1>1, <1>4, <2>1 DEF OnChain
<1> HIDE DEF start, q
<1>11. ASSUME NEW n \in 0 .. d, n # 0, n - 1 \in S
       PROVE  n \in S
  <2> DEFINE r == w[n - 1]
  <2>1. n - 1 \in 0 .. d /\ q + (n - 1) \in Nat /\ q + n = (q + (n - 1)) + 1
    BY <1>9, <1>11
  <2>2. r \in Results /\ w[n] = Walked(r, bad) /\ Good(n - 1)
    BY <1>5, <1>6, <1>11, <2>1
  <2>3. CASE ~r.ok
    BY <2>2, <2>3 DEF Walked
  <2>4. CASE r.ok
    <3>1. /\ w[n].file.start_cluster = r.file.start_cluster
          /\ w[n].ok => w[n].file.cluster = LinkOf(r.file.cluster)
      BY <2>2, <2>4, NextClusterIs DEF Walked
    <3>2. ClusterAt(start, q + n) = LinkOf(ClusterAt(start, q + (n - 1)))
      BY <1>9, <2>1, ClusterAtIs
    <3> QED
      BY <2>2, <2>4, <3>1, <3>2
  <2> QED
    BY <2>3, <2>4
<1>12. \A n \in 0 .. d : n \in S
  <2> HIDE DEF S
  <2> QED
    BY <1>10, <1>11, Induct
<1>13. d \in 0 .. d
  OBVIOUS
<1> QED
  BY <1>6, <1>12, <1>13 DEF start, q

(* FileSeek finds the cluster of any sector of the file, wherever in it the  *)
(* file stands, or reports a failure.                                        *)
THEOREM SeekIs ==
  ASSUME NEW file \in File, NEW c \in Caches, NEW offset \in Nat, NEW bad
  PROVE  LET r == FileSeek(file, c, offset, bad)
         IN  /\ r \in Results
             /\ r.file.start_cluster = file.start_cluster
             /\ r.ok => r.file.sector = offset
             /\ r.ok /\ OnChain(file) => OnChain(r.file)
<1> DEFINE f == SeekBack(file, offset)
           d == (offset \div ClusterSize) - (f.sector \div ClusterSize)
           w == CHOOSE walk : IsWalk(walk, f, c, d, bad)
           g == [w[d].file EXCEPT !.sector = offset]
           r == FileSeek(file, c, offset, bad)
<1>1. /\ f \in File /\ f.start_cluster = file.start_cluster /\ f.sector <= offset
      /\ OnChain(file) => OnChain(f)
  BY SeekBackIs
<1>2. r = IF w[d].ok THEN Result(g, w[d].cache, TRUE) ELSE w[d]
  BY DEF FileSeek, IsWalk, Walked
<1> HIDE DEF f, w, r
<1>3. /\ f.sector \in Nat /\ f.sector \div ClusterSize \in Nat
      /\ offset \div ClusterSize \in Nat
  BY <1>1, FatAssumption, Division DEF File
<1>4. d \in Nat /\ (f.sector \div ClusterSize) + d = offset \div ClusterSize
  <2>1. f.sector \div ClusterSize <= offset \div ClusterSize
    BY <1>1, <1>3, FatAssumption, QuotientsGrow
  <2> QED
    BY <1>3, <2>1
<1> HIDE DEF d
<1>5. IsWalk(w, f, c, d, bad)
  BY <1>1, <1>4, WalkExists DEF w
<1>6. /\ w[d] \in Results /\ w[d].file.start_cluster = f.start_cluster
      /\ w[d].ok /\ OnChain(f) =>
           w[d].file.cluster = ClusterAt(f.start_cluster, offset \div ClusterSize)
  BY <1>1, <1>4, <1>5, WalkIs
<1>7. w[d].file \in File /\ w[d].cache \in Caches /\ w[d].ok \in BOOLEAN
  BY <1>6 DEF Results
<1>8. /\ g \in File /\ g.start_cluster = w[d].file.start_cluster
      /\ g.cluster = w[d].file.cluster /\ g.sector = offset
  BY <1>7 DEF File
<1> HIDE DEF g
<1>9. CASE w[d].ok
  <2>1. r = Result(g, w[d].cache, TRUE)
    BY <1>2, <1>9
  <2>2. r \in Results /\ r.file = g
    BY <1>7, <1>8, <2>1, ResultIs
  <2>3. OnChain(file) => OnChain(g)
    BY <1>1, <1>6, <1>8, <1>9 DEF OnChain
  <2> QED
    BY <1>1, <1>6, <1>8, <2>2, <2>3 DEF r
<1>10. CASE ~w[d].ok
  <2>1. r = w[d]
    BY <1>2, <1>10
  <2> QED
    BY <1>1, <1>6, <1>10, <2>1 DEF r
<1> QED
  BY <1>9, <1>10

-----------------------------------------------------------------------------
(* Bytes of a file, and the place a file stands at.                          *)

Sector == (Cluster \union {-1}) \X Nat
ByteOf == Sector \X Nat
RAFile == [file : File, ptr : Nat, buffer : Sector]
Reads  == [ra : RAFile, cache : Caches, ok : BOOLEAN, out : Seq(ByteOf), slipped : BOOLEAN]

SectorAt(start, k) == <<ClusterAt(start, k \div ClusterSize), k % ClusterSize>>
Span(start, p, n)  == [i \in 1 .. n |-> ByteAt(start, p + i - 1)]

(* CursorRight, of one file.                                                 *)
OnPlace(f) ==
  /\ OnChain(f.file)
  /\ f.file.sector = (f.ptr + SectorSize - 1) \div SectorSize
  /\ f.ptr % SectorSize # 0 => f.buffer = ByteAt(f.file.start_cluster, f.ptr)[1]

LEMMA SectorAtIs ==
  ASSUME NEW start \in Cluster, NEW k \in Nat
  PROVE  /\ SectorAt(start, k) \in Sector
         /\ \A j \in 0 .. (SectorSize - 1) :
              ByteAt(start, (SectorSize * k) + j) = <<SectorAt(start, k), j>>
<1>1. k \div ClusterSize \in Nat /\ k % ClusterSize \in Nat
  <2>1. k \div ClusterSize \in Nat /\ k % ClusterSize \in 0 .. (ClusterSize - 1)
    BY FatAssumption, Division
  <2>2. \A x \in 0 .. (ClusterSize - 1) : x \in Nat
    BY FatAssumption
  <2> QED
    BY <2>1, <2>2
<1>2. SectorAt(start, k) \in Sector
  BY <1>1, ClusterAtIs DEF SectorAt, Sector
<1>3. ASSUME NEW j \in 0 .. (SectorSize - 1)
      PROVE  ByteAt(start, (SectorSize * k) + j) = <<SectorAt(start, k), j>>
  <2>1. /\ ((SectorSize * k) + j) \div SectorSize = k
        /\ ((SectorSize * k) + j) % SectorSize = j
    BY FilesAssumption, Quotient
  <2> DEFINE p == (SectorSize * k) + j
  <2>2. p \div SectorSize = k /\ p % SectorSize = j
    BY <2>1
  <2> HIDE DEF p
  <2>3. ByteAt(start, p) = <<SectorAt(start, k), j>>
    BY <2>2 DEF ByteAt, SectorAt
  <2> QED
    BY <2>3 DEF p
<1> QED
  BY <1>2, <1>3

LEMMA ByteAtIs ==
  ASSUME NEW start \in Cluster, NEW p \in Nat
  PROVE  ByteAt(start, p) \in ByteOf
<1>1. /\ p \div SectorSize \in Nat /\ p % SectorSize \in 0 .. (SectorSize - 1)
      /\ p = (SectorSize * (p \div SectorSize)) + (p % SectorSize)
  BY FilesAssumption, Division
<1>2. ByteAt(start, p) = <<SectorAt(start, p \div SectorSize), p % SectorSize>>
  BY DEF ByteAt, SectorAt
<1> QED
  BY <1>1, <1>2, SectorAtIs DEF ByteOf

LEMMA SpanIs ==
  ASSUME NEW start \in Cluster, NEW p \in Nat, NEW n \in Nat
  PROVE  Span(start, p, n) \in Seq(ByteOf) /\ Len(Span(start, p, n)) = n
<1>1. \A i \in 1 .. n : ByteAt(start, p + i - 1) \in ByteOf
  <2>1. \A i \in 1 .. n : p + i - 1 \in Nat
    OBVIOUS
  <2> QED
    BY <2>1, ByteAtIs
<1>2. Span(start, p, n) \in [1 .. n -> ByteOf]
  BY <1>1 DEF Span
<1> QED
  BY <1>2

LEMMA SpansJoin ==
  ASSUME NEW start \in Cluster, NEW p \in Nat, NEW a \in Nat, NEW b \in Nat
  PROVE  Span(start, p, a) \o Span(start, p + a, b) = Span(start, p, a + b)
<1> DEFINE s == Span(start, p, a)
           t == Span(start, p + a, b)
           u == Span(start, p, a + b)
<1>1. /\ s \in Seq(ByteOf) /\ t \in Seq(ByteOf) /\ u \in Seq(ByteOf)
      /\ Len(s) = a /\ Len(t) = b /\ Len(u) = a + b
  BY SpanIs
<1>2. \A i \in 1 .. a : s[i] = ByteAt(start, p + i - 1)
  BY DEF Span
<1>3. \A i \in 1 .. b : t[i] = ByteAt(start, p + a + i - 1)
  BY DEF Span
<1>4. \A i \in 1 .. a + b : u[i] = ByteAt(start, p + i - 1)
  BY DEF Span
<1> HIDE DEF s, t, u
<1>5. /\ s \o t \in Seq(ByteOf) /\ Len(s \o t) = a + b
      /\ \A i \in 1 .. a + b : (s \o t)[i] = IF i <= a THEN s[i] ELSE t[i - a]
  BY <1>1, ConcatProperties
<1>6. ASSUME NEW i \in 1 .. a + b
      PROVE  (s \o t)[i] = u[i]
  <2>1. CASE i <= a
    BY <1>2, <1>4, <1>5, <2>1
  <2>2. CASE ~(i <= a)
    <3>1. i - a \in 1 .. b /\ p + a + (i - a) - 1 = p + i - 1
      BY <2>2
    <3> QED
      BY <1>3, <1>4, <1>5, <2>2, <3>1
  <2> QED
    BY <2>1, <2>2
<1>7. s \o t = u
  BY <1>1, <1>5, <1>6, SeqEqual
<1> QED
  BY <1>7 DEF s, t, u

(* The number of the sector a file is to read next.                          *)
LEMMA SectorsBegun ==
  ASSUME NEW k \in Nat
  PROVE  /\ ((SectorSize * k) + SectorSize - 1) \div SectorSize = k
         /\ \A j \in 1 .. SectorSize :
              ((SectorSize * k) + j + SectorSize - 1) \div SectorSize = k + 1
<1>1. SectorSize \in Nat \ {0}
  BY FilesAssumption
<1>2. \A q \in Nat : \A r \in 0 .. (SectorSize - 1) :
        ((SectorSize * q) + r) \div SectorSize = q
  BY <1>1, Quotient
<1>3. SectorSize * k \in Nat /\ SectorSize * (k + 1) = (SectorSize * k) + SectorSize
  BY <1>1
<1>4. ((SectorSize * k) + SectorSize - 1) \div SectorSize = k
  <2>1. (SectorSize * k) + SectorSize - 1 = (SectorSize * k) + (SectorSize - 1)
        /\ SectorSize - 1 \in 0 .. (SectorSize - 1)
    BY <1>1, <1>3
  <2> QED
    BY <1>2, <2>1
<1>5. ASSUME NEW j \in 1 .. SectorSize
      PROVE  ((SectorSize * k) + j + SectorSize - 1) \div SectorSize = k + 1
  <2>1. (SectorSize * k) + j + SectorSize - 1 = (SectorSize * (k + 1)) + (j - 1)
        /\ j - 1 \in 0 .. (SectorSize - 1) /\ k + 1 \in Nat
    BY <1>1, <1>3
  <2> QED
    BY <1>2, <2>1
<1> QED
  BY <1>4, <1>5

-----------------------------------------------------------------------------
(* One sector of a read.                                                     *)

LEMMA BytesAre ==
  ASSUME NEW sector \in Sector, NEW from \in Nat, NEW to \in Nat
  PROVE  Bytes(sector, from, to) \in Seq(ByteOf)
<1>1. ASSUME NEW i \in 1 .. to - from
      PROVE  <<sector, from + i - 1>> \in ByteOf
  BY DEF ByteOf
<1>2. CASE to - from \in Nat
  <2>1. Bytes(sector, from, to) \in [1 .. to - from -> ByteOf]
    BY <1>1 DEF Bytes
  <2> QED
    BY <1>2, <2>1
<1>3. CASE to - from \notin Nat
  <2>1. 1 .. to - from = 1 .. 0
    BY <1>3
  <2>2. Bytes(sector, from, to) \in [1 .. 0 -> ByteOf]
    BY <1>1, <2>1 DEF Bytes
  <2>3. 0 \in Nat
    OBVIOUS
  <2> QED
    BY <2>2, <2>3
<1> QED
  BY <1>2, <1>3

LEMMA FieldsOfARead ==
  ASSUME NEW r \in Reads
  PROVE  /\ r.ra \in RAFile /\ r.ra.file \in File /\ r.ra.ptr \in Nat /\ r.ra.buffer \in Sector
         /\ r.ra.file.start_cluster \in Cluster
         /\ r.cache \in Caches /\ r.ok \in BOOLEAN /\ r.slipped \in BOOLEAN
         /\ r.out \in Seq(ByteOf)
<1>1. r.ra \in RAFile
  BY DEF Reads
<1>2. r.ra.file \in File
  BY <1>1 DEF RAFile
<1>3. r.ra.file.start_cluster \in Cluster
  BY <1>2, ClustersAreNumbers DEF File
<1> QED
  BY <1>1, <1>2, <1>3 DEF RAFile, Reads

LEMMA SectorOfIs == \A file \in File : SectorOf(file) \in Sector
<1> SUFFICES ASSUME NEW file \in File
             PROVE  SectorOf(file) \in Sector
  OBVIOUS
<1>1. file.cluster \in Cluster /\ file.sector \in Nat
  BY DEF File
<1>2. file.sector % ClusterSize \in 0 .. (ClusterSize - 1)
  BY <1>1, FatAssumption, Division
<1>3. \A x \in 0 .. (ClusterSize - 1) : x \in Nat
  BY FatAssumption
<1> QED
  BY <1>1, <1>2, <1>3 DEF SectorOf, Sector

LEMMA NoneIsASector == None \in Sector
BY DEF None, Sector

(* What ReadSector makes of a read, field by field.                          *)
SectorRead(r, n, toBuffer, bad, x) ==
  LET sector == SectorOf(r.ra.file)
      good   == sector \notin bad
      next   == FileNextSector(r.ra.file, r.cache, bad)
  IN  /\ x \in Reads
      /\ x.ra.file = next.file /\ x.ra.ptr = r.ra.ptr + n
      /\ x.ok <=> (r.ok /\ good)
      /\ x.slipped <=> (r.slipped \/ ~next.ok)
      /\ good => x.out = r.out \o Bytes(sector, 0, n)
      /\ good /\ toBuffer => x.ra.buffer = sector

LEMMA ReadSectorIs ==
  ASSUME NEW r \in Reads, NEW n \in Nat, NEW toBuffer \in BOOLEAN, NEW bad
  PROVE  SectorRead(r, n, toBuffer, bad, ReadSector(r, n, toBuffer, bad))
<1> DEFINE sector == SectorOf(r.ra.file)
           good   == sector \notin bad
           next   == FileNextSector(r.ra.file, r.cache, bad)
           buffer == IF toBuffer /\ good THEN sector ELSE r.ra.buffer
           data   == IF toBuffer THEN buffer ELSE IF good THEN sector ELSE None
           x      == ReadSector(r, n, toBuffer, bad)
           out    == r.out \o Bytes(data, 0, n)
           ok     == r.ok /\ good
           slip   == r.slipped \/ ~next.ok
           f      == [file |-> next.file, ptr |-> r.ra.ptr + n, buffer |-> buffer]
<1>1. x = [ra |-> f, cache |-> next.cache, ok |-> ok, out |-> out, slipped |-> slip]
  BY DEF ReadSector
<1>2. sector \in Sector
  BY FieldsOfARead, SectorOfIs
<1>3. next.file \in File /\ next.cache \in Caches /\ next.ok \in BOOLEAN
  BY FieldsOfARead, NextSectorIs
<1> HIDE DEF sector, next, x
<1>4. buffer \in Sector /\ data \in Sector
  BY <1>2, FieldsOfARead, NoneIsASector
<1>5. good => data = sector
  OBVIOUS
<1>6. good /\ toBuffer => buffer = sector
  OBVIOUS
<1> HIDE DEF buffer, data, good
<1>7. out \in Seq(ByteOf)
  <2>1. Bytes(data, 0, n) \in Seq(ByteOf)
    BY <1>4, BytesAre
  <2>2. r.out \in Seq(ByteOf)
    BY FieldsOfARead
  <2> HIDE DEF out
  <2> QED
    BY <2>1, <2>2, ConcatProperties DEF out
<1>8. f \in RAFile
  <2>1. r.ra.ptr + n \in Nat
    BY FieldsOfARead
  <2> QED
    BY <1>3, <1>4, <2>1 DEF RAFile
<1>9. ok \in BOOLEAN /\ slip \in BOOLEAN
  BY Zenon
<1>10. /\ f.file = next.file /\ f.ptr = r.ra.ptr + n /\ f.buffer = buffer
  OBVIOUS
<1>11. good => out = r.out \o Bytes(sector, 0, n)
  BY <1>5
<1>12. (ok <=> (r.ok /\ good)) /\ (slip <=> (r.slipped \/ ~next.ok))
  BY Zenon
<1> HIDE DEF f, out, ok, slip
<1>13. x \in Reads
  BY <1>1, <1>3, <1>7, <1>8, <1>9 DEF Reads
<1>14. x.ra = f /\ x.out = out /\ x.ok = ok /\ x.slipped = slip
  BY <1>1
<1> QED
  BY <1>6, <1>10, <1>11, <1>12, <1>13, <1>14 DEF sector, next, good, x, SectorRead

Aligned(p) == \E k \in Nat : p = SectorSize * k

-----------------------------------------------------------------------------
(* A whole read.                                                             *)

LEMMA DrainIs ==
  ASSUME NEW f \in RAFile, NEW n \in Nat
  PROVE  LET d == Drain(f, n)
         IN  /\ d.ra \in RAFile /\ d.ra.file = f.file /\ d.out \in Seq(ByteOf)
             /\ d.bytes \in Nat /\ d.ra.ptr + d.bytes = f.ptr + n
<1> DEFINE blockoffset == f.ptr % SectorSize
           l == DrainLength(n)
           d == Drain(f, n)
           g == [f EXCEPT !.ptr = f.ptr + l - blockoffset]
           out == IF l > blockoffset THEN Bytes(f.buffer, blockoffset, l) ELSE <<>>
           b == n - (l - blockoffset)
<1>1. f.ptr \in Nat /\ f.buffer \in Sector /\ f.file \in File /\ SectorSize \in Nat \ {0}
  BY FilesAssumption DEF RAFile
<1>2. /\ blockoffset \in 0 .. (SectorSize - 1) /\ f.ptr \div SectorSize \in Nat
      /\ f.ptr = (SectorSize * (f.ptr \div SectorSize)) + blockoffset
  BY <1>1, Division
<1>3. blockoffset <= f.ptr /\ blockoffset \in Nat
  <2>1. SectorSize * (f.ptr \div SectorSize) >= 0
    BY <1>1, <1>2
  <2>2. SectorSize * (f.ptr \div SectorSize) \in Int
    BY <1>1, <1>2
  <2> HIDE DEF blockoffset
  <2> QED
    BY <1>1, <1>2, <2>1, <2>2
<1>4. d = IF blockoffset = 0 THEN [ra |-> f, out |-> <<>>, bytes |-> n]
          ELSE [ra |-> g, out |-> out, bytes |-> b]
  BY DEF Drain
<1>5. l \in Nat /\ l <= n /\ (l = n \/ l = SectorSize)
  BY <1>1 DEF DrainLength
<1> HIDE DEF blockoffset, l, d
<1>6. CASE blockoffset = 0
  <2>1. d = [ra |-> f, out |-> <<>>, bytes |-> n]
    BY <1>4, <1>6
  <2>2. <<>> \in Seq(ByteOf)
    OBVIOUS
  <2> QED
    BY <2>1, <2>2 DEF d
<1>7. CASE blockoffset # 0
  <2>1. d = [ra |-> g, out |-> out, bytes |-> b]
    BY <1>4, <1>7
  <2>2. out \in Seq(ByteOf)
    BY <1>1, <1>3, <1>5, BytesAre
  <2>3. f.ptr + l - blockoffset \in Nat
    BY <1>1, <1>3, <1>5
  <2>4. g \in RAFile /\ g.file = f.file /\ g.ptr = f.ptr + l - blockoffset
    BY <2>3 DEF RAFile
  <2>5. b \in Nat /\ (f.ptr + l - blockoffset) + b = f.ptr + n
    BY <1>1, <1>2, <1>3, <1>5
  <2> HIDE DEF g, out, b
  <2> QED
    BY <2>1, <2>2, <2>4, <2>5 DEF d
<1> QED
  BY <1>6, <1>7

(* What is drained is the rest of the sector, if at least a sector is asked  *)
(* for.                                                                      *)
LEMMA RestIsDrained ==
  ASSUME NEW f \in RAFile, NEW n \in Nat, OnPlace(f), ~Short(f, n)
  PROVE  LET d == Drain(f, n)
         IN  /\ Aligned(d.ra.ptr)
             /\ OnPlace(d.ra) /\ f.ptr <= d.ra.ptr
             /\ d.out = Span(f.file.start_cluster, f.ptr, d.ra.ptr - f.ptr)
<1> DEFINE j == f.ptr % SectorSize
           k == f.ptr \div SectorSize
           p == f.ptr
           start == f.file.start_cluster
           d == Drain(f, n)
<1>1. /\ p \in Nat /\ f.buffer \in Sector /\ f.file \in File /\ SectorSize \in Nat \ {0}
      /\ start \in Cluster
  BY FilesAssumption, ClustersAreNumbers DEF RAFile, File
<1>2. j \in 0 .. (SectorSize - 1) /\ k \in Nat /\ p = (SectorSize * k) + j
  BY <1>1, Division
<1>3. SectorSize * k \in Nat /\ SectorSize * (k + 1) = (SectorSize * k) + SectorSize
  <2> HIDE DEF k
  <2> QED
    BY <1>1, <1>2
<1>4. CASE j = 0
  <2>1. d.ra = f /\ d.out = <<>>
    BY <1>4 DEF Drain
  <2>2. Span(start, p, 0) = <<>>
    BY DEF Span
  <2>3. p = SectorSize * k
    <3> HIDE DEF p, k, j
    <3> QED
      BY <1>1, <1>2, <1>3, <1>4
  <2>4. f.ptr - f.ptr = 0 /\ f.ptr <= f.ptr
    BY <1>1
  <2> QED
    BY <1>2, <2>1, <2>2, <2>3, <2>4 DEF Aligned
<1>5. CASE j # 0
  <2>1. n >= SectorSize
    BY <1>1, <1>5 DEF Short
  <2>2. DrainLength(n) = SectorSize
    BY <1>1, <2>1 DEF DrainLength
  <2> DEFINE g == [f EXCEPT !.ptr = f.ptr + SectorSize - j]
  <2>3. SectorSize > j
    <3> HIDE DEF j
    <3> QED
      BY <1>1, <1>2
  <2>4. d.ra = g /\ d.out = Bytes(f.buffer, j, SectorSize)
    BY <1>5, <2>2, <2>3 DEF Drain
  <2>5. /\ g.ptr = p + SectorSize - j /\ g.file = f.file
    BY DEF RAFile
  <2> HIDE DEF g, j, k, p, d
  <2>6. g.ptr = SectorSize * (k + 1) /\ k + 1 \in Nat /\ g.ptr - p = SectorSize - j /\ p <= g.ptr
    BY <1>1, <1>2, <1>3, <2>3, <2>5
  <2>7. f.file.sector = k + 1
    <3>1. f.file.sector = (p + SectorSize - 1) \div SectorSize
      BY DEF OnPlace, p
    <3>2. j \in 1 .. SectorSize
      BY <1>1, <1>2, <1>5
    <3> QED
      BY <1>2, <3>1, <3>2, SectorsBegun
  <2>8. OnPlace(g)
    <3>1. (g.ptr + SectorSize - 1) \div SectorSize = k + 1
      BY <1>1, <1>2, <2>6, SectorsBegun
    <3>2. g.ptr % SectorSize = 0
      <4>1. \A t \in Nat : ((SectorSize * t) + 0) % SectorSize = 0
        <5>1. 0 \in Nat /\ 0 < SectorSize
          BY <1>1
        <5> QED
          BY <1>1, <5>1, Quotient
      <4>2. g.ptr = (SectorSize * (k + 1)) + 0
        BY <1>1, <1>2, <1>3, <2>6
      <4> QED
        BY <2>6, <4>1, <4>2
    <3> QED
      BY <2>5, <2>7, <3>1, <3>2 DEF OnPlace
  <2>9. \A i \in 0 .. (SectorSize - 1) :
          ByteAt(start, (SectorSize * k) + i) = <<SectorAt(start, k), i>>
    BY <1>1, <1>2, SectorAtIs
  <2>10. f.buffer = SectorAt(start, k)
    <3>1. f.buffer = ByteAt(start, p)[1]
      BY <1>5 DEF OnPlace, p, j
    <3> QED
      BY <1>2, <2>9, <3>1
  <2>11. Bytes(f.buffer, j, SectorSize) = Span(start, p, SectorSize - j)
    <3>1. ASSUME NEW i \in 1 .. SectorSize - j
          PROVE  <<f.buffer, j + i - 1>> = ByteAt(start, p + i - 1)
      <4>1. j + i - 1 \in 0 .. (SectorSize - 1) /\ p + i - 1 = (SectorSize * k) + (j + i - 1)
        BY <1>1, <1>2, <1>3
      <4> QED
        BY <2>9, <2>10, <4>1
    <3> HIDE DEF start
    <3> QED
      BY <3>1 DEF Bytes, Span
  <2> QED
    BY <2>4, <2>6, <2>8, <2>11 DEF d, p, Aligned
<1> QED
  BY <1>4, <1>5

(* The loop of RARead over m whole sectors.                                  *)
ReadOn(r, bad) == IF r.ok THEN ReadSector(r, SectorSize, FALSE, bad) ELSE r
IsLoop(w, a, m, bad) ==
  w = [i \in 0 .. m |-> IF i = 0 THEN a ELSE ReadOn(w[i - 1], bad)]

LEMMA ReadOnStays ==
  ASSUME NEW r \in Reads, NEW bad
  PROVE  /\ ReadOn(r, bad) \in Reads
         /\ ReadOn(r, bad).ok => r.ok /\ ReadOn(r, bad).ra.ptr = r.ra.ptr + SectorSize
         /\ ReadOn(r, bad).ra.ptr <= r.ra.ptr + SectorSize
<1>1. SectorSize \in Nat /\ r.ra.ptr \in Nat
  BY FilesAssumption, FieldsOfARead
<1>2. CASE ~r.ok
  BY <1>1, <1>2 DEF ReadOn
<1>3. CASE r.ok
  <2> DEFINE x == ReadSector(r, SectorSize, FALSE, bad)
  <2>1. SectorRead(r, SectorSize, FALSE, bad, x)
    BY <1>1, ReadSectorIs
  <2>2. ReadOn(r, bad) = x
    BY <1>3 DEF ReadOn
  <2> HIDE DEF x
  <2>3. x \in Reads /\ x.ra.ptr = r.ra.ptr + SectorSize
    BY <2>1 DEF SectorRead
  <2> QED
    BY <1>1, <1>3, <2>2, <2>3
<1> QED
  BY <1>2, <1>3

LEMMA LoopExists ==
  ASSUME NEW a \in Reads, NEW m \in Nat, NEW bad
  PROVE  \E w : IsLoop(w, a, m, bad)
<1> DEFINE G == [r \in Reads |-> ReadOn(r, bad)]
<1>1. G \in [Reads -> Reads]
  BY ReadOnStays
<1> HIDE DEF G
<1>2. PICK w \in [0 .. m -> Reads] : Iterates(w, a, G, m)
  BY <1>1, IterationExists
<1>3. \A i \in 0 .. m : w[i] = IF i = 0 THEN a ELSE ReadOn(w[i - 1], bad)
  <2>1. \A i \in 0 .. m : i # 0 => i - 1 \in 0 .. m
    OBVIOUS
  <2>2. \A r \in Reads : G[r] = ReadOn(r, bad)
    BY DEF G
  <2> QED
    BY <1>2, <2>1, <2>2 DEF Iterates
<1>4. w = [i \in 0 .. m |-> IF i = 0 THEN a ELSE ReadOn(w[i - 1], bad)]
  BY <1>3
<1> QED
  BY <1>4 DEF IsLoop

LEMMA LoopIs ==
  ASSUME NEW a \in Reads, NEW m \in Nat, NEW bad, NEW w, IsLoop(w, a, m, bad)
  PROVE  /\ w \in [0 .. m -> Reads] /\ w[0] = a
         /\ \A i \in 0 .. m : i # 0 => w[i] = ReadOn(w[i - 1], bad)
<1> DEFINE G == [r \in Reads |-> ReadOn(r, bad)]
<1>1. G \in [Reads -> Reads]
  BY ReadOnStays
<1>2. w = [i \in 0 .. m |-> IF i = 0 THEN a ELSE ReadOn(w[i - 1], bad)]
  BY DEF IsLoop
<1>3. w[0] = a /\ w = [i \in 0 .. m |-> w[i]]
  BY <1>2
<1>4. \A i \in 0 .. m : i # 0 => w[i] = ReadOn(w[i - 1], bad)
  BY <1>2
<1>5. \A r \in Reads : G[r] = ReadOn(r, bad)
  BY DEF G
<1> HIDE DEF G
<1>6. \A i \in 0 .. m : i # 0 /\ w[i - 1] \in Reads => w[i] = G[w[i - 1]]
  BY <1>4, <1>5
<1>7. w \in [0 .. m -> Reads]
  BY <1>1, <1>3, <1>6, IterationStays
<1> QED
  BY <1>3, <1>4, <1>7

(* How far the loop gets.                                                    *)
LEMMA LoopGoes ==
  ASSUME NEW a \in Reads, NEW m \in Nat, NEW bad, NEW w, IsLoop(w, a, m, bad)
  PROVE  \A i \in 0 .. m :
           /\ w[i].ra.ptr <= a.ra.ptr + (SectorSize * i)
           /\ w[i].ok => /\ w[i].ra.ptr = a.ra.ptr + (SectorSize * i)
                         /\ \A j \in 0 .. i : w[j].ok
<1> DEFINE Good(i) == /\ w[i].ra.ptr <= a.ra.ptr + (SectorSize * i)
                      /\ w[i].ok => /\ w[i].ra.ptr = a.ra.ptr + (SectorSize * i)
                                    /\ \A j \in 0 .. i : w[j].ok
           S == {i \in 0 .. m : Good(i)}
<1>1. /\ w \in [0 .. m -> Reads] /\ w[0] = a
      /\ \A i \in 0 .. m : i # 0 => w[i] = ReadOn(w[i - 1], bad)
  BY LoopIs
<1>2. a.ra.ptr \in Nat /\ SectorSize \in Nat
  BY FilesAssumption, FieldsOfARead
<1>3. 0 \in S
  <2>1. a.ra.ptr + (SectorSize * 0) = a.ra.ptr /\ a.ra.ptr <= a.ra.ptr
    BY <1>2
  <2>2. \A j \in 0 .. 0 : j = 0
    OBVIOUS
  <2> QED
    BY <1>1, <2>1, <2>2
<1>4. ASSUME NEW i \in 0 .. m, i # 0, i - 1 \in S
      PROVE  i \in S
  <2> DEFINE r == w[i - 1]
             x == w[i]
             q == SectorSize * (i - 1)
  <2>1. r \in Reads /\ x \in Reads /\ x = ReadOn(r, bad)
    <3>1. i - 1 \in 0 .. m
      BY <1>4
    <3> QED
      BY <1>1, <1>4, <3>1
  <2>2. Good(i - 1)
    BY <1>4
  <2> HIDE DEF x
  <2>3. SectorSize * i = q + SectorSize /\ q \in Int
    BY <1>2
  <2>4. r.ra.ptr \in Nat /\ x.ra.ptr \in Nat
    BY <2>1, FieldsOfARead
  <2>5. /\ x.ok => r.ok /\ x.ra.ptr = r.ra.ptr + SectorSize
        /\ x.ra.ptr <= r.ra.ptr + SectorSize
    BY <2>1, ReadOnStays
  <2>6. x.ra.ptr <= a.ra.ptr + (SectorSize * i)
    <3> HIDE DEF r, q
    <3>1. r.ra.ptr <= a.ra.ptr + q
      BY <2>2 DEF r, q
    <3> QED
      BY <1>2, <2>3, <2>4, <2>5, <3>1
  <2>7. ASSUME x.ok
        PROVE  x.ra.ptr = a.ra.ptr + (SectorSize * i) /\ \A j \in 0 .. i : w[j].ok
    <3>1. r.ok /\ x.ra.ptr = r.ra.ptr + SectorSize
      BY <2>5, <2>7
    <3>2. r.ra.ptr = a.ra.ptr + q /\ \A j \in 0 .. (i - 1) : w[j].ok
      BY <2>2, <3>1
    <3>3. \A j \in 0 .. i : j = i \/ j \in 0 .. (i - 1)
      OBVIOUS
    <3> HIDE DEF q, r
    <3>4. x.ra.ptr = a.ra.ptr + (SectorSize * i)
      BY <1>2, <2>3, <3>1, <3>2
    <3> QED
      BY <2>7, <3>2, <3>3, <3>4 DEF x
  <2> QED
    BY <2>6, <2>7 DEF x
<1> HIDE DEF S
<1>5. \A i \in 0 .. m : i \in S
  BY <1>3, <1>4, Induct
<1> QED
  BY <1>5 DEF S

(* A read of the bytes from p on that is right so far.                       *)
Right(r, start, p) ==
  /\ r.ra.file.start_cluster = start /\ OnPlace(r.ra)
  /\ p <= r.ra.ptr /\ r.out = Span(start, p, r.ra.ptr - p)

(* One more sector of it, or a part of one into the buffer.                  *)
LEMMA RightGoesOn ==
  ASSUME NEW r \in Reads, NEW n \in 1 .. SectorSize, NEW toBuffer \in BOOLEAN, NEW bad,
         Aligned(r.ra.ptr), n = SectorSize \/ toBuffer = TRUE,
         NEW start \in Cluster, NEW p0 \in Nat, Right(r, start, p0)
  PROVE  LET x == ReadSector(r, n, toBuffer, bad)
         IN  x.ok /\ ~x.slipped => Right(x, start, p0)
<1> DEFINE file   == r.ra.file
           p      == r.ra.ptr
           sector == SectorOf(file)
           next   == FileNextSector(file, r.cache, bad)
           x      == ReadSector(r, n, toBuffer, bad)
<1> SUFFICES ASSUME x.ok, ~x.slipped
             PROVE  Right(x, start, p0)
  OBVIOUS
<1>1. PICK k \in Nat : r.ra.ptr = SectorSize * k
  BY DEF Aligned
<1>2. n \in Nat /\ SectorSize \in Nat \ {0} /\ SectorSize * k \in Nat
  BY FilesAssumption
<1>3. /\ r.ok /\ ~r.slipped /\ next.ok
      /\ x.ra.file = next.file /\ x.ra.ptr = p + n
      /\ x.out = r.out \o Bytes(sector, 0, n)
      /\ toBuffer => x.ra.buffer = sector
  <2> DEFINE good == sector \notin bad
  <2>1. /\ x.ra.file = next.file /\ x.ra.ptr = p + n
        /\ x.ok <=> (r.ok /\ good)
        /\ x.slipped <=> (r.slipped \/ ~next.ok)
        /\ good => x.out = r.out \o Bytes(sector, 0, n)
        /\ good /\ toBuffer => x.ra.buffer = sector
    <3>1. SectorRead(r, n, toBuffer, bad, x)
      BY <1>2, ReadSectorIs
    <3> HIDE DEF x
    <3> QED
      BY <3>1, Zenon DEF SectorRead
  <2> HIDE DEF good, sector, next, p
  <2> QED
    BY <2>1
<1> HIDE DEF x
<1>4. /\ file \in File /\ r.cache \in Caches /\ OnPlace(r.ra) /\ p \in Nat
      /\ file.start_cluster = start /\ p0 <= p /\ r.out = Span(start, p0, p - p0)
  BY FieldsOfARead DEF Right
<1>5. file.sector = k
  <2>1. (p + SectorSize - 1) \div SectorSize = k
    BY <1>1, SectorsBegun
  <2> QED
    BY <1>4, <2>1 DEF OnPlace
<1>6. OnChain(file)
  BY <1>4 DEF OnPlace
<1>7. sector = SectorAt(start, k)
  BY <1>4, <1>5, <1>6 DEF OnChain, SectorOf, SectorAt
<1>8. /\ next.file.start_cluster = start /\ next.file.sector = k + 1
      /\ OnChain(next.file)
  BY <1>3, <1>4, <1>5, <1>6, NextSectorIs
<1> HIDE DEF sector, next
<1>9. \A j \in 0 .. (SectorSize - 1) : ByteAt(start, p + j) = <<sector, j>>
  BY <1>1, <1>4, <1>7, SectorAtIs
<1>10. Bytes(sector, 0, n) = Span(start, p, n)
  <2>1. ASSUME NEW i \in 1 .. n
        PROVE  <<sector, 0 + i - 1>> = ByteAt(start, p + i - 1)
    <3>1. i - 1 \in 0 .. (SectorSize - 1) /\ 0 + i - 1 = i - 1
      BY <1>2
    <3>2. p + i - 1 = p + (i - 1)
      BY <1>1, <1>2
    <3> QED
      BY <1>9, <3>1, <3>2
  <2>2. n - 0 = n
    BY <1>2
  <2> QED
    BY <2>1, <2>2 DEF Bytes, Span
<1>11. (x.ra.ptr + SectorSize - 1) \div SectorSize = k + 1
  BY <1>1, <1>3, SectorsBegun
<1>12. x.ra.ptr % SectorSize # 0 => x.ra.buffer = ByteAt(start, x.ra.ptr)[1]
  <2>1. CASE n = SectorSize
    <3>1. x.ra.ptr = (SectorSize * (k + 1)) + 0 /\ k + 1 \in Nat
      BY <1>1, <1>2, <1>3, <2>1
    <3>2. x.ra.ptr % SectorSize = 0
      <4>1. \A t \in Nat : ((SectorSize * t) + 0) % SectorSize = 0
        <5>1. 0 \in Nat /\ 0 < SectorSize
          BY <1>2
        <5> QED
          BY <1>2, <5>1, Quotient
      <4> QED
        BY <3>1, <4>1
    <3> QED
      BY <3>2
  <2>2. CASE n # SectorSize
    <3>1. n < SectorSize /\ n \in 0 .. (SectorSize - 1)
      BY <1>2, <2>2
    <3>2. ByteAt(start, x.ra.ptr) = <<sector, n>>
      BY <1>3, <1>9, <3>1
    <3>3. x.ra.buffer = sector
      BY <1>3, <3>1
    <3> QED
      BY <3>2, <3>3
  <2> QED
    BY <2>1, <2>2
<1>13. OnPlace(x.ra)
  BY <1>3, <1>4, <1>8, <1>11, <1>12 DEF OnPlace
<1> DEFINE l == p - p0
           there == x.ra.ptr
<1>14. l \in Nat /\ p0 + l = p /\ l + n = there - p0 /\ p0 <= there
  <2>1. there = p + n /\ p \in Nat /\ p0 \in Nat /\ n \in Nat /\ p0 <= p
    BY <1>2, <1>3, <1>4
  <2> HIDE DEF p, there
  <2> QED
    BY <2>1
<1> HIDE DEF l
<1>15. Span(start, p0, l) \o Span(start, p0 + l, n) = Span(start, p0, l + n)
  <2>1. start \in Cluster /\ p0 \in Nat /\ l \in Nat /\ n \in Nat
    BY <1>2, <1>14
  <2>2. \A u, v \in Nat : Span(start, p0, u) \o Span(start, p0 + u, v) = Span(start, p0, u + v)
    BY <2>1, SpansJoin
  <2> QED
    BY <2>1, <2>2
<1>16. x.out = Span(start, p0, x.ra.ptr - p0)
  <2>1. r.out = Span(start, p0, l)
    BY <1>4 DEF l
  <2> QED
    BY <1>3, <1>10, <1>14, <1>15, <2>1
<1> QED
  BY <1>3, <1>8, <1>13, <1>14, <1>16 DEF Right

LEMMA LoopReads ==
  ASSUME NEW a \in Reads, NEW m \in Nat, NEW bad, NEW w, IsLoop(w, a, m, bad),
         Aligned(a.ra.ptr),
         NEW start \in Cluster, NEW p \in Nat, Right(a, start, p)
  PROVE  \A i \in 0 .. m : w[i].ok /\ ~w[i].slipped => Right(w[i], start, p)
<1> DEFINE Good(i) == w[i].ok /\ ~w[i].slipped => Right(w[i], start, p)
           S == {i \in 0 .. m : Good(i)}
<1>1. /\ w \in [0 .. m -> Reads] /\ w[0] = a
      /\ \A i \in 0 .. m : i # 0 => w[i] = ReadOn(w[i - 1], bad)
  BY LoopIs
<1>2. SectorSize \in Nat \ {0}
  BY FilesAssumption
<1>3. 0 \in S
  BY <1>1
<1>4. ASSUME NEW i \in 0 .. m, i # 0, i - 1 \in S
      PROVE  i \in S
  <2> DEFINE r == w[i - 1]
             x == w[i]
  <2>1. r \in Reads /\ x \in Reads /\ x = ReadOn(r, bad) /\ i - 1 \in 0 .. m /\ Good(i - 1)
    <3>1. i - 1 \in 0 .. m
      BY <1>4
    <3> QED
      BY <1>1, <1>4, <3>1
  <2>2. r.ok => r.ra.ptr = a.ra.ptr + (SectorSize * (i - 1))
    BY <2>1, LoopGoes
  <2> HIDE DEF x, r
  <2>3. SUFFICES ASSUME x.ok, ~x.slipped
                 PROVE  Right(x, start, p)
    BY DEF x
  <2>4. r.ok
    BY <2>1, <2>3, ReadOnStays
  <2>5. x = ReadSector(r, SectorSize, FALSE, bad)
    BY <2>1, <2>4 DEF ReadOn
  <2>6. SectorRead(r, SectorSize, FALSE, bad, x)
    BY <1>2, <2>1, <2>5, ReadSectorIs
  <2>7. ~r.slipped
    BY <2>3, <2>6 DEF SectorRead
  <2>8. Right(r, start, p)
    BY <2>1, <2>4, <2>7 DEF r
  <2>9. Aligned(r.ra.ptr)
    <3>2. PICK k \in Nat : a.ra.ptr = SectorSize * k
      BY DEF Aligned
    <3>1. SectorSize * (k + (i - 1)) = (SectorSize * k) + (SectorSize * (i - 1))
      BY <1>2
    <3> QED
      BY <1>4, <2>2, <2>4, <3>1, <3>2 DEF Aligned
  <2>10. SectorSize \in 1 .. SectorSize /\ FALSE \in BOOLEAN
    <3>1. FALSE \in BOOLEAN
      BY Zenon
    <3> QED
      BY <1>2, <3>1
  <2> QED
    BY <2>1, <2>3, <2>5, <2>8, <2>9, <2>10, RightGoesOn
<1> HIDE DEF S
<1>5. \A i \in 0 .. m : i \in S
  BY <1>3, <1>4, Induct
<1> QED
  BY <1>5 DEF S

(* RARead: the read leaves a file, and goes no further than it was asked.    *)
THEOREM RAReadIs ==
  ASSUME NEW f \in RAFile, NEW n \in Nat, NEW bad, cache \in Caches
  PROVE  LET r == RARead(f, n, bad)
         IN  /\ r \in Reads /\ r.ra.ptr <= f.ptr + n
             /\ OnPlace(f) /\ ~Short(f, n) /\ r.ok /\ ~r.slipped =>
                  Right(r, f.file.start_cluster, f.ptr) /\ r.ra.ptr = f.ptr + n
<1> DEFINE d == Drain(f, n)
           a == [ra |-> d.ra, cache |-> cache, ok |-> TRUE, out |-> d.out, slipped |-> FALSE]
           m == d.bytes \div SectorSize
           rest == d.bytes % SectorSize
           w == CHOOSE loop : IsLoop(loop, a, m, bad)
           early == \E i \in 1 .. m - 1 : ~w[i].ok
           z == ReadSector(w[m], rest, TRUE, bad)
           r == RARead(f, n, bad)
           start == f.file.start_cluster
<1>1. r = IF early \/ rest = 0 THEN w[m] ELSE z
  BY DEF RARead, IsLoop, ReadOn
<1>2. /\ d.ra \in RAFile /\ d.ra.file = f.file /\ d.out \in Seq(ByteOf)
      /\ d.bytes \in Nat /\ d.ra.ptr + d.bytes = f.ptr + n
  BY DrainIs
<1>3. /\ OnPlace(f) /\ ~Short(f, n) =>
           /\ Aligned(d.ra.ptr)
           /\ OnPlace(d.ra) /\ f.ptr <= d.ra.ptr
           /\ d.out = Span(start, f.ptr, d.ra.ptr - f.ptr)
  BY RestIsDrained
<1>4. f.ptr \in Nat /\ start \in Cluster /\ SectorSize \in Nat \ {0}
  BY FilesAssumption, ClustersAreNumbers DEF RAFile, File
<1> HIDE DEF d, r
<1>5. a \in Reads
  <2>1. TRUE \in BOOLEAN /\ FALSE \in BOOLEAN
    BY Zenon
  <2> QED
    BY <1>2, <2>1 DEF Reads
<1>6. a.ra = d.ra /\ a.out = d.out
  OBVIOUS
<1>7. m \in Nat /\ rest \in 0 .. (SectorSize - 1) /\ d.bytes = (SectorSize * m) + rest
  BY <1>2, <1>4, Division
<1> HIDE DEF a, m, rest
<1>8. IsLoop(w, a, m, bad)
  BY <1>5, <1>7, LoopExists
<1> HIDE DEF w
<1>9. /\ w[m] \in Reads
      /\ w[m].ra.ptr <= a.ra.ptr + (SectorSize * m)
      /\ w[m].ok => /\ w[m].ra.ptr = a.ra.ptr + (SectorSize * m)
                    /\ \A j \in 0 .. m : w[j].ok
  <2>1. m \in 0 .. m
    BY <1>7
  <2> QED
    BY <1>5, <1>7, <1>8, <2>1, LoopIs, LoopGoes
<1>10. SectorSize * m \in Nat /\ a.ra.ptr \in Nat /\ w[m].ra.ptr \in Nat
  <2>1. SectorSize * m \in Nat
    BY <1>4, <1>7
  <2> QED
    BY <1>5, <1>9, <2>1, FieldsOfARead
<1>11. rest \in Nat /\ rest <= SectorSize
  BY <1>4, <1>7
<1>12. SectorRead(w[m], rest, TRUE, bad, z)
  <2>1. TRUE \in BOOLEAN
    BY Zenon
  <2> QED
    BY <1>9, <1>11, <2>1, ReadSectorIs
<1> HIDE DEF z
<1>13. z \in Reads /\ z.ra.ptr = w[m].ra.ptr + rest
  BY <1>12 DEF SectorRead
<1> DEFINE q == SectorSize * m
           there == w[m].ra.ptr
           here == a.ra.ptr
           end == f.ptr + n
<1>16. /\ q \in Nat /\ there \in Nat /\ here \in Nat /\ rest \in Nat
       /\ here + (q + rest) = end /\ there <= here + q
       /\ w[m].ok => there = here + q
  BY <1>2, <1>6, <1>7, <1>9, <1>10, <1>11
<1> HIDE DEF q, there, here, end
<1>17. end \in Nat /\ there + rest <= end /\ there <= end
       /\ (w[m].ok => there + rest = end)
  BY <1>16
<1>14. r \in Reads /\ r.ra.ptr <= f.ptr + n
  <2>1. w[m].ra.ptr + rest <= f.ptr + n /\ w[m].ra.ptr <= f.ptr + n
    BY <1>17 DEF there, end
  <2> QED
    BY <1>1, <1>9, <1>13, <2>1
<1>15. ASSUME OnPlace(f), ~Short(f, n), r.ok, ~r.slipped
       PROVE  Right(r, start, f.ptr) /\ r.ra.ptr = f.ptr + n
  <2>1. Aligned(a.ra.ptr)
    BY <1>3, <1>6, <1>15
  <2>2. Right(a, start, f.ptr)
    BY <1>2, <1>3, <1>6, <1>15 DEF Right
  <2>3. w[m].ok /\ ~w[m].slipped => Right(w[m], start, f.ptr)
    <3>1. m \in 0 .. m
      BY <1>7
    <3> QED
      BY <1>4, <1>5, <1>7, <1>8, <2>1, <2>2, <3>1, LoopReads
  <2>4. early => ~w[m].ok
    <3>1. \A i \in 1 .. m - 1 : i \in 0 .. m
      BY <1>7
    <3> QED
      BY <1>9, <3>1
  <2>5. CASE rest = 0 \/ early
    <3>1. r = w[m]
      BY <1>1, <2>5
    <3>2. rest = 0
      BY <1>15, <2>4, <2>5, <3>1
    <3>3. there = end
      BY <1>15, <1>16, <1>17, <3>1, <3>2
    <3> QED
      BY <1>15, <2>3, <3>1, <3>3 DEF there, end
  <2>6. CASE ~(rest = 0 \/ early)
    <3>1. r = z
      BY <1>1, <2>6
    <3>2. w[m].ok /\ ~w[m].slipped
      BY <1>12, <1>15, <3>1 DEF SectorRead
    <3>3. Right(w[m], start, f.ptr)
      BY <2>3, <3>2
    <3>4. Aligned(w[m].ra.ptr)
      <4>2. PICK k \in Nat : a.ra.ptr = SectorSize * k
        BY <2>1 DEF Aligned
      <4>1. SectorSize * (k + m) = (SectorSize * k) + (SectorSize * m)
        BY <1>4, <1>7
      <4> QED
        BY <1>7, <1>9, <3>2, <4>1, <4>2 DEF Aligned
    <3>5. rest \in 1 .. SectorSize /\ TRUE \in BOOLEAN
      <4>1. TRUE \in BOOLEAN
        BY Zenon
      <4> QED
        BY <1>7, <1>11, <2>6, <4>1
    <3>6. Right(z, start, f.ptr)
      BY <1>4, <1>9, <1>15, <3>1, <3>3, <3>4, <3>5, RightGoesOn DEF z
    <3>7. z.ra.ptr = f.ptr + n
      BY <1>13, <1>17, <3>2 DEF there, end
    <3> QED
      BY <3>1, <3>6, <3>7
  <2> QED
    BY <2>5, <2>6
<1> QED
  BY <1>14, <1>15 DEF r

(* RASeek leaves a file at the position asked for, and within the first      *)
(* sector it leaves it in its place.                                         *)
LEMMA RASeekIs ==
  ASSUME NEW f \in RAFile, NEW offset \in Nat, NEW bad, cache \in Caches
  PROVE  LET r == RASeek(f, offset, bad)
         IN  /\ r.ra \in RAFile /\ r.ra.ptr = offset /\ r.cache \in Caches
             /\ OnPlace(f) /\ offset < SectorSize /\ r.ok /\ ~r.slipped => OnPlace(r.ra)
<1> DEFINE b == offset % SectorSize
           x == FileSeek(f.file, cache, offset - b, bad)
           sector == SectorOf(x.file)
           good == sector \notin bad
           next == FileNextSector(x.file, x.cache, bad)
           into == [file |-> next.file, ptr |-> offset,
                    buffer |-> IF good THEN sector ELSE f.buffer]
           onto == [f EXCEPT !.file = x.file, !.ptr = offset]
           r == RASeek(f, offset, bad)
<1>1. SectorSize \in Nat \ {0} /\ ClusterSize \in Nat \ {0}
  BY FilesAssumption, FatAssumption
<1>2. f.file \in File /\ f.buffer \in Sector /\ f.file.start_cluster \in Cluster
  BY ClustersAreNumbers DEF RAFile, File
<1>3. b \in Nat /\ offset - b \in Nat
  <2>1. /\ offset \div SectorSize \in Nat /\ b \in 0 .. (SectorSize - 1)
        /\ offset = (SectorSize * (offset \div SectorSize)) + b
    BY <1>1, Division
  <2>2. SectorSize * (offset \div SectorSize) \in Nat
    BY <1>1, <2>1
  <2> HIDE DEF b
  <2> QED
    BY <1>1, <2>1, <2>2
<1>4. /\ x \in Results /\ x.file.start_cluster = f.file.start_cluster
      /\ x.ok => x.file.sector = offset - b
      /\ x.ok /\ OnChain(f.file) => OnChain(x.file)
  <2> HIDE DEF b
  <2> QED
    BY <1>2, <1>3, SeekIs
<1>5. r = IF x.ok /\ b # 0
          THEN [ra |-> into, cache |-> next.cache, ok |-> good, slipped |-> ~next.ok]
          ELSE [ra |-> onto, cache |-> x.cache, ok |-> x.ok, slipped |-> FALSE]
  BY DEF RASeek
<1> HIDE DEF x, r
<1>6. x.file \in File /\ x.cache \in Caches /\ x.ok \in BOOLEAN
  BY <1>4 DEF Results
<1>7. sector \in Sector
  BY <1>6, SectorOfIs
<1>8. /\ next.file \in File /\ next.cache \in Caches
      /\ next.file.start_cluster = x.file.start_cluster
      /\ next.file.sector = x.file.sector + 1
      /\ next.ok /\ OnChain(x.file) => OnChain(next.file)
  BY <1>6, NextSectorIs
<1> HIDE DEF next, good, sector, b
<1>9. into \in RAFile /\ onto \in RAFile
  BY <1>2, <1>6, <1>7, <1>8 DEF RAFile
<1>10. /\ into.file = next.file /\ into.ptr = offset
       /\ good => into.buffer = sector
       /\ onto.file = x.file /\ onto.ptr = offset
  BY DEF RAFile
<1> HIDE DEF into, onto
<1>11. ASSUME OnPlace(f), offset < SectorSize, r.ok, ~r.slipped
       PROVE  OnPlace(r.ra)
  <2>1. b = offset /\ offset % SectorSize = offset
    <3>1. ((SectorSize * 0) + offset) % SectorSize = offset
      BY <1>1, <1>11, Quotient
    <3>2. (SectorSize * 0) + offset = offset
      BY <1>1
    <3> QED
      BY <3>1, <3>2 DEF b
  <2>2. x.ok => x.file.sector = 0 /\ OnChain(x.file)
    BY <1>4, <1>11, <2>1 DEF OnPlace
  <2>3. /\ (0 + SectorSize - 1) \div SectorSize = 0
        /\ \A j \in 1 .. SectorSize : (j + SectorSize - 1) \div SectorSize = 1
    <3>1. /\ ((SectorSize * 0) + SectorSize - 1) \div SectorSize = 0
          /\ \A j \in 1 .. SectorSize :
               ((SectorSize * 0) + j + SectorSize - 1) \div SectorSize = 0 + 1
      BY SectorsBegun
    <3>2. SectorSize * 0 = 0 /\ \A j \in Int : 0 + j = j
      BY <1>1
    <3> QED
      BY <1>1, <3>1, <3>2
  <2>4. CASE x.ok /\ b # 0
    <3>1. r.ra = into /\ good /\ next.ok
      BY <1>5, <1>11, <2>4
    <3>2. into.file.sector = 1 /\ OnChain(into.file)
      BY <1>8, <1>10, <2>2, <2>4, <3>1
    <3>3. (into.ptr + SectorSize - 1) \div SectorSize = 1
      BY <1>1, <1>10, <1>11, <2>1, <2>3, <2>4
    <3>4. into.buffer = ByteAt(into.file.start_cluster, into.ptr)[1]
      <4> DEFINE start == f.file.start_cluster
      <4>1. ByteAt(start, (SectorSize * 0) + offset) = <<SectorAt(start, 0), offset>>
        <5>1. offset \in 0 .. (SectorSize - 1)
          BY <1>1, <1>11
        <5>2. start \in Cluster
          BY <1>2
        <5> HIDE DEF start
        <5> QED
          BY <5>1, <5>2, SectorAtIs
      <4>2. (SectorSize * 0) + offset = offset
        BY <1>1
      <4>3. sector = SectorAt(start, 0)
        BY <1>4, <2>2, <2>4 DEF OnChain, SectorOf, SectorAt, sector
      <4> HIDE DEF start
      <4>4. into.file.start_cluster = start
        BY <1>4, <1>8, <1>10 DEF start
      <4> QED
        BY <1>10, <3>1, <4>1, <4>2, <4>3, <4>4
    <3> QED
      BY <3>1, <3>2, <3>3, <3>4 DEF OnPlace
  <2>5. CASE ~(x.ok /\ b # 0)
    <3>1. r.ra = onto /\ x.ok /\ offset = 0
      BY <1>5, <1>11, <2>1, <2>5
    <3>2. onto.file.sector = 0 /\ OnChain(onto.file)
      BY <1>10, <2>2, <3>1
    <3>3. (onto.ptr + SectorSize - 1) \div SectorSize = 0 /\ onto.ptr % SectorSize = 0
      BY <1>10, <2>1, <2>3, <3>1
    <3> QED
      BY <3>1, <3>2, <3>3 DEF OnPlace
  <2> QED
    BY <2>4, <2>5
<1>12. r.ra \in RAFile /\ r.ra.ptr = offset /\ r.cache \in Caches
  BY <1>5, <1>6, <1>8, <1>9, <1>10
<1> QED
  BY <1>11, <1>12 DEF r

-----------------------------------------------------------------------------
(* The invariant.  CursorRight says where each file stands; that it is kept  *)
(* takes the memory of the descriptors apart (or one file would move         *)
(* another), the FAT buffer under its index (or a link would be another's),  *)
(* and that the slot of the last read is never opened again.                 *)

Typed ==
  /\ Table \in [Slots -> Objects \union {NULL}]
  /\ heap \subseteq Objects
  /\ ra \in [Objects -> RAFile] /\ \A o \in Objects : ra[o].ptr <= MaxPtr
  /\ cache \in Caches
  /\ live \subseteq Slots /\ strayed \subseteq Slots

InPlace == \A s \in live \ strayed : OnPlace(ra[Table[s]])

LastRead == (last.slot \in Slots => Table[last.slot] # NULL) /\ ReadsRight

FilesInv == Typed /\ DescriptorsDistinct /\ InPlace /\ LastRead

LEMMA NewRAIs ==
  /\ NewRA \in RAFile /\ NewRA.ptr = 0
  /\ \A name \in Names :
       LET f == [NewRA EXCEPT !.file.start_cluster = Directory[name],
                              !.file.cluster = Directory[name]]
       IN  f \in RAFile /\ f.ptr = 0 /\ OnPlace(f)
<1>1. NoFile \in File
  BY FatAssumption DEF NoFile, File, Cluster
<1>2. NewRA \in RAFile /\ NewRA.ptr = 0
  BY <1>1, NoneIsASector DEF NewRA, RAFile
<1>3. ASSUME NEW name \in Names
      PROVE  LET f == [NewRA EXCEPT !.file.start_cluster = Directory[name],
                                    !.file.cluster = Directory[name]]
             IN  f \in RAFile /\ f.ptr = 0 /\ OnPlace(f)
  <2> DEFINE c == Directory[name]
             file == [start_cluster |-> c, cluster |-> c, sector |-> 0]
             f == [NewRA EXCEPT !.file.start_cluster = c, !.file.cluster = c]
             g == [file |-> file, ptr |-> 0, buffer |-> None]
  <2>1. c \in Clusters /\ c \in Cluster
    BY FilesAssumption, ClustersAreNumbers
  <2> HIDE DEF c
  <2>2. f = g
    <3> DEFINE one == [start_cluster |-> c, cluster |-> 0, sector |-> 0]
               h   == [NewRA EXCEPT !.file.start_cluster = c]
    <3>1. [NoFile EXCEPT !.start_cluster = c] = one
      BY DEF NoFile
    <3>2. h = [file |-> one, ptr |-> 0, buffer |-> None]
      BY <3>1 DEF NewRA
    <3>3. [one EXCEPT !.cluster = c] = file
      OBVIOUS
    <3>4. f = [h EXCEPT !.file.cluster = c]
      OBVIOUS
    <3> HIDE DEF one, h, f, file
    <3>5. h.file = one
      BY <3>2
    <3> QED
      BY <3>2, <3>3, <3>4, <3>5
  <2>3. file \in File
    BY <2>1 DEF File
  <2>4. g \in RAFile
    BY <2>3, NoneIsASector DEF RAFile
  <2>5. 0 \div ClusterSize = 0 /\ 0 % SectorSize = 0 /\ (0 + SectorSize - 1) \div SectorSize = 0
    <3>1. ClusterSize \in Nat \ {0} /\ SectorSize \in Nat \ {0}
      BY FatAssumption, FilesAssumption
    <3>2. ((SectorSize * 0) + SectorSize - 1) \div SectorSize = 0
      BY SectorsBegun
    <3>3. SectorSize * 0 = 0
      BY <3>1
    <3> QED
      BY <3>1, <3>2, <3>3
  <2>6. ClusterAt(c, 0) = c
    BY <2>1, ClusterAtIs
  <2>7. OnPlace(g)
    BY <2>5, <2>6 DEF OnPlace, OnChain
  <2>8. f \in RAFile /\ f.ptr = 0 /\ OnPlace(f)
    <3> HIDE DEF f
    <3> QED
      BY <2>2, <2>4, <2>7
  <2> QED
    BY <2>8 DEF c
<1> QED
  BY <1>2, <1>3

LEMMA InitFiles == Init => FilesInv
<1> SUFFICES ASSUME Init
             PROVE  FilesInv
  OBVIOUS
<1>1. ra \in [Objects -> RAFile] /\ \A o \in Objects : ra[o].ptr <= MaxPtr
  <2>1. 0 <= MaxPtr
    BY FilesAssumption
  <2> QED
    BY <2>1, NewRAIs DEF Init
<1>2. cache \in Caches
  BY DEF Init, EmptyCache, Caches, Index
<1>3. Typed
  BY <1>1, <1>2 DEF Init, Typed
<1>4. DescriptorsDistinct /\ InPlace
  BY DEF Init, DescriptorsDistinct, InPlace
<1>5. LastRead
  BY DEF Init, LastRead, ReadsRight, NoRead, Slots
<1> QED
  BY <1>3, <1>4, <1>5 DEF FilesInv

(* A live slot has its object, and the files of the others are elsewhere.    *)
LEMMA LiveSlots ==
  ASSUME FilesInv, NEW s \in live
  PROVE  /\ s \in Slots /\ Table[s] \in heap /\ Table[s] \in Objects /\ Table[s] # NULL
         /\ ra[Table[s]] \in RAFile /\ ra[Table[s]].ptr \in 0 .. MaxPtr
         /\ \A t \in live : t # s => Table[t] # Table[s]
<1>1. s \in Slots /\ Table[s] \in heap /\ Table[s] \in Objects
  BY DEF FilesInv, Typed, DescriptorsDistinct
<1>2. ra[Table[s]] \in RAFile /\ ra[Table[s]].ptr <= MaxPtr
  BY <1>1 DEF FilesInv, Typed
<1>3. ra[Table[s]].ptr \in 0 .. MaxPtr
  BY <1>2, FilesAssumption DEF RAFile
<1> QED
  BY <1>1, <1>2, <1>3, FilesAssumption DEF FilesInv, DescriptorsDistinct

LEMMA OpenKeeps ==
  ASSUME FilesInv, NEW name \in Names, open(name)
  PROVE  FilesInv'
<1>1. PICK s \in FreeSlots, o \in Objects \ heap :
        /\ Table' = [Table EXCEPT ![s] = o]
        /\ open_Found(s, o, name) \/ open_Missing(o)
        /\ UNCHANGED <<cache, strayed, last>>
  BY DEF open
<1>2. s \in Slots /\ Table[s] = NULL /\ s \notin live /\ o # NULL
  BY <1>1, LiveSlots, FilesAssumption DEF FreeSlots
<1>3. \A t \in live : t \in Slots /\ t # s /\ Table'[t] = Table[t] /\ Table[t] \in heap /\ Table[t] # o
  BY <1>1, <1>2, LiveSlots DEF FilesInv, Typed
<1>4. Table' \in [Slots -> Objects \union {NULL}]
  BY <1>1 DEF FilesInv, Typed
<1>5. Table'[s] = o
  BY <1>1, <1>2 DEF FilesInv, Typed
<1>6. last'.slot \in Slots => last.slot # s /\ Table'[last'.slot] # NULL
  <2> SUFFICES ASSUME last'.slot \in Slots
               PROVE  last.slot # s /\ Table'[last'.slot] # NULL
    OBVIOUS
  <2>1. last.slot \in Slots /\ last' = last /\ Table[last.slot] # NULL
    BY <1>1 DEF FilesInv, LastRead
  <2>2. last.slot # s
    BY <1>2, <2>1
  <2> QED
    BY <1>1, <2>1, <2>2 DEF FilesInv, Typed
<1>7. CASE open_Found(s, o, name)
  <2> DEFINE f == [NewRA EXCEPT !.file.start_cluster = Directory[name],
                                !.file.cluster = Directory[name]]
  <2>1. f \in RAFile /\ f.ptr = 0 /\ OnPlace(f)
    BY NewRAIs
  <2> HIDE DEF f
  <2>2. /\ ra' = [ra EXCEPT ![o] = f]
        /\ heap' = heap \union {o} /\ live' = live \union {s}
    BY <1>7 DEF open_Found, f
  <2>3. /\ ra' \in [Objects -> RAFile] /\ ra'[o] = f
        /\ \A p \in Objects : p # o => ra'[p] = ra[p]
    BY <1>1, <2>1, <2>2 DEF FilesInv, Typed
  <2>4. \A p \in Objects : ra'[p].ptr <= MaxPtr
    BY <2>1, <2>3, FilesAssumption DEF FilesInv, Typed
  <2>5. Typed'
    BY <1>1, <1>2, <1>4, <2>2, <2>3, <2>4 DEF FilesInv, Typed
  <2>6. DescriptorsDistinct'
    <3>1. \A t \in live' : Table'[t] \in heap'
      BY <1>3, <1>5, <2>2
    <3>2. \A t, u \in live' : t # u => Table'[t] # Table'[u]
      BY <1>3, <1>5, <2>2 DEF FilesInv, DescriptorsDistinct
    <3> QED
      BY <3>1, <3>2 DEF DescriptorsDistinct
  <2>7. InPlace'
    <3>1. ASSUME NEW t \in (live \ strayed)'
          PROVE  OnPlace(ra[Table[t]])'
      <4>1. CASE t = s
        <5>1. ra'[Table'[t]] = f
          BY <1>5, <2>3, <4>1
        <5> QED
          BY <2>1, <5>1 DEF OnPlace, OnChain
      <4>2. CASE t # s
        <5>1. t \in live \ strayed
          BY <1>1, <2>2, <3>1, <4>2
        <5>2. Table'[t] = Table[t] /\ Table[t] # o /\ Table[t] \in Objects
          BY <1>3, <5>1 DEF FilesInv, Typed
        <5>3. ra'[Table'[t]] = ra[Table[t]]
          BY <2>3, <5>2
        <5>4. OnPlace(ra[Table[t]])
          BY <5>1 DEF FilesInv, InPlace
        <5> QED
          BY <5>3, <5>4 DEF OnPlace, OnChain
      <4> QED
        BY <4>1, <4>2
    <3> QED
      BY <3>1 DEF InPlace
  <2>8. LastRead'
    <3>1. last'.slot \in live' \ strayed' => last'.slot \in live \ strayed
      BY <1>1, <1>2, <1>6, <2>2
    <3> QED
      BY <1>1, <1>6, <3>1 DEF FilesInv, LastRead, ReadsRight
  <2> QED
    BY <2>5, <2>6, <2>7, <2>8 DEF FilesInv
<1>8. CASE open_Missing(o)
  <2>1. UNCHANGED <<ra, heap, live, cache, strayed, last>>
    BY <1>1, <1>8 DEF open_Missing
  <2>2. Typed'
    BY <1>4, <2>1 DEF FilesInv, Typed
  <2>3. DescriptorsDistinct'
    BY <1>3, <2>1 DEF FilesInv, DescriptorsDistinct
  <2>4. InPlace'
    <3>1. ASSUME NEW t \in (live \ strayed)'
          PROVE  OnPlace(ra[Table[t]])'
      <4>1. t \in live \ strayed
        BY <2>1, <3>1
      <4>2. ra'[Table'[t]] = ra[Table[t]]
        BY <1>3, <2>1, <4>1
      <4>3. OnPlace(ra[Table[t]])
        BY <4>1 DEF FilesInv, InPlace
      <4> QED
        BY <4>2, <4>3 DEF OnPlace, OnChain
    <3> QED
      BY <3>1 DEF InPlace
  <2>5. LastRead'
    BY <1>6, <2>1 DEF FilesInv, LastRead, ReadsRight
  <2> QED
    BY <2>2, <2>3, <2>4, <2>5 DEF FilesInv
<1> QED
  BY <1>1, <1>7, <1>8

LEMMA CloseKeeps ==
  ASSUME FilesInv, NEW s \in Slots, close(s)
  PROVE  FilesInv'
<1>1. /\ s \in live /\ heap' = heap \ {Table[s]} /\ live' = live \ {s}
      /\ ra' = [ra EXCEPT ![Table[s]] = NewRA]
      /\ UNCHANGED <<Table, cache, strayed, last>>
  BY DEF close
<1>2. /\ Table[s] \in Objects
      /\ \A t \in live' : t \in live /\ Table[t] # Table[s] /\ Table[t] \in Objects
  BY <1>1, LiveSlots
<1>3. /\ ra' \in [Objects -> RAFile] /\ ra'[Table[s]] = NewRA
      /\ \A o \in Objects : o # Table[s] => ra'[o] = ra[o]
  BY <1>1, <1>2, NewRAIs DEF FilesInv, Typed
<1>4. \A o \in Objects : ra'[o].ptr <= MaxPtr
  <2>1. NewRA.ptr <= MaxPtr
    BY FilesAssumption DEF NewRA
  <2> HIDE DEF NewRA
  <2> QED
    BY <1>3, <2>1 DEF FilesInv, Typed
<1>5. Typed'
  BY <1>1, <1>3, <1>4 DEF FilesInv, Typed
<1>6. DescriptorsDistinct'
  BY <1>1, <1>2 DEF FilesInv, DescriptorsDistinct
<1>7. InPlace'
  <2>1. ASSUME NEW t \in (live \ strayed)'
        PROVE  OnPlace(ra[Table[t]])'
    <3>1. t \in live \ strayed /\ ra'[Table'[t]] = ra[Table[t]]
      BY <1>1, <1>2, <1>3, <2>1
    <3>2. OnPlace(ra[Table[t]])
      BY <3>1 DEF FilesInv, InPlace
    <3> QED
      BY <3>1, <3>2 DEF OnPlace, OnChain
  <2> QED
    BY <2>1 DEF InPlace
<1>8. LastRead'
  BY <1>1 DEF FilesInv, LastRead, ReadsRight
<1> QED
  BY <1>5, <1>6, <1>7, <1>8 DEF FilesInv

(* What read and lseek have in common: the file of one slot moves, and the   *)
(* slot has strayed unless the file is in its place.                         *)
LEMMA MoveKeeps ==
  ASSUME FilesInv, NEW s \in live, NEW f \in RAFile, f.ptr <= MaxPtr,
         ra' = [ra EXCEPT ![Table[s]] = f], cache' \in Caches,
         strayed' = strayed \/ strayed' = strayed \union {s},
         s \notin strayed' => OnPlace(f),
         UNCHANGED <<Table, heap, live>>
  PROVE  Typed' /\ DescriptorsDistinct' /\ InPlace'
<1>1. s \in Slots /\ Table[s] \in Objects
  BY LiveSlots
<1>2. /\ ra' \in [Objects -> RAFile] /\ ra'[Table[s]] = f
      /\ \A o \in Objects : o # Table[s] => ra'[o] = ra[o]
  BY <1>1 DEF FilesInv, Typed
<1>3. \A o \in Objects : ra'[o].ptr <= MaxPtr
  BY <1>2 DEF FilesInv, Typed
<1>4. Typed'
  BY <1>1, <1>2, <1>3 DEF FilesInv, Typed
<1>5. DescriptorsDistinct'
  BY DEF FilesInv, DescriptorsDistinct
<1>6. ASSUME NEW t \in (live \ strayed)'
      PROVE  OnPlace(ra[Table[t]])'
  <2>1. t \in live \ strayed /\ t \notin strayed'
    BY <1>6
  <2>2. CASE t = s
    <3>1. ra'[Table'[t]] = f /\ OnPlace(f)
      BY <1>2, <2>1, <2>2
    <3> QED
      BY <3>1 DEF OnPlace, OnChain
  <2>3. CASE t # s
    <3>1. Table[t] # Table[s] /\ Table[t] \in Objects
      BY <2>1, <2>3, LiveSlots
    <3>2. ra'[Table'[t]] = ra[Table[t]] /\ OnPlace(ra[Table[t]])
      BY <1>2, <2>1, <3>1 DEF FilesInv, InPlace
    <3> QED
      BY <3>2 DEF OnPlace, OnChain
  <2> QED
    BY <2>2, <2>3
<1> QED
  BY <1>4, <1>5, <1>6 DEF InPlace

LEMMA ReadKeeps ==
  ASSUME FilesInv, NEW s \in Slots, NEW n \in Counts, NEW bad \in Failures, read(s, n, bad)
  PROVE  FilesInv'
<1> DEFINE f == ra[Table[s]]
           r == RARead(f, n, bad)
           start == f.file.start_cluster
<1>1. /\ s \in live \ strayed /\ f.ptr + n <= MaxPtr
      /\ ra' = [ra EXCEPT ![Table[s]] = r.ra]
      /\ cache' = r.cache
      /\ last' = [slot |-> s, ok |-> r.ok, right |-> Copied(r.out, f, n)]
      /\ strayed' = IF r.ok /\ ~r.slipped /\ ~Short(f, n)
                    THEN strayed ELSE strayed \union {s}
      /\ UNCHANGED <<Table, heap, live>>
  BY DEF read
<1>2. s \in live /\ f \in RAFile /\ f.ptr \in 0 .. MaxPtr /\ n \in Nat /\ Table[s] # NULL
  BY <1>1, LiveSlots, FilesAssumption
<1>3. cache \in Caches /\ OnPlace(f)
  BY <1>1 DEF FilesInv, Typed, InPlace
<1>4. /\ r \in Reads /\ r.ra.ptr <= f.ptr + n
      /\ ~Short(f, n) /\ r.ok /\ ~r.slipped =>
           Right(r, start, f.ptr) /\ r.ra.ptr = f.ptr + n
  <2> HIDE DEF f
  <2> QED
    BY <1>2, <1>3, RAReadIs
<1>5. r.ra \in RAFile /\ r.ra.ptr \in Nat /\ r.cache \in Caches /\ r.ok \in BOOLEAN
  <2> HIDE DEF r
  <2> QED
    BY <1>4, FieldsOfARead
<1> HIDE DEF r
<1>6. r.ra.ptr <= MaxPtr
  <2> DEFINE here == f.ptr
             there == r.ra.ptr
  <2>1. here \in Nat /\ there \in Nat /\ MaxPtr \in Nat /\ there <= here + n /\ here + n <= MaxPtr
    BY <1>1, <1>2, <1>4, <1>5, FilesAssumption
  <2> HIDE DEF here, there
  <2>2. there <= MaxPtr
    BY <1>2, <2>1
  <2> QED
    BY <2>2 DEF there
<1>7. s \notin strayed' => ~Short(f, n) /\ r.ok /\ ~r.slipped
  BY <1>1
<1>8. s \notin strayed' => OnPlace(r.ra)
  BY <1>4, <1>7 DEF Right
<1>9. strayed' = strayed \/ strayed' = strayed \union {s}
  BY <1>1
<1>10. cache' \in Caches
  BY <1>1, <1>5
<1>11. Typed' /\ DescriptorsDistinct' /\ InPlace'
  <2>1. ra' = [ra EXCEPT ![Table[s]] = r.ra] /\ UNCHANGED <<Table, heap, live>>
    BY <1>1
  <2> HIDE DEF f
  <2> QED
    BY <1>2, <1>5, <1>6, <1>8, <1>9, <1>10, <2>1, MoveKeeps
<1>12. s \notin strayed' => r.ok /\ Copied(r.out, f, n)
  <2> SUFFICES ASSUME s \notin strayed'
               PROVE  r.ok /\ Copied(r.out, f, n)
    OBVIOUS
  <2>1. r.out = Span(start, f.ptr, r.ra.ptr - f.ptr) /\ r.ra.ptr = f.ptr + n /\ r.ok
    BY <1>4, <1>7 DEF Right
  <2>2. (f.ptr + n) - f.ptr = n
    <3> HIDE DEF f
    <3> QED
      BY <1>2
  <2>3. r.out = Span(start, f.ptr, n)
    BY <2>1, <2>2
  <2>4. Len(r.out) = n
    <3> HIDE DEF f
    <3> QED
      BY <1>2, <2>3 DEF Span
  <2>5. \A i \in 1 .. n : r.out[i] = ByteAt(f.file.start_cluster, f.ptr + i - 1)
    BY <2>3 DEF Span
  <2> QED
    BY <2>1, <2>4, <2>5 DEF Copied
<1>13. last'.slot = s /\ last'.ok = r.ok /\ last'.right = Copied(r.out, f, n)
  BY <1>1
<1>14. LastRead'
  BY <1>1, <1>2, <1>12, <1>13 DEF LastRead, ReadsRight
<1> QED
  BY <1>11, <1>14 DEF FilesInv

LEMMA SeekKeeps ==
  ASSUME FilesInv, NEW s \in Slots, NEW offset \in Nat, NEW bad \in Failures,
         lseek(s, offset, bad)
  PROVE  FilesInv'
<1> DEFINE f == ra[Table[s]]
           r == RASeek(f, offset, bad)
<1>1. /\ s \in live \ strayed /\ offset <= MaxPtr
      /\ ra' = [ra EXCEPT ![Table[s]] = r.ra]
      /\ cache' = r.cache
      /\ last' = NoRead
      /\ strayed' = IF r.ok /\ ~r.slipped /\ offset < SectorSize
                    THEN strayed ELSE strayed \union {s}
      /\ UNCHANGED <<Table, heap, live>>
  BY DEF lseek
<1>2. s \in live /\ f \in RAFile
  BY <1>1, LiveSlots
<1>3. cache \in Caches /\ OnPlace(f)
  BY <1>1 DEF FilesInv, Typed, InPlace
<1>4. /\ r.ra \in RAFile /\ r.ra.ptr = offset /\ r.cache \in Caches
      /\ offset < SectorSize /\ r.ok /\ ~r.slipped => OnPlace(r.ra)
  <2> HIDE DEF f
  <2> QED
    BY <1>2, <1>3, RASeekIs
<1> HIDE DEF r
<1>5. /\ s \notin strayed' => OnPlace(r.ra)
      /\ strayed' = strayed \/ strayed' = strayed \union {s}
      /\ cache' \in Caches /\ r.ra.ptr <= MaxPtr
  BY <1>1, <1>4
<1>6. Typed' /\ DescriptorsDistinct' /\ InPlace'
  <2>1. ra' = [ra EXCEPT ![Table[s]] = r.ra] /\ UNCHANGED <<Table, heap, live>>
    BY <1>1
  <2> QED
    BY <1>2, <1>4, <1>5, <2>1, MoveKeeps
<1>7. LastRead'
  <2>1. last'.slot = 0 /\ 0 \notin Slots
    BY <1>1 DEF NoRead, Slots
  <2>2. live' \subseteq Slots
    BY <1>1 DEF FilesInv, Typed
  <2> QED
    BY <2>1, <2>2 DEF LastRead, ReadsRight
<1> QED
  BY <1>6, <1>7 DEF FilesInv

LEMMA NextKeepsFiles == FilesInv /\ [Next]_vars => FilesInv'
<1> SUFFICES ASSUME FilesInv, [Next]_vars
             PROVE  FilesInv'
  OBVIOUS
<1>1. ASSUME NEW name \in Names, open(name)
      PROVE  FilesInv'
  BY <1>1, OpenKeeps
<1>2. ASSUME NEW s \in Slots, close(s)
      PROVE  FilesInv'
  BY <1>2, CloseKeeps
<1>3. ASSUME NEW s \in Slots, NEW n \in Counts, NEW bad \in Failures, read(s, n, bad)
      PROVE  FilesInv'
  BY <1>3, ReadKeeps
<1>4. ASSUME NEW s \in Slots, NEW o \in Offsets, NEW bad \in Failures, lseek(s, o, bad)
      PROVE  FilesInv'
  <2>1. o \in Nat
    BY FilesAssumption
  <2> QED
    BY <1>4, <2>1, SeekKeeps
<1>5. ASSUME NEW s \in live, NEW o \in Offsets, NEW bad \in Failures,
             lseek(s, o + ra[Table[s]].ptr, bad)
      PROVE  FilesInv'
  <2>1. s \in Slots /\ ra[Table[s]].ptr \in Nat /\ o \in Nat
    BY LiveSlots, FilesAssumption
  <2>2. o + ra[Table[s]].ptr \in Nat
    BY <2>1
  <2> QED
    BY <1>5, <2>1, <2>2, SeekKeeps
<1>6. ASSUME UNCHANGED vars
      PROVE  FilesInv'
  <2>1. UNCHANGED <<Table, heap, ra, cache, live, strayed, last>>
    BY <1>6 DEF vars
  <2>2. Typed' /\ DescriptorsDistinct'
    BY <2>1 DEF FilesInv, Typed, DescriptorsDistinct
  <2>3. InPlace'
    BY <2>1 DEF FilesInv, InPlace, OnPlace, OnChain
  <2>4. LastRead'
    BY <2>1 DEF FilesInv, LastRead, ReadsRight
  <2> QED
    BY <2>2, <2>3, <2>4 DEF FilesInv
<1> QED
  BY <1>1, <1>2, <1>3, <1>4, <1>5, <1>6 DEF Next

-----------------------------------------------------------------------------
(* Theorems. *)

(* In every reachable state of open, close, read and lseek, whatever sectors *)
(* fail in each call: descriptors in use have distinct files that are not    *)
(* freed, the FAT buffer is under its own index, every file that has not     *)
(* strayed is on the cluster of its next sector and has the sector it is in  *)
(* the middle of in its buffer, and the slot of the last read is not free.   *)
THEOREM FilesInvariance == Spec => []FilesInv
<1>1. Init => FilesInv
  BY InitFiles
<1>2. FilesInv /\ [Next]_vars => FilesInv'
  BY NextKeepsFiles
<1> QED
  BY <1>1, <1>2, PTL DEF Spec

(* open and close keep the descriptors of a program apart, although close    *)
(* leaves the pointer to the freed file in its slot.                         *)
THEOREM TableAlwaysRight == Spec => []TableRight
<1>1. FilesInv => TableRight
  <2> SUFFICES ASSUME FilesInv
               PROVE  TypeOK
    BY DEF FilesInv, TableRight
  <2>1. ASSUME NEW o \in Objects
        PROVE  /\ ra[o].ptr \in 0 .. MaxPtr
               /\ ra[o].file \in [start_cluster : Clusters \union {0},
                                  cluster : Clusters \union {0, EOC}, sector : Nat]
    <3>1. ra[o] \in RAFile /\ ra[o].ptr <= MaxPtr
      BY DEF FilesInv, Typed
    <3> QED
      BY <3>1, FilesAssumption DEF RAFile, File, Cluster
  <2>2. cache.index \in Nat \union {-1} /\ cache.sector \in Nat \union {-1}
    BY DEF FilesInv, Typed, Caches, Index
  <2> QED
    BY <2>1, <2>2 DEF FilesInv, Typed, TypeOK
<1> QED
  BY <1>1, FilesInvariance, PTL

(* The cursor, the buffer and the FAT buffer agree with the position of      *)
(* every file that has not strayed: FileNextSector and FileSeek follow the   *)
(* chain even when a read of the FAT fails half way.                         *)
THEOREM PositionsAlwaysRight == Spec => []PositionRight
<1>1. FilesInv => PositionRight
  <2> SUFFICES ASSUME FilesInv
               PROVE  PositionRight
    OBVIOUS
  <2>1. CacheRight
    BY DEF FilesInv, Typed, Caches, CacheRight
  <2>2. CursorRight
    BY DEF FilesInv, InPlace, OnPlace, OnChain, CursorRight
  <2> QED
    BY <2>1, <2>2 DEF PositionRight
<1> QED
  BY <1>1, FilesInvariance, PTL

(* A read whose file has not strayed has succeeded and has copied as many    *)
(* bytes as it was asked for, and those of them that the file has are the    *)
(* bytes at its position, over any number of sectors and clusters: the       *)
(* drained buffer, the whole sectors and the last part join.                 *)
THEOREM ReadsAlwaysRight == Spec => []ReadsRight
<1>1. FilesInv => ReadsRight
  BY DEF FilesInv, LastRead
<1> QED
  BY <1>1, FilesInvariance, PTL

=============================================================================
