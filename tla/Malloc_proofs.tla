---------------------------- MODULE Malloc_proofs ----------------------------
(* Theorems of the allocator, for every size of a header, any regions that   *)
(* are disjoint and made of whole headers, and any requests below the wrap.  *)
EXTENDS Malloc, FiniteSetTheorems, WellFoundedInduction, TLAPS

-----------------------------------------------------------------------------
(* Lists.  A list that goes through S in the order of a rank: the next of a  *)
(* node is the one of the next higher rank, and prev is the inverse.  For    *)
(* the main list the rank is the address.                                    *)

Chain(rank, next, prev, S) ==
  /\ S \subseteq Nodes \ {Head}
  /\ \A a \in S : rank[Head] < rank[a]
  /\ \A a, b \in S : rank[a] = rank[b] => a = b
  /\ \A a \in S \union {Head} :
       /\ next[a] \in S \union {Head} /\ prev[a] \in S \union {Head}
       /\ prev[next[a]] = a /\ next[prev[a]] = a
       /\ next[a] # Head => rank[a] < rank[next[a]]
  /\ \A a \in S \union {Head}, b \in S :
       rank[a] < rank[b] => next[a] # Head /\ rank[next[a]] <= rank[b]

Ranks == [Nodes -> Int]
Links == [Nodes -> Nodes \union {Nil}]

(* x is put between a and the next of a.                                     *)
LEMMA ChainInsert ==
  ASSUME NEW rank \in Ranks, NEW next \in Links, NEW prev \in Links, NEW S,
         NEW x \in Nodes \ (S \union {Head}), NEW a \in S \union {Head},
         Chain(rank, next, prev, S), rank[a] < rank[x],
         next[a] # Head => rank[x] < rank[next[a]]
  PROVE  Chain(rank, [next EXCEPT ![x] = next[a], ![a] = x],
                     [prev EXCEPT ![x] = a, ![next[a]] = x], S \union {x})
<1> DEFINE n == [next EXCEPT ![x] = next[a], ![a] = x]
           p == [prev EXCEPT ![x] = a, ![next[a]] = x]
           T == S \union {x}
<1>1. Head \in Nodes /\ S \subseteq Nodes
  BY DEF Nodes, Chain
<1>2. next[a] \in S \union {Head} /\ x # next[a] /\ x # a
  BY DEF Chain
<1>3. /\ n[x] = next[a] /\ n[a] = x /\ p[x] = a /\ p[next[a]] = x
      /\ \A b \in S \union {Head} : b # a => n[b] = next[b]
      /\ \A b \in S \union {Head} : b # next[a] => p[b] = prev[b]
  BY <1>1, <1>2 DEF Links
<1>4. T \subseteq Nodes \ {Head}
  BY <1>1 DEF Chain
<1>5. \A b \in T : rank[Head] < rank[b]
  BY <1>1 DEF Chain, Ranks
<1>6. \A b \in S : rank[b] # rank[x]
  BY <1>1, <1>2 DEF Chain, Ranks
<1> HIDE DEF n, p
<1>7. \A b \in T \union {Head} :
        /\ n[b] \in T \union {Head} /\ p[b] \in T \union {Head}
        /\ p[n[b]] = b /\ n[p[b]] = b
        /\ n[b] # Head => rank[b] < rank[n[b]]
  BY <1>1, <1>2, <1>3 DEF Chain
<1>8. \A b \in T \union {Head}, c \in T :
        rank[b] < rank[c] => n[b] # Head /\ rank[n[b]] <= rank[c]
  <2> SUFFICES ASSUME NEW b \in T \union {Head}, NEW c \in T, rank[b] < rank[c]
               PROVE  n[b] # Head /\ rank[n[b]] <= rank[c]
    OBVIOUS
  <2>1. CASE b = a \/ b = x
    BY <1>1, <1>2, <1>3, <2>1 DEF Chain, Ranks
  <2>2. CASE b # a /\ b # x /\ c # x
    BY <1>1, <1>2, <1>3, <2>2 DEF Chain
  <2>3. CASE b # a /\ b # x /\ c = x
    <3>1. b \in S \union {Head} /\ n[b] = next[b] /\ next[b] \in S \union {Head}
      BY <1>3, <2>3 DEF Chain
    <3>2. ~(rank[a] < rank[b])
      BY <1>1, <1>2, <2>3, <3>1 DEF Chain, Ranks
    <3>3. rank[b] < rank[a] /\ a \in S
      BY <1>1, <2>3, <3>1, <3>2 DEF Chain, Ranks
    <3> QED
      BY <1>1, <2>3, <3>1, <3>3 DEF Chain, Ranks
  <2> QED
    BY <2>1, <2>2, <2>3
<1> QED
  BY <1>4, <1>5, <1>6, <1>7, <1>8 DEF Chain, n, p

(* x is taken out.                                                           *)
LEMMA ChainRemove ==
  ASSUME NEW rank \in Ranks, NEW next \in Links, NEW prev \in Links, NEW S,
         NEW x \in S, Chain(rank, next, prev, S)
  PROVE  /\ x # Head /\ prev[x] # x /\ next[x] # x
         /\ Chain(rank, [next EXCEPT ![x] = Nil, ![prev[x]] = next[x]],
                     [prev EXCEPT ![x] = Nil, ![next[x]] = prev[x]], S \ {x})
<1> DEFINE n == [next EXCEPT ![x] = Nil, ![prev[x]] = next[x]]
           p == [prev EXCEPT ![x] = Nil, ![next[x]] = prev[x]]
           T == S \ {x}
<1>1. Head \in Nodes /\ S \subseteq Nodes /\ x # Head
  BY DEF Nodes, Chain
<1>2. /\ next[x] \in S \union {Head} /\ prev[x] \in S \union {Head}
      /\ prev[x] # x /\ next[x] # x
  BY <1>1 DEF Chain, Ranks
<1>3. /\ n[prev[x]] = next[x] /\ p[next[x]] = prev[x]
      /\ \A b \in T \union {Head} : b # prev[x] => n[b] = next[b]
      /\ \A b \in T \union {Head} : b # next[x] => p[b] = prev[b]
  BY <1>1, <1>2 DEF Links
<1> HIDE DEF n, p
<1>4. \A b \in T \union {Head} :
        /\ n[b] \in T \union {Head} /\ p[b] \in T \union {Head}
        /\ p[n[b]] = b /\ n[p[b]] = b
        /\ n[b] # Head => rank[b] < rank[n[b]]
  BY <1>1, <1>2, <1>3 DEF Chain, Ranks
<1>5. \A b \in T \union {Head}, c \in T :
        rank[b] < rank[c] => n[b] # Head /\ rank[n[b]] <= rank[c]
  BY <1>1, <1>2, <1>3 DEF Chain, Ranks
<1> QED
  BY <1>1, <1>2, <1>4, <1>5, ZenonT(60) DEF Chain, n, p

(* y takes the place of x.                                                   *)
LEMMA ChainReplace ==
  ASSUME NEW rank \in Ranks, NEW next \in Links, NEW prev \in Links, NEW S,
         NEW x \in S, NEW y \in Nodes \ (S \union {Head}), Chain(rank, next, prev, S)
  PROVE  Chain([rank EXCEPT ![y] = rank[x]],
               [next EXCEPT ![x] = Nil, ![y] = next[x], ![prev[x]] = y],
               [prev EXCEPT ![x] = Nil, ![y] = prev[x], ![next[x]] = y],
               (S \ {x}) \union {y})
<1> DEFINE n == [next EXCEPT ![x] = Nil, ![y] = next[x], ![prev[x]] = y]
           p == [prev EXCEPT ![x] = Nil, ![y] = prev[x], ![next[x]] = y]
           r == [rank EXCEPT ![y] = rank[x]]
           T == (S \ {x}) \union {y}
<1>1. Head \in Nodes /\ S \subseteq Nodes /\ x # Head /\ x # y
  BY DEF Nodes, Chain
<1>2. /\ next[x] \in S \union {Head} /\ prev[x] \in S \union {Head}
      /\ prev[x] # x /\ next[x] # x /\ prev[x] # y /\ next[x] # y
  BY <1>1 DEF Chain, Ranks
<1>3. /\ n[prev[x]] = y /\ p[next[x]] = y /\ n[y] = next[x] /\ p[y] = prev[x]
      /\ \A b \in (S \ {x}) \union {Head} : b # prev[x] => n[b] = next[b]
      /\ \A b \in (S \ {x}) \union {Head} : b # next[x] => p[b] = prev[b]
  BY <1>1, <1>2 DEF Links
<1>4. r[y] = rank[x] /\ \A b \in S \union {Head} : r[b] = rank[b]
  BY <1>1 DEF Ranks
<1> HIDE DEF n, p, r
<1>5. \A b \in T \union {Head} :
        /\ n[b] \in T \union {Head} /\ p[b] \in T \union {Head}
        /\ p[n[b]] = b /\ n[p[b]] = b
        /\ n[b] # Head => r[b] < r[n[b]]
  BY <1>1, <1>2, <1>3, <1>4 DEF Chain, Ranks
<1>6. \A b \in T \union {Head}, c \in T :
        r[b] < r[c] => n[b] # Head /\ r[n[b]] <= r[c]
  BY <1>1, <1>2, <1>3, <1>4 DEF Chain, Ranks
<1>7. /\ T \subseteq Nodes \ {Head}
      /\ \A b \in T : r[Head] < r[b]
      /\ \A b, c \in T : r[b] = r[c] => b = c
  BY <1>1, <1>4 DEF Chain
<1> QED
  BY <1>5, <1>6, <1>7 DEF Chain, n, p, r

(* Only the order of the ranks matters.                                      *)
LEMMA ChainRerank ==
  ASSUME NEW rank \in Ranks, NEW r \in Ranks, NEW next, NEW prev, NEW S,
         Chain(rank, next, prev, S),
         \A a, b \in S \union {Head} : rank[a] < rank[b] <=> r[a] < r[b]
  PROVE  Chain(r, next, prev, S)
<1>1. Head \in Nodes /\ S \subseteq Nodes
  BY DEF Nodes, Chain
<1>2. \A a, b \in S : r[a] = r[b] => a = b
  BY <1>1 DEF Chain, Ranks
<1>3. \A a \in S \union {Head} : next[a] \in S \union {Head}
  BY DEF Chain
<1>4. \A a \in S \union {Head}, b \in S :
        r[a] < r[b] => next[a] # Head /\ r[next[a]] <= r[b]
  BY <1>1, <1>3 DEF Chain, Ranks
<1>5. \A a \in S \union {Head} : next[a] # Head => r[a] < r[next[a]]
  BY <1>1, <1>3 DEF Chain, Ranks
<1> QED
  BY <1>1, <1>2, <1>4, <1>5 DEF Chain

-----------------------------------------------------------------------------
(* Heaps.  Blocks at the addresses L tile the cells C, those at F are in the *)
(* free chain.  While a block is being freed or added, its mark does not     *)
(* count, so the marks are apart from the lists.                             *)

HeapType ==
  [type : [Nodes -> {"HEAD", "none", "FREE", "USED"}], size : [Nodes -> Nat],
   next : Links, prev : Links, next_free : Links, prev_free : Links]

Address == [a \in Nodes |-> a]

FreeChain(h, F) ==
  \E m \in Nat : \E rank \in [Nodes -> 0 .. m] : Chain(rank, h.next_free, h.prev_free, F)

(* What no list owns is Nil.                                                 *)
Owned(h, L, F) ==
  \A a \in Nodes \ {Head} :
    /\ a \notin L => h.next[a] = Nil /\ h.prev[a] = Nil
    /\ a \notin F => h.next_free[a] = Nil /\ h.prev_free[a] = Nil

Tiled(h, L, C) ==
  /\ \A a \in L : h.size[a] >= 2 * Hdr /\ h.size[a] % Hdr = 0
  /\ \A a, b \in L : a < b => a + h.size[a] <= b
  /\ \A c \in Nat : c \in C <=> \E a \in L : a <= c /\ c < a + h.size[a]

Shape(h, L, F, C) ==
  /\ h \in HeapType
  /\ F \subseteq L /\ IsFiniteSet(L)
  /\ C \subseteq Addrs
  /\ Chain(Address, h.next, h.prev, L)
  /\ FreeChain(h, F)
  /\ Owned(h, L, F)
  /\ Tiled(h, L, C)

Mark(a, L, F) == IF a = Head THEN "HEAD" ELSE IF a \in F THEN "FREE" ELSE IF a \in L THEN "USED" ELSE "none"

(* Marks are right but for those of X.                                       *)
Marked(h, L, F, X) == \A a \in Nodes \ X : h.type[a] = Mark(a, L, F)

Apart(h, F) == \A a, b \in F : a + h.size[a] # b

HeapRight(h, L, F, C) ==
  Shape(h, L, F, C) /\ Marked(h, L, F, {}) /\ Apart(h, F)

PoolCells == UNION {Cells(r) : r \in pool}

(* What the program holds are different used blocks.                         *)
HeldRight ==
  /\ \A m \in held : m.ptr \in Nat /\ m.ptr - Hdr \in Used
  /\ \A m, k \in held : m.ptr = k.ptr => m = k

MallocInv ==
  /\ pool \subseteq Regions
  /\ HeapRight(heap, Live, Free, PoolCells)
  /\ HeldRight

-----------------------------------------------------------------------------
(* Numbers and addresses.                                                    *)

LEMMA Division ==
  ASSUME NEW a \in Nat, NEW n \in Nat \ {0}
  PROVE  /\ a \div n \in Nat /\ a % n \in 0 .. (n - 1)
         /\ a = (n * (a \div n)) + (a % n)
OBVIOUS

(* Remainders of multiples are zero.                                         *)
LEMMA Multiple ==
  ASSUME NEW q \in Nat, NEW n \in Nat \ {0}
  PROVE  (n * q) % n = 0
<1> DEFINE p == (n * q) \div n
           r == (n * q) % n
<1>1. n * q \in Nat
  OBVIOUS
<1>2. p \in Nat /\ r \in 0 .. (n - 1) /\ n * q = (n * p) + r
  BY <1>1, Division
<1> HIDE DEF p, r
<1>3. \A x, y \in Nat : x > y => n * x >= (n * y) + n
  <2> SUFFICES ASSUME NEW x \in Nat, NEW y \in Nat, x > y
               PROVE  n * x >= (n * y) + n
    OBVIOUS
  <2>1. \A z \in Nat : n * (y + 1 + z) = (n * y) + n + (n * z) /\ n * z >= 0
    OBVIOUS
  <2>2. x - (y + 1) \in Nat /\ x = y + 1 + (x - (y + 1))
    OBVIOUS
  <2> QED
    BY <2>1, <2>2
<1>4. n * p \in Nat
  BY <1>2
<1>5. ~(q > p)
  BY <1>1, <1>2, <1>3, <1>4
<1>6. ~(p > q)
  BY <1>1, <1>2, <1>3, <1>4
<1>7. p = q
  BY <1>2, <1>5, <1>6
<1>8. r = 0
  BY <1>2, <1>4, <1>7
<1> QED
  BY <1>8 DEF r

LEMMA Sums ==
  ASSUME NEW x \in Nat, NEW y \in Nat, NEW n \in Nat \ {0}, x % n = 0, y % n = 0
  PROVE  /\ (x + y) % n = 0
         /\ x >= y => (x - y) % n = 0
         /\ x > y => x >= y + n
<1> DEFINE p == x \div n
           q == y \div n
<1>1. p \in Nat /\ q \in Nat /\ x = n * p /\ y = n * q
  BY Division
<1> HIDE DEF p, q
<1>2. x + y = n * (p + q) /\ p + q \in Nat
  BY <1>1
<1>3. CASE p >= q
  <2>1. x - y = n * (p - q) /\ p - q \in Nat
    BY <1>1, <1>3
  <2>2. (x - y) % n = 0
    BY <2>1, Multiple
  <2>3. p # q => n * (p - q) >= n
    <3>1. \A z \in Nat : n * (1 + z) = n + (n * z) /\ n * z >= 0 /\ n * z \in Nat
      OBVIOUS
    <3> QED
      BY <1>1, <1>3, <3>1
  <2> QED
    BY <1>1, <1>2, <2>1, <2>2, <2>3, Multiple
<1>4. CASE ~(p >= q)
  <2>1. y = x + n * (q - p) /\ q - p \in Nat /\ q - p >= 1
    BY <1>1, <1>4
  <2>2. n * (q - p) >= 1
    <3>1. \A z \in Nat : n * (1 + z) = n + (n * z) /\ n * z >= 0 /\ n * z \in Nat
      OBVIOUS
    <3> QED
      BY <2>1, <3>1
  <2>3. n * (q - p) \in Nat
    BY <2>1
  <2> QED
    BY <1>2, <2>1, <2>2, <2>3, Multiple
<1> QED
  BY <1>3, <1>4

LEMMA NodeFacts ==
  /\ Hdr \in Nat \ {0}
  /\ Addrs \subseteq Nat
  /\ Head \in Nodes /\ Nil \notin Nodes /\ Nodes \subseteq Int
  /\ Address \in Ranks /\ \A a \in Nodes : Address[a] = a
  /\ \A a \in Nodes \ {Head} : a \in Nat /\ a % Hdr = 0 /\ a \in Addrs
  /\ \A a \in Addrs : a % Hdr = 0 => a \in Nodes \ {Head}
<1>1. Hdr \in Nat \ {0}
  BY SizesAssumption
<1>2. Addrs \subseteq Nat
  BY RegionsAssumption DEF Addrs, Cells
<1>3. Head \in Nodes /\ Nil \notin Nodes /\ Nodes \subseteq Int
  <2>1. Head \in Nodes
    BY DEF Nodes
  <2>2. \A a \in Nodes : a \in Nat \/ a = Head
    BY <1>2 DEF Nodes
  <2> QED
    BY <2>1, <2>2 DEF Head, Nil
<1>4. Address \in Ranks /\ \A a \in Nodes : Address[a] = a
  BY <1>3 DEF Address, Ranks
<1>5. \A a \in Nodes \ {Head} : a \in Nat /\ a % Hdr = 0 /\ a \in Addrs
  <2>1. \A a \in Nodes \ {Head} : a \in {b \in Addrs : b % Hdr = 0}
    BY Zenon DEF Nodes
  <2> QED
    BY <1>2, <2>1
<1>6. \A a \in Addrs : a % Hdr = 0 => a \in Nodes \ {Head}
  BY <1>2 DEF Nodes, Head
<1> QED
  BY <1>1, <1>2, <1>3, <1>4, <1>5, <1>6

(* Twice a header is a multiple of it.                                       *)
LEMMA TwoHeaders == 2 * Hdr \in Nat /\ (2 * Hdr) % Hdr = 0
<1>1. Hdr * 2 \in Nat /\ (Hdr * 2) % Hdr = 0
  BY NodeFacts, Multiple
<1> QED
  BY <1>1, NodeFacts

-----------------------------------------------------------------------------
(* The list operations on a heap of the right shape.                         *)

(* The fields of g are those of h split at nfp.                              *)
IsSplit(g, h, fp, nfp, n) ==
  /\ g.type = [h.type EXCEPT ![nfp] = "FREE", ![fp] = "USED"]
  /\ g.size = [h.size EXCEPT ![nfp] = h.size[fp] - n, ![fp] = n]
  /\ g.next = [h.next EXCEPT ![nfp] = h.next[fp], ![fp] = nfp]
  /\ g.prev = [h.prev EXCEPT ![nfp] = fp, ![h.next[fp]] = nfp]
  /\ g.next_free = [h.next_free EXCEPT ![fp] = Nil, ![nfp] = h.next_free[fp],
                                       ![h.prev_free[fp]] = nfp]
  /\ g.prev_free = [h.prev_free EXCEPT ![fp] = Nil, ![nfp] = h.prev_free[fp],
                                       ![h.next_free[fp]] = nfp]
  /\ g \in HeapType

LEMMA SplitFields ==
  ASSUME NEW h \in HeapType, NEW fp \in Nodes, NEW n \in Nat, fp + n \in Nodes,
         h.next[fp] \in Nodes, h.prev_free[fp] \in Nodes, h.next_free[fp] \in Nodes,
         h.size[fp] - n \in Nat
  PROVE  IsSplit(Split(h, fp, n), h, fp, fp + n, n)
<1> DEFINE g == Split(h, fp, n)
           nfp == fp + n
<1>1. g.type = [h.type EXCEPT ![nfp] = "FREE", ![fp] = "USED"]
  BY ZenonT(60) DEF Split, HeapType
<1>2. g.size = [h.size EXCEPT ![nfp] = h.size[fp] - n, ![fp] = n]
  BY ZenonT(60) DEF Split, HeapType
<1>3. g.next = [h.next EXCEPT ![nfp] = h.next[fp], ![fp] = nfp]
  BY ZenonT(60) DEF Split, HeapType
<1>4. g.prev = [h.prev EXCEPT ![nfp] = fp, ![h.next[fp]] = nfp]
  BY ZenonT(60) DEF Split, HeapType
<1>5. g.next_free = [h.next_free EXCEPT ![fp] = Nil, ![nfp] = h.next_free[fp],
                                      ![h.prev_free[fp]] = nfp]
  BY ZenonT(60) DEF Split, HeapType
<1>6. g.prev_free = [h.prev_free EXCEPT ![fp] = Nil, ![nfp] = h.prev_free[fp],
                                      ![h.next_free[fp]] = nfp]
  BY ZenonT(60) DEF Split, HeapType
<1>7. g \in HeapType
  <2> DEFINE h1 == [h EXCEPT !.type[nfp] = "FREE", !.size[nfp] = h.size[fp] - n,
                             !.type[fp] = "USED", !.size[fp] = n]
             h2 == [h1 EXCEPT !.prev[nfp] = fp, !.next[nfp] = h.next[fp],
                              !.prev[h.next[fp]] = nfp, !.next[fp] = nfp]
             h3 == [h2 EXCEPT !.next_free[fp] = Nil, !.prev_free[fp] = Nil,
                              !.next_free[nfp] = h.next_free[fp],
                              !.prev_free[nfp] = h.prev_free[fp]]
  <2>1. h1 \in HeapType
    BY DEF HeapType
  <2>2. h2 \in HeapType
    <3> HIDE DEF h1
    <3> QED
      BY <2>1 DEF HeapType, Links
  <2>3. h3 \in HeapType
    <3> HIDE DEF h2
    <3> QED
      BY <2>2 DEF HeapType, Links
  <2>4. [h3 EXCEPT !.prev_free[h.next_free[fp]] = nfp, !.next_free[h.prev_free[fp]] = nfp]
          \in HeapType
    <3> HIDE DEF h3
    <3> QED
      BY <2>3 DEF HeapType, Links
  <2>5. g = [h3 EXCEPT !.prev_free[h.next_free[fp]] = nfp, !.next_free[h.prev_free[fp]] = nfp]
    BY DEF Split
  <2> QED
    BY <2>4, <2>5
<1> HIDE DEF g
<1> QED
  BY <1>1, <1>2, <1>3, <1>4, <1>5, <1>6, <1>7, ZenonT(60) DEF g, IsSplit

(* What the shape says of a block.                                           *)
LEMMA BlockFacts ==
  ASSUME NEW h, NEW L, NEW F, NEW C, Shape(h, L, F, C), NEW a \in L
  PROVE  /\ a \in Nodes \ {Head} /\ a \in Nat /\ a % Hdr = 0
         /\ h.size[a] \in Nat /\ h.size[a] % Hdr = 0 /\ h.size[a] >= 2 * Hdr
         /\ h.next[a] \in L \union {Head} /\ h.prev[a] \in L \union {Head}
         /\ h.next[a] # Head => a < h.next[a] /\ a + h.size[a] <= h.next[a]
         /\ h.prev[a] # Head => h.prev[a] < a /\ h.prev[a] + h.size[h.prev[a]] <= a
         /\ \A c \in Nat : a <= c /\ c < a + h.size[a] => c \in C
<1>1. L \subseteq Nodes \ {Head} /\ L \subseteq Nat
  BY NodeFacts DEF Shape, Chain
<1>2. a \in Nodes \ {Head} /\ a \in Nat /\ a % Hdr = 0
  BY <1>1, NodeFacts
<1>3. h.size[a] \in Nat
  BY <1>2 DEF Shape, HeapType
<1>4. /\ h.next[a] \in L \union {Head} /\ h.prev[a] \in L \union {Head}
      /\ h.next[a] # Head => a < h.next[a]
  <2>1. /\ h.next[a] \in L \union {Head} /\ h.prev[a] \in L \union {Head}
        /\ h.next[a] # Head => Address[a] < Address[h.next[a]]
    BY DEF Shape, Chain
  <2> QED
    BY <1>1, <2>1, NodeFacts
<1>5. h.prev[a] # Head => h.prev[a] < a
  <2> SUFFICES ASSUME h.prev[a] # Head
               PROVE  h.prev[a] < a
    OBVIOUS
  <2>1. h.next[h.prev[a]] = a /\ h.prev[a] \in L
    BY <1>4 DEF Shape, Chain
  <2>2. Address[h.prev[a]] < Address[a]
    BY <1>2, <2>1 DEF Shape, Chain
  <2> QED
    BY <1>1, <2>1, <2>2, NodeFacts
<1>6. /\ h.size[a] % Hdr = 0 /\ h.size[a] >= 2 * Hdr
      /\ \A b \in L : a < b => a + h.size[a] <= b
      /\ \A b \in L : b < a => b + h.size[b] <= a
      /\ \A c \in Nat : a <= c /\ c < a + h.size[a] => c \in C
  BY DEF Shape, Tiled
<1> QED
  BY <1>2, <1>3, <1>4, <1>5, <1>6

(* A block that is split leaves two, of which the second is free.            *)
LEMMA SplitShape ==
  ASSUME NEW h, NEW L, NEW F, NEW C, Shape(h, L, F, C), NEW fp \in F, NEW n \in Nat,
         n % Hdr = 0, n >= 2 * Hdr, h.size[fp] >= n + 2 * Hdr
  PROVE  /\ fp + n \in Nodes \ (L \union {Head})
         /\ Shape(Split(h, fp, n), L \union {fp + n}, (F \ {fp}) \union {fp + n}, C)
<1> DEFINE g == Split(h, fp, n)
           nfp == fp + n
<1>1. fp \in L /\ F \subseteq L /\ Hdr \in Nat \ {0}
  BY NodeFacts DEF Shape
<1>2. /\ fp \in Nodes \ {Head} /\ fp \in Nat /\ fp % Hdr = 0
      /\ h.size[fp] \in Nat /\ h.size[fp] % Hdr = 0
      /\ h.next[fp] \in L \union {Head}
      /\ h.next[fp] # Head => fp + h.size[fp] <= h.next[fp]
  BY <1>1, BlockFacts
<1>3. nfp \in Nodes \ {Head} /\ nfp \in Nat /\ fp < nfp
  <2>1. nfp \in Nat /\ fp <= nfp /\ nfp < fp + h.size[fp] /\ fp < nfp
    BY <1>1, <1>2
  <2>2. nfp \in C /\ C \subseteq Addrs
    BY <1>1, <2>1, BlockFacts DEF Shape
  <2>3. nfp % Hdr = 0
    BY <1>1, <1>2, Sums
  <2> QED
    BY <2>1, <2>2, <2>3, NodeFacts
<1>4. nfp \notin L
  BY <1>1, <1>2, <1>3 DEF Shape, Tiled
<1>5. h \in HeapType /\ L \subseteq Nodes \ {Head} /\ L \subseteq Nat
  BY NodeFacts DEF Shape, Chain
<1> PICK m \in Nat : \E rank \in [Nodes -> 0 .. m] : Chain(rank, h.next_free, h.prev_free, F)
  BY DEF Shape, FreeChain
<1>6. PICK rank \in [Nodes -> 0 .. m] : Chain(rank, h.next_free, h.prev_free, F)
  OBVIOUS
<1>7. h.next_free[fp] \in F \union {Head} /\ h.prev_free[fp] \in F \union {Head}
  BY <1>6 DEF Chain
<1>8. IsSplit(g, h, fp, nfp, n)
  <2>1. h.next[fp] \in Nodes /\ h.prev_free[fp] \in Nodes /\ h.next_free[fp] \in Nodes
    BY <1>1, <1>2, <1>5, <1>7, NodeFacts
  <2>2. h.size[fp] - n \in Nat
    BY <1>1, <1>2
  <2>3. fp \in Nodes /\ fp + n \in Nodes
    BY <1>2, <1>3
  <2> QED
    BY <1>5, <2>1, <2>2, <2>3, SplitFields
<1> HIDE DEF g, nfp
<1>9. Chain(Address, g.next, g.prev, L \union {nfp})
  <2>1. Address[fp] = fp /\ Address[nfp] = nfp /\ Address[h.next[fp]] = h.next[fp]
    BY <1>1, <1>2, <1>3, <1>5, NodeFacts
  <2>3. h.next[fp] # Head => nfp < h.next[fp]
    <3>1. fp + n < fp + h.size[fp]
      BY <1>1, <1>2
    <3>2. h.next[fp] # Head => h.next[fp] \in Nat /\ fp + h.size[fp] <= h.next[fp]
      BY <1>2, <1>5
    <3> QED
      BY <1>1, <1>2, <3>1, <3>2 DEF nfp
  <2>2. Chain(Address, h.next, h.prev, L) /\ h.next \in Links /\ h.prev \in Links
    BY DEF Shape, HeapType
  <2>4. /\ nfp \in Nodes \ (L \union {Head}) /\ fp \in L \union {Head} /\ Address \in Ranks
        /\ Address[fp] < Address[nfp]
        /\ h.next[fp] # Head => Address[nfp] < Address[h.next[fp]]
    BY <1>1, <1>3, <1>4, <2>1, <2>3, NodeFacts
  <2>5. Chain(Address, [h.next EXCEPT ![nfp] = h.next[fp], ![fp] = nfp],
                       [h.prev EXCEPT ![nfp] = fp, ![h.next[fp]] = nfp], L \union {nfp})
    BY <2>2, <2>4, ChainInsert, Zenon
  <2> QED
    BY <1>8, <2>5, Zenon DEF IsSplit
<1>10. FreeChain(g, (F \ {fp}) \union {nfp})
  <2>1. rank \in Ranks /\ h.next_free \in Links /\ h.prev_free \in Links
    BY <1>6 DEF Shape, HeapType, Ranks
  <2>2. nfp \in Nodes \ (F \union {Head})
    BY <1>1, <1>3, <1>4
  <2>3. Chain([rank EXCEPT ![nfp] = rank[fp]], g.next_free, g.prev_free, (F \ {fp}) \union {nfp})
    <3>1. Chain([rank EXCEPT ![nfp] = rank[fp]],
                [h.next_free EXCEPT ![fp] = Nil, ![nfp] = h.next_free[fp],
                                    ![h.prev_free[fp]] = nfp],
                [h.prev_free EXCEPT ![fp] = Nil, ![nfp] = h.prev_free[fp],
                                    ![h.next_free[fp]] = nfp],
                (F \ {fp}) \union {nfp})
      BY <1>6, <2>1, <2>2, ChainReplace, Zenon
    <3> QED
      BY <1>8, <3>1, Zenon DEF IsSplit
  <2>4. [rank EXCEPT ![nfp] = rank[fp]] \in [Nodes -> 0 .. m]
    BY <1>2, <1>6
  <2> QED
    BY <2>3, <2>4 DEF FreeChain
<1>11. Owned(g, L \union {nfp}, (F \ {fp}) \union {nfp})
  <2>1. \A a \in Nodes \ {Head} : a \notin L \union {nfp} =>
          g.next[a] = h.next[a] /\ g.prev[a] = h.prev[a]
    BY <1>1, <1>2, <1>5, <1>8 DEF IsSplit, HeapType, Links
  <2>2. \A a \in Nodes \ {Head} : a \notin F \union {nfp} =>
          g.next_free[a] = h.next_free[a] /\ g.prev_free[a] = h.prev_free[a]
    BY <1>2, <1>5, <1>7, <1>8 DEF IsSplit, HeapType, Links
  <2>3. g.next_free[fp] = Nil /\ g.prev_free[fp] = Nil
    <3>1. h.prev_free[fp] # fp /\ h.next_free[fp] # fp
      <4>1. rank \in Ranks /\ h.next_free \in Links /\ h.prev_free \in Links
        BY <1>6 DEF Shape, HeapType, Ranks
      <4> QED
        BY <1>6, <4>1, ChainRemove, Zenon
    <3> QED
      BY <1>2, <1>3, <1>5, <1>8, <3>1 DEF IsSplit, HeapType, Links
  <2> QED
    BY <2>1, <2>2, <2>3 DEF Owned, Shape
<1>12. Tiled(g, L \union {nfp}, C)
  <2>1. /\ g.size[nfp] = h.size[fp] - n /\ g.size[fp] = n
        /\ \A a \in L : a # fp => g.size[a] = h.size[a]
    BY <1>2, <1>3, <1>4, <1>5, <1>8 DEF IsSplit, HeapType
  <2>2. \A a \in L \union {nfp} : g.size[a] >= 2 * Hdr /\ g.size[a] % Hdr = 0
    <3>1. (h.size[fp] - n) % Hdr = 0 /\ h.size[fp] - n >= 2 * Hdr
      <4>1. h.size[fp] >= n
        BY <1>1, <1>2
      <4>2. (h.size[fp] - n) % Hdr = 0
        BY <1>1, <1>2, <4>1, Sums, Zenon
      <4> QED
        BY <1>1, <1>2, <4>2
    <3>2. \A a \in L : h.size[a] >= 2 * Hdr /\ h.size[a] % Hdr = 0
      BY DEF Shape, Tiled
    <3> QED
      BY <1>1, <2>1, <3>1, <3>2
  <2>3. \A a \in L : h.size[a] \in Nat
    BY <1>5 DEF HeapType
  <2>4. \A a, b \in L \union {nfp} : a < b => a + g.size[a] <= b
    <3>1. \A a, b \in L : a < b => a + h.size[a] <= b
      BY DEF Shape, Tiled
    <3> QED
      BY <1>1, <1>2, <1>3, <1>5, <2>1, <2>3, <3>1 DEF nfp
  <2>5. \A c \in Nat : c \in C <=> \E a \in L \union {nfp} : a <= c /\ c < a + g.size[a]
    <3>1. \A c \in Nat : c \in C <=> \E a \in L : a <= c /\ c < a + h.size[a]
      BY DEF Shape, Tiled
    <3>2. ASSUME NEW c \in Nat
          PROVE  (\E a \in L : a <= c /\ c < a + h.size[a])
                   <=> \E a \in L \union {nfp} : a <= c /\ c < a + g.size[a]
      BY <1>1, <1>2, <1>3, <1>4, <1>5, <2>1, <2>3 DEF nfp
    <3> QED
      BY <3>1, <3>2
  <2> QED
    BY <2>2, <2>4, <2>5 DEF Tiled
<1>13. IsFiniteSet(L \union {nfp}) /\ C \subseteq Addrs
  BY FS_AddElement DEF Shape
<1> QED
  BY <1>1, <1>3, <1>4, <1>8, <1>9, <1>10, <1>11, <1>12, <1>13 DEF Shape, IsSplit, g, nfp

(* A free block that is taken whole leaves the free chain.                   *)
Taken(h, fp) == remove_from_free_chain([h EXCEPT !.type[fp] = "USED"], fp)

IsTaken(g, h, fp) ==
  /\ g.type = [h.type EXCEPT ![fp] = "USED"]
  /\ g.size = h.size /\ g.next = h.next /\ g.prev = h.prev
  /\ g.next_free = [h.next_free EXCEPT ![fp] = Nil, ![h.prev_free[fp]] = h.next_free[fp]]
  /\ g.prev_free = [h.prev_free EXCEPT ![fp] = Nil, ![h.next_free[fp]] = h.prev_free[fp]]
  /\ g \in HeapType

LEMMA TakenFields ==
  ASSUME NEW h \in HeapType, NEW fp \in Nodes,
         h.prev_free[fp] \in Nodes, h.next_free[fp] \in Nodes
  PROVE  IsTaken(Taken(h, fp), h, fp)
<1> DEFINE g == Taken(h, fp)
<1>1. g.type = [h.type EXCEPT ![fp] = "USED"]
  BY DEF Taken, remove_from_free_chain, HeapType
<1>2. g.size = h.size /\ g.next = h.next /\ g.prev = h.prev
  BY DEF Taken, remove_from_free_chain, HeapType
<1>3. g.next_free = [h.next_free EXCEPT ![fp] = Nil, ![h.prev_free[fp]] = h.next_free[fp]]
  BY DEF Taken, remove_from_free_chain, HeapType
<1>4. g.prev_free = [h.prev_free EXCEPT ![fp] = Nil, ![h.next_free[fp]] = h.prev_free[fp]]
  BY DEF Taken, remove_from_free_chain, HeapType
<1>5. g \in HeapType
  BY DEF Taken, remove_from_free_chain, HeapType, Links
<1> HIDE DEF g
<1> QED
  BY <1>1, <1>2, <1>3, <1>4, <1>5, Zenon DEF g, IsTaken

LEMMA TakenShape ==
  ASSUME NEW h, NEW L, NEW F, NEW C, Shape(h, L, F, C), NEW fp \in F
  PROVE  /\ IsTaken(Taken(h, fp), h, fp)
         /\ Shape(Taken(h, fp), L, F \ {fp}, C)
<1> DEFINE g == Taken(h, fp)
<1>1. /\ fp \in L /\ F \subseteq L /\ fp \in Nodes \ {Head} /\ L \subseteq Nodes \ {Head}
      /\ h \in HeapType /\ h.next_free \in Links /\ h.prev_free \in Links
  BY DEF Shape, Chain, HeapType
<1> PICK m \in Nat : \E rank \in [Nodes -> 0 .. m] : Chain(rank, h.next_free, h.prev_free, F)
  BY DEF Shape, FreeChain
<1>2. PICK rank \in [Nodes -> 0 .. m] : Chain(rank, h.next_free, h.prev_free, F)
  OBVIOUS
<1>3. h.next_free[fp] \in F \union {Head} /\ h.prev_free[fp] \in F \union {Head}
  BY <1>2 DEF Chain
<1>4. IsTaken(g, h, fp)
  <2>1. fp \in Nodes /\ h.prev_free[fp] \in Nodes /\ h.next_free[fp] \in Nodes
    BY <1>1, <1>3, NodeFacts
  <2> QED
    BY <1>1, <2>1, TakenFields
<1> HIDE DEF g
<1>5. rank \in Ranks
  BY <1>2 DEF Ranks
<1>6. /\ h.prev_free[fp] # fp /\ h.next_free[fp] # fp
      /\ Chain(rank, [h.next_free EXCEPT ![fp] = Nil, ![h.prev_free[fp]] = h.next_free[fp]],
                     [h.prev_free EXCEPT ![fp] = Nil, ![h.next_free[fp]] = h.prev_free[fp]],
                     F \ {fp})
  BY <1>1, <1>2, <1>5, ChainRemove, Zenon
<1>7. FreeChain(g, F \ {fp})
  <2>1. Chain(rank, g.next_free, g.prev_free, F \ {fp})
    BY <1>4, <1>6, Zenon DEF IsTaken
  <2> QED
    BY <1>2, <2>1, Zenon DEF FreeChain
<1>8. Owned(g, L, F \ {fp})
  <2>1. \A a \in Nodes \ {Head} : a \notin F =>
          g.next_free[a] = h.next_free[a] /\ g.prev_free[a] = h.prev_free[a]
    BY <1>1, <1>3, <1>4 DEF IsTaken, Links
  <2>2. g.next_free[fp] = Nil /\ g.prev_free[fp] = Nil
    BY <1>1, <1>4, <1>6 DEF IsTaken, Links
  <2> QED
    BY <1>4, <2>1, <2>2 DEF Owned, Shape, IsTaken
<1>9. Tiled(g, L, C) /\ Chain(Address, g.next, g.prev, L)
  BY <1>4 DEF Shape, Tiled, IsTaken
<1> QED
  BY <1>1, <1>4, <1>7, <1>8, <1>9 DEF Shape, IsTaken, g

(* A block that is not free is put at the front of the free chain.           *)
IsFreed(g, h, ah) ==
  /\ g.type = [h.type EXCEPT ![ah] = "FREE"]
  /\ g.size = h.size /\ g.next = h.next /\ g.prev = h.prev
  /\ g.next_free = [h.next_free EXCEPT ![ah] = h.next_free[Head], ![Head] = ah]
  /\ g.prev_free = [h.prev_free EXCEPT ![ah] = Head, ![h.next_free[Head]] = ah]
  /\ g \in HeapType

LEMMA FreedFields ==
  ASSUME NEW h \in HeapType, NEW ah \in Nodes, h.next_free[Head] \in Nodes
  PROVE  IsFreed(AddFree(h, ah), h, ah)
<1> DEFINE g == AddFree(h, ah)
<1>1. g.type = [h.type EXCEPT ![ah] = "FREE"]
  BY DEF AddFree, HeapType
<1>2. g.size = h.size /\ g.next = h.next /\ g.prev = h.prev
  BY DEF AddFree, HeapType
<1>3. g.next_free = [h.next_free EXCEPT ![ah] = h.next_free[Head], ![Head] = ah]
  BY DEF AddFree, HeapType
<1>4. g.prev_free = [h.prev_free EXCEPT ![ah] = Head, ![h.next_free[Head]] = ah]
  BY DEF AddFree, HeapType
<1>5. g \in HeapType
  BY NodeFacts DEF AddFree, HeapType, Links
<1> HIDE DEF g
<1> QED
  BY <1>1, <1>2, <1>3, <1>4, <1>5, Zenon DEF g, IsFreed

LEMMA FreedShape ==
  ASSUME NEW h, NEW L, NEW F, NEW C, Shape(h, L, F, C), NEW ah \in L \ F
  PROVE  /\ IsFreed(AddFree(h, ah), h, ah)
         /\ Shape(AddFree(h, ah), L, F \union {ah}, C)
<1> DEFINE g == AddFree(h, ah)
<1>1. /\ F \subseteq L /\ ah \in Nodes \ {Head} /\ L \subseteq Nodes \ {Head} /\ Head \in Nodes
      /\ h \in HeapType /\ h.next_free \in Links /\ h.prev_free \in Links
  BY NodeFacts DEF Shape, Chain, HeapType
<1> PICK m \in Nat : \E rank \in [Nodes -> 0 .. m] : Chain(rank, h.next_free, h.prev_free, F)
  BY DEF Shape, FreeChain
<1>2. PICK rank \in [Nodes -> 0 .. m] : Chain(rank, h.next_free, h.prev_free, F)
  OBVIOUS
<1>3. h.next_free[Head] \in F \union {Head}
  BY <1>2 DEF Chain
<1>4. IsFreed(g, h, ah)
  <2>1. ah \in Nodes /\ h.next_free[Head] \in Nodes
    BY <1>1, <1>3
  <2> QED
    BY <1>1, <2>1, FreedFields
<1> HIDE DEF g
<1> DEFINE r == [a \in Nodes |-> IF a = Head THEN 0 ELSE IF a = ah THEN 1
                                 ELSE IF a \in F THEN rank[a] + 1 ELSE 0]
<1>5. r \in [Nodes -> 0 .. (m + 1)] /\ r \in Ranks /\ rank \in Ranks
  BY <1>2 DEF Ranks
<1>6. Chain(r, h.next_free, h.prev_free, F)
  <2>1. \A a \in F : rank[Head] < rank[a] /\ r[a] = rank[a] + 1 /\ a # Head
    BY <1>1, <1>2 DEF Chain
  <2>2. r[Head] = 0 /\ \A a \in F \union {Head} : rank[a] \in Nat /\ r[a] \in Nat
    BY <1>1, <1>2, <1>5
  <2> HIDE DEF r
  <2>3. \A a, b \in F \union {Head} : rank[a] < rank[b] <=> r[a] < r[b]
    BY <2>1, <2>2
  <2> QED
    BY <1>2, <1>5, <2>3, ChainRerank, Zenon
<1>7. Chain(r, g.next_free, g.prev_free, F \union {ah})
  <2>1. r[Head] < r[ah] /\ (h.next_free[Head] # Head => r[ah] < r[h.next_free[Head]])
    <3>1. r[Head] = 0 /\ r[ah] = 1
      BY <1>1
    <3>2. \A a \in F : r[a] = rank[a] + 1 /\ rank[a] \in Nat /\ rank[Head] \in Nat /\ rank[Head] < rank[a]
      BY <1>1, <1>2 DEF Chain
    <3> HIDE DEF r
    <3> QED
      BY <1>3, <3>1, <3>2
  <2>2. ah \in Nodes \ (F \union {Head}) /\ Head \in F \union {Head}
    BY <1>1
  <2> HIDE DEF r
  <2>3. Chain(r, [h.next_free EXCEPT ![ah] = h.next_free[Head], ![Head] = ah],
                 [h.prev_free EXCEPT ![ah] = Head, ![h.next_free[Head]] = ah], F \union {ah})
    BY <1>1, <1>5, <1>6, <2>1, <2>2, ChainInsert, Zenon
  <2> QED
    BY <1>4, <2>3, Zenon DEF IsFreed
<1> HIDE DEF r
<1>8. FreeChain(g, F \union {ah})
  <2>1. m + 1 \in Nat
    OBVIOUS
  <2> QED
    BY <1>5, <1>7, <2>1, Zenon DEF FreeChain
<1>9. Owned(g, L, F \union {ah})
  <2>1. \A a \in Nodes \ {Head} : a \notin F \union {ah} =>
          g.next_free[a] = h.next_free[a] /\ g.prev_free[a] = h.prev_free[a]
    BY <1>1, <1>3, <1>4 DEF IsFreed, Links
  <2> QED
    BY <1>4, <2>1 DEF Owned, Shape, IsFreed
<1>10. Tiled(g, L, C) /\ Chain(Address, g.next, g.prev, L)
  BY <1>4 DEF Shape, Tiled, IsFreed
<1> QED
  BY <1>1, <1>4, <1>8, <1>9, <1>10 DEF Shape, IsFreed, g

-----------------------------------------------------------------------------
(* Joining blocks.                                                           *)

(* In g, the block a has got the memory of the next block b.                  *)
IsMerged(g, h, L, a, b) ==
  /\ L \subseteq Nat /\ a \in L /\ b \in L
  /\ \A c \in L : h.size[c] \in Nat
  /\ a + h.size[a] = b
  /\ g.size[a] = h.size[a] + h.size[b]
  /\ \A c \in L : c # a /\ c # b => g.size[c] = h.size[c]

LEMMA TiledMerge ==
  ASSUME NEW h, NEW g, NEW L, NEW C, NEW a, NEW b, Tiled(h, L, C), IsMerged(g, h, L, a, b)
  PROVE  Tiled(g, L \ {b}, C)
<1> /\ L \subseteq Nat /\ a \in L /\ b \in L /\ \A c \in L : h.size[c] \in Nat
    /\ a + h.size[a] = b /\ g.size[a] = h.size[a] + h.size[b]
    /\ \A c \in L : c # a /\ c # b => g.size[c] = h.size[c]
  BY DEF IsMerged
<1>1. Hdr \in Nat \ {0} /\ a \in Nat /\ b \in Nat /\ h.size[a] \in Nat /\ h.size[b] \in Nat
  BY NodeFacts
<1>2. /\ \A c \in L : h.size[c] >= 2 * Hdr /\ h.size[c] % Hdr = 0
      /\ \A c, d \in L : c < d => c + h.size[c] <= d
      /\ \A c \in Nat : c \in C <=> \E d \in L : d <= c /\ c < d + h.size[d]
  BY DEF Tiled
<1>3. (h.size[a] + h.size[b]) % Hdr = 0
  BY <1>1, <1>2, Sums, Zenon
<1>4. \A c \in L \ {b} : g.size[c] >= 2 * Hdr /\ g.size[c] % Hdr = 0
  <2>1. h.size[a] >= 2 * Hdr
    BY <1>2
  <2>2. h.size[a] + h.size[b] >= 2 * Hdr
    BY <1>1, <2>1
  <2>3. g.size[a] >= 2 * Hdr /\ g.size[a] % Hdr = 0
    BY <1>3, <2>2, Zenon
  <2>4. \A c \in L \ {b} : c # a => g.size[c] = h.size[c]
    OBVIOUS
  <2> QED
    BY <1>2, <2>3, <2>4, Zenon
<1>5. a < b
  BY <1>1, <1>2
<1>6. \A c, d \in L \ {b} : c < d => c + g.size[c] <= d
  BY <1>1, <1>2, <1>5
<1>7. \A c \in Nat : c \in C <=> \E d \in L \ {b} : d <= c /\ c < d + g.size[d]
  <2>1. ASSUME NEW c \in Nat
        PROVE  (\E d \in L : d <= c /\ c < d + h.size[d])
                 <=> \E d \in L \ {b} : d <= c /\ c < d + g.size[d]
    BY <1>1, <1>5
  <2> QED
    BY <1>2, <2>1
<1> QED
  BY <1>4, <1>6, <1>7 DEF Tiled

IsAbsorbed(g, h, pah, ah) ==
  /\ g.type = [h.type EXCEPT ![ah] = "none"]
  /\ g.size = [h.size EXCEPT ![pah] = h.size[pah] + h.size[ah], ![ah] = 0]
  /\ g.next = [h.next EXCEPT ![ah] = Nil, ![h.prev[ah]] = h.next[ah]]
  /\ g.prev = [h.prev EXCEPT ![ah] = Nil, ![h.next[ah]] = h.prev[ah]]
  /\ g.next_free = h.next_free /\ g.prev_free = h.prev_free
  /\ g \in HeapType

LEMMA AbsorbedFields ==
  ASSUME NEW h \in HeapType, NEW ah \in Nodes, NEW pah \in Nodes, h.prev[ah] = pah,
         h.next[ah] \in Nodes, pah # ah, h.next[ah] # ah
  PROVE  IsAbsorbed(Absorb(h, pah, ah), h, pah, ah)
<1> DEFINE g == Absorb(h, pah, ah)
<1>1. g.type = [h.type EXCEPT ![ah] = "none"]
  BY DEF Absorb, HeapType
<1>2. g.size = [h.size EXCEPT ![pah] = h.size[pah] + h.size[ah], ![ah] = 0]
  BY DEF Absorb, HeapType
<1>3. g.next = [h.next EXCEPT ![ah] = Nil, ![h.prev[ah]] = h.next[ah]]
  <2>1. g.next = [h.next EXCEPT ![pah] = h.next[ah], ![ah] = Nil]
    BY DEF Absorb, HeapType
  <2>2. h.next \in Links
    BY DEF HeapType
  <2> HIDE DEF g
  <2> QED
    BY <2>1, <2>2 DEF Links
<1>4. g.prev = [h.prev EXCEPT ![ah] = Nil, ![h.next[ah]] = h.prev[ah]]
  <2>1. g.prev = [h.prev EXCEPT ![h.next[ah]] = pah, ![ah] = Nil]
    BY DEF Absorb, HeapType
  <2>2. h.prev \in Links
    BY DEF HeapType
  <2> HIDE DEF g
  <2> QED
    BY <2>1, <2>2 DEF Links
<1>5. g.next_free = h.next_free /\ g.prev_free = h.prev_free
  BY DEF Absorb, HeapType
<1>6. g \in HeapType
  <2> DEFINE h1 == [h EXCEPT !.size[pah] = @ + h.size[ah], !.next[pah] = h.next[ah],
                             !.prev[h.next[ah]] = pah]
  <2>1. h1 \in HeapType
    <3>1. h.size[pah] + h.size[ah] \in Nat
      BY DEF HeapType
    <3>2. [h EXCEPT !.size[pah] = @ + h.size[ah]] \in HeapType
      BY <3>1 DEF HeapType
    <3> QED
      BY <3>2 DEF HeapType, Links
  <2>2. g = [h1 EXCEPT !.type[ah] = "none", !.size[ah] = 0, !.next[ah] = Nil, !.prev[ah] = Nil]
    BY DEF Absorb
  <2> HIDE DEF g, h1
  <2> QED
    BY <2>1, <2>2 DEF HeapType, Links
<1> HIDE DEF g
<1> QED
  BY <1>1, <1>2, <1>3, <1>4, <1>5, <1>6, Zenon DEF g, IsAbsorbed

LEMMA AbsorbedShape ==
  ASSUME NEW h, NEW L, NEW F, NEW C, Shape(h, L, F, C), NEW ah \in L \ F,
         h.prev[ah] \in F, h.prev[ah] + h.size[h.prev[ah]] = ah
  PROVE  /\ IsAbsorbed(Absorb(h, h.prev[ah], ah), h, h.prev[ah], ah)
         /\ Shape(Absorb(h, h.prev[ah], ah), L \ {ah}, F, C)
<1> DEFINE pah == h.prev[ah]
           g == Absorb(h, pah, ah)
<1>1. /\ F \subseteq L /\ ah \in Nodes \ {Head} /\ L \subseteq Nodes \ {Head} /\ L \subseteq Nat
      /\ pah \in L /\ pah \in Nodes /\ ah \in Nodes
      /\ h \in HeapType /\ h.next \in Links /\ h.prev \in Links /\ Head \in Nodes
  BY NodeFacts DEF Shape, Chain, HeapType
<1>2. h.next[ah] \in L \union {Head} /\ h.next[ah] \in Nodes
  BY <1>1, BlockFacts
<1>3. /\ pah # ah /\ h.next[ah] # ah
      /\ Chain(Address, [h.next EXCEPT ![ah] = Nil, ![h.prev[ah]] = h.next[ah]],
                        [h.prev EXCEPT ![ah] = Nil, ![h.next[ah]] = h.prev[ah]], L \ {ah})
  <2>1. Address \in Ranks /\ Chain(Address, h.next, h.prev, L)
    BY NodeFacts DEF Shape
  <2> QED
    BY <1>1, <2>1, ChainRemove, Zenon
<1>4. IsAbsorbed(g, h, pah, ah)
  BY <1>1, <1>2, <1>3, AbsorbedFields
<1> HIDE DEF g
<1>5. Chain(Address, g.next, g.prev, L \ {ah})
  BY <1>3, <1>4, Zenon DEF IsAbsorbed
<1>6. FreeChain(g, F)
  BY <1>4 DEF Shape, FreeChain, IsAbsorbed
<1>7. Owned(g, L \ {ah}, F)
  <2>1. \A a \in Nodes \ {Head} : a \notin L => g.next[a] = h.next[a] /\ g.prev[a] = h.prev[a]
    BY <1>1, <1>2, <1>4 DEF IsAbsorbed, Links
  <2>2. g.next[ah] = Nil /\ g.prev[ah] = Nil
    BY <1>1, <1>3, <1>4 DEF IsAbsorbed, Links
  <2> QED
    BY <1>4, <2>1, <2>2 DEF Owned, Shape, IsAbsorbed
<1>8. Tiled(g, L \ {ah}, C)
  <2>1. \A c \in L : h.size[c] \in Nat
    BY <1>1 DEF HeapType
  <2>2. /\ g.size[pah] = h.size[pah] + h.size[ah]
        /\ \A c \in L : c # pah /\ c # ah => g.size[c] = h.size[c]
    BY <1>1, <1>3, <1>4 DEF IsAbsorbed, HeapType
  <2>3. Tiled(h, L, C)
    BY DEF Shape
  <2>4. IsMerged(g, h, L, pah, ah)
    BY <1>1, <2>1, <2>2 DEF IsMerged
  <2> QED
    BY <2>3, <2>4, TiledMerge
<1>9. IsFiniteSet(L \ {ah}) /\ C \subseteq Addrs
  BY FS_RemoveElement DEF Shape
<1> QED
  BY <1>1, <1>4, <1>5, <1>6, <1>7, <1>8, <1>9 DEF Shape, IsAbsorbed, g, pah

Joined(h, ah, nah) == remove_from_chains([h EXCEPT !.size[ah] = @ + h.size[nah]], nah)

IsJoined(g, h, ah, nah) ==
  /\ g.type = [h.type EXCEPT ![nah] = "none"]
  /\ g.size = [h.size EXCEPT ![ah] = h.size[ah] + h.size[nah], ![nah] = 0]
  /\ g.next = [h.next EXCEPT ![nah] = Nil, ![h.prev[nah]] = h.next[nah]]
  /\ g.prev = [h.prev EXCEPT ![nah] = Nil, ![h.next[nah]] = h.prev[nah]]
  /\ g.next_free = [h.next_free EXCEPT ![nah] = Nil, ![h.prev_free[nah]] = h.next_free[nah]]
  /\ g.prev_free = [h.prev_free EXCEPT ![nah] = Nil, ![h.next_free[nah]] = h.prev_free[nah]]
  /\ g \in HeapType

LEMMA JoinedFields ==
  ASSUME NEW h \in HeapType, NEW ah \in Nodes, NEW nah \in Nodes,
         h.prev[nah] \in Nodes, h.next[nah] \in Nodes,
         h.prev_free[nah] \in Nodes, h.next_free[nah] \in Nodes
  PROVE  IsJoined(Joined(h, ah, nah), h, ah, nah)
<1> DEFINE h1 == [h EXCEPT !.size[ah] = @ + h.size[nah]]
           h2 == remove_from_free_chain(h1, nah)
           g  == remove_from_main_chain(h2, nah)
<1>1. /\ h1.type = h.type /\ h1.size = [h.size EXCEPT ![ah] = h.size[ah] + h.size[nah]]
      /\ h1.next = h.next /\ h1.prev = h.prev
      /\ h1.next_free = h.next_free /\ h1.prev_free = h.prev_free
      /\ h1 \in HeapType
  BY DEF HeapType
<1> HIDE DEF h1
<1>2. /\ h2.type = h1.type /\ h2.size = h1.size /\ h2.next = h1.next /\ h2.prev = h1.prev
      /\ h2.next_free = [h1.next_free EXCEPT ![nah] = Nil, ![h1.prev_free[nah]] = h1.next_free[nah]]
      /\ h2.prev_free = [h1.prev_free EXCEPT ![nah] = Nil, ![h1.next_free[nah]] = h1.prev_free[nah]]
      /\ h2 \in HeapType
  BY <1>1 DEF remove_from_free_chain, HeapType, Links
<1> HIDE DEF h2
<1>3. /\ g.type = [h2.type EXCEPT ![nah] = "none"] /\ g.size = [h2.size EXCEPT ![nah] = 0]
      /\ g.next = [h2.next EXCEPT ![nah] = Nil, ![h2.prev[nah]] = h2.next[nah]]
      /\ g.prev = [h2.prev EXCEPT ![nah] = Nil, ![h2.next[nah]] = h2.prev[nah]]
      /\ g.next_free = h2.next_free /\ g.prev_free = h2.prev_free
      /\ g \in HeapType
  BY <1>1, <1>2, ZenonT(60) DEF remove_from_main_chain, HeapType, Links
<1> HIDE DEF g
<1>4. g = Joined(h, ah, nah)
  BY DEF g, h2, h1, Joined, remove_from_chains
<1>5. g.size = [h.size EXCEPT ![ah] = h.size[ah] + h.size[nah], ![nah] = 0]
  BY <1>1, <1>2, <1>3
<1> QED
  BY <1>1, <1>2, <1>3, <1>4, <1>5, Zenon DEF IsJoined

LEMMA JoinedShape ==
  ASSUME NEW h, NEW L, NEW F, NEW C, Shape(h, L, F, C), NEW ah \in F,
         h.next[ah] \in F, ah + h.size[ah] = h.next[ah]
  PROVE  /\ IsJoined(Joined(h, ah, h.next[ah]), h, ah, h.next[ah])
         /\ h.next[ah] # ah
         /\ Shape(Joined(h, ah, h.next[ah]), L \ {h.next[ah]}, F \ {h.next[ah]}, C)
<1> DEFINE nah == h.next[ah]
           g == Joined(h, ah, nah)
<1>1. /\ F \subseteq L /\ L \subseteq Nodes \ {Head} /\ L \subseteq Nat /\ Head \in Nodes
      /\ ah \in L /\ nah \in L /\ ah \in Nodes \ {Head} /\ nah \in Nodes \ {Head}
      /\ h \in HeapType /\ h.next \in Links /\ h.prev \in Links
      /\ h.next_free \in Links /\ h.prev_free \in Links
      /\ Address \in Ranks /\ Chain(Address, h.next, h.prev, L)
  BY NodeFacts DEF Shape, Chain, HeapType
<1> PICK m \in Nat : \E rank \in [Nodes -> 0 .. m] : Chain(rank, h.next_free, h.prev_free, F)
  BY DEF Shape, FreeChain
<1>2. PICK rank \in [Nodes -> 0 .. m] : Chain(rank, h.next_free, h.prev_free, F)
  OBVIOUS
<1>3. h.next_free[nah] \in F \union {Head} /\ h.prev_free[nah] \in F \union {Head}
  BY <1>2 DEF Chain
<1>4. h.next[nah] \in L \union {Head} /\ h.prev[nah] = ah
  BY <1>1 DEF Chain
<1>5. IsJoined(g, h, ah, nah)
  <2>1. /\ ah \in Nodes /\ nah \in Nodes /\ h.prev[nah] \in Nodes /\ h.next[nah] \in Nodes
        /\ h.prev_free[nah] \in Nodes /\ h.next_free[nah] \in Nodes
    BY <1>1, <1>3, <1>4
  <2> HIDE DEF nah
  <2> QED
    BY <1>1, <2>1, JoinedFields
<1> HIDE DEF g
<1>6. /\ h.prev[nah] # nah /\ h.next[nah] # nah
      /\ Chain(Address, [h.next EXCEPT ![nah] = Nil, ![h.prev[nah]] = h.next[nah]],
                        [h.prev EXCEPT ![nah] = Nil, ![h.next[nah]] = h.prev[nah]], L \ {nah})
  <2> HIDE DEF nah
  <2> QED
    BY <1>1, ChainRemove, Zenon
<1>7. Chain(Address, g.next, g.prev, L \ {nah})
  <2> HIDE DEF nah
  <2> QED
    BY <1>5, <1>6, Zenon DEF IsJoined
<1>8. /\ h.prev_free[nah] # nah /\ h.next_free[nah] # nah
      /\ Chain(rank, [h.next_free EXCEPT ![nah] = Nil, ![h.prev_free[nah]] = h.next_free[nah]],
                     [h.prev_free EXCEPT ![nah] = Nil, ![h.next_free[nah]] = h.prev_free[nah]],
                     F \ {nah})
  <2>1. rank \in Ranks
    BY <1>2 DEF Ranks
  <2> HIDE DEF nah
  <2>2. nah \in F
    BY DEF nah
  <2> QED
    BY <1>1, <1>2, <2>1, <2>2, ChainRemove, Zenon
<1>9. FreeChain(g, F \ {nah})
  <2> HIDE DEF nah
  <2>1. Chain(rank, g.next_free, g.prev_free, F \ {nah})
    BY <1>5, <1>8, Zenon DEF IsJoined
  <2> QED
    BY <1>2, <2>1, Zenon DEF FreeChain
<1> HIDE DEF nah
<1>10. Owned(g, L \ {nah}, F \ {nah})
  <2>1. \A a \in Nodes \ {Head} : a \notin L => g.next[a] = h.next[a] /\ g.prev[a] = h.prev[a]
    BY <1>1, <1>4, <1>5 DEF IsJoined, Links
  <2>2. \A a \in Nodes \ {Head} : a \notin F =>
          g.next_free[a] = h.next_free[a] /\ g.prev_free[a] = h.prev_free[a]
    BY <1>1, <1>3, <1>5, <1>9 DEF IsJoined, Links, nah
  <2>3. g.next[nah] = Nil /\ g.prev[nah] = Nil
    BY <1>1, <1>5, <1>6 DEF IsJoined, Links
  <2>4. g.next_free[nah] = Nil /\ g.prev_free[nah] = Nil
    BY <1>1, <1>5, <1>8 DEF IsJoined, Links
  <2> QED
    BY <2>1, <2>2, <2>3, <2>4 DEF Owned, Shape
<1>11. Tiled(g, L \ {nah}, C)
  <2>1. \A c \in L : h.size[c] \in Nat
    BY <1>1 DEF HeapType
  <2>2. /\ g.size[ah] = h.size[ah] + h.size[nah]
        /\ \A c \in L : c # ah /\ c # nah => g.size[c] = h.size[c]
    BY <1>1, <1>4, <1>5, <1>6 DEF IsJoined, HeapType
  <2>3. Tiled(h, L, C) /\ ah + h.size[ah] = nah
    BY DEF Shape, nah
  <2>4. L \subseteq Nat /\ ah \in L /\ nah \in L
    BY <1>1
  <2>5. IsMerged(g, h, L, ah, nah)
    BY <2>1, <2>2, <2>3, <2>4 DEF IsMerged
  <2> QED
    BY <2>3, <2>5, TiledMerge
<1>12. IsFiniteSet(L \ {nah}) /\ C \subseteq Addrs
  BY FS_RemoveElement DEF Shape
<1>13. nah # ah
  BY <1>4, <1>6
<1>14. F \ {nah} \subseteq L \ {nah}
  BY <1>1
<1>15. Shape(g, L \ {nah}, F \ {nah}, C)
  BY <1>5, <1>7, <1>9, <1>10, <1>11, <1>12, <1>14, Zenon DEF Shape, IsJoined
<1> QED
  BY <1>5, <1>13, <1>15 DEF g, nah

-----------------------------------------------------------------------------
(* A region that is added becomes a block between pah and the next.          *)

Marking(h, p, z) == [h EXCEPT !.type[p] = "FREE", !.size[p] = z]

IsInserted(g, h, p, pah, z) ==
  /\ g.type = [h.type EXCEPT ![p] = "FREE"]
  /\ g.size = [h.size EXCEPT ![p] = z]
  /\ g.next = [h.next EXCEPT ![p] = h.next[pah], ![pah] = p]
  /\ g.prev = [h.prev EXCEPT ![p] = pah, ![h.next[pah]] = p]
  /\ g.next_free = h.next_free /\ g.prev_free = h.prev_free
  /\ g \in HeapType

LEMMA InsertedFields ==
  ASSUME NEW h \in HeapType, NEW p \in Nodes, NEW pah \in Nodes, NEW z \in Nat,
         h.next[pah] \in Nodes
  PROVE  IsInserted(Insert(Marking(h, p, z), p, pah), h, p, pah, z)
<1> DEFINE h1 == Marking(h, p, z)
           g  == Insert(h1, p, pah)
<1>1. /\ h1.type = [h.type EXCEPT ![p] = "FREE"] /\ h1.size = [h.size EXCEPT ![p] = z]
      /\ h1.next = h.next /\ h1.prev = h.prev
      /\ h1.next_free = h.next_free /\ h1.prev_free = h.prev_free
      /\ h1 \in HeapType
  BY DEF Marking, HeapType
<1> HIDE DEF h1
<1>2. g.next = [h1.next EXCEPT ![p] = h1.next[pah], ![pah] = p]
  BY <1>1 DEF Insert, HeapType
<1>3. g.prev = [h1.prev EXCEPT ![p] = pah, ![h1.next[pah]] = p]
  BY <1>1 DEF Insert, HeapType
<1>4. /\ g.type = h1.type /\ g.size = h1.size
      /\ g.next_free = h1.next_free /\ g.prev_free = h1.prev_free
  BY <1>1 DEF Insert, HeapType
<1>5. g \in HeapType
  BY <1>1 DEF Insert, HeapType, Links
<1> HIDE DEF g
<1> QED
  BY <1>1, <1>2, <1>3, <1>4, <1>5, Zenon DEF IsInserted, g, h1

LEMMA InsertedShape ==
  ASSUME NEW h, NEW L, NEW F, NEW C, Shape(h, L, F, C),
         NEW p \in Nodes \ (L \union {Head}), NEW z \in Nat, z % Hdr = 0, z >= 2 * Hdr,
         NEW pah \in L \union {Head}, pah < p, h.next[pah] # Head => p < h.next[pah],
         NEW D, D \subseteq Addrs, \A c \in Nat : c \in D <=> p <= c /\ c < p + z,
         D \cap C = {}
  PROVE  /\ IsInserted(Insert(Marking(h, p, z), p, pah), h, p, pah, z)
         /\ Shape(Insert(Marking(h, p, z), p, pah), L \union {p}, F, C \union D)
<1> DEFINE g == Insert(Marking(h, p, z), p, pah)
<1>1. /\ F \subseteq L /\ L \subseteq Nodes \ {Head} /\ L \subseteq Nat /\ Head \in Nodes
      /\ h \in HeapType /\ h.next \in Links /\ h.prev \in Links
      /\ Address \in Ranks /\ Chain(Address, h.next, h.prev, L)
      /\ p \in Nodes \ {Head} /\ p \in Nat /\ Hdr \in Nat \ {0}
  BY NodeFacts DEF Shape, Chain, HeapType
<1>2. h.next[pah] \in L \union {Head}
  BY <1>1 DEF Chain
<1>3. IsInserted(g, h, p, pah, z)
  <2>1. p \in Nodes /\ pah \in Nodes /\ h.next[pah] \in Nodes
    BY <1>1, <1>2
  <2> QED
    BY <1>1, <2>1, InsertedFields
<1> HIDE DEF g
<1>4. Chain(Address, g.next, g.prev, L \union {p})
  <2>1. /\ Address[pah] = pah /\ Address[p] = p /\ Address[h.next[pah]] = h.next[pah]
    BY <1>1, <1>2, NodeFacts
  <2>2. /\ Address[pah] < Address[p]
        /\ h.next[pah] # Head => Address[p] < Address[h.next[pah]]
    BY <2>1
  <2>3. Chain(Address, [h.next EXCEPT ![p] = h.next[pah], ![pah] = p],
                       [h.prev EXCEPT ![p] = pah, ![h.next[pah]] = p], L \union {p})
    BY <1>1, <2>2, ChainInsert, Zenon
  <2> QED
    BY <1>3, <2>3, Zenon DEF IsInserted
<1>5. FreeChain(g, F)
  BY <1>3 DEF Shape, FreeChain, IsInserted
<1>6. Owned(g, L \union {p}, F)
  <2>1. \A a \in Nodes \ {Head} : a \notin L \union {p} =>
          g.next[a] = h.next[a] /\ g.prev[a] = h.prev[a]
    BY <1>1, <1>2, <1>3 DEF IsInserted, Links
  <2> QED
    BY <1>3, <2>1 DEF Owned, Shape, IsInserted
<1>7. Tiled(g, L \union {p}, C \union D)
  <2>1. g.size[p] = z /\ \A a \in L : g.size[a] = h.size[a] /\ h.size[a] \in Nat
    BY <1>1, <1>3 DEF IsInserted, HeapType
  <2>2. /\ \A c \in L : h.size[c] >= 2 * Hdr /\ h.size[c] % Hdr = 0
        /\ \A c, d \in L : c < d => c + h.size[c] <= d
        /\ \A c \in Nat : c \in C <=> \E d \in L : d <= c /\ c < d + h.size[d]
    BY DEF Tiled, Shape
  <2>3. p \in D /\ p \notin C
    BY <1>1
  <2>4. \A b \in L : b \in C /\ b \notin D
    BY <1>1, <2>1, <2>2
  <2>5. \A a, b \in L \union {p} : a < b => a + g.size[a] <= b
    <3> SUFFICES ASSUME NEW a \in L \union {p}, NEW b \in L \union {p}, a < b
                 PROVE  a + g.size[a] <= b
      OBVIOUS
    <3>1. CASE a \in L /\ b \in L
      BY <2>1, <2>2, <3>1
    <3>2. CASE a = p /\ b \in L
      <4>1. b \in Nat /\ b \notin D
        BY <1>1, <2>4, <3>2
      <4>2. ~(p <= b /\ b < p + z)
        BY <4>1
      <4> QED
        BY <1>1, <2>1, <3>2, <4>1, <4>2
    <3>3. CASE a \in L /\ b = p
      <4>1. ~(a <= p /\ p < a + h.size[a])
        BY <1>1, <2>2, <2>3, <3>3
      <4> QED
        BY <1>1, <2>1, <3>3, <4>1
    <3> QED
      BY <1>1, <3>1, <3>2, <3>3
  <2>6. \A c \in Nat : c \in C \union D <=>
          \E d \in L \union {p} : d <= c /\ c < d + g.size[d]
    BY <2>1, <2>2
  <2>7. \A a \in L \union {p} : g.size[a] >= 2 * Hdr /\ g.size[a] % Hdr = 0
    BY <2>1, <2>2
  <2> QED
    BY <2>5, <2>6, <2>7 DEF Tiled
<1>8. IsFiniteSet(L \union {p}) /\ C \union D \subseteq Addrs
  BY FS_AddElement DEF Shape
<1> QED
  BY <1>1, <1>3, <1>4, <1>5, <1>6, <1>7, <1>8 DEF Shape, IsInserted, g

(* A block that ends where another begins is followed by it.                 *)
LEMMA Touching ==
  ASSUME NEW h, NEW L, NEW F, NEW C, Shape(h, L, F, C),
         NEW a \in L, NEW b \in L, a + h.size[a] = b
  PROVE  h.next[a] = b /\ h.prev[b] = a
<1>1. a \in Nat /\ b \in Nat /\ h.size[a] \in Nat /\ h.size[a] >= 2 * Hdr /\ Hdr \in Nat \ {0}
  BY BlockFacts, NodeFacts
<1>2. Address[a] = a /\ Address[b] = b /\ a \in Nodes /\ b \in Nodes
  BY BlockFacts, NodeFacts
<1>3. Address[a] < Address[b]
  BY <1>1, <1>2
<1>4. h.next[a] # Head /\ Address[h.next[a]] <= Address[b]
  BY <1>3 DEF Shape, Chain
<1>5. h.next[a] \in L /\ a + h.size[a] <= h.next[a]
  BY <1>4, BlockFacts
<1>6. Address[h.next[a]] = h.next[a] /\ h.next[a] \in Nat
  <2>1. L \subseteq Nodes \ {Head}
    BY DEF Shape, Chain
  <2> QED
    BY <1>5, <2>1, NodeFacts
<1>7. h.next[a] = b
  BY <1>1, <1>2, <1>4, <1>5, <1>6
<1> QED
  BY <1>7 DEF Shape, Chain

(* g is a right heap of the same memory, whose used blocks are those of U,   *)
(* unchanged.                                                                *)
Leaves(g, h, L, C, U) ==
  \E L2 \in SUBSET L, F2 \in SUBSET L :
    HeapRight(g, L2, F2, C) /\ L2 \ F2 = U /\ \A a \in U : g.size[a] = h.size[a]

LEMMA JoinNextRight ==
  ASSUME NEW h, NEW L, NEW F, NEW C, Shape(h, L, F, C), Marked(h, L, F, {}),
         NEW ah \in F, \A a, b \in F : a # ah => a + h.size[a] # b
  PROVE  Leaves(JoinNext(h, ah), h, L, C, L \ F)
<1> DEFINE nah == h.next[ah]
<1>1. ah \in L /\ F \subseteq L /\ L \subseteq Nodes \ {Head} /\ nah \in L \union {Head}
  BY BlockFacts DEF Shape, Chain
<1>2. h.type[nah] = "FREE" <=> nah \in F
  BY <1>1, NodeFacts DEF Marked, Mark
<1>3. CASE nah \in F /\ ah + h.size[ah] = nah
  <2> DEFINE g == Joined(h, ah, nah)
  <2>1. JoinNext(h, ah) = g
    BY <1>2, <1>3 DEF JoinNext, Joined
  <2>2. IsJoined(g, h, ah, nah) /\ nah # ah /\ Shape(g, L \ {nah}, F \ {nah}, C)
    BY <1>3, JoinedShape
  <2>3. /\ \A a \in L : a # ah /\ a # nah => g.size[a] = h.size[a]
        /\ g.size[ah] = h.size[ah] + h.size[nah]
        /\ g.type[nah] = "none" /\ \A a \in Nodes \ {nah} : g.type[a] = h.type[a]
    <3> HIDE DEF nah, g
    <3> QED
      BY <1>1, <1>3, <2>2 DEF IsJoined, Shape, HeapType
  <2>4. h.size[ah] \in Nat /\ h.size[nah] \in Nat /\ ah \in Nat /\ nah \in Nat
    BY <1>1, <1>3, BlockFacts
  <2> HIDE DEF g, nah
  <2>5. Marked(g, L \ {nah}, F \ {nah}, {})
    BY <1>1, <1>3, <2>3 DEF Marked, Mark
  <2>6. Apart(g, F \ {nah})
    <3> SUFFICES ASSUME NEW a \in F \ {nah}, NEW b \in F \ {nah}
                 PROVE  a + g.size[a] # b
      BY DEF Apart
    <3>1. CASE a # ah
      BY <1>1, <2>3, <3>1
    <3>2. CASE a = ah
      <4>1. nah + h.size[nah] # b
        BY <1>3, <2>2
      <4> QED
        BY <1>3, <2>3, <2>4, <3>2, <4>1
    <3> QED
      BY <3>1, <3>2
  <2>7. HeapRight(g, L \ {nah}, F \ {nah}, C)
    BY <2>2, <2>5, <2>6 DEF HeapRight
  <2>8. (L \ {nah}) \ (F \ {nah}) = L \ F /\ \A a \in L \ F : g.size[a] = h.size[a]
    BY <1>1, <1>3, <2>3
  <2> QED
    BY <1>1, <2>1, <2>7, <2>8 DEF Leaves
<1>4. CASE ~(nah \in F /\ ah + h.size[ah] = nah)
  <2>1. JoinNext(h, ah) = h
    BY <1>2, <1>4 DEF JoinNext
  <2>2. Apart(h, F)
    <3> SUFFICES ASSUME NEW b \in F, ah + h.size[ah] = b
                 PROVE  FALSE
      BY DEF Apart
    <3>1. nah = b
      BY <1>1, Touching
    <3> QED
      BY <1>4, <3>1
  <2> QED
    BY <1>1, <2>1, <2>2 DEF Leaves, HeapRight
<1> QED
  BY <1>3, <1>4

(* __free_block of a block that is not in the free chain, whatever its mark. *)
LEMMA FreeBlockRight ==
  ASSUME NEW h, NEW L, NEW F, NEW C, Shape(h, L, F, C), NEW ah \in L \ F,
         Marked(h, L, F, {ah}), Apart(h, F)
  PROVE  Leaves(free_block(h, ah), h, L, C, (L \ F) \ {ah})
<1> DEFINE pah == h.prev[ah]
<1>1. /\ F \subseteq L /\ L \subseteq Nodes \ {Head} /\ pah \in L \union {Head} /\ pah # ah
      /\ ah \in Nodes \ {Head}
  BY BlockFacts DEF Shape, Chain
<1>2. h.type[pah] = "FREE" <=> pah \in F
  BY <1>1, NodeFacts DEF Marked, Mark
<1>3. CASE pah \in F /\ pah + h.size[pah] = ah
  <2> DEFINE g == Absorb(h, pah, ah)
  <2>1. free_block(h, ah) = JoinNext(g, pah)
    BY <1>2, <1>3 DEF free_block, JoinsPrevious
  <2>2. IsAbsorbed(g, h, pah, ah) /\ Shape(g, L \ {ah}, F, C)
    BY <1>3, AbsorbedShape
  <2> HIDE DEF g, pah
  <2>3. /\ \A a \in L : a # pah /\ a # ah => g.size[a] = h.size[a]
        /\ g.type[ah] = "none" /\ \A a \in Nodes \ {ah} : g.type[a] = h.type[a]
    BY <1>1, <1>3, <2>2 DEF IsAbsorbed, Shape, HeapType
  <2>4. Marked(g, L \ {ah}, F, {})
    BY <1>1, <1>3, <2>3 DEF Marked, Mark
  <2>5. \A a, b \in F : a # pah => a + g.size[a] # b
    BY <1>1, <2>3 DEF Apart
  <2>6. Leaves(JoinNext(g, pah), g, L \ {ah}, C, (L \ {ah}) \ F)
    BY <1>3, <2>2, <2>4, <2>5, JoinNextRight
  <2>7. \A a \in (L \ F) \ {ah} : g.size[a] = h.size[a]
    BY <1>3, <2>3
  <2>8. (L \ {ah}) \ F = (L \ F) \ {ah}
    OBVIOUS
  <2> QED
    BY <2>1, <2>6, <2>7, <2>8 DEF Leaves
<1>4. CASE ~(pah \in F /\ pah + h.size[pah] = ah)
  <2> DEFINE g == AddFree(h, ah)
  <2>1. free_block(h, ah) = JoinNext(g, ah)
    BY <1>2, <1>4 DEF free_block, JoinsPrevious
  <2>2. IsFreed(g, h, ah) /\ Shape(g, L, F \union {ah}, C)
    BY FreedShape
  <2> HIDE DEF g
  <2>3. /\ g.size = h.size
        /\ g.type[ah] = "FREE" /\ \A a \in Nodes \ {ah} : g.type[a] = h.type[a]
    BY <1>1, <2>2 DEF IsFreed, Shape, HeapType
  <2>4. Marked(g, L, F \union {ah}, {})
    BY <1>1, <2>3 DEF Marked, Mark
  <2>5. \A a, b \in F \union {ah} : a # ah => a + g.size[a] # b
    <3> SUFFICES ASSUME NEW a \in F, NEW b \in F \union {ah}, a + h.size[a] = b
                 PROVE  FALSE
      BY <2>3
    <3>1. b = ah
      BY DEF Apart
    <3>2. pah = a
      BY <1>1, <3>1, Touching
    <3> QED
      BY <1>4, <3>1, <3>2
  <2>6. Leaves(JoinNext(g, ah), g, L, C, L \ (F \union {ah}))
    BY <2>2, <2>4, <2>5, JoinNextRight
  <2>7. L \ (F \union {ah}) = (L \ F) \ {ah}
    OBVIOUS
  <2> QED
    BY <2>1, <2>3, <2>6, <2>7 DEF Leaves
<1> QED
  BY <1>3, <1>4

-----------------------------------------------------------------------------
(* Walks: from a node the walk w follows the links until a node of Stop.     *)

(* Induction up to n.                                                        *)
LEMMA Induct ==
  ASSUME NEW n \in Nat, NEW S, 0 \in S,
         \A i \in 1 .. n : i - 1 \in S => i \in S
  PROVE  \A i \in 0 .. n : i \in S
<1> DEFINE T == {i \in 0 .. n : i \notin S}
<1>1. SUFFICES ASSUME T # {}
               PROVE  FALSE
  BY Zenon
<1>2. T \subseteq Nat
  OBVIOUS
<1>3. PICK i \in T : \A j \in T : ~(<<j, i>> \in OpToRel(<, Nat))
  BY <1>1, <1>2, WFMin, NatLessThanWellFounded
<1>4. \A j \in Nat : j < i => <<j, i>> \in OpToRel(<, Nat)
  BY <1>2, <1>3 DEF OpToRel
<1>5. i \in 0 .. n /\ i \notin S
  OBVIOUS
<1>6. i \in 1 .. n /\ i - 1 \in 0 .. n /\ i - 1 \in Nat /\ i - 1 < i
  BY <1>5
<1>7. i - 1 \notin T
  BY <1>3, <1>4, <1>6
<1> QED
  BY <1>5, <1>6, <1>7

(* Among the nodes of a set there is one of the least rank.                  *)
LEMMA Least ==
  ASSUME NEW S, S # {}, NEW rank, \A a \in S : rank[a] \in Nat
  PROVE  \E a \in S : \A b \in S : rank[a] <= rank[b]
<1> DEFINE R == {rank[a] : a \in S}
<1>1. R \subseteq Nat /\ R # {}
  OBVIOUS
<1>2. PICK i \in R : \A j \in R : ~(<<j, i>> \in OpToRel(<, Nat))
  BY <1>1, WFMin, NatLessThanWellFounded
<1>3. \A j \in Nat : j < i => <<j, i>> \in OpToRel(<, Nat)
  BY <1>1, <1>2 DEF OpToRel
<1>4. \A j \in R : ~(j < i)
  BY <1>1, <1>2, <1>3
<1>5. \A j \in R : i <= j
  BY <1>1, <1>4
<1> QED
  BY <1>5

IsWalk(w, T, Stop, link) == w = [a \in T |-> IF a \in Stop THEN a ELSE w[link[a]]]

(* The links bring the walk nearer to an end.                                *)
Nearer(T, Stop, link, d, m) ==
  d \in [T -> 0 .. m] /\ \A a \in T \ Stop : link[a] \in T /\ d[link[a]] < d[a]

LEMMA WalkExists ==
  ASSUME NEW T, NEW Stop, NEW link, NEW m \in Nat, NEW d, Nearer(T, Stop, link, d, m)
  PROVE  \E w : IsWalk(w, T, Stop, link)
<1> DEFINE Upto(w, k) == \A a \in T : d[a] < k =>
                           w[a] = IF a \in Stop THEN a ELSE w[link[a]]
           S == {k \in 0 .. (m + 1) : \E w \in [T -> T] : Upto(w, k)}
<1>1. /\ \A a \in T : d[a] \in 0 .. m
      /\ \A a \in T \ Stop : link[a] \in T /\ d[link[a]] < d[a]
  BY DEF Nearer
<1>2. 0 \in S
  <2>1. [a \in T |-> a] \in [T -> T] /\ 0 \in 0 .. (m + 1)
    OBVIOUS
  <2>2. Upto([a \in T |-> a], 0)
    BY <1>1
  <2> QED
    BY <2>1, <2>2
<1>3. ASSUME NEW k \in 1 .. (m + 1), k - 1 \in S
      PROVE  k \in S
  <2>1. PICK w \in [T -> T] : Upto(w, k - 1)
    BY <1>3
  <2> DEFINE v == [a \in T |-> IF a \in Stop THEN a
                               ELSE IF d[a] < k - 1 THEN w[a] ELSE w[link[a]]]
  <2>2. v \in [T -> T]
    BY <1>1
  <2>3. \A a \in T : d[a] < k - 1 => v[a] = w[a]
    BY <2>1
  <2>4. ASSUME NEW a \in T, d[a] < k
        PROVE  v[a] = IF a \in Stop THEN a ELSE v[link[a]]
    <3>1. CASE a \in Stop
      BY <3>1
    <3>2. CASE a \notin Stop
      <4>1. link[a] \in T /\ d[link[a]] < k - 1
        BY <1>1, <2>4, <3>2
      <4>2. v[link[a]] = w[link[a]]
        BY <2>3, <4>1
      <4>3. v[a] = w[link[a]]
        BY <2>1, <3>2
      <4> QED
        BY <3>2, <4>2, <4>3
    <3> QED
      BY <3>1, <3>2
  <2> HIDE DEF v
  <2> QED
    BY <2>2, <2>4
<1> HIDE DEF S
<1>4. m + 1 \in S
  <2>1. \A i \in 0 .. (m + 1) : i \in S
    BY <1>2, <1>3, Induct
  <2> QED
    BY <2>1
<1>5. PICK w \in [T -> T] : Upto(w, m + 1)
  BY <1>4 DEF S
<1>6. \A a \in T : w[a] = IF a \in Stop THEN a ELSE w[link[a]]
  BY <1>1, <1>5
<1>7. w = [a \in T |-> w[a]]
  OBVIOUS
<1>8. w = [a \in T |-> IF a \in Stop THEN a ELSE w[link[a]]]
  BY <1>6, <1>7
<1> QED
  BY <1>8, Zenon DEF IsWalk

(* From a the walk goes through nodes V that do not stop it to one that does. *)
Goes(w, T, Stop, link, a) ==
  /\ w[a] \in Stop
  /\ w[a] = a \/ \E c \in T \ Stop : w[a] = link[c]
  /\ \E V \in SUBSET (T \ Stop) :
       a \in V \union {w[a]} /\ \A c \in V : link[c] \in V \union {w[a]}

LEMMA WalkGoes ==
  ASSUME NEW T, NEW Stop, NEW link, NEW m \in Nat, NEW d, Nearer(T, Stop, link, d, m),
         NEW w, IsWalk(w, T, Stop, link)
  PROVE  \A a \in T : Goes(w, T, Stop, link, a)
<1> DEFINE B == {a \in T : ~Goes(w, T, Stop, link, a)}
<1>1. SUFFICES ASSUME B # {}
               PROVE  FALSE
  OBVIOUS
<1>2. \A a \in T : w[a] = IF a \in Stop THEN a ELSE w[link[a]]
  <2>1. w = [a \in T |-> IF a \in Stop THEN a ELSE w[link[a]]]
    BY DEF IsWalk
  <2> QED
    BY <2>1
<1>3. /\ \A a \in T : d[a] \in 0 .. m /\ d[a] \in Nat
      /\ \A a \in T \ Stop : link[a] \in T /\ d[link[a]] < d[a]
  BY DEF Nearer
<1>4. PICK a \in B : \A b \in B : d[a] <= d[b]
  BY <1>1, <1>3, Least
<1>5. CASE a \in Stop
  <2>1. w[a] = a
    BY <1>2, <1>4, <1>5
  <2>2. {} \in SUBSET (T \ Stop)
    OBVIOUS
  <2> QED
    BY <1>4, <1>5, <2>1, <2>2 DEF Goes
<1>6. CASE a \notin Stop
  <2>1. a \in T \ Stop /\ link[a] \in T /\ link[a] \notin B /\ w[a] = w[link[a]]
    BY <1>2, <1>3, <1>4, <1>6
  <2>2. Goes(w, T, Stop, link, link[a])
    BY <2>1
  <2>3. PICK V \in SUBSET (T \ Stop) :
          link[a] \in V \union {w[a]} /\ \A c \in V : link[c] \in V \union {w[a]}
    BY <2>1, <2>2 DEF Goes
  <2>4. /\ V \union {a} \in SUBSET (T \ Stop) /\ a \in (V \union {a}) \union {w[a]}
        /\ \A c \in V \union {a} : link[c] \in (V \union {a}) \union {w[a]}
    BY <2>1, <2>3
  <2>5. w[a] \in Stop /\ \E c \in T \ Stop : w[a] = link[c]
    BY <2>1, <2>2 DEF Goes
  <2>6. Goes(w, T, Stop, link, a)
    BY <2>4, <2>5 DEF Goes
  <2> QED
    BY <1>4, <2>6
<1> QED
  BY <1>5, <1>6

(* Nodes of a list that are reached from the head and closed under next are  *)
(* all of them.                                                              *)
LEMMA ChainClosed ==
  ASSUME NEW rank, NEW next, NEW prev, NEW S, Chain(rank, next, prev, S),
         \A a \in S : rank[a] \in Nat,
         NEW V \in SUBSET S, next[Head] \in V \union {Head},
         \A c \in V : next[c] \in V \union {Head}
  PROVE  V = S
<1> SUFFICES ASSUME S \ V # {}
             PROVE  FALSE
  OBVIOUS
<1>1. PICK b \in S \ V : \A c \in S \ V : rank[b] <= rank[c]
  BY Least
<1>2. prev[b] \in S \union {Head} /\ next[prev[b]] = b /\ b # Head
  BY DEF Chain
<1>3. CASE prev[b] = Head \/ prev[b] \in V
  BY <1>1, <1>2, <1>3
<1>4. CASE prev[b] \in S \ V
  <2>1. rank[prev[b]] < rank[next[prev[b]]]
    BY <1>2, <1>4 DEF Chain
  <2>2. rank[prev[b]] < rank[b] /\ rank[b] <= rank[prev[b]]
    BY <1>1, <1>2, <1>4, <2>1
  <2> QED
    BY <1>1, <1>4, <2>2
<1> QED
  BY <1>2, <1>3, <1>4

(* The size of a block is what the specification asks for.                   *)
LEMMA BlockSizes ==
  ASSUME NEW n \in Requests
  PROVE  /\ BlockSize(n) \in Nat /\ BlockSize(n) % Hdr = 0
         /\ BlockSize(n) = ((n + 2 * Hdr - 1) \div Hdr) * Hdr
         /\ n # 0 => BlockSize(n) >= 2 * Hdr
<1> DEFINE s == n + 2 * Hdr - 1
           q == s \div Hdr
<1>1. Hdr \in Nat \ {0} /\ SizeMax \in Nat /\ n \in Nat /\ n + 2 * Hdr <= SizeMax
  BY SizesAssumption
<1>2. s \in Nat /\ s < SizeMax /\ SizeMax \in Nat \ {0}
  BY <1>1
<1> HIDE DEF s
<1>3. s % SizeMax = s
  <2>1. /\ s \div SizeMax \in Nat /\ s % SizeMax \in 0 .. (SizeMax - 1)
        /\ s = (SizeMax * (s \div SizeMax)) + (s % SizeMax)
    BY <1>2, Division
  <2>2. \A z \in Nat : z # 0 => SizeMax * z >= SizeMax
    <3>1. \A y \in Nat : SizeMax * (1 + y) = SizeMax + (SizeMax * y) /\ SizeMax * y >= 0
      BY <1>2
    <3>2. \A z \in Nat : z # 0 => z - 1 \in Nat /\ z = 1 + (z - 1)
      OBVIOUS
    <3> QED
      BY <1>2, <3>1, <3>2
  <2>3. s \div SizeMax = 0
    BY <1>2, <2>1, <2>2
  <2> QED
    BY <1>2, <2>1, <2>3
<1>4. q \in Nat /\ s % Hdr \in 0 .. (Hdr - 1) /\ s = (Hdr * q) + (s % Hdr)
  BY <1>1, <1>2, Division
<1> HIDE DEF q
<1>5. BlockSize(n) = s - (s % Hdr)
  BY <1>3 DEF BlockSize, s
<1>6. BlockSize(n) = Hdr * q /\ Hdr * q \in Nat
  BY <1>1, <1>2, <1>4, <1>5
<1>7. (Hdr * q) % Hdr = 0
  BY <1>1, <1>4, Multiple
<1>8. n # 0 => BlockSize(n) >= 2 * Hdr
  <2> SUFFICES ASSUME n # 0
               PROVE  BlockSize(n) >= 2 * Hdr
    OBVIOUS
  <2>1. Hdr * q > Hdr
    BY <1>1, <1>2, <1>4 DEF s
  <2>2. Hdr % Hdr = 0
    <3>1. (Hdr * 1) % Hdr = 0 /\ Hdr * 1 = Hdr
      BY <1>1, Multiple
    <3> QED
      BY <3>1
  <2>3. Hdr * q >= Hdr + Hdr
    BY <1>1, <1>6, <1>7, <2>1, <2>2, Sums
  <2> QED
    BY <1>1, <1>6, <2>3
<1>9. BlockSize(n) = q * Hdr
  BY <1>1, <1>4, <1>6
<1> QED
  BY <1>6, <1>7, <1>8, <1>9 DEF q, s

(* The nodes on the lists are the head and those of the list.                *)
LEMMA OnChains ==
  ASSUME NEW h, NEW L, NEW F, NEW C, Shape(h, L, F, C)
  PROVE  /\ OnChain(h.prev) = L \union {Head}
         /\ OnChain(h.next_free) = F \union {Head}
<1>1. Head \in Nodes /\ Nil \notin Nodes /\ F \subseteq L /\ L \subseteq Nodes \ {Head}
  BY NodeFacts DEF Shape, Chain
<1>2. \A a \in L \union {Head} : h.prev[a] \in L \union {Head}
  BY DEF Shape, Chain
<1>3. \A a \in F \union {Head} : h.next_free[a] \in F \union {Head}
  <2> PICK m \in Nat : \E rank \in [Nodes -> 0 .. m] : Chain(rank, h.next_free, h.prev_free, F)
    BY DEF Shape, FreeChain
  <2>1. PICK rank \in [Nodes -> 0 .. m] : Chain(rank, h.next_free, h.prev_free, F)
    OBVIOUS
  <2> QED
    BY <2>1 DEF Chain
<1> QED
  BY <1>1, <1>2, <1>3 DEF OnChain, Shape, Owned

(* First fit finds a free block that is big enough, or there is none.        *)
LEMMA FirstFitFinds ==
  ASSUME NEW h, NEW L, NEW F, NEW C, Shape(h, L, F, C), Marked(h, L, F, {}), NEW n \in Nat
  PROVE  \/ FirstFit(h, n) \in F /\ h.size[FirstFit(h, n)] >= n
         \/ FirstFit(h, n) = Head /\ \A a \in F : ~(h.size[a] >= n)
<1> DEFINE T == OnChain(h.next_free)
           Is(w) == w = [a \in T |-> IF h.type[a] = "HEAD" \/ h.size[a] >= n THEN a
                                     ELSE w[h.next_free[a]]]
           Stop == {a \in T : h.type[a] = "HEAD" \/ h.size[a] >= n}
           w == CHOOSE walk : Is(walk)
           a0 == h.next_free[Head]
<1>1. FirstFit(h, n) = w[a0]
  BY DEF FirstFit
<1>2. T = F \union {Head}
  BY OnChains
<1>3. F \subseteq Nodes \ {Head} /\ Head \in Nodes
  BY NodeFacts DEF Shape, Chain
<1>4. \A a \in T : h.type[a] = "HEAD" <=> a = Head
  BY <1>2, <1>3 DEF Marked, Mark
<1> PICK m \in Nat : \E rank \in [Nodes -> 0 .. m] : Chain(rank, h.next_free, h.prev_free, F)
  BY DEF Shape, FreeChain
<1>5. PICK rank \in [Nodes -> 0 .. m] : Chain(rank, h.next_free, h.prev_free, F)
  OBVIOUS
<1>6. \E d : Nearer(T, Stop, h.next_free, d, m + 1)
  <2> DEFINE d == [a \in T |-> IF a = Head THEN 0 ELSE (m + 1) - rank[a]]
  <2>1. \A a \in F : rank[a] \in 0 .. m
    BY <1>3, <1>5
  <2>2. d \in [T -> 0 .. (m + 1)]
    BY <1>2, <2>1
  <2>3. ASSUME NEW a \in T \ Stop
        PROVE  h.next_free[a] \in T /\ d[h.next_free[a]] < d[a]
    <3>1. a \in F /\ a # Head /\ h.next_free[a] \in F \union {Head}
      BY <1>2, <1>4, <1>5, <2>3 DEF Chain
    <3>2. h.next_free[a] # Head => rank[a] < rank[h.next_free[a]]
      BY <1>5, <3>1 DEF Chain
    <3> QED
      BY <1>2, <2>1, <3>1, <3>2
  <2> QED
    BY <2>2, <2>3 DEF Nearer
<1>7. PICK d : Nearer(T, Stop, h.next_free, d, m + 1)
  BY <1>6
<1>8. \A v : Is(v) <=> IsWalk(v, T, Stop, h.next_free)
  BY DEF IsWalk
<1>9. IsWalk(w, T, Stop, h.next_free)
  <2>0. m + 1 \in Nat
    OBVIOUS
  <2>1. \E v : Is(v)
    <3>1. PICK v : IsWalk(v, T, Stop, h.next_free)
      <4> HIDE DEF T, Stop
      <4> QED
        BY <1>7, <2>0, WalkExists
    <3> QED
      BY <1>8, <3>1
  <2>2. Is(w)
    <3> HIDE DEF Is
    <3> QED
      BY <2>1, Zenon DEF w
  <2> QED
    BY <1>8, <2>2
<1> HIDE DEF w
<1>10. Goes(w, T, Stop, h.next_free, a0)
  <2>1. a0 \in T
    BY <1>2, <1>5 DEF Chain
  <2>2. m + 1 \in Nat
    OBVIOUS
  <2> HIDE DEF T, Stop, a0
  <2> QED
    BY <1>7, <1>9, <2>1, <2>2, WalkGoes
<1>11. w[a0] \in Stop
  BY <1>10 DEF Goes
<1>12. CASE w[a0] # Head
  BY <1>1, <1>2, <1>4, <1>11, <1>12
<1>13. CASE w[a0] = Head
  <2>1. PICK V \in SUBSET (T \ Stop) :
          a0 \in V \union {Head} /\ \A c \in V : h.next_free[c] \in V \union {Head}
    BY <1>10, <1>13 DEF Goes
  <2>2. V \subseteq F /\ \A c \in V : ~(h.size[c] >= n)
    BY <1>2, <1>4, <2>1
  <2>3. \A a \in F : rank[a] \in Nat
    BY <1>3, <1>5
  <2>4. V = F
    BY <1>5, <2>1, <2>2, <2>3, ChainClosed
  <2> QED
    BY <1>1, <1>13, <2>2, <2>4
<1> QED
  BY <1>12, <1>13

(* The search backwards finds the place for a node p that is not on the list. *)
LEMMA PredecessorFinds ==
  ASSUME NEW h, NEW L, NEW F, NEW C, Shape(h, L, F, C), Marked(h, L, F, {}),
         NEW p \in Nodes \ (L \union {Head}), NEW z \in Nat
  PROVE  LET pah == Predecessor(Marking(h, p, z), p)
         IN  /\ pah \in L \union {Head} /\ pah < p
             /\ h.next[pah] # Head => p < h.next[pah]
<1> DEFINE g == Marking(h, p, z)
           T == OnChain(g.prev)
           Is(w) == w = [a \in T |-> IF g.type[a] = "HEAD" \/ a < p THEN a ELSE w[g.prev[a]]]
           Stop == {a \in T : g.type[a] = "HEAD" \/ a < p}
           w == CHOOSE walk : Is(walk)
           a0 == g.prev[Head]
           m == IF a0 = Head THEN 0 ELSE a0 + 1
<1>1. Predecessor(g, p) = w[a0]
  BY DEF Predecessor
<1>2. g.prev = h.prev /\ \A a \in Nodes \ {p} : g.type[a] = h.type[a]
  BY DEF Marking, Shape, HeapType
<1>3. T = L \union {Head}
  BY <1>2, OnChains
<1>4. /\ L \subseteq Nodes \ {Head} /\ L \subseteq Nat /\ Head \in Nodes /\ Head < p
      /\ p \in Nat
  BY NodeFacts DEF Shape, Chain, Head
<1>5. \A a \in T : g.type[a] = "HEAD" <=> a = Head
  BY <1>2, <1>3, <1>4 DEF Marked, Mark
<1>6. a0 \in L \union {Head} /\ h.next[a0] = Head
  BY <1>2 DEF Shape, Chain
<1>7. \A a \in L : a0 # Head /\ a <= a0
  <2> SUFFICES ASSUME NEW a \in L
               PROVE  a0 # Head /\ a <= a0
    OBVIOUS
  <2>1. Address[a] = a /\ Address[a0] = a0 /\ Address[Head] = Head /\ a \in Nat /\ Head = -2
    BY <1>4, <1>6, NodeFacts DEF Head
  <2>2. ~(Address[a0] < Address[a])
    BY <1>6 DEF Shape, Chain
  <2>3. a0 # Head
    BY <2>1, <2>2
  <2> QED
    BY <1>4, <1>6, <2>1, <2>2, <2>3
<1> HIDE DEF g, T, Stop, Is, w, a0
<1>8. m \in Nat /\ \A a \in L : a + 1 \in 0 .. m
  <2>1. a0 # Head => a0 \in Nat
    BY <1>4, <1>6
  <2> QED
    BY <1>4, <1>7, <2>1
<1> HIDE DEF m
<1> USE DEF T, Stop, Is, w, a0
<1>9. \E d : Nearer(T, Stop, g.prev, d, m)
  <2> DEFINE d == [a \in T |-> IF a = Head THEN 0 ELSE a + 1]
  <2>2. d \in [T -> 0 .. m]
    <3> HIDE DEF T
    <3> QED
      BY <1>3, <1>8
  <2>3. ASSUME NEW a \in T \ Stop
        PROVE  g.prev[a] \in T /\ d[g.prev[a]] < d[a]
    <3>1. a \in L /\ a # Head /\ g.prev[a] \in L \union {Head}
          /\ (g.prev[a] # Head => g.prev[a] < a)
      BY <1>2, <1>3, <1>5, <2>3, BlockFacts
    <3>2. g.prev[a] \in T /\ a \in T /\ a \in Nat
      BY <1>3, <1>4, <3>1
    <3>3. g.prev[a] # Head => g.prev[a] \in Nat /\ g.prev[a] < a
      BY <1>4, <3>1
    <3> HIDE DEF T
    <3> QED
      BY <3>1, <3>2, <3>3
  <2> QED
    BY <2>2, <2>3 DEF Nearer
<1>10. PICK d : Nearer(T, Stop, g.prev, d, m)
  BY <1>9
<1>11. \A v : Is(v) <=> IsWalk(v, T, Stop, g.prev)
  BY DEF IsWalk
<1>12. IsWalk(w, T, Stop, g.prev)
  <2>1. \E v : Is(v)
    <3>1. PICK v : IsWalk(v, T, Stop, g.prev)
      <4> HIDE DEF T, Stop
      <4> QED
        BY <1>8, <1>10, WalkExists
    <3> QED
      BY <1>11, <3>1
  <2>2. Is(w)
    <3> HIDE DEF Is
    <3> QED
      BY <2>1, Zenon DEF w
  <2> QED
    BY <1>11, <2>2
<1> HIDE DEF w
<1>13. Goes(w, T, Stop, g.prev, a0)
  <2>1. a0 \in T
    BY <1>3, <1>6
  <2> HIDE DEF T, Stop, a0
  <2> QED
    BY <1>8, <1>10, <1>12, <2>1, WalkGoes
<1>14. w[a0] \in L \union {Head} /\ w[a0] < p
  <2>1. w[a0] \in Stop
    BY <1>13 DEF Goes
  <2> QED
    BY <1>3, <1>4, <1>5, <2>1
<1>15. h.next[w[a0]] # Head => p < h.next[w[a0]]
  <2>1. CASE w[a0] = a0
    BY <1>6, <2>1
  <2>2. CASE \E c \in T \ Stop : w[a0] = g.prev[c]
    <3>1. PICK c \in T \ Stop : w[a0] = g.prev[c]
      BY <2>2
    <3>2. c \in L /\ ~(c < p) /\ c # p
      BY <1>3, <1>5, <3>1
    <3>3. h.next[w[a0]] = c
      BY <1>2, <3>1, <3>2 DEF Shape, Chain
    <3> QED
      BY <1>4, <3>2, <3>3
  <2> QED
    BY <1>13, <2>1, <2>2 DEF Goes
<1> QED
  BY <1>1, <1>14, <1>15 DEF g

-----------------------------------------------------------------------------
(* The invariant.                                                            *)

(* The blocks of a right heap are those that the marks show.                 *)
LEMMA BlocksMarked ==
  ASSUME NEW g, NEW L, NEW F, NEW C, HeapRight(g, L, F, C)
  PROVE  /\ {a \in Nodes \ {Head} : g.type[a] # "none"} = L
         /\ {a \in L : g.type[a] = "FREE"} = F
         /\ {a \in L : g.type[a] = "USED"} = L \ F
<1>1. L \subseteq Nodes \ {Head} /\ F \subseteq L
  BY DEF HeapRight, Shape, Chain
<1>2. \A a \in Nodes \ {Head} : g.type[a] = IF a \in F THEN "FREE" ELSE IF a \in L THEN "USED" ELSE "none"
  BY DEF HeapRight, Marked, Mark
<1> QED
  BY <1>1, <1>2

LEMMA BlocksNow ==
  ASSUME NEW L, NEW F, NEW C, HeapRight(heap, L, F, C)
  PROVE  Live = L /\ Free = F /\ Used = L \ F
<1>1. Live = L
  BY BlocksMarked DEF Live
<1> QED
  BY <1>1, BlocksMarked DEF Free, Used

LEMMA BlocksNext ==
  ASSUME NEW L, NEW F, NEW C, HeapRight(heap', L, F, C)
  PROVE  Live' = L /\ Free' = F /\ Used' = L \ F
<1>1. Live' = L
  BY BlocksMarked DEF Live
<1> QED
  BY <1>1, BlocksMarked DEF Free, Used

(* What a step does to the used blocks: they become U, their sizes stay.     *)
UsedBecome(U) ==
  /\ Used' = U
  /\ \A a \in Used \intersect U : heap'.size[a] = heap.size[a]

(* The empty heap is right.                                                  *)
LEMMA MallocInit == Init => MallocInv
<1> SUFFICES ASSUME Init
             PROVE  MallocInv
  OBVIOUS
<1>1. pool = {} /\ held = {} /\ heap = EmptyHeap
  BY DEF Init
<1>2. Head \in Nodes /\ Hdr \in Nat \ {0}
  BY NodeFacts
<1> DEFINE h == EmptyHeap
<1>3. /\ \A a \in Nodes : h.type[a] = (IF a = Head THEN "HEAD" ELSE "none")
      /\ h.next[Head] = Head /\ h.prev[Head] = Head
      /\ h.next_free[Head] = Head /\ h.prev_free[Head] = Head
      /\ \A a \in Nodes \ {Head} :
           h.next[a] = Nil /\ h.prev[a] = Nil /\ h.next_free[a] = Nil /\ h.prev_free[a] = Nil
  BY <1>2 DEF EmptyHeap
<1>4. h \in HeapType
  BY <1>2 DEF EmptyHeap, HeapType, Links
<1> HIDE DEF h
<1>5. Chain(Address, h.next, h.prev, {})
  BY <1>3 DEF Chain
<1>6. FreeChain(h, {})
  <2> DEFINE rank == [a \in Nodes |-> 0]
  <2>1. rank \in [Nodes -> 0 .. 0] /\ 0 \in Nat
    OBVIOUS
  <2>2. Chain(rank, h.next_free, h.prev_free, {})
    BY <1>3 DEF Chain
  <2> QED
    BY <2>1, <2>2 DEF FreeChain
<1>7. Owned(h, {}, {}) /\ Tiled(h, {}, {}) /\ Apart(h, {}) /\ Marked(h, {}, {}, {})
  BY <1>3 DEF Owned, Tiled, Apart, Marked, Mark
<1>8. HeapRight(h, {}, {}, {})
  BY <1>4, <1>5, <1>6, <1>7, FS_EmptySet DEF HeapRight, Shape
<1>9. Live = {} /\ Free = {}
  BY <1>1, <1>8, BlocksNow DEF h
<1>10. PoolCells = {}
  BY <1>1 DEF PoolCells
<1> QED
  BY <1>1, <1>8, <1>9, <1>10 DEF MallocInv, HeldRight, h

(* malloc_add adds the memory and leaves the used blocks as they are.        *)
LEMMA AddStep ==
  ASSUME MallocInv, NEW r \in Regions, malloc_add(r)
  PROVE  MallocInv' /\ UsedBecome(Used)
<1> DEFINE L == Live
           F == Free
           C == PoolCells
           D == Cells(r)
           p == r.base
           pah == Predecessor(Marking(heap, p, r.size), p)
           g == Insert(Marking(heap, p, r.size), p, pah)
<1>1. /\ heap' = free_block(g, p) /\ r \notin pool
      /\ pool' = pool \union {r} /\ held' = held
  BY DEF malloc_add, Marking
<1>2. /\ Shape(heap, L, F, C) /\ Marked(heap, L, F, {}) /\ Apart(heap, F)
      /\ pool \subseteq Regions
  BY DEF MallocInv, HeapRight
<1>3. /\ p \in Nat /\ r.size \in Nat /\ p % Hdr = 0 /\ r.size % Hdr = 0 /\ r.size >= 2 * Hdr
      /\ Hdr \in Nat \ {0}
  BY RegionsAssumption, NodeFacts
<1>4. D \subseteq Addrs /\ \A c \in Nat : c \in D <=> p <= c /\ c < p + r.size
  BY <1>3 DEF Cells, Addrs
<1>5. D \intersect C = {}
  <2>1. \A s \in pool : s \in Regions /\ s # r
    BY <1>1, <1>2
  <2>2. \A s \in pool : Cells(s) \intersect Cells(r) = {}
    BY <2>1, RegionsAssumption
  <2> QED
    BY <2>2 DEF PoolCells
<1>6. p \in D /\ p \notin C
  BY <1>3, <1>4, <1>5
<1>7. p \in Nodes \ (L \union {Head})
  <2>1. p \in Nodes \ {Head}
    BY <1>3, <1>4, <1>6, NodeFacts
  <2>2. p \notin L
    <3> SUFFICES ASSUME p \in L
                 PROVE  FALSE
      OBVIOUS
    <3>1. heap.size[p] \in Nat /\ heap.size[p] >= 2 * Hdr
      BY <1>2, BlockFacts
    <3>2. p \in C
      BY <1>2, <1>3, <3>1, BlockFacts
    <3> QED
      BY <1>6, <3>2
  <2> QED
    BY <2>1, <2>2
<1> HIDE DEF L, F, C, D, p
<1>8. pah \in L \union {Head} /\ pah < p /\ (heap.next[pah] # Head => p < heap.next[pah])
  BY <1>2, <1>3, <1>7, PredecessorFinds
<1> HIDE DEF pah
<1>9. IsInserted(g, heap, p, pah, r.size) /\ Shape(g, L \union {p}, F, C \union D)
  BY <1>2, <1>3, <1>4, <1>5, <1>7, <1>8, InsertedShape
<1> HIDE DEF g
<1>10. F \subseteq L /\ L \subseteq Nodes \ {Head}
  BY <1>2 DEF Shape, Chain
<1>11. /\ \A a \in L : g.size[a] = heap.size[a]
       /\ \A a \in Nodes \ {p} : g.type[a] = heap.type[a]
  BY <1>2, <1>7, <1>9, <1>10 DEF IsInserted, Shape, HeapType
<1>12. Marked(g, L \union {p}, F, {p}) /\ Apart(g, F)
  BY <1>2, <1>10, <1>11 DEF Marked, Mark, Apart
<1>13. Leaves(heap', g, L \union {p}, C \union D, ((L \union {p}) \ F) \ {p})
  BY <1>1, <1>7, <1>9, <1>10, <1>12, FreeBlockRight
<1>14. ((L \union {p}) \ F) \ {p} = L \ F /\ Used = L \ F
  <2>1. Used = L \ F
    BY BlocksNow DEF MallocInv, L, F
  <2> QED
    BY <1>7, <2>1
<1>15. PICK L2 \in SUBSET (L \union {p}) : \E F2 \in SUBSET (L \union {p}) :
         /\ HeapRight(heap', L2, F2, C \union D) /\ L2 \ F2 = L \ F
         /\ \A a \in L \ F : heap'.size[a] = g.size[a]
  BY <1>13, <1>14 DEF Leaves
<1>16. PICK F2 \in SUBSET (L \union {p}) :
         /\ HeapRight(heap', L2, F2, C \union D) /\ L2 \ F2 = L \ F
         /\ \A a \in L \ F : heap'.size[a] = g.size[a]
  BY <1>15
<1>17. Live' = L2 /\ Free' = F2 /\ Used' = Used
  BY <1>14, <1>16, BlocksNext
<1>18. PoolCells' = C \union D
  BY <1>1 DEF PoolCells, C, D
<1>19. HeldRight'
  BY <1>1, <1>17 DEF HeldRight, MallocInv
<1>20. UsedBecome(Used)
  BY <1>11, <1>14, <1>16, <1>17 DEF UsedBecome
<1> QED
  BY <1>1, <1>2, <1>16, <1>17, <1>18, <1>19, <1>20 DEF MallocInv

(* free takes its block, and no other, from the used ones.                   *)
LEMMA FreeStep ==
  ASSUME MallocInv, NEW m \in held, free(m)
  PROVE  /\ MallocInv' /\ UsedBecome(Used \ {m.ptr - Hdr})
         /\ m.ptr - Hdr \in Used
<1> DEFINE L == Live
           F == Free
           C == PoolCells
           ah == m.ptr - Hdr
<1>1. heap' = free_block(heap, ah) /\ held' = held \ {m} /\ pool' = pool
  BY DEF free
<1>2. /\ Shape(heap, L, F, C) /\ Marked(heap, L, F, {}) /\ Apart(heap, F)
      /\ pool \subseteq Regions
  BY DEF MallocInv, HeapRight
<1>3. ah \in Used /\ Used = L \ F
  BY BlocksNow DEF MallocInv, HeldRight
<1> HIDE DEF L, F, C, ah
<1>4. Marked(heap, L, F, {ah})
  BY <1>2 DEF Marked
<1>5. Leaves(heap', heap, L, C, (L \ F) \ {ah})
  BY <1>1, <1>2, <1>3, <1>4, FreeBlockRight
<1>6. PICK L2 \in SUBSET L : \E F2 \in SUBSET L :
         /\ HeapRight(heap', L2, F2, C) /\ L2 \ F2 = (L \ F) \ {ah}
         /\ \A a \in (L \ F) \ {ah} : heap'.size[a] = heap.size[a]
  BY <1>5 DEF Leaves
<1>7. PICK F2 \in SUBSET L :
         /\ HeapRight(heap', L2, F2, C) /\ L2 \ F2 = (L \ F) \ {ah}
         /\ \A a \in (L \ F) \ {ah} : heap'.size[a] = heap.size[a]
  BY <1>6
<1>8. Live' = L2 /\ Free' = F2 /\ Used' = Used \ {ah}
  BY <1>3, <1>7, BlocksNext
<1>9. PoolCells' = C
  BY <1>1 DEF PoolCells, C
<1>10. HeldRight'
  <2>1. \A k \in held : k.ptr \in Nat /\ k.ptr - Hdr \in Used
    BY DEF MallocInv, HeldRight
  <2>2. \A k, j \in held : k.ptr = j.ptr => k = j
    BY DEF MallocInv, HeldRight
  <2>3. \A k \in held : k # m => k.ptr - Hdr # ah
    BY <2>1, <2>2, NodeFacts DEF ah
  <2> QED
    BY <1>1, <1>8, <2>1, <2>2, <2>3 DEF HeldRight
<1>11. UsedBecome(Used \ {ah})
  BY <1>3, <1>7, <1>8 DEF UsedBecome
<1> QED
  BY <1>1, <1>2, <1>3, <1>7, <1>8, <1>9, <1>10, <1>11 DEF MallocInv, ah

(* g is a right heap of the same memory in which the block fp is used too,   *)
(* with n bytes or the least more that cannot be split off.                  *)
Allots(g, h, L, F, C, fp, n) ==
  /\ \E L2 \in SUBSET Nodes, F2 \in SUBSET Nodes :
       HeapRight(g, L2, F2, C) /\ L2 \ F2 = (L \ F) \union {fp}
  /\ \A a \in L \ F : g.size[a] = h.size[a]
  /\ g.size[fp] \in {n, n + Hdr}

LEMMA AllotRight ==
  ASSUME NEW h, NEW L, NEW F, NEW C, HeapRight(h, L, F, C), NEW fp \in F,
         NEW n \in Nat, n % Hdr = 0, n >= 2 * Hdr, h.size[fp] >= n
  PROVE  Allots(malloc_from_block(h, fp, n), h, L, F, C, fp, n)
<1>1. /\ Shape(h, L, F, C) /\ Marked(h, L, F, {}) /\ Apart(h, F) /\ h \in HeapType
      /\ F \subseteq L /\ L \subseteq Nodes \ {Head} /\ Hdr \in Nat \ {0}
  BY NodeFacts DEF HeapRight, Shape, Chain
<1>2. /\ fp \in L /\ fp \in Nodes \ {Head} /\ fp \in Nat
      /\ h.size[fp] \in Nat /\ h.size[fp] % Hdr = 0
  BY <1>1, BlockFacts
<1>3. CASE h.size[fp] >= n + 2 * Hdr
  <2> DEFINE g == Split(h, fp, n)
             nfp == fp + n
             L2 == L \union {nfp}
             F2 == (F \ {fp}) \union {nfp}
  <2>1. malloc_from_block(h, fp, n) = g
    BY <1>3 DEF malloc_from_block
  <2>2. nfp \in Nodes \ (L \union {Head}) /\ Shape(g, L2, F2, C)
    BY <1>1, <1>3, SplitShape
  <2>3. IsSplit(g, h, fp, nfp, n)
    <3> PICK m \in Nat : \E rank \in [Nodes -> 0 .. m] : Chain(rank, h.next_free, h.prev_free, F)
      BY <1>1 DEF Shape, FreeChain
    <3>1. PICK rank \in [Nodes -> 0 .. m] : Chain(rank, h.next_free, h.prev_free, F)
      OBVIOUS
    <3>2. h.next_free[fp] \in Nodes /\ h.prev_free[fp] \in Nodes
      BY <1>1, <3>1, NodeFacts DEF Chain
    <3>3. h.next[fp] \in Nodes
      BY <1>1, <1>2, BlockFacts, NodeFacts
    <3>4. h.size[fp] - n \in Nat
      BY <1>2
    <3> QED
      BY <1>1, <1>2, <2>2, <3>2, <3>3, <3>4, SplitFields
  <2> HIDE DEF g
  <2>4. nfp # fp /\ nfp \in Nat
    BY <1>1, <1>2
  <2> HIDE DEF nfp
  <2>5. /\ g.type[nfp] = "FREE" /\ g.type[fp] = "USED"
        /\ \A a \in Nodes \ {fp, nfp} : g.type[a] = h.type[a]
        /\ g.size[nfp] = h.size[fp] - n /\ g.size[fp] = n
        /\ \A a \in L \ {fp} : g.size[a] = h.size[a]
    BY <1>1, <1>2, <2>2, <2>3, <2>4 DEF IsSplit, HeapType
  <2>6. Marked(g, L2, F2, {})
    <3>1. nfp \notin L /\ nfp # Head
      BY <2>2
    <3> QED
      BY <1>1, <1>2, <2>4, <2>5, <3>1 DEF Marked, Mark
  <2>7. Apart(g, F2)
    <3> SUFFICES ASSUME NEW a \in F2, NEW b \in F2, a + g.size[a] = b
                 PROVE  FALSE
      BY DEF Apart
    <3>1. \A c \in L : c \in Nat /\ h.size[c] \in Nat
      BY <1>1, BlockFacts
    <3>2. CASE a = nfp
      <4>1. fp + h.size[fp] = b
        BY <1>2, <2>5, <3>2 DEF nfp
      <4>2. b # nfp
        BY <1>1, <1>2, <1>3, <4>1 DEF nfp
      <4> QED
        BY <1>1, <4>1, <4>2 DEF Apart
    <3>3. CASE a # nfp /\ b = nfp
      <4>1. a \in L /\ a # fp /\ a + h.size[a] = fp + n
        BY <1>1, <2>5, <3>3 DEF nfp
      <4>2. a < fp => a + h.size[a] <= fp
        BY <1>1, <1>2, <4>1 DEF Shape, Tiled
      <4>3. fp < a => fp + h.size[fp] <= a
        BY <1>1, <1>2, <4>1 DEF Shape, Tiled
      <4> QED
        BY <1>1, <1>2, <1>3, <3>1, <4>1, <4>2, <4>3
    <3>4. CASE a # nfp /\ b # nfp
      BY <1>1, <2>5, <3>4 DEF Apart
    <3> QED
      BY <3>2, <3>3, <3>4
  <2>8. HeapRight(g, L2, F2, C)
    BY <2>2, <2>6, <2>7 DEF HeapRight
  <2>9. L2 \ F2 = (L \ F) \union {fp} /\ L2 \in SUBSET Nodes /\ F2 \in SUBSET Nodes
    BY <1>1, <1>2, <2>2, <2>4
  <2>10. (\A a \in L \ F : g.size[a] = h.size[a]) /\ g.size[fp] \in {n, n + Hdr}
    BY <2>5
  <2> HIDE DEF L2, F2
  <2> QED
    BY <2>1, <2>8, <2>9, <2>10 DEF Allots
<1>4. CASE ~(h.size[fp] >= n + 2 * Hdr)
  <2> DEFINE g == Taken(h, fp)
  <2>1. malloc_from_block(h, fp, n) = g
    BY <1>4 DEF malloc_from_block, Taken
  <2>2. IsTaken(g, h, fp) /\ Shape(g, L, F \ {fp}, C)
    BY <1>1, TakenShape
  <2> HIDE DEF g
  <2>3. /\ g.type[fp] = "USED" /\ \A a \in Nodes \ {fp} : g.type[a] = h.type[a]
        /\ g.size = h.size
    BY <1>1, <1>2, <2>2 DEF IsTaken, HeapType
  <2>4. Marked(g, L, F \ {fp}, {}) /\ Apart(g, F \ {fp})
    BY <1>1, <1>2, <2>3 DEF Marked, Mark, Apart
  <2>5. g.size[fp] \in {n, n + Hdr}
    <3>1. h.size[fp] # n => h.size[fp] >= n + Hdr
      <4>1. h.size[fp] > n => h.size[fp] >= n + Hdr
        BY <1>1, <1>2, Sums, Zenon
      <4> QED
        BY <1>2, <4>1
    <3>2. (n + Hdr) \in Nat /\ (n + Hdr) % Hdr = 0
      <4>1. (Hdr * 1) % Hdr = 0 /\ Hdr * 1 = Hdr
        BY <1>1, Multiple
      <4>2. Hdr % Hdr = 0 /\ Hdr \in Nat /\ n + Hdr \in Nat
        BY <1>1, <4>1
      <4> QED
        BY <1>1, <4>2, Sums, Zenon
    <3>3. h.size[fp] > n + Hdr => h.size[fp] >= (n + Hdr) + Hdr
      BY <1>1, <1>2, <3>2, Sums, Zenon
    <3> QED
      BY <1>1, <1>2, <1>4, <2>3, <3>1, <3>3
  <2>6. HeapRight(g, L, F \ {fp}, C) /\ L \ (F \ {fp}) = (L \ F) \union {fp}
    BY <1>2, <2>2, <2>4 DEF HeapRight
  <2>7. L \in SUBSET Nodes /\ F \ {fp} \in SUBSET Nodes
    BY <1>1
  <2> QED
    BY <2>1, <2>3, <2>5, <2>6, <2>7 DEF Allots
<1> QED
  BY <1>3, <1>4

(* malloc makes one free block a used one, or changes nothing.               *)
LEMMA MallocStep ==
  ASSUME MallocInv, NEW n \in Requests, malloc(n)
  PROVE  /\ MallocInv'
         /\ \/ /\ n # 0
               /\ \E fp \in Free :
                    /\ heap.size[fp] >= heap'.size[fp]
                    /\ heap'.size[fp] \in {BlockSize(n), BlockSize(n) + Hdr}
                    /\ UsedBecome(Used \union {fp})
                    /\ result' = fp + Hdr /\ pool' = pool
            \/ /\ n = 0 \/ \A a \in Free : ~(heap.size[a] >= BlockSize(n))
               /\ result' = NULL /\ UNCHANGED <<pool, heap>>
<1> DEFINE L == Live
           F == Free
           C == PoolCells
           size == BlockSize(n)
           fp == FirstFit(heap, size)
<1>1. /\ HeapRight(heap, L, F, C) /\ Shape(heap, L, F, C) /\ Marked(heap, L, F, {})
      /\ pool \subseteq Regions
  BY DEF MallocInv, HeapRight
<1>2. size \in Nat /\ size % Hdr = 0 /\ (n # 0 => size >= 2 * Hdr)
  BY BlockSizes
<1>3. F \subseteq L /\ L \subseteq Nodes \ {Head} /\ Hdr \in Nat \ {0}
  BY <1>1, NodeFacts DEF Shape, Chain
<1>4. Used = L \ F
  BY BlocksNow DEF MallocInv
<1> HIDE DEF L, F, C, size
<1>5. \/ fp \in F /\ heap.size[fp] >= size
      \/ fp = Head /\ \A a \in F : ~(heap.size[a] >= size)
  BY <1>1, <1>2, FirstFitFinds
<1>6. CASE n = 0 \/ fp = Head
  <2>1. result' = NULL /\ UNCHANGED <<pool, heap, held>>
    BY <1>6 DEF malloc, size
  <2>2. Live' = Live /\ Free' = Free /\ Used' = Used /\ PoolCells' = PoolCells
    BY <2>1 DEF Live, Free, Used, PoolCells
  <2>3. MallocInv'
    BY <2>1, <2>2 DEF MallocInv, HeldRight
  <2> QED
    BY <1>3, <1>5, <1>6, <2>1, <2>3 DEF F, size
<1>7. CASE n # 0 /\ fp # Head
  <2>1. /\ heap' = malloc_from_block(heap, fp, size) /\ result' = fp + Hdr
        /\ held' = held \union {[ptr |-> fp + Hdr, size |-> n]} /\ pool' = pool
    BY <1>7 DEF malloc, size
  <2>2. fp \in F /\ heap.size[fp] >= size
    BY <1>5, <1>7
  <2> HIDE DEF fp
  <2>3. Allots(heap', heap, L, F, C, fp, size)
    BY <1>1, <1>2, <1>7, <2>1, <2>2, AllotRight
  <2>4. /\ \A a \in L \ F : heap'.size[a] = heap.size[a]
        /\ heap'.size[fp] \in {size, size + Hdr}
    BY <2>3 DEF Allots
  <2>5. PICK L2 \in SUBSET Nodes : \E F2 \in SUBSET Nodes :
          HeapRight(heap', L2, F2, C) /\ L2 \ F2 = (L \ F) \union {fp}
    BY <2>3 DEF Allots
  <2>6. PICK F2 \in SUBSET Nodes :
          HeapRight(heap', L2, F2, C) /\ L2 \ F2 = (L \ F) \union {fp}
    BY <2>5
  <2>7. Live' = L2 /\ Free' = F2 /\ Used' = Used \union {fp}
    BY <1>4, <2>6, BlocksNext
  <2>8. PoolCells' = C
    BY <2>1 DEF PoolCells, C
  <2>9. fp \in Nat /\ fp \notin Used /\ fp + Hdr \in Nat /\ (fp + Hdr) - Hdr = fp
    <3>1. fp \in L /\ fp \in Nat
      BY <1>1, <1>3, <2>2, BlockFacts
    <3> QED
      BY <1>3, <1>4, <2>2, <3>1
  <2>10. HeldRight'
    <3>1. \A k \in held : k.ptr \in Nat /\ k.ptr - Hdr \in Used
      BY DEF MallocInv, HeldRight
    <3>2. \A k, j \in held : k.ptr = j.ptr => k = j
      BY DEF MallocInv, HeldRight
    <3>3. \A k \in held : k.ptr # fp + Hdr
      BY <2>9, <3>1
    <3>4. \A k \in held' : k \in held \/ k = [ptr |-> fp + Hdr, size |-> n]
      BY <2>1
    <3>5. \A k \in held' : k.ptr \in Nat /\ k.ptr - Hdr \in Used'
      BY <2>7, <2>9, <3>1, <3>4
    <3>6. \A k, j \in held' : k.ptr = j.ptr => k = j
      BY <3>2, <3>3, <3>4
    <3> QED
      BY <3>5, <3>6 DEF HeldRight
  <2>11. MallocInv'
    BY <1>1, <2>1, <2>6, <2>7, <2>8, <2>10 DEF MallocInv
  <2>12. UsedBecome(Used \union {fp})
    BY <1>4, <2>4, <2>7, <2>9 DEF UsedBecome
  <2>13. heap.size[fp] >= heap'.size[fp]
    <3>1. CASE heap.size[fp] >= size + 2 * Hdr
      <4>1. heap.size[fp] \in Nat
        BY <1>1, <1>3, <2>2, BlockFacts
      <4> QED
        BY <1>2, <1>3, <2>4, <3>1, <4>1
    <3>2. CASE ~(heap.size[fp] >= size + 2 * Hdr)
      <4>1. heap' = Taken(heap, fp)
        BY <2>1, <3>2 DEF malloc_from_block, Taken
      <4>2. IsTaken(heap', heap, fp)
        BY <1>1, <2>2, <4>1, TakenShape
      <4>3. heap.size[fp] \in Nat
        BY <1>1, <1>3, <2>2, BlockFacts
      <4> QED
        BY <4>2, <4>3 DEF IsTaken
    <3> QED
      BY <3>1, <3>2
  <2> QED
    BY <1>7, <2>1, <2>2, <2>4, <2>11, <2>12, <2>13 DEF F, size
<1> QED
  BY <1>6, <1>7

LEMMA MallocNext == MallocInv /\ [Next]_vars => MallocInv'
<1> SUFFICES ASSUME MallocInv, [Next]_vars
             PROVE  MallocInv'
  OBVIOUS
<1>1. ASSUME NEW r \in Regions, malloc_add(r)
      PROVE  MallocInv'
  BY <1>1, AddStep
<1>2. ASSUME NEW n \in Requests, malloc(n)
      PROVE  MallocInv'
  BY <1>2, MallocStep
<1>3. ASSUME NEW m \in held, free(m)
      PROVE  MallocInv'
  BY <1>3, FreeStep
<1>4. CASE UNCHANGED vars
  BY <1>4 DEF vars, MallocInv, HeldRight, Used, Live, Free, PoolCells
<1> QED
  BY <1>1, <1>2, <1>3, <1>4 DEF Next

(* In every state the headers make a right heap of the memory of the pool:   *)
(* malloc.c's list operations never leave a link, a mark or a size wrong,    *)
(* for any regions that are disjoint and any order of calls.                 *)
THEOREM MallocInvariance == Spec => []MallocInv
<1>1. Init => MallocInv
  BY MallocInit
<1>2. MallocInv /\ [Next]_vars => MallocInv'
  BY MallocNext
<1> QED
  BY <1>1, <1>2, PTL DEF Spec

-----------------------------------------------------------------------------
(* The memory.                                                               *)

LEMMA CellsOfBlocks ==
  ASSUME MallocInv
  PROVE  /\ \A a \in Live : /\ a \in Nat /\ heap.size[a] \in Nat
                            /\ heap.size[a] >= 2 * Hdr /\ heap.size[a] % Hdr = 0
                            /\ \A c : c \in Cells(Block(a)) <=>
                                        c \in Nat /\ a <= c /\ c < a + heap.size[a]
         /\ \A c : c \in PoolCells <=> \E a \in Live : c \in Cells(Block(a))
         /\ \A a, b \in Live : a < b => a + heap.size[a] <= b
         /\ PoolCells \subseteq Nat
<1>1. Shape(heap, Live, Free, PoolCells) /\ Tiled(heap, Live, PoolCells)
  BY DEF MallocInv, HeapRight, Shape
<1>2. ASSUME NEW a \in Live
      PROVE  /\ a \in Nat /\ heap.size[a] \in Nat
             /\ heap.size[a] >= 2 * Hdr /\ heap.size[a] % Hdr = 0
  BY <1>1, <1>2, BlockFacts
<1>3. ASSUME NEW a \in Live, NEW c
      PROVE  c \in Cells(Block(a)) <=> c \in Nat /\ a <= c /\ c < a + heap.size[a]
  BY <1>2 DEF Cells, Block
<1>4. PoolCells \subseteq Nat
  BY <1>1, NodeFacts DEF Shape
<1>5. ASSUME NEW c
      PROVE  c \in PoolCells <=> \E a \in Live : c \in Cells(Block(a))
  BY <1>1, <1>3, <1>4 DEF Tiled
<1> QED
  BY <1>1, <1>2, <1>3, <1>4, <1>5 DEF Tiled

(* The blocks tile the pool, and no two free ones touch: no byte of the      *)
(* memory that malloc_add was given is lost, or in two blocks, and the joins *)
(* of __free_block are never missed.                                         *)
THEOREM AlwaysTiled == Spec => []Tiling
<1>1. MallocInv => Tiling
  <2> SUFFICES ASSUME MallocInv
               PROVE  Tiling
    OBVIOUS
  <2>1. \A a \in Live : heap.size[a] >= 2 * Hdr
    BY CellsOfBlocks
  <2>2. UNION {Cells(Block(a)) : a \in Live} = PoolCells
    BY CellsOfBlocks
  <2>3. ASSUME NEW a \in Live, NEW b \in Live, a # b
        PROVE  Cells(Block(a)) \intersect Cells(Block(b)) = {}
    <3>1. a < b \/ b < a
      BY <2>3, CellsOfBlocks
    <3>2. a < b => a + heap.size[a] <= b
      BY CellsOfBlocks
    <3>3. b < a => b + heap.size[b] <= a
      BY CellsOfBlocks
    <3> QED
      BY <3>1, <3>2, <3>3, CellsOfBlocks
  <2>4. NoTouchingFree
    BY DEF MallocInv, HeapRight, Apart, NoTouchingFree
  <2> QED
    BY <2>1, <2>2, <2>3, <2>4 DEF Tiling, BlocksTile, PoolCells
<1> QED
  BY <1>1, MallocInvariance, PTL

-----------------------------------------------------------------------------
(* The lists.                                                                *)

(* f goes along the links from the head.                                     *)
IsTour(f, next, n) == f = [k \in 0 .. n |-> IF k = 0 THEN Head ELSE next[f[k - 1]]]

LEMMA TourExists ==
  ASSUME NEW S, NEW next, \A a \in S \union {Head} : next[a] \in S \union {Head}, NEW n \in Nat
  PROVE  \E f : IsTour(f, next, n)
<1> DEFINE R == S \union {Head}
           Upto(f, k) == \A i \in 0 .. k : f[i] = IF i = 0 THEN Head ELSE next[f[i - 1]]
           T == {k \in 0 .. n : \E f \in [0 .. n -> R] : Upto(f, k)}
<1>1. 0 \in T
  <2>1. [i \in 0 .. n |-> Head] \in [0 .. n -> R] /\ 0 \in 0 .. n
    OBVIOUS
  <2>2. Upto([i \in 0 .. n |-> Head], 0)
    OBVIOUS
  <2> QED
    BY <2>1, <2>2
<1>2. ASSUME NEW k \in 1 .. n, k - 1 \in T
      PROVE  k \in T
  <2>1. PICK f \in [0 .. n -> R] : Upto(f, k - 1)
    BY <1>2
  <2> DEFINE g == [f EXCEPT ![k] = next[f[k - 1]]]
  <2>2. k \in 0 .. n /\ k - 1 \in 0 .. n
    OBVIOUS
  <2>3. g \in [0 .. n -> R]
    BY <2>2
  <2>4. g[k] = next[f[k - 1]] /\ \A i \in 0 .. n : i # k => g[i] = f[i]
    BY <2>2
  <2> HIDE DEF g
  <2>5. Upto(g, k)
    <3> SUFFICES ASSUME NEW i \in 0 .. k
                 PROVE  g[i] = IF i = 0 THEN Head ELSE next[g[i - 1]]
      OBVIOUS
    <3>1. CASE i = k
      BY <2>2, <2>4, <3>1
    <3>2. CASE i # k
      <4>1. i \in 0 .. k - 1 /\ i \in 0 .. n
        BY <3>2
      <4>2. i # 0 => i - 1 \in 0 .. n /\ i - 1 # k
        BY <4>1
      <4> QED
        BY <2>1, <2>4, <3>2, <4>1, <4>2
    <3> QED
      BY <3>1, <3>2
  <2> QED
    BY <2>2, <2>3, <2>5
<1> HIDE DEF T
<1>3. \A i \in 0 .. n : i \in T
  BY <1>1, <1>2, Induct
<1>4. n \in T
  BY <1>3
<1>5. PICK f \in [0 .. n -> R] : Upto(f, n)
  BY <1>4 DEF T
<1>6. f = [k \in 0 .. n |-> f[k]]
  OBVIOUS
<1>7. f = [k \in 0 .. n |-> IF k = 0 THEN Head ELSE next[f[k - 1]]]
  BY <1>5, <1>6
<1> QED
  BY <1>7, Zenon DEF IsTour

(* As many steps from the head as the list has nodes visit all of them.      *)
LEMMA TourVisits ==
  ASSUME NEW rank \in Ranks, NEW next, NEW prev, NEW S, IsFiniteSet(S),
         Chain(rank, next, prev, S), \A a \in S : rank[a] \in Nat,
         NEW f, IsTour(f, next, Cardinality(S))
  PROVE  {f[i] : i \in 1 .. Cardinality(S)} = S
<1> DEFINE N == Cardinality(S)
<1>1. N \in Nat
  BY FS_CardinalityType
<1>2. f[0] = Head /\ \A i \in 1 .. N : i - 1 \in 0 .. N /\ f[i] = next[f[i - 1]]
  <2>1. f = [k \in 0 .. N |-> IF k = 0 THEN Head ELSE next[f[k - 1]]]
    BY DEF IsTour
  <2>2. \A i \in 1 .. N : i \in 0 .. N /\ i # 0 /\ i - 1 \in 0 .. N
    <3> HIDE DEF N
    <3> QED
      BY <1>1
  <2> QED
    BY <1>1, <2>1, <2>2
<1> HIDE DEF N
<1>3. \A a \in S \union {Head} :
        next[a] \in S \union {Head} /\ (next[a] # Head => rank[a] < rank[next[a]])
  BY DEF Chain
<1>4. \A i \in 0 .. N : f[i] \in S \union {Head}
  <2> DEFINE T == {i \in 0 .. N : f[i] \in S \union {Head}}
  <2>1. 0 \in T
    BY <1>1, <1>2
  <2>2. ASSUME NEW i \in 1 .. N, i - 1 \in T
        PROVE  i \in T
    BY <1>2, <1>3, <2>2
  <2> HIDE DEF T
  <2>3. \A i \in 0 .. N : i \in T
    BY <1>1, <2>1, <2>2, Induct
  <2> QED
    BY <2>3 DEF T
<1>5. CASE \A i \in 1 .. N : f[i] # Head
  <2>1. \A i \in 1 .. N : f[i] \in S
    BY <1>4, <1>5
  <2>2. \A i \in 0 .. N : f[i] \in Nodes /\ rank[f[i]] \in Int
    BY <1>4, NodeFacts, ZenonT(60) DEF Chain, Ranks
  <2>3. \A i \in 1 .. N : rank[f[i - 1]] < rank[f[i]]
    BY <1>2, <1>3, <1>4, <1>5
  <2> DEFINE T == {k \in 0 .. N : \A i \in 0 .. k : rank[f[i]] <= rank[f[k]]}
  <2>4. 0 \in T
    BY <1>1, <2>2
  <2>5. ASSUME NEW k \in 1 .. N, k - 1 \in T
        PROVE  k \in T
    <3>1. k \in 0 .. N /\ k - 1 \in 0 .. N /\ rank[f[k - 1]] < rank[f[k]]
      BY <1>1, <2>3
    <3>2. \A i \in 0 .. k : i = k \/ (i \in 0 .. k - 1 /\ i \in 0 .. N)
      BY <1>1
    <3>3. \A i \in 0 .. k - 1 : rank[f[i]] <= rank[f[k - 1]]
      BY <2>5
    <3>4. \A i \in 0 .. k : rank[f[i]] <= rank[f[k]]
      BY <2>2, <3>1, <3>2, <3>3
    <3> QED
      BY <3>1, <3>4
  <2> HIDE DEF T
  <2>6. \A k \in 0 .. N : k \in T
    BY <1>1, <2>4, <2>5, Induct
  <2>7. \A i, j \in 1 .. N : i < j => f[i] # f[j]
    <3> SUFFICES ASSUME NEW i \in 1 .. N, NEW j \in 1 .. N, i < j
                 PROVE  rank[f[i]] < rank[f[j]]
      BY <2>2
    <3>1. j - 1 \in 0 .. N /\ i \in 0 .. j - 1 /\ i \in 0 .. N /\ j \in 0 .. N
      BY <1>1
    <3>2. rank[f[i]] <= rank[f[j - 1]]
      BY <2>6, <3>1 DEF T
    <3> QED
      BY <2>2, <2>3, <3>1, <3>2
  <2>8. \A i, j \in 1 .. N : f[i] = f[j] => i = j
    BY <1>1, <2>7
  <2> DEFINE g == [i \in 1 .. N |-> f[i]]
  <2>9. g \in Injection(1 .. N, S)
    BY <2>1, <2>8 DEF Injection, IsInjective
  <2>10. Cardinality(1 .. N) = N
    BY <1>1, FS_Interval
  <2>11. g \in Surjection(1 .. N, S)
    BY <2>9, <2>10, FS_Injection DEF N
  <2>12. \A b \in S : \E i \in 1 .. N : g[i] = b
    BY <2>11 DEF Surjection
  <2> QED
    BY <2>1, <2>12 DEF N
<1>6. CASE \E i \in 1 .. N : f[i] = Head
  <2> DEFINE I == {i \in 1 .. N : f[i] = Head}
             id == [i \in Nat |-> i]
  <2>1. I # {} /\ \A i \in I : id[i] \in Nat
    BY <1>6
  <2>2. PICK i \in I : \A j \in I : id[i] <= id[j]
    <3> HIDE DEF I, id
    <3> QED
      BY <2>1, Least
  <2>3. i \in 1 .. N /\ f[i] = Head /\ \A j \in 1 .. (i - 1) : f[j] # Head /\ j \in 0 .. N
    <3>1. i \in 1 .. N /\ i \in Nat /\ f[i] = Head
      BY <2>2
    <3>2. \A j \in 1 .. (i - 1) : j \in 1 .. N /\ j < i /\ j \in Nat /\ j \in 0 .. N
      BY <1>1, <3>1
    <3>3. \A j \in I : i <= j
      <4>1. \A j \in I : j \in Nat /\ id[j] = j
        BY <1>1
      <4> HIDE DEF id
      <4> QED
        BY <2>2, <4>1
    <3>4. \A j \in 1 .. (i - 1) : f[j] # Head
      BY <3>1, <3>2, <3>3
    <3> QED
      BY <3>1, <3>2, <3>4
  <2> DEFINE V == {f[j] : j \in 1 .. (i - 1)}
  <2>4. V \in SUBSET S
    BY <1>4, <2>3
  <2>5. \A j \in 0 .. (i - 1) : next[f[j]] \in V \union {Head}
    <3> SUFFICES ASSUME NEW j \in 0 .. (i - 1)
                 PROVE  next[f[j]] \in V \union {Head}
      OBVIOUS
    <3>1. j + 1 \in 1 .. N /\ (j + 1) - 1 = j
      BY <2>3
    <3>2. next[f[j]] = f[j + 1]
      BY <1>2, <3>1
    <3>3. j + 1 = i \/ j + 1 \in 1 .. (i - 1)
      BY <2>3
    <3> QED
      BY <2>3, <3>2, <3>3
  <2>6. next[Head] \in V \union {Head} /\ \A c \in V : next[c] \in V \union {Head}
    <3>1. 0 \in 0 .. (i - 1) /\ \A j \in 1 .. (i - 1) : j \in 0 .. (i - 1)
      BY <2>3
    <3> QED
      BY <1>2, <2>5, <3>1
  <2>7. V = S
    <3> HIDE DEF V
    <3> QED
      BY <2>4, <2>6, ChainClosed
  <2> DEFINE g == [j \in 1 .. (i - 1) |-> f[j]]
  <2>8. g \in Surjection(1 .. (i - 1), S)
    BY <2>7 DEF Surjection
  <2>9. IsFiniteSet(1 .. (i - 1)) /\ Cardinality(1 .. (i - 1)) = i - 1
    BY <2>3, FS_Interval
  <2>10. N <= i - 1
    BY <2>8, <2>9, FS_Surjection DEF N
  <2> QED
    BY <1>1, <2>3, <2>10
<1> QED
  BY <1>5, <1>6

LEMMA ChainLinked ==
  ASSUME NEW rank \in Ranks, NEW next, NEW prev, NEW S, IsFiniteSet(S),
         Chain(rank, next, prev, S), \A a \in S : rank[a] \in Nat
  PROVE  Linked(next, prev, S)
<1> DEFINE f == CHOOSE walk : IsTour(walk, next, Cardinality(S))
<1>1. \A a \in S \union {Head} : next[a] \in S \union {Head} /\ prev[next[a]] = a
  BY DEF Chain
<1>2. Cardinality(S) \in Nat
  BY FS_CardinalityType
<1>3. \E walk : IsTour(walk, next, Cardinality(S))
  BY <1>1, <1>2, TourExists
<1>4. IsTour(f, next, Cardinality(S))
  BY <1>3, Zenon
<1> HIDE DEF f
<1>5. {f[i] : i \in 1 .. Cardinality(S)} = S
  BY <1>4, TourVisits
<1> QED
  BY <1>1, <1>5 DEF Linked, IsTour, f

(* Both lists of malloc.c are whole in both directions, the main one in the  *)
(* order of addresses, and the free chain holds exactly the free blocks.     *)
THEOREM ListsAlwaysRight == Spec => []ListsRight
<1>1. MallocInv => ListsRight
  <2> SUFFICES ASSUME MallocInv
               PROVE  ListsRight
    OBVIOUS
  <2>1. Shape(heap, Live, Free, PoolCells)
    BY DEF MallocInv, HeapRight
  <2>2. /\ Chain(Address, heap.next, heap.prev, Live) /\ FreeChain(heap, Free)
        /\ IsFiniteSet(Live) /\ Free \subseteq Live
    BY <2>1 DEF Shape
  <2>3. Live \subseteq Nodes \ {Head} /\ Address \in Ranks /\ \A a \in Live : Address[a] \in Nat
    <3>1. Live \subseteq Nodes \ {Head}
      BY DEF Live
    <3> QED
      BY <3>1, NodeFacts
  <2>4. Linked(heap.next, heap.prev, Live)
    BY <2>2, <2>3, ChainLinked
  <2>5. Linked(heap.next_free, heap.prev_free, Free)
    <3> PICK m \in Nat : \E rank \in [Nodes -> 0 .. m] :
               Chain(rank, heap.next_free, heap.prev_free, Free)
      BY <2>2 DEF FreeChain
    <3>1. PICK rank \in [Nodes -> 0 .. m] : Chain(rank, heap.next_free, heap.prev_free, Free)
      OBVIOUS
    <3>2. rank \in Ranks /\ \A a \in Free : rank[a] \in Nat
      BY <2>2, <2>3 DEF Ranks
    <3>3. IsFiniteSet(Free)
      BY <2>2, FS_Subset
    <3> QED
      BY <3>1, <3>2, <3>3, ChainLinked
  <2>6. \A a \in Live : heap.next[a] # Head => a < heap.next[a]
    BY <2>1, BlockFacts
  <2> QED
    BY <2>4, <2>5, <2>6 DEF ListsRight
<1> QED
  BY <1>1, MallocInvariance, PTL

-----------------------------------------------------------------------------
(* What the allocator promises.                                              *)

LEMMA FreeCellsAre ==
  ASSUME MallocInv
  PROVE  \A c : c \in Abstract!FreeCells <=> \E a \in Free : c \in Cells(Block(a))
<1> SUFFICES ASSUME NEW c
             PROVE  c \in Abstract!FreeCells <=> \E a \in Free : c \in Cells(Block(a))
  OBVIOUS
<1>1. Used = Live \ Free /\ Free \subseteq Live
  BY BlocksNow DEF MallocInv, HeapRight, Shape
<1>2. c \in Abstract!FreeCells <=>
        c \in PoolCells /\ ~ \E b \in Used : c \in Cells(Block(b))
  BY DEF Abstract!FreeCells, Abstract!Cells, Cells, PoolCells
<1>3. c \in PoolCells <=> \E a \in Live : c \in Cells(Block(a))
  BY CellsOfBlocks
<1>4. \A a, b \in Live : c \in Cells(Block(a)) /\ c \in Cells(Block(b)) => a = b
  <2> SUFFICES ASSUME NEW a \in Live, NEW b \in Live,
                      c \in Cells(Block(a)), c \in Cells(Block(b)), a # b
               PROVE  FALSE
    OBVIOUS
  <2>1. /\ a \in Nat /\ b \in Nat /\ c \in Nat
        /\ heap.size[a] \in Nat /\ heap.size[b] \in Nat
        /\ a <= c /\ c < a + heap.size[a] /\ b <= c /\ c < b + heap.size[b]
    BY CellsOfBlocks
  <2>2. (a < b => a + heap.size[a] <= b) /\ (b < a => b + heap.size[b] <= a)
    BY CellsOfBlocks
  <2> QED
    BY <2>1, <2>2
<1> QED
  BY <1>1, <1>2, <1>3, <1>4

(* A run of free memory lies in one free block, as free blocks never touch.  *)
LEMMA RefusalRight ==
  ASSUME MallocInv, NEW k \in Nat, \A a \in Free : ~(heap.size[a] >= k)
  PROVE  ~Abstract!Fits(k)
<1> SUFFICES ASSUME NEW c \in Abstract!FreeCells, c .. c + k - 1 \subseteq Abstract!FreeCells
             PROVE  FALSE
  BY DEF Abstract!Fits
<1>1. PICK x \in Free : c \in Cells(Block(x))
  BY FreeCellsAre
<1>2. Free \subseteq Live
  BY DEF MallocInv, HeapRight, Shape
<1>3. /\ x \in Nat /\ heap.size[x] \in Nat
      /\ c \in Nat /\ x <= c /\ c < x + heap.size[x]
  BY <1>1, <1>2, CellsOfBlocks
<1> DEFINE e == x + heap.size[x]
<1>4. e \in Nat /\ e \in c .. c + k - 1
  BY <1>1, <1>3
<1>5. PICK y \in Free : e \in Cells(Block(y))
  BY <1>4, FreeCellsAre
<1>6. y \in Nat /\ heap.size[y] \in Nat /\ y <= e /\ e < y + heap.size[y]
  BY <1>2, <1>5, CellsOfBlocks
<1>7. (x < y => x + heap.size[x] <= y) /\ (y < x => y + heap.size[y] <= x)
  BY <1>1, <1>2, <1>5, CellsOfBlocks
<1>8. y = e
  BY <1>3, <1>6, <1>7
<1> QED
  BY <1>1, <1>5, <1>8 DEF MallocInv, HeapRight, Apart

(* The blocks that the program holds, before and after a step.               *)
Holds(h, U) == {[base |-> a, size |-> h.size[a]] : a \in U}

LEMMA HoldsNow == /\ {Block(a) : a \in Used} = Holds(heap, Used)
                  /\ {Block(a) : a \in Used}' = Holds(heap', Used')
BY DEF Block, Holds

(* Every step of the allocator is one of its specification.                  *)
LEMMA AllocatorStep ==
  ASSUME MallocInv, [Next]_vars
  PROVE  [Abstract!AllocNext]_Abstract!allocVars
<1>1. ASSUME NEW r \in Regions, malloc_add(r)
      PROVE  Abstract!AllocNext
  <2>1. UsedBecome(Used)
    BY <1>1, AddStep
  <2>2. Holds(heap', Used') = Holds(heap, Used)
    BY <2>1 DEF UsedBecome, Holds
  <2>3. Abstract!AllocAdd(r)
    BY <1>1, <2>2, HoldsNow DEF malloc_add, Abstract!AllocAdd
  <2> QED
    BY <2>3 DEF Abstract!AllocNext
<1>2. ASSUME NEW m \in held, free(m)
      PROVE  Abstract!AllocNext
  <2> DEFINE ah == m.ptr - Hdr
             b == [base |-> ah, size |-> heap.size[ah]]
  <2>1. UsedBecome(Used \ {ah}) /\ ah \in Used
    BY <1>2, FreeStep
  <2> HIDE DEF ah
  <2>2. Holds(heap', Used') = Holds(heap, Used) \ {b} /\ b \in Holds(heap, Used)
    <3>1. b \in Holds(heap, Used)
      BY <2>1 DEF Holds
    <3>2. Used' = Used \ {ah} /\ \A a \in Used \ {ah} : heap'.size[a] = heap.size[a]
      BY <2>1 DEF UsedBecome
    <3>3. \A z : z \in Holds(heap', Used') <=> \E a \in Used \ {ah} : z = [base |-> a, size |-> heap.size[a]]
      BY <3>2 DEF Holds
    <3>4. \A z : z \in Holds(heap, Used) <=> \E a \in Used : z = [base |-> a, size |-> heap.size[a]]
      BY DEF Holds
    <3>5. \A a \in Used : [base |-> a, size |-> heap.size[a]] = b => a = ah
      OBVIOUS
    <3> HIDE DEF b
    <3>6. b = [base |-> ah, size |-> heap.size[ah]]
      BY DEF b
    <3> QED
      BY <3>1, <3>3, <3>4, <3>5, <3>6
  <2>3. Abstract!AllocFree(b)
    <3>1. pool' = pool /\ result' = result
      BY <1>2 DEF free
    <3> HIDE DEF b
    <3> QED
      BY <2>2, <3>1, HoldsNow DEF Abstract!AllocFree
  <2>4. b \in {Block(a) : a \in Used}
    BY <2>2, HoldsNow
  <2> QED
    BY <2>3, <2>4 DEF Abstract!AllocNext
<1>3. ASSUME NEW n \in Requests, malloc(n)
      PROVE  Abstract!AllocNext
  <2>1. BlockSize(n) = Abstract!Need(n) /\ BlockSize(n) \in Nat
    BY BlockSizes DEF Abstract!Need
  <2>2. CASE /\ n # 0
             /\ \E fp \in Free :
                  /\ heap.size[fp] >= heap'.size[fp]
                  /\ heap'.size[fp] \in {BlockSize(n), BlockSize(n) + Hdr}
                  /\ UsedBecome(Used \union {fp})
                  /\ result' = fp + Hdr /\ pool' = pool
    <3>1. PICK fp \in Free :
            /\ heap.size[fp] >= heap'.size[fp]
            /\ heap'.size[fp] \in {BlockSize(n), BlockSize(n) + Hdr}
            /\ UsedBecome(Used \union {fp})
            /\ result' = fp + Hdr /\ pool' = pool
      BY <2>2
    <3> DEFINE size == heap'.size[fp]
               b == [base |-> fp, size |-> size]
    <3>2. Holds(heap', Used') = Holds(heap, Used) \union {b}
      <4>1. fp \notin Used /\ Used' = Used \union {fp} /\ \A a \in Used : heap'.size[a] = heap.size[a]
        BY <3>1 DEF UsedBecome, Used, Free
      <4> QED
        BY <4>1 DEF Holds
    <3>3. /\ fp \in Nat /\ heap.size[fp] \in Nat /\ heap.size[fp] >= 2 * Hdr
          /\ \A c : c \in Cells(Block(fp)) <=>
                      c \in Nat /\ fp <= c /\ c < fp + heap.size[fp]
      BY CellsOfBlocks DEF Free
    <3>4. size \in Nat /\ size \in {Abstract!Need(n), Abstract!Need(n) + Hdr}
      BY <2>1, <3>1, NodeFacts
    <3> HIDE DEF size
    <3>5. Cells(b) \subseteq Abstract!FreeCells /\ fp \in Abstract!FreeCells
      <4>1. \A c \in Cells(b) : c \in Cells(Block(fp))
        BY <3>1, <3>3, <3>4 DEF Cells, size
      <4>2. fp \in Cells(Block(fp))
        BY <3>3, NodeFacts
      <4> QED
        BY <4>1, <4>2, FreeCellsAre
    <3>6. Abstract!AllocMalloc(n)
      <4>1. Abstract!Cells(b) = Cells(b)
        BY DEF Abstract!Cells, Cells
      <4> HIDE DEF b
      <4>2. b = [base |-> fp, size |-> size]
        BY DEF b
      <4> QED
        BY <2>2, <3>1, <3>2, <3>4, <3>5, <4>1, <4>2, HoldsNow DEF Abstract!AllocMalloc
    <3> QED
      BY <3>6 DEF Abstract!AllocNext
  <2>3. CASE /\ n = 0 \/ \A a \in Free : ~(heap.size[a] >= BlockSize(n))
             /\ result' = NULL /\ UNCHANGED <<pool, heap>>
    <3>1. n = 0 \/ ~Abstract!Fits(Abstract!Need(n))
      BY <2>1, <2>3, RefusalRight
    <3>2. Holds(heap', Used') = Holds(heap, Used)
      BY <2>3 DEF Holds, Used, Live
    <3>3. Abstract!AllocMalloc(n)
      BY <2>3, <3>1, <3>2, HoldsNow DEF Abstract!AllocMalloc, Abstract!NULL, NULL
    <3> QED
      BY <3>3 DEF Abstract!AllocNext
  <2> QED
    BY <1>3, <2>2, <2>3, MallocStep
<1>4. CASE UNCHANGED vars
  <2>1. Holds(heap', Used') = Holds(heap, Used)
    BY <1>4 DEF vars, Holds, Used, Live
  <2> QED
    BY <1>4, <2>1, HoldsNow DEF vars, Abstract!allocVars
<1> QED
  BY <1>1, <1>2, <1>3, <1>4 DEF Next

(* malloc.c does what an allocator promises: it gives blocks of free memory  *)
(* that are big enough and little more, never memory that is in use, and it  *)
(* refuses only when no run of free memory is long enough.                   *)
THEOREM AllocatorImplemented == Spec => ImplementsAllocator
<1>1. Init => Abstract!AllocInit
  <2> SUFFICES ASSUME Init
               PROVE  Abstract!AllocInit
    OBVIOUS
  <2>1. Used = {}
    BY NodeFacts DEF Init, Used, Live, EmptyHeap
  <2> QED
    BY <2>1 DEF Init, Abstract!AllocInit, Abstract!NULL, NULL
<1>2. MallocInv /\ [Next]_vars => [Abstract!AllocNext]_Abstract!allocVars
  BY AllocatorStep
<1> QED
  BY <1>1, <1>2, MallocInvariance, PTL DEF Spec, ImplementsAllocator, Abstract!AllocSpec

=============================================================================
