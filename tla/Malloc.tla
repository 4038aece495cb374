------------------------------- MODULE Malloc -------------------------------
(***************************************************************************)
(* malloc.c: every block begins with a header; all headers are in one      *)
(* doubly linked list in the order of their addresses, the free ones also  *)
(* in a second one in no order; both begin and end at __malloc_head.       *)
(* Addresses and sizes are in bytes.                                       *)
(*                                                                         *)
(* The heap is a record of functions from header addresses to the fields   *)
(* of the header, so that each function of the code is an operator from    *)
(* heaps to heaps, and each of its assignments an EXCEPT.                  *)
(***************************************************************************)
EXTENDS Arena, FiniteSets

VARIABLES
  pool,     \* history: the regions added so far
  result,   \* what the last call returned
  heap,     \* the headers in memory
  held      \* history: what the program holds: pointer and size asked for

vars == <<pool, result, heap, held>>

Head == -2       \* &__malloc_head
Nil  == -3       \* memory that the list does not own: payload or never written

Addrs == UNION {Cells(r) : r \in Regions}
Nodes == {a \in Addrs : a % Hdr = 0} \union {Head}

(* __malloc_head, and memory that holds no header yet. *)
EmptyHeap ==
  [type |-> [a \in Nodes |-> IF a = Head THEN "HEAD" ELSE "none"],
   size |-> [a \in Nodes |-> 0],
   next |-> [a \in Nodes |-> IF a = Head THEN Head ELSE Nil],
   prev |-> [a \in Nodes |-> IF a = Head THEN Head ELSE Nil],
   next_free |-> [a \in Nodes |-> IF a = Head THEN Head ELSE Nil],
   prev_free |-> [a \in Nodes |-> IF a = Head THEN Head ELSE Nil]]

Init == pool = {} /\ result = NULL /\ heap = EmptyHeap /\ held = {}

-----------------------------------------------------------------------------
(* The list operations. *)

remove_from_main_chain(h, ah) ==
  LET ap == h.prev[ah]
      an == h.next[ah]
  IN  [h EXCEPT !.type[ah] = "none", !.size[ah] = 0,
                !.next[ah] = Nil, !.prev[ah] = Nil,
                !.next[ap] = an, !.prev[an] = ap]

remove_from_free_chain(h, ah) ==
  LET ap == h.prev_free[ah]
      an == h.next_free[ah]
  IN  [h EXCEPT !.next_free[ah] = Nil, !.prev_free[ah] = Nil,
                !.next_free[ap] = an, !.prev_free[an] = ap]

remove_from_chains(h, ah) ==
  remove_from_main_chain(remove_from_free_chain(h, ah), ah)

(* Bigger block than required: fp keeps its address and is used, the rest   *)
(* takes its place on the free chain.                                       *)
Split(h, fp, n) ==
  LET nfp == fp + n
      na  == h.next[fp]
      fpn == h.next_free[fp]
      fpp == h.prev_free[fp]
  IN  [h EXCEPT !.type[nfp] = "FREE", !.size[nfp] = h.size[fp] - n,
                !.type[fp] = "USED", !.size[fp] = n,
                !.prev[nfp] = fp, !.next[nfp] = na,
                !.prev[na] = nfp, !.next[fp] = nfp,
                !.next_free[fp] = Nil, !.prev_free[fp] = Nil,
                !.next_free[nfp] = fpn, !.prev_free[nfp] = fpp,
                !.prev_free[fpn] = nfp, !.next_free[fpp] = nfp]

(* A definition named X_Y is X with a plausible bug, for the check that the *)
(* properties can fail; nothing uses it.                                    *)
malloc_from_block_Strict(h, fp, n) ==
  IF h.size[fp] > n + 2 * Hdr
  THEN Split(h, fp, n)
  ELSE remove_from_free_chain([h EXCEPT !.type[fp] = "USED"], fp)

malloc_from_block(h, fp, n) ==
  IF h.size[fp] >= n + 2 * Hdr
  THEN Split(h, fp, n)
  ELSE remove_from_free_chain([h EXCEPT !.type[fp] = "USED"], fp)

(* The two halves of __free_block: join the block to the free one before    *)
(* it, or put it at the front of the free chain; then join the free one     *)
(* after it.                                                                *)
JoinsPrevious(h, ah) ==
  LET pah == h.prev[ah]
  IN  h.type[pah] = "FREE" /\ pah + h.size[pah] = ah

Absorb(h, pah, ah) ==
  LET nah == h.next[ah]
  IN  [h EXCEPT !.size[pah] = @ + h.size[ah], !.next[pah] = nah, !.prev[nah] = pah,
                !.type[ah] = "none", !.size[ah] = 0, !.next[ah] = Nil, !.prev[ah] = Nil]

AddFree_OneWay(h, ah) ==
  [h EXCEPT !.type[ah] = "FREE",
            !.next_free[ah] = h.next_free[Head], !.prev_free[ah] = Head,
            !.next_free[Head] = ah]

AddFree(h, ah) ==
  LET first == h.next_free[Head]
  IN  [h EXCEPT !.type[ah] = "FREE",
                !.next_free[ah] = first, !.prev_free[ah] = Head,
                !.next_free[Head] = ah, !.prev_free[first] = ah]

JoinNext(h, ah) ==
  LET nah == h.next[ah]
  IN  IF h.type[nah] = "FREE" /\ ah + h.size[ah] = nah
      THEN remove_from_chains([h EXCEPT !.size[ah] = @ + h.size[nah]], nah)
      ELSE h

free_block_Once(h, ah) ==
  IF JoinsPrevious(h, ah)
  THEN Absorb(h, h.prev[ah], ah)
  ELSE JoinNext(AddFree(h, ah), ah)

free_block(h, ah) ==
  IF JoinsPrevious(h, ah)
  THEN JoinNext(Absorb(h, h.prev[ah], ah), h.prev[ah])
  ELSE JoinNext(AddFree(h, ah), ah)

-----------------------------------------------------------------------------
(* The functions of the interface. *)

(* The nodes that a list leads to; in all others its fields are Nil.        *)
OnChain(link) == {a \in Nodes : link[a] # Nil}

(* The search backwards for the block that p comes after. *)
Predecessor(h, p) ==
  LET walk[a \in OnChain(h.prev)] ==
        IF h.type[a] = "HEAD" \/ a < p THEN a ELSE walk[h.prev[a]]
  IN  walk[h.prev[Head]]

Insert(h, p, pah) ==
  [h EXCEPT !.next[p] = h.next[pah], !.prev[p] = pah,
            !.next[pah] = p, !.prev[h.next[pah]] = p]

malloc_add(r) ==
  /\ r \notin pool
  /\ LET p == r.base
         h == [heap EXCEPT !.type[p] = "FREE", !.size[p] = r.size]
     IN  heap' = free_block(Insert(h, p, Predecessor(h, p)), p)
  /\ pool' = pool \union {r}
  /\ UNCHANGED <<result, held>>

(* The header is added and the sum rounded to whole headers, in size_t. *)
BlockSize(n) ==
  LET s == (n + 2 * Hdr - 1) % SizeMax
  IN  s - (s % Hdr)

(* First fit along the free chain. *)
FirstFit(h, n) ==
  LET walk[a \in OnChain(h.next_free)] ==
        IF h.type[a] = "HEAD" \/ h.size[a] >= n THEN a ELSE walk[h.next_free[a]]
  IN  walk[h.next_free[Head]]

malloc(n) ==
  LET size == BlockSize(n)
      fp   == FirstFit(heap, size)
  IN  \/ /\ n # 0 /\ fp # Head
         /\ heap' = malloc_from_block(heap, fp, size)
         /\ result' = fp + Hdr
         /\ held' = held \union {[ptr |-> fp + Hdr, size |-> n]}
         /\ UNCHANGED pool
      \/ /\ n = 0 \/ fp = Head     \* _sbrk has no memory to give
         /\ result' = NULL
         /\ UNCHANGED <<pool, heap, held>>

free(m) ==
  /\ m \in held
  /\ heap' = free_block(heap, m.ptr - Hdr)
  /\ held' = held \ {m}
  /\ UNCHANGED <<pool, result>>

Next ==
  \/ \E r \in Regions : malloc_add(r)
  \/ \E n \in Requests : malloc(n)
  \/ \E m \in held : free(m)

Spec == Init /\ [][Next]_vars

-----------------------------------------------------------------------------
(* Properties. *)

Live == {a \in Nodes \ {Head} : heap.type[a] # "none"}
Free == {a \in Live : heap.type[a] = "FREE"}
Used == {a \in Live : heap.type[a] = "USED"}

Block(a) == [base |-> a, size |-> heap.size[a]]

(* Linked(next, prev, S): from the head, next visits exactly the nodes of S *)
(* and comes back, and prev is its inverse.                                 *)
Linked(next, prev, S) ==
  /\ \A a \in S \union {Head} : next[a] \in S \union {Head} /\ prev[next[a]] = a
  /\ LET walk[n \in 0 .. Cardinality(S)] == IF n = 0 THEN Head ELSE next[walk[n - 1]]
     IN  {walk[n] : n \in 1 .. Cardinality(S)} = S

(* Both lists are whole in both directions after any sequence of calls, the *)
(* main list in the order of the addresses, and the free chain holds        *)
(* exactly the free blocks.                                                 *)
ListsRight ==
  /\ Linked(heap.next, heap.prev, Live)
  /\ Linked(heap.next_free, heap.prev_free, Free)
  /\ \A a \in Live : heap.next[a] # Head => a < heap.next[a]

(* The blocks tile the memory of the pool: none overlap, no memory leaks    *)
(* from the lists, and each has room for the header of a free block.        *)
BlocksTile ==
  /\ \A a \in Live : heap.size[a] >= 2 * Hdr
  /\ UNION {Cells(Block(a)) : a \in Live} = UNION {Cells(r) : r \in pool}
  /\ \A a, b \in Live : a # b => Cells(Block(a)) \cap Cells(Block(b)) = {}

(* Free blocks that touch are always joined, whatever the order of frees;   *)
(* memory is not lost to fragments that are side by side.                   *)
NoTouchingFree ==
  \A a, b \in Free : a + heap.size[a] # b

(* The pool is tiled by blocks, as few of them as can be.                    *)
Tiling == BlocksTile /\ NoTouchingFree

(* The allocator implements its specification: in particular it refuses     *)
(* only when no run of free memory is long enough.                          *)
Abstract == INSTANCE Allocator WITH owned <- {Block(a) : a \in Used}

ImplementsAllocator == Abstract!AllocSpec

=============================================================================
