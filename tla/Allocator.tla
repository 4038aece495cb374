----------------------------- MODULE Allocator -----------------------------
(***************************************************************************)
(* What the allocator of malloc.c promises to the program: blocks that are *)
(* big enough and disjoint, none bigger than the splitting of blocks makes *)
(* necessary, and no refusal while a run of free memory would do.  It says *)
(* nothing of lists and headers.                                           *)
(***************************************************************************)
EXTENDS Arena

VARIABLES
  pool,     \* the regions added so far
  owned,    \* the blocks the program holds, headers included
  result    \* what the last call returned

allocVars == <<pool, owned, result>>

FreeCells == (UNION {Cells(r) : r \in pool}) \ UNION {Cells(b) : b \in owned}

(* There is a run of free memory for a block of n bytes. *)
Fits(n) == \E a \in FreeCells : a .. a + n - 1 \subseteq FreeCells

AllocInit == pool = {} /\ owned = {} /\ result = NULL

AllocAdd(r) ==
  /\ r \in Regions \ pool
  /\ pool' = pool \union {r}
  /\ UNCHANGED <<owned, result>>

(* A block has room for its header and for the n bytes asked for, in whole  *)
(* headers.  What is left of a bigger block is split off unless it is too   *)
(* small for a free block, which takes two headers.                         *)
Need(n) == ((n + 2 * Hdr - 1) \div Hdr) * Hdr

AllocMalloc(n) ==
  \/ /\ n # 0
     /\ \E base \in FreeCells, size \in {Need(n), Need(n) + Hdr} :
          LET b == [base |-> base, size |-> size]
          IN  /\ Cells(b) \subseteq FreeCells
              /\ owned' = owned \union {b}
              /\ result' = base + Hdr
     /\ UNCHANGED pool
  \/ /\ n = 0 \/ ~Fits(Need(n))
     /\ result' = NULL
     /\ UNCHANGED <<pool, owned>>

AllocFree(b) ==
  /\ b \in owned
  /\ owned' = owned \ {b}
  /\ UNCHANGED <<pool, result>>

AllocNext ==
  \/ \E r \in Regions : AllocAdd(r)
  \/ \E n \in Requests : AllocMalloc(n)
  \/ \E b \in owned : AllocFree(b)

AllocSpec == AllocInit /\ [][AllocNext]_allocVars

=============================================================================
