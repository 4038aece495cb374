------------------------------- MODULE Arena -------------------------------
(***************************************************************************)
(* The memory that malloc.c manages, and the sizes that are asked of it:   *)
(* what the allocator and its specification have in common.                *)
(***************************************************************************)
EXTENDS Integers

CONSTANTS
  Hdr,      \* sizeof(struct arena_header)
  SizeMax,  \* 2^32: sizes are size_t
  Regions,  \* the memory that is added to the pool: records [base, size]
  Requests  \* bound: the sizes asked for

NULL == -1

ASSUME SizesAssumption ==
  /\ Hdr \in Nat \ {0} /\ SizeMax \in Nat
  /\ Requests \subseteq Nat
  /\ \A n \in Requests : n + 2 * Hdr <= SizeMax

Cells(b) == b.base .. b.base + b.size - 1

(* Regions are disjoint and made of whole headers, as the linker script and *)
(* the mask of malloc_add make them.                                        *)
ASSUME RegionsAssumption ==
  /\ Regions \subseteq [base : Nat, size : Nat]
  /\ \A r \in Regions : r.base % Hdr = 0 /\ r.size % Hdr = 0 /\ r.size >= 2 * Hdr
  /\ \A r, s \in Regions : r # s => Cells(r) \cap Cells(s) = {}

=============================================================================
