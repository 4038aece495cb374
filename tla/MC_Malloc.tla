----------------------------- MODULE MC_Malloc -----------------------------
(* Instance for TLC: a header of two bytes, two regions that touch and one  *)
(* apart, added in any order, and requests that take two, three and five    *)
(* headers.                                                                 *)
EXTENDS Malloc

MCRegions ==
  {[base |-> 0, size |-> 14], [base |-> 14, size |-> 6], [base |-> 24, size |-> 4]}

=============================================================================
