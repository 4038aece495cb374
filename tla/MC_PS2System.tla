---------------------------- MODULE MC_PS2System ----------------------------
(* Instances for TLC.  The bounds are given here because a .cfg cannot      *)
(* write a function.                                                        *)
EXTENDS PS2System

PerDevice(k, m) == [d \in Devs |-> IF d = "kbd" THEN k ELSE m]

(* Both devices and both directions at once; the keyboard's input ring,     *)
(* filled, wrapped and overfilled; and its output ring, filled and wrapped. *)
AllWays ==
  {[arrive |-> PerDevice(1, 1), write |-> PerDevice(1, 1)],
   [arrive |-> PerDevice(1, 0), write |-> PerDevice(2, 0)],
   [arrive |-> PerDevice(5, 0), write |-> PerDevice(0, 0)],
   [arrive |-> PerDevice(0, 0), write |-> PerDevice(5, 0)]}

=============================================================================
