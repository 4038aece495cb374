--------------------------- MODULE InterruptLatch ---------------------------
(***************************************************************************)
(* What the interrupt controller promises the rest of the system, without  *)
(* its clock: a set of interrupts waiting, and a set that has been raised  *)
(* to the CPU.  A raised set is fixed until the CPU acknowledges it, what  *)
(* is waiting is raised as a whole, and only the acknowledge removes       *)
(* anything.  InterruptController implements it; PS2System, which models   *)
(* the firmware above the controller, is built on it.                      *)
(***************************************************************************)
CONSTANT Ints

VARIABLES
  waiting,   \* triggered and not raised
  raised     \* shown in the register; {} when the request line is low

latchVars == <<waiting, raised>>

LatchInit == waiting = {} /\ raised = {}

(* The request is low and something is waiting: it is raised, all of it. *)
Raise(trig) ==
  /\ raised = {}
  /\ waiting # {}
  /\ raised' = waiting
  /\ waiting' = trig

(* The CPU has read the register. *)
Acknowledge(trig) ==
  /\ raised # {}
  /\ raised' = {}
  /\ waiting' = waiting \union trig

(* Triggers arrive and nothing else happens. *)
Hold(trig) ==
  /\ raised' = raised
  /\ waiting' = waiting \union trig

LatchNext ==
  \E trig \in SUBSET Ints : Raise(trig) \/ Acknowledge(trig) \/ Hold(trig)

LatchSpec == LatchInit /\ [][LatchNext]_latchVars

=============================================================================
