--------------------------- MODULE MC_Controllers ---------------------------
(* Instances for TLC of the two clocked controllers, which share no signal.  *)
(* They are explored in one run, told apart by a variable that never         *)
(* changes, so that their states add up and do not multiply.                 *)
(*                                                                           *)
(* Three trigger lines, so that one can be reported, one held pending behind *)
(* it and one arrive in the very cycle of a promotion.  Frames of two data   *)
(* bits and two different bytes, one of each parity, so that a lost,         *)
(* repeated or shifted bit shows.                                            *)
EXTENDS InterruptController, MC_PS2Com

CONSTANTS t0, t1, t2

MCInts == {t0, t1, t2}

VARIABLES job     \* the controller that this behaviour is about

ComVars == <<hostVars, devVars>>

MCInit == Init /\ IrqInit /\ job \in {"interrupts", "ps2"}

Interrupts(A) == job = "interrupts" /\ A /\ UNCHANGED <<job, ComVars>>
Driver(A)     == job = "ps2" /\ A /\ UNCHANGED <<job, irqVars>>

MCNext == Interrupts(IrqNext) \/ Driver(Next)

(* The fairness of IrqFairSpec and of FairSpec, each for its own behaviours. *)
MCSpec ==
  /\ MCInit /\ [][MCNext]_<<job, irqVars, ComVars>>
  /\ WF_irqVars(Interrupts(IrqNext)) /\ WF_irqVars(Interrupts(CpuStep))
  /\ WF_vars(Driver(ClockEdge)) /\ SF_vars(Driver(WaitEnds))
  /\ WF_vars(Driver(DevFallTx)) /\ WF_vars(Driver(DevRiseTx))
  /\ WF_vars(Driver(DevAnswer))
  /\ WF_vars(Driver(DevRiseRx)) /\ WF_vars(Driver(DevFallRx))
=============================================================================
