------------------------ MODULE InterruptController ------------------------
(***************************************************************************)
(* The interrupt controller of the demo SoCs, clock cycle by clock cycle,  *)
(* with the part of the toplevel that connects it to the CPU bus and the   *)
(* handler protocol of the firmware (disable, read the register, enable).  *)
(*                                                                         *)
(* One step is one rising edge of clk: the controller process runs, the    *)
(* trigger lines of that cycle are any set, and the CPU makes at most one  *)
(* bus access.  A signal assigned in the VHDL process gets its new value   *)
(* in the primed variable, so every right-hand side reads the old one.     *)
(***************************************************************************)
EXTENDS Naturals, FiniteSets

CONSTANTS
  Ints,         \* the trigger lines, 0..max_int of the entity's generic
  PolledReads   \* may the main program run the handler body by itself, as
                \* ps2_ringbuffer_write does with PS2Handler?

ASSUME IntsAssumption == /\ Ints # {}
                         /\ PolledReads \in BOOLEAN

VARIABLES
  pending,      \* pending(max_int downto 0): the bits latched, not yet shown
  anyPending,   \* pending(pending'high)
  status,       \* the bits a read of the register returns
  int,          \* the request line to the CPU
  int_ack,      \* toplevel register: a read happened in the last cycle
  int_enabled,  \* toplevel register: the enable bit
  cpu,          \* where the CPU is in the handler protocol
  unreported    \* history: triggered, and not returned by a read since

ctrlVars == <<pending, anyPending, status, int, int_ack, int_enabled>>
irqVars == <<pending, anyPending, status, int, int_ack, int_enabled, cpu, unreported>>

CpuStates == {"main", "disabled", "acked"}

IrqTypeOK ==
  /\ pending \subseteq Ints
  /\ anyPending \in BOOLEAN
  /\ status \subseteq Ints
  /\ int \in BOOLEAN
  /\ int_ack \in BOOLEAN
  /\ int_enabled \in BOOLEAN
  /\ cpu \in CpuStates
  /\ unreported \subseteq Ints

IrqInit ==
  /\ pending = {}
  /\ anyPending = FALSE
  /\ status = {}
  /\ int = FALSE
  /\ int_ack = FALSE
  /\ int_enabled = FALSE
  /\ cpu = "main"
  /\ unreported = {}

-----------------------------------------------------------------------------
(* The controller process.  The ack clears int; when int was low, pending   *)
(* is promoted to status and int instead; the triggers of the cycle are     *)
(* latched last, so they win over the clearing of pending.                  *)

IntNext == IF int THEN ~int_ack ELSE anyPending

(* A definition named X_Y is X with a plausible bug, for the check that the  *)
(* properties can fail; nothing uses it.                                    *)
StatusNext_Live == IF int THEN status \union pending ELSE pending

StatusNext == IF int THEN status ELSE pending

PendingNext_Cleared(trig) == IF int THEN pending \union trig ELSE {}

PendingNext(trig) == (IF int THEN pending ELSE {}) \union trig

AnyPendingNext_Sticky(trig) == trig # {} \/ anyPending
AnyPendingNext_Missed(trig) == IF int THEN anyPending ELSE trig # {}

AnyPendingNext(trig) == trig # {} \/ (int /\ anyPending)

Controller(trig) ==
  /\ int' = IntNext
  /\ status' = StatusNext
  /\ pending' = PendingNext(trig)
  /\ anyPending' = AnyPendingNext(trig)

(* int_trigger, the line the CPU samples. *)
int_trigger == int /\ int_enabled

-----------------------------------------------------------------------------
(* What the CPU does on the bus in this cycle. *)

(* No access to the interrupt register in this cycle. *)
Tick(trig) ==
  /\ Controller(trig)
  /\ int_ack' = FALSE
  /\ unreported' = unreported \union trig
  /\ UNCHANGED <<int_enabled, cpu>>

(* EnableInterrupts by the main program, before the first interrupt. *)
EnableTick(trig) ==
  /\ cpu = "main"
  /\ ~int_enabled
  /\ Controller(trig)
  /\ int_ack' = FALSE
  /\ int_enabled' = TRUE
  /\ unreported' = unreported \union trig
  /\ UNCHANGED cpu

(* DisableInterrupts, the first line of the handler: the CPU got here       *)
(* because int_trigger was high, or because the main program called it.     *)
DisableTick(trig) ==
  /\ cpu = "main"
  /\ int_trigger \/ PolledReads
  /\ Controller(trig)
  /\ int_ack' = FALSE
  /\ int_enabled' = FALSE
  /\ cpu' = "disabled"
  /\ unreported' = unreported \union trig

(* GetInterrupts: the read returns the status of this cycle and raises the  *)
(* acknowledge for the next one.                                            *)
ReadTick(trig) ==
  /\ cpu = "disabled"
  /\ Controller(trig)
  /\ int_ack' = TRUE
  /\ cpu' = "acked"
  /\ unreported' = (unreported \ status) \union trig
  /\ UNCHANGED int_enabled

(* EnableInterrupts, the last line of the handler. *)
ReturnTick(trig) ==
  /\ cpu = "acked"
  /\ Controller(trig)
  /\ int_ack' = FALSE
  /\ int_enabled' = TRUE
  /\ cpu' = "main"
  /\ unreported' = unreported \union trig

IrqNext ==
  \E trig \in SUBSET Ints :
    \/ Tick(trig)
    \/ EnableTick(trig)
    \/ DisableTick(trig)
    \/ ReadTick(trig)
    \/ ReturnTick(trig)

IrqSpec == IrqInit /\ [][IrqNext]_irqVars

(* The clock never stops, and the CPU goes on executing: it takes an        *)
(* interrupt that is requested and finishes a handler it has entered.  The  *)
(* CPU is not scheduled against anything, so weak fairness is enough.       *)
CpuStep ==
  \E trig \in SUBSET Ints :
    EnableTick(trig) \/ DisableTick(trig) \/ ReadTick(trig) \/ ReturnTick(trig)

IrqFairSpec == IrqSpec /\ WF_irqVars(IrqNext) /\ WF_irqVars(CpuStep)

-----------------------------------------------------------------------------
(* Properties. *)

(* The bits still to be shown by a read of the register: those pending, and *)
(* those in status while int is high and the read has not happened yet.     *)
Deliverable == pending \union (IF int /\ ~int_ack THEN status ELSE {})

(* A trigger is never lost: one that no read has returned yet is still held *)
(* by the controller, in pending or in the frozen status, whatever the      *)
(* order of triggers, promotion, read and acknowledge.  With handler reads  *)
(* only: a polled read in the cycle in which pending is promoted shows the  *)
(* old status, and its acknowledge removes the new one.                     *)
NoTriggerLost == unreported \subseteq Deliverable

(* int is requested exactly while there is something in status to report,   *)
(* so a handler is never entered to find an empty register.                 *)
RequestHasCause == int => status # {}

(* Every trigger is eventually shown to a handler: it reads the register    *)
(* with the bit set, although triggers keep arriving while handlers run and  *)
(* are held back by the frozen status.                                      *)
EveryTriggerReported ==
  \A i \in Ints : i \in unreported ~> (cpu = "disabled" /\ i \in status)

(* The controller implements the latch that the rest of the system sees.    *)
Latch ==
  INSTANCE InterruptLatch
    WITH waiting <- pending, raised <- IF int THEN status ELSE {}

ImplementsLatch == Latch!LatchSpec

-----------------------------------------------------------------------------
(* The strengthening that makes NoTriggerLost inductive.  The redundant bit *)
(* of the pending vector tells the truth; when the CPU is about to read,    *)
(* int is high and was not acknowledged, because nothing but a read in a    *)
(* handler acknowledges; and an acknowledge is in flight only between the   *)
(* read and the end of the handler.                                         *)

AnyPendingRight == anyPending <=> pending # {}

ReadMeetsRequest ==
  ~PolledReads => /\ cpu = "disabled" => int
                  /\ int_ack => cpu = "acked"
                  /\ int_ack => int

IInv ==
  /\ IrqTypeOK
  /\ AnyPendingRight
  /\ RequestHasCause
  /\ ReadMeetsRequest
  /\ ~PolledReads => NoTriggerLost

=============================================================================
