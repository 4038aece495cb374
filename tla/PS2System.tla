----------------------------- MODULE PS2System -----------------------------
(***************************************************************************)
(* The PS/2 subsystem from the devices to the application: the registers   *)
(* of the toplevel, the interrupt latch, the interrupt handler and the     *)
(* ring buffers of ps2.c, and a main program that reads and writes them.   *)
(*                                                                         *)
(* The steps of the CPU are its bus accesses (with the memory accesses up  *)
(* to the next one) and, in the main program, every access to an index     *)
(* that the handler shares; hardware steps fall anywhere between them.     *)
(* Bytes are numbered per device in the order they are sent.               *)
(***************************************************************************)
EXTENDS Naturals, Sequences, FiniteSets, InterruptLatch

CONSTANTS
  Size,         \* PS2_RINGBUFFER_SIZE
  Bounds        \* bound: the bytes each device sends and the main program
                \* writes to it, one or more pairs of limits

Devs == {"kbd", "mouse"}

ASSUME PS2SystemAssumption ==
  /\ Size \in Nat /\ Size > 1
  /\ Bounds \subseteq [arrive : [Devs -> Nat], write : [Devs -> Nat]]
  /\ Ints # {}

VARIABLES
  \* hardware
  arrived,      \* bytes io_ps2_com has received; the last one is in recvByte
  recvPulse,    \* devices whose recvTrigger pulses
  donePulse,    \* devices whose sendDone pulses
  sending,      \* the byte being sent to the device, 0 when not busy
  recvReg,      \* kbdrecvreg, mouserecvreg: devices with their bit set
  ps2_int,      \* the registered OR of the pulses
  int_enabled,
  \* memory
  in_hw, in_cpu, out_hw, out_cpu, inbuf, outbuf,
  \* the CPU
  hpc,          \* where the handler is, "off" when it is not running
  snap,         \* its locals kbd and mouse
  mpc, mdev,    \* where the main program is, and the device it is serving
  result,       \* the local of ps2_ringbuffer_read
  \* history
  wrote,        \* bytes the main program has written
  handed,       \* bytes the handler has written to the device's register
  dropped,      \* those of them whose trigger io_ps2_com did not see
  accepted,     \* bytes the device has received
  taken,        \* bytes ps2_ringbuffer_read has returned
  overrun,      \* devices that lost a byte in the one-byte register
  wrapped,      \* devices whose input ring was overfilled
  late,         \* devices whose register the running handler had read before
                \* the request was raised that it is going to acknowledge
  swallowedRecv,  \* devices with a received byte, and with a byte to be sent,
  swallowedSend   \* for which such a request was the only sign

hardware == <<arrived, recvPulse, donePulse, sending, recvReg, ps2_int>>
rings    == <<in_hw, in_cpu, out_hw, out_cpu, inbuf, outbuf>>
history  == <<wrote, handed, dropped, accepted, taken, overrun, wrapped, late,
              swallowedRecv, swallowedSend>>
vars == <<latchVars, hardware, int_enabled, rings, hpc, snap, mpc, mdev, result, history>>

Slots == 0 .. Size - 1
succ(i) == (i + 1) % Size

HandlerSteps == {"off", "disable", "readkbd", "readmouse", "servekbd",
                 "servemouse", "acknowledge", "enable"}
MainSteps == {"boot", "idle", "fetch", "advance", "wait", "disable", "store", "return"}

Snapshot == [recv : BOOLEAN, cts : BOOLEAN, byte : Nat]
NoSnapshot == [recv |-> FALSE, cts |-> FALSE, byte |-> 0]   \* locals out of scope

TypeOK ==
  /\ waiting \subseteq Ints /\ raised \subseteq Ints
  /\ arrived \in [Devs -> Nat] /\ sending \in [Devs -> Nat]
  /\ recvPulse \subseteq Devs /\ donePulse \subseteq Devs /\ recvReg \subseteq Devs
  /\ ps2_int \in BOOLEAN /\ int_enabled \in BOOLEAN
  /\ {in_hw, in_cpu, out_hw, out_cpu} \subseteq [Devs -> Slots]
  /\ {inbuf, outbuf} \subseteq [Devs -> [Slots -> Nat]]
  /\ hpc \in HandlerSteps /\ snap \in [Devs -> Snapshot]
  /\ mpc \in MainSteps /\ mdev \in Devs /\ result \in Nat
  /\ wrote \in [Devs -> Nat] /\ handed \in [Devs -> Nat]
  /\ dropped \in [Devs -> SUBSET Nat]
  /\ {accepted, taken} \subseteq [Devs -> Seq(Nat)]
  /\ overrun \subseteq Devs /\ wrapped \subseteq Devs /\ late \subseteq Devs
  /\ swallowedRecv \subseteq Devs /\ swallowedSend \subseteq Devs

EachDev(x) == [d \in Devs |-> x]

Init ==
  /\ LatchInit
  /\ arrived = EachDev(0) /\ sending = EachDev(0)
  /\ recvPulse = {} /\ donePulse = {} /\ recvReg = {}
  /\ ps2_int = FALSE /\ int_enabled = FALSE
  /\ in_hw = EachDev(0) /\ in_cpu = EachDev(0)
  /\ out_hw = EachDev(0) /\ out_cpu = EachDev(0)
  /\ inbuf = EachDev([s \in Slots |-> 0]) /\ outbuf = EachDev([s \in Slots |-> 0])
  /\ hpc = "off" /\ snap = EachDev(NoSnapshot)
  /\ mpc = "boot" /\ mdev = "kbd" /\ result = 0
  /\ wrote = EachDev(0) /\ handed = EachDev(0) /\ dropped = EachDev({})
  /\ accepted = EachDev(<<>>) /\ taken = EachDev(<<>>)
  /\ overrun = {} /\ wrapped = {}
  /\ late = {} /\ swallowedRecv = {} /\ swallowedSend = {}

(* The bound on the events of a run. *)
Within(arrive, write) ==
  \E b \in Bounds : \A d \in Devs : arrive[d] <= b.arrive[d] /\ write[d] <= b.write[d]

-----------------------------------------------------------------------------
(* Hardware. *)

(* io_ps2_com has a byte: recvByte changes and recvTrigger pulses. *)
ByteArrives(d) ==
  /\ d \notin recvPulse
  /\ arrived' = [arrived EXCEPT ![d] = @ + 1]
  /\ Within(arrived', wrote)
  /\ recvPulse' = recvPulse \union {d}
  /\ overrun' = IF d \in recvReg THEN overrun \union {d} ELSE overrun
  /\ UNCHANGED <<latchVars, donePulse, sending, recvReg, ps2_int, int_enabled,
                 rings, hpc, snap, mpc, mdev, result, wrote, handed, dropped,
                 accepted, taken, wrapped, late, swallowedRecv, swallowedSend>>

(* The device has acknowledged a byte: sendBusy falls and sendDone pulses. *)
SendDone(d) ==
  /\ sending[d] # 0
  /\ accepted' = [accepted EXCEPT ![d] = Append(@, sending[d])]
  /\ sending' = [sending EXCEPT ![d] = 0]
  /\ donePulse' = donePulse \union {d}
  /\ UNCHANGED <<latchVars, arrived, recvPulse, recvReg, ps2_int, int_enabled,
                 rings, hpc, snap, mpc, mdev, result, wrote, handed, dropped,
                 taken, overrun, wrapped, late, swallowedRecv, swallowedSend>>

(* The running handler has read the register of d, and has the acknowledge  *)
(* of GetInterrupts before it.                                              *)
HasRead(d) ==
  hpc \in {"servekbd", "servemouse", "acknowledge"}
            \union (IF d = "kbd" THEN {"readmouse"} ELSE {})

(* A definition named X_Y is X with a plausible bug, for the check that the  *)
(* properties can fail; nothing uses it.                                    *)
Clock_ClearWins(cleared) ==
  /\ recvReg' = (recvReg \union recvPulse) \ cleared
  /\ ps2_int' = (recvPulse # {} \/ donePulse # {})
  /\ recvPulse' = {} /\ donePulse' = {}
  /\ LET trig == IF ps2_int THEN Ints ELSE {}
     IN  IF raised = {} /\ waiting # {}
         THEN Raise(trig) /\ late' = {d \in Devs : HasRead(d)}
         ELSE Hold(trig) /\ UNCHANGED late

Clock_NoDone(cleared) ==
  /\ recvReg' = (recvReg \ cleared) \union recvPulse
  /\ ps2_int' = (recvPulse # {})
  /\ recvPulse' = {} /\ donePulse' = {}
  /\ LET trig == IF ps2_int THEN Ints ELSE {}
     IN  IF raised = {} /\ waiting # {}
         THEN Raise(trig) /\ late' = {d \in Devs : HasRead(d)}
         ELSE Hold(trig) /\ UNCHANGED late

(* A clock edge: the pulses, which last one cycle, set recvreg and ps2_int, *)
(* and ps2_int triggers the controller, which raises what was waiting.  A   *)
(* flag that is cleared by a read in this very cycle and set remains set:   *)
(* the assignments that set it come last in the process.                    *)
Clock(cleared) ==
  /\ recvReg' = (recvReg \ cleared) \union recvPulse
  /\ ps2_int' = (recvPulse # {} \/ donePulse # {})
  /\ recvPulse' = {} /\ donePulse' = {}
  /\ LET trig == IF ps2_int THEN Ints ELSE {}
     IN  IF raised = {} /\ waiting # {}
         THEN Raise(trig) /\ late' = {d \in Devs : HasRead(d)}
         ELSE Hold(trig) /\ UNCHANGED late

(* An edge at which the toplevel or the controller has something to do.     *)
Edge ==
  /\ recvPulse # {} \/ donePulse # {} \/ ps2_int \/ (raised = {} /\ waiting # {})
  /\ Clock({})
  /\ UNCHANGED <<arrived, sending, int_enabled, rings, hpc, snap, mpc, mdev,
                 result, wrote, handed, dropped, accepted, taken, overrun,
                 wrapped, swallowedRecv, swallowedSend>>

-----------------------------------------------------------------------------
(* PS2Handler. *)

(* The CPU takes an interrupt: it enters the handler from anywhere in the   *)
(* main program, or at the end of a handler that has just enabled them.     *)
TakeInterrupt ==
  /\ hpc = "off" /\ int_enabled /\ raised # {}
  /\ hpc' = "disable"
  /\ UNCHANGED <<latchVars, hardware, int_enabled, rings, snap, mpc, mdev, result, history>>

HandlerDisable ==
  /\ hpc = "disable"
  /\ int_enabled' = FALSE
  /\ hpc' = "readkbd"
  /\ UNCHANGED <<latchVars, hardware, rings, snap, mpc, mdev, result, history>>

(* Reading a PS/2 register returns the flags and the byte, and clears the   *)
(* receive flag, unless a byte comes in this very cycle.                    *)
ReadRegister(d, next) ==
  /\ snap' = [snap EXCEPT ![d] = [recv |-> d \in recvReg,
                                  cts  |-> sending[d] = 0,
                                  byte |-> arrived[d]]]
  /\ Clock({d})
  /\ hpc' = next
  /\ swallowedRecv' = swallowedRecv \ {d} /\ swallowedSend' = swallowedSend \ {d}
  /\ UNCHANGED <<arrived, sending, int_enabled, rings, mpc, mdev, result, wrote,
                 handed, dropped, accepted, taken, overrun, wrapped>>

ReadKeyboard == hpc = "readkbd" /\ ReadRegister("kbd", "readmouse")
ReadMouse    == hpc = "readmouse" /\ ReadRegister("mouse", "servekbd")

(* A received byte goes into the input ring, full or not. *)
StoreReceived(d) ==
  IF snap[d].recv
  THEN /\ inbuf' = [inbuf EXCEPT ![d][in_hw[d]] = snap[d].byte]
       /\ in_hw' = [in_hw EXCEPT ![d] = succ(@)]
       /\ wrapped' = IF succ(in_hw[d]) = in_cpu[d] THEN wrapped \union {d} ELSE wrapped
  ELSE UNCHANGED <<inbuf, in_hw, wrapped>>

(* If the device can take a byte and the output ring has one, it is written *)
(* to the register.  The trigger lasts one cycle, and io_ps2_com looks for  *)
(* it in every second one: it starts to send or it does not.                *)
SendNext(d) ==
  IF snap[d].cts /\ out_hw[d] # out_cpu[d]
  THEN /\ out_hw' = [out_hw EXCEPT ![d] = succ(@)]
       /\ handed' = [handed EXCEPT ![d] = @ + 1]
       /\ \/ /\ sending' = [sending EXCEPT ![d] = outbuf[d][out_hw[d]]]
             /\ UNCHANGED dropped
          \/ /\ dropped' = [dropped EXCEPT ![d] = @ \union {outbuf[d][out_hw[d]]}]
             /\ UNCHANGED sending
  ELSE UNCHANGED <<sending, out_hw, handed, dropped>>

Serve(d, next) ==
  /\ StoreReceived(d)
  /\ SendNext(d)
  /\ snap' = [snap EXCEPT ![d] = NoSnapshot]
  /\ hpc' = next
  /\ UNCHANGED <<latchVars, arrived, recvPulse, donePulse, recvReg, ps2_int,
                 int_enabled, in_cpu, out_cpu, outbuf, mpc, mdev, result, wrote,
                 accepted, taken, overrun, late, swallowedRecv, swallowedSend>>

ServeKeyboard == hpc = "servekbd" /\ Serve("kbd", "servemouse")
ServeMouse    == hpc = "servemouse" /\ Serve("mouse", "acknowledge")

(* The device is ready and its output ring has a byte for it. *)
ToSend(d) == sending[d] = 0 /\ out_hw[d] # out_cpu[d]

(* GetInterrupts: the read acknowledges a request, if there is one.  In a   *)
(* handler run by the writer it may be one that was raised for an event     *)
(* behind a register the handler has already read.                          *)
GetInterrupts ==
  /\ hpc = "acknowledge"
  /\ IF raised # {} THEN Acknowledge({}) ELSE UNCHANGED latchVars
  /\ hpc' = "enable"
  /\ late' = {}
  /\ LET behind == IF mpc = "return" THEN late ELSE {}
     IN  /\ swallowedRecv' = swallowedRecv \union (behind \intersect recvReg)
         /\ swallowedSend' = swallowedSend \union {d \in behind : ToSend(d)}
  /\ UNCHANGED <<hardware, int_enabled, rings, snap, mpc, mdev, result, wrote,
                 handed, dropped, accepted, taken, overrun, wrapped>>

HandlerEnable_Off ==
  /\ hpc = "enable"
  /\ hpc' = "off"
  /\ UNCHANGED <<latchVars, hardware, int_enabled, rings, snap, mpc, mdev, result, history>>

HandlerEnable ==
  /\ hpc = "enable"
  /\ int_enabled' = TRUE
  /\ hpc' = "off"
  /\ UNCHANGED <<latchVars, hardware, rings, snap, mpc, mdev, result, history>>

Handler ==
  \/ HandlerDisable \/ ReadKeyboard \/ ReadMouse \/ ServeKeyboard \/ ServeMouse
  \/ GetInterrupts \/ HandlerEnable

-----------------------------------------------------------------------------
(* The main program; it runs only while no handler does. *)

(* PS2Init, and the EnableInterrupts that follows it in main. *)
Boot ==
  /\ hpc = "off" /\ mpc = "boot"
  /\ in_hw' = EachDev(0) /\ in_cpu' = EachDev(0)
  /\ out_hw' = EachDev(0) /\ out_cpu' = EachDev(0)
  /\ int_enabled' = TRUE
  /\ mpc' = "idle"
  /\ UNCHANGED <<latchVars, hardware, inbuf, outbuf, hpc, snap, mdev, result, history>>

(* ps2_ringbuffer_read: the test for an empty ring, the fetch, the advance. *)
ReadBegin_NoTest(d) ==
  /\ hpc = "off" /\ mpc = "idle"
  /\ arrived[d] > Len(taken[d])
  /\ mdev' = d /\ mpc' = "fetch"
  /\ UNCHANGED <<latchVars, hardware, int_enabled, rings, hpc, snap, result, history>>

ReadBegin(d) ==
  /\ hpc = "off" /\ mpc = "idle"
  /\ in_hw[d] # in_cpu[d]
  /\ mdev' = d /\ mpc' = "fetch"
  /\ UNCHANGED <<latchVars, hardware, int_enabled, rings, hpc, snap, result, history>>

ReadFetch ==
  /\ hpc = "off" /\ mpc = "fetch"
  /\ result' = inbuf[mdev][in_cpu[mdev]]
  /\ mpc' = "advance"
  /\ UNCHANGED <<latchVars, hardware, int_enabled, rings, hpc, snap, mdev, history>>

ReadAdvance ==
  /\ hpc = "off" /\ mpc = "advance"
  /\ in_cpu' = [in_cpu EXCEPT ![mdev] = succ(@)]
  /\ taken' = [taken EXCEPT ![mdev] = Append(@, result)]
  /\ mpc' = "idle" /\ mdev' = "kbd" /\ result' = 0
  /\ UNCHANGED <<latchVars, hardware, int_enabled, in_hw, out_hw, out_cpu, inbuf,
                 outbuf, hpc, snap, wrote, handed, dropped, accepted, overrun,
                 wrapped, late, swallowedRecv, swallowedSend>>

(* ps2_ringbuffer_write: wait for room, disable, store, run the handler,    *)
(* enable.                                                                  *)
WriteBegin(d) ==
  /\ hpc = "off" /\ mpc = "idle"
  /\ Within(arrived, [wrote EXCEPT ![d] = @ + 1])
  /\ mdev' = d /\ mpc' = "wait"
  /\ UNCHANGED <<latchVars, hardware, int_enabled, rings, hpc, snap, result, history>>

WriteRoom ==
  /\ hpc = "off" /\ mpc = "wait"
  /\ out_hw[mdev] # succ(out_cpu[mdev])
  /\ mpc' = "disable"
  /\ UNCHANGED <<latchVars, hardware, int_enabled, rings, hpc, snap, mdev, result, history>>

WriteDisable ==
  /\ hpc = "off" /\ mpc = "disable"
  /\ int_enabled' = FALSE
  /\ mpc' = "store"
  /\ UNCHANGED <<latchVars, hardware, rings, hpc, snap, mdev, result, history>>

WriteStore ==
  /\ hpc = "off" /\ mpc = "store"
  /\ outbuf' = [outbuf EXCEPT ![mdev][out_cpu[mdev]] = wrote[mdev] + 1]
  /\ out_cpu' = [out_cpu EXCEPT ![mdev] = succ(@)]
  /\ wrote' = [wrote EXCEPT ![mdev] = @ + 1]
  /\ hpc' = "disable"          \* the call of PS2Handler
  /\ mpc' = "return"
  /\ UNCHANGED <<latchVars, hardware, int_enabled, in_hw, in_cpu, out_hw, inbuf,
                 snap, mdev, result, handed, dropped, accepted, taken, overrun,
                 wrapped, late, swallowedRecv, swallowedSend>>

WriteEnable ==
  /\ hpc = "off" /\ mpc = "return"
  /\ int_enabled' = TRUE
  /\ mpc' = "idle" /\ mdev' = "kbd"
  /\ UNCHANGED <<latchVars, hardware, rings, hpc, snap, result, history>>

Main ==
  \/ Boot \/ ReadFetch \/ ReadAdvance
  \/ WriteRoom \/ WriteDisable \/ WriteStore \/ WriteEnable
  \/ \E d \in Devs : ReadBegin(d) \/ WriteBegin(d)

Next ==
  \/ Edge
  \/ \E d \in Devs : ByteArrives(d) \/ SendDone(d)
  \/ TakeInterrupt
  \/ Handler
  \/ Main

Spec == Init /\ [][Next]_vars

(* The clock runs, devices acknowledge what is sent to them, and the CPU    *)
(* executes: it takes a request when it may, and runs the handler to its    *)
(* end; a main program that has begun a call finishes it.  It need not make *)
(* any call.                                                                *)
FairSpec ==
  /\ Spec
  /\ WF_vars(Edge) /\ WF_vars(TakeInterrupt) /\ WF_vars(Handler) /\ WF_vars(Boot)
  /\ WF_vars(WriteRoom) /\ WF_vars(WriteDisable \/ WriteStore \/ WriteEnable)
  /\ \A d \in Devs : WF_vars(SendDone(d))

-----------------------------------------------------------------------------
(* Properties. *)

UpTo(n) == [i \in 1 .. n |-> i]

(* ps2_ringbuffer_count, and the same for the other ring. *)
Count(hw, cpu) == IF hw >= cpu THEN hw - cpu ELSE hw + Size - cpu

InRing(d)  == [i \in 1 .. Count(in_hw[d], in_cpu[d]) |->
                 inbuf[d][(in_cpu[d] + i - 1) % Size]]
OutRing(d) == [i \in 1 .. Count(out_cpu[d], out_hw[d]) |->
                 outbuf[d][(out_hw[d] + i - 1) % Size]]

(* The byte in the device's register, if it has not been read, and the one  *)
(* the handler has read and not stored yet.                                 *)
InRegister(d) ==
  IF d \in recvReg \union recvPulse THEN <<arrived[d]>> ELSE <<>>

Held(d) ==
  /\ snap[d].recv
  /\ hpc \in (IF d = "kbd" THEN {"readmouse", "servekbd"} ELSE {"servekbd", "servemouse"})

InHandler(d) == IF Held(d) THEN <<snap[d].byte>> ELSE <<>>

Sending(d) == IF sending[d] # 0 THEN <<sending[d]>> ELSE <<>>

(* A sequence of numbers that rises. *)
Rising(seq) == \A i, j \in 1 .. Len(seq) : i < j => seq[i] < seq[j]

(* Every byte written to a ring reaches the device exactly once and in      *)
(* order, although the handler that drains the ring is run by interrupts    *)
(* and by the writer itself, except for those that io_ps2_com has dropped:  *)
(* what the device has, what is being sent and what the ring holds is       *)
(* together what was written without what was dropped, and nothing that was *)
(* dropped is still in the ring.                                            *)
OutputInOrder ==
  \A d \in Devs :
    LET out == accepted[d] \o Sending(d) \o OutRing(d)
    IN  /\ Rising(out)
        /\ {out[i] : i \in 1 .. Len(out)} = (1 .. wrote[d]) \ dropped[d]
        /\ dropped[d] \subseteq 1 .. handed[d]

(* Every byte a device sends is returned by reads exactly once and in       *)
(* order, as long as no byte overran the register and the ring was never    *)
(* overfilled.                                                              *)
InputInOrder ==
  \A d \in Devs \ (overrun \union wrapped) :
    taken[d] \o InRing(d) \o InHandler(d) \o InRegister(d) = UpTo(arrived[d])

(* All four rings at once: what was written to one comes out of it, and no  *)
(* index leaves its ring.                                                   *)
RingsRight == TypeOK /\ OutputInOrder /\ InputInOrder

(* The handler stores into the input ring without a test for room.  Even    *)
(* when it runs over the reader, in the middle of a read or several times,  *)
(* reads never return a byte twice or an older one after a newer one: the   *)
(* bytes that are lost are lost for good.                                   *)
ReadsRise == \A d \in Devs \ overrun : Rising(taken[d])

(* Something will run the handler: a request is on its way to the CPU, or a *)
(* handler is running that has not passed the given steps.                  *)
Wake(before) ==
  \/ raised # {} \/ waiting # {} \/ ps2_int
  \/ recvPulse # {} \/ donePulse # {}
  \/ hpc \in before

Before(d) == {"disable", "readkbd"} \union (IF d = "mouse" THEN {"readmouse"} ELSE {})

(* The device is ready in the snapshot with which it is about to be served. *)
AboutToSend(d) ==
  /\ snap[d].cts
  /\ hpc \in {"readmouse", "servekbd"} \union (IF d = "mouse" THEN {"servemouse"} ELSE {})

(* The last byte written to the device's register was dropped: no sendDone  *)
(* will come of it to have the next one sent.                               *)
TriggerLost(d) == handed[d] \in dropped[d]

(* No byte is left in a register with nothing to fetch it, unless the       *)
(* request for it was swallowed.                                            *)
NoByteStranded == \A d \in recvReg \ swallowedRecv : Wake(Before(d))

(* No byte is left in an output ring with the device ready and nothing to   *)
(* send it, unless the request for it was swallowed, or the byte before it  *)
(* was dropped.                                                             *)
NoOutputStranded ==
  \A d \in Devs \ swallowedSend :
    ToSend(d) /\ ~TriggerLost(d) => Wake(Before(d)) \/ AboutToSend(d)

(* A wake-up is lost in two ways only: a handler run by the writer reads a  *)
(* device's register before a request is raised and acknowledges it         *)
(* afterwards, with that device's byte in the register or its ring not      *)
(* empty; or a byte is dropped at the register and its sendDone never       *)
(* comes.  Until the register is read again, or another byte sent, bytes    *)
(* may stay where they are; nothing else ever leaves them there.            *)
StrandedOnlyIfSwallowed == NoByteStranded /\ NoOutputStranded

(* Every byte that reaches the register is fetched from it, unless the      *)
(* request for it was swallowed by a handler run by the writer and nothing  *)
(* else ever runs the handler.                                              *)
BytesFetched ==
  \A d \in Devs : <>[](d \in recvReg) => <>[](d \in swallowedRecv)

(* The writer's loop on a full ring ends: the handler goes on draining the  *)
(* ring with interrupts enabled.  It does not end in two cases, in which    *)
(* nothing but an event of the other kind can end it: the request was       *)
(* swallowed, or the last byte was dropped and no sendDone comes.           *)
WriterProceeds ==
  <>[](mpc = "wait") => <>[](mdev \in swallowedSend \/ TriggerLost(mdev))

-----------------------------------------------------------------------------
(* The strengthening that makes the two invariants inductive.               *)

InCount(d)  == Count(in_hw[d], in_cpu[d])
OutCount(d) == Count(out_cpu[d], out_hw[d])
Bit(b)      == IF b THEN 1 ELSE 0

Returned(d) == Len(taken[d])

(* Interrupts are off from the start of a handler to its end, while the     *)
(* writer stores its byte, and until main has set the rings up; and on      *)
(* whenever else the main program runs.                                     *)
Masked ==
  /\ hpc \notin {"off", "disable"} => ~int_enabled
  /\ mpc \in {"boot", "store"} => hpc = "off" /\ ~int_enabled
  /\ mpc = "boot" => \A d \in Devs : /\ in_hw[d] = 0 /\ in_cpu[d] = 0
                                     /\ out_hw[d] = 0 /\ out_cpu[d] = 0

(* What is in the ring is numbered on from what was handed over; each of    *)
(* those is with the device, on its way to it or dropped; and the writer    *)
(* that has seen room still has it, as handlers only make more.             *)
OutputRight(d) ==
  /\ Rising(accepted[d])
  /\ \A i \in 1 .. Len(accepted[d]) : accepted[d][i] \in (1 .. handed[d]) \ dropped[d]
  /\ sending[d] # 0 =>
       /\ sending[d] \in (1 .. handed[d]) \ dropped[d]
       /\ \A i \in 1 .. Len(accepted[d]) : accepted[d][i] < sending[d]
  /\ \A n \in (1 .. handed[d]) \ dropped[d] :
       n = sending[d] \/ \E i \in 1 .. Len(accepted[d]) : accepted[d][i] = n
  /\ dropped[d] \subseteq 1 .. handed[d]
  /\ \A i \in 1 .. OutCount(d) : outbuf[d][(out_hw[d] + i - 1) % Size] = handed[d] + i
  /\ wrote[d] = handed[d] + OutCount(d)
  /\ snap[d].cts => sending[d] = 0
  /\ mdev = d /\ mpc \in {"disable", "store"} => OutCount(d) < Size - 1

(* The same for the way in, unless a byte was overrun or overwritten.       *)
InputRight(d) ==
  /\ \A i \in 1 .. Returned(d) : taken[d][i] = i
  /\ \A i \in 1 .. InCount(d) : inbuf[d][(in_cpu[d] + i - 1) % Size] = Returned(d) + i
  /\ Held(d) => snap[d].byte = Returned(d) + InCount(d) + 1
  /\ arrived[d] = Returned(d) + InCount(d) + Bit(Held(d)) + Bit(d \in recvReg \union recvPulse)
  /\ d \notin recvReg \intersect recvPulse
  /\ mdev = d /\ mpc \in {"fetch", "advance"} => InCount(d) > 0
  /\ mdev = d /\ mpc = "advance" => result = Returned(d) + 1

RingsInv ==
  /\ TypeOK
  /\ Masked
  /\ \A d \in Devs : OutputRight(d)
  /\ \A d \in Devs \ (overrun \union wrapped) : InputRight(d)

(* A handler that an interrupt started acknowledges the request it was      *)
(* started by, and no other can be raised meanwhile; only in a handler run  *)
(* by the writer is the request sometimes late.                             *)
LateRight ==
  /\ hpc \notin {"off", "enable"} /\ mpc # "return" => raised # {} /\ late = {}
  /\ late # {} => raised # {}
  /\ \A d \in late : HasRead(d)

(* An event behind a register the handler has read makes a request that     *)
(* will outlive its acknowledge, unless it is late.                         *)
Fresh == waiting # {} \/ ps2_int \/ recvPulse # {} \/ donePulse # {}

AnsweredLater ==
  hpc \notin {"off", "enable"} =>
    /\ \A d \in recvReg \ swallowedRecv : Fresh \/ hpc \in Before(d) \/ d \in late
    /\ \A d \in Devs \ swallowedSend :
         ToSend(d) /\ ~TriggerLost(d) =>
           Fresh \/ hpc \in Before(d) \/ AboutToSend(d) \/ d \in late

WakeInv ==
  /\ RingsInv
  /\ LateRight
  /\ AnsweredLater
  /\ StrandedOnlyIfSwallowed

=============================================================================
