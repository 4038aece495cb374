------------------------------- MODULE PS2Com -------------------------------
(***************************************************************************)
(* io_ps2_com, the low-level PS/2 driver, and the device at the other end  *)
(* of the two open-collector wires.                                        *)
(*                                                                         *)
(* ClockEdge is one rising edge of clk.  The driver's state machine runs   *)
(* on every second one (ena).  The device, which is external, moves the    *)
(* clock line on its own, slowly: it lets the driver see one level before  *)
(* it makes the next (its half period is at least 30 us, the driver's      *)
(* glitch filter is 15 cycles of clk).                                     *)
(*                                                                         *)
(* A frame has a start bit, DataBits data bits, a parity bit and a stop    *)
(* bit; the entity's numbers 8, 9, 10 and 11 are DataBits plus 0 to 3.     *)
(***************************************************************************)
EXTENDS Naturals, Sequences

CONSTANTS
  DataBits,      \* data bits of a frame (8)
  Bytes,         \* the bytes sent either way, sequences of DataBits bits
  ClockFilter,   \* generic clockFilter
  MaxSends,      \* bound: bytes the host asks to send
  MaxFrames,     \* bound: frames the device starts
  AlignedTriggers  \* does the CPU's write fall only in cycles before ena=1?

Bit == {0, 1}

ASSUME PS2ComAssumption ==
  /\ DataBits \in Nat \ {0}
  /\ Bytes # {} /\ Bytes \subseteq [1 .. DataBits -> Bit]
  /\ ClockFilter \in Nat \ {0}
  /\ MaxSends \in Nat /\ MaxFrames \in Nat
  /\ AlignedTriggers \in BOOLEAN

VARIABLES
  ena,             \* the state machine runs in this cycle
  clkReg,          \* registered clock line
  clkFilterCnt,    \* cycles until clkReg is trusted
  comState, sendTriggerLoc, bitCount, currentBit, parity,
  ps2_clk_out, ps2_dat_out,
  recvByteLoc,     \* the receive shift register, oldest bit first
  recvByte, recvTrigger, sendDone,
  sendTrigger, sendByte,     \* registers of the toplevel
  devClk, devDat,  \* the device's half of the wires
  devState,        \* "idle", "tx" or "rx"
  devBit,          \* falling clock edges made in this frame
  devByte,         \* the byte the device is sending
  devOwes,         \* it has not sent the whole frame of devByte yet
  devShift,        \* the bits the device has sampled
  requested,       \* history: bytes for which the host raised sendTrigger
  accepted,        \* history: bytes the device has received
  started,         \* bytes the device has decided to send
  delivered        \* history: frames handed over with recvTrigger

hostVars == <<ena, clkReg, clkFilterCnt, comState, sendTriggerLoc, bitCount,
              currentBit, parity, ps2_clk_out, ps2_dat_out, recvByteLoc,
              recvByte, recvTrigger, sendDone, sendTrigger, sendByte,
              requested, delivered>>
devVars  == <<devClk, devDat, devState, devBit, devByte, devOwes, devShift,
              accepted, started>>
vars     == <<hostVars, devVars>>

ComStates == {"Idle", "Wait100", "WaitClockLow", "WaitClockHigh",
              "ClockAndDataLow", "WaitAck", "RecvBit", "WaitHighRecv"}

LastBit == DataBits + 3      \* 11: bits of a frame

(* The wires: open collector, either side can pull them low. *)
ClkLine == IF ps2_clk_out = 0 \/ devClk = 0 THEN 0 ELSE 1
DatLine == IF ps2_dat_out = 0 \/ devDat = 0 THEN 0 ELSE 1

sendBusy == sendTrigger \/ sendTriggerLoc

(* Odd parity, as computed bit by bit from the preset 1. *)
ParityOf(b) ==
  LET p[i \in 0 .. DataBits] == IF i = 0 THEN 1 ELSE (p[i - 1] + b[i]) % 2
  IN  p[DataBits]

Frame(b) == <<0>> \o b \o <<ParityOf(b), 1>>

TypeOK ==
  /\ {ena, sendTriggerLoc, recvTrigger, sendDone, sendTrigger, devOwes} \subseteq BOOLEAN
  /\ {clkReg, currentBit, parity, ps2_clk_out, ps2_dat_out, devClk, devDat} \subseteq Bit
  /\ clkFilterCnt \in 0 .. ClockFilter
  /\ comState \in ComStates
  /\ bitCount \in 0 .. LastBit
  /\ recvByteLoc \in Seq(Bit) /\ Len(recvByteLoc) <= LastBit
  /\ recvByte \in Seq(Bit)
  /\ sendByte \in Bytes /\ devByte \in Bytes
  /\ devState \in {"idle", "tx", "rx"}
  /\ devBit \in 0 .. LastBit
  /\ devShift \in Seq(Bit)
  /\ requested \in Seq(Bytes) /\ accepted \in Seq(Seq(Bit))
  /\ started \in Seq(Bytes) /\ delivered \in Seq(Seq(Bit))

Init ==
  /\ ena \in BOOLEAN
  /\ clkReg = 1 /\ clkFilterCnt = 0
  /\ comState = "Idle" /\ sendTriggerLoc = FALSE
  /\ bitCount = 0 /\ currentBit = 0 /\ parity = 1
  /\ ps2_clk_out = 1 /\ ps2_dat_out = 1
  /\ recvByteLoc = <<>> /\ recvByte = <<>>
  /\ recvTrigger = FALSE /\ sendDone = FALSE
  /\ sendTrigger = FALSE /\ sendByte = (CHOOSE b \in Bytes : TRUE)
  /\ devClk = 1 /\ devDat = 1 /\ devState = "idle" /\ devBit = 0
  /\ devByte = (CHOOSE b \in Bytes : TRUE) /\ devOwes = FALSE /\ devShift = <<>>
  /\ requested = <<>> /\ accepted = <<>> /\ started = <<>> /\ delivered = <<>>

-----------------------------------------------------------------------------
(* The driver. *)

(* The noise filter process. *)
FilterClock ==
  /\ clkReg' = ClkLine
  /\ clkFilterCnt' = IF clkReg # ClkLine THEN ClockFilter
                     ELSE IF clkFilterCnt # 0 THEN clkFilterCnt - 1 ELSE 0

ClockIs(level) == clkReg = level /\ clkFilterCnt = 0

(* Writes of the CPU to the data register reach the driver as a trigger of  *)
(* one cycle.  The firmware writes only when it has seen CTS, not sendBusy. *)
Trigger(b) ==
  /\ ~sendBusy
  /\ Len(requested) < MaxSends
  /\ AlignedTriggers => ~ena
  /\ sendTrigger' = TRUE
  /\ sendByte' = b
  /\ requested' = Append(requested, b)

NoTrigger == sendTrigger' = FALSE /\ UNCHANGED <<sendByte, requested>>

(* Outputs and registers that most states leave at their defaults. *)
Release == ps2_clk_out' = 1 /\ ps2_dat_out' = 1
NoPulse == recvTrigger' = FALSE /\ sendDone' = FALSE
LatchTrigger == sendTriggerLoc' = (sendTriggerLoc \/ sendTrigger)
KeepSend == UNCHANGED <<bitCount, currentBit, parity>>
KeepRecv == UNCHANGED <<recvByteLoc, recvByte, delivered>>

(* ena = '0': only the pulses are taken back. *)
Disabled ==
  /\ ~ena
  /\ NoPulse /\ KeepSend /\ KeepRecv
  /\ UNCHANGED <<comState, sendTriggerLoc, ps2_clk_out, ps2_dat_out>>

(* A definition named X_Y is X with a plausible bug, for the check that the  *)
(* properties can fail; nothing uses it.                                    *)
Idle_KeepCount ==
  /\ ena /\ comState = "Idle"
  /\ Release /\ NoPulse /\ LatchTrigger /\ KeepRecv
  /\ parity' = 1 /\ UNCHANGED <<bitCount, currentBit>>
  /\ comState' = IF ClockIs(0) THEN "RecvBit"
                 ELSE IF sendTriggerLoc THEN "Wait100" ELSE "Idle"

Idle ==
  /\ ena /\ comState = "Idle"
  /\ Release /\ NoPulse /\ LatchTrigger /\ KeepRecv
  /\ bitCount' = 0 /\ parity' = 1 /\ UNCHANGED currentBit
  /\ comState' = IF ClockIs(0) THEN "RecvBit"
                 ELSE IF sendTriggerLoc THEN "Wait100" ELSE "Idle"

(* The host holds the clock low for 100 us.  A device that had begun a      *)
(* frame notices the inhibited clock well within that time.                 *)
Wait100(timeUp) ==
  /\ ena /\ comState = "Wait100"
  /\ timeUp => devState # "tx"
  /\ ps2_clk_out' = 0 /\ ps2_dat_out' = 1
  /\ NoPulse /\ LatchTrigger /\ KeepSend /\ KeepRecv
  /\ comState' = IF timeUp THEN "ClockAndDataLow" ELSE "Wait100"

ClockAndDataLow(timeUp) ==
  /\ ena /\ comState = "ClockAndDataLow"
  /\ ps2_clk_out' = 0 /\ ps2_dat_out' = 0
  /\ NoPulse /\ LatchTrigger /\ KeepRecv
  /\ comState' = IF timeUp THEN "WaitClockHigh" ELSE "ClockAndDataLow"
  /\ currentBit' = IF timeUp THEN 0 ELSE currentBit
  /\ UNCHANGED <<bitCount, parity>>

WaitClockHigh ==
  /\ ena /\ comState = "WaitClockHigh"
  /\ ps2_clk_out' = 1 /\ ps2_dat_out' = currentBit
  /\ NoPulse /\ LatchTrigger /\ KeepSend /\ KeepRecv
  /\ comState' = IF ClockIs(1) THEN "WaitClockLow" ELSE "WaitClockHigh"

WaitClockLow_Extra ==
  /\ ena /\ comState = "WaitClockLow"
  /\ ps2_clk_out' = 1 /\ ps2_dat_out' = currentBit
  /\ NoPulse /\ LatchTrigger /\ KeepRecv
  /\ \/ /\ ~ClockIs(0)
        /\ UNCHANGED comState /\ KeepSend
     \/ /\ ClockIs(0) /\ bitCount = DataBits + 3
        /\ comState' = "WaitAck" /\ KeepSend
     \/ /\ ClockIs(0) /\ bitCount < DataBits + 3
        /\ comState' = "WaitClockHigh"
        /\ bitCount' = bitCount + 1
        /\ currentBit' = IF bitCount > DataBits THEN 1
                         ELSE IF bitCount = DataBits THEN parity
                         ELSE sendByte[bitCount + 1]
        /\ parity' = IF bitCount < DataBits
                     THEN (parity + sendByte[bitCount + 1]) % 2 ELSE parity

WaitClockLow ==
  /\ ena /\ comState = "WaitClockLow"
  /\ ps2_clk_out' = 1 /\ ps2_dat_out' = currentBit
  /\ NoPulse /\ LatchTrigger /\ KeepRecv
  /\ \/ /\ ~ClockIs(0)
        /\ UNCHANGED comState /\ KeepSend
     \/ /\ ClockIs(0) /\ bitCount = DataBits + 2
        /\ comState' = "WaitAck" /\ KeepSend
     \/ /\ ClockIs(0) /\ bitCount < DataBits + 2
        /\ comState' = "WaitClockHigh"
        /\ bitCount' = bitCount + 1
        /\ currentBit' = IF bitCount = DataBits + 1 THEN 1
                         ELSE IF bitCount = DataBits THEN parity
                         ELSE sendByte[bitCount + 1]
        /\ parity' = IF bitCount < DataBits
                     THEN (parity + sendByte[bitCount + 1]) % 2 ELSE parity

WaitAck ==
  /\ ena /\ comState = "WaitAck"
  /\ Release /\ KeepSend /\ KeepRecv
  /\ recvTrigger' = FALSE
  /\ sendDone' = ClockIs(1)
  /\ sendTriggerLoc' = ((sendTriggerLoc \/ sendTrigger) /\ ~ClockIs(1))
  /\ comState' = IF ClockIs(1) THEN "Idle" ELSE "WaitAck"

RecvBit_Abort ==
  /\ ena /\ comState = "RecvBit"
  /\ Release /\ NoPulse /\ LatchTrigger
  /\ UNCHANGED <<currentBit, parity, recvByte, delivered>>
  /\ IF ClockIs(0)
     THEN /\ recvByteLoc' = Append(IF Len(recvByteLoc) = LastBit
                                   THEN Tail(recvByteLoc) ELSE recvByteLoc, DatLine)
          /\ bitCount' = bitCount + 1
          /\ comState' = "WaitHighRecv"
     ELSE /\ comState' = IF sendTriggerLoc THEN "Wait100" ELSE "RecvBit"
          /\ UNCHANGED <<recvByteLoc, bitCount>>

RecvBit ==
  /\ ena /\ comState = "RecvBit"
  /\ Release /\ NoPulse /\ LatchTrigger
  /\ UNCHANGED <<currentBit, parity, recvByte, delivered>>
  /\ IF ClockIs(0)
     THEN /\ recvByteLoc' = Append(IF Len(recvByteLoc) = LastBit
                                   THEN Tail(recvByteLoc) ELSE recvByteLoc, DatLine)
          /\ bitCount' = bitCount + 1
          /\ comState' = "WaitHighRecv"
     ELSE UNCHANGED <<recvByteLoc, bitCount, comState>>

(* A frame that ends while a send is waiting is given up for it. *)
WaitHighRecv_SendFirst ==
  /\ ena /\ comState = "WaitHighRecv"
  /\ Release /\ LatchTrigger /\ KeepSend
  /\ sendDone' = FALSE
  /\ recvTrigger' = (ClockIs(1) /\ bitCount = LastBit /\ ~sendTriggerLoc)
  /\ UNCHANGED recvByteLoc
  /\ IF ClockIs(1) /\ bitCount = LastBit
     THEN /\ comState' = "Idle"
          /\ IF sendTriggerLoc THEN UNCHANGED <<recvByte, delivered>>
             ELSE recvByte' = recvByteLoc /\ delivered' = Append(delivered, recvByteLoc)
     ELSE /\ comState' = IF ClockIs(1) THEN "RecvBit" ELSE "WaitHighRecv"
          /\ UNCHANGED <<recvByte, delivered>>

WaitHighRecv ==
  /\ ena /\ comState = "WaitHighRecv"
  /\ Release /\ LatchTrigger /\ KeepSend
  /\ sendDone' = FALSE
  /\ recvTrigger' = (ClockIs(1) /\ bitCount = LastBit)
  /\ UNCHANGED recvByteLoc
  /\ IF ClockIs(1) /\ bitCount = LastBit
     THEN /\ comState' = "Idle"
          /\ recvByte' = recvByteLoc
          /\ delivered' = Append(delivered, recvByteLoc)
     ELSE /\ comState' = IF ClockIs(1) THEN "RecvBit" ELSE "WaitHighRecv"
          /\ UNCHANGED <<recvByte, delivered>>

ClockEdge ==
  /\ ena' = ~ena
  /\ FilterClock
  /\ NoTrigger \/ \E b \in Bytes : Trigger(b)
  /\ \/ Disabled
     \/ Idle
     \/ \E timeUp \in BOOLEAN : Wait100(timeUp) \/ ClockAndDataLow(timeUp)
     \/ WaitClockHigh
     \/ WaitClockLow
     \/ WaitAck
     \/ RecvBit
     \/ WaitHighRecv
  /\ UNCHANGED devVars

-----------------------------------------------------------------------------
(* The device.  External: a keyboard or mouse following the PS/2 protocol.  *)

(* The driver has seen the present level of the clock and waits for the     *)
(* other one, and its outputs are those of its state.                       *)
HostWaits ==
  /\ ClockIs(ClkLine)
  /\ ClkLine = 0 => comState \in {"WaitClockHigh", "WaitAck", "WaitHighRecv", "Wait100"}
  /\ ClkLine = 1 => comState \in {"Idle", "WaitClockLow", "RecvBit"}
  /\ comState = "WaitClockHigh" => ps2_dat_out = currentBit
  /\ comState = "Wait100" => ps2_clk_out = 0

(* It starts a frame whenever both wires are high, and long enough after    *)
(* the last one for the driver to be through with it.  A frame it had to    *)
(* give up is sent again; of what became of a whole one it knows nothing.   *)
DevStart ==
  /\ devState = "idle" /\ ClkLine = 1 /\ DatLine = 1
  /\ comState \in {"Idle", "Wait100"}
  /\ \/ devOwes /\ UNCHANGED <<devByte, started>>
     \/ /\ ~devOwes /\ Len(started) < MaxFrames
        /\ \E b \in Bytes : devByte' = b /\ started' = Append(started, b)
  /\ devState' = "tx" /\ devBit' = 1 /\ devOwes' = TRUE
  /\ devClk' = 0 /\ devDat' = 0
  /\ UNCHANGED <<devShift, accepted, hostVars>>

(* The next falling edge, with the data bit already on the wire. *)
DevFallTx ==
  /\ devState = "tx" /\ devClk = 1 /\ HostWaits
  /\ devBit < LastBit
  /\ devBit' = devBit + 1
  /\ devDat' = Frame(devByte)[devBit + 1]
  /\ devClk' = 0
  /\ UNCHANGED <<devState, devByte, devOwes, devShift, accepted, started, hostVars>>

(* The clock is let go; a host that holds it low aborts the frame. *)
DevRiseTx ==
  /\ devState = "tx" /\ devClk = 0 /\ HostWaits
  /\ devClk' = 1
  /\ IF ps2_clk_out = 0 \/ devBit = LastBit
     THEN devState' = "idle" /\ devDat' = 1
     ELSE UNCHANGED <<devState, devDat>>
  /\ devOwes' = (ps2_clk_out = 0 \/ devBit # LastBit)
  /\ UNCHANGED <<devBit, devByte, devShift, accepted, started, hostVars>>

(* The host has released the clock and holds the data low: it wants to send. *)
DevAnswer ==
  /\ devState = "idle" /\ ClkLine = 1 /\ ps2_dat_out = 0 /\ HostWaits
  /\ devState' = "rx" /\ devBit' = 1 /\ devClk' = 0
  /\ devShift' = <<DatLine>>
  /\ UNCHANGED <<devDat, devByte, devOwes, accepted, started, hostVars>>

(* Rising edges sample the host's bit; the last one ends the acknowledge. *)
DevRiseRx ==
  /\ devState = "rx" /\ devClk = 0 /\ HostWaits
  /\ devClk' = 1
  /\ IF devBit = LastBit
     THEN /\ devState' = "idle" /\ devDat' = 1
          /\ accepted' = Append(accepted, devShift)
          /\ UNCHANGED devShift
     ELSE /\ devShift' = Append(devShift, DatLine)
          /\ UNCHANGED <<devState, devDat, accepted>>
  /\ UNCHANGED <<devBit, devByte, devOwes, started, hostVars>>

DevFallRx ==
  /\ devState = "rx" /\ devClk = 1 /\ HostWaits
  /\ devBit < LastBit
  /\ devBit' = devBit + 1
  /\ devClk' = 0
  /\ devDat' = IF devBit + 1 = LastBit THEN 0 ELSE 1
  /\ UNCHANGED <<devState, devByte, devOwes, devShift, accepted, started, hostVars>>

Device == DevStart \/ DevFallTx \/ DevRiseTx \/ DevAnswer \/ DevRiseRx \/ DevFallRx

Next == ClockEdge \/ Device

Spec == Init /\ [][Next]_vars

(* The wait counter of the two waiting states reaches zero: these states    *)
(* are left, in one of the cycles the state machine runs in.                *)
WaitEnds ==
  /\ ClockEdge
  /\ comState \in {"Wait100", "ClockAndDataLow"} /\ comState' # comState

(* clk never stops, the counted waits end, and a device that is plugged in  *)
(* goes on with a frame it has begun and answers a request to send.  Only   *)
(* WaitEnds needs strong fairness: ena disables it in every other cycle.    *)
FairSpec ==
  /\ Spec
  /\ WF_vars(ClockEdge) /\ SF_vars(WaitEnds)
  /\ WF_vars(DevFallTx) /\ WF_vars(DevRiseTx) /\ WF_vars(DevAnswer)
  /\ WF_vars(DevRiseRx) /\ WF_vars(DevFallRx)

-----------------------------------------------------------------------------
(* Properties. *)

(* The frames the device has sent to their last bit.                        *)
Completed == Len(started) - (IF devOwes THEN 1 ELSE 0)

(* The frames handed over with recvTrigger are those the device has sent to *)
(* their end, whole and in order: none is repeated or mixed with a frame    *)
(* that was given up because the host started to send at the same moment,   *)
(* and none is dropped, as at most the one whose last edge the driver is    *)
(* waiting for is still to come.                                            *)
ReceivesWhatWasSent ==
  /\ Len(delivered) <= Completed
  /\ comState # "WaitHighRecv" => Len(delivered) = Completed
  /\ \A i \in 1 .. Len(delivered) : delivered[i] = Frame(started[i])

(* The device receives the bytes the host requested, in order, each with a  *)
(* right parity and stop bit, and none twice.                               *)
SendsWhatWasRequested ==
  /\ Len(accepted) <= Len(requested)
  /\ \A i \in 1 .. Len(accepted) : accepted[i] = Frame(requested[i])

(* Bytes cross the wires whole, in order and once, both ways.               *)
BytesCross == ReceivesWhatWasSent /\ SendsWhatWasRequested

(* The host takes the clock away from a device only at the beginning of a   *)
(* frame: once a bit has been shifted in, the frame is received to its end. *)
NeverTruncates ==
  ps2_clk_out = 0 /\ devState = "tx" => devBit = 1

(* sendDone says the truth: when it pulses, and the driver takes another    *)
(* byte, the device has received everything requested so far.               *)
DoneMeansAccepted == sendDone => Len(accepted) = Len(requested)

(* Neither side takes the wires from the other in the middle of a frame, and *)
(* a send is reported only when it has arrived.                              *)
Handshake == NeverTruncates /\ DoneMeansAccepted

(* The entity's description of sendTrigger, "make this signal 1 clock cycle *)
(* high to send byte": after the cycle of the pulse the request is latched. *)
TriggerTaken == [][sendTrigger /\ ena' # ena => sendTriggerLoc']_vars

(* A latched request is eventually sent, whatever the device was doing.     *)
SendCompletes == sendTriggerLoc ~> ~sendTriggerLoc

=============================================================================
