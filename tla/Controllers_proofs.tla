-------------------------- MODULE Controllers_proofs --------------------------
(* Theorems of the two clocked controllers, process by process as their VHDL *)
(* is: the interrupt controller, for any set of trigger lines, and           *)
(* io_ps2_com with its device, for every length of a byte, every set of      *)
(* bytes, any number of frames either way and any glitch filter.             *)
EXTENDS InterruptController, PS2Com, Integers, WellFoundedInduction, SequenceTheorems, TLAPS

-----------------------------------------------------------------------------
(* The interrupt controller.                                                 *)

(* The inductive invariant holds initially. *)
LEMMA InitIInv == IrqInit => IInv
  BY IntsAssumption
     DEF IrqInit, IInv, IrqTypeOK, CpuStates, AnyPendingRight, RequestHasCause,
         ReadMeetsRequest, NoTriggerLost, Deliverable

(* What one clock edge of the controller process does to the parts of the  *)
(* invariant that speak of its registers only.                             *)
LEMMA ControllerStep ==
  ASSUME IInv, NEW trig \in SUBSET Ints, Controller(trig)
  PROVE  /\ pending' \subseteq Ints
         /\ anyPending' \in BOOLEAN
         /\ status' \subseteq Ints
         /\ int' \in BOOLEAN
         /\ AnyPendingRight'
         /\ RequestHasCause'
         /\ int /\ ~int_ack => int' /\ status' = status
<1>1. /\ pending \subseteq Ints /\ status \subseteq Ints
      /\ anyPending \in BOOLEAN /\ int \in BOOLEAN /\ int_ack \in BOOLEAN
  BY DEF IInv, IrqTypeOK
<1>2. (anyPending <=> pending # {}) /\ (int => status # {})
  BY DEF IInv, AnyPendingRight, RequestHasCause
<1>3. CASE int
  BY <1>1, <1>2, <1>3
     DEF Controller, IntNext, StatusNext, PendingNext, AnyPendingNext,
         AnyPendingRight, RequestHasCause
<1>4. CASE ~int
  BY <1>1, <1>2, <1>4
     DEF Controller, IntNext, StatusNext, PendingNext, AnyPendingNext,
         AnyPendingRight, RequestHasCause
<1>5. QED
  BY <1>3, <1>4

(* A clock edge drops nothing that is deliverable, unless the acknowledge  *)
(* of a read that saw it is being processed, and it adds the triggers.     *)
LEMMA ControllerKeeps ==
  ASSUME IInv, NEW trig \in SUBSET Ints, Controller(trig), ~int_ack'
  PROVE  Deliverable \union trig \subseteq Deliverable'
<1>1. CASE int /\ ~int_ack
  BY <1>1 DEF Controller, IntNext, StatusNext, PendingNext, Deliverable
<1>2. CASE int /\ int_ack
  BY <1>2 DEF Controller, IntNext, StatusNext, PendingNext, Deliverable
<1>3. CASE ~int
  <2>1. anyPending <=> pending # {}
    BY DEF IInv, AnyPendingRight
  <2>2. QED
    BY <1>3, <2>1 DEF Controller, IntNext, StatusNext, PendingNext, Deliverable
<1>4. QED
  BY <1>1, <1>2, <1>3 DEF IInv, IrqTypeOK

(* Every step preserves the inductive invariant. *)
LEMMA NextIInv == IInv /\ [IrqNext]_irqVars => IInv'
<1> SUFFICES ASSUME IInv, [IrqNext]_irqVars
             PROVE  IInv'
  OBVIOUS
<1>1. ASSUME NEW trig \in SUBSET Ints, Tick(trig)
      PROVE  IInv'
  <2>1. IrqTypeOK' /\ AnyPendingRight' /\ RequestHasCause'
    BY <1>1, ControllerStep DEF Tick, IInv, IrqTypeOK
  <2>2. ReadMeetsRequest'
    <3>1. ~PolledReads /\ cpu = "disabled" => int /\ ~int_ack
      BY DEF IInv, ReadMeetsRequest
    <3>2. QED
      BY <1>1, <3>1, ControllerStep DEF Tick, ReadMeetsRequest
  <2>3. ~PolledReads => NoTriggerLost'
    BY <1>1, ControllerKeeps DEF Tick, IInv, NoTriggerLost
  <2>4. QED
    BY <2>1, <2>2, <2>3 DEF IInv
<1>2. ASSUME NEW trig \in SUBSET Ints, EnableTick(trig)
      PROVE  IInv'
  <2>1. IrqTypeOK' /\ AnyPendingRight' /\ RequestHasCause'
    BY <1>2, ControllerStep DEF EnableTick, IInv, IrqTypeOK
  <2>2. ReadMeetsRequest'
    BY <1>2 DEF EnableTick, ReadMeetsRequest
  <2>3. ~PolledReads => NoTriggerLost'
    BY <1>2, ControllerKeeps DEF EnableTick, IInv, NoTriggerLost
  <2>4. QED
    BY <2>1, <2>2, <2>3 DEF IInv
<1>3. ASSUME NEW trig \in SUBSET Ints, DisableTick(trig)
      PROVE  IInv'
  <2>1. IrqTypeOK' /\ AnyPendingRight' /\ RequestHasCause'
    BY <1>3, ControllerStep DEF DisableTick, IInv, IrqTypeOK, CpuStates
  <2>2. ReadMeetsRequest'
    <3>1. ~PolledReads => int /\ ~int_ack
      BY <1>3 DEF DisableTick, int_trigger, IInv, ReadMeetsRequest
    <3>2. QED
      BY <1>3, <3>1, ControllerStep DEF DisableTick, ReadMeetsRequest
  <2>3. ~PolledReads => NoTriggerLost'
    BY <1>3, ControllerKeeps DEF DisableTick, IInv, NoTriggerLost
  <2>4. QED
    BY <2>1, <2>2, <2>3 DEF IInv
<1>4. ASSUME NEW trig \in SUBSET Ints, ReadTick(trig)
      PROVE  IInv'
  <2>1. IrqTypeOK' /\ AnyPendingRight' /\ RequestHasCause'
    BY <1>4, ControllerStep DEF ReadTick, IInv, IrqTypeOK, CpuStates
  <2>2. ~PolledReads => int /\ ~int_ack
    BY <1>4 DEF ReadTick, IInv, ReadMeetsRequest
  <2>3. ReadMeetsRequest'
    BY <1>4, <2>2, ControllerStep DEF ReadTick, ReadMeetsRequest
  <2>4. ~PolledReads => NoTriggerLost'
    <3> SUFFICES ASSUME ~PolledReads
                 PROVE  NoTriggerLost'
      OBVIOUS
    <3>1. unreported \subseteq pending \union status
      BY <2>2 DEF IInv, NoTriggerLost, Deliverable
    <3>2. unreported' \subseteq pending \union trig
      BY <1>4, <3>1 DEF ReadTick
    <3>3. pending' = pending \union trig
      BY <1>4, <2>2 DEF ReadTick, Controller, PendingNext
    <3>4. QED
      BY <3>2, <3>3 DEF NoTriggerLost, Deliverable
  <2>5. QED
    BY <2>1, <2>3, <2>4 DEF IInv
<1>5. ASSUME NEW trig \in SUBSET Ints, ReturnTick(trig)
      PROVE  IInv'
  <2>1. IrqTypeOK' /\ AnyPendingRight' /\ RequestHasCause'
    BY <1>5, ControllerStep DEF ReturnTick, IInv, IrqTypeOK, CpuStates
  <2>2. ReadMeetsRequest'
    BY <1>5 DEF ReturnTick, ReadMeetsRequest
  <2>3. ~PolledReads => NoTriggerLost'
    BY <1>5, ControllerKeeps DEF ReturnTick, IInv, NoTriggerLost
  <2>4. QED
    BY <2>1, <2>2, <2>3 DEF IInv
<1>6. CASE UNCHANGED irqVars
  BY <1>6
     DEF irqVars, IInv, IrqTypeOK, AnyPendingRight, RequestHasCause,
         ReadMeetsRequest, NoTriggerLost, Deliverable
<1>7. QED
  BY <1>1, <1>2, <1>3, <1>4, <1>5, <1>6 DEF IrqNext

(* The invariant the other theorems rest on. *)
THEOREM Invariance == IrqSpec => []IInv
<1>1. QED
  BY InitIInv, NextIInv, PTL DEF IrqSpec

(* The registers of the controller keep their types. *)
THEOREM TypeCorrect == IrqSpec => []IrqTypeOK
<1>1. IInv => IrqTypeOK
  BY DEF IInv
<1>2. QED
  BY <1>1, Invariance, PTL

(* When the register is read by interrupt handlers only, a trigger that no *)
(* read has returned is still held by the controller.                      *)
THEOREM TriggersKept == ~PolledReads => (IrqSpec => []NoTriggerLost)
<1>1. ~PolledReads /\ IInv => NoTriggerLost
  BY DEF IInv
<1>2. ASSUME ~PolledReads
      PROVE  IrqSpec => []NoTriggerLost
  <2>1. IInv => NoTriggerLost
    BY <1>1, <1>2
  <2>2. QED
    BY <2>1, Invariance, PTL
<1>3. QED
  BY <1>2

(* A request to the CPU always has a bit in the register to explain it. *)
THEOREM RequestsExplained == IrqSpec => []RequestHasCause
<1>1. IInv => RequestHasCause
  BY DEF IInv
<1>2. QED
  BY <1>1, Invariance, PTL

(* The clocked controller implements the abstract latch. *)
THEOREM LatchRefinement == IrqSpec => ImplementsLatch
<1>1. IrqInit => Latch!LatchInit
  BY DEF IrqInit, Latch!LatchInit
<1>2. IInv /\ [IrqNext]_irqVars => [Latch!LatchNext]_(Latch!latchVars)
  <2> SUFFICES ASSUME IInv, [IrqNext]_irqVars
               PROVE  [Latch!LatchNext]_(Latch!latchVars)
    OBVIOUS
  <2>1. CASE UNCHANGED irqVars
    BY <2>1 DEF irqVars, Latch!latchVars
  <2>2. ASSUME NEW trig \in SUBSET Ints, Controller(trig)
        PROVE  Latch!LatchNext
    <3>1. CASE ~int /\ anyPending
      <4>1. Latch!Raise(trig)
        BY <2>2, <3>1
           DEF Latch!Raise, Controller, IntNext, StatusNext, PendingNext,
               IInv, AnyPendingRight
      <4>2. QED
        BY <4>1 DEF Latch!LatchNext
    <3>2. CASE int /\ int_ack
      <4>1. Latch!Acknowledge(trig)
        BY <2>2, <3>2
           DEF Latch!Acknowledge, Controller, IntNext, StatusNext, PendingNext,
               IInv, RequestHasCause
      <4>2. QED
        BY <4>1 DEF Latch!LatchNext
    <3>3. CASE (~int /\ ~anyPending) \/ (int /\ ~int_ack)
      <4>1. Latch!Hold(trig)
        BY <2>2, <3>3
           DEF Latch!Hold, Controller, IntNext, StatusNext, PendingNext,
               IInv, AnyPendingRight
      <4>2. QED
        BY <4>1 DEF Latch!LatchNext
    <3>4. QED
      BY <3>1, <3>2, <3>3 DEF IInv, IrqTypeOK
  <2>3. QED
    BY <2>1, <2>2 DEF IrqNext, Tick, EnableTick, DisableTick, ReadTick, ReturnTick
<1>3. QED
  BY <1>1, <1>2, Invariance, PTL DEF IrqSpec, ImplementsLatch, Latch!LatchSpec

-----------------------------------------------------------------------------
(* Frames, bit by bit.                                                       *)

FrameBit(b, i) ==
  IF i = 1 THEN 0
  ELSE IF i <= DataBits + 1 THEN b[i - 1]
  ELSE IF i = DataBits + 2 THEN ParityOf(b)
  ELSE 1

FrameBits(b, k) == [i \in 1 .. k |-> FrameBit(b, i)]

Parities(b) ==
  CHOOSE p : p = [i \in 0 .. DataBits |-> IF i = 0 THEN 1 ELSE (p[i - 1] + b[i]) % 2]

(* Induction up to n, with the set of the numbers for which it holds.        *)
LEMMA Induct ==
  ASSUME NEW n \in Nat, NEW S, 0 \in S,
         \A i \in 0 .. n : i # 0 /\ i - 1 \in S => i \in S
  PROVE  \A i \in 0 .. n : i \in S
<1> DEFINE T == {i \in 0 .. n : i \notin S}
<1>1. SUFFICES ASSUME T # {}
               PROVE  FALSE
  BY Zenon
<1>2. T \subseteq Nat
  OBVIOUS
<1>3. PICK i \in T : \A j \in T : ~(<<j, i>> \in OpToRel(<, Nat))
  BY <1>1, <1>2, WFMin, NatLessThanWellFounded
<1>4. \A j \in Nat : j < i => <<j, i>> \in OpToRel(<, Nat)
  BY <1>2, <1>3 DEF OpToRel
<1>5. i # 0 /\ i \in 0 .. n /\ i \notin S
  BY <1>3
<1>6. i - 1 \in 0 .. n /\ i - 1 < i /\ i - 1 \in Nat
  BY <1>5
<1>7. i - 1 \notin T
  BY <1>3, <1>4, <1>6
<1> QED
  BY <1>5, <1>6, <1>7

(* The parity after each bit of a byte, as the driver computes it.           *)
LEMMA ParitiesAre ==
  ASSUME NEW b \in Bytes
  PROVE  /\ Parities(b) \in [0 .. DataBits -> Bit] /\ Parities(b)[0] = 1
         /\ \A i \in 1 .. DataBits : Parities(b)[i] = (Parities(b)[i - 1] + b[i]) % 2
         /\ ParityOf(b) = Parities(b)[DataBits]
<1> DEFINE Sums(p, k) == p[0] = 1 /\ \A i \in 1 .. k : p[i] = (p[i - 1] + b[i]) % 2
           Is(p) == p = [i \in 0 .. DataBits |-> IF i = 0 THEN 1 ELSE (p[i - 1] + b[i]) % 2]
           S == {k \in 0 .. DataBits : \E p \in [0 .. k -> Bit] : Sums(p, k)}
           q == CHOOSE p : Is(p)
<1>1. DataBits \in Nat /\ b \in [1 .. DataBits -> Bit]
  BY PS2ComAssumption
<1>2. \A x, y \in Bit : (x + y) % 2 \in Bit
  BY DEF Bit
<1>3. 0 \in S
  <2> DEFINE g == [i \in 0 .. 0 |-> 1]
  <2>1. g \in [0 .. 0 -> Bit] /\ Sums(g, 0)
    BY DEF Bit
  <2> HIDE DEF g
  <2>2. \E p \in [0 .. 0 -> Bit] : Sums(p, 0)
    BY <2>1
  <2>3. 0 \in 0 .. DataBits
    BY <1>1
  <2> QED
    BY <2>2, <2>3
<1>4. ASSUME NEW k \in 0 .. DataBits, k # 0, k - 1 \in S
      PROVE  k \in S
  <2>1. PICK p \in [0 .. k - 1 -> Bit] : Sums(p, k - 1)
    BY <1>4
  <2> DEFINE g == [i \in 0 .. k |-> IF i = k THEN (p[k - 1] + b[k]) % 2 ELSE p[i]]
  <2>2. k \in 1 .. DataBits /\ k - 1 \in 0 .. k - 1 /\ k - 1 # k
    BY <1>1, <1>4
  <2>3. (p[k - 1] + b[k]) % 2 \in Bit
    BY <1>1, <1>2, <2>2
  <2>4. \A i \in 0 .. k : i # k => i \in 0 .. k - 1
    BY <2>2
  <2>5. g \in [0 .. k -> Bit]
    BY <2>3, <2>4
  <2>6. ASSUME NEW i \in 1 .. k
        PROVE  g[i] = (g[i - 1] + b[i]) % 2
    <3>1. i - 1 \in 0 .. k /\ i - 1 # k /\ i \in 0 .. k
      BY <2>2
    <3>2. g[i - 1] = p[i - 1]
      BY <3>1
    <3>3. CASE i = k
      BY <3>1, <3>2, <3>3
    <3>4. CASE i # k
      <4>1. i \in 1 .. k - 1 /\ g[i] = p[i]
        BY <2>4, <3>1, <3>4
      <4> QED
        BY <2>1, <3>2, <4>1
    <3> QED
      BY <3>3, <3>4
  <2>7. g[0] = 1
    <3>1. 0 \in 0 .. k /\ 0 # k
      BY <2>2
    <3> QED
      BY <2>1, <3>1
  <2> QED
    BY <2>5, <2>6, <2>7
<1>5. DataBits \in S
  <2> HIDE DEF S
  <2>1. \A i \in 0 .. DataBits : i \in S
    BY <1>1, <1>3, <1>4, Induct
  <2> QED
    BY <1>1, <2>1
<1>6. PICK p \in [0 .. DataBits -> Bit] : Sums(p, DataBits)
  BY <1>5
<1>7. Is(p)
  <2>1. \A i \in 0 .. DataBits : p[i] = IF i = 0 THEN 1 ELSE (p[i - 1] + b[i]) % 2
    BY <1>6
  <2> QED
    BY <2>1
<1>8. Is(q)
  BY <1>7
<1>9. Parities(b) = q
  BY DEF Parities
<1>10. ParityOf(b) = q[DataBits]
  BY DEF ParityOf
<1> HIDE DEF q
<1>11. q[0] = 1 /\ q = [i \in 0 .. DataBits |-> q[i]]
  BY <1>1, <1>8
<1>12. \A i \in 1 .. DataBits : q[i] = (q[i - 1] + b[i]) % 2
  BY <1>1, <1>8
<1> DEFINE U == {i \in 0 .. DataBits : q[i] \in Bit}
<1>13. 0 \in U
  BY <1>1, <1>11 DEF Bit
<1>14. ASSUME NEW i \in 0 .. DataBits, i # 0, i - 1 \in U
       PROVE  i \in U
  <2>1. i \in 1 .. DataBits /\ q[i - 1] \in Bit /\ b[i] \in Bit
    BY <1>1, <1>14
  <2> QED
    BY <1>2, <1>12, <2>1
<1>15. \A i \in 0 .. DataBits : i \in U
  <2> HIDE DEF U
  <2> QED
    BY <1>1, <1>13, <1>14, Induct
<1> QED
  BY <1>9, <1>10, <1>11, <1>12, <1>15

LEMMA FrameBitsAre ==
  ASSUME NEW b \in Bytes
  PROVE  /\ \A i \in Nat \ {0} : FrameBit(b, i) \in Bit
         /\ Frame(b) = FrameBits(b, LastBit)
         /\ \A k \in Nat : /\ FrameBits(b, k) \in Seq(Bit) /\ Len(FrameBits(b, k)) = k
                          /\ FrameBits(b, k + 1) = Append(FrameBits(b, k), FrameBit(b, k + 1))
<1>1. DataBits \in Nat \ {0} /\ b \in [1 .. DataBits -> Bit] /\ b \in Seq(Bit) /\ Len(b) = DataBits
  BY PS2ComAssumption
<1>2. ParityOf(b) \in Bit
  BY <1>1, ParitiesAre
<1>3. \A i \in Nat \ {0} : FrameBit(b, i) \in Bit
  <2> SUFFICES ASSUME NEW i \in Nat \ {0}
               PROVE  FrameBit(b, i) \in Bit
    OBVIOUS
  <2>1. i # 1 /\ i <= DataBits + 1 => i - 1 \in 1 .. DataBits
    BY <1>1
  <2> QED
    BY <1>1, <1>2, <2>1 DEF FrameBit, Bit
<1>4. \A k \in Nat : FrameBits(b, k) \in Seq(Bit) /\ Len(FrameBits(b, k)) = k
  <2> SUFFICES ASSUME NEW k \in Nat
               PROVE  FrameBits(b, k) \in Seq(Bit) /\ Len(FrameBits(b, k)) = k
    OBVIOUS
  <2>1. FrameBits(b, k) \in [1 .. k -> Bit]
    BY <1>3 DEF FrameBits
  <2> QED
    BY <2>1
<1>5. \A k \in Nat : FrameBits(b, k + 1) = Append(FrameBits(b, k), FrameBit(b, k + 1))
  <2> SUFFICES ASSUME NEW k \in Nat
               PROVE  FrameBits(b, k + 1) = Append(FrameBits(b, k), FrameBit(b, k + 1))
    OBVIOUS
  <2> DEFINE s == FrameBits(b, k)
             t == FrameBits(b, k + 1)
             u == Append(s, FrameBit(b, k + 1))
  <2>1. s \in Seq(Bit) /\ Len(s) = k /\ FrameBit(b, k + 1) \in Bit
    BY <1>3, <1>4
  <2>2. u \in Seq(Bit) /\ Len(u) = k + 1 /\ t \in Seq(Bit) /\ Len(t) = k + 1
    <3> HIDE DEF s
    <3> QED
      BY <1>4, <2>1
  <2>3. ASSUME NEW i \in 1 .. k + 1
        PROVE  t[i] = u[i]
    <3>1. t[i] = FrameBit(b, i)
      BY DEF FrameBits
    <3>2. i \in 1 .. k => s[i] = FrameBit(b, i)
      BY DEF FrameBits
    <3> HIDE DEF s, t
    <3>3. i # k + 1 => i \in 1 .. k
      OBVIOUS
    <3> QED
      BY <2>1, <3>1, <3>2, <3>3
  <2> HIDE DEF t, u
  <2> QED
    BY <2>2, <2>3, SeqEqual DEF t, u
<1>6. Frame(b) = FrameBits(b, LastBit)
  <2> DEFINE f == Frame(b)
             g == FrameBits(b, LastBit)
             s == <<0>> \o b
  <2>1. <<0>> \in Seq(Bit) /\ <<ParityOf(b), 1>> \in Seq(Bit)
    BY <1>2 DEF Bit
  <2>2. s \in Seq(Bit) /\ Len(s) = DataBits + 1 /\ s[1] = 0
    BY <1>1, <2>1
  <2>3. \A i \in 2 .. DataBits + 1 : s[i] = b[i - 1]
    BY <1>1, <2>1
  <2>4. f = s \o <<ParityOf(b), 1>>
    BY DEF Frame
  <2> HIDE DEF s
  <2>5. f \in Seq(Bit) /\ Len(f) = LastBit
    BY <1>1, <2>1, <2>2, <2>4 DEF LastBit
  <2>6. \A i \in 1 .. DataBits + 1 : f[i] = s[i]
    BY <1>1, <2>1, <2>2, <2>4
  <2>7. f[DataBits + 2] = ParityOf(b) /\ f[DataBits + 3] = 1
    BY <1>1, <2>1, <2>2, <2>4
  <2>8. g \in Seq(Bit) /\ Len(g) = LastBit
    BY <1>1, <1>4 DEF LastBit
  <2> HIDE DEF f
  <2>9. ASSUME NEW i \in 1 .. LastBit
        PROVE  f[i] = FrameBit(b, i)
    <3>1. i \in 1 .. DataBits + 1 \/ i = DataBits + 2 \/ i = DataBits + 3
      BY <1>1 DEF LastBit
    <3>2. CASE i \in 1 .. DataBits + 1
      <4>1. i = 1 \/ i \in 2 .. DataBits + 1
        BY <1>1, <3>2
      <4> QED
        BY <1>1, <2>2, <2>3, <2>6, <3>2, <4>1 DEF FrameBit
    <3>3. CASE i = DataBits + 2 \/ i = DataBits + 3
      BY <1>1, <2>7, <3>3 DEF FrameBit
    <3> QED
      BY <3>1, <3>2, <3>3
  <2>10. \A i \in 1 .. LastBit : g[i] = FrameBit(b, i)
    BY DEF FrameBits
  <2> HIDE DEF g
  <2>11. f = g
    BY <2>5, <2>8, <2>9, <2>10, SeqEqual
  <2> QED
    BY <2>11 DEF f, g
<1> QED
  BY <1>3, <1>4, <1>5, <1>6

-----------------------------------------------------------------------------
(* The invariant.                                                            *)

(* TypeOK, one by one.                                                       *)
Types ==
  /\ ena \in BOOLEAN /\ sendTriggerLoc \in BOOLEAN /\ recvTrigger \in BOOLEAN
  /\ sendDone \in BOOLEAN /\ sendTrigger \in BOOLEAN /\ devOwes \in BOOLEAN
  /\ clkReg \in Bit /\ currentBit \in Bit /\ parity \in Bit
  /\ ps2_clk_out \in Bit /\ ps2_dat_out \in Bit /\ devClk \in Bit /\ devDat \in Bit
  /\ clkFilterCnt \in 0 .. ClockFilter
  /\ comState \in ComStates
  /\ bitCount \in 0 .. LastBit
  /\ sendByte \in Bytes /\ devByte \in Bytes
  /\ devState \in {"idle", "tx", "rx"}
  /\ devBit \in 0 .. LastBit

Sequences ==
  /\ recvByteLoc \in Seq(Bit) /\ Len(recvByteLoc) <= LastBit
  /\ recvByte \in Seq(Bit) /\ devShift \in Seq(Bit)
  /\ requested \in Seq(Bytes) /\ accepted \in Seq(Seq(Bit))
  /\ started \in Seq(Bytes) /\ delivered \in Seq(Seq(Bit))

Sends == {"Wait100", "ClockAndDataLow", "WaitClockHigh", "WaitClockLow", "WaitAck"}

(* What the driver drives in each state, and that what it waits to see is    *)
(* seen only when it is so: the filter is late, never wrong.                 *)
Wires ==
  /\ comState \in {"Idle", "RecvBit", "WaitHighRecv", "WaitAck"} =>
       ps2_clk_out = 1 /\ ps2_dat_out = 1
  /\ comState = "Wait100" => ps2_dat_out = 1
  /\ comState = "ClockAndDataLow" => ps2_clk_out = 0
  /\ comState = "WaitClockHigh" /\ ps2_clk_out = 0 => clkReg = 0
  /\ comState = "WaitClockLow" => ps2_clk_out = 1 /\ ps2_dat_out = currentBit
  /\ comState \in {"Idle", "WaitClockLow", "RecvBit"} /\ clkReg = 0 => devClk = 0
  /\ comState \in {"WaitClockHigh", "WaitAck", "WaitHighRecv"} /\ clkReg = 1 =>
       ps2_clk_out = 1 /\ devClk = 1

(* The wire of the data carries the bit of the frame, or the acknowledge.    *)
DeviceRight ==
  /\ devState = "idle" => devClk = 1 /\ devDat = 1
  /\ devState = "tx" => devBit > 0 /\ devDat = FrameBit(devByte, devBit)
  /\ devState = "rx" => devDat = IF devBit = LastBit THEN 0 ELSE 1

(* Driver and device are at the same bit of the same frame, the one that has *)
(* moved waiting for the other.                                              *)
InTurn ==
  /\ comState \in {"Idle", "Wait100"} =>
       devState = "idle" \/ (devState = "tx" /\ devBit = 1 /\ devClk = 0)
  /\ comState = "ClockAndDataLow" => devState = "idle"
  /\ comState = "WaitClockHigh" =>
       \/ bitCount = 0 /\ devState = "idle"
       \/ bitCount > 0 /\ devState = "rx" /\ devBit = bitCount /\ ps2_clk_out = 1
  /\ comState = "WaitClockLow" =>
       \/ bitCount = 0 /\ devState = "idle"
       \/ devState = "rx" /\ devBit = bitCount + 1 - devClk /\ devBit > 0
  /\ comState = "WaitAck" =>
       devState = "idle" \/ (devState = "rx" /\ devBit = LastBit /\ devClk = 0)
  /\ comState = "RecvBit" => devState = "tx" /\ devBit = bitCount + 1 - devClk
  /\ comState = "WaitHighRecv" =>
       /\ devBit = bitCount /\ bitCount > 0
       /\ devState = IF devClk = 1 /\ bitCount = LastBit THEN "idle" ELSE "tx"

(* The bits the device has sampled are the first ones of the frame.          *)
Sending ==
  /\ comState \in Sends => sendTriggerLoc
  /\ comState \in {"Wait100", "ClockAndDataLow"} => bitCount = 0 /\ parity = 1
  /\ comState \in {"WaitClockHigh", "WaitClockLow"} =>
       /\ bitCount <= DataBits + 2
       /\ currentBit = FrameBit(sendByte, bitCount + 1)
       /\ parity = Parities(sendByte)[IF bitCount < DataBits THEN bitCount ELSE DataBits]
  /\ devState = "rx" =>
       devShift = FrameBits(sendByte, IF comState = "WaitClockHigh" THEN bitCount + devClk
                                      ELSE IF comState = "WaitClockLow" THEN bitCount + 1
                                      ELSE LastBit)

(* The bits shifted in are the first ones of the frame.                      *)
Receiving ==
  /\ comState \in {"RecvBit", "WaitHighRecv"} =>
       /\ Len(delivered) < Len(started)
       /\ bitCount <= Len(recvByteLoc)
       /\ \A j \in 1 .. bitCount :
            recvByteLoc[(Len(recvByteLoc) - bitCount) + j] = FrameBit(devByte, j)
  /\ devState = "tx" => devOwes
  /\ devOwes => Len(delivered) < Len(started)
  /\ comState # "WaitHighRecv" /\ ~devOwes => Len(delivered) = Len(started)
  /\ comState = "WaitHighRecv" /\ devState = "idle" => ~devOwes
  /\ Len(started) \in {Len(delivered), Len(delivered) + 1}
  /\ Len(delivered) < Len(started) => started[Len(started)] = devByte
  /\ \A i \in 1 .. Len(delivered) : delivered[i] = FrameBits(started[i], LastBit)

(* What has been requested and not accepted is what the driver is busy with. *)
Requests ==
  /\ sendTrigger => ena /\ ~sendTriggerLoc
  /\ Len(requested) = IF sendBusy /\ ~(comState = "WaitAck" /\ devState = "idle")
                      THEN Len(accepted) + 1 ELSE Len(accepted)
  /\ sendBusy => requested # <<>> /\ requested[Len(requested)] = sendByte
  /\ sendDone => Len(requested) = Len(accepted)
  /\ \A i \in 1 .. Len(accepted) : accepted[i] = FrameBits(requested[i], LastBit)

ComBase ==
  Types /\ Sequences /\ Wires /\ DeviceRight /\ InTurn /\ Sending /\ Receiving

(* Requests may be lost unless they are aligned (TriggerTaken).              *)
ComInv == ComBase /\ (AlignedTriggers => Requests)

LEMMA InitCom == Init => ComInv
<1> SUFFICES ASSUME Init
             PROVE  ComInv
  OBVIOUS
<1>1. Types
  <2>1. (CHOOSE b \in Bytes : TRUE) \in Bytes
    BY PS2ComAssumption
  <2>2. FALSE \in BOOLEAN
    BY Zenon
  <2>3. /\ ena \in BOOLEAN /\ sendTriggerLoc \in BOOLEAN /\ recvTrigger \in BOOLEAN
        /\ sendDone \in BOOLEAN /\ sendTrigger \in BOOLEAN /\ devOwes \in BOOLEAN
    BY <2>2, Zenon DEF Init
  <2>4. /\ clkReg \in Bit /\ currentBit \in Bit /\ parity \in Bit
        /\ ps2_clk_out \in Bit /\ ps2_dat_out \in Bit /\ devClk \in Bit /\ devDat \in Bit
        /\ clkFilterCnt \in 0 .. ClockFilter /\ bitCount \in 0 .. LastBit /\ devBit \in 0 .. LastBit
    BY PS2ComAssumption DEF Init, Bit, LastBit
  <2>5. comState \in ComStates /\ devState \in {"idle", "tx", "rx"}
    BY DEF Init, ComStates
  <2>6. sendByte \in Bytes /\ devByte \in Bytes
    BY <2>1 DEF Init
  <2> QED
    BY <2>3, <2>4, <2>5, <2>6 DEF Types
<1>2. Sequences
  BY PS2ComAssumption DEF Init, Sequences, LastBit
<1>3. Wires /\ DeviceRight /\ InTurn
  BY DEF Init, Wires, DeviceRight, InTurn
<1>4. Sending /\ Receiving
  BY DEF Init, Sending, Receiving, Sends
<1>5. Requests
  BY DEF Init, Requests, sendBusy
<1> QED
  BY <1>1, <1>2, <1>3, <1>4, <1>5 DEF ComInv, ComBase

-----------------------------------------------------------------------------
(* Edges of clk.                                                             *)

(* What every edge does besides the step of the state machine.               *)
Edge ==
  /\ ena' = ~ena
  /\ FilterClock
  /\ NoTrigger \/ \E b \in Bytes : Trigger(b)
  /\ UNCHANGED devVars

LEMMA EdgeIs ==
  ASSUME ComBase, Edge
  PROVE  /\ ena' \in BOOLEAN /\ sendTrigger' \in BOOLEAN /\ sendByte' \in Bytes
         /\ requested' \in Seq(Bytes) /\ devOwes' \in BOOLEAN
         /\ clkReg' = ClkLine /\ clkReg' \in Bit /\ clkFilterCnt' \in 0 .. ClockFilter
         /\ sendTriggerLoc => sendByte' = sendByte
         /\ UNCHANGED <<devClk, devDat, devState, devBit, devByte, devOwes, devShift, accepted, started>>
         /\ DeviceRight'
<1>1. UNCHANGED <<devClk, devDat, devState, devBit, devByte, devOwes, devShift, accepted, started>>
  BY DEF Edge, devVars
<1>2. ena' \in BOOLEAN
  BY Zenon DEF Edge
<1>3. sendTrigger' \in BOOLEAN /\ sendByte' \in Bytes /\ requested' \in Seq(Bytes)
  <2>1. CASE NoTrigger
    <3>1. sendTrigger' \in BOOLEAN
      BY <2>1, Zenon DEF NoTrigger
    <3> QED
      BY <2>1, <3>1 DEF NoTrigger, ComBase, Types, Sequences
  <2>2. ASSUME NEW b \in Bytes, Trigger(b)
        PROVE  sendTrigger' \in BOOLEAN /\ sendByte' \in Bytes /\ requested' \in Seq(Bytes)
    <3>1. sendTrigger' \in BOOLEAN
      BY <2>2, Zenon DEF Trigger
    <3> QED
      BY <2>2, <3>1 DEF Trigger, ComBase, Sequences
  <2> QED
    BY <2>1, <2>2 DEF Edge
<1>4. sendTriggerLoc => sendByte' = sendByte
  BY DEF Edge, NoTrigger, Trigger, sendBusy
<1>5. clkReg' = ClkLine /\ clkReg' \in Bit
  BY DEF Edge, FilterClock, ClkLine, Bit
<1>6. clkFilterCnt' \in 0 .. ClockFilter
  BY PS2ComAssumption DEF Edge, FilterClock, ComBase, Types
<1>7. DeviceRight'
  BY <1>1 DEF ComBase, DeviceRight, FrameBit
<1>8. devOwes' \in BOOLEAN
  BY <1>1, Zenon DEF ComBase, Types
<1> QED
  BY <1>1, <1>2, <1>3, <1>4, <1>5, <1>6, <1>7, <1>8

LEMMA DisabledKeeps ==
  ASSUME ComBase, Edge, Disabled
  PROVE  ComBase'
<1>1. /\ sendTriggerLoc' \in BOOLEAN /\ recvTrigger' \in BOOLEAN /\ sendDone' \in BOOLEAN
  BY Zenon DEF ComBase, Types, Disabled, NoPulse, KeepSend, KeepRecv
<1>2. /\ UNCHANGED <<bitCount, currentBit, parity>>
      /\ UNCHANGED <<recvByteLoc, recvByte, delivered>>
      /\ UNCHANGED <<comState, sendTriggerLoc, ps2_clk_out, ps2_dat_out>>
  BY DEF Disabled, NoPulse, KeepSend, KeepRecv
<1>3. Types'
  <2>1. /\ ps2_clk_out' \in Bit /\ ps2_dat_out' \in Bit /\ currentBit' \in Bit /\ parity' \in Bit
        /\ bitCount' \in 0 .. LastBit /\ comState' \in ComStates
    BY <1>2, PS2ComAssumption DEF ComBase, Types, ComStates, Bit, LastBit
  <2>2. devState' \in {"idle", "tx", "rx"} /\ devByte' \in Bytes /\ devBit' \in 0 .. LastBit
        /\ devClk' \in Bit /\ devDat' \in Bit
    BY EdgeIs DEF ComBase, Types
  <2> QED
    BY <1>1, <2>1, <2>2, EdgeIs DEF Types
<1>4. Sequences'
  BY <1>2, EdgeIs DEF ComBase, Sequences
<1>5. Wires'
  BY <1>2, EdgeIs DEF ComBase, Types, Wires, ClkLine, Bit
<1>6. InTurn'
  BY <1>2, EdgeIs, PS2ComAssumption DEF ComBase, Types, Wires, DeviceRight, InTurn, Bit, LastBit
<1>7. Sending'
  BY <1>2, EdgeIs DEF ComBase, Types, InTurn, Sending, Sends, ComStates
<1>8. Receiving'
  BY <1>2, EdgeIs DEF ComBase, Types, Sequences, Wires, DeviceRight, InTurn, Receiving, ComStates, Bit
<1> QED
  BY <1>3, <1>4, <1>5, <1>6, <1>7, <1>8, EdgeIs DEF ComBase

LEMMA IdleKeeps ==
  ASSUME ComBase, Edge, Idle
  PROVE  ComBase'
<1>1. /\ sendTriggerLoc' \in BOOLEAN /\ recvTrigger' \in BOOLEAN /\ sendDone' \in BOOLEAN
  BY Zenon DEF ComBase, Types, Idle, Release, NoPulse, LatchTrigger, KeepRecv, ClockIs
<1>2. /\ comState = "Idle" /\ ps2_clk_out' = 1 /\ ps2_dat_out' = 1
      /\ bitCount' = 0 /\ parity' = 1 /\ currentBit' = currentBit
      /\ UNCHANGED <<recvByteLoc, recvByte, delivered>>
      /\ comState' \in {"RecvBit", "Wait100", "Idle"}
      /\ comState' = "RecvBit" => clkReg = 0
      /\ comState' = "Wait100" => sendTriggerLoc'

  BY DEF Idle, Release, NoPulse, LatchTrigger, KeepRecv, ClockIs
<1>3. Types'
  <2>1. /\ ps2_clk_out' \in Bit /\ ps2_dat_out' \in Bit /\ currentBit' \in Bit /\ parity' \in Bit
        /\ bitCount' \in 0 .. LastBit /\ comState' \in ComStates
    BY <1>2, PS2ComAssumption DEF ComBase, Types, ComStates, Bit, LastBit
  <2>2. devState' \in {"idle", "tx", "rx"} /\ devByte' \in Bytes /\ devBit' \in 0 .. LastBit
        /\ devClk' \in Bit /\ devDat' \in Bit
    BY EdgeIs DEF ComBase, Types
  <2> QED
    BY <1>1, <2>1, <2>2, EdgeIs DEF Types
<1>4. Sequences'
  BY <1>2, EdgeIs DEF ComBase, Sequences
<1>5. Wires'
  BY <1>2, EdgeIs DEF ComBase, Types, Wires, ClkLine, Bit
<1>6. InTurn'
  BY <1>2, EdgeIs, PS2ComAssumption DEF ComBase, Types, Wires, DeviceRight, InTurn, Bit, LastBit
<1>7. Sending'
  BY <1>2, EdgeIs DEF ComBase, Types, InTurn, Sending, Sends, ComStates
<1>8. Receiving'
  BY <1>2, EdgeIs, SMTT(30) DEF ComBase, Types, Sequences, Wires, DeviceRight, InTurn, Receiving, ComStates, Bit
<1> QED
  BY <1>3, <1>4, <1>5, <1>6, <1>7, <1>8, EdgeIs DEF ComBase

LEMMA Wait100Keeps ==
  ASSUME ComBase, Edge, NEW timeUp \in BOOLEAN, Wait100(timeUp)
  PROVE  ComBase'
<1>1. /\ sendTriggerLoc' \in BOOLEAN /\ recvTrigger' \in BOOLEAN /\ sendDone' \in BOOLEAN
  BY Zenon DEF ComBase, Types, Wait100, NoPulse, LatchTrigger, KeepSend, KeepRecv
<1>2. /\ comState = "Wait100" /\ ps2_clk_out' = 0 /\ ps2_dat_out' = 1
      /\ UNCHANGED <<bitCount, currentBit, parity>> /\ (sendTriggerLoc => sendTriggerLoc')
      /\ UNCHANGED <<recvByteLoc, recvByte, delivered>>
      /\ comState' \in {"Wait100", "ClockAndDataLow"}
      /\ comState' = "ClockAndDataLow" => devState # "tx"
  BY DEF Wait100, NoPulse, LatchTrigger, KeepSend, KeepRecv
<1>3. Types'
  <2>1. /\ ps2_clk_out' \in Bit /\ ps2_dat_out' \in Bit /\ currentBit' \in Bit /\ parity' \in Bit
        /\ bitCount' \in 0 .. LastBit /\ comState' \in ComStates
    BY <1>2, PS2ComAssumption DEF ComBase, Types, ComStates, Bit, LastBit
  <2>2. devState' \in {"idle", "tx", "rx"} /\ devByte' \in Bytes /\ devBit' \in 0 .. LastBit
        /\ devClk' \in Bit /\ devDat' \in Bit
    BY EdgeIs DEF ComBase, Types
  <2> QED
    BY <1>1, <2>1, <2>2, EdgeIs DEF Types
<1>4. Sequences'
  BY <1>2, EdgeIs DEF ComBase, Sequences
<1>5. Wires'
  BY <1>2, EdgeIs DEF ComBase, Types, Wires, ClkLine, Bit
<1>6. InTurn'
  BY <1>2, EdgeIs, PS2ComAssumption DEF ComBase, Types, Wires, DeviceRight, InTurn, Bit, LastBit
<1>7. Sending'
  BY <1>2, EdgeIs DEF ComBase, Types, InTurn, Sending, Sends, ComStates
<1>8. Receiving'
  BY <1>2, EdgeIs DEF ComBase, Types, Sequences, Wires, DeviceRight, InTurn, Receiving, ComStates, Bit
<1> QED
  BY <1>3, <1>4, <1>5, <1>6, <1>7, <1>8, EdgeIs DEF ComBase

LEMMA ClockAndDataLowKeeps ==
  ASSUME ComBase, Edge, NEW timeUp \in BOOLEAN, ClockAndDataLow(timeUp)
  PROVE  ComBase'
<1>1. /\ sendTriggerLoc' \in BOOLEAN /\ recvTrigger' \in BOOLEAN /\ sendDone' \in BOOLEAN
  BY Zenon DEF ComBase, Types, ClockAndDataLow, NoPulse, LatchTrigger, KeepRecv
<1>2. /\ comState = "ClockAndDataLow" /\ ps2_clk_out' = 0 /\ ps2_dat_out' = 0
      /\ UNCHANGED <<bitCount, parity>> /\ (sendTriggerLoc => sendTriggerLoc')
      /\ UNCHANGED <<recvByteLoc, recvByte, delivered>>
      /\ comState' \in {"ClockAndDataLow", "WaitClockHigh"}
      /\ currentBit' = currentBit \/ currentBit' = 0
      /\ comState' = "WaitClockHigh" => currentBit' = 0
  BY DEF ClockAndDataLow, NoPulse, LatchTrigger, KeepRecv
<1>3. Types'
  <2>1. /\ ps2_clk_out' \in Bit /\ ps2_dat_out' \in Bit /\ currentBit' \in Bit /\ parity' \in Bit
        /\ bitCount' \in 0 .. LastBit /\ comState' \in ComStates
    BY <1>2, PS2ComAssumption DEF ComBase, Types, ComStates, Bit, LastBit
  <2>2. devState' \in {"idle", "tx", "rx"} /\ devByte' \in Bytes /\ devBit' \in 0 .. LastBit
        /\ devClk' \in Bit /\ devDat' \in Bit
    BY EdgeIs DEF ComBase, Types
  <2> QED
    BY <1>1, <2>1, <2>2, EdgeIs DEF Types
<1>4. Sequences'
  BY <1>2, EdgeIs DEF ComBase, Sequences
<1>5. Wires'
  BY <1>2, EdgeIs DEF ComBase, Types, Wires, ClkLine, Bit
<1>6. InTurn'
  <2>1. bitCount = 0
    BY <1>2 DEF ComBase, Sending
  <2> QED
    BY <1>2, <2>1, EdgeIs, PS2ComAssumption DEF ComBase, Types, Wires, DeviceRight, InTurn, Bit, LastBit
<1>7. Sending'
  <2>1. /\ FrameBit(sendByte, 1) = 0 /\ Parities(sendByte)[0] = 1
        /\ DataBits \in Nat \ {0} /\ sendByte' = sendByte
    <3>1. sendByte' = sendByte
      BY <1>2, EdgeIs DEF ComBase, Sending, Sends
    <3> QED
      BY <3>1, ParitiesAre, PS2ComAssumption DEF FrameBit, ComBase, Types
  <2> QED
    BY <1>2, <2>1, EdgeIs DEF ComBase, Types, InTurn, Sending, Sends, ComStates
<1>8. Receiving'
  BY <1>2, EdgeIs DEF ComBase, Types, Sequences, Wires, DeviceRight, InTurn, Receiving, ComStates, Bit
<1> QED
  BY <1>3, <1>4, <1>5, <1>6, <1>7, <1>8, EdgeIs DEF ComBase

LEMMA WaitClockHighKeeps ==
  ASSUME ComBase, Edge, WaitClockHigh
  PROVE  ComBase'
<1>1. /\ sendTriggerLoc' \in BOOLEAN /\ recvTrigger' \in BOOLEAN /\ sendDone' \in BOOLEAN
  BY Zenon DEF ComBase, Types, WaitClockHigh, NoPulse, LatchTrigger, KeepSend, KeepRecv, ClockIs
<1>2. /\ comState = "WaitClockHigh" /\ ps2_clk_out' = 1 /\ ps2_dat_out' = currentBit
      /\ UNCHANGED <<bitCount, currentBit, parity>> /\ (sendTriggerLoc => sendTriggerLoc')
      /\ UNCHANGED <<recvByteLoc, recvByte, delivered>>
      /\ comState' \in {"WaitClockHigh", "WaitClockLow"}
      /\ comState' = "WaitClockLow" => clkReg = 1
  BY DEF WaitClockHigh, NoPulse, LatchTrigger, KeepSend, KeepRecv, ClockIs
<1>3. Types'
  <2>1. /\ ps2_clk_out' \in Bit /\ ps2_dat_out' \in Bit /\ currentBit' \in Bit /\ parity' \in Bit
        /\ bitCount' \in 0 .. LastBit /\ comState' \in ComStates
    BY <1>2, PS2ComAssumption DEF ComBase, Types, ComStates, Bit, LastBit
  <2>2. devState' \in {"idle", "tx", "rx"} /\ devByte' \in Bytes /\ devBit' \in 0 .. LastBit
        /\ devClk' \in Bit /\ devDat' \in Bit
    BY EdgeIs DEF ComBase, Types
  <2> QED
    BY <1>1, <2>1, <2>2, EdgeIs DEF Types
<1>4. Sequences'
  BY <1>2, EdgeIs DEF ComBase, Sequences
<1>5. Wires'
  BY <1>2, EdgeIs DEF ComBase, Types, Wires, ClkLine, Bit
<1>6. InTurn'
  BY <1>2, EdgeIs, PS2ComAssumption DEF ComBase, Types, Wires, DeviceRight, InTurn, Bit, LastBit
<1>7. Sending'
  <2>1. comState' = "WaitClockLow" => devClk = 1
    BY <1>2 DEF ComBase, Wires
  <2>2. sendTriggerLoc /\ sendTriggerLoc' /\ sendByte' = sendByte
    BY <1>2, EdgeIs DEF ComBase, Sending, Sends
  <2>3. devState = "rx" => devShift = FrameBits(sendByte, bitCount + devClk)
    BY <1>2 DEF ComBase, Sending
  <2>4. /\ bitCount <= DataBits + 2
        /\ currentBit = FrameBit(sendByte, bitCount + 1)
        /\ parity = Parities(sendByte)[IF bitCount < DataBits THEN bitCount ELSE DataBits]
    BY <1>2 DEF ComBase, Sending
  <2> QED
    BY <1>2, <2>1, <2>2, <2>3, <2>4, EdgeIs DEF Sending, Sends
<1>8. Receiving'
  BY <1>2, EdgeIs DEF ComBase, Types, Sequences, Wires, DeviceRight, InTurn, Receiving, ComStates, Bit
<1> QED
  BY <1>3, <1>4, <1>5, <1>6, <1>7, <1>8, EdgeIs DEF ComBase

LEMMA WaitAckKeeps ==
  ASSUME ComBase, Edge, WaitAck
  PROVE  ComBase'
<1>1. /\ sendTriggerLoc' \in BOOLEAN /\ recvTrigger' \in BOOLEAN /\ sendDone' \in BOOLEAN
  BY Zenon DEF ComBase, Types, WaitAck, Release, KeepSend, KeepRecv, ClockIs
<1>2. /\ comState = "WaitAck" /\ ps2_clk_out' = 1 /\ ps2_dat_out' = 1
      /\ UNCHANGED <<bitCount, currentBit, parity>>
      /\ UNCHANGED <<recvByteLoc, recvByte, delivered>>
      /\ comState' \in {"WaitAck", "Idle"}
      /\ comState' = "Idle" => clkReg = 1
      /\ comState' = "WaitAck" /\ sendTriggerLoc => sendTriggerLoc'
  BY DEF WaitAck, Release, KeepSend, KeepRecv, ClockIs
<1>3. Types'
  <2>1. /\ ps2_clk_out' \in Bit /\ ps2_dat_out' \in Bit /\ currentBit' \in Bit /\ parity' \in Bit
        /\ bitCount' \in 0 .. LastBit /\ comState' \in ComStates
    BY <1>2, PS2ComAssumption DEF ComBase, Types, ComStates, Bit, LastBit
  <2>2. devState' \in {"idle", "tx", "rx"} /\ devByte' \in Bytes /\ devBit' \in 0 .. LastBit
        /\ devClk' \in Bit /\ devDat' \in Bit
    BY EdgeIs DEF ComBase, Types
  <2> QED
    BY <1>1, <2>1, <2>2, EdgeIs DEF Types
<1>4. Sequences'
  BY <1>2, EdgeIs DEF ComBase, Sequences
<1>5. Wires'
  BY <1>2, EdgeIs DEF ComBase, Types, Wires, ClkLine, Bit
<1>6. InTurn'
  BY <1>2, EdgeIs, PS2ComAssumption DEF ComBase, Types, Wires, DeviceRight, InTurn, Bit, LastBit
<1>7. Sending'
  BY <1>2, EdgeIs DEF ComBase, Types, InTurn, Sending, Sends, ComStates
<1>8. Receiving'
  BY <1>2, EdgeIs DEF ComBase, Types, Sequences, Wires, DeviceRight, InTurn, Receiving, ComStates, Bit
<1> QED
  BY <1>3, <1>4, <1>5, <1>6, <1>7, <1>8, EdgeIs DEF ComBase

LEMMA WaitClockLowKeeps ==
  ASSUME ComBase, Edge, WaitClockLow
  PROVE  ComBase'
<1>1. /\ sendTriggerLoc' \in BOOLEAN /\ recvTrigger' \in BOOLEAN /\ sendDone' \in BOOLEAN
  BY Zenon DEF ComBase, Types, WaitClockLow, NoPulse, LatchTrigger, KeepSend, KeepRecv, ClockIs
<1>2. /\ comState = "WaitClockLow" /\ ps2_clk_out' = 1 /\ ps2_dat_out' = currentBit
      /\ (sendTriggerLoc => sendTriggerLoc')
      /\ UNCHANGED <<recvByteLoc, recvByte, delivered>>
      /\ comState' \in {"WaitClockLow", "WaitAck", "WaitClockHigh"}
      /\ comState' # "WaitClockLow" => clkReg = 0
      /\ comState' = "WaitAck" => bitCount = DataBits + 2
      /\ comState' # "WaitClockHigh" => UNCHANGED <<bitCount, currentBit, parity>>
      /\ comState' = "WaitClockHigh" =>
           /\ bitCount < DataBits + 2 /\ bitCount' = bitCount + 1
           /\ currentBit' = IF bitCount = DataBits + 1 THEN 1
                            ELSE IF bitCount = DataBits THEN parity
                            ELSE sendByte[bitCount + 1]
           /\ parity' = IF bitCount < DataBits
                        THEN (parity + sendByte[bitCount + 1]) % 2 ELSE parity
  BY DEF WaitClockLow, NoPulse, LatchTrigger, KeepSend, KeepRecv, ClockIs
<1>3. Types'
  <2>1. /\ ps2_clk_out' \in Bit /\ ps2_dat_out' \in Bit /\ currentBit' \in Bit /\ parity' \in Bit
        /\ bitCount' \in 0 .. LastBit /\ comState' \in ComStates
    <3>1. /\ sendByte \in Bytes /\ bitCount \in Nat /\ DataBits \in Nat \ {0} /\ bitCount <= DataBits + 2
          /\ parity \in Bit /\ currentBit \in Bit /\ sendByte \in [1 .. DataBits -> Bit]
      BY <1>2, PS2ComAssumption DEF ComBase, Types, Sending
    <3>2. bitCount < DataBits => sendByte[bitCount + 1] \in Bit
      BY <3>1
    <3>3. \A x, y \in Bit : (x + y) % 2 \in Bit
      BY DEF Bit
    <3>4. parity' \in Bit
      BY <1>2, <3>1, <3>2, <3>3
    <3>5. currentBit' \in Bit
      BY <1>2, <3>1, <3>2 DEF Bit
    <3>6. bitCount' \in 0 .. LastBit /\ comState' \in ComStates /\ ps2_clk_out' \in Bit /\ ps2_dat_out' \in Bit
      BY <1>2, <3>1 DEF LastBit, ComStates, Bit
    <3> QED
      BY <3>4, <3>5, <3>6
  <2>2. devState' \in {"idle", "tx", "rx"} /\ devByte' \in Bytes /\ devBit' \in 0 .. LastBit
        /\ devClk' \in Bit /\ devDat' \in Bit
    BY EdgeIs DEF ComBase, Types
  <2> QED
    BY <1>1, <2>1, <2>2, EdgeIs DEF Types
<1>4. Sequences'
  BY <1>2, EdgeIs DEF ComBase, Sequences
<1>5. Wires'
  <2>1. comState' = "WaitAck" => currentBit = 1
    <3>1. comState' = "WaitAck" => currentBit = FrameBit(sendByte, (DataBits + 2) + 1)
      BY <1>2 DEF ComBase, Sending
    <3>2. FrameBit(sendByte, (DataBits + 2) + 1) = 1
      BY PS2ComAssumption DEF FrameBit
    <3> QED
      BY <3>1, <3>2
  <2> QED
    BY <1>2, <2>1, EdgeIs DEF ComBase, Types, Wires, ClkLine, Bit
<1>6. InTurn'
  <2>1. bitCount <= DataBits + 2 /\ bitCount \in Nat /\ DataBits \in Nat
    BY <1>2, PS2ComAssumption DEF ComBase, Types, Sending
  <2> QED
    BY <1>2, <2>1, EdgeIs DEF ComBase, Types, Wires, DeviceRight, InTurn, Bit, LastBit
<1>7. Sending'
  <2>1. sendTriggerLoc /\ sendTriggerLoc' /\ sendByte' = sendByte /\ sendByte \in Bytes
    BY <1>2, EdgeIs DEF ComBase, Types, Sending, Sends
  <2>2. /\ bitCount <= DataBits + 2
        /\ currentBit = FrameBit(sendByte, bitCount + 1)
        /\ parity = Parities(sendByte)[IF bitCount < DataBits THEN bitCount ELSE DataBits]
        /\ devState = "rx" => devShift = FrameBits(sendByte, bitCount + 1)
    BY <1>2 DEF ComBase, Sending
  <2>3. /\ Parities(sendByte) \in [0 .. DataBits -> Bit]
        /\ \A i \in 1 .. DataBits : Parities(sendByte)[i] = (Parities(sendByte)[i - 1] + sendByte[i]) % 2
        /\ ParityOf(sendByte) = Parities(sendByte)[DataBits]
    BY <2>1, ParitiesAre
  <2>4. DataBits \in Nat \ {0} /\ bitCount \in Nat
    BY PS2ComAssumption DEF ComBase, Types
  <2>5. CASE comState' = "WaitClockLow"
    BY <1>2, <2>1, <2>2, <2>5, EdgeIs DEF Sending, Sends
  <2>6. CASE comState' = "WaitAck"
    <3>1. bitCount + 1 = LastBit
      BY <1>2, <2>4, <2>6 DEF LastBit
    <3> QED
      BY <1>2, <2>1, <2>2, <2>6, <3>1, EdgeIs DEF Sending, Sends
  <2>7. CASE comState' = "WaitClockHigh"
    <3>1. bitCount' = bitCount + 1 /\ bitCount' <= DataBits + 2 /\ devClk = 0
      BY <1>2, <2>4, <2>7 DEF ComBase, Wires
    <3>2. currentBit' = FrameBit(sendByte, bitCount' + 1)
      <4>1. CASE bitCount < DataBits
        <5>1. currentBit' = sendByte[bitCount + 1]
          BY <1>2, <2>4, <2>7, <4>1
        <5>2. FrameBit(sendByte, bitCount' + 1) = sendByte[(bitCount' + 1) - 1]
          BY <2>4, <3>1, <4>1 DEF FrameBit
        <5>3. (bitCount' + 1) - 1 = bitCount + 1
          BY <2>4, <3>1
        <5> QED
          BY <5>1, <5>2, <5>3
      <4>2. CASE bitCount = DataBits
        <5>1. currentBit' = parity /\ parity = ParityOf(sendByte)
          BY <1>2, <2>2, <2>3, <2>4, <2>7, <4>2
        <5>2. FrameBit(sendByte, bitCount' + 1) = ParityOf(sendByte)
          BY <2>4, <3>1, <4>2 DEF FrameBit
        <5> QED
          BY <5>1, <5>2
      <4>3. CASE bitCount = DataBits + 1
        <5>1. currentBit' = 1
          BY <1>2, <2>4, <2>7, <4>3
        <5>2. FrameBit(sendByte, bitCount' + 1) = 1
          BY <2>4, <3>1, <4>3 DEF FrameBit
        <5> QED
          BY <5>1, <5>2
      <4> QED
        BY <2>2, <2>4, <3>1, <4>1, <4>2, <4>3
    <3>3. parity' = Parities(sendByte)[IF bitCount' < DataBits THEN bitCount' ELSE DataBits]
      <4>1. CASE bitCount < DataBits
        <5>1. parity' = (Parities(sendByte)[bitCount] + sendByte[bitCount + 1]) % 2
          BY <1>2, <2>2, <2>4, <2>7, <4>1
        <5>2. bitCount + 1 \in 1 .. DataBits /\ (bitCount + 1) - 1 = bitCount
          BY <2>4, <4>1
        <5>3. parity' = Parities(sendByte)[bitCount + 1]
          BY <2>3, <5>1, <5>2
        <5>4. (IF bitCount' < DataBits THEN bitCount' ELSE DataBits) = bitCount + 1
          BY <2>4, <3>1, <4>1
        <5> QED
          BY <5>3, <5>4
      <4>2. CASE ~(bitCount < DataBits)
        <5>1. parity' = Parities(sendByte)[DataBits]
          BY <1>2, <2>2, <2>4, <2>7, <4>2
        <5>2. ~(bitCount' < DataBits)
          BY <2>4, <3>1, <4>2
        <5> QED
          BY <5>1, <5>2
      <4> QED
        BY <4>1, <4>2
    <3>4. devState = "rx" => devShift = FrameBits(sendByte, bitCount' + devClk')
      <4>1. bitCount' + devClk' = bitCount + 1
        BY <2>4, <3>1, EdgeIs
      <4> QED
        BY <2>2, <4>1
    <3> QED
      BY <1>2, <2>1, <2>7, <3>1, <3>2, <3>3, <3>4, EdgeIs DEF Sending, Sends
  <2> QED
    BY <1>2, <2>5, <2>6, <2>7
<1>8. Receiving'
  BY <1>2, EdgeIs DEF ComBase, Types, Sequences, Wires, DeviceRight, InTurn, Receiving, ComStates, Bit
<1> QED
  BY <1>3, <1>4, <1>5, <1>6, <1>7, <1>8, EdgeIs DEF ComBase

(* The last n entries of the shift register are the first n bits of a frame. *)
Holds(s, n, b) ==
  /\ s \in Seq(Bit) /\ Len(s) <= LastBit /\ n <= Len(s)
  /\ \A j \in 1 .. n : s[(Len(s) - n) + j] = FrameBit(b, j)

LEMMA AppendHolds ==
  ASSUME NEW b, NEW n \in Nat, NEW r, Holds(r, n, b), Len(r) < LastBit,
         FrameBit(b, n + 1) \in Bit
  PROVE  Holds(Append(r, FrameBit(b, n + 1)), n + 1, b)
<1> DEFINE x == FrameBit(b, n + 1)
           t == Append(r, x)
<1>1. LastBit \in Nat /\ r \in Seq(Bit) /\ Len(r) \in Nat /\ n <= Len(r) /\ x \in Bit
  BY PS2ComAssumption DEF LastBit, Holds
<1>2. t \in Seq(Bit) /\ Len(t) = Len(r) + 1
  <2> HIDE DEF x
  <2> QED
    BY <1>1, AppendProperties
<1>3. \A i \in 1 .. Len(r) : t[i] = r[i]
  <2> HIDE DEF x
  <2> QED
    BY <1>1, AppendProperties
<1>4. t[Len(r) + 1] = x
  <2> HIDE DEF x
  <2> QED
    BY <1>1, AppendProperties
<1> HIDE DEF t
<1>5. ASSUME NEW j \in 1 .. (n + 1)
      PROVE  t[(Len(t) - (n + 1)) + j] = FrameBit(b, j)
  <2>1. (Len(t) - (n + 1)) + j = (Len(r) - n) + j
    BY <1>1, <1>2
  <2>2. CASE j = n + 1
    <3>1. (Len(r) - n) + j = Len(r) + 1
      BY <1>1, <2>2
    <3> QED
      BY <1>4, <2>1, <2>2, <3>1
  <2>3. CASE j # n + 1
    <3>1. j \in 1 .. n /\ (Len(r) - n) + j \in 1 .. Len(r)
      BY <1>1, <2>3
    <3>2. r[(Len(r) - n) + j] = FrameBit(b, j)
      BY <3>1 DEF Holds
    <3> QED
      BY <1>3, <2>1, <3>1, <3>2
  <2> QED
    BY <2>2, <2>3
<1>6. Len(t) <= LastBit /\ n + 1 <= Len(t)
  BY <1>1, <1>2
<1> QED
  BY <1>2, <1>5, <1>6 DEF Holds, t

LEMMA TailHolds ==
  ASSUME NEW b, NEW n \in Nat, n < LastBit, NEW s, Holds(s, n, b), Len(s) = LastBit
  PROVE  Holds(Tail(s), n, b) /\ Len(Tail(s)) < LastBit
<1> DEFINE t == Tail(s)
<1>1. LastBit \in Nat \ {0} /\ s \in Seq(Bit) /\ Len(s) \in Nat /\ n <= Len(s)
  BY PS2ComAssumption DEF LastBit, Holds
<1>2. t \in Seq(Bit) /\ Len(t) = Len(s) - 1 /\ \A i \in 1 .. Len(t) : t[i] = s[i + 1]
  <2>1. s # <<>>
    BY <1>1
  <2> QED
    BY <1>1, <2>1, HeadTailProperties
<1> HIDE DEF t
<1>3. ASSUME NEW j \in 1 .. n
      PROVE  t[(Len(t) - n) + j] = FrameBit(b, j)
  <2>1. (Len(t) - n) + j \in 1 .. Len(t) /\ ((Len(t) - n) + j) + 1 = (Len(s) - n) + j
    BY <1>1, <1>2
  <2> QED
    BY <1>2, <2>1 DEF Holds
<1>4. Len(t) <= LastBit /\ n <= Len(t) /\ Len(t) < LastBit
  BY <1>1, <1>2
<1> QED
  BY <1>2, <1>3, <1>4 DEF Holds, t

LEMMA RecvBitKeeps ==
  ASSUME ComBase, Edge, RecvBit
  PROVE  ComBase'
<1>1. /\ sendTriggerLoc' \in BOOLEAN /\ recvTrigger' \in BOOLEAN /\ sendDone' \in BOOLEAN
  BY Zenon DEF ComBase, Types, RecvBit, Release, NoPulse, LatchTrigger, ClockIs
<1>2. /\ comState = "RecvBit" /\ ps2_clk_out' = 1 /\ ps2_dat_out' = 1
      /\ UNCHANGED <<currentBit, parity, recvByte, delivered>>
      /\ comState' \in {"RecvBit", "WaitHighRecv"}
      /\ comState' = "RecvBit" => UNCHANGED <<recvByteLoc, bitCount>>
      /\ comState' = "WaitHighRecv" =>
           /\ clkReg = 0 /\ bitCount' = bitCount + 1
           /\ recvByteLoc' = Append(IF Len(recvByteLoc) = LastBit
                                    THEN Tail(recvByteLoc) ELSE recvByteLoc, DatLine)
  BY DEF RecvBit, Release, NoPulse, LatchTrigger, ClockIs
<1>9. ASSUME comState' = "WaitHighRecv"
      PROVE  /\ devClk = 0 /\ devState = "tx" /\ devBit = bitCount + 1
             /\ bitCount \in Nat /\ bitCount < LastBit
             /\ recvByteLoc' \in Seq(Bit) /\ Len(recvByteLoc') <= LastBit
             /\ bitCount + 1 <= Len(recvByteLoc')
             /\ \A j \in 1 .. (bitCount + 1) :
                  recvByteLoc'[(Len(recvByteLoc') - (bitCount + 1)) + j] = FrameBit(devByte, j)
  <2>1. devClk = 0 /\ devState = "tx" /\ devBit = bitCount + 1
    <3>1. devClk = 0
      BY <1>2, <1>9 DEF ComBase, Wires
    <3> QED
      BY <1>2, <3>1 DEF ComBase, Types, InTurn
  <2>2. bitCount \in Nat /\ bitCount < LastBit /\ LastBit \in Nat
    BY <2>1, PS2ComAssumption DEF ComBase, Types, LastBit
  <2>3. DatLine = devDat /\ devDat = FrameBit(devByte, bitCount + 1) /\ devDat \in Bit
    <3>1. devDat \in Bit /\ ps2_dat_out = 1 /\ devDat = FrameBit(devByte, devBit)
      BY <1>2, <2>1 DEF ComBase, Types, Wires, DeviceRight
    <3> QED
      BY <2>1, <3>1 DEF DatLine, Bit
  <2>4. Holds(recvByteLoc, bitCount, devByte)
    BY <1>2 DEF ComBase, Sequences, Receiving, Holds
  <2>5. PICK r, n, b : r = recvByteLoc /\ n = bitCount /\ b = devByte
    OBVIOUS
  <2>6. PICK q : q = IF Len(r) = LastBit THEN Tail(r) ELSE r
    OBVIOUS
  <2>7. n \in Nat /\ n < LastBit /\ Holds(r, n, b) /\ FrameBit(b, n + 1) \in Bit
    BY <2>2, <2>3, <2>4, <2>5
  <2>8. Holds(q, n, b) /\ Len(q) < LastBit
    <3>1. CASE Len(r) = LastBit
      BY <2>6, <2>7, <3>1, TailHolds
    <3>2. CASE Len(r) # LastBit
      <4>1. Len(r) \in Nat /\ Len(r) <= LastBit
        BY <2>7 DEF Holds
      <4> QED
        BY <2>2, <2>6, <2>7, <3>2, <4>1
    <3> QED
      BY <3>1, <3>2
  <2>9. Holds(Append(q, FrameBit(b, n + 1)), n + 1, b)
    BY <2>7, <2>8, AppendHolds
  <2>10. recvByteLoc' = Append(q, FrameBit(b, n + 1))
    <3>1. recvByteLoc' = Append(q, DatLine)
      BY <1>2, <1>9, <2>5, <2>6, Zenon
    <3> QED
      BY <2>3, <2>5, <3>1
  <2>11. Holds(recvByteLoc', bitCount + 1, devByte)
    BY <2>5, <2>9, <2>10
  <2> QED
    BY <2>1, <2>2, <2>11 DEF Holds
<1>3. Types'
  <2>1. /\ ps2_clk_out' \in Bit /\ ps2_dat_out' \in Bit /\ currentBit' \in Bit /\ parity' \in Bit
        /\ bitCount' \in 0 .. LastBit /\ comState' \in ComStates
    BY <1>2, <1>9, PS2ComAssumption DEF ComBase, Types, ComStates, Bit, LastBit
  <2>2. devState' \in {"idle", "tx", "rx"} /\ devByte' \in Bytes /\ devBit' \in 0 .. LastBit
        /\ devClk' \in Bit /\ devDat' \in Bit
    BY EdgeIs DEF ComBase, Types
  <2> QED
    BY <1>1, <2>1, <2>2, EdgeIs DEF Types
<1>4. Sequences'
  BY <1>2, <1>9, EdgeIs DEF ComBase, Sequences
<1>5. Wires'
  BY <1>2, EdgeIs DEF ComBase, Types, Wires, ClkLine, Bit
<1>6. InTurn'
  BY <1>2, <1>9, EdgeIs, PS2ComAssumption DEF ComBase, Types, Wires, DeviceRight, InTurn, Bit
<1>7. Sending'
  BY <1>2, EdgeIs DEF ComBase, Types, InTurn, Sending, Sends, ComStates
<1>8. Receiving'
  <2>1. CASE comState' = "RecvBit"
    BY <1>2, <2>1, EdgeIs DEF ComBase, Receiving
  <2>2. CASE comState' = "WaitHighRecv"
    BY <1>2, <1>9, <2>2, EdgeIs DEF ComBase, Receiving
  <2> QED
    BY <1>2, <2>1, <2>2
<1> QED
  BY <1>3, <1>4, <1>5, <1>6, <1>7, <1>8, EdgeIs DEF ComBase

LEMMA WaitHighRecvKeeps ==
  ASSUME ComBase, Edge, WaitHighRecv
  PROVE  ComBase'
<1>1. /\ sendTriggerLoc' \in BOOLEAN /\ recvTrigger' \in BOOLEAN /\ sendDone' \in BOOLEAN
  BY Zenon DEF ComBase, Types, WaitHighRecv, Release, LatchTrigger, KeepSend, ClockIs
<1>2. /\ comState = "WaitHighRecv" /\ ps2_clk_out' = 1 /\ ps2_dat_out' = 1
      /\ UNCHANGED <<bitCount, currentBit, parity, recvByteLoc>>
      /\ comState' \in {"WaitHighRecv", "RecvBit", "Idle"}
      /\ comState' # "WaitHighRecv" => clkReg = 1
      /\ comState' = "RecvBit" => bitCount # LastBit
      /\ comState' # "Idle" => UNCHANGED <<recvByte, delivered>>
      /\ comState' = "Idle" =>
           /\ bitCount = LastBit /\ recvByte' = recvByteLoc
           /\ delivered' = Append(delivered, recvByteLoc)
  BY DEF WaitHighRecv, Release, LatchTrigger, KeepSend, ClockIs
<1>9. ASSUME comState' = "Idle"
      PROVE  /\ devClk = 1 /\ devState = "idle" /\ bitCount = LastBit
             /\ started # <<>> /\ Len(started) = Len(delivered) + 1 /\ ~devOwes
             /\ started[Len(started)] = devByte
             /\ recvByteLoc = FrameBits(devByte, LastBit)
  <2>1. devClk = 1 /\ devState = "idle" /\ bitCount = LastBit
    <3>1. devClk = 1 /\ bitCount = LastBit
      BY <1>2, <1>9 DEF ComBase, Wires
    <3> QED
      BY <1>2, <3>1 DEF ComBase, InTurn
  <2>2. /\ Len(delivered) < Len(started) /\ Len(started) \in {Len(delivered), Len(delivered) + 1}
        /\ started[Len(started)] = devByte
    BY <1>2 DEF ComBase, Receiving
  <2>3. Len(started) \in Nat /\ Len(delivered) \in Nat /\ started \in Seq(Bytes)
    BY DEF ComBase, Sequences
  <2>4. started # <<>> /\ Len(started) = Len(delivered) + 1
    BY <2>2, <2>3
  <2>5. recvByteLoc = FrameBits(devByte, LastBit)
    <3> DEFINE f == FrameBits(devByte, LastBit)
    <3>1. LastBit \in Nat /\ devByte \in Bytes
      BY PS2ComAssumption DEF LastBit, ComBase, Types
    <3>2. f \in Seq(Bit) /\ Len(f) = LastBit
      BY <3>1, FrameBitsAre
    <3>3. recvByteLoc \in Seq(Bit) /\ Len(recvByteLoc) = LastBit
      BY <1>2, <2>1, <3>1 DEF ComBase, Sequences, Receiving
    <3>4. ASSUME NEW j \in 1 .. LastBit
          PROVE  recvByteLoc[j] = f[j]
      <4>1. recvByteLoc[(Len(recvByteLoc) - bitCount) + j] = FrameBit(devByte, j)
        BY <1>2, <2>1 DEF ComBase, Receiving
      <4>2. (Len(recvByteLoc) - bitCount) + j = j
        BY <2>1, <3>1, <3>3
      <4> QED
        BY <4>1, <4>2 DEF FrameBits
    <3> HIDE DEF f
    <3>5. recvByteLoc = f
      BY <3>2, <3>3, <3>4, SeqEqual
    <3> QED
      BY <3>5 DEF f
  <2>6. ~devOwes
    BY <1>2, <2>1 DEF ComBase, Receiving
  <2> QED
    BY <2>1, <2>2, <2>4, <2>5, <2>6
<1>3. Types'
  <2>1. /\ ps2_clk_out' \in Bit /\ ps2_dat_out' \in Bit /\ currentBit' \in Bit /\ parity' \in Bit
        /\ bitCount' \in 0 .. LastBit /\ comState' \in ComStates
    BY <1>2, PS2ComAssumption DEF ComBase, Types, ComStates, Bit, LastBit
  <2>2. devState' \in {"idle", "tx", "rx"} /\ devByte' \in Bytes /\ devBit' \in 0 .. LastBit
        /\ devClk' \in Bit /\ devDat' \in Bit
    BY EdgeIs DEF ComBase, Types
  <2> QED
    BY <1>1, <2>1, <2>2, EdgeIs DEF Types
<1>4. Sequences'
  <2> DEFINE F == Seq(Bit)
  <2>1. delivered \in Seq(F) /\ recvByteLoc \in F /\ recvByte \in F
    BY DEF ComBase, Sequences
  <2> HIDE DEF F
  <2>2. delivered' \in Seq(F) /\ recvByte' \in F
    BY <1>2, <2>1
  <2>3. delivered' \in Seq(Seq(Bit)) /\ recvByte' \in Seq(Bit)
    BY <2>2 DEF F
  <2> QED
    BY <1>2, <2>3, EdgeIs DEF ComBase, Sequences
<1>5. Wires'
  BY <1>2, EdgeIs DEF ComBase, Types, Wires, ClkLine, Bit
<1>6. InTurn'
  BY <1>2, <1>9, EdgeIs, PS2ComAssumption DEF ComBase, Types, Wires, DeviceRight, InTurn, Bit
<1>7. Sending'
  BY <1>2, EdgeIs DEF ComBase, Types, InTurn, Sending, Sends, ComStates
<1>8. Receiving'
  <2>1. CASE comState' # "Idle"
    <3>1. comState' = "RecvBit" => devState = "tx"
      BY <1>2 DEF ComBase, Wires, InTurn
    <3> QED
      BY <1>2, <2>1, <3>1, EdgeIs DEF ComBase, Receiving
  <2>2. CASE comState' = "Idle"
    <3>1. /\ delivered' \in Seq(Seq(Bit)) /\ Len(delivered') = Len(delivered) + 1
          /\ \A i \in 1 .. Len(delivered) : delivered'[i] = delivered[i]
          /\ delivered'[Len(delivered) + 1] = recvByteLoc
      <4> DEFINE F == Seq(Bit)
      <4>1. delivered \in Seq(F) /\ recvByteLoc \in F
        BY DEF ComBase, Sequences
      <4> HIDE DEF F
      <4>2. delivered' = Append(delivered, recvByteLoc)
        BY <1>2, <2>2
      <4>3. /\ delivered' \in Seq(F) /\ Len(delivered') = Len(delivered) + 1
            /\ \A i \in 1 .. Len(delivered) : delivered'[i] = delivered[i]
            /\ delivered'[Len(delivered) + 1] = recvByteLoc
        BY <4>1, <4>2, AppendProperties
      <4> QED
        BY <4>3 DEF F
    <3>2. Len(delivered) \in Nat
      BY DEF ComBase, Sequences
    <3>3. ASSUME NEW i \in 1 .. Len(delivered')
          PROVE  delivered'[i] = FrameBits(started[i], LastBit)
      <4>1. CASE i = Len(delivered) + 1
        BY <1>9, <2>2, <3>1, <4>1
      <4>2. CASE i # Len(delivered) + 1
        <5>1. i \in 1 .. Len(delivered)
          BY <3>1, <3>2, <4>2
        <5> QED
          BY <3>1, <5>1 DEF ComBase, Receiving
      <4> QED
        BY <4>1, <4>2
    <3>4. Len(started) = Len(delivered')
      BY <1>9, <2>2, <3>1
    <3> QED
      BY <1>9, <2>2, <3>1, <3>2, <3>3, <3>4, EdgeIs DEF Receiving
  <2> QED
    BY <2>1, <2>2
<1> QED
  BY <1>3, <1>4, <1>5, <1>6, <1>7, <1>8, EdgeIs DEF ComBase

-----------------------------------------------------------------------------
(* The device, while the driver stands still.                                *)

LEMMA HostVars ==
  ASSUME UNCHANGED hostVars
  PROVE  UNCHANGED <<ena, clkReg, clkFilterCnt, comState, sendTriggerLoc, bitCount,
       currentBit, parity, ps2_clk_out, ps2_dat_out, recvByteLoc,
       recvByte, recvTrigger, sendDone, sendTrigger, sendByte,
       requested, delivered>>
BY DEF hostVars

LEMMA HostKept ==
  ASSUME ComBase, UNCHANGED hostVars,
         devState' \in {"idle", "tx", "rx"}, devByte' \in Bytes, devBit' \in 0 .. LastBit,
         devOwes' \in BOOLEAN, devClk' \in Bit, devDat' \in Bit
  PROVE  Types'
<1>1. /\ sendTriggerLoc' \in BOOLEAN /\ ena' \in BOOLEAN /\ recvTrigger' \in BOOLEAN
      /\ sendDone' \in BOOLEAN /\ sendTrigger' \in BOOLEAN
  BY HostVars, Zenon DEF ComBase, Types
<1>2. /\ clkReg' \in Bit /\ currentBit' \in Bit /\ parity' \in Bit
      /\ ps2_clk_out' \in Bit /\ ps2_dat_out' \in Bit
      /\ clkFilterCnt' \in 0 .. ClockFilter /\ comState' \in ComStates
      /\ bitCount' \in 0 .. LastBit /\ sendByte' \in Bytes
  BY HostVars DEF ComBase, Types
<1> QED
  BY <1>1, <1>2 DEF Types

LEMMA DevStartKeeps ==
  ASSUME ComBase, DevStart
  PROVE  ComBase'
<1>0. UNCHANGED hostVars
  BY DEF DevStart
<1>1. /\ devState = "idle" /\ devClk = 1 /\ ps2_clk_out = 1 /\ comState \in {"Idle", "Wait100"}
      /\ devState' = "tx" /\ devBit' = 1 /\ devClk' = 0 /\ devDat' = 0
      /\ UNCHANGED <<devShift, accepted>>
      /\ devByte' \in Bytes
      /\ devOwes' = TRUE
      /\ \/ devOwes /\ UNCHANGED <<devByte, started>>
         \/ ~devOwes /\ started' = Append(started, devByte')

  BY DEF DevStart, ComBase, Types, Bit, ClkLine
<1>2. /\ devState \in {"idle", "tx", "rx"} /\ devByte \in Bytes /\ devBit \in 0 .. LastBit
      /\ devClk \in Bit /\ devDat \in Bit /\ comState \in ComStates
  BY DEF ComBase, Types
<1>10. devOwes' \in BOOLEAN
  BY Zenon DEF DevStart
<1>3. Types'
  <2>1. /\ devState' \in {"idle", "tx", "rx"} /\ devByte' \in Bytes /\ devBit' \in 0 .. LastBit
        /\ devClk' \in Bit /\ devDat' \in Bit
    BY <1>1, <1>2, PS2ComAssumption DEF ComBase, Types, Bit, LastBit
  <2> QED
    BY <1>0, <1>10, <2>1, HostKept
<1>4. Sequences'
  <2>1. started' \in Seq(Bytes)
    <3>1. started \in Seq(Bytes) /\ devByte' \in Bytes
      BY <1>1 DEF ComBase, Sequences
    <3>2. started' = started \/ started' = Append(started, devByte')
      BY <1>1
    <3> QED
      BY <3>1, <3>2, AppendProperties
  <2> QED
    BY <1>1, <2>1, <1>0, HostVars DEF ComBase, Sequences
<1>5. Wires'
  BY <1>1, <1>2, <1>0, HostVars DEF ComBase, Types, Wires, Bit
<1>6. DeviceRight'
  BY <1>1 DEF DeviceRight, FrameBit
<1>7. InTurn'
  BY <1>1, <1>2, <1>0, HostVars, PS2ComAssumption DEF ComBase, Types, InTurn, LastBit, Bit
<1>8. Sending'
  BY <1>1, <1>0, HostVars DEF ComBase, Sending, Sends
<1>9. Receiving'
  <2>1. /\ Len(delivered) < Len(started') /\ Len(started') = Len(delivered) + 1
        /\ started'[Len(started')] = devByte'
        /\ \A i \in 1 .. Len(delivered) : started'[i] = started[i]
    <3>1. started \in Seq(Bytes) /\ Len(started) \in Nat /\ Len(delivered) \in Nat
      BY DEF ComBase, Sequences
    <3>2. CASE devOwes /\ UNCHANGED <<devByte, started>>
      BY <3>1, <3>2 DEF ComBase, Receiving
    <3>3. CASE ~devOwes /\ started' = Append(started, devByte')
      <4>1. Len(delivered) = Len(started)
        BY <1>1, <3>3 DEF ComBase, Receiving
      <4> QED
        BY <1>1, <3>1, <3>3, <4>1
    <3> QED
      BY <1>1, <3>2, <3>3
  <2> QED
    BY <1>1, <2>1, <1>0, HostVars DEF ComBase, Receiving
<1> QED
  BY <1>3, <1>4, <1>5, <1>6, <1>7, <1>8, <1>9 DEF ComBase

LEMMA DevFallTxKeeps ==
  ASSUME ComBase, DevFallTx
  PROVE  ComBase'
<1>0. UNCHANGED hostVars
  BY DEF DevFallTx
<1>1. /\ devState = "tx" /\ devClk = 1 /\ comState = "RecvBit" /\ devBit < LastBit
      /\ devBit = bitCount
      /\ devBit' = devBit + 1 /\ devDat' = FrameBit(devByte, devBit + 1) /\ devClk' = 0
      /\ UNCHANGED <<devState, devByte, devOwes, devShift, accepted, started>>

  <2>1. /\ devState = "tx" /\ devClk = 1 /\ devBit < LastBit
        /\ devBit' = devBit + 1 /\ devDat' = Frame(devByte)[devBit + 1] /\ devClk' = 0
        /\ UNCHANGED <<devState, devByte, devOwes, devShift, accepted, started>>
    BY DEF DevFallTx
  <2>2. comState = "RecvBit"
    BY <2>1 DEF DevFallTx, HostWaits, ClkLine, ComBase, Types, Wires, InTurn, ComStates, Bit
  <2>3. devBit = bitCount
    BY <2>1, <2>2, PS2ComAssumption DEF ComBase, Types, InTurn, LastBit
  <2>4. devBit + 1 \in 1 .. LastBit
    BY <2>1, PS2ComAssumption DEF ComBase, Types, LastBit
  <2>5. Frame(devByte) = FrameBits(devByte, LastBit)
    BY FrameBitsAre DEF ComBase, Types
  <2>6. Frame(devByte)[devBit + 1] = FrameBit(devByte, devBit + 1)
    BY <2>4, <2>5 DEF FrameBits
  <2> QED
    BY <2>1, <2>2, <2>3, <2>6
<1>2. /\ devState \in {"idle", "tx", "rx"} /\ devByte \in Bytes /\ devBit \in 0 .. LastBit
      /\ devClk \in Bit /\ devDat \in Bit /\ comState \in ComStates
  BY DEF ComBase, Types
<1>10. devOwes' \in BOOLEAN
  BY Zenon DEF DevFallTx, ComBase, Types
<1>3. Types'
  <2>1. /\ devState' \in {"idle", "tx", "rx"} /\ devByte' \in Bytes /\ devBit' \in 0 .. LastBit
        /\ devClk' \in Bit /\ devDat' \in Bit
    <3>1. FrameBit(devByte, devBit + 1) \in Bit
      <4>1. devBit + 1 \in Nat \ {0}
        BY <1>2, PS2ComAssumption DEF LastBit
      <4> QED
        BY <1>2, <4>1, FrameBitsAre
    <3> QED
      BY <1>1, <1>2, <3>1, PS2ComAssumption DEF Bit, LastBit
  <2> QED
    BY <1>0, <1>10, <2>1, HostKept
<1>4. Sequences'
  BY <1>1, <1>2, <1>0, HostVars DEF ComBase, Sequences
<1>5. Wires'
  BY <1>1, <1>2, <1>0, HostVars DEF ComBase, Types, Wires, Bit
<1>6. DeviceRight'
  BY <1>1, <1>2, PS2ComAssumption DEF ComBase, Types, DeviceRight, LastBit, Bit
<1>7. InTurn'
  BY <1>1, <1>2, <1>0, HostVars, PS2ComAssumption DEF ComBase, Types, InTurn, LastBit, Bit
<1>8. Sending'
  BY <1>1, <1>2, <1>0, HostVars DEF ComBase, Sending
<1>9. Receiving'
  BY <1>1, <1>2, <1>0, HostVars DEF ComBase, Receiving
<1> QED
  BY <1>3, <1>4, <1>5, <1>6, <1>7, <1>8, <1>9 DEF ComBase

LEMMA DevRiseTxKeeps ==
  ASSUME ComBase, DevRiseTx
  PROVE  ComBase'
<1>0. UNCHANGED hostVars
  BY DEF DevRiseTx
<1>1. /\ devState = "tx" /\ devClk = 0 /\ devClk' = 1 /\ clkReg = 0
      /\ comState \in {"WaitHighRecv", "Wait100"}
      /\ comState = "WaitHighRecv" => ps2_clk_out = 1 /\ devBit = bitCount
      /\ comState = "Wait100" => ps2_clk_out = 0
      /\ IF ps2_clk_out = 0 \/ devBit = LastBit
         THEN devState' = "idle" /\ devDat' = 1
         ELSE UNCHANGED <<devState, devDat>>
      /\ devOwes' = (ps2_clk_out = 0 \/ devBit # LastBit)
      /\ UNCHANGED <<devBit, devByte, devShift, accepted, started>>

  <2>1. /\ devState = "tx" /\ devClk = 0 /\ devClk' = 1
        /\ IF ps2_clk_out = 0 \/ devBit = LastBit
           THEN devState' = "idle" /\ devDat' = 1
           ELSE UNCHANGED <<devState, devDat>>
        /\ devOwes' = (ps2_clk_out = 0 \/ devBit # LastBit)
        /\ UNCHANGED <<devBit, devByte, devShift, accepted, started>>
    BY DEF DevRiseTx
  <2>2. clkReg = 0 /\ comState \in {"WaitClockHigh", "WaitAck", "WaitHighRecv", "Wait100"}
    BY <2>1 DEF DevRiseTx, HostWaits, ClockIs, ClkLine
  <2>3. comState \in {"WaitHighRecv", "Wait100"}
    BY <2>1, <2>2 DEF ComBase, InTurn
  <2>4. /\ comState = "WaitHighRecv" => ps2_clk_out = 1 /\ devBit = bitCount
        /\ comState = "Wait100" => ps2_clk_out = 0
    BY DEF ComBase, Wires, InTurn, DevRiseTx, HostWaits
  <2> QED
    BY <2>1, <2>2, <2>3, <2>4
<1>2. /\ devState \in {"idle", "tx", "rx"} /\ devByte \in Bytes /\ devBit \in 0 .. LastBit
      /\ devClk \in Bit /\ devDat \in Bit /\ comState \in ComStates
  BY DEF ComBase, Types
<1>10. devOwes' \in BOOLEAN
  BY Zenon DEF DevRiseTx
<1>3. Types'
  <2>1. /\ devState' \in {"idle", "tx", "rx"} /\ devByte' \in Bytes /\ devBit' \in 0 .. LastBit
        /\ devClk' \in Bit /\ devDat' \in Bit
    BY <1>1, <1>2, PS2ComAssumption DEF ComBase, Types, Bit, LastBit
  <2> QED
    BY <1>0, <1>10, <2>1, HostKept
<1>4. Sequences'
  BY <1>1, <1>2, <1>0, HostVars DEF ComBase, Sequences
<1>5. Wires'
  BY <1>1, <1>2, <1>0, HostVars DEF ComBase, Types, Wires, Bit
<1>6. DeviceRight'
  BY <1>1, <1>2, PS2ComAssumption DEF ComBase, Types, DeviceRight, LastBit, Bit
<1>7. InTurn'
  BY <1>1, <1>2, <1>0, HostVars, PS2ComAssumption DEF ComBase, Types, InTurn, LastBit, Bit
<1>8. Sending'
  BY <1>1, <1>2, <1>0, HostVars DEF ComBase, Sending
<1>9. Receiving'
  <2>1. /\ devOwes /\ (devState' = "tx" => devOwes')
        /\ comState # "WaitHighRecv" => devOwes'
        /\ comState = "WaitHighRecv" /\ devState' = "idle" => ~devOwes'
    <3>1. devOwes /\ devState = "tx"
      BY <1>1 DEF ComBase, Receiving
    <3>2. CASE ps2_clk_out = 0 \/ devBit # LastBit
      <4>1. devOwes'
        BY <1>1, <3>2, Zenon
      <4> QED
        BY <1>1, <3>1, <3>2, <4>1
    <3>3. CASE ps2_clk_out # 0 /\ devBit = LastBit
      <4>1. ~devOwes'
        BY <1>1, <3>3, Zenon
      <4> QED
        BY <1>1, <3>1, <3>3, <4>1
    <3> QED
      BY <3>2, <3>3
  <2> QED
    BY <1>1, <2>1, <1>0, HostVars DEF ComBase, Receiving
<1> QED
  BY <1>3, <1>4, <1>5, <1>6, <1>7, <1>8, <1>9 DEF ComBase

LEMMA DevAnswerKeeps ==
  ASSUME ComBase, DevAnswer
  PROVE  ComBase'
<1>0. UNCHANGED hostVars
  BY DEF DevAnswer
<1>1. /\ devState = "idle" /\ comState = "WaitClockLow" /\ bitCount = 0
      /\ devState' = "rx" /\ devBit' = 1 /\ devClk' = 0
      /\ devShift' = <<0>> /\ devDat = 1
      /\ UNCHANGED <<devDat, devByte, devOwes, accepted, started>>

  <2>1. /\ devState = "idle" /\ ClkLine = 1 /\ ps2_dat_out = 0
        /\ devState' = "rx" /\ devBit' = 1 /\ devClk' = 0 /\ devShift' = <<DatLine>>
        /\ UNCHANGED <<devDat, devByte, devOwes, accepted, started>>
        /\ comState \in {"Idle", "WaitClockLow", "RecvBit"}
    BY DEF DevAnswer, HostWaits
  <2>2. comState = "WaitClockLow"
    BY <2>1 DEF ComBase, Wires
  <2>3. bitCount = 0 /\ devDat = 1
    BY <2>1, <2>2 DEF ComBase, InTurn, DeviceRight
  <2>4. DatLine = 0
    BY <2>1 DEF DatLine
  <2> QED
    BY <2>1, <2>2, <2>3, <2>4
<1>2. /\ devState \in {"idle", "tx", "rx"} /\ devByte \in Bytes /\ devBit \in 0 .. LastBit
      /\ devClk \in Bit /\ devDat \in Bit /\ comState \in ComStates
  BY DEF ComBase, Types
<1>10. devOwes' \in BOOLEAN
  BY Zenon DEF DevAnswer, ComBase, Types
<1>3. Types'
  <2>1. /\ devState' \in {"idle", "tx", "rx"} /\ devByte' \in Bytes /\ devBit' \in 0 .. LastBit
        /\ devClk' \in Bit /\ devDat' \in Bit
    BY <1>1, <1>2, PS2ComAssumption DEF ComBase, Types, Bit, LastBit
  <2> QED
    BY <1>0, <1>10, <2>1, HostKept
<1>4. Sequences'
  <2>1. devShift' \in Seq(Bit)
    BY <1>1 DEF Bit
  <2> QED
    BY <1>1, <2>1, <1>0, HostVars DEF ComBase, Sequences
<1>5. Wires'
  BY <1>1, <1>2, <1>0, HostVars DEF ComBase, Types, Wires, Bit
<1>6. DeviceRight'
  BY <1>1, <1>2, PS2ComAssumption DEF ComBase, Types, DeviceRight, LastBit, Bit
<1>7. InTurn'
  BY <1>1, <1>2, <1>0, HostVars, PS2ComAssumption DEF ComBase, Types, InTurn, LastBit, Bit
<1>8. Sending'
  <2>1. FrameBits(sendByte, 1) = <<0>>
    BY DEF FrameBits, FrameBit
  <2> QED
    BY <1>1, <2>1, <1>0, HostVars DEF ComBase, Sending, Sends
<1>9. Receiving'
  BY <1>1, <1>2, <1>0, HostVars DEF ComBase, Receiving
<1> QED
  BY <1>3, <1>4, <1>5, <1>6, <1>7, <1>8, <1>9 DEF ComBase

LEMMA DevRiseRxKeeps ==
  ASSUME ComBase, DevRiseRx
  PROVE  ComBase'
<1>0. UNCHANGED hostVars
  BY DEF DevRiseRx
<1>1. /\ devState = "rx" /\ devClk = 0 /\ devClk' = 1 /\ clkReg = 0
      /\ UNCHANGED <<devBit, devByte, devOwes, started>>
      /\ \/ /\ comState = "WaitAck" /\ devBit = LastBit /\ devState' = "idle" /\ devDat' = 1
            /\ accepted' = Append(accepted, devShift) /\ devShift' = devShift
         \/ /\ comState = "WaitClockHigh" /\ devBit = bitCount /\ devBit # LastBit /\ bitCount > 0
            /\ devShift' = Append(devShift, FrameBit(sendByte, bitCount + 1))
            /\ UNCHANGED <<devState, devDat, accepted>>

  <2>1. /\ devState = "rx" /\ devClk = 0 /\ devClk' = 1
        /\ UNCHANGED <<devBit, devByte, devOwes, started>>
        /\ devBit = LastBit => /\ devState' = "idle" /\ devDat' = 1 /\ devShift' = devShift
                               /\ accepted' = Append(accepted, devShift)
        /\ devBit # LastBit => /\ devShift' = Append(devShift, DatLine)
                               /\ UNCHANGED <<devState, devDat, accepted>>
    BY DEF DevRiseRx
  <2>2. clkReg = 0 /\ comState \in {"WaitClockHigh", "WaitAck", "WaitHighRecv", "Wait100"}
    BY <2>1 DEF DevRiseRx, HostWaits, ClockIs, ClkLine
  <2>3. comState \in {"WaitClockHigh", "WaitAck"}
    BY <2>1, <2>2 DEF ComBase, InTurn
  <2>4. CASE comState = "WaitAck"
    BY <2>1, <2>2, <2>4 DEF ComBase, InTurn
  <2>5. CASE comState = "WaitClockHigh"
    <3>1. devBit = bitCount /\ bitCount > 0 /\ devBit # LastBit
      BY <2>1, <2>5, PS2ComAssumption DEF ComBase, Types, InTurn, Sending, LastBit
    <3>2. devDat = 1 /\ ps2_dat_out = currentBit /\ currentBit \in Bit
      BY <2>1, <2>5, <3>1 DEF ComBase, DeviceRight, Types, DevRiseRx, HostWaits
    <3>3. DatLine = FrameBit(sendByte, bitCount + 1)
      BY <2>5, <3>2 DEF DatLine, ComBase, Sending, Bit
    <3> QED
      BY <2>1, <2>2, <2>5, <3>1, <3>3
  <2> QED
    BY <2>3, <2>4, <2>5
<1>2. /\ devState \in {"idle", "tx", "rx"} /\ devByte \in Bytes /\ devBit \in 0 .. LastBit
      /\ devClk \in Bit /\ devDat \in Bit /\ comState \in ComStates
  BY DEF ComBase, Types
<1>10. devOwes' \in BOOLEAN
  BY Zenon DEF DevRiseRx, ComBase, Types
<1>3. Types'
  <2>1. /\ devState' \in {"idle", "tx", "rx"} /\ devByte' \in Bytes /\ devBit' \in 0 .. LastBit
        /\ devClk' \in Bit /\ devDat' \in Bit
    BY <1>1, <1>2, PS2ComAssumption DEF ComBase, Types, Bit, LastBit
  <2> QED
    BY <1>0, <1>10, <2>1, HostKept
<1>4. Sequences'
  <2>1. devShift' \in Seq(Bit)
    <3>1. CASE comState = "WaitAck"
      BY <1>1, <3>1 DEF ComBase, Sequences
    <3>2. CASE comState = "WaitClockHigh"
      <4>1. FrameBit(sendByte, bitCount + 1) \in Bit
        <5>1. sendByte \in Bytes /\ bitCount + 1 \in Nat \ {0}
          BY PS2ComAssumption DEF ComBase, Types, LastBit
        <5> QED
          BY <5>1, FrameBitsAre
      <4>2. devShift' = Append(devShift, FrameBit(sendByte, bitCount + 1)) /\ devShift \in Seq(Bit)
        BY <1>1, <3>2 DEF ComBase, Sequences
      <4> QED
        BY <4>1, <4>2, AppendProperties
    <3> QED
      BY <1>1, <3>1, <3>2
  <2>2. accepted' \in Seq(Seq(Bit))
    <3> DEFINE F == Seq(Bit)
    <3>1. devShift \in F /\ accepted \in Seq(F)
      BY DEF ComBase, Sequences
    <3>2. accepted' = accepted \/ accepted' = Append(accepted, devShift)
      BY <1>1
    <3> HIDE DEF F
    <3>3. accepted' \in Seq(F)
      BY <3>1, <3>2, AppendProperties
    <3> QED
      BY <3>3 DEF F
  <2> QED
    BY <1>1, <2>1, <2>2, <1>0, HostVars DEF ComBase, Sequences
<1>5. Wires'
  BY <1>1, <1>2, <1>0, HostVars DEF ComBase, Types, Wires, Bit
<1>6. DeviceRight'
  BY <1>1, <1>2, PS2ComAssumption DEF ComBase, Types, DeviceRight, LastBit, Bit
<1>7. InTurn'
  BY <1>1, <1>2, <1>0, HostVars, PS2ComAssumption DEF ComBase, Types, InTurn, LastBit, Bit
<1>8. Sending'
  <2>1. CASE comState = "WaitAck"
    BY <1>1, <2>1, <1>0, HostVars DEF ComBase, Sending
  <2>2. CASE comState = "WaitClockHigh"
    <3>1. sendByte \in Bytes /\ bitCount \in Nat
      BY PS2ComAssumption DEF ComBase, Types, LastBit
    <3>2. FrameBits(sendByte, bitCount + 1) =
            Append(FrameBits(sendByte, bitCount), FrameBit(sendByte, bitCount + 1))
      BY <3>1, FrameBitsAre
    <3>3. devShift = FrameBits(sendByte, bitCount)
      <4>1. devShift = FrameBits(sendByte, bitCount + devClk)
        BY <1>1, <2>2 DEF ComBase, Sending
      <4>2. bitCount + devClk = bitCount
        BY <1>1, <3>1
      <4> QED
        BY <4>1, <4>2
    <3>4. devShift' = FrameBits(sendByte, bitCount + 1)
      BY <1>1, <2>2, <3>2, <3>3
    <3> QED
      BY <1>1, <2>2, <3>4, <1>0, HostVars DEF ComBase, Sending
  <2> QED
    BY <1>1, <2>1, <2>2
<1>9. Receiving'
  BY <1>1, <1>2, <1>0, HostVars DEF ComBase, Receiving
<1> QED
  BY <1>3, <1>4, <1>5, <1>6, <1>7, <1>8, <1>9 DEF ComBase

LEMMA DevFallRxKeeps ==
  ASSUME ComBase, DevFallRx
  PROVE  ComBase'
<1>0. UNCHANGED hostVars
  BY DEF DevFallRx
<1>1. /\ devState = "rx" /\ devClk = 1 /\ comState = "WaitClockLow" /\ devBit < LastBit
      /\ devBit = bitCount
      /\ devBit' = devBit + 1 /\ devClk' = 0
      /\ devDat' = IF devBit + 1 = LastBit THEN 0 ELSE 1
      /\ UNCHANGED <<devState, devByte, devOwes, devShift, accepted, started>>

  <2>1. /\ devState = "rx" /\ devClk = 1 /\ devBit < LastBit
        /\ devBit' = devBit + 1 /\ devClk' = 0
        /\ devDat' = IF devBit + 1 = LastBit THEN 0 ELSE 1
        /\ UNCHANGED <<devState, devByte, devOwes, devShift, accepted, started>>
    BY DEF DevFallRx
  <2>2. comState = "WaitClockLow"
    BY <2>1 DEF DevFallRx, HostWaits, ClkLine, ComBase, Types, Wires, InTurn, ComStates, Bit
  <2>3. devBit = bitCount
    BY <2>1, <2>2, PS2ComAssumption DEF ComBase, Types, InTurn, LastBit
  <2> QED
    BY <2>1, <2>2, <2>3
<1>2. /\ devState \in {"idle", "tx", "rx"} /\ devByte \in Bytes /\ devBit \in 0 .. LastBit
      /\ devClk \in Bit /\ devDat \in Bit /\ comState \in ComStates
  BY DEF ComBase, Types
<1>10. devOwes' \in BOOLEAN
  BY Zenon DEF DevFallRx, ComBase, Types
<1>3. Types'
  <2>1. /\ devState' \in {"idle", "tx", "rx"} /\ devByte' \in Bytes /\ devBit' \in 0 .. LastBit
        /\ devClk' \in Bit /\ devDat' \in Bit
    BY <1>1, <1>2, PS2ComAssumption DEF ComBase, Types, Bit, LastBit
  <2> QED
    BY <1>0, <1>10, <2>1, HostKept
<1>4. Sequences'
  BY <1>1, <1>2, <1>0, HostVars DEF ComBase, Sequences
<1>5. Wires'
  BY <1>1, <1>2, <1>0, HostVars DEF ComBase, Types, Wires, Bit
<1>6. DeviceRight'
  BY <1>1, <1>2, PS2ComAssumption DEF ComBase, Types, DeviceRight, LastBit, Bit
<1>7. InTurn'
  BY <1>1, <1>2, <1>0, HostVars, PS2ComAssumption DEF ComBase, Types, InTurn, LastBit, Bit
<1>8. Sending'
  BY <1>1, <1>2, <1>0, HostVars DEF ComBase, Sending
<1>9. Receiving'
  BY <1>1, <1>2, <1>0, HostVars DEF ComBase, Receiving
<1> QED
  BY <1>3, <1>4, <1>5, <1>6, <1>7, <1>8, <1>9 DEF ComBase

LEMMA DeviceKeeps ==
  ASSUME ComBase, Device
  PROVE  ComBase'
BY DevStartKeeps, DevFallTxKeeps, DevRiseTxKeeps, DevAnswerKeeps, DevRiseRxKeeps,
   DevFallRxKeeps DEF Device

-----------------------------------------------------------------------------
(* One step.                                                                 *)

HostStep ==
  \/ Disabled
  \/ Idle
  \/ \E timeUp \in BOOLEAN : Wait100(timeUp) \/ ClockAndDataLow(timeUp)
  \/ WaitClockHigh
  \/ WaitClockLow
  \/ WaitAck
  \/ RecvBit
  \/ WaitHighRecv

LEMMA EdgeKeeps ==
  ASSUME ComBase, Edge, HostStep
  PROVE  ComBase'
<1>1. CASE Disabled
  BY <1>1, DisabledKeeps
<1>2. CASE Idle
  BY <1>2, IdleKeeps
<1>3. ASSUME NEW timeUp \in BOOLEAN, Wait100(timeUp)
      PROVE  ComBase'
  BY <1>3, Wait100Keeps
<1>4. ASSUME NEW timeUp \in BOOLEAN, ClockAndDataLow(timeUp)
      PROVE  ComBase'
  BY <1>4, ClockAndDataLowKeeps
<1>5. CASE WaitClockHigh
  BY <1>5, WaitClockHighKeeps
<1>6. CASE WaitClockLow
  BY <1>6, WaitClockLowKeeps
<1>7. CASE WaitAck
  BY <1>7, WaitAckKeeps
<1>8. CASE RecvBit
  BY <1>8, RecvBitKeeps
<1>9. CASE WaitHighRecv
  BY <1>9, WaitHighRecvKeeps
<1> QED
  BY <1>1, <1>2, <1>3, <1>4, <1>5, <1>6, <1>7, <1>8, <1>9 DEF HostStep

(* What an edge does with a request, whatever the state.                     *)
LEMMA EdgeLatches ==
  ASSUME ComBase, Edge, HostStep
  PROVE  \/ /\ ~ena /\ UNCHANGED comState /\ (sendTriggerLoc' <=> sendTriggerLoc)
            /\ ~sendDone'
         \/ /\ ena /\ comState # "WaitAck" /\ (sendTriggerLoc' <=> sendBusy) /\ ~sendDone'
            /\ comState' = "WaitAck" => comState = "WaitClockLow" /\ bitCount > 0
         \/ /\ ena /\ comState = "WaitAck" /\ comState' = "WaitAck"
            /\ (sendTriggerLoc' <=> sendBusy) /\ ~sendDone'
         \/ /\ ena /\ comState = "WaitAck" /\ clkReg = 1 /\ comState' = "Idle"
            /\ ~sendTriggerLoc'
<1> DEFINE Latches ==
      /\ ena /\ comState # "WaitAck" /\ (sendTriggerLoc' <=> sendBusy) /\ ~sendDone'
      /\ comState' = "WaitAck" => comState = "WaitClockLow" /\ bitCount > 0
<1>1. CASE Disabled
  BY <1>1, Zenon DEF Disabled, NoPulse
<1>2. CASE Idle
  <2>1. comState = "Idle" /\ comState' \in {"RecvBit", "Wait100", "Idle"}
    BY <1>2 DEF Idle
  <2>2. ena /\ (sendTriggerLoc' <=> sendBusy) /\ ~sendDone'
    BY <1>2, Zenon DEF Idle, LatchTrigger, NoPulse, sendBusy
  <2> QED
    BY <2>1, <2>2
<1>3. ASSUME NEW timeUp \in BOOLEAN, Wait100(timeUp)
      PROVE  Latches
  <2>1. comState = "Wait100" /\ comState' \in {"ClockAndDataLow", "Wait100"}
    BY <1>3 DEF Wait100
  <2>2. ena /\ (sendTriggerLoc' <=> sendBusy) /\ ~sendDone'
    BY <1>3, Zenon DEF Wait100, LatchTrigger, NoPulse, sendBusy
  <2> QED
    BY <2>1, <2>2
<1>4. ASSUME NEW timeUp \in BOOLEAN, ClockAndDataLow(timeUp)
      PROVE  Latches
  <2>1. comState = "ClockAndDataLow" /\ comState' \in {"ClockAndDataLow", "WaitClockHigh"}
    BY <1>4 DEF ClockAndDataLow
  <2>2. ena /\ (sendTriggerLoc' <=> sendBusy) /\ ~sendDone'
    BY <1>4, Zenon DEF ClockAndDataLow, LatchTrigger, NoPulse, sendBusy
  <2> QED
    BY <2>1, <2>2
<1>5. CASE WaitClockHigh
  <2>1. comState = "WaitClockHigh" /\ comState' \in {"WaitClockLow", "WaitClockHigh"}
    BY <1>5 DEF WaitClockHigh
  <2>2. ena /\ (sendTriggerLoc' <=> sendBusy) /\ ~sendDone'
    BY <1>5, Zenon DEF WaitClockHigh, LatchTrigger, NoPulse, sendBusy
  <2> QED
    BY <2>1, <2>2
<1>6. CASE WaitClockLow
  <2>1. comState = "WaitClockLow" /\ (comState' = "WaitAck" => bitCount = DataBits + 2)
    BY <1>6 DEF WaitClockLow
  <2>2. ena /\ (sendTriggerLoc' <=> sendBusy) /\ ~sendDone'
    BY <1>6, Zenon DEF WaitClockLow, LatchTrigger, NoPulse, sendBusy
  <2> QED
    BY <2>1, <2>2, PS2ComAssumption
<1>7. CASE WaitAck
  <2>1. /\ ena /\ comState = "WaitAck"
        /\ sendDone' = ClockIs(1)
        /\ sendTriggerLoc' = ((sendTriggerLoc \/ sendTrigger) /\ ~ClockIs(1))
        /\ comState' = IF ClockIs(1) THEN "Idle" ELSE "WaitAck"
    BY <1>7, Zenon DEF WaitAck
  <2>2. CASE ClockIs(1)
    <3>1. ~sendTriggerLoc'
      BY <2>1, <2>2, Zenon
    <3> QED
      BY <2>1, <2>2, <3>1 DEF ClockIs
  <2>3. CASE ~ClockIs(1)
    <3>1. comState' = "WaitAck" /\ (sendTriggerLoc' <=> sendBusy) /\ ~sendDone'
      BY <2>1, <2>3, Zenon DEF sendBusy
    <3> QED
      BY <2>1, <3>1
  <2> QED
    BY <2>2, <2>3
<1>8. CASE RecvBit
  <2>1. comState = "RecvBit" /\ comState' \in {"RecvBit", "WaitHighRecv"}
    BY <1>8 DEF RecvBit
  <2>2. ena /\ (sendTriggerLoc' <=> sendBusy) /\ ~sendDone'
    BY <1>8, Zenon DEF RecvBit, LatchTrigger, NoPulse, sendBusy
  <2> QED
    BY <2>1, <2>2
<1>9. CASE WaitHighRecv
  <2>1. comState = "WaitHighRecv" /\ comState' \in {"Idle", "RecvBit", "WaitHighRecv"}
    BY <1>9 DEF WaitHighRecv
  <2>2. ena /\ (sendTriggerLoc' <=> sendBusy) /\ ~sendDone'
    BY <1>9, Zenon DEF WaitHighRecv, LatchTrigger, sendBusy
  <2> QED
    BY <2>1, <2>2
<1> QED
  BY <1>1, <1>2, <1>3, <1>4, <1>5, <1>6, <1>7, <1>8, <1>9 DEF HostStep

LEMMA EdgeRequests ==
  ASSUME ComBase, AlignedTriggers, Requests, Edge, HostStep
  PROVE  Requests'
<1> DEFINE Served == comState = "WaitAck" /\ devState = "idle"
<1>1. UNCHANGED <<accepted, devState>>
  BY EdgeIs
<1>2. /\ comState \in Sends => sendTriggerLoc
      /\ comState = "WaitAck" /\ clkReg = 1 => devState = "idle"
      /\ comState = "WaitClockLow" /\ bitCount > 0 => devState # "idle"
  BY DEF ComBase, Types, Sending, Wires, InTurn
<1>3. requested \in Seq(Bytes) /\ accepted \in Seq(Seq(Bit)) /\ Len(accepted) \in Nat
  <2>1. requested \in Seq(Bytes) /\ accepted \in Seq(Seq(Bit))
    BY DEF ComBase, Sequences
  <2> DEFINE F == Seq(Bit)
  <2>2. accepted \in Seq(F)
    BY <2>1
  <2> HIDE DEF F
  <2>3. Len(accepted) \in Nat
    BY <2>2
  <2> QED
    BY <2>1, <2>3
<1>4. CASE ~ena /\ UNCHANGED comState /\ (sendTriggerLoc' <=> sendTriggerLoc) /\ ~sendDone'
  <2>1. ~sendTrigger
    BY <1>4 DEF Requests
  <2>2. CASE NoTrigger
    <3>1. ~sendTrigger' /\ UNCHANGED <<sendByte, requested>>
      BY <2>2, Zenon DEF NoTrigger
    <3> QED
      BY <1>1, <1>4, <2>1, <3>1 DEF Requests, sendBusy
  <2>3. ASSUME NEW b \in Bytes, Trigger(b)
        PROVE  Requests'
    <3>1. /\ ~sendBusy /\ sendByte' = b /\ requested' = Append(requested, b)
      BY <2>3 DEF Trigger
    <3>2. sendTrigger' /\ ena' /\ ~sendTriggerLoc /\ ~sendTriggerLoc'
      BY <1>4, <2>3, Zenon DEF Trigger, Edge, sendBusy
    <3>3. comState' # "WaitAck"
      BY <1>2, <1>4, <3>2 DEF Sends
    <3>4. Len(requested) = Len(accepted)
      BY <3>1 DEF Requests
    <3>5. /\ requested' # <<>> /\ Len(requested') = Len(requested) + 1
          /\ requested'[Len(requested')] = b
          /\ \A i \in 1 .. Len(requested) : requested'[i] = requested[i]
      BY <1>3, <3>1
    <3> QED
      BY <1>1, <1>3, <1>4, <3>1, <3>2, <3>3, <3>4, <3>5 DEF Requests, sendBusy
  <2> QED
    BY <2>2, <2>3 DEF Edge
<1>5. ASSUME ena
      PROVE  ~sendTrigger' /\ UNCHANGED <<sendByte, requested>>
  BY <1>5, Zenon DEF Edge, Trigger, NoTrigger
<1>6. CASE /\ ena /\ comState # "WaitAck" /\ (sendTriggerLoc' <=> sendBusy) /\ ~sendDone'
           /\ comState' = "WaitAck" => comState = "WaitClockLow" /\ bitCount > 0
  <2>1. comState' = "WaitAck" => devState # "idle"
    BY <1>2, <1>6
  <2> QED
    BY <1>1, <1>5, <1>6, <2>1 DEF Requests, sendBusy
<1>7. CASE /\ ena /\ comState = "WaitAck" /\ comState' = "WaitAck"
           /\ (sendTriggerLoc' <=> sendBusy) /\ ~sendDone'
  BY <1>1, <1>5, <1>7 DEF Requests, sendBusy
<1>8. CASE ena /\ comState = "WaitAck" /\ clkReg = 1 /\ comState' = "Idle" /\ ~sendTriggerLoc'
  BY <1>1, <1>2, <1>5, <1>8 DEF Requests, sendBusy
<1> QED
  BY <1>4, <1>6, <1>7, <1>8, EdgeLatches

LEMMA DeviceRequests ==
  ASSUME ComBase, Requests, Device
  PROVE  Requests'
<1>1. UNCHANGED <<ena, comState, sendTriggerLoc, sendDone, sendTrigger, sendByte, requested>>
  BY HostVars DEF Device, DevStart, DevFallTx, DevRiseTx, DevAnswer, DevRiseRx, DevFallRx
<1>2. ASSUME comState # "WaitAck" \/ UNCHANGED devState, UNCHANGED accepted
      PROVE  Requests'
  BY <1>1, <1>2 DEF Requests, sendBusy
<1>3. CASE DevStart
  BY <1>2, <1>3 DEF DevStart
<1>4. CASE DevFallTx
  BY <1>2, <1>4 DEF DevFallTx
<1>5. CASE DevRiseTx
  <2>1. comState # "WaitAck"
    BY <1>5 DEF DevRiseTx, ComBase, InTurn
  <2> QED
    BY <1>2, <1>5, <2>1 DEF DevRiseTx
<1>6. CASE DevAnswer
  <2>1. comState # "WaitAck"
    BY <1>6 DEF DevAnswer, ComBase, Wires
  <2> QED
    BY <1>2, <1>6, <2>1 DEF DevAnswer
<1>7. CASE DevFallRx
  BY <1>2, <1>7 DEF DevFallRx
<1>8. CASE DevRiseRx
  <2>1. CASE devBit # LastBit
    BY <1>2, <1>8, <2>1 DEF DevRiseRx
  <2>2. CASE devBit = LastBit
    <3>1. devState = "rx" /\ devState' = "idle" /\ accepted' = Append(accepted, devShift)
      BY <1>8, <2>2 DEF DevRiseRx
    <3>2. comState = "WaitAck"
      <4>1. comState \in {"WaitClockHigh", "WaitAck", "WaitHighRecv", "Wait100"}
        BY <1>8 DEF DevRiseRx, HostWaits, ClkLine
      <4> QED
        BY <2>2, <3>1, <4>1, PS2ComAssumption DEF ComBase, Types, InTurn, Sending, LastBit
    <3>3. devShift = FrameBits(sendByte, LastBit) /\ sendTriggerLoc
      BY <3>1, <3>2 DEF ComBase, Sending, Sends
    <3>4. /\ Len(requested) = Len(accepted) + 1 /\ requested[Len(requested)] = sendByte
          /\ requested # <<>>
      BY <3>1, <3>2, <3>3 DEF Requests, sendBusy
    <3>5. /\ Len(accepted) \in Nat /\ Len(accepted') = Len(accepted) + 1
          /\ accepted'[Len(accepted')] = devShift
          /\ \A i \in 1 .. Len(accepted) : accepted'[i] = accepted[i]
      <4> DEFINE F == Seq(Bit)
      <4>1. devShift \in F /\ accepted \in Seq(F)
        BY DEF ComBase, Sequences
      <4> HIDE DEF F
      <4> QED
        BY <3>1, <4>1, AppendProperties
    <3>6. ~sendDone
      BY <3>4, <3>5 DEF Requests
    <3>7. ASSUME NEW i \in 1 .. Len(accepted')
          PROVE  accepted'[i] = FrameBits(requested[i], LastBit)
      <4>1. CASE i = Len(accepted')
        BY <3>3, <3>4, <3>5, <4>1
      <4>2. CASE i # Len(accepted')
        <5>1. i \in 1 .. Len(accepted)
          BY <3>5, <4>2
        <5> QED
          BY <3>5, <5>1 DEF Requests
      <4> QED
        BY <4>1, <4>2
    <3> QED
      BY <1>1, <3>1, <3>2, <3>4, <3>5, <3>6, <3>7 DEF Requests, sendBusy
  <2> QED
    BY <2>1, <2>2
<1> QED
  BY <1>3, <1>4, <1>5, <1>6, <1>7, <1>8 DEF Device

LEMMA NextKeepsCom == ComInv /\ [Next]_vars => ComInv'
<1> SUFFICES ASSUME ComInv, [Next]_vars
             PROVE  ComInv'
  OBVIOUS
<1>1. CASE ClockEdge
  <2>1. Edge /\ HostStep
    BY <1>1 DEF ClockEdge, Edge, HostStep
  <2> QED
    BY <2>1, EdgeKeeps, EdgeRequests DEF ComInv
<1>2. CASE Device
  BY <1>2, DeviceKeeps, DeviceRequests DEF ComInv
<1>3. CASE UNCHANGED vars
  <2>1. UNCHANGED hostVars /\ UNCHANGED devVars
    BY <1>3 DEF vars
  <2>2. /\ UNCHANGED <<ena, clkReg, clkFilterCnt, comState, sendTriggerLoc, bitCount,
                       currentBit, parity, ps2_clk_out, ps2_dat_out, recvByteLoc,
                       recvByte, recvTrigger, sendDone, sendTrigger, sendByte,
                       requested, delivered>>
        /\ UNCHANGED <<devClk, devDat, devState, devBit, devByte, devOwes, devShift, accepted, started>>
    BY <2>1, HostVars DEF devVars
  <2>3. Types' /\ Sequences' /\ Wires' /\ DeviceRight'
    BY <2>2 DEF ComInv, ComBase, Types, Sequences, Wires, DeviceRight
  <2>4. InTurn' /\ Sending'
    BY <2>2 DEF ComInv, ComBase, InTurn, Sending
  <2>5. Receiving' /\ (AlignedTriggers => Requests')
    BY <2>2 DEF ComInv, ComBase, Receiving, Requests, sendBusy
  <2> QED
    BY <2>3, <2>4, <2>5 DEF ComInv, ComBase
<1> QED
  BY <1>1, <1>2, <1>3 DEF Next

-----------------------------------------------------------------------------
(* Theorems.                                                                 *)

(* Whatever the driver, its glitch filter and the device do and in whatever  *)
(* order, ComInv holds: driver and device never disagree on the bit they are *)
(* at, and each half of the wires carries the right one.                     *)
THEOREM ComInvariance == Spec => []ComInv
<1>1. Init => ComInv
  BY InitCom
<1>2. ComInv /\ [Next]_vars => ComInv'
  BY NextKeepsCom
<1> QED
  BY <1>1, <1>2, PTL DEF Spec

(* Every register of io_ps2_com keeps its type: the bit counter never runs   *)
(* past the last bit of a frame, the shift register never past its width.    *)
THEOREM ComTypesHold == Spec => []TypeOK
<1>1. ComInv => TypeOK
  BY DEF ComInv, ComBase, Types, Sequences, TypeOK
<1> QED
  BY <1>1, ComInvariance, PTL

(* The frames the driver hands over with recvTrigger are those the device    *)
(* has sent to their end: whole, in order, none twice and none dropped,      *)
(* though the host may take the wires at any time.  The device keeps its own *)
(* account of what it has sent (devOwes), which no step of the host touches. *)
THEOREM ReceivedAlwaysSent == Spec => []ReceivesWhatWasSent
<1>1. ASSUME ComBase
      PROVE  ReceivesWhatWasSent
  <2>1. started \in Seq(Bytes) /\ Len(started) \in Nat /\ delivered \in Seq(Seq(Bit))
    BY <1>1 DEF ComBase, Sequences
  <2>2. Len(delivered) \in Nat
    <3> DEFINE F == Seq(Bit)
    <3>1. delivered \in Seq(F)
      BY <2>1
    <3> HIDE DEF F
    <3> QED
      BY <3>1
  <2>3. /\ Len(delivered) <= Len(started)
        /\ Len(delivered) <= Completed
        /\ comState # "WaitHighRecv" => Len(delivered) = Completed
    BY <1>1, <2>1, <2>2 DEF ComBase, Receiving, Completed
  <2>4. ASSUME NEW i \in 1 .. Len(delivered)
        PROVE  delivered[i] = Frame(started[i])
    <3>1. started[i] \in Bytes
      BY <2>1, <2>2, <2>3
    <3>2. Frame(started[i]) = FrameBits(started[i], LastBit)
      BY <3>1, FrameBitsAre
    <3> QED
      BY <1>1, <3>2 DEF ComBase, Receiving
  <2> QED
    BY <2>3, <2>4 DEF ReceivesWhatWasSent
<1> QED
  BY <1>1, ComInvariance, PTL DEF ComInv

(* Bytes cross the wires whole, in order and once, both ways, when the CPU's *)
(* writes fall only in the cycles before ena = '1'.  (In other cycles the    *)
(* pulse is lost, TriggerTaken.)                                             *)
THEOREM BytesAlwaysCross ==
  ASSUME AlignedTriggers
  PROVE  Spec => []BytesCross
<1>1. ASSUME ComBase, Requests
      PROVE  SendsWhatWasRequested
  <2>1. requested \in Seq(Bytes) /\ Len(requested) \in Nat /\ accepted \in Seq(Seq(Bit))
    BY <1>1 DEF ComBase, Sequences
  <2>2. Len(accepted) \in Nat
    <3> DEFINE F == Seq(Bit)
    <3>1. accepted \in Seq(F)
      BY <2>1
    <3> HIDE DEF F
    <3> QED
      BY <3>1
  <2>3. Len(accepted) <= Len(requested)
    BY <1>1, <2>1, <2>2 DEF Requests
  <2>4. ASSUME NEW i \in 1 .. Len(accepted)
        PROVE  accepted[i] = Frame(requested[i])
    <3>1. requested[i] \in Bytes
      BY <2>1, <2>2, <2>3
    <3>2. Frame(requested[i]) = FrameBits(requested[i], LastBit)
      BY <3>1, FrameBitsAre
    <3> QED
      BY <1>1, <3>2 DEF Requests
  <2> QED
    BY <2>3, <2>4 DEF SendsWhatWasRequested
<1>2. ComInv => SendsWhatWasRequested
  BY <1>1 DEF ComInv
<1> QED
  BY <1>2, ComInvariance, ReceivedAlwaysSent, PTL DEF BytesCross

(* The host takes the clock from a device only in the first bit of a frame,  *)
(* and sendDone is given only when all that was requested has been accepted. *)
THEOREM HandshakeAlways ==
  ASSUME AlignedTriggers
  PROVE  Spec => []Handshake
<1>1. ComInv => NeverTruncates
  BY DEF ComInv, ComBase, Types, Wires, InTurn, ComStates, NeverTruncates
<1>2. ComInv => DoneMeansAccepted
  BY DEF ComInv, Requests, DoneMeansAccepted
<1> QED
  BY <1>1, <1>2, ComInvariance, PTL DEF Handshake

(* What the entity says of sendTrigger is true of aligned triggers: after a  *)
(* pulse of one cycle the request is latched.  The run of MC_PS2ComTrigger   *)
(* shows that it is false without the hypothesis.                            *)
THEOREM AlignedTriggersTaken ==
  ASSUME AlignedTriggers
  PROVE  Spec => TriggerTaken
<1>1. ASSUME ComInv, [Next]_vars
      PROVE  [sendTrigger /\ ena' # ena => sendTriggerLoc']_vars
  <2>1. SUFFICES ASSUME sendTrigger, ena' # ena
                 PROVE  sendTriggerLoc'
    OBVIOUS
  <2>2. ComBase /\ ena /\ ~sendTriggerLoc
    BY <1>1, <2>1 DEF ComInv, Requests
  <2>3. Edge /\ HostStep
    <3>1. ~Device
      BY <2>1, HostVars DEF Device, DevStart, DevFallTx, DevRiseTx, DevAnswer, DevRiseRx, DevFallRx
    <3>2. vars' # vars
      BY <2>1 DEF vars, hostVars
    <3> QED
      BY <1>1, <3>1, <3>2 DEF Next, ClockEdge, Edge, HostStep
  <2>4. comState # "WaitAck"
    BY <2>2 DEF ComBase, Sending, Sends
  <2> QED
    BY <2>1, <2>2, <2>3, <2>4, EdgeLatches DEF sendBusy
<1> QED
  BY <1>1, ComInvariance, PTL DEF Spec, TriggerTaken

=============================================================================
