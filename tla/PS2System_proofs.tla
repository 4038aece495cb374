--------------------------- MODULE PS2System_proofs ---------------------------
(***************************************************************************)
(* The rings of the PS/2 firmware hold what they should, and a wake-up is  *)
(* lost in two ways only: for any ring size and any number of bytes.       *)
(*                                                                         *)
(* A ring is shared by the main program and a handler that runs between    *)
(* any two of its steps.  OutputRight and InputRight number the bytes of   *)
(* a device along the whole way, so a step at one end can be seen to leave *)
(* what the other end relies on; AnsweredLater says why acknowledging the  *)
(* request at the end of a handler removes no other reason to run it.      *)
(***************************************************************************)
EXTENDS PS2System, TLAPS

USE PS2SystemAssumption

(* The arithmetic of a ring: the slot k places after h...                   *)
LEMMA PlaceValue ==
  ASSUME NEW h \in Slots, NEW k \in 0 .. Size - 1
  PROVE  /\ (h + k) % Size = IF h + k < Size THEN h + k ELSE h + k - Size
         /\ (h + k) % Size \in Slots
<1> DEFINE x == h + k
           q == x \div Size
           r == x % Size
<1>1. x \in Nat /\ x < 2 * Size
  BY DEF Slots
<1> HIDE DEF x
<1>2. q \in Nat /\ r \in 0 .. Size - 1 /\ x = Size * q + r
  BY <1>1
<1> HIDE DEF q, r
<1>3. \A d \in Nat : d >= 2 => Size * d >= 2 * Size
  OBVIOUS
<1>4. q = 0 \/ q = 1
  BY <1>1, <1>2, <1>3
<1>5. r = IF x < Size THEN x ELSE x - Size
  <2>1. CASE q = 0
    BY <1>1, <1>2, <2>1
  <2>2. CASE q = 1
    BY <1>1, <1>2, <2>2
  <2> QED BY <1>4, <2>1, <2>2
<1> QED BY <1>2, <1>5 DEF x, r, Slots

(* ...and the next slot.                                                    *)
LEMMA SuccValue ==
  ASSUME NEW i \in Slots
  PROVE  succ(i) = (IF i = Size - 1 THEN 0 ELSE i + 1) /\ succ(i) \in Slots
<1>1. 1 \in 0 .. Size - 1
  OBVIOUS
<1>2. (i + 1) % Size = IF i + 1 < Size THEN i + 1 ELSE i + 1 - Size
  BY <1>1, PlaceValue
<1> QED BY <1>2 DEF succ, Slots

(* A ring that begins at h and ends at c: it never counts as full, the slot *)
(* after its bytes is the one written next, and holds none of them.         *)
LEMMA CountFacts ==
  ASSUME NEW h \in Slots, NEW c \in Slots
  PROVE  /\ Count(c, h) \in 0 .. Size - 1
         /\ Count(c, h) = 0 <=> h = c
         /\ (h + Count(c, h)) % Size = c
         /\ \A i \in 1 .. Count(c, h) : (h + i - 1) % Size # c
<1>1. h \in 0 .. Size - 1 /\ c \in 0 .. Size - 1
  BY DEF Slots
<1>2. Count(c, h) = IF c >= h THEN c - h ELSE c + Size - h
  BY DEF Count
<1>3. Count(c, h) \in 0 .. Size - 1 /\ (Count(c, h) = 0 <=> h = c)
  BY <1>1, <1>2
<1>4. (h + Count(c, h)) % Size = c
  BY <1>1, <1>2, <1>3, PlaceValue
<1>5. ASSUME NEW i \in 1 .. Count(c, h)
      PROVE  (h + i - 1) % Size # c
  <2> DEFINE k == i - 1
  <2>1. k \in 0 .. Size - 1 /\ k < Count(c, h) /\ h + i - 1 = h + k
    BY <1>1, <1>3
  <2> HIDE DEF k
  <2>2. (h + k) % Size = IF h + k < Size THEN h + k ELSE h + k - Size
    BY <2>1, PlaceValue
  <2>3. (h + k) % Size # c
    BY <1>1, <1>2, <2>1, <2>2
  <2> QED BY <2>1, <2>3
<1> QED BY <1>3, <1>4, <1>5

(* A byte is added behind the others.                                       *)
LEMMA CountGrows ==
  ASSUME NEW h \in Slots, NEW c \in Slots, Count(c, h) < Size - 1
  PROVE  Count(succ(c), h) = Count(c, h) + 1
<1>1. h \in 0 .. Size - 1 /\ c \in 0 .. Size - 1
  BY DEF Slots
<1>2. succ(c) = IF c = Size - 1 THEN 0 ELSE c + 1
  BY SuccValue
<1> QED BY <1>1, <1>2 DEF Count

(* A byte is taken from the front, and the others move up.                  *)
LEMMA CountShrinks ==
  ASSUME NEW h \in Slots, NEW c \in Slots, h # c
  PROVE  /\ Count(c, succ(h)) = Count(c, h) - 1
         /\ \A i \in 1 .. Count(c, h) - 1 :
              (succ(h) + i - 1) % Size = (h + (i + 1) - 1) % Size
<1>1. h \in 0 .. Size - 1 /\ c \in 0 .. Size - 1
  BY DEF Slots
<1>2. succ(h) = (IF h = Size - 1 THEN 0 ELSE h + 1) /\ succ(h) \in Slots
  BY SuccValue
<1>3. Count(c, succ(h)) = Count(c, h) - 1
  BY <1>1, <1>2 DEF Count
<1>4. ASSUME NEW i \in 1 .. Count(c, h) - 1
      PROVE  (succ(h) + i - 1) % Size = (h + (i + 1) - 1) % Size
  <2> DEFINE k == i - 1
             g == succ(h)
  <2>1. Count(c, h) \in 0 .. Size - 1
    BY CountFacts
  <2>2. k \in 0 .. Size - 1 /\ i \in 0 .. Size - 1 /\ i = k + 1
    BY <2>1
  <2>3. g + i - 1 = g + k /\ h + (i + 1) - 1 = h + i
    BY <1>1, <1>2, <2>2
  <2>4. g \in Slots /\ g = IF h = Size - 1 THEN 0 ELSE h + 1
    BY <1>2
  <2> HIDE DEF k, g
  <2>5. (g + k) % Size = IF g + k < Size THEN g + k ELSE g + k - Size
    BY <2>2, <2>4, PlaceValue
  <2>6. (h + i) % Size = IF h + i < Size THEN h + i ELSE h + i - Size
    BY <2>2, PlaceValue
  <2>7. (g + k) % Size = (h + i) % Size
    BY <1>1, <2>2, <2>4, <2>5, <2>6
  <2> QED BY <2>3, <2>7 DEF g
<1> QED BY <1>3, <1>4

-----------------------------------------------------------------------------
(* Types.                                                                   *)

LEMMA TypeFacts ==
  ASSUME TypeOK
  PROVE  /\ arrived \in [Devs -> Nat] /\ sending \in [Devs -> Nat]
         /\ in_hw \in [Devs -> Slots] /\ in_cpu \in [Devs -> Slots]
         /\ out_hw \in [Devs -> Slots] /\ out_cpu \in [Devs -> Slots]
         /\ inbuf \in [Devs -> [Slots -> Nat]] /\ outbuf \in [Devs -> [Slots -> Nat]]
         /\ snap \in [Devs -> Snapshot] /\ mdev \in Devs /\ result \in Nat
         /\ wrote \in [Devs -> Nat] /\ handed \in [Devs -> Nat]
         /\ dropped \in [Devs -> SUBSET Nat]
         /\ accepted \in [Devs -> Seq(Nat)] /\ taken \in [Devs -> Seq(Nat)]
         /\ recvPulse \subseteq Devs /\ recvReg \subseteq Devs
         /\ hpc \in HandlerSteps /\ mpc \in MainSteps
  BY DEF TypeOK

(* The initial state is one.                                                *)
LEMMA InitType == Init => TypeOK
<1> SUFFICES ASSUME Init PROVE TypeOK
  OBVIOUS
<1>1. 0 \in Slots /\ NoSnapshot \in Snapshot /\ <<>> \in Seq(Nat)
  BY DEF Slots, NoSnapshot, Snapshot
<1>2. in_hw \in [Devs -> Slots] /\ in_cpu \in [Devs -> Slots]
      /\ out_hw \in [Devs -> Slots] /\ out_cpu \in [Devs -> Slots]
  BY <1>1 DEF Init, EachDev
<1>3. inbuf \in [Devs -> [Slots -> Nat]] /\ outbuf \in [Devs -> [Slots -> Nat]]
  BY DEF Init, EachDev
<1>4. accepted \in [Devs -> Seq(Nat)] /\ taken \in [Devs -> Seq(Nat)]
  BY <1>1 DEF Init, EachDev
<1>5. /\ arrived \in [Devs -> Nat] /\ sending \in [Devs -> Nat] /\ wrote \in [Devs -> Nat]
      /\ handed \in [Devs -> Nat] /\ dropped \in [Devs -> SUBSET Nat]
  BY DEF Init, EachDev
<1>6. snap \in [Devs -> Snapshot]
  BY <1>1 DEF Init, EachDev
<1>7. /\ waiting \subseteq Ints /\ raised \subseteq Ints
      /\ recvPulse \subseteq Devs /\ donePulse \subseteq Devs /\ recvReg \subseteq Devs
      /\ ps2_int \in BOOLEAN /\ int_enabled \in BOOLEAN
      /\ hpc \in HandlerSteps /\ mpc \in MainSteps /\ mdev \in Devs /\ result \in Nat
      /\ overrun \subseteq Devs /\ wrapped \subseteq Devs /\ late \subseteq Devs
      /\ swallowedRecv \subseteq Devs /\ swallowedSend \subseteq Devs
  BY DEF Init, LatchInit, HandlerSteps, MainSteps, Devs
<1> QED BY <1>2, <1>3, <1>4, <1>5, <1>6, <1>7 DEF TypeOK

(* So does a clock edge...                                                  *)
LEMMA ClockType ==
  ASSUME TypeOK, NEW cleared, Clock(cleared)
  PROVE  /\ waiting' \subseteq Ints /\ raised' \subseteq Ints /\ late' \subseteq Devs
         /\ recvPulse' \subseteq Devs /\ donePulse' \subseteq Devs /\ recvReg' \subseteq Devs
         /\ ps2_int' \in BOOLEAN
<1>1. ps2_int' \in BOOLEAN
  BY Zenon DEF Clock
<1>2. waiting' \subseteq Ints /\ raised' \subseteq Ints /\ late' \subseteq Devs
  <2>1. CASE raised = {} /\ waiting # {}
    BY <2>1 DEF TypeOK, Clock, Raise
  <2>2. CASE ~(raised = {} /\ waiting # {})
    BY <2>2 DEF TypeOK, Clock, Hold
  <2> QED BY <2>1, <2>2
<1> QED BY <1>1, <1>2 DEF TypeOK, Clock

(* The steps of the hardware keep the types...                              *)
LEMMA HardwareType ==
  ASSUME TypeOK, Edge \/ \E d \in Devs : ByteArrives(d) \/ SendDone(d)
  PROVE  TypeOK'
<1>1. CASE Edge
  <2>1. Clock({})
    BY <1>1 DEF Edge
  <2> QED BY <1>1, <2>1, ClockType DEF TypeOK, Edge, rings
<1>2. ASSUME NEW d \in Devs, ByteArrives(d) PROVE TypeOK'
  <2>1. arrived' \in [Devs -> Nat]
    <3>1. arrived \in [Devs -> Nat]
      BY TypeFacts
    <3>2. arrived' = [arrived EXCEPT ![d] = arrived[d] + 1]
      BY <1>2 DEF ByteArrives
    <3>3. arrived[d] + 1 \in Nat
      BY <3>1
    <3> QED BY <3>1, <3>2, <3>3
  <2> QED BY <1>2, <2>1 DEF TypeOK, ByteArrives, latchVars, rings
<1>3. ASSUME NEW d \in Devs, SendDone(d) PROVE TypeOK'
  <2>1. sending[d] \in Nat /\ accepted[d] \in Seq(Nat)
    BY TypeFacts
  <2>2. Append(accepted[d], sending[d]) \in Seq(Nat)
    BY <2>1
  <2>3. accepted' \in [Devs -> Seq(Nat)]
    BY <1>3, <2>2, TypeFacts DEF SendDone
  <2>4. sending' \in [Devs -> Nat]
    BY <1>3, TypeFacts DEF SendDone
  <2>5. {accepted', taken'} \subseteq [Devs -> Seq(Nat)]
    BY <1>3, <2>3, TypeFacts DEF SendDone
  <2>6. {in_hw', in_cpu', out_hw', out_cpu'} \subseteq [Devs -> Slots]
        /\ {inbuf', outbuf'} \subseteq [Devs -> [Slots -> Nat]]
    BY <1>3 DEF TypeOK, SendDone, rings
  <2>7. /\ waiting' \subseteq Ints /\ raised' \subseteq Ints
        /\ donePulse' \subseteq Devs
    BY <1>3 DEF TypeOK, SendDone, latchVars
  <2> QED BY <1>3, <2>4, <2>5, <2>6, <2>7 DEF TypeOK, SendDone
<1> QED BY <1>1, <1>2, <1>3

(* ...and so do those of the handler...                                     *)
LEMMA HandlerType ==
  ASSUME TypeOK, TakeInterrupt \/ Handler
  PROVE  TypeOK'
<1>1. ASSUME NEW d \in Devs, NEW next \in HandlerSteps, ReadRegister(d, next) PROVE TypeOK'
  <2>1. [recv |-> d \in recvReg, cts |-> sending[d] = 0, byte |-> arrived[d]] \in Snapshot
    BY TypeFacts DEF Snapshot
  <2>2. snap' \in [Devs -> Snapshot]
    BY <1>1, <2>1, TypeFacts DEF ReadRegister
  <2>3. Clock({d})
    BY <1>1 DEF ReadRegister
  <2> QED BY <1>1, <2>2, <2>3, ClockType DEF TypeOK, ReadRegister, rings
<1>2. ASSUME NEW d \in Devs, NEW next \in HandlerSteps, Serve(d, next) PROVE TypeOK'
  <2>1. in_hw[d] \in Slots /\ out_hw[d] \in Slots /\ snap[d] \in Snapshot
    BY TypeFacts
  <2>2. succ(in_hw[d]) \in Slots /\ succ(out_hw[d]) \in Slots /\ snap[d].byte \in Nat
    BY <2>1, SuccValue DEF Snapshot
  <2>3. in_hw' \in [Devs -> Slots]
    BY <1>2, <2>2, TypeFacts, ZenonT(60) DEF Serve, StoreReceived
  <2>4. out_hw' \in [Devs -> Slots]
    BY <1>2, <2>2, TypeFacts, ZenonT(60) DEF Serve, SendNext
  <2>5. inbuf' \in [Devs -> [Slots -> Nat]]
    <3>1. [inbuf[d] EXCEPT ![in_hw[d]] = snap[d].byte] \in [Slots -> Nat]
      BY <2>1, <2>2, TypeFacts
    <3> QED BY <1>2, <3>1, TypeFacts DEF Serve, StoreReceived
  <2>6. sending' \in [Devs -> Nat]
    <3>1. outbuf[d][out_hw[d]] \in Nat
      BY <2>1, TypeFacts
    <3> QED BY <1>2, <3>1, TypeFacts DEF Serve, SendNext
  <2>7. snap' \in [Devs -> Snapshot]
    BY <1>2, TypeFacts DEF Serve, NoSnapshot, Snapshot
  <2>8. wrapped' \subseteq Devs
    BY <1>2, ZenonT(60) DEF TypeOK, Serve, StoreReceived
  <2>9. handed' \in [Devs -> Nat] /\ dropped' \in [Devs -> SUBSET Nat]
    <3>1. outbuf[d][out_hw[d]] \in Nat /\ handed[d] + 1 \in Nat
      <4>1. outbuf[d][out_hw[d]] \in Nat
        BY <2>1, TypeFacts
      <4>2. handed[d] \in Nat
        BY TypeFacts
      <4> QED BY <4>1, <4>2
    <3>2. dropped[d] \union {outbuf[d][out_hw[d]]} \in SUBSET Nat
      BY <3>1, TypeFacts
    <3>3. CASE snap[d].cts /\ out_hw[d] # out_cpu[d]
      <4>1. handed' \in [Devs -> Nat]
        BY <1>2, <3>1, <3>3, TypeFacts DEF Serve, SendNext
      <4>2. dropped' = dropped
              \/ dropped' = [dropped EXCEPT ![d] = dropped[d] \union {outbuf[d][out_hw[d]]}]
        BY <1>2, <3>3 DEF Serve, SendNext
      <4> QED BY <3>2, <4>1, <4>2, TypeFacts
    <3>4. CASE ~(snap[d].cts /\ out_hw[d] # out_cpu[d])
      BY <1>2, <3>4, TypeFacts DEF Serve, SendNext
    <3> QED BY <3>3, <3>4
  <2> QED
    BY <1>2, <2>3, <2>4, <2>5, <2>6, <2>7, <2>8, <2>9 DEF TypeOK, Serve, latchVars
<1>3. CASE TakeInterrupt \/ HandlerDisable \/ HandlerEnable
  BY <1>3 DEF TypeOK, TakeInterrupt, HandlerDisable, HandlerEnable,
              latchVars, hardware, rings, history, HandlerSteps
<1>4. CASE ReadKeyboard \/ ReadMouse
  BY <1>1, <1>4 DEF ReadKeyboard, ReadMouse, Devs, HandlerSteps
<1>5. CASE ServeKeyboard \/ ServeMouse
  BY <1>2, <1>5 DEF ServeKeyboard, ServeMouse, Devs, HandlerSteps
<1>6. CASE GetInterrupts
  BY <1>6 DEF TypeOK, GetInterrupts, Acknowledge, latchVars, hardware, rings, HandlerSteps
<1> QED BY <1>3, <1>4, <1>5, <1>6 DEF Handler

(* ...and of the main program.                                              *)
LEMMA MainType ==
  ASSUME TypeOK, Main
  PROVE  TypeOK'
<1>1. CASE Boot
  <2>1. /\ in_hw' \in [Devs -> Slots] /\ in_cpu' \in [Devs -> Slots]
        /\ out_hw' \in [Devs -> Slots] /\ out_cpu' \in [Devs -> Slots]
    BY <1>1 DEF Boot, EachDev, Slots
  <2> QED
    BY <1>1, <2>1 DEF TypeOK, Boot, latchVars, hardware, history, MainSteps
<1>2. CASE ReadFetch
  <2>1. result' \in Nat
    BY <1>2, TypeFacts DEF ReadFetch
  <2> QED
    BY <1>2, <2>1 DEF TypeOK, ReadFetch, latchVars, hardware, rings, history, MainSteps
<1>3. CASE ReadAdvance
  <2>1. succ(in_cpu[mdev]) \in Slots /\ Append(taken[mdev], result) \in Seq(Nat)
    BY TypeFacts, SuccValue
  <2>2. in_cpu' \in [Devs -> Slots]
    BY <1>3, <2>1, TypeFacts DEF ReadAdvance
  <2>3. taken' \in [Devs -> Seq(Nat)]
    BY <1>3, <2>1, TypeFacts DEF ReadAdvance
  <2> QED
    BY <1>3, <2>2, <2>3, ZenonT(60) DEF TypeOK, ReadAdvance, latchVars, hardware, MainSteps, Devs
<1>4. CASE WriteRoom \/ WriteDisable \/ WriteEnable
  BY <1>4, ZenonT(60) DEF TypeOK, WriteRoom, WriteDisable, WriteEnable,
              latchVars, hardware, rings, history, MainSteps, Devs
<1>5. CASE WriteStore
  <2>1. mdev \in Devs /\ out_cpu[mdev] \in Slots /\ wrote[mdev] + 1 \in Nat
    BY TypeFacts
  <2>2. succ(out_cpu[mdev]) \in Slots
    BY <2>1, SuccValue
  <2>3. out_cpu' \in [Devs -> Slots]
    BY <1>5, <2>2, TypeFacts DEF WriteStore
  <2>4. wrote' \in [Devs -> Nat]
    BY <1>5, <2>1, TypeFacts DEF WriteStore
  <2>5. outbuf' \in [Devs -> [Slots -> Nat]]
    <3>1. [outbuf[mdev] EXCEPT ![out_cpu[mdev]] = wrote[mdev] + 1] \in [Slots -> Nat]
      BY <2>1, TypeFacts
    <3> QED BY <1>5, <3>1, TypeFacts DEF WriteStore
  <2>6. {in_hw', in_cpu', out_hw', out_cpu'} \subseteq [Devs -> Slots]
    BY <1>5, <2>3, TypeFacts DEF WriteStore
  <2>7. {inbuf', outbuf'} \subseteq [Devs -> [Slots -> Nat]]
    BY <1>5, <2>5, TypeFacts DEF WriteStore
  <2>8. hpc' \in HandlerSteps /\ mpc' \in MainSteps
    BY <1>5 DEF WriteStore, MainSteps, HandlerSteps
  <2> QED
    BY <1>5, <2>4, <2>6, <2>7, <2>8 DEF TypeOK, WriteStore, latchVars, hardware
<1>6. ASSUME NEW d \in Devs, ReadBegin(d) \/ WriteBegin(d) PROVE TypeOK'
  BY <1>6 DEF TypeOK, ReadBegin, WriteBegin, latchVars, hardware, rings, history, MainSteps
<1> QED BY <1>1, <1>2, <1>3, <1>4, <1>5, <1>6 DEF Main

(* Every step keeps the types.                                              *)
LEMMA TypeKept == TypeOK /\ [Next]_vars => TypeOK'
<1> SUFFICES ASSUME TypeOK, [Next]_vars PROVE TypeOK'
  OBVIOUS
<1>1. CASE UNCHANGED vars
  BY <1>1 DEF TypeOK, vars, latchVars, hardware, rings, history
<1> QED BY <1>1, HardwareType, HandlerType, MainType DEF Next

-----------------------------------------------------------------------------
(* Interrupts are masked while they must be.                                *)
LEMMA MaskedKept ==
  ASSUME Masked, Next
  PROVE  Masked'
<1>1. CASE Edge \/ TakeInterrupt \/ \E d \in Devs : ByteArrives(d) \/ SendDone(d)
  BY <1>1 DEF Masked, Edge, TakeInterrupt, ByteArrives, SendDone, rings, hardware
<1>2. CASE Handler
  <2>1. hpc # "off" /\ mpc \notin {"boot", "store"} /\ mpc' = mpc
    BY <1>2 DEF Masked, Handler, HandlerDisable, ReadKeyboard, ReadMouse, ReadRegister,
                ServeKeyboard, ServeMouse, Serve, GetInterrupts, HandlerEnable
  <2>2. hpc' # "off" => ~int_enabled'
    BY <1>2, <2>1 DEF Masked, Handler, HandlerDisable, ReadKeyboard, ReadMouse, ReadRegister,
                ServeKeyboard, ServeMouse, Serve, GetInterrupts, HandlerEnable, hardware
  <2> QED BY <2>1, <2>2 DEF Masked
<1>3. CASE Main
  <2>1. CASE Boot \/ ReadFetch \/ ReadAdvance
    BY <2>1 DEF Masked, Boot, ReadFetch, ReadAdvance
  <2>2. CASE WriteRoom \/ WriteDisable \/ WriteStore \/ WriteEnable
    BY <2>2 DEF Masked, WriteRoom, WriteDisable, WriteStore, WriteEnable
  <2>3. CASE \E d \in Devs : ReadBegin(d) \/ WriteBegin(d)
    BY <2>3 DEF Masked, ReadBegin, WriteBegin
  <2> QED BY <1>3, <2>1, <2>2, <2>3 DEF Main
<1> QED BY <1>1, <1>2, <1>3 DEF Next

-----------------------------------------------------------------------------
(* Sequences that rise.                                                     *)

LEMMA RisingAppend ==
  ASSUME NEW a \in Seq(Nat), NEW x \in Nat, Rising(a), \A i \in 1 .. Len(a) : a[i] < x
  PROVE  /\ Append(a, x) \in Seq(Nat) /\ Len(Append(a, x)) = Len(a) + 1
         /\ \A i \in 1 .. Len(a) : Append(a, x)[i] = a[i]
         /\ Append(a, x)[Len(a) + 1] = x
         /\ Rising(Append(a, x))
<1> DEFINE b == Append(a, x)
<1>1. /\ b \in Seq(Nat) /\ Len(b) = Len(a) + 1 /\ Len(a) \in Nat
      /\ \A i \in 1 .. Len(a) : b[i] = a[i]
      /\ b[Len(a) + 1] = x
  OBVIOUS
<1> HIDE DEF b
<1>2. ASSUME NEW i \in 1 .. Len(b), NEW j \in 1 .. Len(b), i < j
      PROVE  b[i] < b[j]
  <2>1. i \in 1 .. Len(a) /\ b[i] = a[i]
    BY <1>1, <1>2
  <2>2. CASE j \in 1 .. Len(a)
    BY <1>1, <1>2, <2>1, <2>2 DEF Rising
  <2>3. CASE j = Len(a) + 1
    BY <1>1, <2>1, <2>3
  <2> QED BY <1>1, <2>2, <2>3
<1>3. Rising(b)
  BY <1>2 DEF Rising
<1> QED BY <1>1, <1>3 DEF b

-----------------------------------------------------------------------------
(* The way out.  Nothing that OutputRight numbers is touched by most steps. *)
LEMMA OutputSame ==
  ASSUME NEW d \in Devs, OutputRight(d),
         accepted'[d] = accepted[d], sending'[d] = sending[d], wrote'[d] = wrote[d],
         handed'[d] = handed[d], dropped'[d] = dropped[d],
         out_hw'[d] = out_hw[d], out_cpu'[d] = out_cpu[d], outbuf'[d] = outbuf[d],
         snap'[d].cts => sending[d] = 0,
         mdev' = d /\ mpc' \in {"disable", "store"} => OutCount(d) < Size - 1
  PROVE  OutputRight(d)'
<1>1. OutCount(d)' = OutCount(d)
  BY DEF OutCount, Count
<1> QED BY <1>1 DEF OutputRight, Rising

(* What the parts of OutputRight are made of.                               *)
LEMMA OutputFacts ==
  ASSUME TypeOK, NEW d \in Devs
  PROVE  /\ out_hw[d] \in Slots /\ out_cpu[d] \in Slots
         /\ OutCount(d) \in 0 .. Size - 1 /\ (OutCount(d) = 0 <=> out_hw[d] = out_cpu[d])
         /\ sending[d] \in Nat /\ wrote[d] \in Nat
         /\ handed[d] \in Nat /\ dropped[d] \subseteq Nat
         /\ accepted[d] \in Seq(Nat) /\ Len(accepted[d]) \in Nat
<1>1. /\ out_hw[d] \in Slots /\ out_cpu[d] \in Slots /\ accepted[d] \in Seq(Nat)
      /\ sending[d] \in Nat /\ wrote[d] \in Nat
      /\ handed[d] \in Nat /\ dropped[d] \subseteq Nat
  BY TypeFacts
<1>2. OutCount(d) \in 0 .. Size - 1 /\ (OutCount(d) = 0 <=> out_hw[d] = out_cpu[d])
  BY <1>1, CountFacts DEF OutCount
<1> QED BY <1>1, <1>2

(* What OutputRight says of the bytes that have been handed over...         *)
HandedRight(a, s, h, drop) ==
  /\ Rising(a)
  /\ \A i \in 1 .. Len(a) : a[i] \in (1 .. h) \ drop
  /\ s # 0 => s \in (1 .. h) \ drop /\ \A i \in 1 .. Len(a) : a[i] < s
  /\ \A n \in (1 .. h) \ drop : n = s \/ \E i \in 1 .. Len(a) : a[i] = n
  /\ drop \subseteq 1 .. h

(* ...and of those in the ring.                                             *)
RingRight(d, h) ==
  /\ \A i \in 1 .. OutCount(d) : outbuf[d][(out_hw[d] + i - 1) % Size] = h + i
  /\ wrote[d] = h + OutCount(d)
  /\ mdev = d /\ mpc \in {"disable", "store"} => OutCount(d) < Size - 1

LEMMA OutputParts ==
  ASSUME NEW d \in Devs
  PROVE  OutputRight(d) <=> /\ HandedRight(accepted[d], sending[d], handed[d], dropped[d])
                            /\ RingRight(d, handed[d])
                            /\ snap[d].cts => sending[d] = 0
  BY DEF OutputRight, HandedRight, RingRight

(* The byte being sent becomes the last one the device has.                 *)
LEMMA HandedSent ==
  ASSUME NEW a \in Seq(Nat), NEW s \in Nat \ {0}, NEW h \in Nat, NEW drop,
         HandedRight(a, s, h, drop)
  PROVE  HandedRight(Append(a, s), 0, h, drop)
<1> DEFINE b == Append(a, s)
<1>1. /\ Rising(a) /\ s \in (1 .. h) \ drop /\ drop \subseteq 1 .. h
      /\ \A i \in 1 .. Len(a) : a[i] \in (1 .. h) \ drop
      /\ \A i \in 1 .. Len(a) : a[i] < s
      /\ \A n \in (1 .. h) \ drop : n = s \/ \E i \in 1 .. Len(a) : a[i] = n
  BY DEF HandedRight
<1>2. /\ Len(b) = Len(a) + 1 /\ \A i \in 1 .. Len(a) : b[i] = a[i]
      /\ b[Len(a) + 1] = s /\ Rising(b) /\ Len(a) \in Nat
  BY <1>1, RisingAppend
<1> HIDE DEF b
<1>3. \A i \in 1 .. Len(b) : b[i] \in (1 .. h) \ drop
  <2> SUFFICES ASSUME NEW i \in 1 .. Len(b) PROVE b[i] \in (1 .. h) \ drop
    OBVIOUS
  <2>1. i \in 1 .. Len(a) \/ i = Len(a) + 1
    BY <1>2
  <2> QED BY <1>1, <1>2, <2>1
<1>4. \A n \in (1 .. h) \ drop : \E i \in 1 .. Len(b) : b[i] = n
  <2> SUFFICES ASSUME NEW n \in (1 .. h) \ drop PROVE \E i \in 1 .. Len(b) : b[i] = n
    OBVIOUS
  <2>1. CASE n = s
    <3>1. Len(a) + 1 \in 1 .. Len(b)
      BY <1>2
    <3> QED BY <1>2, <2>1, <3>1
  <2>2. CASE n # s
    <3>1. PICK i \in 1 .. Len(a) : a[i] = n
      BY <1>1, <2>2
    <3>2. i \in 1 .. Len(b) /\ b[i] = n
      BY <1>2, <3>1
    <3> QED BY <3>2
  <2> QED BY <2>1, <2>2
<1> QED BY <1>1, <1>2, <1>3, <1>4 DEF HandedRight, b

(* Another byte is handed over, and the driver takes it or drops it.        *)
LEMMA HandedOver ==
  ASSUME NEW a \in Seq(Nat), NEW h \in Nat, NEW drop, HandedRight(a, 0, h, drop)
  PROVE  /\ HandedRight(a, h + 1, h + 1, drop)
         /\ HandedRight(a, 0, h + 1, drop \union {h + 1})
<1>1. /\ Rising(a) /\ drop \subseteq 1 .. h /\ Len(a) \in Nat
      /\ \A i \in 1 .. Len(a) : a[i] \in (1 .. h) \ drop
      /\ \A n \in (1 .. h) \ drop : n = 0 \/ \E i \in 1 .. Len(a) : a[i] = n
  BY DEF HandedRight
<1>2. /\ 1 .. h + 1 = (1 .. h) \union {h + 1} /\ h + 1 \notin 1 .. h /\ 0 \notin 1 .. h
      /\ h + 1 # 0 /\ \A n \in 1 .. h : n < h + 1
  OBVIOUS
<1>3. HandedRight(a, h + 1, h + 1, drop)
  <2>1. /\ \A i \in 1 .. Len(a) : a[i] \in (1 .. h + 1) \ drop /\ a[i] < h + 1
        /\ h + 1 \in (1 .. h + 1) \ drop /\ drop \subseteq 1 .. h + 1
    BY <1>1, <1>2
  <2>2. \A n \in (1 .. h + 1) \ drop : n = h + 1 \/ \E i \in 1 .. Len(a) : a[i] = n
    BY <1>1, <1>2
  <2> QED BY <1>1, <2>1, <2>2 DEF HandedRight
<1>4. HandedRight(a, 0, h + 1, drop \union {h + 1})
  <2>1. (1 .. h + 1) \ (drop \union {h + 1}) = (1 .. h) \ drop
    BY <1>2
  <2>2. drop \union {h + 1} \subseteq 1 .. h + 1
    BY <1>1, <1>2
  <2> QED BY <1>1, <2>1, <2>2, Zenon DEF HandedRight
<1> QED BY <1>3, <1>4

(* The device takes the byte that is being sent.                            *)
LEMMA OutputSent ==
  ASSUME TypeOK, NEW d \in Devs, OutputRight(d), SendDone(d)
  PROVE  OutputRight(d)'
<1>1. accepted[d] \in Seq(Nat) /\ sending[d] \in Nat \ {0} /\ handed[d] \in Nat
  BY OutputFacts DEF SendDone
<1>2. /\ out_hw'[d] = out_hw[d] /\ out_cpu'[d] = out_cpu[d] /\ outbuf'[d] = outbuf[d]
      /\ wrote'[d] = wrote[d] /\ handed' = handed /\ dropped' = dropped
      /\ mdev' = mdev /\ mpc' = mpc
  BY DEF SendDone, rings
<1>3. accepted'[d] = Append(accepted[d], sending[d]) /\ sending'[d] = 0
  BY TypeFacts DEF SendDone
<1>4. HandedRight(accepted'[d], 0, handed[d], dropped[d])
  BY <1>1, <1>3, OutputParts, HandedSent
<1>5. OutCount(d)' = OutCount(d)
  BY <1>2 DEF OutCount, Count
<1>6. RingRight(d, handed[d])'
  <2>1. RingRight(d, handed[d])
    BY OutputParts
  <2> QED BY <1>2, <1>5, <2>1 DEF RingRight
<1>7. HandedRight(accepted[d], sending[d], handed[d], dropped[d])'
  BY <1>2, <1>3, <1>4 DEF HandedRight, Rising
<1> QED BY <1>3, <1>6, <1>7 DEF OutputRight, HandedRight, RingRight

(* The first byte of a ring that is not empty is the next to be handed over. *)
LEMMA FirstByte ==
  ASSUME TypeOK, NEW d \in Devs, OutputRight(d), out_hw[d] # out_cpu[d]
  PROVE  outbuf[d][out_hw[d]] = handed[d] + 1
<1>1. /\ out_hw[d] \in Slots /\ out_hw[d] \in 0 .. Size - 1 /\ 0 \in 0 .. Size - 1
      /\ 1 \in 1 .. OutCount(d)
  BY OutputFacts DEF Slots
<1>2. outbuf[d][(out_hw[d] + 1 - 1) % Size] = handed[d] + 1
  BY <1>1 DEF OutputRight
<1>3. out_hw[d] + 1 - 1 = out_hw[d] + 0
  BY <1>1
<1>4. (out_hw[d] + 0) % Size =
        IF out_hw[d] + 0 < Size THEN out_hw[d] + 0 ELSE out_hw[d] + 0 - Size
  BY <1>1, PlaceValue
<1>5. (out_hw[d] + 0) % Size = out_hw[d]
  BY <1>1, <1>4
<1> QED BY <1>2, <1>3, <1>5

(* The handler writes the first byte of the ring to the register, if the    *)
(* device is ready.                                                         *)
LEMMA OutputServed ==
  ASSUME TypeOK, NEW d \in Devs, OutputRight(d), NEW next, Serve(d, next)
  PROVE  OutputRight(d)'
<1>1. /\ out_hw[d] \in Slots /\ out_cpu[d] \in Slots
      /\ OutCount(d) \in 0 .. Size - 1 /\ (OutCount(d) = 0 <=> out_hw[d] = out_cpu[d])
      /\ sending[d] \in Nat /\ handed[d] \in Nat /\ accepted[d] \in Seq(Nat)
  BY OutputFacts
<1>2. /\ accepted' = accepted /\ outbuf' = outbuf /\ out_cpu' = out_cpu /\ wrote' = wrote
      /\ mdev' = mdev /\ mpc' = mpc
  BY DEF Serve
<1>3. snap'[d].cts = FALSE
  BY TypeFacts DEF Serve, NoSnapshot
<1>4. CASE ~(snap[d].cts /\ out_hw[d] # out_cpu[d])
  <2>1. sending' = sending /\ out_hw' = out_hw /\ handed' = handed /\ dropped' = dropped
    BY <1>4 DEF Serve, SendNext
  <2>2. mdev' = d /\ mpc' \in {"disable", "store"} => OutCount(d) < Size - 1
    BY <1>2 DEF OutputRight
  <2> QED BY <1>2, <1>3, <2>1, <2>2, OutputSame
<1>5. CASE snap[d].cts /\ out_hw[d] # out_cpu[d]
  <2> DEFINE n == OutCount(d)
             h == handed[d]
  <2>1. /\ out_hw'[d] = succ(out_hw[d]) /\ handed'[d] = h + 1
        /\ \/ sending'[d] = outbuf[d][out_hw[d]] /\ dropped'[d] = dropped[d]
           \/ /\ dropped'[d] = dropped[d] \union {outbuf[d][out_hw[d]]}
              /\ sending'[d] = sending[d]
    BY <1>5, TypeFacts DEF Serve, SendNext
  <2>2. sending[d] = 0 /\ outbuf[d][out_hw[d]] = h + 1
    BY <1>5, FirstByte DEF OutputRight
  <2>3. n \in 1 .. Size - 1
    BY <1>1, <1>5
  <2>4. /\ \A i \in 1 .. n : outbuf[d][(out_hw[d] + i - 1) % Size] = h + i
        /\ wrote[d] = h + n
        /\ mdev = d /\ mpc \in {"disable", "store"} => n < Size - 1
    BY DEF OutputRight
  <2>5. HandedRight(accepted[d], sending'[d], handed'[d], dropped'[d])
    <3>1. HandedRight(accepted[d], 0, h, dropped[d])
      BY <2>2, OutputParts
    <3>2. /\ HandedRight(accepted[d], h + 1, h + 1, dropped[d])
          /\ HandedRight(accepted[d], 0, h + 1, dropped[d] \union {h + 1})
      BY <1>1, <3>1, HandedOver
    <3> QED BY <2>1, <2>2, <3>2
  <2>6. OutCount(d)' = n - 1
    <3>1. Count(out_cpu[d], succ(out_hw[d])) = Count(out_cpu[d], out_hw[d]) - 1
      BY <1>1, <1>5, CountShrinks
    <3> QED BY <1>2, <2>1, <3>1 DEF OutCount
  <2>10. \A i \in 1 .. n - 1 :
           (succ(out_hw[d]) + i - 1) % Size = (out_hw[d] + (i + 1) - 1) % Size
    BY <1>1, <1>5, CountShrinks DEF OutCount
  <2>11. h \in Nat
    BY <1>1
  <2>14. handed'[d] = h + 1
    BY <2>1
  <2> HIDE DEF n, h
  <2>12. ASSUME NEW i \in 1 .. n - 1
         PROVE  outbuf'[d][(out_hw'[d] + i - 1) % Size] = (h + 1) + i
    <3>1. i + 1 \in 1 .. n /\ h + (i + 1) = (h + 1) + i
      BY <2>3, <2>11
    <3>2. outbuf[d][(out_hw[d] + (i + 1) - 1) % Size] = h + (i + 1)
      BY <2>4, <3>1
    <3>3. (out_hw'[d] + i - 1) % Size = (out_hw[d] + (i + 1) - 1) % Size
      BY <2>1, <2>10
    <3> QED BY <1>2, <3>1, <3>2, <3>3
  <2>13. wrote'[d] = (h + 1) + (n - 1) /\ n - 1 < Size - 1
    BY <1>2, <2>3, <2>4, <2>11
  <2>15. RingRight(d, handed[d])'
    BY <1>2, <2>6, <2>12, <2>13, <2>14 DEF RingRight
  <2>16. HandedRight(accepted[d], sending[d], handed[d], dropped[d])'
    BY <1>2, <2>5 DEF HandedRight, Rising
  <2> QED
    BY <1>3, <2>15, <2>16 DEF OutputRight, HandedRight, RingRight
<1> QED BY <1>4, <1>5

(* The writer stores its byte behind the others, in a free slot.            *)
LEMMA OutputWritten ==
  ASSUME TypeOK, WriteStore, OutputRight(mdev)
  PROVE  \A d \in {mdev} : OutputRight(d)'
<1> SUFFICES ASSUME NEW d \in {mdev} PROVE OutputRight(d)'
  OBVIOUS
<1>1. d \in Devs /\ d = mdev /\ OutputRight(d)
  BY TypeFacts
<1>2. /\ out_hw[d] \in Slots /\ out_cpu[d] \in Slots
      /\ OutCount(d) \in 0 .. Size - 1 /\ handed[d] \in Nat /\ wrote[d] \in Nat
      /\ outbuf[d] \in [Slots -> Nat]
  BY <1>1, OutputFacts, TypeFacts
<1>3. /\ accepted' = accepted /\ sending' = sending /\ out_hw' = out_hw
      /\ handed' = handed /\ dropped' = dropped
      /\ snap' = snap /\ mpc' = "return"
  BY DEF WriteStore, hardware
<1>4. /\ wrote'[d] = wrote[d] + 1 /\ out_cpu'[d] = succ(out_cpu[d])
      /\ outbuf'[d] = [outbuf[d] EXCEPT ![out_cpu[d]] = wrote[d] + 1]
  BY <1>1, TypeFacts DEF WriteStore
<1>5. OutCount(d) < Size - 1
  BY <1>1 DEF OutputRight, WriteStore
<1>6. OutCount(d)' = OutCount(d) + 1
  <2>1. Count(succ(out_cpu[d]), out_hw[d]) = Count(out_cpu[d], out_hw[d]) + 1
    BY <1>2, <1>5, CountGrows DEF OutCount
  <2> QED BY <1>3, <1>4, <2>1 DEF OutCount
<1> DEFINE n == OutCount(d)
           h == handed[d]
<1>7. /\ \A i \in 1 .. n : outbuf[d][(out_hw[d] + i - 1) % Size] = h + i
      /\ wrote[d] = h + n
      /\ snap[d].cts => sending[d] = 0
      /\ HandedRight(accepted[d], sending[d], handed[d], dropped[d])
  BY <1>1, OutputParts DEF OutputRight
<1>8. /\ (out_hw[d] + n) % Size = out_cpu[d]
      /\ \A i \in 1 .. n : (out_hw[d] + i - 1) % Size # out_cpu[d]
      /\ \A i \in 1 .. n : (out_hw[d] + i - 1) % Size \in Slots
  <2>1. ASSUME NEW i \in 1 .. n PROVE (out_hw[d] + i - 1) % Size \in Slots
    <3>1. i - 1 \in 0 .. Size - 1 /\ out_hw[d] + i - 1 = out_hw[d] + (i - 1)
      BY <1>2 DEF Slots
    <3> QED BY <1>2, <3>1, PlaceValue
  <2> QED BY <1>2, <2>1, CountFacts DEF OutCount
<1>10. n \in Nat /\ h \in Nat
  BY <1>2
<1>11. OutCount(d)' = n + 1 /\ handed'[d] = h
  BY <1>3, <1>6
<1> HIDE DEF n, h
<1>12. ASSUME NEW i \in 1 .. n + 1
       PROVE  outbuf'[d][(out_hw[d] + i - 1) % Size] = h + i
  <2>1. CASE i \in 1 .. n
    <3> DEFINE s == (out_hw[d] + i - 1) % Size
    <3>1. s # out_cpu[d] /\ s \in Slots /\ outbuf[d][s] = h + i
      BY <1>7, <1>8, <2>1
    <3> HIDE DEF s
    <3>2. outbuf'[d][s] = outbuf[d][s]
      BY <1>2, <1>4, <3>1
    <3> QED BY <3>1, <3>2 DEF s
  <2>2. CASE i = n + 1
    <3>1. out_hw[d] + i - 1 = out_hw[d] + n
      BY <1>2, <1>10, <2>2 DEF Slots
    <3>2. (out_hw[d] + i - 1) % Size = out_cpu[d]
      BY <1>8, <3>1
    <3>3. outbuf'[d][out_cpu[d]] = wrote[d] + 1
      BY <1>2, <1>4
    <3>4. wrote[d] + 1 = h + i
      BY <1>7, <1>10, <2>2
    <3> QED BY <3>2, <3>3, <3>4
  <2> QED BY <1>10, <2>1, <2>2
<1>13. wrote'[d] = h + (n + 1)
  BY <1>4, <1>7, <1>10
<1>14. RingRight(d, handed[d])'
  BY <1>3, <1>11, <1>12, <1>13 DEF RingRight
<1>15. HandedRight(accepted[d], sending[d], handed[d], dropped[d])'
  BY <1>3, <1>7 DEF HandedRight, Rising
<1> QED BY <1>3, <1>7, <1>14, <1>15 DEF OutputRight, HandedRight, RingRight

(* Every step keeps the way out right.                                      *)
LEMMA OutputKept ==
  ASSUME TypeOK, Masked, \A d \in Devs : OutputRight(d), Next
  PROVE  \A d \in Devs : OutputRight(d)'
<1> SUFFICES ASSUME NEW d \in Devs PROVE OutputRight(d)'
  OBVIOUS
<1>1. /\ OutputRight(d) /\ (snap[d].cts => sending[d] = 0)
      /\ mdev = d /\ mpc \in {"disable", "store"} => OutCount(d) < Size - 1
  BY DEF OutputRight
<1>2. CASE Edge \/ TakeInterrupt \/ HandlerDisable \/ GetInterrupts \/ HandlerEnable
  <2>1. /\ accepted' = accepted /\ sending' = sending /\ wrote' = wrote
        /\ handed' = handed /\ dropped' = dropped
        /\ out_hw' = out_hw /\ out_cpu' = out_cpu /\ outbuf' = outbuf
        /\ snap' = snap /\ mdev' = mdev /\ mpc' = mpc
    BY <1>2 DEF Edge, TakeInterrupt, HandlerDisable, GetInterrupts, HandlerEnable,
                hardware, rings, history
  <2> QED BY <1>1, <2>1, OutputSame
<1>3. ASSUME NEW e \in Devs, ByteArrives(e) PROVE OutputRight(d)'
  <2>1. /\ accepted' = accepted /\ sending' = sending /\ wrote' = wrote
        /\ handed' = handed /\ dropped' = dropped
        /\ out_hw' = out_hw /\ out_cpu' = out_cpu /\ outbuf' = outbuf
        /\ snap' = snap /\ mdev' = mdev /\ mpc' = mpc
    BY <1>3 DEF ByteArrives, rings
  <2> QED BY <1>1, <2>1, OutputSame
<1>4. ASSUME NEW e \in Devs, SendDone(e) PROVE OutputRight(d)'
  <2>1. CASE e = d
    BY <1>1, <1>4, <2>1, OutputSent
  <2>2. CASE e # d
    <3>1. accepted'[d] = accepted[d] /\ sending'[d] = sending[d]
      BY <1>4, <2>2, TypeFacts DEF SendDone
    <3>2. /\ handed' = handed /\ dropped' = dropped
          /\ wrote' = wrote /\ out_hw' = out_hw /\ out_cpu' = out_cpu /\ outbuf' = outbuf
          /\ snap' = snap /\ mdev' = mdev /\ mpc' = mpc
      BY <1>4 DEF SendDone, rings
    <3> QED BY <1>1, <3>1, <3>2, OutputSame
  <2> QED BY <2>1, <2>2
<1>5. ASSUME NEW e \in Devs, NEW next, ReadRegister(e, next) PROVE OutputRight(d)'
  <2>1. snap'[d].cts => sending[d] = 0
    <3>1. CASE e = d
      BY <1>5, <3>1, TypeFacts DEF ReadRegister
    <3>2. CASE e # d
      <4>1. snap'[d] = snap[d]
        BY <1>5, <3>2, TypeFacts DEF ReadRegister
      <4> QED BY <1>1, <4>1
    <3> QED BY <3>1, <3>2
  <2>2. /\ accepted' = accepted /\ sending' = sending /\ wrote' = wrote
        /\ handed' = handed /\ dropped' = dropped
        /\ out_hw' = out_hw /\ out_cpu' = out_cpu /\ outbuf' = outbuf
        /\ mdev' = mdev /\ mpc' = mpc
    BY <1>5 DEF ReadRegister, rings, history
  <2> QED BY <1>1, <2>1, <2>2, OutputSame
<1>6. ASSUME NEW e \in Devs, NEW next, Serve(e, next) PROVE OutputRight(d)'
  <2>1. CASE e = d
    BY <1>1, <1>6, <2>1, OutputServed
  <2>2. CASE e # d
    <3>1. sending'[d] = sending[d] /\ out_hw'[d] = out_hw[d] /\ snap'[d] = snap[d]
      BY <1>6, <2>2, TypeFacts DEF Serve, SendNext
    <3>3. handed'[d] = handed[d] /\ dropped'[d] = dropped[d]
      BY <1>6, <2>2, TypeFacts DEF Serve, SendNext
    <3>2. /\ accepted' = accepted /\ wrote' = wrote
          /\ out_cpu' = out_cpu /\ outbuf' = outbuf
          /\ mdev' = mdev /\ mpc' = mpc
      BY <1>6 DEF Serve
    <3> QED BY <1>1, <3>1, <3>2, <3>3, OutputSame
  <2> QED BY <2>1, <2>2
<1>7. CASE Handler
  BY <1>2, <1>5, <1>6, <1>7
     DEF Handler, ReadKeyboard, ReadMouse, ServeKeyboard, ServeMouse, Devs
<1>8. CASE Main
  <2>1. CASE Boot
    <3>1. /\ accepted' = accepted /\ sending' = sending /\ wrote' = wrote
          /\ handed' = handed /\ dropped' = dropped
          /\ outbuf' = outbuf /\ snap' = snap /\ mpc' = "idle"
      BY <2>1 DEF Boot, hardware, history
    <3>2. out_hw'[d] = out_hw[d] /\ out_cpu'[d] = out_cpu[d]
      BY <2>1 DEF Boot, EachDev, Masked
    <3> QED BY <1>1, <3>1, <3>2, OutputSame
  <2>2. CASE ReadFetch \/ ReadAdvance \/ WriteEnable
    <3>1. /\ accepted' = accepted /\ sending' = sending /\ wrote' = wrote
          /\ handed' = handed /\ dropped' = dropped
          /\ out_hw' = out_hw /\ out_cpu' = out_cpu /\ outbuf' = outbuf
          /\ snap' = snap /\ mpc' \notin {"disable", "store"}
      BY <2>2 DEF ReadFetch, ReadAdvance, WriteEnable, hardware, rings, history
    <3> QED BY <1>1, <3>1, OutputSame
  <2>3. CASE WriteRoom
    <3>1. /\ accepted' = accepted /\ sending' = sending /\ wrote' = wrote
          /\ handed' = handed /\ dropped' = dropped
          /\ out_hw' = out_hw /\ out_cpu' = out_cpu /\ outbuf' = outbuf
          /\ snap' = snap /\ mdev' = mdev
      BY <2>3 DEF WriteRoom, hardware, rings, history
    <3>2. mdev = d => OutCount(d) < Size - 1
      <4> SUFFICES ASSUME mdev = d PROVE OutCount(d) < Size - 1
        OBVIOUS
      <4>1. out_hw[d] \in 0 .. Size - 1 /\ out_cpu[d] \in 0 .. Size - 1
        BY OutputFacts DEF Slots
      <4>2. out_hw[d] # succ(out_cpu[d])
        BY <2>3 DEF WriteRoom
      <4>3. succ(out_cpu[d]) = IF out_cpu[d] = Size - 1 THEN 0 ELSE out_cpu[d] + 1
        BY <4>1, SuccValue DEF Slots
      <4> QED BY <4>1, <4>2, <4>3 DEF OutCount, Count
    <3> QED BY <1>1, <3>1, <3>2, OutputSame
  <2>4. CASE WriteDisable
    <3>1. /\ accepted' = accepted /\ sending' = sending /\ wrote' = wrote
          /\ handed' = handed /\ dropped' = dropped
          /\ out_hw' = out_hw /\ out_cpu' = out_cpu /\ outbuf' = outbuf
          /\ snap' = snap /\ mdev' = mdev /\ mpc = "disable"
      BY <2>4 DEF WriteDisable, hardware, rings, history
    <3> QED BY <1>1, <3>1, OutputSame
  <2>5. CASE WriteStore
    <3>1. CASE mdev = d
      BY <1>1, <2>5, <3>1, OutputWritten
    <3>2. CASE mdev # d
      <4>1. /\ out_cpu'[d] = out_cpu[d] /\ outbuf'[d] = outbuf[d] /\ wrote'[d] = wrote[d]
        BY <2>5, <3>2, TypeFacts DEF WriteStore
      <4>2. /\ accepted' = accepted /\ sending' = sending /\ out_hw' = out_hw
            /\ handed' = handed /\ dropped' = dropped
            /\ snap' = snap /\ mpc' = "return"
        BY <2>5 DEF WriteStore, hardware
      <4> QED BY <1>1, <4>1, <4>2, OutputSame
    <3> QED BY <3>1, <3>2
  <2>6. ASSUME NEW e \in Devs, ReadBegin(e) \/ WriteBegin(e) PROVE OutputRight(d)'
    <3>1. /\ accepted' = accepted /\ sending' = sending /\ wrote' = wrote
          /\ handed' = handed /\ dropped' = dropped
          /\ out_hw' = out_hw /\ out_cpu' = out_cpu /\ outbuf' = outbuf
          /\ snap' = snap /\ mpc' \notin {"disable", "store"}
      BY <2>6 DEF ReadBegin, WriteBegin, hardware, rings, history
    <3> QED BY <1>1, <3>1, OutputSame
  <2> QED BY <1>8, <2>1, <2>2, <2>3, <2>4, <2>5, <2>6 DEF Main
<1> QED BY <1>2, <1>3, <1>4, <1>7, <1>8 DEF Next

-----------------------------------------------------------------------------
(* The way in.                                                              *)

LEMMA InputSame ==
  ASSUME NEW d \in Devs, InputRight(d),
         taken'[d] = taken[d], in_hw'[d] = in_hw[d], in_cpu'[d] = in_cpu[d],
         inbuf'[d] = inbuf[d], arrived'[d] = arrived[d],
         Held(d)' <=> Held(d), Held(d) => snap'[d] = snap[d],
         d \in recvReg' \union recvPulse' <=> d \in recvReg \union recvPulse,
         d \notin recvReg' \intersect recvPulse',
         mdev' = d /\ mpc' \in {"fetch", "advance"} => InCount(d) > 0,
         mdev' = d /\ mpc' = "advance" => result' = Returned(d) + 1
  PROVE  InputRight(d)'
<1>1. InCount(d)' = InCount(d) /\ Returned(d)' = Returned(d)
  BY DEF InCount, Count, Returned
<1>2. Bit(Held(d))' = Bit(Held(d))
  BY DEF Bit
<1>3. Bit(d \in recvReg \union recvPulse)' = Bit(d \in recvReg \union recvPulse)
  BY DEF Bit
<1>4. arrived'[d] = Returned(d)' + InCount(d)' + Bit(Held(d))'
                      + Bit(d \in recvReg \union recvPulse)'
  BY <1>1, <1>2, <1>3 DEF InputRight
<1>5. Held(d)' => snap'[d].byte = Returned(d)' + InCount(d)' + 1
  BY <1>1 DEF InputRight
<1> QED BY <1>1, <1>4, <1>5 DEF InputRight

LEMMA InputFacts ==
  ASSUME TypeOK, NEW d \in Devs
  PROVE  /\ in_hw[d] \in Slots /\ in_cpu[d] \in Slots
         /\ InCount(d) \in 0 .. Size - 1 /\ (InCount(d) = 0 <=> in_hw[d] = in_cpu[d])
         /\ arrived[d] \in Nat /\ snap[d].byte \in Nat
         /\ taken[d] \in Seq(Nat) /\ Returned(d) \in Nat
<1>1. /\ in_hw[d] \in Slots /\ in_cpu[d] \in Slots /\ taken[d] \in Seq(Nat)
      /\ arrived[d] \in Nat /\ snap[d] \in Snapshot
  BY TypeFacts
<1>2. InCount(d) \in 0 .. Size - 1 /\ (InCount(d) = 0 <=> in_hw[d] = in_cpu[d])
  BY <1>1, CountFacts DEF InCount
<1> QED BY <1>1, <1>2 DEF Returned, Snapshot

(* A byte arrives in the register, which is free.                           *)
LEMMA InputArrives ==
  ASSUME TypeOK, NEW d \in Devs, InputRight(d), ByteArrives(d), d \notin overrun'
  PROVE  InputRight(d)'
<1>1. d \notin recvReg /\ d \notin recvPulse /\ recvReg' = recvReg /\ d \in recvPulse'
  BY DEF ByteArrives
<1>2. /\ taken' = taken /\ in_hw' = in_hw /\ in_cpu' = in_cpu /\ inbuf' = inbuf
      /\ snap' = snap /\ hpc' = hpc /\ mdev' = mdev /\ mpc' = mpc /\ result' = result
  BY DEF ByteArrives, rings
<1>3. arrived'[d] = arrived[d] + 1
  BY TypeFacts DEF ByteArrives
<1>4. InCount(d)' = InCount(d) /\ Returned(d)' = Returned(d) /\ (Held(d)' <=> Held(d))
  BY <1>2 DEF InCount, Returned, Held
<1>5. InCount(d) \in Nat /\ Returned(d) \in Nat /\ Bit(Held(d)) \in {0, 1}
  BY InputFacts DEF Bit
<1>6. Bit(Held(d))' = Bit(Held(d))
  BY <1>4 DEF Bit
<1>7. Bit(d \in recvReg \union recvPulse) = 0 /\ Bit(d \in recvReg \union recvPulse)' = 1
  BY <1>1 DEF Bit
<1>8. arrived[d] = Returned(d) + InCount(d) + Bit(Held(d)) + 0
  BY <1>7 DEF InputRight
<1>9. arrived'[d] = Returned(d)' + InCount(d)' + Bit(Held(d))'
                      + Bit(d \in recvReg \union recvPulse)'
  BY <1>3, <1>4, <1>5, <1>6, <1>7, <1>8
<1>10. Held(d)' => snap'[d].byte = Returned(d)' + InCount(d)' + 1
  BY <1>2, <1>4 DEF InputRight
<1> QED BY <1>1, <1>2, <1>4, <1>9, <1>10 DEF InputRight

(* The handler reads the register: the byte, if there is one, is in its     *)
(* local, and the register is free again.                                   *)
LEMMA InputFetched ==
  ASSUME TypeOK, NEW d \in Devs, InputRight(d), NEW next, ReadRegister(d, next),
         ~Held(d), next = "servekbd" \/ (d = "kbd" /\ next = "readmouse")
  PROVE  InputRight(d)'
<1>1. /\ taken' = taken /\ in_hw' = in_hw /\ in_cpu' = in_cpu /\ inbuf' = inbuf
      /\ arrived' = arrived /\ recvPulse' = {} /\ recvReg' = (recvReg \ {d}) \union recvPulse
      /\ hpc' = next /\ mdev' = mdev /\ mpc' = mpc /\ result' = result
  BY DEF ReadRegister, Clock, rings
<1>2. snap'[d].recv = (d \in recvReg) /\ snap'[d].byte = arrived[d]
  BY TypeFacts DEF ReadRegister
<1>3. Held(d)' <=> d \in recvReg
  BY <1>1, <1>2 DEF Held, Devs
<1>4. InCount(d)' = InCount(d) /\ Returned(d)' = Returned(d)
  BY <1>1 DEF InCount, Returned
<1>5. InCount(d) \in Nat /\ Returned(d) \in Nat
  BY InputFacts
<1>6. Bit(Held(d)) = 0
  BY DEF Bit
<1>7. arrived[d] = Returned(d) + InCount(d) + 0 + Bit(d \in recvReg \union recvPulse)
  BY <1>6 DEF InputRight
<1>8. /\ arrived'[d] = Returned(d)' + InCount(d)' + Bit(Held(d))'
                         + Bit(d \in recvReg \union recvPulse)'
      /\ Held(d)' => snap'[d].byte = Returned(d)' + InCount(d)' + 1
  <2>1. CASE d \in recvReg
    <3>1. d \notin recvPulse
      BY <2>1 DEF InputRight
    <3>2. /\ Bit(d \in recvReg \union recvPulse) = 1
          /\ Bit(d \in recvReg \union recvPulse)' = 0 /\ Bit(Held(d))' = 1
      BY <1>1, <1>3, <2>1, <3>1 DEF Bit
    <3> QED BY <1>1, <1>2, <1>4, <1>5, <1>7, <3>2
  <2>2. CASE d \notin recvReg
    <3>1. /\ Bit(d \in recvReg \union recvPulse)' = Bit(d \in recvReg \union recvPulse)
          /\ Bit(Held(d))' = 0
      BY <1>1, <1>3, <2>2 DEF Bit
    <3> QED BY <1>1, <1>3, <1>4, <1>7, <2>2, <3>1
  <2> QED BY <2>1, <2>2
<1> QED BY <1>1, <1>4, <1>8 DEF InputRight

(* The handler stores the byte behind the others; if that overfills the     *)
(* ring, nothing is claimed any more.                                       *)
LEMMA InputStored ==
  ASSUME TypeOK, NEW d \in Devs, InputRight(d), NEW next, Serve(d, next),
         Held(d) <=> snap[d].recv, ~Held(d)', d \notin wrapped'
  PROVE  InputRight(d)'
<1>1. /\ in_hw[d] \in Slots /\ in_cpu[d] \in Slots
      /\ InCount(d) \in 0 .. Size - 1 /\ Returned(d) \in Nat
      /\ inbuf[d] \in [Slots -> Nat]
  BY InputFacts, TypeFacts
<1>2. /\ taken' = taken /\ in_cpu' = in_cpu /\ arrived' = arrived
      /\ recvReg' = recvReg /\ recvPulse' = recvPulse
      /\ mdev' = mdev /\ mpc' = mpc /\ result' = result
  BY DEF Serve
<1>3. Returned(d)' = Returned(d)
  BY <1>2 DEF Returned
<1>4. /\ \A i \in 1 .. Returned(d) : taken[d][i] = i
      /\ \A i \in 1 .. InCount(d) : inbuf[d][(in_cpu[d] + i - 1) % Size] = Returned(d) + i
      /\ Held(d) => snap[d].byte = Returned(d) + InCount(d) + 1
      /\ arrived[d] = Returned(d) + InCount(d) + Bit(Held(d)) + Bit(d \in recvReg \union recvPulse)
      /\ d \notin recvReg \intersect recvPulse
      /\ mdev = d /\ mpc \in {"fetch", "advance"} => InCount(d) > 0
      /\ mdev = d /\ mpc = "advance" => result = Returned(d) + 1
  BY DEF InputRight
<1>5. Bit(Held(d))' = 0 /\ Bit(d \in recvReg \union recvPulse) \in {0, 1}
      /\ Bit(d \in recvReg \union recvPulse)' = Bit(d \in recvReg \union recvPulse)
  BY <1>2 DEF Bit
<1>6. CASE ~Held(d)
  <2>1. in_hw' = in_hw /\ inbuf' = inbuf
    BY <1>6 DEF Serve, StoreReceived
  <2> QED BY <1>2, <1>4, <1>6, <2>1, InputSame
<1>7. CASE Held(d)
  <2> DEFINE n == InCount(d)
             t == Returned(d)
             r == Bit(d \in recvReg \union recvPulse)
  <2>1. /\ inbuf'[d] = [inbuf[d] EXCEPT ![in_hw[d]] = snap[d].byte]
        /\ in_hw'[d] = succ(in_hw[d])
    BY <1>7, TypeFacts DEF Serve, StoreReceived
  <2>2. n < Size - 1
    <3>1. succ(in_hw[d]) # in_cpu[d]
      BY <1>7 DEF Serve, StoreReceived
    <3>2. succ(in_hw[d]) = IF in_hw[d] = Size - 1 THEN 0 ELSE in_hw[d] + 1
      BY <1>1, SuccValue
    <3>3. in_hw[d] \in 0 .. Size - 1 /\ in_cpu[d] \in 0 .. Size - 1
      BY <1>1 DEF Slots
    <3> QED BY <3>1, <3>2, <3>3 DEF InCount, Count
  <2>3. InCount(d)' = n + 1
    <3>1. Count(succ(in_hw[d]), in_cpu[d]) = Count(in_hw[d], in_cpu[d]) + 1
      BY <1>1, <2>2, CountGrows DEF InCount
    <3> QED BY <1>2, <2>1, <3>1 DEF InCount
  <2>4. /\ (in_cpu[d] + n) % Size = in_hw[d]
        /\ \A i \in 1 .. n : (in_cpu[d] + i - 1) % Size # in_hw[d]
        /\ \A i \in 1 .. n : (in_cpu[d] + i - 1) % Size \in Slots
    <3>1. ASSUME NEW i \in 1 .. n PROVE (in_cpu[d] + i - 1) % Size \in Slots
      <4>1. i - 1 \in 0 .. Size - 1 /\ in_cpu[d] + i - 1 = in_cpu[d] + (i - 1)
        BY <1>1 DEF Slots
      <4> QED BY <1>1, <4>1, PlaceValue
    <3> QED BY <1>1, <3>1, CountFacts DEF InCount
  <2>5. /\ snap[d].byte = t + n + 1 /\ arrived[d] = t + n + 1 + r
        /\ \A i \in 1 .. n : inbuf[d][(in_cpu[d] + i - 1) % Size] = t + i
    BY <1>4, <1>7 DEF Bit
  <2>6. n \in Nat /\ t \in Nat /\ r \in Nat
    BY <1>1, <1>5
  <2>7. n + 1 > 0 /\ t + (n + 1) + 0 + r = t + n + 1 + r
    BY <2>6
  <2>8. /\ Returned(d)' = t /\ Bit(d \in recvReg \union recvPulse)' = r
        /\ \A i \in 1 .. t : taken[d][i] = i
        /\ mdev = d /\ mpc = "advance" => result = t + 1
    BY <1>3, <1>4, <1>5
  <2> HIDE DEF n, t, r
  <2>9. ASSUME NEW i \in 1 .. n + 1
        PROVE  inbuf'[d][(in_cpu[d] + i - 1) % Size] = t + i
    <3>1. CASE i \in 1 .. n
      <4> DEFINE s == (in_cpu[d] + i - 1) % Size
      <4>1. s # in_hw[d] /\ s \in Slots /\ inbuf[d][s] = t + i
        BY <2>4, <2>5, <3>1
      <4> HIDE DEF s
      <4>2. inbuf'[d][s] = inbuf[d][s]
        BY <1>1, <2>1, <4>1
      <4> QED BY <4>1, <4>2 DEF s
    <3>2. CASE i = n + 1
      <4>1. in_cpu[d] + i - 1 = in_cpu[d] + n
        BY <1>1, <2>6, <3>2 DEF Slots
      <4>2. (in_cpu[d] + i - 1) % Size = in_hw[d]
        BY <2>4, <4>1
      <4>3. inbuf'[d][in_hw[d]] = snap[d].byte
        BY <1>1, <2>1
      <4>4. snap[d].byte = t + i
        BY <2>5, <2>6, <3>2
      <4> QED BY <4>2, <4>3, <4>4
    <3> QED BY <2>6, <3>1, <3>2
  <2>10. arrived'[d] = t + (n + 1) + 0 + r
    BY <1>2, <2>5, <2>7
  <2> QED
    BY <1>2, <1>4, <1>5, <2>3, <2>7, <2>8, <2>9, <2>10 DEF InputRight
<1> QED BY <1>6, <1>7

(* The main program returns the first byte of the ring.                     *)
LEMMA InputTaken ==
  ASSUME TypeOK, NEW d \in Devs, InputRight(d), ReadAdvance, d = mdev
  PROVE  InputRight(d)'
<1> DEFINE n == InCount(d)
           t == Returned(d)
           h == Bit(Held(d))
           r == Bit(d \in recvReg \union recvPulse)
<1>1. /\ in_hw[d] \in Slots /\ in_cpu[d] \in Slots /\ n \in 0 .. Size - 1 /\ t \in Nat
      /\ (n = 0 <=> in_hw[d] = in_cpu[d]) /\ taken[d] \in Seq(Nat) /\ result \in Nat
  BY InputFacts, TypeFacts
<1>2. /\ in_hw' = in_hw /\ inbuf' = inbuf /\ arrived' = arrived
      /\ recvReg' = recvReg /\ recvPulse' = recvPulse /\ snap' = snap /\ hpc' = hpc
      /\ mpc' = "idle"
  BY DEF ReadAdvance, hardware
<1>3. in_cpu'[d] = succ(in_cpu[d]) /\ taken'[d] = Append(taken[d], result)
  BY TypeFacts DEF ReadAdvance
<1>4. n > 0 /\ result = t + 1
  BY DEF InputRight, ReadAdvance
<1>5. InCount(d)' = n - 1
  <2>1. Count(in_hw[d], succ(in_cpu[d])) = Count(in_hw[d], in_cpu[d]) - 1
    BY <1>1, <1>4, CountShrinks
  <2> QED BY <1>2, <1>3, <2>1 DEF InCount
<1>6. Returned(d)' = t + 1
  BY <1>1, <1>3 DEF Returned
<1>7. (Held(d)' <=> Held(d)) /\ Bit(Held(d))' = h /\ h \in {0, 1}
      /\ Bit(d \in recvReg \union recvPulse)' = r /\ r \in {0, 1}
  BY <1>2 DEF Held, Bit
<1>8. \A i \in 1 .. n - 1 :
        (succ(in_cpu[d]) + i - 1) % Size = (in_cpu[d] + (i + 1) - 1) % Size
  BY <1>1, <1>4, CountShrinks DEF InCount
<1>9. /\ \A i \in 1 .. t : taken[d][i] = i
      /\ \A i \in 1 .. n : inbuf[d][(in_cpu[d] + i - 1) % Size] = t + i
      /\ Held(d) => snap[d].byte = t + n + 1
      /\ arrived[d] = t + n + h + r
      /\ d \notin recvReg \intersect recvPulse
  BY DEF InputRight
<1>10. ASSUME NEW i \in 1 .. t + 1 PROVE taken'[d][i] = i
  <2>1. CASE i \in 1 .. t
    <3>1. taken'[d][i] = taken[d][i]
      BY <1>1, <1>3, <2>1 DEF Returned
    <3> QED BY <1>9, <2>1, <3>1
  <2>2. CASE i = t + 1
    <3>1. taken'[d][i] = result
      BY <1>1, <1>3, <2>2 DEF Returned
    <3> QED BY <1>4, <2>2, <3>1
  <2> QED BY <1>1, <2>1, <2>2
<1> HIDE DEF n, t, h, r
<1>11. ASSUME NEW i \in 1 .. n - 1
       PROVE  inbuf'[d][(in_cpu'[d] + i - 1) % Size] = (t + 1) + i
  <2>1. i + 1 \in 1 .. n /\ t + (i + 1) = (t + 1) + i
    BY <1>1
  <2>2. inbuf[d][(in_cpu[d] + (i + 1) - 1) % Size] = t + (i + 1)
    BY <1>9, <2>1
  <2>3. (in_cpu'[d] + i - 1) % Size = (in_cpu[d] + (i + 1) - 1) % Size
    BY <1>3, <1>8
  <2> QED BY <1>2, <2>1, <2>2, <2>3
<1>12. arrived'[d] = (t + 1) + (n - 1) + h + r
  BY <1>1, <1>2, <1>7, <1>9
<1>13. Held(d) => snap'[d].byte = (t + 1) + (n - 1) + 1
  BY <1>1, <1>2, <1>9
<1> QED
  BY <1>2, <1>5, <1>6, <1>7, <1>9, <1>10, <1>11, <1>12, <1>13 DEF InputRight

(* Every step keeps the way in right.                                       *)
LEMMA InputKept ==
  ASSUME TypeOK, Masked, \A d \in Devs \ (overrun \union wrapped) : InputRight(d), Next
  PROVE  \A d \in Devs \ (overrun' \union wrapped') : InputRight(d)'
<1> SUFFICES ASSUME NEW d \in Devs, d \notin overrun', d \notin wrapped'
             PROVE  InputRight(d)'
  OBVIOUS
<1>1. overrun \subseteq overrun' /\ wrapped \subseteq wrapped'
  <2>1. CASE Edge \/ TakeInterrupt \/ \E e \in Devs : ByteArrives(e) \/ SendDone(e)
    BY <2>1 DEF Edge, TakeInterrupt, ByteArrives, SendDone, history
  <2>2. CASE Handler
    BY <2>2 DEF Handler, HandlerDisable, ReadKeyboard, ReadMouse, ReadRegister,
                ServeKeyboard, ServeMouse, Serve, StoreReceived, GetInterrupts,
                HandlerEnable, history
  <2>3. CASE Main
    BY <2>3 DEF Main, Boot, ReadFetch, ReadAdvance, WriteRoom, WriteDisable, WriteStore,
                WriteEnable, ReadBegin, WriteBegin, history
  <2> QED BY <2>1, <2>2, <2>3 DEF Next
<1>2. /\ InputRight(d) /\ d \notin recvReg \intersect recvPulse
      /\ mdev = d /\ mpc \in {"fetch", "advance"} => InCount(d) > 0
      /\ mdev = d /\ mpc = "advance" => result = Returned(d) + 1
  BY <1>1 DEF InputRight
<1>3. CASE Edge
  <2>1. /\ taken' = taken /\ in_hw' = in_hw /\ in_cpu' = in_cpu /\ inbuf' = inbuf
        /\ arrived' = arrived /\ snap' = snap /\ hpc' = hpc
        /\ mdev' = mdev /\ mpc' = mpc /\ result' = result
        /\ recvReg' = recvReg \union recvPulse /\ recvPulse' = {}
    BY <1>3 DEF Edge, Clock, rings
  <2>2. Held(d)' <=> Held(d)
    BY <2>1 DEF Held
  <2> QED BY <1>2, <2>1, <2>2, InputSame
<1>4. CASE TakeInterrupt \/ HandlerDisable \/ GetInterrupts \/ HandlerEnable
  <2>1. /\ taken' = taken /\ in_hw' = in_hw /\ in_cpu' = in_cpu /\ inbuf' = inbuf
        /\ arrived' = arrived /\ snap' = snap
        /\ mdev' = mdev /\ mpc' = mpc /\ result' = result
        /\ recvReg' = recvReg /\ recvPulse' = recvPulse
    BY <1>4 DEF TakeInterrupt, HandlerDisable, GetInterrupts, HandlerEnable,
                hardware, rings, history
  <2>2. ~Held(d) /\ ~Held(d)'
    BY <1>4 DEF TakeInterrupt, HandlerDisable, GetInterrupts, HandlerEnable, Held
  <2> QED BY <1>2, <2>1, <2>2, InputSame
<1>5. ASSUME NEW e \in Devs, ByteArrives(e) PROVE InputRight(d)'
  <2>1. CASE e = d
    BY <1>2, <1>5, <2>1, InputArrives
  <2>2. CASE e # d
    <3>1. /\ arrived'[d] = arrived[d]
          /\ d \in recvPulse' <=> d \in recvPulse
      BY <1>5, <2>2, TypeFacts DEF ByteArrives
    <3>2. /\ taken' = taken /\ in_hw' = in_hw /\ in_cpu' = in_cpu /\ inbuf' = inbuf
          /\ snap' = snap /\ hpc' = hpc /\ recvReg' = recvReg
          /\ mdev' = mdev /\ mpc' = mpc /\ result' = result
      BY <1>5 DEF ByteArrives, rings
    <3>3. Held(d)' <=> Held(d)
      BY <3>2 DEF Held
    <3> QED BY <1>2, <3>1, <3>2, <3>3, InputSame
  <2> QED BY <2>1, <2>2
<1>6. ASSUME NEW e \in Devs, SendDone(e) PROVE InputRight(d)'
  <2>1. /\ taken' = taken /\ in_hw' = in_hw /\ in_cpu' = in_cpu /\ inbuf' = inbuf
        /\ arrived' = arrived /\ snap' = snap /\ hpc' = hpc
        /\ mdev' = mdev /\ mpc' = mpc /\ result' = result
        /\ recvReg' = recvReg /\ recvPulse' = recvPulse
    BY <1>6 DEF SendDone, rings
  <2>2. Held(d)' <=> Held(d)
    BY <2>1 DEF Held
  <2> QED BY <1>2, <2>1, <2>2, InputSame
<1>7. CASE ReadKeyboard \/ ReadMouse
  <2>1. PICK e \in Devs, next \in {"readmouse", "servekbd"} :
          /\ ReadRegister(e, next)
          /\ \/ e = "kbd" /\ next = "readmouse" /\ hpc = "readkbd"
             \/ e = "mouse" /\ next = "servekbd" /\ hpc = "readmouse"
    BY <1>7 DEF ReadKeyboard, ReadMouse, Devs
  <2>2. CASE e = d
    <3>1. ~Held(d)
      BY <2>1, <2>2 DEF Held
    <3> QED BY <1>2, <2>1, <2>2, <3>1, InputFetched
  <2>3. CASE e # d
    <3>1. /\ snap'[d] = snap[d] /\ hpc' = next /\ recvPulse' = {}
          /\ d \in recvReg' <=> d \in recvReg \union recvPulse
      BY <2>1, <2>3, TypeFacts DEF ReadRegister, Clock
    <3>2. /\ taken' = taken /\ in_hw' = in_hw /\ in_cpu' = in_cpu /\ inbuf' = inbuf
          /\ arrived' = arrived
          /\ mdev' = mdev /\ mpc' = mpc /\ result' = result
      BY <2>1 DEF ReadRegister, rings
    <3>3. Held(d)' <=> Held(d)
      BY <2>1, <2>3, <3>1 DEF Held, Devs
    <3> QED BY <1>2, <3>1, <3>2, <3>3, InputSame
  <2> QED BY <2>2, <2>3
<1>8. CASE ServeKeyboard \/ ServeMouse
  <2>1. PICK e \in Devs, next \in {"servemouse", "acknowledge"} :
          /\ Serve(e, next)
          /\ \/ e = "kbd" /\ next = "servemouse" /\ hpc = "servekbd"
             \/ e = "mouse" /\ next = "acknowledge" /\ hpc = "servemouse"
    BY <1>8 DEF ServeKeyboard, ServeMouse, Devs
  <2>2. hpc' = next
    BY <2>1 DEF Serve
  <2>3. CASE e = d
    <3>1. (Held(d) <=> snap[d].recv) /\ ~Held(d)'
      BY <2>1, <2>2, <2>3, TypeFacts DEF Held, Snapshot
    <3> QED BY <1>2, <2>1, <2>3, <3>1, InputStored
  <2>4. CASE e # d
    <3>1. snap'[d] = snap[d] /\ in_hw'[d] = in_hw[d] /\ inbuf'[d] = inbuf[d]
      BY <2>1, <2>4, TypeFacts DEF Serve, StoreReceived
    <3>2. /\ taken' = taken /\ in_cpu' = in_cpu /\ arrived' = arrived
          /\ recvReg' = recvReg /\ recvPulse' = recvPulse
          /\ mdev' = mdev /\ mpc' = mpc /\ result' = result
      BY <2>1 DEF Serve
    <3>3. Held(d)' <=> Held(d)
      BY <2>1, <2>2, <2>4, <3>1 DEF Held, Devs
    <3> QED BY <1>2, <3>1, <3>2, <3>3, InputSame
  <2> QED BY <2>3, <2>4
<1>9. CASE Main
  <2>1. CASE Boot
    <3>1. /\ taken' = taken /\ inbuf' = inbuf /\ arrived' = arrived /\ snap' = snap
          /\ hpc' = hpc /\ recvReg' = recvReg /\ recvPulse' = recvPulse /\ mpc' = "idle"
      BY <2>1 DEF Boot, hardware, history
    <3>2. in_hw'[d] = in_hw[d] /\ in_cpu'[d] = in_cpu[d]
      BY <2>1 DEF Boot, EachDev, Masked
    <3>3. Held(d)' <=> Held(d)
      BY <3>1 DEF Held
    <3> QED BY <1>2, <3>1, <3>2, <3>3, InputSame
  <2>2. CASE ReadFetch
    <3>1. /\ taken' = taken /\ in_hw' = in_hw /\ in_cpu' = in_cpu /\ inbuf' = inbuf
          /\ arrived' = arrived /\ snap' = snap /\ hpc' = hpc
          /\ recvReg' = recvReg /\ recvPulse' = recvPulse /\ mdev' = mdev
      BY <2>2 DEF ReadFetch, hardware, rings, history
    <3>2. Held(d)' <=> Held(d)
      BY <3>1 DEF Held
    <3>3. mdev = d => InCount(d) > 0
      BY <1>2, <2>2 DEF ReadFetch
    <3>4. mdev = d => result' = Returned(d) + 1
      <4> SUFFICES ASSUME mdev = d PROVE result' = Returned(d) + 1
        OBVIOUS
      <4>1. in_cpu[d] \in 0 .. Size - 1 /\ InCount(d) \in 0 .. Size - 1 /\ in_cpu[d] \in Slots
        BY InputFacts DEF Slots
      <4>2. 1 \in 1 .. InCount(d) /\ 0 \in 0 .. Size - 1
        BY <3>3, <4>1
      <4>3. inbuf[d][(in_cpu[d] + 1 - 1) % Size] = Returned(d) + 1
        BY <1>2, <4>2 DEF InputRight
      <4>4. in_cpu[d] + 1 - 1 = in_cpu[d] + 0
        BY <4>1
      <4>5. (in_cpu[d] + 0) % Size =
              IF in_cpu[d] + 0 < Size THEN in_cpu[d] + 0 ELSE in_cpu[d] + 0 - Size
        BY <4>1, <4>2, PlaceValue
      <4>6. (in_cpu[d] + 0) % Size = in_cpu[d]
        BY <4>1, <4>5
      <4>7. result' = inbuf[d][in_cpu[d]]
        BY <2>2 DEF ReadFetch
      <4> QED BY <4>3, <4>4, <4>6, <4>7
    <3> QED BY <1>2, <3>1, <3>2, <3>3, <3>4, InputSame
  <2>3. CASE ReadAdvance
    <3>1. CASE d = mdev
      BY <1>2, <2>3, <3>1, InputTaken
    <3>2. CASE d # mdev
      <4>1. in_cpu'[d] = in_cpu[d] /\ taken'[d] = taken[d]
        BY <2>3, <3>2, TypeFacts DEF ReadAdvance
      <4>2. /\ in_hw' = in_hw /\ inbuf' = inbuf
            /\ arrived' = arrived /\ snap' = snap /\ hpc' = hpc
            /\ recvReg' = recvReg /\ recvPulse' = recvPulse /\ mpc' = "idle"
        BY <2>3 DEF ReadAdvance, hardware
      <4>3. Held(d)' <=> Held(d)
        BY <4>2 DEF Held
      <4> QED BY <1>2, <4>1, <4>2, <4>3, InputSame
    <3> QED BY <3>1, <3>2
  <2>4. CASE WriteRoom \/ WriteDisable \/ WriteEnable
    <3>1. /\ taken' = taken /\ in_hw' = in_hw /\ in_cpu' = in_cpu /\ inbuf' = inbuf
          /\ arrived' = arrived /\ snap' = snap /\ hpc' = hpc
          /\ recvReg' = recvReg /\ recvPulse' = recvPulse
          /\ mpc' \notin {"fetch", "advance"}
      BY <2>4 DEF WriteRoom, WriteDisable, WriteEnable, hardware, rings, history
    <3>2. Held(d)' <=> Held(d)
      BY <3>1 DEF Held
    <3> QED BY <1>2, <3>1, <3>2, InputSame
  <2>5. CASE WriteStore
    <3>1. /\ taken' = taken /\ in_hw' = in_hw /\ in_cpu' = in_cpu /\ inbuf' = inbuf
          /\ arrived' = arrived /\ snap' = snap
          /\ recvReg' = recvReg /\ recvPulse' = recvPulse /\ mpc' = "return"
      BY <2>5 DEF WriteStore, hardware
    <3>2. ~Held(d) /\ ~Held(d)'
      BY <2>5 DEF WriteStore, Held
    <3> QED BY <1>2, <3>1, <3>2, InputSame
  <2>6. ASSUME NEW e \in Devs, ReadBegin(e) \/ WriteBegin(e) PROVE InputRight(d)'
    <3>1. /\ taken' = taken /\ in_hw' = in_hw /\ in_cpu' = in_cpu /\ inbuf' = inbuf
          /\ arrived' = arrived /\ snap' = snap /\ hpc' = hpc
          /\ recvReg' = recvReg /\ recvPulse' = recvPulse
          /\ mpc' \in {"fetch", "wait"}
      BY <2>6 DEF ReadBegin, WriteBegin, hardware, rings, history
    <3>2. Held(d)' <=> Held(d)
      BY <3>1 DEF Held
    <3>3. mdev' = d /\ mpc' = "fetch" => InCount(d) > 0
      <4>1. mdev' = d /\ mpc' = "fetch" => in_hw[d] # in_cpu[d]
        BY <2>6 DEF ReadBegin, WriteBegin
      <4> QED BY <4>1, InputFacts
    <3> QED BY <1>2, <3>1, <3>2, <3>3, InputSame
  <2> QED BY <1>9, <2>1, <2>2, <2>3, <2>4, <2>5, <2>6 DEF Main
<1> QED BY <1>3, <1>4, <1>5, <1>6, <1>7, <1>8, <1>9 DEF Next, Handler

-----------------------------------------------------------------------------
(* From the numbers to the sequences.                                       *)

LEMMA Numbered ==
  ASSUME NEW s \in Seq(Nat), \A i \in 1 .. Len(s) : s[i] = i
  PROVE  s = UpTo(Len(s))
<1>1. s = [i \in 1 .. Len(s) |-> s[i]]
  OBVIOUS
<1> QED BY <1>1 DEF UpTo

LEMMA NumberedOn ==
  ASSUME NEW s \in Seq(Nat), NEW t \in Seq(Nat),
         \A i \in 1 .. Len(s) : s[i] = i, \A i \in 1 .. Len(t) : t[i] = Len(s) + i
  PROVE  /\ s \o t \in Seq(Nat) /\ Len(s \o t) = Len(s) + Len(t)
         /\ \A i \in 1 .. Len(s \o t) : (s \o t)[i] = i
<1>1. s \o t \in Seq(Nat) /\ Len(s \o t) = Len(s) + Len(t)
  OBVIOUS
<1>2. Len(s) \in Nat /\ Len(t) \in Nat
  OBVIOUS
<1>3. ASSUME NEW i \in 1 .. Len(s \o t) PROVE (s \o t)[i] = i
  <2>1. CASE i \in 1 .. Len(s)
    <3>1. (s \o t)[i] = s[i]
      BY <2>1
    <3> QED BY <2>1, <3>1
  <2>2. CASE i \notin 1 .. Len(s)
    <3> DEFINE j == i - Len(s)
    <3>1. j \in 1 .. Len(t)
      BY <1>1, <1>2, <2>2
    <3>2. (s \o t)[i] = t[j]
      BY <1>1, <1>2, <2>2
    <3>3. t[j] = Len(s) + j
      BY <3>1
    <3> QED BY <1>1, <1>2, <3>2, <3>3
  <2> QED BY <2>1, <2>2
<1> QED BY <1>1, <1>3

(* A part that is one byte, or nothing.                                     *)
LEMMA Single ==
  ASSUME NEW b, NEW x \in Nat
  PROVE  /\ (IF b THEN <<x>> ELSE <<>>) \in Seq(Nat)
         /\ Len(IF b THEN <<x>> ELSE <<>>) = Bit(b)
         /\ b => \A i \in 1 .. Len(IF b THEN <<x>> ELSE <<>>) :
                   i = 1 /\ (IF b THEN <<x>> ELSE <<>>)[i] = x
         /\ ~b => \A i \in 1 .. Len(IF b THEN <<x>> ELSE <<>>) : FALSE
<1>1. CASE b
  <2>1. (IF b THEN <<x>> ELSE <<>>) = <<x>>
    BY <1>1
  <2>2. <<x>> \in Seq(Nat) /\ Len(<<x>>) = 1 /\ <<x>>[1] = x
    OBVIOUS
  <2>3. \A i \in 1 .. 1 : i = 1
    OBVIOUS
  <2> QED BY <1>1, <2>1, <2>2, <2>3 DEF Bit
<1>2. CASE ~b
  <2>1. (IF b THEN <<x>> ELSE <<>>) = <<>>
    BY <1>2
  <2>2. <<>> \in Seq(Nat) /\ Len(<<>>) = 0
    OBVIOUS
  <2>3. \A i \in 1 .. 0 : FALSE
    OBVIOUS
  <2> QED BY <1>2, <2>1, <2>2, <2>3 DEF Bit
<1> QED BY <1>1, <1>2

(* The values of a sequence, of two that follow each other...               *)
Values(q) == {q[i] : i \in 1 .. Len(q)}

LEMMA ConcatRises ==
  ASSUME NEW a \in Seq(Nat), NEW b \in Seq(Nat), Rising(a), Rising(b),
         \A x \in Values(a), y \in Values(b) : x < y
  PROVE  /\ a \o b \in Seq(Nat) /\ Rising(a \o b)
         /\ Values(a \o b) = Values(a) \union Values(b)
<1> DEFINE c == a \o b
<1>1. /\ c \in Seq(Nat) /\ Len(c) = Len(a) + Len(b) /\ Len(a) \in Nat /\ Len(b) \in Nat
      /\ \A i \in 1 .. Len(a) : c[i] = a[i]
      /\ \A i \in 1 .. Len(c) : i > Len(a) => c[i] = b[i - Len(a)]
  OBVIOUS
<1> HIDE DEF c
<1>2. ASSUME NEW i \in 1 .. Len(c), i > Len(a)
      PROVE  i - Len(a) \in 1 .. Len(b)
  BY <1>1, <1>2
<1>3. ASSUME NEW i \in 1 .. Len(c), NEW j \in 1 .. Len(c), i < j
      PROVE  c[i] < c[j]
  <2>1. CASE j \in 1 .. Len(a)
    <3>1. i \in 1 .. Len(a)
      BY <1>1, <1>3, <2>1
    <3> QED BY <1>1, <1>3, <2>1, <3>1 DEF Rising
  <2>2. CASE i > Len(a)
    <3>1. j > Len(a) /\ i - Len(a) < j - Len(a)
      BY <1>1, <1>3, <2>2
    <3>2. b[i - Len(a)] < b[j - Len(a)]
      BY <1>2, <2>2, <3>1 DEF Rising
    <3> QED BY <1>1, <2>2, <3>1, <3>2
  <2>3. CASE i \in 1 .. Len(a) /\ j > Len(a)
    <3>1. c[i] = a[i] /\ c[j] = b[j - Len(a)] /\ j - Len(a) \in 1 .. Len(b)
      BY <1>1, <1>2, <2>3
    <3>2. a[i] \in Values(a) /\ b[j - Len(a)] \in Values(b)
      BY <2>3, <3>1 DEF Values
    <3> QED BY <3>1, <3>2
  <2> QED BY <1>1, <2>1, <2>2, <2>3
<1>4. Values(c) = Values(a) \union Values(b)
  <2>1. ASSUME NEW i \in 1 .. Len(c) PROVE c[i] \in Values(a) \union Values(b)
    <3>1. CASE i \in 1 .. Len(a)
      BY <1>1, <3>1 DEF Values
    <3>2. CASE i > Len(a)
      BY <1>1, <1>2, <3>2 DEF Values
    <3> QED BY <1>1, <3>1, <3>2
  <2>2. ASSUME NEW i \in 1 .. Len(a) PROVE a[i] \in Values(c)
    <3>1. i \in 1 .. Len(c) /\ c[i] = a[i]
      BY <1>1
    <3> QED BY <3>1 DEF Values
  <2>3. ASSUME NEW i \in 1 .. Len(b) PROVE b[i] \in Values(c)
    <3>1. Len(a) + i \in 1 .. Len(c) /\ Len(a) + i > Len(a) /\ (Len(a) + i) - Len(a) = i
      BY <1>1
    <3>2. c[Len(a) + i] = b[i]
      BY <1>1, <3>1
    <3> QED BY <3>1, <3>2 DEF Values
  <2> QED BY <2>1, <2>2, <2>3 DEF Values
<1> QED BY <1>1, <1>3, <1>4 DEF Rising, c

(* ...and of one of one byte, or none.                                      *)
LEMMA SingleRises ==
  ASSUME NEW x \in Nat, NEW q, q = (IF x # 0 THEN <<x>> ELSE <<>>)
  PROVE  /\ q \in Seq(Nat) /\ Rising(q)
         /\ Values(q) = IF x # 0 THEN {x} ELSE {}
<1>1. CASE x # 0
  <2>1. q = <<x>>
    BY <1>1
  <2>2. q \in Seq(Nat) /\ Len(q) = 1 /\ q[1] = x
    <3>1. <<x>> \in Seq(Nat) /\ Len(<<x>>) = 1 /\ <<x>>[1] = x
      OBVIOUS
    <3> QED BY <2>1, <3>1
  <2>3. 1 .. 1 = {1}
    OBVIOUS
  <2>4. Rising(q)
    BY <2>2 DEF Rising
  <2>5. Values(q) = {x}
    BY <2>2, <2>3 DEF Values
  <2> QED BY <1>1, <2>2, <2>4, <2>5
<1>2. CASE x = 0
  <2>1. q = <<>>
    BY <1>2
  <2>2. q \in Seq(Nat) /\ Len(q) = 0 /\ 1 .. 0 = {}
    BY <2>1
  <2> QED BY <1>2, <2>2 DEF Rising, Values
<1> QED BY <1>1, <1>2

LEMMA OutputSequence ==
  ASSUME TypeOK, NEW d \in Devs, OutputRight(d)
  PROVE  /\ Rising(accepted[d] \o Sending(d) \o OutRing(d))
         /\ Values(accepted[d] \o Sending(d) \o OutRing(d)) = (1 .. wrote[d]) \ dropped[d]
         /\ dropped[d] \subseteq 1 .. handed[d]
<1> DEFINE a == accepted[d]
           x == sending[d]
           s == Sending(d)
           o == OutRing(d)
           n == OutCount(d)
           h == handed[d]
           drop == dropped[d]
<1>1. /\ a \in Seq(Nat) /\ Len(a) \in Nat /\ n \in 0 .. Size - 1
      /\ x \in Nat /\ h \in Nat /\ drop \subseteq Nat
      /\ out_hw[d] \in Slots /\ outbuf[d] \in [Slots -> Nat]
  BY OutputFacts, TypeFacts
<1>2. /\ HandedRight(a, x, h, drop)
      /\ \A i \in 1 .. n : outbuf[d][(out_hw[d] + i - 1) % Size] = h + i
      /\ wrote[d] = h + n
  BY OutputParts DEF OutputRight
<1>3. o \in Seq(Nat) /\ Len(o) = n /\ \A i \in 1 .. n : o[i] = h + i
  <2>1. o = [i \in 1 .. n |-> outbuf[d][(out_hw[d] + i - 1) % Size]]
    BY DEF OutRing, OutCount
  <2>2. \A i \in 1 .. n : h + i \in Nat
    BY <1>1
  <2>3. \A i \in 1 .. n : outbuf[d][(out_hw[d] + i - 1) % Size] \in Nat
    BY <1>2, <2>2
  <2>4. \A i \in 1 .. n : o[i] = h + i
    BY <1>2, <2>1
  <2>5. n \in Nat
    BY <1>1
  <2> HIDE DEF n, o, h
  <2>6. o \in Seq(Nat) /\ Len(o) = n
    BY <2>1, <2>3, <2>5
  <2> QED BY <2>4, <2>6
<1>4. s \in Seq(Nat) /\ Rising(s) /\ Values(s) = (IF x # 0 THEN {x} ELSE {})
  BY <1>1, SingleRises DEF Sending
<1> HIDE DEF a, x, s, o, n, h, drop
<1>5. /\ Rising(a) /\ drop \subseteq 1 .. h
      /\ \A i \in 1 .. Len(a) : a[i] \in (1 .. h) \ drop
      /\ x # 0 => x \in (1 .. h) \ drop /\ \A i \in 1 .. Len(a) : a[i] < x
      /\ \A m \in (1 .. h) \ drop : m = x \/ \E i \in 1 .. Len(a) : a[i] = m
  BY <1>2 DEF HandedRight
<1>6. Rising(o) /\ Values(o) = (h + 1) .. (h + n)
  <2>1. Rising(o)
    BY <1>1, <1>3 DEF Rising
  <2>2. ASSUME NEW m \in (h + 1) .. (h + n) PROVE m \in Values(o)
    <3>1. m - h \in 1 .. n /\ o[m - h] = m
      BY <1>1, <1>3
    <3> QED BY <1>3, <3>1 DEF Values
  <2>3. ASSUME NEW i \in 1 .. n PROVE o[i] \in (h + 1) .. (h + n)
    BY <1>1, <1>3
  <2> QED BY <1>3, <2>1, <2>2, <2>3 DEF Values
<1>7. /\ a \o s \in Seq(Nat) /\ Rising(a \o s)
      /\ Values(a \o s) = Values(a) \union Values(s)
  <2>1. \A y \in Values(a), z \in Values(s) : y < z
    BY <1>4, <1>5 DEF Values
  <2> QED BY <1>1, <1>4, <1>5, <2>1, ConcatRises
<1>8. Values(a \o s) = (1 .. h) \ drop
  <2>1. \A m \in (1 .. h) \ drop : m # 0
    BY <1>1
  <2>2. \A m \in (1 .. h) \ drop : m \in Values(a) \union Values(s)
    BY <1>4, <1>5, <2>1 DEF Values
  <2>3. Values(a) \union Values(s) \subseteq (1 .. h) \ drop
    BY <1>4, <1>5 DEF Values
  <2> QED BY <1>7, <2>2, <2>3
<1> DEFINE u == a \o s
<1>9. u \in Seq(Nat) /\ Rising(u) /\ Values(u) = (1 .. h) \ drop
  BY <1>7, <1>8
<1> HIDE DEF u
<1>10. /\ Rising(u \o o) /\ Values(u \o o) = Values(u) \union Values(o)
  <2>1. \A y \in Values(u), z \in Values(o) : y < z
    BY <1>1, <1>6, <1>9
  <2> QED BY <1>3, <1>6, <1>9, <2>1, ConcatRises
<1>11. ((1 .. h) \ drop) \union ((h + 1) .. (h + n)) = (1 .. (h + n)) \ drop
  BY <1>1, <1>5
<1>12. Values(u \o o) = (1 .. (h + n)) \ drop
  BY <1>6, <1>9, <1>10, <1>11
<1> QED BY <1>2, <1>5, <1>10, <1>12 DEF u, a, s, o, h, drop

LEMMA InputSequence ==
  ASSUME TypeOK, NEW d \in Devs, InputRight(d)
  PROVE  taken[d] \o InRing(d) \o InHandler(d) \o InRegister(d) = UpTo(arrived[d])
<1> DEFINE a == taken[d]
           o == InRing(d)
           s == InHandler(d)
           g == InRegister(d)
           n == InCount(d)
           h == Bit(Held(d))
           r == Bit(d \in recvReg \union recvPulse)
<1>1. /\ a \in Seq(Nat) /\ Returned(d) = Len(a) /\ Len(a) \in Nat
      /\ n \in 0 .. Size - 1 /\ h \in {0, 1} /\ r \in {0, 1}
      /\ arrived[d] \in Nat /\ snap[d].byte \in Nat
  BY InputFacts DEF Returned, Bit
<1>2. /\ \A i \in 1 .. Len(a) : a[i] = i
      /\ \A i \in 1 .. n : inbuf[d][(in_cpu[d] + i - 1) % Size] = Len(a) + i
      /\ Held(d) => snap[d].byte = Len(a) + n + 1
      /\ arrived[d] = Len(a) + n + h + r
  BY <1>1 DEF InputRight
<1>3. o \in Seq(Nat) /\ Len(o) = n /\ \A i \in 1 .. n : o[i] = Len(a) + i
  <2>1. o = [i \in 1 .. n |-> inbuf[d][(in_cpu[d] + i - 1) % Size]]
    BY DEF InRing, InCount
  <2>2. \A i \in 1 .. n : Len(a) + i \in Nat
    BY <1>1
  <2>3. \A i \in 1 .. n : inbuf[d][(in_cpu[d] + i - 1) % Size] \in Nat
    BY <1>2, <2>2
  <2>4. \A i \in 1 .. n : o[i] = Len(a) + i
    BY <1>2, <2>1
  <2>5. n \in Nat
    BY <1>1
  <2> HIDE DEF n, o, a
  <2>6. o \in Seq(Nat) /\ Len(o) = n
    BY <2>1, <2>3, <2>5
  <2> QED BY <2>4, <2>6
<1>4. s \in Seq(Nat) /\ Len(s) = h /\ \A i \in 1 .. Len(s) : s[i] = Len(a) + n + i
  <2>1. s = IF Held(d) THEN <<snap[d].byte>> ELSE <<>>
    BY DEF InHandler
  <2>2. s \in Seq(Nat) /\ Len(s) = h
    BY <1>1, <2>1, Single, ZenonT(60)
  <2>3. CASE Held(d)
    <3>1. \A i \in 1 .. Len(s) : i = 1 /\ s[i] = snap[d].byte
      BY <1>1, <2>1, <2>3, Single
    <3> QED BY <1>1, <1>2, <2>2, <2>3, <3>1
  <2>4. CASE ~Held(d)
    <3>1. \A i \in 1 .. Len(s) : FALSE
      BY <1>1, <2>1, <2>4, Single
    <3> QED BY <2>2, <3>1
  <2> QED BY <2>3, <2>4
<1>5. g \in Seq(Nat) /\ Len(g) = r /\ \A i \in 1 .. Len(g) : g[i] = Len(a) + n + h + i
  <2>1. g = IF d \in recvReg \union recvPulse THEN <<arrived[d]>> ELSE <<>>
    BY DEF InRegister
  <2>2. g \in Seq(Nat) /\ Len(g) = r
    BY <1>1, <2>1, Single, ZenonT(60)
  <2>3. CASE d \in recvReg \union recvPulse
    <3>1. \A i \in 1 .. Len(g) : i = 1 /\ g[i] = arrived[d]
      BY <1>1, <2>1, <2>3, Single
    <3>2. r = 1
      BY <2>3 DEF Bit
    <3> QED BY <1>1, <1>2, <2>2, <3>1, <3>2
  <2>4. CASE d \notin recvReg \union recvPulse
    <3>1. \A i \in 1 .. Len(g) : FALSE
      BY <1>1, <2>1, <2>4, Single
    <3> QED BY <2>2, <3>1
  <2> QED BY <2>3, <2>4
<1> HIDE DEF a, s, o, g, n, h, r
<1> DEFINE u == a \o o
<1>6. u \in Seq(Nat) /\ Len(u) = Len(a) + n /\ \A i \in 1 .. Len(u) : u[i] = i
  BY <1>1, <1>2, <1>3, NumberedOn
<1> HIDE DEF u
<1> DEFINE v == u \o s
<1>7. v \in Seq(Nat) /\ Len(v) = Len(u) + h /\ \A i \in 1 .. Len(v) : v[i] = i
  <2>1. \A i \in 1 .. Len(s) : s[i] = Len(u) + i
    BY <1>4, <1>6
  <2> QED BY <1>4, <1>6, <2>1, NumberedOn
<1> HIDE DEF v
<1> DEFINE w == v \o g
<1>8. w \in Seq(Nat) /\ Len(w) = Len(v) + r /\ \A i \in 1 .. Len(w) : w[i] = i
  <2>1. \A i \in 1 .. Len(g) : g[i] = Len(v) + i
    BY <1>5, <1>6, <1>7
  <2> QED BY <1>5, <1>7, <2>1, NumberedOn
<1>9. w = UpTo(Len(w))
  <2> HIDE DEF w
  <2> QED BY <1>8, Numbered
<1>10. Len(w) = arrived[d]
  BY <1>2, <1>6, <1>7, <1>8
<1> QED BY <1>9, <1>10 DEF w, v, u, a, o, s, g

-----------------------------------------------------------------------------
(* The rings are empty to begin with.                                       *)
LEMMA InitRings == Init => RingsInv
<1> SUFFICES ASSUME Init PROVE RingsInv
  OBVIOUS
<1>1. TypeOK
  BY InitType
<1>2. Masked
  BY DEF Init, EachDev, Masked
<1>3. ASSUME NEW d \in Devs PROVE OutputRight(d) /\ InputRight(d)
  <2>1. /\ accepted[d] = <<>> /\ taken[d] = <<>> /\ sending[d] = 0 /\ wrote[d] = 0
        /\ arrived[d] = 0 /\ snap[d].cts = FALSE /\ snap[d].recv = FALSE
        /\ in_hw[d] = 0 /\ in_cpu[d] = 0 /\ out_hw[d] = 0 /\ out_cpu[d] = 0
        /\ recvReg = {} /\ recvPulse = {} /\ mpc = "boot"
        /\ handed[d] = 0 /\ dropped[d] = {}
    BY DEF Init, EachDev, NoSnapshot
  <2>2. /\ InCount(d) = 0 /\ OutCount(d) = 0 /\ Returned(d) = 0 /\ Len(accepted[d]) = 0
    BY <2>1 DEF InCount, OutCount, Count, Returned
  <2>3. /\ ~Held(d) /\ Bit(Held(d)) = 0
        /\ Bit(d \in recvReg \union recvPulse) = 0
    BY <2>1 DEF Bit, Held
  <2>4. OutputRight(d)
    BY <2>1, <2>2 DEF OutputRight, Rising
  <2>5. InputRight(d)
    BY <2>1, <2>2, <2>3 DEF InputRight
  <2> QED BY <2>4, <2>5
<1> QED BY <1>1, <1>2, <1>3 DEF RingsInv

LEMMA NextRings == RingsInv /\ [Next]_vars => RingsInv'
<1> SUFFICES ASSUME RingsInv, [Next]_vars PROVE RingsInv'
  OBVIOUS
<1>1. TypeOK /\ Masked
  BY DEF RingsInv
<1>2. TypeOK'
  BY <1>1, TypeKept
<1>3. CASE Next
  <2>1. Masked'
    BY <1>1, <1>3, MaskedKept
  <2>2. \A d \in Devs : OutputRight(d)'
    BY <1>1, <1>3, OutputKept DEF RingsInv
  <2>3. \A d \in Devs \ (overrun' \union wrapped') : InputRight(d)'
    BY <1>1, <1>3, InputKept DEF RingsInv
  <2> QED BY <1>2, <2>1, <2>2, <2>3 DEF RingsInv
<1>4. CASE UNCHANGED vars
  <2>1. /\ UNCHANGED <<arrived, recvPulse, sending, recvReg, int_enabled>>
        /\ UNCHANGED <<in_hw, in_cpu, out_hw, out_cpu, inbuf, outbuf>>
        /\ UNCHANGED <<hpc, snap, mpc, mdev, result>>
        /\ UNCHANGED <<wrote, handed, dropped, accepted, taken, overrun, wrapped>>
    BY <1>4 DEF vars, hardware, rings, history
  <2>2. Masked'
    BY <1>1, <2>1 DEF Masked
  <2>3. \A d : /\ OutCount(d)' = OutCount(d)
               /\ InCount(d)' = InCount(d) /\ Returned(d)' = Returned(d)
               /\ Held(d)' = Held(d)
    BY <2>1 DEF OutCount, InCount, Returned, Held
  <2>4. \A d \in Devs : OutputRight(d)'
    BY <2>1, <2>3 DEF RingsInv, OutputRight, Rising
  <2>5. \A d \in Devs \ (overrun' \union wrapped') : InputRight(d)'
    BY <2>1, <2>3 DEF RingsInv, InputRight, Bit
  <2> QED BY <1>2, <2>2, <2>4, <2>5 DEF RingsInv
<1> QED BY <1>3, <1>4

(* Every reachable state has its bytes numbered along both ways.            *)
THEOREM RingsInvariance == Spec => []RingsInv
  BY InitRings, NextRings, PTL DEF Spec

(* Every byte written to a ring reaches the device once and in order, but   *)
(* for those whose trigger io_ps2_com missed, and every byte of a device    *)
(* that was not overrun is read once and in order: for any ring size, with  *)
(* the handler anywhere between the steps of the main program, and run by   *)
(* the writer as well as by interrupts.                                     *)
THEOREM RingsAlwaysRight == Spec => []RingsRight
<1>1. RingsInv => RingsRight
  <2> SUFFICES ASSUME RingsInv PROVE TypeOK /\ OutputInOrder /\ InputInOrder
    BY DEF RingsRight
  <2>1. TypeOK
    BY DEF RingsInv
  <2>2. OutputInOrder
    <3>1. \A d \in Devs :
            /\ Rising(accepted[d] \o Sending(d) \o OutRing(d))
            /\ Values(accepted[d] \o Sending(d) \o OutRing(d)) = (1 .. wrote[d]) \ dropped[d]
            /\ dropped[d] \subseteq 1 .. handed[d]
      BY <2>1, OutputSequence DEF RingsInv
    <3> QED BY <3>1 DEF OutputInOrder, Values
  <2>3. InputInOrder
    BY <2>1, InputSequence DEF RingsInv, InputInOrder
  <2> QED BY <2>1, <2>2, <2>3
<1> QED BY <1>1, RingsInvariance, PTL

-----------------------------------------------------------------------------
(***************************************************************************)
(* Lost wake-ups.                                                          *)
(***************************************************************************)

(* A clock edge keeps a wake-up a wake-up, and an event a fresh one, unless *)
(* it becomes a request: then the request is late for the registers that    *)
(* the running handler has read.                                            *)
LEMMA ClockWakes ==
  ASSUME NEW cleared, Clock(cleared)
  PROVE  /\ recvReg' = (recvReg \ cleared) \union recvPulse
         /\ recvPulse # {} => Fresh'
         /\ Fresh \/ raised # {} => Fresh' \/ raised' # {}
         /\ raised # {} => raised' = raised /\ late' = late
         /\ raised # {} /\ Fresh => Fresh'
         /\ \/ raised' = raised /\ late' = late /\ (Fresh => Fresh')
            \/ raised = {} /\ raised' # {} /\ late' = {d \in Devs : HasRead(d)}
<1>1. /\ recvReg' = (recvReg \ cleared) \union recvPulse
      /\ recvPulse # {} \/ donePulse # {} => ps2_int'
  BY DEF Clock
<1>2. CASE raised = {} /\ waiting # {}
  <2>1. /\ raised' = waiting /\ waiting' = (IF ps2_int THEN Ints ELSE {})
        /\ late' = {d \in Devs : HasRead(d)}
    BY <1>2 DEF Clock, Raise
  <2> QED BY <1>1, <1>2, <2>1 DEF Fresh
<1>3. CASE ~(raised = {} /\ waiting # {})
  <2>1. /\ raised' = raised /\ waiting' = waiting \union (IF ps2_int THEN Ints ELSE {})
        /\ late' = late
    BY <1>3 DEF Clock, Hold
  <2>2. Fresh => Fresh'
    BY <1>1, <2>1 DEF Fresh
  <2> QED BY <1>1, <2>1, <2>2 DEF Fresh
<1> QED BY <1>2, <1>3

(* A running handler has read a register or is still to read it.            *)
LEMMA ReadOrNot ==
  ASSUME NEW d \in Devs, hpc \in HandlerSteps \ {"off", "enable"}
  PROVE  HasRead(d) \/ hpc \in Before(d)
  BY DEF HandlerSteps, HasRead, Before, Devs

(* A request is late only in a handler run by the writer, and only for the  *)
(* registers it has read.                                                   *)
LEMMA LateKept ==
  ASSUME TypeOK, LateRight, Next
  PROVE  LateRight'
<1>1. CASE Edge
  <2>1. Clock({}) /\ hpc' = hpc /\ mpc' = mpc
    BY <1>1 DEF Edge
  <2>2. \A d : HasRead(d)' <=> HasRead(d)
    BY <2>1 DEF HasRead
  <2> QED BY <2>1, <2>2, ClockWakes DEF LateRight
<1>2. CASE \E d \in Devs : ByteArrives(d) \/ SendDone(d)
  <2>1. UNCHANGED <<raised, late, hpc, mpc>>
    BY <1>2 DEF ByteArrives, SendDone, latchVars
  <2> QED BY <2>1 DEF LateRight, HasRead
<1>3. CASE TakeInterrupt
  <2>1. /\ UNCHANGED <<raised, late, mpc>> /\ hpc = "off" /\ raised # {}
    BY <1>3 DEF TakeInterrupt, latchVars, history
  <2>2. late = {}
    BY <2>1 DEF LateRight, HasRead
  <2> QED BY <2>1, <2>2 DEF LateRight
<1>4. CASE HandlerDisable
  <2>1. /\ UNCHANGED <<raised, late, mpc>> /\ hpc = "disable"
    BY <1>4 DEF HandlerDisable, latchVars, history
  <2>2. late = {}
    BY <2>1 DEF LateRight, HasRead
  <2> QED BY <2>1, <2>2 DEF LateRight
<1>5. CASE ReadKeyboard \/ ReadMouse
  <2>1. PICK e \in Devs, next \in {"readmouse", "servekbd"} :
          /\ ReadRegister(e, next)
          /\ \/ e = "kbd" /\ next = "readmouse" /\ hpc = "readkbd"
             \/ e = "mouse" /\ next = "servekbd" /\ hpc = "readmouse"
    BY <1>5 DEF ReadKeyboard, ReadMouse, Devs
  <2>2. Clock({e}) /\ hpc' = next /\ mpc' = mpc
    BY <2>1 DEF ReadRegister
  <2>3. \A d \in Devs : HasRead(d) => HasRead(d)'
    BY <2>1, <2>2 DEF HasRead, Devs
  <2>4. late \subseteq Devs
    BY DEF TypeOK
  <2> QED BY <2>1, <2>2, <2>3, <2>4, ClockWakes DEF LateRight
<1>6. CASE ServeKeyboard \/ ServeMouse
  <2>1. /\ UNCHANGED <<raised, late, mpc>>
        /\ \/ hpc = "servekbd" /\ hpc' = "servemouse"
           \/ hpc = "servemouse" /\ hpc' = "acknowledge"
    BY <1>6 DEF ServeKeyboard, ServeMouse, Serve, latchVars
  <2> QED BY <2>1 DEF LateRight, HasRead
<1>7. CASE GetInterrupts
  <2>1. late' = {} /\ hpc' = "enable"
    BY <1>7 DEF GetInterrupts
  <2> QED BY <2>1 DEF LateRight
<1>8. CASE HandlerEnable
  <2>1. UNCHANGED <<raised, late, mpc>> /\ hpc = "enable" /\ hpc' = "off"
    BY <1>8 DEF HandlerEnable, latchVars, history
  <2>2. late = {}
    BY <2>1 DEF LateRight, HasRead
  <2> QED BY <2>1, <2>2 DEF LateRight
<1>9. CASE Main
  <2>1. /\ UNCHANGED <<raised, late>> /\ hpc = "off"
        /\ hpc' = "off" \/ (hpc' = "disable" /\ mpc' = "return")
    BY <1>9 DEF Main, Boot, ReadFetch, ReadAdvance, WriteRoom, WriteDisable, WriteStore,
                WriteEnable, ReadBegin, WriteBegin, latchVars, history
  <2>2. late = {}
    BY <2>1 DEF LateRight, HasRead
  <2> QED BY <2>1, <2>2 DEF LateRight
<1> QED BY <1>1, <1>2, <1>3, <1>4, <1>5, <1>6, <1>7, <1>8, <1>9 DEF Next, Handler

(* What AnsweredLater says of one device.                                   *)
AnsweredRecv(d) ==
  d \in recvReg \ swallowedRecv => Fresh \/ hpc \in Before(d) \/ d \in late

AnsweredSend(d) ==
  d \notin swallowedSend /\ ToSend(d) /\ ~TriggerLost(d) =>
    Fresh \/ hpc \in Before(d) \/ AboutToSend(d) \/ d \in late

LEMMA AnsweredParts ==
  ASSUME TypeOK
  PROVE  AnsweredLater <=>
           (hpc \notin {"off", "enable"} =>
              \A d \in Devs : AnsweredRecv(d) /\ AnsweredSend(d))
<1>1. recvReg \subseteq Devs
  BY TypeFacts
<1> QED BY <1>1 DEF AnsweredLater, AnsweredRecv, AnsweredSend

(* An edge: a byte or a ready device behind a register makes a fresh event, *)
(* and if that becomes a request, it is late.                               *)
LEMMA EdgeAnswers ==
  ASSUME TypeOK, LateRight, AnsweredLater, Edge, hpc \notin {"off", "enable"}, NEW d \in Devs
  PROVE  AnsweredRecv(d)' /\ AnsweredSend(d)'
<1>1. /\ Clock({}) /\ hpc' = hpc /\ sending' = sending /\ snap' = snap
      /\ out_hw' = out_hw /\ out_cpu' = out_cpu /\ handed' = handed /\ dropped' = dropped
      /\ swallowedRecv' = swallowedRecv /\ swallowedSend' = swallowedSend
  BY DEF Edge, rings
<1>2. AnsweredRecv(d) /\ AnsweredSend(d)
  BY AnsweredParts
<1>3. /\ ToSend(d)' <=> ToSend(d)
      /\ TriggerLost(d)' <=> TriggerLost(d)
      /\ AboutToSend(d)' <=> AboutToSend(d)
      /\ Before(d)' = Before(d)
  BY <1>1 DEF ToSend, TriggerLost, AboutToSend, Before
<1>4. Fresh \/ d \in late => Fresh' \/ hpc' \in Before(d) \/ d \in late'
  <2>1. d \in late => d \in late'
    BY <1>1, ClockWakes DEF LateRight
  <2>2. HasRead(d) \/ hpc \in Before(d)
    BY ReadOrNot DEF TypeOK
  <2>3. Fresh /\ HasRead(d) => Fresh' \/ d \in late'
    BY <1>1, ClockWakes
  <2> QED BY <1>1, <2>1, <2>2, <2>3
<1>5. AnsweredRecv(d)'
  <2>1. d \in recvReg' => d \in recvReg \/ Fresh'
    BY <1>1, ClockWakes
  <2> QED BY <1>1, <1>2, <1>3, <1>4, <2>1 DEF AnsweredRecv
<1>6. AnsweredSend(d)'
  BY <1>1, <1>2, <1>3, <1>4 DEF AnsweredSend
<1> QED BY <1>5, <1>6

(* A read of a register: the device it belongs to is seen to, the other one *)
(* was or will be.                                                          *)
LEMMA ReadAnswers ==
  ASSUME TypeOK, LateRight, AnsweredLater, ReadKeyboard \/ ReadMouse, NEW d \in Devs
  PROVE  AnsweredRecv(d)' /\ AnsweredSend(d)'
<1>1. PICK e \in Devs, next \in {"readmouse", "servekbd"} :
        /\ ReadRegister(e, next)
        /\ \/ e = "kbd" /\ next = "readmouse" /\ hpc = "readkbd"
           \/ e = "mouse" /\ next = "servekbd" /\ hpc = "readmouse"
  BY DEF ReadKeyboard, ReadMouse, Devs
<1>2. /\ Clock({e}) /\ hpc' = next /\ sending' = sending
      /\ out_hw' = out_hw /\ out_cpu' = out_cpu /\ handed' = handed /\ dropped' = dropped
      /\ swallowedRecv' = swallowedRecv \ {e} /\ swallowedSend' = swallowedSend \ {e}
  BY <1>1 DEF ReadRegister, rings
<1>3. /\ snap'[e].cts = (sending[e] = 0)
      /\ d # e => snap'[d] = snap[d]
  BY <1>1, TypeFacts DEF ReadRegister
<1>4. AnsweredRecv(d) /\ AnsweredSend(d)
  BY <1>1, AnsweredParts
<1>5. CASE d = e
  <2>1. AnsweredRecv(d)'
    BY <1>2, <1>5, ClockWakes DEF AnsweredRecv
  <2>2. ToSend(d)' => AboutToSend(d)'
    BY <1>1, <1>2, <1>3, <1>5 DEF ToSend, AboutToSend, Devs
  <2> QED BY <2>1, <2>2 DEF AnsweredSend
<1>6. CASE d # e
  <2>1. /\ ToSend(d)' <=> ToSend(d)
        /\ TriggerLost(d)' <=> TriggerLost(d)
    BY <1>2 DEF ToSend, TriggerLost
  <2>2. AboutToSend(d) => AboutToSend(d)'
    BY <1>1, <1>2, <1>3, <1>6 DEF AboutToSend, Devs
  <2>3. hpc \in Before(d) => hpc' \in Before(d)'
    BY <1>1, <1>2, <1>6 DEF Before, Devs
  <2>4. HasRead(d) \/ hpc' \in Before(d)'
    BY <1>1, <1>2, <1>6 DEF HasRead, Before, Devs
  <2>5. Fresh \/ d \in late => Fresh' \/ hpc' \in Before(d)' \/ d \in late'
    <3>1. d \in late => d \in late'
      BY <1>2, ClockWakes DEF LateRight
    <3>2. Fresh /\ HasRead(d) => Fresh' \/ d \in late'
      BY <1>2, ClockWakes
    <3> QED BY <2>4, <3>1, <3>2
  <2>6. d \in recvReg' => d \in recvReg \/ Fresh'
    BY <1>2, ClockWakes
  <2>7. /\ d \in swallowedRecv' <=> d \in swallowedRecv
        /\ d \in swallowedSend' <=> d \in swallowedSend
    BY <1>2, <1>6
  <2>8. AnsweredRecv(d)'
    BY <1>4, <2>3, <2>5, <2>6, <2>7 DEF AnsweredRecv
  <2>9. AnsweredSend(d)'
    BY <1>4, <2>1, <2>2, <2>3, <2>5, <2>7 DEF AnsweredSend
  <2> QED BY <2>8, <2>9
<1> QED BY <1>5, <1>6

(* A device that is served is busy then, or its byte was dropped.           *)
LEMMA ServeAnswers ==
  ASSUME RingsInv, AnsweredLater, ServeKeyboard \/ ServeMouse, NEW d \in Devs
  PROVE  AnsweredRecv(d)' /\ AnsweredSend(d)'
<1>1. TypeOK /\ OutputRight(d)
  BY DEF RingsInv
<1>2. PICK e \in Devs, next \in {"servemouse", "acknowledge"} :
        /\ Serve(e, next)
        /\ \/ e = "kbd" /\ next = "servemouse" /\ hpc = "servekbd"
           \/ e = "mouse" /\ next = "acknowledge" /\ hpc = "servemouse"
  BY DEF ServeKeyboard, ServeMouse, Devs
<1>3. /\ hpc' = next /\ recvReg' = recvReg /\ out_cpu' = out_cpu /\ late' = late
      /\ swallowedRecv' = swallowedRecv /\ swallowedSend' = swallowedSend
      /\ (Fresh' <=> Fresh)
  BY <1>2 DEF Serve, latchVars, Fresh
<1>4. AnsweredRecv(d) /\ AnsweredSend(d)
  BY <1>1, <1>2, AnsweredParts
<1>5. hpc \notin Before(d)
  BY <1>2 DEF Before
<1>6. AnsweredRecv(d)'
  BY <1>3, <1>4, <1>5 DEF AnsweredRecv
<1>7. CASE d = e /\ snap[d].cts /\ out_hw[d] # out_cpu[d]
  <2>1. \/ sending'[d] = outbuf[d][out_hw[d]]
        \/ /\ handed'[d] = handed[d] + 1
           /\ dropped'[d] = dropped[d] \union {outbuf[d][out_hw[d]]}
    BY <1>1, <1>2, <1>7, TypeFacts DEF Serve, SendNext
  <2>2. outbuf[d][out_hw[d]] = handed[d] + 1 /\ handed[d] \in Nat
    BY <1>1, <1>7, FirstByte, OutputFacts
  <2>3. handed[d] + 1 # 0
    BY <2>2
  <2>4. ~ToSend(d)' \/ TriggerLost(d)'
    BY <2>1, <2>2, <2>3 DEF ToSend, TriggerLost
  <2> QED BY <1>6, <2>4 DEF AnsweredSend
<1>8. CASE d = e /\ ~(snap[d].cts /\ out_hw[d] # out_cpu[d])
  <2>1. sending' = sending /\ out_hw' = out_hw /\ handed' = handed /\ dropped' = dropped
    BY <1>2, <1>8 DEF Serve, SendNext
  <2>2. (ToSend(d)' <=> ToSend(d)) /\ (TriggerLost(d)' <=> TriggerLost(d))
    BY <1>3, <2>1 DEF ToSend, TriggerLost
  <2>3. ToSend(d) => ~AboutToSend(d)
    BY <1>8 DEF ToSend, AboutToSend
  <2> QED BY <1>3, <1>4, <1>5, <1>6, <2>2, <2>3 DEF AnsweredSend
<1>9. CASE d # e
  <2>1. /\ out_hw'[d] = out_hw[d] /\ sending'[d] = sending[d] /\ snap'[d] = snap[d]
        /\ handed'[d] = handed[d] /\ dropped'[d] = dropped[d]
    BY <1>1, <1>2, <1>9, TypeFacts DEF Serve, SendNext
  <2>2. (ToSend(d)' <=> ToSend(d)) /\ (TriggerLost(d)' <=> TriggerLost(d))
    BY <1>3, <2>1 DEF ToSend, TriggerLost
  <2>3. AboutToSend(d) => AboutToSend(d)'
    BY <1>2, <1>3, <1>9, <2>1 DEF AboutToSend, Devs
  <2> QED BY <1>3, <1>4, <1>5, <1>6, <2>2, <2>3 DEF AnsweredSend
<1> QED BY <1>7, <1>8, <1>9

(* Whatever a handler leaves undone will have a request of its own.         *)
LEMMA AnsweredKept ==
  ASSUME RingsInv, LateRight, AnsweredLater, Next
  PROVE  AnsweredLater'
<1>1. TypeOK
  BY DEF RingsInv
<1>0. TypeOK'
  BY <1>1, TypeKept
<1>2. CASE Edge
  <2>1. hpc' = hpc
    BY <1>2 DEF Edge
  <2>2. hpc' \notin {"off", "enable"} => \A d \in Devs : AnsweredRecv(d)' /\ AnsweredSend(d)'
    BY <1>1, <1>2, <2>1, EdgeAnswers
  <2> QED BY <1>0, <2>2 DEF AnsweredLater, AnsweredRecv, AnsweredSend, TypeOK
<1>3. CASE \E e \in Devs : ByteArrives(e) \/ SendDone(e)
  <2>1. Fresh'
    BY <1>3 DEF Fresh, ByteArrives, SendDone
  <2> QED BY <2>1 DEF AnsweredLater
<1>4. CASE TakeInterrupt \/ HandlerDisable \/ WriteStore
  <2>1. hpc' \in {"disable", "readkbd"}
    BY <1>4 DEF TakeInterrupt, HandlerDisable, WriteStore
  <2>2. \A d : hpc' \in Before(d)'
    BY <2>1 DEF Before
  <2> QED BY <2>2 DEF AnsweredLater
<1>5. CASE ReadKeyboard \/ ReadMouse \/ ServeKeyboard \/ ServeMouse
  <2>1. \A d \in Devs : AnsweredRecv(d)' /\ AnsweredSend(d)'
    BY <1>1, <1>5, ReadAnswers, ServeAnswers
  <2> QED BY <1>0, <2>1 DEF AnsweredLater, AnsweredRecv, AnsweredSend, TypeOK
<1>6. CASE GetInterrupts \/ HandlerEnable \/ (Main /\ ~WriteStore)
  <2>1. hpc' \in {"off", "enable"}
    <3>1. CASE GetInterrupts \/ HandlerEnable
      BY <3>1 DEF GetInterrupts, HandlerEnable
    <3>2. CASE Main /\ ~WriteStore
      BY <3>2 DEF Main, Boot, ReadFetch, ReadAdvance, WriteRoom, WriteDisable,
                  WriteEnable, ReadBegin, WriteBegin
    <3> QED BY <1>6, <3>1, <3>2
  <2> QED BY <2>1 DEF AnsweredLater
<1> QED BY <1>2, <1>3, <1>4, <1>5, <1>6 DEF Next, Handler

(* What there is to be done for a device, of which no sign has been lost.   *)
DueRecv(d) == d \in recvReg \ swallowedRecv
DueSend(d) == d \in Devs \ swallowedSend /\ ToSend(d) /\ ~TriggerLost(d)

(* What is stranded, where nothing is on its way to the CPU.                *)
NothingStranded ==
  raised = {} /\ ~Fresh =>
    \A d \in Devs : /\ DueRecv(d) => hpc \in Before(d)
                    /\ DueSend(d) => hpc \in Before(d) \/ AboutToSend(d)

LEMMA StrandedIs == TypeOK => (StrandedOnlyIfSwallowed <=> NothingStranded)
<1> SUFFICES ASSUME TypeOK PROVE StrandedOnlyIfSwallowed <=> NothingStranded
  OBVIOUS
<1>1. recvReg \subseteq Devs
  BY TypeFacts
<1>2. \A before : Wake(before) <=> raised # {} \/ Fresh \/ hpc \in before
  BY DEF Wake, Fresh
<1> QED
  BY <1>1, <1>2 DEF NothingStranded, StrandedOnlyIfSwallowed, NoByteStranded,
                    NoOutputStranded, DueRecv, DueSend

(* A handler that is running leaves nothing undone without a reason to run  *)
(* again.                                                                   *)
Running == hpc \notin {"off", "enable"}

LEMMA HandlerStrands == TypeOK /\ LateRight /\ AnsweredLater /\ Running => StrandedOnlyIfSwallowed
<1> SUFFICES ASSUME TypeOK, LateRight, AnsweredLater, Running PROVE NothingStranded
  BY StrandedIs
<1>1. \A d \in Devs : AnsweredRecv(d) /\ AnsweredSend(d)
  BY AnsweredParts DEF Running
<1>2. raised = {} => late = {}
  BY DEF LateRight
<1> QED BY <1>1, <1>2 DEF NothingStranded, AnsweredRecv, AnsweredSend, DueRecv, DueSend

(* A wake-up that is not swallowed or dropped is not lost.                  *)
LEMMA StrandedKept ==
  ASSUME RingsInv, LateRight, AnsweredLater, StrandedOnlyIfSwallowed, Next
  PROVE  StrandedOnlyIfSwallowed'
<1>1. TypeOK /\ Masked /\ TypeOK'
  BY TypeKept DEF RingsInv
<1>2. CASE hpc' \notin {"off", "enable"}
  <2>1. LateRight' /\ AnsweredLater'
    BY <1>1, LateKept, AnsweredKept
  <2>2. Running'
    BY <1>2 DEF Running
  <2> QED BY <1>1, <2>1, <2>2, HandlerStrands, PTL
<1>3. CASE hpc' \in {"off", "enable"}
  <2> SUFFICES ASSUME raised' = {}, ~Fresh', NEW d \in Devs
               PROVE  ~DueRecv(d)' /\ ~DueSend(d)'
    <3>1. NothingStranded'
      BY DEF NothingStranded
    <3> QED BY <1>1, <3>1, StrandedIs, PTL
  <2>1. ASSUME raised = {}, ~Fresh, hpc \in {"off", "enable"}
        PROVE  ~DueRecv(d) /\ ~DueSend(d)
    BY <1>1, <2>1, StrandedIs DEF NothingStranded, Before, AboutToSend
  <2>2. CASE Edge
    <3>1. /\ Clock({}) /\ hpc' = hpc /\ sending' = sending
          /\ out_hw' = out_hw /\ out_cpu' = out_cpu /\ handed' = handed /\ dropped' = dropped
          /\ swallowedRecv' = swallowedRecv /\ swallowedSend' = swallowedSend
      BY <2>2 DEF Edge, rings
    <3>2. raised = {} /\ ~Fresh /\ recvReg' = recvReg
      BY <3>1, ClockWakes DEF Fresh
    <3> QED BY <1>3, <2>1, <3>1, <3>2 DEF DueRecv, DueSend, ToSend, TriggerLost
  <2>3. CASE \E e \in Devs : ByteArrives(e) \/ SendDone(e)
    BY <2>3 DEF Fresh, ByteArrives, SendDone
  <2>4. CASE GetInterrupts
    <3>1. /\ hpc = "acknowledge" /\ recvReg' = recvReg /\ sending' = sending
          /\ out_hw' = out_hw /\ out_cpu' = out_cpu /\ handed' = handed /\ dropped' = dropped
          /\ ~Fresh
      BY <2>4 DEF GetInterrupts, Acknowledge, latchVars, hardware, rings, Fresh
    <3>2. AnsweredRecv(d) /\ AnsweredSend(d)
      BY <1>1, <3>1, AnsweredParts
    <3>3. hpc \notin Before(d) /\ ~AboutToSend(d)
      BY <3>1 DEF Before, AboutToSend
    <3>4. d \in late => mpc = "return"
      BY <3>1 DEF LateRight
    <3>5. /\ swallowedRecv \subseteq swallowedRecv' /\ swallowedSend \subseteq swallowedSend'
          /\ d \in late /\ d \in recvReg => d \in swallowedRecv'
          /\ d \in late /\ ToSend(d) => d \in swallowedSend'
      BY <2>4, <3>4 DEF GetInterrupts
    <3> QED
      BY <3>1, <3>2, <3>3, <3>5 DEF DueRecv, DueSend, AnsweredRecv, AnsweredSend, ToSend, TriggerLost
  <2>5. CASE HandlerEnable
    <3>1. /\ hpc = "enable" /\ recvReg' = recvReg /\ sending' = sending
          /\ out_hw' = out_hw /\ out_cpu' = out_cpu /\ handed' = handed /\ dropped' = dropped
          /\ swallowedRecv' = swallowedRecv /\ swallowedSend' = swallowedSend
          /\ raised = {} /\ ~Fresh
      BY <2>5 DEF HandlerEnable, hardware, rings, history, latchVars, Fresh
    <3> QED BY <2>1, <3>1 DEF DueRecv, DueSend, ToSend, TriggerLost
  <2>6. CASE Main
    <3>0. \/ Boot \/ ReadFetch \/ ReadAdvance \/ WriteRoom \/ WriteDisable \/ WriteEnable
          \/ \E e \in Devs : ReadBegin(e) \/ WriteBegin(e)
      BY <1>3, <2>6 DEF Main, WriteStore
    <3>1. /\ hpc = "off" /\ recvReg' = recvReg /\ sending' = sending
          /\ handed' = handed /\ dropped' = dropped
          /\ swallowedRecv' = swallowedRecv /\ swallowedSend' = swallowedSend
          /\ UNCHANGED <<waiting, raised, recvPulse, donePulse, ps2_int>>
      BY <3>0 DEF Boot, ReadFetch, ReadAdvance, WriteRoom, WriteDisable,
                  WriteEnable, ReadBegin, WriteBegin, latchVars, hardware, history
    <3>2. \/ out_hw' = out_hw /\ out_cpu' = out_cpu
          \/ out_hw' = EachDev(0) /\ out_cpu' = EachDev(0)
      BY <3>0 DEF Boot, ReadFetch, ReadAdvance, WriteRoom, WriteDisable,
                  WriteEnable, ReadBegin, WriteBegin, rings
    <3>3. raised = {} /\ ~Fresh
      BY <3>1 DEF Fresh
    <3>4. ~DueRecv(d) /\ ~DueSend(d)
      BY <2>1, <3>1, <3>3
    <3>5. ToSend(d)' => ToSend(d)
      BY <3>1, <3>2 DEF ToSend, EachDev
    <3> QED BY <3>1, <3>4, <3>5 DEF DueRecv, DueSend, TriggerLost
  <2>7. ~(TakeInterrupt \/ HandlerDisable \/ ReadKeyboard \/ ReadMouse \/ ServeKeyboard \/ ServeMouse)
    BY <1>3 DEF TakeInterrupt, HandlerDisable, ReadKeyboard, ReadMouse, ReadRegister,
                ServeKeyboard, ServeMouse, Serve
  <2> QED BY <2>2, <2>3, <2>4, <2>5, <2>6, <2>7 DEF Next, Handler
<1> QED BY <1>2, <1>3

LEMMA InitWake == Init => WakeInv
<1> SUFFICES ASSUME Init PROVE WakeInv
  OBVIOUS
<1>1. hpc = "off" /\ recvReg = {} /\ late = {} /\ \A d \in Devs : out_hw[d] = out_cpu[d]
  BY DEF Init, EachDev
<1> QED BY <1>1, InitRings DEF WakeInv, LateRight, AnsweredLater, ToSend,
          StrandedOnlyIfSwallowed, NoByteStranded, NoOutputStranded

LEMMA NextWake == WakeInv /\ [Next]_vars => WakeInv'
<1>1. ASSUME WakeInv, Next PROVE WakeInv'
  <2>1. RingsInv /\ LateRight /\ AnsweredLater /\ StrandedOnlyIfSwallowed /\ TypeOK
    BY <1>1 DEF WakeInv, RingsInv
  <2>2. RingsInv'
    BY <1>1, <2>1, NextRings
  <2>3. LateRight' /\ AnsweredLater' /\ StrandedOnlyIfSwallowed'
    BY <1>1, <2>1, LateKept, AnsweredKept, StrandedKept
  <2> QED BY <2>2, <2>3 DEF WakeInv
<1>2. ASSUME WakeInv, UNCHANGED vars PROVE WakeInv'
  <2>1. RingsInv'
    BY <1>2, NextRings DEF WakeInv
  <2>2. /\ UNCHANGED <<waiting, raised, recvPulse, donePulse, sending, recvReg, ps2_int>>
        /\ UNCHANGED <<out_hw, out_cpu, hpc, snap, mpc, handed, dropped, late>>
        /\ UNCHANGED <<swallowedRecv, swallowedSend>>
    BY <1>2 DEF vars, latchVars, hardware, rings, history
  <2>3. AnsweredLater' /\ LateRight'
    BY <1>2, <2>2 DEF WakeInv, AnsweredLater, LateRight, HasRead, Fresh, AboutToSend, ToSend, TriggerLost
  <2>4. StrandedOnlyIfSwallowed'
    BY <1>2, <2>2 DEF WakeInv, StrandedOnlyIfSwallowed, NoByteStranded, NoOutputStranded, Wake,
                      AboutToSend, ToSend, TriggerLost
  <2> QED BY <2>1, <2>3, <2>4 DEF WakeInv
<1> QED BY <1>1, <1>2

(* Every reachable state has, besides bytes in order, a reason to run the   *)
(* handler for whatever it leaves undone.                                   *)
THEOREM WakeInvariance == Spec => []WakeInv
  BY InitWake, NextWake, PTL DEF Spec

(* A byte in a register is never left with nothing to fetch it, nor a byte  *)
(* in an output ring with the device ready and nothing to send it, in any   *)
(* but two ways: a handler run by the writer has acknowledged a request     *)
(* that was raised after it read that device's register, and nothing has    *)
(* read the register since; or the last byte written to the device was      *)
(* dropped by io_ps2_com.                                                   *)
THEOREM WakeUpsLostTwoWays == Spec => []StrandedOnlyIfSwallowed
<1>1. WakeInv => StrandedOnlyIfSwallowed
  BY DEF WakeInv
<1> QED BY <1>1, WakeInvariance, PTL

=============================================================================
