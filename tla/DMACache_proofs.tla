-------------------------- MODULE DMACache_proofs --------------------------
(***************************************************************************)
(* The FIFOs of the DMA cache never overflow, words come out of them in    *)
(* the order of memory, and enough words are fetched: for any number of    *)
(* channels, any burst and FIFO size and any addresses and lengths (with   *)
(* the alignment that the last of them needs).                             *)
(*                                                                         *)
(* A burst is started by comparing a counter that has not seen the words   *)
(* and the reads of the last cycle yet.  CounterRight says by how much it  *)
(* lags; with it, the test leaves room for a whole burst (StartHasRoom),   *)
(* and Room says that the room stays reserved while the burst arrives.     *)
(***************************************************************************)
EXTENDS DMACache, TLAPS

USE SizeAssumption

(* The remainder is less than the divisor; the addresses, pointers and      *)
(* offsets of the cache are all taken modulo the burst or the FIFO size.    *)
LEMMA Remainder == \A x \in Nat, n \in Nat \ {0} : x % n \in 0 .. n - 1
  BY SMT

(* The initial state satisfies the invariant: no channel has an address.    *)
LEMMA InitIInv == Init => IInv
<1> SUFFICES ASSUME Init PROVE IInv
  OBVIOUS
<1>1. 0 \in Slots /\ 0 \in 0 .. Burst /\ 0 \in 0 .. 2 * Depth - 1
  BY DEF Slots
<1>2. TypeOK
  <2>1. /\ addr \in [Channels -> Nat] /\ count \in [Channels -> Int]
        /\ extend \in [Channels -> BOOLEAN] /\ done \in [Channels -> BOOLEAN]
        /\ wrptr \in [Channels -> Slots]
    BY <1>1 DEF Init, EachChannel
  <2>2. /\ pending \in [Channels -> BOOLEAN] /\ rdptr \in [Channels -> Slots]
        /\ fill \in [Channels -> BOOLEAN] /\ drain \in [Channels -> BOOLEAN]
        /\ counter \in [Channels -> 0 .. 2 * Depth - 1]
    BY <1>1 DEF Init, EachChannel
  <2>3. /\ base \in [Channels -> Nat] /\ due \in [Channels -> Nat]
        /\ wr \in [Channels -> Nat] /\ rd \in [Channels -> Nat]
    BY DEF Init, EachChannel
  <2>4. inputstate \in 0 .. Burst /\ active \in Channels
    BY <1>1 DEF Init
  <2>5. column \in Int /\ lengths \in [Channels -> Nat]
    BY DEF Init, EachChannel
  <2>6. sdram_req \in BOOLEAN
    BY DEF Init
  <2>7. /\ valid \subseteq Channels
        /\ loaded \subseteq Channels /\ tainted \subseteq Channels
        /\ early \in BOOLEAN /\ unseen \subseteq Channels /\ hosted \subseteq Channels
    BY DEF Init
  <2>8. sdram \in {"idle", "ack", "wait", "fill"}
    BY DEF Init
  <2>9. write \in SUBSET (Channels \X Int \X Int)
    BY DEF Init, EachChannel
  <2>10. rdaddr \in Channels \X Slots
    BY <1>1 DEF Init, EachChannel
  <2> QED BY <2>1, <2>2, <2>3, <2>4, <2>5, <2>6, <2>7, <2>8, <2>9, <2>10 DEF TypeOK
<1>3. CounterRight /\ Room /\ DrainOnce
  BY DEF Init, CounterRight, Room, DrainOnce, Clean
<1> QED BY <1>2, <1>3 DEF IInv

(* A channel the arbiter picks has room for a burst, whatever the counter   *)
(* has not seen yet: it errs on the side of full.                           *)
LEMMA StartHasRoom ==
  ASSUME IInv, NEW c \in Clean, c \in Wants
  PROVE  wr[c] - rd[c] + Burst < Depth
<1>1. /\ c \in Channels /\ wr[c] \in Nat /\ rd[c] \in Nat /\ counter[c] \in Nat
      /\ fill[c] \in BOOLEAN /\ drain[c] \in BOOLEAN
  BY DEF IInv, TypeOK, Clean
<1>2. counter[c] = 1 + wr[c] - Lag(fill[c]) - rd[c] + Lag(drain[c])
  BY DEF IInv, CounterRight
<1>3. counter[c] < Depth - Burst
  BY <1>1 DEF Wants, full
<1>4. Lag(fill[c]) \in {0, 1} /\ Lag(drain[c]) \in {0, 1}
  BY DEF Lag
<1> QED BY <1>1, <1>2, <1>3, <1>4

(* The state of the input side after a cycle: it goes on with its burst, is *)
(* idle, or begins a burst for a channel that wants one.                    *)
LEMMA InputStep ==
  ASSUME IInv, Rd1 \/ Rcv1Wait \/ RcvWord \/ RcvLast
  PROVE  /\ inputstate' \in 0 .. Burst /\ active' \in Channels
         /\ \/ inputstate' = 0 /\ (Receiving => LastWord)
            \/ inputstate' = 1 /\ active' \in Wants /\ (Receiving => LastWord)
            \/ /\ active' = active /\ inputstate # 0
               /\ inputstate' = IF Receiving THEN inputstate + 1 ELSE inputstate
               /\ ~(Receiving /\ LastWord)
<1>1. inputstate \in 0 .. Burst /\ active \in Channels
  BY DEF IInv, TypeOK
<1>2. Wants \subseteq Channels
  BY DEF Wants
<1>3. ASSUME Arbitrate
      PROVE  /\ inputstate' \in 0 .. Burst /\ active' \in Channels
             /\ inputstate' = 0 \/ (inputstate' = 1 /\ active' \in Wants)
  BY <1>1, <1>2, <1>3 DEF Arbitrate
<1>4. CASE Rd1
  BY <1>1, <1>3, <1>4 DEF Rd1, Receiving
<1>5. CASE Rcv1Wait
  BY <1>1, <1>5 DEF Rcv1Wait, Receiving
<1>6. CASE RcvWord
  BY <1>1, <1>6 DEF RcvWord, Receiving, LastWord
<1>7. CASE RcvLast
  BY <1>1, <1>3, <1>7 DEF RcvLast
<1> QED BY <1>4, <1>5, <1>6, <1>7

(* A channel that is clean after a cycle either was clean and was not given *)
(* an address, or was given one while it was neither busy nor served.       *)
LEMMA CleanBefore ==
  ASSUME NEW setaddr, NEW setreqlen, NEW a, NEW l,
         History(setaddr, setreqlen, a, l), NEW c \in Clean'
  PROVE  \/ c \in Clean /\ c \notin setaddr
         \/ c \in setaddr /\ ~Busy(c) /\ ~Served(c)
  BY DEF History, Clean

(* The counter after a cycle: it has caught up with what had been received  *)
(* and served before the cycle, and neither wraps.                          *)
LEMMA CounterStep ==
  ASSUME IInv, NEW setaddr, FIFOCounters(setaddr), NEW c \in Clean, c \notin setaddr
  PROVE  counter'[c] = 1 + wr[c] - rd[c]
<1>1. /\ c \in Channels /\ wr[c] \in Nat /\ rd[c] \in Nat
      /\ counter[c] \in 0 .. 2 * Depth - 1
  BY DEF IInv, TypeOK, Clean
<1>2. fill[c] \in BOOLEAN /\ drain[c] \in BOOLEAN
  BY <1>1 DEF IInv, TypeOK
<1>3. counter[c] = 1 + wr[c] - Lag(fill[c]) - rd[c] + Lag(drain[c])
  BY DEF IInv, CounterRight
<1>4. wr[c] - rd[c] <= Depth
  <2>1. wr[c] - rd[c] + Remaining(c) <= Depth
    BY DEF IInv, Room
  <2>2. inputstate \in 0 .. Burst
    BY DEF IInv, TypeOK
  <2> QED BY <1>1, <2>1, <2>2 DEF Remaining
<1>5. counter'[c] = IF fill[c] /\ ~drain[c] THEN Up(counter[c])
                    ELSE IF drain[c] /\ ~fill[c] THEN Down(counter[c])
                    ELSE counter[c]
  BY <1>1 DEF FIFOCounters
<1>6. CASE fill[c] /\ drain[c]
  BY <1>1, <1>3, <1>5, <1>6 DEF Lag
<1>7. CASE fill[c] /\ ~drain[c]
  BY <1>1, <1>3, <1>4, <1>5, <1>7 DEF Lag, Up
<1>8. CASE ~fill[c] /\ drain[c]
  <2>1. counter[c] >= 1
    BY <1>8 DEF IInv, DrainOnce
  <2> QED BY <1>1, <1>3, <1>5, <1>8, <2>1 DEF Lag, Down
<1>9. CASE ~fill[c] /\ ~drain[c]
  BY <1>1, <1>3, <1>5, <1>9 DEF Lag
<1> QED BY <1>2, <1>6, <1>7, <1>8, <1>9

(* What a cycle does to a channel that keeps its address.                   *)
LEMMA KeptChannel ==
  ASSUME TypeOK,
         NEW setaddr, NEW setreqlen, NEW req, NEW a, NEW l,
         Cycle(setaddr, setreqlen, req, a, l), NEW c \in Channels, c \notin setaddr
  PROVE  /\ fill'[c] = (Receiving /\ c = active)
         /\ drain'[c] = Served(c)
         /\ wr'[c] = wr[c] + Lag(fill'[c])
         /\ rd'[c] = rd[c] + Lag(drain'[c])
         /\ pending'[c] => ~Served(c)
<1>1. fill'[c] = (Receiving /\ c = active)
  BY DEF Cycle, InputProcess, Fill
<1>2. drain'[c] = Served(c) /\ (pending'[c] => ~Served(c))
  BY DEF Cycle, OutputProcess
<1>3. wr[c] \in Nat /\ rd[c] \in Nat
  BY DEF TypeOK
<1>4. wr'[c] = IF Receiving /\ c = active THEN wr[c] + 1 ELSE wr[c]
  BY DEF Cycle, History
<1>5. rd'[c] = IF Served(c) THEN rd[c] + 1 ELSE rd[c]
  BY DEF Cycle, History
<1>6. wr'[c] = wr[c] + Lag(fill'[c])
  <2>1. CASE Receiving /\ c = active
    <3>1. fill'[c] = TRUE
      BY <1>1, <2>1
    <3>2. wr'[c] = wr[c] + 1
      BY <1>4, <2>1
    <3> QED BY <3>1, <3>2 DEF Lag
  <2>2. CASE ~(Receiving /\ c = active)
    <3>1. fill'[c] = FALSE
      BY <1>1, <2>2
    <3>2. wr'[c] = wr[c]
      BY <1>4, <2>2
    <3> QED BY <1>3, <3>1, <3>2 DEF Lag
  <2> QED BY <2>1, <2>2
<1>7. rd'[c] = rd[c] + Lag(drain'[c])
  <2>1. CASE Served(c)
    BY <1>2, <1>3, <1>5, <2>1 DEF Lag
  <2>2. CASE ~Served(c)
    BY <1>2, <1>3, <1>5, <2>2 DEF Lag
  <2> QED BY <2>1, <2>2
<1> QED BY <1>1, <1>2, <1>6, <1>7

(* What it does to one that is given an address while it is quiet.          *)
LEMMA ReloadedChannel ==
  ASSUME TypeOK,
         NEW setaddr \in SUBSET Channels, NEW setreqlen, NEW req, NEW a, NEW l,
         Cycle(setaddr, setreqlen, req, a, l),
         NEW c \in setaddr, ~Busy(c), ~Served(c)
  PROVE  /\ fill'[c] = FALSE /\ drain'[c] = FALSE
         /\ counter'[c] = 1 /\ wr'[c] = 0 /\ rd'[c] = 0
<1>1. ~(Receiving /\ c = active)
  <2>1. inputstate \in 0 .. Burst
    BY DEF TypeOK
  <2> QED BY <2>1 DEF Receiving, Busy
<1>2. fill'[c] = FALSE
  BY <1>1 DEF Cycle, InputProcess, Fill
<1>3. drain'[c] = FALSE
  BY DEF Cycle, OutputProcess
<1>4. counter'[c] = 1
  BY DEF Cycle, FIFOCounters, CounterReset
<1>5. wr'[c] = 0 /\ rd'[c] = 0
  BY DEF Cycle, History
<1> QED BY <1>2, <1>3, <1>4, <1>5

(* The counters stay right.                                                 *)
LEMMA CounterKept ==
  ASSUME IInv,
         NEW setaddr \in SUBSET Channels, NEW setreqlen, NEW req, NEW a, NEW l,
         Cycle(setaddr, setreqlen, req, a, l)
  PROVE  CounterRight' /\ DrainOnce'
<1> SUFFICES ASSUME NEW c \in Clean'
             PROVE  /\ counter'[c] = 1 + wr'[c] - Lag(fill'[c]) - rd'[c] + Lag(drain'[c])
                    /\ drain'[c] => counter'[c] >= 1 /\ ~pending'[c]
  BY DEF CounterRight, DrainOnce, Lag
<1>1. TypeOK
  BY DEF IInv
<1>2. \/ c \in Clean /\ c \notin setaddr
      \/ c \in setaddr /\ ~Busy(c) /\ ~Served(c)
  BY CleanBefore DEF Cycle
<1>3. CASE c \in setaddr /\ ~Busy(c) /\ ~Served(c)
  <2>1. /\ fill'[c] = FALSE /\ drain'[c] = FALSE
        /\ counter'[c] = 1 /\ wr'[c] = 0 /\ rd'[c] = 0
    BY <1>1, <1>3, ReloadedChannel
  <2> QED BY <2>1 DEF Lag
<1>4. CASE c \in Clean /\ c \notin setaddr
  <2>1. c \in Channels /\ wr[c] \in Nat /\ rd[c] \in Nat
    BY <1>1, <1>4 DEF TypeOK, Clean
  <2>2. counter'[c] = 1 + wr[c] - rd[c]
    BY <1>4, CounterStep DEF Cycle
  <2>3. /\ wr'[c] = wr[c] + Lag(fill'[c]) /\ rd'[c] = rd[c] + Lag(drain'[c])
        /\ drain'[c] = Served(c) /\ (pending'[c] => ~Served(c))
    BY <1>1, <1>4, <2>1, KeptChannel
  <2>4. Lag(fill'[c]) \in {0, 1} /\ Lag(drain'[c]) \in {0, 1}
    BY DEF Lag
  <2>5. ASSUME Served(c) PROVE counter'[c] >= 1
    <3>1. pending[c] /\ counter[c] # 0
      BY <2>5 DEF Served, Serviceable, empty
    <3>2. drain[c] = FALSE
      BY <1>1, <1>4, <2>1, <3>1 DEF IInv, DrainOnce, TypeOK
    <3>3. counter[c] = 1 + wr[c] - Lag(fill[c]) - rd[c]
      BY <1>4, <2>1, <3>2 DEF IInv, CounterRight, Lag
    <3>4. counter[c] \in Nat /\ Lag(fill[c]) \in {0, 1}
      BY <1>1, <2>1 DEF TypeOK, Lag
    <3> QED BY <2>1, <2>2, <3>1, <3>3, <3>4
  <2>6. counter'[c] = 1 + wr'[c] - Lag(fill'[c]) - rd'[c] + Lag(drain'[c])
    BY <2>1, <2>2, <2>3, <2>4
  <2> QED BY <2>3, <2>5, <2>6
<1> QED BY <1>2, <1>3, <1>4

(* The room stays reserved.                                                 *)
LEMMA RoomKept ==
  ASSUME IInv,
         NEW setaddr \in SUBSET Channels, NEW setreqlen, NEW req, NEW a, NEW l,
         Cycle(setaddr, setreqlen, req, a, l)
  PROVE  Room'
<1> SUFFICES ASSUME NEW c \in Clean'
             PROVE  wr'[c] - rd'[c] + Remaining(c)' <= Depth
  BY DEF Room
<1>1. TypeOK
  BY DEF IInv
<1>2. \/ c \in Clean /\ c \notin setaddr
      \/ c \in setaddr /\ ~Busy(c) /\ ~Served(c)
  BY CleanBefore DEF Cycle
<1>3. inputstate' \in 0 .. Burst
  BY InputStep DEF Cycle, InputProcess
<1>4. \/ inputstate' = 0 /\ (Receiving => LastWord)
      \/ inputstate' = 1 /\ active' \in Wants /\ (Receiving => LastWord)
      \/ /\ active' = active /\ inputstate # 0
         /\ inputstate' = IF Receiving THEN inputstate + 1 ELSE inputstate
         /\ ~(Receiving /\ LastWord)
  BY InputStep DEF Cycle, InputProcess
<1>5. Remaining(c)' = IF inputstate' # 0 /\ active' = c
                      THEN Burst - (inputstate' - 1) ELSE 0
  BY DEF Remaining, Busy
<1>6. CASE c \in setaddr /\ ~Busy(c) /\ ~Served(c)
  <2>1. wr'[c] = 0 /\ rd'[c] = 0
    BY <1>1, <1>6, ReloadedChannel
  <2>2. Remaining(c)' \in 0 .. Burst
    <3>1. CASE inputstate' # 0 /\ active' = c
      <4>1. Remaining(c)' = Burst - (inputstate' - 1)
        BY <1>5, <3>1
      <4>2. inputstate' \in 1 .. Burst
        BY <1>3, <3>1
      <4>3. \A n \in 1 .. Burst : Burst - (n - 1) \in 0 .. Burst
        OBVIOUS
      <4> QED BY <4>1, <4>2, <4>3
    <3>2. CASE ~(inputstate' # 0 /\ active' = c)
      BY <1>5, <3>2
    <3> QED BY <3>1, <3>2
  <2> QED BY <2>1, <2>2
<1>7. CASE c \in Clean /\ c \notin setaddr
  <2>1. c \in Channels /\ wr[c] \in Nat /\ rd[c] \in Nat
    BY <1>1, <1>7 DEF TypeOK, Clean
  <2>2. /\ wr'[c] = wr[c] + Lag(Receiving /\ c = active)
        /\ rd'[c] = rd[c] + Lag(drain'[c])
    BY <1>1, <1>7, <2>1, KeptChannel
  <2>3. Lag(drain'[c]) \in {0, 1}
    BY DEF Lag
  <2>4. wr[c] - rd[c] + Remaining(c) <= Depth
    BY <1>7 DEF IInv, Room
  <2>5. inputstate \in 0 .. Burst
    BY <1>1 DEF TypeOK
  <2>6. Remaining(c) = IF inputstate # 0 /\ active = c
                       THEN Burst - (inputstate - 1) ELSE 0
    BY DEF Remaining, Busy
  <2>7. Receiving => inputstate # 0
    BY DEF Receiving
  <2>8. CASE inputstate' = 0 /\ (Receiving => LastWord)
    BY <1>5, <2>1, <2>2, <2>3, <2>4, <2>5, <2>6, <2>7, <2>8 DEF LastWord, Lag
  <2>9. CASE inputstate' = 1 /\ active' \in Wants /\ (Receiving => LastWord)
    <3>1. c = active' => wr[c] - rd[c] + Burst < Depth
      BY <1>7, <2>9, StartHasRoom
    <3> QED
      BY <1>5, <2>1, <2>2, <2>3, <2>4, <2>5, <2>6, <2>7, <2>9, <3>1 DEF LastWord, Lag
  <2>10. CASE /\ active' = active /\ inputstate # 0
              /\ inputstate' = IF Receiving THEN inputstate + 1 ELSE inputstate
              /\ ~(Receiving /\ LastWord)
    BY <1>3, <1>5, <2>1, <2>2, <2>3, <2>4, <2>5, <2>6, <2>10 DEF Lag
  <2> QED BY <1>4, <2>8, <2>9, <2>10
<1> QED BY <1>2, <1>6, <1>7

(* Types are kept, the wraps of the pointers and the counter included.      *)
LEMMA TypeKept ==
  ASSUME TypeOK, NEW move \in BOOLEAN, Sdram(move),
         NEW setaddr \in SUBSET Channels, NEW setreqlen \in SUBSET Channels,
         NEW req \in SUBSET Channels, NEW a \in Nat, NEW l \in Nat,
         Cycle(setaddr, setreqlen, req, a, l),
         inputstate' \in 0 .. Burst, active' \in Channels
  PROVE  TypeOK'
<1>1. 0 \in Slots /\ 1 \in 0 .. 2 * Depth - 1
  BY DEF Slots
<1>2. \A x \in Nat : x % Burst \in Nat /\ x % Burst \in Slots /\ x % Depth \in Slots
  <2> SUFFICES ASSUME NEW x \in Nat
               PROVE  x % Burst \in Nat /\ x % Burst \in Slots /\ x % Depth \in Slots
    OBVIOUS
  <2>1. x % Burst \in 0 .. Burst - 1 /\ x % Depth \in 0 .. Depth - 1
    BY Remainder
  <2>2. 0 .. Burst - 1 \subseteq Slots /\ 0 .. Burst - 1 \subseteq Nat
    BY DEF Slots
  <2> QED BY <2>1, <2>2 DEF Slots
<1>3. \A c \in Channels :
        /\ addr[c] \in Nat /\ count[c] \in Int /\ wrptr[c] \in Slots /\ rdptr[c] \in Slots
        /\ counter[c] \in 0 .. 2 * Depth - 1
        /\ base[c] \in Nat /\ due[c] \in Nat /\ wr[c] \in Nat /\ rd[c] \in Nat
  BY DEF TypeOK
<1>4. addr' \in [Channels -> Nat] /\ count' \in [Channels -> Int]
  BY <1>3 DEF Cycle, InputProcess, Address, Count
<1>5. extend' \in [Channels -> BOOLEAN]
  BY DEF TypeOK, Cycle, InputProcess, Extend
<1>6. done' \in [Channels -> BOOLEAN]
  BY DEF TypeOK, Cycle, InputProcess, Done
<1>7. wrptr' \in [Channels -> Slots]
  <2>1. \A c \in Channels : wrptr[c] + Burst \in Nat
    BY <1>3 DEF Slots
  <2>2. \A c \in Channels : (wrptr[c] + Burst) % Depth \in Slots
    BY <1>2, <2>1
  <2> QED BY <1>1, <1>3, <2>2 DEF Cycle, InputProcess, WritePointer
<1>8. write' \in SUBSET (Channels \X Int \X Int)
  <2>1. /\ active \in Channels /\ wrptr[active] + inputstate - 1 \in Int
        /\ column + inputstate - 1 \in Int
    BY <1>3 DEF TypeOK, Slots
  <2> QED BY <2>1 DEF Cycle, InputProcess, WritePort
<1>9. pending' \in [Channels -> BOOLEAN] /\ drain' \in [Channels -> BOOLEAN]
  BY DEF TypeOK, Cycle, OutputProcess, Served
<1>10. rdptr' \in [Channels -> Slots]
  <2>1. \A c \in Channels : rdptr[c] + 1 \in Nat
    BY <1>3 DEF Slots
  <2>2. \A c \in Channels : (rdptr[c] + 1) % Depth \in Slots
    BY <1>2, <2>1
  <2> QED BY <1>2, <1>3, <2>2 DEF Cycle, OutputProcess, StartSlot
<1>11. valid' \subseteq Channels
  BY DEF Cycle, OutputProcess
<1>12. rdaddr' \in Channels \X Slots
  BY <1>3 DEF TypeOK, Cycle, OutputProcess
<1>13. fill' \in [Channels -> BOOLEAN]
  BY DEF Cycle, InputProcess, Fill
<1>14. counter' \in [Channels -> 0 .. 2 * Depth - 1]
  <2>1. \A n \in 0 .. 2 * Depth - 1 :
          Up(n) \in 0 .. 2 * Depth - 1 /\ Down(n) \in 0 .. 2 * Depth - 1
    BY DEF Up, Down
  <2> QED BY <1>1, <1>3, <2>1 DEF Cycle, FIFOCounters, CounterReset
<1>15. sdram' \in {"idle", "ack", "wait", "fill"}
  BY DEF TypeOK, Sdram, sdramVars
<1>16. column' \in Int
  <2>1. addr[active] - (addr[active] % Burst) \in Int
    BY <1>2, <1>3 DEF TypeOK
  <2> QED BY <2>1 DEF TypeOK, Sdram, sdramVars
<1>17. loaded' \subseteq Channels /\ tainted' \subseteq Channels
  BY DEF TypeOK, Cycle, History
<1>18. /\ base' \in [Channels -> Nat]
       /\ wr' \in [Channels -> Nat] /\ rd' \in [Channels -> Nat]
  BY <1>3 DEF Cycle, History
<1>19. due' \in [Channels -> Nat]
  <2>1. \A c \in Channels : wr'[c] \in Nat /\ base'[c] % Burst \in Nat
    BY <1>2, <1>18
  <2>2. \A c \in Channels : wr'[c] + l + (base'[c] % Burst) \in Nat /\ wr'[c] + l + 0 \in Nat
    BY <2>1
  <2> QED BY <1>3, <2>2 DEF Cycle, History
<1>20. early' \in BOOLEAN /\ unseen' \subseteq Channels /\ hosted' \subseteq Channels
  BY DEF TypeOK, Cycle, History
<1>22. lengths' \in [Channels -> Nat]
  BY DEF TypeOK, Cycle, History
<1>21. sdram_req' \in BOOLEAN
  BY DEF TypeOK, Cycle, InputProcess, Rd1, Rcv1Wait, RcvWord, RcvLast, Arbitrate
<1> QED
  BY <1>4, <1>5, <1>6, <1>7, <1>8, <1>9, <1>10, <1>11, <1>12, <1>13, <1>14, <1>15,
     <1>16, <1>17, <1>18, <1>19, <1>20, <1>21, <1>22 DEF TypeOK

(* Every step keeps the invariant.                                          *)
LEMMA NextIInv == IInv /\ [Next]_vars => IInv'
<1> SUFFICES ASSUME IInv, [Next]_vars PROVE IInv'
  OBVIOUS
<1>1. CASE Next
  <2>1. PICK move \in BOOLEAN : Step(move)
    BY <1>1 DEF Next
  <2>2. PICK setaddr \in SUBSET Channels, setreqlen \in SUBSET Channels,
             req \in SUBSET Channels, a \in Bases, l \in Lens :
          Cycle(setaddr, setreqlen, req, a, l)
    BY <2>1 DEF Step
  <2>3. Sdram(move) /\ a \in Nat /\ l \in Nat
    BY <2>1, HostAssumption DEF Step
  <2>4. inputstate' \in 0 .. Burst /\ active' \in Channels
    BY <2>2, InputStep DEF Cycle, InputProcess
  <2>5. TypeOK'
    BY <2>2, <2>3, <2>4, TypeKept DEF IInv
  <2>6. CounterRight' /\ DrainOnce'
    BY <2>2, CounterKept
  <2>7. Room'
    BY <2>2, RoomKept
  <2> QED BY <2>5, <2>6, <2>7 DEF IInv
<1>2. CASE UNCHANGED vars
  <2>1. UNCHANGED <<inputVars, fifoVars, history, pending, rdptr, valid, rdaddr, sdramVars>>
    BY <1>2 DEF vars, outputVars
  <2>2. TypeOK'
    BY <2>1 DEF IInv, TypeOK, inputVars, fifoVars, sdramVars, history
  <2>3. CounterRight' /\ Room' /\ DrainOnce'
    BY <2>1 DEF IInv, CounterRight, Room, DrainOnce, Clean, Remaining, Busy, Lag,
                inputVars, fifoVars, history
  <2> QED BY <2>2, <2>3 DEF IInv
<1> QED BY <1>1, <1>2

(* Every reachable state satisfies the inductive invariant.                 *)
THEOREM Invariance == Spec => []IInv
  BY InitIInv, NextIInv, PTL DEF Spec

(* Every state of the DMA cache has its registers in range: no pointer      *)
(* leaves its FIFO, and no FIFO counter its width.                          *)
THEOREM TypeCorrect == Spec => []TypeOK
<1>1. IInv => TypeOK
  BY DEF IInv
<1> QED BY <1>1, Invariance, PTL

(* No FIFO overflows: a clean channel never holds more unread words than    *)
(* its FIFO has slots, so no burst overwrites a word before it is read.     *)
THEOREM FIFOsNeverOverflow == Spec => []NoOverflow
<1>1. IInv => NoOverflow
  <2> SUFFICES ASSUME IInv, NEW c \in Clean PROVE wr[c] - rd[c] <= Depth
    BY DEF NoOverflow
  <2>1. /\ wr[c] \in Nat /\ rd[c] \in Nat /\ inputstate \in 0 .. Burst
        /\ wr[c] - rd[c] + Remaining(c) <= Depth
    BY DEF IInv, TypeOK, Room, Clean
  <2> QED BY <2>1 DEF Remaining
<1> QED BY <1>1, Invariance, PTL

-----------------------------------------------------------------------------
(***************************************************************************)
(* Words come out in the order of memory.  OrderInv follows a word from    *)
(* SDRAM to the host: bursts are aligned with the memory and with the FIFO *)
(* (InputAligned), a word is in its slot one cycle after it was received   *)
(* (Writing, WordsPlaced) and stays there until it is served (NoOverflow), *)
(* and the read pointer counts the words served (OutputAligned).           *)
(***************************************************************************)

(* Division with remainder, and what follows from it about the offsets in a *)
(* burst and the slots of a FIFO: the remainder is determined by it...      *)
LEMMA DivMod == \A x \in Nat, n \in Nat \ {0} :
   /\ x \div n \in Nat /\ x % n \in 0 .. n - 1
   /\ x = n * (x \div n) + (x % n)
  BY SMT

LEMMA ModSmaller ==
  ASSUME NEW x \in Nat, NEW n \in Nat \ {0}
  PROVE  x % n <= x
<1> DEFINE q == x \div n
           r == x % n
<1>1. q \in Nat /\ r \in 0 .. n - 1 /\ x = n * q + r
  BY DivMod
<1> HIDE DEF q, r
<1>2. \A y \in Nat : n * y >= 0
  OBVIOUS
<1>3. r <= x
  BY <1>1, <1>2
<1> QED BY <1>3 DEF r

LEMMA ModUnique ==
  ASSUME NEW x \in Nat, NEW n \in Nat \ {0}, NEW q \in Int, NEW r \in 0 .. n - 1, x = n * q + r
  PROVE  x % n = r
<1> DEFINE p == x \div n
           s == x % n
<1>1. p \in Nat /\ s \in 0 .. n - 1 /\ x = n * p + s
  BY DivMod
<1> HIDE DEF p, s
<1>2. n * (p - q) = r - s
  BY <1>1
<1>3. \A d \in Int : d >= 1 => n * d >= n
  OBVIOUS
<1>4. \A d \in Int : d <= -1 => n * d <= -n
  OBVIOUS
<1>5. p - q = 0
  BY <1>1, <1>2, <1>3, <1>4
<1>6. s = r
  BY <1>1, <1>5
<1> QED BY <1>6 DEF s

(* ...multiples of n change nothing...                                      *)
LEMMA ModAdd ==
  ASSUME NEW n \in Nat \ {0}, NEW x \in Nat, NEW y \in Nat, y % n = 0
  PROVE  (x + y) % n = x % n
<1> DEFINE p == x \div n
           q == y \div n
           r == x % n
<1>1. p \in Nat /\ q \in Nat /\ r \in 0 .. n - 1 /\ x = n * p + r /\ y = n * q
  BY DivMod
<1> HIDE DEF p, q, r
<1>2. x + y = n * (p + q) + r
  BY <1>1
<1>3. (x + y) % n = r
  BY <1>1, <1>2, ModUnique
<1> QED BY <1>3 DEF r

(* ...the slot of a word says where in its burst it is...                   *)
LEMMA ModMod ==
  ASSUME NEW m \in Nat \ {0}, NEW n \in Nat \ {0}, n % m = 0, NEW x \in Nat
  PROVE  (x % n) % m = x % m
<1> DEFINE q == x \div n
           r == x % n
<1>1. q \in Nat /\ r \in 0 .. n - 1 /\ x = n * q + r
  BY DivMod
<1>2. (n * q) % m = 0
  <2> DEFINE k == n \div m
  <2>1. k \in Nat /\ n = m * k
    BY DivMod
  <2> HIDE DEF k, q
  <2> DEFINE j == k * q
             z == n * q
  <2>2. j \in Nat /\ z \in Nat /\ z = m * j + 0
    BY <1>1, <2>1
  <2>3. 0 \in 0 .. m - 1
    OBVIOUS
  <2> HIDE DEF j, z
  <2>4. z % m = 0
    BY <2>2, <2>3, ModUnique
  <2> QED BY <2>4 DEF z
<1> DEFINE z == n * q
<1> HIDE DEF q, r
<1>3. r \in Nat /\ z \in Nat /\ z % m = 0 /\ x = r + z
  BY <1>1, <1>2
<1> HIDE DEF z
<1>4. (r + z) % m = r % m
  BY <1>3, ModAdd
<1> QED BY <1>3, <1>4 DEF r

(* ...what fits behind the remainder is added to it...                      *)
LEMMA ModSmall ==
  ASSUME NEW n \in Nat \ {0}, NEW x \in Nat, NEW y \in Nat, (x % n) + y < n
  PROVE  (x + y) % n = (x % n) + y
<1> DEFINE p == x \div n
           r == x % n
<1>1. p \in Nat /\ r \in 0 .. n - 1 /\ x = n * p + r
  BY DivMod
<1>2. r + y < n
  OBVIOUS
<1> HIDE DEF p, r
<1>3. x + y = n * p + (r + y) /\ r + y \in 0 .. n - 1
  BY <1>1, <1>2
<1>4. (x + y) % n = r + y
  BY <1>1, <1>3, ModUnique
<1> QED BY <1>4 DEF r

(* ...pointers may be taken modulo n as they advance...                     *)
LEMMA ModSum ==
  ASSUME NEW n \in Nat \ {0}, NEW x \in Nat, NEW y \in Nat
  PROVE  ((x % n) + y) % n = (x + y) % n
<1> DEFINE p == x \div n
           r == x % n
<1>1. p \in Nat /\ r \in 0 .. n - 1 /\ x = n * p + r
  BY DivMod
<1> HIDE DEF p, r
<1> DEFINE z == n * p
<1>2. 0 \in 0 .. n - 1 /\ z = n * p + 0 /\ z \in Nat
  BY <1>1
<1>3. x + y = (r + y) + z /\ r + y \in Nat
  BY <1>1
<1> HIDE DEF z
<1>4. z % n = 0
  BY <1>1, <1>2, ModUnique
<1>5. ((r + y) + z) % n = (r + y) % n
  BY <1>2, <1>3, <1>4, ModAdd
<1> QED BY <1>3, <1>5 DEF r

(* ...numbers closer than n have different remainders...                    *)
LEMMA ModDistinct ==
  ASSUME NEW n \in Nat \ {0}, NEW x \in Nat, NEW y \in Nat, x < y, y - x < n
  PROVE  x % n # y % n
<1> SUFFICES ASSUME x % n = y % n PROVE FALSE
  OBVIOUS
<1> DEFINE p == x \div n
           q == y \div n
           r == x % n
<1>1. p \in Nat /\ q \in Nat /\ r \in 0 .. n - 1 /\ x = n * p + r /\ y = n * q + r
  BY DivMod
<1> HIDE DEF p, q, r
<1>2. n * (q - p) = y - x
  BY <1>1
<1>3. \A d \in Int : d >= 1 => n * d >= n
  OBVIOUS
<1>4. \A d \in Int : d <= 0 => n * d <= 0
  OBVIOUS
<1> QED BY <1>1, <1>2, <1>3, <1>4

(* ...and a whole burst fits behind the slot where one begins.              *)
LEMMA ModRoom ==
  ASSUME NEW m \in Nat \ {0}, NEW n \in Nat \ {0}, n % m = 0, NEW x \in Nat, x % m = 0
  PROVE  (x % n) + m <= n
<1> DEFINE k == n \div m
           j == (x % n) \div m
<1>1. k \in Nat /\ n = m * k
  BY DivMod
<1>2. x % n \in 0 .. n - 1 /\ (x % n) % m = 0
  BY DivMod, ModMod
<1>3. j \in Nat /\ x % n = m * j
  BY <1>2, DivMod
<1> HIDE DEF k, j
<1>4. m * (k - j) > 0
  BY <1>1, <1>2, <1>3
<1>5. \A d \in Int : d <= 0 => m * d <= 0
  OBVIOUS
<1>6. k - j >= 1
  BY <1>1, <1>3, <1>4, <1>5
<1>7. \A d \in Int : d >= 1 => m * d >= m
  OBVIOUS
<1>8. m * (k - j) >= m
  BY <1>1, <1>3, <1>6, <1>7
<1> QED BY <1>1, <1>3, <1>8

(* Request, acknowledge and burst stay in step, and a burst that is just    *)
(* beginning has not been taken by the SDRAM controller yet.                *)
LEMMA InStepKept ==
  ASSUME TypeOK, InStep, NEW move, Sdram(move),
         Rd1 \/ Rcv1Wait \/ RcvWord \/ RcvLast
  PROVE  /\ InStep'
         /\ sdram_ack => inputstate = 1 /\ Rcv1Wait
         /\ Receiving => sdram = "fill"
         /\ Rd1 \/ RcvLast => sdram' = "idle"
<1>1. inputstate \in 0 .. Burst /\ sdram \in {"idle", "ack", "wait", "fill"}
      /\ sdram_req \in BOOLEAN
  BY DEF TypeOK
<1>2. CASE Rd1
  BY <1>1, <1>2 DEF Rd1, Arbitrate, InStep, Sdram, sdramVars, Receiving, sdram_ack
<1>3. CASE Rcv1Wait
  <2>1. inputstate = 1 /\ inputstate' = 1 /\ sdram # "fill" /\ ~Receiving
    BY <1>3 DEF Rcv1Wait, Receiving, sdram_fill
  <2>2. ~Rd1 /\ ~RcvLast
    BY <2>1 DEF Rd1, RcvLast
  <2>3. sdram_req' <=> sdram_req /\ sdram # "ack"
    BY <1>3 DEF Rcv1Wait, sdram_ack
  <2>4. sdram_req <=> sdram \in {"idle", "ack"}
    BY <2>1 DEF InStep
  <2>5. /\ sdram = "idle" => sdram' \in {"idle", "ack"}
        /\ sdram \in {"ack", "wait"} => sdram' \in {"wait", "fill"}
    BY DEF Sdram, sdramVars
  <2>6. InStep'
    BY <1>1, <2>1, <2>3, <2>4, <2>5 DEF InStep
  <2> QED
    BY <1>3, <2>1, <2>2, <2>6
<1>4. CASE RcvWord
  <2>1. inputstate > 0 /\ inputstate' = inputstate + 1 /\ sdram_req' = sdram_req
        /\ Receiving /\ ~LastWord
    BY <1>1, <1>4 DEF RcvWord, Receiving
  <2>2. ~Rd1 /\ ~RcvLast
    BY <2>1 DEF Rd1, RcvLast
  <2>3. sdram = "fill" /\ ~sdram_req
    BY <1>1, <2>1 DEF InStep, Receiving, sdram_fill
  <2>4. sdram' = "fill"
    BY <2>1, <2>3 DEF Sdram, sdramVars
  <2>5. InStep'
    BY <1>1, <2>1, <2>3, <2>4 DEF InStep
  <2> QED
    BY <2>2, <2>3, <2>5 DEF sdram_ack
<1>5. CASE RcvLast
  BY <1>1, <1>5 DEF RcvLast, Arbitrate, InStep, Sdram, sdramVars, Receiving,
                    sdram_ack, sdram_fill, LastWord
<1> QED BY <1>2, <1>3, <1>4, <1>5

(* Where a channel is in its burst after a cycle.                           *)
Ending(c) == Receiving /\ LastWord /\ c = active

LEMMA BurstStep ==
  ASSUME IInv, InStep, NEW move, Sdram(move), NEW c \in Channels,
         Rd1 \/ Rcv1Wait \/ RcvWord \/ RcvLast
  PROVE  \/ /\ Busy(c) /\ Busy(c)' /\ ~Ending(c) /\ active' = active
            /\ Got(c)' = Got(c) + Lag(Receiving)
            /\ Acked(c)' <=> Acked(c) \/ sdram_ack
         \/ /\ Busy(c) /\ Ending(c) /\ Acked(c) /\ ~sdram_ack
            /\ Got(c) = Burst - 1 /\ Got(c)' = 0 /\ ~Acked(c)' /\ sdram' = "idle"
         \/ /\ ~Busy(c) /\ Got(c) = 0 /\ Got(c)' = 0
            /\ ~Acked(c) /\ ~Acked(c)' /\ (Busy(c)' => sdram' = "idle")
            /\ ~(c = active /\ (Receiving \/ sdram_ack))
<1>1. inputstate \in 0 .. Burst /\ sdram \in {"idle", "ack", "wait", "fill"}
  BY DEF IInv, TypeOK
<1>2. /\ sdram_ack => inputstate = 1 /\ Rcv1Wait
      /\ Receiving => sdram = "fill"
      /\ Rd1 \/ RcvLast => sdram' = "idle"
  BY InStepKept DEF IInv
<1>3. CASE Rd1 \/ RcvLast
  <2>1. inputstate' \in {0, 1} /\ sdram' = "idle" /\ ~sdram_ack
    BY <1>1, <1>2, <1>3 DEF Rd1, RcvLast, Arbitrate, Rcv1Wait, Receiving, sdram_fill
  <2>2. Got(c)' = 0 /\ ~Acked(c)'
    BY <2>1 DEF Got, Acked, Busy
  <2>3. CASE Busy(c)
    BY <1>1, <1>2, <1>3, <2>1, <2>2, <2>3
       DEF Rd1, RcvLast, Busy, Ending, Got, Acked, LastWord
  <2>4. CASE ~Busy(c)
    BY <1>1, <1>2, <1>3, <2>1, <2>2, <2>4 DEF Busy, Got, Acked, Receiving
  <2> QED BY <2>3, <2>4
<1>4. CASE Rcv1Wait
  <2>1. inputstate = 1 /\ inputstate' = 1 /\ active' = active /\ ~Receiving
    BY <1>4 DEF Rcv1Wait, Receiving
  <2>2. /\ sdram \in {"wait", "fill"} => sdram' \in {"wait", "fill"}
        /\ sdram = "ack" => sdram' = "wait"
        /\ sdram = "idle" => sdram' \in {"idle", "ack"}
    BY <2>1 DEF Sdram, sdramVars, LastWord
  <2>3. Acked(c)' <=> Acked(c) \/ (Busy(c) /\ sdram_ack)
    BY <1>1, <2>1, <2>2 DEF Acked, Busy, sdram_ack
  <2> QED
    BY <2>1, <2>3 DEF Busy, Ending, Got, Acked, Lag
<1>5. CASE RcvWord
  <2>1. /\ inputstate > 0 /\ inputstate' = inputstate + 1 /\ active' = active
        /\ Receiving /\ ~LastWord /\ sdram = "fill" /\ sdram' = "fill"
    BY <1>1, <1>2, <1>5 DEF RcvWord, Receiving, Sdram, sdramVars
  <2> QED
    BY <1>1, <2>1 DEF Busy, Ending, Got, Acked, Lag, sdram_ack
<1> QED BY <1>3, <1>4, <1>5

(* The parts of OrderInv that a cycle starts from, for one clean channel.   *)
LEMMA CleanFacts ==
  ASSUME TypeOK, NEW c \in Clean
  PROVE  /\ c \in Channels /\ addr[c] \in Nat /\ wrptr[c] \in Slots /\ rdptr[c] \in Slots
         /\ base[c] \in Nat /\ wr[c] \in Nat /\ rd[c] \in Nat
         /\ Offset(c) \in 0 .. Burst - 1 /\ Offset(c) <= base[c]
         /\ fill[c] \in BOOLEAN /\ inputstate \in 0 .. Burst
         /\ Got(c) \in 0 .. Burst - 1
<1>1. /\ c \in Channels /\ addr[c] \in Nat /\ wrptr[c] \in Slots /\ rdptr[c] \in Slots
      /\ base[c] \in Nat /\ wr[c] \in Nat /\ rd[c] \in Nat
      /\ fill[c] \in BOOLEAN /\ inputstate \in 0 .. Burst
  BY DEF TypeOK, Clean
<1>2. Offset(c) \in 0 .. Burst - 1 /\ Offset(c) <= base[c]
  <2> DEFINE b == base[c]
             r == b % Burst
  <2>1. b \in Nat /\ Burst \in Nat \ {0}
    BY <1>1
  <2> HIDE DEF b
  <2>2. r \in 0 .. Burst - 1 /\ r <= b
    BY <2>1, ModSmaller, Remainder
  <2> QED BY <2>2 DEF b, Offset
<1>3. Got(c) \in 0 .. Burst - 1
  BY <1>1 DEF Got, Busy
<1> QED BY <1>1, <1>2, <1>3

(* What a cycle does to the pointers of a channel that keeps its address.   *)
LEMMA KeptPointers ==
  ASSUME TypeOK, NEW setaddr, NEW setreqlen, NEW req, NEW a, NEW l,
         Cycle(setaddr, setreqlen, req, a, l), NEW c \in Channels, c \notin setaddr
  PROVE  /\ addr'[c] = IF sdram_ack /\ c = active THEN addr[c] + Burst ELSE addr[c]
         /\ wrptr'[c] = IF Ending(c) THEN (wrptr[c] + Burst) % Depth ELSE wrptr[c]
         /\ rdptr'[c] = IF Served(c) THEN (rdptr[c] + 1) % Depth ELSE rdptr[c]
         /\ base'[c] = base[c] /\ Offset(c)' = Offset(c)
<1>1. addr'[c] = IF sdram_ack /\ c = active THEN addr[c] + Burst ELSE addr[c]
  BY DEF Cycle, InputProcess, Address
<1>2. wrptr'[c] = IF Ending(c) THEN (wrptr[c] + Burst) % Depth ELSE wrptr[c]
  BY DEF Cycle, InputProcess, WritePointer, Ending
<1>3. rdptr'[c] = IF Served(c) THEN (rdptr[c] + 1) % Depth ELSE rdptr[c]
  BY DEF Cycle, OutputProcess
<1>4. base'[c] = base[c]
  BY DEF Cycle, History
<1> QED BY <1>1, <1>2, <1>3, <1>4 DEF Offset

(* And to those of a channel that is given one.                             *)
LEMMA ReloadedPointers ==
  ASSUME NEW setaddr \in SUBSET Channels, NEW setreqlen, NEW req, NEW a, NEW l,
         Cycle(setaddr, setreqlen, req, a, l), NEW c \in setaddr
  PROVE  /\ addr'[c] = a /\ base'[c] = a /\ Offset(c)' = a % Burst
         /\ wrptr'[c] = 0 /\ rdptr'[c] = a % Burst
<1>1. addr'[c] = a /\ wrptr'[c] = 0
  BY DEF Cycle, InputProcess, Address, WritePointer
<1>2. rdptr'[c] = a % Burst
  BY DEF Cycle, OutputProcess, StartSlot
<1>3. base'[c] = a
  BY DEF Cycle, History
<1> QED BY <1>1, <1>2, <1>3 DEF Offset

(* Bursts stay aligned, in memory and in the FIFO.                          *)
LEMMA InputAlignedKept ==
  ASSUME IInv, InStep, InputAligned, NEW move, Sdram(move),
         NEW setaddr \in SUBSET Channels, NEW setreqlen, NEW req, NEW a \in Nat, NEW l,
         Cycle(setaddr, setreqlen, req, a, l)
  PROVE  InputAligned'
<1> SUFFICES ASSUME NEW c \in Clean'
             PROVE  /\ Begun(c)' \in Nat /\ Begun(c)' % Burst = 0
                    /\ wrptr'[c] = Begun(c)' % Depth
                    /\ addr'[c] = base'[c] + Begun(c)' + Past(c)'
                    /\ Busy(c)' /\ sdram' # "idle" =>
                         column' = base'[c] - Offset(c)' + Begun(c)'
  BY DEF InputAligned
<1>1. TypeOK
  BY DEF IInv
<1>2. \/ c \in Clean /\ c \notin setaddr
      \/ c \in setaddr /\ ~Busy(c) /\ ~Served(c)
  BY CleanBefore DEF Cycle
<1>3. c \in Channels
  BY <1>1, <1>2, CleanFacts
<1>4. \/ /\ Busy(c) /\ Busy(c)' /\ ~Ending(c) /\ active' = active
         /\ Got(c)' = Got(c) + Lag(Receiving)
         /\ Acked(c)' <=> Acked(c) \/ sdram_ack
      \/ /\ Busy(c) /\ Ending(c) /\ Acked(c) /\ ~sdram_ack
         /\ Got(c) = Burst - 1 /\ Got(c)' = 0 /\ ~Acked(c)' /\ sdram' = "idle"
      \/ /\ ~Busy(c) /\ Got(c) = 0 /\ Got(c)' = 0
         /\ ~Acked(c) /\ ~Acked(c)' /\ (Busy(c)' => sdram' = "idle")
         /\ ~(c = active /\ (Receiving \/ sdram_ack))
  BY <1>3, BurstStep DEF Cycle, InputProcess
<1>5. CASE c \in setaddr /\ ~Busy(c) /\ ~Served(c)
  <2>1. wr'[c] = 0 /\ Got(c)' = 0 /\ ~Acked(c)' /\ (Busy(c)' => sdram' = "idle")
    BY <1>1, <1>4, <1>5, ReloadedChannel
  <2>2. Begun(c)' = 0 /\ Past(c)' = 0
    BY <2>1 DEF Begun, Past
  <2>3. 0 % Burst = 0 /\ 0 % Depth = 0
    OBVIOUS
  <2>4. addr'[c] = a /\ base'[c] = a /\ wrptr'[c] = 0
    BY <1>5, ReloadedPointers
  <2> QED BY <2>1, <2>2, <2>3, <2>4
<1>6. CASE c \in Clean /\ c \notin setaddr
  <2>1. /\ wr[c] \in Nat /\ Got(c) \in 0 .. Burst - 1 /\ base[c] \in Nat
        /\ Offset(c) \in Nat /\ addr[c] \in Nat
    BY <1>1, <1>6, CleanFacts
  <2>2. /\ Begun(c) \in Nat /\ Begun(c) % Burst = 0 /\ wrptr[c] = Begun(c) % Depth
        /\ addr[c] = base[c] + Begun(c) + Past(c)
        /\ Busy(c) /\ sdram # "idle" => column = base[c] - Offset(c) + Begun(c)
    BY <1>6 DEF InputAligned
  <2>3. /\ addr'[c] = IF sdram_ack /\ c = active THEN addr[c] + Burst ELSE addr[c]
        /\ wrptr'[c] = IF Ending(c) THEN (wrptr[c] + Burst) % Depth ELSE wrptr[c]
        /\ base'[c] = base[c] /\ Offset(c)' = Offset(c)
    BY <1>1, <1>3, <1>6, KeptPointers
  <2>4. wr'[c] = wr[c] + Lag(Receiving /\ c = active)
    BY <1>1, <1>3, <1>6, KeptChannel
  <2>5. Busy(c) => c = active
    BY DEF Busy
  <2>6. Begun(c)' = Begun(c) + (IF Ending(c) THEN Burst ELSE 0)
    BY <1>4, <2>1, <2>4, <2>5 DEF Begun, Lag, Ending
  <2>7. Begun(c)' + Past(c)' =
          Begun(c) + Past(c) + (IF sdram_ack /\ c = active THEN Burst ELSE 0)
    <3>1. sdram_ack => ~Acked(c)
      BY DEF sdram_ack, Acked
    <3>2. CASE Busy(c) /\ ~Ending(c)
      <4>1. Begun(c)' = Begun(c) /\ c = active /\ (Acked(c)' <=> Acked(c) \/ sdram_ack)
        BY <1>4, <2>2, <2>5, <2>6, <3>2
      <4>2. CASE sdram_ack
        <5>1. Past(c) = 0 /\ Past(c)' = Burst
          BY <3>1, <4>1, <4>2 DEF Past
        <5> QED BY <2>2, <4>1, <4>2, <5>1
      <4>3. CASE ~sdram_ack
        <5>1. Past(c) \in Nat /\ Past(c)' = Past(c)
          BY <4>1, <4>3 DEF Past
        <5> QED BY <2>2, <4>1, <4>3, <5>1
      <4> QED BY <4>2, <4>3
    <3>3. CASE Busy(c) /\ Ending(c)
      <4>1. /\ Begun(c)' = Begun(c) + Burst
            /\ Acked(c) /\ ~Acked(c)' /\ ~sdram_ack
        BY <1>4, <2>6, <3>3
      <4> QED BY <2>2, <4>1 DEF Past
    <3>4. CASE ~Busy(c)
      <4>1. Begun(c)' = Begun(c)
        <5>1. ~Ending(c)
          BY <1>4, <3>4 DEF Ending
        <5> QED BY <2>2, <2>6, <5>1
      <4>2. ~Acked(c) /\ ~Acked(c)' /\ ~(sdram_ack /\ c = active)
        BY <1>4, <3>4
      <4>3. Past(c) = 0 /\ Past(c)' = 0
        BY <4>2 DEF Past
      <4> QED BY <2>2, <4>1, <4>2, <4>3
    <3> QED BY <3>2, <3>3, <3>4
  <2>8. addr'[c] = base'[c] + Begun(c)' + Past(c)'
    <3>1. addr'[c] = addr[c] + (IF sdram_ack /\ c = active THEN Burst ELSE 0)
      BY <2>1, <2>3
    <3>2. Past(c) \in Nat
      BY DEF Past
    <3>3. Begun(c)' \in Nat /\ Past(c)' \in Nat
      BY <2>2, <2>6 DEF Past
    <3>4. CASE sdram_ack /\ c = active
      <4>1. addr'[c] = addr[c] + Burst /\ Begun(c)' + Past(c)' = Begun(c) + Past(c) + Burst
        BY <2>7, <3>1, <3>4
      <4> QED BY <2>1, <2>2, <2>3, <3>2, <3>3, <4>1
    <3>5. CASE ~(sdram_ack /\ c = active)
      <4>1. addr'[c] = addr[c] + 0 /\ Begun(c)' + Past(c)' = Begun(c) + Past(c) + 0
        BY <2>7, <3>1, <3>5
      <4>2. addr'[c] = addr[c] /\ base'[c] = base[c]
        BY <2>1, <2>3, <4>1
      <4>3. Begun(c)' + Past(c)' = Begun(c) + Past(c)
        BY <2>2, <3>2, <4>1
      <4>4. base[c] + (Begun(c)' + Past(c)') = addr[c]
        BY <2>1, <2>2, <3>2, <4>3
      <4> QED BY <2>1, <3>3, <4>2, <4>4
    <3> QED BY <3>4, <3>5
  <2>9. /\ Begun(c)' \in Nat /\ Begun(c)' % Burst = 0
        /\ wrptr'[c] = Begun(c)' % Depth
    <3>1. CASE Ending(c)
      <4>1. Begun(c)' = Begun(c) + Burst
        BY <2>6, <3>1
      <4>2. Burst % Burst = 0
        <5>1. Burst = Burst * 1 + 0 /\ 0 \in 0 .. Burst - 1
          OBVIOUS
        <5> QED BY <5>1, ModUnique
      <4>3. (Begun(c) + Burst) % Burst = 0
        BY <2>2, <4>2, ModAdd
      <4>4. (wrptr[c] + Burst) % Depth = (Begun(c) + Burst) % Depth
        <5>1. ((Begun(c) % Depth) + Burst) % Depth = (Begun(c) + Burst) % Depth
          BY <2>2, ModSum
        <5> QED BY <2>2, <5>1
      <4> QED BY <2>2, <2>3, <3>1, <4>1, <4>3, <4>4
    <3>2. CASE ~Ending(c)
      BY <2>2, <2>3, <2>6, <3>2
    <3> QED BY <3>1, <3>2
  <2>10. ASSUME Busy(c)', sdram' # "idle"
         PROVE  column' = base'[c] - Offset(c)' + Begun(c)'
    <3>1. Busy(c) /\ ~Ending(c) /\ c = active
      BY <1>4, <2>5, <2>10
    <3>2. Begun(c)' = Begun(c)
      BY <2>2, <2>6, <3>1
    <3>3. CASE sdram = "idle"
      <4>1. column' = addr[active] - (addr[active] % Burst)
        BY <2>10, <3>3 DEF Sdram, sdramVars
      <4>2. addr[c] = base[c] + Begun(c)
        BY <2>1, <2>2, <3>3 DEF Past, Acked
      <4>3. (base[c] + Begun(c)) % Burst = base[c] % Burst
        <5> DEFINE x == base[c]
                   y == Begun(c)
        <5>1. x \in Nat /\ y \in Nat /\ y % Burst = 0 /\ Burst \in Nat \ {0}
          BY <2>1, <2>2
        <5> HIDE DEF x, y
        <5>2. (x + y) % Burst = x % Burst
          BY <5>1, ModAdd
        <5> QED BY <5>2 DEF x, y
      <4>4. column' = base[c] + Begun(c) - Offset(c)
        <5>1. addr[active] = base[c] + Begun(c)
          BY <3>1, <4>2
        <5>2. addr[active] % Burst = Offset(c)
          BY <4>3, <5>1 DEF Offset
        <5> QED BY <2>1, <2>2, <4>1, <5>1, <5>2
      <4> QED BY <2>1, <2>2, <2>3, <3>2, <4>4
    <3>4. CASE sdram # "idle"
      <4>1. column' = column
        BY <2>10, <3>4 DEF Sdram, sdramVars
      <4> QED BY <2>2, <2>3, <3>1, <3>2, <3>4, <4>1
    <3> QED BY <3>3, <3>4
  <2> QED BY <2>8, <2>9, <2>10
<1> QED BY <1>2, <1>5, <1>6

(* The slot read next is that of the next word of the stream.               *)
LEMMA OutputAlignedKept ==
  ASSUME IInv, OutputAligned,
         NEW setaddr \in SUBSET Channels, NEW setreqlen, NEW req, NEW a \in Nat, NEW l,
         Cycle(setaddr, setreqlen, req, a, l)
  PROVE  OutputAligned'
<1> SUFFICES ASSUME NEW c \in Clean'
             PROVE  rdptr'[c] = (Offset(c)' + rd'[c]) % Depth
  BY DEF OutputAligned
<1>1. TypeOK /\ Burst \in Nat \ {0} /\ Depth \in Nat \ {0}
  BY DEF IInv
<1>2. \/ c \in Clean /\ c \notin setaddr
      \/ c \in setaddr /\ ~Busy(c) /\ ~Served(c)
  BY CleanBefore DEF Cycle
<1>3. CASE c \in setaddr /\ ~Busy(c) /\ ~Served(c)
  <2> DEFINE r == a % Burst
  <2>1. Offset(c)' = r /\ rdptr'[c] = r
    BY <1>3, ReloadedPointers
  <2>2. rd'[c] = 0
    BY <1>1, <1>3, ReloadedChannel
  <2>3. r \in 0 .. Burst - 1
    BY <1>1, Remainder
  <2> HIDE DEF r
  <2>4. r \in Nat /\ r \in 0 .. Depth - 1 /\ r = Depth * 0 + r /\ r + 0 = r
    BY <2>3
  <2>5. r % Depth = r
    BY <1>1, <2>4, ModUnique
  <2>6. Offset(c)' + rd'[c] = r
    BY <2>1, <2>2, <2>4
  <2> QED BY <2>1, <2>5, <2>6
<1>4. CASE c \in Clean /\ c \notin setaddr
  <2>1. c \in Channels /\ rd[c] \in Nat /\ Offset(c) \in Nat
    BY <1>1, <1>4, CleanFacts
  <2>2. /\ rdptr'[c] = IF Served(c) THEN (rdptr[c] + 1) % Depth ELSE rdptr[c]
        /\ Offset(c)' = Offset(c)
    BY <1>1, <1>4, <2>1, KeptPointers
  <2>3. rd'[c] = rd[c] + Lag(drain'[c]) /\ drain'[c] = Served(c)
    BY <1>1, <1>4, <2>1, KeptChannel
  <2> DEFINE x == Offset(c) + rd[c]
  <2>4. x \in Nat /\ rdptr[c] = x % Depth
    BY <1>4, <2>1 DEF OutputAligned
  <2>5. CASE Served(c)
    <3>1. rd'[c] = rd[c] + 1
      BY <2>3, <2>5 DEF Lag
    <3>2. Offset(c)' + rd'[c] = x + 1
      BY <2>1, <2>2, <3>1
    <3> HIDE DEF x
    <3>3. ((x % Depth) + 1) % Depth = (x + 1) % Depth
      BY <1>1, <2>4, ModSum
    <3>4. rdptr'[c] = ((x % Depth) + 1) % Depth
      BY <2>2, <2>4, <2>5
    <3> QED BY <3>2, <3>3, <3>4
  <2>6. CASE ~Served(c)
    <3>1. rd'[c] = rd[c] + 0
      BY <2>3, <2>6 DEF Lag
    <3>2. Offset(c)' + rd'[c] = x
      BY <2>1, <2>2, <3>1
    <3> HIDE DEF x
    <3> QED BY <2>2, <2>4, <2>6, <3>2
  <2> QED BY <2>5, <2>6
<1> QED BY <1>2, <1>3, <1>4

(* The word received in a cycle is sent to the slot it belongs to.          *)
LEMMA WritingKept ==
  ASSUME IInv, InStep, InputAligned, NEW move, Sdram(move),
         NEW setaddr \in SUBSET Channels, NEW setreqlen, NEW req, NEW a \in Nat, NEW l,
         Cycle(setaddr, setreqlen, req, a, l)
  PROVE  Writing'
<1> SUFFICES ASSUME NEW c \in Clean'
             PROVE  IF fill'[c]
                    THEN wr'[c] > 0 /\ write' = {<<c, (wr'[c] - 1) % Depth,
                                       base'[c] - Offset(c)' + (wr'[c] - 1)>>}
                    ELSE \A w \in write' : w[1] # c
  BY DEF Writing, Place
<1>1. TypeOK /\ Burst \in Nat \ {0} /\ Depth \in Nat \ {0}
  BY DEF IInv
<1>2. \/ c \in Clean /\ c \notin setaddr
      \/ c \in setaddr /\ ~Busy(c) /\ ~Served(c)
  BY CleanBefore DEF Cycle
<1>3. write' = IF Receiving
               THEN {<<active, wrptr[active] + inputstate - 1, column + inputstate - 1>>}
               ELSE {}
  BY DEF Cycle, InputProcess, WritePort
<1>4. inputstate \in 0 .. Burst
  BY <1>1 DEF TypeOK
<1>5. Receiving => inputstate # 0
  BY DEF Receiving
<1>6. CASE c \in setaddr /\ ~Busy(c) /\ ~Served(c)
  <2>1. fill'[c] = FALSE
    BY <1>1, <1>6, ReloadedChannel
  <2>2. Receiving => active # c
    BY <1>5, <1>6 DEF Busy
  <2> QED BY <1>3, <2>1, <2>2
<1>7. CASE c \in Clean /\ c \notin setaddr
  <2>1. /\ c \in Channels /\ wr[c] \in Nat /\ Got(c) \in 0 .. Burst - 1
        /\ base[c] \in Nat /\ Offset(c) \in Nat
    BY <1>1, <1>7, CleanFacts
  <2>2. /\ base'[c] = base[c] /\ Offset(c)' = Offset(c)
    BY <1>1, <1>7, <2>1, KeptPointers
  <2>3. fill'[c] = (Receiving /\ c = active) /\ wr'[c] = wr[c] + Lag(fill'[c])
    BY <1>1, <1>7, <2>1, KeptChannel
  <2>4. CASE Receiving /\ c = active
    <3>1. fill'[c] = TRUE /\ wr'[c] = wr[c] + 1
      BY <2>3, <2>4 DEF Lag
    <3>2. wr'[c] > 0 /\ wr'[c] - 1 = wr[c]
      BY <2>1, <3>1
    <3>3. Busy(c) /\ Got(c) = inputstate - 1
      BY <1>5, <2>4 DEF Busy, Got
    <3>4. sdram # "idle"
      <4>1. Rd1 \/ Rcv1Wait \/ RcvWord \/ RcvLast
        BY DEF Cycle, InputProcess
      <4>2. sdram = "fill"
        BY <1>1, <2>4, <4>1, InStepKept
      <4> QED BY <4>2
    <3>5. /\ Begun(c) \in Nat /\ Begun(c) % Burst = 0 /\ wrptr[c] = Begun(c) % Depth
          /\ column = base[c] - Offset(c) + Begun(c)
      BY <1>7, <3>3, <3>4 DEF InputAligned
    <3>6. Begun(c) + Got(c) = wr[c]
      BY <2>1 DEF Begun
    <3> DEFINE x == Begun(c)
               y == Got(c)
               b == base[c] - Offset(c)
    <3>7. x \in Nat /\ y \in Nat /\ y < Burst /\ x % Burst = 0 /\ x + y = wr[c]
      BY <2>1, <3>5, <3>6
    <3>8. b \in Int /\ column = b + x /\ y = inputstate - 1 /\ wrptr[c] = x % Depth
      BY <2>1, <3>3, <3>5
    <3> HIDE DEF x, y, b
    <3>9. (x % Depth) + Burst <= Depth /\ x % Depth \in Nat
      <4>1. Depth % Burst = 0
        BY AlignmentAssumption
      <4>2. (x % Depth) + Burst <= Depth
        BY <1>1, <3>7, <4>1, ModRoom
      <4>3. x % Depth \in 0 .. Depth - 1
        BY <1>1, <3>7, Remainder
      <4> QED BY <4>2, <4>3
    <3>10. (x % Depth) + y < Depth
      BY <3>7, <3>9
    <3>11. (x + y) % Depth = (x % Depth) + y
      BY <1>1, <3>7, <3>10, ModSmall
    <3>12. wrptr[active] + inputstate - 1 = (wr'[c] - 1) % Depth
      <4>1. wrptr[active] + inputstate - 1 = (x % Depth) + y
        BY <1>4, <2>4, <3>7, <3>8, <3>9
      <4> QED BY <3>2, <3>7, <3>11, <4>1
    <3>13. column + inputstate - 1 = base'[c] - Offset(c)' + (wr'[c] - 1)
      <4>1. column + inputstate - 1 = b + (x + y)
        BY <1>4, <3>7, <3>8
      <4>2. base'[c] - Offset(c)' = b
        BY <2>2 DEF b
      <4> QED BY <3>2, <3>7, <4>1, <4>2
    <3> QED BY <1>3, <2>4, <3>1, <3>2, <3>12, <3>13
  <2>5. CASE ~(Receiving /\ c = active)
    <3>1. fill'[c] = FALSE
      BY <2>3, <2>5
    <3> QED BY <1>3, <2>5, <3>1
  <2> QED BY <2>4, <2>5
<1> QED BY <1>2, <1>6, <1>7

(* When a cycle begins, every word received but overwritten is in its slot, *)
(* or lands there in this cycle.                                            *)
LEMMA Landed ==
  ASSUME IInv, Writing, WordsPlaced, RAM, NEW c \in Clean,
         NEW i \in 0 .. wr[c] - 1, wr[c] - Depth <= i
  PROVE  mem'[c][i % Depth] = base[c] - Offset(c) + i
<1>1. TypeOK /\ Depth \in Nat \ {0}
  BY DEF IInv
<1>2. /\ c \in Channels /\ wr[c] \in Nat /\ base[c] \in Nat /\ Offset(c) \in Nat
      /\ fill[c] \in BOOLEAN
  BY <1>1, CleanFacts
<1>3. i \in Nat /\ i % Depth \in Slots
  <2>1. i \in Nat
    BY <1>2
  <2>2. i % Depth \in 0 .. Depth - 1
    BY <1>1, <2>1, Remainder
  <2> QED BY <2>1, <2>2 DEF Slots
<1>4. mem \in [Channels -> [Slots -> Int]]
  BY DEF WordsPlaced
<1>5. (fill[c] => i # wr[c] - 1) => mem[c][i % Depth] = base[c] - Offset(c) + i
  BY DEF WordsPlaced
<1>6. CASE fill[c]
  <2> DEFINE j == wr[c] - 1
             v == base[c] - Offset(c) + j
  <2>1. wr[c] > 0 /\ write = {<<c, j % Depth, v>>}
    BY <1>6 DEF Writing, Place
  <2>2. mem' = [mem EXCEPT ![c][j % Depth] = v]
    <3> DEFINE s == j % Depth
    <3> HIDE DEF s, v
    <3>1. write = {<<c, s, v>>}
      BY <2>1 DEF s
    <3>2. PICK w \in write : mem' = [mem EXCEPT ![w[1]][w[2]] = w[3]]
      BY <3>1 DEF RAM
    <3>3. w[1] = c /\ w[2] = s /\ w[3] = v
      BY <3>1
    <3> QED BY <3>2, <3>3 DEF s
  <2>3. mem'[c][i % Depth] = IF i % Depth = j % Depth THEN v ELSE mem[c][i % Depth]
    BY <1>2, <1>3, <1>4, <2>2
  <2>4. CASE i = j
    BY <2>3, <2>4
  <2>5. CASE i # j
    <3>1. j \in Nat /\ i < j /\ j - i < Depth
      BY <1>2, <1>3, <2>1, <2>5
    <3> HIDE DEF j, v
    <3>2. i % Depth # j % Depth
      BY <1>1, <1>3, <3>1, ModDistinct
    <3>3. mem[c][i % Depth] = base[c] - Offset(c) + i
      BY <1>5, <2>5 DEF j
    <3> QED BY <2>3, <3>2, <3>3
  <2> QED BY <2>4, <2>5
<1>7. CASE ~fill[c]
  <2>1. \A w \in write : w[1] # c
    BY <1>7 DEF Writing
  <2>2. mem'[c] = mem[c]
    BY <1>2, <1>4, <2>1 DEF RAM
  <2> QED BY <1>5, <1>7, <2>2
<1> QED BY <1>2, <1>6, <1>7

(* Words stay where they are until another burst takes their slot.          *)
LEMMA WordsPlacedKept ==
  ASSUME IInv, Writing, WordsPlaced,
         NEW setaddr \in SUBSET Channels, NEW setreqlen, NEW req, NEW a, NEW l,
         Cycle(setaddr, setreqlen, req, a, l)
  PROVE  WordsPlaced'
<1>1. TypeOK
  BY DEF IInv
<1>2. RAM
  BY DEF Cycle
<1>3. mem' \in [Channels -> [Slots -> Int]]
  <2>1. \A w \in write : w[3] \in Int
    BY <1>1 DEF TypeOK
  <2>2. mem \in [Channels -> [Slots -> Int]]
    BY DEF WordsPlaced
  <2>3. CASE UNCHANGED mem
    BY <2>2, <2>3
  <2>4. ASSUME NEW w \in write, mem' = [mem EXCEPT ![w[1]][w[2]] = w[3]]
        PROVE  mem' \in [Channels -> [Slots -> Int]]
    <3> DEFINE k == w[1]
               row == [mem[k] EXCEPT ![w[2]] = w[3]]
    <3>1. k \in Channels
      BY <1>1 DEF TypeOK
    <3>2. mem' = [mem EXCEPT ![k] = row]
      BY <2>4
    <3>3. row \in [Slots -> Int]
      BY <2>1, <2>2, <3>1
    <3> HIDE DEF k, row
    <3> QED BY <2>2, <3>1, <3>2, <3>3
  <2> QED BY <1>2, <2>3, <2>4 DEF RAM
<1>4. ASSUME NEW c \in Clean', NEW i \in 0 .. wr'[c] - 1,
             wr'[c] - Depth <= i, fill'[c] => i # wr'[c] - 1
      PROVE  mem'[c][i % Depth] = base'[c] - Offset(c)' + i
  <2>1. \/ c \in Clean /\ c \notin setaddr
        \/ c \in setaddr /\ ~Busy(c) /\ ~Served(c)
    BY CleanBefore DEF Cycle
  <2>2. CASE c \in setaddr /\ ~Busy(c) /\ ~Served(c)
    <3>1. wr'[c] = 0
      BY <1>1, <2>2, ReloadedChannel
    <3> QED BY <1>4, <3>1
  <2>3. CASE c \in Clean /\ c \notin setaddr
    <3>1. c \in Channels /\ wr[c] \in Nat
      BY <1>1, <2>3, CleanFacts
    <3>2. base'[c] = base[c] /\ Offset(c)' = Offset(c)
      BY <1>1, <2>3, <3>1, KeptPointers
    <3>3. wr'[c] = wr[c] + Lag(fill'[c])
      BY <1>1, <2>3, <3>1, KeptChannel
    <3>4. i \in 0 .. wr[c] - 1 /\ wr[c] - Depth <= i
      <4>1. CASE fill'[c]
        <5>1. wr'[c] = wr[c] + 1
          BY <3>3, <4>1 DEF Lag
        <5> QED BY <1>4, <3>1, <4>1, <5>1
      <4>2. CASE ~fill'[c]
        <5>1. wr'[c] = wr[c] + 0
          BY <3>3, <4>2 DEF Lag
        <5> QED BY <1>4, <3>1, <5>1
      <4> QED BY <4>1, <4>2
    <3>5. mem'[c][i % Depth] = base[c] - Offset(c) + i
      BY <1>2, <2>3, <3>4, Landed
    <3> QED BY <3>2, <3>5
  <2> QED BY <2>1, <2>2, <2>3
<1> QED BY <1>3, <1>4 DEF WordsPlaced

(* A word that has been received is the next one of the stream when it is   *)
(* served.                                                                  *)
LEMMA ServedInOrderKept ==
  ASSUME IInv, OutputAligned, Writing, WordsPlaced,
         NEW setaddr \in SUBSET Channels, NEW setreqlen, NEW req, NEW a, NEW l,
         Cycle(setaddr, setreqlen, req, a, l)
  PROVE  ServedInOrder'
<1> SUFFICES ASSUME NEW c \in Clean', c \in valid', ~early'
             PROVE  mem'[rdaddr'[1]][rdaddr'[2]] = base'[c] + rd'[c] - 1
  BY DEF ServedInOrder, data_out
<1>1. TypeOK
  BY DEF IInv
<1>2. Served(c)
  BY DEF Cycle, OutputProcess
<1>3. c \in Clean /\ c \notin setaddr
  BY <1>2, CleanBefore DEF Cycle
<1>4. /\ c \in Channels /\ wr[c] \in Nat /\ rd[c] \in Nat /\ base[c] \in Nat
      /\ Offset(c) \in Nat /\ inputstate \in 0 .. Burst
  BY <1>1, <1>3, CleanFacts
<1>5. rdaddr' = <<c, rdptr[c]>>
  <2>1. Serviceable # {} /\ \A d \in Serviceable : c <= d
    BY <1>2 DEF Served
  <2>2. PICK d \in Channels : Served(d) /\ rdaddr' = <<d, rdptr[d]>>
    BY <2>1 DEF Cycle, OutputProcess
  <2>3. d <= c /\ c <= d /\ c \in Int /\ d \in Int
    BY <1>2, <1>4, <2>1, <2>2 DEF Served
  <2> QED BY <2>2, <2>3
<1>6. wr[c] > Offset(c) + rd[c]
  <2>1. ~(wr[c] <= Offset(c) + rd[c])
    BY <1>2, <1>4 DEF Cycle, History
  <2> QED BY <1>4, <2>1
<1>7. wr[c] - rd[c] <= Depth
  <2>1. wr[c] - rd[c] + Remaining(c) <= Depth
    BY <1>3 DEF IInv, Room
  <2> QED BY <1>4, <2>1 DEF Remaining
<1> DEFINE i == Offset(c) + rd[c]
<1>8. i \in 0 .. wr[c] - 1 /\ wr[c] - Depth <= i
  BY <1>4, <1>6, <1>7
<1>9. rdptr[c] = i % Depth
  BY <1>3 DEF OutputAligned
<1> HIDE DEF i
<1>10. mem'[c][i % Depth] = base[c] - Offset(c) + i
  BY <1>3, <1>8, Landed DEF Cycle
<1>11. base'[c] = base[c]
  BY <1>1, <1>3, <1>4, KeptPointers
<1>12. rd'[c] = rd[c] + 1
  BY <1>2, <1>3, <1>4 DEF Cycle, History
<1>13. mem'[rdaddr'[1]][rdaddr'[2]] = base[c] - Offset(c) + i
  BY <1>5, <1>9, <1>10
<1> QED BY <1>4, <1>11, <1>12, <1>13 DEF i

(* No channel has an address to begin with, and the input side is idle.     *)
LEMMA InitOrderInv == Init => OrderInv
<1> SUFFICES ASSUME Init PROVE OrderInv
  OBVIOUS
<1>1. IInv
  BY InitIInv
<1>2. Clean = {}
  BY DEF Init, Clean
<1>3. InStep
  BY DEF Init, InStep
<1>4. mem \in [Channels -> [Slots -> Int]]
  BY DEF Init, None
<1> QED BY <1>1, <1>2, <1>3, <1>4
           DEF OrderInv, InputAligned, OutputAligned, Writing, WordsPlaced, ServedInOrder

(* Every step keeps the order.                                              *)
LEMMA NextOrderInv == OrderInv /\ [Next]_vars => OrderInv'
<1> SUFFICES ASSUME OrderInv, [Next]_vars PROVE OrderInv'
  OBVIOUS
<1>1. /\ IInv /\ InStep /\ InputAligned /\ OutputAligned /\ Writing /\ WordsPlaced
      /\ ServedInOrder /\ TypeOK
  BY DEF OrderInv, IInv
<1>2. IInv'
  BY <1>1, NextIInv
<1>3. CASE Next
  <2>1. PICK move \in BOOLEAN : Step(move)
    BY <1>3 DEF Next
  <2>2. PICK setaddr \in SUBSET Channels, setreqlen \in SUBSET Channels,
             req \in SUBSET Channels, a \in Bases, l \in Lens :
          Cycle(setaddr, setreqlen, req, a, l)
    BY <2>1 DEF Step
  <2>3. Sdram(move) /\ a \in Nat
    BY <2>1, HostAssumption DEF Step
  <2>4. Rd1 \/ Rcv1Wait \/ RcvWord \/ RcvLast
    BY <2>2 DEF Cycle, InputProcess
  <2>5. InStep'
    BY <1>1, <2>3, <2>4, InStepKept
  <2>6. InputAligned'
    BY <1>1, <2>2, <2>3, InputAlignedKept
  <2>7. OutputAligned'
    BY <1>1, <2>2, <2>3, OutputAlignedKept
  <2>8. Writing'
    BY <1>1, <2>2, <2>3, WritingKept
  <2>9. WordsPlaced'
    BY <1>1, <2>2, WordsPlacedKept
  <2>10. ServedInOrder'
    BY <1>1, <2>2, ServedInOrderKept
  <2> QED BY <1>2, <2>5, <2>6, <2>7, <2>8, <2>9, <2>10 DEF OrderInv
<1>4. CASE UNCHANGED vars
  <2>1. /\ UNCHANGED <<inputstate, active, sdram_req, addr, wrptr, write>>
        /\ UNCHANGED <<rdptr, valid, rdaddr, mem, fill, sdram, column>>
        /\ UNCHANGED <<loaded, base, wr, rd, early, tainted>>
    BY <1>4 DEF vars, inputVars, outputVars, fifoVars, sdramVars, history
  <2>2. InStep'
    BY <1>1, <2>1 DEF InStep
  <2>3. Clean' = Clean /\ \A c : Got(c)' = Got(c) /\ Offset(c)' = Offset(c)
    BY <2>1 DEF Clean, Got, Offset, Busy
  <2>4. InputAligned'
    BY <1>1, <2>1, <2>3 DEF InputAligned, Begun, Past, Acked, Busy
  <2>5. OutputAligned' /\ Writing'
    BY <1>1, <2>1, <2>3 DEF OutputAligned, Writing, Place
  <2>6. WordsPlaced' /\ ServedInOrder'
    BY <1>1, <2>1, <2>3 DEF WordsPlaced, ServedInOrder, data_out
  <2> QED BY <1>2, <2>2, <2>4, <2>5, <2>6 DEF OrderInv
<1> QED BY <1>3, <1>4

(* Every reachable state satisfies it.                                      *)
THEOREM OrderInvariance == Spec => []OrderInv
  BY InitOrderInv, NextOrderInv, PTL DEF Spec

(* The words of a stream come out in the order of memory, none twice and    *)
(* none left out, for any number of channels, any even burst and any FIFO   *)
(* of whole bursts, whatever addresses the hosts set and whenever.          *)
THEOREM WordsInOrder == Spec => []ServedInOrder
<1>1. OrderInv => ServedInOrder
  BY DEF OrderInv
<1> QED BY <1>1, OrderInvariance, PTL

-----------------------------------------------------------------------------
(***************************************************************************)
(* Enough words are fetched.  Covered is an account: a burst moves from     *)
(* count, or from extend, to Arriving with its ack, and from there to wr    *)
(* word by word.  AddressOffset says what the alignment test looks at.      *)
(***************************************************************************)

(* The words arriving, after a cycle: those received have been counted, and *)
(* an ack has added a burst.                                                *)
LEMMA ArrivingStep ==
  ASSUME IInv, InStep, NEW move, Sdram(move),
         NEW setaddr, NEW setreqlen, NEW req, NEW a, NEW l,
         Cycle(setaddr, setreqlen, req, a, l), NEW c \in Clean, c \notin setaddr
  PROVE  /\ Arriving(c) \in Nat /\ Arriving(c)' \in Nat
         /\ wr[c] \in Nat /\ wr'[c] \in Nat /\ wr[c] <= wr'[c]
         /\ wr'[c] + Arriving(c)' =
              wr[c] + Arriving(c) + (IF sdram_ack /\ c = active THEN Burst ELSE 0)
<1>1. TypeOK
  BY DEF IInv
<1>2. /\ c \in Channels /\ wr[c] \in Nat /\ Got(c) \in 0 .. Burst - 1
      /\ inputstate \in 0 .. Burst
  BY <1>1, CleanFacts
<1>3. fill'[c] = (Receiving /\ c = active) /\ wr'[c] = wr[c] + Lag(fill'[c])
  BY <1>1, <1>2, KeptChannel
<1>4. Rd1 \/ Rcv1Wait \/ RcvWord \/ RcvLast
  BY DEF Cycle, InputProcess
<1>5. \/ /\ Busy(c) /\ Busy(c)' /\ ~Ending(c) /\ active' = active
         /\ Got(c)' = Got(c) + Lag(Receiving)
         /\ Acked(c)' <=> Acked(c) \/ sdram_ack
      \/ /\ Busy(c) /\ Ending(c) /\ Acked(c) /\ ~sdram_ack
         /\ Got(c) = Burst - 1 /\ Got(c)' = 0 /\ ~Acked(c)' /\ sdram' = "idle"
      \/ /\ ~Busy(c) /\ Got(c) = 0 /\ Got(c)' = 0
         /\ ~Acked(c) /\ ~Acked(c)' /\ (Busy(c)' => sdram' = "idle")
         /\ ~(c = active /\ (Receiving \/ sdram_ack))
  BY <1>2, <1>4, BurstStep
<1>6. inputstate' \in 0 .. Burst
  BY <1>4, InputStep
<1>7. /\ Busy(c) => Remaining(c) = Burst - Got(c)
      /\ Busy(c)' => Remaining(c)' = Burst - Got(c)'
  BY DEF Remaining, Got
<1>8. /\ Receiving => sdram = "fill"
      /\ sdram_ack => inputstate = 1
  BY <1>1, <1>4, InStepKept DEF Rcv1Wait
<1>9. CASE Busy(c) /\ ~Ending(c)
  <2>1. /\ Busy(c)' /\ c = active /\ (Acked(c)' <=> Acked(c) \/ sdram_ack)
        /\ Got(c)' = Got(c) + Lag(Receiving)
    BY <1>5, <1>9 DEF Busy
  <2>2. CASE sdram_ack
    <3>1. ~Receiving /\ ~Acked(c) /\ Acked(c)' /\ Got(c) = 0
      BY <1>8, <2>1, <2>2 DEF sdram_ack, Acked, Got
    <3>2. wr'[c] = wr[c] + 0 /\ Got(c)' = 0
      <4>1. Lag(fill'[c]) = 0 /\ Lag(Receiving) = 0
        BY <1>3, <3>1 DEF Lag
      <4>2. Got(c)' = 0 + 0
        BY <2>1, <3>1, <4>1
      <4>3. wr'[c] = wr[c] + 0
        BY <1>3, <4>1
      <4> QED BY <4>2, <4>3
    <3>3. Arriving(c) = 0 /\ Arriving(c)' = Burst
      BY <1>7, <2>1, <3>1, <3>2 DEF Arriving
    <3> QED BY <1>2, <2>1, <2>2, <3>2, <3>3
  <2>3. CASE ~sdram_ack /\ Receiving
    <3>1. Acked(c) /\ Acked(c)'
      BY <1>8, <1>9, <2>1, <2>3 DEF Acked
    <3>2. wr'[c] = wr[c] + 1 /\ Got(c)' = Got(c) + 1
      BY <1>3, <2>1, <2>3 DEF Lag
    <3>3. Arriving(c) = Burst - Got(c) /\ Arriving(c)' = Burst - Got(c)'
      BY <1>7, <1>9, <2>1, <3>1 DEF Arriving
    <3>4. Got(c) + 1 <= Burst - 1
      <4>1. inputstate # Burst /\ Got(c) = inputstate - 1
        BY <1>9, <2>1, <2>3 DEF Ending, LastWord, Got
      <4> QED BY <1>2, <4>1
    <3> QED BY <1>2, <2>3, <3>2, <3>3, <3>4
  <2>4. CASE ~sdram_ack /\ ~Receiving
    <3>1. wr'[c] = wr[c] + 0 /\ Got(c)' = Got(c) + 0
      BY <1>3, <2>1, <2>4 DEF Lag
    <3>2. Got(c)' = Got(c) /\ wr'[c] = wr[c]
      BY <1>2, <3>1
    <3>3. (Acked(c)' <=> Acked(c)) /\ Remaining(c)' = Remaining(c)
      BY <1>7, <1>9, <2>1, <2>4, <3>2
    <3>4. Arriving(c)' = Arriving(c)
      BY <3>3 DEF Arriving
    <3>5. Arriving(c) \in Nat
      BY <1>2, <1>7, <1>9 DEF Arriving
    <3> QED BY <1>2, <2>4, <3>2, <3>4, <3>5
  <2> QED BY <2>2, <2>3, <2>4
<1>10. CASE Busy(c) /\ Ending(c)
  <2>1. Receiving /\ c = active /\ ~sdram_ack
    BY <1>5, <1>10 DEF Ending
  <2>2. wr'[c] = wr[c] + 1
    BY <1>3, <2>1 DEF Lag
  <2>3. Arriving(c) = 1 /\ Arriving(c)' = 0
    <3>1. Acked(c) /\ ~Acked(c)' /\ Got(c) = Burst - 1
      BY <1>5, <1>10
    <3>2. Remaining(c) = Burst - (Burst - 1)
      BY <1>7, <1>10, <3>1
    <3> QED BY <3>1, <3>2 DEF Arriving
  <2> QED BY <1>2, <2>1, <2>2, <2>3
<1>11. CASE ~Busy(c)
  <2>1. ~(Receiving /\ c = active) /\ ~(sdram_ack /\ c = active)
    BY <1>5, <1>11
  <2>2. wr'[c] = wr[c] + 0
    BY <1>3, <2>1 DEF Lag
  <2>3. Arriving(c) = 0 /\ Arriving(c)' = 0
    BY <1>5, <1>11 DEF Arriving
  <2> QED BY <1>2, <2>1, <2>2, <2>3
<1> QED BY <1>9, <1>10, <1>11

(* Whole bursts do not change what the alignment test sees.                 *)
LEMMA BurstUnseen == \A x \in Nat : (x + Burst) % (Burst \div 2) = x % (Burst \div 2)
<1> DEFINE h == Burst \div 2
<1>1. h \in Nat \ {0} /\ Burst = 2 * h
  BY AlignmentAssumption
<1>2. 0 \in 0 .. h - 1
  BY <1>1
<1> HIDE DEF h
<1>3. Burst \in Nat /\ Burst % h = 0
  <2>1. Burst \in Nat /\ Burst = h * 2 + 0
    BY <1>1
  <2> QED BY <1>1, <1>2, <2>1, ModUnique
<1>4. \A x \in Nat : (x + Burst) % h = x % h
  BY <1>1, <1>3, ModAdd
<1> QED BY <1>4 DEF h

(* The address register moves by bursts from what the host has set.         *)
LEMMA AddressOffsetKept ==
  ASSUME TypeOK, AddressOffset, NEW setaddr, NEW setreqlen, NEW req, NEW a, NEW l,
         Cycle(setaddr, setreqlen, req, a, l)
  PROVE  AddressOffset'
<1> SUFFICES ASSUME NEW c \in Channels
             PROVE  addr'[c] % (Burst \div 2) = base'[c] % (Burst \div 2)
  BY DEF AddressOffset
<1>1. addr[c] \in Nat /\ addr[c] % (Burst \div 2) = base[c] % (Burst \div 2)
  BY DEF TypeOK, AddressOffset
<1>2. base'[c] = IF c \in setaddr THEN a ELSE base[c]
  BY DEF Cycle, History
<1>3. addr'[c] = IF c \in setaddr THEN a
                 ELSE IF sdram_ack /\ c = active THEN addr[c] + Burst ELSE addr[c]
  BY DEF Cycle, InputProcess, Address
<1>4. (addr[c] + Burst) % (Burst \div 2) = addr[c] % (Burst \div 2)
  BY <1>1, BurstUnseen
<1> QED BY <1>1, <1>2, <1>3, <1>4

(* What is remembered of a channel that keeps its address and its length.   *)
LEMMA MissingKept ==
  ASSUME TypeOK, NEW setaddr, NEW setreqlen, NEW req, NEW a, NEW l,
         Cycle(setaddr, setreqlen, req, a, l),
         NEW c \in Channels, c \notin setaddr, c \notin setreqlen
  PROVE  /\ due'[c] = due[c]
         /\ Missing(c)' = Missing(c) /\ Missing(c) \in Nat
<1>1. due'[c] = due[c] /\ base'[c] = base[c]
  BY DEF Cycle, History
<1>2. c \in unseen' <=> c \in unseen
  BY DEF Cycle, History
<1>3. base[c] % Burst \in 0 .. Burst - 1
  <2>1. base[c] \in Nat /\ Burst \in Nat \ {0}
    BY DEF TypeOK
  <2> QED BY <2>1, Remainder
<1> QED BY <1>1, <1>2, <1>3 DEF Missing, Offset

(* And what a length makes of it: what lies before the start of the stream  *)
(* is covered by an extra burst, or goes missing.                           *)
LEMMA OffsetCovered ==
  ASSUME TypeOK, AddressOffset, NEW setaddr, NEW setreqlen, NEW req, NEW a \in Nat, NEW l \in Nat,
         Cycle(setaddr, setreqlen, req, a, l), NEW c \in Channels, c \in setreqlen,
         wr'[c] \in Nat
  PROVE  /\ due'[c] \in Nat
         /\ Extra(c)' \in Nat /\ Missing(c)' \in Nat
         /\ due'[c] <= wr'[c] + l + Extra(c)' + Missing(c)'
<1>1. base'[c] \in Nat
  BY DEF TypeOK, Cycle, History
<1> DEFINE o == base'[c] % Burst
<1>2. o \in 0 .. Burst - 1
  <2>1. \A x \in Nat : x % Burst \in 0 .. Burst - 1
    BY Remainder
  <2> QED BY <1>1, <2>1, Zenon
<1>3. Offset(c)' = o
  BY DEF Offset
<1>4. due'[c] = IF l > 0
                THEN wr'[c] + l + (IF FirstLength(c, setaddr) THEN o ELSE 0)
                ELSE 0
  BY DEF Cycle, History
<1>5. c \in unseen' <=> FirstLength(c, setaddr) /\ ~SeesOffset(c)
  BY DEF Cycle, History
<1>6. extend'[c] = SeesOffset(c)
  BY DEF Cycle, InputProcess, Extend, AddressOffset, SeesOffset
<1> HIDE DEF o
<1>7. Extra(c)' = (IF SeesOffset(c) THEN Burst ELSE 0)
  BY <1>6 DEF Extra
<1>8. Missing(c)' = IF FirstLength(c, setaddr) /\ ~SeesOffset(c) THEN o ELSE 0
  BY <1>3, <1>5 DEF Missing
<1>9. CASE SeesOffset(c)
  BY <1>2, <1>4, <1>7, <1>8, <1>9, SMTT(30)
<1>10. CASE ~SeesOffset(c)
  BY <1>2, <1>4, <1>7, <1>8, <1>10, SMTT(30)
<1> QED BY <1>9, <1>10

(* The account of a channel that keeps its address and gets no length.      *)
LEMMA AccountKept ==
  ASSUME IInv, InStep, Covered, NEW move, Sdram(move),
         NEW setaddr, NEW setreqlen, NEW req, NEW a, NEW l,
         Cycle(setaddr, setreqlen, req, a, l),
         NEW c \in Clean, c \notin setaddr, c \notin setreqlen
  PROVE  /\ due'[c] <= wr'[c] + ToCome(c)' + Missing(c)'
         /\ extend'[c] /\ due'[c] > 0 => count'[c] > 0
         /\ done'[c] => due'[c] <= wr'[c] + Missing(c)'
<1>1. /\ c \in Channels /\ count[c] \in Int /\ due[c] \in Nat
      /\ extend[c] \in BOOLEAN /\ done[c] \in BOOLEAN
  BY DEF IInv, TypeOK, Clean
<1>2. /\ due[c] <= wr[c] + ToCome(c) + Missing(c)
      /\ extend[c] /\ due[c] > 0 => count[c] > 0
      /\ done[c] => due[c] <= wr[c] + Missing(c)
  BY DEF Covered
<1>3. /\ Arriving(c) \in Nat /\ Arriving(c)' \in Nat
      /\ wr[c] \in Nat /\ wr'[c] \in Nat /\ wr[c] <= wr'[c]
      /\ wr'[c] + Arriving(c)' =
           wr[c] + Arriving(c) + (IF sdram_ack /\ c = active THEN Burst ELSE 0)
  BY ArrivingStep
<1>4. due'[c] = due[c] /\ Missing(c)' = Missing(c) /\ Missing(c) \in Nat
  BY <1>1, MissingKept DEF IInv
<1>5. count'[c] = IF sdram_ack /\ c = active /\ ~extend[c] THEN count[c] - Burst ELSE count[c]
  BY <1>1 DEF Cycle, InputProcess, Count
<1>6. extend'[c] = (extend[c] /\ ~(sdram_ack /\ c = active))
  BY <1>1 DEF Cycle, InputProcess, Extend
<1>7. done'[c] => done[c] \/ (inputstate = 0 /\ count[c] = 0)
  BY <1>1 DEF Cycle, InputProcess, Done
<1>8. due'[c] <= wr'[c] + ToCome(c)' + Missing(c)'
  <2>1. ToCome(c) = Arriving(c) + count[c] + Extra(c)
    BY DEF ToCome
  <2>2. ToCome(c)' = Arriving(c)' + count'[c] + Extra(c)'
    BY DEF ToCome
  <2>3. CASE sdram_ack /\ c = active /\ extend[c]
    <3>1. Extra(c) = Burst /\ Extra(c)' = 0 /\ count'[c] = count[c]
      BY <1>5, <1>6, <2>3 DEF Extra
    <3>2. wr'[c] + Arriving(c)' = wr[c] + Arriving(c) + Burst
      BY <1>3, <2>3
    <3> QED BY <1>1, <1>2, <1>3, <1>4, <2>1, <2>2, <3>1, <3>2
  <2>4. CASE sdram_ack /\ c = active /\ ~extend[c]
    <3>1. Extra(c) = 0 /\ Extra(c)' = 0 /\ count'[c] = count[c] - Burst
      BY <1>5, <1>6, <2>4 DEF Extra
    <3>2. wr'[c] + Arriving(c)' = wr[c] + Arriving(c) + Burst
      BY <1>3, <2>4
    <3> QED BY <1>1, <1>2, <1>3, <1>4, <2>1, <2>2, <3>1, <3>2
  <2>5. CASE ~(sdram_ack /\ c = active)
    <3>1. extend'[c] = extend[c]
      BY <1>1, <1>6, <2>5
    <3>2. Extra(c)' = Extra(c) /\ Extra(c) \in Nat
      BY <3>1 DEF Extra
    <3>3. count'[c] = count[c]
      BY <1>5, <2>5
    <3>4. wr'[c] + Arriving(c)' = wr[c] + Arriving(c)
      BY <1>3, <2>5
    <3> QED BY <1>1, <1>2, <1>3, <1>4, <2>1, <2>2, <3>2, <3>3, <3>4
  <2> QED BY <2>3, <2>4, <2>5
<1>9. extend'[c] /\ due'[c] > 0 => count'[c] > 0
  BY <1>2, <1>4, <1>5, <1>6
<1>10. ASSUME done'[c] PROVE due'[c] <= wr'[c] + Missing(c)'
  <2>1. CASE done[c]
    BY <1>1, <1>2, <1>3, <1>4, <2>1
  <2>2. CASE inputstate = 0 /\ count[c] = 0
    <3>1. Arriving(c) = 0
      BY <2>2 DEF Arriving, Acked, Busy
    <3>2. Extra(c) = 0 \/ due[c] = 0
      BY <1>1, <1>2, <2>2 DEF Extra
    <3>3. due[c] <= wr[c] + (0 + 0 + Extra(c)) + Missing(c)
      BY <1>2, <2>2, <3>1 DEF ToCome
    <3>4. due[c] <= wr[c] + Missing(c)
      BY <1>1, <1>3, <1>4, <3>2, <3>3
    <3> QED BY <1>1, <1>3, <1>4, <3>4
  <2> QED BY <1>7, <1>10, <2>1, <2>2
<1> QED BY <1>8, <1>9, <1>10

(* A length opens an account that covers it, the words before the start of  *)
(* the stream included.                                                     *)
LEMMA AccountOpened ==
  ASSUME IInv, InStep, AddressOffset, NEW move, Sdram(move),
         NEW setaddr, NEW setreqlen, NEW req, NEW a \in Nat, NEW l \in Nat,
         Cycle(setaddr, setreqlen, req, a, l), NEW c \in Channels, c \in setreqlen,
         wr'[c] \in Nat, Arriving(c)' \in Nat
  PROVE  /\ due'[c] <= wr'[c] + ToCome(c)' + Missing(c)'
         /\ extend'[c] /\ due'[c] > 0 => count'[c] > 0
         /\ done'[c] => due'[c] <= wr'[c] + Missing(c)'
<1>1. TypeOK
  BY DEF IInv
<1>2. count'[c] = l /\ done'[c] = FALSE
  BY DEF Cycle, InputProcess, Count, Done
<1>3. /\ due'[c] \in Nat
      /\ Extra(c)' \in Nat /\ Missing(c)' \in Nat
      /\ due'[c] <= wr'[c] + l + Extra(c)' + Missing(c)'
  BY <1>1, OffsetCovered
<1>4. ToCome(c)' = Arriving(c)' + l + Extra(c)'
  BY <1>2 DEF ToCome
<1>5. due'[c] <= wr'[c] + ToCome(c)' + Missing(c)'
  BY <1>3, <1>4
<1>6. due'[c] > 0 => l > 0
  BY DEF Cycle, History
<1> QED BY <1>2, <1>5, <1>6

(* Every account stays covered.                                             *)
LEMMA CoveredKept ==
  ASSUME IInv, InStep, AddressOffset, Covered, NEW move, Sdram(move),
         NEW setaddr \in SUBSET Channels, NEW setreqlen, NEW req,
         NEW a \in Nat, NEW l \in Nat, Cycle(setaddr, setreqlen, req, a, l)
  PROVE  Covered'
<1> SUFFICES ASSUME NEW c \in Clean'
             PROVE  /\ due'[c] <= wr'[c] + ToCome(c)' + Missing(c)'
                    /\ extend'[c] /\ due'[c] > 0 => count'[c] > 0
                    /\ done'[c] => due'[c] <= wr'[c] + Missing(c)'
  BY DEF Covered
<1>1. TypeOK
  BY DEF IInv
<1>2. \/ c \in Clean /\ c \notin setaddr
      \/ c \in setaddr /\ ~Busy(c) /\ ~Served(c)
  BY CleanBefore DEF Cycle
<1>4. CASE c \in Clean /\ c \notin setaddr
  <2>1. c \in Channels /\ wr'[c] \in Nat /\ Arriving(c)' \in Nat
    BY <1>1, <1>4, CleanFacts, ArrivingStep
  <2>2. CASE c \in setreqlen
    BY <2>1, <2>2, AccountOpened
  <2>3. CASE c \notin setreqlen
    BY <1>4, <2>1, <2>3, AccountKept
  <2> QED BY <2>2, <2>3
<1>5. CASE c \in setaddr /\ ~Busy(c) /\ ~Served(c)
  <2>1. c \in Channels
    BY <1>5
  <2>2. wr'[c] = 0
    BY <1>1, <1>5, ReloadedChannel
  <2>3. Arriving(c)' = 0
    <3>1. Rd1 \/ Rcv1Wait \/ RcvWord \/ RcvLast
      BY DEF Cycle, InputProcess
    <3>2. ~Acked(c)'
      BY <1>5, <2>1, <3>1, BurstStep
    <3> QED BY <3>2 DEF Arriving
  <2>4. CASE c \in setreqlen
    BY <2>1, <2>2, <2>3, <2>4, AccountOpened
  <2>5. CASE c \notin setreqlen
    <3>1. count'[c] = 0
      BY <1>5, <2>1, <2>5 DEF Cycle, InputProcess, Count
    <3>2. due'[c] = 0 /\ c \notin unseen'
      BY <1>5, <2>1, <2>5 DEF Cycle, History
    <3>3. Extra(c)' \in Nat /\ Missing(c)' = 0
      BY <3>2 DEF Extra, Missing
    <3>4. ToCome(c)' = 0 + 0 + Extra(c)'
      BY <2>3, <3>1 DEF ToCome
    <3> QED BY <2>2, <3>2, <3>3, <3>4
  <2> QED BY <2>4, <2>5
<1> QED BY <1>2, <1>4, <1>5

(* Every reachable state has its accounts covered.                          *)
THEOREM EnoughInvariance == Spec => []EnoughInv
<1>1. Init => EnoughInv
  <2> SUFFICES ASSUME Init PROVE EnoughInv
    OBVIOUS
  <2>1. Clean = {}
    BY DEF Init, Clean
  <2>2. AddressOffset
    BY DEF Init, EachChannel, AddressOffset
  <2> QED BY <2>1, <2>2, InitOrderInv DEF EnoughInv, Covered
<1>2. EnoughInv /\ [Next]_vars => EnoughInv'
  <2> SUFFICES ASSUME EnoughInv, [Next]_vars PROVE EnoughInv'
    OBVIOUS
  <2>1. OrderInv /\ AddressOffset /\ Covered /\ IInv /\ InStep /\ TypeOK
    BY DEF EnoughInv, OrderInv, IInv
  <2>2. OrderInv'
    BY <2>1, NextOrderInv
  <2>3. CASE Next
    <3>1. PICK move \in BOOLEAN : Step(move)
      BY <2>3 DEF Next
    <3>2. PICK setaddr \in SUBSET Channels, setreqlen \in SUBSET Channels,
               req \in SUBSET Channels, a \in Bases, l \in Lens :
            Cycle(setaddr, setreqlen, req, a, l)
      BY <3>1 DEF Step
    <3>3. Sdram(move) /\ a \in Nat /\ l \in Nat
      BY <3>1, HostAssumption DEF Step
    <3>4. AddressOffset'
      BY <2>1, <3>2, AddressOffsetKept
    <3>5. Covered'
      BY <2>1, <3>2, <3>3, CoveredKept
    <3> QED BY <2>2, <3>4, <3>5 DEF EnoughInv
  <2>4. CASE UNCHANGED vars
    <3>1. /\ UNCHANGED <<inputstate, active, sdram, addr, count, extend, done>>
          /\ UNCHANGED <<loaded, base, due, wr, tainted, unseen>>
      BY <2>4 DEF vars, inputVars, sdramVars, history
    <3>2. Clean' = Clean /\ \A c : ToCome(c)' = ToCome(c) /\ Missing(c)' = Missing(c)
      BY <3>1 DEF Clean, ToCome, Arriving, Acked, Busy, Remaining, Extra, Missing, Offset
    <3>3. AddressOffset'
      BY <2>1, <3>1 DEF AddressOffset
    <3>4. Covered'
      BY <2>1, <3>1, <3>2 DEF Covered
    <3> QED BY <2>2, <3>3, <3>4 DEF EnoughInv
  <2> QED BY <2>3, <2>4
<1> QED BY <1>1, <1>2, PTL DEF Spec

(* A channel that reports done, or for which nothing more will be fetched,  *)
(* has received every word of the lengths its host has set, whatever the    *)
(* host sets and whenever; but the last ones of a stream that begins within *)
(* a burst, as many as lie in it before the stream, if the alignment test   *)
(* saw another address or saw it as aligned.                                *)
THEOREM EnoughWordsFetched == Spec => []EnoughWords
<1>1. EnoughInv => EnoughWords
  <2> SUFFICES ASSUME EnoughInv, NEW c \in Clean, Stopped(c)
               PROVE  wr[c] + Missing(c) >= due[c]
    BY DEF EnoughWords
  <2>1. /\ c \in Channels /\ count[c] \in Int /\ due[c] \in Nat /\ wr[c] \in Nat
        /\ extend[c] \in BOOLEAN /\ base[c] \in Nat
    BY DEF EnoughInv, OrderInv, IInv, TypeOK, Clean
  <2>2. /\ due[c] <= wr[c] + ToCome(c) + Missing(c)
        /\ extend[c] /\ due[c] > 0 => count[c] > 0
        /\ done[c] => due[c] <= wr[c] + Missing(c)
    BY DEF EnoughInv, Covered
  <2>3. Missing(c) \in Nat
    <3>1. base[c] % Burst \in 0 .. Burst - 1
      <4>1. base[c] \in Nat /\ Burst \in Nat \ {0}
        BY <2>1
      <4> QED BY <4>1, Remainder
    <3> QED BY <3>1 DEF Missing, Offset
  <2>4. CASE done[c]
    BY <2>1, <2>2, <2>3, <2>4
  <2>5. CASE count[c] <= 0 /\ ~Busy(c)
    <3>1. Arriving(c) = 0
      BY <2>5 DEF Arriving, Acked
    <3>2. due[c] = 0 \/ Extra(c) = 0
      BY <2>1, <2>2, <2>5 DEF Extra
    <3>3. due[c] <= wr[c] + (0 + count[c] + Extra(c)) + Missing(c)
      BY <2>2, <3>1 DEF ToCome
    <3> QED BY <2>1, <2>3, <2>5, <3>2, <3>3
  <2> QED BY <2>4, <2>5 DEF Stopped
<1> QED BY <1>1, EnoughInvariance, PTL

=============================================================================
