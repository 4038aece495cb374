------------------------- MODULE SdramCached_proofs -------------------------
(***************************************************************************)
(* For every set of rows and banks, every request of the CPU and whatever  *)
(* video and refresh do: the two access slots never work on one bank, the  *)
(* chip is never given a command it forbids, the cache agrees with memory, *)
(* and the CPU sees the memory of module Memory.                           *)
(*                                                                         *)
(* IInv is about slots and rows alone and stands on its own.  CoherenceInv *)
(* (in SdramCached) adds what cache, buffer and slots know of each other;  *)
(* its proof has one lemma per conjunct, and rests on what an edge does to *)
(* the chip's memory (LogicalNext), to tags (TagsMove), to cells           *)
(* (DataMoves) and to a fill (FillMoves).                                  *)
(***************************************************************************)
EXTENDS SdramCached, TLAPS

\* What the proof needs to know of the values of the registers.
Ranges ==
  /\ phase \in 0..15
  /\ workload \in Workloads
  /\ op \in Requests
  /\ \A w \in writecache : w.tag \in Tags /\ w.bank \in Banks
  /\ bank[1] \in Banks /\ bank[2] \in Banks

\* The invariant: a new row finds its bank closed because the rows that are
\* open are those of the slots (RowsOwned) and the slots keep apart.
IInv == Ranges /\ SlotsApart /\ RowsOwned /\ NoFault

-----------------------------------------------------------------------------
(* Requests.                                                               *)

LEMMA RequestIs ==
  ASSUME NEW o \in Requests
  PROVE  /\ o.tag \in Tags /\ o.bank \in Banks /\ o.half \in Halves
         /\ o.wr \in BOOLEAN /\ o.wrU2 \in BOOLEAN /\ o.dqm \in SUBSET {1, 2}
         /\ o.value = <<o.value[1], o.value[2]>>
         /\ o.value[1] \in Half \cup {Invalid} /\ o.value[2] \in Half \cup {Invalid}
         /\ o.wr => o.value[1] \in Half /\ o.value[2] \in Half
         /\ ~o.wrU2 => o.half \in {0, 2, 4, 6} /\ o.dqm = {}
         /\ ~o.wr => o.half \in {0, 2, 4, 6}
         /\ Word(o) \in Words /\ 2 * Word(o) \in Halves
<1>1. o \in Operations
  BY RequestAssumption
<1>2. /\ o.tag \in Tags /\ o.bank \in Banks /\ o.half \in Halves
      /\ o.wr \in BOOLEAN /\ o.wrU2 \in BOOLEAN /\ o.dqm \in SUBSET {1, 2}
      /\ o.value \in (Half \cup {Invalid}) \X (Half \cup {Invalid})
  BY <1>1 DEF Operations
<1>3. o.wr => o.value \in Half \X Half
  BY RequestAssumption
<1>4. Word(o) \in Words /\ 2 * Word(o) \in Halves
  BY <1>2 DEF Word, Words, Halves
<1>5. /\ ~o.wrU2 => o.half \in {0, 2, 4, 6} /\ o.dqm = {}
      /\ ~o.wr => o.half \in {0, 2, 4, 6}
  BY RequestAssumption
<1> QED BY <1>2, <1>3, <1>4, <1>5

-----------------------------------------------------------------------------
(* Phases and slots.                                                       *)

\* The phases in which slot 1 and slot 2 have a row open, and those in which
\* they give their commands, counted from phase 0.
LEMMA SlotPhases ==
  ASSUME phase \in 0..15
  PROVE  /\ HasRow(1) <=> /\ slot[1] \in Users /\ phase # 2
                          /\ slot[1] = "writecache" => phase \notin {13, 14, 15, 0, 1}
         /\ HasRow(2) <=> /\ slot[2] \in Users /\ phase # 10
                          /\ slot[2] = "writecache" => phase \notin {5, 6, 7, 8, 9}
         /\ At(1, 2) <=> (phase = 2)
         /\ At(2, 2) <=> (phase = 10)
BY SMT DEF HasRow, At

LEMMA Commands ==
  ASSUME phase \in 0..15, NEW s \in Slots
  PROVE  /\ s \in Reads => /\ HasRow(s)
                           /\ s = 1 => phase = 5
                           /\ s = 2 => phase = 13
         /\ s \in Writes => HasRow(s)
         /\ s \in Precharges => /\ slot[s] = "writecache"
                                /\ s = 1 => phase = 12
                                /\ s = 2 => phase = 4
         /\ s \in BurstEnds => /\ slot[s] \in {"port0", "port1"}
                               /\ s = 1 => phase = 1
                               /\ s = 2 => phase = 9
BY SMT DEF HasRow, At, Reads, Writes, Precharges, BurstEnds, Slots, Users

\* A port that is given a slot names a bank and a row, and the other slot is
\* idle or works on another bank.
LEMMA PortFits ==
  ASSUME Ranges, NEW video \in VideoInputs, Opens(video)
  PROVE  /\ NewBank(video) \in Banks
         /\ PortRow(NewPort(video)) # Closed
         /\ \/ phase = 2 /\ FreeBank(NewBank(video), 2)
            \/ phase = 10 /\ FreeBank(NewBank(video), 1)
<1>1. video = None \/ video \in Banks
  BY WorkloadAssumption DEF VideoInputs, Ranges
<1>2. op.tag \in Tags /\ op.bank \in Banks
  BY RequestIs DEF Ranges
<1>3. ASSUME writecache # {}
      PROVE  /\ Buffered \in writecache
             /\ Buffered.tag \in Tags /\ Buffered.bank \in Banks
  BY <1>3 DEF Buffered, Ranges
<1>4. ASSUME NEW t \in Tags PROVE t # Closed
  BY AddressAssumption, SMT DEF Closed
<1>5. CASE phase = 2
  <2>1. NewPort(video) = Slot1Port(video)
    BY <1>5 DEF NewPort
  <2>2. CASE NewPort(video) = "port0"
    <3>1. video # None /\ FreeBank(video, 2)
      BY <2>1, <2>2 DEF Slot1Port
    <3> QED BY <1>1, <1>5, <2>2, <3>1 DEF NewBank, PortBank, PortRow, VideoRow, Closed
  <2>3. CASE NewPort(video) = "writecache"
    <3>1. WriteMayUse(2)
      BY <2>1, <2>3 DEF Slot1Port
    <3>2. writecache # {} /\ FreeBank(Buffered.bank, 2)
      BY <3>1 DEF WriteMayUse, writecache_req
    <3> QED BY <1>3, <1>4, <1>5, <2>3, <3>2 DEF NewBank, PortBank, PortRow
  <2>4. CASE NewPort(video) = "port1"
    <3>1. FreeBank(op.bank, 2)
      BY <2>1, <2>4 DEF Slot1Port, ReadMayUse
    <3> QED BY <1>2, <1>4, <1>5, <2>4, <3>1 DEF NewBank, PortBank, PortRow
  <2> QED BY <2>2, <2>3, <2>4 DEF Opens, Users
<1>6. CASE phase = 10
  <2>1. NewPort(video) = Slot2Port(video)
    BY <1>6 DEF NewPort
  <2>2. CASE NewPort(video) = "writecache"
    <3>1. WriteMayUse(1)
      BY <2>1, <2>2 DEF Slot2Port
    <3>2. writecache # {} /\ FreeBank(Buffered.bank, 1)
      BY <3>1 DEF WriteMayUse, writecache_req
    <3> QED BY <1>3, <1>4, <1>6, <2>2, <3>2 DEF NewBank, PortBank, PortRow
  <2>3. CASE NewPort(video) = "port1"
    <3>1. FreeBank(op.bank, 1)
      BY <2>1, <2>3 DEF Slot2Port, ReadMayUse
    <3> QED BY <1>2, <1>4, <1>6, <2>3, <3>1 DEF NewBank, PortBank, PortRow
  <2>4. NewPort(video) # "port0"
    BY <2>1 DEF Slot2Port
  <2> QED BY <2>2, <2>3, <2>4 DEF Opens, Users
<1> QED BY <1>5, <1>6 DEF Opens, NewPort, Users

-----------------------------------------------------------------------------
(* The invariant.                                                          *)

LEMMA InitIInv == Init => IInv
<1> SUFFICES ASSUME Init PROVE IInv
  OBVIOUS
<1>1. workload.requests # {} /\ workload.requests \subseteq Requests
  BY WorkloadAssumption DEF Init, Requests
<1>2. op \in Requests
  BY <1>1 DEF Init
<1>3. op.bank \in Banks
  BY <1>2, RequestIs
<1>4. Ranges
  BY <1>2, <1>3 DEF Init, Ranges, Slots
<1>5. slot[1] \notin Users /\ slot[2] \notin Users
  BY DEF Init, Users
<1>6. SlotsApart
  BY <1>5 DEF SlotsApart
<1>7. RowsOwned
  BY <1>5 DEF RowsOwned, HasRow, Init, Slots
<1> QED BY <1>4, <1>6, <1>7 DEF IInv, NoFault, Init

\* Every register stays in its range, whatever the edge does.
LEMMA RangesStep ==
  ASSUME Ranges, NEW vga_refresh, NEW video \in VideoInputs, Edge(vga_refresh, video)
  PROVE  Ranges'
<1>1. phase' \in 0..15 /\ workload' \in Workloads
  <2>1. \A p \in 0..15 : (p + 1) % 16 \in 0..15
    BY SMT
  <2> QED BY <2>1 DEF Edge, Ranges
<1>2. op' \in Requests
  <2>1. workload.requests \subseteq Requests
    BY DEF Ranges, Requests
  <2>2. CpuEdge
    BY DEF Edge
  <2> QED BY <2>1, <2>2 DEF CpuEdge, ports, Ranges
<1>3. \A w \in writecache' : w.tag \in Tags /\ w.bank \in Banks
  <2>1. op.tag \in Tags /\ op.bank \in Banks
    BY RequestIs DEF Ranges
  <2>2. WriteBuffer
    BY DEF Edge
  <2> QED BY <2>1, <2>2 DEF WriteBuffer, Ranges
<1>4. bank'[1] \in Banks /\ bank'[2] \in Banks
  <2>1. \A s \in Slots : bank'[s] = IF At(s, 2) /\ Opens(video) THEN NewBank(video) ELSE bank[s]
    BY DEF Edge, SlotControl
  <2>2. Opens(video) => NewBank(video) \in Banks
    BY PortFits
  <2> QED BY <2>1, <2>2 DEF Slots, Ranges
<1> QED BY <1>1, <1>2, <1>3, <1>4 DEF Ranges

\* The edge at which a slot opens its row, or is left idle or to a refresh.
LEMMA DecisionStep ==
  ASSUME IInv, Ranges', NEW vga_refresh, NEW video \in VideoInputs,
         Edge(vga_refresh, video), phase \in {2, 10}
  PROVE  SlotsApart' /\ RowsOwned' /\ NoFault'
<1>1. PICK me \in Slots, other \in Slots :
        /\ Slots = {me, other}
        /\ phase = 2 => me = 1 /\ other = 2
        /\ phase = 10 => me = 2 /\ other = 1
  BY DEF Slots
<1>2. phase' = IF phase = 2 THEN 3 ELSE 11
  BY SMT DEF Edge
<1>3. /\ ~HasRow(me)
      /\ HasRow(other) <=> slot[other] \in Users
  <2>1. phase \in 0..15
    BY DEF IInv, Ranges
  <2> QED BY <1>1, <2>1, SlotPhases
<1>4. /\ slot'[me] = NewPort(video)
      /\ slot'[other] = slot[other]
      /\ bank'[me] = IF Opens(video) THEN NewBank(video) ELSE bank[me]
      /\ bank'[other] = bank[other]
  <2>1. At(me, 2) /\ ~At(other, 2)
    BY <1>1, SlotPhases DEF IInv, Ranges
  <2> QED BY <1>1, <2>1 DEF Edge, SlotControl
<1>5. /\ HasRow(me)' <=> Opens(video)
      /\ HasRow(other)' <=> slot[other] \in Users
  <2>1. /\ HasRow(1)' <=> /\ slot'[1] \in Users /\ phase' # 2
                          /\ slot'[1] = "writecache" => phase' \notin {13, 14, 15, 0, 1}
        /\ HasRow(2)' <=> /\ slot'[2] \in Users /\ phase' # 10
                          /\ slot'[2] = "writecache" => phase' \notin {5, 6, 7, 8, 9}
    BY SMT DEF HasRow, At, Ranges, Users
  <2>2. \A p \in {3, 11} : /\ p # 2 /\ p # 10
                           /\ p \notin {13, 14, 15, 0, 1}
                           /\ p \notin {5, 6, 7, 8, 9}
    BY SMT
  <2>3. phase' \in {3, 11}
    BY <1>2
  <2>4. \A s \in Slots : HasRow(s)' <=> slot'[s] \in Users
    BY <2>1, <2>2, <2>3 DEF Slots
  <2> QED BY <1>1, <1>4, <2>4 DEF Opens
<1>6. Precharges = {} /\ BurstEnds = {} /\ Reads = {} /\ Writes = {}
  <2>1. \A s \in Slots : ~At(s, 12) /\ ~At(s, 1) /\ ~At(s, 5) /\ ~At(s, 9)
    BY SMT DEF At, Slots
  <2> QED BY <2>1 DEF Precharges, BurstEnds, Reads, Writes
<1>7. ASSUME Opens(video)
      PROVE  /\ NewBank(video) \in Banks
             /\ PortRow(NewPort(video)) # Closed
             /\ slot[other] = "idle" \/ NewBank(video) # bank[other]
  <2>1. Ranges
    BY DEF IInv
  <2> QED BY <1>1, <1>7, <2>1, PortFits DEF FreeBank
<1>8. SlotsApart'
  BY <1>1, <1>4, <1>7 DEF IInv, SlotsApart, Opens, Users
<1>9. \A b \in Banks : open'[b] = IF Opens(video) /\ b = NewBank(video)
                                    THEN PortRow(NewPort(video)) ELSE open[b]
  BY <1>6 DEF Edge, Chip
<1>10. \A b \in Banks : open[b] # Closed <=> slot[other] \in Users /\ bank[other] = b
  BY <1>1, <1>3 DEF IInv, RowsOwned
<1>11. RowsOwned'
  <2> SUFFICES ASSUME NEW b \in Banks
               PROVE  open'[b] # Closed <=>
                        \E s \in Slots : HasRow(s)' /\ bank'[s] = b
    BY DEF RowsOwned
  <2>1. (\E s \in Slots : HasRow(s)' /\ bank'[s] = b) <=>
          \/ Opens(video) /\ NewBank(video) = b
          \/ slot[other] \in Users /\ bank[other] = b
    BY <1>1, <1>4, <1>5
  <2>2. CASE Opens(video) /\ NewBank(video) = b
    BY <1>7, <1>9, <2>1, <2>2
  <2>3. CASE ~(Opens(video) /\ NewBank(video) = b)
    BY <1>9, <1>10, <2>1, <2>3
  <2> QED BY <2>2, <2>3
<1>12. NoFault'
  <2>1. Opens(video) => open[NewBank(video)] = Closed
    BY <1>7, <1>10 DEF Users
  <2>2. NewPort(video) = "refresh" => slot[other] = "idle"
    BY <1>1 DEF NewPort, Slot1Port, Slot2Port
  <2>3. NewPort(video) = "refresh" => \A b \in Banks : open[b] = Closed
    BY <1>10, <2>2 DEF Users
  <2>4. ~fault
    BY DEF IInv, NoFault
  <2> QED BY <1>6, <2>1, <2>3, <2>4 DEF Edge, Chip, NoFault
<1> QED BY <1>8, <1>11, <1>12

\* Every other edge: rows are closed by the slots that have them open, and a
\* command finds the row of its slot.
LEMMA OtherStep ==
  ASSUME IInv, Ranges', NEW vga_refresh, NEW video \in VideoInputs,
         Edge(vga_refresh, video), phase \notin {2, 10}
  PROVE  SlotsApart' /\ RowsOwned' /\ NoFault'
<1> DEFINE Closing == Precharges \cup BurstEnds
<1>1. phase \in 0..15 /\ ~At(1, 2) /\ ~At(2, 2)
  BY SlotPhases DEF IInv, Ranges
<1>2. NewPort(video) = "none" /\ ~Opens(video)
  BY DEF NewPort, Opens, Users
<1>3. \A s \in Slots : slot'[s] = slot[s] /\ bank'[s] = bank[s]
  BY <1>1, <1>2 DEF Edge, SlotControl, Slots
<1>4. SlotsApart'
  BY <1>3 DEF IInv, SlotsApart, Slots
<1>5. \A s \in Slots : HasRow(s)' <=> HasRow(s) /\ s \notin Closing
  <2>1. /\ HasRow(1)' <=> /\ slot'[1] \in Users /\ phase' # 2
                          /\ slot'[1] = "writecache" => phase' \notin {13, 14, 15, 0, 1}
        /\ HasRow(2)' <=> /\ slot'[2] \in Users /\ phase' # 10
                          /\ slot'[2] = "writecache" => phase' \notin {5, 6, 7, 8, 9}
    BY SMT DEF HasRow, At, Users
  <2>2. phase' = IF phase = 15 THEN 0 ELSE phase + 1
    BY <1>1, SMT DEF Edge
  <2>3. /\ 1 \in Closing <=> \/ slot[1] = "writecache" /\ phase = 12
                             \/ slot[1] \in {"port0", "port1"} /\ phase = 1
        /\ 2 \in Closing <=> \/ slot[2] = "writecache" /\ phase = 4
                             \/ slot[2] \in {"port0", "port1"} /\ phase = 9
    BY SMT DEF Precharges, BurstEnds, At, Slots
  <2>4. /\ phase' # 2 <=> phase # 1
        /\ phase' # 10 <=> phase # 9
        /\ phase' \notin {13, 14, 15, 0, 1} <=> phase \notin {12, 13, 14, 15, 0}
        /\ phase' \notin {5, 6, 7, 8, 9} <=> phase \notin {4, 5, 6, 7, 8}
    BY <1>1, <2>2, SMT
  <2>5. slot'[1] = slot[1] /\ slot'[2] = slot[2]
    BY <1>3 DEF Slots
  <2>6. phase # 2 /\ phase # 10
    OBVIOUS
  <2>7. HasRow(1)' <=> HasRow(1) /\ 1 \notin Closing
    <3>1. HasRow(1) <=> /\ slot[1] \in Users
                        /\ slot[1] = "writecache" => phase \notin {13, 14, 15, 0, 1}
      BY <1>1, <2>6, SlotPhases
    <3> QED BY <2>1, <2>3, <2>4, <2>5, <3>1, SMT DEF Users
  <2>8. HasRow(2)' <=> HasRow(2) /\ 2 \notin Closing
    <3>1. HasRow(2) <=> /\ slot[2] \in Users
                        /\ slot[2] = "writecache" => phase \notin {5, 6, 7, 8, 9}
      BY <1>1, <2>6, SlotPhases
    <3> QED BY <2>1, <2>3, <2>4, <2>5, <3>1, SMT DEF Users
  <2> QED BY <2>7, <2>8 DEF Slots
<1>6. \A s \in Closing : s \in Slots /\ HasRow(s)
  <2>1. \A s \in Closing : s \in Slots
    BY DEF Precharges, BurstEnds
  <2>2. ASSUME NEW s \in Slots, s \in Precharges PROVE HasRow(s)
    BY <2>2, SMT DEF Precharges, HasRow, At, Slots, Users
  <2>3. ASSUME NEW s \in Slots, s \in BurstEnds PROVE HasRow(s)
    BY <2>3, SMT DEF BurstEnds, HasRow, At, Slots, Users
  <2> QED BY <2>1, <2>2, <2>3
<1>7. \A b \in Banks : open'[b] = IF \E s \in Closing : bank[s] = b
                                    THEN Closed ELSE open[b]
  BY <1>2 DEF Edge, Chip
<1>8. \A s, t \in Slots : HasRow(s) /\ HasRow(t) /\ bank[s] = bank[t] => s = t
  BY DEF IInv, SlotsApart, HasRow, Slots
<1>9. RowsOwned'
  <2> SUFFICES ASSUME NEW b \in Banks
               PROVE  open'[b] # Closed <=>
                        \E s \in Slots : HasRow(s)' /\ bank'[s] = b
    BY DEF RowsOwned
  <2>1. open[b] # Closed <=> \E s \in Slots : HasRow(s) /\ bank[s] = b
    BY DEF IInv, RowsOwned
  <2>2. (\E s \in Slots : HasRow(s)' /\ bank'[s] = b) <=>
          \E s \in Slots : HasRow(s) /\ s \notin Closing /\ bank[s] = b
    BY <1>3, <1>5
  <2>3. CASE \E s \in Closing : bank[s] = b
    BY <1>6, <1>7, <1>8, <2>2, <2>3
  <2>4. CASE ~ \E s \in Closing : bank[s] = b
    BY <1>7, <2>1, <2>2, <2>4
  <2> QED BY <2>3, <2>4
<1>10. NoFault'
  <2>1. ASSUME NEW s \in Reads \cup Writes PROVE open[bank[s]] # Closed
    <3>1. s \in Slots
      BY DEF Reads, Writes
    <3>2. HasRow(s)
      BY <1>1, <3>1, Commands
    <3>3. bank[s] \in Banks
      BY <3>1 DEF IInv, Ranges, Slots
    <3> QED BY <3>1, <3>2, <3>3 DEF IInv, RowsOwned
  <2>2. ~fault
    BY DEF IInv, NoFault
  <2> QED BY <1>2, <2>1, <2>2 DEF Edge, Chip, NoFault
<1> QED BY <1>4, <1>9, <1>10

LEMMA StepIInv == IInv /\ [Next]_vars => IInv'
<1> SUFFICES ASSUME IInv, [Next]_vars PROVE IInv'
  OBVIOUS
<1>1. CASE UNCHANGED vars
  BY <1>1 DEF vars, ports, slotvars, buffervars, chipvars, IInv, Ranges,
              SlotsApart, RowsOwned, NoFault, HasRow, At
<1>2. CASE Next
  <2>1. PICK vga_refresh \in RefreshInputs, video \in VideoInputs :
          Edge(vga_refresh, video)
    BY <1>2 DEF Next
  <2>2. Ranges'
    BY <2>1, RangesStep DEF IInv
  <2>3. SlotsApart' /\ RowsOwned' /\ NoFault'
    BY <2>1, <2>2, DecisionStep, OtherStep
  <2> QED BY <2>2, <2>3 DEF IInv
<1> QED BY <1>1, <1>2

-----------------------------------------------------------------------------
(* The theorems.                                                           *)

\* The two access slots never work on the same bank (sdram_cached.vhd:453,
\* 599), although each is decided while the other is in the middle of its own.
THEOREM SlotsKeepApart == Spec => []SlotsApart
<1>1. IInv => SlotsApart
  BY DEF IInv
<1> QED BY InitIInv, StepIInv, <1>1, PTL DEF Spec

\* A row is open in the chip exactly while a slot works on it
\* (sdram_cached.vhd:515, 672).
THEOREM RowsAreOwned == Spec => []RowsOwned
<1>1. IInv => RowsOwned
  BY DEF IInv
<1> QED BY InitIInv, StepIInv, <1>1, PTL DEF Spec

\* The controller never gives the chip a command that the chip forbids: no row
\* is opened over another, no refresh comes while a row is open, and every
\* read and write finds its row.
THEOREM ChipIsObeyed == Spec => []NoFault
<1>1. IInv => NoFault
  BY DEF IInv
<1> QED BY InitIInv, StepIInv, <1>1, PTL DEF Spec

-----------------------------------------------------------------------------
(* Memories.                                                               *)

LEMMA MergedIs ==
  ASSUME NEW old \in Half, NEW word \in Half, NEW dqm \in SUBSET {1, 2}
  PROVE  /\ Merged(old, word, dqm) \in Half
         /\ dqm = {1, 2} => Merged(old, word, dqm) = old
         /\ dqm = {} => Merged(old, word, dqm) = word
         /\ Merged(Merged(old, word, dqm), word, dqm) = Merged(old, word, dqm)
<1>1. Merged(old, word, dqm) \in Half
  BY DEF Merged, Half
<1>2. [i \in {1, 2} |-> old[i]] = old /\ [i \in {1, 2} |-> word[i]] = word
  BY DEF Half
<1>3. dqm = {1, 2} => Merged(old, word, dqm) = [i \in {1, 2} |-> old[i]]
  BY DEF Merged
<1>4. dqm = {} => Merged(old, word, dqm) = [i \in {1, 2} |-> word[i]]
  BY DEF Merged
<1>5. Merged(Merged(old, word, dqm), word, dqm) = Merged(old, word, dqm)
  BY DEF Merged
<1> QED BY <1>1, <1>2, <1>3, <1>4, <1>5

LEMMA PutIs ==
  ASSUME NEW m \in Memories, NEW t \in Tags, NEW b \in Banks, NEW h \in Halves,
         NEW word \in Half, NEW dqm \in SUBSET {1, 2}
  PROVE  /\ Put(m, t, b, h, word, dqm) \in Memories
         /\ \A u \in Tags, c \in Banks, g \in Halves :
              Put(m, t, b, h, word, dqm)[u][c][g] =
                IF u = t /\ c = b /\ g = h THEN Merged(m[t][b][h], word, dqm) ELSE m[u][c][g]
<1> DEFINE new == Merged(m[t][b][h], word, dqm)
<1>1. new \in Half
  BY MergedIs DEF Memories
<1>2. Put(m, t, b, h, word, dqm) = [m EXCEPT ![t][b][h] = new]
  BY DEF Put
<1> HIDE DEF new
<1>3. [m EXCEPT ![t][b][h] = new] \in Memories
  BY <1>1 DEF Memories
<1>4. \A u \in Tags, c \in Banks, g \in Halves :
        [m EXCEPT ![t][b][h] = new][u][c][g] =
          IF u = t /\ c = b /\ g = h THEN new ELSE m[u][c][g]
  BY DEF Memories
<1> QED BY <1>2, <1>3, <1>4 DEF new

\* Memories are the same that hold the same.
LEMMA SameMemory ==
  ASSUME NEW m \in Memories, NEW n \in Memories,
         \A t \in Tags, b \in Banks, h \in Halves : m[t][b][h] = n[t][b][h]
  PROVE  m = n
<1>1. ASSUME NEW t \in Tags PROVE m[t] = n[t]
  <2>1. ASSUME NEW b \in Banks PROVE m[t][b] = n[t][b]
    <3>1. m[t][b] \in [Halves -> Half] /\ n[t][b] \in [Halves -> Half]
      BY DEF Memories
    <3>2. \A h \in Halves : m[t][b][h] = n[t][b][h]
      OBVIOUS
    <3> QED BY <3>1, <3>2
  <2>2. m[t] \in [Banks -> [Halves -> Half]] /\ n[t] \in [Banks -> [Halves -> Half]]
    BY DEF Memories
  <2> QED BY <2>1, <2>2
<1> QED BY <1>1 DEF Memories

-----------------------------------------------------------------------------
(* Ages.                                                                   *)

\* What a slot does at which age, and how the slots are apart.
LEMMA AgeIs ==
  ASSUME phase \in 0..15, NEW s \in Slots
  PROVE  /\ Age(s) \in 1..16
         /\ Other(s) \in Slots /\ Other(s) # s /\ Other(Other(s)) = s
         /\ Slots = {s, Other(s)}
         /\ Age(s) < 9 => Age(Other(s)) = Age(s) + 8
         /\ Age(s) > 8 => Age(Other(s)) = Age(s) - 8
         /\ At(s, 2) <=> Age(s) = 16
         /\ At(s, 5) <=> Age(s) = 3
         /\ At(s, 9) <=> Age(s) = 7
         /\ At(s, 10) <=> Age(s) = 8
         /\ At(s, 12) <=> Age(s) = 10
         /\ At(s, 1) <=> Age(s) = 15
         /\ Filling \in Slots
         /\ Filling = s <=> Age(s) \in 8..15
         /\ phase \in {2, 10} <=> Age(s) \in {8, 16}
         /\ phase \in {3, 11} <=> Age(s) \in {1, 9}
  BY SMT DEF Age, At, Other, Slots, Filling

LEMMA AgeNext ==
  ASSUME phase \in 0..15, phase' = (phase + 1) % 16, NEW s \in Slots
  PROVE  Age(s)' = IF Age(s) = 16 THEN 1 ELSE Age(s) + 1
  BY SMT DEF Age, Slots

-----------------------------------------------------------------------------
(* Types.                                                                  *)

Entries == (Half \cup {Invalid}) \X (Half \cup {Invalid})

LEMMA RamTypes ==
  ASSUME CacheTypeOK, op \in Requests, RamWrites
  PROVE  /\ tag' \in [Ways -> [Banks -> Tags]]
         /\ mru' \in [Banks -> BOOLEAN]
         /\ data' \in [Ways -> [Banks -> [Words -> Entries]]]
<1>1. op.tag \in Tags /\ op.bank \in Banks /\ Word(op) \in Words
  BY RequestIs
<1>2. DataLine \in Banks /\ DataWord \in Words
  BY <1>1 DEF DataLine, DataWord, CacheTypeOK
<1>3. tag' \in [Ways -> [Banks -> Tags]]
  BY <1>1 DEF RamWrites, CacheTypeOK
<1>4. mru' \in [Banks -> BOOLEAN]
  BY <1>1 DEF RamWrites, CacheTypeOK
<1>5. <<data_ports_w_hi, data_ports_w>> \in Entries
  BY DEF CacheTypeOK, Entries
<1>6. data \in [Ways -> [Banks -> [Words -> Entries]]]
  BY DEF CacheTypeOK, Entries
<1>7. \A w \in Ways : data'[w] \in [Banks -> [Words -> Entries]]
  BY <1>2, <1>5, <1>6 DEF RamWrites
<1>8. data' \in [Ways -> [Banks -> [Words -> Entries]]]
  BY <1>7 DEF RamWrites
<1> QED BY <1>3, <1>4, <1>8

CacheRegistersOK ==
  /\ state \in {"WAITING", "WRITE1", "WRITE2", "WAITRD", "PAUSE1", "WAITFILL", "FILL"}
  /\ beat \in 2..9
  /\ busy \in BOOLEAN /\ cpu_ack \in BOOLEAN
  /\ readword \in Words /\ latched_cpuaddr \in Banks
  /\ firstword \in Entries
  /\ tag_mru1 \in BOOLEAN
  /\ tag_wren \subseteq Ways /\ data_wren \subseteq Ways
  /\ data_ports_w_hi \in Half \cup {Invalid}
  /\ data_ports_w \in Half \cup {Invalid}

LEMMA RegisterTypes ==
  ASSUME CacheTypeOK, req \in BOOLEAN, op \in Requests,
         NEW fill \in BOOLEAN, NEW half \in Half \cup {Invalid}, CacheEdge(fill, half)
  PROVE  CacheRegistersOK'
<1>1. /\ op.tag \in Tags /\ op.bank \in Banks /\ Word(op) \in Words
      /\ op.value[1] \in Half \cup {Invalid} /\ op.value[2] \in Half \cup {Invalid}
  BY RequestIs
<1>2. CacheRegistersOK
  BY DEF CacheTypeOK, CacheRegistersOK, Entries
<1>3. Blank \in Entries /\ Invalid \in Half \cup {Invalid} /\ 0 \in Words /\ 2 \in 2..9
  BY DEF Blank, Entries, Words
<1>4. CASE WAITING
  BY <1>2, <1>3, <1>4 DEF WAITING, NoTagWrite, NoDataWrite, NoFill, CacheRegistersOK
<1>5. CASE WRITE1
  <2>1. /\ {w \in Ways : tag_hit(w)} \subseteq Ways
        /\ (IF \E w \in Ways : tag_hit(w) THEN {1} ELSE {}) \subseteq Ways
    BY DEF Ways
  <2> QED BY <1>1, <1>2, <1>3, <1>5, <2>1 DEF WRITE1, NoFill, CacheRegistersOK
<1>6. CASE WRITE2
  BY <1>2, <1>3, <1>6 DEF WRITE2, NoTagWrite, NoDataWrite, NoFill, CacheRegistersOK
<1>7. CASE WAITRD_Hit
  BY <1>2, <1>3, <1>7 DEF WAITRD_Hit, NoDataWrite, NoFill, CacheRegistersOK, Ways, Hit, tag_hit
<1>8. CASE WAITRD_Miss
  <2>1. mru[op.bank] \in BOOLEAN
    BY <1>1 DEF CacheTypeOK
  <2> QED BY <1>1, <1>2, <1>3, <1>8, <2>1 DEF WAITRD_Miss, NoDataWrite, CacheRegistersOK
<1>9. CASE PAUSE1
  BY <1>2, <1>3, <1>9 DEF PAUSE1, NoTagWrite, NoDataWrite, NoFill, CacheRegistersOK
<1>10. CASE WAITFILL(fill, half)
  <2>1. firstword[2] \in Half \cup {Invalid}
    BY <1>2 DEF CacheRegistersOK, Entries
  <2>2. <<half, firstword[2]>> \in Entries
    BY <2>1 DEF Entries
  <2> QED BY <1>1, <1>2, <1>3, <1>10, <2>2 DEF WAITFILL, NoTagWrite, CacheRegistersOK
<1>11. CASE FILL(half)
  <2>1. firstword[1] \in Half \cup {Invalid}
    BY <1>2 DEF CacheRegistersOK, Entries
  <2>2. <<firstword[1], half>> \in Entries
    BY <2>1 DEF Entries
  <2>3. FillWay \subseteq Ways /\ (readword + 1) % 4 \in Words
    BY <1>2 DEF FillWay, Ways, CacheRegistersOK, Words
  <2>4. CASE beat = 9
    BY <1>2, <1>3, <1>11, <2>4 DEF FILL, NoTagWrite, NoDataWrite, NoFill, CacheRegistersOK
  <2>5. CASE beat # 9
    <3>1. beat + 1 \in 2..9
      BY <1>2, <2>5 DEF CacheRegistersOK
    <3>2. firstword' \in Entries
      BY <1>2, <1>3, <1>11, <2>2, <2>5 DEF FILL, CacheRegistersOK
    <3>3. /\ data_wren' \subseteq Ways
          /\ data_ports_w' \in Half \cup {Invalid}
          /\ data_ports_w_hi' \in Half \cup {Invalid}
      BY <1>2, <1>3, <1>11, <2>3, <2>5 DEF FILL, CacheRegistersOK
    <3> QED BY <1>2, <1>3, <1>11, <2>3, <2>5, <3>1, <3>2, <3>3
            DEF FILL, NoTagWrite, CacheRegistersOK
  <2> QED BY <2>4, <2>5
<1> QED BY <1>4, <1>5, <1>6, <1>7, <1>8, <1>9, <1>10, <1>11 DEF CacheEdge

\* What is in the buffer.
LEMMA BufferIs ==
  ASSUME TypeOK, writecache_req
  PROVE  /\ Buffered \in writecache /\ writecache = {Buffered}
         /\ Buffered.tag \in Tags /\ Buffered.bank \in Banks /\ Buffered.half \in Halves
         /\ Buffered.word0 \in Half /\ Buffered.word1 \in Half
         /\ Buffered.dqm0 \in SUBSET {1, 2} /\ Buffered.dqm1 \in SUBSET {1, 2}
         /\ ((Buffered.half + 1) % 8) \in Halves /\ (Buffered.half + 1) % 8 # Buffered.half
<1>1. Buffered \in writecache
  BY DEF Buffered, writecache_req
<1>2. Buffered \in Buffers /\ writecache = {Buffered}
  BY <1>1 DEF TypeOK
<1>3. \A h \in Halves : ((h + 1) % 8) \in Halves /\ (h + 1) % 8 # h
  BY SMT DEF Halves
<1> QED BY <1>1, <1>2, <1>3 DEF Buffers

LEMMA SdataType ==
  ASSUME TypeOK
  PROVE  /\ sdata_reg \in Half \cup {Invalid}
         /\ readcache_fill /\ open[bank[Filling]] \in Tags =>
              sdata_reg = store[open[bank[Filling]]][bank[Filling]]
                               [(column[Filling] + phase + 6) % 8]
<1>1. phase \in 0..15 /\ Filling \in Slots
  BY DEF TypeOK, Filling, Slots
<1>2. bank[Filling] \in Banks /\ column[Filling] \in Halves
  BY <1>1 DEF TypeOK
<1>3. (column[Filling] + phase + 6) % 8 \in Halves
  BY <1>1, <1>2 DEF Halves
<1> QED BY <1>1, <1>2, <1>3 DEF sdata_reg, TypeOK, Memories

LEMMA PortIs ==
  ASSUME TypeOK, Ranges, NEW video \in VideoInputs, NEW s \in Slots, At(s, 2)
  PROVE  /\ NewPort(video) \in {"idle", "refresh"} \cup Users
         /\ s = 2 => NewPort(video) \notin {"refresh", "port0"}
         /\ Opens(video) => /\ PortColumn(NewPort(video)) \in Halves
                            /\ PortRow(NewPort(video)) \in Tags \cup {VideoRow}
         /\ NewPort(video) = "writecache" => WriteMayUse(Other(s))
         /\ NewPort(video) = "port1" =>
              ReadMayUse(Other(s)) /\ (~WriteMayUse(Other(s)) \/ Buffered.bank # op.bank)
<1>1. (phase = 2 /\ s = 1 /\ Other(s) = 2) \/ (phase = 10 /\ s = 2 /\ Other(s) = 1)
  <2>1. (s = 1 /\ Other(s) = 2) \/ (s = 2 /\ Other(s) = 1)
    BY DEF Other, Slots
  <2>2. phase \in 0..15
    BY DEF Ranges
  <2>3. s = 1 => phase = 2
    BY <2>2, SlotPhases
  <2>4. s = 2 => phase = 10
    BY <2>2, SlotPhases
  <2> QED BY <2>1, <2>3, <2>4
<1>2. NewPort(video) = IF s = 1 THEN Slot1Port(video) ELSE Slot2Port(video)
  BY <1>1 DEF NewPort
<1>3. /\ NewPort(video) \in {"idle", "refresh"} \cup Users
      /\ s = 2 => NewPort(video) \notin {"refresh", "port0"}
  BY <1>1, <1>2 DEF Slot1Port, Slot2Port, Users
<1>4. NewPort(video) = "writecache" => WriteMayUse(Other(s))
  BY <1>1, <1>2 DEF Slot1Port, Slot2Port
<1>5. NewPort(video) = "port1" =>
              ReadMayUse(Other(s)) /\ (~WriteMayUse(Other(s)) \/ Buffered.bank # op.bank)
  BY <1>1, <1>2 DEF Slot1Port, Slot2Port
<1>6. ASSUME Opens(video)
      PROVE  /\ PortColumn(NewPort(video)) \in Halves
             /\ PortRow(NewPort(video)) \in Tags \cup {VideoRow}
  <2>1. op.tag \in Tags /\ 2 * Word(op) \in Halves /\ 0 \in Halves
    BY RequestIs DEF Ranges, Halves
  <2>2. NewPort(video) = "writecache" => Buffered.tag \in Tags /\ Buffered.half \in Halves
    BY <1>4, BufferIs DEF WriteMayUse
  <2> QED BY <1>6, <2>1, <2>2 DEF PortColumn, PortRow, Opens, Users
<1> QED BY <1>3, <1>4, <1>5, <1>6

\* What is stored in a memory leaves it one.
LEMMA StoredType ==
  ASSUME TypeOK, NEW s \in Slots, NEW h \in Halves, NEW word \in Half,
         NEW dqm \in SUBSET {1, 2}
  PROVE  Stored(s, h, word, dqm) \in Memories
<1>1. bank[s] \in Banks /\ store \in Memories
  BY DEF TypeOK
<1> QED BY <1>1, PutIs DEF Stored

\* A slot that is about to give a write command has a row open.
LEMMA TypeNext ==
  ASSUME TypeOK, Ranges, SlotsRight,
         NEW vga_refresh \in BOOLEAN, NEW video \in VideoInputs, Edge(vga_refresh, video)
  PROVE  TypeOK'
<1>1. CacheTypeOK /\ req \in BOOLEAN /\ op \in Requests /\ phase \in 0..15
  BY DEF TypeOK
<1>2. CacheTypeOK'
  <2>1. /\ RamWrites /\ CacheEdge(readcache_fill, sdata_reg)
        /\ sdata_reg \in Half \cup {Invalid} /\ readcache_fill \in BOOLEAN
    BY SdataType DEF Edge, CacheEdge, readcache_fill
  <2> QED BY <1>1, <2>1, RamTypes, RegisterTypes DEF CacheTypeOK, CacheRegistersOK, Entries
<1>3. req' \in BOOLEAN /\ op' \in Requests
  <2>1. workload.requests \subseteq Requests
    BY DEF Ranges, Requests
  <2>2. CpuEdge
    BY DEF Edge
  <2> QED BY <1>1, <2>1, <2>2 DEF CpuEdge, ports
<1>4. phase' \in 0..15
  BY <1>1 DEF Edge
<1>5. /\ slot' \in [Slots -> {"idle", "refresh"} \cup Users]
      /\ slot'[2] \notin {"refresh", "port0"}
  <2>1. slot' = [s \in Slots |-> IF At(s, 2) THEN NewPort(video) ELSE slot[s]]
    BY DEF Edge, SlotControl
  <2>2. \A s \in Slots : slot[s] \in {"idle", "refresh"} \cup Users
    BY DEF TypeOK
  <2>3. 2 \in Slots /\ slot[2] \notin {"refresh", "port0"}
    BY DEF TypeOK, Slots
  <2> QED BY <2>1, <2>2, <2>3, PortIs
<1>6. bank' \in [Slots -> Banks]
  <2>1. Opens(video) => NewBank(video) \in Banks
    BY PortFits
  <2> QED BY <2>1 DEF Edge, SlotControl, TypeOK
<1>7. ASSUME Opens(video)
      PROVE  /\ PortColumn(NewPort(video)) \in Halves
             /\ PortRow(NewPort(video)) \in Tags \cup {VideoRow}
  <2>1. \E s \in Slots : At(s, 2)
    <3>1. phase = 2 \/ phase = 10
      BY <1>7 DEF Opens, NewPort, Users
    <3> QED BY <3>1 DEF At, Slots
  <2> QED BY <1>7, <2>1, PortIs
<1>8. casaddr' \in Halves
  BY <1>7 DEF Edge, SlotControl, TypeOK
<1>9. refreshpending' \in BOOLEAN
  BY DEF Edge, RefreshTimer, TypeOK
<1>10. /\ writecache' \subseteq Buffers /\ \A w1, w2 \in writecache' : w1 = w2
       /\ writecache_dtack' \in BOOLEAN /\ writecache_ack' \in BOOLEAN
  <2>1. WriteBuffer
    BY DEF Edge
  <2>2. CASE Takes
    <3>1. /\ op.tag \in Tags /\ op.bank \in Banks /\ op.half \in Halves
          /\ op.value[1] \in Half /\ op.value[2] \in Half /\ op.dqm \in SUBSET {1, 2}
      BY <1>1, <2>2, RequestIs DEF Takes
    <3>2. (op.half + 7) % 8 \in Halves
      BY <3>1 DEF Halves
    <3> DEFINE new == [tag |-> op.tag, bank |-> op.bank,
                half |-> IF op.wrU2 THEN (op.half + 7) % 8 ELSE op.half,
                word0 |-> op.value[1], dqm0 |-> IF op.wrU2 THEN {1, 2} ELSE {},
                word1 |-> op.value[2], dqm1 |-> op.dqm]
    <3>3. new \in Buffers
      BY <3>1, <3>2 DEF Buffers
    <3>4. writecache' = {new}
      BY <2>1, <2>2 DEF WriteBuffer
    <3> HIDE DEF new
    <3> QED BY <2>1, <3>3, <3>4 DEF WriteBuffer, Takes
  <2>3. CASE ~Takes
    BY <2>1, <2>3 DEF WriteBuffer, TypeOK
  <2> QED BY <2>2, <2>3
<1>11. open' \in [Banks -> Tags \cup {Closed, VideoRow}]
  BY <1>7 DEF Edge, Chip, TypeOK
<1>12. column' \in [Slots -> Halves]
  <2>1. 0 \in Halves
    BY DEF Halves
  <2> QED BY <2>1 DEF Edge, Chip, TypeOK
<1>13. store' \in Memories
  <2>1. Chip(video) /\ store \in Memories /\ casaddr \in Halves
        /\ ((casaddr + 1) % 8) \in Halves
    BY DEF Edge, TypeOK, Halves
  <2>2. ASSUME NEW s \in Writes \cup SecondWords PROVE s \in Slots /\ writecache_req
    <3>1. s \in Slots /\ slot[s] = "writecache" /\ (At(s, 9) \/ At(s, 10))
      BY DEF Writes, SecondWords
    <3>2. Age(s) < 9
      BY <1>1, <3>1, AgeIs
    <3> QED BY <3>1, <3>2 DEF SlotsRight, WriteUnderWay
  <2>3. CASE Writes # {}
    BY <2>1, <2>2, <2>3, StoredType, BufferIs DEF Chip
  <2>4. CASE Writes = {} /\ SecondWords # {}
    BY <2>1, <2>2, <2>4, StoredType, BufferIs DEF Chip
  <2>5. CASE Writes = {} /\ SecondWords = {}
    BY <2>1, <2>5 DEF Chip
  <2> QED BY <2>3, <2>4, <2>5
<1> QED BY <1>2, <1>3, <1>4, <1>5, <1>6, <1>8, <1>9, <1>10, <1>11, <1>12, <1>13 DEF TypeOK

-----------------------------------------------------------------------------
(* What memory is to the CPU.                                              *)

\* A halfword that is written again is the same.
LEMMA PutTwice ==
  ASSUME NEW m \in Memories, NEW t \in Tags, NEW b \in Banks, NEW h \in Halves,
         NEW word \in Half, NEW dqm \in SUBSET {1, 2}
  PROVE  Put(Put(m, t, b, h, word, dqm), t, b, h, word, dqm) = Put(m, t, b, h, word, dqm)
<1> DEFINE n == Put(m, t, b, h, word, dqm)
           k == Put(n, t, b, h, word, dqm)
           new == Merged(m[t][b][h], word, dqm)
<1>1. /\ n \in Memories
      /\ \A u \in Tags, c \in Banks, g \in Halves :
           n[u][c][g] = IF u = t /\ c = b /\ g = h THEN new ELSE m[u][c][g]
  BY PutIs
<1> HIDE DEF n
<1>2. /\ k \in Memories
      /\ \A u \in Tags, c \in Banks, g \in Halves :
           k[u][c][g] = IF u = t /\ c = b /\ g = h THEN Merged(n[t][b][h], word, dqm)
                        ELSE n[u][c][g]
  BY <1>1, PutIs
<1> HIDE DEF k
<1>3. Merged(n[t][b][h], word, dqm) = n[t][b][h]
  <2>1. m[t][b][h] \in Half /\ n[t][b][h] = new
    BY <1>1 DEF Memories
  <2>2. Merged(new, word, dqm) = new
    BY <2>1, MergedIs
  <2> HIDE DEF new
  <2> QED BY <2>1, <2>2
<1>4. \A u \in Tags, c \in Banks, g \in Halves : k[u][c][g] = n[u][c][g]
  BY <1>2, <1>3
<1>5. k = n
  BY <1>1, <1>2, <1>4, SameMemory
<1> QED BY <1>5 DEF k, n

\* Two halfwords may be written in either order.
LEMMA PutSwap ==
  ASSUME NEW m \in Memories, NEW t \in Tags, NEW b \in Banks,
         NEW g \in Halves, NEW v \in Half, NEW e \in SUBSET {1, 2},
         NEW h \in Halves, NEW w \in Half, NEW f \in SUBSET {1, 2}, g # h
  PROVE  Put(Put(m, t, b, g, v, e), t, b, h, w, f) = Put(Put(m, t, b, h, w, f), t, b, g, v, e)
<1> DEFINE x == Put(m, t, b, g, v, e)
           y == Put(m, t, b, h, w, f)
           xy == Put(x, t, b, h, w, f)
           yx == Put(y, t, b, g, v, e)
           atg == Merged(m[t][b][g], v, e)
           ath == Merged(m[t][b][h], w, f)
<1>1. /\ x \in Memories
      /\ \A u \in Tags, c \in Banks, k \in Halves :
           x[u][c][k] = IF u = t /\ c = b /\ k = g THEN atg ELSE m[u][c][k]
  BY PutIs
<1>2. /\ y \in Memories
      /\ \A u \in Tags, c \in Banks, k \in Halves :
           y[u][c][k] = IF u = t /\ c = b /\ k = h THEN ath ELSE m[u][c][k]
  BY PutIs
<1> HIDE DEF x, y
<1>3. /\ xy \in Memories
      /\ \A u \in Tags, c \in Banks, k \in Halves :
           xy[u][c][k] =
             IF u = t /\ c = b /\ k = h
               THEN Merged(x[t][b][h], w, f)
               ELSE x[u][c][k]
  BY <1>1, PutIs
<1>4. /\ yx \in Memories
      /\ \A u \in Tags, c \in Banks, k \in Halves :
           yx[u][c][k] =
             IF u = t /\ c = b /\ k = g
               THEN Merged(y[t][b][g], v, e)
               ELSE y[u][c][k]
  BY <1>2, PutIs
<1>5. x[t][b][h] = m[t][b][h] /\ y[t][b][g] = m[t][b][g]
  BY <1>1, <1>2
<1>6. /\ Merged(x[t][b][h], w, f) = ath
      /\ Merged(y[t][b][g], v, e) = atg
  BY <1>5
<1> HIDE DEF xy, yx, atg, ath
<1>7. \A u \in Tags, c \in Banks, k \in Halves : xy[u][c][k] = yx[u][c][k]
  BY <1>1, <1>2, <1>3, <1>4, <1>6
<1>8. xy = yx
  BY <1>3, <1>4, <1>7, SameMemory
<1> QED BY <1>8 DEF xy, yx, x, y

\* The two halfwords of the buffer: each is written once, in either order.
LEMMA BufferPuts ==
  ASSUME TypeOK, writecache_req, NEW m \in Memories
  PROVE  LET o == Buffered IN
         /\ First(m, o) \in Memories /\ Second(m, o) \in Memories
         /\ First(First(m, o), o) = First(m, o)
         /\ Second(Second(m, o), o) = Second(m, o)
         /\ First(Second(m, o), o) = Second(First(m, o), o)
         /\ \A u \in Tags, c \in Banks : c # o.bank => Second(First(m, o), o)[u][c] = m[u][c]
<1> DEFINE o == Buffered
<1>1. /\ o.tag \in Tags /\ o.bank \in Banks /\ o.half \in Halves
      /\ o.word0 \in Half /\ o.word1 \in Half
      /\ o.dqm0 \in SUBSET {1, 2} /\ o.dqm1 \in SUBSET {1, 2}
      /\ ((o.half + 1) % 8) \in Halves /\ (o.half + 1) % 8 # o.half
  BY BufferIs
<1> HIDE DEF o
<1>2. First(m, o) \in Memories
  BY <1>1, PutIs DEF First
<1>3. Second(m, o) \in Memories
  BY <1>1, PutIs DEF Second
<1>4. First(First(m, o), o) = First(m, o)
  BY <1>1, PutTwice DEF First
<1>5. Second(Second(m, o), o) = Second(m, o)
  BY <1>1, PutTwice DEF Second
<1>6. First(Second(m, o), o) = Second(First(m, o), o)
  BY <1>1, PutSwap DEF First, Second
<1>7. ASSUME NEW n \in Memories, NEW u \in Tags, NEW c \in Banks, c # o.bank
      PROVE  First(n, o)[u][c] = n[u][c] /\ Second(n, o)[u][c] = n[u][c]
  BY <1>1, <1>7 DEF First, Second, Put, Memories
<1>8. \A u \in Tags, c \in Banks : c # o.bank => Second(First(m, o), o)[u][c] = m[u][c]
  BY <1>2, <1>7
<1> QED BY <1>2, <1>3, <1>4, <1>5, <1>6, <1>8 DEF o

LEMMA LogicalType == TypeOK => Logical \in Memories
<1> SUFFICES ASSUME TypeOK PROVE Logical \in Memories
  OBVIOUS
<1>1. store \in Memories
  BY DEF TypeOK
<1>2. CASE writecache_req
  <2>1. First(store, Buffered) \in Memories
    BY <1>1, <1>2, BufferPuts
  <2>2. Second(First(store, Buffered), Buffered) \in Memories
    BY <1>2, <2>1, BufferPuts
  <2> QED BY <1>2, <2>2 DEF Logical
<1>3. CASE ~writecache_req
  BY <1>1, <1>3 DEF Logical
<1> QED BY <1>2, <1>3

\* What a slot does to the chip's memory: it stores a halfword of the write in
\* the buffer, the first and then the second.
LEMMA StoreNext ==
  ASSUME TypeOK, SlotsRight, NEW video, Chip(video)
  PROVE  /\ Writes # {} => /\ SecondWords = {}
                           /\ writecache_req /\ ~writecache_ack
                           /\ store' = First(store, Buffered)
         /\ SecondWords # {} => /\ Writes = {}
                                /\ writecache_req /\ ~writecache_ack
                                /\ First(store, Buffered) = store
                                /\ store' = Second(store, Buffered)
         /\ Writes = {} /\ SecondWords = {} => store' = store
<1>1. phase \in 0..15
  BY DEF TypeOK
<1>2. ASSUME NEW s \in Writes
      PROVE  /\ s \in Slots /\ slot[s] = "writecache" /\ Age(s) = 7 /\ phase \in {1, 9}
             /\ WriteUnderWay(s)
  <2>1. s \in Slots /\ At(s, 9) /\ slot[s] = "writecache"
    BY DEF Writes
  <2>2. Age(s) = 7 /\ phase \in {1, 9}
    BY <1>1, <2>1, SMT DEF Age, At, Slots
  <2> QED BY <2>1, <2>2 DEF SlotsRight
<1>3. ASSUME NEW s \in SecondWords
      PROVE  /\ s \in Slots /\ slot[s] = "writecache" /\ Age(s) = 8 /\ phase \in {2, 10}
             /\ WriteUnderWay(s)
  <2>1. s \in Slots /\ At(s, 10) /\ slot[s] = "writecache"
    BY DEF SecondWords
  <2>2. Age(s) = 8 /\ phase \in {2, 10}
    BY <1>1, <2>1, SMT DEF Age, At, Slots
  <2> QED BY <2>1, <2>2 DEF SlotsRight
<1>4. Writes = {} \/ SecondWords = {}
  BY <1>2, <1>3
<1>5. ASSUME NEW s \in Slots, WriteUnderWay(s)
      PROVE  /\ Stored(s, casaddr, Buffered.word0, Buffered.dqm0) = First(store, Buffered)
             /\ Stored(s, (casaddr + 1) % 8, Buffered.word1, Buffered.dqm1)
                  = Second(store, Buffered)
  <2>1. /\ bank[s] = Buffered.bank /\ open[bank[s]] = Buffered.tag /\ casaddr = Buffered.half
        /\ Buffered.tag \in Tags
    BY <1>5, BufferIs DEF WriteUnderWay
  <2> QED BY <2>1 DEF Stored, First, Second
<1>6. CASE Writes # {}
  <2>1. PICK s \in Writes : store' = Stored(s, casaddr, Buffered.word0, Buffered.dqm0)
    BY <1>6 DEF Chip
  <2> QED BY <1>2, <1>4, <1>5, <1>6, <2>1 DEF WriteUnderWay
<1>7. CASE SecondWords # {}
  <2>1. PICK s \in SecondWords :
          store' = Stored(s, (casaddr + 1) % 8, Buffered.word1, Buffered.dqm1)
    BY <1>4, <1>7 DEF Chip
  <2> QED BY <1>3, <1>4, <1>5, <1>7, <2>1 DEF WriteUnderWay
<1>8. CASE Writes = {} /\ SecondWords = {}
  BY <1>8 DEF Chip
<1> QED BY <1>6, <1>7, <1>8

\* Taken by the buffer, a write is written as far as the CPU can see.
LEMMA WrittenThrough ==
  ASSUME NEW m \in Memories, NEW c \in Requests, c.wr, NEW o,
         o.tag = c.tag, o.bank = c.bank,
         o.half = IF c.wrU2 THEN (c.half + 7) % 8 ELSE c.half,
         o.word0 = c.value[1], o.dqm0 = IF c.wrU2 THEN {1, 2} ELSE {},
         o.word1 = c.value[2], o.dqm1 = c.dqm
  PROVE  LET n == Second(First(m, o), o) IN
         /\ n = Mem!Written(m, c)
         /\ \A u \in Tags, d \in Banks, h \in Halves :
              ~(u = c.tag /\ d = c.bank /\ h \in {2 * Word(c), 2 * Word(c) + 1}) =>
                n[u][d][h] = m[u][d][h]
         /\ ~c.wrU2 => MemWord(n, c.tag, c.bank, Word(c)) = c.value
<1> DEFINE x == First(m, o)
           y == Second(x, o)
           z == Mem!Written(m, c)
           t == c.tag
           b == c.bank
           w == c.value[2]
<1>1. /\ t \in Tags /\ b \in Banks /\ c.half \in Halves /\ c.dqm \in SUBSET {1, 2}
      /\ c.value[1] \in Half /\ c.value[2] \in Half /\ c.wrU2 \in BOOLEAN
      /\ c.value = <<c.value[1], c.value[2]>>
      /\ ~c.wrU2 => c.half \in {0, 2, 4, 6} /\ c.dqm = {}
  BY RequestIs
<1>2. o.dqm0 \in SUBSET {1, 2}
  OBVIOUS
<1>3. /\ o.half \in Halves /\ ((o.half + 1) % 8) \in Halves /\ (o.half + 1) % 8 # o.half
      /\ c.wrU2 => (o.half + 1) % 8 = c.half
      /\ ~c.wrU2 => o.half = c.half /\ (o.half + 1) % 8 = c.half + 1
  <2>1. \A h \in Halves : /\ ((h + 7) % 8) \in Halves /\ (((h + 7) % 8) + 1) % 8 = h
                          /\ ((h + 1) % 8) \in Halves /\ (h + 1) % 8 # h
    BY SMT DEF Halves
  <2>2. \A h \in {0, 2, 4, 6} : (h + 1) % 8 = h + 1
    BY SMT
  <2>3. CASE c.wrU2
    BY <1>1, <2>1, <2>3
  <2>4. CASE ~c.wrU2
    BY <1>1, <2>1, <2>2, <2>4
  <2> QED BY <2>3, <2>4
<1>4. /\ ~c.wrU2 => 2 * Word(c) = c.half
      /\ c.half \in {2 * Word(c), 2 * Word(c) + 1}
  <2>1. /\ \A h \in {0, 2, 4, 6} : 2 * (h \div 2) = h
        /\ \A h \in Halves : h \in {2 * (h \div 2), 2 * (h \div 2) + 1}
    BY SMT DEF Halves
  <2> QED BY <1>1, <2>1 DEF Word
<1>5. /\ x \in Memories
      /\ \A u \in Tags, d \in Banks, h \in Halves :
           x[u][d][h] = IF u = t /\ d = b /\ h = o.half
                          THEN Merged(m[t][b][o.half], o.word0, o.dqm0) ELSE m[u][d][h]
  BY <1>1, <1>2, <1>3, PutIs DEF First
<1> HIDE DEF x
<1>6. /\ y \in Memories
      /\ \A u \in Tags, d \in Banks, h \in Halves :
           y[u][d][h] = IF u = t /\ d = b /\ h = (o.half + 1) % 8
                          THEN Merged(x[t][b][(o.half + 1) % 8], w, c.dqm) ELSE x[u][d][h]
  <2> DEFINE k == (o.half + 1) % 8
  <2>1. k \in Halves
    BY <1>3
  <2>2. y = Put(x, t, b, k, w, c.dqm)
    BY DEF Second
  <2> HIDE DEF k, y
  <2>3. /\ y \in Memories
        /\ \A u \in Tags, d \in Banks, h \in Halves :
             y[u][d][h] = IF u = t /\ d = b /\ h = k
                            THEN Merged(x[t][b][k], w, c.dqm) ELSE x[u][d][h]
    BY <1>1, <1>5, <2>1, <2>2, PutIs
  <2> QED BY <2>3 DEF k
<1> HIDE DEF y
<1>7. CASE c.wrU2
  <2>1. m[t][b][o.half] \in Half /\ m[t][b][c.half] \in Half
    BY <1>1, <1>3 DEF Memories
  <2>2. Merged(m[t][b][o.half], o.word0, o.dqm0) = m[t][b][o.half]
    BY <1>1, <1>7, <2>1, MergedIs
  <2>3. \A u \in Tags, d \in Banks, h \in Halves : x[u][d][h] = m[u][d][h]
    BY <1>5, <2>2
  <2>4. x = m
    BY <1>5, <2>3, SameMemory
  <2> DEFINE new == Merged(m[t][b][c.half], w, c.dqm)
  <2>5. z = [m EXCEPT ![t][b] = [m[t][b] EXCEPT ![c.half] = new]]
    <3>1. \A old : Mem!Merge(old, w, c.dqm) = Merged(old, w, c.dqm)
      BY DEF Mem!Merge, Merged
    <3> DEFINE line == [m[t][b] EXCEPT ![c.half] = Mem!Merge(m[t][b][c.half], w, c.dqm)]
    <3>2. z = [m EXCEPT ![t][b] = line]
      BY <1>7 DEF Mem!Written
    <3>3. line = [m[t][b] EXCEPT ![c.half] = new]
      BY <3>1
    <3> HIDE DEF line, z, new
    <3> QED BY <3>2, <3>3
  <2>6. \A u \in Tags, d \in Banks, h \in Halves :
           y[u][d][h] = IF u = t /\ d = b /\ h = c.half THEN new ELSE m[u][d][h]
    BY <1>3, <1>6, <1>7, <2>4
  <2>7. new \in Half
    BY <1>1, <2>1, MergedIs
  <2> HIDE DEF new, z
  <2>8. /\ z \in Memories
        /\ \A u \in Tags, d \in Banks, h \in Halves :
             z[u][d][h] = IF u = t /\ d = b /\ h = c.half THEN new ELSE m[u][d][h]
    BY <1>1, <2>5, <2>7 DEF Memories
  <2>9. y = z
    BY <1>6, <2>6, <2>8, SameMemory
  <2>10. \A u \in Tags, d \in Banks, h \in Halves :
           ~(u = t /\ d = b /\ h \in {2 * Word(c), 2 * Word(c) + 1}) => y[u][d][h] = m[u][d][h]
    BY <1>4, <2>6
  <2> QED BY <1>7, <2>9, <2>10 DEF x, y, z
<1>8. CASE ~c.wrU2
  <2>1. m[t][b][o.half] \in Half /\ x[t][b][(o.half + 1) % 8] \in Half
    BY <1>1, <1>3, <1>5 DEF Memories
  <2>2. /\ Merged(m[t][b][o.half], o.word0, o.dqm0) = c.value[1]
        /\ Merged(x[t][b][(o.half + 1) % 8], w, c.dqm) = w
    BY <1>1, <1>8, <2>1, MergedIs
  <2>3. c.half + 1 \in Halves /\ c.half + 1 # c.half
    BY <1>1, <1>8 DEF Halves
  <2>4. \A u \in Tags, d \in Banks, h \in Halves :
           y[u][d][h] = IF u = t /\ d = b /\ h = c.half + 1 THEN w
                        ELSE IF u = t /\ d = b /\ h = c.half THEN c.value[1]
                        ELSE m[u][d][h]
    BY <1>3, <1>5, <1>6, <1>8, <2>2
  <2> DEFINE line == [m[t][b] EXCEPT ![c.half] = c.value[1], ![c.half + 1] = w]
  <2>5. z = [m EXCEPT ![t][b] = line]
    BY <1>8 DEF Mem!Written
  <2>10. m[t][b] \in [Halves -> Half]
    BY <1>1 DEF Memories
  <2>11. /\ line \in [Halves -> Half]
         /\ \A h \in Halves : line[h] = IF h = c.half + 1 THEN w
                                        ELSE IF h = c.half THEN c.value[1] ELSE m[t][b][h]
    BY <1>1, <2>3, <2>10
  <2> HIDE DEF z, line
  <2>6. /\ z \in Memories
        /\ \A u \in Tags, d \in Banks, h \in Halves :
             z[u][d][h] = IF u = t /\ d = b /\ h = c.half + 1 THEN w
                          ELSE IF u = t /\ d = b /\ h = c.half THEN c.value[1]
                          ELSE m[u][d][h]
    BY <1>1, <2>5, <2>11 DEF Memories
  <2>7. y = z
    BY <1>6, <2>4, <2>6, SameMemory
  <2>8. MemWord(y, t, b, Word(c)) = c.value
    BY <1>1, <1>4, <1>8, <2>3, <2>4 DEF MemWord
  <2>9. \A u \in Tags, d \in Banks, h \in Halves :
          ~(u = t /\ d = b /\ h \in {2 * Word(c), 2 * Word(c) + 1}) => y[u][d][h] = m[u][d][h]
    BY <1>4, <1>8, <2>4
  <2> QED BY <2>7, <2>8, <2>9 DEF x, y, z
<1> QED BY <1>7, <1>8, <1>1

\* A write changes memory, for the CPU, when the buffer takes it, and nothing
\* that happens to it afterwards does.
LEMMA LogicalNext ==
  ASSUME TypeOK, SlotsRight, NEW video, Chip(video), WriteBuffer
  PROVE  /\ ~Takes => Logical' = Logical
         /\ Takes =>
              /\ Logical' = Mem!Written(Logical, op)
              /\ \A u \in Tags, c \in Banks, h \in Halves :
                   ~(u = op.tag /\ c = op.bank /\ h \in {2 * Word(op), 2 * Word(op) + 1}) =>
                     Logical'[u][c][h] = Logical[u][c][h]
              /\ ~op.wrU2 => MemWord(Logical', op.tag, op.bank, Word(op)) = op.value
         /\ writecache_req /\ ~writecache_ack => writecache' = writecache /\ Buffered' = Buffered
         /\ SecondWords # {} => Logical' = store'
<1>1. store \in Memories
  BY DEF TypeOK
<1>2. ASSUME writecache_req, ~writecache_ack
      PROVE  /\ writecache' = writecache /\ Buffered' = Buffered /\ ~Takes
             /\ Logical' = Second(First(store', Buffered), Buffered)
  <2>1. ~Takes
    BY <1>2 DEF Takes
  <2>2. writecache' = writecache
    BY <1>2, <2>1 DEF WriteBuffer
  <2> QED BY <1>2, <2>1, <2>2 DEF Buffered, Logical, writecache_req
<1>3. CASE writecache_req /\ ~writecache_ack
  <2> DEFINE o == Buffered
  <2>1. /\ First(store, o) \in Memories /\ Second(store, o) \in Memories
        /\ First(First(store, o), o) = First(store, o)
        /\ Second(Second(store, o), o) = Second(store, o)
        /\ First(Second(store, o), o) = Second(First(store, o), o)
    BY <1>1, <1>3, BufferPuts
  <2>2. Logical = Second(First(store, o), o)
    BY <1>3 DEF Logical
  <2>3. ~Takes /\ Logical' = Second(First(store', o), o)
    BY <1>2, <1>3
  <2> HIDE DEF o
  <2>4. CASE Writes # {}
    <3>1. store' = First(store, o) /\ SecondWords = {}
      BY <2>4, StoreNext DEF o
    <3> QED BY <1>2, <1>3, <2>1, <2>2, <2>3, <3>1
  <2>5. CASE SecondWords # {}
    <3>1. First(store, o) = store /\ store' = Second(store, o)
      BY <2>5, StoreNext DEF o
    <3> QED BY <1>2, <1>3, <2>1, <2>2, <2>3, <3>1
  <2>6. CASE Writes = {} /\ SecondWords = {}
    <3>1. store' = store
      BY <2>6, StoreNext
    <3> QED BY <1>2, <1>3, <2>2, <2>3, <2>6, <3>1
  <2> QED BY <2>4, <2>5, <2>6
<1>4. CASE ~(writecache_req /\ ~writecache_ack)
  <2>1. store' = store /\ SecondWords = {}
    BY <1>4, StoreNext
  <2>2. CASE writecache_req
    <3>1. writecache' = {} /\ ~Takes /\ Logical = store
      BY <1>4, <2>2 DEF SlotsRight, WriteBuffer, Takes
    <3>2. Logical' = store'
      BY <3>1 DEF Logical, writecache_req
    <3> QED BY <1>4, <2>1, <3>1, <3>2
  <2>3. CASE ~writecache_req
    <3>1. Logical = store
      BY <2>3 DEF Logical
    <3>2. CASE ~Takes
      <4>1. writecache' = {}
        BY <2>3, <3>2 DEF WriteBuffer, writecache_req
      <4>2. Logical' = store'
        BY <4>1 DEF Logical, writecache_req
      <4> QED BY <2>1, <2>3, <3>1, <3>2, <4>2
    <3>3. CASE Takes
      <4> DEFINE new == [tag |-> op.tag, bank |-> op.bank,
                half |-> IF op.wrU2 THEN (op.half + 7) % 8 ELSE op.half,
                word0 |-> op.value[1], dqm0 |-> IF op.wrU2 THEN {1, 2} ELSE {},
                word1 |-> op.value[2], dqm1 |-> op.dqm]
      <4>1. writecache' = {new}
        BY <3>3 DEF WriteBuffer
      <4>2. /\ new.tag = op.tag /\ new.bank = op.bank
            /\ new.half = (IF op.wrU2 THEN (op.half + 7) % 8 ELSE op.half)
            /\ new.word0 = op.value[1] /\ new.dqm0 = (IF op.wrU2 THEN {1, 2} ELSE {})
            /\ new.word1 = op.value[2] /\ new.dqm1 = op.dqm
        OBVIOUS
      <4>3. op \in Requests /\ op.wr
        BY <3>3 DEF TypeOK, Takes
      <4> HIDE DEF new
      <4>4. Buffered' = new /\ writecache_req'
        BY <4>1 DEF Buffered, writecache_req
      <4>5. Logical' = Second(First(store, new), new)
        BY <2>1, <4>4 DEF Logical
      <4>6. LET n == Second(First(store, new), new) IN
            /\ n = Mem!Written(store, op)
            /\ \A u \in Tags, c \in Banks, h \in Halves :
                 ~(u = op.tag /\ c = op.bank /\ h \in {2 * Word(op), 2 * Word(op) + 1}) =>
                   n[u][c][h] = store[u][c][h]
            /\ ~op.wrU2 => MemWord(n, op.tag, op.bank, Word(op)) = op.value
        BY <1>1, <4>2, <4>3, WrittenThrough
      <4> QED BY <2>1, <2>3, <3>1, <3>3, <4>5, <4>6
    <3> QED BY <3>2, <3>3
  <2> QED BY <2>2, <2>3
<1> QED BY <1>3, <1>4

-----------------------------------------------------------------------------
(* The slots.                                                              *)

\* Between the decisions a slot keeps what it was given.
LEMMA SlotKept ==
  ASSUME TypeOK, phase \in 0..15, NEW video, SlotControl(video), NEW s \in Slots
  PROVE  /\ Age(s) # 16 => slot'[s] = slot[s] /\ bank'[s] = bank[s]
         /\ Age(s) \notin {8, 16} => casaddr' = casaddr /\ ~Opens(video)
         /\ Age(s) = 16 => /\ slot'[s] = NewPort(video)
                           /\ Opens(video) => /\ bank'[s] = NewBank(video)
                                              /\ casaddr' = PortColumn(NewPort(video))
<1>1. At(s, 2) <=> Age(s) = 16
  BY AgeIs
<1>2. phase \in {2, 10} <=> Age(s) \in {8, 16}
  BY AgeIs
<1>3. phase \notin {2, 10} => ~Opens(video)
  BY DEF Opens, NewPort, Users
<1> QED BY <1>1, <1>2, <1>3 DEF SlotControl

\* The row of a slot stays open until its precharge or the end of its burst.
LEMMA RowKept ==
  ASSUME TypeOK, SlotsApart, NEW video, Chip(video), NEW s \in Slots,
         slot[s] \in Users, Opens(video) => NewBank(video) # bank[s],
         slot[s] = "writecache" => Age(s) # 10,
         slot[s] # "writecache" => Age(s) # 15
  PROVE  open'[bank[s]] = open[bank[s]]
<1>1. phase \in 0..15 /\ bank[s] \in Banks
  BY DEF TypeOK
<1>2. s \notin Precharges /\ s \notin BurstEnds
  <2>1. (At(s, 12) <=> Age(s) = 10) /\ (At(s, 1) <=> Age(s) = 15)
    BY <1>1, AgeIs
  <2> QED BY <2>1 DEF Precharges, BurstEnds
<1>3. ASSUME NEW r \in Precharges \cup BurstEnds PROVE bank[r] # bank[s]
  <2>1. r \in Slots /\ slot[r] \in Users /\ r # s
    BY <1>2 DEF Precharges, BurstEnds, Users
  <2> QED BY <2>1 DEF SlotsApart, Slots
<1> QED BY <1>1, <1>3 DEF Chip

\* A write that is under way stays so until both its halfwords are stored.
LEMMA WriteKept ==
  ASSUME TypeOK, Ranges, SlotsApart, SlotsRight,
         NEW video \in VideoInputs, phase' = (phase + 1) % 16,
         SlotControl(video), Chip(video), WriteBuffer,
         NEW s \in Slots, slot'[s] = "writecache", Age(s)' < 9
  PROVE  WriteUnderWay(s)'
<1>1. phase \in 0..15 /\ store \in Memories
  BY DEF TypeOK
<1>2. /\ Age(s) \in 1..16 /\ Other(s) \in Slots /\ Slots = {s, Other(s)}
      /\ Age(s) = 16 => Age(Other(s)) = 8
      /\ Age(s) < 8 => Age(Other(s)) # 8
  BY <1>1, AgeIs
<1>3. Age(s)' = IF Age(s) = 16 THEN 1 ELSE Age(s) + 1
  BY <1>1, AgeNext
<1>4. \A r \in SecondWords : r \in Slots /\ Age(r) = 8 /\ slot[r] = "writecache"
  BY <1>1, AgeIs DEF SecondWords
<1>5. Age(s) = 16 \/ Age(s) < 8
  BY <1>2, <1>3
<1>6. /\ writecache_req /\ ~writecache_ack
      /\ SecondWords = {}
      /\ bank'[s] = Buffered.bank
      /\ casaddr' = Buffered.half
      /\ open'[bank'[s]] = Buffered.tag
  <2>1. CASE Age(s) = 16
    <3>1. At(s, 2)
      BY <1>1, <2>1, AgeIs
    <3>2. NewPort(video) = "writecache" /\ Opens(video)
      BY <2>1, <1>1, SlotKept DEF Opens, Users
    <3>3. WriteMayUse(Other(s))
      BY <3>1, <3>2, PortIs
    <3>4. writecache_req /\ slot[Other(s)] # "writecache"
      BY <3>3 DEF WriteMayUse
    <3>5. SecondWords = {}
      BY <1>2, <1>4, <2>1, <3>4
    <3>6. ~writecache_ack
      <4>1. phase \in {2, 10}
        BY <1>1, <2>1, AgeIs
      <4> QED BY <4>1 DEF SlotsRight
    <3>7. bank'[s] = NewBank(video) /\ NewBank(video) = Buffered.bank
          /\ casaddr' = Buffered.half
      BY <1>1, <2>1, <3>2, SlotKept DEF NewBank, PortBank, PortColumn
    <3>8. open'[NewBank(video)] = Buffered.tag
      <4>1. NewBank(video) \in Banks
        BY <3>2, PortFits
      <4>2. PortRow(NewPort(video)) = Buffered.tag
        BY <3>2 DEF PortRow
      <4> QED BY <3>2, <4>1, <4>2 DEF Chip
    <3> QED BY <3>4, <3>5, <3>6, <3>7, <3>8
  <2>2. CASE Age(s) < 8
    <3>1. slot[s] = "writecache" /\ bank'[s] = bank[s] /\ casaddr' = casaddr /\ ~Opens(video)
      BY <1>1, <1>2, <2>2, SlotKept
    <3>2. WriteUnderWay(s)
      BY <2>2, <1>2, <3>1 DEF SlotsRight
    <3>3. SecondWords = {}
      BY <1>2, <1>4, <2>2
    <3>4. open'[bank[s]] = open[bank[s]]
      BY <2>2, <1>2, <3>1, RowKept DEF Users
    <3> QED BY <3>1, <3>2, <3>3, <3>4 DEF WriteUnderWay
  <2> QED BY <1>5, <2>1, <2>2
<1>7. /\ writecache' = writecache /\ Buffered' = Buffered /\ writecache_req' /\ ~writecache_ack'
  <2>1. writecache' = writecache /\ Buffered' = Buffered
    BY <1>6, LogicalNext
  <2> QED BY <1>6, <2>1 DEF WriteBuffer, writecache_req
<1>8. ASSUME Age(s)' = 8 PROVE First(store', Buffered) = store'
  <2>1. Age(s) = 7
    BY <1>2, <1>3, <1>8
  <2>2. slot[s] = "writecache" /\ At(s, 9)
    BY <1>1, <2>1, SlotKept, AgeIs
  <2>3. s \in Writes
    BY <2>2 DEF Writes
  <2>4. store' = First(store, Buffered)
    BY <2>3, StoreNext
  <2>5. First(First(store, Buffered), Buffered) = First(store, Buffered)
    BY <1>1, <1>6, BufferPuts
  <2> QED BY <2>4, <2>5
<1> QED BY <1>6, <1>7, <1>8 DEF WriteUnderWay

\* The buffer is told that its write is done when the chip has all of it.
LEMMA AckKept ==
  ASSUME TypeOK, SlotsRight, NEW video, phase' = (phase + 1) % 16,
         Chip(video), WriteBuffer, writecache_ack'
  PROVE  writecache_req' /\ Logical' = store' /\ phase' \in {3, 11}
<1>1. SecondWords # {}
  BY DEF WriteBuffer
<1>2. writecache_req /\ ~writecache_ack
  BY <1>1, StoreNext
<1>3. writecache' = writecache /\ Logical' = store'
  BY <1>1, <1>2, LogicalNext
<1>4. phase \in {2, 10}
  <2>1. phase \in 0..15
    BY DEF TypeOK
  <2>2. PICK s \in Slots : At(s, 10)
    BY <1>1 DEF SecondWords
  <2>3. Age(s) = 8
    BY <2>1, <2>2, AgeIs
  <2> QED BY <2>1, <2>3, AgeIs
<1> QED BY <1>2, <1>3, <1>4 DEF writecache_req

-----------------------------------------------------------------------------
(* The handshakes of the CPU, the buffer and the cache.                    *)

LEMMA CpuMoves ==
  ASSUME CpuEdge
  PROVE  /\ req /\ dtack1 => req' = req /\ op' = op /\ result' = <<>>
         /\ req /\ ~dtack1 => /\ req' = FALSE /\ op' = op
                              /\ result' = IF op.wr THEN <<>> ELSE <<data_to_cpu>>
         /\ ~req => result' = <<>>
  BY DEF CpuEdge, ports

\* What each state of the cache leads to.
LEMMA CacheMoves ==
  ASSUME CacheTypeOK, req \in BOOLEAN, NEW fill \in BOOLEAN, NEW half, CacheEdge(fill, half)
  PROVE  /\ state = "WAITING" => /\ state' = IF ~req THEN "WAITING"
                                              ELSE IF op.wr THEN "WRITE1" ELSE "WAITRD"
                                 /\ cpu_ack' = FALSE /\ data_wren' = {} /\ tag_wren' = {}
         /\ state = "WRITE1" => /\ state' = "WRITE2" /\ cpu_ack' = FALSE
                                /\ data_wren' = {w \in Ways : tag_hit(w)}
                                /\ 2 \notin tag_wren'
                                /\ 1 \in tag_wren' /\ tag_mru1' => tag_hit(1)
                                /\ <<data_ports_w_hi', data_ports_w'>> =
                                     IF op.wrU2 THEN Blank ELSE <<op.value[1], op.value[2]>>
         /\ state = "WRITE2" => /\ state' = IF req THEN "WRITE2" ELSE "WAITING"
                                /\ cpu_ack' = FALSE /\ data_wren' = {} /\ tag_wren' = {}
         /\ state = "WAITRD" => \/ /\ state' = "PAUSE1" /\ cpu_ack' = TRUE /\ busy' = TRUE
                                   /\ Hit(1) \/ Hit(2)
                                   /\ data_wren' = {} /\ tag_wren' = {1}
                                   /\ tag_mru1' => tag_hit(1)
                                \/ /\ state' = "WAITFILL" /\ cpu_ack' = FALSE /\ busy' = TRUE
                                   /\ data_wren' = {} /\ tag_wren' = Ways
                                   /\ latched_cpuaddr' = op.bank
         /\ state = "PAUSE1" => /\ state' = IF req THEN "PAUSE1" ELSE "WAITING"
                                /\ cpu_ack' = req /\ busy' = TRUE
                                /\ data_wren' = {} /\ tag_wren' = {}
         /\ state = "WAITFILL" => /\ busy' = TRUE /\ cpu_ack' = FALSE
                                  /\ readword' = Word(op) /\ data_wren' = {}
                                  /\ tag_wren' = {} /\ tag_mru1' = tag_mru1
                                  /\ latched_cpuaddr' = latched_cpuaddr
                                  /\ ~fill => state' = "WAITFILL"
                                  /\ fill => /\ state' = "FILL" /\ beat' = 2
                                             /\ firstword'[1] = half
                                             /\ data_ports_w_hi' = half
         /\ state = "FILL" => /\ busy' = TRUE /\ tag_wren' = {} /\ tag_mru1' = tag_mru1
                              /\ cpu_ack' <=> (beat = 2 \/ (beat \in {3, 4} /\ req))
                              /\ beat = 9 => state' = "WAITING" /\ data_wren' = {}
                              /\ beat # 9 => /\ state' = "FILL" /\ beat' = beat + 1
                                             /\ latched_cpuaddr' = latched_cpuaddr
         /\ RamWrites
<1>1. RamWrites
  BY DEF CacheEdge
<1>2. CASE state = "WAITING"
  <2>1. WAITING
    BY <1>2 DEF CacheEdge, WRITE1, WRITE2, WAITRD_Hit, WAITRD_Miss, PAUSE1, WAITFILL, FILL
  <2> QED BY <1>1, <1>2, <2>1 DEF WAITING, NoTagWrite, NoDataWrite
<1>3. CASE state = "WRITE1"
  <2>1. WRITE1
    BY <1>3 DEF CacheEdge, WAITING, WRITE2, WAITRD_Hit, WAITRD_Miss, PAUSE1, WAITFILL, FILL
  <2>2. 1 \in tag_wren' /\ tag_mru1' => tag_hit(1)
    BY <2>1 DEF WRITE1, Ways, CacheTypeOK
  <2> QED BY <1>1, <1>3, <2>1, <2>2 DEF WRITE1, Blank
<1>4. CASE state = "WRITE2"
  <2>1. WRITE2
    BY <1>4 DEF CacheEdge, WAITING, WRITE1, WAITRD_Hit, WAITRD_Miss, PAUSE1, WAITFILL, FILL
  <2> QED BY <1>1, <1>4, <2>1 DEF WRITE2, NoTagWrite, NoDataWrite
<1>5. CASE state = "WAITRD"
  <2>1. WAITRD_Hit \/ WAITRD_Miss
    BY <1>5 DEF CacheEdge, WAITING, WRITE1, WRITE2, PAUSE1, WAITFILL, FILL
  <2>2. WAITRD_Hit => (tag_mru1' => tag_hit(1))
    BY DEF WAITRD_Hit, Hit
  <2> QED BY <1>1, <1>5, <2>1, <2>2 DEF WAITRD_Hit, WAITRD_Miss, NoDataWrite, Ways
<1>6. CASE state = "PAUSE1"
  <2>1. PAUSE1
    BY <1>6 DEF CacheEdge, WAITING, WRITE1, WRITE2, WAITRD_Hit, WAITRD_Miss, WAITFILL, FILL
  <2> QED BY <1>1, <1>6, <2>1 DEF PAUSE1, NoTagWrite, NoDataWrite
<1>7. CASE state = "WAITFILL"
  <2>1. WAITFILL(fill, half)
    BY <1>7 DEF CacheEdge, WAITING, WRITE1, WRITE2, WAITRD_Hit, WAITRD_Miss, PAUSE1, FILL
  <2> QED BY <1>1, <1>7, <2>1 DEF WAITFILL, NoTagWrite
<1>8. CASE state = "FILL"
  <2>1. FILL(half)
    BY <1>8 DEF CacheEdge, WAITING, WRITE1, WRITE2, WAITRD_Hit, WAITRD_Miss, PAUSE1, WAITFILL
  <2>2. CASE beat = 9
    BY <1>1, <1>8, <2>1, <2>2 DEF FILL, NoTagWrite, NoDataWrite, AckBeats
  <2>3. CASE beat # 9
    BY <1>1, <1>8, <2>1, <2>3 DEF FILL, NoTagWrite, AckBeats
  <2> QED BY <2>2, <2>3
<1> QED BY <1>2, <1>3, <1>4, <1>5, <1>6, <1>7, <1>8 DEF CacheTypeOK

\* The tags change in one place: where a line is about to be filled.
LEMMA TagsMove ==
  ASSUME CacheTypeOK, TagsRight, RamWrites, op.bank \in Banks
  PROVE  /\ state # "WAITFILL" => tag' = tag
         /\ state = "WAITFILL" =>
              /\ tag'[Filled] = [tag[Filled] EXCEPT ![op.bank] = op.tag]
              /\ \A w \in Ways : w # Filled => tag'[w] = tag[w]
              /\ tag_wren = {} => tag' = tag
<1>1. /\ tag \in [Ways -> [Banks -> Tags]] /\ tag_wren \subseteq Ways /\ tag_mru1 \in BOOLEAN
      /\ tag = [w \in Ways |-> tag[w]]
  BY DEF CacheTypeOK
<1>2. tag' = [w \in Ways |->
                IF w \in tag_wren /\ tag_mru1 = (w = 1)
                  THEN [tag[w] EXCEPT ![op.bank] = op.tag] ELSE tag[w]]
  BY DEF RamWrites
<1>3. CASE state # "WAITFILL"
  <2>1. \A w \in Ways : tag'[w] = tag[w]
    <3>1. ASSUME NEW w \in Ways, w \in tag_wren, tag_mru1 = (w = 1)
          PROVE  [tag[w] EXCEPT ![op.bank] = op.tag] = tag[w]
      <4>1. w = 1 /\ tag_mru1 /\ tag_hit(1)
        BY <1>1, <1>3, <3>1 DEF TagsRight, Ways, CacheTypeOK
      <4> QED BY <1>1, <3>1, <4>1 DEF tag_hit
    <3> QED BY <1>2, <3>1
  <2> QED BY <1>1, <1>2, <1>3, <2>1
<1>4. CASE state = "WAITFILL"
  <2>1. \A w \in Ways : tag_mru1 = (w = 1) <=> w = Filled
    BY <1>1 DEF Ways, Filled
  <2>2. Filled \in Ways
    BY DEF Filled, Ways
  <2>3. \A w \in Ways : w # Filled => tag'[w] = tag[w]
    BY <1>2, <2>1
  <2>4. tag_wren = {} => tag' = tag
    <3>1. tag_wren = {} => \A w \in Ways : tag'[w] = tag[w]
      BY <1>2
    <3> QED BY <1>1, <1>2, <3>1
  <2>5. tag'[Filled] = [tag[Filled] EXCEPT ![op.bank] = op.tag]
    <3>1. CASE tag_wren = Ways
      BY <1>2, <2>1, <2>2, <3>1
    <3>2. CASE tag_wren = {} /\ tag_hit(Filled)
      <4>1. [tag[Filled] EXCEPT ![op.bank] = op.tag] = tag[Filled]
        BY <1>1, <2>2, <3>2 DEF tag_hit
      <4> QED BY <2>4, <3>2, <4>1
    <3> QED BY <1>4, <3>1, <3>2 DEF TagsRight
  <2> QED BY <1>4, <2>3, <2>4, <2>5
<1> QED BY <1>3, <1>4

\* The cells change where a write or a fill has asked for it.
LEMMA DataMoves ==
  ASSUME CacheTypeOK, RamWrites
  PROVE  /\ data_wren = {} => data' = data
         /\ \A w \in Ways : w \notin data_wren => data'[w] = data[w]
         /\ \A w \in Ways, b \in Banks, k \in Words :
              w \in data_wren /\ DataLine \in Banks /\ DataWord \in Words =>
                data'[w][b][k] = IF b = DataLine /\ k = DataWord
                                   THEN <<data_ports_w_hi, data_ports_w>> ELSE data[w][b][k]
<1>1. data \in [Ways -> [Banks -> [Words -> Entries]]]
  BY DEF CacheTypeOK, Entries
<1>2. data' = [w \in Ways |->
                IF w \in data_wren
                  THEN [data[w] EXCEPT ![DataLine][DataWord] =
                          <<data_ports_w_hi, data_ports_w>>]
                  ELSE data[w]]
  BY DEF RamWrites
<1>3. data_wren = {} => data' = data
  BY <1>1, <1>2
<1>4. \A w \in Ways : w \notin data_wren => data'[w] = data[w]
  BY <1>2
<1>5. ASSUME NEW w \in Ways, w \in data_wren, DataLine \in Banks, DataWord \in Words
      PROVE  \A b \in Banks, k \in Words :
                data'[w][b][k] = IF b = DataLine /\ k = DataWord
                                   THEN <<data_ports_w_hi, data_ports_w>> ELSE data[w][b][k]
  <2>1. data[w] \in [Banks -> [Words -> Entries]]
    BY <1>1
  <2>2. data'[w] = [data[w] EXCEPT ![DataLine][DataWord] = <<data_ports_w_hi, data_ports_w>>]
    BY <1>2, <1>5
  <2> QED BY <1>5, <2>1, <2>2
<1> QED BY <1>3, <1>4, <1>5

LEMMA HandshakeKept ==
  ASSUME TypeOK, Handshake, TagsRight, FillRight,
         CpuEdge, WriteBuffer, NEW fill \in BOOLEAN, NEW half, CacheEdge(fill, half)
  PROVE  Handshake'
<1>1. /\ CacheTypeOK /\ req \in BOOLEAN /\ op \in Requests /\ op.wr \in BOOLEAN
      /\ writecache_dtack \in BOOLEAN /\ cpu_ack \in BOOLEAN /\ busy \in BOOLEAN
      /\ op.bank \in Banks
      /\ state \in {"WAITING", "WRITE1", "WRITE2", "WAITRD", "PAUSE1", "WAITFILL", "FILL"}
      /\ beat \in 2..9
  BY RequestIs DEF TypeOK, CacheTypeOK
<1>2. /\ busy \/ ~req \/ ~op.wr => writecache_dtack' = TRUE
      /\ writecache_dtack' \in BOOLEAN
  BY DEF WriteBuffer, Takes
<1>3. CASE state = "WAITING"
  <2>1. writecache_dtack /\ ~cpu_ack
    BY <1>3 DEF Handshake
  <2>2. req => req' /\ op' = op
    BY <2>1, CpuMoves DEF dtack1
  <2> QED BY <1>1, <1>2, <1>3, <2>2, CacheMoves DEF Handshake
<1>4. CASE state = "WRITE1"
  <2>1. req /\ op.wr
    BY <1>4 DEF Handshake
  <2>2. op' = op
    BY <1>1, <2>1, CpuMoves
  <2> QED BY <1>1, <1>4, <2>1, <2>2, CacheMoves DEF Handshake
<1>5. CASE state = "WRITE2"
  <2>1. op.wr
    BY <1>5 DEF Handshake
  <2>2. req => op' = op
    BY <1>1, CpuMoves
  <2> QED BY <1>1, <1>2, <1>5, <2>1, <2>2, CacheMoves DEF Handshake
<1>6. CASE state = "WAITRD"
  <2>1. req /\ ~op.wr /\ writecache_dtack /\ ~cpu_ack
    BY <1>6 DEF Handshake
  <2>2. req' /\ op' = op
    BY <2>1, CpuMoves DEF dtack1
  <2>3. tag' = tag /\ data' = data
    <3>1. data_wren = {} /\ RamWrites
      BY <1>1, <1>6, CacheMoves DEF FillRight
    <3> QED BY <1>1, <1>6, <3>1, TagsMove, DataMoves
  <2>4. Hit(1)' = Hit(1) /\ Hit(2)' = Hit(2)
    BY <2>2, <2>3 DEF Hit, tag_hit, data_valid, Entry, Word
  <2>5. CASE state' = "PAUSE1"
    BY <1>1, <1>2, <1>6, <2>1, <2>2, <2>4, <2>5, CacheMoves DEF Handshake
  <2>6. CASE state' = "WAITFILL"
    BY <1>1, <1>2, <1>6, <2>1, <2>2, <2>6, CacheMoves DEF Handshake
  <2> QED BY <1>1, <1>6, <2>5, <2>6, CacheMoves
<1>7. CASE state = "PAUSE1"
  <2>1. cpu_ack /\ busy
    BY <1>7 DEF Handshake
  <2>2. req => ~req'
    BY <2>1, CpuMoves DEF dtack1
  <2> QED BY <1>1, <1>2, <1>7, <2>1, <2>2, CacheMoves DEF Handshake
<1>8. CASE state = "WAITFILL"
  <2>1. req /\ ~op.wr /\ writecache_dtack /\ ~cpu_ack
    BY <1>8 DEF Handshake
  <2>2. req' /\ op' = op
    BY <2>1, CpuMoves DEF dtack1
  <2>3. /\ ~cpu_ack' /\ busy' /\ writecache_dtack'
        /\ fill => state' = "FILL" /\ beat' = 2
        /\ ~fill => state' = "WAITFILL"
    BY <1>1, <1>2, <1>8, <2>1, CacheMoves
  <2>4. CASE fill
    BY <2>1, <2>2, <2>3, <2>4 DEF Handshake
  <2>5. CASE ~fill
    BY <2>1, <2>2, <2>3, <2>5 DEF Handshake
  <2> QED BY <2>4, <2>5
<1>9. CASE state = "FILL"
  <2>1. busy /\ writecache_dtack
    BY <1>9 DEF Handshake
  <2>2. /\ writecache_dtack' = TRUE /\ busy' = TRUE
        /\ cpu_ack' <=> (beat = 2 \/ (beat \in {3, 4} /\ req))
        /\ beat = 9 => state' = "WAITING"
        /\ beat # 9 => state' = "FILL" /\ beat' = beat + 1
    BY <1>1, <1>2, <1>9, <2>1, CacheMoves
  <2>3. CASE beat = 2
    <3>1. req /\ ~op.wr /\ ~cpu_ack
      BY <1>9, <2>3 DEF Handshake
    <3>2. req' /\ op' = op
      BY <2>1, <3>1, CpuMoves DEF dtack1
    <3>3. state' = "FILL" /\ beat' = 3 /\ cpu_ack'
      BY <2>2, <2>3
    <3> QED BY <2>2, <3>1, <3>2, <3>3 DEF Handshake
  <2>4. CASE beat = 3
    <3>1. req /\ ~op.wr /\ cpu_ack
      BY <1>9, <2>4 DEF Handshake
    <3>2. ~req'
      BY <2>1, <3>1, CpuMoves DEF dtack1
    <3>3. state' = "FILL" /\ beat' = 4 /\ cpu_ack'
      BY <2>2, <2>4, <3>1
    <3> QED BY <2>2, <3>2, <3>3 DEF Handshake
  <2>5. CASE beat \in 4..8
    <3>1. beat = 4 => ~req
      BY <1>9 DEF Handshake
    <3>2. state' = "FILL" /\ beat' \in 5..9 /\ ~cpu_ack'
      BY <2>2, <2>5, <3>1
    <3> QED BY <2>2, <3>2 DEF Handshake
  <2>6. CASE beat = 9
    <3>1. state' = "WAITING" /\ ~cpu_ack'
      BY <2>2, <2>6
    <3> QED BY <2>2, <3>1 DEF Handshake
  <2> QED BY <1>1, <2>3, <2>4, <2>5, <2>6
<1> QED BY <1>1, <1>3, <1>4, <1>5, <1>6, <1>7, <1>8, <1>9

\* A fill takes a halfword per cycle: the lower half of a word in the even
\* beats, with which the word is written, the upper half of the next in the odd.
LEMMA FillMoves ==
  ASSUME CacheTypeOK, req \in BOOLEAN, NEW fill \in BOOLEAN, NEW half, CacheEdge(fill, half),
         state = "FILL", beat # 9
  PROVE  /\ state' = "FILL" /\ beat' = beat + 1
         /\ readword' = Pending /\ latched_cpuaddr' = latched_cpuaddr
         /\ Filled' = Filled /\ FillWay' = FillWay /\ FillWay = {Filled}
         /\ beat \in {2, 4, 6, 8} => /\ data_wren' = FillWay /\ data_ports_w' = half
                                     /\ data_ports_w_hi' = data_ports_w_hi
                                     /\ Pending' = Pending
         /\ beat \in {3, 5, 7} => /\ data_wren' = {} /\ data_ports_w_hi' = half
                                  /\ Pending = readword /\ Pending' = (Pending + 1) % 4
         /\ beat = 2 => firstword' = <<firstword[1], half>>
<1>1. FILL(half)
  BY DEF CacheEdge, WAITING, WRITE1, WRITE2, WAITRD_Hit, WAITRD_Miss, PAUSE1, WAITFILL
<1>2. /\ state' = "FILL" /\ beat' = beat + 1 /\ latched_cpuaddr' = latched_cpuaddr
      /\ tag_mru1' = tag_mru1
      /\ readword' = IF beat \in {4, 6, 8} THEN (readword + 1) % 4 ELSE readword
  BY <1>1 DEF FILL, NoTagWrite
<1>3. beat \in {2, 4, 6, 8} => beat % 2 = 0 /\ beat' \notin {4, 6, 8}
  BY <1>2
<1>4. beat \in {3, 5, 7} => beat % 2 # 0 /\ beat' \in {4, 6, 8} /\ beat \notin {4, 6, 8}
  BY <1>2
<1>5. readword' = Pending
  BY <1>2 DEF Pending
<1>6. Filled' = Filled /\ FillWay' = FillWay /\ FillWay = {Filled}
  BY <1>2 DEF Filled, FillWay
<1>7. beat \in {2, 4, 6, 8} => /\ data_wren' = FillWay /\ data_ports_w' = half
                               /\ data_ports_w_hi' = data_ports_w_hi
  BY <1>1, <1>3 DEF FILL
<1>8. beat \in {3, 5, 7} => data_wren' = {} /\ data_ports_w_hi' = half
  BY <1>1, <1>4 DEF FILL
<1>9. beat \in {2, 4, 6, 8} => Pending' = Pending
  BY <1>3, <1>5 DEF Pending
<1>10. beat \in {3, 5, 7} => Pending = readword /\ Pending' = (Pending + 1) % 4
  BY <1>4, <1>5 DEF Pending
<1>11. beat = 2 => firstword' = <<firstword[1], half>>
  BY <1>1 DEF FILL
<1> QED BY <1>2, <1>5, <1>6, <1>7, <1>8, <1>9, <1>10, <1>11

LEMMA TagsKept ==
  ASSUME TypeOK, Handshake, TagsRight, FillRight,
         CpuEdge, NEW fill \in BOOLEAN, NEW half, CacheEdge(fill, half)
  PROVE  TagsRight'
<1>1. /\ CacheTypeOK /\ req \in BOOLEAN /\ op \in Requests /\ op.bank \in Banks
      /\ state \in {"WAITING", "WRITE1", "WRITE2", "WAITRD", "PAUSE1", "WAITFILL", "FILL"}
      /\ beat \in 2..9 /\ tag \in [Ways -> [Banks -> Tags]]
  BY RequestIs DEF TypeOK, CacheTypeOK
<1>2. RamWrites
  BY <1>1, CacheMoves
<1>3. state # "WAITFILL" => tag' = tag
  BY <1>1, <1>2, TagsMove
<1>4. CASE state \in {"WAITING", "WRITE2", "PAUSE1"}
  <2>1. tag_wren' = {} /\ state' \notin {"WAITFILL", "FILL"}
    BY <1>1, <1>4, CacheMoves
  <2> QED BY <2>1 DEF TagsRight
<1>5. CASE state = "WRITE1"
  <2>1. op' = op
    BY <1>1, <1>5, CpuMoves DEF Handshake
  <2>2. state' = "WRITE2" /\ 2 \notin tag_wren' /\ (1 \in tag_wren' /\ tag_mru1' => tag_hit(1))
    BY <1>1, <1>5, CacheMoves
  <2>3. tag_hit(1)' <=> tag_hit(1)
    BY <1>3, <1>5, <2>1 DEF tag_hit
  <2> QED BY <2>2, <2>3 DEF TagsRight
<1>6. CASE state = "WAITRD"
  <2>1. op' = op
    BY <1>1, <1>6, CpuMoves DEF Handshake
  <2>2. \/ /\ state' = "PAUSE1" /\ tag_wren' = {1} /\ (tag_mru1' => tag_hit(1))
        \/ /\ state' = "WAITFILL" /\ tag_wren' = Ways /\ latched_cpuaddr' = op.bank
    BY <1>1, <1>6, CacheMoves
  <2>3. tag_hit(1)' <=> tag_hit(1)
    BY <1>3, <1>6, <2>1 DEF tag_hit
  <2>4. CASE state' = "PAUSE1"
    BY <2>2, <2>3, <2>4 DEF TagsRight
  <2>5. CASE state' = "WAITFILL"
    BY <2>1, <2>2, <2>5 DEF TagsRight
  <2> QED BY <2>2, <2>4, <2>5
<1>7. CASE state = "WAITFILL"
  <2>1. op' = op
    BY <1>1, <1>7, CpuMoves DEF Handshake, dtack1
  <2>2. latched_cpuaddr = op.bank
    BY <1>7 DEF TagsRight
  <2>3. /\ state' \in {"WAITFILL", "FILL"} /\ tag_wren' = {} /\ tag_mru1' = tag_mru1
        /\ latched_cpuaddr' = latched_cpuaddr /\ readword' = Word(op)
    BY <1>1, <1>7, CacheMoves
  <2>4. Filled' = Filled /\ Filled \in Ways
    BY <2>3 DEF Filled, Ways
  <2>5. tag'[Filled] = [tag[Filled] EXCEPT ![op.bank] = op.tag]
    BY <1>1, <1>2, <1>7, TagsMove
  <2>6. tag'[Filled][op.bank] = op.tag
    BY <1>1, <2>4, <2>5
  <2>7. tag_hit(Filled)'
    BY <2>1, <2>4, <2>6 DEF tag_hit
  <2>8. Word(op)' = Word(op)
    BY <2>1 DEF Word
  <2> QED BY <2>1, <2>2, <2>3, <2>7, <2>8 DEF TagsRight
<1>8. CASE state = "FILL" /\ beat = 9
  <2>1. state' = "WAITING" /\ tag_wren' = {}
    BY <1>1, <1>8, CacheMoves
  <2> QED BY <2>1 DEF TagsRight
<1>9. CASE state = "FILL" /\ beat # 9
  <2>1. state' = "FILL" /\ beat' = beat + 1 /\ tag_wren' = {}
    BY <1>1, <1>9, CacheMoves
  <2>2. ASSUME beat' < 4
        PROVE  latched_cpuaddr' = op'.bank /\ tag_hit(Filled)' /\ readword' = Word(op)'
    <3>1. beat = 2
      BY <1>1, <2>1, <2>2
    <3>2. op' = op
      BY <1>1, <1>9, <3>1, CpuMoves DEF Handshake, dtack1
    <3>3. latched_cpuaddr' = latched_cpuaddr /\ readword' = Pending /\ Filled' = Filled
      BY <1>1, <1>9, FillMoves
    <3>4. Pending = readword
      BY <3>1 DEF Pending
    <3>5. latched_cpuaddr = op.bank /\ tag_hit(Filled) /\ readword = Word(op)
      BY <1>9, <3>1 DEF TagsRight
    <3>6. tag' = tag
      BY <1>3, <1>9
    <3> QED BY <3>2, <3>3, <3>4, <3>5, <3>6 DEF tag_hit, Word
  <2> QED BY <2>1, <2>2 DEF TagsRight
<1> QED BY <1>1, <1>4, <1>5, <1>6, <1>7, <1>8, <1>9

-----------------------------------------------------------------------------
(* The burst of a fill.                                                    *)

\* Which halfword of the line comes in which cycle.
LEMMA BurstIndex ==
  ASSUME NEW p \in Words
  PROVE  /\ 2 * p \in Halves /\ (2 * p + 1) \in Halves
         /\ ((2 * p + 8) % 8) = 2 * p
         /\ \A e \in {2, 4, 6, 8} :
              ((2 * ((p + 4 - ((e - 2) \div 2)) % 4) + (e + 7)) % 8) = 2 * p + 1
         /\ \A e \in {3, 5, 7} :
              ((2 * ((p + 4 - ((e - 2) \div 2)) % 4) + (e + 7)) % 8) = 2 * ((p + 1) % 4)
<1>1. p = 0 \/ p = 1 \/ p = 2 \/ p = 3
  BY DEF Words
<1> QED BY <1>1, SMT DEF Halves

\* What comes in from the chip while a slot reads for the cache is the line's
\* next halfword, as the CPU is to see it.
LEMMA BurstBrings ==
  ASSUME TypeOK, SlotsRight, NEW s \in Slots, slot[s] = "port1", Age(s) \in 8..15
  PROVE  /\ readcache_fill = TRUE
         /\ sdata_reg = Logical[tag[Filled][bank[s]]][bank[s]][(column[s] + Age(s)) % 8]
<1>1. phase \in 0..15 /\ store \in Memories /\ bank[s] \in Banks /\ column[s] \in Halves
  BY DEF TypeOK
<1>2. Filling = s
  BY <1>1, AgeIs
<1>3. readcache_fill = TRUE
  BY <1>2 DEF readcache_fill
<1> DEFINE b == bank[s]
           t == tag[Filled][b]
<1>4. t \in Tags
  <2>1. tag \in [Ways -> [Banks -> Tags]] /\ Filled \in Ways
    BY DEF TypeOK, CacheTypeOK, Filled, Ways
  <2> QED BY <1>1, <2>1
<1>5. open[b] = t /\ (writecache_req => Buffered.bank # b)
  BY DEF SlotsRight, ReadUnderWay
<1>6. sdata_reg = store[t][b][(column[s] + phase + 6) % 8]
  BY <1>2, <1>3, <1>4, <1>5, SdataType
<1>7. (column[s] + phase + 6) % 8 = (column[s] + Age(s)) % 8
  <2>1. Age(s) \in {phase + 14, phase - 2, phase + 6, phase - 10}
    BY <1>1, SMT DEF Age, Slots
  <2>2. column[s] \in 0..7
    BY <1>1 DEF Halves
  <2> HIDE DEF b
  <2>3. \A c \in 0..7, p \in 0..15 : \A a \in {p + 14, p - 2, p + 6, p - 10} :
          a \in 8..15 => (c + p + 6) % 8 = (c + a) % 8
    BY SMT
  <2> QED BY <1>1, <2>1, <2>2, <2>3
<1>8. Logical[t][b] = store[t][b]
  <2>1. CASE writecache_req
    <3> DEFINE o == Buffered
    <3>1. \A u \in Tags, c \in Banks : c # o.bank =>
            Second(First(store, o), o)[u][c] = store[u][c]
      BY <1>1, <2>1, BufferPuts
    <3>2. Logical = Second(First(store, o), o) /\ b # o.bank
      BY <1>5, <2>1 DEF Logical
    <3> HIDE DEF o, b, t
    <3>3. b \in Banks
      BY <1>1 DEF b
    <3> QED BY <1>4, <3>1, <3>2, <3>3
  <2>2. CASE ~writecache_req
    BY <2>2 DEF Logical
  <2> QED BY <2>1, <2>2
<1> QED BY <1>3, <1>6, <1>7, <1>8

LEMMA FillKept ==
  ASSUME TypeOK, Handshake, TagsRight, FillRight, SlotsRight,
         NEW video, phase' = (phase + 1) % 16, SlotControl(video), Chip(video), WriteBuffer,
         CacheEdge(readcache_fill, sdata_reg)
  PROVE  FillRight'
<1>1. /\ CacheTypeOK /\ req \in BOOLEAN /\ readcache_fill \in BOOLEAN /\ op \in Requests
      /\ op.bank \in Banks /\ Word(op) \in Words
      /\ state \in {"WAITING", "WRITE1", "WRITE2", "WAITRD", "PAUSE1", "WAITFILL", "FILL"}
      /\ beat \in 2..9 /\ phase \in 0..15 /\ readword \in Words
  BY RequestIs DEF TypeOK, CacheTypeOK, readcache_fill
<1>2. RamWrites
  BY <1>1, CacheMoves
<1>3. CASE state \in {"WAITING", "WRITE1", "WRITE2", "WAITRD", "PAUSE1"}
  <2>1. CASE state = "WAITRD"
    <3>1. state' \in {"PAUSE1", "WAITFILL"} /\ data_wren' = {}
      BY <1>1, <2>1, CacheMoves
    <3> QED BY <3>1 DEF FillRight
  <2>2. CASE state = "WRITE1"
    <3>1. state' = "WRITE2"
      BY <1>1, <2>2, CacheMoves
    <3> QED BY <3>1 DEF FillRight
  <2>3. CASE state \in {"WAITING", "WRITE2", "PAUSE1"}
    <3>1. state' # "FILL" /\ data_wren' = {}
      BY <1>1, <2>3, CacheMoves
    <3> QED BY <3>1 DEF FillRight
  <2> QED BY <1>3, <2>1, <2>2, <2>3
<1>4. ASSUME state \in {"WAITFILL", "FILL"} PROVE Logical' = Logical
  <2>1. ~Takes
    BY <1>4 DEF Handshake, Takes
  <2> QED BY <2>1, LogicalNext
<1>5. CASE state = "WAITFILL" /\ ~readcache_fill
  <2>1. state' = "WAITFILL" /\ data_wren' = {}
    BY <1>1, <1>5, CacheMoves
  <2> QED BY <2>1 DEF FillRight
<1>6. CASE state = "WAITFILL" /\ readcache_fill
  <2>1. PICK s \in Slots : slot[s] = "port1" /\ Age(s) \in 8..15
    <3>1. Filling \in Slots
      BY DEF Filling, Slots
    <3>2. Age(Filling) \in 8..15
      BY <1>1, <3>1, AgeIs
    <3> QED BY <1>6, <3>1, <3>2 DEF readcache_fill
  <2>2. ReadUnderWay(s)
    BY <2>1 DEF SlotsRight
  <2>3. /\ Age(s) = 8 /\ tag_wren = {} /\ bank[s] = latched_cpuaddr
        /\ column[s] = 2 * Word(op)
    <3>1. Age(s) < 9
      BY <1>6, <2>2 DEF ReadUnderWay
    <3>2. Age(s) = 8
      BY <2>1, <3>1
    <3> QED BY <2>2, <3>2 DEF ReadUnderWay
  <2>4. /\ state' = "FILL" /\ beat' = 2 /\ readword' = Word(op) /\ data_wren' = {}
        /\ latched_cpuaddr' = latched_cpuaddr /\ tag_mru1' = tag_mru1
        /\ firstword'[1] = sdata_reg /\ data_ports_w_hi' = sdata_reg
    BY <1>1, <1>6, CacheMoves
  <2>5. Filled' = Filled /\ Pending' = Word(op)
    BY <2>4 DEF Filled, Pending
  <2>6. tag' = tag
    BY <1>1, <1>2, <1>6, <2>3, TagsMove
  <2>7. sdata_reg = Logical[tag[Filled][bank[s]]][bank[s]][2 * Word(op)]
    <3>1. sdata_reg = Logical[tag[Filled][bank[s]]][bank[s]][(column[s] + Age(s)) % 8]
      BY <2>1, BurstBrings
    <3>2. (column[s] + Age(s)) % 8 = 2 * Word(op)
      BY <1>1, <2>3, BurstIndex
    <3> QED BY <3>1, <3>2
  <2>8. slot'[s] = "port1" /\ Age(s)' = 9
    <3>1. slot'[s] = slot[s]
      BY <1>1, <2>1, <2>3, SlotKept
    <3>2. Age(s)' = 9
      BY <1>1, <2>1, <2>3, AgeNext
    <3> QED BY <2>1, <3>1, <3>2
  <2> DEFINE word == MemWord(Logical', tag'[Filled'][latched_cpuaddr'], latched_cpuaddr', Pending')
  <2>9. word[1] = sdata_reg
    BY <1>4, <1>6, <2>3, <2>4, <2>5, <2>6, <2>7 DEF MemWord
  <2>10. \E r \in Slots : slot'[r] = "port1" /\ Age(r)' = beat' + 7
    BY <2>1, <2>4, <2>8
  <2>11. /\ data_ports_w_hi' = word[1] /\ firstword'[1] = word[1]
         /\ state' = "FILL" /\ beat' = 2 /\ data_wren' = {}
    BY <2>4, <2>9
  <2> QED BY <2>10, <2>11 DEF FillRight
<1>7. CASE state = "FILL" /\ beat = 9
  <2>1. state' = "WAITING" /\ data_wren' = {}
    BY <1>1, <1>7, CacheMoves
  <2> QED BY <2>1 DEF FillRight
<1>8. CASE state = "FILL" /\ beat # 9
  <2>1. PICK s \in Slots : slot[s] = "port1" /\ Age(s) = beat + 7
    BY <1>8 DEF FillRight
  <2>2. Age(s) \in 9..15 /\ ReadUnderWay(s)
    BY <1>1, <1>8, <2>1 DEF SlotsRight
  <2> DEFINE b == latched_cpuaddr
             t == tag[Filled][b]
             line == Logical[t][b]
  <2>3. /\ bank[s] = b
        /\ column[s] = 2 * ((Pending + 4 - ((beat - 2) \div 2)) % 4)
    BY <2>2 DEF ReadUnderWay
  <2>4. Pending \in Words
    BY <1>1 DEF Pending, Words
  <2>5. sdata_reg = line[(column[s] + Age(s)) % 8]
    <3>1. Age(s) \in 8..15
      BY <2>2
    <3>2. sdata_reg = Logical[tag[Filled][bank[s]]][bank[s]][(column[s] + Age(s)) % 8]
      BY <2>1, <3>1, BurstBrings
    <3> QED BY <2>3, <3>2
  <2>6. /\ state' = "FILL" /\ beat' = beat + 1
        /\ latched_cpuaddr' = b
        /\ Filled' = Filled /\ FillWay' = FillWay
        /\ beat \in {2, 4, 6, 8} => /\ data_wren' = FillWay /\ data_ports_w' = sdata_reg
                                    /\ data_ports_w_hi' = data_ports_w_hi
                                    /\ Pending' = Pending
        /\ beat \in {3, 5, 7} => /\ data_wren' = {} /\ data_ports_w_hi' = sdata_reg
                                 /\ Pending' = (Pending + 1) % 4
        /\ beat = 2 => firstword' = <<firstword[1], sdata_reg>>
    BY <1>1, <1>8, FillMoves
  <2>7. tag' = tag /\ Logical' = Logical
    BY <1>1, <1>2, <1>4, <1>8, TagsMove
  <2>8. tag'[Filled'][latched_cpuaddr'] = t
    BY <2>6, <2>7
  <2> HIDE DEF line, t
  <2> DEFINE word == MemWord(Logical, t, b, Pending)
             wordN == MemWord(Logical, t, b, Pending')
  <2>9. /\ word = <<line[2 * Pending], line[2 * Pending + 1]>>
        /\ data_ports_w_hi = word[1]
        /\ beat = 2 => firstword[1] = word[1]
    BY <1>8 DEF MemWord, FillRight, line, t
  <2>10. wordN = <<line[2 * Pending'], line[2 * Pending' + 1]>>
    BY DEF MemWord, line
  <2>11. slot'[s] = "port1" /\ Age(s)' = beat' + 7
    BY <1>1, <2>1, <2>2, <2>6, SlotKept, AgeNext
  <2>12. CASE beat \in {2, 4, 6, 8}
    <3>1. sdata_reg = line[2 * Pending + 1]
      <4>1. ((2 * ((Pending + 4 - ((beat - 2) \div 2)) % 4) + (beat + 7)) % 8) = 2 * Pending + 1
        BY <2>4, <2>12, BurstIndex
      <4> QED BY <2>1, <2>3, <2>5, <4>1
    <3>2. wordN = word
      BY <2>6, <2>12
    <3> HIDE DEF word, wordN
    <3>3. data_ports_w_hi' = wordN[1] /\ data_ports_w' = wordN[2]
      BY <2>6, <2>9, <2>12, <3>1, <3>2
    <3>6. data_wren' = FillWay' /\ beat' \in {3, 5, 7, 9}
      BY <2>6, <2>12
    <3>5. ASSUME beat' = 3 PROVE firstword' = wordN
      <4>1. beat = 2
        BY <2>6, <2>12, <3>5
      <4>2. firstword' = <<word[1], sdata_reg>>
        BY <2>6, <2>9, <4>1
      <4> QED BY <2>9, <3>1, <3>2, <4>2
    <3>4. wordN = MemWord(Logical', tag'[Filled'][latched_cpuaddr'], latched_cpuaddr', Pending')
      BY <2>6, <2>7, <2>8 DEF wordN
    <3> QED BY <2>6, <2>11, <3>3, <3>4, <3>5, <3>6 DEF FillRight
  <2>13. CASE beat \in {3, 5, 7}
    <3>1. sdata_reg = line[2 * ((Pending + 1) % 4)]
      <4>1. ((2 * ((Pending + 4 - ((beat - 2) \div 2)) % 4) + (beat + 7)) % 8)
              = 2 * ((Pending + 1) % 4)
        BY <2>4, <2>13, BurstIndex
      <4> QED BY <2>1, <2>3, <2>5, <4>1
    <3> HIDE DEF word, wordN
    <3>2. /\ data_ports_w_hi' = wordN[1]
          /\ data_wren' = {} /\ beat' \in {4, 6, 8}
      BY <2>6, <2>10, <2>13, <3>1
    <3>4. wordN = MemWord(Logical', tag'[Filled'][latched_cpuaddr'], latched_cpuaddr', Pending')
      BY <2>6, <2>7, <2>8 DEF wordN
    <3> QED BY <2>6, <2>11, <3>2, <3>4 DEF FillRight
  <2> QED BY <1>1, <1>8, <2>12, <2>13
<1> QED BY <1>1, <1>3, <1>5, <1>6, <1>7, <1>8

\* What is in the buffer stays the same as long as nothing new is taken.
LEMMA BufferKept ==
  ASSUME WriteBuffer, ~Takes, writecache_req'
  PROVE  writecache_req /\ Buffered' = Buffered
<1>1. writecache' = writecache
  BY DEF WriteBuffer, writecache_req
<1> QED BY <1>1 DEF writecache_req, Buffered

\* While the cache waits for its slot no other slot brings it anything.
LEMMA OneReader ==
  ASSUME TypeOK, TagsRight, SlotsRight, state = "WAITFILL",
         NEW s \in Slots, Age(s) < 8 \/ (Age(s) = 16 /\ bank[Other(s)] # op.bank)
  PROVE  readcache_fill = FALSE
<1>1. phase \in 0..15
  BY DEF TypeOK
<1>2. /\ Age(s) \in 1..16 /\ Other(s) \in Slots /\ Filling = Other(s)
      /\ Age(s) < 8 => Age(Other(s)) = Age(s) + 8
  BY <1>1, AgeIs
<1> SUFFICES ASSUME slot[Other(s)] = "port1" PROVE FALSE
  BY <1>2 DEF readcache_fill
<1>3. ReadUnderWay(Other(s))
  BY <1>2 DEF SlotsRight
<1>4. bank[Other(s)] = op.bank /\ Age(Other(s)) < 9
  BY <1>3 DEF ReadUnderWay, TagsRight
<1> QED BY <1>2, <1>4

\* A slot is given to the cache.
LEMMA ReadBegins ==
  ASSUME TypeOK, Ranges, Handshake, TagsRight, SlotsRight,
         NEW video \in VideoInputs, phase' = (phase + 1) % 16, SlotControl(video),
         Chip(video), WriteBuffer, CpuEdge, CacheEdge(readcache_fill, sdata_reg),
         NEW s \in Slots, slot'[s] = "port1", Age(s) = 16
  PROVE  ReadUnderWay(s)'
<1>1. /\ CacheTypeOK /\ req \in BOOLEAN /\ readcache_fill \in BOOLEAN /\ op \in Requests
      /\ op.bank \in Banks /\ op.tag \in Tags /\ Word(op) \in Words /\ phase \in 0..15
  BY RequestIs DEF TypeOK, CacheTypeOK, readcache_fill
<1>2. At(s, 2) /\ Other(s) \in Slots /\ Age(Other(s)) = 8
  BY <1>1, AgeIs
<1>3. NewPort(video) = "port1" /\ Opens(video)
  BY <1>1, SlotKept DEF Opens, Users
<1>4. ReadMayUse(Other(s)) /\ (~WriteMayUse(Other(s)) \/ Buffered.bank # op.bank)
  BY <1>2, <1>3, PortIs
<1>5. state = "WAITFILL" /\ FreeBank(op.bank, Other(s))
  BY <1>4 DEF ReadMayUse, sdram_req
<1>6. readcache_fill = FALSE
  <2>1. CASE slot[Other(s)] = "idle"
    <3>1. Filling = Other(s)
      BY <1>1, <1>2, AgeIs
    <3> QED BY <2>1, <3>1 DEF readcache_fill
  <2>2. CASE op.bank # bank[Other(s)]
    BY <1>5, <2>2, OneReader
  <2> QED BY <1>5, <2>1, <2>2 DEF FreeBank
<1>7. op' = op /\ busy /\ latched_cpuaddr = op.bank
  <2>1. req /\ writecache_dtack /\ ~cpu_ack /\ busy
    BY <1>5 DEF Handshake
  <2> QED BY <1>5, <2>1, CpuMoves DEF dtack1, TagsRight
<1>8. /\ state' = "WAITFILL" /\ tag_wren' = {} /\ latched_cpuaddr' = latched_cpuaddr
      /\ tag_mru1' = tag_mru1 /\ RamWrites
  BY <1>1, <1>5, <1>6, CacheMoves
<1>9. /\ bank'[s] = op.bank /\ casaddr' = 2 * Word(op) /\ open'[op.bank] = op.tag
  <2>1. NewBank(video) = op.bank /\ PortColumn(NewPort(video)) = 2 * Word(op)
        /\ PortRow(NewPort(video)) = op.tag
    BY <1>3 DEF NewBank, PortBank, PortColumn, PortRow
  <2>2. bank'[s] = op.bank /\ casaddr' = 2 * Word(op)
    BY <1>1, <1>3, <2>1, SlotKept
  <2> QED BY <1>1, <1>3, <2>1, <2>2 DEF Chip
<1>10. tag'[Filled'][op.bank] = op.tag
  <2>1. Filled' = Filled /\ Filled \in Ways
    BY <1>8 DEF Filled, Ways
  <2>2. tag'[Filled] = [tag[Filled] EXCEPT ![op.bank] = op.tag]
    BY <1>1, <1>5, <1>8, TagsMove
  <2>3. tag[Filled] \in [Banks -> Tags]
    BY <1>1, <2>1 DEF CacheTypeOK
  <2> QED BY <1>1, <2>1, <2>2, <2>3
<1>11. ASSUME writecache_req' PROVE Buffered'.bank # op.bank
  <2>1. writecache_req /\ Buffered' = Buffered
    BY <1>7, <1>11, BufferKept DEF Takes
  <2>2. CASE slot[Other(s)] = "writecache"
    <3>1. bank[Other(s)] = Buffered.bank
      BY <1>2, <2>2 DEF SlotsRight, WriteUnderWay
    <3> QED BY <1>5, <2>1, <2>2, <3>1 DEF FreeBank
  <2>3. CASE slot[Other(s)] # "writecache"
    BY <1>4, <1>5, <2>1, <2>3 DEF WriteMayUse, FreeBank
  <2> QED BY <2>2, <2>3
<1>12. Age(s)' = 1
  BY <1>1, AgeNext
<1>13. Word(op)' = Word(op)
  BY <1>7 DEF Word
<1> QED BY <1>7, <1>8, <1>9, <1>10, <1>11, <1>12, <1>13 DEF ReadUnderWay

\* Where a burst began says which word comes next.
LEMMA BurstMoves ==
  ASSUME NEW p \in Words
  PROVE  /\ 2 * ((p + 4 - ((2 - 2) \div 2)) % 4) = 2 * p
         /\ \A e \in {2, 4, 6, 8} : ((e + 1) - 2) \div 2 = (e - 2) \div 2
         /\ \A e \in {3, 5, 7} :
              (((p + 1) % 4) + 4 - (((e + 1) - 2) \div 2)) % 4 = (p + 4 - ((e - 2) \div 2)) % 4
<1>1. p = 0 \/ p = 1 \/ p = 2 \/ p = 3
  BY DEF Words
<1> QED BY <1>1, SMT

\* A slot that reads for the cache goes on.
LEMMA ReadKept ==
  ASSUME TypeOK, Ranges, SlotsApart, Handshake, TagsRight, SlotsRight,
         NEW video \in VideoInputs, phase' = (phase + 1) % 16, SlotControl(video),
         Chip(video), WriteBuffer, CpuEdge, CacheEdge(readcache_fill, sdata_reg),
         NEW s \in Slots, slot'[s] = "port1", Age(s) # 16
  PROVE  ReadUnderWay(s)'
<1>1. /\ CacheTypeOK /\ req \in BOOLEAN /\ readcache_fill \in BOOLEAN /\ op \in Requests
      /\ op.bank \in Banks /\ Word(op) \in Words /\ phase \in 0..15 /\ readword \in Words
      /\ beat \in 2..9
  BY RequestIs DEF TypeOK, CacheTypeOK, readcache_fill
<1>2. /\ Age(s) \in 1..16 /\ Age(s)' = Age(s) + 1
      /\ slot[s] = "port1" /\ bank'[s] = bank[s]
      /\ Age(s) # 8 => casaddr' = casaddr /\ ~Opens(video)
  BY <1>1, AgeIs, AgeNext, SlotKept
<1>3. ReadUnderWay(s)
  BY <1>2 DEF SlotsRight
<1>4. /\ state = (IF Age(s) < 9 THEN "WAITFILL" ELSE "FILL") /\ tag_wren = {}
      /\ Age(s) > 8 => beat = Age(s) - 7
      /\ bank[s] = latched_cpuaddr
  BY <1>3 DEF ReadUnderWay
<1>5. busy /\ ~Takes
  BY <1>4 DEF Handshake, Takes
<1>6. ASSUME writecache_req' PROVE Buffered'.bank # bank[s]
  <2>1. writecache_req /\ Buffered' = Buffered
    BY <1>5, <1>6, BufferKept
  <2> QED BY <1>3, <2>1 DEF ReadUnderWay
<1>7. /\ tag_wren' = {} /\ tag_mru1' = tag_mru1 /\ RamWrites
      /\ latched_cpuaddr' = latched_cpuaddr
  <2>1. CASE Age(s) < 9
    BY <1>1, <1>4, <2>1, CacheMoves
  <2>2. CASE Age(s) > 8
    <3>1. state = "FILL" /\ beat # 9
      BY <1>2, <1>4, <2>2
    <3> QED BY <1>1, <3>1, CacheMoves
  <2> QED BY <1>2, <2>1, <2>2
<1>8. tag' = tag /\ Filled' = Filled
  <2>1. tag' = tag
    BY <1>1, <1>4, <1>7, TagsMove
  <2> QED BY <1>7, <2>1 DEF Filled
<1>9. ASSUME Age(s) # 15 PROVE open'[bank[s]] = open[bank[s]]
  <2>1. ASSUME Opens(video) PROVE NewBank(video) # bank[s]
    <3>1. Age(s) = 8
      BY <1>2, <2>1
    <3>2. (phase = 2 => s = 2) /\ (phase = 10 => s = 1)
      BY <1>1, <3>1, SMT DEF Age, Slots
    <3>3. \/ phase = 2 /\ FreeBank(NewBank(video), 2)
          \/ phase = 10 /\ FreeBank(NewBank(video), 1)
      BY <2>1, PortFits
    <3> QED BY <1>2, <3>2, <3>3 DEF FreeBank
  <2> QED BY <1>2, <1>9, <2>1, RowKept DEF Users
<1>10. /\ column'[s] = IF s \in Reads THEN casaddr ELSE IF s \in BurstEnds THEN 0 ELSE column[s]
       /\ s \in Reads <=> Age(s) = 3
       /\ s \in BurstEnds <=> Age(s) = 15
  BY <1>1, <1>2, AgeIs DEF Chip, Reads, BurstEnds
<1>11. ASSUME Age(s) < 9 PROVE op' = op /\ Word(op)' = Word(op)
  <2>1. req /\ writecache_dtack /\ ~cpu_ack
    BY <1>4, <1>11 DEF Handshake
  <2> QED BY <2>1, CpuMoves DEF dtack1, Word
<1>12. CASE Age(s) < 8
  <2>1. state' = "WAITFILL"
    <3>1. state = "WAITFILL"
      BY <1>2, <1>4, <1>12
    <3>2. readcache_fill = FALSE
      BY <1>12, <3>1, OneReader
    <3> QED BY <1>1, <3>1, <3>2, CacheMoves
  <2>2. Age(s)' < 4 => casaddr' = 2 * Word(op)'
    <3>1. Age(s) < 4 => casaddr = 2 * Word(op)
      BY <1>3 DEF ReadUnderWay
    <3> QED BY <1>2, <1>11, <1>12, <3>1
  <2>3. Age(s)' \in 4..8 => column'[s] = 2 * Word(op)'
    <3>1. /\ Age(s) < 4 => casaddr = 2 * Word(op)
          /\ Age(s) \in 4..8 => column[s] = 2 * Word(op)
      BY <1>3 DEF ReadUnderWay
    <3> QED BY <1>2, <1>10, <1>11, <1>12, <3>1
  <2>4. open'[bank[s]] = tag[Filled][bank[s]]
    BY <1>2, <1>3, <1>9, <1>12 DEF ReadUnderWay
  <2>5. Age(s)' < 9
    BY <1>2, <1>12
  <2> QED BY <1>2, <1>4, <1>6, <1>7, <1>8, <2>1, <2>2, <2>3, <2>4, <2>5 DEF ReadUnderWay
<1>13. CASE Age(s) = 8
  <2>1. readcache_fill = TRUE /\ state = "WAITFILL"
    <3>1. Filling = s
      BY <1>1, <1>13, AgeIs
    <3> QED BY <1>2, <1>4, <1>13, <3>1 DEF readcache_fill
  <2>2. state' = "FILL" /\ beat' = 2 /\ readword' = Word(op)
    BY <1>1, <2>1, CacheMoves
  <2>3. column'[s] = 2 * Word(op)
    <3>1. column[s] = 2 * Word(op)
      BY <1>3, <1>13 DEF ReadUnderWay
    <3> QED BY <1>10, <1>13, <3>1
  <2>4. Pending' = Word(op)
    BY <2>2 DEF Pending
  <2>5. column'[s] = 2 * ((Pending' + 4 - ((beat' - 2) \div 2)) % 4)
    BY <1>1, <2>2, <2>3, <2>4, BurstMoves
  <2>6. open'[bank[s]] = tag[Filled][bank[s]]
    BY <1>3, <1>9, <1>13 DEF ReadUnderWay
  <2>7. Age(s)' = 9
    BY <1>2, <1>13
  <2> QED BY <1>2, <1>4, <1>6, <1>7, <1>8, <2>2, <2>5, <2>6, <2>7 DEF ReadUnderWay
<1>14. CASE Age(s) > 8
  <2>1. state = "FILL" /\ beat = Age(s) - 7 /\ beat \in 2..8
    BY <1>2, <1>4, <1>14
  <2>2. /\ state' = "FILL" /\ beat' = beat + 1
        /\ beat \in {2, 4, 6, 8} => Pending' = Pending
        /\ beat \in {3, 5, 7} => Pending' = (Pending + 1) % 4
    BY <1>1, <2>1, FillMoves
  <2>3. ASSUME Age(s)' \in 9..15
        PROVE  column'[s] = 2 * ((Pending' + 4 - ((beat' - 2) \div 2)) % 4)
    <3>1. column[s] = 2 * ((Pending + 4 - ((beat - 2) \div 2)) % 4)
      BY <1>2, <1>3, <1>14, <2>3 DEF ReadUnderWay
    <3>2. column'[s] = column[s]
      BY <1>2, <1>10, <1>14, <2>3
    <3>3. Pending \in Words
      BY <1>1 DEF Pending, Words
    <3>4. CASE beat \in {2, 4, 6, 8}
      <4>1. (beat' - 2) \div 2 = (beat - 2) \div 2
        BY <2>2, <3>3, <3>4, BurstMoves
      <4> QED BY <2>2, <3>1, <3>2, <3>4, <4>1
    <3>5. CASE beat \in {3, 5, 7}
      <4>1. (((Pending + 1) % 4) + 4 - (((beat + 1) - 2) \div 2)) % 4
              = (Pending + 4 - ((beat - 2) \div 2)) % 4
        BY <3>3, <3>5, BurstMoves
      <4> QED BY <2>2, <3>1, <3>2, <3>5, <4>1
    <3> QED BY <2>1, <3>4, <3>5
  <2>4. ASSUME Age(s)' < 16 PROVE open'[bank[s]] = tag[Filled][bank[s]]
    <3>1. Age(s) # 15
      BY <1>2, <2>4
    <3> QED BY <1>2, <1>3, <1>9, <3>1 DEF ReadUnderWay
  <2>5. /\ ~(Age(s)' < 9) /\ Age(s)' > 8 /\ beat' = Age(s)' - 7
        /\ ~(Age(s)' < 4) /\ Age(s)' \notin 4..8
    BY <1>2, <1>14, <2>1, <2>2
  <2> QED BY <1>2, <1>4, <1>6, <1>7, <1>8, <2>2, <2>3, <2>4, <2>5 DEF ReadUnderWay
<1> QED BY <1>2, <1>12, <1>13, <1>14

-----------------------------------------------------------------------------
(* Cache and memory agree.                                                 *)

LEMMA WriteStays ==
  ASSUME TypeOK, Handshake, TagsRight, WriteRight, FillRight, SlotsRight,
         NEW video, Chip(video), WriteBuffer, CpuEdge,
         NEW fill \in BOOLEAN, NEW half, CacheEdge(fill, half)
  PROVE  WriteRight'
<1>1. /\ CacheTypeOK /\ req \in BOOLEAN /\ op \in Requests /\ op.bank \in Banks
      /\ op.value = <<op.value[1], op.value[2]>> /\ Word(op) \in Words
      /\ state \in {"WAITING", "WRITE1", "WRITE2", "WAITRD", "PAUSE1", "WAITFILL", "FILL"}
  BY RequestIs DEF TypeOK, CacheTypeOK
<1>2. RamWrites
  BY <1>1, CacheMoves
<1>3. state # "WAITFILL" => tag' = tag
  BY <1>1, <1>2, TagsMove
<1>4. /\ writecache_dtack' = ~Takes
      /\ ~Takes => Logical' = Logical
      /\ Takes /\ ~op.wrU2 => op.value = MemWord(Logical', op.tag, op.bank, Word(op))
  BY LogicalNext DEF WriteBuffer
<1>5. CASE state = "WAITING"
  <2>1. writecache_dtack /\ ~cpu_ack
    BY <1>5 DEF Handshake
  <2>2. CASE req /\ op.wr
    <3>1. req' = req /\ op' = op
      BY <2>1, <2>2, CpuMoves DEF dtack1
    <3>2. state' = "WRITE1"
      BY <1>1, <1>5, <2>2, CacheMoves
    <3>3. Word(op)' = Word(op)
      BY <3>1 DEF Word
    <3> QED BY <1>4, <2>2, <3>1, <3>2, <3>3 DEF WriteRight
  <2>3. CASE ~(req /\ op.wr)
    <3>1. state' \in {"WAITING", "WAITRD"}
      BY <1>1, <1>5, <2>3, CacheMoves
    <3> QED BY <3>1 DEF WriteRight
  <2> QED BY <2>2, <2>3
<1>6. CASE state = "WRITE1"
  <2>1. req /\ op.wr /\ ~cpu_ack
    BY <1>6 DEF Handshake
  <2>2. op' = op /\ (~req' => ~writecache_dtack)
    BY <1>1, <2>1, CpuMoves DEF dtack1
  <2>3. /\ state' = "WRITE2" /\ data_wren' = {w \in Ways : tag_hit(w)}
        /\ <<data_ports_w_hi', data_ports_w'>> =
             IF op.wrU2 THEN Blank ELSE <<op.value[1], op.value[2]>>
    BY <1>1, <1>6, CacheMoves
  <2>4. \A w \in Ways : tag_hit(w)' <=> tag_hit(w)
    BY <1>3, <1>6, <2>2 DEF tag_hit
  <2>5. <<data_ports_w_hi', data_ports_w'>> = NewEntry'
    BY <1>1, <2>2, <2>3 DEF NewEntry
  <2>6. ASSUME ~req' \/ ~writecache_dtack', ~op.wrU2
        PROVE  op.value = MemWord(Logical', op.tag, op.bank, Word(op))
    <3>1. CASE Takes
      BY <1>4, <2>6, <3>1
    <3>2. CASE ~Takes
      BY <1>4, <1>6, <2>2, <2>6, <3>2 DEF WriteRight
    <3> QED BY <3>1, <3>2
  <2>7. Word(op)' = Word(op)
    BY <2>2 DEF Word
  <2> QED BY <2>2, <2>3, <2>4, <2>5, <2>6, <2>7 DEF WriteRight
<1>7. CASE state = "WRITE2"
  <2>1. op.wr /\ ~cpu_ack
    BY <1>7 DEF Handshake
  <2>2. CASE req
    <3>1. op' = op /\ (~req' => ~writecache_dtack)
      BY <1>1, <2>1, <2>2, CpuMoves DEF dtack1
    <3>2. state' = "WRITE2" /\ data_wren' = {}
      BY <1>1, <1>7, <2>2, CacheMoves
    <3>3. Word(op)' = Word(op) /\ NewEntry' = NewEntry
      BY <3>1 DEF Word, NewEntry
    <3>4. ASSUME NEW w \in Ways, tag_hit(w)' PROVE Entry(w)' = NewEntry'
      <4>1. tag_hit(w)
        BY <1>3, <1>7, <3>1, <3>4 DEF tag_hit
      <4>2. Entry(w)' = data'[w][op.bank][Word(op)]
        BY <3>1, <3>3 DEF Entry
      <4>3. CASE w \in data_wren
        <5>1. DataLine = op.bank /\ DataWord = Word(op)
          BY <1>7 DEF DataLine, DataWord, readword_burst
        <5>2. <<data_ports_w_hi, data_ports_w>> = NewEntry
          BY <1>7, <4>3 DEF WriteRight
        <5>3. data'[w][op.bank][Word(op)] = <<data_ports_w_hi, data_ports_w>>
          BY <1>1, <1>2, <4>3, <5>1, DataMoves
        <5> QED BY <3>3, <4>2, <5>2, <5>3
      <4>4. CASE w \notin data_wren
        <5>1. Entry(w) = NewEntry
          BY <1>7, <4>1, <4>4 DEF WriteRight
        <5>2. data'[w] = data[w]
          BY <1>1, <1>2, <4>4, DataMoves
        <5> QED BY <3>3, <4>2, <5>1, <5>2 DEF Entry
      <4> QED BY <4>3, <4>4
    <3>5. ASSUME ~req' \/ ~writecache_dtack', ~op.wrU2
          PROVE  op.value = MemWord(Logical', op.tag, op.bank, Word(op))
      <4>1. CASE Takes
        BY <1>4, <3>5, <4>1
      <4>2. CASE ~Takes
        BY <1>4, <1>7, <3>1, <3>5, <4>2 DEF WriteRight
      <4> QED BY <4>1, <4>2
    <3> QED BY <3>1, <3>2, <3>3, <3>4, <3>5 DEF WriteRight
  <2>3. CASE ~req
    <3>1. state' = "WAITING"
      BY <1>1, <1>7, <2>3, CacheMoves
    <3> QED BY <3>1 DEF WriteRight
  <2> QED BY <2>2, <2>3
<1>8. CASE state \in {"WAITRD", "PAUSE1", "WAITFILL", "FILL"}
  <2>1. CASE state = "WAITRD"
    BY <1>1, <2>1, CacheMoves DEF WriteRight
  <2>2. CASE state = "PAUSE1"
    BY <1>1, <2>2, CacheMoves DEF WriteRight
  <2>3. CASE state = "WAITFILL"
    <3>1. state' \in {"WAITFILL", "FILL"}
      BY <1>1, <2>3, CacheMoves
    <3> QED BY <3>1 DEF WriteRight
  <2>4. CASE state = "FILL"
    <3>1. state' \in {"WAITING", "FILL"}
      BY <1>1, <2>4, CacheMoves
    <3> QED BY <3>1 DEF WriteRight
  <2> QED BY <1>8, <2>1, <2>2, <2>3, <2>4
<1> QED BY <1>1, <1>5, <1>6, <1>7, <1>8

\* Which words of a line a fill has still to write: all at first, none that it
\* has written.
LEMMA LeftToFill ==
  ASSUME NEW p \in Words
  PROVE  /\ {(p + i) % 4 : i \in 0 .. 3 - ((2 - 2) \div 2)} = Words
         /\ \A e \in {2, 4, 6, 8} : 3 - (((e + 1) - 2) \div 2) = 3 - ((e - 2) \div 2)
         /\ \A e \in {3, 5, 7} :
              {(p + i) % 4 : i \in 0 .. 3 - ((e - 2) \div 2)} \subseteq
                {(((p + 1) % 4) + i) % 4 : i \in 0 .. 3 - (((e + 1) - 2) \div 2)} \cup {p}
         /\ {(p + i) % 4 : i \in 0 .. 3 - ((9 - 2) \div 2)} = {p}
<1>1. p = 0 \/ p = 1 \/ p = 2 \/ p = 3
  BY DEF Words
<1>2. {(p + i) % 4 : i \in 0 .. 3 - ((2 - 2) \div 2)} = Words
  <2>1. \A k \in 0..3 : \E i \in 0..3 : (p + i) % 4 = k
    BY <1>1, SMT
  <2>2. \A i \in 0..3 : ((p + i) % 4) \in 0..3
    BY <1>1, SMT
  <2>3. 3 - ((2 - 2) \div 2) = 3
    BY SMT
  <2> QED BY <2>1, <2>2, <2>3 DEF Words
<1>3. \A e \in {2, 4, 6, 8} : 3 - (((e + 1) - 2) \div 2) = 3 - ((e - 2) \div 2)
  BY SMT
<1>4. ASSUME NEW e \in {3, 5, 7}, NEW i \in 0 .. 3 - ((e - 2) \div 2), i # 0
      PROVE  /\ (i - 1) \in 0 .. 3 - (((e + 1) - 2) \div 2)
             /\ (((p + 1) % 4) + (i - 1)) % 4 = (p + i) % 4
  BY <1>1, <1>4, SMT
<1>5. p % 4 = p /\ (p + 0) % 4 = p
  BY <1>1, SMT
<1>6. ASSUME NEW e \in {3, 5, 7}, NEW k \in {(p + i) % 4 : i \in 0 .. 3 - ((e - 2) \div 2)}
      PROVE  k \in {(((p + 1) % 4) + i) % 4 : i \in 0 .. 3 - (((e + 1) - 2) \div 2)} \cup {p}
  <2>1. PICK i \in 0 .. 3 - ((e - 2) \div 2) : k = (p + i) % 4
    OBVIOUS
  <2>2. CASE i = 0
    BY <1>5, <2>1, <2>2
  <2>3. CASE i # 0
    BY <1>4, <2>1, <2>3
  <2> QED BY <2>2, <2>3
<1>7. {(p + i) % 4 : i \in 0 .. 3 - ((9 - 2) \div 2)} = {p}
  <2>1. 3 - ((9 - 2) \div 2) = 0
    BY SMT
  <2>2. 0..0 = {0}
    OBVIOUS
  <2> QED BY <1>5, <2>1, <2>2
<1> QED BY <1>2, <1>3, <1>6, <1>7

LEMMA SettledKept ==
  ASSUME TypeOK, Handshake, TagsRight, SettledRight, WriteRight, FillRight, SlotsRight,
         NEW video, Chip(video), WriteBuffer, CpuEdge,
         NEW fill \in BOOLEAN, NEW half, CacheEdge(fill, half)
  PROVE  SettledRight'
<1>1. /\ CacheTypeOK /\ req \in BOOLEAN /\ op \in Requests /\ op.bank \in Banks /\ op.tag \in Tags
      /\ Word(op) \in Words
      /\ state \in {"WAITING", "WRITE1", "WRITE2", "WAITRD", "PAUSE1", "WAITFILL", "FILL"}
      /\ beat \in 2..9 /\ readword \in Words /\ latched_cpuaddr \in Banks
      /\ tag \in [Ways -> [Banks -> Tags]]
  BY RequestIs DEF TypeOK, CacheTypeOK
<1>2. RamWrites
  BY <1>1, CacheMoves
<1>3. state # "WAITFILL" => tag' = tag
  BY <1>1, <1>2, TagsMove
<1> SUFFICES ASSUME NEW w \in Ways, NEW b \in Banks, NEW k \in Words,
                    ~Unsettled(w, b, k)', Complete(data'[w][b][k])
             PROVE  data'[w][b][k] = MemWord(Logical', tag'[w][b], b, k)
  BY DEF SettledRight, Complete
<1>4. tag[w][b] \in Tags /\ 2 * k \in Halves /\ 2 * k + 1 \in Halves
  BY <1>1 DEF Words, Halves
\* Memory changes in one place at most, the word that the buffer takes.
<1>5. ~Takes \/ ~(tag[w][b] = op.tag /\ b = op.bank /\ k = Word(op)) =>
        MemWord(Logical', tag[w][b], b, k) = MemWord(Logical, tag[w][b], b, k)
  <2>1. CASE ~Takes
    BY <2>1, LogicalNext
  <2>2. CASE Takes /\ ~(tag[w][b] = op.tag /\ b = op.bank /\ k = Word(op))
    <3>1. k # Word(op) => /\ 2 * k \notin {2 * Word(op), 2 * Word(op) + 1}
                          /\ 2 * k + 1 \notin {2 * Word(op), 2 * Word(op) + 1}
      <4>1. \A i, j \in 0..3 : i # j => 2 * i \notin {2 * j, 2 * j + 1}
                                        /\ 2 * i + 1 \notin {2 * j, 2 * j + 1}
        BY SMT
      <4> QED BY <1>1, <4>1 DEF Words
    <3>2. \A u \in Tags, c \in Banks, h \in Halves :
            ~(u = op.tag /\ c = op.bank /\ h \in {2 * Word(op), 2 * Word(op) + 1}) =>
              Logical'[u][c][h] = Logical[u][c][h]
      BY <2>2, LogicalNext
    <3> QED BY <1>4, <2>2, <3>1, <3>2 DEF MemWord
  <2> QED BY <2>1, <2>2
\* What was right and is not written stays right.
<1>6. ASSUME ~Unsettled(w, b, k), data'[w][b][k] = data[w][b][k], tag'[w][b] = tag[w][b],
             ~Takes \/ ~(tag[w][b] = op.tag /\ b = op.bank /\ k = Word(op))
      PROVE  data'[w][b][k] = MemWord(Logical', tag'[w][b], b, k)
  <2>1. Complete(data[w][b][k])
    BY <1>6
  <2>2. data[w][b][k] = MemWord(Logical, tag[w][b], b, k)
    BY <1>6, <2>1 DEF SettledRight
  <2> QED BY <1>5, <1>6, <2>2
<1>7. CASE state = "WAITING"
  <2>1. data' = data
    BY <1>1, <1>2, <1>7, DataMoves DEF FillRight
  <2>2. ~Unsettled(w, b, k)
    BY <1>7 DEF Unsettled
  <2>3. ASSUME Takes PROVE ~(tag[w][b] = op.tag /\ b = op.bank /\ k = Word(op))
    <3>1. req /\ op.wr /\ writecache_dtack /\ ~cpu_ack
      BY <1>7, <2>3 DEF Takes, Handshake
    <3>2. op' = op
      BY <3>1, CpuMoves DEF dtack1
    <3>3. state' = "WRITE1"
      BY <1>1, <1>7, <3>1, CacheMoves
    <3> QED BY <1>3, <1>7, <3>2, <3>3 DEF Unsettled, Word
  <2> QED BY <1>3, <1>6, <1>7, <2>1, <2>2, <2>3
<1>8. CASE state \in {"WAITRD", "PAUSE1"}
  <2>1. data' = data
    BY <1>1, <1>2, <1>8, DataMoves DEF FillRight
  <2>2. ~Unsettled(w, b, k)
    BY <1>8 DEF Unsettled
  <2>3. ~Takes
    BY <1>8 DEF Takes, Handshake
  <2> QED BY <1>3, <1>6, <1>8, <2>1, <2>2, <2>3
<1>9. CASE state = "WRITE1"
  <2>1. data' = data
    BY <1>1, <1>2, <1>9, DataMoves DEF FillRight
  <2>2. op' = op
    BY <1>1, <1>9, CpuMoves DEF Handshake
  <2>3. state' = "WRITE2"
    BY <1>1, <1>9, CacheMoves
  <2>4. ~(b = op.bank /\ tag[w][b] = op.tag /\ k = Word(op))
    BY <1>3, <1>9, <2>2, <2>3 DEF Unsettled, Word
  <2>5. ~Unsettled(w, b, k)
    BY <1>9, <2>4 DEF Unsettled
  <2> QED BY <1>3, <1>6, <1>9, <2>1, <2>4, <2>5
<1>10. CASE state = "WRITE2"
  <2>1. DataLine = op.bank /\ DataWord = Word(op)
    BY <1>10 DEF DataLine, DataWord, readword_burst
  <2>2. ASSUME ~(b = op.bank /\ tag[w][b] = op.tag /\ k = Word(op))
        PROVE  data'[w][b][k] = MemWord(Logical', tag'[w][b], b, k)
    <3>1. ~Unsettled(w, b, k)
      BY <1>10, <2>2 DEF Unsettled
    <3>2. data'[w][b][k] = data[w][b][k]
      <4>1. CASE w \notin data_wren
        BY <1>1, <1>2, <4>1, DataMoves
      <4>2. CASE w \in data_wren
        <5>1. tag[w][op.bank] = op.tag
          BY <1>10, <4>2 DEF WriteRight, tag_hit
        <5>2. ~(b = op.bank /\ k = Word(op))
          BY <2>2, <5>1
        <5> QED BY <1>1, <1>2, <2>1, <4>2, <5>2, DataMoves
      <4> QED BY <4>1, <4>2
    <3> QED BY <1>3, <1>6, <1>10, <2>2, <3>1, <3>2
  <2>3. CASE req
    <3>1. op' = op
      BY <1>1, <2>3, CpuMoves
    <3>2. state' = "WRITE2"
      BY <1>1, <1>10, <2>3, CacheMoves
    <3>3. ~(b = op.bank /\ tag[w][b] = op.tag /\ k = Word(op))
      BY <1>3, <1>10, <3>1, <3>2 DEF Unsettled, Word
    <3> QED BY <2>2, <3>3
  <2>4. CASE ~req /\ (b = op.bank /\ tag[w][b] = op.tag /\ k = Word(op))
    <3>1. tag_hit(w)
      BY <2>4 DEF tag_hit
    <3>2. data'[w][b][k] = NewEntry
      <4>1. CASE w \in data_wren
        <5>1. <<data_ports_w_hi, data_ports_w>> = NewEntry
          BY <1>10, <4>1 DEF WriteRight
        <5>2. data'[w][b][k] = <<data_ports_w_hi, data_ports_w>>
          BY <1>1, <1>2, <2>1, <2>4, <4>1, DataMoves
        <5> QED BY <5>1, <5>2
      <4>2. CASE w \notin data_wren
        <5>1. Entry(w) = NewEntry
          BY <1>10, <3>1, <4>2 DEF WriteRight
        <5>2. data'[w] = data[w]
          BY <1>1, <1>2, <4>2, DataMoves
        <5> QED BY <2>4, <5>1, <5>2 DEF Entry
      <4> QED BY <4>1, <4>2
    <3>3. ~op.wrU2 /\ NewEntry = op.value
      <4>1. ~Complete(Blank)
        BY DEF Complete, Blank
      <4> QED BY <3>2, <4>1 DEF NewEntry
    <3>4. op.value = MemWord(Logical, op.tag, op.bank, Word(op))
      BY <1>10, <2>4, <3>3 DEF WriteRight
    <3>5. MemWord(Logical', tag[w][b], b, k) = MemWord(Logical, tag[w][b], b, k)
      BY <1>5, <2>4 DEF Takes
    <3> QED BY <1>3, <1>10, <2>4, <3>2, <3>3, <3>4, <3>5
  <2> QED BY <2>2, <2>3, <2>4
<1>11. ASSUME state \in {"WAITFILL", "FILL"} PROVE ~Takes
  BY <1>11 DEF Takes, Handshake
<1>12. CASE state = "WAITFILL"
  <2>1. data' = data
    BY <1>1, <1>2, <1>12, DataMoves DEF FillRight
  <2>2. /\ latched_cpuaddr' = latched_cpuaddr /\ tag_mru1' = tag_mru1
        /\ readword' = Word(op)
        /\ state' = "WAITFILL" \/ (state' = "FILL" /\ beat' = 2)
    BY <1>1, <1>12, CacheMoves
  <2>3. Filled' = Filled /\ Filled \in Ways
    BY <2>2 DEF Filled, Ways
  <2>4. ~(w = Filled /\ b = latched_cpuaddr)
    <3>1. CASE state' = "WAITFILL"
      BY <2>2, <2>3, <3>1 DEF Unsettled
    <3>2. CASE state' = "FILL" /\ beat' = 2
      <4>1. Pending' = Word(op)
        BY <2>2, <3>2 DEF Pending
      <4>2. StillToFill' = {(Pending' + i) % 4 : i \in 0 .. 3 - ((2 - 2) \div 2)}
        BY <3>2 DEF StillToFill
      <4>3. StillToFill' = Words
        BY <1>1, <4>1, <4>2, LeftToFill
      <4> QED BY <2>2, <2>3, <3>2, <4>3 DEF Unsettled
    <3> QED BY <2>2, <3>1, <3>2
  <2>5. ~Unsettled(w, b, k)
    BY <1>12, <2>4 DEF Unsettled
  <2>6. tag'[w][b] = tag[w][b]
    <3>1. CASE w # Filled
      BY <1>1, <1>2, <1>12, <3>1, TagsMove
    <3>2. CASE w = Filled
      <4>1. b # op.bank
        BY <1>12, <2>4, <3>2 DEF TagsRight
      <4>2. tag'[Filled] = [tag[Filled] EXCEPT ![op.bank] = op.tag]
        BY <1>1, <1>2, <1>12, TagsMove
      <4> QED BY <1>1, <3>2, <4>1, <4>2
    <3> QED BY <3>1, <3>2
  <2> QED BY <1>6, <1>11, <1>12, <2>1, <2>5, <2>6
<1>13. CASE state = "FILL" /\ beat \in {2, 4, 6, 8}
  <2>1. data' = data
    BY <1>1, <1>2, <1>13, DataMoves DEF FillRight
  <2>2. /\ state' = "FILL" /\ beat' = beat + 1 /\ latched_cpuaddr' = latched_cpuaddr
        /\ Filled' = Filled /\ Pending' = Pending
    BY <1>1, <1>13, FillMoves
  <2>3. StillToFill' = StillToFill
    <3>1. 3 - (((beat + 1) - 2) \div 2) = 3 - ((beat - 2) \div 2)
      BY <1>1, <1>13, LeftToFill
    <3> QED BY <2>2, <3>1 DEF StillToFill
  <2>4. ~Unsettled(w, b, k)
    BY <1>13, <2>2, <2>3 DEF Unsettled
  <2> QED BY <1>3, <1>6, <1>11, <1>13, <2>1, <2>4
\* The word that a fill writes is the one in memory.
<1>14. CASE state = "FILL" /\ beat \in {3, 5, 7, 9}
  <2>1. Pending = readword /\ DataLine = latched_cpuaddr /\ DataWord = readword
    BY <1>14 DEF Pending, DataLine, DataWord, readword_burst
  <2>2. data_wren = {Filled}
    BY <1>14 DEF FillRight, FillWay, Filled
  <2>3. CASE w = Filled /\ b = latched_cpuaddr /\ k = Pending
    <3> DEFINE word == MemWord(Logical, tag[w][b], b, k)
    <3>1. data_ports_w_hi = word[1] /\ data_ports_w = word[2]
      BY <1>14, <2>3 DEF FillRight
    <3>2. word = <<word[1], word[2]>>
      BY DEF MemWord
    <3>3. data'[w][b][k] = <<data_ports_w_hi, data_ports_w>>
      BY <1>1, <1>2, <2>1, <2>2, <2>3, DataMoves
    <3>4. MemWord(Logical', tag[w][b], b, k) = word
      BY <1>5, <1>11, <1>14
    <3> QED BY <1>3, <1>14, <3>1, <3>2, <3>3, <3>4
  <2>4. CASE ~(w = Filled /\ b = latched_cpuaddr /\ k = Pending)
    <3>1. data'[w][b][k] = data[w][b][k]
      <4>1. CASE w = Filled
        BY <1>1, <1>2, <2>1, <2>2, <2>4, <4>1, DataMoves
      <4>2. CASE w # Filled
        BY <1>1, <1>2, <2>2, <4>2, DataMoves
      <4> QED BY <4>1, <4>2
    <3>2. ~Unsettled(w, b, k)
      <4>1. CASE beat = 9
        <5>1. StillToFill = {Pending}
          <6>1. StillToFill = {(Pending + i) % 4 : i \in 0 .. 3 - ((9 - 2) \div 2)}
            BY <4>1 DEF StillToFill
          <6>2. Pending \in Words
            BY <1>1, <2>1
          <6>3. {(Pending + i) % 4 : i \in 0 .. 3 - ((9 - 2) \div 2)} = {Pending}
            BY <6>2, LeftToFill, Zenon
          <6> QED BY <6>1, <6>3
        <5> QED BY <1>14, <2>4, <5>1 DEF Unsettled
      <4>2. CASE beat \in {3, 5, 7}
        <5>1. /\ state' = "FILL" /\ beat' = beat + 1 /\ latched_cpuaddr' = latched_cpuaddr
              /\ Filled' = Filled /\ Pending' = (Pending + 1) % 4
          BY <1>1, <1>14, <4>2, FillMoves
        <5>2. StillToFill' =
                {(((Pending + 1) % 4) + i) % 4 : i \in 0 .. 3 - (((beat + 1) - 2) \div 2)}
          BY <5>1 DEF StillToFill
        <5>3. StillToFill \subseteq StillToFill' \cup {Pending}
          <6>1. StillToFill = {(Pending + i) % 4 : i \in 0 .. 3 - ((beat - 2) \div 2)}
            BY DEF StillToFill
          <6>2. Pending \in Words
            BY <1>1, <2>1
          <6>3. {(Pending + i) % 4 : i \in 0 .. 3 - ((beat - 2) \div 2)} \subseteq
                  {(((Pending + 1) % 4) + i) % 4 : i \in 0 .. 3 - (((beat + 1) - 2) \div 2)}
                    \cup {Pending}
            BY <4>2, <6>2, LeftToFill, Zenon
          <6> QED BY <5>2, <6>1, <6>3
        <5> QED BY <1>14, <2>4, <5>1, <5>3 DEF Unsettled
      <4> QED BY <1>14, <4>1, <4>2
    <3> QED BY <1>3, <1>6, <1>11, <1>14, <3>1, <3>2
  <2> QED BY <2>3, <2>4
<1> QED BY <1>1, <1>7, <1>8, <1>9, <1>10, <1>12, <1>13, <1>14

-----------------------------------------------------------------------------
(* The invariant of coherence.                                             *)

LEMMA InitCoherence == Init => CoherenceInv
<1> SUFFICES ASSUME Init PROVE CoherenceInv
  OBVIOUS
<1>1. Ranges /\ SlotsApart /\ RowsOwned
  BY InitIInv DEF IInv
<1>2. op \in Requests /\ op.bank \in Banks
  BY <1>1, RequestIs DEF Ranges
<1>3. TypeOK
  <2>1. CacheTypeOK
    <3>1. Blank \in (Half \cup {Invalid}) \X (Half \cup {Invalid})
      BY DEF Blank
    <3>2. /\ tag \in [Ways -> [Banks -> Tags]]
          /\ mru \in [Banks -> BOOLEAN]
      BY AddressAssumption DEF Init, CacheInit
    <3>3. data \in [Ways -> [Banks -> [Words -> (Half \cup {Invalid}) \X (Half \cup {Invalid})]]]
      BY <3>1 DEF Init, CacheInit
    <3>4. /\ state = "WAITING" /\ latched_cpuaddr \in Banks
          /\ firstword = Blank /\ tag_wren \subseteq Ways /\ data_wren \subseteq Ways
          /\ data_ports_w_hi = Invalid /\ data_ports_w = Invalid
      BY <1>2 DEF Init, CacheInit
    <3>5. beat \in 2..9 /\ readword \in Words
      BY DEF Init, CacheInit, Words
    <3>6. busy \in BOOLEAN /\ cpu_ack \in BOOLEAN /\ tag_mru1 \in BOOLEAN
      BY Zenon DEF Init, CacheInit
    <3> QED BY <3>1, <3>2, <3>3, <3>4, <3>5, <3>6 DEF CacheTypeOK
  <2>2. slot \in [Slots -> {"idle", "refresh"} \cup Users] /\ slot[2] \notin {"refresh", "port0"}
    BY DEF Init, Slots
  <2>3. store \in Memories
    BY ContentsAssumption DEF Init
  <2>4. phase \in 0..15 /\ casaddr \in Halves
    BY DEF Init, Halves
  <2>6. /\ req \in BOOLEAN /\ refreshpending \in BOOLEAN /\ writecache = {}
        /\ writecache_dtack \in BOOLEAN /\ writecache_ack \in BOOLEAN
    BY Zenon DEF Init
  <2>5. /\ bank \in [Slots -> Banks]
        /\ open \in [Banks -> Tags \cup {Closed, VideoRow}]
        /\ column \in [Slots -> Halves]
    BY <1>2 DEF Init, Halves
  <2> QED BY <1>2, <2>1, <2>2, <2>3, <2>4, <2>5, <2>6 DEF TypeOK
<1>4. Handshake /\ TagsRight
  BY DEF Init, CacheInit, Handshake, TagsRight
<1>5. SettledRight
  <2>1. \A w \in Ways, b \in Banks, k \in Words : data[w][b][k] = Blank
    BY DEF Init, CacheInit
  <2>2. ~Complete(Blank)
    BY DEF Complete, Blank
  <2> QED BY <2>1, <2>2 DEF SettledRight
<1>6. WriteRight /\ FillRight
  BY DEF Init, CacheInit, WriteRight, FillRight
<1>7. SlotsRight
  BY DEF Init, SlotsRight, Slots
<1>8. writecache_dtack \/ writecache_req
  BY DEF Init
<1> QED BY <1>1, <1>3, <1>4, <1>5, <1>6, <1>7, <1>8 DEF CoherenceInv

LEMMA SlotsStay ==
  ASSUME CoherenceInv, Ranges, NEW vga_refresh, NEW video \in VideoInputs,
         Edge(vga_refresh, video)
  PROVE  SlotsRight'
<1>1. /\ TypeOK /\ SlotsApart /\ Handshake /\ TagsRight /\ SlotsRight
      /\ phase' = (phase + 1) % 16 /\ SlotControl(video) /\ Chip(video)
      /\ WriteBuffer /\ CpuEdge /\ CacheEdge(readcache_fill, sdata_reg)
  BY DEF CoherenceInv, Edge
<1>2. ASSUME NEW s \in Slots, slot'[s] = "port1" PROVE ReadUnderWay(s)'
  <2>1. CASE Age(s) = 16
    BY <1>1, <1>2, <2>1, ReadBegins
  <2>2. CASE Age(s) # 16
    BY <1>1, <1>2, <2>2, ReadKept
  <2> QED BY <2>1, <2>2
<1>3. ASSUME NEW s \in Slots, slot'[s] = "writecache", Age(s)' < 9
      PROVE  WriteUnderWay(s)'
  BY <1>1, <1>3, WriteKept
<1>4. writecache_ack' => writecache_req' /\ Logical' = store' /\ phase' \in {3, 11}
  BY <1>1, AckKept
<1> QED BY <1>2, <1>3, <1>4 DEF SlotsRight

LEMMA CoherenceStep ==
  ASSUME CoherenceInv, IInv, Next
  PROVE  CoherenceInv'
<1>1. PICK vga_refresh \in RefreshInputs, video \in VideoInputs : Edge(vga_refresh, video)
  BY DEF Next
<1>2. vga_refresh \in BOOLEAN
  BY DEF RefreshInputs
<1>3. Ranges
  BY DEF IInv
<1>4. IInv'
  BY StepIInv
<1>5. /\ TypeOK /\ Handshake /\ TagsRight /\ SettledRight /\ WriteRight /\ FillRight /\ SlotsRight
      /\ phase' = (phase + 1) % 16 /\ SlotControl(video) /\ Chip(video)
      /\ WriteBuffer /\ CpuEdge /\ CacheEdge(readcache_fill, sdata_reg)
  BY <1>1 DEF CoherenceInv, Edge
<1>6. readcache_fill \in BOOLEAN
  BY DEF readcache_fill
<1>7. TypeOK'
  BY <1>1, <1>2, <1>3, <1>5, TypeNext
<1>8. Handshake'
  BY <1>5, <1>6, HandshakeKept
<1>9. TagsRight'
  BY <1>5, <1>6, TagsKept
<1>10. SettledRight'
  BY <1>5, <1>6, SettledKept
<1>11. WriteRight'
  BY <1>5, <1>6, WriteStays
<1>12. FillRight'
  BY <1>5, FillKept
<1>13. SlotsRight'
  BY <1>1, <1>3, SlotsStay
<1>14. writecache_dtack' \/ writecache_req'
  BY <1>5 DEF WriteBuffer, writecache_req
<1> QED BY <1>4, <1>7, <1>8, <1>9, <1>10, <1>11, <1>12, <1>13, <1>14 DEF CoherenceInv, IInv

LEMMA CoherenceStays == CoherenceInv /\ IInv /\ [Next]_vars => CoherenceInv'
<1> SUFFICES ASSUME CoherenceInv, IInv, [Next]_vars PROVE CoherenceInv'
  OBVIOUS
<1>1. CASE Next
  BY <1>1, CoherenceStep
<1>2. CASE UNCHANGED vars
  <2> USE <1>2 DEF vars, ports, cachevars, slotvars, buffervars, chipvars
  <2>1. TypeOK' /\ SlotsApart'
    BY DEF CoherenceInv, TypeOK, CacheTypeOK, SlotsApart
  <2>2. RowsOwned'
    BY DEF CoherenceInv, RowsOwned, HasRow, At
  <2>3. Handshake' /\ TagsRight'
    BY DEF CoherenceInv, Handshake, TagsRight, Hit, tag_hit, data_valid, Entry, Filled
  <2>4. Logical' = Logical /\ Filled' = Filled /\ Pending' = Pending
    BY DEF Logical, writecache_req, Buffered, Filled, Pending
  <2>5. SettledRight'
    BY <2>4 DEF CoherenceInv, SettledRight, Unsettled, StillToFill
  <2>6. WriteRight'
    BY <2>4 DEF CoherenceInv, WriteRight, tag_hit, Entry, NewEntry
  <2>7. \A s \in Slots : Age(s)' = Age(s)
    BY DEF Age
  <2>8. FillRight'
    BY <2>4, <2>7 DEF CoherenceInv, FillRight, FillWay
  <2>9. SlotsRight'
    <3>1. writecache_req' = writecache_req /\ Buffered' = Buffered
      BY DEF writecache_req, Buffered
    <3>2. ASSUME NEW s \in Slots, ReadUnderWay(s) PROVE ReadUnderWay(s)'
      BY <2>4, <2>7, <3>1, <3>2 DEF ReadUnderWay, Word
    <3>3. ASSUME NEW s \in Slots, WriteUnderWay(s) PROVE WriteUnderWay(s)'
      BY <2>7, <3>1, <3>3 DEF WriteUnderWay, First
    <3> QED BY <2>4, <2>7, <3>1, <3>2, <3>3 DEF CoherenceInv, SlotsRight
  <2>10. writecache_dtack' \/ writecache_req'
    BY DEF CoherenceInv, writecache_req
  <2> QED BY <2>1, <2>2, <2>3, <2>5, <2>6, <2>8, <2>9, <2>10 DEF CoherenceInv
<1> QED BY <1>1, <1>2

LEMMA CoherenceInvIs == CoherenceInv => TypeOK /\ CacheCoherent
<1> SUFFICES ASSUME CoherenceInv PROVE TypeOK /\ CacheCoherent
  OBVIOUS
<1>1. TypeOK /\ SettledRight
  BY DEF CoherenceInv
<1>2. ASSUME state \in {"WAITING", "WAITRD"}, NEW w \in Ways, NEW b \in Banks, NEW k \in Words,
             data[w][b][k][1] # Invalid, data[w][b][k][2] # Invalid
      PROVE  data[w][b][k] = MemWord(Logical, tag[w][b], b, k)
  <2>1. ~Unsettled(w, b, k) /\ Complete(data[w][b][k])
    BY <1>2 DEF Unsettled, Complete
  <2> QED BY <1>1, <2>1 DEF SettledRight
<1> QED BY <1>1, <1>2 DEF CacheCoherent

\* Every register of the controller and the cache, and the memory, keeps its
\* type: no column leaves its burst, no slot the users it can have.
THEOREM TypesHold == Spec => []TypeOK
<1>1. IInv /\ CoherenceInv => TypeOK
  BY CoherenceInvIs
<1> QED BY InitIInv, StepIInv, InitCoherence, CoherenceStays, <1>1, PTL DEF Spec

\* Each word of the cache that is not just being written is the word of memory
\* in both ways; the write in the buffer, the line that is being filled and the
\* slots that work for the cache are where the state machine takes them to be.
THEOREM CoherenceInvariance == Spec => []CoherenceInv
BY InitIInv, StepIInv, InitCoherence, CoherenceStays, PTL DEF Spec

\* Whenever the cache is about to look a request up, every word that it would
\* give to a reader is the word in memory, in both ways (TwoWayCache.v:299).
THEOREM CacheStaysCoherent == Spec => []CacheCoherent
<1>1. IInv /\ CoherenceInv => CacheCoherent
  BY CoherenceInvIs
<1> QED BY InitIInv, StepIInv, InitCoherence, CoherenceStays, <1>1, PTL DEF Spec

-----------------------------------------------------------------------------
(* The memory that the CPU is promised.                                    *)

Asked == IF req /\ writecache_dtack THEN {op} ELSE {}

\* The word that the CPU is given is the one in memory.
LEMMA RightWord ==
  ASSUME CoherenceInv, req, cpu_ack
  PROVE  ~op.wr /\ busy /\ data_to_cpu = Mem!ReadWord(Logical, op)
<1>1. /\ op \in Requests /\ op.bank \in Banks /\ Word(op) \in Words /\ CacheTypeOK
      /\ TypeOK /\ Handshake /\ TagsRight /\ SettledRight /\ FillRight
      /\ beat \in 2..9
  BY RequestIs DEF CoherenceInv, TypeOK, CacheTypeOK
<1>2. state = "PAUSE1" \/ (state = "FILL" /\ beat = 3)
  BY <1>1 DEF Handshake
<1>3. ~op.wr /\ busy
  BY <1>1, <1>2 DEF Handshake
<1>4. Mem!ReadWord(Logical, op) = MemWord(Logical, op.tag, op.bank, Word(op))
  <2>1. op.half \in {0, 2, 4, 6}
    BY <1>1, <1>3, RequestIs
  <2>2. \A h \in {0, 2, 4, 6} : 2 * (h \div 2) = h
    BY SMT
  <2> QED BY <2>1, <2>2 DEF Mem!ReadWord, MemWord, Word
<1>5. CASE state = "PAUSE1"
  <2>1. ASSUME NEW w \in Ways, Hit(w)
        PROVE  Entry(w) = MemWord(Logical, op.tag, op.bank, Word(op))
    <3>1. ~Unsettled(w, op.bank, Word(op)) /\ Complete(data[w][op.bank][Word(op)])
      BY <1>5, <2>1 DEF Unsettled, Complete, Hit, data_valid, Entry
    <3>2. tag[w][op.bank] = op.tag
      BY <2>1 DEF Hit, tag_hit
    <3> QED BY <1>1, <3>1, <3>2 DEF SettledRight, Entry
  <2>2. Hit(1) \/ Hit(2)
    BY <1>1, <1>5 DEF Handshake
  <2>3. data_to_cpu = IF Hit(1) THEN Entry(1) ELSE Entry(2)
    BY <1>5 DEF data_to_cpu, readword_burst
  <2> QED BY <1>3, <1>4, <2>1, <2>2, <2>3 DEF Ways
<1>6. CASE state = "FILL" /\ beat = 3
  <2>1. latched_cpuaddr = op.bank /\ tag[Filled][op.bank] = op.tag /\ readword = Word(op)
    BY <1>1, <1>6 DEF TagsRight, tag_hit
  <2>2. Pending = Word(op)
    BY <1>6, <2>1 DEF Pending
  <2>3. firstword = MemWord(Logical, op.tag, op.bank, Word(op))
    BY <1>1, <1>6, <2>1, <2>2 DEF FillRight
  <2> QED BY <1>3, <1>4, <1>6, <2>3 DEF data_to_cpu, readword_burst
<1> QED BY <1>2, <1>5, <1>6

LEMMA MemoryStep ==
  ASSUME CoherenceInv, IInv, [Next]_vars
  PROVE  \/ Mem!Next
         \/ Logical' = Logical /\ Asked' = Asked /\ result' = result
<1>1. CASE UNCHANGED vars
  BY <1>1 DEF vars, ports, buffervars, chipvars, Logical, writecache_req, Buffered, Asked
<1>2. CASE Next
  <2>1. PICK vga_refresh \in RefreshInputs, video \in VideoInputs : Edge(vga_refresh, video)
    BY <1>2 DEF Next
  <2>2. /\ TypeOK /\ SlotsRight /\ Handshake
        /\ req \in BOOLEAN /\ op \in Requests /\ writecache_dtack \in BOOLEAN
        /\ cpu_ack \in BOOLEAN
        /\ Chip(video) /\ WriteBuffer /\ CpuEdge
        /\ workload \in Workloads
    BY <2>1 DEF CoherenceInv, IInv, Ranges, TypeOK, CacheTypeOK, Edge
  <2>3. /\ writecache_dtack' = ~Takes
        /\ ~Takes => Logical' = Logical
        /\ Takes => Logical' = Mem!Written(Logical, op)
    BY <2>2, LogicalNext DEF WriteBuffer
  <2>4. CASE req /\ writecache_dtack /\ cpu_ack
    <3>1. ~op.wr /\ busy /\ data_to_cpu = Mem!ReadWord(Logical, op)
      BY <2>4, RightWord
    <3>2. req' = FALSE /\ result' = <<data_to_cpu>>
      BY <2>2, <2>4, <3>1, CpuMoves DEF dtack1
    <3>3. Logical' = Logical
      BY <2>3, <3>1 DEF Takes
    <3>4. Asked = {op} /\ Asked' = {}
      BY <2>4, <3>2 DEF Asked
    <3>5. Mem!Answer
      BY <3>1, <3>2, <3>3, <3>4 DEF Mem!Answer, Asked
    <3> QED BY <3>5 DEF Mem!Next
  <2>5. CASE req /\ writecache_dtack /\ ~cpu_ack
    <3>1. req' = req /\ op' = op /\ result' = <<>>
      BY <2>2, <2>5, CpuMoves DEF dtack1
    <3>2. CASE Takes
      <4>1. Asked = {op} /\ Asked' = {}
        BY <2>3, <2>5, <3>2 DEF Asked
      <4>2. Mem!Answer
        BY <2>3, <3>1, <3>2, <4>1 DEF Mem!Answer, Asked, Takes
      <4> QED BY <4>2 DEF Mem!Next
    <3>3. CASE ~Takes
      <4>1. Asked' = Asked
        BY <2>3, <2>5, <3>1, <3>3 DEF Asked
      <4>2. result # <<>> => Mem!Forget
        BY <2>3, <3>1, <3>3, <4>1 DEF Mem!Forget, Asked
      <4> QED BY <2>3, <3>1, <3>3, <4>1, <4>2 DEF Mem!Next
    <3> QED BY <3>2, <3>3
  <2>6. CASE req /\ ~writecache_dtack
    <3>1. op.wr /\ writecache_req
      BY <2>2, <2>6 DEF Handshake, CoherenceInv
    <3>2. req' = FALSE /\ result' = <<>>
      BY <2>2, <2>6, <3>1, CpuMoves DEF dtack1
    <3>3. Logical' = Logical
      BY <2>3, <3>1 DEF Takes
    <3>4. Asked = {} /\ Asked' = {}
      BY <2>6, <3>2 DEF Asked
    <3>5. result # <<>> => Mem!Forget
      BY <3>2, <3>3, <3>4 DEF Mem!Forget, Asked
    <3> QED BY <3>2, <3>3, <3>4, <3>5 DEF Mem!Next
  <2>7. CASE ~req
    <3>1. result' = <<>> /\ Logical' = Logical /\ writecache_dtack' = TRUE
      BY <2>2, <2>3, <2>7, CpuMoves DEF Takes
    <3>2. (req' = req /\ op' = op) \/ (req' = TRUE /\ op' \in Requests)
      <4>1. workload.requests \subseteq Requests
        BY <2>2 DEF Requests
      <4> QED BY <2>2, <2>7, <4>1 DEF CpuEdge, ports
    <3>3. Asked = {}
      BY <2>7 DEF Asked
    <3>4. CASE req' = req
      <4>1. Asked' = {}
        BY <2>7, <3>4 DEF Asked
      <4>2. result # <<>> => Mem!Forget
        BY <3>1, <3>3, <4>1 DEF Mem!Forget, Asked
      <4> QED BY <3>1, <3>3, <4>1, <4>2 DEF Mem!Next
    <3>5. CASE req' = TRUE /\ op' \in Requests
      <4>1. Asked' = {op'}
        BY <3>1, <3>5 DEF Asked
      <4>2. Mem!Ask
        BY <3>1, <3>3, <3>5, <4>1 DEF Mem!Ask, Asked
      <4> QED BY <4>2 DEF Mem!Next
    <3> QED BY <3>2, <3>4, <3>5
  <2> QED BY <2>2, <2>4, <2>5, <2>6, <2>7
<1> QED BY <1>1, <1>2

\* Buffer, cache, slots and chip together are the memory the CPU is promised,
\* for any rows, banks and requests: a read returns what was written last.
THEOREM MemoryImplemented == Spec => ImplementsMemory
<1>1. Init => Mem!Init
  BY DEF Init, Mem!Init, Logical, writecache_req
<1>2. CoherenceInv /\ IInv /\ [Next]_vars => [Mem!Next]_(Mem!vars)
  <2>1. SUFFICES ASSUME CoherenceInv, IInv, [Next]_vars
                 PROVE  Mem!Next \/ UNCHANGED Mem!vars
    OBVIOUS
  <2> QED BY <2>1, MemoryStep DEF Asked, Mem!vars
<1> QED BY InitIInv, StepIInv, InitCoherence, CoherenceStays, <1>1, <1>2, PTL
        DEF Spec, ImplementsMemory, Mem!Spec

=============================================================================
