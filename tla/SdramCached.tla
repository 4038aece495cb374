----------------------------- MODULE SdramCached -----------------------------
(***************************************************************************)
(* The SDRAM controller (src/RTL/RAM/sdram_cached.vhd) with its cache, the *)
(* CPU that uses it and the SDRAM chip.  Sixteen phases hold two access    *)
(* slots that overlap: slot 1 opens a row in phase 2 and is done in phase  *)
(* 1, slot 2 runs eight phases later.  Video, refresh, the CPU's one-word  *)
(* write buffer and the fills of its cache compete for them.               *)
(*                                                                         *)
(* One step is one rising edge of sysclk, at which every register of the   *)
(* controller, the cache and the toplevel's CPU interface moves.  What     *)
(* slot 2 does is what slot 1 does eight phases later, so both are written *)
(* once, At(s, p) being phase p of slot s.  The model begins when init_done *)
(* and cache_ready are up.                                                 *)
(***************************************************************************)
EXTENDS TwoWayCache

CONSTANTS
  Contents,     \* what the SDRAM holds at first
  Workloads     \* bound: each has the requests the CPU makes, the banks that
                \* video reads or reserves, and whether refresh is due at times

Requests == UNION {w.requests : w \in Workloads}

ASSUME WorkloadAssumption ==
  \A w \in Workloads : /\ w.requests # {} /\ w.video \subseteq Banks
                       /\ w.refresh \in BOOLEAN

Operations ==
  [wr : BOOLEAN, tag : Tags, bank : Banks, half : Halves, wrU2 : BOOLEAN,
   dqm : SUBSET {1, 2}, value : (Half \cup {Invalid}) \X (Half \cup {Invalid})]

\* What the toplevel asks for: words, which all reads are of, begin at an even
\* halfword, and a write of less than a word masks bytes of its one halfword only.
ASSUME RequestAssumption ==
  \A o \in Requests :
    /\ o \in Operations
    /\ o.wr => o.value \in Half \X Half
    /\ ~o.wr \/ ~o.wrU2 => o.half \in {0, 2, 4, 6}
    /\ ~o.wrU2 => o.dqm = {}

Memories == [Tags -> [Banks -> [Halves -> Half]]]

ASSUME ContentsAssumption == Contents \in Memories

VARIABLES
  \* the controller
  phase,                     \* sdram_state: ph0 to ph15
  slot,                      \* sdram_slot1, sdram_slot2
  bank,                      \* slot1_bank, slot2_bank
  casaddr,                   \* its column: the halfword a burst begins at
  refreshpending,
  writecache,                \* writecache_addr, _word0, _word1 and _dqm while
                             \* writecache_req is up, and otherwise {}
  writecache_dtack, writecache_ack,
  \* the CPU
  result,                    \* the word a read has just returned
  workload,                  \* what this run of the system does
  \* the SDRAM chip (external)
  open,                      \* the row that is open, per bank
  column,                    \* where the read burst of a slot began
  store,
  fault                      \* has a command come that the chip forbids?

slotvars == <<phase, slot, bank, casaddr, refreshpending>>
buffervars == <<writecache, writecache_dtack, writecache_ack>>
chipvars == <<open, column, store, fault>>
vars == <<ports, cachevars, slotvars, buffervars, result, workload, chipvars>>

Slots == {1, 2}
Other(s) == 3 - s
Users == {"port0", "port1", "writecache"}   \* of a slot that opens a row

None == -1       \* no bank
Closed == -1     \* no row
VideoRow == -2   \* whichever row video reads

At(s, p) == phase = (p + 8 * (s - 1)) % 16

\* slot1_fill and slot2_fill: the slot whose read burst is in sdata_reg.
Filling == IF phase \in 2..9 THEN 2 ELSE 1

-----------------------------------------------------------------------------
(* The requests of the toplevel (src/SDBootstrap/RTL/Virtual_Toplevel.vhd).*)
(* wrU2 and dqm say which halfword and which byte of the lower halfword    *)
(* are not written.                                                        *)

ReadRequest(t, b, w) ==
  [wr |-> FALSE, tag |-> t, bank |-> b, half |-> 2 * w, wrU2 |-> FALSE,
   dqm |-> {}, value |-> Blank]

WriteWord(t, b, w, value) ==
  [ReadRequest(t, b, w) EXCEPT !.wr = TRUE, !.value = value]

\* ZPU is big-endian: the byte at the even address is the upper one, and
\* a byte to be written is in both.
WriteByte(t, b, h, odd, byte) ==
  [ReadRequest(t, b, 0) EXCEPT
     !.wr = TRUE, !.half = h, !.wrU2 = TRUE, !.dqm = IF odd THEN {1} ELSE {2},
     !.value = <<<<byte, byte>>, <<byte, byte>>>>]

WriteHalf(t, b, h, half) ==
  [ReadRequest(t, b, 0) EXCEPT
     !.wr = TRUE, !.half = h, !.wrU2 = TRUE, !.value = <<half, half>>]

-----------------------------------------------------------------------------
(* Which port gets a slot.                                                 *)

writecache_req == writecache # {}

Buffered == CHOOSE w \in writecache : TRUE

\* The other slot is not busy with this bank.  A definition named X_Y is X
\* with a plausible bug, for the check that the properties can fail; nothing
\* uses it.
FreeBank_Stale(b, other) == b # bank[other]
FreeBank(b, other) == slot[other] = "idle" \/ b # bank[other]

WriteMayUse(other) ==
  /\ writecache_req
  /\ slot[other] # "writecache"
  /\ FreeBank(Buffered.bank, other)

ReadMayUse(other) == sdram_req /\ FreeBank(op.bank, other)

Slot1Port_Eager(video) ==
  IF refreshpending THEN "refresh"
  ELSE IF video # None THEN IF FreeBank(video, 2) THEN "port0" ELSE "idle"
  ELSE IF WriteMayUse(2) THEN "writecache"
  ELSE IF ReadMayUse(2) THEN "port1"
  ELSE "idle"

\* video is the bank of vga_addr, or None without vga_req.
Slot1Port(video) ==
  IF refreshpending /\ slot[2] = "idle" THEN "refresh"
  ELSE IF video # None THEN IF FreeBank(video, 2) THEN "port0" ELSE "idle"
  ELSE IF WriteMayUse(2) THEN "writecache"
  ELSE IF ReadMayUse(2) THEN "port1"
  ELSE "idle"

Slot2Port_Always(video) ==
  IF slot[1] = "refresh" THEN "idle"
  ELSE IF WriteMayUse(1) /\ Buffered.bank # video THEN "writecache"
  ELSE IF ReadMayUse(1) /\ op.bank # video THEN "port1"
  ELSE "idle"

\* video is the bank of vga_reserveaddr, or None without vga_reservebank.
Slot2Port(video) ==
  IF refreshpending \/ slot[1] = "refresh" THEN "idle"
  ELSE IF WriteMayUse(1) /\ Buffered.bank # video THEN "writecache"
  ELSE IF ReadMayUse(1) /\ op.bank # video THEN "port1"
  ELSE "idle"

PortBank(port, video) ==
  IF port = "port0" THEN video
  ELSE IF port = "writecache" THEN Buffered.bank ELSE op.bank

PortColumn(port) ==
  IF port = "port0" THEN 0
  ELSE IF port = "writecache" THEN Buffered.half ELSE 2 * Word(op)

PortRow(port) ==
  IF port = "port0" THEN VideoRow
  ELSE IF port = "writecache" THEN Buffered.tag ELSE op.tag

\* What is decided at this edge, and for which slot.
NewPort(video) ==
  IF phase = 2 THEN Slot1Port(video)
  ELSE IF phase = 10 THEN Slot2Port(video) ELSE "none"

Opens(video) == NewPort(video) \in Users
NewBank(video) == PortBank(NewPort(video), video)

SlotControl(video) ==
  /\ slot' = [s \in Slots |-> IF At(s, 2) THEN NewPort(video) ELSE slot[s]]
  /\ bank' = [s \in Slots |->
                IF At(s, 2) /\ Opens(video) THEN NewBank(video) ELSE bank[s]]
  /\ casaddr' = IF Opens(video) THEN PortColumn(NewPort(video)) ELSE casaddr

\* The slots that give a command at this edge, or a burst's second halfword.
Reads == {s \in Slots : At(s, 5) /\ slot[s] \in {"port0", "port1"}}
Writes == {s \in Slots : At(s, 9) /\ slot[s] = "writecache"}
SecondWords == {s \in Slots : At(s, 10) /\ slot[s] = "writecache"}
Precharges_Slot1 == {s \in {1} : At(s, 12) /\ slot[s] = "writecache"}
Precharges == {s \in Slots : At(s, 12) /\ slot[s] = "writecache"}

\* While a refresh is in its slot the request for one is held down.
RefreshTimer(vga_refresh) ==
  refreshpending' = (slot[1] # "refresh" /\ (refreshpending \/ vga_refresh))

-----------------------------------------------------------------------------
(* The chip (external).                                                    *)

\* A read has auto precharge: its row is closed when the burst has come.
BurstEnds == {s \in Slots : At(s, 1) /\ slot[s] \in {"port0", "port1"}}

\* A halfword is written, its masked bytes excepted.
Merged(old, word, dqm) == [i \in {1, 2} |-> IF i \in dqm THEN old[i] ELSE word[i]]
Put(m, t, b, h, word, dqm) == [m EXCEPT ![t][b][h] = Merged(@, word, dqm)]

\* It goes to the row that is open.
Stored(s, h, word, dqm) ==
  IF open[bank[s]] \notin Tags THEN store
  ELSE Put(store, open[bank[s]], bank[s], h, word, dqm)

\* The chip counts the column up within the eight halfwords of a burst.
Chip(video) ==
  /\ open' = [b \in Banks |->
                IF Opens(video) /\ b = NewBank(video) THEN PortRow(NewPort(video))
                ELSE IF \E s \in Precharges \cup BurstEnds : bank[s] = b
                  THEN Closed ELSE open[b]]
  /\ column' = [s \in Slots |-> IF s \in Reads THEN casaddr
                               ELSE IF s \in BurstEnds THEN 0 ELSE column[s]]
  /\ IF Writes # {}
       THEN \E s \in Writes :
              store' = Stored(s, casaddr, Buffered.word0, Buffered.dqm0)
     ELSE IF SecondWords # {}
       THEN \E s \in SecondWords :
              store' = Stored(s, (casaddr + 1) % 8, Buffered.word1, Buffered.dqm1)
     ELSE UNCHANGED store
  /\ fault' = \/ fault
              \/ Opens(video) /\ open[NewBank(video)] # Closed
              \/ NewPort(video) = "refresh" /\ \E b \in Banks : open[b] # Closed
              \/ \E s \in Reads \cup Writes : open[bank[s]] = Closed

readcache_fill == slot[Filling] = "port1"

\* sdata_reg while a burst comes in; what it is otherwise nobody looks at.
sdata_reg ==
  LET b == bank[Filling] IN
  IF readcache_fill /\ open[b] \in Tags
    THEN store[open[b]][b][(column[Filling] + phase + 6) % 8]
    ELSE Invalid

-----------------------------------------------------------------------------
(* The write buffer and the CPU.                                           *)

Takes == req /\ op.wr /\ ~writecache_req /\ ~busy

WriteBuffer_NoWrap ==
  /\ writecache' =
       IF Takes
         THEN {[tag |-> op.tag, bank |-> op.bank,
                half |-> IF op.wrU2 THEN op.half - 1 ELSE op.half,
                word0 |-> op.value[1], dqm0 |-> IF op.wrU2 THEN {1, 2} ELSE {},
                word1 |-> op.value[2], dqm1 |-> op.dqm]}
         ELSE IF writecache_ack THEN {} ELSE writecache
  /\ writecache_dtack' = ~Takes
  /\ writecache_ack' = (SecondWords # {})

\* A write of less than a word has its data in the second halfword of the
\* burst, so that one begins a halfword early, with the first masked.
WriteBuffer ==
  /\ writecache' =
       IF Takes
         THEN {[tag |-> op.tag, bank |-> op.bank,
                half |-> IF op.wrU2 THEN (op.half + 7) % 8 ELSE op.half,
                word0 |-> op.value[1], dqm0 |-> IF op.wrU2 THEN {1, 2} ELSE {},
                word1 |-> op.value[2], dqm1 |-> op.dqm]}
         ELSE IF writecache_ack THEN {} ELSE writecache
  /\ writecache_dtack' = ~Takes
  /\ writecache_ack' = (SecondWords # {})

\* dtack1 is low in a cycle in which the CPU's request is done.
dtack1 == writecache_dtack /\ ~cpu_ack

CpuEdge ==
  \/ /\ req /\ dtack1
     /\ UNCHANGED ports
     /\ result' = <<>>
  \/ /\ req /\ ~dtack1
     /\ req' = FALSE
     /\ result' = IF op.wr THEN <<>> ELSE <<data_to_cpu>>
     /\ UNCHANGED op
  \/ /\ ~req
     /\ \/ UNCHANGED ports
        \/ req' = TRUE /\ op' \in workload.requests
     /\ result' = <<>>

-----------------------------------------------------------------------------
Init ==
  /\ workload \in Workloads
  /\ req = FALSE /\ op = (CHOOSE o \in workload.requests : TRUE)
  /\ result = <<>>
  /\ CacheInit
  /\ phase = 0
  /\ slot = <<"refresh", "idle">>
  /\ bank = [s \in Slots |-> op.bank]
  /\ casaddr = 0 /\ refreshpending = FALSE
  /\ writecache = {} /\ writecache_dtack = TRUE /\ writecache_ack = FALSE
  /\ open = [b \in Banks |-> Closed] /\ column = [s \in Slots |-> 0]
  /\ store = Contents /\ fault = FALSE

\* video is looked at when slot 1 (vga_req) and slot 2 (vga_reservebank) are
\* given away.
Edge(vga_refresh, video) ==
  /\ phase' = (phase + 1) % 16
  /\ CpuEdge
  /\ WriteBuffer
  /\ CacheEdge(readcache_fill, sdata_reg)
  /\ RefreshTimer(vga_refresh)
  /\ SlotControl(video)
  /\ Chip(video)
  /\ UNCHANGED workload

VideoInputs == {None} \cup IF phase \in {2, 10} THEN workload.video ELSE {}

\* vga_refresh is a pulse, once per scanline; all that matters of it is before
\* which decision it comes.
RefreshInputs == {FALSE, workload.refresh /\ phase \in {1, 9}}

Next == \E vga_refresh \in RefreshInputs, video \in VideoInputs :
          Edge(vga_refresh, video)

\* A cycle in which video leaves slot 1 alone and no refresh is due.
Quiet == phase = 2 /\ ~refreshpending /\ Edge(FALSE, None)

Fairness == WF_vars(Next) /\ SF_vars(Quiet)

Spec == Init /\ [][Next]_vars /\ Fairness

-----------------------------------------------------------------------------
(* Properties.                                                             *)

Buffers ==
  [tag : Tags, bank : Banks, half : Halves,
   word0 : Half, dqm0 : SUBSET {1, 2}, word1 : Half, dqm1 : SUBSET {1, 2}]

\* Every register and the memory have their types.
TypeOK ==
  /\ CacheTypeOK
  /\ req \in BOOLEAN /\ op \in Requests
  /\ phase \in 0..15
  /\ slot \in [Slots -> {"idle", "refresh"} \cup Users]
  /\ slot[2] \notin {"refresh", "port0"}
  /\ bank \in [Slots -> Banks]
  /\ casaddr \in Halves
  /\ refreshpending \in BOOLEAN
  /\ writecache \subseteq Buffers /\ \A w1, w2 \in writecache : w1 = w2
  /\ writecache_dtack \in BOOLEAN
  /\ writecache_ack \in BOOLEAN
  /\ open \in [Banks -> Tags \cup {Closed, VideoRow}]
  /\ column \in [Slots -> Halves]
  /\ store \in Memories

\* Two slots overlap in time; they never work on the same bank
\* (sdram_cached.vhd:453, 599).
SlotsApart ==
  slot[1] \in Users /\ slot[2] \in Users => bank[1] # bank[2]

\* A slot has its row open from its ACTIVE command to the precharge of a write
\* or the end of the burst of a read.
HasRow(s) ==
  /\ slot[s] \in Users
  /\ ~At(s, 2)
  /\ slot[s] = "writecache" => \A p \in {13, 14, 15, 0, 1} : ~At(s, p)

\* A row is open in the chip exactly while a slot works on it: none is left
\* open for the next user of the bank to run into, and none is closed under a
\* burst (sdram_cached.vhd:515, 672).
RowsOwned ==
  \A b \in Banks :
    open[b] # Closed <=> \E s \in Slots : HasRow(s) /\ bank[s] = b

\* The controller gives the chip no command it forbids: no row is opened in a
\* bank that has one open, nothing is refreshed while one is, and every read
\* and write finds its row.
NoFault == ~fault

\* What the memory holds for the CPU: the chip's contents, and over them the
\* write that is still in the buffer.
First(m, o) == Put(m, o.tag, o.bank, o.half, o.word0, o.dqm0)
Second(m, o) == Put(m, o.tag, o.bank, (o.half + 1) % 8, o.word1, o.dqm1)

Logical == IF writecache_req THEN Second(First(store, Buffered), Buffered) ELSE store

MemWord(m, t, b, k) == <<m[t][b][2 * k], m[t][b][2 * k + 1]>>

\* Whenever the cache is about to look a request up, every word that it would
\* give to a reader is the word in memory, in both ways (TwoWayCache.v:299).
CacheCoherent ==
  state \in {"WAITING", "WAITRD"} /\ data_wren = {} /\ tag_wren = {} =>
    LET m == Logical IN
    \A w \in Ways, b \in Banks, k \in Words :
      data[w][b][k][1] # Invalid /\ data[w][b][k][2] # Invalid =>
        data[w][b][k] = MemWord(m, tag[w][b], b, k)

Mem == INSTANCE Memory WITH
         mem <- Logical,
         request <- IF req /\ writecache_dtack THEN {op} ELSE {}

\* Buffer, cache, slots and chip together are the memory the CPU is promised:
\* a read returns what was written last, although writes are answered before
\* they are done and the rest of a line still arrives when its reader goes on.
ImplementsMemory == Mem!Spec

\* Refresh is not starved, whatever video and the CPU ask for.
RefreshServed == refreshpending ~> slot[1] = "refresh"

\* Every request of the CPU is answered, if video leaves slot 1 to it again
\* and again.
RequestAnswered == req ~> ~req

-----------------------------------------------------------------------------
(* The strengthening that makes coherence inductive.                       *)

\* How long ago slot s was given away: 1 in the first cycle of its new user,
\* 8 when the other slot is, 16 when it is given away again.
Age(s) == 1 + ((phase + 21 - 8 * s) % 16)

\* The way that is being filled.
Filled == IF tag_mru1 THEN 1 ELSE 2

\* The request that the state machine of the cache works on is still there,
\* and answered at most once, by the buffer or by the cache.
Handshake ==
  /\ state \in {"WRITE1", "WRITE2"} \/ writecache_dtack
  /\ state \in {"WAITRD", "WAITFILL"} \/ (state = "FILL" /\ beat < 4) => req /\ ~op.wr
  /\ state = "WRITE1" => req
  /\ state \in {"WRITE1", "WRITE2"} => op.wr
  /\ state = "PAUSE1" /\ req => ~op.wr /\ (Hit(1) \/ Hit(2))
  /\ state = "FILL" /\ beat = 4 => ~req
  /\ cpu_ack <=> state = "PAUSE1" \/ (state = "FILL" /\ beat \in {3, 4})
  /\ state \in {"PAUSE1", "WAITFILL", "FILL"} => busy

\* A tag changes only where a line is to be filled.
TagsRight ==
  /\ state \notin {"PAUSE1", "WRITE2", "WAITFILL"} => tag_wren = {}
  /\ state \in {"PAUSE1", "WRITE2"} =>
       /\ 2 \notin tag_wren
       /\ 1 \in tag_wren /\ tag_mru1 => tag_hit(1)
  /\ state = "WAITFILL" =>
       /\ latched_cpuaddr = op.bank
       /\ tag_wren = Ways \/ (tag_wren = {} /\ tag_hit(Filled))
  /\ state = "FILL" /\ beat < 4 =>
       latched_cpuaddr = op.bank /\ tag_hit(Filled) /\ readword = Word(op)

\* The word of the line that a fill writes next, and those still to be written.
Pending == IF beat \in {4, 6, 8} THEN (readword + 1) % 4 ELSE readword
StillToFill == {(Pending + i) % 4 : i \in 0 .. 3 - (beat - 2) \div 2}

\* The words of the cache that need not be those of memory: the one that is
\* being written, and those of a line that is being filled.
Unsettled(w, b, k) ==
  \/ /\ state \in {"WRITE1", "WRITE2"}
     /\ b = op.bank /\ tag[w][b] = op.tag /\ k = Word(op)
  \/ state = "WAITFILL" /\ w = Filled /\ b = latched_cpuaddr
  \/ state = "FILL" /\ w = Filled /\ b = latched_cpuaddr /\ k \in StillToFill

Complete(word) == word[1] # Invalid /\ word[2] # Invalid

SettledRight ==
  \A w \in Ways, b \in Banks, k \in Words :
    ~Unsettled(w, b, k) /\ Complete(data[w][b][k]) =>
      data[w][b][k] = MemWord(Logical, tag[w][b], b, k)

\* A write is in the ways that hold its line, or about to be, when the cache
\* is done with it, and in memory from when the buffer has answered it.
NewEntry == IF op.wrU2 THEN Blank ELSE op.value

WriteRight ==
  /\ state = "WRITE2" =>
       /\ \A w \in data_wren : tag_hit(w) /\ <<data_ports_w_hi, data_ports_w>> = NewEntry
       /\ \A w \in Ways : tag_hit(w) => w \in data_wren \/ Entry(w) = NewEntry
  /\ state \in {"WRITE1", "WRITE2"} /\ (~req \/ ~writecache_dtack) /\ ~op.wrU2 =>
       op.value = MemWord(Logical, op.tag, op.bank, Word(op))

\* A fill has the halfwords that have come, in their order.
FillRight ==
  /\ state \notin {"WRITE2", "FILL"} => data_wren = {}
  /\ state = "FILL" =>
       LET word == MemWord(Logical, tag[Filled][latched_cpuaddr], latched_cpuaddr, Pending)
       IN  /\ \E s \in Slots : slot[s] = "port1" /\ Age(s) = beat + 7
           /\ data_ports_w_hi = word[1]
           /\ beat \in {2, 4, 6, 8} => data_wren = {}
           /\ beat \in {3, 5, 7, 9} => data_wren = FillWay /\ data_ports_w = word[2]
           /\ beat = 2 => firstword[1] = word[1]
           /\ beat = 3 => firstword = word

\* A slot that reads for the cache reads the line and the word that the cache
\* waits for, which no write in the buffer touches, and the cache follows its
\* burst cycle by cycle.
ReadUnderWay(s) ==
  LET b == bank[s] IN
  /\ state = IF Age(s) < 9 THEN "WAITFILL" ELSE "FILL"
  /\ Age(s) > 8 => beat = Age(s) - 7
  /\ tag_wren = {}
  /\ b = latched_cpuaddr
  /\ Age(s) < 16 => open[b] = tag[Filled][b]
  /\ Age(s) < 4 => casaddr = 2 * Word(op)
  /\ Age(s) \in 4..8 => column[s] = 2 * Word(op)
  /\ Age(s) \in 9..15 => column[s] = 2 * ((Pending + 4 - (beat - 2) \div 2) % 4)
  /\ writecache_req => Buffered.bank # b

\* A slot that writes has the write that is in the buffer, which stays there
\* until both halfwords are stored.
WriteUnderWay(s) ==
  /\ writecache_req /\ ~writecache_ack
  /\ bank[s] = Buffered.bank
  /\ open[bank[s]] = Buffered.tag
  /\ casaddr = Buffered.half
  /\ Age(s) = 8 => First(store, Buffered) = store

SlotsRight ==
  /\ \A s \in Slots : slot[s] = "port1" => ReadUnderWay(s)
  /\ \A s \in Slots : slot[s] = "writecache" /\ Age(s) < 9 => WriteUnderWay(s)
  /\ writecache_ack => writecache_req /\ Logical = store /\ phase \in {3, 11}

CoherenceInv ==
  /\ TypeOK /\ SlotsApart /\ RowsOwned
  /\ Handshake /\ TagsRight
  /\ SettledRight /\ WriteRight /\ FillRight
  /\ SlotsRight
  /\ writecache_dtack \/ writecache_req

=============================================================================
