----------------------------- MODULE TwoWayCache -----------------------------
(***************************************************************************)
(* The CPU's cache (src/RTL/RAM/TwoWayCache.v): two ways, each with a tag  *)
(* and four 32-bit words per line, each word with a valid mark of its own, *)
(* in block RAM.  A read that hits is answered at once; one that misses    *)
(* fetches the line in a burst of eight halfwords, the wanted word first,  *)
(* and is answered after two of them; a write updates the ways that hold   *)
(* its line, or marks the word invalid there when it covers only part.     *)
(*                                                                         *)
(* One step is one rising edge of clk.  The block RAMs are written one     *)
(* edge after the state machine decided to, at the address the CPU or the  *)
(* burst shows then (tag_wren, data_wren), as in the code.  Their read     *)
(* registers are left out: in WAITRD and WRITE1, where they are looked at, *)
(* the address has been up for a cycle, so they show what the RAM holds.   *)
(* A data register that is loaded again before it is read again is given   *)
(* its initial value, so that states that differ in it alone are one.      *)
(***************************************************************************)
EXTENDS Integers

CONSTANTS
  Tags,      \* cpu_addr[27:11], which is also the SDRAM's row
  Banks,     \* cpu_addr[5:4]; one cache line of each bank is modelled, so
             \* the bank is also the index of the line
  Bytes      \* bound: the values of a byte

ASSUME AddressAssumption == Tags \subseteq Nat /\ 0 \in Tags /\ Banks \subseteq Nat

VARIABLES
  \* ports driven by the toplevel
  req,             \* cpu_req
  op,              \* cpu_addr, cpu_rw, cpu_rwu2, cpu_rwl, cpu_rwu, data_from_cpu
  \* registers
  state,           \* FILL2 to FILL9 are "FILL" with beat 2 to 9
  beat,
  busy,
  cpu_ack,
  readword,
  latched_cpuaddr,
  firstword,
  tag_mru1,
  tag_wren, data_wren,             \* the ways whose RAM is written next
  data_ports_w_hi, data_ports_w,
  \* block RAM
  tag, mru, data

ports == <<req, op>>
cachevars == <<state, beat, busy, cpu_ack, readword, latched_cpuaddr,
               firstword, tag_mru1, tag_wren, data_wren, data_ports_w_hi,
               data_ports_w, tag, mru, data>>

Ways == {1, 2}
Words == 0..3
Halves == 0..7
Half == Bytes \X Bytes

\* A halfword of the data RAM whose valid bits are clear.
Invalid == <<>>

Blank == <<Invalid, Invalid>>

Word(o) == o.half \div 2

-----------------------------------------------------------------------------
(* What the cache reads from its RAMs.                                     *)

tag_hit(w) == tag[w][op.bank] = op.tag

Entry(w) == data[w][op.bank][Word(op)]

data_valid(w) == Entry(w)[1] # Invalid /\ Entry(w)[2] # Invalid

Hit(w) == tag_hit(w) /\ data_valid(w)

\* Registered in WAITFILL and FILL2 to FILL8, so it is up in FILL2 to FILL9.
readword_burst == state = "FILL"

\* Raised on the way into WAITFILL, cleared on the way out.
sdram_req == state = "WAITFILL"

data_to_cpu ==
  IF readword_burst THEN firstword ELSE IF Hit(1) THEN Entry(1) ELSE Entry(2)

\* The way that a fill writes to.
FillWay == {IF tag_mru1 THEN 1 ELSE 2}

-----------------------------------------------------------------------------
(* Edges.                                                                  *)

DataLine == IF readword_burst THEN latched_cpuaddr ELSE op.bank
DataWord == IF readword_burst THEN readword ELSE Word(op)

\* The RAMs take what their write enables asked for at the edge before.
RamWrites ==
  /\ tag' = [w \in Ways |->
               IF w \in tag_wren /\ tag_mru1 = (w = 1)
                 THEN [tag[w] EXCEPT ![op.bank] = op.tag] ELSE tag[w]]
  /\ mru' = IF 1 \in tag_wren THEN [mru EXCEPT ![op.bank] = tag_mru1] ELSE mru
  /\ data' = [w \in Ways |->
                IF w \in data_wren
                  THEN [data[w] EXCEPT ![DataLine][DataWord] =
                          <<data_ports_w_hi, data_ports_w>>]
                  ELSE data[w]]

NoTagWrite == tag_wren' = {} /\ UNCHANGED tag_mru1
NoDataWrite ==
  data_wren' = {} /\ data_ports_w_hi' = Invalid /\ data_ports_w' = Invalid
NoFill ==
  beat' = 2 /\ readword' = 0 /\ firstword' = Blank /\ UNCHANGED latched_cpuaddr

WAITING ==
  /\ state = "WAITING"
  /\ state' = IF ~req THEN "WAITING" ELSE IF op.wr THEN "WRITE1" ELSE "WAITRD"
  /\ busy' = FALSE
  /\ cpu_ack' = FALSE
  /\ NoTagWrite /\ NoDataWrite /\ NoFill

WRITE1_Skip ==
  /\ state = "WRITE1"
  /\ state' = "WRITE2"
  /\ busy' = FALSE
  /\ cpu_ack' = FALSE
  /\ data_ports_w_hi' = op.value[1]
  /\ data_ports_w' = op.value[2]
  /\ data_wren' = IF op.wrU2 THEN {} ELSE {w \in Ways : tag_hit(w)}
  /\ tag_wren' = IF \E w \in Ways : tag_hit(w) THEN {1} ELSE {}
  /\ tag_mru1' = IF tag_hit(2) THEN FALSE ELSE IF tag_hit(1) THEN TRUE ELSE tag_mru1
  /\ NoFill

\* Both ways may hold the line; each that does takes the word.  A write of
\* less than a word leaves the word invalid.
WRITE1 ==
  /\ state = "WRITE1"
  /\ state' = "WRITE2"
  /\ busy' = FALSE
  /\ cpu_ack' = FALSE
  /\ data_ports_w_hi' = IF op.wrU2 THEN Invalid ELSE op.value[1]
  /\ data_ports_w' = IF op.wrU2 THEN Invalid ELSE op.value[2]
  /\ data_wren' = {w \in Ways : tag_hit(w)}
  /\ tag_wren' = IF \E w \in Ways : tag_hit(w) THEN {1} ELSE {}
  /\ tag_mru1' = IF tag_hit(2) THEN FALSE ELSE IF tag_hit(1) THEN TRUE ELSE tag_mru1
  /\ NoFill

WRITE2 ==
  /\ state = "WRITE2"
  /\ state' = IF req THEN "WRITE2" ELSE "WAITING"
  /\ busy' = FALSE
  /\ cpu_ack' = FALSE
  /\ NoTagWrite /\ NoDataWrite /\ NoFill

WAITRD_Hit ==
  /\ state = "WAITRD"
  /\ \E w \in Ways : Hit(w)
  /\ state' = "PAUSE1"
  /\ busy' = TRUE
  /\ cpu_ack' = TRUE
  /\ tag_mru1' = Hit(1)
  /\ tag_wren' = {1}
  /\ NoDataWrite /\ NoFill

\* A way with the right tag is filled again; without one, the way that was
\* not used last.
WAITRD_Miss ==
  /\ state = "WAITRD"
  /\ \A w \in Ways : ~Hit(w)
  /\ state' = "WAITFILL"
  /\ busy' = TRUE
  /\ cpu_ack' = FALSE
  /\ latched_cpuaddr' = op.bank
  /\ tag_mru1' = IF tag_hit(1) THEN TRUE
                 ELSE IF tag_hit(2) THEN FALSE ELSE ~mru[op.bank]
  /\ tag_wren' = Ways
  /\ NoDataWrite
  /\ beat' = 2 /\ readword' = 0 /\ firstword' = Blank

PAUSE1 ==
  /\ state = "PAUSE1"
  /\ state' = IF req THEN "PAUSE1" ELSE "WAITING"
  /\ busy' = TRUE
  /\ cpu_ack' = req
  /\ NoTagWrite /\ NoDataWrite /\ NoFill

WAITFILL(sdram_fill, data_from_sdram) ==
  /\ state = "WAITFILL"
  /\ busy' = TRUE
  /\ cpu_ack' = FALSE
  /\ readword' = Word(op)
  /\ data_wren' = {}
  /\ IF sdram_fill
       THEN /\ state' = "FILL" /\ beat' = 2
            /\ firstword' = <<data_from_sdram, firstword[2]>>
            /\ data_ports_w_hi' = data_from_sdram
       ELSE UNCHANGED <<state, beat, firstword, data_ports_w_hi>>
  /\ data_ports_w' = Invalid
  /\ NoTagWrite
  /\ UNCHANGED latched_cpuaddr

\* The beats in which the CPU is told that it has its word: long enough for it
\* to take it, over before it can have asked for the next.
AckBeats_Long == {3, 4, 5}
AckBeats == {3, 4}

\* Even beats bring the lower half of a word and write it, odd ones the
\* upper half of the next.  The CPU has its word from beat 2 on, and two
\* cycles to take it.
FILL(data_from_sdram) ==
  /\ state = "FILL"
  /\ busy' = TRUE
  /\ cpu_ack' = (beat = 2 \/ (beat \in AckBeats /\ req))
  /\ NoTagWrite
  /\ IF beat = 9
       THEN state' = "WAITING" /\ NoDataWrite /\ NoFill
       ELSE /\ state' = "FILL"
            /\ beat' = beat + 1
            /\ firstword' = CASE beat = 2 -> <<firstword[1], data_from_sdram>>
                              [] beat = 3 -> firstword
                              [] OTHER -> Blank
            /\ readword' = IF beat \in {4, 6, 8} THEN (readword + 1) % 4 ELSE readword
            /\ IF beat % 2 = 0
                 THEN /\ data_wren' = FillWay
                      /\ data_ports_w' = data_from_sdram
                      /\ UNCHANGED data_ports_w_hi
                 ELSE /\ data_wren' = {}
                      /\ data_ports_w_hi' = data_from_sdram
                      /\ data_ports_w' = Invalid
            /\ UNCHANGED latched_cpuaddr

CacheEdge(sdram_fill, data_from_sdram) ==
  /\ RamWrites
  /\ \/ WAITING \/ WRITE1 \/ WRITE2
     \/ WAITRD_Hit \/ WAITRD_Miss \/ PAUSE1
     \/ WAITFILL(sdram_fill, data_from_sdram)
     \/ FILL(data_from_sdram)

\* After INIT1 and INIT2 no word is valid.  The tags are not initialised, and
\* nothing keeps them apart: the RAM holds the same in both ways at power-up.
CacheInit ==
  /\ state = "WAITING" /\ beat = 2
  /\ busy = FALSE /\ cpu_ack = FALSE
  /\ readword = 0 /\ latched_cpuaddr = op.bank
  /\ firstword = Blank
  /\ tag_mru1 = FALSE /\ tag_wren = {} /\ data_wren = {}
  /\ data_ports_w_hi = Invalid /\ data_ports_w = Invalid
  /\ tag = [w \in Ways |-> [b \in Banks |-> 0]]
  /\ mru = [b \in Banks |-> FALSE]
  /\ data = [w \in Ways |-> [b \in Banks |-> [k \in Words |-> Blank]]]

CacheTypeOK ==
  /\ state \in {"WAITING", "WRITE1", "WRITE2", "WAITRD", "PAUSE1", "WAITFILL", "FILL"}
  /\ beat \in 2..9
  /\ busy \in BOOLEAN /\ cpu_ack \in BOOLEAN
  /\ readword \in Words /\ latched_cpuaddr \in Banks
  /\ firstword \in (Half \cup {Invalid}) \X (Half \cup {Invalid})
  /\ tag_mru1 \in BOOLEAN
  /\ tag_wren \subseteq Ways /\ data_wren \subseteq Ways
  /\ data_ports_w_hi \in Half \cup {Invalid}
  /\ data_ports_w \in Half \cup {Invalid}
  /\ tag \in [Ways -> [Banks -> Tags]]
  /\ mru \in [Banks -> BOOLEAN]
  /\ data \in [Ways -> [Banks -> [Words ->
                 (Half \cup {Invalid}) \X (Half \cup {Invalid})]]]

=============================================================================
