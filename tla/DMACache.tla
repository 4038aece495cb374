------------------------------ MODULE DMACache ------------------------------
(***************************************************************************)
(* The DMA cache: one FIFO in block RAM per DMA channel (VGA, sprite, the  *)
(* sound channels, the TFT), refilled by bursts from SDRAM that one input  *)
(* state machine fetches for whichever channel has room, and drained one   *)
(* word per request of the channel's host.                                 *)
(*                                                                         *)
(* One step is one rising edge of clk.  Every register that the two        *)
(* processes, the FIFO counters and the RAM assign at that edge is primed, *)
(* and every right-hand side reads the value from before it, so the delays *)
(* of the code (a fill is counted one edge after it happened, a word is in *)
(* the RAM one edge after it was received) are those of the model.         *)
(* Addresses are in words; the code's are in bytes and even.               *)
(***************************************************************************)
EXTENDS Integers, FiniteSets

CONSTANTS
  Channels,   \* 0..DMACache_MaxChannel
  Burst,      \* words in an SDRAM burst: 8
  Depth,      \* words in a channel's FIFO: 64
  Bases,      \* bound: the addresses hosts set
  Lens,       \* bound: the lengths hosts request
  MaxLengths  \* bound: the lengths a host sets for one address; addresses it
              \* sets as often as it likes

ASSUME SizeAssumption ==
  /\ Channels \subseteq Nat
  /\ Burst \in Nat /\ Burst > 1
  /\ Depth \in Nat /\ Depth > Burst

ASSUME AlignmentAssumption == Burst % 2 = 0 /\ Depth % Burst = 0

ASSUME HostAssumption ==
  /\ Bases \subseteq Nat /\ Lens \subseteq Nat
  /\ MaxLengths \in Nat

VARIABLES
  \* the input side
  inputstate,   \* 0 is rd1, n is rcv<n>
  active,       \* activechannel
  sdram_req,
  addr, count, extend, done, wrptr,    \* per channel
  write,        \* cache_wren, cache_wraddr, data_from_ram: {} or one write
  \* the output side
  pending, rdptr,                      \* per channel
  valid,        \* channels whose valid is high
  rdaddr,       \* cache_rdaddr
  mem,          \* the block RAM: the address of the word in each slot
  \* the FIFO counters
  fill, drain, counter,                \* per channel
  \* SDRAM (external)
  sdram,        \* "idle", "ack" in the cycle of the ack, "wait", "fill"
  column,       \* the burst it is serving
  \* history
  loaded,       \* channels that have been given an address
  base,         \* the address last set
  due,          \* words to receive before the length last set can be read
  wr, rd,       \* words received and words served since then
  early,        \* the word being served had not been received
  tainted,      \* channels given an address while they were busy
  unseen,       \* channels whose length was set when the alignment test saw
                \* an aligned address, whatever the one of their stream
  lengths,      \* lengths set since the last address, per channel
  hosted        \* channels whose host set an address or a length just now

inputVars  == <<inputstate, active, sdram_req, addr, count, extend, done, wrptr, write>>
outputVars == <<pending, rdptr, valid, rdaddr, mem>>
fifoVars   == <<fill, drain, counter>>
sdramVars  == <<sdram, column>>
history    == <<loaded, base, due, wr, rd, early, tainted, unseen, lengths, hosted>>
vars == <<inputVars, outputVars, fifoVars, sdramVars, history>>

Slots == 0 .. Depth - 1
None  == -1

TypeOK ==
  /\ inputstate \in 0 .. Burst
  /\ active \in Channels
  /\ sdram_req \in BOOLEAN
  /\ addr \in [Channels -> Nat] /\ count \in [Channels -> Int]
  /\ extend \in [Channels -> BOOLEAN] /\ done \in [Channels -> BOOLEAN]
  /\ wrptr \in [Channels -> Slots]
  /\ write \in SUBSET (Channels \X Int \X Int)
  /\ pending \in [Channels -> BOOLEAN] /\ rdptr \in [Channels -> Slots]
  /\ valid \subseteq Channels
  /\ rdaddr \in Channels \X Slots
  /\ fill \in [Channels -> BOOLEAN] /\ drain \in [Channels -> BOOLEAN]
  /\ counter \in [Channels -> 0 .. 2 * Depth - 1]
  /\ sdram \in {"idle", "ack", "wait", "fill"} /\ column \in Int
  /\ loaded \subseteq Channels /\ tainted \subseteq Channels
  /\ base \in [Channels -> Nat] /\ due \in [Channels -> Nat]
  /\ wr \in [Channels -> Nat] /\ rd \in [Channels -> Nat]
  /\ early \in BOOLEAN /\ unseen \subseteq Channels /\ hosted \subseteq Channels
  /\ lengths \in [Channels -> Nat]

EachChannel(x) == [c \in Channels |-> x]

(* Power-up: the reset clears the counts, the rest of the registers hold    *)
(* zero and are set with the first address.                                 *)
Init ==
  /\ inputstate = 0 /\ active \in Channels /\ sdram_req = FALSE
  /\ addr = EachChannel(0) /\ count = EachChannel(0)
  /\ extend = EachChannel(FALSE) /\ done = EachChannel(FALSE)
  /\ wrptr = EachChannel(0) /\ write = {}
  /\ pending = EachChannel(FALSE) /\ rdptr = EachChannel(0)
  /\ valid = {} /\ rdaddr = <<active, 0>>
  /\ mem = [c \in Channels |-> [s \in Slots |-> None]]
  /\ fill = EachChannel(FALSE) /\ drain = EachChannel(FALSE)
  /\ counter = EachChannel(0)
  /\ sdram = "idle" /\ column = 0
  /\ loaded = {} /\ tainted = {} /\ early = FALSE
  /\ unseen = {} /\ lengths = EachChannel(0) /\ hosted = {}
  /\ base = EachChannel(0) /\ due = EachChannel(0)
  /\ wr = EachChannel(0) /\ rd = EachChannel(0)

-----------------------------------------------------------------------------
(* FIFO_Counter. *)

full(c)  == counter[c] >= Depth - Burst
empty(c) == counter[c] = 0

(* The value the counter takes when its channel is given an address.  A     *)
(* definition named X_Y is X with a plausible bug, for the check that the    *)
(* properties can fail; nothing uses it.                                    *)
CounterReset_Zero == 0
CounterReset == 1

Up(n)   == IF n = 2 * Depth - 1 THEN 0 ELSE n + 1
Down(n) == IF n = 0 THEN 2 * Depth - 1 ELSE n - 1

FIFOCounters(setaddr) ==
  counter' = [c \in Channels |->
    IF c \in setaddr THEN CounterReset
    ELSE IF fill[c] /\ ~drain[c] THEN Up(counter[c])
    ELSE IF drain[c] /\ ~fill[c] THEN Down(counter[c])
    ELSE counter[c]]

-----------------------------------------------------------------------------
(* The input process. *)

sdram_ack  == sdram = "ack"
sdram_fill == sdram = "fill"

(* A word of the burst arrives in this cycle: rcv1 waits for the first, the *)
(* others follow one per cycle.                                             *)
Receiving == IF inputstate = 1 THEN sdram_fill ELSE inputstate > 1

LastWord == inputstate = Burst

(* rd1, and rcv8 once more: the lowest channel with room and words to fetch. *)
Wants_NoLast == {c \in Channels : c + 1 \in Channels /\ ~full(c) /\ count[c] > 0}

Wants == {c \in Channels : ~full(c) /\ count[c] > 0}

Arbitrate ==
  IF Wants = {}
  THEN inputstate' = 0 /\ sdram_req' = FALSE /\ UNCHANGED active
  ELSE /\ \E c \in Wants : (\A d \in Wants : c <= d) /\ active' = c
       /\ inputstate' = 1
       /\ sdram_req' = TRUE

Rd1 ==
  /\ inputstate = 0
  /\ Arbitrate

Rcv1Wait ==
  /\ inputstate = 1 /\ ~sdram_fill
  /\ sdram_req' = (sdram_req /\ ~sdram_ack)
  /\ UNCHANGED <<inputstate, active>>

RcvWord ==
  /\ Receiving /\ ~LastWord
  /\ inputstate' = inputstate + 1
  /\ UNCHANGED <<sdram_req, active>>

RcvLast ==
  /\ Receiving /\ LastWord
  /\ Arbitrate

(* The address and the count of the active channel move on with the ack; an *)
(* extra burst leaves the count alone.  A reload wins over both.            *)
Address(setaddr, a) ==
  addr' = [c \in Channels |->
    IF c \in setaddr THEN a
    ELSE IF sdram_ack /\ c = active THEN addr[c] + Burst
    ELSE addr[c]]

Count_NoExtend(setaddr, setreqlen, l) ==
  count' = [c \in Channels |->
    IF c \in setreqlen THEN l
    ELSE IF c \in setaddr THEN 0
    ELSE IF sdram_ack /\ c = active THEN count[c] - Burst
    ELSE count[c]]

Count(setaddr, setreqlen, l) ==
  count' = [c \in Channels |->
    IF c \in setreqlen THEN l
    ELSE IF c \in setaddr THEN 0
    ELSE IF sdram_ack /\ c = active /\ ~extend[c] THEN count[c] - Burst
    ELSE count[c]]

(* "internals(I).addr(2 downto 0)": the address before this edge, and the   *)
(* test is of half a burst.                                                 *)
Extend(setreqlen) ==
  extend' = [c \in Channels |->
    IF c \in setreqlen THEN addr[c] % (Burst \div 2) # 0
    ELSE extend[c] /\ ~(sdram_ack /\ c = active)]

Done(setreqlen) ==
  done' = [c \in Channels |->
    c \notin setreqlen /\ (done[c] \/ (inputstate = 0 /\ count[c] = 0))]

WritePointer_NoWrap(setaddr) ==
  wrptr' = [c \in Channels |->
    IF c \in setaddr THEN 0
    ELSE IF Receiving /\ LastWord /\ c = active THEN wrptr[c] + Burst
    ELSE wrptr[c]]

WritePointer(setaddr) ==
  wrptr' = [c \in Channels |->
    IF c \in setaddr THEN 0
    ELSE IF Receiving /\ LastWord /\ c = active THEN (wrptr[c] + Burst) % Depth
    ELSE wrptr[c]]

(* The word received is registered together with the slot it goes to: the   *)
(* pointer before this edge, "otherwise last word of the burst is lost".    *)
WritePort_Moved ==
  write' = IF Receiving
           THEN {<<active, wrptr'[active] + inputstate - 1, column + inputstate - 1>>}
           ELSE {}

WritePort ==
  write' = IF Receiving
           THEN {<<active, wrptr[active] + inputstate - 1, column + inputstate - 1>>}
           ELSE {}

Fill ==
  fill' = [c \in Channels |-> Receiving /\ c = active]

InputProcess(setaddr, setreqlen, a, l) ==
  /\ Rd1 \/ Rcv1Wait \/ RcvWord \/ RcvLast
  /\ Address(setaddr, a)
  /\ Count(setaddr, setreqlen, l)
  /\ Extend(setreqlen)
  /\ Done(setreqlen)
  /\ WritePointer(setaddr)
  /\ WritePort
  /\ Fill

-----------------------------------------------------------------------------
(* The output process: the lowest channel with a request pending and a word *)
(* in its FIFO is served.                                                   *)

Serviceable == {c \in Channels : pending[c] /\ ~empty(c)}

Served(c) == c \in Serviceable /\ \A d \in Serviceable : c <= d

(* "Offset to allow non-aligned accesses." *)
StartSlot(a) == a % Burst

OutputProcess(setaddr, req, a) ==
  /\ pending' = [c \in Channels |->
       c \notin setaddr /\ ~Served(c) /\ (pending[c] \/ c \in req)]
  /\ rdptr' = [c \in Channels |->
       IF c \in setaddr THEN StartSlot(a)
       ELSE IF Served(c) THEN (rdptr[c] + 1) % Depth
       ELSE rdptr[c]]
  /\ drain' = [c \in Channels |-> Served(c)]
  /\ valid' = {c \in Channels : Served(c)}
  /\ \/ Serviceable = {} /\ UNCHANGED rdaddr
     \/ \E c \in Channels : Served(c) /\ rdaddr' = <<c, rdptr[c]>>

(* DMACacheRAM: the registered write lands. *)
RAM ==
  \/ write = {} /\ UNCHANGED mem
  \/ \E w \in write : mem' = [mem EXCEPT ![w[1]][w[2]] = w[3]]

data_out == mem[rdaddr[1]][rdaddr[2]]

-----------------------------------------------------------------------------
(* The SDRAM controller, as the cache uses it: it takes a request when it   *)
(* can, latching the burst that holds the address; acknowledges it in the   *)
(* next cycle; and some cycles later delivers the burst.                    *)

Sdram(move) ==
  \/ /\ sdram = "idle"
     /\ IF sdram_req /\ move
        THEN sdram' = "ack" /\ column' = addr[active] - (addr[active] % Burst)
        ELSE UNCHANGED sdramVars
  \/ sdram = "ack" /\ sdram' = "wait" /\ UNCHANGED column
  \/ sdram = "wait" /\ sdram' = (IF move THEN "fill" ELSE "wait") /\ UNCHANGED column
  \/ /\ sdram = "fill"
     /\ IF LastWord THEN sdram' = "idle" /\ column' = 0 ELSE UNCHANGED sdramVars

-----------------------------------------------------------------------------
(* What the properties remember.  A length counts from the start of the     *)
(* stream, which may lie within its first burst, or if the stream had one   *)
(* already, from the words received.  SeesOffset is what the alignment test *)
(* can see: the address that was set before this cycle, and that it is not  *)
(* on half a burst.                                                         *)

Busy(c) == inputstate # 0 /\ active = c

Offset(c) == base[c] % Burst

SeesOffset(c) == base[c] % (Burst \div 2) # 0

FirstLength(c, setaddr) == c \in setaddr \/ due[c] = 0

History(setaddr, setreqlen, a, l) ==
  /\ loaded' = loaded \union setaddr
  /\ tainted' = (tainted \ setaddr) \union {c \in setaddr : Busy(c) \/ Served(c)}
  /\ base' = [c \in Channels |-> IF c \in setaddr THEN a ELSE base[c]]
  /\ wr' = [c \in Channels |->
       IF c \in setaddr THEN 0
       ELSE IF Receiving /\ c = active THEN wr[c] + 1 ELSE wr[c]]
  /\ rd' = [c \in Channels |->
       IF c \in setaddr THEN 0 ELSE IF Served(c) THEN rd[c] + 1 ELSE rd[c]]
  /\ due' = [c \in Channels |->
       IF c \in setreqlen /\ l > 0
       THEN wr'[c] + l + (IF FirstLength(c, setaddr) THEN base'[c] % Burst ELSE 0)
       ELSE IF c \in setaddr \union setreqlen THEN 0
       ELSE due[c]]
  /\ unseen' = (unseen \ (setaddr \union setreqlen))
                  \union {c \in setreqlen : FirstLength(c, setaddr) /\ ~SeesOffset(c)}
  /\ early' = \E c \in Channels : Served(c) /\ wr[c] <= Offset(c) + rd[c]
  /\ lengths' = [c \in Channels |->
       (IF c \in setaddr THEN 0 ELSE lengths[c]) + (IF c \in setreqlen THEN 1 ELSE 0)]
  /\ hosted' = setaddr \union setreqlen

(* What the hosts do in this cycle: set addresses; set lengths of channels  *)
(* that have an address or get one now, as the sound controller does, which *)
(* sets both at once, or apart, as the VGA controller does; request words.  *)
HostsMay(setaddr, setreqlen, req) ==
  /\ req \subseteq loaded
  /\ setreqlen \subseteq loaded \union setaddr
  /\ \A c \in setreqlen \ setaddr : lengths[c] < MaxLengths

Cycle(setaddr, setreqlen, req, a, l) ==
  /\ HostsMay(setaddr, setreqlen, req)
  /\ InputProcess(setaddr, setreqlen, a, l)
  /\ OutputProcess(setaddr, req, a)
  /\ FIFOCounters(setaddr)
  /\ RAM
  /\ History(setaddr, setreqlen, a, l)

Step(move) ==
  /\ Sdram(move)
  /\ \E setaddr, setreqlen, req \in SUBSET Channels, a \in Bases, l \in Lens :
       Cycle(setaddr, setreqlen, req, a, l)

Next == \E move \in BOOLEAN : Step(move)

Spec == Init /\ [][Next]_vars

-----------------------------------------------------------------------------
(* Properties.  A channel that was given an address while a burst was on    *)
(* its way to it, or a word was being served, is tainted until the next     *)
(* address: the words of the old burst go into the new stream, and nothing  *)
(* is claimed of it.                                                        *)

Clean == loaded \ tainted

(* Words the cache still has to receive of the burst it has asked for. *)
Remaining(c) == IF Busy(c) THEN Burst - (inputstate - 1) ELSE 0

(* No word is overwritten before it has been read: a burst is only started  *)
(* when the FIFO has room for all of it, although the counter that says so  *)
(* lags behind the words, and channels are refilled in turn.                *)
NoOverflow == \A c \in Clean : wr[c] - rd[c] <= Depth

(* A word served is the next word of the stream, whatever the bursts, the   *)
(* wraps of the pointers, the refills of other channels and the reloads in  *)
(* between; provided it had been received.  (It may not have been: the      *)
(* counter starts at one, so an empty FIFO does not report empty, and a     *)
(* request made right after the address is set is served at once, with      *)
(* whatever the RAM holds.)                                                 *)
ServedInOrder ==
  \A c \in Clean \cap valid : ~early => data_out = base[c] + rd[c] - 1

(* When nothing more will be fetched for a channel, or done says so, the    *)
(* words up to the length the host has set have been received, besides the  *)
(* words of the first burst that lie before the start of the stream; but    *)
(* where the test has not seen that the stream starts within a burst, as    *)
(* many words as that may be missing at its end, and no more.               *)
Stopped(c) == done[c] \/ (count[c] <= 0 /\ ~Busy(c))

Missing(c) == IF c \in unseen THEN Offset(c) ELSE 0

EnoughWords ==
  \A c \in Clean : Stopped(c) => wr[c] + Missing(c) >= due[c]

(* What the code says of it: streams that start within a burst get an extra *)
(* burst, and so all of their words.                                        *)
UnalignedGetsExtra ==
  \A c \in Clean : Stopped(c) => wr[c] >= due[c]

(* A request of a channel with words left to fetch is served, unless the    *)
(* hosts of channels with lower numbers, which go first at both ends of the *)
(* cache, set new addresses or lengths for ever: a burst under way and all  *)
(* that lower channels still have to fetch or to serve only delay it.  The  *)
(* first channel is always served.                                          *)
RequestServed ==
  \A c \in Channels :
    <>[](pending[c] /\ count[c] > 0) =>
      \E d \in {e \in Channels : e < c} : []<>(d \in hosted)

-----------------------------------------------------------------------------
(* The strengthening that makes NoOverflow inductive: the counter is one    *)
(* more than the words held, but for the fill and the drain that it has not *)
(* seen yet, and a burst that has been asked for has room.                  *)

Lag(b) == IF b THEN 1 ELSE 0

CounterRight ==
  \A c \in Clean : counter[c] = 1 + wr[c] - Lag(fill[c]) - rd[c] + Lag(drain[c])

Room == \A c \in Clean : wr[c] - rd[c] + Remaining(c) <= Depth

DrainOnce == \A c \in Clean : drain[c] => counter[c] >= 1 /\ ~pending[c]

IInv ==
  /\ TypeOK
  /\ CounterRight
  /\ Room
  /\ DrainOnce

-----------------------------------------------------------------------------
(* The strengthening that makes ServedInOrder inductive.  A channel has     *)
(* received Got words of its burst, which is the one that began after Begun *)
(* words; after the ack, the address is past it.                            *)

Got(c)   == IF Busy(c) THEN inputstate - 1 ELSE 0
Begun(c) == wr[c] - Got(c)

Acked(c) == Busy(c) /\ sdram \in {"wait", "fill"}
Past(c)  == IF Acked(c) THEN Burst ELSE 0

(* The input process and the SDRAM controller agree on whether a burst is   *)
(* asked for, acknowledged or arriving.                                     *)
InStep ==
  /\ inputstate = 0 => sdram = "idle" /\ ~sdram_req
  /\ inputstate = 1 => (sdram_req <=> sdram \in {"idle", "ack"})
  /\ inputstate > 1 => sdram = "fill" /\ ~sdram_req

(* Bursts begin where the last one ended, in memory and in the FIFO; the    *)
(* first one at the burst that holds the channel's address.                 *)
InputAligned ==
  \A c \in Clean :
    /\ Begun(c) \in Nat /\ Begun(c) % Burst = 0
    /\ wrptr[c] = Begun(c) % Depth
    /\ addr[c] = base[c] + Begun(c) + Past(c)
    /\ Busy(c) /\ sdram # "idle" => column = base[c] - Offset(c) + Begun(c)

OutputAligned == \A c \in Clean : rdptr[c] = (Offset(c) + rd[c]) % Depth

(* The word received last is on its way into the slot it belongs to; the    *)
(* others that have not been overwritten are in theirs.                     *)
Place(c, i) == <<c, i % Depth, base[c] - Offset(c) + i>>

Writing ==
  \A c \in Clean :
    IF fill[c] THEN wr[c] > 0 /\ write = {Place(c, wr[c] - 1)}
    ELSE \A w \in write : w[1] # c

WordsPlaced ==
  /\ mem \in [Channels -> [Slots -> Int]]
  /\ \A c \in Clean : \A i \in 0 .. wr[c] - 1 :
       wr[c] - Depth <= i /\ (fill[c] => i # wr[c] - 1) =>
         mem[c][i % Depth] = base[c] - Offset(c) + i

OrderInv ==
  /\ IInv
  /\ InStep /\ InputAligned /\ OutputAligned /\ Writing /\ WordsPlaced
  /\ ServedInOrder

(* And EnoughWords: what has been received, what the burst under way will   *)
(* bring and what is still to be asked for cover the words that are due;    *)
(* the extra burst is owed only while there are words to ask for.           *)
Arriving(c) == IF Acked(c) THEN Remaining(c) ELSE 0
Extra(c)    == IF extend[c] THEN Burst ELSE 0
ToCome(c)   == Arriving(c) + count[c] + Extra(c)

(* The address register moves by whole bursts from the address set, also of *)
(* a channel that got it in the middle of a burst: the test sees the offset *)
(* of the address set last.                                                 *)
AddressOffset ==
  \A c \in Channels : addr[c] % (Burst \div 2) = base[c] % (Burst \div 2)

Covered ==
  \A c \in Clean :
    /\ due[c] <= wr[c] + ToCome(c) + Missing(c)
    /\ extend[c] /\ due[c] > 0 => count[c] > 0
    /\ done[c] => due[c] <= wr[c] + Missing(c)

EnoughInv == OrderInv /\ AddressOffset /\ Covered

=============================================================================
