------------------------------- MODULE SDCard -------------------------------
(***************************************************************************)
(* The SD card driver (spi.c) and the search for a file system (FindDrive  *)
(* in fat.c), one command of cmd_write at a time, against a card that may  *)
(* miss a command or whose answer may be lost; cmd_write then returns 0xff *)
(* after so many bytes.  Old cards are addressed in bytes, high-capacity   *)
(* ones in blocks: sd_is_sdhc says which, and every argument that          *)
(* cmd_write sends, an address or not, is shifted unless it is set.        *)
(*                                                                         *)
(* A program is started when the one before has ended, with the card as    *)
(* that one left it: the boot loader initialises the card, and so does the *)
(* application it loads.                                                   *)
(***************************************************************************)
EXTENDS Integers

CONSTANTS
  Resets,     \* tries of the reset command: 6
  Inits,      \* tries of wait_init: 19
  Rounds,     \* rounds of is_sdhc: 48
  Polls,      \* tries of wait_initV2 in a round: 19999
  BlockSize,  \* bytes of a block: 512
  Blocks,     \* blocks of the card
  Start,      \* the first block of a partition
  MaxPolls,   \* bound: how often a card is asked before it is ready
  MaxLost,    \* bound: commands missed or answers lost
  MaxStarts   \* bound: programs started

ASSUME SDCardAssumption ==
  /\ Resets \in Nat \ {0} /\ Inits \in Nat \ {0}
  /\ Rounds \in Nat \ {0} /\ Polls \in Nat \ {0}
  /\ BlockSize \in Nat \ {0, 1} /\ Blocks \in Nat \ {0}
  /\ Start \in 1 .. Blocks - 1
  /\ MaxPolls \in Nat /\ MaxLost \in Nat /\ MaxStarts \in Nat

VARIABLES
  card,        \* external: the card in the slot, and what the driver made of it
  pc,          \* the command spi_init sends next, or how far the program came
  tries,       \* the counter of the innermost loop
  rounds,      \* the counter of is_sdhc
  sd_is_sdhc,
  lost,        \* history: commands missed and answers lost, up to the bound
  unseen,      \* history: an answer that settles the addressing was lost
  starts       \* history: programs started, up to the bound

cardVars == <<card, pc, tries, rounds, sd_is_sdhc, lost, unseen, starts>>

Commands == {"CMD0", "CMD8", "CMD1", "CMD55", "CMD41", "CMD58", "CMD16"}
Ends     == {"off", "failed", "mounted", "unmounted"}

(* Standard capacity without and with CMD8, high capacity, and no card.     *)
Kinds == {"V1", "V2", "HC", "absent"}

(* partitioned: the file system is not on block 0 but starts at Start.      *)
Cards == [kind : Kinds, state : {"native", "idle", "ready"}, polls : 0 .. MaxPolls,
          sized : BOOLEAN, partitioned : BOOLEAN]

(* The R1 answers that occur; no answer reads as the idle bus. *)
OK       == 0
Idle     == 1
Illegal  == 5
BadCRC   == 9
NoAnswer == 255
R1       == {OK, Idle, Illegal, BadCRC, NoAnswer}

CardTypeOK ==
  /\ card \in Cards /\ pc \in Commands \union Ends \union {"up"}
  /\ tries \in Nat /\ rounds \in Nat /\ sd_is_sdhc \in BOOLEAN
  /\ lost \in 0 .. MaxLost /\ unseen \in BOOLEAN /\ starts \in 0 .. MaxStarts

-----------------------------------------------------------------------------
(* The card. *)

Reply(c, r) == [card |-> c, r1 |-> r]

(* Asked to initialise, it is busy for some polls, then ready.  A           *)
(* high-capacity card waits until the host has said that it knows such      *)
(* cards: bit 30 of the argument of CMD41, which a shift pushes out.        *)
Initialise(may) ==
  IF card.state = "ready" \/ (may /\ card.polls = 0)
  THEN Reply([card EXCEPT !.state = "ready"], OK)
  ELSE Reply([card EXCEPT !.polls = IF may THEN @ - 1 ELSE @], Idle)

(* The answers to a command that arrives. *)
Answers(cmd) ==
  IF card.kind = "absent" THEN {Reply(card, NoAnswer)}
  ELSE CASE cmd = "CMD0"  -> {Reply([card EXCEPT !.state = "idle", !.polls = p,
                                                 !.sized = (card.kind = "HC")], Idle) :
                              p \in 0 .. MaxPolls}
         [] cmd = "CMD8"  -> {Reply(card, IF card.kind = "V1" THEN Illegal
                                          ELSE IF sd_is_sdhc THEN Idle ELSE BadCRC)}
         [] cmd = "CMD1"  -> {Initialise(card.kind # "HC")}
         [] cmd = "CMD41" -> {Initialise(card.kind # "HC" \/ sd_is_sdhc)}
         [] cmd \in {"CMD55", "CMD58"} -> {Reply(card, IF card.state = "ready" THEN OK ELSE Idle)}
         [] cmd = "CMD16" -> {IF card.state = "ready"
                              THEN Reply([card EXCEPT !.sized = card.kind = "HC" \/ ~sd_is_sdhc], OK)
                              ELSE Reply(card, Illegal)}

(* cmd_write: the command arrives and is answered with r; or it is missed,  *)
(* or its answer is lost, and cmd_write gives up.                           *)
cmd_write(cmd, r) ==
  \E a \in Answers(cmd) :
    \/ card' = a.card /\ r = a.r1 /\ UNCHANGED <<lost, unseen>>
    \/ /\ lost < MaxLost /\ lost' = lost + 1
       /\ card' \in {card, a.card} /\ r = NoAnswer
       /\ unseen' = (\/ unseen
                     \/ cmd \in {"CMD58", "CMD16"}
                     \/ cmd = "CMD41" /\ card'.state = "ready")

-----------------------------------------------------------------------------
(* The driver. *)

Go(to, t, n) == pc' = to /\ tries' = t /\ rounds' = n

(* A program starts, and spi_init takes the card for a high-capacity one.   *)
(* A definition named X_Y is X with a plausible bug, for the check that the *)
(* properties can fail; nothing uses it.                                    *)
spi_init_KeepFlag ==
  /\ pc \in Ends /\ starts < MaxStarts
  /\ starts' = starts + 1 /\ unseen' = FALSE
  /\ sd_is_sdhc' = FALSE
  /\ Go("CMD0", Resets, 0)
  /\ UNCHANGED <<card, lost>>

spi_init ==
  /\ pc \in Ends /\ starts < MaxStarts
  /\ starts' = starts + 1 /\ unseen' = FALSE
  /\ sd_is_sdhc' = TRUE
  /\ Go("CMD0", Resets, 0)
  /\ UNCHANGED <<card, lost>>

cmd_reset ==
  /\ pc = "CMD0"
  /\ \E r \in R1 :
       /\ cmd_write("CMD0", r)
       /\ IF r = Idle THEN Go("CMD8", 0, 0)
          ELSE IF tries = 1 THEN Go("failed", 0, 0)
          ELSE Go("CMD0", tries - 1, 0)
  /\ UNCHANGED <<sd_is_sdhc, starts>>

(* Anything but the answer of a version 2 card is taken for an old card. *)
is_sdhc ==
  /\ pc = "CMD8"
  /\ \E r \in R1 :
       /\ cmd_write("CMD8", r)
       /\ IF r = Idle THEN Go("CMD55", Polls, Rounds) ELSE Go("CMD1", Inits, 0)
  /\ UNCHANGED <<sd_is_sdhc, starts>>

(* is_sdhc returns 0: "If not SDHC, Set blocksize to 512 bytes". *)
NotSDHC == sd_is_sdhc' = FALSE /\ Go("CMD16", 0, 0)

wait_init ==
  /\ pc = "CMD1"
  /\ \E r \in R1 :
       /\ cmd_write("CMD1", r)
       /\ IF r = OK \/ tries = 1 THEN NotSDHC
          ELSE Go("CMD1", tries - 1, 0) /\ UNCHANGED sd_is_sdhc
  /\ UNCHANGED starts

NextRound_Forever ==
  Go("CMD55", Polls, rounds) /\ UNCHANGED sd_is_sdhc

NextRound ==
  IF rounds = 1 THEN NotSDHC
  ELSE Go("CMD55", Polls, rounds - 1) /\ UNCHANGED sd_is_sdhc

NextPoll ==
  IF tries = 1 THEN NextRound
  ELSE Go("CMD55", tries - 1, rounds) /\ UNCHANGED sd_is_sdhc

wait_initV2 ==
  /\ \E r \in R1 :
       \/ /\ pc = "CMD55" /\ cmd_write("CMD55", r)
          /\ IF r = Idle THEN Go("CMD41", tries, rounds) /\ UNCHANGED sd_is_sdhc ELSE NextPoll
       \/ /\ pc = "CMD41" /\ cmd_write("CMD41", r)
          /\ IF r = OK THEN Go("CMD58", 0, rounds) /\ UNCHANGED sd_is_sdhc ELSE NextPoll
  /\ UNCHANGED starts

(* The capacity bit follows the answer. *)
ReadOCR ==
  /\ pc = "CMD58"
  /\ \E r \in R1 :
       /\ cmd_write("CMD58", r)
       /\ IF r # OK THEN NextRound
          ELSE IF card.kind # "HC" THEN NotSDHC
          ELSE Go("up", 0, 0) /\ sd_is_sdhc' = TRUE
  /\ UNCHANGED starts

(* The answer is not looked at. *)
SetBlockSize ==
  /\ pc = "CMD16"
  /\ \E r \in R1 : cmd_write("CMD16", r)
  /\ Go("up", 0, 0)
  /\ UNCHANGED <<sd_is_sdhc, starts>>

(* The block that a read of block b gets, or none. *)
NoBlock == -1

BlockRead(b) ==
  LET arg == IF sd_is_sdhc THEN b ELSE b * BlockSize
      n   == IF card.kind = "HC" THEN arg
             ELSE IF arg % BlockSize = 0 THEN arg \div BlockSize
             ELSE NoBlock
  IN  IF card.state = "ready" /\ n < Blocks THEN n ELSE NoBlock

(* FindDrive reads block 0 and, when that holds no file system, the first   *)
(* block of the partition; another block does not look like either.  A      *)
(* read may also fail.                                                      *)
FindsVolume ==
  /\ BlockRead(0) = 0
  /\ card.partitioned => BlockRead(Start) = Start

FindDrive ==
  /\ pc = "up"
  /\ \/ FindsVolume /\ Go("mounted", 0, 0) /\ UNCHANGED lost
     \/ ~FindsVolume /\ Go("unmounted", 0, 0) /\ UNCHANGED lost
     \/ lost < MaxLost /\ lost' = lost + 1 /\ Go("unmounted", 0, 0)
  /\ UNCHANGED <<card, sd_is_sdhc, unseen, starts>>

CardInit ==
  /\ card \in [kind : Kinds, state : {"native"}, polls : {0}, sized : {FALSE},
               partitioned : BOOLEAN]
  /\ pc = "off" /\ tries = 0 /\ rounds = 0 /\ sd_is_sdhc = FALSE
  /\ lost = 0 /\ unseen = FALSE /\ starts = 0

Driver ==
  \/ cmd_reset \/ is_sdhc \/ wait_init \/ wait_initV2 \/ ReadOCR \/ SetBlockSize

CardNext == spi_init \/ Driver \/ FindDrive

CardSpec == CardInit /\ [][CardNext]_cardVars

-----------------------------------------------------------------------------
(* Properties. *)

RightlyAddressed == sd_is_sdhc = (card.kind = "HC")

(* The loops have more tries than the card is busy. *)
Enough == MaxPolls < Inits /\ MaxPolls < Rounds * Polls

(* After initialisation a card that is ready is addressed as it expects,    *)
(* with blocks of the right size, whatever was lost on the way, unless that *)
(* was the last answer of the card becoming ready, of CMD58 or of CMD16.    *)
(* When nothing was lost, a card that needs no more polls than the loops    *)
(* have comes up, and only an empty slot fails.  And a partitioned card is  *)
(* never mounted with the wrong addressing.                                 *)
CardRight ==
  /\ pc \in {"up", "mounted", "unmounted"} =>
       /\ card.state = "ready" /\ ~unseen =>
            RightlyAddressed /\ card.sized
       /\ lost = 0 /\ card.kind # "absent" /\ Enough => card.state = "ready"
  /\ pc = "failed" /\ lost = 0 => card.kind = "absent"
  /\ pc = "mounted" /\ card.partitioned => RightlyAddressed

(* The strengthening that makes CardRight inductive: at each command, what  *)
(* the driver and the card know of each other, and, as long as nothing was  *)
(* lost, that the loop has more tries left than the card will be busy.      *)
Answered == {"CMD8", "CMD1", "CMD55", "CMD41", "CMD58", "CMD16", "up", "mounted", "unmounted"}

Counted ==
  /\ pc \in {"CMD0", "CMD1", "CMD55", "CMD41"} => tries # 0
  /\ pc \in {"CMD55", "CMD41", "CMD58"} => rounds # 0

Known ==
  /\ pc \in {"CMD0", "CMD8", "CMD1", "CMD55", "CMD41", "CMD58"} => sd_is_sdhc
  /\ pc = "CMD16" => ~sd_is_sdhc
  /\ pc \in Answered => card.kind # "absent" /\ (card.kind = "HC" => card.sized)
  /\ pc = "CMD8" => card.state # "ready"
  /\ pc = "CMD1" /\ card.kind = "HC" => card.state # "ready"
  /\ pc \in {"CMD55", "CMD41"} /\ card.state = "ready" => unseen
  /\ pc = "CMD58" => card.state = "ready"
  /\ pc = "CMD16" /\ card.kind = "HC" /\ card.state = "ready" => unseen

InTime ==
  lost = 0 =>
    /\ ~unseen
    /\ pc = "CMD1" => card.kind = "V1" /\ (Enough => card.polls < tries)
    /\ pc \in {"CMD55", "CMD41"} =>
         card.kind # "V1" /\ (Enough => card.polls < tries + ((rounds - 1) * Polls))
    /\ pc = "CMD16" /\ Enough => card.state = "ready"

CardInv == CardTypeOK /\ Counted /\ Known /\ InTime /\ CardRight

(* spi_init and FindDrive always return, with whatever card: every loop is  *)
(* counted.                                                                 *)
InitReturns == (pc \notin Ends) ~> (pc \in Ends)

=============================================================================
