--------------------------- MODULE Storage_proofs ---------------------------
(***************************************************************************)
(* CardRight and VolumeKept, for any numbers of tries, any block size, any *)
(* size of the FAT and of the directory and any bounds, by the invariants  *)
(* CardInv of SDCard and FatInv of the FAT code's memory; and that         *)
(* ScanDirectory implements Listing, for any directory and any table.      *)
(*                                                                         *)
(* The second half is about ScanDirectory: the order of the rows, the long *)
(* names, a scan as a whole, the places of a window, then one lemma for    *)
(* each mode and one for each call.  Induction over the slots is by the    *)
(* least slot after which a scan is not right.                             *)
(***************************************************************************)
EXTENDS Storage, FiniteSetTheorems, WellFoundedInduction, TLAPS

-----------------------------------------------------------------------------
(* The driver and the card.                                                 *)

(* What a command does to a card that is not absent: of the replies, only   *)
(* what later steps need.                                                   *)
LEMMA CardKeepsKind ==
  ASSUME CardTypeOK, NEW cmd \in Commands, NEW a \in Answers(cmd)
  PROVE  /\ a.card \in Cards /\ a.r1 \in R1
         /\ a.card.kind = card.kind /\ a.card.partitioned = card.partitioned
         /\ card.kind = "absent" => a.card = card /\ a.r1 = NoAnswer
<1>1. card \in Cards /\ sd_is_sdhc \in BOOLEAN
  BY DEF CardTypeOK
<1>2. CASE card.kind = "absent"
  BY <1>1, <1>2 DEF Answers, Reply, R1
<1>3. CASE card.kind # "absent" /\ cmd = "CMD0"
  <2>1. PICK p \in 0 .. MaxPolls :
          a = Reply([card EXCEPT !.state = "idle", !.polls = p,
                                 !.sized = (card.kind = "HC")], Idle)
    BY <1>3 DEF Answers
  <2> QED BY <1>1, <1>3, <2>1 DEF Reply, R1, Cards
<1>4. ASSUME NEW may \in BOOLEAN, a = Initialise(may)
      PROVE  a.card \in Cards /\ a.r1 \in R1
             /\ a.card.kind = card.kind /\ a.card.partitioned = card.partitioned
  <2>1. CASE card.state = "ready" \/ (may /\ card.polls = 0)
    BY <1>1, <1>4, <2>1 DEF Initialise, Reply, R1, Cards
  <2>2. CASE ~(card.state = "ready" \/ (may /\ card.polls = 0))
    <3>1. may => card.polls - 1 \in 0 .. MaxPolls
      BY <1>1, <2>2, SDCardAssumption DEF Cards
    <3> QED BY <1>1, <1>4, <2>2, <3>1 DEF Initialise, Reply, R1, Cards
  <2> QED BY <2>1, <2>2
<1>5. CASE card.kind # "absent" /\ cmd \in {"CMD1", "CMD41"}
  <2>1. (card.kind # "HC") \in BOOLEAN /\ (card.kind # "HC" \/ sd_is_sdhc) \in BOOLEAN
    OBVIOUS
  <2>2. a = Initialise(card.kind # "HC") \/ a = Initialise(card.kind # "HC" \/ sd_is_sdhc)
    BY <1>5 DEF Answers
  <2> QED BY <1>4, <1>5, <2>1, <2>2
<1>6. CASE card.kind # "absent" /\ cmd \in {"CMD8", "CMD55", "CMD58"}
  <2>1. \E r \in R1 : a = Reply(card, r)
    <3>1. CASE cmd = "CMD8"
      <4>1. a = Reply(card, IF card.kind = "V1" THEN Illegal ELSE IF sd_is_sdhc THEN Idle ELSE BadCRC)
        BY <1>6, <3>1 DEF Answers
      <4> QED BY <4>1 DEF R1
    <3>2. CASE cmd \in {"CMD55", "CMD58"}
      <4>1. a = Reply(card, IF card.state = "ready" THEN OK ELSE Idle)
        BY <1>6, <3>2 DEF Answers
      <4> QED BY <4>1 DEF R1
    <3> QED BY <1>6, <3>1, <3>2
  <2> QED BY <1>1, <1>6, <2>1 DEF Reply
<1>7. CASE card.kind # "absent" /\ cmd = "CMD16"
  <2>1. a \in {Reply([card EXCEPT !.sized = card.kind = "HC" \/ ~sd_is_sdhc], OK), Reply(card, Illegal)}
    BY <1>7 DEF Answers
  <2>2. (card.kind = "HC" \/ ~sd_is_sdhc) \in BOOLEAN
    OBVIOUS
  <2>3. ASSUME NEW z \in BOOLEAN
        PROVE  LET c == [card EXCEPT !.sized = z]
               IN  c \in Cards /\ c.kind = card.kind /\ c.partitioned = card.partitioned
    BY <1>1 DEF Cards
  <2>4. PICK z \in BOOLEAN :
          a = Reply([card EXCEPT !.sized = z], OK) \/ a = Reply(card, Illegal)
    BY <2>1, <2>2
  <2>5. CASE a = Reply([card EXCEPT !.sized = z], OK)
    BY <1>7, <2>3, <2>5 DEF Reply, R1
  <2>6. CASE a = Reply(card, Illegal)
    BY <1>1, <1>7, <2>6 DEF Reply, R1
  <2> QED BY <2>4, <2>5, <2>6
<1> QED BY <1>2, <1>3, <1>5, <1>6, <1>7 DEF Commands

(* The outcome of cmd_write. *)
LEMMA Written ==
  ASSUME CardTypeOK, NEW cmd \in Commands, NEW r \in R1, cmd_write(cmd, r)
  PROVE  /\ card' \in Cards /\ lost' \in 0 .. MaxLost /\ unseen' \in BOOLEAN
         /\ card'.kind = card.kind /\ card'.partitioned = card.partitioned
         /\ lost' = 0 => lost = 0 /\ unseen' = unseen
         /\ \E a \in Answers(cmd) :
              \/ card' = a.card /\ r = a.r1 /\ unseen' = unseen
              \/ /\ lost' # 0 /\ r = NoAnswer
                 /\ card' = card \/ card' = a.card
                 /\ unseen' = (\/ unseen
                               \/ cmd \in {"CMD58", "CMD16"}
                               \/ cmd = "CMD41" /\ card'.state = "ready")
<1>1. lost \in 0 .. MaxLost /\ unseen \in BOOLEAN /\ card \in Cards /\ MaxLost \in Nat
  BY SDCardAssumption DEF CardTypeOK
<1>2. PICK a \in Answers(cmd) :
        \/ card' = a.card /\ r = a.r1 /\ UNCHANGED <<lost, unseen>>
        \/ /\ lost < MaxLost /\ lost' = lost + 1
           /\ card' \in {card, a.card} /\ r = NoAnswer
           /\ unseen' = (\/ unseen
                         \/ cmd \in {"CMD58", "CMD16"}
                         \/ cmd = "CMD41" /\ card'.state = "ready")
  BY DEF cmd_write
<1>3. a.card \in Cards /\ a.card.kind = card.kind /\ a.card.partitioned = card.partitioned
  BY CardKeepsKind
<1>4. CASE card' = a.card /\ r = a.r1 /\ UNCHANGED <<lost, unseen>>
  BY <1>1, <1>3, <1>4
<1>5. CASE /\ lost < MaxLost /\ lost' = lost + 1
           /\ card' \in {card, a.card} /\ r = NoAnswer
           /\ unseen' = (\/ unseen
                         \/ cmd \in {"CMD58", "CMD16"}
                         \/ cmd = "CMD41" /\ card'.state = "ready")
  <2>1. lost' \in 0 .. MaxLost /\ lost' # 0
    BY <1>1, <1>5
  <2>2. unseen' \in BOOLEAN
    BY <1>1, <1>5
  <2> QED BY <1>1, <1>3, <1>5, <2>1, <2>2
<1> QED BY <1>2, <1>4, <1>5

(* No partition is found at the wrong address. *)
LEMMA WrongAddress ==
  ASSUME CardTypeOK, FindsVolume, card.partitioned
  PROVE  RightlyAddressed
<1>1. Start \in Nat \ {0} /\ BlockSize \in Nat \ {0, 1} /\ BlockRead(Start) = Start
  BY SDCardAssumption DEF FindsVolume
<1>2. \A s \in Nat \ {0}, b \in Nat \ {0, 1} : s * b # s
  OBVIOUS
<1>3. \A s \in Nat \ {0}, b \in Nat \ {0, 1} : s \div b # s
  OBVIOUS
<1>4. Start # NoBlock
  BY <1>1 DEF NoBlock
<1>5. CASE sd_is_sdhc /\ card.kind # "HC"
  BY <1>1, <1>3, <1>4, <1>5 DEF BlockRead
<1>6. CASE ~sd_is_sdhc /\ card.kind = "HC"
  BY <1>1, <1>2, <1>4, <1>6 DEF BlockRead
<1> QED BY <1>5, <1>6 DEF RightlyAddressed, CardTypeOK

-----------------------------------------------------------------------------
(* The actions. *)

LEMMA StartKeeps ==
  ASSUME CardInv, spi_init
  PROVE  CardInv'
<1>1. CardTypeOK'
  <2>1. \A s \in 0 .. MaxStarts : s < MaxStarts => s + 1 \in 0 .. MaxStarts
    BY SDCardAssumption
  <2>2. starts' \in 0 .. MaxStarts
    BY <2>1 DEF CardInv, CardTypeOK, spi_init
  <2>3. pc' = "CMD0" /\ tries' = Resets /\ rounds' = 0 /\ UNCHANGED <<card, lost>>
        /\ sd_is_sdhc' \in BOOLEAN /\ unseen' \in BOOLEAN
    BY DEF spi_init, Go
  <2> QED BY <2>2, <2>3, SDCardAssumption DEF CardInv, CardTypeOK, Commands
<1>2. pc' = "CMD0" /\ tries' # 0 /\ sd_is_sdhc' /\ ~unseen'
  BY SDCardAssumption DEF spi_init, Go
<1>3. Counted' /\ Known' /\ InTime' /\ CardRight'
  BY <1>2 DEF Counted, Known, Answered, InTime, CardRight
<1> QED BY <1>1, <1>3 DEF CardInv

LEMMA ResetKeeps ==
  ASSUME CardInv, cmd_reset
  PROVE  CardInv'
<1>1. PICK r \in R1 :
        /\ cmd_write("CMD0", r)
        /\ IF r = Idle THEN Go("CMD8", 0, 0)
           ELSE IF tries = 1 THEN Go("failed", 0, 0)
           ELSE Go("CMD0", tries - 1, 0)
  BY DEF cmd_reset
<1>2. /\ CardTypeOK /\ Counted /\ Known /\ InTime
      /\ pc = "CMD0" /\ UNCHANGED <<sd_is_sdhc, starts>>
  BY DEF CardInv, cmd_reset
<1>3. tries \in Nat \ {0} /\ sd_is_sdhc /\ starts \in 0 .. MaxStarts
  BY <1>2 DEF CardTypeOK, Counted, Known
<1>4. /\ card' \in Cards /\ lost' \in 0 .. MaxLost /\ unseen' \in BOOLEAN
      /\ card'.kind = card.kind /\ (lost' = 0 => lost = 0 /\ unseen' = unseen)
  BY <1>1, <1>2, Written DEF Commands
<1>5. PICK a \in Answers("CMD0") :
        \/ card' = a.card /\ r = a.r1
        \/ lost' # 0 /\ r = NoAnswer /\ (card' = card \/ card' = a.card)
  BY <1>1, <1>2, Written DEF Commands
<1>6. lost' = 0 => ~unseen'
  BY <1>2, <1>4 DEF InTime
<1>7. card.kind # "absent" =>
        a.r1 = Idle /\ a.card.state = "idle" /\ a.card.sized = (card.kind = "HC")
  <2> SUFFICES ASSUME card.kind # "absent"
               PROVE  a.r1 = Idle /\ a.card.state = "idle" /\ a.card.sized = (card.kind = "HC")
    OBVIOUS
  <2>1. PICK p \in 0 .. MaxPolls :
          a = Reply([card EXCEPT !.state = "idle", !.polls = p,
                                 !.sized = (card.kind = "HC")], Idle)
    BY DEF Answers
  <2> QED BY <1>2, <2>1 DEF Reply, CardTypeOK, Cards
<1>8. card.kind = "absent" => a.r1 = NoAnswer
  BY DEF Answers, Reply
<1>9. CASE r = Idle
  <2>1. pc' = "CMD8" /\ tries' = 0 /\ rounds' = 0
    BY <1>1, <1>9 DEF Go
  <2>2. card.kind # "absent" /\ card'.state = "idle" /\ card'.sized = (card.kind = "HC")
    BY <1>5, <1>7, <1>8, <1>9 DEF Idle, NoAnswer
  <2>3. CardTypeOK'
    BY <1>2, <1>3, <1>4, <2>1 DEF CardTypeOK, Commands
  <2>4. Counted' /\ Known' /\ InTime' /\ CardRight'
    BY <1>2, <1>3, <1>4, <1>6, <2>1, <2>2 DEF Counted, Known, Answered, InTime, CardRight
  <2> QED BY <2>3, <2>4 DEF CardInv
<1>10. CASE r # Idle /\ tries = 1
  <2>1. pc' = "failed" /\ tries' = 0 /\ rounds' = 0
    BY <1>1, <1>10 DEF Go
  <2>2. lost' = 0 => card'.kind = "absent"
    BY <1>4, <1>5, <1>7, <1>10
  <2>3. CardTypeOK'
    BY <1>2, <1>3, <1>4, <2>1 DEF CardTypeOK, Ends
  <2>4. Counted' /\ Known' /\ InTime' /\ CardRight'
    BY <1>2, <1>3, <1>4, <1>6, <2>1, <2>2 DEF Counted, Known, Answered, InTime, CardRight
  <2> QED BY <2>3, <2>4 DEF CardInv
<1>11. CASE r # Idle /\ tries # 1
  <2>1. pc' = "CMD0" /\ tries' = tries - 1 /\ rounds' = 0
    BY <1>1, <1>11 DEF Go
  <2>2. tries' \in Nat /\ tries' # 0
    BY <1>3, <1>11, <2>1
  <2>3. CardTypeOK'
    BY <1>2, <1>3, <1>4, <2>1, <2>2 DEF CardTypeOK, Commands
  <2>4. Counted' /\ Known' /\ InTime' /\ CardRight'
    BY <1>2, <1>3, <1>4, <1>6, <2>1, <2>2 DEF Counted, Known, Answered, InTime, CardRight
  <2> QED BY <2>3, <2>4 DEF CardInv
<1> QED BY <1>9, <1>10, <1>11

LEMMA VersionKeeps ==
  ASSUME CardInv, is_sdhc
  PROVE  CardInv'
<1>1. PICK r \in R1 :
        /\ cmd_write("CMD8", r)
        /\ IF r = Idle THEN Go("CMD55", Polls, Rounds) ELSE Go("CMD1", Inits, 0)
  BY DEF is_sdhc
<1>2. /\ CardTypeOK /\ Known /\ InTime
      /\ pc = "CMD8" /\ UNCHANGED <<sd_is_sdhc, starts>>
  BY DEF CardInv, is_sdhc
<1>3. /\ sd_is_sdhc /\ starts \in 0 .. MaxStarts /\ card.kind # "absent"
      /\ card.state # "ready" /\ (card.kind = "HC" => card.sized)
  BY <1>2 DEF CardTypeOK, Known, Answered
<1>4. /\ card' \in Cards /\ lost' \in 0 .. MaxLost /\ unseen' \in BOOLEAN
      /\ (lost' = 0 => lost = 0 /\ unseen' = unseen)
  BY <1>1, <1>2, Written DEF Commands
<1>5. PICK a \in Answers("CMD8") :
        \/ card' = a.card /\ r = a.r1
        \/ lost' # 0 /\ r = NoAnswer /\ (card' = card \/ card' = a.card)
  BY <1>1, <1>2, Written DEF Commands
<1>6. a = Reply(card, IF card.kind = "V1" THEN Illegal ELSE Idle)
  BY <1>3 DEF Answers
<1>7. card' = card /\ (lost' = 0 => (r = Idle <=> card.kind # "V1"))
  BY <1>5, <1>6 DEF Reply, Idle, Illegal, NoAnswer
<1>8. card.kind \in Kinds /\ card.polls \in 0 .. MaxPolls
  BY <1>2 DEF CardTypeOK, Cards
<1>9. lost' = 0 => ~unseen'
  BY <1>2, <1>4 DEF InTime
<1>10. CASE r = Idle
  <2>1. pc' = "CMD55" /\ tries' = Polls /\ rounds' = Rounds
    BY <1>1, <1>10 DEF Go
  <2>2. Polls \in Nat \ {0} /\ Rounds \in Nat \ {0}
    BY SDCardAssumption
  <2>3. \A p, q, n, m \in Nat : p < n * q => p < q + ((n - 1) * q)
    OBVIOUS
  <2>4. card.polls \in Nat /\ (Enough => card.polls < Polls + ((Rounds - 1) * Polls))
    BY <1>8, <2>2, <2>3, SDCardAssumption DEF Enough
  <2>5. CardTypeOK'
    BY <1>2, <1>3, <1>4, <2>1, <2>2 DEF CardTypeOK, Commands
  <2>6. Counted' /\ Known' /\ CardRight'
    BY <1>2, <1>3, <1>7, <2>1, <2>2 DEF Counted, Known, Answered, CardRight
  <2>7. InTime'
    BY <1>7, <1>9, <1>10, <2>1, <2>4 DEF InTime, Enough
  <2> QED BY <2>5, <2>6, <2>7 DEF CardInv
<1>11. CASE r # Idle
  <2>1. pc' = "CMD1" /\ tries' = Inits /\ rounds' = 0
    BY <1>1, <1>11 DEF Go
  <2>2. Inits \in Nat \ {0}
    BY SDCardAssumption
  <2>3. Enough => card.polls < Inits
    BY <1>8, <2>2, SDCardAssumption DEF Enough
  <2>4. CardTypeOK'
    BY <1>2, <1>3, <1>4, <2>1, <2>2 DEF CardTypeOK, Commands
  <2>5. Counted' /\ Known' /\ CardRight'
    BY <1>2, <1>3, <1>7, <2>1, <2>2 DEF Counted, Known, Answered, CardRight
  <2>6. InTime'
    BY <1>7, <1>8, <1>9, <1>11, <2>1, <2>3 DEF InTime, Enough
  <2> QED BY <2>4, <2>5, <2>6 DEF CardInv
<1> QED BY <1>10, <1>11

(* A card that is asked to initialise. *)
LEMMA Asked ==
  ASSUME card \in Cards, NEW may \in BOOLEAN, NEW a, a = Initialise(may)
  PROVE  /\ a.card.sized = card.sized
         /\ a.r1 = OK <=> a.card.state = "ready"
         /\ a.r1 # OK =>
              /\ a.card.state = card.state /\ card.state # "ready"
              /\ may => card.polls # 0 /\ a.card.polls = card.polls - 1
         /\ ~may /\ card.state # "ready" => a.card.state = card.state /\ a.r1 # OK
<1>1. CASE card.state = "ready" \/ (may /\ card.polls = 0)
  BY <1>1 DEF Initialise, Reply, Cards, OK
<1>2. CASE ~(card.state = "ready" \/ (may /\ card.polls = 0))
  BY <1>2 DEF Initialise, Reply, Cards, OK, Idle
<1> QED BY <1>1, <1>2

LEMMA OldInitKeeps ==
  ASSUME CardInv, wait_init
  PROVE  CardInv'
<1>1. PICK r \in R1 :
        /\ cmd_write("CMD1", r)
        /\ IF r = OK \/ tries = 1 THEN NotSDHC
           ELSE Go("CMD1", tries - 1, 0) /\ UNCHANGED sd_is_sdhc
  BY DEF wait_init
<1>2. /\ CardTypeOK /\ Counted /\ Known /\ InTime
      /\ pc = "CMD1" /\ starts' = starts
  BY DEF CardInv, wait_init
<1>3. /\ sd_is_sdhc /\ starts \in 0 .. MaxStarts /\ card.kind # "absent"
      /\ tries \in Nat \ {0} /\ (card.kind = "HC" => card.state # "ready" /\ card.sized)
      /\ card \in Cards
  BY <1>2 DEF CardTypeOK, Counted, Known, Answered
<1>4. /\ card' \in Cards /\ lost' \in 0 .. MaxLost /\ unseen' \in BOOLEAN
      /\ card'.kind = card.kind /\ (lost' = 0 => lost = 0 /\ unseen' = unseen)
  BY <1>1, <1>2, Written DEF Commands
<1>5. PICK a \in Answers("CMD1") :
        \/ card' = a.card /\ r = a.r1
        \/ lost' # 0 /\ r = NoAnswer /\ (card' = card \/ card' = a.card)
  BY <1>1, <1>2, Written DEF Commands
<1>6. a = Initialise(card.kind # "HC")
  BY <1>3 DEF Answers
<1>7. /\ a.card.sized = card.sized
      /\ a.r1 = OK <=> a.card.state = "ready"
      /\ a.r1 # OK /\ card.kind # "HC" => card.polls # 0 /\ a.card.polls = card.polls - 1
      /\ card.kind = "HC" => a.card.state # "ready"
  BY <1>3, <1>6, Asked
<1>8. /\ card'.kind = "HC" => card'.sized /\ card'.state # "ready"
      /\ lost' = 0 => (r = OK <=> card'.state = "ready")
  BY <1>3, <1>4, <1>5, <1>7
<1>9. lost' = 0 => ~unseen' /\ card.kind = "V1" /\ (Enough => card.polls < tries)
  BY <1>2, <1>4 DEF InTime
<1>10. card.polls \in Nat /\ card'.polls \in Nat
  BY <1>3, <1>4, SDCardAssumption DEF Cards
<1>11. CASE r = OK \/ tries = 1
  <2>1. pc' = "CMD16" /\ tries' = 0 /\ rounds' = 0 /\ sd_is_sdhc' = FALSE
    BY <1>1, <1>11 DEF Go, NotSDHC
  <2>2. lost' = 0 /\ Enough => card'.state = "ready"
    BY <1>3, <1>5, <1>7, <1>8, <1>9, <1>10, <1>11
  <2>3. CardTypeOK'
    BY <1>2, <1>3, <1>4, <2>1 DEF CardTypeOK, Commands
  <2>4. Counted' /\ Known' /\ CardRight'
    BY <1>3, <1>4, <1>8, <2>1 DEF Counted, Known, Answered, CardRight
  <2>5. InTime'
    BY <1>9, <2>1, <2>2 DEF InTime, Enough
  <2> QED BY <2>3, <2>4, <2>5 DEF CardInv
<1>12. CASE ~(r = OK \/ tries = 1)
  <2>1. pc' = "CMD1" /\ tries' = tries - 1 /\ rounds' = 0 /\ sd_is_sdhc' = sd_is_sdhc
    BY <1>1, <1>12 DEF Go
  <2>2. tries' \in Nat /\ tries' # 0
    BY <1>3, <1>12, <2>1
  <2>3. lost' = 0 /\ Enough => card'.polls < tries'
    <3>1. \A p, t \in Nat : p # 0 /\ p < t => p - 1 < t - 1
      OBVIOUS
    <3> QED BY <1>3, <1>5, <1>7, <1>9, <1>10, <1>12, <2>1, <3>1
  <2>4. CardTypeOK'
    BY <1>2, <1>3, <1>4, <2>1, <2>2 DEF CardTypeOK, Commands
  <2>5. Counted' /\ Known' /\ CardRight'
    BY <1>3, <1>4, <1>8, <2>1, <2>2 DEF Counted, Known, Answered, CardRight
  <2>6. InTime'
    BY <1>4, <1>9, <2>1, <2>3 DEF InTime, Enough
  <2> QED BY <2>4, <2>5, <2>6 DEF CardInv
<1> QED BY <1>11, <1>12

(* The end of a round, and of a poll, of a version 2 card: the polls that   *)
(* the card still needs are fewer than those that are left.                 *)
LEMMA RoundKeeps ==
  ASSUME CardTypeOK, rounds # 0, sd_is_sdhc, NextRound, starts' = starts,
         card' \in Cards, lost' \in 0 .. MaxLost, unseen' \in BOOLEAN,
         card'.kind # "absent", card'.kind = "HC" => card'.sized,
         card'.state = "ready" => unseen',
         lost' = 0 => /\ ~unseen' /\ card'.kind # "V1"
                      /\ Enough => card'.polls < (rounds - 1) * Polls
  PROVE  CardInv'
<1>1. /\ rounds \in Nat \ {0} /\ Polls \in Nat \ {0} /\ starts \in 0 .. MaxStarts
      /\ card'.polls \in Nat
  BY SDCardAssumption DEF CardTypeOK, Cards
<1>2. CASE rounds = 1
  <2>1. pc' = "CMD16" /\ tries' = 0 /\ rounds' = 0 /\ sd_is_sdhc' = FALSE
    BY <1>2 DEF Go, NotSDHC, NextRound
  <2>2. \A p, q \in Nat : ~(p < (1 - 1) * q)
    OBVIOUS
  <2>3. ~(lost' = 0 /\ Enough)
    BY <1>1, <1>2, <2>2
  <2>4. CardTypeOK'
    BY <1>1, <2>1 DEF CardTypeOK, Commands
  <2>5. Counted' /\ Known' /\ CardRight'
    BY <2>1 DEF Counted, Known, Answered, CardRight
  <2>6. InTime'
    BY <2>1, <2>3 DEF InTime, Enough
  <2> QED BY <2>4, <2>5, <2>6 DEF CardInv
<1>3. CASE rounds # 1
  <2>1. pc' = "CMD55" /\ tries' = Polls /\ rounds' = rounds - 1 /\ sd_is_sdhc' = sd_is_sdhc
    BY <1>3 DEF Go, NextRound
  <2>2. rounds' \in Nat /\ rounds' # 0
    BY <1>1, <1>3, <2>1
  <2>3. \A p, q, n \in Nat : p < (n - 1) * q => p < q + ((n - 1 - 1) * q)
    OBVIOUS
  <2>4. lost' = 0 /\ Enough => card'.polls < tries' + ((rounds' - 1) * Polls)
    BY <1>1, <2>1, <2>3
  <2>5. CardTypeOK'
    BY <1>1, <2>1, <2>2 DEF CardTypeOK, Commands
  <2>6. Counted' /\ Known' /\ CardRight'
    BY <1>1, <2>1, <2>2 DEF Counted, Known, Answered, CardRight
  <2>7. InTime'
    BY <2>1, <2>4 DEF InTime, Enough
  <2> QED BY <2>5, <2>6, <2>7 DEF CardInv
<1> QED BY <1>2, <1>3

LEMMA PollKeeps ==
  ASSUME CardTypeOK, tries # 0, rounds # 0, sd_is_sdhc, NextPoll, starts' = starts,
         card' \in Cards, lost' \in 0 .. MaxLost, unseen' \in BOOLEAN,
         card'.kind # "absent", card'.kind = "HC" => card'.sized,
         card'.state = "ready" => unseen',
         lost' = 0 => /\ ~unseen' /\ card'.kind # "V1"
                      /\ Enough => card'.polls < tries - 1 + ((rounds - 1) * Polls)
  PROVE  CardInv'
<1>1. /\ rounds \in Nat \ {0} /\ tries \in Nat \ {0} /\ Polls \in Nat
      /\ starts \in 0 .. MaxStarts /\ card'.polls \in Nat
  BY SDCardAssumption DEF CardTypeOK, Cards
<1>2. CASE tries = 1
  <2>1. NextRound
    BY <1>2 DEF NextPoll
  <2>2. \A p, q, n \in Nat : p < 1 - 1 + ((n - 1) * q) => p < (n - 1) * q
    OBVIOUS
  <2>3. lost' = 0 => (Enough => card'.polls < (rounds - 1) * Polls)
    BY <1>1, <1>2, <2>2
  <2> QED BY <2>1, <2>3, RoundKeeps
<1>3. CASE tries # 1
  <2>1. pc' = "CMD55" /\ tries' = tries - 1 /\ rounds' = rounds /\ sd_is_sdhc' = sd_is_sdhc
    BY <1>3 DEF Go, NextPoll
  <2>2. tries' \in Nat /\ tries' # 0
    BY <1>1, <1>3, <2>1
  <2>3. lost' = 0 /\ Enough => card'.polls < tries' + ((rounds' - 1) * Polls)
    BY <2>1
  <2>4. CardTypeOK'
    BY <1>1, <2>1, <2>2 DEF CardTypeOK, Commands
  <2>5. Counted' /\ Known' /\ CardRight'
    BY <1>1, <2>1, <2>2 DEF Counted, Known, Answered, CardRight
  <2>6. InTime'
    BY <2>1, <2>3 DEF InTime, Enough
  <2> QED BY <2>4, <2>5, <2>6 DEF CardInv
<1> QED BY <1>2, <1>3

LEMMA NewInitKeeps ==
  ASSUME CardInv, wait_initV2
  PROVE  CardInv'
<1>1. /\ CardTypeOK /\ Counted /\ Known /\ InTime /\ starts' = starts
      /\ pc \in {"CMD55", "CMD41"}
  BY DEF CardInv, wait_initV2
<1>2. /\ sd_is_sdhc /\ starts \in 0 .. MaxStarts /\ card.kind # "absent"
      /\ tries \in Nat \ {0} /\ rounds \in Nat \ {0} /\ (card.kind = "HC" => card.sized)
      /\ card \in Cards /\ (card.state = "ready" => unseen)
  BY <1>1 DEF CardTypeOK, Counted, Known, Answered
<1>3. lost = 0 => /\ ~unseen /\ card.kind # "V1"
                  /\ Enough => card.polls < tries + ((rounds - 1) * Polls)
  BY <1>1 DEF InTime
<1>4. CASE pc = "CMD55"
  <2>1. PICK r \in R1 :
          /\ cmd_write("CMD55", r)
          /\ IF r = Idle THEN Go("CMD41", tries, rounds) /\ UNCHANGED sd_is_sdhc ELSE NextPoll
    BY <1>4 DEF wait_initV2
  <2>2. /\ card' \in Cards /\ lost' \in 0 .. MaxLost /\ unseen' \in BOOLEAN
        /\ (lost' = 0 => lost = 0 /\ unseen' = unseen)
    BY <1>1, <2>1, Written DEF Commands
  <2>3. PICK a \in Answers("CMD55") :
          \/ card' = a.card /\ r = a.r1 /\ unseen' = unseen
          \/ /\ lost' # 0 /\ r = NoAnswer
             /\ card' = card \/ card' = a.card
             /\ unseen' = (\/ unseen
                           \/ "CMD55" \in {"CMD58", "CMD16"}
                           \/ "CMD55" = "CMD41" /\ card'.state = "ready")
    BY <1>1, <2>1, Written DEF Commands
  <2>4. a = Reply(card, IF card.state = "ready" THEN OK ELSE Idle)
    BY <1>2 DEF Answers
  <2>5. card' = card /\ unseen' = unseen /\ (lost' = 0 => r = Idle)
    <3>1. a.card = card /\ (card.state # "ready" => a.r1 = Idle)
      BY <2>4 DEF Reply
    <3>2. card' = card
      BY <2>3, <3>1
    <3>3. unseen \in BOOLEAN
      BY <1>1 DEF CardTypeOK
    <3>4. unseen' = unseen
      BY <2>3, <3>3
    <3>5. lost' = 0 => card.state # "ready" /\ r = a.r1
      BY <1>2, <1>3, <2>2, <2>3
    <3> QED BY <3>1, <3>2, <3>4, <3>5
  <2>6. CASE r = Idle
    <3>1. pc' = "CMD41" /\ tries' = tries /\ rounds' = rounds /\ sd_is_sdhc' = sd_is_sdhc
      BY <2>1, <2>6 DEF Go
    <3>2. CardTypeOK'
      BY <1>1, <1>2, <2>2, <3>1 DEF CardTypeOK, Commands
    <3>3. Counted' /\ Known' /\ CardRight'
      BY <1>2, <2>5, <3>1 DEF Counted, Known, Answered, CardRight
    <3>4. InTime'
      BY <1>3, <2>2, <2>5, <3>1 DEF InTime, Enough
    <3> QED BY <3>2, <3>3, <3>4 DEF CardInv
  <2>7. CASE r # Idle
    <3>1. NextPoll
      BY <2>1, <2>7
    <3> QED BY <1>1, <1>2, <2>2, <2>5, <2>7, <3>1, PollKeeps
  <2> QED BY <2>6, <2>7
<1>5. CASE pc = "CMD41"
  <2>1. PICK r \in R1 :
          /\ cmd_write("CMD41", r)
          /\ IF r = OK THEN Go("CMD58", 0, rounds) /\ UNCHANGED sd_is_sdhc ELSE NextPoll
    BY <1>5 DEF wait_initV2
  <2>2. /\ card' \in Cards /\ lost' \in 0 .. MaxLost /\ unseen' \in BOOLEAN
        /\ card'.kind = card.kind /\ (lost' = 0 => lost = 0 /\ unseen' = unseen)
    BY <1>1, <2>1, Written DEF Commands
  <2>3. PICK a \in Answers("CMD41") :
          \/ card' = a.card /\ r = a.r1 /\ unseen' = unseen
          \/ /\ lost' # 0 /\ r = NoAnswer
             /\ card' = card \/ card' = a.card
             /\ unseen' = (\/ unseen
                           \/ "CMD41" \in {"CMD58", "CMD16"}
                           \/ "CMD41" = "CMD41" /\ card'.state = "ready")
    BY <1>1, <2>1, Written DEF Commands
  <2>4. a = Initialise(TRUE)
    <3>1. (card.kind # "HC" \/ sd_is_sdhc) = TRUE
      BY <1>2
    <3>2. a = Initialise(card.kind # "HC" \/ sd_is_sdhc)
      BY <1>2 DEF Answers
    <3> QED BY <3>1, <3>2
  <2>5. /\ a.card.sized = card.sized
        /\ a.r1 = OK <=> a.card.state = "ready"
        /\ a.r1 # OK => card.polls # 0 /\ a.card.polls = card.polls - 1
    BY <1>2, <2>4, Asked
  <2>6. card'.kind # "absent" /\ (card'.kind = "HC" => card'.sized)
    BY <1>2, <2>2, <2>3, <2>5
  <2>7. CASE r = OK
    <3>1. pc' = "CMD58" /\ tries' = 0 /\ rounds' = rounds /\ sd_is_sdhc' = sd_is_sdhc
      BY <2>1, <2>7 DEF Go
    <3>2. card'.state = "ready"
      BY <2>3, <2>5, <2>7 DEF OK, NoAnswer
    <3>3. CardTypeOK'
      BY <1>1, <1>2, <2>2, <3>1 DEF CardTypeOK, Commands
    <3>4. Counted' /\ Known' /\ CardRight'
      BY <1>2, <2>6, <3>1, <3>2 DEF Counted, Known, Answered, CardRight
    <3>5. InTime'
      BY <1>3, <2>2, <3>1 DEF InTime, Enough
    <3> QED BY <3>3, <3>4, <3>5 DEF CardInv
  <2>8. CASE r # OK
    <3>1. NextPoll
      BY <2>1, <2>8
    <3>2. card'.state = "ready" => unseen'
      BY <2>3, <2>5, <2>8
    <3>3. \A p, t, b \in Nat : p # 0 /\ p < t + b => p - 1 < t - 1 + b
      OBVIOUS
    <3>4. card.polls \in Nat /\ ((rounds - 1) * Polls) \in Nat
      <4>1. card.polls \in Nat /\ rounds - 1 \in Nat /\ Polls \in Nat
        BY <1>2, SDCardAssumption DEF Cards
      <4>2. \A n, q \in Nat : n * q \in Nat
        OBVIOUS
      <4> QED BY <4>1, <4>2
    <3>5. lost' = 0 => ~unseen' /\ card'.kind # "V1"
      BY <1>3, <2>2
    <3>6. lost' = 0 /\ Enough => card.polls < tries + ((rounds - 1) * Polls)
      BY <1>3, <2>2
    <3>7. lost' = 0 => card.polls # 0 /\ card'.polls = card.polls - 1
      BY <2>3, <2>5, <2>8
    <3>8. lost' = 0 /\ Enough => card'.polls < tries - 1 + ((rounds - 1) * Polls)
      BY <1>2, <3>3, <3>4, <3>6, <3>7
    <3> QED BY <1>1, <1>2, <2>2, <2>6, <3>1, <3>2, <3>5, <3>8, PollKeeps
  <2> QED BY <2>7, <2>8
<1> QED BY <1>1, <1>4, <1>5

LEMMA ReadKeeps ==
  ASSUME CardInv, ReadOCR
  PROVE  CardInv'
<1>1. PICK r \in R1 :
        /\ cmd_write("CMD58", r)
        /\ IF r # OK THEN NextRound
           ELSE IF card.kind # "HC" THEN NotSDHC
           ELSE Go("up", 0, 0) /\ sd_is_sdhc' = TRUE
  BY DEF ReadOCR
<1>2. /\ CardTypeOK /\ Counted /\ Known /\ InTime
      /\ pc = "CMD58" /\ starts' = starts
  BY DEF CardInv, ReadOCR
<1>3. /\ sd_is_sdhc /\ starts \in 0 .. MaxStarts /\ card.kind # "absent"
      /\ rounds # 0 /\ (card.kind = "HC" => card.sized) /\ card.state = "ready"
  BY <1>2 DEF CardTypeOK, Counted, Known, Answered
<1>4. /\ card' \in Cards /\ lost' \in 0 .. MaxLost /\ unseen' \in BOOLEAN
      /\ (lost' = 0 => lost = 0 /\ unseen' = unseen)
  BY <1>1, <1>2, Written DEF Commands
<1>5. PICK a \in Answers("CMD58") :
        \/ card' = a.card /\ r = a.r1 /\ unseen' = unseen
        \/ /\ lost' # 0 /\ r = NoAnswer
           /\ card' = card \/ card' = a.card
           /\ unseen' = (\/ unseen
                         \/ "CMD58" \in {"CMD58", "CMD16"}
                         \/ "CMD58" = "CMD41" /\ card'.state = "ready")
  BY <1>1, <1>2, Written DEF Commands
<1>6. a = Reply(card, OK)
  BY <1>3 DEF Answers
<1>7. card' = card /\ (r # OK => lost' # 0 /\ unseen' = TRUE)
  BY <1>5, <1>6 DEF Reply
<1>8. lost' = 0 => ~unseen'
  BY <1>2, <1>4 DEF InTime
<1>9. CASE r # OK
  BY <1>1, <1>2, <1>3, <1>4, <1>7, <1>9, RoundKeeps
<1>10. CASE r = OK /\ card.kind # "HC"
  <2>1. pc' = "CMD16" /\ tries' = 0 /\ rounds' = 0 /\ sd_is_sdhc' = FALSE
    BY <1>1, <1>10 DEF Go, NotSDHC
  <2>2. CardTypeOK'
    BY <1>2, <1>3, <1>4, <2>1 DEF CardTypeOK, Commands
  <2>3. Counted' /\ Known' /\ InTime' /\ CardRight'
    BY <1>3, <1>7, <1>8, <1>10, <2>1 DEF Counted, Known, Answered, InTime, CardRight
  <2> QED BY <2>2, <2>3 DEF CardInv
<1>11. CASE r = OK /\ card.kind = "HC"
  <2>1. pc' = "up" /\ tries' = 0 /\ rounds' = 0 /\ sd_is_sdhc' = TRUE
    BY <1>1, <1>11 DEF Go
  <2>2. CardTypeOK'
    BY <1>2, <1>3, <1>4, <2>1 DEF CardTypeOK
  <2>3. Counted' /\ Known' /\ InTime'
    BY <1>3, <1>7, <1>8, <2>1 DEF Counted, Known, Answered, InTime
  <2>4. CardRight'
    BY <1>3, <1>7, <1>11, <2>1 DEF CardRight, RightlyAddressed
  <2> QED BY <2>2, <2>3, <2>4 DEF CardInv
<1> QED BY <1>9, <1>10, <1>11

LEMMA SizeKeeps ==
  ASSUME CardInv, SetBlockSize
  PROVE  CardInv'
<1>1. PICK r \in R1 : cmd_write("CMD16", r)
  BY DEF SetBlockSize
<1>2. /\ CardTypeOK /\ Known /\ InTime
      /\ pc = "CMD16" /\ UNCHANGED <<sd_is_sdhc, starts>>
      /\ pc' = "up" /\ tries' = 0 /\ rounds' = 0
  BY DEF CardInv, SetBlockSize, Go
<1>3. /\ ~sd_is_sdhc /\ sd_is_sdhc \in BOOLEAN /\ starts \in 0 .. MaxStarts
      /\ card.kind # "absent" /\ (card.kind = "HC" => card.sized)
      /\ card.kind = "HC" /\ card.state = "ready" => unseen
      /\ card \in Cards
  BY <1>2 DEF CardTypeOK, Known, Answered
<1>4. /\ card' \in Cards /\ lost' \in 0 .. MaxLost /\ unseen' \in BOOLEAN
      /\ card'.kind = card.kind /\ (lost' = 0 => lost = 0 /\ unseen' = unseen)
  BY <1>1, <1>2, Written DEF Commands
<1>5. PICK a \in Answers("CMD16") :
        \/ card' = a.card /\ r = a.r1 /\ unseen' = unseen
        \/ /\ lost' # 0 /\ r = NoAnswer
           /\ card' = card \/ card' = a.card
           /\ unseen' = (\/ unseen
                         \/ "CMD16" \in {"CMD58", "CMD16"}
                         \/ "CMD16" = "CMD41" /\ card'.state = "ready")
  BY <1>1, <1>2, Written DEF Commands
<1>6. a.card.state = card.state /\ (card.state = "ready" => a.card.sized)
      /\ (card.sized => a.card.sized)
  <2>1. a = IF card.state = "ready"
            THEN Reply([card EXCEPT !.sized = card.kind = "HC" \/ ~sd_is_sdhc], OK)
            ELSE Reply(card, Illegal)
    BY <1>3 DEF Answers
  <2>2. [card EXCEPT !.sized = card.kind = "HC" \/ ~sd_is_sdhc] = [card EXCEPT !.sized = TRUE]
    BY <1>3
  <2>3. CASE card.state = "ready"
    <3>1. a.card = [card EXCEPT !.sized = TRUE]
      BY <2>1, <2>2, <2>3 DEF Reply
    <3> QED BY <1>3, <2>3, <3>1 DEF Cards
  <2>4. CASE card.state # "ready"
    BY <2>1, <2>4 DEF Reply
  <2> QED BY <2>3, <2>4
<1>7. /\ card'.state = card.state /\ (card'.state = "ready" /\ ~unseen' => card'.sized)
      /\ card'.kind = "HC" => card'.sized
      /\ card'.kind = "HC" /\ card'.state = "ready" => unseen'
  <2>1. CASE card' = a.card /\ r = a.r1 /\ unseen' = unseen
    BY <1>3, <1>4, <1>6, <2>1
  <2>2. CASE ~(card' = a.card /\ r = a.r1 /\ unseen' = unseen)
    <3>1. unseen' = TRUE /\ (card' = card \/ card' = a.card)
      BY <1>5, <2>2
    <3> QED BY <1>3, <1>4, <1>6, <3>1
  <2> QED BY <2>1, <2>2
<1>8. lost' = 0 => ~unseen' /\ (Enough => card'.state = "ready")
  BY <1>2, <1>4, <1>7 DEF InTime
<1>9. CardTypeOK'
  BY <1>2, <1>3, <1>4 DEF CardTypeOK
<1>10. Counted' /\ Known' /\ InTime'
  BY <1>2, <1>3, <1>4, <1>7, <1>8 DEF Counted, Known, Answered, InTime
<1>11. CardRight'
  BY <1>2, <1>3, <1>7, <1>8 DEF CardRight, RightlyAddressed, Enough
<1> QED BY <1>9, <1>10, <1>11 DEF CardInv

LEMMA FindKeeps ==
  ASSUME CardInv, FindDrive
  PROVE  CardInv'
<1>1. /\ CardTypeOK /\ Known /\ InTime /\ CardRight
      /\ pc = "up" /\ UNCHANGED <<card, sd_is_sdhc, unseen, starts>>
      /\ pc' \in {"mounted", "unmounted"} /\ tries' = 0 /\ rounds' = 0
      /\ pc' = "mounted" => FindsVolume
  BY DEF CardInv, FindDrive, Go
<1>2. lost' \in 0 .. MaxLost /\ (lost' = 0 => lost = 0)
  <2>1. \A n \in 0 .. MaxLost : n < MaxLost => n + 1 \in 0 .. MaxLost /\ n + 1 # 0
    BY SDCardAssumption
  <2> QED BY <1>1, <2>1 DEF FindDrive, CardTypeOK
<1>3. CardTypeOK'
  BY <1>1, <1>2 DEF CardTypeOK, Ends
<1>4. Counted' /\ Known' /\ InTime'
  BY <1>1, <1>2 DEF Counted, Known, Answered, InTime
<1>5. pc' = "mounted" /\ card.partitioned => RightlyAddressed
  BY <1>1, WrongAddress
<1>6. CardRight'
  BY <1>1, <1>2, <1>5 DEF CardRight, RightlyAddressed, Enough
<1> QED BY <1>3, <1>4, <1>6 DEF CardInv

(* The slot at the start, and every step of the driver and the card.       *)
LEMMA CardInitIs == CardInit => CardInv
<1> SUFFICES ASSUME CardInit PROVE CardInv
  OBVIOUS
<1>1. 0 \in 0 .. MaxPolls /\ 0 \in 0 .. MaxLost /\ 0 \in 0 .. MaxStarts
  BY SDCardAssumption
<1>2. card \in Cards /\ CardTypeOK
  BY <1>1 DEF CardInit, CardTypeOK, Cards, Ends
<1>3. Counted /\ Known /\ InTime /\ CardRight
  BY DEF CardInit, Counted, Known, Answered, InTime, CardRight
<1> QED BY <1>2, <1>3 DEF CardInv

LEMMA CardNextKeeps == CardInv /\ [CardNext]_cardVars => CardInv'
<1> SUFFICES ASSUME CardInv, [CardNext]_cardVars PROVE CardInv'
  OBVIOUS
<1>1. CASE spi_init
  BY <1>1, StartKeeps
<1>2. CASE cmd_reset
  BY <1>2, ResetKeeps
<1>3. CASE is_sdhc
  BY <1>3, VersionKeeps
<1>4. CASE wait_init
  BY <1>4, OldInitKeeps
<1>5. CASE wait_initV2
  BY <1>5, NewInitKeeps
<1>6. CASE ReadOCR
  BY <1>6, ReadKeeps
<1>7. CASE SetBlockSize
  BY <1>7, SizeKeeps
<1>8. CASE FindDrive
  BY <1>8, FindKeeps
<1>9. CASE UNCHANGED cardVars
  BY <1>9 DEF CardInv, CardTypeOK, Counted, Known, InTime, CardRight, RightlyAddressed, Enough, cardVars
<1> QED BY <1>1, <1>2, <1>3, <1>4, <1>5, <1>6, <1>7, <1>8, <1>9 DEF CardNext, Driver

-----------------------------------------------------------------------------
(* CardInv is an invariant of the driver and the card: the types, and what  *)
(* the driver and the card know of each other at each command.              *)
THEOREM CardInvariant == CardSpec => []CardInv
BY CardInitIs, CardNextKeeps, PTL DEF CardSpec

(* Whatever is missed or lost, a card that comes up is addressed as it      *)
(* expects unless the lost answer was one that settles it; and a            *)
(* partitioned card is never mounted with the wrong addressing: spi_init,   *)
(* is_sdhc and FindDrive.                                                   *)
THEOREM CardAlwaysRight == CardSpec => []CardRight
<1>1. CardInv => CardRight
  BY DEF CardInv
<1> QED BY <1>1, CardInvariant, PTL

-----------------------------------------------------------------------------
(* Loops over sectors, as recursive functions.                               *)

(* Induction up to n, with the set of the numbers for which it holds.        *)
LEMMA Induct ==
  ASSUME NEW n \in Nat, NEW S, 0 \in S,
         \A i \in 0 .. n : i # 0 /\ i - 1 \in S => i \in S
  PROVE  \A i \in 0 .. n : i \in S
<1> DEFINE T == {i \in 0 .. n : i \notin S}
<1>1. SUFFICES ASSUME T # {}
               PROVE  FALSE
  BY Zenon
<1>2. T \subseteq Nat
  OBVIOUS
<1>3. PICK i \in T : \A j \in T : ~(<<j, i>> \in OpToRel(<, Nat))
  BY <1>1, <1>2, WFMin, NatLessThanWellFounded
<1>4. \A j \in Nat : j < i => <<j, i>> \in OpToRel(<, Nat)
  BY <1>2, <1>3 DEF OpToRel
<1>5. i # 0 /\ i \in 0 .. n /\ i \notin S
  BY <1>3
<1>6. i - 1 \in 0 .. n /\ i - 1 < i /\ i - 1 \in Nat
  BY <1>5
<1>7. i - 1 \notin T
  BY <1>3, <1>4, <1>6
<1> QED
  BY <1>5, <1>6, <1>7

(* f is what a loop over the sectors 0 to n - 1 leaves, from a before them.  *)
Loop(f, a, G, n) == f[-1] = a /\ \A k \in 0 .. n - 1 : f[k] = G[<<k, f[k - 1]>>]

LEMMA LoopExists ==
  ASSUME NEW n \in Nat, NEW V, NEW a \in V, NEW G \in [(0 .. n - 1) \X V -> V]
  PROVE  \E f \in [-1 .. n - 1 -> V] : Loop(f, a, G, n)
<1> DEFINE S == {k \in 0 .. n : \E f \in [-1 .. k - 1 -> V] : Loop(f, a, G, k)}
<1>1. 0 \in S
  <2> DEFINE g == [i \in -1 .. 0 - 1 |-> a]
  <2>1. g \in [-1 .. 0 - 1 -> V] /\ g[-1] = a
    OBVIOUS
  <2>2. Loop(g, a, G, 0)
    BY <2>1 DEF Loop
  <2> HIDE DEF g
  <2> QED
    BY <2>1, <2>2
<1>2. ASSUME NEW k \in 0 .. n, k # 0, k - 1 \in S
      PROVE  k \in S
  <2>1. PICK f \in [-1 .. (k - 1) - 1 -> V] : Loop(f, a, G, k - 1)
    BY <1>2
  <2> DEFINE x == f[(k - 1) - 1]
             g == [i \in -1 .. k - 1 |-> IF i = k - 1 THEN G[<<k - 1, x>>] ELSE f[i]]
  <2>2. k \in Nat /\ k - 1 \in 0 .. n - 1 /\ (k - 1) - 1 \in -1 .. (k - 1) - 1
    BY <1>2
  <2>3. G[<<k - 1, x>>] \in V
    <3>1. x \in V
      BY <2>2
    <3> QED
      BY <2>2, <3>1
  <2>4. \A i \in -1 .. k - 1 : i # k - 1 => i \in -1 .. (k - 1) - 1
    BY <2>2
  <2>5. g \in [-1 .. k - 1 -> V]
    BY <2>3, <2>4
  <2>6. \A i \in -1 .. k - 1 : i # k - 1 => g[i] = f[i]
    OBVIOUS
  <2>7. g[k - 1] = G[<<k - 1, x>>]
    BY <2>2
  <2> HIDE DEF g
  <2>8. g[-1] = a
    BY <2>1, <2>2, <2>6 DEF Loop
  <2>9. ASSUME NEW i \in 0 .. k - 1
        PROVE  g[i] = G[<<i, g[i - 1]>>]
    <3>1. i - 1 \in -1 .. k - 1 /\ i - 1 # k - 1
      BY <2>2
    <3>2. CASE i = k - 1
      BY <2>6, <2>7, <3>1, <3>2
    <3>3. CASE i # k - 1
      <4>1. i \in 0 .. (k - 1) - 1 /\ i \in -1 .. k - 1
        BY <2>2, <3>3
      <4> QED
        BY <2>1, <2>6, <3>1, <3>3, <4>1 DEF Loop
    <3> QED
      BY <3>2, <3>3
  <2>10. Loop(g, a, G, k)
    BY <2>8, <2>9 DEF Loop
  <2> QED
    BY <2>5, <2>10
<1>3. n \in S
  <2> HIDE DEF S
  <2>1. \A i \in 0 .. n : i \in S
    BY <1>1, <1>2, Induct
  <2> QED
    BY <2>1
<1> QED
  BY <1>3

LoopIn(V, f, a, G, n) ==
  /\ f = [k \in -1 .. n - 1 |-> f[k]] /\ f[-1] = a
  /\ \A k \in 0 .. n - 1 : f[k - 1] \in V => f[k] = G[<<k, f[k - 1]>>]

LEMMA LoopStays ==
  ASSUME NEW n \in Nat, NEW V, NEW a \in V, NEW G \in [(0 .. n - 1) \X V -> V],
         NEW f, LoopIn(V, f, a, G, n)
  PROVE  f \in [-1 .. n - 1 -> V]
<1> DEFINE S == {k \in 0 .. n : f[k - 1] \in V}
<1>1. 0 \in S
  BY DEF LoopIn
<1>2. ASSUME NEW k \in 0 .. n, k # 0, k - 1 \in S
      PROVE  k \in S
  <2>1. k - 1 \in 0 .. n - 1 /\ f[(k - 1) - 1] \in V
    BY <1>2
  <2>2. f[k - 1] = G[<<k - 1, f[(k - 1) - 1]>>]
    BY <2>1 DEF LoopIn
  <2> QED
    BY <2>1, <2>2
<1>3. \A k \in 0 .. n : f[k - 1] \in V
  <2>1. \A k \in 0 .. n : k \in S
    <3> HIDE DEF S
    <3> QED
      BY <1>1, <1>2, Induct
  <2> QED
    BY <2>1
<1>4. ASSUME NEW k \in -1 .. n - 1
      PROVE  f[k] \in V
  <2>1. k + 1 \in 0 .. n /\ (k + 1) - 1 = k
    OBVIOUS
  <2> QED
    BY <1>3, <2>1
<1> QED
  BY <1>4 DEF LoopIn

-----------------------------------------------------------------------------
(* The invariant of the volume.                                              *)

Buffers == [Slots -> Entries]
Caches  == [index : FatSectors \union {-1}, links : [Indices -> Nat]]

FatTypes ==
  /\ fat \in [Copies -> [FatSectors -> [Indices -> Nat]]]
  /\ dir \in [Sectors -> Buffers] /\ sector_buffer \in Buffers
  /\ fat_buffer \in [Indices -> Nat] /\ buffered_fat_index \in FatSectors \union {-1}
  /\ file \in [name : Texts, start : Nat, size : Nat, entry : (Sectors \X Slots) \union {NoEntry}]

(* Links that are those of a sector of the first copy, but for clusters      *)
(* marked and not, or not yet, written.                                      *)
Marked(links, k) ==
  \A i \in Indices : links[i] # fat[0][k][i] => fat[0][k][i] = Free /\ links[i] = EOC

(* The FAT buffer is of the sector that its index says.                      *)
BufferRight == buffered_fat_index # -1 => Marked(fat_buffer, buffered_fat_index)

(* The copies of the FAT differ in marks only.                               *)
CopiesRight ==
  \A c \in Copies, k \in FatSectors, i \in Indices :
    fat[c][k][i] # fat[0][k][i] => {fat[c][k][i], fat[0][k][i]} = {Free, EOC}

FatInv == FatTypes /\ BufferRight /\ CopiesRight

(* The directory is read sector by sector, each as it is unless it is bad.   *)
LEMMA SearchedIs ==
  ASSUME FatTypes, NEW bad
  PROVE  /\ Searched(bad) \in [-1 .. DirSectors - 1 -> Buffers]
         /\ \A d \in Sectors : DirSector(d) \notin bad => Searched(bad)[d] = dir[d]
<1> DEFINE n == DirSectors
           Is(b) == b = [d \in -1 .. n - 1 |->
                           IF d = -1 THEN sector_buffer
                           ELSE IF DirSector(d) \in bad THEN b[d - 1] ELSE dir[d]]
           G == [p \in (0 .. n - 1) \X Buffers |->
                   IF DirSector(p[1]) \in bad THEN p[2] ELSE dir[p[1]]]
           s == CHOOSE b : Is(b)
<1>1. n \in Nat \ {0} /\ dir \in [0 .. n - 1 -> Buffers] /\ sector_buffer \in Buffers
  BY FatWriteAssumption DEF FatTypes, Sectors
<1>2. G \in [(0 .. n - 1) \X Buffers -> Buffers]
  BY <1>1
<1>3. \A k \in 0 .. n - 1, b \in Buffers :
        G[<<k, b>>] = IF DirSector(k) \in bad THEN b ELSE dir[k]
  OBVIOUS
<1> HIDE DEF G
<1>4. \E b : Is(b)
  <2>1. PICK f \in [-1 .. n - 1 -> Buffers] : Loop(f, sector_buffer, G, n)
    BY <1>1, <1>2, LoopExists
  <2>2. ASSUME NEW d \in -1 .. n - 1
        PROVE  f[d] = IF d = -1 THEN sector_buffer
                      ELSE IF DirSector(d) \in bad THEN f[d - 1] ELSE dir[d]
    <3>1. CASE d = -1
      BY <2>1, <3>1 DEF Loop
    <3>2. CASE d # -1
      <4>1. d \in 0 .. n - 1 /\ d - 1 \in -1 .. n - 1
        BY <1>1, <3>2
      <4>2. f[d - 1] \in Buffers
        BY <4>1
      <4> QED
        BY <1>3, <2>1, <3>2, <4>1, <4>2 DEF Loop
    <3> QED
      BY <3>1, <3>2
  <2>3. Is(f)
    BY <2>2
  <2> QED
    BY <2>3
<1>5. Is(s)
  BY <1>4
<1>6. Searched(bad) = s
  BY DEF Searched
<1> HIDE DEF s
<1>7. s = [k \in -1 .. n - 1 |-> s[k]] /\ s[-1] = sector_buffer
  BY <1>1, <1>5
<1>8. \A k \in 0 .. n - 1 : s[k] = IF DirSector(k) \in bad THEN s[k - 1] ELSE dir[k]
  BY <1>1, <1>5
<1>9. \A k \in 0 .. n - 1 : s[k - 1] \in Buffers => s[k] = G[<<k, s[k - 1]>>]
  BY <1>3, <1>8
<1>10. s \in [-1 .. n - 1 -> Buffers]
  <2>1. LoopIn(Buffers, s, sector_buffer, G, n)
    BY <1>7, <1>9 DEF LoopIn
  <2> QED
    BY <1>1, <1>2, <2>1, LoopStays
<1> QED
  BY <1>6, <1>8, <1>10 DEF Sectors

(* FindFree leaves the cache a sector of the FAT with its own index.         *)
Found == {w \in [ok : BOOLEAN, cache : Caches, found : BOOLEAN] :
            /\ w.cache.index # -1 => Marked(w.cache.links, w.cache.index)
            /\ w.found => w.cache.index # -1 /\ FreeIn(w.cache) # {}}

LoadAndLook(w, k, bad) ==
  IF w.found \/ ~w.ok THEN w
  ELSE LET l == Load(w.cache, k, bad)
       IN  [ok |-> l.ok, cache |-> l.cache, found |-> l.ok /\ FreeIn(l.cache) # {}]

LEMMA LoadAndLookIs ==
  ASSUME FatTypes, NEW w \in Found, NEW k \in FatSectors, NEW bad
  PROVE  LoadAndLook(w, k, bad) \in Found
<1> DEFINE l == Load(w.cache, k, bad)
           c == [index |-> k, links |-> fat[0][k]]
           r == [ok |-> l.ok, cache |-> l.cache, found |-> l.ok /\ FreeIn(l.cache) # {}]
<1>1. /\ w.cache \in Caches
      /\ w.cache.index # -1 => Marked(w.cache.links, w.cache.index)
  BY DEF Found
<1>2. k # -1 /\ 0 \in Copies
  BY FatWriteAssumption DEF FatSectors, Copies
<1>3. c \in Caches /\ Marked(c.links, c.index) /\ c.index # -1
  <2>1. fat[0][k] \in [Indices -> Nat]
    BY <1>2 DEF FatTypes
  <2> QED
    BY <1>2, <2>1 DEF Caches, Marked
<1>4. /\ l.cache \in Caches /\ l.ok \in BOOLEAN
      /\ l.cache.index # -1 => Marked(l.cache.links, l.cache.index)
      /\ l.ok => l.cache.index # -1
  <2> HIDE DEF c
  <2>1. CASE k = w.cache.index
    <3>1. l = [ok |-> TRUE, cache |-> w.cache]
      BY <2>1 DEF Load
    <3>2. l.cache = w.cache /\ l.ok
      BY <3>1
    <3>3. l.ok = TRUE
      BY <3>1
    <3>4. l.ok \in BOOLEAN
      BY <3>3, Zenon
    <3> HIDE DEF l
    <3> QED
      BY <1>1, <1>2, <2>1, <3>2, <3>4
  <2>2. CASE k # w.cache.index /\ FatSector(k) \in bad
    <3>1. l = [ok |-> FALSE, cache |-> w.cache]
      BY <2>2 DEF Load
    <3>2. l.cache = w.cache /\ ~l.ok
      BY <3>1
    <3>3. l.ok = FALSE
      BY <3>1
    <3>4. l.ok \in BOOLEAN
      BY <3>3, Zenon
    <3> HIDE DEF l
    <3> QED
      BY <1>1, <3>2, <3>4
  <2>3. CASE k # w.cache.index /\ FatSector(k) \notin bad
    <3>1. l = [ok |-> TRUE, cache |-> c]
      BY <2>3 DEF Load, c
    <3>2. l.cache = c /\ l.ok
      BY <3>1
    <3>3. l.ok = TRUE
      BY <3>1
    <3>4. l.ok \in BOOLEAN
      BY <3>3, Zenon
    <3> HIDE DEF l
    <3> QED
      BY <1>3, <3>2, <3>4
  <2> QED
    BY <2>1, <2>2, <2>3
<1> HIDE DEF l
<1>5. r.ok = l.ok /\ r.cache = l.cache /\ (r.found <=> l.ok /\ FreeIn(l.cache) # {})
  OBVIOUS
<1>6. r \in [ok : BOOLEAN, cache : Caches, found : BOOLEAN]
  BY <1>4
<1>7. r \in Found
  <2> HIDE DEF r
  <2> QED
    BY <1>4, <1>5, <1>6 DEF Found
<1>8. LoadAndLook(w, k, bad) = IF w.found \/ ~w.ok THEN w ELSE r
  BY DEF LoadAndLook, l
<1> HIDE DEF r
<1> QED
  BY <1>7, <1>8

LEMMA FindFreeIs ==
  ASSUME FatTypes, BufferRight, NEW bad
  PROVE  FindFree(bad) \in Found
<1> DEFINE n == FatSize
           a == [ok |-> TRUE, cache |-> FatCache, found |-> FALSE]
           Is(w) == w = [k \in -1 .. n - 1 |-> IF k = -1 THEN a ELSE LoadAndLook(w[k - 1], k, bad)]
           G == [p \in (0 .. n - 1) \X Found |-> LoadAndLook(p[2], p[1], bad)]
           s == CHOOSE w : Is(w)
<1>1. n \in Nat \ {0} /\ FatSectors = 0 .. n - 1
  BY FatWriteAssumption DEF FatSectors
<1>2. a \in Found
  <2>1. FatCache \in Caches /\ (FatCache.index # -1 => Marked(FatCache.links, FatCache.index))
    BY DEF FatTypes, BufferRight, FatCache, Caches
  <2> HIDE DEF a
  <2>2. a.cache = FatCache /\ ~a.found
    BY DEF a
  <2>3. a \in [ok : BOOLEAN, cache : Caches, found : BOOLEAN]
    BY <2>1 DEF a
  <2> QED
    BY <2>1, <2>2, <2>3 DEF Found
<1>3. G \in [(0 .. n - 1) \X Found -> Found]
  <2>1. \A p \in (0 .. n - 1) \X Found : LoadAndLook(p[2], p[1], bad) \in Found
    BY <1>1, LoadAndLookIs
  <2> QED
    BY <2>1
<1>4. \A k \in 0 .. n - 1, w \in Found : G[<<k, w>>] = LoadAndLook(w, k, bad)
  OBVIOUS
<1> HIDE DEF G, a
<1>5. \E w : Is(w)
  <2>1. PICK f \in [-1 .. n - 1 -> Found] : Loop(f, a, G, n)
    BY <1>1, <1>2, <1>3, LoopExists
  <2>2. ASSUME NEW k \in -1 .. n - 1
        PROVE  f[k] = IF k = -1 THEN a ELSE LoadAndLook(f[k - 1], k, bad)
    <3>1. CASE k = -1
      BY <2>1, <3>1 DEF Loop
    <3>2. CASE k # -1
      <4>1. k \in 0 .. n - 1 /\ k - 1 \in -1 .. n - 1
        BY <1>1, <3>2
      <4>2. f[k - 1] \in Found
        BY <4>1
      <4> QED
        BY <1>4, <2>1, <3>2, <4>1, <4>2 DEF Loop
    <3> QED
      BY <3>1, <3>2
  <2>3. Is(f)
    BY <2>2
  <2> QED
    BY <2>3
<1>6. Is(s)
  BY <1>5
<1>7. FindFree(bad) = s[n - 1]
  BY DEF FindFree, LoadAndLook, a
<1> HIDE DEF s
<1>8. s = [k \in -1 .. n - 1 |-> s[k]] /\ s[-1] = a
  BY <1>1, <1>6
<1>9. \A k \in 0 .. n - 1 : s[k] = LoadAndLook(s[k - 1], k, bad)
  BY <1>1, <1>6
<1>10. \A k \in 0 .. n - 1 : s[k - 1] \in Found => s[k] = G[<<k, s[k - 1]>>]
  BY <1>4, <1>9
<1>11. s \in [-1 .. n - 1 -> Found]
  <2>1. LoopIn(Found, s, a, G, n)
    BY <1>8, <1>10 DEF LoopIn
  <2> QED
    BY <1>1, <1>2, <1>3, <2>1, LoopStays
<1> QED
  BY <1>1, <1>7, <1>11

-----------------------------------------------------------------------------
(* What a call writes.                                                       *)

LEMMA WhatConstantsAre ==
  /\ 0 \in Copies /\ EOC # Free /\ Free \in Nat /\ EOC \in Nat
  /\ Names \subseteq Texts /\ "empty" \in Texts /\ "boot" \in Texts /\ Sizes \subseteq Nat
BY FatWriteAssumption DEF Copies, EOC, Free, Texts

(* A sector of one copy of the FAT gets links that are marked.               *)
LEMMA LinksWritten ==
  ASSUME FatInv, NEW n \in Copies, NEW k \in FatSectors, NEW links \in [Indices -> Nat],
         Marked(links, k), fat' = fat \/ fat' = [fat EXCEPT ![n][k] = links]
  PROVE  /\ fat' \in [Copies -> [FatSectors -> [Indices -> Nat]]]
         /\ Marked(links, k)' /\ CopiesRight' /\ LinksKept
<1>1. /\ fat \in [Copies -> [FatSectors -> [Indices -> Nat]]]
      /\ CopiesRight /\ 0 \in Copies /\ EOC # Free
  BY WhatConstantsAre DEF FatInv, FatTypes
<1>2. CASE fat' = fat
  BY <1>1, <1>2 DEF Marked, CopiesRight, LinksKept
<1>3. CASE fat' = [fat EXCEPT ![n][k] = links]
  <2> DEFINE copy == [fat[n] EXCEPT ![k] = links]
  <2>1. copy \in [FatSectors -> [Indices -> Nat]]
    BY <1>1
  <2>2. copy[k] = links /\ \A j \in FatSectors : j # k => copy[j] = fat[n][j]
    BY <1>1
  <2>3. fat' = [fat EXCEPT ![n] = copy]
    BY <1>3
  <2> HIDE DEF copy
  <2>4. fat' \in [Copies -> [FatSectors -> [Indices -> Nat]]]
    BY <1>1, <2>1, <2>3
  <2>5. fat'[n] = copy /\ \A c \in Copies : c # n => fat'[c] = fat[c]
    BY <1>1, <2>3
  <2>6. \A c \in Copies, j \in FatSectors :
          fat'[c][j] = IF c = n /\ j = k THEN links ELSE fat[c][j]
    BY <2>2, <2>5
  <2>7. \A c \in Copies, j \in FatSectors, i \in Indices :
          fat'[c][j][i] # fat[c][j][i] => c = n /\ j = k /\ fat'[c][j][i] = links[i]
    BY <2>6
  <2>8. \A i \in Indices : /\ fat'[n][k][i] = links[i]
                           /\ links[i] # fat[0][k][i] => fat[0][k][i] = Free /\ links[i] = EOC
    BY <2>6 DEF Marked
  <2>9. \A c \in Copies, j \in FatSectors, i \in Indices :
          fat[c][j][i] # fat[0][j][i] => {fat[c][j][i], fat[0][j][i]} = {Free, EOC}
    BY <1>1 DEF CopiesRight
  <2>10. \A c \in Copies, j \in FatSectors, i \in Indices :
           fat'[c][j][i] # fat[c][j][i] =>
             \/ fat'[c][j][i] = EOC /\ fat[c][j][i] = Free
             \/ c # 0 /\ fat'[c][j][i] = Free /\ fat[c][j][i] = EOC
    <3> SUFFICES ASSUME NEW c \in Copies, NEW j \in FatSectors, NEW i \in Indices,
                        fat'[c][j][i] # fat[c][j][i]
                 PROVE  \/ fat'[c][j][i] = EOC /\ fat[c][j][i] = Free
                        \/ c # 0 /\ fat'[c][j][i] = Free /\ fat[c][j][i] = EOC
      OBVIOUS
    <3>1. c = n /\ j = k /\ fat'[c][j][i] = links[i]
      BY <2>7
    <3> DEFINE x == links[i]
               y == fat[0][k][i]
               z == fat[n][k][i]
    <3>2. (x # y => y = Free /\ x = EOC) /\ (z # y => {z, y} = {Free, EOC}) /\ x # z
      BY <2>8, <2>9, <3>1
    <3>3. n = 0 => z = y
      OBVIOUS
    <3>4. fat'[c][j][i] = x /\ fat[c][j][i] = z
      BY <3>1
    <3> HIDE DEF x, y, z
    <3> QED
      BY <1>1, <3>1, <3>2, <3>3, <3>4
  <2>11. LinksKept
    BY <1>1, <2>10 DEF LinksKept
  <2>12. Marked(links, k)'
    <3>1. \A i \in Indices : fat'[0][k][i] = fat[0][k][i] \/ fat'[0][k][i] = links[i]
      BY <1>1, <2>6
    <3> QED
      BY <2>8, <3>1 DEF Marked
  <2>13. CopiesRight'
    <3> SUFFICES ASSUME NEW c \in Copies, NEW j \in FatSectors, NEW i \in Indices,
                        fat'[c][j][i] # fat'[0][j][i]
                 PROVE  {fat'[c][j][i], fat'[0][j][i]} = {Free, EOC}
      BY DEF CopiesRight
    <3> DEFINE x == fat'[c][j][i]
               y == fat'[0][j][i]
               z == fat[c][j][i]
               w == fat[0][j][i]
    <3>1. /\ x # z => (x = EOC /\ z = Free) \/ (x = Free /\ z = EOC)
          /\ y # w => y = EOC /\ w = Free
          /\ z # w => {z, w} = {Free, EOC}
          /\ x # z => y = w
          /\ x # y
      <4>1. x # z => c = n
        BY <2>7
      <4>2. y # w => n = 0
        BY <1>1, <2>7
      <4>3. c # 0
        OBVIOUS
      <4> QED
        BY <1>1, <2>9, <2>10, <4>1, <4>2, <4>3, ZenonT(60)
    <3> HIDE DEF x, y, z, w
    <3>2. z # w => (z = Free /\ w = EOC) \/ (z = EOC /\ w = Free)
      <4>1. {z, w} = {Free, EOC} => (z = Free \/ z = EOC) /\ (w = Free \/ w = EOC)
        OBVIOUS
      <4> QED
        BY <3>1, <4>1
    <3>3. (x = Free /\ y = EOC) \/ (x = EOC /\ y = Free)
      BY <3>1, <3>2
    <3>4. {x, y} = {Free, EOC}
      BY <3>3
    <3> QED
      BY <3>4 DEF x, y
  <2> QED
    BY <2>4, <2>11, <2>12, <2>13
<1> QED
  BY <1>2, <1>3

(* One entry of one sector of the directory is written, into an empty slot.  *)
LEMMA EntryWritten ==
  ASSUME FatTypes, NEW d \in Sectors, NEW s \in Slots, NEW buffer \in Buffers,
         NEW e \in Entries, buffer[s] = Empty, misread' \/ buffer = dir[d],
         dir' = dir \/ dir' = [dir EXCEPT ![d] = [buffer EXCEPT ![s] = e]]
  PROVE  dir' \in [Sectors -> Buffers] /\ (misread' \/ EntriesKept)
<1> DEFINE entries == [buffer EXCEPT ![s] = e]
<1>1. entries \in Buffers /\ dir \in [Sectors -> Buffers]
  BY DEF Buffers, FatTypes
<1>2. \A t \in Slots : t # s => entries[t] = buffer[t]
  BY DEF Buffers
<1> HIDE DEF entries
<1>3. dir' = dir \/ dir' = [dir EXCEPT ![d] = entries]
  BY DEF entries
<1>4. dir' \in [Sectors -> Buffers]
  BY <1>1, <1>3
<1>5. ASSUME ~misread'
      PROVE  EntriesKept
  <2> SUFFICES ASSUME NEW c \in Sectors, NEW t \in Slots, dir'[c][t] # dir[c][t]
               PROVE  dir[c][t] = Empty
    BY DEF EntriesKept
  <2>1. c = d /\ dir'[c] = entries
    BY <1>1, <1>3
  <2>2. t = s
    BY <1>2, <1>5, <2>1
  <2> QED
    BY <1>5, <2>1, <2>2
<1> QED
  BY <1>4, <1>5

LEMMA VolumeSame ==
  ASSUME FatInv, UNCHANGED volumeVars
  PROVE  /\ VolumeStep /\ CopiesRight'
         /\ fat' \in [Copies -> [FatSectors -> [Indices -> Nat]]] /\ dir' \in [Sectors -> Buffers]
         /\ \A links, k : Marked(links, k) => Marked(links, k)'
<1>1. fat' = fat /\ dir' = dir
  BY DEF volumeVars
<1> QED
  BY <1>1 DEF FatInv, FatTypes, CopiesRight, VolumeStep, LinksKept, EntriesKept, Marked

LEMMA OpenKeeps ==
  ASSUME FatInv, NEW name \in Names, NEW bad, FileOpen(name, bad)
  PROVE  FatInv' /\ VolumeStep
<1> DEFINE buffer == Searched(bad)
           File == [name : Texts, start : Nat, size : Nat, entry : (Sectors \X Slots) \union {NoEntry}]
<1>1. UNCHANGED volumeVars /\ UNCHANGED <<fat_buffer, buffered_fat_index>>
  BY DEF FileOpen
<1>2. buffer \in [-1 .. DirSectors - 1 -> Buffers]
  BY SearchedIs DEF FatInv
<1> HIDE DEF buffer
<1>3. sector_buffer' \in Buffers /\ file' \in File
  <2>1. CASE file' = NoFile /\ sector_buffer' = buffer[DirSectors - 1]
    <3>1. DirSectors - 1 \in -1 .. DirSectors - 1
      BY FatWriteAssumption
    <3>2. NoFile \in File
      BY WhatConstantsAre DEF NoFile, Free
    <3> QED
      BY <1>2, <2>1, <3>1, <3>2
  <2>2. ASSUME NEW p \in Sectors \X Slots,
               file' = [name |-> name, start |-> buffer[p[1]][p[2]].start,
                        size |-> buffer[p[1]][p[2]].size, entry |-> p],
               sector_buffer' = buffer[p[1]]
        PROVE  sector_buffer' \in Buffers /\ file' \in File
    <3>1. p[1] \in -1 .. DirSectors - 1 /\ p[2] \in Slots
      BY FatWriteAssumption DEF Sectors
    <3>2. buffer[p[1]] \in Buffers
      BY <1>2, <3>1
    <3>3. buffer[p[1]][p[2]] \in Entries
      BY <3>1, <3>2 DEF Buffers
    <3>4. buffer[p[1]][p[2]].start \in Nat /\ buffer[p[1]][p[2]].size \in Nat
      BY <3>3 DEF Entries
    <3> QED
      BY <2>2, <3>2, <3>4, WhatConstantsAre
  <2> QED
    BY <2>1, <2>2 DEF FileOpen, buffer
<1>4. FatTypes'
  BY <1>1, <1>3, VolumeSame DEF FatInv, FatTypes
<1>5. BufferRight'
  BY <1>1, VolumeSame DEF FatInv, BufferRight
<1> QED
  BY <1>1, <1>4, <1>5, VolumeSame DEF FatInv

Calls == [name : Texts, start : Nat, size : Nat, entry : (Sectors \X Slots) \union {NoEntry}]

LEMMA CreateKeeps ==
  ASSUME FatInv, NEW name \in Names, NEW size \in Sizes, NEW bad, NEW refused \in Nat,
         NEW written, FileCreate(name, size, bad, refused, written)
  PROVE  FatInv' /\ VolumeStep
<1> DEFINE buffer == Searched(bad)
           found  == FindFree(bad)
           given  == [NoFile EXCEPT !.name = name, !.size = size]
<1>1. FatTypes /\ buffer \in [-1 .. DirSectors - 1 -> Buffers]
  BY SearchedIs DEF FatInv
<1>2. found \in Found /\ name \in Texts /\ size \in Nat
  BY FindFreeIs, WhatConstantsAre DEF FatInv
<1>3. given \in Calls
  <2> DEFINE g == [NoFile EXCEPT !.name = name]
  <2>1. g = [name |-> name, start |-> 0, size |-> 0, entry |-> NoEntry]
    BY DEF NoFile
  <2>2. given = [g EXCEPT !.size = size]
    BY DEF NoFile
  <2> HIDE DEF g
  <2>3. given = [name |-> name, start |-> 0, size |-> size, entry |-> NoEntry]
    BY <2>1, <2>2
  <2> HIDE DEF given
  <2> QED
    BY <1>2, <2>3 DEF Calls
<1>4. \A d \in Sectors : DirSector(d) \notin bad => buffer[d] = dir[d]
  BY <1>1, SearchedIs
<1>5. found.cache \in Caches
  BY <1>2 DEF Found
<1>6. CASE /\ file' = given /\ sector_buffer' = buffer[DirSectors - 1]
           /\ UNCHANGED <<volumeVars, fat_buffer, buffered_fat_index>>
  <2>1. DirSectors - 1 \in -1 .. DirSectors - 1
    BY FatWriteAssumption
  <2>2. sector_buffer' \in Buffers /\ file' \in Calls
    <3> HIDE DEF buffer, given
    <3> QED
      BY <1>1, <1>3, <1>6, <2>1
  <2>3. FatTypes'
    BY <1>6, <2>2, VolumeSame DEF FatInv, FatTypes, Calls
  <2>4. BufferRight'
    BY <1>6, VolumeSame DEF FatInv, BufferRight
  <2> QED
    BY <1>6, <2>3, <2>4, VolumeSame DEF FatInv
<1>7. ASSUME NEW p \in Sectors \X Slots,
             buffer[p[1]][p[2]] = Empty, Misreads(bad, p[1]),
             \/ found.found /\ Allocate(name, size, p, buffer[p[1]], found.cache, refused, written)
             \/ /\ ~found.found
                /\ fat_buffer' = found.cache.links /\ buffered_fat_index' = found.cache.index
                /\ file' = given /\ sector_buffer' = buffer[p[1]] /\ UNCHANGED volumeVars
      PROVE  FatInv' /\ VolumeStep
  <2>1. p[1] \in Sectors /\ p[2] \in Slots /\ p[1] \in -1 .. DirSectors - 1 /\ p[1] \in 0 .. p[1]
    BY FatWriteAssumption DEF Sectors
  <2>2. buffer[p[1]] \in Buffers
    <3> HIDE DEF buffer
    <3> QED
      BY <1>1, <2>1
  <2>3. misread' \/ buffer[p[1]] = dir[p[1]]
    BY <1>4, <1>7, <2>1 DEF Misreads
  <2> DEFINE cache == found.cache
  <2>4. /\ cache.links \in [Indices -> Nat] /\ cache.index \in FatSectors \union {-1}
        /\ cache.index # -1 => Marked(cache.links, cache.index)
    BY <1>2, <1>5 DEF Found, Caches
  <2>5. CASE /\ ~found.found
             /\ fat_buffer' = found.cache.links /\ buffered_fat_index' = found.cache.index
             /\ file' = given /\ sector_buffer' = buffer[p[1]] /\ UNCHANGED volumeVars
    <3> HIDE DEF buffer, found, given
    <3>1. FatTypes'
      BY <1>3, <2>2, <2>4, <2>5, VolumeSame DEF FatTypes, Calls
    <3>2. BufferRight'
      BY <2>4, <2>5, VolumeSame DEF BufferRight
    <3> QED
      BY <2>5, <3>1, <3>2, VolumeSame DEF FatInv
  <2>6. CASE /\ found.found
             /\ Allocate(name, size, p, buffer[p[1]], found.cache, refused, written)
    <3>1. cache.index # -1 /\ cache.index \in FatSectors
      BY <1>2, <2>4, <2>6 DEF Found
    <3> HIDE DEF buffer, found
    <3>2. PICK i \in FreeIn(cache) :
            LET links   == [cache.links EXCEPT ![i] = EOC]
                cluster == cache.index * Links + i
                entries == [buffer[p[1]] EXCEPT ![p[2]] = Entry(name, cluster, size)]
                wanted  == [name |-> name, start |-> cluster, size |-> size, entry |-> p]
            IN  /\ fat_buffer' = links /\ buffered_fat_index' = cache.index
                /\ sector_buffer' = IF refused >= FatNumber THEN entries ELSE buffer[p[1]]
                /\ file' = IF refused > FatNumber THEN wanted ELSE given
                /\ Write(refused, written, cache.index, links, p[1], entries)
      BY <2>6 DEF Allocate
    <3> HIDE DEF given
    <3> DEFINE links   == [cache.links EXCEPT ![i] = EOC]
               cluster == cache.index * Links + i
               e       == Entry(name, cluster, size)
               entries == [buffer[p[1]] EXCEPT ![p[2]] = e]
               wanted  == [name |-> name, start |-> cluster, size |-> size, entry |-> p]
    <3>3. i \in Indices /\ cache.links[i] = Free
      BY DEF FreeIn
    <3>4. cluster \in Nat
      <4>1. cache.index \in Nat /\ Links \in Nat /\ i \in Nat
        BY <3>1, <3>3, FatWriteAssumption DEF FatSectors, Indices
      <4>2. \A a, b \in Nat : a * b \in Nat
        OBVIOUS
      <4> DEFINE x == cache.index * Links
      <4>3. x \in Nat
        BY <4>1, <4>2
      <4> HIDE DEF x
      <4>4. x + i \in Nat
        BY <4>1, <4>3
      <4> QED
        BY <4>4 DEF x
    <3> HIDE DEF cluster
    <3>5. e \in Entries /\ wanted \in Calls
      BY <1>2, <2>1, <3>4 DEF Entry, Entries, Calls
    <3>6. links \in [Indices -> Nat] /\ Marked(links, cache.index)
      <4>1. links \in [Indices -> Nat]
        BY <2>4, WhatConstantsAre
      <4>2. links[i] = EOC /\ \A j \in Indices : j # i => links[j] = cache.links[j]
        BY <2>4, <3>3
      <4>3. \A j \in Indices : cache.links[j] # fat[0][cache.index][j] =>
              fat[0][cache.index][j] = Free /\ cache.links[j] = EOC
        BY <2>4, <3>1 DEF Marked
      <4>4. fat[0][cache.index][i] = Free
        BY <3>3, <4>3, WhatConstantsAre
      <4> HIDE DEF links
      <4> QED
        BY <4>1, <4>2, <4>3, <4>4 DEF Marked
    <3>7. /\ fat_buffer' = links /\ buffered_fat_index' = cache.index
          /\ sector_buffer' = IF refused >= FatNumber THEN entries ELSE buffer[p[1]]
          /\ file' = IF refused > FatNumber THEN wanted ELSE given
          /\ Write(refused, written, cache.index, links, p[1], entries)
      BY <3>2 DEF cluster
    <3> HIDE DEF links, wanted, cache
    <3>8. PICK l, k : l = links /\ k = cache.index
      OBVIOUS
    <3>9. /\ fat' = fat \/ (refused \in Copies /\ fat' = [fat EXCEPT ![refused][k] = l])
          /\ dir' = dir \/ dir' = [dir EXCEPT ![p[1]] = entries]
      BY <3>7, <3>8 DEF Write
    <3>10. /\ fat' \in [Copies -> [FatSectors -> [Indices -> Nat]]]
          /\ Marked(l, k)' /\ CopiesRight' /\ LinksKept
      <4>1. l \in [Indices -> Nat] /\ k \in FatSectors /\ Marked(l, k)
        BY <3>1, <3>6, <3>8
      <4>2. CASE fat' = fat
        BY <4>1, <4>2, WhatConstantsAre, LinksWritten
      <4>3. CASE refused \in Copies /\ fat' = [fat EXCEPT ![refused][k] = l]
        BY <4>1, <4>3, LinksWritten
      <4> QED
        BY <3>9, <4>2, <4>3
    <3>11. dir' \in [Sectors -> Buffers] /\ (misread' \/ EntriesKept)
      BY <1>1, <1>7, <2>1, <2>2, <2>3, <3>5, <3>9, EntryWritten
    <3>12. sector_buffer' \in Buffers
      <4>1. entries \in Buffers
        BY <2>1, <2>2, <3>5 DEF Buffers
      <4> QED
        BY <2>2, <3>7, <4>1
    <3>13. file' \in Calls
      BY <1>3, <3>5, <3>7
    <3>14. FatTypes'
      BY <3>1, <3>6, <3>7, <3>10, <3>11, <3>12, <3>13 DEF FatTypes, Calls
    <3>15. BufferRight'
      BY <3>7, <3>10, <3>8 DEF BufferRight, Marked
    <3> QED
      BY <3>10, <3>11, <3>14, <3>15 DEF FatInv, VolumeStep
  <2> QED
    BY <1>7, <2>5, <2>6
<1> QED
  <2>1. \/ /\ file' = given /\ sector_buffer' = buffer[DirSectors - 1]
           /\ UNCHANGED <<volumeVars, fat_buffer, buffered_fat_index>>
        \/ \E p \in Sectors \X Slots :
             /\ buffer[p[1]][p[2]] = Empty /\ Misreads(bad, p[1])
             /\ \/ found.found /\ Allocate(name, size, p, buffer[p[1]], found.cache, refused, written)
                \/ /\ ~found.found
                   /\ fat_buffer' = found.cache.links /\ buffered_fat_index' = found.cache.index
                   /\ file' = given /\ sector_buffer' = buffer[p[1]] /\ UNCHANGED volumeVars
    <3> HIDE DEF buffer, found, given
    <3> QED
      BY DEF FileCreate, FirstPlace, buffer, found, given
  <2> QED
    BY <1>6, <1>7, <2>1

LEMMA UpdateKeeps ==
  ASSUME FatInv, NEW size \in Sizes, NEW bad, NEW written, UpdateEntry(size, bad, written)
  PROVE  FatInv' /\ VolumeStep
<1> DEFINE d == file.entry[1]
           i == file.entry[2]
           was == dir[d][i]
           e == [was EXCEPT !.name = file.name]
           g == [e EXCEPT !.size = size]
           named == [dir[d] EXCEPT ![i].name = file.name]
           sized == [named EXCEPT ![i].size = size]
<1>1. /\ d \in Sectors /\ i \in Slots /\ file.entry = <<d, i>>
      /\ dir \in [Sectors -> Buffers] /\ file \in Calls /\ size \in Nat
      /\ file.name \in Texts
  <2>1. file.entry \in Sectors \X Slots
    BY DEF UpdateEntry, FatInv, FatTypes
  <2> QED
    BY <2>1, WhatConstantsAre DEF FatInv, FatTypes, Calls
<1>2. dir[d] \in Buffers /\ was \in Entries
  BY <1>1 DEF Buffers
<1> HIDE DEF was
<1>3. e \in Entries /\ e.start = was.start
  BY <1>1, <1>2 DEF Entries
<1> HIDE DEF e
<1>4. g \in Entries /\ g.start = was.start
  BY <1>1, <1>3 DEF Entries
<1> HIDE DEF g
<1>5. named \in Buffers /\ named[i] = e /\ \A t \in Slots : t # i => named[t] = dir[d][t]
  <2>1. named = [dir[d] EXCEPT ![i] = e]
    BY <1>1, <1>2 DEF e, was, Buffers
  <2> HIDE DEF named
  <2> QED
    BY <1>1, <1>2, <1>3, <2>1 DEF Buffers
<1>6. sized \in Buffers /\ sized[i] = g /\ \A t \in Slots : t # i => sized[t] = dir[d][t]
  <2> HIDE DEF named
  <2>1. sized = [named EXCEPT ![i] = g]
    BY <1>1, <1>5, SMTT(30) DEF g, Buffers
  <2> HIDE DEF sized
  <2> QED
    BY <1>1, <1>4, <1>5, <2>1 DEF Buffers
<1> HIDE DEF named, sized
<1>7. /\ file' = [file EXCEPT !.size = size]
      /\ UNCHANGED <<fat, fat_buffer, buffered_fat_index, misread>>
      /\ sector_buffer' = sector_buffer \/ sector_buffer' = named \/ sector_buffer' = sized
      /\ dir' = dir \/ dir' = [dir EXCEPT ![d] = sized]
  BY DEF UpdateEntry, named, sized
<1>8. file' \in Calls
  BY <1>1, <1>7 DEF Calls
<1>9. sector_buffer' \in Buffers /\ dir' \in [Sectors -> Buffers]
  BY <1>1, <1>5, <1>6, <1>7 DEF FatInv, FatTypes
<1>10. EntriesKept
  <2> SUFFICES ASSUME NEW c \in Sectors, NEW t \in Slots, dir'[c][t] # dir[c][t]
               PROVE  file.entry = <<c, t>> /\ dir'[c][t].start = dir[c][t].start
    BY DEF EntriesKept
  <2>1. c = d /\ dir'[c] = sized
    BY <1>1, <1>7
  <2>2. t = i
    BY <1>6, <2>1
  <2> QED
    BY <1>1, <1>4, <1>6, <2>1, <2>2 DEF was
<1>11. FatTypes'
  BY <1>7, <1>8, <1>9 DEF FatInv, FatTypes, Calls
<1>12. BufferRight' /\ CopiesRight' /\ LinksKept
  BY <1>7 DEF FatInv, BufferRight, CopiesRight, LinksKept, Marked
<1> QED
  BY <1>10, <1>11, <1>12 DEF FatInv, VolumeStep

LEMMA FatNextKeeps ==
  ASSUME FatInv, FatNext
  PROVE  FatInv' /\ VolumeStep
<1>1. PICK bad \in BadSets, written \in BOOLEAN :
        \/ \E name \in Names : FileOpen(name, bad)
        \/ \E name \in Names, size \in Sizes, refused \in 0 .. FatNumber + 1 :
             FileCreate(name, size, bad, refused, written)
        \/ \E size \in Sizes : UpdateEntry(size, bad, written)
  BY DEF FatNext
<1>2. \A refused \in 0 .. FatNumber + 1 : refused \in Nat
  OBVIOUS
<1>3. ASSUME NEW name \in Names, FileOpen(name, bad)
      PROVE  FatInv' /\ VolumeStep
  BY <1>3, OpenKeeps
<1>4. ASSUME NEW name \in Names, NEW size \in Sizes, NEW refused \in 0 .. FatNumber + 1,
             FileCreate(name, size, bad, refused, written)
      PROVE  FatInv' /\ VolumeStep
  BY <1>2, <1>4, CreateKeeps
<1>5. ASSUME NEW size \in Sizes, UpdateEntry(size, bad, written)
      PROVE  FatInv' /\ VolumeStep
  BY <1>5, UpdateKeeps
<1> QED
  BY <1>1, <1>3, <1>4, <1>5

(* Empty buffers, of a program that starts, and the boot sector in the       *)
(* buffer that browsing shares, are right.                                   *)
LEMMA BootIs == Boot \in Buffers /\ NoFile \in Calls /\ NoFat \in [Indices -> Nat]
BY WhatConstantsAre DEF Boot, Buffers, Entry, Entries, NoFile, Calls, NoFat, Free

LEMMA RestartKeeps ==
  ASSUME FatInv, FatRestart
  PROVE  FatInv' /\ VolumeStep
<1>1. /\ fat_buffer' = NoFat /\ buffered_fat_index' = -1
      /\ sector_buffer' = Boot /\ file' = NoFile /\ UNCHANGED volumeVars
  BY DEF FatRestart
<1>2. FatTypes'
  BY <1>1, BootIs, VolumeSame DEF FatTypes, Calls
<1> QED
  BY <1>1, <1>2, VolumeSame DEF FatInv, BufferRight

LEMMA FatInitIs == FatInit => FatInv
<1> SUFFICES ASSUME FatInit
             PROVE  FatInv
  OBVIOUS
<1>1. PICK v \in Volumes : fat = [c \in Copies |-> v.fat] /\ dir = v.dir
  BY DEF FatInit
<1>2. v.fat \in [FatSectors -> [Indices -> Nat]] /\ v.dir \in [Sectors -> Buffers]
  BY VolumesAssumption DEF Buffers
<1>3. fat \in [Copies -> [FatSectors -> [Indices -> Nat]]]
  BY <1>1, <1>2
<1>4. FatTypes
  BY <1>1, <1>2, <1>3, BootIs DEF FatInit, FatTypes, Calls
<1>5. CopiesRight
  <2>1. \A c \in Copies : fat[c] = fat[0]
    BY <1>1, WhatConstantsAre
  <2> QED
    BY <2>1 DEF CopiesRight
<1> QED
  BY <1>4, <1>5 DEF FatInit, FatInv, BufferRight

-----------------------------------------------------------------------------
(* The stack.                                                               *)

(* What the driver and the card know of each other, and that the FAT code's *)
(* memory is of the volume that is on the card.                             *)
StorageInv == CardInv /\ FatInv

LEMMA UnusedKeeps ==
  ASSUME FatInv, UNCHANGED fatVars
  PROVE  FatInv' /\ VolumeStep
<1>1. UNCHANGED volumeVars /\ UNCHANGED bufferVars
  BY DEF fatVars
<1>2. FatTypes'
  BY <1>1, VolumeSame DEF FatInv, FatTypes, bufferVars
<1> QED
  BY <1>1, <1>2, VolumeSame DEF FatInv, BufferRight, bufferVars

LEMMA StorageInitIs == StorageInit => StorageInv
BY CardInitIs, FatInitIs DEF StorageInit, StorageInv

LEMMA StorageNextKeeps ==
  ASSUME StorageInv, [StorageNext]_vars
  PROVE  StorageInv' /\ [VolumeStep]_vars
<1>1. CardInv /\ FatInv
  BY DEF StorageInv
<1>2. ASSUME [CardNext]_cardVars
      PROVE  CardInv'
  BY <1>1, <1>2, CardNextKeeps
<1>3. CASE NewProgram
  <2>1. spi_init /\ FatRestart
    BY <1>3 DEF NewProgram
  <2>2. CardInv'
    BY <1>2, <2>1 DEF CardNext
  <2>3. FatInv' /\ VolumeStep
    BY <1>1, <2>1, RestartKeeps
  <2> QED
    BY <2>2, <2>3 DEF StorageInv
<1>4. CASE Mounting
  <2>1. (Driver \/ FindDrive) /\ UNCHANGED fatVars
    BY <1>4 DEF Mounting
  <2>2. CardInv'
    BY <1>2, <2>1 DEF CardNext
  <2>3. FatInv' /\ VolumeStep
    BY <1>1, <2>1, UnusedKeeps
  <2> QED
    BY <2>2, <2>3 DEF StorageInv
<1>5. CASE Browse
  <2>1. CardInv'
    BY <1>2, <1>5 DEF Browse, InUse
  <2>2. /\ UNCHANGED <<volumeVars, fat_buffer, buffered_fat_index, file>>
        /\ sector_buffer' = Boot
    BY <1>5 DEF Browse
  <2>3. FatTypes'
    BY <1>1, <2>2, BootIs DEF FatInv, FatTypes, volumeVars
  <2>4. FatInv' /\ VolumeStep
    BY <1>1, <2>2, <2>3, VolumeSame DEF FatInv, BufferRight, volumeVars
  <2> QED
    BY <2>1, <2>4 DEF StorageInv
<1>6. CASE Change
  <2>1. CardInv' /\ FatNext
    BY <1>2, <1>6 DEF Change, InUse
  <2>2. FatInv' /\ VolumeStep
    BY <1>1, <2>1, FatNextKeeps
  <2> QED
    BY <2>1, <2>2 DEF StorageInv
<1>7. CASE UNCHANGED vars
  <2>1. UNCHANGED cardVars /\ UNCHANGED fatVars
    BY <1>7 DEF vars
  <2> QED
    BY <1>1, <1>2, <1>7, <2>1, UnusedKeeps DEF StorageInv
<1> QED
  BY <1>3, <1>4, <1>5, <1>6, <1>7 DEF StorageNext

(* What the programs do to the card, to the volume on it and to the memory  *)
(* of the driver and of the FAT code: StorageInv is an invariant of the     *)
(* whole stack.                                                             *)
THEOREM StorageInvariance == StorageSpec => []StorageInv
<1>1. StorageInv /\ [StorageNext]_vars => StorageInv'
  BY StorageNextKeeps
<1> QED
  BY <1>1, StorageInitIs, PTL DEF StorageSpec

(* Whatever the programs open, create and update, whatever reads and writes *)
(* fail, and whenever a program is started anew, the links of the chains    *)
(* and the entries of other files stay as they are: FileOpen, FileCreate,   *)
(* UpdateEntry and FindDrive in fat.c.                                      *)
THEOREM VolumeAlwaysKept == StorageSpec => VolumeKept
<1>1. StorageInv /\ [StorageNext]_vars => [VolumeStep]_vars
  BY StorageNextKeeps
<1> QED
  BY <1>1, StorageInvariance, PTL DEF StorageSpec, VolumeKept

(* The card is addressed as it expects under the programs of the stack as   *)
(* well, which browse and write to it between one initialisation and the    *)
(* next.                                                                    *)
THEOREM CardStaysRight == StorageSpec => []CardRight
<1>1. StorageInv => CardRight
  BY DEF StorageInv, CardInv
<1> QED
  BY <1>1, StorageInvariance, PTL

-----------------------------------------------------------------------------
(* The order of the rows.                                                    *)

(* Of a set of numbers that is not empty there is a least.                   *)
LEMMA LeastOf ==
  ASSUME NEW S \in SUBSET Nat, S # {}
  PROVE  \E i \in S : \A j \in S : i <= j
<1>1. PICK i \in S : \A j \in S : ~(<<j, i>> \in OpToRel(<, Nat))
  BY WFMin, NatLessThanWellFounded
<1>2. \A j \in S : ~(j < i)
  <2>1. ASSUME NEW j \in S, j < i
        PROVE  FALSE
    <3>1. <<j, i>> \in OpToRel(<, Nat)
      BY <2>1 DEF OpToRel
    <3> QED
      BY <1>1, <3>1
  <2> QED
    BY <2>1
<1> QED
  <2>1. \A j \in S : i <= j
    <3>1. S \subseteq Nat /\ i \in S
      BY <1>1
    <3> HIDE <1>1
    <3> QED
      BY <1>2, <3>1
  <2> QED
    BY <1>1, <2>1

(* Of two texts one precedes the other, unless they are the same.            *)
LEMMA PrecedesTotal ==
  ASSUME NEW s \in Seq(Int), NEW t \in Seq(Int), s # t
  PROVE  Precedes(s, t) \/ Precedes(t, s)
<1> DEFINE D == {i \in Nat \ {0} : /\ i <= Len(s) \/ i <= Len(t)
                                   /\ ~(i <= Len(s) /\ i <= Len(t) /\ s[i] = t[i])}
<1>1. D # {}
  <2>1. CASE Len(s) = Len(t)
    <3>1. PICK i \in 1 .. Len(s) : s[i] # t[i]
      BY <2>1
    <3>2. i \in D
      BY <3>1
    <3> QED
      BY <3>2
  <2>2. CASE Len(s) < Len(t)
    <3>1. Len(t) \in D
      BY <2>2
    <3> QED
      BY <3>1
  <2>3. CASE Len(t) < Len(s)
    <3>1. Len(s) \in D
      BY <2>3
    <3> QED
      BY <3>1
  <2> QED
    BY <2>1, <2>2, <2>3
<1>2. PICK i \in D : \A j \in D : i <= j
  <2>1. D \in SUBSET Nat
    OBVIOUS
  <2> HIDE DEF D
  <2> QED
    BY <1>1, <2>1, LeastOf
<1>3. \A j \in 1 .. i - 1 : j <= Len(s) /\ j <= Len(t) /\ s[j] = t[j]
  BY <1>2
<1>4. CASE i > Len(s) \/ (i <= Len(t) /\ s[i] < t[i])
  <2>1. i \in 1 .. Len(t) /\ (i > Len(s) \/ s[i] < t[i])
    BY <1>2, <1>4
  <2> QED
    BY <1>3, <2>1 DEF Precedes
<1>5. CASE ~(i > Len(s) \/ (i <= Len(t) /\ s[i] < t[i]))
  <2>1. i \in 1 .. Len(s) /\ (i > Len(t) \/ t[i] < s[i])
    BY <1>2, <1>5
  <2> QED
    BY <1>3, <2>1 DEF Precedes
<1> QED
  BY <1>4, <1>5

(* No text precedes itself.                                                  *)
LEMMA PrecedesIrreflexive ==
  ASSUME NEW s \in Seq(Int)
  PROVE  ~Precedes(s, s)
BY DEF Precedes

(* The order of the texts is transitive.                                     *)
LEMMA PrecedesTransitive ==
  ASSUME NEW s \in Seq(Int), NEW t \in Seq(Int), NEW u \in Seq(Int),
         Precedes(s, t), Precedes(t, u)
  PROVE  Precedes(s, u)
<1>1. PICK i \in 1 .. Len(t) : /\ \A q \in 1 .. i - 1 : q <= Len(s) /\ s[q] = t[q]
                               /\ i > Len(s) \/ s[i] < t[i]
  BY DEF Precedes
<1>2. PICK j \in 1 .. Len(u) : /\ \A q \in 1 .. j - 1 : q <= Len(t) /\ t[q] = u[q]
                               /\ j > Len(t) \/ t[j] < u[j]
  BY DEF Precedes
<1>3. CASE i < j
  <2>1. i \in 1 .. Len(u) /\ t[i] = u[i]
    BY <1>2, <1>3
  <2>2. \A q \in 1 .. i - 1 : q <= Len(s) /\ s[q] = u[q]
    BY <1>1, <1>2, <1>3
  <2> QED
    BY <1>1, <2>1, <2>2 DEF Precedes
<1>4. CASE j < i
  <2>1. j <= Len(s) /\ s[j] = t[j] /\ t[j] < u[j]
    BY <1>1, <1>2, <1>4
  <2>2. \A q \in 1 .. j - 1 : q <= Len(s) /\ s[q] = u[q]
    BY <1>1, <1>2, <1>4
  <2> QED
    BY <1>2, <2>1, <2>2 DEF Precedes
<1>5. CASE i = j
  <2>1. i > Len(s) \/ s[i] < u[i]
    BY <1>1, <1>2, <1>5
  <2>2. \A q \in 1 .. j - 1 : q <= Len(s) /\ s[q] = u[q]
    BY <1>1, <1>2, <1>5
  <2> QED
    BY <1>2, <1>5, <2>1, <2>2 DEF Precedes
<1> QED
  BY <1>3, <1>4, <1>5

(* A strict total order on a set.                                            *)
StrictlyOrders(Lt, R) ==
  /\ \A a \in R : <<a, a>> \notin Lt
  /\ \A a, b \in R : a # b => <<a, b>> \in Lt \/ <<b, a>> \in Lt
  /\ \A a, b, c \in R : <<a, b>> \in Lt /\ <<b, c>> \in Lt => <<a, c>> \in Lt

BelowIn(R) == {p \in R \X R : Below(p[1], p[2])}

(* A directory holds slots of the kinds that are assumed, and its rows are   *)
(* made of them.                                                             *)
LEMMA RowTypes ==
  ASSUME NEW d \in Directories, NEW k \in Listed(d)
  PROVE  /\ k \in 1 .. Len(d) /\ d[k].name \in Seq(Int) /\ d[k].name # <<>>
         /\ d[k].kind \in {"file", "dir"}
         /\ LongNameOf(d, k) \in Seq(Int)
         /\ NameOf(RowOf(d, k)) \in Seq(Int)
<1>1. k \in 1 .. Len(d) /\ Wanted(d[k]) /\ SlotRight(d[k])
  BY DirectoriesAssumption DEF Listed
<1>2. d[k].kind \in {"file", "dir"} /\ d[k].name \in Seq(Int) /\ d[k].name # <<>>
  BY <1>1 DEF Wanted, SlotRight
<1>3. Len(d) \in Nat
  BY DirectoriesAssumption
<1>4. LongNameOf(d, k) \in Seq(Int)
  <2>1. CASE "SCAN_LFN" \in Options /\ \E n \in 1 .. k : PartsBefore(d, k, n)
    <3> DEFINE n == CHOOSE n \in 1 .. k : PartsBefore(d, k, n)
    <3>1. n \in 1 .. k /\ PartsBefore(d, k, n)
      BY <2>1
    <3>2. LongNameOf(d, k) = [i \in 1 .. n |-> d[k - i].text]
      BY <2>1 DEF LongNameOf
    <3> HIDE DEF n
    <3>3. ASSUME NEW i \in 1 .. n
          PROVE  d[k - i].text \in Int
      <4>1. k - i \in 1 .. Len(d) /\ d[k - i].kind = "lfn"
        BY <1>1, <1>3, <3>1, SMTT(30) DEF PartsBefore
      <4>2. SlotRight(d[k - i])
        BY <4>1, DirectoriesAssumption
      <4> QED
        BY <4>1, <4>2 DEF SlotRight
    <3>4. n \in Nat
      BY <1>1, <1>3, <3>1
    <3> QED
      BY <3>2, <3>3, <3>4
  <2>2. CASE ~("SCAN_LFN" \in Options /\ \E n \in 1 .. k : PartsBefore(d, k, n))
    BY <2>2 DEF LongNameOf
  <2> QED
    BY <2>1, <2>2
<1> QED
  BY <1>1, <1>2, <1>4 DEF NameOf, RowOf, Row

(* Two rows are in order, as their names differ.                             *)
LEMMA BelowTotal ==
  ASSUME NEW d \in Directories
  PROVE  StrictlyOrders(BelowIn(RowsOf(d)), RowsOf(d))
<1>1. ASSUME NEW r \in RowsOf(d)
      PROVE  NameOf(r) \in Seq(Int) /\ IsDir(r) \in BOOLEAN
  BY <1>1, RowTypes DEF RowsOf, IsDir
<1>2. ASSUME NEW a \in RowsOf(d)
      PROVE  ~Below(a, a)
  BY <1>1, PrecedesIrreflexive DEF Below
<1>3. ASSUME NEW a \in RowsOf(d), NEW b \in RowsOf(d), a # b
      PROVE  Below(a, b) \/ Below(b, a)
  <2>1. PICK k \in Listed(d), l \in Listed(d) : a = RowOf(d, k) /\ b = RowOf(d, l)
    BY DEF RowsOf
  <2>2. k # l
    BY <1>3, <2>1
  <2>3. /\ d[k].name # d[l].name
        /\ LongNameOf(d, k) # <<>> => LongNameOf(d, k) # LongNameOf(d, l)
    BY <2>2, DirectoriesAssumption DEF NamesDiffer
  <2>4. CASE NameOf(a) = NameOf(b)
    <3>1. (a.long = <<>> /\ b.long # <<>>) \/ (b.long = <<>> /\ a.long # <<>>)
      BY <2>1, <2>3, <2>4 DEF NameOf, RowOf, Row
    <3> QED
      BY <1>1, <2>4, <3>1 DEF Below
  <2>5. CASE NameOf(a) # NameOf(b)
    BY <1>1, <2>5, PrecedesTotal DEF Below
  <2> QED
    BY <2>4, <2>5
<1>4. ASSUME NEW a \in RowsOf(d), NEW b \in RowsOf(d), NEW c \in RowsOf(d), Below(a, b), Below(b, c)
      PROVE  Below(a, c)
  <2>1. CASE IsDir(a) = IsDir(b) /\ IsDir(b) = IsDir(c)
    BY <1>1, <1>4, <2>1, PrecedesTransitive DEF Below
  <2>2. CASE ~(IsDir(a) = IsDir(b) /\ IsDir(b) = IsDir(c))
    BY <1>1, <1>4, <2>2 DEF Below
  <2> QED
    BY <2>1, <2>2
<1> DEFINE R == RowsOf(d)
<1>5. \A a, b \in R : <<a, b>> \in BelowIn(R) <=> Below(a, b)
  BY DEF BelowIn
<1> HIDE DEF R
<1> QED
  BY <1>2, <1>3, <1>4, <1>5 DEF StrictlyOrders, R

-----------------------------------------------------------------------------
(* The sorted list.  F goes through R in the order Lt.                       *)

Enumerates(F, m, Lt, R) ==
  /\ F \in [1 .. m -> R]
  /\ \A i, j \in 1 .. m : <<F[i], F[j]>> \in Lt <=> i < j
  /\ \A r \in R : \E i \in 1 .. m : F[i] = r

(* For every place there is an element that has as many below it, and these  *)
(* elements are in order.                                                    *)
LEMMA RanksEnumerate ==
  ASSUME NEW R, IsFiniteSet(R), NEW Lt, StrictlyOrders(Lt, R)
  PROVE  /\ \A i \in 1 .. Cardinality(R) :
              \E r \in R : Cardinality({q \in R : <<q, r>> \in Lt}) = i - 1
         /\ \A F \in [1 .. Cardinality(R) -> R] :
              (\A i \in 1 .. Cardinality(R) : Cardinality({q \in R : <<q, F[i]>> \in Lt}) = i - 1)
              => Enumerates(F, Cardinality(R), Lt, R)
<1> DEFINE m == Cardinality(R)
           B(r) == {q \in R : <<q, r>> \in Lt}
           rank == [r \in R |-> Cardinality(B(r))]
<1>1. m \in Nat
  BY FS_CardinalityType
<1>2. ASSUME NEW r \in R
      PROVE  rank[r] \in 0 .. m - 1
  <2>1. B(r) \in SUBSET R /\ r \notin B(r)
    BY DEF StrictlyOrders
  <2>2. IsFiniteSet(B(r)) /\ Cardinality(B(r)) <= m /\ (m = Cardinality(B(r)) => R = B(r))
    BY <2>1, FS_Subset
  <2>3. Cardinality(B(r)) \in Nat /\ Cardinality(B(r)) # m
    BY <2>1, <2>2, FS_CardinalityType
  <2> HIDE DEF B, m
  <2> QED
    BY <1>1, <2>2, <2>3
<1>3. ASSUME NEW r \in R, NEW q \in R, <<q, r>> \in Lt
      PROVE  rank[q] < rank[r]
  <2>1. B(q) \in SUBSET B(r) /\ q \in B(r) /\ q \notin B(q)
    BY <1>3 DEF StrictlyOrders
  <2>2. IsFiniteSet(B(r)) /\ IsFiniteSet(B(q))
    <3>1. B(r) \in SUBSET R /\ B(q) \in SUBSET R
      OBVIOUS
    <3> QED
      BY <3>1, FS_Subset
  <2>3. Cardinality(B(q)) <= Cardinality(B(r)) /\ Cardinality(B(q)) # Cardinality(B(r))
    BY <2>1, <2>2, FS_Subset
  <2>4. rank[q] = Cardinality(B(q)) /\ rank[r] = Cardinality(B(r))
    OBVIOUS
  <2> QED
    BY <1>2, <2>3, <2>4
<1>4. rank \in [R -> 0 .. m - 1]
  <2>1. rank = [r \in R |-> rank[r]]
    OBVIOUS
  <2> HIDE DEF rank, m
  <2> QED
    BY <1>2, <2>1
<1>5. ASSUME NEW r \in R, NEW q \in R, r # q
      PROVE  rank[r] # rank[q]
  <2>1. rank[r] \in 0 .. m - 1 /\ rank[q] \in 0 .. m - 1
    BY <1>2
  <2>2. <<q, r>> \in Lt \/ <<r, q>> \in Lt
    BY <1>5 DEF StrictlyOrders
  <2>3. (<<q, r>> \in Lt => rank[q] < rank[r]) /\ (<<r, q>> \in Lt => rank[r] < rank[q])
    BY <1>3
  <2> HIDE DEF rank, m
  <2> QED
    BY <1>1, <2>1, <2>2, <2>3
<1>6. ASSUME NEW x \in 0 .. m - 1
      PROVE  \E r \in R : rank[r] = x
  <2> HIDE DEF rank
  <2>1. IsFiniteSet(0 .. m - 1) /\ Cardinality(0 .. m - 1) = m
    <3>1. 0 \in Int /\ m - 1 \in Int
      BY <1>1
    <3>2. IsFiniteSet(0 .. m - 1) /\ Cardinality(0 .. m - 1) = IF 0 > m - 1 THEN 0 ELSE (m - 1) - 0 + 1
      BY <3>1, FS_Interval
    <3> QED
      <4> HIDE DEF m
      <4> QED
        BY <1>1, <3>2
  <2>2. rank \in Injection(R, 0 .. m - 1)
    BY <1>4, <1>5 DEF Injection, IsInjective
  <2>3. rank \in Surjection(R, 0 .. m - 1)
    BY <2>1, <2>2, FS_Injection
  <2> QED
    BY <2>3 DEF Surjection
<1>7. ASSUME NEW i \in 1 .. m
      PROVE  \E r \in R : Cardinality(B(r)) = i - 1
  <2>1. i - 1 \in 0 .. m - 1
    BY <1>1
  <2>2. PICK r \in R : rank[r] = i - 1
    BY <1>6, <2>1
  <2> QED
    BY <2>2
<1>8. ASSUME NEW F \in [1 .. m -> R], \A i \in 1 .. m : Cardinality(B(F[i])) = i - 1
      PROVE  Enumerates(F, m, Lt, R)
  <2>1. \A i \in 1 .. m : F[i] \in R /\ rank[F[i]] = i - 1
    BY <1>8
  <2> HIDE DEF rank, m, B
  <2>2. ASSUME NEW i \in 1 .. m, NEW j \in 1 .. m
        PROVE  <<F[i], F[j]>> \in Lt <=> i < j
    <3>1. F[i] \in R /\ F[j] \in R /\ rank[F[i]] = i - 1 /\ rank[F[j]] = j - 1
      BY <2>1
    <3>2. CASE i = j
      <4>1. <<F[i], F[j]>> \notin Lt
        BY <3>1, <3>2 DEF StrictlyOrders
      <4> QED
        BY <1>1, <3>2, <4>1
    <3>3. CASE i # j
      <4>1. F[i] # F[j]
        BY <1>1, <3>1, <3>3
      <4>2. <<F[i], F[j]>> \in Lt \/ <<F[j], F[i]>> \in Lt
        BY <3>1, <4>1 DEF StrictlyOrders
      <4>3. <<F[i], F[j]>> \in Lt => rank[F[i]] < rank[F[j]]
        BY <1>3, <3>1
      <4>4. <<F[j], F[i]>> \in Lt => rank[F[j]] < rank[F[i]]
        BY <1>3, <3>1
      <4> QED
        BY <1>1, <3>1, <4>2, <4>3, <4>4
    <3> QED
      BY <3>2, <3>3
  <2>3. ASSUME NEW r \in R
        PROVE  \E i \in 1 .. m : F[i] = r
    <3>1. rank[r] + 1 \in 1 .. m /\ (rank[r] + 1) - 1 = rank[r]
      BY <1>1, <1>2
    <3>2. F[rank[r] + 1] \in R /\ rank[F[rank[r] + 1]] = rank[r]
      BY <2>1, <3>1
    <3>3. F[rank[r] + 1] = r
      BY <1>5, <3>2
    <3> QED
      BY <3>1, <3>3
  <2> QED
    BY <2>2, <2>3 DEF Enumerates
<1> QED
  BY <1>7, <1>8

Number(d) == Cardinality(RowsOf(d))

(* The sorted list enumerates the rows in their order.                       *)
LEMMA SortedIs ==
  ASSUME NEW d \in Directories
  PROVE  /\ IsFiniteSet(RowsOf(d)) /\ Number(d) \in Nat
         /\ Enumerates(Sorted(d), Number(d), BelowIn(RowsOf(d)), RowsOf(d))
<1> DEFINE R == RowsOf(d)
<1>1. IsFiniteSet(R)
  <2>1. Len(d) \in Nat
    BY DirectoriesAssumption
  <2>2. IsFiniteSet(1 .. Len(d))
    BY <2>1, FS_Interval
  <2>3. Listed(d) \in SUBSET (1 .. Len(d))
    BY DEF Listed
  <2>4. IsFiniteSet(Listed(d))
    BY <2>2, <2>3, FS_Subset
  <2> DEFINE f == [k \in Listed(d) |-> RowOf(d, k)]
  <2>5. f \in Surjection(Listed(d), R)
    BY DEF Surjection, RowsOf
  <2> QED
    BY <2>4, <2>5, FS_Surjection
<1>2. Number(d) \in Nat
  BY <1>1, FS_CardinalityType DEF Number
<1>3. ASSUME NEW r \in R
      PROVE  {q \in R : <<q, r>> \in BelowIn(R)} = {q \in R : Below(q, r)}
  BY DEF BelowIn
<1>4. StrictlyOrders(BelowIn(R), R)
  BY BelowTotal
<1>5. ASSUME NEW i \in 1 .. Cardinality(R)
      PROVE  Sorted(d)[i] \in R /\ Cardinality({q \in R : <<q, Sorted(d)[i]>> \in BelowIn(R)}) = i - 1
  <2>1. \E r \in R : Cardinality({q \in R : <<q, r>> \in BelowIn(R)}) = i - 1
    <3> HIDE DEF R
    <3> QED
      BY <1>1, <1>4, RanksEnumerate
  <2>2. \E r \in R : Cardinality({q \in R : Below(q, r)}) = i - 1
    BY <1>3, <2>1
  <2>3. Sorted(d)[i] = CHOOSE r \in R : Cardinality({q \in R : Below(q, r)}) = i - 1
    BY DEF Sorted
  <2>4. Sorted(d)[i] \in R /\ Cardinality({q \in R : Below(q, Sorted(d)[i])}) = i - 1
    BY <2>2, <2>3
  <2> QED
    BY <1>3, <2>4
<1>6. Sorted(d) \in [1 .. Cardinality(R) -> R]
  <2>1. Sorted(d) = [i \in 1 .. Cardinality(R) |-> Sorted(d)[i]]
    BY SMTT(30) DEF Sorted
  <2> QED
    BY <1>5, <2>1
<1>7. Enumerates(Sorted(d), Cardinality(R), BelowIn(R), R)
  <2> HIDE DEF R
  <2> QED
    BY <1>1, <1>4, <1>5, <1>6, RanksEnumerate
<1> QED
  BY <1>1, <1>2, <1>7 DEF Number

-----------------------------------------------------------------------------
(* Long names.  After k slots a long name is under way when its last part,   *)
(* the first to come, was at q and its entry is still to come.               *)

Lfns == [text : Seq(Int), error : BOOLEAN, number : Int, sum : Seq(Int)]

UnderWay(d, k, q) ==
  q \in 1 .. k /\ d[q].kind = "lfn" /\ d[q].last /\ k < q + d[q].number

(* What has been put together of it.                                         *)
Assembled(d, k, q, l) ==
  LET n == d[q].number
  IN  /\ ~l.error /\ l.number = n - (k - q) /\ l.sum = d[q + n].name /\ Len(l.text) = n
      /\ \A i \in n - (k - q) .. n : l.text[i] = d[q + n - i].text

LfnRight(d, k, l) ==
  /\ l \in Lfns
  /\ IF "SCAN_LFN" \in Options /\ \E q \in 1 .. k : UnderWay(d, k, q)
     THEN \A q \in 1 .. k : UnderWay(d, k, q) => Assembled(d, k, q, l)
     ELSE LongName(l) = <<>> /\ (l.error \/ l.number = 1)
  /\ "SCAN_LFN" \notin Options => l.text = <<>>

NextLfn(l, slot) ==
  IF slot.kind = "unused" THEN l
  ELSE IF slot.kind = "lfn" THEN IF "SCAN_LFN" \in Options THEN Assemble(l, slot) ELSE l
  ELSE [l EXCEPT !.text = Ended(@)]

(* A last part is followed by the others and by the entry.                   *)
LEMMA PartsOf ==
  ASSUME NEW d \in Directories, NEW q \in 1 .. Len(d), d[q].kind = "lfn", d[q].last
  PROVE  /\ d[q].number \in Nat \ {0} /\ q + d[q].number \in 1 .. Len(d)
         /\ d[q + d[q].number].kind \in {"file", "dir", "hidden"}
         /\ \A p \in q .. q + d[q].number - 1 :
              /\ d[p].kind = "lfn" /\ d[p].number = q + d[q].number - p
              /\ d[p].last = (p = q) /\ d[p].sum = d[q + d[q].number].name
<1> DEFINE n == d[q].number
           k == q + n
<1>1. Len(d) \in Nat /\ SlotRight(d[q])
  BY DirectoriesAssumption
<1>2. n \in Nat \ {0}
  BY <1>1 DEF SlotRight
<1>3. k <= Len(d) /\ d[k].kind \in {"file", "dir", "hidden"} /\ PartsBefore(d, k, n)
  BY DirectoriesAssumption DEF PartsWhole
<1> HIDE DEF n
<1>4. ASSUME NEW p \in q .. k - 1
      PROVE  d[p].kind = "lfn" /\ d[p].number = k - p /\ d[p].last = (p = q) /\ d[p].sum = d[k].name
  <2>1. k - p \in 1 .. n /\ k - (k - p) = p /\ (k - p = n <=> p = q)
    BY <1>1, <1>2
  <2>2. d[k - (k - p)].kind = "lfn" /\ d[k - (k - p)].number = k - p
        /\ d[k - (k - p)].last = (k - p = n) /\ d[k - (k - p)].sum = d[k].name
    BY <1>3, <2>1 DEF PartsBefore
  <2> QED
    BY <2>1, <2>2
<1> QED
  BY <1>1, <1>2, <1>3, <1>4 DEF n

(* The state of the long names before the first slot is right.               *)
LEMMA NoLfnIs ==
  ASSUME NEW d \in Directories
  PROVE  LfnRight(d, 0, NoLFN)
<1>1. NoLFN \in Lfns /\ LongName(NoLFN) = <<>> /\ NoLFN.error /\ NoLFN.text = <<>>
  BY DEF NoLFN, Lfns, LongName
<1> QED
  BY <1>1 DEF LfnRight, UnderWay

(* A part: it is the next of the name under way, or begins one, or is out of *)
(* turn.                                                                     *)
LEMMA PartStep ==
  ASSUME NEW d \in Directories, NEW k \in 1 .. Len(d), d[k].kind = "lfn",
         NEW l, LfnRight(d, k - 1, l), "SCAN_LFN" \in Options
  PROVE  LfnRight(d, k, Assemble(l, d[k]))
<1> DEFINE part == d[k]
           error == ~part.last /\ (l.error \/ part.number # l.number - 1 \/ part.sum # l.sum)
           size  == IF part.last THEN part.number ELSE Len(l.text)
           text  == [i \in 1 .. size |-> IF i = part.number THEN part.text
                                         ELSE IF i <= Len(l.text) THEN l.text[i] ELSE 0]
           m == Assemble(l, d[k])
<1>1. Len(d) \in Nat /\ k \in Nat /\ l \in Lfns /\ l.text \in Seq(Int) /\ Len(l.text) \in Nat
      /\ l.error \in BOOLEAN /\ l.number \in Int
  BY DirectoriesAssumption DEF LfnRight, Lfns
<1>2. part.last \in BOOLEAN /\ part.number \in Nat \ {0} /\ part.text \in Int /\ part.sum \in Seq(Int)
  BY DirectoriesAssumption DEF SlotRight
<1>3. /\ m.text = (IF error THEN l.text ELSE text) /\ m.error = error
      /\ m.number = part.number /\ m.sum = part.sum
  BY DEF Assemble
<1>4. text \in Seq(Int) /\ Len(text) = size
  <2>1. size \in Nat
    BY <1>1, <1>2
  <2> HIDE DEF size
  <2>2. \A i \in 1 .. size : text[i] \in Int
    BY <1>1, <1>2, <2>1
  <2>3. text = [i \in 1 .. size |-> text[i]]
    OBVIOUS
  <2> HIDE DEF text
  <2> QED
    BY <2>1, <2>2, <2>3
<1>5. m \in Lfns
  <2> HIDE DEF text, error, size, part
  <2>1. m = [text |-> m.text, error |-> m.error, number |-> m.number, sum |-> m.sum]
    BY DEF Assemble
  <2>2. error \in BOOLEAN
    BY <1>1, <1>2 DEF error
  <2> HIDE DEF m
  <2> QED
    BY <1>1, <1>2, <1>3, <1>4, <2>1, <2>2 DEF Lfns
<1> HIDE DEF m, text, error, size
<1>6. ASSUME NEW q \in 1 .. k, UnderWay(d, k, q)
      PROVE  Assembled(d, k, q, m)
  <2> DEFINE n == d[q].number
  <2>1. /\ n \in Nat \ {0} /\ q + n \in 1 .. Len(d)
        /\ \A p \in q .. q + n - 1 :
              /\ d[p].kind = "lfn" /\ d[p].number = q + n - p
              /\ d[p].last = (p = q) /\ d[p].sum = d[q + n].name
    <3>1. q \in 1 .. Len(d)
      BY <1>1
    <3> QED
      BY <1>6, <3>1, PartsOf DEF UnderWay
  <2> HIDE DEF n
  <2>2. k \in q .. q + n - 1
    BY <1>1, <1>6, <2>1 DEF UnderWay, n
  <2>3. part.number = q + n - k /\ part.last = (k = q) /\ part.sum = d[q + n].name
    BY <2>1, <2>2
  <2>4. CASE k = q
    <3>1. ~error /\ size = n /\ part.last
      BY <2>3, <2>4 DEF error, size, n
    <3>2. m.text = text /\ ~m.error /\ Len(text) = n /\ text[n] = part.text
      BY <1>3, <1>4, <2>1, <2>3, <2>4, <3>1 DEF text
    <3>3. ASSUME NEW i \in n - (k - q) .. n
          PROVE  i = n /\ q + n - i = k
      <4>1. n \in Int /\ q \in Int /\ k \in Int
        BY <1>1, <2>1, <2>4
      <4> QED
        BY ONLY <2>4, <4>1, <3>3
    <3>4. m.number = n - (k - q)
      BY <1>1, <1>3, <2>1, <2>3, <2>4
    <3> QED
      BY <1>3, <2>3, <3>2, <3>3, <3>4 DEF Assembled, n
  <2>5. CASE k # q
    <3>1. q \in 1 .. k - 1 /\ UnderWay(d, k - 1, q)
      BY <1>1, <1>6, <2>1, <2>5 DEF UnderWay, n
    <3>2. Assembled(d, k - 1, q, l)
      BY <3>1 DEF LfnRight
    <3>3. /\ ~l.error /\ l.number = n - ((k - 1) - q) /\ l.sum = d[q + n].name /\ Len(l.text) = n
          /\ \A i \in n - ((k - 1) - q) .. n : l.text[i] = d[q + n - i].text
      BY <3>2 DEF Assembled, n
    <3>4. part.number = l.number - 1 /\ part.sum = l.sum /\ ~part.last
      BY <1>1, <2>1, <2>3, <2>5, <3>3
    <3>5. ~error /\ size = n
      BY <3>3, <3>4 DEF error, size
    <3>6. m.text = text /\ ~m.error /\ Len(text) = n
      BY <1>3, <1>4, <3>5
    <3>7. ASSUME NEW i \in n - (k - q) .. n
          PROVE  text[i] = d[q + n - i].text
      <4>1. i \in 1 .. n
        BY <1>1, <2>1, <2>2
      <4>2. text[i] = IF i = part.number THEN part.text ELSE l.text[i]
        BY <1>1, <2>1, <3>3, <3>5, <4>1 DEF text
      <4>3. CASE i = part.number
        <5>1. q + n - i = k
          BY <1>1, <2>1, <2>3, <4>3
        <5> QED
          BY <4>2, <4>3, <5>1
      <4>4. CASE i # part.number
        <5>1. i \in n - ((k - 1) - q) .. n
          BY <1>1, <2>1, <2>3, <4>4
        <5> QED
          BY <3>3, <4>2, <4>4, <5>1
      <4> QED
        BY <4>3, <4>4
    <3>8. m.number = n - (k - q)
      BY <1>1, <1>3, <2>1, <2>3
    <3> QED
      BY <1>3, <2>3, <3>6, <3>7, <3>8 DEF Assembled, n
  <2> QED
    BY <2>4, <2>5
<1>7. CASE \E q \in 1 .. k : UnderWay(d, k, q)
  BY <1>5, <1>6, <1>7 DEF LfnRight, m
<1>8. CASE ~\E q \in 1 .. k : UnderWay(d, k, q)
  <2>1. ~part.last
    <3>1. part.last => UnderWay(d, k, k)
      BY <1>1, <1>2 DEF UnderWay
    <3> QED
      BY <1>8, <3>1, <1>1
  <2>2. ASSUME NEW q \in 1 .. k - 1, UnderWay(d, k - 1, q)
        PROVE  FALSE
    <3>1. q \in 1 .. Len(d) /\ q \in 1 .. k
      BY <1>1
    <3>2. /\ d[q].number \in Nat \ {0}
          /\ d[q + d[q].number].kind \in {"file", "dir", "hidden"}
      BY <2>2, <3>1, PartsOf DEF UnderWay
    <3>3. k # q + d[q].number
      BY <3>2
    <3>4. UnderWay(d, k, q)
      BY <1>1, <2>2, <3>1, <3>2, <3>3 DEF UnderWay
    <3> QED
      BY <1>8, <3>1, <3>4
  <2>3. LongName(l) = <<>> /\ (l.error \/ l.number = 1)
    BY <2>2 DEF LfnRight
  <2>4. error
    BY <1>1, <1>2, <2>1, <2>3 DEF error
  <2>5. m.text = l.text /\ m.error
    BY <1>3, <2>4
  <2>6. LongName(m) = <<>>
    BY <2>3, <2>5 DEF LongName
  <2> QED
    BY <1>5, <1>8, <2>5, <2>6 DEF LfnRight, m
<1> QED
  BY <1>7, <1>8

(* Any slot, and what an entry has for a name when it comes: the rows that   *)
(* are compared, and the rows that are stored, are those of the list.        *)
LEMMA LfnStep ==
  ASSUME NEW d \in Directories, NEW k \in 1 .. Len(d), NEW l, LfnRight(d, k - 1, l)
  PROVE  /\ LfnRight(d, k, NextLfn(l, d[k]))
         /\ k \in Listed(d) => /\ Row(d[k], LongName(l)) = RowOf(d, k)
                               /\ Stored(d[k], l) = RowOf(d, k)
<1>1. /\ Len(d) \in Nat /\ k \in Nat /\ l \in Lfns /\ l.text \in Seq(Int) /\ SlotRight(d[k])
      /\ l.error \in BOOLEAN /\ l.number \in Int
  BY DirectoriesAssumption DEF LfnRight, Lfns
<1>2. NextLfn(l, d[k]) \in Lfns
  <2>1. Ended(l.text) \in Seq(Int)
    <3>1. \A i \in 1 .. Len(l.text) : (IF i = 1 THEN 0 ELSE l.text[i]) \in Int
      BY <1>1
    <3>2. Len(l.text) \in Nat
      BY <1>1
    <3> QED
      BY <3>1, <3>2 DEF Ended
  <2>2. [l EXCEPT !.text = Ended(@)] \in Lfns
    BY <1>1, <2>1 DEF Lfns
  <2>3. d[k].kind = "lfn" /\ "SCAN_LFN" \in Options => Assemble(l, d[k]) \in Lfns
    BY PartStep DEF LfnRight
  <2> QED
    BY <1>1, <2>2, <2>3 DEF NextLfn
<1>3. CASE "SCAN_LFN" \notin Options
  <2>1. l.text = <<>> /\ LongName(l) = <<>> /\ (l.error \/ l.number = 1)
    BY <1>3 DEF LfnRight
  <2>2. Ended(<<>>) = <<>>
    BY DEF Ended
  <2>3. /\ NextLfn(l, d[k]).text = <<>> /\ NextLfn(l, d[k]).error = l.error
        /\ NextLfn(l, d[k]).number = l.number
    BY <1>1, <1>3, <2>1, <2>2 DEF NextLfn, Lfns
  <2>4. LongName(NextLfn(l, d[k])) = <<>>
    BY <2>3 DEF LongName
  <2>5. LfnRight(d, k, NextLfn(l, d[k]))
    BY <1>2, <1>3, <2>1, <2>3, <2>4 DEF LfnRight
  <2>6. LongNameOf(d, k) = <<>>
    BY <1>3 DEF LongNameOf
  <2> QED
    BY <2>1, <2>5, <2>6 DEF Stored, RowOf
<1>4. CASE "SCAN_LFN" \in Options /\ d[k].kind = "lfn"
  BY <1>4, PartStep DEF NextLfn, Listed, Wanted
<1>5. CASE "SCAN_LFN" \in Options /\ d[k].kind # "lfn"
  <2>1. ASSUME NEW q \in 1 .. k, UnderWay(d, k, q)
        PROVE  FALSE
    <3>1. q \in 1 .. Len(d) /\ q <= k
      BY <1>1
    <3>2. d[k].kind = "lfn"
      BY <1>1, <2>1, <3>1, PartsOf DEF UnderWay
    <3> QED
      BY <1>5, <3>2
  <2>2. CASE \E q \in 1 .. k - 1 : UnderWay(d, k - 1, q)
    <3>1. PICK q \in 1 .. k - 1 : UnderWay(d, k - 1, q)
      BY <2>2
    <3> DEFINE n == d[q].number
    <3>2. q \in 1 .. Len(d) /\ q \in 1 .. k
      BY <1>1
    <3>3. /\ n \in Nat \ {0} /\ q + n \in 1 .. Len(d)
          /\ d[q + n].kind \in {"file", "dir", "hidden"}
          /\ \A p \in q .. q + n - 1 :
              /\ d[p].kind = "lfn" /\ d[p].number = q + n - p
              /\ d[p].last = (p = q) /\ d[p].sum = d[q + n].name
      BY <3>1, <3>2, PartsOf DEF UnderWay
    <3>4. k = q + n
      <4>1. ~UnderWay(d, k, q)
        BY <2>1, <3>2
      <4> QED
        BY <1>1, <3>1, <3>2, <3>3, <4>1 DEF UnderWay
    <3>5. Assembled(d, k - 1, q, l)
      BY <1>5, <3>1 DEF LfnRight
    <3> HIDE DEF n
    <3>6. /\ ~l.error /\ l.number = 1 /\ l.sum = d[k].name /\ Len(l.text) = n
          /\ \A i \in 1 .. n : l.text[i] = d[k - i].text
      <4>1. q \in Nat /\ (k - 1) - q = n - 1 /\ n - ((k - 1) - q) = 1 /\ q + n = k
        BY <1>1, <3>2, <3>3, <3>4
      <4>2. /\ ~l.error /\ l.number = n - ((k - 1) - q) /\ l.sum = d[q + n].name /\ Len(l.text) = n
            /\ \A i \in n - ((k - 1) - q) .. n : l.text[i] = d[q + n - i].text
        BY <3>5 DEF Assembled, n
      <4>3. ASSUME NEW i \in 1 .. n
            PROVE  l.text[i] = d[k - i].text
        <5>1. q + n - i = k - i /\ i \in n - ((k - 1) - q) .. n
          BY <3>3, <4>1
        <5>2. l.text[i] = d[q + n - i].text
          BY <4>2, <5>1
        <5> QED
          BY <5>1, <5>2
      <4>4. l.number = 1 /\ l.sum = d[k].name
        BY <4>1, <4>2
      <4> QED
        BY <4>2, <4>3, <4>4
    <3>7. ASSUME NEW i \in 1 .. n
          PROVE  /\ d[k - i].kind = "lfn" /\ d[k - i].number = i /\ d[k - i].last = (i = n)
                 /\ d[k - i].sum = d[k].name /\ SlotRight(d[k - i])
      <4>1. k - i \in q .. q + n - 1 /\ q + n - (k - i) = i /\ (k - i = q <=> i = n) /\ k - i \in 1 .. Len(d)
        <5>1. q \in Nat \ {0} /\ n \in Nat /\ Len(d) \in Nat /\ k <= Len(d) /\ k \in Nat /\ i \in Nat
          BY <1>1, <3>2, <3>3
        <5> QED
          BY <3>4, <5>1
      <4> QED
        BY <3>3, <3>4, <4>1, DirectoriesAssumption
    <3>8. PartsBefore(d, k, n) /\ n \in 1 .. k
      BY <1>1, <3>1, <3>3, <3>4, <3>7 DEF PartsBefore
    <3>9. ASSUME NEW j \in 1 .. k, PartsBefore(d, k, j)
          PROVE  j = n
      <4>1. CASE j < n
        <5>1. d[k - j].last = (j = j)
          BY <3>9 DEF PartsBefore
        <5>2. d[k - j].last = (j = n)
          BY <3>3, <3>7, <4>1
        <5> QED
          BY <4>1, <5>1, <5>2, <3>3
      <4>2. CASE n < j
        <5>1. d[k - n].last = (n = j)
          BY <3>3, <3>9, <4>2 DEF PartsBefore
        <5>2. d[k - n].last = (n = n)
          BY <3>3, <3>7
        <5> QED
          BY <4>2, <5>1, <5>2, <3>3
      <4> QED
        BY <1>1, <3>3, <4>1, <4>2
    <3>10. LongNameOf(d, k) = [i \in 1 .. n |-> d[k - i].text]
      <4> DEFINE c == CHOOSE j \in 1 .. k : PartsBefore(d, k, j)
      <4>1. c = n
        BY <3>8, <3>9
      <4>2. LongNameOf(d, k) = [i \in 1 .. c |-> d[k - i].text]
        BY <1>5, <3>8 DEF LongNameOf
      <4> QED
        BY <4>1, <4>2
    <3>11. l.text = [i \in 1 .. n |-> d[k - i].text]
      <4> DEFINE t == l.text
      <4>1. t = [i \in 1 .. Len(t) |-> t[i]]
        <5>1. t \in Seq(Int)
          BY <1>1
        <5> HIDE DEF t
        <5> QED
          BY <5>1
      <4> QED
        BY <3>6, <4>1
    <3>12. LongName(l) = LongNameOf(d, k)
      <4>1. l.text # <<>> /\ l.text[1] # 0
        <5>1. d[k - 1].text \in Nat \ {0}
          BY <3>3, <3>7 DEF SlotRight
        <5> QED
          BY <3>3, <3>6, <5>1
      <4> QED
        BY <3>10, <3>11, <4>1 DEF LongName
    <3>13. NextLfn(l, d[k]) = [l EXCEPT !.text = Ended(@)]
      BY <1>5, <3>3, <3>4 DEF NextLfn
    <3>14. LongName([l EXCEPT !.text = Ended(@)]) = <<>>
      BY <1>1, <3>3, <3>6 DEF LongName, Ended, Lfns
    <3>15. LfnRight(d, k, NextLfn(l, d[k]))
      BY <1>1, <1>2, <1>5, <2>1, <3>6, <3>13, <3>14 DEF LfnRight, Lfns
    <3>16. k \in Listed(d) => Stored(d[k], l) = RowOf(d, k) /\ Row(d[k], LongName(l)) = RowOf(d, k)
      BY <3>6, <3>12 DEF Stored, RowOf
    <3> QED
      BY <3>15, <3>16
  <2>3. CASE ~\E q \in 1 .. k - 1 : UnderWay(d, k - 1, q)
    <3>1. LongName(l) = <<>> /\ (l.error \/ l.number = 1)
      BY <2>3 DEF LfnRight
    <3>2. ASSUME d[k].kind # "unused", \E n \in 1 .. k : PartsBefore(d, k, n)
          PROVE  FALSE
      <4>1. PICK n \in 1 .. k : PartsBefore(d, k, n)
        BY <3>2
      <4> DEFINE q == k - n
      <4>2. n < k /\ d[q].kind = "lfn" /\ d[q].number = n /\ d[q].last
        <5>1. n \in 1 .. n /\ n < k
          BY <1>1, <4>1 DEF PartsBefore
        <5>2. d[k - n].kind = "lfn" /\ d[k - n].number = n /\ d[k - n].last = (n = n)
          BY <4>1, <5>1 DEF PartsBefore
        <5> QED
          BY <5>1, <5>2
      <4>3. q \in 1 .. k - 1 /\ k - 1 < q + n
        BY <1>1, <4>2
      <4> HIDE DEF q
      <4>4. UnderWay(d, k - 1, q)
        BY <4>2, <4>3 DEF UnderWay
      <4> QED
        BY <2>3, <4>3, <4>4
    <3>3. k \in Listed(d) => LongNameOf(d, k) = <<>>
      BY <3>2 DEF LongNameOf, Listed, Wanted
    <3>4. k \in Listed(d) => Stored(d[k], l) = RowOf(d, k) /\ Row(d[k], LongName(l)) = RowOf(d, k)
      BY <3>1, <3>3 DEF Stored, RowOf
    <3>5. /\ LongName(NextLfn(l, d[k])) = <<>>
          /\ NextLfn(l, d[k]).error = l.error /\ NextLfn(l, d[k]).number = l.number
      <4>1. CASE d[k].kind = "unused"
        BY <3>1, <4>1 DEF NextLfn
      <4>2. CASE d[k].kind # "unused"
        <5>1. NextLfn(l, d[k]) = [l EXCEPT !.text = Ended(@)]
          BY <1>5, <4>2 DEF NextLfn
        <5>2. LongName([l EXCEPT !.text = Ended(@)]) = <<>>
          BY <1>1 DEF LongName, Ended, Lfns
        <5> QED
          BY <1>1, <5>1, <5>2 DEF Lfns
      <4> QED
        BY <4>1, <4>2
    <3>6. LfnRight(d, k, NextLfn(l, d[k]))
      BY <1>2, <1>5, <2>1, <3>1, <3>5 DEF LfnRight
    <3> QED
      BY <3>4, <3>6
  <2> QED
    BY <2>2, <2>3
<1> QED
  BY <1>3, <1>4, <1>5

-----------------------------------------------------------------------------
(* A scan.  What it works on is of this type, and I says what holds of it    *)
(* when the rows of a set have been seen.                                    *)

Scans(d) ==
  [table : [Places -> RowsOf(d) \union {NoRow}], sort : [Places -> Places],
   n : 0 .. MaxDirEntries, sel : Int, found : {0, 1}, temp : Seq(RowsOf(d)), lfn : Lfns]

ScanKeeps(d, I, mode, arg) ==
  /\ \A V \in SUBSET RowsOf(d) : I[V] \subseteq Scans(d)
  /\ \A V \in SUBSET RowsOf(d) : \A t \in I[V], l \in Lfns : [t EXCEPT !.lfn = l] \in I[V]
  /\ \A V \in SUBSET RowsOf(d) : \A r \in RowsOf(d) \ V, t \in I[V] :
       Take(t, mode, arg, r, r) \in I[V \union {r}] /\ Take(t, mode, arg, r, r).lfn = t.lfn

RowsUpTo(d, k) == {RowOf(d, j) : j \in {i \in Listed(d) : i <= k}}

VisitedIn(d, I, k) == {t \in I[RowsUpTo(d, k)] : LfnRight(d, k, t.lfn)}

(* One slot more: what holds of a scan after the rows of the first k - 1     *)
(* slots holds after those of k.                                             *)
LEMMA VisitStep ==
  ASSUME NEW d \in Directories, NEW I, NEW mode, NEW arg, ScanKeeps(d, I, mode, arg),
         NEW k \in 1 .. Len(d), NEW t \in VisitedIn(d, I, k - 1)
  PROVE  Visit(t, mode, arg, d[k]) \in VisitedIn(d, I, k)
<1> DEFINE V == RowsUpTo(d, k - 1)
           l == t.lfn
           m == NextLfn(l, d[k])
           r == RowOf(d, k)
<1>1. Len(d) \in Nat /\ k \in Nat /\ k - 1 \in Nat
  BY DirectoriesAssumption
<1>2. V \in SUBSET RowsOf(d) /\ t \in I[V] /\ LfnRight(d, k - 1, l)
  BY DEF VisitedIn, RowsUpTo, RowsOf
<1>3. t \in Scans(d) /\ l \in Lfns
  BY <1>2 DEF ScanKeeps, Scans
<1>4. LfnRight(d, k, m) /\ m \in Lfns
  BY <1>2, LfnStep DEF LfnRight
<1>5. CASE k \notin Listed(d)
  <2>1. RowsUpTo(d, k) = V
    <3>1. \A i \in Listed(d) : i \in Nat
      BY <1>1 DEF Listed
    <3>2. {i \in Listed(d) : i <= k} = {i \in Listed(d) : i <= k - 1}
      BY <1>1, <1>5, <3>1
    <3> QED
      BY <3>2 DEF RowsUpTo
  <2>2. Visit(t, mode, arg, d[k]) = [t EXCEPT !.lfn = m]
    <3>1. CASE d[k].kind = "unused"
      <4>1. m = l
        BY <3>1 DEF NextLfn
      <4>2. t = [t EXCEPT !.lfn = l]
        BY <1>3 DEF Scans
      <4> QED
        BY <3>1, <4>1, <4>2 DEF Visit
    <3>2. CASE d[k].kind = "lfn"
      <4>1. "SCAN_LFN" \notin Options => t = [t EXCEPT !.lfn = l]
        BY <1>3 DEF Scans
      <4> QED
        BY <3>2, <4>1 DEF Visit, NextLfn
    <3>3. CASE d[k].kind # "unused" /\ d[k].kind # "lfn"
      <4>1. ~Wanted(d[k])
        BY <1>5 DEF Listed
      <4>2. [t EXCEPT !.lfn.text = Ended(@)] = [t EXCEPT !.lfn = [l EXCEPT !.text = Ended(@)]]
        OBVIOUS
      <4> QED
        BY <3>3, <4>1, <4>2 DEF Visit, NextLfn
    <3> QED
      BY <3>1, <3>2, <3>3
  <2>3. [t EXCEPT !.lfn = m] \in I[V]
    BY <1>2, <1>4 DEF ScanKeeps
  <2>4. [t EXCEPT !.lfn = m].lfn = m
    BY <1>3 DEF Scans
  <2> HIDE DEF m, V
  <2> QED
    BY <1>4, <2>1, <2>2, <2>3, <2>4 DEF VisitedIn
<1>6. CASE k \in Listed(d)
  <2>1. r \in RowsOf(d) /\ RowsUpTo(d, k) = V \union {r}
    <3>1. \A i \in Listed(d) : i \in Nat
      BY <1>1 DEF Listed
    <3>2. {i \in Listed(d) : i <= k} = {i \in Listed(d) : i <= k - 1} \union {k}
      <4>1. \A i \in Listed(d) : i <= k <=> i <= k - 1 \/ i = k
        BY <1>1, <3>1
      <4> QED
        BY <1>1, <1>6, <4>1
    <3> QED
      BY <1>6, <3>2 DEF RowsUpTo, RowsOf
  <2>2. r \notin V
    <3>1. ASSUME NEW i \in Listed(d), i <= k - 1
          PROVE  RowOf(d, i) # r
      <4>1. i # k
        BY <1>1, <3>1 DEF Listed
      <4>2. d[i].name # d[k].name
        BY <1>6, <4>1, DirectoriesAssumption DEF NamesDiffer
      <4> QED
        BY <4>2 DEF RowOf, Row
    <3> QED
      BY <3>1 DEF RowsUpTo
  <2>3. Row(d[k], LongName(l)) = r /\ Stored(d[k], l) = r
    BY <1>2, <1>6, LfnStep
  <2> DEFINE u == Take(t, mode, arg, r, r)
  <2>4. u \in I[V \union {r}] /\ u.lfn = l
    <3>1. r \in RowsOf(d) \ V
      BY <2>1, <2>2
    <3> HIDE DEF r, V
    <3> QED
      BY <1>2, <3>1 DEF ScanKeeps
  <2>5. V \union {r} \in SUBSET RowsOf(d)
    BY <1>2, <2>1
  <2>6. u \in Scans(d)
    BY <2>4, <2>5 DEF ScanKeeps
  <2>7. d[k].kind \in {"file", "dir"} /\ Wanted(d[k])
    BY <1>6 DEF Listed, Wanted
  <2>8. Visit(t, mode, arg, d[k]) = [u EXCEPT !.lfn.text = Ended(@)]
    BY <2>3, <2>7 DEF Visit
  <2> HIDE DEF u
  <2>9. [u EXCEPT !.lfn.text = Ended(@)] = [u EXCEPT !.lfn = m]
    <3>1. [u EXCEPT !.lfn.text = Ended(@)] = [u EXCEPT !.lfn = [u.lfn EXCEPT !.text = Ended(@)]]
      OBVIOUS
    <3>2. m = [l EXCEPT !.text = Ended(@)]
      BY <2>7 DEF NextLfn
    <3> QED
      BY <2>4, <3>1, <3>2
  <2>10. [u EXCEPT !.lfn = m] \in I[V \union {r}]
    BY <1>4, <2>4, <2>5 DEF ScanKeeps
  <2>11. [u EXCEPT !.lfn = m].lfn = m
    BY <2>6 DEF Scans
  <2> HIDE DEF m, V, r
  <2> QED
    BY <1>4, <2>1, <2>8, <2>9, <2>10, <2>11 DEF VisitedIn
<1> QED
  BY <1>5, <1>6

(* When every row that is new keeps I, I holds of all rows in the end.       *)
LEMMA ScannedIn ==
  ASSUME directory \in Directories, NEW I, NEW mode, NEW arg, ScanKeeps(directory, I, mode, arg),
         NEW s \in I[{}], s.lfn = NoLFN
  PROVE  Scanned(s, mode, arg) \in I[RowsOf(directory)]
<1> DEFINE d == directory
           N == Len(d)
           V == Scans(d)
           Is(a) == a = [k \in 0 .. N |-> IF k = 0 THEN s ELSE Visit(a[k - 1], mode, arg, d[k])]
           c == CHOOSE a : Is(a)
           G == [p \in (0 .. N - 1) \X V |->
                   IF Visit(p[2], mode, arg, d[p[1] + 1]) \in V
                   THEN Visit(p[2], mode, arg, d[p[1] + 1]) ELSE p[2]]
<1>1. N \in Nat
  BY DirectoriesAssumption
<1>2. ASSUME NEW k \in 0 .. N
      PROVE  VisitedIn(d, I, k) \subseteq V
  <2>1. RowsUpTo(d, k) \in SUBSET RowsOf(d)
    BY DEF RowsUpTo, RowsOf
  <2> QED
    BY <2>1 DEF VisitedIn, ScanKeeps
<1>3. s \in VisitedIn(d, I, 0)
  <2>1. RowsUpTo(d, 0) = {}
    BY <1>1 DEF RowsUpTo, Listed
  <2> QED
    BY <2>1, NoLfnIs DEF VisitedIn
<1>4. G \in [(0 .. N - 1) \X V -> V]
  OBVIOUS
<1>5. \A k \in 0 .. N - 1, t \in V :
        Visit(t, mode, arg, d[k + 1]) \in V => G[<<k, t>>] = Visit(t, mode, arg, d[k + 1])
  OBVIOUS
<1>6. ASSUME NEW k \in 1 .. N, NEW t \in VisitedIn(d, I, k - 1)
      PROVE  Visit(t, mode, arg, d[k]) \in VisitedIn(d, I, k)
  BY VisitStep
<1> HIDE DEF G, V
<1>7. \E a : Is(a)
  <2>1. PICK f \in [-1 .. N - 1 -> V] : Loop(f, s, G, N)
    <3>1. s \in V
      BY <1>1, <1>2, <1>3
    <3> QED
      BY <1>1, <1>4, <3>1, LoopExists
  <2>2. ASSUME NEW k \in 1 .. N, f[(k - 1) - 1] \in VisitedIn(d, I, k - 1)
        PROVE  /\ f[k - 1] = Visit(f[(k - 1) - 1], mode, arg, d[k])
               /\ f[k - 1] \in VisitedIn(d, I, k)
    <3> DEFINE t == f[(k - 1) - 1]
               u == Visit(t, mode, arg, d[k])
    <3>1. k \in 0 .. N /\ k - 1 \in 0 .. N /\ k - 1 \in 0 .. N - 1 /\ (k - 1) + 1 = k
      BY <1>1
    <3>2. u \in VisitedIn(d, I, k)
      BY <1>6, <2>2
    <3>3. u \in V /\ t \in V
      BY <1>2, <2>2, <3>1, <3>2
    <3> HIDE DEF t
    <3>4. G[<<k - 1, t>>] = u
      <4>1. Visit(t, mode, arg, d[(k - 1) + 1]) = u
        BY <3>1
      <4> HIDE DEF u
      <4> QED
        BY <1>5, <3>1, <3>3, <4>1
    <3>5. f[k - 1] = G[<<k - 1, t>>]
      BY <2>1, <3>1 DEF Loop, t
    <3> QED
      BY <3>2, <3>4, <3>5 DEF t
  <2>3. \A k \in 0 .. N : f[k - 1] \in VisitedIn(d, I, k)
    <3> DEFINE S == {k \in 0 .. N : f[k - 1] \in VisitedIn(d, I, k)}
    <3>1. 0 \in S
      BY <1>1, <1>3, <2>1 DEF Loop
    <3>2. ASSUME NEW k \in 0 .. N, k # 0, k - 1 \in S
          PROVE  k \in S
      <4>1. k \in 1 .. N
        BY <1>1, <3>2
      <4> QED
        BY <2>2, <3>2, <4>1
    <3>3. \A k \in 0 .. N : k \in S
      <4> HIDE DEF S
      <4> QED
        BY <1>1, <3>1, <3>2, Induct
    <3> QED
      BY <3>3
  <2> DEFINE g == [k \in 0 .. N |-> f[k - 1]]
  <2>4. ASSUME NEW k \in 0 .. N
        PROVE  g[k] = IF k = 0 THEN s ELSE Visit(g[k - 1], mode, arg, d[k])
    <3>1. CASE k = 0
      BY <2>1, <3>1 DEF Loop
    <3>2. CASE k # 0
      <4>1. k \in 1 .. N /\ k - 1 \in 0 .. N
        BY <1>1, <3>2
      <4>2. g[k - 1] = f[(k - 1) - 1] /\ g[k] = f[k - 1]
        BY <4>1
      <4>3. f[k - 1] = Visit(f[(k - 1) - 1], mode, arg, d[k])
        BY <2>2, <2>3, <4>1
      <4> HIDE DEF g
      <4> QED
        BY <3>2, <4>2, <4>3
    <3> QED
      BY <3>1, <3>2
  <2>5. g = [k \in 0 .. N |-> g[k]]
    OBVIOUS
  <2> HIDE DEF g
  <2>6. Is(g)
    BY <2>4, <2>5
  <2> HIDE DEF Is
  <2> QED
    BY <2>6
<1>8. Is(c)
  <2> HIDE DEF Is
  <2> QED
    BY <1>7
<1>9. Scanned(s, mode, arg) = c[N]
  BY DEF Scanned
<1> HIDE DEF c
<1>10. c[0] = s /\ \A k \in 1 .. N : c[k] = Visit(c[k - 1], mode, arg, d[k])
  BY <1>1, <1>8
<1>11. c[N] \in VisitedIn(d, I, N)
  <2> DEFINE S == {k \in 0 .. N : c[k] \in VisitedIn(d, I, k)}
  <2>1. 0 \in S
    BY <1>1, <1>3, <1>10
  <2>2. ASSUME NEW k \in 0 .. N, k # 0, k - 1 \in S
        PROVE  k \in S
    <3>1. k \in 1 .. N /\ c[k - 1] \in VisitedIn(d, I, k - 1)
      BY <1>1, <2>2
    <3>2. Visit(c[k - 1], mode, arg, d[k]) \in VisitedIn(d, I, k)
      BY <1>6, <3>1
    <3> QED
      BY <1>10, <3>1, <3>2
  <2>3. \A k \in 0 .. N : k \in S
    <3> HIDE DEF S
    <3> QED
      BY <1>1, <2>1, <2>2, Induct
  <2> QED
    BY <1>1, <2>3
<1>12. RowsUpTo(d, N) = RowsOf(d)
  BY <1>1 DEF RowsUpTo, RowsOf, Listed
<1> QED
  BY <1>9, <1>11, <1>12 DEF VisitedIn

-----------------------------------------------------------------------------
(* The rows kept are the first of those seen, as many as there is room for.  *)

FirstOf(t, S, Lt) ==
  /\ t \in Seq(S) /\ Len(t) <= MaxDirEntries
  /\ \A i, j \in 1 .. Len(t) : i < j => <<t[i], t[j]>> \in Lt
  /\ \A r \in S : \/ \E i \in 1 .. Len(t) : t[i] = r
                  \/ Len(t) = MaxDirEntries /\ <<t[MaxDirEntries], r>> \in Lt

(* Where a row is sorted in, and what that makes of the rows.                *)
PlaceFor(t, x, p, Lt) ==
  /\ p \in 1 .. Len(t) + 1
  /\ \A q \in p .. Len(t) : <<x, t[q]>> \in Lt
  /\ p = 1 \/ <<x, t[p - 1]>> \notin Lt

SortedIn(t, x, p) ==
  [i \in 1 .. Len(t) + 1 |-> IF i < p THEN t[i] ELSE IF i = p THEN x ELSE t[i - 1]]

(* Sorting a row into the first ones of a set gives the first ones of the    *)
(* set with that row.                                                        *)
LEMMA SortedInIs ==
  ASSUME NEW R, NEW Lt, StrictlyOrders(Lt, R), NEW t \in Seq(R),
         \A i, j \in 1 .. Len(t) : i < j => <<t[i], t[j]>> \in Lt,
         NEW x \in R, \A i \in 1 .. Len(t) : t[i] # x,
         NEW p, PlaceFor(t, x, p, Lt)
  PROVE  LET u == SortedIn(t, x, p)
         IN  /\ u \in Seq(R) /\ Len(u) = Len(t) + 1
             /\ \A i, j \in 1 .. Len(u) : i < j => <<u[i], u[j]>> \in Lt
             /\ u[p] = x /\ p \in 1 .. Len(u)
             /\ \A i \in 1 .. Len(u) : u[i] = x \/ \E j \in 1 .. Len(t) : u[i] = t[j]
             /\ \A j \in 1 .. Len(t) : \E i \in 1 .. Len(u) : u[i] = t[j]
<1> DEFINE u == SortedIn(t, x, p)
           n == Len(t)
<1>1. n \in Nat /\ p \in 1 .. n + 1 /\ n + 1 \in Nat
  BY DEF PlaceFor
<1>2. \A i \in 1 .. n : t[i] \in R
  OBVIOUS
<1>3. \A i \in 1 .. n + 1 : u[i] = IF i < p THEN t[i] ELSE IF i = p THEN x ELSE t[i - 1]
  BY DEF SortedIn
<1>4. u \in [1 .. n + 1 -> R]
  <2>1. ASSUME NEW i \in 1 .. n + 1
        PROVE  u[i] \in R
    <3>1. (i < p => i \in 1 .. n) /\ (i > p => i - 1 \in 1 .. n)
      BY <1>1
    <3> QED
      BY <1>1, <1>2, <1>3, <3>1
  <2>2. u = [i \in 1 .. n + 1 |-> u[i]]
    BY DEF SortedIn
  <2> HIDE DEF u, n
  <2> QED
    BY <2>1, <2>2
<1>5. u \in Seq(R) /\ Len(u) = n + 1
  <2> HIDE DEF u, n
  <2> QED
    BY <1>1, <1>4
<1>6. ASSUME NEW i \in 1 .. n, i < p
      PROVE  <<t[i], x>> \in Lt
  <2>1. p - 1 \in 1 .. n /\ <<x, t[p - 1]>> \notin Lt /\ t[p - 1] # x
    BY <1>1, <1>6 DEF PlaceFor
  <2>2. <<t[p - 1], x>> \in Lt
    BY <1>2, <2>1 DEF StrictlyOrders
  <2>3. CASE i = p - 1
    BY <2>2, <2>3
  <2>4. CASE i # p - 1
    <3>1. i < p - 1
      BY <1>1, <1>6, <2>4
    <3>2. <<t[i], t[p - 1]>> \in Lt
      BY <2>1, <3>1
    <3> QED
      BY <1>2, <2>1, <2>2, <3>2 DEF StrictlyOrders
  <2> QED
    BY <2>3, <2>4
<1>7. \A i \in p .. n : <<x, t[i]>> \in Lt
  BY DEF PlaceFor
<1> HIDE DEF n
<1>8. ASSUME NEW i \in 1 .. n + 1, NEW j \in 1 .. n + 1, i < j
      PROVE  <<u[i], u[j]>> \in Lt
  <2> HIDE DEF u
  <2>1. CASE j < p
    BY <1>1, <1>3, <1>8, <2>1 DEF n
  <2>2. CASE j = p
    <3>1. i \in 1 .. n /\ i < p /\ u[i] = t[i] /\ u[j] = x
      BY <1>1, <1>3, <1>8, <2>2
    <3> QED
      BY <1>6, <3>1
  <2>3. CASE j > p
    <3>1. u[j] = t[j - 1] /\ j - 1 \in p .. n /\ j - 1 \in 1 .. n
      BY <1>1, <1>3, <1>8, <2>3
    <3>2. CASE i < p
      <4>1. u[i] = t[i] /\ i \in 1 .. n /\ i < j - 1
        BY <1>1, <1>3, <2>3, <3>2
      <4> QED
        BY <3>1, <4>1 DEF n
    <3>3. CASE i = p
      BY <1>3, <1>7, <3>1, <3>3
    <3>4. CASE i > p
      <4>1. u[i] = t[i - 1] /\ i - 1 \in 1 .. n /\ i - 1 < j - 1
        BY <1>1, <1>3, <1>8, <3>4
      <4> QED
        BY <3>1, <4>1 DEF n
    <3> QED
      BY <1>1, <3>2, <3>3, <3>4
  <2> QED
    BY <1>1, <2>1, <2>2, <2>3
<1>9. u[p] = x
  BY <1>1, <1>3
<1>10. ASSUME NEW i \in 1 .. n + 1
       PROVE  u[i] = x \/ \E j \in 1 .. n : u[i] = t[j]
  <2>1. (i < p => i \in 1 .. n) /\ (i > p => i - 1 \in 1 .. n)
    BY <1>1
  <2> HIDE DEF u
  <2> QED
    BY <1>1, <1>3, <2>1
<1>11. ASSUME NEW j \in 1 .. n
       PROVE  \E i \in 1 .. n + 1 : u[i] = t[j]
  <2>1. CASE j < p
    BY <1>1, <1>3, <2>1
  <2>2. CASE j >= p
    <3>1. j + 1 \in 1 .. n + 1 /\ (j + 1) - 1 = j /\ ~(j + 1 < p) /\ j + 1 # p
      BY <1>1, <2>2
    <3>2. u[j + 1] = t[(j + 1) - 1]
      BY <1>3, <3>1
    <3> QED
      BY <3>1, <3>2
  <2> QED
    BY <1>1, <2>1, <2>2
<1> QED
  <2> HIDE DEF u
  <2>1. /\ u \in Seq(R) /\ Len(u) = n + 1
        /\ \A i, j \in 1 .. Len(u) : i < j => <<u[i], u[j]>> \in Lt
        /\ u[p] = x /\ p \in 1 .. Len(u)
        /\ \A i \in 1 .. Len(u) : u[i] = x \/ \E j \in 1 .. n : u[i] = t[j]
        /\ \A j \in 1 .. n : \E i \in 1 .. Len(u) : u[i] = t[j]
    BY <1>1, <1>5, <1>8, <1>9, <1>10, <1>11
  <2> QED
    BY <2>1 DEF u, n

(* There is such a place.                                                    *)
LEMMA PlaceExists ==
  ASSUME NEW R, NEW Lt, NEW t \in Seq(R), NEW x
  PROVE  \E p : PlaceFor(t, x, p, Lt)
<1> DEFINE n == Len(t)
           S == {p \in 1 .. n + 1 : \A q \in p .. n : <<x, t[q]>> \in Lt}
<1>1. n \in Nat
  OBVIOUS
<1>2. n + 1 \in S /\ S \in SUBSET Nat
  BY <1>1
<1>3. PICK p \in S : \A q \in S : p <= q
  <2> HIDE DEF S
  <2> QED
    BY <1>2, LeastOf
<1>4. ASSUME p # 1, <<x, t[p - 1]>> \in Lt
      PROVE  FALSE
  <2>1. p - 1 \in 1 .. n + 1 /\ \A q \in p - 1 .. n : q = p - 1 \/ q \in p .. n
    BY <1>1, <1>3, <1>4
  <2>2. p - 1 \in S
    BY <1>3, <1>4, <2>1
  <2>3. p <= p - 1 /\ p \in Nat
    <3> HIDE DEF S
    <3> QED
      BY <1>2, <1>3, <2>2
  <2> QED
    BY <2>3
<1> QED
  BY <1>3, <1>4 DEF PlaceFor

(* A sorted sequence of rows of S, and what it is with row x in it.          *)
Lined(w, S, Lt) ==
  /\ \A i, j \in 1 .. Len(w) : i < j => <<w[i], w[j]>> \in Lt
  /\ \A i \in 1 .. Len(w) : w[i] \in S

Grown(u, w, x, T, Lt) ==
  /\ u \in Seq(T) /\ Len(u) = Len(w) + 1
  /\ \A i, j \in 1 .. Len(u) : i < j => <<u[i], u[j]>> \in Lt
  /\ \E i \in 1 .. Len(u) : u[i] = x
  /\ \A i \in 1 .. Len(u) : u[i] = x \/ \E j \in 1 .. Len(w) : u[i] = w[j]
  /\ \A j \in 1 .. Len(w) : \E i \in 1 .. Len(u) : u[i] = w[j]

(* One more row, in each of the three cases of the code.                     *)
LEMMA FirstOfMore ==
  ASSUME NEW R, NEW Lt, StrictlyOrders(Lt, R), NEW S \in SUBSET R, NEW x \in R \ S,
         NEW t, FirstOf(t, S, Lt)
  PROVE  /\ Len(t) \in 0 .. MaxDirEntries
         /\ Len(t) < MaxDirEntries => \A p : PlaceFor(t, x, p, Lt) =>
              FirstOf(SortedIn(t, x, p), S \union {x}, Lt)
         /\ Len(t) = MaxDirEntries /\ <<x, t[Len(t)]>> \in Lt =>
              \A w, p : w = SubSeq(t, 1, MaxDirEntries - 1) /\ PlaceFor(w, x, p, Lt) =>
                FirstOf(SortedIn(w, x, p), S \union {x}, Lt)
         /\ Len(t) = MaxDirEntries /\ <<x, t[Len(t)]>> \notin Lt => FirstOf(t, S \union {x}, Lt)
<1> DEFINE M == MaxDirEntries
           n == Len(t)
           T == S \union {x}
<1>1. M \in Nat /\ M > 1
  BY DirScanAssumption
<1>2. t \in Seq(S) /\ t \in Seq(R) /\ n \in 0 .. M /\ \A i \in 1 .. n : t[i] \in S
  BY <1>1 DEF FirstOf
<1>3. \A i, j \in 1 .. n : i < j => <<t[i], t[j]>> \in Lt
  BY DEF FirstOf
<1>4. \A i \in 1 .. n : t[i] # x
  BY <1>2
<1>5. T \in SUBSET R
  OBVIOUS
<1>6. ASSUME NEW w \in Seq(R), NEW p, PlaceFor(w, x, p, Lt), Lined(w, S, Lt)
      PROVE  Grown(SortedIn(w, x, p), w, x, T, Lt)
  <2> DEFINE u == SortedIn(w, x, p)
  <2>0. /\ \A i, j \in 1 .. Len(w) : i < j => <<w[i], w[j]>> \in Lt
        /\ \A i \in 1 .. Len(w) : w[i] \in S
    BY <1>6 DEF Lined
  <2>1. /\ u \in Seq(R) /\ Len(u) = Len(w) + 1
        /\ \A i, j \in 1 .. Len(u) : i < j => <<u[i], u[j]>> \in Lt
        /\ u[p] = x /\ p \in 1 .. Len(u)
        /\ \A i \in 1 .. Len(u) : u[i] = x \/ \E j \in 1 .. Len(w) : u[i] = w[j]
        /\ \A j \in 1 .. Len(w) : \E i \in 1 .. Len(u) : u[i] = w[j]
    <3>1. \A i \in 1 .. Len(w) : w[i] # x
      BY <2>0
    <3> QED
      BY <1>6, <2>0, <3>1, SortedInIs
  <2> HIDE DEF u
  <2>2. \A i \in 1 .. Len(u) : u[i] \in T
    BY <2>0, <2>1
  <2>3. u \in Seq(T)
    BY <2>1, <2>2
  <2>4. \E i \in 1 .. Len(u) : u[i] = x
    BY <2>1
  <2> QED
    BY <2>1, <2>3, <2>4 DEF u, Grown
<1> HIDE DEF M, n
<1>7. ASSUME n < M, NEW p, PlaceFor(t, x, p, Lt)
      PROVE  FirstOf(SortedIn(t, x, p), T, Lt)
  <2> DEFINE u == SortedIn(t, x, p)
  <2>1. /\ u \in Seq(T) /\ Len(u) = n + 1
        /\ \A i, j \in 1 .. Len(u) : i < j => <<u[i], u[j]>> \in Lt
        /\ \E i \in 1 .. Len(u) : u[i] = x
        /\ \A j \in 1 .. n : \E i \in 1 .. Len(u) : u[i] = t[j]
    <3>1. t \in Seq(R) /\ Lined(t, S, Lt)
      BY <1>2, <1>3 DEF n, Lined
    <3>2. Grown(u, t, x, T, Lt)
      BY <1>6, <1>7, <3>1
    <3> HIDE DEF u
    <3> QED
      BY <3>2 DEF n, Grown
  <2>2. \A r \in S : \E i \in 1 .. n : t[i] = r
    <3>1. n # M
      BY <1>1, <1>2, <1>7
    <3> QED
      BY <3>1 DEF FirstOf, n, M
  <2> HIDE DEF u
  <2>3. \A r \in T : \E i \in 1 .. Len(u) : u[i] = r
    BY <2>1, <2>2
  <2>4. Len(u) <= M
    BY <1>1, <1>2, <1>7, <2>1
  <2>5. FirstOf(u, T, Lt)
    BY <2>1, <2>3, <2>4 DEF FirstOf, M
  <2> QED
    BY <2>5 DEF u
<1>8. ASSUME n = M, <<x, t[n]>> \in Lt, NEW w, w = SubSeq(t, 1, M - 1), NEW p, PlaceFor(w, x, p, Lt)
      PROVE  FirstOf(SortedIn(w, x, p), T, Lt)
  <2> DEFINE u == SortedIn(w, x, p)
  <2>1. w \in Seq(R) /\ Len(w) = M - 1 /\ \A i \in 1 .. M - 1 : w[i] = t[i]
    BY <1>1, <1>2, <1>8 DEF n
  <2>2. \A i \in 1 .. M - 1 : i \in 1 .. n
    BY <1>1, <1>8
  <2>3. /\ \A i, j \in 1 .. Len(w) : i < j => <<w[i], w[j]>> \in Lt
        /\ \A i \in 1 .. Len(w) : w[i] \in S
    BY <1>2, <1>3, <2>1, <2>2
  <2>4. /\ u \in Seq(T) /\ Len(u) = Len(w) + 1
        /\ \A i, j \in 1 .. Len(u) : i < j => <<u[i], u[j]>> \in Lt
        /\ \E i \in 1 .. Len(u) : u[i] = x
        /\ \A i \in 1 .. Len(u) : u[i] = x \/ \E j \in 1 .. Len(w) : u[i] = w[j]
        /\ \A j \in 1 .. Len(w) : \E i \in 1 .. Len(u) : u[i] = w[j]
    <3>1. PlaceFor(w, x, p, Lt) /\ Lined(w, S, Lt)
      BY <1>8, <2>3 DEF Lined
    <3>2. Grown(u, w, x, T, Lt)
      BY <1>6, <2>1, <3>1
    <3> HIDE DEF u
    <3> QED
      BY <3>2 DEF Grown
  <2> HIDE DEF u
  <2>5. Len(u) = M /\ M \in 1 .. Len(u) /\ n \in 1 .. n
    BY <1>1, <1>8, <2>1, <2>4
  <2>6. <<u[M], t[n]>> \in Lt
    <3>1. CASE u[M] = x
      BY <1>8, <3>1
    <3>2. CASE \E j \in 1 .. Len(w) : u[M] = w[j]
      <4>1. PICK j \in 1 .. M - 1 : u[M] = t[j]
        BY <2>1, <3>2
      <4>2. j \in 1 .. n /\ j < n
        BY <1>1, <1>8
      <4> QED
        BY <1>3, <2>5, <4>1, <4>2
    <3> QED
      BY <2>4, <2>5, <3>1, <3>2
  <2>7. ASSUME NEW r \in S
        PROVE  (\E i \in 1 .. Len(u) : u[i] = r) \/ <<u[M], r>> \in Lt
    <3>1. CASE \E i \in 1 .. n : t[i] = r
      <4>1. PICK i \in 1 .. n : t[i] = r
        BY <3>1
      <4>2. CASE i = n
        BY <2>6, <4>1, <4>2
      <4>3. CASE i # n
        <5>1. i \in 1 .. Len(w) /\ w[i] = r
          BY <1>1, <1>8, <2>1, <4>1, <4>3
        <5> QED
          BY <2>4, <5>1
      <4> QED
        BY <4>2, <4>3
    <3>2. CASE ~\E i \in 1 .. n : t[i] = r
      <4>1. <<t[n], r>> \in Lt
        BY <1>8, <3>2 DEF FirstOf, n, M
      <4>2. t[n] \in R /\ u[M] \in R /\ r \in R
        <5>1. u[M] \in T
          BY <2>4, <2>5
        <5> QED
          BY <1>2, <2>5, <5>1
      <4> QED
        BY <2>6, <4>1, <4>2 DEF StrictlyOrders
    <3> QED
      BY <3>1, <3>2
  <2>8. FirstOf(u, T, Lt)
    BY <1>1, <2>4, <2>5, <2>7 DEF FirstOf, M
  <2> QED
    BY <2>8 DEF u
<1>9. ASSUME n = M, <<x, t[n]>> \notin Lt
      PROVE  FirstOf(t, T, Lt)
  <2>1. n \in 1 .. n /\ t[n] \in R /\ t[n] # x
    BY <1>1, <1>2, <1>4, <1>9
  <2>2. <<t[n], x>> \in Lt
    BY <1>9, <2>1 DEF StrictlyOrders
  <2>3. t \in Seq(T)
    BY <1>2
  <2> QED
    BY <1>9, <2>2, <2>3 DEF FirstOf, n, M
<1> QED
  BY <1>2, <1>7, <1>8, <1>9 DEF n, M

(* What the code sorts by, upwards or downwards.                             *)
BeforeIn(R, down) == {p \in R \X R : Before(p[1], p[2], down)}

(* Both orders, up and down, order the rows strictly.                        *)
LEMMA BeforeOrders ==
  ASSUME NEW d \in Directories, NEW down \in BOOLEAN
  PROVE  /\ StrictlyOrders(BeforeIn(RowsOf(d), down), RowsOf(d))
         /\ \A a, b \in RowsOf(d) : <<a, b>> \in BeforeIn(RowsOf(d), down) <=> Before(a, b, down)
<1> DEFINE R == RowsOf(d)
<1>1. \A a, b \in R : <<a, b>> \in BeforeIn(R, down) <=> Before(a, b, down)
  BY DEF BeforeIn
<1>2. StrictlyOrders(BelowIn(R), R) /\ \A a, b \in R : <<a, b>> \in BelowIn(R) <=> Below(a, b)
  BY BelowTotal DEF BelowIn
<1>3. CASE down
  BY <1>1, <1>2, <1>3 DEF Before, StrictlyOrders
<1>4. CASE ~down
  BY <1>1, <1>2, <1>4 DEF Before, StrictlyOrders
<1> QED
  BY <1>1, <1>3, <1>4

(* What InsertAt puts where.                                                 *)
LEMMA InsertAtIs ==
  ASSUME NEW R, NEW t \in Seq(R), NEW x \in R, NEW p \in 1 .. Len(t) + 1
  PROVE  InsertAt(t, p, x) = SortedIn(t, x, p)
<1> DEFINE n == Len(t)
           a == SubSeq(t, 1, p - 1)
           b == SubSeq(t, p, n)
           c == a \o <<x>>
           u == c \o b
<1>1. n \in Nat /\ p \in Int
  OBVIOUS
<1>2. a \in Seq(R) /\ Len(a) = p - 1 /\ \A i \in 1 .. p - 1 : a[i] = t[i]
  OBVIOUS
<1>3. b \in Seq(R) /\ Len(b) = n - p + 1 /\ \A i \in 1 .. n - p + 1 : b[i] = t[p + i - 1]
  OBVIOUS
<1>4. <<x>> \in Seq(R) /\ Len(<<x>>) = 1 /\ <<x>>[1] = x
  OBVIOUS
<1> DEFINE s == <<x>>
<1> HIDE DEF a, b, n, s
<1>5. c \in Seq(R) /\ Len(c) = p /\ c[p] = x /\ \A i \in 1 .. p - 1 : c[i] = t[i]
  BY <1>1, <1>2, <1>4 DEF s
<1> HIDE DEF c
<1>6. u \in Seq(R) /\ Len(u) = n + 1
  <2>1. u \in Seq(R)
    BY <1>3, <1>5
  <2>2. Len(u) = Len(c) + Len(b)
    <3>1. c \in Seq(R) /\ b \in Seq(R)
      BY <1>3, <1>5
    <3> QED
      BY ONLY <3>1
  <2>3. p + (n - p + 1) = n + 1
    BY <1>1
  <2> QED
    BY <1>3, <1>5, <2>1, <2>2, <2>3
<1>7. ASSUME NEW i \in 1 .. n + 1
      PROVE  u[i] = IF i < p THEN t[i] ELSE IF i = p THEN x ELSE t[i - 1]
  <2>1. CASE i <= p
    <3>1. u[i] = c[i]
      BY <1>1, <1>3, <1>5, <2>1
    <3> QED
      BY <1>1, <1>5, <2>1, <3>1
  <2>2. CASE i > p
    <3>1. u[i] = b[i - p] /\ i - p \in 1 .. n - p + 1 /\ p + (i - p) - 1 = i - 1
      BY <1>1, <1>3, <1>5, <2>2
    <3> QED
      BY <1>1, <1>3, <2>2, <3>1
  <2>3. i <= p \/ i > p
    BY <1>1
  <2> QED
    BY <2>1, <2>2, <2>3
<1>8. InsertAt(t, p, x) = u
  BY DEF InsertAt, u, c, a, b, n
<1> HIDE DEF u
<1>9. u = [i \in 1 .. n + 1 |-> u[i]]
  BY <1>6
<1>10. u = [i \in 1 .. n + 1 |-> IF i < p THEN t[i] ELSE IF i = p THEN x ELSE t[i - 1]]
  BY <1>7, <1>9
<1> QED
  BY <1>8, <1>10 DEF SortedIn, n

(* SortIn inserts a row at the place for it.                                 *)
LEMMA SortInIs ==
  ASSUME NEW d \in Directories, NEW down \in BOOLEAN, NEW t \in Seq(RowsOf(d)), NEW x \in RowsOf(d)
  PROVE  \E p : /\ PlaceFor(t, x, p, BeforeIn(RowsOf(d), down))
                /\ SortIn(t, x, down) = SortedIn(t, x, p)
<1> DEFINE R == RowsOf(d)
           Lt == BeforeIn(R, down)
           Right(q) == /\ \A i \in q .. Len(t) : Before(x, t[i], down)
                       /\ q = 1 \/ ~Before(x, t[q - 1], down)
           p == CHOOSE q \in 1 .. Len(t) + 1 : Right(q)
<1>1. ASSUME NEW q \in 1 .. Len(t) + 1
      PROVE  PlaceFor(t, x, q, Lt) <=> Right(q)
  <2>1. \A a, b \in R : <<a, b>> \in Lt <=> Before(a, b, down)
    BY BeforeOrders
  <2>2. \A i \in 1 .. Len(t) : t[i] \in R
    OBVIOUS
  <2>3. \A i \in q .. Len(t) : i \in 1 .. Len(t)
    OBVIOUS
  <2>4. q = 1 \/ q - 1 \in 1 .. Len(t)
    OBVIOUS
  <2> HIDE DEF R, Lt
  <2> QED
    BY <2>1, <2>2, <2>3, <2>4 DEF PlaceFor, R
<1>2. \E q \in 1 .. Len(t) + 1 : Right(q)
  <2>1. PICK q : PlaceFor(t, x, q, Lt)
    <3> HIDE DEF R, Lt
    <3> QED
      BY PlaceExists DEF R
  <2>2. q \in 1 .. Len(t) + 1
    BY <2>1 DEF PlaceFor
  <2> QED
    BY <1>1, <2>1, <2>2
<1>3. p \in 1 .. Len(t) + 1 /\ Right(p)
  <2> HIDE DEF Right
  <2> QED
    BY <1>2
<1>4. SortIn(t, x, down) = InsertAt(t, p, x)
  BY DEF SortIn
<1> HIDE DEF p
<1>5. InsertAt(t, p, x) = SortedIn(t, x, p)
  BY <1>3, InsertAtIs
<1>6. PlaceFor(t, x, p, Lt)
  BY <1>1, <1>3
<1> QED
  BY <1>4, <1>5, <1>6

(* The temporary table keeps the first rows of those it has been shown.      *)
LEMMA KeepTempIs ==
  ASSUME NEW d \in Directories, NEW down \in BOOLEAN, NEW S \in SUBSET RowsOf(d),
         NEW x \in RowsOf(d) \ S, NEW t, FirstOf(t, S, BeforeIn(RowsOf(d), down))
  PROVE  FirstOf(KeepTemp(t, x, x, down), S \union {x}, BeforeIn(RowsOf(d), down))
<1> DEFINE R == RowsOf(d)
           Lt == BeforeIn(R, down)
           M == MaxDirEntries
<1>1. StrictlyOrders(Lt, R) /\ \A a, b \in R : <<a, b>> \in Lt <=> Before(a, b, down)
  BY BeforeOrders
<1>2. t \in Seq(R) /\ M \in Nat /\ M > 1
  BY DirScanAssumption DEF FirstOf
<1>3. /\ Len(t) \in 0 .. M
      /\ Len(t) < M => \A p : PlaceFor(t, x, p, Lt) => FirstOf(SortedIn(t, x, p), S \union {x}, Lt)
      /\ Len(t) = M /\ <<x, t[Len(t)]>> \in Lt =>
           \A w, p : w = SubSeq(t, 1, M - 1) /\ PlaceFor(w, x, p, Lt) =>
             FirstOf(SortedIn(w, x, p), S \union {x}, Lt)
      /\ Len(t) = M /\ <<x, t[Len(t)]>> \notin Lt => FirstOf(t, S \union {x}, Lt)
  <2> HIDE DEF Lt
  <2> QED
    BY <1>1, FirstOfMore DEF Lt
<1>4. CASE Len(t) < M
  <2>1. PICK p : PlaceFor(t, x, p, Lt) /\ SortIn(t, x, down) = SortedIn(t, x, p)
    BY <1>2, SortInIs
  <2>2. KeepTemp(t, x, x, down) = SortIn(t, x, down)
    BY <1>4 DEF KeepTemp
  <2> QED
    BY <1>3, <1>4, <2>1, <2>2
<1>5. CASE Len(t) = M /\ <<x, t[Len(t)]>> \in Lt
  <2> DEFINE w == SubSeq(t, 1, M - 1)
  <2>1. w \in Seq(R) /\ t[Len(t)] \in R
    BY <1>2, <1>5
  <2>2. Front(t) = w
    BY <1>5 DEF Front
  <2>3. KeepTemp(t, x, x, down) = SortIn(w, x, down)
    BY <1>1, <1>2, <1>5, <2>1, <2>2 DEF KeepTemp
  <2>4. PICK p : PlaceFor(w, x, p, Lt) /\ SortIn(w, x, down) = SortedIn(w, x, p)
    BY <2>1, SortInIs
  <2> QED
    BY <1>3, <1>5, <2>3, <2>4
<1>6. CASE Len(t) = M /\ <<x, t[Len(t)]>> \notin Lt
  <2>1. t[Len(t)] \in R
    BY <1>2, <1>6
  <2>2. KeepTemp(t, x, x, down) = t
    BY <1>1, <1>2, <1>6, <2>1 DEF KeepTemp
  <2> QED
    BY <1>3, <1>6, <2>2
<1> QED
  BY <1>2, <1>3, <1>4, <1>5, <1>6

(* When S is all of an enumeration, the first are those it begins with.      *)
LEMMA FirstOfAll ==
  ASSUME NEW Lt, NEW R, StrictlyOrders(Lt, R), NEW c \in Nat, NEW G \in [1 .. c -> R],
         \A i, j \in 1 .. c : <<G[i], G[j]>> \in Lt <=> i < j,
         NEW t, FirstOf(t, {G[i] : i \in 1 .. c}, Lt)
  PROVE  /\ Len(t) = IF c < MaxDirEntries THEN c ELSE MaxDirEntries
         /\ \A i \in 1 .. Len(t) : t[i] = G[i]
<1> DEFINE n == Len(t)
           M == MaxDirEntries
           S == {G[i] : i \in 1 .. c}
           e == [i \in 1 .. n |-> CHOOSE k \in 1 .. c : G[k] = t[i]]
<1>1. M \in Nat /\ M > 1
  BY DirScanAssumption
<1>2. t \in Seq(S) /\ n \in Nat /\ n <= M /\ \A i \in 1 .. n : t[i] \in S
  BY <1>1 DEF FirstOf
<1>3. ASSUME NEW i \in 1 .. n
      PROVE  e[i] \in 1 .. c /\ G[e[i]] = t[i]
  <2>1. \E k \in 1 .. c : G[k] = t[i]
    BY <1>2
  <2> QED
    BY <2>1
<1>4. ASSUME NEW i \in 1 .. n, NEW j \in 1 .. n, i < j
      PROVE  e[i] < e[j]
  <2>1. <<t[i], t[j]>> \in Lt
    BY <1>4 DEF FirstOf
  <2> HIDE DEF e
  <2> QED
    BY <1>3, <2>1
<1>5. ASSUME NEW k \in 1 .. c
      PROVE  (\E i \in 1 .. n : e[i] = k) \/ (n = M /\ M \in 1 .. n /\ e[M] < k)
  <2>1. CASE \E i \in 1 .. n : t[i] = G[k]
    <3>1. PICK i \in 1 .. n : t[i] = G[k]
      BY <2>1
    <3> HIDE DEF e
    <3>2. e[i] \in 1 .. c /\ G[e[i]] = G[k]
      BY <1>3, <3>1
    <3>3. ~(e[i] < k) /\ ~(k < e[i])
      BY <3>2 DEF StrictlyOrders
    <3>4. e[i] = k
      BY <3>2, <3>3
    <3> QED
      BY <3>4
  <2>2. CASE ~\E i \in 1 .. n : t[i] = G[k]
    <3>1. n = M /\ <<t[M], G[k]>> \in Lt
      BY <2>2 DEF FirstOf
    <3>2. M \in 1 .. n
      BY <1>1, <3>1
    <3> HIDE DEF e
    <3>3. e[M] < k
      BY <1>3, <3>1, <3>2
    <3> QED
      BY <3>1, <3>2, <3>3
  <2> QED
    BY <2>1, <2>2
<1> HIDE DEF e, n, M
<1>6. \A i \in 0 .. n : i # 0 => e[i] = i
  <2> DEFINE T == {i \in 0 .. n : \A j \in 1 .. i : e[j] = j}
  <2>1. 0 \in T
    BY <1>2
  <2>2. ASSUME NEW i \in 0 .. n, i # 0, i - 1 \in T
        PROVE  i \in T
    <3>1. i \in 1 .. n /\ e[i] \in 1 .. c
      BY <1>2, <1>3, <2>2
    <3>2. i <= e[i]
      <4>1. CASE i = 1
        BY <3>1, <4>1
      <4>2. CASE i # 1
        <5>1. i - 1 \in 1 .. n /\ e[i - 1] = i - 1 /\ i - 1 < i
          BY <1>2, <2>2, <3>1, <4>2
        <5>2. e[i - 1] < e[i]
          BY <1>4, <3>1, <5>1
        <5> QED
          BY <3>1, <5>1, <5>2
      <4> QED
        BY <4>1, <4>2
    <3>3. i \in 1 .. c
      BY <1>2, <3>1, <3>2
    <3>4. CASE \E j \in 1 .. n : e[j] = i
      <4>1. PICK j \in 1 .. n : e[j] = i
        BY <3>4
      <4>2. CASE j < i
        <5>1. e[j] = j
          BY <1>2, <2>2, <4>2
        <5> QED
          BY <4>1, <4>2, <5>1
      <4>3. CASE i < j
        <5>1. e[i] < e[j]
          BY <1>4, <3>1, <4>3
        <5> QED
          BY <3>1, <3>2, <3>3, <4>1, <5>1
      <4>4. CASE i = j
        <5>1. \A q \in 1 .. i : q = i \/ q \in 1 .. i - 1
          OBVIOUS
        <5> QED
          BY <2>2, <4>1, <4>4, <5>1
      <4> QED
        BY <3>1, <4>2, <4>3, <4>4
    <3>5. CASE n = M /\ M \in 1 .. n /\ e[M] < i
      <4>1. e[M] \in 1 .. c /\ i <= M
        BY <1>3, <3>1, <3>5
      <4>2. i = M \/ e[i] < e[M]
        BY <1>1, <1>4, <3>1, <3>5, <4>1
      <4> QED
        BY <3>1, <3>2, <3>3, <3>5, <4>1, <4>2
    <3> QED
      BY <1>5, <3>3, <3>4, <3>5
  <2>3. \A i \in 0 .. n : i \in T
    <3> HIDE DEF T
    <3> QED
      BY <1>2, <2>1, <2>2, Induct
  <2> QED
    BY <2>3
<1>7. \A i \in 1 .. n : e[i] = i
  BY <1>2, <1>6
<1>8. \A i \in 1 .. n : t[i] = G[i]
  BY <1>3, <1>7
<1>9. n <= c
  <2>1. CASE n = 0
    BY <2>1
  <2>2. CASE n # 0
    <3>1. n \in 1 .. n
      BY <1>2, <2>2
    <3> QED
      BY <1>3, <1>7, <3>1
  <2> QED
    BY <2>1, <2>2
<1>10. n < M => n = c
  <2>1. ASSUME n < M, n # c
        PROVE  FALSE
    <3>1. c \in 1 .. c
      BY <1>2, <1>9, <2>1
    <3>2. PICK i \in 1 .. n : e[i] = c
      BY <1>1, <1>2, <1>5, <2>1, <3>1
    <3> QED
      BY <1>2, <1>7, <1>9, <2>1, <3>2
  <2> QED
    BY <2>1
<1>11. n = IF c < M THEN c ELSE M
  BY <1>1, <1>2, <1>9, <1>10
<1> QED
  BY <1>8, <1>11 DEF n, M

-----------------------------------------------------------------------------
(* The same in the table, whose order is in sort_table.                      *)

View(s) == [i \in 1 .. s.n |-> s.table[s.sort[i - 1]]]

Whole(d, s) == s \in Scans(d) /\ \A p, q \in Places : s.sort[p] = s.sort[q] => p = q

(* Only the order has changed, and only up to place i.                       *)
OrderedUpTo(s, u, i) ==
  /\ u.table = s.table /\ u.n = s.n /\ u.sel = s.sel
  /\ u.found = s.found /\ u.temp = s.temp /\ u.lfn = s.lfn
  /\ \A p \in Places : p > i => u.sort[p] = s.sort[p]

(* A pass of the bubble sort moves the new entry to its place, and keeps     *)
(* the order of the others.                                                  *)
LEMMA BubbleIs ==
  ASSUME NEW d \in Directories, NEW s, Whole(d, s), NEW i \in Places, s.n = i + 1,
         NEW x \in RowsOf(d), s.table[s.sort[i]] = x,
         NEW w \in Seq(RowsOf(d)), Len(w) = i, \A j \in 1 .. i : w[j] = s.table[s.sort[j - 1]]
  PROVE  /\ Whole(d, Bubble(s, i)) /\ OrderedUpTo(s, Bubble(s, i), i)
         /\ \E p : /\ PlaceFor(w, x, p, BelowIn(RowsOf(d)))
                   /\ View(Bubble(s, i)) = SortedIn(w, x, p)
<1> DEFINE R == RowsOf(d)
           Right(p) == /\ \A q \in p .. i - 1 : Below(x, s.table[s.sort[q]])
                       /\ p = 0 \/ ~Below(x, s.table[s.sort[p - 1]])
           to == CHOOSE p \in 0 .. i : Right(p)
           m == [p \in Places |-> IF p = to THEN s.sort[i]
                                  ELSE IF p \in to + 1 .. i THEN s.sort[p - 1] ELSE s.sort[p]]
           u == Bubble(s, i)
<1>1. /\ MaxDirEntries \in Nat /\ i \in Nat /\ i < MaxDirEntries /\ Places = 0 .. MaxDirEntries - 1
      /\ \A p \in 0 .. i : p \in Places
  BY DirScanAssumption DEF Places
<1>2. s \in Scans(d) /\ s.sort \in [Places -> Places]
      /\ \A p, q \in Places : s.sort[p] = s.sort[q] => p = q
  BY DEF Whole, Scans
<1>3. \A j \in 1 .. i : w[j] \in R
  BY <1>1
<1>4. ASSUME NEW p \in 0 .. i
      PROVE  PlaceFor(w, x, p + 1, BelowIn(R)) <=> Right(p)
  <2>1. \A a, b \in R : <<a, b>> \in BelowIn(R) <=> Below(a, b)
    BY DEF BelowIn
  <2>2. \A q \in 1 .. i : s.table[s.sort[q - 1]] = w[q] /\ w[q] \in R
    BY <1>3
  <2> HIDE DEF R
  <2>3. ASSUME NEW q \in 1 .. i
        PROVE  <<x, w[q]>> \in BelowIn(R) <=> Below(x, s.table[s.sort[q - 1]])
    BY <2>1, <2>2 DEF R
  <2>4. (\A q \in p + 1 .. i : <<x, w[q]>> \in BelowIn(R))
        <=> (\A q \in p .. i - 1 : Below(x, s.table[s.sort[q]]))
    <3>1. ASSUME NEW q \in p .. i - 1, \A k \in p + 1 .. i : <<x, w[k]>> \in BelowIn(R)
          PROVE  Below(x, s.table[s.sort[q]])
      <4>1. q + 1 \in p + 1 .. i /\ q + 1 \in 1 .. i /\ (q + 1) - 1 = q
        BY <1>1
      <4>2. Below(x, s.table[s.sort[(q + 1) - 1]])
        BY <2>3, <3>1, <4>1
      <4> QED
        BY <4>1, <4>2
    <3>2. ASSUME NEW q \in p + 1 .. i, \A k \in p .. i - 1 : Below(x, s.table[s.sort[k]])
          PROVE  <<x, w[q]>> \in BelowIn(R)
      <4>1. q - 1 \in p .. i - 1 /\ q \in 1 .. i
        BY <1>1
      <4> QED
        BY <2>3, <3>2, <4>1
    <3> QED
      BY <3>1, <3>2
  <2>5. (p + 1 = 1 \/ <<x, w[(p + 1) - 1]>> \notin BelowIn(R))
        <=> (p = 0 \/ ~Below(x, s.table[s.sort[p - 1]]))
    <3>1. p # 0 => p \in 1 .. i
      BY <1>1
    <3>2. (p + 1) - 1 = p /\ (p + 1 = 1 <=> p = 0)
      BY <1>1
    <3> QED
      BY <2>3, <3>1, <3>2
  <2>6. p + 1 \in 1 .. Len(w) + 1 /\ Len(w) = i
    BY <1>1
  <2> QED
    BY <2>4, <2>5, <2>6 DEF PlaceFor
<1>5. \E p \in 0 .. i : Right(p)
  <2>1. PICK p : PlaceFor(w, x, p, BelowIn(R))
    <3> HIDE DEF R
    <3> QED
      BY PlaceExists DEF R
  <2>2. p - 1 \in 0 .. i /\ (p - 1) + 1 = p
    BY <1>1, <2>1 DEF PlaceFor
  <2> QED
    BY <1>4, <2>1, <2>2
<1>6. to \in 0 .. i /\ Right(to)
  <2> HIDE DEF Right
  <2> QED
    BY <1>5
<1>7. u = [s EXCEPT !.sort = m]
  BY DEF Bubble
<1> HIDE DEF to
<1>8. /\ \A p \in Places : m[p] = IF p = to THEN s.sort[i]
                                  ELSE IF p \in to + 1 .. i THEN s.sort[p - 1] ELSE s.sort[p]
      /\ m = [p \in Places |-> m[p]]
  OBVIOUS
<1>9. \A p \in Places : p \in to + 1 .. i => p - 1 \in Places
  BY <1>1, <1>6
<1> HIDE DEF m, u, Right
<1>10. m \in [Places -> Places]
  <2>1. ASSUME NEW p \in Places
        PROVE  m[p] \in Places
    <3>1. \A k \in Places : s.sort[k] \in Places
      BY <1>2
    <3>2. p \in to + 1 .. i => p - 1 \in Places
      BY <1>9
    <3>3. m[p] \in {s.sort[i], s.sort[p]} \/ (p \in to + 1 .. i /\ m[p] = s.sort[p - 1])
      BY <1>8
    <3> QED
      BY <3>1, <3>2, <3>3
  <2> QED
    BY <1>8, <2>1
<1>11. ASSUME NEW p \in Places, NEW q \in Places, m[p] = m[q]
       PROVE  p = q
  <2> DEFINE From(k) == IF k = to THEN i ELSE IF k \in to + 1 .. i THEN k - 1 ELSE k
  <2>1. \A k \in Places : From(k) \in Places /\ m[k] = s.sort[From(k)]
    BY <1>1, <1>8, <1>9
  <2>2. From(p) = From(q)
    BY <1>2, <1>11, <2>1
  <2> QED
    BY <1>1, <1>6, <2>2
<1>12. Whole(d, u)
  BY <1>2, <1>7, <1>10, <1>11 DEF Whole, Scans
<1>13. OrderedUpTo(s, u, i)
  <2>1. \A p \in Places : p > i => p # to /\ p \notin to + 1 .. i
    BY <1>1, <1>6
  <2>2. \A p \in Places : p > i => m[p] = s.sort[p]
    BY <1>8, <2>1
  <2> QED
    BY <1>2, <1>7, <2>2 DEF OrderedUpTo, Scans
<1>14. View(u) = SortedIn(w, x, to + 1)
  <2>1. u.n = i + 1 /\ u.sort = m /\ u.table = s.table
    BY <1>2, <1>7 DEF Scans
  <2>2. ASSUME NEW j \in 1 .. i + 1
        PROVE  s.table[m[j - 1]] = IF j < to + 1 THEN w[j] ELSE IF j = to + 1 THEN x ELSE w[j - 1]
    <3>1. j - 1 \in Places /\ j \in Int
      BY <1>1
    <3>2. CASE j < to + 1
      <4>1. j - 1 # to /\ j - 1 \notin to + 1 .. i /\ j \in 1 .. i
        BY <1>1, <1>6, <3>2
      <4> QED
        BY <1>8, <3>1, <3>2, <4>1
    <3>3. CASE j = to + 1
      <4>1. j - 1 = to
        BY <1>6, <3>3
      <4> QED
        BY <1>8, <3>1, <3>3, <4>1
    <3>4. CASE j > to + 1
      <4>1. j - 1 # to /\ j - 1 \in to + 1 .. i /\ j - 1 \in 1 .. i
        BY <1>1, <1>6, <3>4
      <4>2. m[j - 1] = s.sort[(j - 1) - 1]
        BY <1>8, <3>1, <4>1
      <4>3. w[j - 1] = s.table[s.sort[(j - 1) - 1]]
        BY <4>1
      <4>4. ~(j < to + 1) /\ j # to + 1
        BY <1>6, <3>1, <3>4
      <4> QED
        BY <4>2, <4>3, <4>4
    <3> QED
      BY <1>6, <3>1, <3>2, <3>3, <3>4
  <2>3. View(u) = [j \in 1 .. i + 1 |-> s.table[m[j - 1]]]
    BY <2>1 DEF View
  <2> QED
    BY <2>2, <2>3 DEF SortedIn
<1>15. PlaceFor(w, x, to + 1, BelowIn(R))
  BY <1>4, <1>6
<1> QED
  BY <1>12, <1>13, <1>14, <1>15 DEF u

(* While there is room, places that are not in use are in order.             *)
Fresh(s) == \A p \in Places : p >= s.n => s.sort[p] = p

(* Keep holds the first rows of those it has been shown.                     *)
LEMMA KeepIs ==
  ASSUME NEW d \in Directories, NEW s, Whole(d, s), Fresh(s), NEW S \in SUBSET RowsOf(d),
         FirstOf(View(s), S, BelowIn(RowsOf(d))), NEW x \in RowsOf(d) \ S
  PROVE  LET u == Keep(s, x, x)
         IN  /\ Whole(d, u) /\ Fresh(u)
             /\ FirstOf(View(u), S \union {x}, BelowIn(RowsOf(d)))
             /\ u.sel = s.sel /\ u.found = s.found /\ u.temp = s.temp /\ u.lfn = s.lfn
<1> DEFINE R == RowsOf(d)
           Lt == BelowIn(R)
           M == MaxDirEntries
           t == View(s)
           u == Keep(s, x, x)
           n == s.n
<1>1. /\ M \in Nat /\ M > 1 /\ Places = 0 .. M - 1 /\ n \in 0 .. M
      /\ s.table \in [Places -> R \union {NoRow}] /\ s.sort \in [Places -> Places]
      /\ s \in Scans(d) /\ \A p, q \in Places : s.sort[p] = s.sort[q] => p = q
  BY DirScanAssumption DEF Places, Whole, Scans
<1>2. StrictlyOrders(Lt, R) /\ \A a, b \in R : <<a, b>> \in Lt <=> Below(a, b)
  BY BelowTotal DEF BelowIn
<1>3. t \in Seq(R) /\ Len(t) = n /\ \A j \in 1 .. n : t[j] = s.table[s.sort[j - 1]] /\ t[j] \in R
  <2>1. t = [i \in 1 .. n |-> s.table[s.sort[i - 1]]]
    BY DEF View
  <2>2. t \in Seq(R)
    BY DEF FirstOf
  <2> HIDE DEF t, n
  <2> QED
    BY <1>1, <2>1, <2>2
<1>4. /\ n < M => \A p : PlaceFor(t, x, p, Lt) => FirstOf(SortedIn(t, x, p), S \union {x}, Lt)
      /\ n = M /\ <<x, t[n]>> \in Lt =>
           \A w, p : w = SubSeq(t, 1, M - 1) /\ PlaceFor(w, x, p, Lt) =>
             FirstOf(SortedIn(w, x, p), S \union {x}, Lt)
      /\ n = M /\ <<x, t[n]>> \notin Lt => FirstOf(t, S \union {x}, Lt)
  <2> HIDE DEF Lt, t, n
  <2> QED
    BY <1>2, <1>3, FirstOfMore DEF Lt, t
<1>5. CASE n < M
  <2> DEFINE v == [s EXCEPT !.table[n] = x, !.n = @ + 1]
  <2>1. n \in Places /\ s.sort[n] = n
    BY <1>1, <1>5 DEF Fresh
  <2>2. /\ v.table = [s.table EXCEPT ![n] = x] /\ v.n = n + 1 /\ v.sort = s.sort
        /\ v.sel = s.sel /\ v.found = s.found /\ v.temp = s.temp /\ v.lfn = s.lfn
    BY <1>1 DEF Scans
  <2>3. v \in Scans(d)
    <3>1. [s.table EXCEPT ![n] = x] \in [Places -> R \union {NoRow}] /\ n + 1 \in 0 .. M
      BY <1>1, <1>5, <2>1
    <3> QED
      BY <1>1, <3>1 DEF Scans
  <2>4. Whole(d, v)
    BY <1>1, <2>2, <2>3 DEF Whole
  <2>5. v.table[v.sort[n]] = x
    BY <1>1, <2>1, <2>2
  <2>6. \A j \in 1 .. n : t[j] = v.table[v.sort[j - 1]]
    <3>1. \A j \in 1 .. n : j - 1 \in Places /\ j - 1 # n
      BY <1>1
    <3>2. \A p \in Places : p # n => s.sort[p] \in Places /\ s.sort[p] # n
      BY <1>1, <2>1
    <3> QED
      BY <1>1, <1>3, <2>2, <3>1, <3>2
  <2>7. u = Bubble(v, n)
    BY <1>5 DEF Keep
  <2> HIDE DEF v, u, Lt, t, n
  <2>8. /\ Whole(d, u) /\ OrderedUpTo(v, u, n)
        /\ \E p : PlaceFor(t, x, p, Lt) /\ View(u) = SortedIn(t, x, p)
    <3>1. x \in RowsOf(d) /\ t \in Seq(RowsOf(d)) /\ Len(t) = n /\ v.n = n + 1
      BY <1>3, <2>2
    <3>2. /\ Whole(d, Bubble(v, n)) /\ OrderedUpTo(v, Bubble(v, n), n)
          /\ \E p : /\ PlaceFor(t, x, p, BelowIn(RowsOf(d)))
                    /\ View(Bubble(v, n)) = SortedIn(t, x, p)
      BY ONLY <2>1, <2>4, <2>5, <2>6, <3>1, d \in Directories, BubbleIs
    <3> QED
      BY <2>7, <3>2 DEF Lt
  <2>9. Fresh(u)
    <3>1. \A p \in Places : p >= n + 1 => p > n /\ p >= n
      BY <1>1
    <3> QED
      BY <2>2, <2>8, <3>1 DEF Fresh, OrderedUpTo, n
  <2> QED
    BY <1>4, <1>5, <2>2, <2>8, <2>9 DEF OrderedUpTo, u, Lt
<1>6. CASE n = M /\ Below(x, LastRow(s))
  <2> DEFINE v == [s EXCEPT !.table[s.sort[M - 1]] = x]
             w == SubSeq(t, 1, M - 1)
  <2>1. M - 1 \in Places /\ s.sort[M - 1] \in Places /\ n \in 1 .. n /\ t[n] = LastRow(s)
    BY <1>1, <1>3, <1>6 DEF LastRow
  <2>2. /\ v.table = [s.table EXCEPT ![s.sort[M - 1]] = x] /\ v.n = M /\ v.sort = s.sort
        /\ v.sel = s.sel /\ v.found = s.found /\ v.temp = s.temp /\ v.lfn = s.lfn
    BY <1>1, <1>6 DEF Scans
  <2>3. v \in Scans(d)
    <3>1. [s.table EXCEPT ![s.sort[M - 1]] = x] \in [Places -> R \union {NoRow}]
      BY <1>1, <2>1
    <3> QED
      BY <1>1, <3>1 DEF Scans
  <2>4. Whole(d, v)
    BY <1>1, <2>2, <2>3 DEF Whole
  <2>5. v.table[v.sort[M - 1]] = x
    BY <1>1, <2>1, <2>2
  <2>6. w \in Seq(R) /\ Len(w) = M - 1 /\ \A j \in 1 .. M - 1 : w[j] = t[j] /\ j \in 1 .. n
    <3> HIDE DEF t, n
    <3> QED
      BY <1>1, <1>3, <1>6
  <2>7. \A j \in 1 .. M - 1 : w[j] = v.table[v.sort[j - 1]]
    <3>1. \A j \in 1 .. M - 1 : j - 1 \in Places /\ j - 1 # M - 1
      BY <1>1
    <3>2. \A p \in Places : p # M - 1 => s.sort[p] \in Places /\ s.sort[p] # s.sort[M - 1]
      BY <1>1, <2>1
    <3> HIDE DEF w, v, t, n
    <3> QED
      BY <1>1, <1>3, <2>2, <2>6, <3>1, <3>2, SMTT(30)
  <2>8. u = Bubble(v, M - 1)
    BY <1>1, <1>6 DEF Keep
  <2> HIDE DEF v, u, Lt, t, n, w
  <2>9. /\ Whole(d, u) /\ OrderedUpTo(v, u, M - 1)
        /\ \E p : PlaceFor(w, x, p, Lt) /\ View(u) = SortedIn(w, x, p)
    <3>1. x \in RowsOf(d) /\ w \in Seq(RowsOf(d)) /\ Len(w) = M - 1 /\ v.n = (M - 1) + 1
      BY <1>1, <2>2, <2>6
    <3>2. /\ Whole(d, Bubble(v, M - 1)) /\ OrderedUpTo(v, Bubble(v, M - 1), M - 1)
          /\ \E p : /\ PlaceFor(w, x, p, BelowIn(RowsOf(d)))
                    /\ View(Bubble(v, M - 1)) = SortedIn(w, x, p)
      BY ONLY <2>1, <2>4, <2>5, <2>7, <3>1, d \in Directories, BubbleIs
    <3> QED
      BY <2>8, <3>2 DEF Lt
  <2>10. Fresh(u)
    <3>1. \A p \in Places : ~(p >= M)
      BY <1>1
    <3> QED
      BY <2>2, <2>9, <3>1 DEF Fresh, OrderedUpTo
  <2>11. <<x, t[n]>> \in Lt
    BY <1>2, <1>3, <1>6, <2>1
  <2>12. FirstOf(View(u), S \union {x}, Lt)
    <3>1. PICK p : PlaceFor(w, x, p, Lt) /\ View(u) = SortedIn(w, x, p)
      BY <2>9
    <3>2. FirstOf(SortedIn(w, x, p), S \union {x}, Lt)
      BY <1>4, <1>6, <2>11, <3>1 DEF w
    <3> QED
      BY <3>1, <3>2
  <2>13. u.sel = s.sel /\ u.found = s.found /\ u.temp = s.temp /\ u.lfn = s.lfn
    BY <2>2, <2>9 DEF OrderedUpTo
  <2> QED
    BY <2>9, <2>10, <2>12, <2>13 DEF u, Lt
<1>7. CASE n = M /\ ~Below(x, LastRow(s))
  <2>1. n \in 1 .. n /\ t[n] = LastRow(s) /\ t[n] \in R
    BY <1>1, <1>3, <1>7 DEF LastRow
  <2>2. u = s
    BY <1>1, <1>7 DEF Keep
  <2>3. <<x, t[n]>> \notin Lt
    <3> HIDE DEF Lt, t, n
    <3> QED
      BY <1>2, <1>7, <2>1
  <2>4. FirstOf(t, S \union {x}, Lt)
    BY <1>4, <1>7, <2>3
  <2> QED
    BY <2>2, <2>4
<1> QED
  BY <1>1, <1>5, <1>6, <1>7

-----------------------------------------------------------------------------
(* The exchanges of a page.                                                  *)

Runs(g, a, G, n) == g = [i \in 0 .. n |-> IF i = 0 THEN a ELSE G[<<i - 1, g[i - 1]>>]]

(* A recursive function on 0 .. n is given by its first value and its step.  *)
LEMMA RunExists ==
  ASSUME NEW n \in Nat, NEW V, NEW a \in V, NEW G \in [(0 .. n - 1) \X V -> V]
  PROVE  \E g \in [0 .. n -> V] : Runs(g, a, G, n)
<1>1. PICK f \in [-1 .. n - 1 -> V] : Loop(f, a, G, n)
  BY LoopExists
<1> DEFINE g == [i \in 0 .. n |-> f[i - 1]]
<1>2. \A i \in 0 .. n : i - 1 \in -1 .. n - 1
  OBVIOUS
<1>3. g \in [0 .. n -> V]
  BY <1>2
<1>4. ASSUME NEW i \in 0 .. n
      PROVE  g[i] = IF i = 0 THEN a ELSE G[<<i - 1, g[i - 1]>>]
  <2>1. CASE i = 0
    BY <1>1, <2>1 DEF Loop
  <2>2. CASE i # 0
    <3>1. i - 1 \in 0 .. n - 1 /\ i - 1 \in 0 .. n
      BY <2>2
    <3>2. g[i] = f[i - 1] /\ g[i - 1] = f[(i - 1) - 1]
      BY <3>1
    <3>3. f[i - 1] = G[<<i - 1, f[(i - 1) - 1]>>]
      BY <1>1, <3>1 DEF Loop
    <3> HIDE DEF g
    <3> QED
      BY <2>2, <3>2, <3>3
  <2> QED
    BY <2>1, <2>2
<1>5. g = [i \in 0 .. n |-> g[i]]
  OBVIOUS
<1> HIDE DEF g
<1>6. Runs(g, a, G, n)
  BY <1>4, <1>5 DEF Runs
<1> QED
  BY <1>3, <1>6

Injections == {f \in [Places -> Places] : \A p, q \in Places : f[p] = f[q] => p = q}

(* An exchange of two places of a permutation.                               *)
LEMMA ExchangeIs ==
  ASSUME NEW f \in Injections, NEW x \in Places, NEW y \in Places
  PROVE  /\ Exchange(f, x, y) \in Injections
         /\ x # y => Exchange(f, x, y)[x] = f[y] /\ Exchange(f, x, y)[y] = f[x]
         /\ \A z \in Places : z # x /\ z # y => Exchange(f, x, y)[z] = f[z]
<1> DEFINE g == Exchange(f, x, y)
<1>1. f \in [Places -> Places] /\ \A p, q \in Places : f[p] = f[q] => p = q
  BY DEF Injections
<1>2. g = [f EXCEPT ![x] = f[y], ![y] = f[x]]
  BY DEF Exchange
<1> HIDE DEF g
<1>3. g \in [Places -> Places]
  BY <1>1, <1>2
<1>4. /\ g[y] = f[x] /\ (x # y => g[x] = f[y]) /\ (x = y => g[x] = f[x])
      /\ \A z \in Places : z # x /\ z # y => g[z] = f[z]
  BY <1>1, <1>2
<1>5. ASSUME NEW p \in Places, NEW q \in Places, g[p] = g[q]
      PROVE  p = q
  BY <1>1, <1>4, <1>5
<1> QED
  BY <1>3, <1>4, <1>5 DEF g, Injections

(* The rows from place n on move up by n places; the first n end at the      *)
(* bottom, in some order.                                                    *)
LEMMA ShiftUpIs ==
  ASSUME NEW f \in Injections, NEW n \in 1 .. MaxDirEntries
  PROVE  /\ ShiftUp(f, n) \in Injections
         /\ \A x \in 0 .. MaxDirEntries - n - 1 : ShiftUp(f, n)[x] = f[x + n]
<1> DEFINE M == MaxDirEntries
           N == M - n
           V == [Places -> Places]
           Is(a) == a = [i \in 0 .. N |-> IF i = 0 THEN f ELSE Exchange(a[i - 1], i - 1, i - 1 + n)]
           c == CHOOSE a : Is(a)
           G == [p \in (0 .. N - 1) \X V |-> Exchange(p[2], p[1], p[1] + n)]
<1>1. /\ M \in Nat /\ M > 1 /\ N \in Nat /\ n \in Nat /\ n > 0 /\ Places = 0 .. M - 1
      /\ N = M - n /\ M = N + n
  BY DirScanAssumption DEF Places
<1>2. f \in V
  BY DEF Injections
<1>3. \A k \in 0 .. N - 1 : k \in Places /\ k + n \in Places
  BY <1>1
<1>4. G \in [(0 .. N - 1) \X V -> V]
  <2>1. ASSUME NEW k \in 0 .. N - 1, NEW g \in V
        PROVE  Exchange(g, k, k + n) \in V
    BY <1>3 DEF Exchange
  <2> QED
    BY <2>1
<1>5. \E a : Is(a)
  <2>1. PICK g \in [0 .. N -> V] : Runs(g, f, G, N)
    <3> HIDE DEF G, V, N
    <3> QED
      BY <1>1, <1>2, <1>4, RunExists
  <2>2. ASSUME NEW i \in 0 .. N
        PROVE  g[i] = IF i = 0 THEN f ELSE Exchange(g[i - 1], i - 1, i - 1 + n)
    <3>1. CASE i = 0
      BY <2>1, <3>1 DEF Runs
    <3>2. CASE i # 0
      <4>1. i - 1 \in 0 .. N - 1 /\ i - 1 \in 0 .. N
        BY <1>1, <3>2
      <4>2. g[i - 1] \in V
        BY <2>1, <4>1
      <4>3. g[i] = G[<<i - 1, g[i - 1]>>]
        BY <2>1, <3>2 DEF Runs
      <4> DEFINE h == g[i - 1]
                 k == i - 1
      <4>4. G[<<k, h>>] = Exchange(h, k, k + n)
        <5> HIDE DEF h, k
        <5> QED
          BY <4>1, <4>2 DEF h, k
      <4> QED
        BY <3>2, <4>3, <4>4
    <3> QED
      BY <3>1, <3>2
  <2>3. g = [i \in 0 .. N |-> g[i]]
    BY <2>1
  <2>4. Is(g)
    BY <2>2, <2>3
  <2> HIDE DEF Is
  <2> QED
    BY <2>4
<1>6. Is(c)
  <2> HIDE DEF Is
  <2> QED
    BY <1>5
<1>7. ShiftUp(f, n) = c[N]
  BY DEF ShiftUp
<1> HIDE DEF c, G, V
<1>8. c[0] = f /\ \A i \in 1 .. N : c[i] = Exchange(c[i - 1], i - 1, i - 1 + n)
  BY <1>1, <1>6
<1> DEFINE Done(i) == /\ c[i] \in Injections
                      /\ \A x \in Places : /\ x < i => c[i][x] = f[x + n]
                                           /\ x >= i + n => c[i][x] = f[x]
           S == {i \in 0 .. N : Done(i)}
<1>9. 0 \in S
  BY <1>1, <1>8
<1>10. ASSUME NEW i \in 0 .. N, i # 0, i - 1 \in S
       PROVE  i \in S
  <2> DEFINE k == i - 1
             g == c[k]
  <2>1. k \in 0 .. N - 1 /\ i = k + 1 /\ i \in 1 .. N
    BY <1>1, <1>10
  <2>2. Done(k)
    BY <1>10
  <2>3. c[i] = Exchange(g, k, k + n)
    BY <1>8, <2>1
  <2>4. k \in Places /\ k + n \in Places /\ k # k + n
    BY <1>1, <1>3, <2>1
  <2>5. g \in Injections
    BY <2>2
  <2> HIDE DEF g, Done, S
  <2>6. /\ c[i] \in Injections /\ c[i][k] = g[k + n]
        /\ \A z \in Places : z # k /\ z # k + n => c[i][z] = g[z]
    BY <2>3, <2>4, <2>5, ExchangeIs
  <2>7. ASSUME NEW x \in Places
        PROVE  (x < i => c[i][x] = f[x + n]) /\ (x >= i + n => c[i][x] = f[x])
    <3>1. /\ x < k => g[x] = f[x + n]
          /\ x >= k + n => g[x] = f[x]
      BY <2>2 DEF Done, g
    <3>2. g[k + n] = f[k + n]
      <4>1. k + n >= k + n
        BY <1>1, <2>1
      <4> QED
        BY <2>2, <2>4, <4>1 DEF Done, g
    <3>3. x \in Int /\ k \in Int
      BY <1>1, <2>1
    <3>4. CASE x = k
      BY <1>1, <2>1, <2>6, <3>2, <3>3, <3>4
    <3>5. CASE x # k
      <4>1. x < i => x < k /\ x # k + n
        BY <1>1, <2>1, <3>3, <3>5
      <4>2. x >= i + n => x >= k + n /\ x # k + n
        BY <1>1, <2>1, <3>3, <3>5
      <4> QED
        BY <2>6, <3>1, <3>5, <4>1, <4>2
    <3> QED
      BY <3>4, <3>5
  <2>8. Done(i)
    BY <2>6, <2>7 DEF Done
  <2> QED
    BY <2>8 DEF S
<1>11. Done(N)
  <2>1. \A i \in 0 .. N : i \in S
    <3> HIDE DEF S
    <3> QED
      BY <1>1, <1>9, <1>10, Induct
  <2> QED
    BY <1>1, <2>1
<1> QED
  <2>1. \A x \in 0 .. M - n - 1 : x \in Places /\ x < N
    BY <1>1
  <2> QED
    BY <1>7, <1>11, <2>1

(* The same downwards.                                                       *)
LEMMA ShiftDownIs ==
  ASSUME NEW f \in Injections, NEW n \in 1 .. MaxDirEntries
  PROVE  /\ ShiftDown(f, n) \in Injections
         /\ \A x \in n .. MaxDirEntries - 1 : ShiftDown(f, n)[x] = f[x - n]
<1> DEFINE M == MaxDirEntries
           N == M - n
           V == [Places -> Places]
           Is(a) == a = [i \in 0 .. N |-> IF i = 0 THEN f ELSE Exchange(a[i - 1], M - i, M - i - n)]
           c == CHOOSE a : Is(a)
           G == [p \in (0 .. N - 1) \X V |-> Exchange(p[2], M - (p[1] + 1), M - (p[1] + 1) - n)]
<1>1. /\ M \in Nat /\ M > 1 /\ N \in Nat /\ n \in Nat /\ n > 0 /\ Places = 0 .. M - 1
      /\ N = M - n /\ M = N + n
  BY DirScanAssumption DEF Places
<1>2. f \in V
  BY DEF Injections
<1>3. \A k \in 0 .. N - 1 : M - (k + 1) \in Places /\ M - (k + 1) - n \in Places
  BY <1>1
<1>4. G \in [(0 .. N - 1) \X V -> V]
  <2>1. ASSUME NEW k \in 0 .. N - 1, NEW g \in V
        PROVE  Exchange(g, M - (k + 1), M - (k + 1) - n) \in V
    BY <1>3 DEF Exchange
  <2> QED
    BY <2>1
<1>5. \E a : Is(a)
  <2>1. PICK g \in [0 .. N -> V] : Runs(g, f, G, N)
    <3> HIDE DEF G, V, N
    <3> QED
      BY <1>1, <1>2, <1>4, RunExists
  <2>2. ASSUME NEW i \in 0 .. N
        PROVE  g[i] = IF i = 0 THEN f ELSE Exchange(g[i - 1], M - i, M - i - n)
    <3>1. CASE i = 0
      BY <2>1, <3>1 DEF Runs
    <3>2. CASE i # 0
      <4>1. i - 1 \in 0 .. N - 1 /\ i - 1 \in 0 .. N
        BY <1>1, <3>2
      <4>2. g[i - 1] \in V
        BY <2>1, <4>1
      <4>3. g[i] = G[<<i - 1, g[i - 1]>>]
        BY <2>1, <3>2 DEF Runs
      <4> DEFINE h == g[i - 1]
                 k == i - 1
      <4>4. G[<<k, h>>] = Exchange(h, M - (k + 1), M - (k + 1) - n)
        <5> HIDE DEF h, k
        <5> QED
          BY <4>1, <4>2 DEF h, k
      <4>5. k + 1 = i
        OBVIOUS
      <4> QED
        BY <3>2, <4>3, <4>4, <4>5
    <3> QED
      BY <3>1, <3>2
  <2>3. g = [i \in 0 .. N |-> g[i]]
    BY <2>1
  <2>4. Is(g)
    BY <2>2, <2>3
  <2> HIDE DEF Is
  <2> QED
    BY <2>4
<1>6. Is(c)
  <2> HIDE DEF Is
  <2> QED
    BY <1>5
<1>7. ShiftDown(f, n) = c[N]
  BY DEF ShiftDown
<1> HIDE DEF c, G, V
<1>8. c[0] = f /\ \A i \in 1 .. N : c[i] = Exchange(c[i - 1], M - i, M - i - n)
  BY <1>1, <1>6
<1> DEFINE Done(i) == /\ c[i] \in Injections
                      /\ \A x \in Places : /\ x >= M - i => c[i][x] = f[x - n]
                                           /\ x < M - i - n => c[i][x] = f[x]
           S == {i \in 0 .. N : Done(i)}
<1>9. 0 \in S
  BY <1>1, <1>8
<1>10. ASSUME NEW i \in 0 .. N, i # 0, i - 1 \in S
       PROVE  i \in S
  <2> DEFINE k == i - 1
             g == c[k]
             y == M - i
             z == M - i - n
  <2>1. k \in 0 .. N - 1 /\ i = k + 1 /\ i \in 1 .. N
    BY <1>1, <1>10
  <2>2. Done(k)
    BY <1>10
  <2>3. c[i] = Exchange(g, y, z)
    BY <1>8, <2>1
  <2>4. /\ y \in Places /\ z \in Places /\ y # z /\ y = z + n /\ y - n = z
        /\ y = M - k - 1 /\ z = M - k - n - 1 /\ k \in Int
    BY <1>1, <1>3, <2>1
  <2>5. g \in Injections
    BY <2>2
  <2> HIDE DEF g, Done, S, y, z
  <2>6. /\ c[i] \in Injections /\ c[i][y] = g[z]
        /\ \A x \in Places : x # y /\ x # z => c[i][x] = g[x]
    <3>1. y \in Places /\ z \in Places /\ y # z
      BY <2>4
    <3> QED
      BY ONLY <2>3, <2>5, <3>1, ExchangeIs
  <2>7. ASSUME NEW x \in Places
        PROVE  (x >= M - i => c[i][x] = f[x - n]) /\ (x < M - i - n => c[i][x] = f[x])
    <3>1. /\ x >= M - k => g[x] = f[x - n]
          /\ x < M - k - n => g[x] = f[x]
      BY <2>2 DEF Done, g
    <3>2. g[z] = f[z]
      <4>1. z < M - k - n
        BY <1>1, <2>4
      <4> QED
        BY <2>2, <2>4, <4>1 DEF Done, g
    <3>3. x \in Int /\ M - i = y /\ M - i - n = z
      BY <1>1 DEF y, z
    <3>4. CASE x = y
      <4>1. ~(x < M - i - n)
        BY <1>1, <2>4, <3>3, <3>4
      <4> QED
        BY <2>4, <2>6, <3>2, <3>4, <4>1
    <3>5. CASE x # y
      <4>1. x >= M - i => x >= M - k /\ x # z
        BY <1>1, <2>4, <3>3, <3>5
      <4>2. x < M - i - n => x < M - k - n /\ x # z
        BY <1>1, <2>4, <3>3, <3>5
      <4> QED
        BY <2>6, <3>1, <3>5, <4>1, <4>2
    <3> QED
      BY <3>4, <3>5
  <2>8. Done(i)
    BY <2>6, <2>7 DEF Done
  <2> QED
    BY <2>8 DEF S
<1>11. Done(N)
  <2>1. \A i \in 0 .. N : i \in S
    <3> HIDE DEF S
    <3> QED
      BY <1>1, <1>9, <1>10, Induct
  <2> QED
    BY <1>1, <2>1
<1> QED
  <2>1. \A x \in n .. M - 1 : x \in Places /\ x >= M - N
    BY <1>1
  <2> QED
    BY <1>7, <1>11, <2>1

(* The rows found go to the places from p on.                                *)
LEMMA CopyTempIs ==
  ASSUME NEW d \in Directories, NEW s \in Scans(d), NEW f \in Injections, NEW p \in Nat,
         p + Len(s.temp) <= MaxDirEntries
  PROVE  LET u == CopyTemp(s, f, p)
         IN  /\ Whole(d, u) /\ u.sort = f /\ u.n = s.n /\ u.sel = s.sel
             /\ \A i \in 1 .. Len(s.temp) : u.table[f[p + i - 1]] = s.temp[i]
             /\ \A x \in Places : x < p \/ x >= p + Len(s.temp) => u.table[f[x]] = s.table[f[x]]
<1> DEFINE M == MaxDirEntries
           t == s.temp
           R == RowsOf(d)
           At(x) == CHOOSE i \in 1 .. Len(t) : x = f[p + i - 1]
           tab == [x \in Places |-> IF \E i \in 1 .. Len(t) : x = f[p + i - 1]
                                    THEN t[At(x)] ELSE s.table[x]]
           u == CopyTemp(s, f, p)
<1>1. /\ M \in Nat /\ Places = 0 .. M - 1 /\ t \in Seq(R) /\ Len(t) \in Nat
      /\ s.table \in [Places -> R \union {NoRow}]
      /\ f \in [Places -> Places] /\ \A x, y \in Places : f[x] = f[y] => x = y
  <2>1. f \in [Places -> Places] /\ \A x, y \in Places : f[x] = f[y] => x = y
    BY DEF Injections
  <2>2. t \in Seq(R) /\ s.table \in [Places -> R \union {NoRow}]
    BY DEF Scans
  <2> HIDE DEF t
  <2>3. M \in Nat /\ Places = 0 .. M - 1
    BY DirScanAssumption DEF Places
  <2>4. Len(t) \in Nat
    BY <2>2
  <2> QED
    BY <2>1, <2>2, <2>3, <2>4
<1>2. \A i \in 1 .. Len(t) : p + i - 1 \in Places /\ t[i] \in R
  BY <1>1
<1>3. u = [s EXCEPT !.sort = f, !.table = tab]
  BY DEF CopyTemp
<1>4. ASSUME NEW i \in 1 .. Len(t)
      PROVE  tab[f[p + i - 1]] = t[i]
  <2> DEFINE x == f[p + i - 1]
  <2>1. x \in Places
    BY <1>1, <1>2
  <2>2. At(x) \in 1 .. Len(t) /\ x = f[p + At(x) - 1]
    OBVIOUS
  <2>3. p + At(x) - 1 = p + i - 1
    <3> HIDE DEF At
    <3> QED
      BY <1>1, <1>2, <2>2
  <2>4. At(x) = i
    <3> HIDE DEF At, x
    <3> QED
      BY <1>1, <2>2, <2>3
  <2>5. tab[x] = t[At(x)]
    BY <2>1
  <2> QED
    BY <2>4, <2>5
<1>5. ASSUME NEW x \in Places, x < p \/ x >= p + Len(t)
      PROVE  tab[f[x]] = s.table[f[x]]
  <2>1. ASSUME NEW i \in 1 .. Len(t)
        PROVE  f[x] # f[p + i - 1]
    <3>1. x # p + i - 1
      BY <1>1, <1>5
    <3> QED
      BY <1>1, <1>2, <3>1
  <2>2. f[x] \in Places
    BY <1>1
  <2> QED
    BY <2>1, <2>2
<1>6. tab \in [Places -> R \union {NoRow}]
  <2>1. ASSUME NEW x \in Places, \E i \in 1 .. Len(t) : x = f[p + i - 1]
        PROVE  t[At(x)] \in R
    <3>1. At(x) \in 1 .. Len(t)
      BY <2>1
    <3> HIDE DEF At
    <3> QED
      BY <1>2, <3>1
  <2> HIDE DEF At
  <2> QED
    BY <1>1, <2>1
<1> HIDE DEF tab, u
<1>7. u.sort = f /\ u.table = tab /\ u.n = s.n /\ u.sel = s.sel
  BY <1>3 DEF Scans
<1>8. u \in Scans(d)
  BY <1>1, <1>3, <1>6 DEF Scans
<1> QED
  BY <1>1, <1>4, <1>5, <1>7, <1>8 DEF u, Whole

-----------------------------------------------------------------------------
(* The modes.  The window of n rows on the sorted list, from row p on.       *)

Window(d, s, p) ==
  /\ Whole(d, s) /\ p \in Nat \ {0} /\ p + s.n - 1 <= Number(d)
  /\ \A i \in 1 .. s.n : s.table[s.sort[i - 1]] = Sorted(d)[p + i - 1]

Min2(a, b) == IF a < b THEN a ELSE b

(* The state of the long name is no part of the rows.                        *)
LEMMA WithLfn ==
  ASSUME NEW d, NEW t \in Scans(d), NEW l \in Lfns
  PROVE  LET u == [t EXCEPT !.lfn = l]
         IN  /\ u \in Scans(d) /\ u.table = t.table /\ u.sort = t.sort /\ u.n = t.n
             /\ u.sel = t.sel /\ u.found = t.found /\ u.temp = t.temp /\ View(u) = View(t)
<1> DEFINE u == [t EXCEPT !.lfn = l]
<1>1. /\ u \in Scans(d) /\ u.table = t.table /\ u.sort = t.sort /\ u.n = t.n
      /\ u.sel = t.sel /\ u.found = t.found /\ u.temp = t.temp
  BY DEF Scans
<1> HIDE DEF u
<1>2. View(u) = View(t)
  BY <1>1 DEF View
<1> QED
  BY <1>1, <1>2 DEF u

(* SCAN_INIT and SCAN_INIT_NEXT keep the first rows of C, in addition to B.  *)
Keeps(d, mode, arg, B, C) ==
  \A t \in Scans(d), V \in SUBSET RowsOf(d), x \in RowsOf(d) :
    FirstOf(View(t), B \union (V \cap C), BelowIn(RowsOf(d))) =>
      Take(t, mode, arg, x, x) = IF x \in C THEN Keep(t, x, x) ELSE t

Begun(s) == s.temp = <<>> /\ s.lfn = NoLFN /\ s.found = 0
Same(u, s) == u.sel = s.sel /\ u.temp = <<>>

(* A scan that keeps the first rows of a set ends with those of the whole    *)
(* set.                                                                      *)
LEMMA KeepScan ==
  ASSUME directory \in Directories, NEW mode, NEW arg,
         NEW B, NEW C, B \subseteq RowsOf(directory), C \subseteq RowsOf(directory), B \cap C = {},
         NEW s, Whole(directory, s), Fresh(s), Begun(s),
         FirstOf(View(s), B, BelowIn(RowsOf(directory))),
         Keeps(directory, mode, arg, B, C)
  PROVE  LET u == Scanned(s, mode, arg)
         IN  /\ Whole(directory, u) /\ FirstOf(View(u), B \union C, BelowIn(RowsOf(directory)))
             /\ Same(u, s)
<1> DEFINE d == directory
           R == RowsOf(d)
           Lt == BelowIn(R)
           Good(t, V) == /\ Whole(d, t) /\ Fresh(t) /\ FirstOf(View(t), B \union (V \cap C), Lt)
                         /\ t.sel = s.sel /\ t.temp = <<>>
           I == [V \in SUBSET R |-> {t \in Scans(d) : Good(t, V)}]
<1>1. ASSUME NEW V \in SUBSET R, NEW t \in I[V], NEW l \in Lfns
      PROVE  [t EXCEPT !.lfn = l] \in I[V]
  <2> DEFINE u == [t EXCEPT !.lfn = l]
  <2>1. t \in Scans(d) /\ Good(t, V)
    BY <1>1
  <2>2. /\ u \in Scans(d) /\ u.sort = t.sort /\ u.n = t.n
        /\ u.sel = t.sel /\ u.temp = t.temp /\ View(u) = View(t)
    BY <2>1, WithLfn
  <2> HIDE DEF u
  <2>3. Good(u, V)
    BY <2>1, <2>2 DEF Whole, Fresh
  <2> HIDE DEF Good
  <2> QED
    BY <2>2, <2>3 DEF u
<1>2. ASSUME NEW V \in SUBSET R, NEW x \in R \ V, NEW t \in I[V]
      PROVE  /\ Take(t, mode, arg, x, x) \in I[V \union {x}]
             /\ Take(t, mode, arg, x, x).lfn = t.lfn
  <2> DEFINE u == Take(t, mode, arg, x, x)
             S == B \union (V \cap C)
  <2>1. t \in Scans(d) /\ Good(t, V)
    BY <1>2
  <2>2. u = IF x \in C THEN Keep(t, x, x) ELSE t
    BY <2>1 DEF Keeps
  <2>3. V \union {x} \in SUBSET R
    OBVIOUS
  <2>4. CASE x \in C
    <3> DEFINE v == Keep(t, x, x)
    <3>1. S \in SUBSET R /\ x \in R \ S
      BY <2>4
    <3>2. /\ Whole(d, v) /\ Fresh(v) /\ FirstOf(View(v), S \union {x}, Lt)
          /\ v.sel = t.sel /\ v.found = t.found /\ v.temp = t.temp /\ v.lfn = t.lfn
      <4> HIDE DEF S, v
      <4>1. d \in Directories /\ Whole(d, t) /\ Fresh(t) /\ FirstOf(View(t), S, BelowIn(RowsOf(d)))
        BY <2>1 DEF S
      <4> HIDE DEF d
      <4> QED
        BY ONLY <3>1, <4>1, KeepIs DEF v, R, Lt
    <3>3. S \union {x} = B \union ((V \union {x}) \cap C)
      BY <2>4
    <3> HIDE DEF v, S
    <3>4. Good(v, V \union {x}) /\ v \in Scans(d)
      BY <2>1, <3>2, <3>3 DEF Whole
    <3>5. u = v
      BY <2>2, <2>4 DEF v
    <3> HIDE DEF Good, u
    <3> QED
      BY <2>3, <3>2, <3>4, <3>5 DEF u
  <2>5. CASE x \notin C
    <3>1. B \union ((V \union {x}) \cap C) = S
      BY <2>5
    <3>2. Good(t, V \union {x})
      BY <2>1, <3>1
    <3>3. u = t
      BY <2>2, <2>5
    <3> HIDE DEF Good, u
    <3> QED
      BY <2>1, <2>3, <3>2, <3>3 DEF u
  <2> QED
    BY <2>4, <2>5
<1>3. ScanKeeps(d, I, mode, arg)
  <2>1. \A V \in SUBSET R : I[V] \subseteq Scans(d)
    OBVIOUS
  <2> HIDE DEF I
  <2> QED
    BY <1>1, <1>2, <2>1 DEF ScanKeeps
<1>4. s \in I[{}]
  <2>1. B \union ({} \cap C) = B
    OBVIOUS
  <2>2. Good(s, {}) /\ s \in Scans(d)
    BY <2>1 DEF Whole, Begun
  <2> QED
    BY <2>2
<1> DEFINE u == Scanned(s, mode, arg)
<1>5. u \in I[R]
  <2> HIDE DEF I, u
  <2> QED
    BY <1>3, <1>4, ScannedIn DEF u, Begun
<1>6. R \cap C = C
  OBVIOUS
<1> HIDE DEF u
<1>7. Good(u, R)
  BY <1>5
<1> QED
  BY <1>6, <1>7 DEF u, Same

(* SCAN_INIT ends with the first rows of the list.                           *)
LEMMA InitScan ==
  ASSUME directory \in Directories, NEW s, Whole(directory, s), s.n = 0, Begun(s),
         \A p \in Places : s.sort[p] = p
  PROVE  LET u == Scanned(s, "INIT", 0)
         IN  /\ Window(directory, u, 1) /\ u.n = Min2(Number(directory), MaxDirEntries)
             /\ Same(u, s)
<1> DEFINE d == directory
           R == RowsOf(d)
           Lt == BelowIn(R)
           u == Scanned(s, "INIT", 0)
           t == View(u)
           F == Sorted(d)
           m == Number(d)
<1>1. /\ m \in Nat /\ F \in [1 .. m -> R] /\ \A r \in R : \E i \in 1 .. m : F[i] = r
      /\ \A i, j \in 1 .. m : <<F[i], F[j]>> \in Lt <=> i < j
      /\ StrictlyOrders(Lt, R)
  <2> HIDE DEF d, F, m, Lt
  <2> QED
    BY SortedIs, BelowTotal DEF Enumerates, d, F, m, Lt
<1>2. /\ Whole(d, u) /\ FirstOf(t, R, Lt) /\ u.sel = s.sel /\ u.temp = <<>>
  <2>1. FirstOf(View(s), {}, Lt)
    <3>1. View(s) = <<>>
      BY DEF View
    <3> QED
      BY <3>1, DirScanAssumption DEF FirstOf
  <2>2. Fresh(s)
    BY DEF Fresh
  <2>3. \A v \in Scans(d), V \in SUBSET R, x \in R :
          Take(v, "INIT", 0, x, x) = IF x \in R THEN Keep(v, x, x) ELSE v
    BY DEF Take
  <2> DEFINE E == {}
             mode == "INIT"
             arg == 0
  <2>4. E \subseteq R /\ R \subseteq R /\ E \cap R = {} /\ E \union R = R
    OBVIOUS
  <2>5. Keeps(d, mode, arg, E, R)
    BY <2>3 DEF Keeps
  <2>6. FirstOf(View(s), E, Lt)
    BY <2>1
  <2>7. d \in Directories /\ Whole(d, s) /\ Begun(s)
    OBVIOUS
  <2>9. u = Scanned(s, mode, arg)
    OBVIOUS
  <2> HIDE DEF u, E, mode, arg
  <2>8. Whole(d, u) /\ FirstOf(View(u), E \union R, Lt) /\ Same(u, s)
    BY ONLY <2>2, <2>4, <2>5, <2>6, <2>7, <2>9, KeepScan DEF R, Lt, d
  <2> QED
    BY <2>4, <2>8 DEF Same
<1>3. {F[i] : i \in 1 .. m} = R
  BY <1>1
<1>4. Len(t) = u.n /\ \A i \in 1 .. u.n : t[i] = u.table[u.sort[i - 1]]
  <2>1. u.n \in Nat
    BY <1>2 DEF Whole, Scans
  <2> HIDE DEF u
  <2> QED
    BY <2>1 DEF View
<1> HIDE DEF R, F, m, Lt, t, u
<1>5. Len(t) = Min2(m, MaxDirEntries) /\ \A i \in 1 .. Len(t) : t[i] = F[i]
  <2>1. FirstOf(t, {F[i] : i \in 1 .. m}, Lt)
    BY <1>2, <1>3
  <2> QED
    BY <1>1, <2>1, FirstOfAll DEF Min2
<1>6. 1 + u.n - 1 <= m /\ \A i \in 1 .. u.n : 1 + i - 1 = i
  BY <1>1, <1>4, <1>5, DirScanAssumption DEF Min2
<1> QED
  BY <1>2, <1>4, <1>5, <1>6 DEF Window, u, F, m, Same

(* The sorted list.                                                          *)
LEMMA ListIs ==
  ASSUME NEW d \in Directories
  PROVE  /\ Number(d) \in Nat /\ Sorted(d) \in [1 .. Number(d) -> RowsOf(d)]
         /\ \A i, j \in 1 .. Number(d) : Below(Sorted(d)[i], Sorted(d)[j]) <=> i < j
         /\ \A r \in RowsOf(d) : \E i \in 1 .. Number(d) : Sorted(d)[i] = r
         /\ StrictlyOrders(BelowIn(RowsOf(d)), RowsOf(d))
         /\ \A a, b \in RowsOf(d) : <<a, b>> \in BelowIn(RowsOf(d)) <=> Below(a, b)
<1> DEFINE R == RowsOf(d)
           F == Sorted(d)
           m == Number(d)
           Lt == BelowIn(R)
<1>1. m \in Nat /\ Enumerates(F, m, Lt, R) /\ StrictlyOrders(Lt, R)
  BY SortedIs, BelowTotal
<1>2. \A a, b \in R : <<a, b>> \in Lt <=> Below(a, b)
  BY DEF BelowIn
<1>3. /\ F \in [1 .. m -> R] /\ \A i, j \in 1 .. m : <<F[i], F[j]>> \in Lt <=> i < j
      /\ \A r \in R : \E i \in 1 .. m : F[i] = r
  BY <1>1 DEF Enumerates
<1> HIDE DEF R, F, m, Lt
<1>4. \A i, j \in 1 .. m : Below(F[i], F[j]) <=> i < j
  BY <1>2, <1>3
<1> QED
  BY <1>1, <1>2, <1>3, <1>4 DEF R, F, m, Lt

(* The first rows after row b of the list.                                   *)
LEMMA FirstAfter ==
  ASSUME NEW d \in Directories, NEW b \in 0 .. Number(d), NEW t,
         FirstOf(t, {Sorted(d)[i] : i \in b + 1 .. Number(d)}, BelowIn(RowsOf(d)))
  PROVE  /\ Len(t) = Min2(Number(d) - b, MaxDirEntries)
         /\ \A i \in 1 .. Len(t) : t[i] = Sorted(d)[b + i]
<1> DEFINE R == RowsOf(d)
           F == Sorted(d)
           m == Number(d)
           Lt == BelowIn(R)
           c == m - b
           G == [i \in 1 .. c |-> F[b + i]]
<1>1. /\ m \in Nat /\ b \in 0 .. m /\ F \in [1 .. m -> R] /\ StrictlyOrders(Lt, R)
      /\ \A i, j \in 1 .. m : <<F[i], F[j]>> \in Lt <=> i < j
  BY ListIs, SortedIs DEF Enumerates
<1> HIDE DEF R, F, m, Lt
<1>2. c \in Nat /\ \A i \in 1 .. c : b + i \in 1 .. m
  BY <1>1
<1>3. G \in [1 .. c -> R] /\ \A i \in 1 .. c : G[i] = F[b + i]
  BY <1>1, <1>2
<1>4. ASSUME NEW i \in 1 .. c, NEW j \in 1 .. c
      PROVE  <<G[i], G[j]>> \in Lt <=> i < j
  <2>1. b + i < b + j <=> i < j
    BY <1>1, <1>2
  <2> QED
    BY <1>1, <1>2, <1>3, <2>1
<1>5. {F[i] : i \in b + 1 .. m} = {G[i] : i \in 1 .. c}
  <2>1. ASSUME NEW i \in b + 1 .. m
        PROVE  \E j \in 1 .. c : G[j] = F[i]
    <3>1. i - b \in 1 .. c /\ b + (i - b) = i
      BY <1>1
    <3> QED
      BY <1>3, <3>1
  <2>2. ASSUME NEW j \in 1 .. c
        PROVE  \E i \in b + 1 .. m : G[j] = F[i]
    <3>1. b + j \in b + 1 .. m
      BY <1>1
    <3> QED
      BY <1>3, <3>1
  <2> QED
    BY <2>1, <2>2
<1>6. FirstOf(t, {G[i] : i \in 1 .. c}, Lt)
  BY <1>5 DEF F, m, Lt, R
<1> HIDE DEF c, G
<1>7. /\ Len(t) = IF c < MaxDirEntries THEN c ELSE MaxDirEntries
      /\ \A i \in 1 .. Len(t) : t[i] = G[i]
  BY <1>1, <1>2, <1>3, <1>4, <1>6, FirstOfAll
<1>8. \A i \in 1 .. Len(t) : i \in 1 .. c
  BY <1>2, <1>7, DirScanAssumption
<1> QED
  BY <1>3, <1>7, <1>8 DEF Min2, c, F, m

(* SCAN_INIT_NEXT adds the rows after the one that is there.                 *)
LEMMA InitNextScan ==
  ASSUME directory \in Directories, NEW s, NEW p, Window(directory, s, p), s.n = 1, Fresh(s),
         Begun(s)
  PROVE  LET u == Scanned(s, "INIT_NEXT", 0)
         IN  /\ Window(directory, u, p) /\ u.n = Min2(Number(directory) - p + 1, MaxDirEntries)
             /\ Same(u, s)
<1> DEFINE d == directory
           R == RowsOf(d)
           Lt == BelowIn(R)
           F == Sorted(d)
           m == Number(d)
           mode == "INIT_NEXT"
           arg == 0
           u == Scanned(s, mode, arg)
           B == {F[p]}
           C == {F[i] : i \in p + 1 .. m}
<1>1. /\ m \in Nat /\ F \in [1 .. m -> R] /\ \A r \in R : \E i \in 1 .. m : F[i] = r
      /\ \A i, j \in 1 .. m : Below(F[i], F[j]) <=> i < j
      /\ StrictlyOrders(Lt, R) /\ \A a, b \in R : <<a, b>> \in Lt <=> Below(a, b)
  BY ListIs
<1>2. Whole(d, s) /\ p \in 1 .. m /\ s.n = 1 /\ s.table[s.sort[0]] = F[p]
  <2>1. /\ Whole(d, s) /\ p \in Nat \ {0} /\ p + s.n - 1 <= m
        /\ \A i \in 1 .. s.n : s.table[s.sort[i - 1]] = F[p + i - 1]
    BY DEF Window
  <2> HIDE DEF F, m
  <2>2. 1 \in 1 .. s.n /\ 1 - 1 = 0 /\ p + 1 - 1 = p
    BY <2>1
  <2>3. s.table[s.sort[1 - 1]] = F[p + 1 - 1]
    BY <2>1, <2>2
  <2> QED
    BY <1>1, <2>1, <2>2, <2>3
<1> HIDE DEF F, m, Lt
<1>3. B \subseteq R /\ C \subseteq R /\ B \cap C = {}
  <2>1. \A i \in p + 1 .. m : i \in 1 .. m /\ p < i /\ ~(p < p)
    BY <1>1, <1>2
  <2> HIDE DEF R
  <2> QED
    BY <1>1, <1>2, <2>1
<1>4. \A x \in R : x \in C <=> Below(F[p], x)
  <2>1. \A i \in 1 .. m : i \in p + 1 .. m <=> p < i
    BY <1>1, <1>2
  <2>2. \A i \in p + 1 .. m : i \in 1 .. m
    BY <1>1, <1>2
  <2> HIDE DEF R
  <2> QED
    BY <1>1, <1>2, <2>1, <2>2
<1>5. FirstOf(View(s), B, Lt)
  <2> DEFINE t == View(s)
  <2>1. t = [i \in 1 .. 1 |-> s.table[s.sort[i - 1]]]
    BY <1>2 DEF View
  <2>2. \A i \in 1 .. 1 : i = 1 /\ i - 1 = 0
    OBVIOUS
  <2>3. t[1] = F[p]
    BY <1>2, <2>1, <2>2
  <2> HIDE DEF t
  <2>4. t = [i \in 1 .. 1 |-> F[p]]
    BY <1>2, <2>1, <2>2
  <2>5. t \in Seq(B) /\ Len(t) = 1
    BY <2>4
  <2> QED
    BY <2>2, <2>3, <2>5, DirScanAssumption DEF FirstOf, t
<1>6. Keeps(d, mode, arg, B, C)
  <2> SUFFICES ASSUME NEW t \in Scans(d), NEW V \in SUBSET R, NEW x \in R,
                      FirstOf(View(t), B \union (V \cap C), Lt)
               PROVE  Take(t, mode, arg, x, x) = IF x \in C THEN Keep(t, x, x) ELSE t
    BY DEF Keeps, Lt
  <2> DEFINE v == View(t)
             S == B \union (V \cap C)
  <2>1. /\ v \in Seq(S) /\ Len(v) <= MaxDirEntries
        /\ \A i, j \in 1 .. Len(v) : i < j => <<v[i], v[j]>> \in Lt
        /\ \A r \in S : \/ \E i \in 1 .. Len(v) : v[i] = r
                        \/ Len(v) = MaxDirEntries /\ <<v[MaxDirEntries], r>> \in Lt
    BY DEF FirstOf
  <2>2. \A r \in S : <<r, F[p]>> \notin Lt
    <3>1. \A r \in S : r \in R /\ (r = F[p] \/ Below(F[p], r))
      BY <1>3, <1>4
    <3> HIDE DEF S, R
    <3> QED
      BY <1>1, <1>2, <3>1 DEF StrictlyOrders
  <2>3. F[p] \in S
    OBVIOUS
  <2> HIDE DEF S, v, R
  <2>4. \A i \in 1 .. Len(v) : v[i] \in S
    BY <2>1
  <2>5. MaxDirEntries \in Nat /\ MaxDirEntries > 1
    BY DirScanAssumption
  <2>6. PICK i \in 1 .. Len(v) : v[i] = F[p]
    <3>1. ~(Len(v) = MaxDirEntries /\ <<v[MaxDirEntries], F[p]>> \in Lt)
      <4>1. Len(v) = MaxDirEntries => MaxDirEntries \in 1 .. Len(v)
        BY <2>5
      <4> QED
        BY <2>2, <2>4, <4>1
    <3> QED
      BY <2>1, <2>3, <3>1
  <2>7. 1 \in 1 .. Len(v) /\ (i # 1 => 1 < i)
    BY <2>1, <2>6
  <2>8. i = 1
    BY <2>1, <2>2, <2>4, <2>6, <2>7
  <2>9. FirstRow(t) = F[p]
    <3>1. v = [j \in 1 .. t.n |-> t.table[t.sort[j - 1]]]
      BY DEF View, v
    <3>2. t.n \in Nat
      BY DEF Scans
    <3>3. 1 \in 1 .. t.n /\ 1 - 1 = 0
      BY <2>7, <3>1, <3>2
    <3>4. v[1] = t.table[t.sort[0]]
      BY <3>1, <3>3
    <3> QED
      BY <2>6, <2>8, <3>4 DEF FirstRow
  <2> QED
    BY <1>4, <2>9 DEF Take
<1>7. d \in Directories /\ u = Scanned(s, mode, arg)
  OBVIOUS
<1> HIDE DEF mode, arg, u, B, C
<1>8. Whole(d, u) /\ FirstOf(View(u), B \union C, Lt) /\ Same(u, s)
  BY ONLY <1>2, <1>3, <1>5, <1>6, <1>7, Fresh(s), Begun(s), KeepScan DEF R, Lt, d
<1> DEFINE t == View(u)
           b == p - 1
<1>9. B \union C = {F[i] : i \in b + 1 .. m}
  <2>1. /\ \A i \in p + 1 .. m : i \in b + 1 .. m
        /\ \A i \in b + 1 .. m : i = p \/ i \in p + 1 .. m
        /\ p \in b + 1 .. m
    BY <1>1, <1>2
  <2> QED
    BY <2>1 DEF B, C
<1>10. b \in 0 .. m /\ m - b = m - p + 1
  BY <1>1, <1>2
<1>11. Len(t) = u.n /\ \A i \in 1 .. u.n : t[i] = u.table[u.sort[i - 1]]
  <2>1. u.n \in Nat
    BY <1>8 DEF Whole, Scans
  <2> QED
    BY <2>1 DEF View
<1> HIDE DEF t, b
<1>12. /\ Len(t) = Min2(m - b, MaxDirEntries) /\ \A i \in 1 .. Len(t) : t[i] = F[b + i]
  <2>1. FirstOf(t, {F[i] : i \in b + 1 .. m}, Lt)
    BY <1>8, <1>9 DEF t
  <2> QED
    BY <1>7, <1>10, <2>1, FirstAfter DEF F, m, Lt, R
<1>13. p + u.n - 1 <= m /\ p \in Nat \ {0} /\ \A i \in 1 .. u.n : b + i = p + i - 1
  BY <1>1, <1>2, <1>11, <1>12, DirScanAssumption DEF Min2, b
<1> QED
  BY <1>8, <1>10, <1>11, <1>12, <1>13 DEF Window, u, F, m, mode, arg

(* A page and a search collect the first rows of C in the temporary table.   *)
Unmoved(u, s) == u.table = s.table /\ u.sort = s.sort /\ u.n = s.n /\ u.sel = s.sel

Picks(d, mode, arg, C, down, s) ==
  \A t \in Scans(d), x \in RowsOf(d) :
    Unmoved(t, s) =>
      Take(t, mode, arg, x, x) =
        IF x \in C THEN [t EXCEPT !.temp = KeepTemp(@, x, x, down)] ELSE t

(* A scan into the temporary table ends with the first rows of those that    *)
(* its mode picks.                                                           *)
LEMMA TempScan ==
  ASSUME directory \in Directories, NEW mode, NEW arg, NEW down \in BOOLEAN,
         NEW C, C \subseteq RowsOf(directory),
         NEW s, Whole(directory, s), Begun(s), Picks(directory, mode, arg, C, down, s)
  PROVE  LET u == Scanned(s, mode, arg)
         IN  /\ Whole(directory, u) /\ Unmoved(u, s)
             /\ FirstOf(u.temp, C, BeforeIn(RowsOf(directory), down))
<1> DEFINE d == directory
           R == RowsOf(d)
           Lt == BeforeIn(R, down)
           Good(t, V) == Unmoved(t, s) /\ FirstOf(t.temp, V \cap C, Lt)
           I == [V \in SUBSET R |-> {t \in Scans(d) : Good(t, V)}]
<1>1. ASSUME NEW V \in SUBSET R, NEW t \in I[V], NEW l \in Lfns
      PROVE  [t EXCEPT !.lfn = l] \in I[V]
  <2> DEFINE u == [t EXCEPT !.lfn = l]
  <2>1. t \in Scans(d) /\ Good(t, V)
    BY <1>1
  <2>2. /\ u \in Scans(d) /\ u.table = t.table /\ u.sort = t.sort /\ u.n = t.n
        /\ u.sel = t.sel /\ u.temp = t.temp
    BY <2>1, WithLfn
  <2> HIDE DEF u
  <2>3. Good(u, V)
    BY <2>1, <2>2 DEF Unmoved
  <2> HIDE DEF Good
  <2> QED
    BY <2>2, <2>3 DEF u
<1>2. ASSUME NEW V \in SUBSET R, NEW x \in R \ V, NEW t \in I[V]
      PROVE  /\ Take(t, mode, arg, x, x) \in I[V \union {x}]
             /\ Take(t, mode, arg, x, x).lfn = t.lfn
  <2> DEFINE u == Take(t, mode, arg, x, x)
             S == V \cap C
             k == KeepTemp(t.temp, x, x, down)
             v == [t EXCEPT !.temp = k]
  <2>1. t \in Scans(d) /\ Good(t, V)
    BY <1>2
  <2>2. u = IF x \in C THEN v ELSE t
    BY <2>1 DEF Picks
  <2>3. V \union {x} \in SUBSET R
    OBVIOUS
  <2>4. CASE x \in C
    <3>1. S \in SUBSET R /\ x \in R \ S
      BY <2>4
    <3>2. FirstOf(k, S \union {x}, Lt)
      <4>1. d \in Directories /\ FirstOf(t.temp, S, Lt)
        BY <2>1
      <4> HIDE DEF S, k
      <4> QED
        BY <3>1, <4>1, KeepTempIs DEF k
    <3>3. S \union {x} = (V \union {x}) \cap C
      BY <2>4
    <3>4. k \in Seq(R)
      <4>1. S \union {x} \subseteq R /\ k \in Seq(S \union {x})
        BY <3>1, <3>2 DEF FirstOf
      <4> HIDE DEF S, k
      <4> QED
        BY <4>1
    <3> HIDE DEF k, S
    <3>5. /\ v \in Scans(d) /\ v.table = t.table /\ v.sort = t.sort /\ v.n = t.n
          /\ v.sel = t.sel /\ v.temp = k /\ v.lfn = t.lfn
      BY <2>1, <3>4 DEF Scans
    <3> HIDE DEF v
    <3>6. Good(v, V \union {x})
      BY <2>1, <3>2, <3>3, <3>5 DEF Unmoved
    <3>7. u = v
      BY <2>2, <2>4
    <3> HIDE DEF Good, u
    <3> QED
      BY <2>3, <3>5, <3>6, <3>7 DEF u
  <2>5. CASE x \notin C
    <3>1. (V \union {x}) \cap C = S
      BY <2>5
    <3>2. Good(t, V \union {x})
      BY <2>1, <3>1
    <3>3. u = t
      BY <2>2, <2>5
    <3> HIDE DEF Good, u
    <3> QED
      BY <2>1, <2>3, <3>2, <3>3 DEF u
  <2> QED
    BY <2>4, <2>5
<1>3. ScanKeeps(d, I, mode, arg)
  <2>1. \A V \in SUBSET R : I[V] \subseteq Scans(d)
    OBVIOUS
  <2> HIDE DEF I
  <2> QED
    BY <1>1, <1>2, <2>1 DEF ScanKeeps
<1>4. s \in I[{}]
  <2>1. FirstOf(s.temp, {}, Lt)
    <3>1. s.temp = <<>>
      BY DEF Begun
    <3> QED
      BY <3>1, DirScanAssumption DEF FirstOf
  <2>2. {} \cap C = {}
    OBVIOUS
  <2>3. Good(s, {}) /\ s \in Scans(d)
    BY <2>1, <2>2 DEF Whole, Unmoved
  <2> QED
    BY <2>3
<1> DEFINE u == Scanned(s, mode, arg)
<1>5. u \in I[R]
  <2> HIDE DEF I, u
  <2> QED
    BY <1>3, <1>4, ScannedIn DEF u, Begun
<1>6. R \cap C = C
  OBVIOUS
<1> HIDE DEF u
<1>7. Good(u, R) /\ u \in Scans(d)
  BY <1>5
<1> QED
  BY <1>6, <1>7 DEF u, Unmoved, Whole

(* The last rows before row p of the list, in reverse.                       *)
LEMMA FirstBefore ==
  ASSUME NEW d \in Directories, NEW p \in 1 .. Number(d), NEW t,
         FirstOf(t, {Sorted(d)[i] : i \in 1 .. p - 1}, BeforeIn(RowsOf(d), FALSE))
  PROVE  /\ Len(t) = Min2(p - 1, MaxDirEntries)
         /\ \A i \in 1 .. Len(t) : t[i] = Sorted(d)[p - i]
<1> DEFINE R == RowsOf(d)
           F == Sorted(d)
           m == Number(d)
           Lt == BeforeIn(R, FALSE)
           c == p - 1
           G == [i \in 1 .. c |-> F[p - i]]
<1>1. /\ m \in Nat /\ p \in 1 .. m /\ F \in [1 .. m -> R] /\ StrictlyOrders(Lt, R)
      /\ \A i, j \in 1 .. m : <<F[i], F[j]>> \in Lt <=> j < i
  <2>1. /\ m \in Nat /\ F \in [1 .. m -> R] /\ \A i, j \in 1 .. m : Below(F[i], F[j]) <=> i < j
    BY ListIs
  <2>2. StrictlyOrders(Lt, R) /\ \A a, b \in R : <<a, b>> \in Lt <=> Below(b, a)
    BY BeforeOrders DEF Before
  <2> HIDE DEF R, F, m, Lt
  <2>3. \A i \in 1 .. m : F[i] \in R
    BY <2>1
  <2> QED
    BY <2>1, <2>2, <2>3 DEF m
<1> HIDE DEF R, F, m, Lt
<1>2. c \in Nat /\ \A i \in 1 .. c : p - i \in 1 .. m
  BY <1>1
<1>3. G \in [1 .. c -> R] /\ \A i \in 1 .. c : G[i] = F[p - i]
  BY <1>1, <1>2
<1>4. ASSUME NEW i \in 1 .. c, NEW j \in 1 .. c
      PROVE  <<G[i], G[j]>> \in Lt <=> i < j
  <2>1. p - j < p - i <=> i < j
    BY <1>1, <1>2
  <2> QED
    BY <1>1, <1>2, <1>3, <2>1
<1>5. {F[i] : i \in 1 .. p - 1} = {G[i] : i \in 1 .. c}
  <2>1. ASSUME NEW i \in 1 .. p - 1
        PROVE  \E j \in 1 .. c : G[j] = F[i]
    <3>1. p - i \in 1 .. c /\ p - (p - i) = i
      BY <1>1
    <3> QED
      BY <1>3, <3>1
  <2>2. ASSUME NEW j \in 1 .. c
        PROVE  \E i \in 1 .. p - 1 : G[j] = F[i]
    <3>1. p - j \in 1 .. p - 1
      BY <1>1
    <3> QED
      BY <1>3, <3>1
  <2> QED
    BY <2>1, <2>2
<1>6. FirstOf(t, {G[i] : i \in 1 .. c}, Lt)
  BY <1>5 DEF F, Lt, R
<1> HIDE DEF c, G
<1>7. /\ Len(t) = IF c < MaxDirEntries THEN c ELSE MaxDirEntries
      /\ \A i \in 1 .. Len(t) : t[i] = G[i]
  BY <1>1, <1>2, <1>3, <1>4, <1>6, FirstOfAll
<1>8. \A i \in 1 .. Len(t) : i \in 1 .. c
  BY <1>2, <1>7, DirScanAssumption
<1> QED
  BY <1>3, <1>7, <1>8 DEF Min2, c, F

(* The rows of a window, as numbers.                                         *)
LEMMA WindowIs ==
  ASSUME NEW d \in Directories, NEW s, NEW p, Window(d, s, p)
  PROVE  /\ MaxDirEntries \in Nat /\ MaxDirEntries > 1 /\ Places = 0 .. MaxDirEntries - 1
         /\ s \in Scans(d) /\ s.n \in 0 .. MaxDirEntries /\ p \in Nat \ {0} /\ Number(d) \in Nat
         /\ p + s.n - 1 <= Number(d) /\ s.sort \in Injections
         /\ \A x \in 0 .. s.n - 1 : s.table[s.sort[x]] = Sorted(d)[p + x]
         /\ s.n # 0 => FirstRow(s) = Sorted(d)[p] /\ p \in 1 .. Number(d)
         /\ s.n = MaxDirEntries => LastRow(s) = Sorted(d)[p + MaxDirEntries - 1]
<1> DEFINE F == Sorted(d)
           m == Number(d)
           n == s.n
           M == MaxDirEntries
<1>1. /\ M \in Nat /\ M > 1 /\ Places = 0 .. M - 1
      /\ s \in Scans(d) /\ n \in 0 .. M /\ p \in Nat \ {0} /\ m \in Nat
      /\ p + n - 1 <= m
      /\ \A i \in 1 .. n : s.table[s.sort[i - 1]] = F[p + i - 1]
  BY DirScanAssumption, ListIs DEF Window, Whole, Scans, Places
<1>2. s.sort \in Injections
  BY DEF Window, Whole, Scans, Injections
<1> HIDE DEF F, m, n, M
<1>3. ASSUME NEW x \in 0 .. n - 1
      PROVE  s.table[s.sort[x]] = F[p + x]
  <2>1. x + 1 \in 1 .. n /\ (x + 1) - 1 = x /\ p + (x + 1) - 1 = p + x
    BY <1>1
  <2>2. s.table[s.sort[(x + 1) - 1]] = F[p + (x + 1) - 1]
    BY <1>1, <2>1
  <2> QED
    BY <2>1, <2>2
<1>4. n # 0 => 0 \in 0 .. n - 1 /\ p + 0 = p /\ p \in 1 .. m
  BY <1>1
<1>5. n = M => M - 1 \in 0 .. n - 1 /\ p + (M - 1) = p + M - 1
  BY <1>1
<1>6. n # 0 => FirstRow(s) = F[p]
  BY <1>3, <1>4 DEF FirstRow
<1>7. n = M => LastRow(s) = F[p + M - 1]
  BY <1>3, <1>5 DEF LastRow, M
<1> QED
  BY <1>1, <1>2, <1>3, <1>4, <1>6, <1>7 DEF F, m, n, M

(* The other way round: what makes a window.                                 *)
LEMMA WindowMade ==
  ASSUME NEW d \in Directories, NEW s, NEW p, Whole(d, s), p \in Nat \ {0},
         p + s.n - 1 <= Number(d),
         \A x \in 0 .. s.n - 1 : s.table[s.sort[x]] = Sorted(d)[p + x]
  PROVE  Window(d, s, p)
<1> DEFINE F == Sorted(d)
           n == s.n
<1>1. n \in Nat
  BY DEF Whole, Scans
<1>2. ASSUME NEW i \in 1 .. n
      PROVE  s.table[s.sort[i - 1]] = F[p + i - 1]
  <2>1. i - 1 \in 0 .. n - 1 /\ p + (i - 1) = p + i - 1
    BY <1>1
  <2> QED
    BY <2>1
<1> QED
  BY <1>2 DEF Window

(* SCAN_NEXT_PAGE moves the window down by a page, or to the end.            *)
LEMMA NextPageScan ==
  ASSUME directory \in Directories, NEW s, NEW p, Window(directory, s, p),
         s.n = MaxDirEntries, Begun(s)
  PROVE  LET u == Finish(Scanned(s, "NEXT_PAGE", 0), "NEXT_PAGE", 0)
             k == Min2(MaxDirEntries, Number(directory) - (p + MaxDirEntries - 1))
         IN  Window(directory, u, p + k) /\ u.n = s.n /\ u.sel = s.sel
<1> DEFINE d == directory
           R == RowsOf(d)
           F == Sorted(d)
           m == Number(d)
           M == MaxDirEntries
           mode == "NEXT_PAGE"
           arg == 0
           down == TRUE
           v == Scanned(s, mode, arg)
           t == v.temp
           u == Finish(v, mode, arg)
           b == p + M - 1
           k == Len(t)
           C == {F[i] : i \in b + 1 .. m}
<1>1. /\ m \in Nat /\ F \in [1 .. m -> R] /\ \A r \in R : \E i \in 1 .. m : F[i] = r
      /\ \A i, j \in 1 .. m : Below(F[i], F[j]) <=> i < j
  BY ListIs
<1>2. /\ M \in Nat /\ M > 1 /\ Places = 0 .. M - 1 /\ s.n = M /\ p \in Nat \ {0}
      /\ p + M - 1 <= m /\ s.sort \in Injections
      /\ \A x \in 0 .. M - 1 : s.table[s.sort[x]] = F[p + x]
      /\ LastRow(s) = F[b]
  BY WindowIs
<1>3. Whole(d, s) /\ d \in Directories
  BY DEF Window
<1> HIDE DEF F, m, M
<1>4. b \in 1 .. m /\ b \in 0 .. m
  BY <1>1, <1>2
<1>5. C \subseteq R /\ \A x \in R : x \in C <=> Below(F[b], x)
  <2> HIDE DEF b, R
  <2>1. \A i \in 1 .. m : i \in b + 1 .. m <=> b < i
    BY <1>1, <1>4
  <2>2. \A i \in b + 1 .. m : i \in 1 .. m
    BY <1>1, <1>4
  <2> QED
    BY <1>1, <1>4, <2>1, <2>2
<1> HIDE DEF C
<1>6. Picks(d, mode, arg, C, down, s)
  <2> SUFFICES ASSUME NEW w \in Scans(d), NEW x \in R, Unmoved(w, s)
               PROVE  Take(w, mode, arg, x, x) =
                        IF x \in C THEN [w EXCEPT !.temp = KeepTemp(@, x, x, down)] ELSE w
    BY DEF Picks
  <2>1. LastRow(w) = F[b]
    BY <1>2 DEF LastRow, Unmoved
  <2> QED
    BY <1>5, <2>1 DEF Take
<1> HIDE DEF mode, arg, down, v, t, u, k
<1>7. Whole(d, v) /\ Unmoved(v, s) /\ FirstOf(t, C, BeforeIn(R, down))
  <2>1. C \subseteq RowsOf(directory) /\ down \in BOOLEAN
    BY <1>5 DEF down
  <2> QED
    BY ONLY <1>3, <1>6, <2>1, Begun(s), TempScan DEF d, R, v, t
<1>8. k = Min2(m - b, M) /\ \A i \in 1 .. k : t[i] = F[b + i]
  <2>1. BeforeIn(R, down) = BelowIn(R)
    BY DEF BeforeIn, BelowIn, Before, down
  <2>2. FirstOf(t, {F[i] : i \in b + 1 .. m}, BelowIn(R))
    BY <1>7, <2>1 DEF C
  <2> QED
    BY <1>3, <1>4, <2>2, FirstAfter DEF F, m, M, R, k
<1>9. k \in 0 .. M /\ k <= m - b /\ k = Min2(M, m - b)
  BY <1>1, <1>2, <1>4, <1>8 DEF Min2
<1>10. /\ v \in Scans(d) /\ v.n = M /\ v.sort = s.sort /\ v.table = s.table /\ v.sel = s.sel
  BY <1>2, <1>7 DEF Whole, Unmoved
<1>11. CASE k = 0
  <2>1. u = v
    BY <1>11 DEF Finish, u, k, t
  <2>2. Window(d, v, p)
    BY <1>7 DEF Window, Unmoved
  <2>3. p + k = p
    BY <1>2, <1>11
  <2> QED
    BY <1>2, <1>9, <1>10, <2>1, <2>2, <2>3 DEF u, v, mode, arg, m, M
<1>12. CASE k # 0
  <2> DEFINE f == ShiftUp(v.sort, k)
  <2>1. u = CopyTemp(v, f, M - k)
    BY <1>12 DEF Finish, u, k, t, mode, M
  <2>2. k \in 1 .. M /\ M - k \in Nat /\ (M - k) + k <= M
    BY <1>2, <1>9, <1>12
  <2>3. f \in Injections /\ \A x \in 0 .. M - k - 1 : f[x] = v.sort[x + k]
    BY <1>2, <1>10, <2>2, ShiftUpIs DEF M
  <2> HIDE DEF f
  <2>4. /\ Whole(d, u) /\ u.sort = f /\ u.n = v.n /\ u.sel = v.sel
        /\ \A i \in 1 .. k : u.table[f[(M - k) + i - 1]] = t[i]
        /\ \A x \in Places : x < M - k \/ x >= (M - k) + k => u.table[f[x]] = v.table[f[x]]
    BY <1>3, <1>10, <2>1, <2>2, <2>3, CopyTempIs DEF k, t, M
  <2>5. ASSUME NEW x \in 0 .. M - 1
        PROVE  u.table[u.sort[x]] = F[(p + k) + x]
    <3>1. CASE x < M - k
      <4>1. /\ x \in 0 .. M - k - 1 /\ x + k \in 0 .. M - 1 /\ x \in Places
            /\ p + (x + k) = (p + k) + x
        BY <1>2, <2>2, <3>1
      <4>2. u.table[f[x]] = v.table[f[x]]
        BY <2>4, <3>1, <4>1
      <4>3. f[x] = v.sort[x + k]
        BY <2>3, <4>1
      <4>4. s.table[s.sort[x + k]] = F[p + (x + k)]
        BY <1>2, <4>1
      <4> QED
        BY <1>10, <2>4, <4>1, <4>2, <4>3, <4>4
    <3>2. CASE x >= M - k
      <4> DEFINE i == x - (M - k) + 1
      <4>1. i \in 1 .. k /\ (M - k) + i - 1 = x /\ b + i = (p + k) + x
        <5>1. k \in Int /\ M \in Int /\ p \in Int /\ x \in Int /\ x <= M - 1
          BY <1>2, <2>2
        <5>2. i \in 1 .. k
          BY <3>2, <5>1
        <5> QED
          BY <5>1, <5>2
      <4> HIDE DEF i
      <4>2. u.table[f[(M - k) + i - 1]] = t[i] /\ t[i] = F[b + i]
        BY <1>8, <2>4, <4>1
      <4> QED
        BY <2>4, <4>1, <4>2
    <3> QED
      BY <1>2, <2>2, <3>1, <3>2
  <2>6. p + k \in Nat \ {0} /\ (p + k) + M - 1 <= m
    BY <1>1, <1>2, <1>9
  <2>7. u.n = M
    BY <1>10, <2>4
  <2>8. Window(d, u, p + k)
    BY <1>3, <2>4, <2>5, <2>6, <2>7, WindowMade DEF F, m
  <2> QED
    BY <1>2, <1>9, <1>10, <2>4, <2>7, <2>8 DEF u, v, mode, arg, m, M
<1> QED
  BY <1>11, <1>12

(* SCAN_PREV_PAGE moves it up by a page, or to the top, and fills it.        *)
LEMMA PrevPageScan ==
  ASSUME directory \in Directories, NEW s, NEW p, Window(directory, s, p), s.n # 0, Begun(s)
  PROVE  LET u == Finish(Scanned(s, "PREV_PAGE", 0), "PREV_PAGE", 0)
             k == Min2(MaxDirEntries, p - 1)
         IN  Window(directory, u, p - k) /\ u.n = Min2(s.n + k, MaxDirEntries) /\ u.sel = s.sel
<1> DEFINE d == directory
           R == RowsOf(d)
           F == Sorted(d)
           m == Number(d)
           M == MaxDirEntries
           n == s.n
           mode == "PREV_PAGE"
           arg == 0
           down == FALSE
           v == Scanned(s, mode, arg)
           t == v.temp
           u == Finish(v, mode, arg)
           k == Len(t)
           C == {F[i] : i \in 1 .. p - 1}
<1>1. /\ m \in Nat /\ F \in [1 .. m -> R] /\ \A r \in R : \E i \in 1 .. m : F[i] = r
      /\ \A i, j \in 1 .. m : Below(F[i], F[j]) <=> i < j
  BY ListIs
<1>2. /\ M \in Nat /\ M > 1 /\ Places = 0 .. M - 1 /\ n \in 0 .. M /\ n # 0 /\ p \in Nat \ {0}
      /\ p + n - 1 <= m /\ s.sort \in Injections
      /\ \A x \in 0 .. n - 1 : s.table[s.sort[x]] = F[p + x]
      /\ FirstRow(s) = F[p] /\ p \in 1 .. m
  BY WindowIs
<1>3. Whole(d, s) /\ d \in Directories
  BY DEF Window
<1> HIDE DEF F, m, M, n
<1>4. p - 1 \in 0 .. m /\ \A i \in 1 .. p - 1 : i \in 1 .. m
  BY <1>1, <1>2
<1>5. C \subseteq R /\ \A x \in R : x \in C <=> Below(x, F[p])
  <2> HIDE DEF R
  <2>1. \A i \in 1 .. m : i \in 1 .. p - 1 <=> i < p
    BY <1>1, <1>2
  <2> QED
    BY <1>1, <1>2, <1>4, <2>1
<1> HIDE DEF C
<1>6. Picks(d, mode, arg, C, down, s)
  <2> SUFFICES ASSUME NEW w \in Scans(d), NEW x \in R, Unmoved(w, s)
               PROVE  Take(w, mode, arg, x, x) =
                        IF x \in C THEN [w EXCEPT !.temp = KeepTemp(@, x, x, down)] ELSE w
    BY DEF Picks
  <2>1. FirstRow(w) = F[p]
    BY <1>2 DEF FirstRow, Unmoved
  <2> QED
    BY <1>5, <2>1 DEF Take
<1> HIDE DEF mode, arg, down, v, t, u, k
<1>7. Whole(d, v) /\ Unmoved(v, s) /\ FirstOf(t, C, BeforeIn(R, down))
  <2>1. C \subseteq RowsOf(directory) /\ down \in BOOLEAN
    BY <1>5 DEF down
  <2> QED
    BY ONLY <1>3, <1>6, <2>1, Begun(s), TempScan DEF d, R, v, t
<1>8. k = Min2(p - 1, M) /\ \A i \in 1 .. k : t[i] = F[p - i]
  <2>1. FirstOf(t, {F[i] : i \in 1 .. p - 1}, BeforeIn(R, FALSE))
    BY <1>7 DEF C, down
  <2> QED
    BY <1>2, <1>3, <2>1, FirstBefore, ZenonT(60) DEF F, m, M, R, k
<1>9. k \in 0 .. M /\ k <= p - 1 /\ k = Min2(M, p - 1)
  BY <1>1, <1>2, <1>4, <1>8 DEF Min2
<1>10. v \in Scans(d) /\ v.n = n /\ v.sort = s.sort /\ v.table = s.table /\ v.sel = s.sel
  BY <1>2, <1>7 DEF Whole, Unmoved, n
<1>11. CASE k = 0
  <2>1. u = v
    BY <1>11 DEF Finish, u, k, t
  <2>2. Window(d, v, p)
    BY <1>7 DEF Window, Unmoved
  <2>3. p - k = p /\ n = Min2(n + k, M)
    BY <1>2, <1>11 DEF Min2
  <2> QED
    BY <1>2, <1>9, <1>10, <2>1, <2>2, <2>3 DEF u, v, mode, arg, n, M
<1>12. CASE k # 0
  <2> DEFINE f == ShiftDown(v.sort, k)
             w == [v EXCEPT !.temp = Reverse(@)]
             z == CopyTemp(w, f, 0)
             e == IF z.n + k > M THEN M ELSE z.n + k
  <2>1. u = [z EXCEPT !.n = e]
    <3>1. u = [z EXCEPT !.n = IF @ + Len(v.temp) > MaxDirEntries THEN MaxDirEntries
                              ELSE @ + Len(v.temp)]
      BY <1>12 DEF Finish, u, k, t, mode
    <3>2. z \in Scans(d) => u = [z EXCEPT !.n = e]
      <4> HIDE DEF z
      <4> QED
        BY <3>1 DEF k, t, M, Scans
    <3> QED
      BY <3>1 DEF k, t, M
  <2>2. k \in 1 .. M /\ 0 + k <= M /\ 0 \in Nat
    BY <1>2, <1>9, <1>12
  <2>3. f \in Injections /\ \A x \in k .. M - 1 : f[x] = v.sort[x - k]
    BY <1>2, <1>10, <2>2, ShiftDownIs DEF M
  <2>4. /\ t \in Seq(R) /\ Reverse(t) \in Seq(R) /\ Len(Reverse(t)) = k
        /\ \A i \in 1 .. k : Reverse(t)[i] = t[k - i + 1]
    <3>1. t \in Seq(R) /\ k \in Nat
      BY <1>10, <2>2 DEF Scans, t
    <3>2. Reverse(t) = [i \in 1 .. k |-> t[(k - i) + 1]]
      BY DEF Reverse, k
    <3>3. \A i \in 1 .. k : (k - i) + 1 \in 1 .. k /\ t[(k - i) + 1] \in R
      BY <3>1 DEF k
    <3> QED
      BY <3>1, <3>2, <3>3
  <2>5. /\ w \in Scans(d) /\ w.table = v.table /\ w.n = n /\ w.sel = s.sel /\ w.temp = Reverse(t)
    BY <1>10, <2>4 DEF Scans, t
  <2> HIDE DEF f, w
  <2>6. /\ Whole(d, z) /\ z.sort = f /\ z.n = n /\ z.sel = s.sel
        /\ \A i \in 1 .. k : z.table[f[0 + i - 1]] = w.temp[i]
        /\ \A x \in Places : x < 0 \/ x >= 0 + k => z.table[f[x]] = w.table[f[x]]
    <3>1. Len(w.temp) = k /\ 0 + Len(w.temp) <= MaxDirEntries
      BY <2>2, <2>4, <2>5 DEF M
    <3> QED
      BY <1>3, <2>2, <2>3, <2>5, <3>1, CopyTempIs
  <2>7. e \in 0 .. M /\ e = Min2(n + k, M)
    BY <1>2, <1>9, <2>6 DEF Min2
  <2> HIDE DEF z, e
  <2>8. u \in Scans(d) /\ u.sort = f /\ u.table = z.table /\ u.n = e /\ u.sel = s.sel
    <3>1. z \in Scans(d)
      BY <2>6 DEF Whole
    <3> QED
      BY <2>1, <2>6, <2>7, <3>1 DEF Scans, M
  <2>9. Whole(d, u)
    BY <2>3, <2>8 DEF Whole, Injections
  <2>10. ASSUME NEW x \in 0 .. e - 1
         PROVE  u.table[u.sort[x]] = F[(p - k) + x]
    <3>1. x \in Places /\ x \in Nat /\ x < n + k
      BY <1>2, <1>9, <2>7 DEF Min2
    <3>2. CASE x < k
      <4> DEFINE i == x + 1
                 j == k - i + 1
      <4>1. i \in 1 .. k /\ 0 + i - 1 = x /\ j \in 1 .. k /\ p - j = (p - k) + x
        BY <1>2, <2>2, <3>1, <3>2
      <4> HIDE DEF i
      <4>2. z.table[f[0 + i - 1]] = t[j]
        BY <2>4, <2>5, <2>6, <4>1, SMTT(30)
      <4> HIDE DEF j
      <4>3. t[j] = F[p - j]
        BY <1>8, <4>1
      <4> QED
        BY <2>8, <4>1, <4>2, <4>3
    <3>3. CASE x >= k
      <4>1. /\ x \in k .. M - 1 /\ x - k \in 0 .. n - 1 /\ p + (x - k) = (p - k) + x
            /\ x >= 0 + k
        BY <1>2, <2>2, <3>1, <3>3
      <4>2. z.table[f[x]] = w.table[f[x]]
        BY <2>6, <3>1, <4>1
      <4>3. f[x] = v.sort[x - k]
        BY <2>3, <4>1
      <4>4. s.table[s.sort[x - k]] = F[p + (x - k)]
        BY <1>2, <4>1
      <4> QED
        BY <1>10, <2>5, <2>8, <4>1, <4>2, <4>3, <4>4
    <3> QED
      BY <2>2, <3>1, <3>2, <3>3
  <2>11. p - k \in Nat \ {0} /\ (p - k) + e - 1 <= m
    BY <1>1, <1>2, <1>9, <2>7 DEF Min2
  <2>12. Window(d, u, p - k)
    BY <1>3, <2>8, <2>9, <2>10, <2>11, WindowMade DEF F, m
  <2> QED
    BY <1>2, <1>9, <2>7, <2>8, <2>12 DEF u, v, mode, arg, n, M
<1> QED
  BY <1>11, <1>12

(* What a search takes as candidates ends the list, from some row on.        *)
Wants(x, letter, seek, from) ==
  CASE seek = "file" -> Letter(x) >= letter /\ ~IsDir(x)
    [] seek = "dir"  -> Letter(x) >= letter \/ ~IsDir(x)
    [] seek = "next" -> Below(from, x)

(* A set of rows that has, with a row, all those above it ends the list.     *)
LEMMA UpFrom ==
  ASSUME NEW d \in Directories, NEW C, C \subseteq RowsOf(d),
         \A a \in C, x \in RowsOf(d) : Below(a, x) => x \in C
  PROVE  \E b \in 0 .. Number(d) :
           /\ C = {Sorted(d)[i] : i \in b + 1 .. Number(d)}
           /\ \A i \in 1 .. Number(d) : Sorted(d)[i] \in C <=> b < i
<1> DEFINE R == RowsOf(d)
           F == Sorted(d)
           m == Number(d)
           T == {i \in 1 .. m : F[i] \in C}
<1>1. /\ m \in Nat /\ F \in [1 .. m -> R] /\ \A r \in R : \E i \in 1 .. m : F[i] = r
      /\ \A i, j \in 1 .. m : Below(F[i], F[j]) <=> i < j
  BY ListIs
<1> HIDE DEF R, F, m
<1>2. \E b \in 0 .. m : \A i \in 1 .. m : F[i] \in C <=> b < i
  <2>1. CASE T = {}
    <3>1. \A i \in 1 .. m : ~(m < i)
      BY <1>1
    <3> QED
      BY <1>1, <2>1, <3>1
  <2>2. CASE T # {}
    <3>1. PICK k \in T : \A i \in T : k <= i
      <4>1. T \subseteq Nat
        BY <1>1
      <4> QED
        BY <2>2, <4>1, LeastOf
    <3>2. k - 1 \in 0 .. m /\ \A i \in 1 .. m : k - 1 < i <=> k <= i
      BY <1>1
    <3>3. ASSUME NEW i \in 1 .. m, k <= i
          PROVE  F[i] \in C
      <4>1. i = k \/ k < i
        BY <1>1, <3>3
      <4> QED
        BY <1>1, <4>1 DEF R
    <3> QED
      BY <3>1, <3>2, <3>3
  <2> QED
    BY <2>1, <2>2
<1>3. PICK b \in 0 .. m : \A i \in 1 .. m : F[i] \in C <=> b < i
  BY <1>2
<1>4. \A i \in 1 .. m : i \in b + 1 .. m <=> b < i
  BY <1>1
<1>5. \A i \in b + 1 .. m : i \in 1 .. m
  BY <1>1
<1>6. C = {F[i] : i \in b + 1 .. m}
  BY <1>1, <1>3, <1>4, <1>5 DEF R
<1> QED
  BY <1>3, <1>6 DEF F, m

(* If a search wants a row it wants those after it.                          *)
LEMMA WantsUp ==
  ASSUME NEW d \in Directories, NEW letter \in Int, NEW seek \in {"next", "dir", "file"},
         NEW from \in RowsOf(d), NEW a \in RowsOf(d), NEW x \in RowsOf(d),
         Wants(a, letter, seek, from), Below(a, x)
  PROVE  Wants(x, letter, seek, from)
<1>1. \A r \in RowsOf(d) : Letter(r) \in Int
  <2> SUFFICES ASSUME NEW k \in Listed(d)
               PROVE  Letter(RowOf(d, k)) \in Int
    BY DEF RowsOf
  <2> DEFINE name == d[k].name
  <2>1. name \in Seq(Int) /\ name # <<>>
    BY RowTypes
  <2>2. RowOf(d, k).slot = d[k]
    BY DEF RowOf, Row
  <2> HIDE DEF name
  <2>3. name[1] \in Int
    BY <2>1
  <2> QED
    BY <2>2, <2>3 DEF Letter, name
<1>2. LettersInOrder(d)
  BY DirectoriesAssumption
<1>3. CASE seek = "next"
  <2>1. /\ StrictlyOrders(BelowIn(RowsOf(d)), RowsOf(d))
        /\ \A p, q \in RowsOf(d) : <<p, q>> \in BelowIn(RowsOf(d)) <=> Below(p, q)
    BY ListIs
  <2>2. Below(from, a)
    BY <1>3 DEF Wants
  <2>3. Below(from, x)
    BY <2>1, <2>2 DEF StrictlyOrders
  <2> QED
    BY <1>3, <2>3 DEF Wants
<1>4. IsDir(a) = IsDir(x) => Letter(a) <= Letter(x)
  BY <1>2 DEF LettersInOrder
<1>5. IsDir(a) = IsDir(x) \/ (IsDir(a) /\ ~IsDir(x))
  BY DEF Below
<1>6. CASE seek = "file"
  <2>1. Letter(a) >= letter /\ ~IsDir(a)
    BY <1>6 DEF Wants
  <2>2. Letter(x) >= letter /\ ~IsDir(x)
    BY <1>1, <1>4, <1>5, <2>1
  <2> QED
    BY <1>6, <2>2 DEF Wants
<1>7. CASE seek = "dir"
  <2>1. Letter(a) >= letter \/ ~IsDir(a)
    BY <1>7 DEF Wants
  <2>2. Letter(x) >= letter \/ ~IsDir(x)
    BY <1>1, <1>4, <1>5, <2>1 DEF IsDir
  <2> QED
    BY <1>7, <2>2 DEF Wants
<1> QED
  BY <1>3, <1>6, <1>7

(* The search ends at row q, the first one that it wants.                    *)
JumpsTo(d, u, q, letter, seek, from) ==
  LET F == Sorted(d)
  IN  /\ Window(d, u, q) /\ u.n = Min2(Number(d) - q + 1, MaxDirEntries) /\ u.sel = 0
      /\ Wants(F[q], letter, seek, from)
      /\ \A i \in 1 .. q - 1 : ~Wants(F[i], letter, seek, from)
      /\ Letter(F[q]) = letter
      /\ seek = "dir" => IsDir(F[q])
      /\ seek = "next" => IsDir(F[q]) = IsDir(from)

Selecting(s) == s.n # 0 /\ s.sel \in 0 .. s.n - 1

(* A search ends at the first row that it wants, or changes nothing.         *)
LEMMA FindScan ==
  ASSUME directory \in Directories, NEW s, NEW p, Window(directory, s, p), Begun(s),
         Selecting(s), NEW letter \in Int, NEW seek \in {"next", "dir", "file"}
  PROVE  LET arg == [letter |-> letter, seek |-> seek]
             u == Finish(Scanned(s, "FIND", arg), "FIND", arg)
         IN  \/ Unmoved(u, s)
             \/ \E q \in 1 .. Number(directory) :
                  JumpsTo(directory, u, q, letter, seek, Sorted(directory)[p + s.sel])
<1> DEFINE d == directory
           R == RowsOf(d)
           F == Sorted(d)
           m == Number(d)
           M == MaxDirEntries
           n == s.n
           from == F[p + s.sel]
           mode == "FIND"
           arg == [letter |-> letter, seek |-> seek]
           down == TRUE
           v == Scanned(s, mode, arg)
           t == v.temp
           u == Finish(v, mode, arg)
           k == Len(t)
           C == {x \in R : Wants(x, letter, seek, from)}
<1>1. /\ m \in Nat /\ F \in [1 .. m -> R] /\ \A r \in R : \E i \in 1 .. m : F[i] = r
      /\ \A i, j \in 1 .. m : Below(F[i], F[j]) <=> i < j
  BY ListIs
<1>2. /\ M \in Nat /\ M > 1 /\ Places = 0 .. M - 1 /\ n \in 0 .. M /\ n # 0 /\ p \in Nat \ {0}
      /\ p + n - 1 <= m /\ s.sort \in Injections
      /\ \A x \in 0 .. n - 1 : s.table[s.sort[x]] = F[p + x]
  BY WindowIs DEF Selecting
<1>3. Whole(d, s) /\ d \in Directories
  BY DEF Window
<1>4. s.sel \in 0 .. n - 1 /\ from = s.table[s.sort[s.sel]]
  BY <1>2 DEF Selecting
<1> HIDE DEF F, m, M, n
<1>5. from \in R
  <2>1. p + s.sel \in 1 .. m
    BY <1>1, <1>2, <1>4
  <2> QED
    BY <1>1, <2>1
<1> HIDE DEF from
<1>6. PICK b \in 0 .. m : /\ C = {F[i] : i \in b + 1 .. m}
                          /\ \A i \in 1 .. m : F[i] \in C <=> b < i
  <2>1. \A a \in C, x \in RowsOf(d) : Below(a, x) => x \in C
    BY <1>3, <1>5, WantsUp
  <2>2. C \subseteq RowsOf(d)
    OBVIOUS
  <2> HIDE DEF C
  <2> QED
    BY <1>3, <2>1, <2>2, UpFrom DEF F, m
<1>7. Picks(d, mode, arg, C, down, s)
  <2> SUFFICES ASSUME NEW w \in Scans(d), NEW x \in R, Unmoved(w, s)
               PROVE  Take(w, mode, arg, x, x) =
                        IF x \in C THEN [w EXCEPT !.temp = KeepTemp(@, x, x, down)] ELSE w
    BY DEF Picks
  <2>1. w.table[w.sort[w.sel]] = from
    BY <1>4 DEF Unmoved
  <2>2. arg.letter = letter /\ arg.seek = seek
    OBVIOUS
  <2> HIDE DEF arg
  <2>3. x \in C <=> CASE arg.seek = "file" -> Letter(x) >= arg.letter /\ ~IsDir(x)
                      [] arg.seek = "dir"  -> Letter(x) >= arg.letter \/ ~IsDir(x)
                      [] arg.seek = "next" -> Below(w.table[w.sort[w.sel]], x)
    BY <2>1, <2>2 DEF Wants
  <2> HIDE DEF C
  <2> QED
    BY <2>3 DEF Take
<1>8. \A i \in 1 .. m : F[i] \in C <=> Wants(F[i], letter, seek, from)
  BY <1>1
<1>9. C \subseteq RowsOf(directory)
  OBVIOUS
<1>10. arg.letter = letter /\ arg.seek = seek
  OBVIOUS
<1> HIDE DEF mode, arg, down, v, t, u, k, C
<1>11. Whole(d, v) /\ Unmoved(v, s) /\ FirstOf(t, C, BeforeIn(R, down))
  <2>1. down \in BOOLEAN
    BY DEF down
  <2> QED
    BY ONLY <1>3, <1>7, <1>9, <2>1, Begun(s), TempScan DEF d, R, v, t
<1>12. k = Min2(m - b, M) /\ \A i \in 1 .. k : t[i] = F[b + i]
  <2>1. BeforeIn(R, down) = BelowIn(R)
    BY DEF BeforeIn, BelowIn, Before, down
  <2>2. FirstOf(t, {F[i] : i \in b + 1 .. m}, BelowIn(R))
    BY <1>6, <1>11, <2>1
  <2> QED
    BY <1>3, <1>6, <2>2, FirstAfter DEF F, m, M, R, k
<1>13. k \in 0 .. M /\ k <= m - b
  BY <1>1, <1>2, <1>6, <1>12 DEF Min2
<1>14. /\ v \in Scans(d) /\ v.n = n /\ v.sort = s.sort /\ v.table = s.table /\ v.sel = s.sel
  BY <1>2, <1>11 DEF Whole, Unmoved, n
<1> DEFINE head == t[1]
           Fits == /\ Letter(head) = letter
                   /\ seek = "dir" => IsDir(head)
                   /\ seek = "next" => IsDir(head) = IsDir(from)
<1>15. CASE k = 0 \/ ~Fits
  <2>1. u = v
    <3>1. CASE k = 0
      BY <3>1 DEF Finish, u, k, t
    <3>2. CASE k # 0 /\ ~Fits
      <4>1. from = v.table[v.sort[v.sel]]
        BY <1>4, <1>14
      <4> QED
        BY <1>10, <3>2, <4>1 DEF Finish, u, k, t, mode
    <3> QED
      BY <1>15, <3>1, <3>2
  <2>2. Unmoved(u, s)
    BY <1>11, <2>1
  <2> QED
    BY <2>2 DEF u, v, mode, arg
<1>16. CASE k # 0 /\ Fits
  <2> DEFINE q == b + 1
             z == CopyTemp(v, v.sort, 0)
  <2>1. u = [z EXCEPT !.n = k, !.sel = 0]
    <3>1. from = v.table[v.sort[v.sel]]
      BY <1>4, <1>14
    <3> HIDE DEF z
    <3> QED
      BY <1>10, <1>16, <3>1 DEF Finish, u, k, t, mode, z
  <2>2. 0 \in Nat /\ 0 + k <= M /\ v.sort \in Injections
    BY <1>2, <1>13, <1>14
  <2>3. /\ Whole(d, z) /\ z.sort = v.sort
        /\ \A i \in 1 .. k : z.table[v.sort[0 + i - 1]] = t[i]
    BY <1>3, <1>14, <2>2, CopyTempIs, ZenonT(60) DEF k, t, M
  <2> HIDE DEF z
  <2>4. u \in Scans(d) /\ u.sort = v.sort /\ u.table = z.table /\ u.n = k /\ u.sel = 0
    <3>1. z \in Scans(d)
      BY <2>3 DEF Whole
    <3> DEFINE y == [z EXCEPT !.n = k]
    <3>2. y \in Scans(d) /\ y.sort = z.sort /\ y.table = z.table /\ y.n = k
      BY <1>13, <3>1 DEF Scans, M
    <3>3. u = [y EXCEPT !.sel = 0]
      BY <2>1
    <3> HIDE DEF y
    <3> QED
      BY <2>3, <3>2, <3>3 DEF Scans
  <2>5. Whole(d, u)
    BY <2>2, <2>4 DEF Whole, Injections
  <2>6. q \in 1 .. m /\ q \in Nat \ {0} /\ q + k - 1 <= m /\ k = Min2(m - q + 1, M)
    BY <1>1, <1>2, <1>6, <1>12, <1>13, <1>16, SMTT(30) DEF Min2
  <2>7. ASSUME NEW x \in 0 .. k - 1
        PROVE  u.table[u.sort[x]] = F[q + x]
    <3>1. x + 1 \in 1 .. k /\ 0 + (x + 1) - 1 = x /\ b + (x + 1) = q + x
      BY <1>6, <1>13
    <3>2. z.table[v.sort[0 + (x + 1) - 1]] = t[x + 1] /\ t[x + 1] = F[b + (x + 1)]
      BY <1>12, <2>3, <3>1
    <3> QED
      BY <2>4, <3>1, <3>2
  <2>8. Window(d, u, q)
    BY <1>3, <2>4, <2>5, <2>6, <2>7, WindowMade DEF F, m
  <2>9. head = F[q]
    <3>1. 1 \in 1 .. k
      BY <1>13, <1>16
    <3> QED
      BY <1>12, <3>1
  <2>10. b < q /\ \A i \in 1 .. q - 1 : i \in 1 .. m /\ ~(b < i)
    BY <1>1, <1>6
  <2>11. /\ Wants(F[q], letter, seek, from)
         /\ \A i \in 1 .. q - 1 : ~Wants(F[i], letter, seek, from)
    BY <1>6, <1>8, <2>6, <2>10
  <2> HIDE DEF q, head
  <2>12. /\ Letter(F[q]) = letter
         /\ seek = "dir" => IsDir(F[q])
         /\ seek = "next" => IsDir(F[q]) = IsDir(from)
    BY <1>16, <2>9
  <2>13. JumpsTo(d, u, q, letter, seek, from)
    BY <2>4, <2>6, <2>8, <2>11, <2>12 DEF JumpsTo, m, M, F
  <2> QED
    BY <2>6, <2>13 DEF u, v, mode, arg, m, F, from
<1> QED
  BY <1>15, <1>16

-----------------------------------------------------------------------------
(* The scans by one row.                                                     *)

LEMMA RemainderIs ==
  ASSUME NEW x \in Int, NEW n \in Nat \ {0}, NEW q \in Int, NEW r \in 0 .. n - 1, x = n * q + r
  PROVE  x % n = r
<1> DEFINE p == x \div n
           s == x % n
<1>1. p \in Int /\ s \in 0 .. n - 1 /\ x = n * p + s
  OBVIOUS
<1> HIDE DEF p, s
<1>2. n * (p - q) = r - s
  BY <1>1
<1>3. \A d \in Int : (d >= 1 => n * d >= n) /\ (d <= -1 => n * d <= -n)
  OBVIOUS
<1>4. p - q = 0
  BY <1>1, <1>2, <1>3
<1>5. s = r
  BY <1>1, <1>4
<1> QED
  BY <1>5 DEF s

(* Where the rotations of sort_table go.                                     *)
LEMMA Rotations ==
  ASSUME NEW n \in Nat, n > 1, NEW p \in 0 .. n - 1
  PROVE  /\ (p + 1) % n = IF p = n - 1 THEN 0 ELSE p + 1
         /\ (p - 1) % n = IF p = 0 THEN n - 1 ELSE p - 1
<1> USE RemainderIs
<1>1. p = n - 1 => (p + 1) % n = 0
  <2>1. p = n - 1 => p + 1 = n * 1 + 0
    OBVIOUS
  <2> QED
    BY <2>1
<1>2. p # n - 1 => (p + 1) % n = p + 1
  <2>1. p # n - 1 => p + 1 \in 0 .. n - 1 /\ p + 1 = n * 0 + (p + 1)
    OBVIOUS
  <2> QED
    BY <2>1
<1>3. p = 0 => (p - 1) % n = n - 1
  <2>1. p = 0 => p - 1 = n * (-1) + (n - 1) /\ n - 1 \in 0 .. n - 1
    OBVIOUS
  <2> QED
    BY <2>1
<1>4. p # 0 => (p - 1) % n = p - 1
  <2>1. p # 0 => p - 1 \in 0 .. n - 1 /\ p - 1 = n * 0 + (p - 1)
    OBVIOUS
  <2> QED
    BY <2>1
<1> QED
  BY <1>1, <1>2, <1>3, <1>4

(* What SCAN_NEXT has found when it has seen the rows of V: the least of     *)
(* those above the last row, after the rows of the window but the first.     *)
NextFound(d, s, t, V) ==
  /\ t.n = s.n /\ t.sel = s.sel /\ t.temp = <<>> /\ t.sort \in Injections
  /\ \/ /\ t.found = 0 /\ Unmoved(t, s)
        /\ \A r \in V : ~Below(LastRow(s), r)
     \/ /\ t.found = 1
        /\ \A x \in 0 .. MaxDirEntries - 2 : t.table[t.sort[x]] = s.table[s.sort[x + 1]]
        /\ LastRow(t) \in V /\ Below(LastRow(s), LastRow(t))
        /\ \A r \in V : Below(LastRow(s), r) => r = LastRow(t) \/ Below(LastRow(t), r)

(* One row more for SCAN_NEXT.                                               *)
LEMMA NextStep ==
  ASSUME NEW d \in Directories, NEW s, Whole(d, s), LastRow(s) \in RowsOf(d),
         NEW V \in SUBSET RowsOf(d), NEW x \in RowsOf(d) \ V,
         NEW t \in Scans(d), NextFound(d, s, t, V)
  PROVE  LET u == Append1(t, x, x)
         IN  u \in Scans(d) /\ NextFound(d, s, u, V \union {x}) /\ u.lfn = t.lfn
<1> DEFINE R == RowsOf(d)
           M == MaxDirEntries
           last == LastRow(s)
           u == Append1(t, x, x)
           W == V \union {x}
<1>1. /\ M \in Nat /\ M > 1 /\ Places = 0 .. M - 1 /\ 0 \in Places /\ M - 1 \in Places
  BY DirScanAssumption DEF Places
<1>2. /\ StrictlyOrders(BelowIn(R), R) /\ \A a, b \in R : <<a, b>> \in BelowIn(R) <=> Below(a, b)
  BY ListIs
<1>3. /\ \A a \in R : ~Below(a, a)
      /\ \A a, b \in R : a # b => Below(a, b) \/ Below(b, a)
      /\ \A a, b, c \in R : Below(a, b) /\ Below(b, c) => Below(a, c)
  <2> HIDE DEF R
  <2> QED
    BY <1>2 DEF StrictlyOrders
<1>4. x \in R /\ last \in R /\ V \subseteq R /\ \A r \in W : r \in V \/ r = x
  OBVIOUS
<1>5. /\ t.table \in [Places -> R \union {NoRow}] /\ t.sort \in [Places -> Places]
      /\ \A p, q \in Places : t.sort[p] = t.sort[q] => p = q
      /\ t.n = s.n /\ t.sel = s.sel /\ t.temp = <<>>
  BY DEF Scans, NextFound, Injections
<1> HIDE DEF R, M, last, W
<1>6. CASE t.found = 0 /\ ~Below(last, x)
  <2>1. u = t
    BY <1>6 DEF Append1, NextFound, Unmoved, LastRow, last
  <2>2. NextFound(d, s, t, W)
    BY <1>4, <1>6 DEF NextFound, last
  <2> QED
    BY <2>1, <2>2 DEF W
<1>7. CASE t.found = 0 /\ Below(last, x)
  <2> DEFINE sort == [p \in Places |-> t.sort[(p + 1) % M]]
             table == [t.table EXCEPT ![t.sort[0]] = x]
  <2>1. u = [t EXCEPT !.found = 1, !.table = table, !.sort = sort]
    <3>1. LastRow(t) = last
      BY <1>7 DEF NextFound, Unmoved, LastRow, last
    <3>2. u = [t EXCEPT !.found = 1, !.table[t.sort[0]] = x,
                        !.sort = [p \in Places |-> t.sort[(p + 1) % MaxDirEntries]]]
      BY <1>7, <3>1 DEF Append1
    <3> QED
      BY <3>2 DEF M
  <2>2. ASSUME NEW p \in Places
        PROVE  (p + 1) % M \in Places /\ (p + 1) % M = IF p = M - 1 THEN 0 ELSE p + 1
    <3>1. (p + 1) % M = IF p = M - 1 THEN 0 ELSE p + 1
      BY <1>1, Rotations
    <3> QED
      BY <1>1, <3>1
  <2>3. sort \in [Places -> Places] /\ \A p \in Places : sort[p] = t.sort[(p + 1) % M]
    BY <1>5, <2>2
  <2> HIDE DEF sort
  <2>4. sort \in Injections
    <3>1. ASSUME NEW p \in Places, NEW q \in Places, sort[p] = sort[q]
          PROVE  p = q
      <4>1. (p + 1) % M = (q + 1) % M
        BY <1>5, <2>2, <2>3, <3>1
      <4> QED
        BY <1>1, <2>2, <4>1
    <3> QED
      BY <2>3, <3>1 DEF Injections
  <2>5. /\ table \in [Places -> R \union {NoRow}] /\ table[t.sort[0]] = x
        /\ \A p \in Places : p # 0 => table[t.sort[p]] = t.table[t.sort[p]]
    BY <1>1, <1>4, <1>5
  <2> HIDE DEF table
  <2>6. /\ u \in Scans(d) /\ u.table = table /\ u.sort = sort /\ u.found = 1 /\ u.n = t.n
        /\ u.sel = t.sel /\ u.temp = t.temp /\ u.lfn = t.lfn
    <3> DEFINE y == [t EXCEPT !.table = table]
    <3>1. /\ y \in Scans(d) /\ y.table = table /\ y.n = t.n
          /\ y.sel = t.sel /\ y.temp = t.temp /\ y.lfn = t.lfn
      BY <2>5 DEF Scans, R
    <3>2. u = [y EXCEPT !.found = 1, !.sort = sort]
      BY <2>1
    <3> HIDE DEF y
    <3> QED
      BY <2>3, <3>1, <3>2 DEF Scans
  <2> HIDE DEF u
  <2>7. LastRow(u) = x
    <3>1. sort[M - 1] = t.sort[0]
      BY <1>1, <2>2, <2>3
    <3> QED
      BY <2>5, <2>6, <3>1 DEF LastRow, M
  <2>8. ASSUME NEW p \in 0 .. M - 2
        PROVE  u.table[u.sort[p]] = s.table[s.sort[p + 1]]
    <3>1. p \in Places /\ p + 1 \in Places /\ p # M - 1 /\ p + 1 # 0
      BY <1>1
    <3>2. u.table[u.sort[p]] = t.table[t.sort[p + 1]]
      BY <2>2, <2>3, <2>5, <2>6, <3>1
    <3> QED
      BY <1>7, <3>2 DEF NextFound, Unmoved
  <2>9. \A r \in W : Below(last, r) => r = x
    BY <1>4, <1>7 DEF NextFound, last
  <2>10. NextFound(d, s, u, W)
    BY <1>5, <1>7, <2>4, <2>6, <2>7, <2>8, <2>9 DEF NextFound, W, M, last
  <2> QED
    BY <2>6, <2>10 DEF u, W
<1>8. CASE t.found = 1
  <2> DEFINE l == LastRow(t)
  <2>1. /\ \A p \in 0 .. M - 2 : t.table[t.sort[p]] = s.table[s.sort[p + 1]]
        /\ l \in V /\ Below(last, l) /\ \A r \in V : Below(last, r) => r = l \/ Below(l, r)
    BY <1>8 DEF NextFound, last, M
  <2>2. t.table[t.sort[M - 2]] = last
    <3>1. M - 2 \in 0 .. M - 2 /\ (M - 2) + 1 = M - 1
      BY <1>1
    <3> QED
      BY <2>1, <3>1 DEF last, LastRow, M
  <2> HIDE DEF l
  <2>3. CASE Below(x, l) /\ Below(last, x)
    <3> DEFINE table == [t.table EXCEPT ![t.sort[M - 1]] = x]
    <3>1. u = [t EXCEPT !.table = table]
      BY <1>8, <2>2, <2>3 DEF Append1, l, M
    <3>2. /\ table \in [Places -> R \union {NoRow}] /\ table[t.sort[M - 1]] = x
          /\ \A p \in Places : p # M - 1 => table[t.sort[p]] = t.table[t.sort[p]]
      BY <1>1, <1>4, <1>5
    <3> HIDE DEF table
    <3>3. /\ u \in Scans(d) /\ u.table = table /\ u.sort = t.sort /\ u.found = 1 /\ u.n = t.n
          /\ u.sel = t.sel /\ u.temp = t.temp /\ u.lfn = t.lfn
      BY <1>8, <3>1, <3>2 DEF Scans, R
    <3> HIDE DEF u
    <3>4. LastRow(u) = x
      BY <3>2, <3>3 DEF LastRow, M
    <3>5. ASSUME NEW p \in 0 .. M - 2
          PROVE  u.table[u.sort[p]] = s.table[s.sort[p + 1]]
      <4>1. p \in Places /\ p # M - 1
        BY <1>1
      <4> QED
        BY <2>1, <3>2, <3>3, <4>1
    <3>6. \A r \in W : Below(last, r) => r = x \/ Below(x, r)
      BY <1>3, <1>4, <2>1, <2>3
    <3>7. t.sort \in Injections
      BY DEF NextFound
    <3>8. NextFound(d, s, u, W)
      BY <1>5, <2>3, <3>3, <3>4, <3>5, <3>6, <3>7 DEF NextFound, W, M, last
    <3> QED
      BY <3>3, <3>8 DEF u, W
  <2>4. CASE ~(Below(x, l) /\ Below(last, x))
    <3>1. u = t
      BY <1>8, <2>2, <2>4 DEF Append1, l, M
    <3>2. l # x
      BY <2>1
    <3>3. \A r \in W : Below(last, r) => r = l \/ Below(l, r)
      BY <1>3, <1>4, <2>1, <2>4, <3>2
    <3>4. NextFound(d, s, t, W)
      BY <1>8, <2>1, <3>3 DEF NextFound, W, last, l
    <3> QED
      BY <3>1, <3>4 DEF W
  <2> QED
    BY <2>3, <2>4
<1>9. t.found = 0 \/ t.found = 1
  BY DEF Scans
<1> QED
  BY <1>6, <1>7, <1>8, <1>9

(* SCAN_PREV, the other way round.                                           *)
PrevFound(d, s, t, V) ==
  /\ t.sel = s.sel /\ t.temp = <<>> /\ t.sort \in Injections
  /\ \/ /\ t.found = 0 /\ Unmoved(t, s)
        /\ \A r \in V : ~Below(r, FirstRow(s))
     \/ /\ t.found = 1 /\ t.n = Min2(s.n + 1, MaxDirEntries)
        /\ \A x \in 1 .. MaxDirEntries - 1 : t.table[t.sort[x]] = s.table[s.sort[x - 1]]
        /\ FirstRow(t) \in V /\ Below(FirstRow(t), FirstRow(s))
        /\ \A r \in V : Below(r, FirstRow(s)) => r = FirstRow(t) \/ Below(r, FirstRow(t))

(* One row more for SCAN_PREV.                                               *)
LEMMA PrevStep ==
  ASSUME NEW d \in Directories, NEW s, Whole(d, s), FirstRow(s) \in RowsOf(d),
         NEW V \in SUBSET RowsOf(d), NEW x \in RowsOf(d) \ V,
         NEW t \in Scans(d), PrevFound(d, s, t, V)
  PROVE  LET u == Prepend1(t, x, x)
         IN  u \in Scans(d) /\ PrevFound(d, s, u, V \union {x}) /\ u.lfn = t.lfn
<1> DEFINE R == RowsOf(d)
           M == MaxDirEntries
           first == FirstRow(s)
           u == Prepend1(t, x, x)
           W == V \union {x}
<1>1. /\ M \in Nat /\ M > 1 /\ Places = 0 .. M - 1 /\ 0 \in Places /\ M - 1 \in Places
      /\ 1 \in Places
  BY DirScanAssumption DEF Places
<1>2. /\ StrictlyOrders(BelowIn(R), R) /\ \A a, b \in R : <<a, b>> \in BelowIn(R) <=> Below(a, b)
  BY ListIs
<1>3. /\ \A a \in R : ~Below(a, a)
      /\ \A a, b \in R : a # b => Below(a, b) \/ Below(b, a)
      /\ \A a, b, c \in R : Below(a, b) /\ Below(b, c) => Below(a, c)
  <2> HIDE DEF R
  <2> QED
    BY <1>2 DEF StrictlyOrders
<1>4. x \in R /\ first \in R /\ V \subseteq R /\ \A r \in W : r \in V \/ r = x
  OBVIOUS
<1>5. /\ t.table \in [Places -> R \union {NoRow}] /\ t.sort \in [Places -> Places]
      /\ \A p, q \in Places : t.sort[p] = t.sort[q] => p = q
      /\ t.sel = s.sel /\ t.temp = <<>> /\ t.n \in 0 .. M
  BY DEF Scans, PrevFound, Injections
<1> HIDE DEF R, M, first, W
<1>6. CASE t.found = 0 /\ ~Below(x, first)
  <2>1. u = t
    BY <1>6 DEF Prepend1, PrevFound, Unmoved, FirstRow, first
  <2>2. PrevFound(d, s, t, W)
    BY <1>4, <1>6 DEF PrevFound, first
  <2> QED
    BY <2>1, <2>2 DEF W
<1>7. CASE t.found = 0 /\ Below(x, first)
  <2> DEFINE sort == [p \in Places |-> t.sort[(p - 1) % M]]
             table == [t.table EXCEPT ![t.sort[M - 1]] = x]
             n == IF t.n < M THEN t.n + 1 ELSE t.n
  <2>1. u = [t EXCEPT !.found = 1, !.n = n, !.table = table, !.sort = sort]
    <3>1. FirstRow(t) = first
      BY <1>7 DEF PrevFound, Unmoved, FirstRow, first
    <3>2. u = [t EXCEPT !.found = 1, !.n = IF @ < MaxDirEntries THEN @ + 1 ELSE @,
                        !.table[t.sort[MaxDirEntries - 1]] = x,
                        !.sort = [p \in Places |-> t.sort[(p - 1) % MaxDirEntries]]]
      BY <1>7, <3>1 DEF Prepend1
    <3> QED
      BY <3>2 DEF M
  <2>2. ASSUME NEW p \in Places
        PROVE  (p - 1) % M \in Places /\ (p - 1) % M = IF p = 0 THEN M - 1 ELSE p - 1
    <3>1. (p - 1) % M = IF p = 0 THEN M - 1 ELSE p - 1
      BY <1>1, Rotations
    <3> QED
      BY <1>1, <3>1
  <2>3. sort \in [Places -> Places] /\ \A p \in Places : sort[p] = t.sort[(p - 1) % M]
    BY <1>5, <2>2
  <2> HIDE DEF sort
  <2>4. sort \in Injections
    <3>1. ASSUME NEW p \in Places, NEW q \in Places, sort[p] = sort[q]
          PROVE  p = q
      <4>1. (p - 1) % M = (q - 1) % M
        BY <1>5, <2>2, <2>3, <3>1
      <4> QED
        BY <1>1, <2>2, <4>1
    <3> QED
      BY <2>3, <3>1 DEF Injections
  <2>5. /\ table \in [Places -> R \union {NoRow}] /\ table[t.sort[M - 1]] = x
        /\ \A p \in Places : p # M - 1 => table[t.sort[p]] = t.table[t.sort[p]]
    BY <1>1, <1>4, <1>5
  <2>6. n \in 0 .. M /\ n = Min2(t.n + 1, M)
    BY <1>1, <1>5 DEF Min2
  <2> HIDE DEF table, n
  <2>7. /\ u \in Scans(d) /\ u.table = table /\ u.sort = sort /\ u.found = 1 /\ u.n = n
        /\ u.sel = t.sel /\ u.temp = t.temp /\ u.lfn = t.lfn
    <3> DEFINE y == [t EXCEPT !.table = table, !.n = n]
    <3>1. /\ y \in Scans(d) /\ y.table = table /\ y.n = n
          /\ y.sel = t.sel /\ y.temp = t.temp /\ y.lfn = t.lfn
      BY <2>5, <2>6 DEF Scans, R, M
    <3>2. u = [y EXCEPT !.found = 1, !.sort = sort]
      BY <2>1
    <3> HIDE DEF y
    <3> QED
      BY <2>3, <3>1, <3>2 DEF Scans
  <2> HIDE DEF u
  <2>8. FirstRow(u) = x
    <3>1. sort[0] = t.sort[M - 1]
      BY <1>1, <2>2, <2>3
    <3> QED
      BY <2>5, <2>7, <3>1 DEF FirstRow
  <2>9. ASSUME NEW p \in 1 .. M - 1
        PROVE  u.table[u.sort[p]] = s.table[s.sort[p - 1]]
    <3>1. p \in Places /\ p - 1 \in Places /\ p # 0 /\ p - 1 # M - 1
      BY <1>1
    <3>2. u.table[u.sort[p]] = t.table[t.sort[p - 1]]
      BY <2>2, <2>3, <2>5, <2>7, <3>1
    <3> QED
      BY <1>7, <3>2 DEF PrevFound, Unmoved
  <2>10. \A r \in W : Below(r, first) => r = x
    BY <1>4, <1>7 DEF PrevFound, first
  <2>11. n = Min2(s.n + 1, M)
    BY <1>7, <2>6 DEF PrevFound, Unmoved
  <2>12. PrevFound(d, s, u, W)
    BY <1>5, <1>7, <2>4, <2>7, <2>8, <2>9, <2>10, <2>11 DEF PrevFound, W, M, first
  <2> QED
    BY <2>7, <2>12 DEF u, W
<1>8. CASE t.found = 1
  <2> DEFINE l == FirstRow(t)
  <2>1. /\ \A p \in 1 .. M - 1 : t.table[t.sort[p]] = s.table[s.sort[p - 1]]
        /\ l \in V /\ Below(l, first) /\ \A r \in V : Below(r, first) => r = l \/ Below(r, l)
        /\ t.n = Min2(s.n + 1, M)
    BY <1>8 DEF PrevFound, first, M
  <2>2. t.table[t.sort[1]] = first
    <3>1. 1 \in 1 .. M - 1 /\ 1 - 1 = 0
      BY <1>1
    <3> QED
      BY <2>1, <3>1 DEF first, FirstRow
  <2> HIDE DEF l
  <2>3. CASE Below(l, x) /\ Below(x, first)
    <3> DEFINE table == [t.table EXCEPT ![t.sort[0]] = x]
    <3>1. u = [t EXCEPT !.table = table]
      BY <1>8, <2>2, <2>3 DEF Prepend1, l
    <3>2. /\ table \in [Places -> R \union {NoRow}] /\ table[t.sort[0]] = x
          /\ \A p \in Places : p # 0 => table[t.sort[p]] = t.table[t.sort[p]]
      BY <1>1, <1>4, <1>5
    <3> HIDE DEF table
    <3>3. /\ u \in Scans(d) /\ u.table = table /\ u.sort = t.sort /\ u.found = 1 /\ u.n = t.n
          /\ u.sel = t.sel /\ u.temp = t.temp /\ u.lfn = t.lfn
      BY <1>8, <3>1, <3>2 DEF Scans, R
    <3> HIDE DEF u
    <3>4. FirstRow(u) = x
      BY <3>2, <3>3 DEF FirstRow
    <3>5. ASSUME NEW p \in 1 .. M - 1
          PROVE  u.table[u.sort[p]] = s.table[s.sort[p - 1]]
      <4>1. p \in Places /\ p # 0
        BY <1>1
      <4> QED
        BY <2>1, <3>2, <3>3, <4>1
    <3>6. \A r \in W : Below(r, first) => r = x \/ Below(r, x)
      BY <1>3, <1>4, <2>1, <2>3
    <3>7. t.sort \in Injections
      BY DEF PrevFound
    <3>8. PrevFound(d, s, u, W)
      BY <1>5, <2>1, <2>3, <3>3, <3>4, <3>5, <3>6, <3>7 DEF PrevFound, W, M, first
    <3> QED
      BY <3>3, <3>8 DEF u, W
  <2>4. CASE ~(Below(l, x) /\ Below(x, first))
    <3>1. u = t
      BY <1>8, <2>2, <2>4 DEF Prepend1, l
    <3>2. l # x
      BY <2>1
    <3>3. \A r \in W : Below(r, first) => r = l \/ Below(r, l)
      BY <1>3, <1>4, <2>1, <2>4, <3>2
    <3>4. PrevFound(d, s, t, W)
      BY <1>8, <2>1, <3>3 DEF PrevFound, W, first, l
    <3> QED
      BY <3>1, <3>4 DEF W
  <2> QED
    BY <2>3, <2>4
<1>9. t.found = 0 \/ t.found = 1
  BY DEF Scans
<1> QED
  BY <1>6, <1>7, <1>8, <1>9

(* SCAN_NEXT moves the window down by a row, if there is one.                *)
LEMMA NextScan ==
  ASSUME directory \in Directories, NEW s, NEW p, Window(directory, s, p),
         s.n = MaxDirEntries, Begun(s)
  PROVE  LET u == Scanned(s, "NEXT", 0)
             k == Min2(1, Number(directory) - (p + MaxDirEntries - 1))
         IN  Window(directory, u, p + k) /\ u.n = s.n /\ Same(u, s)
<1> DEFINE d == directory
           R == RowsOf(d)
           F == Sorted(d)
           m == Number(d)
           M == MaxDirEntries
           mode == "NEXT"
           arg == 0
           u == Scanned(s, mode, arg)
           b == p + M - 1
           k == Min2(1, m - b)
           I == [V \in SUBSET R |-> {t \in Scans(d) : NextFound(d, s, t, V)}]
<1>1. /\ m \in Nat /\ F \in [1 .. m -> R] /\ \A r \in R : \E i \in 1 .. m : F[i] = r
      /\ \A i, j \in 1 .. m : Below(F[i], F[j]) <=> i < j
  BY ListIs
<1>2. /\ M \in Nat /\ M > 1 /\ Places = 0 .. M - 1 /\ s.n = M /\ p \in Nat \ {0}
      /\ p + M - 1 <= m /\ s.sort \in Injections
      /\ \A x \in 0 .. M - 1 : s.table[s.sort[x]] = F[p + x]
      /\ LastRow(s) = F[b]
  BY WindowIs
<1>3. Whole(d, s) /\ d \in Directories /\ s \in Scans(d)
  BY DEF Window, Whole
<1> HIDE DEF F, m, M
<1>4. b \in 1 .. m /\ LastRow(s) \in R
  <2>1. b \in 1 .. m
    BY <1>1, <1>2
  <2> QED
    BY <1>1, <1>2, <2>1
<1>5. ScanKeeps(d, I, mode, arg)
  <2>1. \A V \in SUBSET R : I[V] \subseteq Scans(d)
    OBVIOUS
  <2>2. ASSUME NEW V \in SUBSET R, NEW t \in I[V], NEW l \in Lfns
        PROVE  [t EXCEPT !.lfn = l] \in I[V]
    <3> DEFINE w == [t EXCEPT !.lfn = l]
    <3>1. t \in Scans(d) /\ NextFound(d, s, t, V)
      BY <2>2
    <3>2. /\ w \in Scans(d) /\ w.table = t.table /\ w.sort = t.sort /\ w.n = t.n
          /\ w.sel = t.sel /\ w.found = t.found /\ w.temp = t.temp
      BY <3>1, WithLfn
    <3> HIDE DEF w
    <3>3. NextFound(d, s, w, V)
      BY <3>1, <3>2 DEF NextFound, Unmoved, LastRow
    <3> QED
      BY <3>2, <3>3 DEF w
  <2>3. ASSUME NEW V \in SUBSET R, NEW x \in R \ V, NEW t \in I[V]
        PROVE  /\ Take(t, mode, arg, x, x) \in I[V \union {x}]
               /\ Take(t, mode, arg, x, x).lfn = t.lfn
    <3> DEFINE w == Append1(t, x, x)
    <3>1. t \in Scans(d) /\ NextFound(d, s, t, V)
      BY <2>3
    <3>2. w \in Scans(d) /\ NextFound(d, s, w, V \union {x}) /\ w.lfn = t.lfn
      BY <1>3, <1>4, <3>1, NextStep
    <3>3. Take(t, mode, arg, x, x) = w
      BY DEF Take
    <3>4. V \union {x} \in SUBSET R
      OBVIOUS
    <3> HIDE DEF w, mode, arg
    <3> QED
      BY <3>2, <3>3, <3>4
  <2> HIDE DEF I
  <2> QED
    BY <2>1, <2>2, <2>3 DEF ScanKeeps
<1>6. s \in I[{}] /\ s.lfn = NoLFN
  BY <1>2, <1>3 DEF NextFound, Unmoved, Begun
<1>7. u \in I[R]
  <2> HIDE DEF I, u, mode, arg
  <2> QED
    BY <1>5, <1>6, ScannedIn DEF u
<1> HIDE DEF u, mode, arg
<1>8. u \in Scans(d) /\ NextFound(d, s, u, R)
  BY <1>7
<1>9. Whole(d, u) /\ u.n = M /\ Same(u, s)
  BY <1>2, <1>8 DEF Whole, NextFound, Injections, Same
<1>10. CASE u.found = 0
  <2>1. Unmoved(u, s) /\ \A r \in R : ~Below(F[b], r)
    BY <1>2, <1>8, <1>10 DEF NextFound
  <2>2. b = m
    <3>1. b # m => b + 1 \in 1 .. m /\ b < b + 1
      BY <1>1, <1>4
    <3> QED
      BY <1>1, <1>4, <2>1, <3>1
  <2>3. p + k = p
    BY <1>2, <1>4, <2>2 DEF Min2
  <2>4. Window(d, u, p)
    BY <1>9, <2>1 DEF Window, Unmoved
  <2> QED
    BY <1>2, <1>9, <2>3, <2>4 DEF u, mode, arg, m, M
<1>11. CASE u.found = 1
  <2> DEFINE l == LastRow(u)
  <2>1. /\ \A x \in 0 .. M - 2 : u.table[u.sort[x]] = s.table[s.sort[x + 1]]
        /\ l \in R /\ Below(F[b], l) /\ \A r \in R : Below(F[b], r) => r = l \/ Below(l, r)
    BY <1>2, <1>8, <1>11 DEF NextFound, M
  <2> HIDE DEF l
  <2>2. PICK j \in 1 .. m : F[j] = l
    BY <1>1, <2>1
  <2>3. b < j
    BY <1>1, <1>4, <2>1, <2>2
  <2>4. b + 1 \in 1 .. m /\ b < b + 1
    BY <1>1, <1>4, <2>3
  <2>5. F[b + 1] = l
    <3>1. F[b + 1] = l \/ Below(F[j], F[b + 1])
      BY <1>1, <1>4, <2>1, <2>2, <2>4
    <3>2. j < b + 1 => FALSE
      BY <1>4, <2>3
    <3> QED
      BY <1>1, <2>2, <2>4, <3>1, <3>2
  <2>6. k = 1
    BY <1>1, <1>4, <2>4 DEF Min2
  <2>7. ASSUME NEW x \in 0 .. M - 1
        PROVE  u.table[u.sort[x]] = F[(p + k) + x]
    <3>1. CASE x = M - 1
      <4>1. (p + k) + x = b + 1
        BY <1>2, <2>6, <3>1
      <4> QED
        BY <2>5, <3>1, <4>1 DEF l, LastRow, M
    <3>2. CASE x # M - 1
      <4>1. x \in 0 .. M - 2 /\ x + 1 \in 0 .. M - 1 /\ (p + k) + x = p + (x + 1)
        BY <1>2, <2>6, <3>2
      <4> QED
        BY <1>2, <2>1, <4>1
    <3> QED
      BY <3>1, <3>2
  <2>8. p + k \in Nat \ {0} /\ (p + k) + M - 1 <= m
    BY <1>1, <1>2, <2>4, <2>6
  <2>9. Window(d, u, p + k)
    BY <1>3, <1>9, <2>7, <2>8, WindowMade DEF F, m
  <2> QED
    BY <1>2, <1>9, <2>9 DEF u, mode, arg, m, M
<1>12. u.found = 0 \/ u.found = 1
  BY <1>8 DEF NextFound
<1> QED
  BY <1>10, <1>11, <1>12

(* SCAN_PREV moves it up by a row, if there is one, and fills it.            *)
LEMMA PrevScan ==
  ASSUME directory \in Directories, NEW s, NEW p, Window(directory, s, p), s.n # 0, Begun(s)
  PROVE  LET u == Scanned(s, "PREV", 0)
             k == Min2(1, p - 1)
         IN  Window(directory, u, p - k) /\ u.n = Min2(s.n + k, MaxDirEntries) /\ Same(u, s)
<1> DEFINE d == directory
           R == RowsOf(d)
           F == Sorted(d)
           m == Number(d)
           M == MaxDirEntries
           n == s.n
           mode == "PREV"
           arg == 0
           u == Scanned(s, mode, arg)
           k == Min2(1, p - 1)
           I == [V \in SUBSET R |-> {t \in Scans(d) : PrevFound(d, s, t, V)}]
<1>1. /\ m \in Nat /\ F \in [1 .. m -> R] /\ \A r \in R : \E i \in 1 .. m : F[i] = r
      /\ \A i, j \in 1 .. m : Below(F[i], F[j]) <=> i < j
  BY ListIs
<1>2. /\ M \in Nat /\ M > 1 /\ Places = 0 .. M - 1 /\ n \in 0 .. M /\ n # 0 /\ p \in Nat \ {0}
      /\ p + n - 1 <= m /\ s.sort \in Injections
      /\ \A x \in 0 .. n - 1 : s.table[s.sort[x]] = F[p + x]
      /\ FirstRow(s) = F[p] /\ p \in 1 .. m
  BY WindowIs
<1>3. Whole(d, s) /\ d \in Directories /\ s \in Scans(d)
  BY DEF Window, Whole
<1> HIDE DEF F, m, M, n
<1>4. FirstRow(s) \in R
  BY <1>1, <1>2
<1>5. ScanKeeps(d, I, mode, arg)
  <2>1. \A V \in SUBSET R : I[V] \subseteq Scans(d)
    OBVIOUS
  <2>2. ASSUME NEW V \in SUBSET R, NEW t \in I[V], NEW l \in Lfns
        PROVE  [t EXCEPT !.lfn = l] \in I[V]
    <3> DEFINE w == [t EXCEPT !.lfn = l]
    <3>1. t \in Scans(d) /\ PrevFound(d, s, t, V)
      BY <2>2
    <3>2. /\ w \in Scans(d) /\ w.table = t.table /\ w.sort = t.sort /\ w.n = t.n
          /\ w.sel = t.sel /\ w.found = t.found /\ w.temp = t.temp
      BY <3>1, WithLfn
    <3> HIDE DEF w
    <3>3. PrevFound(d, s, w, V)
      BY <3>1, <3>2 DEF PrevFound, Unmoved, FirstRow
    <3> QED
      BY <3>2, <3>3 DEF w
  <2>3. ASSUME NEW V \in SUBSET R, NEW x \in R \ V, NEW t \in I[V]
        PROVE  /\ Take(t, mode, arg, x, x) \in I[V \union {x}]
               /\ Take(t, mode, arg, x, x).lfn = t.lfn
    <3> DEFINE w == Prepend1(t, x, x)
    <3>1. t \in Scans(d) /\ PrevFound(d, s, t, V)
      BY <2>3
    <3>2. w \in Scans(d) /\ PrevFound(d, s, w, V \union {x}) /\ w.lfn = t.lfn
      BY <1>3, <1>4, <3>1, PrevStep
    <3>3. Take(t, mode, arg, x, x) = w
      BY DEF Take
    <3>4. V \union {x} \in SUBSET R
      OBVIOUS
    <3> HIDE DEF w, mode, arg
    <3> QED
      BY <3>2, <3>3, <3>4
  <2> HIDE DEF I
  <2> QED
    BY <2>1, <2>2, <2>3 DEF ScanKeeps
<1>6. s \in I[{}] /\ s.lfn = NoLFN
  BY <1>2, <1>3 DEF PrevFound, Unmoved, Begun
<1>7. u \in I[R]
  <2> HIDE DEF I, u, mode, arg
  <2> QED
    BY <1>5, <1>6, ScannedIn DEF u
<1> HIDE DEF u, mode, arg
<1>8. u \in Scans(d) /\ PrevFound(d, s, u, R)
  BY <1>7
<1>9. Whole(d, u) /\ Same(u, s)
  BY <1>8 DEF Whole, PrevFound, Injections, Same
<1>10. CASE u.found = 0
  <2>1. Unmoved(u, s) /\ \A r \in R : ~Below(r, F[p])
    BY <1>2, <1>8, <1>10 DEF PrevFound
  <2>2. p = 1
    <3>1. p # 1 => p - 1 \in 1 .. m /\ p - 1 < p
      BY <1>1, <1>2
    <3> QED
      BY <1>1, <1>2, <2>1, <3>1
  <2>3. p - k = p /\ n = Min2(n + k, M)
    BY <1>2, <2>2 DEF Min2
  <2>4. Window(d, u, p) /\ u.n = n
    BY <1>9, <2>1 DEF Window, Unmoved, n
  <2> QED
    BY <1>9, <2>3, <2>4 DEF u, mode, arg, n, M
<1>11. CASE u.found = 1
  <2> DEFINE l == FirstRow(u)
  <2>1. /\ \A x \in 1 .. M - 1 : u.table[u.sort[x]] = s.table[s.sort[x - 1]]
        /\ l \in R /\ Below(l, F[p]) /\ \A r \in R : Below(r, F[p]) => r = l \/ Below(r, l)
        /\ u.n = Min2(n + 1, M)
    BY <1>2, <1>8, <1>11 DEF PrevFound, M, n
  <2> HIDE DEF l
  <2>2. PICK j \in 1 .. m : F[j] = l
    BY <1>1, <2>1
  <2>3. j < p
    BY <1>1, <1>2, <2>1, <2>2
  <2>4. p - 1 \in 1 .. m /\ p - 1 < p
    BY <1>1, <1>2, <2>3
  <2>5. F[p - 1] = l
    <3>1. F[p - 1] = l \/ Below(F[p - 1], F[j])
      BY <1>1, <1>2, <2>1, <2>2, <2>4
    <3>2. p - 1 < j => FALSE
      BY <1>2, <2>3
    <3> QED
      BY <1>1, <2>2, <2>4, <3>1, <3>2
  <2>6. k = 1
    BY <1>1, <1>2, <2>4 DEF Min2
  <2>7. u.n \in 0 .. M /\ u.n <= n + 1
    BY <1>2, <2>1 DEF Min2
  <2>8. ASSUME NEW x \in 0 .. u.n - 1
        PROVE  u.table[u.sort[x]] = F[(p - k) + x]
    <3>1. CASE x = 0
      <4>1. (p - k) + x = p - 1
        BY <1>2, <2>6, <3>1
      <4> QED
        BY <2>5, <3>1, <4>1 DEF l, FirstRow
    <3>2. CASE x # 0
      <4>1. x \in 1 .. M - 1 /\ x - 1 \in 0 .. n - 1 /\ (p - k) + x = p + (x - 1)
        BY <1>2, <2>6, <2>7, <3>2
      <4> QED
        BY <1>2, <2>1, <4>1
    <3> QED
      BY <3>1, <3>2
  <2>9. p - k \in Nat \ {0} /\ (p - k) + u.n - 1 <= m
    BY <1>1, <1>2, <2>4, <2>6, <2>7
  <2>10. Window(d, u, p - k)
    BY <1>3, <1>9, <2>8, <2>9, WindowMade DEF F, m
  <2> QED
    BY <1>9, <2>1, <2>6, <2>10 DEF u, mode, arg, n, M
<1>12. u.found = 0 \/ u.found = 1
  BY <1>8 DEF PrevFound
<1> QED
  BY <1>10, <1>11, <1>12

(* SCAN_INIT_FIRST leaves the last row seen that has the cluster.            *)
OneRow(d, t, cluster) ==
  /\ t.table[0] \in RowsOf(d) /\ t.table[0].slot.cluster = cluster
  /\ t.n = 1 /\ t.sel = 0 /\ t.sort = [p \in Places |-> p]

(* SCAN_INIT_FIRST ends with a row of its cluster alone, or changes nothing. *)
LEMMA InitFirstScan ==
  ASSUME directory \in Directories, NEW s, Whole(directory, s), Begun(s), NEW cluster
  PROVE  LET u == Scanned(s, "INIT_FIRST", cluster)
         IN  /\ u.temp = <<>>
             /\ \/ Unmoved(u, s)
                \/ \E q \in 1 .. Number(directory) :
                     /\ Window(directory, u, q) /\ u.n = 1 /\ u.sel = 0
                     /\ Sorted(directory)[q].slot.cluster = cluster
<1> DEFINE d == directory
           R == RowsOf(d)
           F == Sorted(d)
           m == Number(d)
           mode == "INIT_FIRST"
           u == Scanned(s, mode, cluster)
           Good(t) == t.temp = <<>> /\ (Unmoved(t, s) \/ OneRow(d, t, cluster))
           I == [V \in SUBSET R |-> {t \in Scans(d) : Good(t)}]
<1>1. MaxDirEntries \in Nat /\ MaxDirEntries > 1 /\ Places = 0 .. MaxDirEntries - 1 /\ 0 \in Places
  BY DirScanAssumption DEF Places
<1>2. ScanKeeps(d, I, mode, cluster)
  <2>1. \A V \in SUBSET R : I[V] \subseteq Scans(d)
    OBVIOUS
  <2>2. ASSUME NEW V \in SUBSET R, NEW t \in I[V], NEW l \in Lfns
        PROVE  [t EXCEPT !.lfn = l] \in I[V]
    <3> DEFINE w == [t EXCEPT !.lfn = l]
    <3>1. t \in Scans(d) /\ Good(t)
      BY <2>2
    <3>2. /\ w \in Scans(d) /\ w.table = t.table /\ w.sort = t.sort /\ w.n = t.n
          /\ w.sel = t.sel /\ w.temp = t.temp
      BY <3>1, WithLfn
    <3> HIDE DEF w
    <3>3. Good(w)
      BY <3>1, <3>2 DEF Unmoved, OneRow
    <3> HIDE DEF Good
    <3> QED
      BY <3>2, <3>3 DEF w
  <2>3. ASSUME NEW V \in SUBSET R, NEW x \in R \ V, NEW t \in I[V]
        PROVE  /\ Take(t, mode, cluster, x, x) \in I[V \union {x}]
               /\ Take(t, mode, cluster, x, x).lfn = t.lfn
    <3> DEFINE sort == [p \in Places |-> p]
               table == [t.table EXCEPT ![0] = x]
               y == [t EXCEPT !.table = table, !.sort = sort]
               w == [t EXCEPT !.table[0] = x, !.sort = sort, !.n = 1, !.sel = 0]
    <3>1. t \in Scans(d) /\ Good(t)
      BY <2>3
    <3>2. Take(t, mode, cluster, x, x) = IF x.slot.cluster = cluster THEN w ELSE t
      BY DEF Take
    <3>3. V \union {x} \in SUBSET R
      OBVIOUS
    <3>4. table \in [Places -> R \union {NoRow}] /\ table[0] = x
      BY <1>1, <3>1 DEF Scans
    <3>5. sort \in [Places -> Places]
      OBVIOUS
    <3>6. w = [y EXCEPT !.n = 1, !.sel = 0]
      OBVIOUS
    <3> HIDE DEF table, sort
    <3>7. y \in Scans(d) /\ y.table = table /\ y.sort = sort /\ y.temp = t.temp /\ y.lfn = t.lfn
      BY <3>1, <3>4, <3>5 DEF Scans
    <3> HIDE DEF y, w
    <3>8. /\ w \in Scans(d) /\ w.table = table /\ w.sort = sort /\ w.n = 1 /\ w.sel = 0
          /\ w.temp = t.temp /\ w.lfn = t.lfn
      <4> DEFINE e == [y EXCEPT !.n = 1]
      <4>1. 1 \in 0 .. MaxDirEntries
        BY <1>1
      <4>2. /\ e \in Scans(d) /\ e.table = table /\ e.sort = sort /\ e.n = 1
            /\ e.temp = t.temp /\ e.lfn = t.lfn
        BY <3>7, <4>1 DEF Scans
      <4>3. w = [e EXCEPT !.sel = 0]
        BY <3>6
      <4> HIDE DEF e
      <4> QED
        BY <4>2, <4>3 DEF Scans
    <3>9. x.slot.cluster = cluster => Good(w)
      BY <3>1, <3>4, <3>8 DEF OneRow, sort
    <3> HIDE DEF Good, mode
    <3> QED
      BY <3>1, <3>2, <3>3, <3>8, <3>9
  <2> HIDE DEF I
  <2> QED
    BY <2>1, <2>2, <2>3 DEF ScanKeeps
<1>3. s \in I[{}] /\ s.lfn = NoLFN
  BY DEF Unmoved, Begun, Whole
<1>4. u \in I[R]
  <2> HIDE DEF I, u, mode
  <2> QED
    BY <1>2, <1>3, ScannedIn DEF u
<1> HIDE DEF u, mode
<1>5. u \in Scans(d) /\ Good(u)
  BY <1>4
<1>6. ASSUME OneRow(d, u, cluster)
      PROVE  \E q \in 1 .. m : Window(d, u, q) /\ F[q].slot.cluster = cluster
  <2>1. m \in Nat /\ \A r \in R : \E i \in 1 .. m : F[i] = r
    BY ListIs
  <2>2. PICK q \in 1 .. m : F[q] = u.table[0]
    BY <1>6, <2>1 DEF OneRow
  <2>3. u.sort[0] = 0 /\ u.n = 1
    BY <1>1, <1>6 DEF OneRow
  <2> HIDE DEF F, m
  <2>4. \A x \in 0 .. u.n - 1 : u.table[u.sort[x]] = F[q + x]
    <3>1. \A x \in 0 .. u.n - 1 : x = 0 /\ q + x = q
      BY <2>1, <2>3
    <3> QED
      BY <2>2, <2>3, <3>1
  <2>5. Whole(d, u)
    BY <1>5, <1>6 DEF Whole, OneRow
  <2>6. q \in Nat \ {0} /\ q + u.n - 1 <= m
    BY <2>1, <2>3
  <2>7. Window(d, u, q)
    BY <2>4, <2>5, <2>6, WindowMade DEF F, m
  <2> QED
    BY <1>6, <2>2, <2>7 DEF OneRow
<1> QED
  BY <1>5, <1>6 DEF u, mode, OneRow

-----------------------------------------------------------------------------
(* The calls.  Whenever there is a window, it is one on the sorted list, and *)
(* the selected row is in it.                                                *)
WindowInv ==
  /\ directory \in Directories /\ listing = SortedList(directory)
  /\ Memory \in Scans(directory)
  /\ nDirEntries # 0 => /\ iSelectedEntry \in 0 .. nDirEntries - 1
                        /\ \E p \in Nat : Window(directory, Memory, p)

ShownOf(s) == [i \in 1 .. s.n |-> ListRow(s.table[s.sort[i - 1]])]

(* The history variable is the sorted list, without a row twice.             *)
LEMMA SortedListIs ==
  ASSUME NEW d \in Directories
  PROVE  /\ Number(d) \in Nat /\ Len(SortedList(d)) = Number(d)
         /\ SortedList(d) \in Seq({ListRow(r) : r \in RowsOf(d)})
         /\ \A i \in 1 .. Number(d) : SortedList(d)[i] = ListRow(Sorted(d)[i])
         /\ \A i, j \in 1 .. Number(d) : SortedList(d)[i] = SortedList(d)[j] => i = j
<1> DEFINE R == RowsOf(d)
           F == Sorted(d)
           m == Number(d)
           S == {ListRow(r) : r \in R}
           l == SortedList(d)
<1>1. /\ m \in Nat /\ F \in [1 .. m -> R]
      /\ \A i, j \in 1 .. m : Below(F[i], F[j]) <=> i < j
  BY ListIs
<1>2. l = [i \in 1 .. m |-> ListRow(F[i])]
  BY DEF SortedList, Number
<1> HIDE DEF R, F, m, l
<1>3. l \in Seq(S) /\ Len(l) = m /\ \A i \in 1 .. m : l[i] = ListRow(F[i])
  BY <1>1, <1>2
<1>4. ASSUME NEW i \in 1 .. m, NEW j \in 1 .. m, l[i] = l[j]
      PROVE  i = j
  <2>1. F[i] = F[j]
    <3>1. ListRow(F[i]).row = ListRow(F[j]).row
      BY <1>3, <1>4
    <3> QED
      BY <3>1 DEF ListRow
  <2>2. ~(i < j) /\ ~(j < i)
    BY <1>1, <2>1
  <2> QED
    BY <1>1, <2>2
<1> QED
  BY <1>1, <1>3, <1>4 DEF R, F, m, l

(* The rows of a window are a part of the list.                              *)
LEMMA ShownIs ==
  ASSUME NEW d \in Directories, NEW s, NEW p, Window(d, s, p)
  PROVE  /\ ShownOf(s) = SubSeq(SortedList(d), p, p + s.n - 1)
         /\ s.n \in Nat /\ Len(ShownOf(s)) = s.n
         /\ \A x \in 0 .. s.n - 1 : /\ p + x \in 1 .. Number(d)
                                    /\ ShownOf(s)[x + 1] = SortedList(d)[p + x]
<1> DEFINE F == Sorted(d)
           m == Number(d)
           n == s.n
           l == SortedList(d)
           S == {ListRow(r) : r \in RowsOf(d)}
           h == ShownOf(s)
           e == p + n - 1
<1>1. /\ n \in Nat /\ p \in Nat \ {0} /\ m \in Nat /\ p + n - 1 <= m
      /\ \A x \in 0 .. n - 1 : s.table[s.sort[x]] = F[p + x]
  BY WindowIs
<1>2. l \in Seq(S) /\ Len(l) = m /\ \A i \in 1 .. m : l[i] = ListRow(F[i])
  BY SortedListIs
<1>3. h = [i \in 1 .. n |-> ListRow(s.table[s.sort[i - 1]])]
  BY DEF ShownOf
<1> HIDE DEF F, m, n, l, S, h
<1>4. ASSUME NEW i \in 1 .. n
      PROVE  p + i - 1 \in 1 .. m /\ h[i] = l[p + i - 1]
  <2>1. i - 1 \in 0 .. n - 1 /\ p + (i - 1) = p + i - 1 /\ p + i - 1 \in 1 .. m
    BY <1>1
  <2>2. s.table[s.sort[i - 1]] = F[p + i - 1]
    BY <1>1, <2>1
  <2> QED
    BY <1>2, <1>3, <2>1, <2>2
<1>5. h = SubSeq(l, p, e)
  <2>1. e - p + 1 = n
    BY <1>1
  <2>2. SubSeq(l, p, e) = [i \in 1 .. e - p + 1 |-> l[i + p - 1]]
    <3>1. l \in Seq(S) /\ p \in Int /\ e \in Int
      BY <1>1, <1>2
    <3> HIDE DEF e
    <3> QED
      BY <3>1
  <2>3. \A i \in 1 .. n : i + p - 1 = p + i - 1
    BY <1>1
  <2>4. SubSeq(l, p, e) = [i \in 1 .. n |-> l[p + i - 1]]
    BY <2>1, <2>2, <2>3
  <2>5. h = [i \in 1 .. n |-> l[p + i - 1]]
    BY <1>3, <1>4
  <2> QED
    BY <2>4, <2>5
<1>6. ASSUME NEW x \in 0 .. n - 1
      PROVE  p + x \in 1 .. m /\ h[x + 1] = l[p + x]
  <2>1. x + 1 \in 1 .. n /\ p + (x + 1) - 1 = p + x
    BY <1>1
  <2>2. p + (x + 1) - 1 \in 1 .. m /\ h[x + 1] = l[p + (x + 1) - 1]
    BY <1>4, <2>1
  <2> QED
    BY <2>1, <2>2
<1>7. Len(h) = n
  BY <1>1, <1>3
<1> QED
  BY <1>1, <1>5, <1>6, <1>7 DEF h, l, m, n

(* A call that ends with a window keeps the invariant and shows its rows.    *)
LEMMA BecomesIs ==
  ASSUME WindowInv, NEW u, NEW p, Becomes(u), Window(directory, u, p),
         u.n # 0 => u.sel \in 0 .. u.n - 1
  PROVE  /\ WindowInv' /\ UNCHANGED listing /\ iSelectedEntry' = u.sel
         /\ shown' = SubSeq(listing, p, p + u.n - 1)
<1>1. /\ directory' = directory /\ listing' = listing /\ DirEntry' = u.table
      /\ sort_table' = u.sort /\ nDirEntries' = u.n /\ iSelectedEntry' = u.sel
  BY DEF Becomes
<1>2. directory \in Directories /\ listing = SortedList(directory)
  BY DEF WindowInv
<1> DEFINE v == [table |-> u.table, sort |-> u.sort, n |-> u.n, sel |-> u.sel,
                 found |-> 0, temp |-> <<>>, lfn |-> NoLFN]
<1>3. Memory' = v
  BY <1>1 DEF Memory
<1>4. Whole(directory, u) /\ u \in Scans(directory)
  BY DEF Window, Whole
<1>5. v \in Scans(directory)
  <2>1. NoLFN \in Lfns
    BY DEF NoLFN, Lfns
  <2>2. <<>> \in Seq(RowsOf(directory))
    OBVIOUS
  <2> QED
    BY <1>4, <2>1, <2>2 DEF Scans
<1>6. v.table = u.table /\ v.sort = u.sort /\ v.n = u.n
  OBVIOUS
<1> HIDE DEF v
<1>7. Window(directory, v, p)
  BY <1>4, <1>5, <1>6 DEF Window, Whole
<1>8. p \in Nat
  BY DEF Window
<1>9. shown' = ShownOf(u)
  BY <1>1 DEF shown, ShownOf
<1>10. shown' = SubSeq(listing, p, p + u.n - 1)
  BY <1>2, <1>9, ShownIs
<1>11. WindowInv'
  BY <1>1, <1>2, <1>3, <1>5, <1>7, <1>8 DEF WindowInv
<1> QED
  BY <1>1, <1>10, <1>11

(* What is there before a call.                                              *)
LEMMA MemoryIs ==
  /\ Memory.table = DirEntry /\ Memory.sort = sort_table /\ Memory.n = nDirEntries
  /\ Memory.sel = iSelectedEntry /\ Begun(Memory)
BY DEF Memory, Begun

(* Where the window is before a call.                                        *)
LEMMA WindowNow ==
  ASSUME WindowInv, nDirEntries # 0
  PROVE  \E p \in 1 .. Number(directory) :
           /\ Window(directory, Memory, p) /\ L!Top = p
           /\ p + nDirEntries - 1 <= Number(directory) /\ Len(listing) = Number(directory)
           /\ nDirEntries \in 1 .. MaxDirEntries /\ iSelectedEntry \in 0 .. nDirEntries - 1
           /\ Len(shown) = nDirEntries /\ shown # <<>>
           /\ p + iSelectedEntry \in 1 .. Number(directory)
           /\ shown[iSelectedEntry + 1] = listing[p + iSelectedEntry]
<1> DEFINE d == directory
           m == Number(d)
           n == nDirEntries
<1>1. /\ d \in Directories /\ listing = SortedList(d) /\ iSelectedEntry \in 0 .. n - 1
      /\ Memory.n = n
  BY MemoryIs DEF WindowInv
<1>2. PICK p \in Nat : Window(d, Memory, p)
  BY DEF WindowInv
<1>3. /\ MaxDirEntries \in Nat /\ n \in 0 .. MaxDirEntries /\ p \in Nat \ {0} /\ m \in Nat
      /\ p + n - 1 <= m /\ p \in 1 .. m
  BY <1>1, <1>2, WindowIs
<1>4. shown = ShownOf(Memory)
  BY MemoryIs DEF shown, ShownOf
<1>5. /\ Len(shown) = n
      /\ \A x \in 0 .. n - 1 : p + x \in 1 .. m /\ shown[x + 1] = listing[p + x]
  BY <1>1, <1>2, <1>4, ShownIs
<1> HIDE DEF d, m, n
<1>6. n \in 1 .. MaxDirEntries /\ shown # <<>>
  BY <1>3, <1>5 DEF n
<1>7. shown[1] = listing[p]
  <2>1. 0 \in 0 .. n - 1 /\ 0 + 1 = 1 /\ p + 0 = p
    BY <1>3, <1>6
  <2> QED
    BY <1>5, <2>1
<1>8. L!Top = p
  <2>1. Len(listing) = m /\ \A i, j \in 1 .. m : listing[i] = listing[j] => i = j
    BY <1>1, SortedListIs DEF m
  <2> QED
    BY <1>3, <1>7, <2>1 DEF L!Top
<1>9. Len(listing) = m
  BY <1>1, SortedListIs DEF m
<1> QED
  BY <1>1, <1>2, <1>3, <1>5, <1>6, <1>8, <1>9 DEF d, m, n

(* A scan that has left the temporary table empty is finished.               *)
LEMMA FinishNone ==
  ASSUME NEW s, s.temp = <<>>, NEW mode, NEW arg
  PROVE  Finish(s, mode, arg) = s
<1>1. Len(s.temp) = 0
  OBVIOUS
<1> QED
  BY <1>1 DEF Finish

(* The calls one by one: SCAN_INIT opens the window at the top;              *)
LEMMA ScanInitOpens ==
  ASSUME WindowInv, ScanInit
  PROVE  WindowInv' /\ UNCHANGED listing /\ L!Open
<1> DEFINE d == directory
           m == Number(d)
           M == MaxDirEntries
           s == [Memory EXCEPT !.n = 0, !.sel = 0, !.sort = [p \in Places |-> p]]
           u == Scanned(s, "INIT", 0)
<1>1. d \in Directories /\ listing = SortedList(d) /\ Memory \in Scans(d)
  BY DEF WindowInv
<1>2. M \in Nat /\ M > 1
  BY DirScanAssumption
<1>3. /\ Whole(d, s) /\ s.n = 0 /\ s.sel = 0 /\ Begun(s) /\ \A p \in Places : s.sort[p] = p
  <2> DEFINE sort == [p \in Places |-> p]
             y == [Memory EXCEPT !.sort = sort]
             z == [y EXCEPT !.n = 0]
  <2>1. sort \in [Places -> Places] /\ \A p \in Places : sort[p] = p
    OBVIOUS
  <2>2. s = [z EXCEPT !.sel = 0]
    BY DEF Memory
  <2> HIDE DEF sort
  <2>3. y \in Scans(d) /\ y.sort = sort /\ y.found = 0 /\ y.temp = <<>> /\ y.lfn = NoLFN
    BY <1>1, <2>1, MemoryIs DEF Scans, Begun
  <2> HIDE DEF y
  <2>4. /\ z \in Scans(d) /\ z.sort = sort /\ z.n = 0 /\ z.found = 0 /\ z.temp = <<>>
        /\ z.lfn = NoLFN
    BY <1>2, <2>3 DEF Scans
  <2> HIDE DEF z, s
  <2>5. /\ s \in Scans(d) /\ s.sort = sort /\ s.n = 0 /\ s.sel = 0 /\ s.found = 0
        /\ s.temp = <<>> /\ s.lfn = NoLFN
    BY <2>2, <2>4 DEF Scans
  <2> QED
    BY <2>1, <2>5 DEF Whole, Begun
<1>4. Becomes(Finish(u, "INIT", 0))
  BY DEF ScanInit, ScanWith
<1> HIDE DEF s, u
<1>5. Window(d, u, 1) /\ u.n = Min2(m, M) /\ Same(u, s)
  BY <1>1, <1>3, InitScan DEF u
<1>6. Becomes(u) /\ u.sel = 0
  BY <1>3, <1>4, <1>5, FinishNone DEF Same
<1>7. m \in Nat /\ Len(listing) = m
  BY <1>1, SortedListIs
<1> HIDE DEF m, M
<1>8. u.n \in Nat /\ (u.n # 0 => 0 \in 0 .. u.n - 1)
  BY <1>2, <1>5, <1>7 DEF Min2
<1>9. /\ WindowInv' /\ UNCHANGED listing /\ iSelectedEntry' = u.sel
      /\ shown' = SubSeq(listing, 1, 1 + u.n - 1)
  BY <1>5, <1>6, <1>8, BecomesIs
<1>10. 1 + u.n - 1 = L!Smaller(Len(listing), 1 + MaxDirEntries - 1)
  BY <1>2, <1>5, <1>7 DEF Min2, L!Smaller, M
<1> QED
  BY <1>6, <1>9, <1>10 DEF L!Open, L!From

(* A step that only selects.                                                 *)
LEMMA SelectIs ==
  ASSUME WindowInv, nDirEntries # 0, NEW n \in 0 .. nDirEntries - 1, Select(n)
  PROVE  WindowInv' /\ UNCHANGED listing /\ L!Select(n)
<1> DEFINE u == [Memory EXCEPT !.sel = n]
<1>1. PICK p \in 1 .. Number(directory) :
        /\ Window(directory, Memory, p)
        /\ p + nDirEntries - 1 <= Number(directory)
        /\ nDirEntries \in 1 .. MaxDirEntries
  BY WindowNow
<1>2. UNCHANGED <<directory, listing, DirEntry, sort_table, nDirEntries>> /\ iSelectedEntry' = n
  BY DEF Select
<1>3. Memory \in Scans(directory) /\ n \in Int
  BY DEF WindowInv
<1>4. Memory' = u
  BY <1>2 DEF Memory
<1>5. /\ u \in Scans(directory) /\ u.table = Memory.table /\ u.sort = Memory.sort
      /\ u.n = Memory.n
  BY <1>3 DEF Scans
<1> HIDE DEF u
<1>6. Window(directory, u, p)
  BY <1>1, <1>5 DEF Window, Whole
<1>7. p \in Nat
  BY <1>1 DEF Window
<1>8. WindowInv'
  BY <1>2, <1>4, <1>5, <1>6, <1>7 DEF WindowInv
<1>9. shown' = shown
  BY <1>2 DEF shown
<1> QED
  BY <1>2, <1>8, <1>9 DEF L!Select

(* SCAN_NEXT selects the next row, or moves the window by one;               *)
LEMMA ScanNextDown ==
  ASSUME WindowInv, ScanNext
  PROVE  WindowInv' /\ UNCHANGED listing /\ shown # <<>> /\ L!Down
<1> DEFINE d == directory
           m == Number(d)
           M == MaxDirEntries
           n == nDirEntries
<1>1. d \in Directories /\ n # 0 /\ MaxDirEntries \in Nat
  BY DirScanAssumption DEF WindowInv, ScanNext, NotEmpty
<1>2. PICK p \in 1 .. Number(directory) :
        /\ Window(directory, Memory, p) /\ L!Top = p
        /\ p + nDirEntries - 1 <= Number(directory) /\ Len(listing) = Number(directory)
        /\ nDirEntries \in 1 .. MaxDirEntries /\ iSelectedEntry \in 0 .. nDirEntries - 1
        /\ Len(shown) = nDirEntries /\ shown # <<>>
  BY <1>1, WindowNow
<1>3. m \in Nat
  BY <1>1, ListIs
<1>4. CASE ~AtLast /\ Select(iSelectedEntry + 1)
  <2>1. iSelectedEntry + 1 \in 0 .. n - 1 /\ iSelectedEntry < Len(shown) - 1
    BY <1>2, <1>4 DEF AtLast
  <2>2. WindowInv' /\ UNCHANGED listing /\ L!Select(iSelectedEntry + 1)
    BY <1>1, <1>4, <2>1, SelectIs
  <2> QED
    BY <1>2, <2>1, <2>2 DEF L!Down
<1>5. CASE AtLast /\ Full /\ ScanWith(Memory, "NEXT", 0)
  <2> DEFINE u == Scanned(Memory, "NEXT", 0)
             k == Min2(1, m - (p + M - 1))
  <2>1. Memory.n = M /\ n = M /\ Memory.sel = iSelectedEntry /\ Begun(Memory)
    BY <1>5, MemoryIs DEF Full
  <2>2. Becomes(Finish(u, "NEXT", 0))
    BY <1>5 DEF ScanWith
  <2> HIDE DEF u
  <2>3. Window(d, u, p + k) /\ u.n = Memory.n /\ Same(u, Memory)
    BY <1>1, <1>2, <2>1, NextScan DEF u
  <2>4. Becomes(u) /\ u.n = M /\ u.sel = iSelectedEntry
    BY <2>1, <2>2, <2>3, FinishNone DEF Same
  <2>5. u.n # 0 => u.sel \in 0 .. u.n - 1
    BY <1>2, <2>1, <2>4
  <2> HIDE DEF d, m, k
  <2>6. /\ WindowInv' /\ UNCHANGED listing /\ iSelectedEntry' = u.sel
        /\ shown' = SubSeq(listing, p + k, (p + k) + u.n - 1)
    BY <2>3, <2>4, <2>5, BecomesIs DEF d
  <2>7. k \in Int /\ k = L!Smaller(1, Len(listing) - L!Bottom) /\ (p + k) + M - 1 = L!Bottom + k
    BY <1>1, <1>2, <1>3, <2>1 DEF k, Min2, L!Smaller, L!Bottom, m, d
  <2>8. L!Move(p + k, L!Bottom + k)
    BY <2>4, <2>6, <2>7 DEF L!Move
  <2>9. iSelectedEntry = Len(shown) - 1 /\ Len(shown) = MaxDirEntries
    BY <1>2, <1>5, <2>1 DEF AtLast
  <2>10. L!Scroll(1)
    BY <1>2, <2>7, <2>8, <2>9 DEF L!Scroll
  <2> QED
    BY <1>2, <2>6, <2>10 DEF L!Down
<1> QED
  BY <1>4, <1>5 DEF ScanNext

(* SCAN_PREV selects the row before, or moves it back;                       *)
LEMMA ScanPrevUp ==
  ASSUME WindowInv, ScanPrev
  PROVE  WindowInv' /\ UNCHANGED listing /\ shown # <<>> /\ L!Up
<1> DEFINE d == directory
           m == Number(d)
           M == MaxDirEntries
           n == nDirEntries
<1>1. d \in Directories /\ n # 0 /\ MaxDirEntries \in Nat
  BY DirScanAssumption DEF WindowInv, ScanPrev, NotEmpty
<1>2. PICK p \in 1 .. Number(directory) :
        /\ Window(directory, Memory, p) /\ L!Top = p
        /\ p + nDirEntries - 1 <= Number(directory) /\ Len(listing) = Number(directory)
        /\ nDirEntries \in 1 .. MaxDirEntries /\ iSelectedEntry \in 0 .. nDirEntries - 1
        /\ Len(shown) = nDirEntries /\ shown # <<>>
  BY <1>1, WindowNow
<1>3. m \in Nat
  BY <1>1, ListIs
<1>4. CASE iSelectedEntry > 0 /\ Select(iSelectedEntry - 1)
  <2>1. iSelectedEntry - 1 \in 0 .. n - 1
    BY <1>2, <1>4
  <2>2. WindowInv' /\ UNCHANGED listing /\ L!Select(iSelectedEntry - 1)
    BY <1>1, <1>4, <2>1, SelectIs
  <2> QED
    BY <1>2, <1>4, <2>2 DEF L!Up
<1>5. CASE iSelectedEntry = 0 /\ ScanWith(Memory, "PREV", 0)
  <2> DEFINE u == Scanned(Memory, "PREV", 0)
             k == Min2(1, p - 1)
  <2>1. Memory.n = n /\ Memory.sel = iSelectedEntry /\ Begun(Memory)
    BY <1>5, MemoryIs
  <2>2. Becomes(Finish(u, "PREV", 0))
    BY <1>5 DEF ScanWith
  <2> HIDE DEF u
  <2>3. Window(d, u, p - k) /\ u.n = Min2(Memory.n + k, M) /\ Same(u, Memory)
    BY <1>1, <1>2, <2>1, PrevScan DEF u
  <2>4. Becomes(u) /\ u.n = Min2(n + k, M) /\ u.sel = 0
    BY <1>5, <2>1, <2>2, <2>3, FinishNone DEF Same
  <2> HIDE DEF d, m, n, M, k
  <2>5. /\ k \in Nat /\ u.n \in 0 .. M /\ k = L!Smaller(1, L!Top - 1)
        /\ (p - k) + u.n - 1 = L!Smaller(L!Bottom, L!Top - k + MaxDirEntries - 1)
    BY <1>1, <1>2, <1>3, <2>4 DEF k, n, M, Min2, L!Smaller, L!Bottom
  <2>6. u.n # 0 => u.sel \in 0 .. u.n - 1
    BY <2>4, <2>5
  <2>7. /\ WindowInv' /\ UNCHANGED listing /\ iSelectedEntry' = u.sel
        /\ shown' = SubSeq(listing, p - k, (p - k) + u.n - 1)
    BY <2>3, <2>4, <2>6, BecomesIs DEF d
  <2>8. L!Move(L!Top - k, L!Smaller(L!Bottom, L!Top - k + MaxDirEntries - 1))
    BY <1>2, <1>5, <2>4, <2>5, <2>7 DEF L!Move
  <2>9. L!ScrollBack(1)
    BY <1>5, <2>5, <2>8 DEF L!ScrollBack
  <2> QED
    BY <1>2, <2>7, <2>9 DEF L!Up
<1> QED
  BY <1>4, <1>5 DEF ScanPrev

(* SCAN_NEXT_PAGE selects the last row, or moves it by a page;               *)
LEMMA ScanNextPageDown ==
  ASSUME WindowInv, ScanNextPage
  PROVE  WindowInv' /\ UNCHANGED listing /\ shown # <<>> /\ L!PageDown
<1> DEFINE d == directory
           m == Number(d)
           M == MaxDirEntries
           n == nDirEntries
<1>1. d \in Directories /\ n # 0 /\ MaxDirEntries \in Nat
  BY DirScanAssumption DEF WindowInv, ScanNextPage, NotEmpty
<1>2. PICK p \in 1 .. Number(directory) :
        /\ Window(directory, Memory, p) /\ L!Top = p
        /\ p + nDirEntries - 1 <= Number(directory) /\ Len(listing) = Number(directory)
        /\ nDirEntries \in 1 .. MaxDirEntries /\ iSelectedEntry \in 0 .. nDirEntries - 1
        /\ Len(shown) = nDirEntries /\ shown # <<>>
  BY <1>1, WindowNow
<1>3. m \in Nat
  BY <1>1, ListIs
<1>4. CASE ~AtLast /\ Select(nDirEntries - 1)
  <2>1. nDirEntries - 1 \in 0 .. n - 1 /\ iSelectedEntry < Len(shown) - 1
    BY <1>2, <1>4 DEF AtLast
  <2>2. WindowInv' /\ UNCHANGED listing /\ L!Select(nDirEntries - 1)
    BY <1>1, <1>4, <2>1, SelectIs
  <2> QED
    BY <1>2, <2>1, <2>2 DEF L!PageDown
<1>5. CASE AtLast /\ Full /\ ScanWith(Memory, "NEXT_PAGE", 0)
  <2> DEFINE u == Finish(Scanned(Memory, "NEXT_PAGE", 0), "NEXT_PAGE", 0)
             k == Min2(M, m - (p + M - 1))
  <2>1. Memory.n = M /\ n = M /\ Memory.sel = iSelectedEntry /\ Begun(Memory)
    BY <1>5, MemoryIs DEF Full
  <2>2. Becomes(u)
    BY <1>5 DEF ScanWith
  <2>3. Window(d, u, p + k) /\ u.n = Memory.n /\ u.sel = Memory.sel
    BY <1>1, <1>2, <2>1, NextPageScan
  <2> HIDE DEF u
  <2>4. u.n = M /\ u.sel = iSelectedEntry
    BY <2>1, <2>3
  <2>5. u.n # 0 => u.sel \in 0 .. u.n - 1
    BY <1>2, <2>1, <2>4
  <2> HIDE DEF d, m, k
  <2>6. /\ WindowInv' /\ UNCHANGED listing /\ iSelectedEntry' = u.sel
        /\ shown' = SubSeq(listing, p + k, (p + k) + u.n - 1)
    BY <2>2, <2>3, <2>5, BecomesIs DEF d
  <2>7. /\ k \in Int /\ k = L!Smaller(MaxDirEntries, Len(listing) - L!Bottom)
        /\ (p + k) + M - 1 = L!Bottom + k
    BY <1>1, <1>2, <1>3, <2>1 DEF k, Min2, L!Smaller, L!Bottom, m, d
  <2>8. L!Move(p + k, L!Bottom + k)
    BY <2>4, <2>6, <2>7 DEF L!Move
  <2>9. iSelectedEntry = Len(shown) - 1 /\ Len(shown) = MaxDirEntries
    BY <1>2, <1>5, <2>1 DEF AtLast
  <2>10. L!Scroll(MaxDirEntries)
    BY <1>2, <2>7, <2>8, <2>9 DEF L!Scroll
  <2> QED
    BY <1>2, <2>6, <2>10 DEF L!PageDown
<1> QED
  BY <1>4, <1>5 DEF ScanNextPage

(* SCAN_PREV_PAGE selects the first row, or moves it back by a page;         *)
LEMMA ScanPrevPageUp ==
  ASSUME WindowInv, ScanPrevPage
  PROVE  WindowInv' /\ UNCHANGED listing /\ shown # <<>> /\ L!PageUp
<1> DEFINE d == directory
           m == Number(d)
           M == MaxDirEntries
           n == nDirEntries
<1>1. d \in Directories /\ n # 0 /\ MaxDirEntries \in Nat
  BY DirScanAssumption DEF WindowInv, ScanPrevPage, NotEmpty
<1>2. PICK p \in 1 .. Number(directory) :
        /\ Window(directory, Memory, p) /\ L!Top = p
        /\ p + nDirEntries - 1 <= Number(directory) /\ Len(listing) = Number(directory)
        /\ nDirEntries \in 1 .. MaxDirEntries /\ iSelectedEntry \in 0 .. nDirEntries - 1
        /\ Len(shown) = nDirEntries /\ shown # <<>>
  BY <1>1, WindowNow
<1>3. m \in Nat
  BY <1>1, ListIs
<1>4. CASE iSelectedEntry > 0 /\ Select(0)
  <2>1. 0 \in 0 .. n - 1
    BY <1>2, <1>4
  <2>2. WindowInv' /\ UNCHANGED listing /\ L!Select(0)
    BY <1>1, <1>4, <2>1, SelectIs
  <2> QED
    BY <1>2, <1>4, <2>2 DEF L!PageUp
<1>5. CASE iSelectedEntry = 0 /\ ScanWith(Memory, "PREV_PAGE", 0)
  <2> DEFINE u == Finish(Scanned(Memory, "PREV_PAGE", 0), "PREV_PAGE", 0)
             k == Min2(M, p - 1)
  <2>1. Memory.n = n /\ Memory.sel = iSelectedEntry /\ Begun(Memory) /\ Memory.n # 0
    BY <1>1, <1>5, MemoryIs
  <2>2. Becomes(u)
    BY <1>5 DEF ScanWith
  <2>3. Window(d, u, p - k) /\ u.n = Min2(Memory.n + k, M) /\ u.sel = Memory.sel
    BY <1>1, <1>2, <2>1, PrevPageScan
  <2> HIDE DEF u
  <2>4. u.n = Min2(n + k, M) /\ u.sel = 0
    BY <1>5, <2>1, <2>3
  <2> HIDE DEF d, m, n, M, k
  <2>5. /\ k \in Nat /\ u.n \in 0 .. M /\ k = L!Smaller(MaxDirEntries, L!Top - 1)
        /\ (p - k) + u.n - 1 = L!Smaller(L!Bottom, L!Top - k + MaxDirEntries - 1)
    BY <1>1, <1>2, <1>3, <2>4 DEF k, n, M, Min2, L!Smaller, L!Bottom
  <2>6. u.n # 0 => u.sel \in 0 .. u.n - 1
    BY <2>4, <2>5
  <2>7. /\ WindowInv' /\ UNCHANGED listing /\ iSelectedEntry' = u.sel
        /\ shown' = SubSeq(listing, p - k, (p - k) + u.n - 1)
    BY <2>2, <2>3, <2>6, BecomesIs DEF d
  <2>8. L!Move(L!Top - k, L!Smaller(L!Bottom, L!Top - k + MaxDirEntries - 1))
    BY <1>2, <1>5, <2>4, <2>5, <2>7 DEF L!Move
  <2>9. L!ScrollBack(MaxDirEntries)
    BY <1>5, <2>5, <2>8 DEF L!ScrollBack
  <2> QED
    BY <1>2, <2>7, <2>9 DEF L!PageUp
<1> QED
  BY <1>4, <1>5 DEF ScanPrevPage

(* A scan that finds nothing leaves everything as it is.                     *)
LEMMA UnmovedIs ==
  ASSUME WindowInv, NEW u, Becomes(u), Unmoved(u, Memory)
  PROVE  WindowInv' /\ UNCHANGED <<listing, shown, iSelectedEntry>>
<1>1. UNCHANGED scanVars
  BY MemoryIs DEF Becomes, Unmoved, scanVars
<1> QED
  BY <1>1 DEF scanVars, WindowInv, Memory, shown

(* What a search wants of a row is what the list says of it.                 *)
LEMMA CandidateIs ==
  ASSUME NEW q, NEW p, NEW letter, NEW seek \in {"next", "dir", "file"}, L!Top = p,
         directory \in Directories, listing = SortedList(directory),
         q \in 1 .. Number(directory), p + iSelectedEntry \in 1 .. Number(directory)
  PROVE  L!Candidate(q, letter, seek) <=>
           Wants(Sorted(directory)[q], letter, seek, Sorted(directory)[p + iSelectedEntry])
<1> DEFINE F == Sorted(directory)
           r == F[q]
           from == p + iSelectedEntry
<1>1. listing[q] = ListRow(r)
  BY SortedListIs
<1>2. listing[q].dir = IsDir(r) /\ listing[q].letter = Letter(r)
  BY <1>1 DEF ListRow
<1>3. Below(F[from], r) <=> from < q
  BY ListIs
<1>4. Number(directory) \in Nat /\ (q > from <=> from < q)
  BY ListIs
<1>5. CASE seek = "file"
  BY <1>2, <1>5 DEF Wants, L!Candidate
<1>6. CASE seek = "dir"
  BY <1>2, <1>6 DEF Wants, L!Candidate
<1>7. CASE seek = "next"
  BY <1>3, <1>4, <1>7 DEF Wants, L!Candidate
<1> QED
  BY <1>5, <1>6, <1>7

(* a search jumps to the row that it finds;                                  *)
LEMMA ScanFindJumps ==
  ASSUME WindowInv, ScanFind
  PROVE  /\ WindowInv' /\ UNCHANGED listing /\ shown # <<>>
         /\ L!Find \/ UNCHANGED <<listing, shown, iSelectedEntry>>
<1> DEFINE d == directory
           m == Number(d)
           F == Sorted(d)
<1>1. d \in Directories /\ listing = SortedList(d) /\ nDirEntries # 0
  BY DEF WindowInv, ScanFind, NotEmpty
<1>2. PICK p \in 1 .. Number(directory) :
        /\ Window(directory, Memory, p) /\ L!Top = p /\ Len(listing) = Number(directory)
        /\ nDirEntries \in 1 .. MaxDirEntries /\ iSelectedEntry \in 0 .. nDirEntries - 1
        /\ shown # <<>> /\ p + iSelectedEntry \in 1 .. Number(directory)
        /\ shown[iSelectedEntry + 1] = listing[p + iSelectedEntry]
  BY <1>1, WindowNow
<1>3. PICK letter \in Modes, seek \in {"next", "dir", "file"} :
        ScanWith(Memory, "FIND", [letter |-> letter, seek |-> seek])
  BY DEF ScanFind
<1> DEFINE from == F[p + Memory.sel]
           arg == [letter |-> letter, seek |-> seek]
           u == Finish(Scanned(Memory, "FIND", arg), "FIND", arg)
<1>4. Becomes(u)
  BY <1>3 DEF ScanWith
<1>5. Memory.n = nDirEntries /\ Memory.sel = iSelectedEntry /\ Begun(Memory)
  BY MemoryIs
<1>6. Unmoved(u, Memory) \/ \E q \in 1 .. m : JumpsTo(d, u, q, letter, seek, from)
  <2>1. Selecting(Memory) /\ letter \in Int /\ seek \in {"next", "dir", "file"}
    BY <1>1, <1>2, <1>5, DirScanAssumption DEF Selecting
  <2>2. Window(d, Memory, p) /\ d \in Directories
    BY <1>1, <1>2
  <2> QED
    BY ONLY <1>5, <2>1, <2>2, FindScan
<1> HIDE DEF u, arg
<1>7. CASE Unmoved(u, Memory)
  BY <1>2, <1>4, <1>7, UnmovedIs
<1>8. ASSUME NEW q \in 1 .. m, JumpsTo(d, u, q, letter, seek, from)
      PROVE  WindowInv' /\ UNCHANGED listing /\ L!Find
  <2>0. /\ Window(d, u, q) /\ u.n = Min2(m - q + 1, MaxDirEntries) /\ u.sel = 0
        /\ Wants(F[q], letter, seek, from)
        /\ \A i \in 1 .. q - 1 : ~Wants(F[i], letter, seek, from)
        /\ Letter(F[q]) = letter
        /\ seek = "dir" => IsDir(F[q])
        /\ seek = "next" => IsDir(F[q]) = IsDir(from)
    BY <1>8 DEF JumpsTo
  <2>1. /\ m \in Nat /\ MaxDirEntries \in Nat /\ MaxDirEntries > 1
    BY <1>1, ListIs, DirScanAssumption
  <2>2. listing[q] = ListRow(F[q]) /\ listing[p + iSelectedEntry] = ListRow(from)
    BY <1>1, <1>2, <1>5, SortedListIs
  <2>3. /\ listing[q].letter = letter /\ listing[q].dir = IsDir(F[q])
        /\ shown[iSelectedEntry + 1].dir = IsDir(from)
    BY <1>2, <2>0, <2>2 DEF ListRow
  <2>4. L!Candidate(q, letter, seek)
    BY <1>1, <1>2, <1>5, <2>0, CandidateIs
  <2>5. ASSUME NEW i \in 1 .. q - 1
        PROVE  ~L!Candidate(i, letter, seek)
    <3>1. i \in 1 .. m
      BY <2>1
    <3>2. ~Wants(F[i], letter, seek, from)
      BY <2>0
    <3> QED
      BY <1>1, <1>2, <1>5, <3>1, <3>2, CandidateIs
  <2>6. L!Found(q, letter, seek)
    BY <2>0, <2>3, <2>4, <2>5 DEF L!Found
  <2> HIDE DEF m, F, from
  <2>7. u.n \in 1 .. MaxDirEntries /\ q + u.n - 1 = L!Smaller(Len(listing), q + MaxDirEntries - 1)
    BY <1>2, <2>0, <2>1 DEF Min2, L!Smaller, m
  <2>8. u.n # 0 => u.sel \in 0 .. u.n - 1
    BY <2>0, <2>7
  <2>9. /\ WindowInv' /\ UNCHANGED listing /\ iSelectedEntry' = u.sel
        /\ shown' = SubSeq(listing, q, q + u.n - 1)
    BY <1>4, <2>0, <2>8, BecomesIs
  <2>10. L!JumpTo(q)
    BY <2>0, <2>7, <2>9 DEF L!JumpTo, L!From
  <2>11. q \in 1 .. Len(listing)
    BY <1>2 DEF m
  <2> QED
    BY <2>6, <2>9, <2>10, <2>11 DEF L!Find
<1> QED
  BY <1>2, <1>6, <1>7, <1>8

(* SCAN_INIT_FIRST shows the row of a subdirectory;                          *)
LEMMA ScanInitFirstShows ==
  ASSUME WindowInv, ScanInitFirst
  PROVE  /\ WindowInv' /\ UNCHANGED listing /\ shown # <<>>
         /\ L!ShowDirectory \/ UNCHANGED <<listing, shown, iSelectedEntry>>
<1> DEFINE d == directory
           m == Number(d)
           F == Sorted(d)
<1>1. d \in Directories /\ listing = SortedList(d) /\ nDirEntries # 0
  BY DEF WindowInv, ScanInitFirst, NotEmpty
<1>2. PICK p \in 1 .. Number(directory) :
        /\ Window(directory, Memory, p) /\ Len(listing) = Number(directory) /\ shown # <<>>
  BY <1>1, WindowNow
<1>3. PICK c \in Subdirectories : ScanWith(Memory, "INIT_FIRST", c)
  BY DEF ScanInitFirst
<1> DEFINE u == Scanned(Memory, "INIT_FIRST", c)
<1>4. Becomes(Finish(u, "INIT_FIRST", c))
  BY <1>3 DEF ScanWith
<1>5. Whole(d, Memory) /\ Begun(Memory)
  BY <1>2, MemoryIs DEF Window
<1>6. /\ u.temp = <<>>
      /\ \/ Unmoved(u, Memory)
         \/ \E q \in 1 .. m : Window(d, u, q) /\ u.n = 1 /\ u.sel = 0 /\ F[q].slot.cluster = c
  BY <1>1, <1>5, InitFirstScan
<1> HIDE DEF u
<1>7. Becomes(u)
  BY <1>4, <1>6, FinishNone
<1>8. CASE Unmoved(u, Memory)
  BY <1>2, <1>7, <1>8, UnmovedIs
<1>9. ASSUME NEW q \in 1 .. m, Window(d, u, q), u.n = 1, u.sel = 0, F[q].slot.cluster = c
      PROVE  WindowInv' /\ UNCHANGED listing /\ L!ShowDirectory
  <2>1. u.n # 0 => u.sel \in 0 .. u.n - 1
    BY <1>9
  <2>2. listing[q] = ListRow(F[q]) /\ m \in Nat /\ q \in 1 .. Len(listing)
    BY <1>1, <1>2, SortedListIs
  <2>3. listing[q].cluster = c
    BY <1>9, <2>2 DEF ListRow
  <2> HIDE DEF m, F, d
  <2>4. /\ WindowInv' /\ UNCHANGED listing /\ iSelectedEntry' = u.sel
        /\ shown' = SubSeq(listing, q, q + u.n - 1)
    BY <1>7, <1>9, <2>1, BecomesIs DEF d
  <2>5. SubSeq(listing, q, q + u.n - 1) = <<listing[q]>>
    <3>1. listing \in Seq({ListRow(r) : r \in RowsOf(d)})
      BY <1>1, SortedListIs DEF d
    <3>2. q \in Int /\ q + u.n - 1 = q /\ q - q + 1 = 1
      BY <1>9, <2>2
    <3>3. SubSeq(listing, q, q) = [i \in 1 .. 1 |-> listing[i + q - 1]]
      BY <3>1, <3>2
    <3>4. [i \in 1 .. 1 |-> listing[i + q - 1]] = <<listing[q]>>
      BY <3>2
    <3> QED
      BY <3>2, <3>3, <3>4
  <2> QED
    BY <1>9, <2>2, <2>3, <2>4, <2>5 DEF L!ShowDirectory
<1> QED
  BY <1>2, <1>6, <1>8, <1>9

(* SCAN_INIT_NEXT fills the window below it;                                 *)
LEMMA ScanInitNextFills ==
  ASSUME WindowInv, ScanInitNext
  PROVE  WindowInv' /\ UNCHANGED listing /\ shown # <<>> /\ L!FillBelow
<1> DEFINE d == directory
           m == Number(d)
           M == MaxDirEntries
           u == Scanned(Memory, "INIT_NEXT", 0)
<1>1. /\ d \in Directories /\ listing = SortedList(d) /\ nDirEntries = 1
      /\ sort_table = [p \in Places |-> p] /\ Becomes(Finish(u, "INIT_NEXT", 0))
      /\ MaxDirEntries \in Nat /\ MaxDirEntries > 1
  BY DirScanAssumption DEF WindowInv, ScanInitNext, ScanWith
<1>2. PICK p \in 1 .. Number(directory) :
        /\ Window(directory, Memory, p) /\ L!Top = p
        /\ Len(listing) = Number(directory) /\ iSelectedEntry \in 0 .. nDirEntries - 1
        /\ Len(shown) = nDirEntries /\ shown # <<>>
  BY <1>1, WindowNow
<1>3. Memory.n = 1 /\ Memory.sel = 0 /\ Begun(Memory) /\ Fresh(Memory) /\ iSelectedEntry = 0
  <2>1. Memory.sort = [p1 \in Places |-> p1]
    BY <1>1, MemoryIs
  <2> QED
    BY <1>1, <1>2, <2>1, MemoryIs DEF Fresh
<1>4. Window(d, u, p) /\ u.n = Min2(m - p + 1, M) /\ Same(u, Memory)
  BY <1>1, <1>2, <1>3, InitNextScan
<1> HIDE DEF u
<1>5. Becomes(u) /\ u.sel = 0
  BY <1>1, <1>3, <1>4, FinishNone DEF Same
<1>6. m \in Nat
  BY <1>1, ListIs
<1> HIDE DEF d, m, M
<1>7. u.n \in 1 .. M /\ p + u.n - 1 = L!Smaller(Len(listing), p + MaxDirEntries - 1)
  BY <1>1, <1>2, <1>4, <1>6 DEF m, d, M, Min2, L!Smaller
<1>8. u.n # 0 => u.sel \in 0 .. u.n - 1
  BY <1>5, <1>7
<1>9. /\ WindowInv' /\ UNCHANGED listing /\ iSelectedEntry' = u.sel
      /\ shown' = SubSeq(listing, p, p + u.n - 1)
  BY <1>4, <1>5, <1>8, BecomesIs DEF d
<1> QED
  BY <1>1, <1>2, <1>3, <1>5, <1>7, <1>9 DEF L!FillBelow, L!From

(* A program that starts has no window.                                      *)
NoMemory == [table |-> [p \in Places |-> NoRow], sort |-> [p \in Places |-> 0], n |-> 0,
             sel |-> 0, found |-> 0, temp |-> <<>>, lfn |-> NoLFN]

(* That is of the type of a scan.                                            *)
LEMMA NoMemoryIs ==
  ASSUME NEW d
  PROVE  NoMemory \in Scans(d)
<1>1. NoLFN \in Lfns /\ <<>> \in Seq(RowsOf(d)) /\ 0 \in Places /\ 0 \in 0 .. MaxDirEntries
  BY DirScanAssumption DEF NoLFN, Lfns, Places
<1> QED
  BY <1>1 DEF NoMemory, Scans

(* and the next program has none.                                            *)
LEMMA ScanRestartCloses ==
  ASSUME WindowInv, ScanRestart
  PROVE  WindowInv' /\ UNCHANGED listing /\ L!Close
<1>1. Memory' = NoMemory /\ nDirEntries' = 0 /\ UNCHANGED <<directory, listing>>
  BY DEF ScanRestart, Memory, NoMemory
<1>2. Memory' \in Scans(directory)
  BY <1>1, NoMemoryIs
<1>3. shown' = <<>>
  BY <1>1 DEF shown
<1>4. WindowInv'
  BY <1>1, <1>2 DEF WindowInv
<1> QED
  BY <1>1, <1>3, <1>4 DEF ScanRestart, L!Close

(* The first program has none either.                                        *)
LEMMA ScanInitialIs ==
  ASSUME ScanInitial
  PROVE  WindowInv /\ L!Init
<1>1. Memory = NoMemory /\ nDirEntries = 0 /\ directory \in Directories
      /\ listing = SortedList(directory)
  BY DEF ScanInitial, Memory, NoMemory
<1>2. Memory \in Scans(directory)
  BY <1>1, NoMemoryIs
<1>3. shown = <<>>
  BY <1>1 DEF shown
<1>4. WindowInv
  BY <1>1, <1>2 DEF WindowInv
<1> QED
  BY <1>3, <1>4 DEF ScanInitial, L!Init

(* Every step of the system keeps the invariant, and is one of the listing or *)
(* leaves it alone.                                                          *)
LEMMA BrowseStep ==
  ASSUME WindowInv, [StorageNext]_vars
  PROVE  /\ WindowInv'
         /\ [L!Next /\ UNCHANGED listing]_<<listing, shown, iSelectedEntry>>
<1>1. CASE UNCHANGED scanVars
  BY <1>1 DEF scanVars, WindowInv, Memory, shown
<1>2. CASE ScanRestart
  BY <1>2, ScanRestartCloses DEF L!Next
<1>3. CASE ScanDirectory
  <2>1. CASE ScanInit
    BY <2>1, ScanInitOpens DEF L!Next
  <2>2. CASE ScanNext
    BY <2>2, ScanNextDown DEF L!Next
  <2>3. CASE ScanPrev
    BY <2>3, ScanPrevUp DEF L!Next
  <2>4. CASE ScanNextPage
    BY <2>4, ScanNextPageDown DEF L!Next
  <2>5. CASE ScanPrevPage
    BY <2>5, ScanPrevPageUp DEF L!Next
  <2>6. CASE ScanFind
    BY <2>6, ScanFindJumps DEF L!Next
  <2>7. CASE ScanInitFirst
    BY <2>7, ScanInitFirstShows DEF L!Next
  <2>8. CASE ScanInitNext
    BY <2>8, ScanInitNextFills DEF L!Next
  <2> QED
    BY <1>3, <2>1, <2>2, <2>3, <2>4, <2>5, <2>6, <2>7, <2>8 DEF ScanDirectory
<1> QED
  BY <1>1, <1>2, <1>3 DEF StorageNext, NewProgram, Mounting, Browse, Change, vars

(* Whenever there is a window, it is one on the sorted list of the directory *)
(* and the selected row is in it: what every call of ScanDirectory keeps.    *)
THEOREM WindowInvariance == StorageSpec => []WindowInv
<1>1. StorageInit => WindowInv
  BY ScanInitialIs DEF StorageInit
<1>2. WindowInv /\ [StorageNext]_vars => WindowInv'
  BY BrowseStep
<1> QED
  BY <1>1, <1>2, PTL DEF StorageSpec

(* Whatever calls of ScanDirectory come in whatever order, the rows shown    *)
(* are a window on the sorted directory and move as the abstract listing     *)
(* says, in a directory and a table of any size.                             *)
THEOREM ListingImplemented == StorageSpec => ImplementsListing
<1>1. StorageInit => L!Init
  BY ScanInitialIs DEF StorageInit
<1>2. WindowInv /\ [StorageNext]_vars
        => [L!Next /\ UNCHANGED listing]_<<listing, shown, iSelectedEntry>>
  BY BrowseStep
<1> QED
  BY <1>1, <1>2, WindowInvariance, PTL DEF StorageSpec, ImplementsListing, L!Listing

=============================================================================
