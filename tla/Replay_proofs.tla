--------------------------- MODULE Replay_proofs ---------------------------
(* Theorems of the module player, for every song, every length of a pattern  *)
(* and every speed.                                                          *)
EXTENDS Replay, WellFoundedInduction, TLAPS

Nibble == 0..15
Byte   == 0..255
Note   == 0..4095
Row    == 0..(Rows - 1)
Bit    == 0..1

(* What the song allows: volumes up to the largest it brings, and numbers of *)
(* any size for periods, unless its finetunes are in the table.              *)
Brought  == {n \in Byte : \E i \in SampleNumbers : n = song.samples[i].volume}
Volume   == {n \in Byte : n <= 64 \/ \E z \in Brought : n <= z}
FineTune == {n \in Byte : InTune => n <= 15}
Period   == {n \in Int : InTune => n \in 0..MaxPeriod}

Channel ==
  [cmd : Nibble, cmdlo : Byte, note : Note, pattpos : Row, loopcount : Nibble,
   volume : Volume, finetune : FineTune, period : Period, wantedperiod : Period,
   toneportdirec : Bit, toneportspeed : Byte]

(* mt in the midst of an interrupt: a jump may have put any byte less one    *)
(* into SongPos.                                                             *)
Speed == 1..255
Delay == 0..16
Place == {p \in Int : p >= -1}

Midst ==
  [SongPos : Place, PatternPos : Row, PBreakPos : Row,
   PBreakFlag : BOOLEAN, PosJumpFlag : BOOLEAN,
   PattDelTime : Delay, PattDelTime2 : Nibble, counter : Nat, speed : Speed,
   LowMask : {255}, chan : [Voices -> Channel]]

InOrder(pos) == pos \in 0..(Positions - 1) /\ (pos = 0 \/ pos < song.length)

(* In the midst of an interrupt that plays a row: a row to go on at has been *)
(* named only together with a loop, break or jump.                           *)
Playing(m) ==
  /\ m \in Midst
  /\ m.counter = 0
  /\ m.PosJumpFlag \/ m.PBreakFlag \/ m.PBreakPos = 0
  /\ m.PosJumpFlag \/ InOrder(m.SongPos)

LEMMA HalvesOfAByte ==
  ASSUME NEW b \in Byte
  PROVE  High(b) \in Nibble /\ Low(b) \in Nibble
BY DEF High, Low, Byte, Nibble

LEMMA FieldsOfAChannel ==
  ASSUME NEW ch \in Channel
  PROVE  /\ ch.cmdlo \in Byte /\ ch.note \in Note /\ ch.cmd \in Nibble
         /\ ch.volume \in Volume /\ ch.finetune \in FineTune
         /\ ch.period \in Period /\ ch.wantedperiod \in Period
         /\ ch.toneportspeed \in Byte
         /\ ch.pattpos \in Row /\ ch.loopcount \in Nibble
BY DEF Channel

LEMMA OneFieldChanged ==
  ASSUME NEW ch \in Channel
  PROVE  /\ \A x \in Volume : [ch EXCEPT !.volume = x] \in Channel
         /\ \A x \in FineTune : [ch EXCEPT !.finetune = x] \in Channel
         /\ \A x \in Nibble : [ch EXCEPT !.loopcount = x] \in Channel
         /\ \A x \in Row : [ch EXCEPT !.pattpos = x] \in Channel
         /\ \A x \in Period : [ch EXCEPT !.period = x] \in Channel
BY DEF Channel

LEMMA TwoFieldsChanged ==
  ASSUME NEW ch \in Channel
  PROVE  /\ \A x \in Period, y \in Bit :
              [ch EXCEPT !.wantedperiod = x, !.toneportdirec = y] \in Channel
         /\ \A x, y \in Period :
              [ch EXCEPT !.period = x, !.wantedperiod = y] \in Channel
         /\ \A x, y \in Byte :
              [ch EXCEPT !.toneportspeed = x, !.cmdlo = y] \in Channel
BY DEF Channel

Entry == 0..MaxPeriod

LEMMA EntriesArePeriods ==
  \A k \in 0..605 : PeriodTable[k] \in Entry
BY PeriodTableAssumption DEF Entry

(* The index found is the first that is not above a period, or one past the  *)
(* row.                                                                      *)
LEMMA IndexIs ==
  ASSUME NEW tune \in Byte, NEW period \in Nat
  PROVE  LET k == IndexBelow(tune * 37, period)
         IN /\ k \in 0..37
            /\ \A j \in NoteIndexes : j < k => PeriodTable[tune * 37 + j] > period
<1> DEFINE base  == tune * 37
           Below == {i \in NoteIndexes : PeriodTable[base + i] <= period}
           First(k) == /\ k # 37 => PeriodTable[base + k] <= period
                       /\ \A j \in NoteIndexes : j < k => PeriodTable[base + j] > period
<1>1. \A i \in NoteIndexes : PeriodTable[base + i] \in Int
  <2>1. \A i \in NoteIndexes : base + i \in 0..(255 * 37 + 37)
    BY DEF Byte, NoteIndexes
  <2> QED
    BY <2>1, PeriodTableAssumption
<1>2. CASE Below = {}
  <2>1. \A j \in NoteIndexes : PeriodTable[base + j] > period
    <3> SUFFICES ASSUME NEW j \in NoteIndexes
                 PROVE  PeriodTable[base + j] > period
      OBVIOUS
    <3> DEFINE x == PeriodTable[base + j]
    <3>1. x \in Int /\ ~(x <= period)
      BY <1>1, <1>2
    <3> HIDE DEF x
    <3>2. x > period
      BY <3>1
    <3> QED
      BY <3>2 DEF x
  <2>2. First(37)
    BY <2>1
  <2>3. \E k \in 0..37 : First(k)
    BY <2>2
  <2> QED
    BY <2>3 DEF IndexBelow
<1>3. CASE Below # {}
  <2>1. Below \subseteq Nat
    BY DEF NoteIndexes
  <2>2. \E i \in Below : \A j \in Below : ~(<<j, i>> \in OpToRel(<, Nat))
    <3> HIDE DEF Below
    <3> QED
      BY <1>3, <2>1, WFMin, NatLessThanWellFounded
  <2>3. PICK i \in Below : \A j \in Below : ~(j < i)
    <3>1. \A j \in Nat, i \in Nat : j < i => <<j, i>> \in OpToRel(<, Nat)
      BY DEF OpToRel
    <3> HIDE DEF Below
    <3> QED
      BY <2>1, <2>2, <3>1
  <2>4. \A j \in NoteIndexes : j < i => PeriodTable[base + j] > period
    <3> SUFFICES ASSUME NEW j \in NoteIndexes, j < i
                 PROVE  PeriodTable[base + j] > period
      OBVIOUS
    <3> DEFINE x == PeriodTable[base + j]
    <3>1. x \in Int /\ ~(x <= period)
      BY <1>1, <2>3
    <3> HIDE DEF x
    <3>2. x > period
      BY <3>1
    <3> QED
      BY <3>2 DEF x
  <2>5. i \in 0..37 /\ First(i)
    BY <2>3, <2>4 DEF NoteIndexes
  <2> QED
    BY <2>5 DEF IndexBelow
<1> QED
  BY <1>2, <1>3

(* In every finetune's row of the table an entry not above a period is       *)
(* found, the last at the latest, which is 0.                                *)
LEMMA IndexIsInTune ==
  ASSUME NEW tune \in Nibble, NEW period \in Nat
  PROVE  IndexBelow(tune * 37, period) \in NoteIndexes
<1> DEFINE k == IndexBelow(tune * 37, period)
<1>1. k \in 0..37 /\ \A j \in NoteIndexes : j < k => PeriodTable[tune * 37 + j] > period
  <2>1. tune \in Byte
    BY DEF Nibble, Byte
  <2> QED
    BY <2>1, IndexIs
<1>2. 36 \in NoteIndexes /\ PeriodTable[tune * 37 + 36] = 0
  <2>1. \A n \in Nibble : PeriodTable[n * 37 + 36] = 0
    BY PeriodTableAssumption DEF Nibble
  <2>2. 36 \in NoteIndexes
    BY DEF NoteIndexes
  <2> QED
    BY <2>1, <2>2
<1> HIDE DEF k
<1>3. ~(36 < k)
  BY <1>1, <1>2
<1> QED
  BY <1>1, <1>3 DEF NoteIndexes, k

LEMMA EntryIsAPeriod ==
  ASSUME NEW tune \in FineTune, NEW i \in 0..37, InTune => i \in NoteIndexes
  PROVE  PeriodTable[tune * 37 + i] \in Period
<1>1. tune \in Byte /\ tune * 37 + i \in 0..(255 * 37 + 37)
  BY DEF FineTune, Byte
<1>2. PeriodTable[tune * 37 + i] \in Int
  BY <1>1, PeriodTableAssumption
<1>3. ASSUME InTune
      PROVE  PeriodTable[tune * 37 + i] \in 0..MaxPeriod
  <2>1. tune \in Nibble /\ i \in NoteIndexes
    BY <1>3 DEF FineTune, Byte, Nibble
  <2>2. tune * 37 + i \in 0..605
    BY <2>1 DEF Nibble, NoteIndexes
  <2> QED
    BY <2>2, EntriesArePeriods DEF Entry
<1> QED
  BY <1>2, <1>3 DEF Period

LEMMA VolumesKeepTheChannel ==
  ASSUME NEW ch \in Channel
  PROVE  /\ \A n \in Byte : Louder(ch, n) \in Channel /\ Softer(ch, n) \in Channel
         /\ VolumeSlide(ch) \in Channel
         /\ VolumeChange(ch) \in Channel
         /\ NoteCut(ch) \in Channel
<1>1. ASSUME NEW n \in Byte
      PROVE  /\ (IF ch.volume + n > 64 THEN 64 ELSE ch.volume + n) \in Volume
             /\ (IF ch.volume - n < 0 THEN 0 ELSE ch.volume - n) \in Volume
  <2> DEFINE x == ch.volume
  <2>1. x \in Volume
    BY FieldsOfAChannel
  <2> HIDE DEF x
  <2>2. (IF x + n > 64 THEN 64 ELSE x + n) \in Volume
    BY <2>1 DEF Byte, Volume
  <2>3. (IF x - n < 0 THEN 0 ELSE x - n) \in Volume
    <3> DEFINE y == IF x - n < 0 THEN 0 ELSE x - n
    <3>1. x \in Byte /\ y \in Byte /\ y <= x
      BY <2>1 DEF Byte, Volume
    <3>2. CASE x <= 64
      BY <3>1, <3>2 DEF Byte, Volume
    <3>3. ASSUME NEW z \in Brought, x <= z
          PROVE  y \in Volume
      <4>1. z \in Byte
        BY DEF Brought
      <4>2. y <= z
        <5> HIDE DEF y
        <5> QED
          BY <3>1, <3>3, <4>1 DEF Byte
      <4> QED
        BY <3>1, <4>2 DEF Volume
    <3> QED
      BY <2>1, <3>2, <3>3 DEF Volume
  <2> QED
    BY <2>2, <2>3 DEF x
<1>2. ASSUME NEW n \in Byte
      PROVE  Louder(ch, n) \in Channel /\ Softer(ch, n) \in Channel
  BY <1>1, OneFieldChanged DEF Louder, Softer
<1>3. High(ch.cmdlo) \in Byte /\ Low(ch.cmdlo) \in Byte
  <2>1. High(ch.cmdlo) \in Nibble /\ Low(ch.cmdlo) \in Nibble
    BY FieldsOfAChannel, HalvesOfAByte
  <2> QED
    BY <2>1 DEF Nibble, Byte
<1>4. VolumeSlide(ch) \in Channel
  BY <1>2, <1>3 DEF VolumeSlide
<1>5. (IF ch.cmdlo > 64 THEN 64 ELSE ch.cmdlo) \in Volume
  <2>1. ch.cmdlo \in Byte
    BY FieldsOfAChannel
  <2> QED
    BY <2>1 DEF Byte, Volume
<1>6. 0 \in Volume
  BY DEF Volume, Byte
<1> QED
  BY <1>2, <1>4, <1>5, <1>6, OneFieldChanged DEF VolumeChange, NoteCut

LEMMA SlidesKeepTheChannel ==
  ASSUME NEW ch \in Channel, NEW mask \in {15, 255}
  PROVE  Higher(ch, mask) \in Channel /\ Lower(ch, mask) \in Channel
<1> DEFINE n == Masked(ch, mask)
           p == ch.period
<1>1. n \in Byte /\ p \in Period
  <2>1. ch.cmdlo \in Byte /\ p \in Period
    BY FieldsOfAChannel
  <2>2. Low(ch.cmdlo) \in Byte
    BY <2>1, HalvesOfAByte DEF Nibble, Byte
  <2> QED
    BY <2>1, <2>2 DEF Masked
<1> HIDE DEF n, p
<1>2. /\ (IF p - n < 113 THEN 113 ELSE p - n) \in Period
      /\ (IF p + n > 856 THEN 856 ELSE p + n) \in Period
  <2>1. p \in Int /\ (InTune => p \in 0..MaxPeriod)
    BY <1>1 DEF Period
  <2> QED
    BY <1>1, <2>1 DEF Byte, Period, MaxPeriod
<1> QED
  BY <1>2, OneFieldChanged DEF Higher, Lower, n, p

LEMMA PortamentoKeepsTheChannel ==
  ASSUME NEW ch \in Channel
  PROVE  UpdateTonePortamento(ch) \in Channel /\ TonePortamento(ch) \in Channel
<1>1. ASSUME NEW c \in Channel
      PROVE  UpdateTonePortamento(c) \in Channel
  <2> DEFINE p == c.period
             w == c.wantedperiod
             s == c.toneportspeed
             down == c.toneportdirec = 1
             next == IF down THEN p - s ELSE p + s
             done == IF down THEN next <= w ELSE next >= w
  <2>1. p \in Period /\ w \in Period /\ s \in Byte
    BY FieldsOfAChannel
  <2>2. w > 0 /\ ~done => next \in Period
    <3> HIDE DEF p, w, s, down
    <3> QED
      BY <2>1, SMTT(30) DEF Period, Byte, MaxPeriod
  <2>3. 0 \in Period
    BY DEF Period, MaxPeriod
  <2>4. UpdateTonePortamento(c) =
          CASE w <= 0 -> c
            [] w > 0 /\ done -> [c EXCEPT !.period = w, !.wantedperiod = 0]
            [] OTHER -> [c EXCEPT !.period = next]
    BY DEF UpdateTonePortamento
  <2>5. [c EXCEPT !.period = w, !.wantedperiod = 0] \in Channel
    BY <2>1, <2>3, TwoFieldsChanged
  <2>6. w > 0 /\ ~done => [c EXCEPT !.period = next] \in Channel
    BY <2>2, OneFieldChanged
  <2>7. w \in Int
    BY <2>1 DEF Period
  <2> HIDE DEF p, w, s, down, next, done
  <2> QED
    BY <2>4, <2>5, <2>6, <2>7
<1>2. 0 \in Byte
  BY DEF Byte
<1>3. [ch EXCEPT !.toneportspeed = ch.cmdlo, !.cmdlo = 0] \in Channel
  BY <1>2, FieldsOfAChannel, TwoFieldsChanged
<1> QED
  BY <1>1, <1>3 DEF TonePortamento

LEMMA TuningKeepsTheChannel ==
  ASSUME NEW ch \in Channel
  PROVE  SetFineTune(ch) \in Channel /\ Tuned(ch) \in Channel /\ SetTonePorta(ch) \in Channel
<1>1. ch.note \in Nat /\ ch.finetune \in FineTune
  <2>1. Note \subseteq Nat
    BY DEF Note
  <2> QED
    BY <2>1, FieldsOfAChannel
<1>2. SetFineTune(ch) \in Channel
  <2>1. Low(ch.cmdlo) \in FineTune
    <3>1. Low(ch.cmdlo) \in Nibble
      BY FieldsOfAChannel, HalvesOfAByte
    <3> QED
      BY <3>1 DEF Nibble, Byte, FineTune
  <2> QED
    BY <2>1, OneFieldChanged DEF SetFineTune
<1>3. IndexBelow(0, ch.note) \in NoteIndexes
  <2>1. 0 \in Nibble /\ 0 * 37 = 0
    BY DEF Nibble
  <2> QED
    BY <1>1, <2>1, IndexIsInTune
<1>4. PeriodTable[ch.finetune * 37 + IndexBelow(0, ch.note)] \in Period
  <2>1. IndexBelow(0, ch.note) \in 0..37
    BY <1>3 DEF NoteIndexes
  <2> QED
    BY <1>1, <1>3, <2>1, EntryIsAPeriod
<1>5. Tuned(ch) \in Channel
  BY <1>4, OneFieldChanged DEF Tuned
<1> DEFINE i == IndexBelow(ch.finetune * 37, ch.note)
           k == IF Flat(ch.finetune) /\ i > 0 THEN i - 1 ELSE i
           wanted == PeriodTable[ch.finetune * 37 + k]
<1>6. k \in 0..37 /\ (InTune => k \in NoteIndexes)
  <2>1. i \in 0..37
    BY <1>1, IndexIs DEF FineTune
  <2>2. InTune => i \in NoteIndexes
    <3>1. InTune => ch.finetune \in Nibble
      BY <1>1 DEF FineTune, Byte, Nibble
    <3> QED
      BY <1>1, <3>1, IndexIsInTune
  <2> HIDE DEF i
  <2> QED
    BY <2>1, <2>2 DEF NoteIndexes
<1>7. wanted \in Period
  <2> HIDE DEF k
  <2> QED
    BY <1>1, <1>6, EntryIsAPeriod
<1> DEFINE aim   == IF ch.period = wanted THEN 0 ELSE wanted
           direc == IF ch.period > wanted THEN 1 ELSE 0
<1>8. aim \in Period /\ direc \in Bit
  <2> HIDE DEF wanted
  <2>1. 0 \in Period /\ 0 \in Bit /\ 1 \in Bit
    BY DEF Period, MaxPeriod, Bit
  <2> QED
    BY <1>7, <2>1
<1>9. SetTonePorta(ch) = [ch EXCEPT !.wantedperiod = aim, !.toneportdirec = direc]
  BY DEF SetTonePorta
<1>10. SetTonePorta(ch) \in Channel
  <2> HIDE DEF aim, direc
  <2>1. \A x \in Period, y \in Bit :
          [ch EXCEPT !.wantedperiod = x, !.toneportdirec = y] \in Channel
    BY TwoFieldsChanged
  <2>2. [ch EXCEPT !.wantedperiod = aim, !.toneportdirec = direc] \in Channel
    BY <1>8, <2>1
  <2> QED
    BY <1>9, <2>2
<1> QED
  BY <1>2, <1>5, <1>10

(* A channel may be replaced at any time.                                    *)
LEMMA ChannelPut ==
  ASSUME NEW m \in Midst, NEW v \in Voices
  PROVE  /\ m.chan[v] \in Channel
         /\ \A c \in Channel :
              /\ [m.chan EXCEPT ![v] = c] \in [Voices -> Channel]
              /\ Put(m, v, c) \in Midst
<1>1. m.chan \in [Voices -> Channel]
  BY DEF Midst
<1>2. \A c \in Channel : [m.chan EXCEPT ![v] = c] \in [Voices -> Channel]
  BY <1>1
<1>3. \A f \in [Voices -> Channel] : [m EXCEPT !.chan = f] \in Midst
  BY DEF Midst
<1> QED
  BY <1>1, <1>2, <1>3 DEF Put

LEMMA PlayingPut ==
  ASSUME NEW m, NEW v \in Voices, NEW c \in Channel, Playing(m)
  PROVE  Playing(Put(m, v, c))
<1>1. m \in Midst
  BY DEF Playing
<1>2. Put(m, v, c) \in Midst
  BY <1>1, ChannelPut
<1>3. \A f : LET n == [m EXCEPT !.chan = f]
             IN /\ n.counter = m.counter /\ n.PosJumpFlag = m.PosJumpFlag
                /\ n.PBreakFlag = m.PBreakFlag /\ n.PBreakPos = m.PBreakPos
                /\ n.SongPos = m.SongPos
  BY <1>1 DEF Midst
<1> QED
  BY <1>2, <1>3 DEF Playing, Put

LEMMA MaskRestored ==
  ASSUME NEW m \in Midst
  PROVE  /\ [m EXCEPT !.LowMask = 255] = m
         /\ [[m EXCEPT !.LowMask = 15] EXCEPT !.LowMask = 255] = m
         /\ [m EXCEPT !.LowMask = 15].chan = m.chan
         /\ [m EXCEPT !.LowMask = 15].LowMask = 15
         /\ m.LowMask = 255
BY ZenonT(60) DEF Midst

(* Whatever a slide does, it is the replacement of a channel: LowMask is 255 *)
(* again when it is done.                                                    *)
LEMMA SlidesArePuts ==
  ASSUME NEW m \in Midst, NEW v \in Voices
  PROVE  /\ PortaUp(m, v) = Put(m, v, Higher(m.chan[v], 255))
         /\ PortaDown(m, v) = Put(m, v, Lower(m.chan[v], 255))
         /\ PortaUp([m EXCEPT !.LowMask = 15], v) = Put(m, v, Higher(m.chan[v], 15))
         /\ PortaDown([m EXCEPT !.LowMask = 15], v) = Put(m, v, Lower(m.chan[v], 15))
BY MaskRestored, ZenonT(60) DEF PortaUp, PortaDown

Puts(m, v) == {Put(m, v, c) : c \in Channel}

LEMMA SlidesOfAVoice ==
  ASSUME NEW m \in Midst, NEW v \in Voices
  PROVE  /\ m \in Puts(m, v)
         /\ PortaUp(m, v) \in Puts(m, v) /\ PortaDown(m, v) \in Puts(m, v)
         /\ FinePortaUp(m, v) \in Puts(m, v) /\ FinePortaDown(m, v) \in Puts(m, v)
         /\ VolumeFineUp(m, v) \in Puts(m, v) /\ VolumeFineDown(m, v) \in Puts(m, v)
<1> DEFINE ch == m.chan[v]
<1>1. ch \in Channel
  BY ChannelPut
<1>2. m = Put(m, v, ch)
  BY DEF Midst, Put
<1>3. m \in Puts(m, v)
  BY <1>1, <1>2 DEF Puts
<1>4. /\ Higher(ch, 255) \in Channel /\ Lower(ch, 255) \in Channel
      /\ Higher(ch, 15) \in Channel /\ Lower(ch, 15) \in Channel
  BY <1>1, SlidesKeepTheChannel
<1>5. Louder(ch, Low(ch.cmdlo)) \in Channel /\ Softer(ch, Low(ch.cmdlo)) \in Channel
  <2>1. Nibble \subseteq Byte
    BY DEF Nibble, Byte
  <2>2. Low(ch.cmdlo) \in Byte
    BY <1>1, <2>1, FieldsOfAChannel, HalvesOfAByte
  <2> QED
    BY <1>1, <2>2, VolumesKeepTheChannel
<1>6. \A c \in Channel : Put(m, v, c) \in Puts(m, v)
  BY DEF Puts
<1>7. /\ PortaUp(m, v) = Put(m, v, Higher(ch, 255))
      /\ PortaDown(m, v) = Put(m, v, Lower(ch, 255))
      /\ FinePortaUp(m, v) \in {m, Put(m, v, Higher(ch, 15))}
      /\ FinePortaDown(m, v) \in {m, Put(m, v, Lower(ch, 15))}
  BY SlidesArePuts DEF FinePortaUp, FinePortaDown
<1>8. /\ VolumeFineUp(m, v) \in {m, Put(m, v, Louder(ch, Low(ch.cmdlo)))}
      /\ VolumeFineDown(m, v) \in {m, Put(m, v, Softer(ch, Low(ch.cmdlo)))}
  BY DEF VolumeFineUp, VolumeFineDown
<1> HIDE DEF ch
<1> QED
  BY <1>3, <1>4, <1>5, <1>6, <1>7, <1>8

(* An E command replaces a channel, loops or delays; and it does the last    *)
(* two only when a row is played, not between two rows.                      *)
LEMMA ECommandOfAVoice ==
  ASSUME NEW m \in Midst, NEW v \in Voices
  PROVE  \/ E_Commands(m, v) \in Puts(m, v)
         \/ m.counter = 0 /\ E_Commands(m, v) \in {JumpLoop(m, v), PatternDelay(m, v)}
<1> DEFINE ch == m.chan[v]
           e  == High(ch.cmdlo)
<1>1. ch \in Channel
  BY ChannelPut
<1>2. SetFineTune(ch) \in Channel /\ NoteCut(ch) \in Channel
  BY <1>1, TuningKeepsTheChannel, VolumesKeepTheChannel
<1>3. Put(m, v, SetFineTune(ch)) \in Puts(m, v) /\ Put(m, v, NoteCut(ch)) \in Puts(m, v)
  BY <1>2 DEF Puts
<1>4. m.counter # 0 => JumpLoop(m, v) = m /\ PatternDelay(m, v) = m
  BY DEF JumpLoop, PatternDelay
<1>5. E_Commands(m, v) \in
        {FinePortaUp(m, v), FinePortaDown(m, v), Put(m, v, SetFineTune(ch)),
         JumpLoop(m, v), VolumeFineUp(m, v), VolumeFineDown(m, v),
         Put(m, v, NoteCut(ch)), PatternDelay(m, v), m}
  BY Zenon DEF E_Commands
<1> HIDE DEF ch
<1> QED
  BY <1>3, <1>4, <1>5, SlidesOfAVoice

LEMMA EffectOfAVoice ==
  ASSUME NEW m \in Midst, NEW v \in Voices
  PROVE  \/ CheckEfx(m, v) \in Puts(m, v)
         \/ m.counter = 0 /\ CheckEfx(m, v) \in {JumpLoop(m, v), PatternDelay(m, v)}
<1> DEFINE ch == m.chan[v]
           c1 == TonePortamento(ch)
           c2 == VolumeSlide(UpdateTonePortamento(ch))
           c3 == VolumeSlide(ch)
<1>1. ch \in Channel
  BY ChannelPut
<1>2. c1 \in Channel /\ c2 \in Channel /\ c3 \in Channel
  BY <1>1, PortamentoKeepsTheChannel, VolumesKeepTheChannel
<1>3. CheckEfx(m, v) \in
        {PortaUp(m, v), PortaDown(m, v), Put(m, v, c1), Put(m, v, c2), Put(m, v, c3),
         E_Commands(m, v), m}
  BY Zenon DEF CheckEfx
<1> HIDE DEF ch, c1, c2, c3
<1>4. \A c \in Channel : Put(m, v, c) \in Puts(m, v)
  BY DEF Puts
<1> QED
  BY <1>2, <1>3, <1>4, SlidesOfAVoice, ECommandOfAVoice

LEMMA PlayingPuts ==
  ASSUME NEW m, NEW v \in Voices, NEW n \in Puts(m, v), Playing(m)
  PROVE  Playing(n)
BY PlayingPut DEF Puts

(* The commands that send the song elsewhere.                                *)
LEMMA PlayingGoesOn ==
  ASSUME NEW m, Playing(m), NEW r \in Row
  PROVE  /\ Playing([m EXCEPT !.PBreakPos = r, !.PBreakFlag = TRUE])
         /\ Playing([m EXCEPT !.PBreakPos = r, !.PosJumpFlag = TRUE])
         /\ \A p \in Place :
              Playing([m EXCEPT !.SongPos = p, !.PBreakPos = r, !.PosJumpFlag = TRUE])
         /\ \A d \in Delay : Playing([m EXCEPT !.PattDelTime = d])
         /\ Playing([m EXCEPT !.counter = 0])
         /\ \A s \in Speed : Playing([m EXCEPT !.counter = 0, !.speed = s])
<1>1. m \in Midst
  BY DEF Playing
<1>2. 0 \in Nat
  OBVIOUS
<1>3. Playing([m EXCEPT !.PBreakPos = r, !.PBreakFlag = TRUE])
  <2> DEFINE n == [m EXCEPT !.PBreakPos = r, !.PBreakFlag = TRUE]
  <2>1. n \in Midst /\ n.PBreakFlag /\ n.counter = m.counter
        /\ n.PosJumpFlag = m.PosJumpFlag /\ n.SongPos = m.SongPos
    BY <1>1 DEF Midst
  <2> QED
    BY <2>1 DEF Playing
<1>4. Playing([m EXCEPT !.PBreakPos = r, !.PosJumpFlag = TRUE])
  <2> DEFINE n == [m EXCEPT !.PBreakPos = r, !.PosJumpFlag = TRUE]
  <2>1. n \in Midst /\ n.PosJumpFlag /\ n.counter = m.counter
    BY <1>1 DEF Midst
  <2> QED
    BY <2>1 DEF Playing
<1>5. ASSUME NEW p \in Place
      PROVE  Playing([m EXCEPT !.SongPos = p, !.PBreakPos = r, !.PosJumpFlag = TRUE])
  <2> DEFINE n == [m EXCEPT !.SongPos = p, !.PBreakPos = r, !.PosJumpFlag = TRUE]
  <2>1. n \in Midst /\ n.PosJumpFlag /\ n.counter = m.counter
    BY <1>1 DEF Midst
  <2> QED
    BY <2>1 DEF Playing
<1>6. ASSUME NEW d \in Delay
      PROVE  Playing([m EXCEPT !.PattDelTime = d])
  <2> DEFINE n == [m EXCEPT !.PattDelTime = d]
  <2>1. /\ n \in Midst /\ n.PosJumpFlag = m.PosJumpFlag /\ n.counter = m.counter
        /\ n.PBreakFlag = m.PBreakFlag /\ n.PBreakPos = m.PBreakPos
        /\ n.SongPos = m.SongPos
    BY <1>1 DEF Midst
  <2> QED
    BY <2>1 DEF Playing
<1>7. Playing([m EXCEPT !.counter = 0])
  <2> DEFINE n == [m EXCEPT !.counter = 0]
  <2>1. /\ n \in Midst /\ n.PosJumpFlag = m.PosJumpFlag /\ n.counter = 0
        /\ n.PBreakFlag = m.PBreakFlag /\ n.PBreakPos = m.PBreakPos
        /\ n.SongPos = m.SongPos
    BY <1>1, <1>2 DEF Midst
  <2> QED
    BY <2>1 DEF Playing
<1>8. ASSUME NEW s \in Speed
      PROVE  Playing([m EXCEPT !.counter = 0, !.speed = s])
  <2> DEFINE n == [m EXCEPT !.counter = 0, !.speed = s]
  <2>1. /\ n \in Midst /\ n.PosJumpFlag = m.PosJumpFlag /\ n.counter = 0
        /\ n.PBreakFlag = m.PBreakFlag /\ n.PBreakPos = m.PBreakPos
        /\ n.SongPos = m.SongPos
    BY <1>1, <1>2 DEF Midst
  <2> QED
    BY <2>1 DEF Playing
<1> QED
  BY <1>3, <1>4, <1>5, <1>6, <1>7, <1>8

LEMMA PlayingLoopsAndDelays ==
  ASSUME NEW m, NEW v \in Voices, Playing(m)
  PROVE  Playing(JumpLoop(m, v)) /\ Playing(PatternDelay(m, v))
<1> DEFINE ch   == m.chan[v]
           dat  == Low(ch.cmdlo)
           left == IF ch.loopcount <= 0 THEN dat ELSE ch.loopcount - 1
<1>1. m \in Midst
  BY DEF Playing
<1>2. ch \in Channel
  BY <1>1, ChannelPut
<1>3. dat \in Nibble /\ ch.loopcount \in Nibble /\ ch.pattpos \in Row
  BY <1>2, FieldsOfAChannel, HalvesOfAByte
<1>4. left \in Nibble
  <2> DEFINE c == ch.loopcount
  <2> HIDE DEF dat, c
  <2> QED
    BY <1>3 DEF Nibble, c
<1>5. m.PatternPos \in Row
  BY <1>1 DEF Midst
<1>6. Playing(Put(m, v, [ch EXCEPT !.pattpos = m.PatternPos]))
  BY <1>2, <1>5, OneFieldChanged, PlayingPut
<1>7. Playing(Put(m, v, [ch EXCEPT !.loopcount = left]))
  BY <1>2, <1>4, OneFieldChanged, PlayingPut, SMTT(30)
<1>8. Playing([Put(m, v, [ch EXCEPT !.loopcount = left])
                 EXCEPT !.PBreakPos = ch.pattpos, !.PBreakFlag = TRUE])
  BY <1>3, <1>7, PlayingGoesOn
<1>9. JumpLoop(m, v) \in
        {m, Put(m, v, [ch EXCEPT !.pattpos = m.PatternPos]),
         Put(m, v, [ch EXCEPT !.loopcount = left]),
         [Put(m, v, [ch EXCEPT !.loopcount = left])
            EXCEPT !.PBreakPos = ch.pattpos, !.PBreakFlag = TRUE]}
  BY Zenon DEF JumpLoop
<1>10. dat + 1 \in Delay
  <2> HIDE DEF dat
  <2> QED
    BY <1>3, SMTT(30) DEF Nibble, Delay
<1>11. Playing([m EXCEPT !.PattDelTime = dat + 1])
  BY <1>5, <1>10, PlayingGoesOn
<1>12. PatternDelay(m, v) \in {m, [m EXCEPT !.PattDelTime = dat + 1]}
  BY DEF PatternDelay
<1> HIDE DEF ch, dat, left
<1> QED
  BY <1>6, <1>7, <1>8, <1>9, <1>11, <1>12

LEMMA PlayingJumpsAndBreaks ==
  ASSUME NEW m, NEW v \in Voices, Playing(m)
  PROVE  /\ Playing(PositionJump(m, v)) /\ Playing(PatternBreak(m, v))
         /\ Playing(SetSpeed(m, v))
<1> DEFINE lo == m.chan[v].cmdlo
<1>1. m \in Midst
  BY DEF Playing
<1>2. lo \in Byte
  <2>1. m.chan[v] \in Channel
    BY <1>1, ChannelPut
  <2> QED
    BY <2>1, FieldsOfAChannel
<1>3. 0 \in Row
  BY RowsAssumption DEF Row
<1>4. lo - 1 \in Place
  <2> HIDE DEF lo
  <2> QED
    BY <1>2 DEF Byte, Place
<1>5. BreakRow(lo) \in Row
  <2>1. High(lo) \in Nat /\ Low(lo) \in Nat
    <3>1. Nibble \subseteq Nat
      BY DEF Nibble
    <3> QED
      BY <1>2, <3>1, HalvesOfAByte
  <2> DEFINE row == High(lo) * 10 + Low(lo)
  <2>2. row \in Nat
    BY <2>1
  <2> HIDE DEF row
  <2>3. (IF row > Rows - 1 THEN 0 ELSE row) \in Row
    BY <2>2, RowsAssumption DEF Row
  <2> QED
    BY <2>3 DEF BreakRow, row
<1>6. lo # 0 => lo \in Speed
  <2> HIDE DEF lo
  <2> QED
    BY <1>2 DEF Byte, Speed
<1>7. Playing(PositionJump(m, v))
  BY <1>3, <1>4, PlayingGoesOn, ZenonT(60) DEF PositionJump
<1>8. Playing(PatternBreak(m, v))
  BY <1>5, PlayingGoesOn DEF PatternBreak
<1>9. SetSpeed(m, v) \in
        {m, [m EXCEPT !.counter = 0]} \cup
        (IF lo = 0 THEN {} ELSE {[m EXCEPT !.counter = 0, !.speed = lo]})
  <2>1. CASE lo = 0
    BY <2>1 DEF SetSpeed
  <2>2. CASE lo # 0
    <3>1. lo > 0
      <4> HIDE DEF lo
      <4> QED
        BY <1>2, <2>2 DEF Byte
    <3> QED
      BY <2>2, <3>1, Zenon DEF SetSpeed
  <2> QED
    BY <2>1, <2>2
<1>10. Playing(SetSpeed(m, v))
  <2> HIDE DEF lo
  <2>1. /\ Playing([m EXCEPT !.counter = 0])
        /\ \A s \in Speed : Playing([m EXCEPT !.counter = 0, !.speed = s])
    BY <1>3, PlayingGoesOn
  <2>2. lo # 0 => Playing([m EXCEPT !.counter = 0, !.speed = lo])
    BY <1>6, <2>1
  <2> QED
    BY <1>9, <2>1, <2>2, ZenonT(60)
<1> QED
  BY <1>7, <1>8, <1>10

LEMMA PlayingEffect ==
  ASSUME NEW m, NEW v \in Voices, Playing(m)
  PROVE  Playing(CheckEfx(m, v)) /\ Playing(CheckMoreEfx(m, v))
<1>1. m \in Midst
  BY DEF Playing
<1>2. Playing(CheckEfx(m, v))
  BY <1>1, EffectOfAVoice, PlayingPuts, PlayingLoopsAndDelays
<1>3. Playing(E_Commands(m, v))
  BY <1>1, ECommandOfAVoice, PlayingPuts, PlayingLoopsAndDelays
<1>4. Playing(Put(m, v, VolumeChange(m.chan[v])))
  <2>1. VolumeChange(m.chan[v]) \in Channel
    BY <1>1, ChannelPut, VolumesKeepTheChannel
  <2> QED
    BY <2>1, PlayingPut
<1>5. CheckMoreEfx(m, v) \in
        {PositionJump(m, v), Put(m, v, VolumeChange(m.chan[v])), PatternBreak(m, v),
         E_Commands(m, v), SetSpeed(m, v), m}
  BY Zenon DEF CheckMoreEfx
<1> QED
  BY <1>2, <1>3, <1>4, <1>5, PlayingJumpsAndBreaks

LEMMA TakenIsAChannel ==
  ASSUME NEW ch \in Channel, NEW cell \in Cells, song \in Songs
  PROVE  Taken(ch, cell) \in Channel
<1> DEFINE n == [ch EXCEPT !.note = cell.note, !.cmd = cell.cmd, !.cmdlo = cell.lo]
           s == song.samples[cell.sample]
<1>1. cell.note \in Note /\ cell.cmd \in Nibble /\ cell.lo \in Byte
  BY DEF Cells, Note, Nibble, Byte
<1>2. n \in Channel
  BY <1>1 DEF Channel
<1>3. cell.sample \in SampleNumbers => s.finetune \in FineTune /\ s.volume \in Volume
  <2> SUFFICES ASSUME cell.sample \in SampleNumbers
               PROVE  s.finetune \in FineTune /\ s.volume \in Volume
    OBVIOUS
  <2>1. s \in Samples
    BY SongsAssumption
  <2>2. s.finetune \in Byte /\ s.volume \in Byte
    BY <2>1 DEF Samples, Byte
  <2>3. InTune => s.finetune <= 15
    BY <2>2 DEF InTune, Byte
  <2>4. s.volume \in Brought
    BY <2>2 DEF Brought
  <2>5. s.volume <= s.volume
    <3> DEFINE x == s.volume
    <3>1. x \in Byte
      BY <2>2
    <3> HIDE DEF x
    <3>2. x <= x
      BY <3>1 DEF Byte
    <3> QED
      BY <3>2 DEF x
  <2> QED
    BY <2>2, <2>3, <2>4, <2>5 DEF FineTune, Volume
<1>4. cell.sample \in SampleNumbers =>
        [n EXCEPT !.finetune = s.finetune, !.volume = s.volume] \in Channel
  <2> HIDE DEF s, n
  <2> QED
    BY <1>2, <1>3 DEF Channel
<1> QED
  BY <1>2, <1>4 DEF Taken

LEMMA PlayingCell ==
  ASSUME NEW m, NEW v \in Voices, Playing(m)
  PROVE  Playing(PlayCell(m, v))
<1> DEFINE ch == m.chan[v]
<1>1. ch \in Channel
  BY ChannelPut DEF Playing
<1>2. \A n : Playing(n) => Playing(SetPeriod(n, v))
  <2> SUFFICES ASSUME NEW n, Playing(n)
               PROVE  Playing(SetPeriod(n, v))
    OBVIOUS
  <2>1. Tuned(n.chan[v]) \in Channel
    BY ChannelPut, TuningKeepsTheChannel DEF Playing
  <2>2. Playing(Put(n, v, Tuned(n.chan[v])))
    BY <2>1, PlayingPut
  <2> QED
    BY <2>2, PlayingEffect DEF SetPeriod
<1>3. Playing(Put(m, v, SetFineTune(ch))) /\ Playing(Put(m, v, SetTonePorta(ch)))
  BY <1>1, TuningKeepsTheChannel, PlayingPut
<1>4. PlayCell(m, v) \in
        {CheckMoreEfx(m, v), SetPeriod(Put(m, v, SetFineTune(ch)), v),
         CheckMoreEfx(Put(m, v, SetTonePorta(ch)), v), SetPeriod(m, v)}
  BY Zenon DEF PlayCell
<1> QED
  BY <1>2, <1>3, <1>4, PlayingEffect

Settling == song \in Songs /\ mt \in Midst /\ Settled

LEMMA PlayingVoice ==
  ASSUME NEW m, NEW v \in Voices, Playing(m), Settling
  PROVE  Playing(PlayVoice(m, v))
<1> DEFINE cell == song.pattern[song.order[mt.SongPos]][mt.PatternPos][v]
<1>1. cell \in Cells
  <2>1. /\ song \in Songs
        /\ mt.SongPos \in 0..(Positions - 1) /\ mt.PatternPos \in 0..(Rows - 1)
    BY DEF Settling, Settled
  <2>2. \A p \in 0..(Positions - 1), r \in 0..(Rows - 1), w \in Voices :
          song.pattern[song.order[p]][r][w] \in Cells
    BY <2>1, SongsAssumption
  <2> QED
    BY <2>1, <2>2
<1>2. m.chan[v] \in Channel
  BY ChannelPut DEF Playing
<1> HIDE DEF cell
<1>3. Taken(m.chan[v], cell) \in Channel
  BY <1>1, <1>2, TakenIsAChannel DEF Settling
<1>4. Playing(PlayCell(Put(m, v, Taken(m.chan[v], cell)), v))
  BY <1>3, PlayingPut, PlayingCell
<1> QED
  BY <1>4 DEF PlayVoice, cell

LEMMA PlayingRow ==
  ASSUME Settling
  PROVE  Playing(Notes(OnRow)) /\ Playing(Effects(OnRow))
<1>1. Playing(OnRow)
  <2>1. mt \in Midst /\ ~mt.PBreakFlag /\ ~mt.PosJumpFlag /\ mt.PBreakPos = 0
    BY DEF Settling, Settled
  <2>2. InOrder(mt.SongPos)
    BY DEF Settling, Settled, InOrder
  <2>3. OnRow \in Midst /\ OnRow.counter = 0 /\ OnRow.PBreakPos = mt.PBreakPos
        /\ OnRow.SongPos = mt.SongPos
    <3>1. 0 \in Nat
      OBVIOUS
    <3> QED
      BY <2>1, <3>1 DEF OnRow, Midst
  <2> QED
    BY <2>1, <2>2, <2>3 DEF Playing
<1>2. 1 \in Voices /\ 2 \in Voices /\ 3 \in Voices /\ 4 \in Voices
  BY DEF Voices
<1>3. Playing(Notes(OnRow))
  BY <1>1, <1>2, PlayingVoice DEF Notes
<1>4. Playing(Effects(OnRow))
  BY <1>1, <1>2, PlayingEffect DEF Effects
<1> QED
  BY <1>3, <1>4

(* What mt_dskip leaves behind.                                              *)
AtRest(m) ==
  /\ m \in Midst /\ InOrder(m.SongPos)
  /\ ~m.PBreakFlag /\ ~m.PosJumpFlag /\ m.PBreakPos = 0 /\ m.PattDelTime = 0

LEMMA RemainderInRange ==
  ASSUME NEW a \in Nat, NEW n \in Nat \ {0}
  PROVE  a % n \in 0..(n - 1)
OBVIOUS

(* mt_dskip looks for the end of the pattern only after it has moved the     *)
(* row, perhaps past that end.                                               *)
Stepped ==
  [SongPos : Place, PatternPos : Nat, PBreakPos : Row,
   PBreakFlag : BOOLEAN, PosJumpFlag : BOOLEAN,
   PattDelTime : Delay, PattDelTime2 : Nibble, counter : Nat, speed : Speed,
   LowMask : {255}, chan : [Voices -> Channel]]

LEMMA RowIsMoved ==
  ASSUME NEW m, Playing(m)
  PROVE  LET n == Skip(m)
         IN /\ n \in Stepped /\ ~n.PBreakFlag /\ n.PattDelTime = 0 /\ n.counter = 0
            /\ n.PosJumpFlag = m.PosJumpFlag /\ n.SongPos = m.SongPos
            /\ n.PosJumpFlag \/ n.PBreakPos = 0
<1> DEFINE delay == IF m.PattDelTime > 0 THEN m.PattDelTime ELSE m.PattDelTime2
           left  == IF delay > 0 THEN delay - 1 ELSE 0
           row   == IF left > 0 THEN m.PatternPos ELSE m.PatternPos + 1
           n     == [m EXCEPT !.PattDelTime = 0, !.PattDelTime2 = left,
                              !.PatternPos = row]
           k     == [n EXCEPT !.PBreakFlag = FALSE, !.PatternPos = m.PBreakPos,
                              !.PBreakPos = 0]
<1>1. m \in Midst /\ m.counter = 0
  BY DEF Playing
<1>2. /\ m.PattDelTime \in Delay /\ m.PattDelTime2 \in Nibble
      /\ m.PatternPos \in Row /\ m.PBreakPos \in Row
  BY <1>1 DEF Midst
<1>3. left \in Nibble
  <2>1. \A d1 \in Delay, d2 \in Nibble :
          LET d == IF d1 > 0 THEN d1 ELSE d2
          IN (IF d > 0 THEN d - 1 ELSE 0) \in Nibble
    BY DEF Delay, Nibble
  <2> QED
    BY <1>2, <2>1
<1>4. Row \subseteq Nat /\ 0 \in Row /\ 0 \in Delay
  BY RowsAssumption DEF Row, Delay
<1>5. row \in Nat /\ m.PBreakPos \in Nat
  <2>1. m.PatternPos \in Nat /\ m.PBreakPos \in Nat
    BY <1>2, <1>4
  <2> HIDE DEF left
  <2> QED
    BY <2>1
<1>6. /\ n \in Stepped /\ n.PattDelTime = 0 /\ n.counter = m.counter
      /\ n.PosJumpFlag = m.PosJumpFlag /\ n.SongPos = m.SongPos
      /\ n.PBreakFlag = m.PBreakFlag /\ n.PBreakPos = m.PBreakPos
  <2> HIDE DEF left, row
  <2>1. n \in Stepped
    <3> DEFINE rested == [m EXCEPT !.PattDelTime = 0, !.PattDelTime2 = left]
    <3>1. \A x \in Midst, d1 \in Delay, d2 \in Nibble :
            [x EXCEPT !.PattDelTime = d1, !.PattDelTime2 = d2] \in Midst
      BY DEF Midst
    <3>2. \A x \in Midst, r \in Nat : [x EXCEPT !.PatternPos = r] \in Stepped
      BY <1>4 DEF Midst, Stepped
    <3>3. rested \in Midst
      BY <1>1, <1>3, <1>4, <3>1
    <3>4. n = [rested EXCEPT !.PatternPos = row]
      BY <1>1 DEF Midst
    <3> HIDE DEF rested, n
    <3>5. [rested EXCEPT !.PatternPos = row] \in Stepped
      BY <1>5, <3>2, <3>3
    <3> QED
      BY <3>4, <3>5
  <2>2. /\ n.PattDelTime = 0 /\ n.counter = m.counter
        /\ n.PosJumpFlag = m.PosJumpFlag /\ n.SongPos = m.SongPos
        /\ n.PBreakFlag = m.PBreakFlag /\ n.PBreakPos = m.PBreakPos
    BY <1>1 DEF Midst
  <2> QED
    BY <2>1, <2>2
<1>7. /\ k \in Stepped /\ ~k.PBreakFlag /\ k.PattDelTime = 0 /\ k.counter = n.counter
      /\ k.PosJumpFlag = n.PosJumpFlag /\ k.SongPos = n.SongPos /\ k.PBreakPos = 0
  <2> HIDE DEF n
  <2>1. n \in Stepped /\ m.PBreakPos \in Nat /\ 0 \in Row
    BY <1>4, <1>5, <1>6
  <2>2. k \in Stepped
    BY <2>1 DEF Stepped
  <2>3. /\ ~k.PBreakFlag /\ k.PBreakPos = 0
        /\ k.PosJumpFlag = n.PosJumpFlag /\ k.SongPos = n.SongPos
        /\ k.PattDelTime = n.PattDelTime /\ k.counter = n.counter
    BY <2>1 DEF Stepped
  <2> HIDE DEF k
  <2> QED
    BY <1>6, <2>2, <2>3
<1>8. Skip(m) = IF m.PBreakFlag THEN k ELSE n
  BY DEF Skip
<1>9. m.PBreakFlag \/ m.PosJumpFlag \/ m.PBreakPos = 0
  BY DEF Playing
<1> HIDE DEF n, k
<1>10. CASE m.PBreakFlag
  BY <1>1, <1>6, <1>7, <1>8, <1>10
<1>11. CASE ~m.PBreakFlag
  BY <1>1, <1>6, <1>8, <1>9, <1>11
<1> QED
  BY <1>10, <1>11

LEMMA StepEnds ==
  ASSUME NEW m \in Stepped, NEW pos \in Place, NEW row \in Row, NEW brk \in Row
  PROVE  [m EXCEPT !.PatternPos = row, !.PBreakPos = brk, !.PosJumpFlag = FALSE,
                   !.SongPos = pos] \in Midst
<1> DEFINE n == [m EXCEPT !.PatternPos = row, !.PBreakPos = brk, !.PosJumpFlag = FALSE,
                          !.SongPos = pos]
<1>1. [m EXCEPT !.PatternPos = row] \in Midst
  BY DEF Stepped, Midst
<1>2. \A x \in Midst :
        [x EXCEPT !.PBreakPos = brk, !.PosJumpFlag = FALSE, !.SongPos = pos] \in Midst
  BY DEF Midst
<1>3. n = [[m EXCEPT !.PatternPos = row]
             EXCEPT !.PBreakPos = brk, !.PosJumpFlag = FALSE, !.SongPos = pos]
  OBVIOUS
<1> HIDE DEF n
<1> QED
  BY <1>1, <1>2, <1>3 DEF n

(* The next position is one of the song.                                     *)
LEMMA PositionIsMoved ==
  ASSUME NEW m \in Stepped, ~m.PBreakFlag, m.PattDelTime = 0, song \in Songs
  PROVE  AtRest(nextPosition(m)) /\ nextPosition(m).counter = m.counter
<1> DEFINE pos == (m.SongPos + 1) % Positions
           q   == IF pos >= song.length THEN 0 ELSE pos
           n   == [m EXCEPT !.PatternPos = m.PBreakPos, !.PBreakPos = 0,
                            !.PosJumpFlag = FALSE, !.SongPos = q]
<1>1. pos \in 0..(Positions - 1)
  <2>1. m.SongPos \in Place
    BY DEF Stepped
  <2>2. m.SongPos + 1 \in Nat
    BY <2>1 DEF Place
  <2> DEFINE a == m.SongPos + 1
  <2>3. a % Positions \in 0..(Positions - 1)
    <3> HIDE DEF a
    <3> QED
      BY <2>2, PositionsAssumption, RemainderInRange DEF a
  <2> QED
    BY <2>3
<1>2. InOrder(q) /\ q \in Place
  <2>1. song.length \in 0..255
    BY SongsAssumption
  <2> DEFINE len == song.length
  <2>2. /\ q \in 0..(Positions - 1) /\ (q = 0 \/ q < len)
        /\ q \in Int /\ q >= -1
    <3> HIDE DEF pos, len
    <3>1. len \in 0..255 /\ pos \in 0..(Positions - 1)
      BY <1>1, <2>1 DEF len
    <3> QED
      BY <3>1, PositionsAssumption DEF len
  <2> HIDE DEF q
  <2> QED
    BY <2>2 DEF InOrder, Place
<1>3. 0 \in Row
  BY RowsAssumption DEF Row
<1>4. /\ n \in Midst /\ n.SongPos = q /\ ~n.PBreakFlag /\ ~n.PosJumpFlag
      /\ n.PBreakPos = 0 /\ n.PattDelTime = 0 /\ n.counter = m.counter
  <2> HIDE DEF q
  <2>1. q \in Place /\ m.PBreakPos \in Row /\ 0 \in Row /\ FALSE \in BOOLEAN
    BY <1>2, <1>3 DEF Stepped
  <2>2. n \in Midst
    BY <2>1, StepEnds
  <2>3. /\ n.SongPos = q /\ ~n.PosJumpFlag /\ n.PBreakPos = 0
        /\ n.PBreakFlag = m.PBreakFlag /\ n.PattDelTime = m.PattDelTime
        /\ n.counter = m.counter
    BY DEF Stepped
  <2> HIDE DEF n
  <2> QED
    BY <2>2, <2>3
<1>5. nextPosition(m) = n
  BY DEF nextPosition
<1> HIDE DEF n, q
<1>6. InOrder(n.SongPos)
  BY <1>2, <1>4
<1> QED
  BY <1>4, <1>5, <1>6 DEF AtRest

LEMMA RowSettles ==
  ASSUME NEW m, Playing(m), song \in Songs
  PROVE  AtRest(dskip(m)) /\ dskip(m).counter = 0
<1> DEFINE n == Skip(m)
<1>1. /\ n \in Stepped /\ ~n.PBreakFlag /\ n.PattDelTime = 0 /\ n.counter = 0
      /\ n.PosJumpFlag = m.PosJumpFlag /\ n.SongPos = m.SongPos
      /\ n.PosJumpFlag \/ n.PBreakPos = 0
  BY RowIsMoved
<1> HIDE DEF n
<1>2. CASE Turns(m)
  <2>1. dskip(m) = nextPosition(n)
    BY <1>2 DEF dskip, n
  <2> QED
    BY <1>1, <2>1, PositionIsMoved
<1>3. CASE ~Turns(m)
  <2>1. dskip(m) = n
    BY <1>3 DEF dskip, n
  <2>2. ~(n.PatternPos >= Rows) /\ ~m.PosJumpFlag
    BY <1>3 DEF Turns, n
  <2>3. n.PatternPos \in Row
    <3>1. n.PatternPos \in Nat
      BY <1>1 DEF Stepped
    <3> QED
      BY <2>2, <3>1, RowsAssumption DEF Row
  <2>4. n \in Midst
    BY <1>1, <2>3 DEF Stepped, Midst
  <2>5. InOrder(n.SongPos)
    BY <1>1, <2>2 DEF Playing
  <2> QED
    BY <1>1, <2>1, <2>2, <2>4, <2>5 DEF AtRest
<1> QED
  BY <1>2, <1>3

(* Between two rows only channels change.                                    *)
LEMMA BetweenRowsOnlyChannels ==
  ASSUME NEW m \in Midst, m.counter # 0
  PROVE  \E f \in [Voices -> Channel] : Effects(m) = [m EXCEPT !.chan = f]
<1> DEFINE Sets == {[m EXCEPT !.chan = f] : f \in [Voices -> Channel]}
<1>1. Sets \subseteq Midst
  BY DEF Midst
<1>2. \A n \in Sets : n.counter # 0
  BY DEF Midst
<1>3. ASSUME NEW n \in Sets, NEW v \in Voices, NEW c \in Channel
      PROVE  Put(n, v, c) \in Sets
  <2>1. n \in Midst
    BY <1>1
  <2>2. [n.chan EXCEPT ![v] = c] \in [Voices -> Channel]
    BY <2>1, ChannelPut
  <2>3. \A f : [n EXCEPT !.chan = f] = [m EXCEPT !.chan = f]
    BY DEF Midst
  <2> QED
    BY <2>2, <2>3 DEF Put
<1>4. ASSUME NEW n \in Sets, NEW v \in Voices
      PROVE  CheckEfx(n, v) \in Sets
  <2>1. n \in Midst /\ n.counter # 0
    BY <1>1, <1>2
  <2>2. CheckEfx(n, v) \in Puts(n, v)
    BY <2>1, EffectOfAVoice
  <2> HIDE DEF Sets
  <2> QED
    BY <1>3, <2>2 DEF Puts
<1>5. m \in Sets
  <2>1. m = [m EXCEPT !.chan = m.chan] /\ m.chan \in [Voices -> Channel]
    BY DEF Midst
  <2> QED
    BY <2>1
<1>6. 1 \in Voices /\ 2 \in Voices /\ 3 \in Voices /\ 4 \in Voices
  BY DEF Voices
<1>7. Effects(m) \in Sets
  <2> HIDE DEF Sets
  <2> QED
    BY <1>4, <1>5, <1>6 DEF Effects
<1> QED
  BY <1>7

LEMMA SameSongSameState ==
  ASSUME song' = song
  PROVE  Midst' = Midst /\ Channel' = Channel
<1>1. InTune' = InTune /\ Brought' = Brought
  BY DEF InTune, Brought
<1>2. Volume' = Volume /\ FineTune' = FineTune /\ Period' = Period
  BY <1>1 DEF Volume, FineTune, Period
<1>3. Channel' = Channel
  BY <1>2 DEF Channel
<1> QED
  BY <1>3 DEF Midst

LEMMA RestSettles ==
  ASSUME AtRest(mt'), mt'.counter = 0, song \in Songs, song' = song
  PROVE  Settling'
<1>1. mt' \in Midst /\ mt' \in Midst' /\ song' \in Songs
  BY SameSongSameState DEF AtRest
<1>2. /\ mt'.PatternPos \in Row /\ mt'.speed \in Speed /\ mt'.LowMask = 255
      /\ mt'.PattDelTime2 \in Nibble
  BY <1>1 DEF Midst
<1>3. mt'.counter < mt'.speed
  <2> DEFINE s == mt'.speed
  <2>1. s \in Speed
    BY <1>2
  <2> HIDE DEF s
  <2>2. 0 < s
    BY <2>1 DEF Speed
  <2> QED
    BY <2>2 DEF s
<1>4. /\ mt'.SongPos \in 0..(Positions - 1)
      /\ mt'.SongPos = 0 \/ mt'.SongPos < song'.length
      /\ ~mt'.PBreakFlag /\ ~mt'.PosJumpFlag /\ mt'.PBreakPos = 0 /\ mt'.PattDelTime = 0
  BY DEF AtRest, InOrder
<1>5. Settled'
  BY <1>2, <1>3, <1>4 DEF Settled, Row, Speed, Nibble
<1> QED
  BY <1>1, <1>5 DEF Settling

(* An interrupt between two rows leaves the player settled.                  *)
LEMMA BetweenSettles ==
  ASSUME Settling, Between
  PROVE  Settling'
<1> DEFINE c == mt.counter + 1
           m == [mt EXCEPT !.counter = @ + 1]
<1>1. mt \in Midst /\ ~mt.PosJumpFlag
  BY DEF Settling, Settled
<1>2. mt.counter \in Nat /\ mt.speed \in Int
  <2>1. Speed \subseteq Int
    BY DEF Speed
  <2> QED
    BY <1>1, <2>1 DEF Midst
<1>3. c \in Nat /\ c # 0 /\ c < mt.speed
  <2>1. ~(c >= mt.speed)
    BY DEF Between, RowIsOver
  <2> QED
    BY <1>2, <2>1
<1>4. m = [mt EXCEPT !.counter = c]
  OBVIOUS
<1>5. m \in Midst /\ m.counter = c /\ ~m.PosJumpFlag
  <2> HIDE DEF c, m
  <2>1. m \in Midst
    BY <1>1, <1>3, <1>4 DEF Midst
  <2>2. m.counter = c /\ m.PosJumpFlag = mt.PosJumpFlag
    BY <1>1, <1>4 DEF Midst
  <2> QED
    BY <1>1, <2>1, <2>2
<1>6. PICK f \in [Voices -> Channel] : Effects(m) = [m EXCEPT !.chan = f]
  <2> HIDE DEF c, m
  <2> QED
    BY <1>3, <1>5, BetweenRowsOnlyChannels
<1>7. mt' = [m EXCEPT !.chan = f]
  <2>1. ~Effects(m).PosJumpFlag
    <3> HIDE DEF m
    <3> QED
      BY <1>5, <1>6 DEF Midst
  <2>2. BetweenRows = Effects(m)
    BY <2>1 DEF BetweenRows
  <2> QED
    BY <1>6, <2>2 DEF Between
<1> HIDE DEF m, c
<1>8. mt' \in Midst
  BY <1>5, <1>7 DEF Midst
<1>9. mt'.counter = c
  BY <1>5, <1>7 DEF Midst
<1>10. mt' = [mt EXCEPT !.counter = c, !.chan = f]
  BY <1>1, <1>4, <1>7 DEF Midst
<1>11. /\ mt'.SongPos = mt.SongPos /\ mt'.PatternPos = mt.PatternPos
       /\ mt'.PBreakPos = mt.PBreakPos /\ mt'.PBreakFlag = mt.PBreakFlag
       /\ mt'.PosJumpFlag = mt.PosJumpFlag /\ mt'.PattDelTime = mt.PattDelTime
       /\ mt'.PattDelTime2 = mt.PattDelTime2 /\ mt'.speed = mt.speed
       /\ mt'.LowMask = mt.LowMask
  BY <1>1, <1>10 DEF Midst
<1>12. song' = song
  BY DEF Between
<1>13. Settled'
  BY <1>3, <1>9, <1>11, <1>12 DEF Settled, Settling
<1>14. mt' \in Midst'
  BY <1>8, <1>12, SameSongSameState
<1> QED
  BY <1>12, <1>13, <1>14 DEF Settling

LEMMA InitSettles ==
  ASSUME Init
  PROVE  Settling
<1>1. song \in Songs
  BY DEF Init
<1>2. /\ 0 \in Nibble /\ 0 \in Byte /\ 0 \in Note /\ 0 \in Volume /\ 0 \in FineTune /\ 0 \in Period
      /\ 0 \in Row /\ 0 \in Bit /\ 0 \in Place /\ 0 \in Delay /\ 0 \in Nat
      /\ Speed0 \in Speed
  BY RowsAssumption, SpeedAssumption
     DEF Nibble, Byte, Note, Volume, FineTune, Period, MaxPeriod, Row, Bit, Place, Delay, Speed
<1>3. Silent \in Channel
  BY <1>2 DEF Silent, Channel
<1>4. [v \in Voices |-> Silent] \in [Voices -> Channel]
  BY <1>3
<1>5. mt \in Midst
  BY <1>2, <1>4 DEF Init, Midst
<1>6. Settled
  BY RowsAssumption, PositionsAssumption, SpeedAssumption DEF Init, Settled
<1> QED
  BY <1>1, <1>5, <1>6 DEF Settling

LEMMA StepSettles ==
  ASSUME Settling, [timer_interrupt]_vars
  PROVE  Settling'
<1>1. song \in Songs
  BY DEF Settling
<1>2. CASE Fetch
  <2>1. AtRest(FetchRow) /\ FetchRow.counter = 0
    BY <1>1, PlayingRow, RowSettles DEF FetchRow
  <2> QED
    BY <1>1, <1>2, <2>1, RestSettles DEF Fetch
<1>3. CASE Hold
  <2>1. AtRest(HoldRow) /\ HoldRow.counter = 0
    BY <1>1, PlayingRow, RowSettles DEF HoldRow
  <2> QED
    BY <1>1, <1>3, <2>1, RestSettles DEF Hold
<1>4. CASE Between
  BY <1>4, BetweenSettles
<1>5. CASE UNCHANGED vars
  BY <1>5, SameSongSameState DEF vars, Settling, Settled
<1> QED
  BY <1>2, <1>3, <1>4, <1>5 DEF timer_interrupt

(* Whatever four voices ask for on the rows of whatever song, an interrupt   *)
(* of the player (timer_interrupt with mt_music) ends on a row of the song,  *)
(* with nothing pending and every slide's mask restored.                     *)
THEOREM SettledAlways == Spec => []Settled
<1>1. Init => Settling
  BY InitSettles
<1>2. Settling /\ [timer_interrupt]_vars => Settling'
  BY StepSettles
<1>3. Settling => Settled
  BY DEF Settling
<1> QED
  BY <1>1, <1>2, <1>3, PTL DEF Spec

(* For every song and every mixture of slides (mt_VolumeSlide, mt_PortaUp,   *)
(* ...) no volume exceeds 64 and the samples of the song, loops stay in the  *)
(* pattern, and periods in the table if the finetunes of the song are.       *)
THEOREM VoicesInRangeAlways == Spec => []VoicesInRange
<1>1. Init => Settling
  BY InitSettles
<1>2. Settling /\ [timer_interrupt]_vars => Settling'
  BY StepSettles
<1>3. Settling => VoicesInRange
  <2> SUFFICES ASSUME Settling, NEW v \in Voices
               PROVE  LET ch == mt.chan[v]
                      IN /\ \/ ch.volume \in 0..64
                            \/ \E i \in SampleNumbers : ch.volume \in 0..song.samples[i].volume
                         /\ InTune => /\ ch.period \in 0..MaxPeriod
                                      /\ ch.wantedperiod \in 0..MaxPeriod
                                      /\ ch.finetune \in 0..15
                         /\ ch.pattpos \in 0..(Rows - 1) /\ ch.loopcount \in 0..15
    BY DEF VoicesInRange
  <2> DEFINE ch == mt.chan[v]
  <2>1. ch \in Channel
    BY ChannelPut DEF Settling
  <2>2. /\ ch.volume \in Volume /\ ch.finetune \in FineTune
        /\ ch.period \in Period /\ ch.wantedperiod \in Period
        /\ ch.pattpos \in Row /\ ch.loopcount \in Nibble
    BY <2>1, FieldsOfAChannel
  <2>3. ch.volume \in 0..64 \/ \E i \in SampleNumbers : ch.volume \in 0..song.samples[i].volume
    <3> DEFINE x == ch.volume
    <3>1. x \in Byte /\ (x <= 64 \/ \E z \in Brought : x <= z)
      BY <2>2 DEF Volume
    <3> HIDE DEF x
    <3>2. x \in 0..64 \/ \E z \in Brought : x \in 0..z
      BY <3>1 DEF Byte, Brought
    <3> QED
      BY <3>2 DEF Brought, x
  <2> HIDE DEF ch
  <2>4. InTune => /\ ch.period \in 0..MaxPeriod /\ ch.wantedperiod \in 0..MaxPeriod
                  /\ ch.finetune \in 0..15
    BY <2>2 DEF Period, FineTune, Byte
  <2> QED
    BY <2>2, <2>3, <2>4 DEF Row, Nibble, ch
<1> QED
  BY <1>1, <1>2, <1>3, PTL DEF Spec

-----------------------------------------------------------------------------
(* Order and time: the rows of every song are played in the order of         *)
(* SongOrder, each for as many interrupts as its speed and its delay say.     *)

(* What an effect leaves alone in a channel: where the loop starts, what is  *)
(* left of it, and the command; TonePortamento clears its own parameter.     *)
OrderKept(d, e) ==
  /\ e.cmd = d.cmd
  /\ d.cmd # 3 => e.cmdlo = d.cmdlo
  /\ e.pattpos = d.pattpos
  /\ e.loopcount = d.loopcount

CommandKept(d, e) == e.cmd = d.cmd /\ e.cmdlo = d.cmdlo

LEMMA FieldsKeptInChannel ==
  ASSUME NEW ch \in Channel
  PROVE  /\ OrderKept(ch, ch)
         /\ \A x : /\ OrderKept(ch, [ch EXCEPT !.volume = x])
                   /\ OrderKept(ch, [ch EXCEPT !.finetune = x])
                   /\ OrderKept(ch, [ch EXCEPT !.period = x])
         /\ \A x, y : /\ OrderKept(ch, [ch EXCEPT !.wantedperiod = x, !.toneportdirec = y])
                      /\ OrderKept(ch, [ch EXCEPT !.period = x, !.wantedperiod = y])
                      /\ ch.cmd = 3 =>
                           OrderKept(ch, [ch EXCEPT !.toneportspeed = x, !.cmdlo = y])
         /\ \A x : /\ CommandKept(ch, [ch EXCEPT !.volume = x])
                   /\ CommandKept(ch, [ch EXCEPT !.finetune = x])
                   /\ CommandKept(ch, [ch EXCEPT !.period = x])
         /\ \A x, y : CommandKept(ch, [ch EXCEPT !.wantedperiod = x, !.toneportdirec = y])
BY DEF Channel, OrderKept, CommandKept

LEMMA EffectsKeepTheOrder ==
  ASSUME NEW ch \in Channel
  PROVE  /\ \A n : OrderKept(ch, Louder(ch, n)) /\ OrderKept(ch, Softer(ch, n))
         /\ OrderKept(ch, VolumeSlide(ch)) /\ OrderKept(ch, VolumeChange(ch))
         /\ OrderKept(ch, NoteCut(ch)) /\ OrderKept(ch, SetFineTune(ch))
         /\ OrderKept(ch, Tuned(ch)) /\ OrderKept(ch, SetTonePorta(ch))
         /\ \A mask : OrderKept(ch, Higher(ch, mask)) /\ OrderKept(ch, Lower(ch, mask))
         /\ OrderKept(ch, UpdateTonePortamento(ch))
<1>1. \A n : OrderKept(ch, Louder(ch, n)) /\ OrderKept(ch, Softer(ch, n))
  BY FieldsKeptInChannel DEF Louder, Softer
<1>2. OrderKept(ch, VolumeSlide(ch))
  BY <1>1 DEF VolumeSlide
<1>3. /\ OrderKept(ch, VolumeChange(ch)) /\ OrderKept(ch, NoteCut(ch))
      /\ OrderKept(ch, SetFineTune(ch)) /\ OrderKept(ch, Tuned(ch))
  BY FieldsKeptInChannel DEF VolumeChange, NoteCut, SetFineTune, Tuned
<1>4. OrderKept(ch, SetTonePorta(ch))
  <2> DEFINE i == IndexBelow(ch.finetune * 37, ch.note)
             k == IF Flat(ch.finetune) /\ i > 0 THEN i - 1 ELSE i
             wanted == PeriodTable[ch.finetune * 37 + k]
             aim   == IF ch.period = wanted THEN 0 ELSE wanted
             direc == IF ch.period > wanted THEN 1 ELSE 0
  <2>1. SetTonePorta(ch) = [ch EXCEPT !.wantedperiod = aim, !.toneportdirec = direc]
    BY DEF SetTonePorta
  <2> HIDE DEF aim, direc
  <2>2. OrderKept(ch, [ch EXCEPT !.wantedperiod = aim, !.toneportdirec = direc])
    BY FieldsKeptInChannel
  <2> QED
    BY <2>1, <2>2
<1>5. \A mask : OrderKept(ch, Higher(ch, mask)) /\ OrderKept(ch, Lower(ch, mask))
  <2> SUFFICES ASSUME NEW mask
               PROVE  OrderKept(ch, Higher(ch, mask)) /\ OrderKept(ch, Lower(ch, mask))
    OBVIOUS
  <2> DEFINE p == ch.period - Masked(ch, mask)
             q == ch.period + Masked(ch, mask)
             up == IF p < 113 THEN 113 ELSE p
             down == IF q > 856 THEN 856 ELSE q
  <2>1. Higher(ch, mask) = [ch EXCEPT !.period = up] /\ Lower(ch, mask) = [ch EXCEPT !.period = down]
    BY SMTT(30) DEF Higher, Lower
  <2> HIDE DEF up, down
  <2>2. OrderKept(ch, [ch EXCEPT !.period = up]) /\ OrderKept(ch, [ch EXCEPT !.period = down])
    BY FieldsKeptInChannel
  <2> QED
    BY <2>1, <2>2
<1>6. OrderKept(ch, UpdateTonePortamento(ch))
  <2>1. \A x : OrderKept(ch, [ch EXCEPT !.period = x])
    BY FieldsKeptInChannel
  <2>2. \A x, y : OrderKept(ch, [ch EXCEPT !.period = x, !.wantedperiod = y])
    BY FieldsKeptInChannel
  <2>3. OrderKept(ch, ch)
    BY FieldsKeptInChannel
  <2> DEFINE next == IF ch.toneportdirec = 1 THEN ch.period - ch.toneportspeed
                                             ELSE ch.period + ch.toneportspeed
           done == IF ch.toneportdirec = 1 THEN next <= ch.wantedperiod
                                           ELSE next >= ch.wantedperiod
  <2>4. UpdateTonePortamento(ch) =
          CASE ch.wantedperiod <= 0 -> ch
            [] ch.wantedperiod > 0 /\ done ->
                 [ch EXCEPT !.period = ch.wantedperiod, !.wantedperiod = 0]
            [] OTHER -> [ch EXCEPT !.period = next]
    BY DEF UpdateTonePortamento
  <2> HIDE DEF next, done
  <2>5. OrderKept(ch, [ch EXCEPT !.period = next])
    BY <2>1
  <2>6. OrderKept(ch, [ch EXCEPT !.period = ch.wantedperiod, !.wantedperiod = 0])
    BY <2>2
  <2> QED
    BY <2>3, <2>4, <2>5, <2>6, SMTT(30)
<1> QED
  BY <1>1, <1>2, <1>3, <1>4, <1>5, <1>6, SMTT(30)

LEMMA OrderKeptTwice ==
  ASSUME NEW a, NEW b, NEW c, OrderKept(a, b), OrderKept(b, c)
  PROVE  OrderKept(a, c)
BY DEF OrderKept

LEMMA SlidesTowardsANote ==
  ASSUME NEW ch \in Channel
  PROVE  /\ ch.cmd = 3 => OrderKept(ch, TonePortamento(ch))
         /\ OrderKept(ch, VolumeSlide(UpdateTonePortamento(ch)))
<1>1. UpdateTonePortamento(ch) \in Channel
  BY PortamentoKeepsTheChannel
<1>2. OrderKept(ch, VolumeSlide(UpdateTonePortamento(ch)))
  BY <1>1, EffectsKeepTheOrder, OrderKeptTwice
<1>3. ASSUME ch.cmd = 3
      PROVE  OrderKept(ch, TonePortamento(ch))
  <2> DEFINE d == [ch EXCEPT !.toneportspeed = ch.cmdlo, !.cmdlo = 0]
  <2>1. d \in Channel
    <3>1. 0 \in Byte
      BY DEF Byte
    <3> QED
      BY <3>1, FieldsOfAChannel, TwoFieldsChanged
  <2>2. OrderKept(ch, d)
    BY <1>3, FieldsKeptInChannel
  <2>3. TonePortamento(ch) = UpdateTonePortamento(IF ch.cmdlo = 0 THEN ch ELSE d)
    BY DEF TonePortamento
  <2> HIDE DEF d
  <2> QED
    BY <2>1, <2>2, <2>3, EffectsKeepTheOrder, OrderKeptTwice
<1> QED
  BY <1>2, <1>3

-----------------------------------------------------------------------------
(* n is m but for the sounds of its voices.                                  *)
Soft(m, n) ==
  /\ m \in Midst /\ n \in Midst
  /\ n.SongPos = m.SongPos /\ n.PatternPos = m.PatternPos
  /\ n.PBreakPos = m.PBreakPos /\ n.PBreakFlag = m.PBreakFlag
  /\ n.PosJumpFlag = m.PosJumpFlag
  /\ n.PattDelTime = m.PattDelTime /\ n.PattDelTime2 = m.PattDelTime2
  /\ n.counter = m.counter /\ n.speed = m.speed
  /\ \A w \in Voices : OrderKept(m.chan[w], n.chan[w])

(* n has the time and the commands of m.                                     *)
Timed(m, n) ==
  /\ m \in Midst /\ n \in Midst
  /\ n.PattDelTime = m.PattDelTime /\ n.PattDelTime2 = m.PattDelTime2
  /\ n.counter = m.counter /\ n.speed = m.speed
  /\ \A w \in Voices :
       /\ n.chan[w].cmd = m.chan[w].cmd
       /\ m.chan[w].cmd # 3 => n.chan[w].cmdlo = m.chan[w].cmdlo

LEMMA SoftIsTimed ==
  ASSUME NEW m, NEW n, Soft(m, n)
  PROVE  Timed(m, n)
BY DEF Soft, Timed, OrderKept

LEMMA SoftTwice ==
  ASSUME NEW a, NEW b, NEW c, Soft(a, b), Soft(b, c)
  PROVE  Soft(a, c)
<1>1. \A w \in Voices : OrderKept(a.chan[w], c.chan[w])
  BY OrderKeptTwice DEF Soft
<1> QED
  BY <1>1 DEF Soft

LEMMA TimedTwice ==
  ASSUME NEW a, NEW b, NEW c, Timed(a, b), Timed(b, c)
  PROVE  Timed(a, c)
BY DEF Timed

(* What replacing a channel changes, and what it does not.                   *)
LEMMA PutChanges ==
  ASSUME NEW m \in Midst, NEW v \in Voices, NEW c \in Channel
  PROVE  LET n == Put(m, v, c)
         IN /\ n \in Midst
            /\ n.SongPos = m.SongPos /\ n.PatternPos = m.PatternPos
            /\ n.PBreakPos = m.PBreakPos /\ n.PBreakFlag = m.PBreakFlag
            /\ n.PosJumpFlag = m.PosJumpFlag
            /\ n.PattDelTime = m.PattDelTime /\ n.PattDelTime2 = m.PattDelTime2
            /\ n.counter = m.counter /\ n.speed = m.speed
            /\ n.chan[v] = c
            /\ \A w \in Voices \ {v} : n.chan[w] = m.chan[w]
<1> DEFINE f == [m.chan EXCEPT ![v] = c]
           n == [m EXCEPT !.chan = f]
<1>1. f \in [Voices -> Channel] /\ f[v] = c /\ \A w \in Voices \ {v} : f[w] = m.chan[w]
  BY DEF Midst
<1>2. Put(m, v, c) = n
  BY DEF Put
<1>3. n \in Midst
  <2>1. Put(m, v, c) \in Midst
    BY ChannelPut
  <2> HIDE DEF n
  <2> QED
    BY <1>2, <2>1
<1> HIDE DEF f
<1>4. /\ n.SongPos = m.SongPos /\ n.PatternPos = m.PatternPos
      /\ n.PBreakPos = m.PBreakPos /\ n.PBreakFlag = m.PBreakFlag
      /\ n.PosJumpFlag = m.PosJumpFlag
      /\ n.PattDelTime = m.PattDelTime /\ n.PattDelTime2 = m.PattDelTime2
      /\ n.counter = m.counter /\ n.speed = m.speed
      /\ n.chan = f
  BY DEF Midst
<1> HIDE DEF n
<1> QED
  BY <1>1, <1>2, <1>3, <1>4

LEMMA SoftPut ==
  ASSUME NEW m \in Midst, NEW v \in Voices, NEW c \in Channel, OrderKept(m.chan[v], c)
  PROVE  Soft(m, Put(m, v, c))
<1> DEFINE n == Put(m, v, c)
<1>1. /\ n \in Midst
      /\ n.SongPos = m.SongPos /\ n.PatternPos = m.PatternPos
      /\ n.PBreakPos = m.PBreakPos /\ n.PBreakFlag = m.PBreakFlag
      /\ n.PosJumpFlag = m.PosJumpFlag
      /\ n.PattDelTime = m.PattDelTime /\ n.PattDelTime2 = m.PattDelTime2
      /\ n.counter = m.counter /\ n.speed = m.speed
      /\ n.chan[v] = c
      /\ \A w \in Voices \ {v} : n.chan[w] = m.chan[w]
  BY PutChanges
<1> HIDE DEF n
<1>2. ASSUME NEW w \in Voices
      PROVE  OrderKept(m.chan[w], n.chan[w])
  <2>1. CASE w = v
    BY <1>1, <2>1
  <2>2. CASE w # v
    <3>1. n.chan[w] = m.chan[w]
      BY <1>1, <2>2
    <3> QED
      BY <3>1 DEF OrderKept
  <2> QED
    BY <2>1, <2>2
<1>3. Soft(m, n)
  BY <1>1, <1>2 DEF Soft
<1> QED
  BY <1>3 DEF n

LEMMA SoftSlides ==
  ASSUME NEW m \in Midst, NEW v \in Voices
  PROVE  /\ Soft(m, m)
         /\ Soft(m, PortaUp(m, v)) /\ Soft(m, PortaDown(m, v))
         /\ Soft(m, FinePortaUp(m, v)) /\ Soft(m, FinePortaDown(m, v))
         /\ Soft(m, VolumeFineUp(m, v)) /\ Soft(m, VolumeFineDown(m, v))
<1> DEFINE ch == m.chan[v]
<1>1. ch \in Channel
  BY ChannelPut
<1>2. Soft(m, m)
  BY DEF Soft, OrderKept
<1>3. \A mask \in {15, 255} :
        Soft(m, Put(m, v, Higher(ch, mask))) /\ Soft(m, Put(m, v, Lower(ch, mask)))
  BY <1>1, SlidesKeepTheChannel, EffectsKeepTheOrder, SoftPut
<1>4. /\ Soft(m, Put(m, v, Louder(ch, Low(ch.cmdlo))))
      /\ Soft(m, Put(m, v, Softer(ch, Low(ch.cmdlo))))
  <2>1. Nibble \subseteq Byte
    BY DEF Nibble, Byte
  <2>2. Low(ch.cmdlo) \in Byte
    BY <1>1, <2>1, FieldsOfAChannel, HalvesOfAByte
  <2> QED
    BY <1>1, <2>2, VolumesKeepTheChannel, EffectsKeepTheOrder, SoftPut
<1>5. /\ PortaUp(m, v) = Put(m, v, Higher(ch, 255))
      /\ PortaDown(m, v) = Put(m, v, Lower(ch, 255))
      /\ FinePortaUp(m, v) \in {m, Put(m, v, Higher(ch, 15))}
      /\ FinePortaDown(m, v) \in {m, Put(m, v, Lower(ch, 15))}
  BY SlidesArePuts DEF FinePortaUp, FinePortaDown
<1>6. /\ VolumeFineUp(m, v) \in {m, Put(m, v, Louder(ch, Low(ch.cmdlo)))}
      /\ VolumeFineDown(m, v) \in {m, Put(m, v, Softer(ch, Low(ch.cmdlo)))}
  BY DEF VolumeFineUp, VolumeFineDown
<1> HIDE DEF ch
<1> QED
  BY <1>2, <1>3, <1>4, <1>5, <1>6

Loops(ch) == ch.cmd = 14 /\ High(ch.cmdlo) = 6
Delays(ch) == ch.cmd = 14 /\ High(ch.cmdlo) = 14

(* An E command other than a loop and a delay changes only sounds.           *)
LEMMA ECommandIs ==
  ASSUME NEW m \in Midst, NEW v \in Voices
  PROVE  LET e == High(m.chan[v].cmdlo)
         IN /\ e = 6 => E_Commands(m, v) = JumpLoop(m, v)
            /\ e = 14 => E_Commands(m, v) = PatternDelay(m, v)
            /\ e \notin {6, 14} => Soft(m, E_Commands(m, v))
<1> DEFINE ch == m.chan[v]
           e  == High(ch.cmdlo)
<1>1. ch \in Channel
  BY ChannelPut
<1>2. /\ Soft(m, Put(m, v, SetFineTune(ch))) /\ Soft(m, Put(m, v, NoteCut(ch)))
  BY <1>1, TuningKeepsTheChannel, VolumesKeepTheChannel, EffectsKeepTheOrder, SoftPut
<1>3. CASE e = 6
  <2>1. E_Commands(m, v) = JumpLoop(m, v)
    BY <1>3 DEF E_Commands
  <2> QED
    BY <1>3, <2>1
<1>4. CASE e = 14
  <2>1. E_Commands(m, v) = PatternDelay(m, v)
    BY <1>4 DEF E_Commands
  <2> QED
    BY <1>4, <2>1
<1>5. CASE e \notin {6, 14}
  <2>1. E_Commands(m, v) \in
          {FinePortaUp(m, v), FinePortaDown(m, v), Put(m, v, SetFineTune(ch)),
           VolumeFineUp(m, v), VolumeFineDown(m, v), Put(m, v, NoteCut(ch)), m}
    BY <1>5 DEF E_Commands
  <2> HIDE DEF ch
  <2>2. Soft(m, E_Commands(m, v))
    BY <1>2, <2>1, SoftSlides
  <2> QED
    BY <1>5, <2>2 DEF ch
<1> QED
  BY <1>3, <1>4, <1>5

LEMMA FlagRaised ==
  ASSUME NEW m \in Midst, NEW r \in Row
  PROVE  LET n == [m EXCEPT !.PBreakPos = r, !.PBreakFlag = TRUE]
         IN /\ n \in Midst /\ n.PBreakFlag /\ n.PBreakPos = r
            /\ n.SongPos = m.SongPos /\ n.PatternPos = m.PatternPos
            /\ n.PosJumpFlag = m.PosJumpFlag
            /\ n.PattDelTime = m.PattDelTime /\ n.PattDelTime2 = m.PattDelTime2
            /\ n.counter = m.counter /\ n.speed = m.speed
            /\ n.chan = m.chan
BY DEF Midst

(* What a channel's loop becomes.                                            *)
Start(m, ch) == IF Low(ch.cmdlo) = 0 THEN m.PatternPos ELSE ch.pattpos
Left(ch) ==
  CASE Low(ch.cmdlo) = 0                          -> ch.loopcount
    [] Low(ch.cmdlo) # 0 /\ ch.loopcount = 0      -> Low(ch.cmdlo)
    [] OTHER                                      -> ch.loopcount - 1
Arms(ch) == Low(ch.cmdlo) # 0 /\ Left(ch) # 0

LoopObeyed(m, n, v) ==
  /\ n \in Midst
  /\ n.SongPos = m.SongPos /\ n.PatternPos = m.PatternPos
  /\ n.PosJumpFlag = m.PosJumpFlag
  /\ n.PattDelTime = m.PattDelTime /\ n.PattDelTime2 = m.PattDelTime2
  /\ n.counter = m.counter /\ n.speed = m.speed
  /\ \A w \in Voices \ {v} : n.chan[w] = m.chan[w]
  /\ CommandKept(m.chan[v], n.chan[v])
  /\ n.chan[v].pattpos = Start(m, m.chan[v])
  /\ n.chan[v].loopcount = Left(m.chan[v])
  /\ n.PBreakFlag <=> (m.PBreakFlag \/ Arms(m.chan[v]))
  /\ n.PBreakPos = IF Arms(m.chan[v]) THEN m.chan[v].pattpos ELSE m.PBreakPos

LEMMA LoopFields ==
  ASSUME NEW ch \in Channel
  PROVE  /\ \A x : LET d == [ch EXCEPT !.loopcount = x]
                   IN CommandKept(ch, d) /\ d.pattpos = ch.pattpos /\ d.loopcount = x
         /\ \A x : LET d == [ch EXCEPT !.pattpos = x]
                   IN CommandKept(ch, d) /\ d.pattpos = x /\ d.loopcount = ch.loopcount
BY DEF Channel, CommandKept

LEMMA LoopOf ==
  ASSUME NEW m \in Midst, NEW v \in Voices, m.counter = 0
  PROVE  LoopObeyed(m, JumpLoop(m, v), v)
<1> DEFINE ch   == m.chan[v]
           dat  == Low(ch.cmdlo)
           left == IF ch.loopcount <= 0 THEN dat ELSE ch.loopcount - 1
           marked == [ch EXCEPT !.pattpos = m.PatternPos]
           counted == [ch EXCEPT !.loopcount = left]
           n == Put(m, v, counted)
           k == [n EXCEPT !.PBreakPos = ch.pattpos, !.PBreakFlag = TRUE]
<1>1. ch \in Channel
  BY ChannelPut
<1>2. /\ dat \in Nibble /\ ch.loopcount \in Nibble /\ ch.pattpos \in Row
      /\ m.PatternPos \in Row /\ m.PBreakFlag \in BOOLEAN
  BY <1>1, FieldsOfAChannel, HalvesOfAByte DEF Midst
<1>3. /\ left \in Nibble
      /\ dat # 0 => left = Left(ch)
  <2> DEFINE c == ch.loopcount
  <2>1. left = (IF c <= 0 THEN dat ELSE c - 1)
    OBVIOUS
  <2>2. dat # 0 => Left(ch) = IF c = 0 THEN dat ELSE c - 1
    BY DEF Left
  <2> HIDE DEF left, dat, c
  <2> QED
    BY <1>2, <2>1, <2>2 DEF Nibble, c
<1>4. JumpLoop(m, v) =
        CASE dat = 0 -> Put(m, v, marked)
          [] dat # 0 /\ left = 0 -> n
          [] OTHER -> k
  BY DEF JumpLoop
<1>5. marked \in Channel /\ counted \in Channel
  BY <1>1, <1>2, <1>3, OneFieldChanged
<1> HIDE DEF left
<1>6. /\ CommandKept(ch, marked) /\ marked.pattpos = m.PatternPos
      /\ marked.loopcount = ch.loopcount
      /\ CommandKept(ch, counted) /\ counted.pattpos = ch.pattpos
      /\ counted.loopcount = left
  BY <1>1, LoopFields
<1> HIDE DEF marked, counted
<1>7. CASE dat = 0
  <2> DEFINE p == Put(m, v, marked)
  <2>1. /\ p \in Midst
        /\ p.SongPos = m.SongPos /\ p.PatternPos = m.PatternPos
        /\ p.PBreakPos = m.PBreakPos /\ p.PBreakFlag = m.PBreakFlag
        /\ p.PosJumpFlag = m.PosJumpFlag
        /\ p.PattDelTime = m.PattDelTime /\ p.PattDelTime2 = m.PattDelTime2
        /\ p.counter = m.counter /\ p.speed = m.speed
        /\ p.chan[v] = marked
        /\ \A w \in Voices \ {v} : p.chan[w] = m.chan[w]
    BY <1>5, PutChanges
  <2>2. ~Arms(ch) /\ Start(m, ch) = m.PatternPos /\ Left(ch) = ch.loopcount
    BY <1>7 DEF Arms, Start, Left
  <2>3. JumpLoop(m, v) = p
    BY <1>4, <1>7
  <2> HIDE DEF p
  <2>4. LoopObeyed(m, p, v)
    BY <1>2, <1>6, <2>1, <2>2 DEF LoopObeyed
  <2> QED
    BY <2>3, <2>4
<1>8. ASSUME dat # 0
      PROVE  /\ Arms(ch) <=> left # 0
             /\ Start(m, ch) = ch.pattpos
             /\ Left(ch) = left
  BY <1>3, <1>8 DEF Arms, Start
<1>9. /\ n \in Midst
      /\ n.SongPos = m.SongPos /\ n.PatternPos = m.PatternPos
      /\ n.PBreakPos = m.PBreakPos /\ n.PBreakFlag = m.PBreakFlag
      /\ n.PosJumpFlag = m.PosJumpFlag
      /\ n.PattDelTime = m.PattDelTime /\ n.PattDelTime2 = m.PattDelTime2
      /\ n.counter = m.counter /\ n.speed = m.speed
      /\ n.chan[v] = counted
      /\ \A w \in Voices \ {v} : n.chan[w] = m.chan[w]
  BY <1>5, PutChanges
<1> HIDE DEF n
<1>10. CASE dat # 0 /\ left = 0
  <2>1. JumpLoop(m, v) = n
    BY <1>4, <1>10
  <2>2. ~Arms(ch) /\ Start(m, ch) = ch.pattpos /\ Left(ch) = left
    BY <1>8, <1>10
  <2>3. LoopObeyed(m, n, v)
    BY <1>2, <1>6, <1>9, <2>2 DEF LoopObeyed
  <2> QED
    BY <2>1, <2>3
<1>11. CASE dat # 0 /\ left # 0
  <2>1. JumpLoop(m, v) = k
    BY <1>4, <1>11
  <2>2. Arms(ch) /\ Start(m, ch) = ch.pattpos /\ Left(ch) = left
    BY <1>8, <1>11
  <2>3. /\ k \in Midst /\ k.PBreakFlag /\ k.PBreakPos = ch.pattpos
        /\ k.SongPos = n.SongPos /\ k.PatternPos = n.PatternPos
        /\ k.PosJumpFlag = n.PosJumpFlag
        /\ k.PattDelTime = n.PattDelTime /\ k.PattDelTime2 = n.PattDelTime2
        /\ k.counter = n.counter /\ k.speed = n.speed
        /\ k.chan = n.chan
    BY <1>2, <1>9, FlagRaised
  <2> HIDE DEF k
  <2>4. LoopObeyed(m, k, v)
    BY <1>2, <1>6, <1>9, <2>2, <2>3 DEF LoopObeyed
  <2> QED
    BY <2>1, <2>4
<1> QED
  BY <1>7, <1>10, <1>11

(* An effect changes only sounds, loops or delays; it loops only on a row,   *)
(* and delays only a row that is not being delayed.                          *)
LEMMA EffectIs ==
  ASSUME NEW m \in Midst, NEW v \in Voices
  PROVE  \/ Soft(m, CheckEfx(m, v))
         \/ /\ m.counter = 0 /\ Loops(m.chan[v])
            /\ CheckEfx(m, v) = JumpLoop(m, v)
         \/ /\ m.counter = 0 /\ m.PattDelTime2 = 0
            /\ CheckEfx(m, v) = PatternDelay(m, v)
<1> DEFINE ch == m.chan[v]
           c1 == TonePortamento(ch)
           c2 == VolumeSlide(UpdateTonePortamento(ch))
           c3 == VolumeSlide(ch)
<1>1. ch \in Channel
  BY ChannelPut
<1>2. CASE ch.cmd = 14
  <2>1. CheckEfx(m, v) = E_Commands(m, v)
    BY <1>2 DEF CheckEfx
  <2>2. m.counter # 0 => JumpLoop(m, v) = m /\ PatternDelay(m, v) = m
    BY DEF JumpLoop, PatternDelay
  <2>3. m.PattDelTime2 # 0 => PatternDelay(m, v) = m
    BY DEF PatternDelay
  <2>4. Soft(m, m)
    BY SoftSlides
  <2>5. High(ch.cmdlo) = 6 => Loops(ch)
    BY <1>2 DEF Loops
  <2> QED
    BY <2>1, <2>2, <2>3, <2>4, <2>5, ECommandIs
<1>3. CASE ch.cmd # 14
  <2>1. c1 \in Channel /\ c2 \in Channel /\ c3 \in Channel
    BY <1>1, PortamentoKeepsTheChannel, VolumesKeepTheChannel
  <2>2. /\ ch.cmd = 3 => OrderKept(ch, c1)
        /\ OrderKept(ch, c2) /\ OrderKept(ch, c3)
    BY <1>1, SlidesTowardsANote, EffectsKeepTheOrder
  <2>3. \/ CheckEfx(m, v) \in {PortaUp(m, v), PortaDown(m, v), Put(m, v, c2), Put(m, v, c3), m}
        \/ ch.cmd = 3 /\ CheckEfx(m, v) = Put(m, v, c1)
    <3>1. CASE ch.cmd = 3
      BY <3>1 DEF CheckEfx
    <3>2. CASE ch.cmd # 3
      BY <1>3, <3>2 DEF CheckEfx
    <3> QED
      BY <3>1, <3>2
  <2> HIDE DEF c1, c2, c3
  <2>4. /\ ch.cmd = 3 => Soft(m, Put(m, v, c1))
        /\ Soft(m, Put(m, v, c2)) /\ Soft(m, Put(m, v, c3))
    BY <2>1, <2>2, SoftPut
  <2>5. Soft(m, PortaUp(m, v)) /\ Soft(m, PortaDown(m, v)) /\ Soft(m, m)
    BY SoftSlides
  <2> QED
    BY <2>3, <2>4, <2>5
<1> QED
  BY <1>2, <1>3

LEMMA LoopIsTimed ==
  ASSUME NEW m \in Midst, NEW v \in Voices, NEW n, LoopObeyed(m, n, v)
  PROVE  Timed(m, n)
<1>1. ASSUME NEW w \in Voices
      PROVE  n.chan[w].cmd = m.chan[w].cmd /\ n.chan[w].cmdlo = m.chan[w].cmdlo
  <2>1. CASE w = v
    BY <2>1 DEF LoopObeyed, CommandKept
  <2>2. CASE w # v
    <3>1. n.chan[w] = m.chan[w]
      BY <2>2 DEF LoopObeyed
    <3> QED
      BY <3>1
  <2> QED
    BY <2>1, <2>2
<1>2. /\ n \in Midst
      /\ n.PattDelTime = m.PattDelTime /\ n.PattDelTime2 = m.PattDelTime2
      /\ n.counter = m.counter /\ n.speed = m.speed
  BY DEF LoopObeyed
<1> QED
  BY <1>1, <1>2 DEF Timed

(* The effects of the four voices, when no row can be delayed any more.      *)
LEMMA EffectsAreTimed ==
  ASSUME NEW m \in Midst, m.counter # 0 \/ m.PattDelTime2 # 0
  PROVE  Timed(m, Effects(m))
<1> DEFINE Ready(n) == n \in Midst /\ Timed(m, n) /\ (n.counter # 0 \/ n.PattDelTime2 # 0)
<1>1. ASSUME NEW n, NEW v \in Voices, Ready(n)
      PROVE  Ready(CheckEfx(n, v))
  <2> DEFINE k == CheckEfx(n, v)
  <2>1. Soft(n, k) \/ (n.counter = 0 /\ k = JumpLoop(n, v))
    BY <1>1, EffectIs
  <2>2. n.counter = 0 => LoopObeyed(n, JumpLoop(n, v), v)
    BY <1>1, LoopOf
  <2>3. Timed(n, k)
    <3> HIDE DEF k
    <3> QED
      BY <1>1, <2>1, <2>2, SoftIsTimed, LoopIsTimed
  <2> HIDE DEF k
  <2>4. Timed(m, k)
    BY <1>1, <2>3, TimedTwice
  <2>5. k \in Midst /\ (k.counter # 0 \/ k.PattDelTime2 # 0)
    BY <1>1, <2>3 DEF Timed
  <2>6. Ready(k)
    BY <2>4, <2>5
  <2> QED
    BY <2>6 DEF k
<1>2. Ready(m)
  BY DEF Timed
<1>3. 1 \in Voices /\ 2 \in Voices /\ 3 \in Voices /\ 4 \in Voices
  BY DEF Voices
<1> HIDE DEF Ready
<1>4. Ready(Effects(m))
  BY <1>1, <1>2, <1>3 DEF Effects
<1> QED
  BY <1>4 DEF Ready

(* ... and when no loop can be counted either.                               *)
LEMMA EffectsAreSoft ==
  ASSUME NEW m \in Midst,
         m.counter # 0 \/ (m.PattDelTime2 # 0 /\ \A v \in Voices : ~Loops(m.chan[v]))
  PROVE  Soft(m, Effects(m))
<1> DEFINE Calm(n) ==
             n.counter # 0 \/ (n.PattDelTime2 # 0 /\ \A v \in Voices : ~Loops(n.chan[v]))
           Ready(n) == n \in Midst /\ Soft(m, n) /\ Calm(n)
<1>1. ASSUME NEW n, NEW v \in Voices, Ready(n)
      PROVE  Ready(CheckEfx(n, v))
  <2> DEFINE k == CheckEfx(n, v)
  <2>1. Soft(n, k)
    BY <1>1, EffectIs
  <2> HIDE DEF k
  <2>2. Soft(m, k)
    BY <1>1, <2>1, SoftTwice
  <2>3. \A w \in Voices : Loops(k.chan[w]) => Loops(n.chan[w])
    BY <2>1 DEF Soft, OrderKept, Loops
  <2>4. k \in Midst /\ k.counter = n.counter /\ k.PattDelTime2 = n.PattDelTime2
    BY <2>1 DEF Soft
  <2>5. Ready(k)
    BY <1>1, <2>2, <2>3, <2>4
  <2> QED
    BY <2>5 DEF k
<1>2. Ready(m)
  BY SoftSlides DEF Voices
<1>3. 1 \in Voices /\ 2 \in Voices /\ 3 \in Voices /\ 4 \in Voices
  BY DEF Voices
<1> HIDE DEF Ready
<1>4. Ready(Effects(m))
  BY <1>1, <1>2, <1>3 DEF Effects
<1> QED
  BY <1>4 DEF Ready

-----------------------------------------------------------------------------
(* What a voice does when its row is fetched, by the command its channel has *)
(* been given.                                                               *)
Obeyed(x, n, v) ==
  LET ch == x.chan[v]
  IN /\ n \in Midst
     /\ n.counter = 0 /\ n.PatternPos = x.PatternPos /\ n.PattDelTime2 = x.PattDelTime2
     /\ \A w \in Voices \ {v} : OrderKept(x.chan[w], n.chan[w])
     /\ n.chan[v].cmd = ch.cmd
     /\ ch.cmd # 3 => n.chan[v].cmdlo = ch.cmdlo
     /\ n.chan[v].pattpos = IF Loops(ch) THEN Start(x, ch) ELSE ch.pattpos
     /\ n.chan[v].loopcount = IF Loops(ch) THEN Left(ch) ELSE ch.loopcount
     /\ n.SongPos = IF ch.cmd = 11 THEN ch.cmdlo - 1 ELSE x.SongPos
     /\ n.PosJumpFlag <=> (x.PosJumpFlag \/ ch.cmd \in {11, 13})
     /\ n.PBreakFlag <=> (x.PBreakFlag \/ (Loops(ch) /\ Arms(ch)))
     /\ ch.cmd = 11 => n.PBreakPos = 0
     /\ ch.cmd = 13 => n.PBreakPos = BreakRow(ch.cmdlo)
     /\ Loops(ch) /\ Arms(ch) => n.PBreakPos = ch.pattpos
     /\ ch.cmd \notin {11, 13} /\ ~(Loops(ch) /\ Arms(ch)) => n.PBreakPos = x.PBreakPos
     /\ n.PattDelTime = IF Delays(ch) THEN Low(ch.cmdlo) + 1 ELSE x.PattDelTime

LEMMA SoftIsObeyed ==
  ASSUME NEW x, NEW n, NEW v \in Voices, Soft(x, n), x.counter = 0,
         x.chan[v].cmd \notin {11, 13}, ~Loops(x.chan[v]), ~Delays(x.chan[v])
  PROVE  Obeyed(x, n, v)
<1>1. OrderKept(x.chan[v], n.chan[v])
  BY DEF Soft
<1>2. \A w \in Voices \ {v} : OrderKept(x.chan[w], n.chan[w])
  BY DEF Soft
<1>3. /\ n \in Midst
      /\ n.SongPos = x.SongPos /\ n.PatternPos = x.PatternPos
      /\ n.PBreakPos = x.PBreakPos /\ n.PBreakFlag = x.PBreakFlag
      /\ n.PosJumpFlag = x.PosJumpFlag
      /\ n.PattDelTime = x.PattDelTime /\ n.PattDelTime2 = x.PattDelTime2
      /\ n.counter = 0
  BY DEF Soft
<1> QED
  BY <1>1, <1>2, <1>3 DEF Obeyed, OrderKept

LEMMA LoopIsObeyed ==
  ASSUME NEW x \in Midst, NEW n, NEW v \in Voices, LoopObeyed(x, n, v), x.counter = 0,
         Loops(x.chan[v])
  PROVE  Obeyed(x, n, v)
<1>1. x.chan[v].cmd \notin {11, 13} /\ ~Delays(x.chan[v])
  BY DEF Loops, Delays
<1>2. ASSUME NEW w \in Voices \ {v}
      PROVE  OrderKept(x.chan[w], n.chan[w])
  <2>1. n.chan[w] = x.chan[w]
    BY DEF LoopObeyed
  <2> QED
    BY <2>1 DEF OrderKept
<1> QED
  BY <1>1, <1>2 DEF Obeyed, LoopObeyed, CommandKept

LEMMA DelayIsObeyed ==
  ASSUME NEW x \in Midst, NEW v \in Voices, x.counter = 0, x.PattDelTime2 = 0,
         Delays(x.chan[v])
  PROVE  Obeyed(x, PatternDelay(x, v), v)
<1> DEFINE d == Low(x.chan[v].cmdlo) + 1
           n == [x EXCEPT !.PattDelTime = d]
<1>1. PatternDelay(x, v) = n
  BY DEF PatternDelay
<1>2. x.chan[v].cmd \notin {11, 13} /\ ~Loops(x.chan[v])
  BY DEF Loops, Delays
<1>3. d \in Delay
  <2>1. Low(x.chan[v].cmdlo) \in Nibble
    BY ChannelPut, FieldsOfAChannel, HalvesOfAByte
  <2> QED
    BY <2>1 DEF Nibble, Delay
<1>4. d = Low(x.chan[v].cmdlo) + 1
  OBVIOUS
<1> HIDE DEF d
<1>5. /\ n \in Midst
      /\ n.SongPos = x.SongPos /\ n.PatternPos = x.PatternPos
      /\ n.PBreakPos = x.PBreakPos /\ n.PBreakFlag = x.PBreakFlag
      /\ n.PosJumpFlag = x.PosJumpFlag
      /\ n.PattDelTime = d /\ n.PattDelTime2 = x.PattDelTime2
      /\ n.counter = 0 /\ n.chan = x.chan
  BY <1>3 DEF Midst
<1> HIDE DEF n
<1>6. Obeyed(x, n, v)
  BY <1>2, <1>4, <1>5 DEF Obeyed, OrderKept
<1> QED
  BY <1>1, <1>6

LEMMA JumpIsObeyed ==
  ASSUME NEW x \in Midst, NEW v \in Voices, x.counter = 0
  PROVE  /\ x.chan[v].cmd = 11 => Obeyed(x, PositionJump(x, v), v)
         /\ x.chan[v].cmd = 13 => Obeyed(x, PatternBreak(x, v), v)
<1> DEFINE lo == x.chan[v].cmdlo
           p == [x EXCEPT !.SongPos = lo - 1, !.PBreakPos = 0, !.PosJumpFlag = TRUE]
           b == [x EXCEPT !.PBreakPos = BreakRow(lo), !.PosJumpFlag = TRUE]
<1>1. PositionJump(x, v) = p /\ PatternBreak(x, v) = b
  BY DEF PositionJump, PatternBreak
<1>2. x.chan[v].cmd \in {11, 13} => ~Loops(x.chan[v]) /\ ~Delays(x.chan[v])
  BY DEF Loops, Delays
<1>3. lo - 1 \in Place /\ BreakRow(lo) \in Row /\ 0 \in Row
  <2>1. lo \in Byte
    BY ChannelPut, FieldsOfAChannel
  <2>2. lo - 1 \in Place
    <3> HIDE DEF lo
    <3> QED
      BY <2>1 DEF Byte, Place
  <2>3. High(lo) \in Nat /\ Low(lo) \in Nat
    <3>1. Nibble \subseteq Nat
      BY DEF Nibble
    <3> QED
      BY <2>1, <3>1, HalvesOfAByte
  <2> DEFINE row == High(lo) * 10 + Low(lo)
  <2>4. row \in Nat
    BY <2>3
  <2>5. BreakRow(lo) = IF row > Rows - 1 THEN 0 ELSE row
    BY DEF BreakRow
  <2> HIDE DEF row
  <2> QED
    BY <2>2, <2>4, <2>5, RowsAssumption DEF Row
<1> DEFINE s == lo - 1
           r == BreakRow(lo)
<1>4. s \in Place /\ r \in Row
  BY <1>3
<1>5. /\ p = [x EXCEPT !.SongPos = s, !.PBreakPos = 0, !.PosJumpFlag = TRUE]
      /\ b = [x EXCEPT !.PBreakPos = r, !.PosJumpFlag = TRUE]
  OBVIOUS
<1> HIDE DEF s, r, p, b
<1>6. /\ p \in Midst
      /\ p.SongPos = s /\ p.PatternPos = x.PatternPos
      /\ p.PBreakPos = 0 /\ p.PBreakFlag = x.PBreakFlag /\ p.PosJumpFlag
      /\ p.PattDelTime = x.PattDelTime /\ p.PattDelTime2 = x.PattDelTime2
      /\ p.counter = 0 /\ p.chan = x.chan
  <2>1. TRUE \in BOOLEAN
    BY Zenon
  <2>2. p \in Midst
    <3> DEFINE p1 == [x EXCEPT !.SongPos = s]
               p2 == [p1 EXCEPT !.PBreakPos = 0]
               p3 == [p2 EXCEPT !.PosJumpFlag = TRUE]
    <3>1. p = p3
      BY <1>5
    <3>2. p1 \in Midst
      BY <1>4 DEF Midst
    <3> HIDE DEF p1
    <3>3. p2 \in Midst
      BY <1>3, <3>2 DEF Midst
    <3> HIDE DEF p2
    <3>4. p3 \in Midst
      BY <2>1, <3>3, ZenonT(60) DEF Midst
    <3> QED
      BY <3>1, <3>4
  <2>3. /\ p.SongPos = s /\ p.PatternPos = x.PatternPos
        /\ p.PBreakPos = 0 /\ p.PBreakFlag = x.PBreakFlag /\ p.PosJumpFlag
        /\ p.PattDelTime = x.PattDelTime /\ p.PattDelTime2 = x.PattDelTime2
        /\ p.counter = 0 /\ p.chan = x.chan
    BY <1>5 DEF Midst
  <2> QED
    BY <2>2, <2>3
<1>7. /\ b \in Midst
      /\ b.SongPos = x.SongPos /\ b.PatternPos = x.PatternPos
      /\ b.PBreakPos = r /\ b.PBreakFlag = x.PBreakFlag /\ b.PosJumpFlag
      /\ b.PattDelTime = x.PattDelTime /\ b.PattDelTime2 = x.PattDelTime2
      /\ b.counter = 0 /\ b.chan = x.chan
  <2>1. TRUE \in BOOLEAN
    OBVIOUS
  <2>2. b \in Midst
    BY <1>3, <1>4, <1>5, <2>1, ZenonT(60) DEF Midst
  <2>3. /\ b.SongPos = x.SongPos /\ b.PatternPos = x.PatternPos
        /\ b.PBreakPos = r /\ b.PBreakFlag = x.PBreakFlag /\ b.PosJumpFlag
        /\ b.PattDelTime = x.PattDelTime /\ b.PattDelTime2 = x.PattDelTime2
        /\ b.counter = 0 /\ b.chan = x.chan
    BY <1>5 DEF Midst
  <2> QED
    BY <2>2, <2>3
<1>8. x.chan[v].cmd = 11 => Obeyed(x, p, v)
  BY <1>2, <1>6 DEF Obeyed, OrderKept, s
<1>9. x.chan[v].cmd = 13 => Obeyed(x, b, v)
  BY <1>2, <1>7 DEF Obeyed, OrderKept, r
<1> QED
  BY <1>1, <1>8, <1>9

LEMMA SpeedIsObeyed ==
  ASSUME NEW x \in Midst, NEW v \in Voices, x.counter = 0, x.chan[v].cmd = 15
  PROVE  Obeyed(x, SetSpeed(x, v), v)
<1>1. x.chan[v].cmd \notin {11, 13} /\ ~Loops(x.chan[v]) /\ ~Delays(x.chan[v])
  BY DEF Loops, Delays
<1>2. PICK s \in Speed : SetSpeed(x, v) = [x EXCEPT !.counter = 0, !.speed = s]
  <2> DEFINE lo == x.chan[v].cmdlo
  <2>1. lo \in Byte
    BY ChannelPut, FieldsOfAChannel
  <2>2. x.speed \in Speed /\ x = [x EXCEPT !.counter = 0, !.speed = x.speed]
    BY DEF Midst
  <2>3. [x EXCEPT !.counter = 0] = [x EXCEPT !.counter = 0, !.speed = x.speed]
    BY DEF Midst
  <2>4. CASE lo = 0
    <3>1. SetSpeed(x, v) = x
      BY <2>4 DEF SetSpeed
    <3> QED
      BY <2>2, <3>1
  <2>5. CASE lo # 0
    <3>1. lo > 0 /\ lo \in Speed
      <4> HIDE DEF lo
      <4> QED
        BY <2>1, <2>5 DEF Byte, Speed
    <3>2. SetSpeed(x, v) \in {[x EXCEPT !.counter = 0, !.speed = lo], [x EXCEPT !.counter = 0]}
      BY <2>5, <3>1, Zenon DEF SetSpeed
    <3> HIDE DEF lo
    <3> QED
      BY <2>2, <2>3, <3>1, <3>2
  <2> QED
    BY <2>4, <2>5
<1> DEFINE n == [x EXCEPT !.counter = 0, !.speed = s]
<1>3. 0 \in Nat
  OBVIOUS
<1>4. /\ n \in Midst
      /\ n.SongPos = x.SongPos /\ n.PatternPos = x.PatternPos
      /\ n.PBreakPos = x.PBreakPos /\ n.PBreakFlag = x.PBreakFlag
      /\ n.PosJumpFlag = x.PosJumpFlag
      /\ n.PattDelTime = x.PattDelTime /\ n.PattDelTime2 = x.PattDelTime2
      /\ n.counter = 0 /\ n.chan = x.chan
  <2>1. n \in Midst
    <3> DEFINE y == [x EXCEPT !.speed = s]
    <3>1. y \in Midst
      BY DEF Midst
    <3>2. n = [y EXCEPT !.counter = 0]
      BY DEF Midst
    <3> HIDE DEF y, n
    <3>3. [y EXCEPT !.counter = 0] \in Midst
      BY <1>3, <3>1 DEF Midst
    <3> QED
      BY <3>2, <3>3
  <2>2. /\ n.SongPos = x.SongPos /\ n.PatternPos = x.PatternPos
        /\ n.PBreakPos = x.PBreakPos /\ n.PBreakFlag = x.PBreakFlag
        /\ n.PosJumpFlag = x.PosJumpFlag
        /\ n.PattDelTime = x.PattDelTime /\ n.PattDelTime2 = x.PattDelTime2
        /\ n.counter = 0 /\ n.chan = x.chan
    BY DEF Midst
  <2> HIDE DEF n
  <2> QED
    BY <2>1, <2>2
<1> HIDE DEF n
<1>5. Obeyed(x, n, v)
  BY <1>1, <1>4 DEF Obeyed, OrderKept
<1> QED
  BY <1>2, <1>5 DEF n

LEMMA RowCommandIsObeyed ==
  ASSUME NEW x \in Midst, NEW v \in Voices, x.counter = 0, x.PattDelTime2 = 0
  PROVE  Obeyed(x, CheckMoreEfx(x, v), v)
<1> DEFINE ch == x.chan[v]
<1>1. ch \in Channel
  BY ChannelPut
<1>2. CASE ch.cmd \in {11, 13}
  <2>1. /\ ch.cmd = 11 => CheckMoreEfx(x, v) = PositionJump(x, v)
        /\ ch.cmd = 13 => CheckMoreEfx(x, v) = PatternBreak(x, v)
    BY DEF CheckMoreEfx
  <2> QED
    BY <1>2, <2>1, JumpIsObeyed
<1>3. CASE ch.cmd = 15
  <2>1. CheckMoreEfx(x, v) = SetSpeed(x, v)
    BY <1>3 DEF CheckMoreEfx
  <2> QED
    BY <1>3, <2>1, SpeedIsObeyed
<1>4. CASE ch.cmd = 14
  <2>1. CheckMoreEfx(x, v) = E_Commands(x, v)
    BY <1>4 DEF CheckMoreEfx
  <2>2. CASE High(ch.cmdlo) = 6
    <3>1. Loops(ch) /\ E_Commands(x, v) = JumpLoop(x, v)
      BY <1>4, <2>2, ECommandIs DEF Loops
    <3>2. LoopObeyed(x, JumpLoop(x, v), v)
      BY LoopOf
    <3> QED
      BY <2>1, <3>1, <3>2, LoopIsObeyed
  <2>3. CASE High(ch.cmdlo) = 14
    <3>1. Delays(ch) /\ E_Commands(x, v) = PatternDelay(x, v)
      BY <1>4, <2>3, ECommandIs DEF Delays
    <3> QED
      BY <2>1, <3>1, DelayIsObeyed
  <2>4. CASE High(ch.cmdlo) \notin {6, 14}
    <3>1. Soft(x, E_Commands(x, v))
      BY <2>4, ECommandIs
    <3>2. ~Loops(ch) /\ ~Delays(ch) /\ ch.cmd \notin {11, 13}
      BY <1>4, <2>4 DEF Loops, Delays
    <3> QED
      BY <2>1, <3>1, <3>2, SoftIsObeyed
  <2> QED
    BY <2>2, <2>3, <2>4
<1>5. CASE ch.cmd \notin {11, 13, 14, 15}
  <2>1. CheckMoreEfx(x, v) \in {Put(x, v, VolumeChange(ch)), x}
    BY <1>5 DEF CheckMoreEfx
  <2>2. Soft(x, Put(x, v, VolumeChange(ch))) /\ Soft(x, x)
    BY <1>1, VolumesKeepTheChannel, EffectsKeepTheOrder, SoftPut, SoftSlides
  <2>3. ~Loops(ch) /\ ~Delays(ch) /\ ch.cmd \notin {11, 13}
    BY <1>5 DEF Loops, Delays
  <2>4. Soft(x, CheckMoreEfx(x, v))
    BY <2>1, <2>2
  <2> QED
    BY <2>3, <2>4, SoftIsObeyed
<1> QED
  BY <1>2, <1>3, <1>4, <1>5

LEMMA PutTwice ==
  ASSUME NEW m \in Midst, NEW v \in Voices, NEW a \in Channel, NEW b
  PROVE  Put(Put(m, v, a), v, b) = Put(m, v, b) /\ Put(m, v, a).chan[v] = a
<1>1. Put(m, v, a).chan[v] = a
  BY PutChanges
<1> DEFINE f == [m.chan EXCEPT ![v] = a]
           n == [m EXCEPT !.chan = f]
<1>2. n.chan = f
  BY DEF Midst
<1>3. [f EXCEPT ![v] = b] = [m.chan EXCEPT ![v] = b]
  BY DEF Midst
<1> HIDE DEF f
<1>4. \A g : [n EXCEPT !.chan = g] = [m EXCEPT !.chan = g]
  BY DEF Midst
<1>5. Put(n, v, b) = Put(m, v, b)
  <2> HIDE DEF n
  <2> QED
    BY <1>2, <1>3, <1>4 DEF Put
<1>6. Put(m, v, a) = n
  BY DEF Put, f
<1> QED
  BY <1>1, <1>5, <1>6

(* The cell of the row that a voice plays.                                   *)
HereCell(v) == Order!Cell(Here, v)

LEMMA HereCells ==
  ASSUME Settling, NEW v \in Voices
  PROVE  /\ HereCell(v) = song.pattern[song.order[mt.SongPos]][mt.PatternPos][v]
         /\ HereCell(v) \in Cells
<1>1. HereCell(v) = song.pattern[song.order[mt.SongPos]][mt.PatternPos][v]
  BY DEF HereCell, Order!Cell, Here
<1>2. /\ song \in Songs
      /\ mt.SongPos \in 0..(Positions - 1) /\ mt.PatternPos \in 0..(Rows - 1)
  BY DEF Settling, Settled
<1>3. \A p \in 0..(Positions - 1), r \in 0..(Rows - 1), w \in Voices :
        song.pattern[song.order[p]][r][w] \in Cells
  BY <1>2, SongsAssumption
<1> QED
  BY <1>1, <1>2, <1>3

(* What a voice's channel is when its command is obeyed: it has the command  *)
(* of the cell, and its loop as it was.                                      *)
Given(m, v, d) ==
  /\ d \in Channel
  /\ d.cmd = HereCell(v).cmd /\ d.cmdlo = HereCell(v).lo
  /\ d.pattpos = m.chan[v].pattpos /\ d.loopcount = m.chan[v].loopcount

LEMMA CellIsTaken ==
  ASSUME Settling, NEW m \in Midst, NEW v \in Voices
  PROVE  Given(m, v, Taken(m.chan[v], HereCell(v)))
<1> DEFINE ch == m.chan[v]
           cell == HereCell(v)
           n == [ch EXCEPT !.note = cell.note, !.cmd = cell.cmd, !.cmdlo = cell.lo]
           s == song.samples[cell.sample]
           k == [n EXCEPT !.finetune = s.finetune, !.volume = s.volume]
<1>1. cell \in Cells /\ ch \in Channel
  BY HereCells, ChannelPut
<1>2. Taken(ch, cell) \in Channel
  BY <1>1, TakenIsAChannel DEF Settling
<1>3. Taken(ch, cell) = IF cell.sample \notin SampleNumbers THEN n ELSE k
  BY DEF Taken
<1> HIDE DEF cell, ch
<1>4. /\ n.cmd = cell.cmd /\ n.cmdlo = cell.lo
      /\ n.pattpos = ch.pattpos /\ n.loopcount = ch.loopcount
  BY <1>1 DEF Channel
<1>5. /\ k.cmd = n.cmd /\ k.cmdlo = n.cmdlo
      /\ k.pattpos = n.pattpos /\ k.loopcount = n.loopcount
  <2>1. DOMAIN n = DOMAIN ch
    OBVIOUS
  <2>2. /\ "cmd" \in DOMAIN ch /\ "cmdlo" \in DOMAIN ch
        /\ "pattpos" \in DOMAIN ch /\ "loopcount" \in DOMAIN ch
    BY <1>1 DEF Channel
  <2> HIDE DEF n, s
  <2> QED
    BY <2>1, <2>2
<1> HIDE DEF n, k
<1>6. /\ Taken(ch, cell).cmd = cell.cmd /\ Taken(ch, cell).cmdlo = cell.lo
      /\ Taken(ch, cell).pattpos = ch.pattpos /\ Taken(ch, cell).loopcount = ch.loopcount
  BY <1>3, <1>4, <1>5
<1> QED
  BY <1>2, <1>6 DEF Given, ch, cell

LEMMA GivenStill ==
  ASSUME NEW m, NEW v \in Voices, NEW d, NEW e \in Channel,
         Given(m, v, d), OrderKept(d, e), CommandKept(d, e)
  PROVE  Given(m, v, e)
BY DEF Given, OrderKept, CommandKept

LEMMA CellIsPlayed ==
  ASSUME Settling, NEW m \in Midst, NEW v \in Voices
  PROVE  \E d \in Channel :
           /\ Given(m, v, d)
           /\ PlayVoice(m, v) = CheckMoreEfx(Put(m, v, d), v)
<1> DEFINE t == Taken(m.chan[v], HereCell(v))
           x == Put(m, v, t)
<1>1. t \in Channel /\ Given(m, v, t)
  BY CellIsTaken DEF Given
<1>2. x \in Midst /\ x.chan[v] = t
  BY <1>1, PutChanges
<1>3. PlayVoice(m, v) = PlayCell(x, v)
  BY HereCells DEF PlayVoice
<1> HIDE DEF t
<1>4. /\ SetFineTune(t) \in Channel /\ OrderKept(t, SetFineTune(t))
      /\ CommandKept(t, SetFineTune(t))
      /\ SetTonePorta(t) \in Channel /\ OrderKept(t, SetTonePorta(t))
      /\ CommandKept(t, SetTonePorta(t))
  <2>1. CommandKept(t, SetFineTune(t))
    BY <1>1, FieldsKeptInChannel DEF SetFineTune
  <2>2. CommandKept(t, SetTonePorta(t))
    <3> DEFINE i == IndexBelow(t.finetune * 37, t.note)
               k == IF Flat(t.finetune) /\ i > 0 THEN i - 1 ELSE i
               wanted == PeriodTable[t.finetune * 37 + k]
               aim   == IF t.period = wanted THEN 0 ELSE wanted
               direc == IF t.period > wanted THEN 1 ELSE 0
    <3>1. SetTonePorta(t) = [t EXCEPT !.wantedperiod = aim, !.toneportdirec = direc]
      BY SMTT(30) DEF SetTonePorta
    <3> HIDE DEF aim, direc
    <3>2. CommandKept(t, [t EXCEPT !.wantedperiod = aim, !.toneportdirec = direc])
      BY <1>1, FieldsKeptInChannel
    <3> QED
      BY <3>1, <3>2
  <2> QED
    BY <1>1, <2>1, <2>2, TuningKeepsTheChannel, EffectsKeepTheOrder, SMTT(30)
<1>5. ASSUME NEW d \in Channel, Given(m, v, d)
      PROVE  \E e \in Channel : /\ Given(m, v, e)
                                /\ SetPeriod(Put(m, v, d), v) = CheckMoreEfx(Put(m, v, e), v)
  <2>1. /\ Tuned(d) \in Channel /\ OrderKept(d, Tuned(d)) /\ CommandKept(d, Tuned(d))
    BY TuningKeepsTheChannel, EffectsKeepTheOrder, FieldsKeptInChannel DEF Tuned
  <2>2. Given(m, v, Tuned(d))
    BY <1>5, <2>1, GivenStill
  <2>3. SetPeriod(Put(m, v, d), v) = CheckMoreEfx(Put(m, v, Tuned(d)), v)
    BY PutTwice DEF SetPeriod
  <2> QED
    BY <2>1, <2>2, <2>3, SMTT(30)
<1>6. PlayCell(x, v) \in
        {CheckMoreEfx(x, v), SetPeriod(Put(x, v, SetFineTune(t)), v),
         CheckMoreEfx(Put(x, v, SetTonePorta(t)), v), SetPeriod(x, v)}
  <2> HIDE DEF x
  <2> QED
    BY <1>2, Zenon DEF PlayCell
<1>7. /\ Given(m, v, SetFineTune(t)) /\ Given(m, v, SetTonePorta(t))
  BY <1>1, <1>4, GivenStill
<1>8. /\ Put(x, v, SetFineTune(t)) = Put(m, v, SetFineTune(t))
      /\ Put(x, v, SetTonePorta(t)) = Put(m, v, SetTonePorta(t))
  BY <1>1, PutTwice
<1>9. CASE PlayCell(x, v) = CheckMoreEfx(x, v)
  BY <1>1, <1>3, <1>9
<1>10. CASE PlayCell(x, v) = SetPeriod(Put(x, v, SetFineTune(t)), v)
  BY <1>3, <1>4, <1>5, <1>7, <1>8, <1>10
<1>11. CASE PlayCell(x, v) = CheckMoreEfx(Put(x, v, SetTonePorta(t)), v)
  BY <1>3, <1>4, <1>7, <1>8, <1>11
<1>12. CASE PlayCell(x, v) = SetPeriod(x, v)
  BY <1>1, <1>3, <1>5, <1>12
<1> QED
  BY <1>6, <1>9, <1>10, <1>11, <1>12

-----------------------------------------------------------------------------
(* The voices of the row here, by what they ask for.                         *)
Jumping  == {v \in Voices : HereCell(v).cmd = 11}
Leaving  == {v \in Voices : HereCell(v).cmd \in {11, 13}}
Looping  == {v \in Voices : HereCell(v).cmd = 14 /\ High(HereCell(v).lo) = 6}
Delaying == {v \in Voices : HereCell(v).cmd = 14 /\ High(HereCell(v).lo) = 14}

(* What their loops become.                                                  *)
NewStart(v) ==
  IF v \in Looping /\ Low(HereCell(v).lo) = 0 THEN mt.PatternPos ELSE mt.chan[v].pattpos
NewCount(v) ==
  CASE v \notin Looping \/ Low(HereCell(v).lo) = 0 -> mt.chan[v].loopcount
    [] v \in Looping /\ Low(HereCell(v).lo) # 0 /\ mt.chan[v].loopcount = 0
         -> Low(HereCell(v).lo)
    [] OTHER -> mt.chan[v].loopcount - 1
Arming == {v \in Looping : Low(HereCell(v).lo) # 0 /\ NewCount(v) # 0}

LeaveRow(v) == IF HereCell(v).cmd = 11 THEN 0 ELSE BreakRow(HereCell(v).lo)

UpTo(S, k) == {v \in S : v <= k}
LastOf(S) == CHOOSE v \in S : \A w \in S : w <= v

(* What the first k voices of the row have made of mt.                       *)
SoFar(m, k) ==
  /\ m \in Midst /\ m.counter = 0 /\ m.PattDelTime2 = 0 /\ m.PatternPos = mt.PatternPos
  /\ \A v \in Voices :
       v <= k => /\ m.chan[v].cmd = HereCell(v).cmd
                 /\ HereCell(v).cmd # 3 => m.chan[v].cmdlo = HereCell(v).lo
                 /\ m.chan[v].pattpos = NewStart(v)
                 /\ m.chan[v].loopcount = NewCount(v)
  /\ \A v \in Voices :
       v > k => /\ m.chan[v].pattpos = mt.chan[v].pattpos
                /\ m.chan[v].loopcount = mt.chan[v].loopcount
  /\ m.PosJumpFlag <=> UpTo(Leaving, k) # {}
  /\ m.PBreakFlag <=> UpTo(Arming, k) # {}
  /\ m.SongPos = IF UpTo(Jumping, k) = {} THEN mt.SongPos
                 ELSE HereCell(LastOf(UpTo(Jumping, k))).lo - 1
  /\ UpTo(Leaving, k) # {} /\ UpTo(Arming, k) = {} =>
       m.PBreakPos = LeaveRow(LastOf(UpTo(Leaving, k)))
  /\ UpTo(Leaving, k) = {} /\ UpTo(Arming, k) # {} =>
       m.PBreakPos = NewStart(LastOf(UpTo(Arming, k)))
  /\ UpTo(Leaving, k) = {} /\ UpTo(Arming, k) = {} => m.PBreakPos = 0
  /\ m.PattDelTime = IF UpTo(Delaying, k) = {} THEN 0
                     ELSE Low(HereCell(LastOf(UpTo(Delaying, k))).lo) + 1

LEMMA Prefixes ==
  ASSUME NEW S \in SUBSET Voices, NEW k \in 0..3
  PROVE  /\ k + 1 \in S => UpTo(S, k + 1) # {} /\ LastOf(UpTo(S, k + 1)) = k + 1
         /\ k + 1 \notin S => UpTo(S, k + 1) = UpTo(S, k)
         /\ UpTo(S, 0) = {} /\ UpTo(S, 4) = S
<1>1. \A w \in S : w \in Int /\ 0 < w /\ w <= 4
  BY DEF Voices
<1>2. \A i, w : w \in UpTo(S, i) <=> w \in S /\ w <= i
  BY DEF UpTo
<1>3. k + 1 \notin S => UpTo(S, k + 1) = UpTo(S, k)
  <2> SUFFICES ASSUME k + 1 \notin S, NEW w
               PROVE  w \in UpTo(S, k + 1) <=> w \in UpTo(S, k)
    BY Zenon
  <2>1. w \in S => (w <= k + 1 <=> w <= k)
    <3> SUFFICES ASSUME w \in S
                 PROVE  w <= k + 1 <=> w <= k
      OBVIOUS
    <3>1. w \in Int /\ w # k + 1
      BY <1>1
    <3> QED
      BY <3>1
  <2> QED
    BY <1>2, <2>1
<1>4. UpTo(S, 0) = {} /\ UpTo(S, 4) = S
  <2>1. \A w : w \in UpTo(S, 0) <=> FALSE
    BY <1>1, <1>2
  <2>2. \A w : w \in UpTo(S, 4) <=> w \in S
    BY <1>1, <1>2
  <2> QED
    BY <2>1, <2>2, Zenon
<1>5. ASSUME k + 1 \in S
      PROVE  UpTo(S, k + 1) # {} /\ LastOf(UpTo(S, k + 1)) = k + 1
  <2> DEFINE U == UpTo(S, k + 1)
  <2>1. k + 1 \in U /\ (\A w \in U : w <= k + 1) /\ U \subseteq Int
    BY <1>1, <1>2, <1>5
  <2> HIDE DEF U
  <2>2. \A v \in U : (\A w \in U : w <= v) => v = k + 1
    BY <2>1
  <2>3. LastOf(U) = k + 1
    BY <2>1, <2>2 DEF LastOf
  <2> QED
    BY <2>1, <2>3 DEF U
<1> QED
  BY <1>3, <1>4, <1>5

LEMMA VoiceGoesOn ==
  ASSUME Settling, mt.PattDelTime2 = 0, NEW k \in 0..3, NEW m, SoFar(m, k)
  PROVE  SoFar(PlayVoice(m, k + 1), k + 1)
<1> DEFINE v == k + 1
           c == HereCell(v)
           n == PlayVoice(m, v)
<1>1. v \in Voices
  BY DEF Voices
<1>2. m \in Midst /\ m.counter = 0 /\ m.PattDelTime2 = 0
  BY DEF SoFar
<1>3. PICK d \in Channel : Given(m, v, d) /\ n = CheckMoreEfx(Put(m, v, d), v)
  BY <1>1, <1>2, CellIsPlayed
<1> DEFINE x == Put(m, v, d)
<1> HIDE DEF n
<1>4. /\ x \in Midst
      /\ x.SongPos = m.SongPos /\ x.PatternPos = m.PatternPos
      /\ x.PBreakPos = m.PBreakPos /\ x.PBreakFlag = m.PBreakFlag
      /\ x.PosJumpFlag = m.PosJumpFlag
      /\ x.PattDelTime = m.PattDelTime /\ x.PattDelTime2 = m.PattDelTime2
      /\ x.counter = m.counter
      /\ x.chan[v] = d
      /\ \A w \in Voices \ {v} : x.chan[w] = m.chan[w]
  <2> HIDE DEF v
  <2> QED
    BY <1>1, <1>2, PutChanges
<1>5. Obeyed(x, n, v)
  <2> HIDE DEF v, x
  <2> QED
    BY <1>1, <1>2, <1>3, <1>4, RowCommandIsObeyed DEF x
<1> HIDE DEF x
<1>6. m.chan[v].pattpos = mt.chan[v].pattpos /\ m.chan[v].loopcount = mt.chan[v].loopcount
  <2>1. v > k
    OBVIOUS
  <2> QED
    BY <1>1, <2>1 DEF SoFar
<1>7. /\ d.cmd = c.cmd /\ d.cmdlo = c.lo
      /\ d.pattpos = mt.chan[v].pattpos /\ d.loopcount = mt.chan[v].loopcount
  BY <1>3, <1>6 DEF Given
<1>8. /\ Loops(d) <=> v \in Looping
      /\ Delays(d) <=> v \in Delaying
      /\ d.cmd = 11 <=> v \in Jumping
      /\ d.cmd \in {11, 13} <=> v \in Leaving
  BY <1>1, <1>7 DEF Loops, Delays, Looping, Delaying, Jumping, Leaving
<1>9. /\ v \in Looping => Left(d) = NewCount(v) /\ Start(x, d) = NewStart(v)
      /\ v \notin Looping => d.loopcount = NewCount(v) /\ d.pattpos = NewStart(v)
  <2>1. x.PatternPos = mt.PatternPos
    BY <1>4 DEF SoFar
  <2> HIDE DEF v
  <2> QED
    BY <1>7, <2>1 DEF Left, Start, NewCount, NewStart
<1>10. Loops(d) /\ Arms(d) <=> v \in Arming
  BY <1>7, <1>8, <1>9 DEF Arms, Arming
<1>11. v \in Arming => d.pattpos = NewStart(v)
  BY <1>7 DEF Arming, NewStart
<1> HIDE DEF v, c
<1>12. /\ n \in Midst /\ n.counter = 0 /\ n.PattDelTime2 = 0
       /\ n.PatternPos = mt.PatternPos
  BY <1>2, <1>4, <1>5 DEF Obeyed, SoFar
<1>13. /\ n.chan[v].cmd = c.cmd
       /\ c.cmd # 3 => n.chan[v].cmdlo = c.lo
       /\ n.chan[v].pattpos = NewStart(v)
       /\ n.chan[v].loopcount = NewCount(v)
  BY <1>4, <1>5, <1>7, <1>8, <1>9 DEF Obeyed
<1>14. \A w \in Voices \ {v} : OrderKept(m.chan[w], n.chan[w])
  BY <1>4, <1>5 DEF Obeyed
<1>15. /\ n.SongPos = IF v \in Jumping THEN c.lo - 1 ELSE m.SongPos
       /\ n.PosJumpFlag <=> (m.PosJumpFlag \/ v \in Leaving)
       /\ n.PBreakFlag <=> (m.PBreakFlag \/ v \in Arming)
       /\ v \in Leaving => n.PBreakPos = LeaveRow(v)
       /\ v \in Arming => n.PBreakPos = NewStart(v)
       /\ v \notin Leaving /\ v \notin Arming => n.PBreakPos = m.PBreakPos
       /\ n.PattDelTime = IF v \in Delaying THEN Low(c.lo) + 1 ELSE m.PattDelTime
  BY <1>4, <1>5, <1>7, <1>8, <1>10, <1>11 DEF Obeyed, LeaveRow, c
<1>16. /\ \A w \in Voices :
            w <= v => /\ n.chan[w].cmd = HereCell(w).cmd
                      /\ HereCell(w).cmd # 3 => n.chan[w].cmdlo = HereCell(w).lo
                      /\ n.chan[w].pattpos = NewStart(w)
                      /\ n.chan[w].loopcount = NewCount(w)
       /\ \A w \in Voices :
            w > v => /\ n.chan[w].pattpos = mt.chan[w].pattpos
                     /\ n.chan[w].loopcount = mt.chan[w].loopcount
  <2>1. ASSUME NEW w \in Voices, w < v
        PROVE  /\ n.chan[w].cmd = HereCell(w).cmd
               /\ HereCell(w).cmd # 3 => n.chan[w].cmdlo = HereCell(w).lo
               /\ n.chan[w].pattpos = NewStart(w)
               /\ n.chan[w].loopcount = NewCount(w)
    <3>1. w <= k /\ w # v
      BY <2>1 DEF v, Voices
    <3>2. /\ m.chan[w].cmd = HereCell(w).cmd
          /\ HereCell(w).cmd # 3 => m.chan[w].cmdlo = HereCell(w).lo
          /\ m.chan[w].pattpos = NewStart(w)
          /\ m.chan[w].loopcount = NewCount(w)
      BY <3>1 DEF SoFar
    <3> QED
      BY <1>14, <3>1, <3>2 DEF OrderKept
  <2>2. ASSUME NEW w \in Voices, w > v
        PROVE  /\ n.chan[w].pattpos = mt.chan[w].pattpos
               /\ n.chan[w].loopcount = mt.chan[w].loopcount
    <3>1. w > k /\ w # v
      BY <2>2 DEF v, Voices
    <3>2. /\ m.chan[w].pattpos = mt.chan[w].pattpos
          /\ m.chan[w].loopcount = mt.chan[w].loopcount
      BY <3>1 DEF SoFar
    <3> QED
      BY <1>14, <3>1, <3>2 DEF OrderKept
  <2>3. \A w \in Voices : w <= v => w < v \/ w = v
    BY <1>1 DEF Voices
  <2> QED
    BY <1>13, <2>1, <2>2, <2>3 DEF c
<1>17. /\ Leaving \in SUBSET Voices /\ Arming \in SUBSET Voices
       /\ Jumping \in SUBSET Voices /\ Delaying \in SUBSET Voices
  BY DEF Leaving, Arming, Looping, Jumping, Delaying
<1>18. /\ v \in Leaving => UpTo(Leaving, v) # {} /\ LastOf(UpTo(Leaving, v)) = v
       /\ v \notin Leaving => UpTo(Leaving, v) = UpTo(Leaving, k)
       /\ v \in Arming => UpTo(Arming, v) # {} /\ LastOf(UpTo(Arming, v)) = v
       /\ v \notin Arming => UpTo(Arming, v) = UpTo(Arming, k)
       /\ v \in Jumping => UpTo(Jumping, v) # {} /\ LastOf(UpTo(Jumping, v)) = v
       /\ v \notin Jumping => UpTo(Jumping, v) = UpTo(Jumping, k)
       /\ v \in Delaying => UpTo(Delaying, v) # {} /\ LastOf(UpTo(Delaying, v)) = v
       /\ v \notin Delaying => UpTo(Delaying, v) = UpTo(Delaying, k)
  BY <1>17, Prefixes DEF v
<1>19. /\ n.PosJumpFlag <=> UpTo(Leaving, v) # {}
       /\ n.PBreakFlag <=> UpTo(Arming, v) # {}
       /\ n.SongPos = IF UpTo(Jumping, v) = {} THEN mt.SongPos
                      ELSE HereCell(LastOf(UpTo(Jumping, v))).lo - 1
       /\ n.PattDelTime = IF UpTo(Delaying, v) = {} THEN 0
                          ELSE Low(HereCell(LastOf(UpTo(Delaying, v))).lo) + 1
  <2>1. /\ m.PosJumpFlag <=> UpTo(Leaving, k) # {}
        /\ m.PBreakFlag <=> UpTo(Arming, k) # {}
        /\ m.SongPos = IF UpTo(Jumping, k) = {} THEN mt.SongPos
                       ELSE HereCell(LastOf(UpTo(Jumping, k))).lo - 1
        /\ m.PattDelTime = IF UpTo(Delaying, k) = {} THEN 0
                           ELSE Low(HereCell(LastOf(UpTo(Delaying, k))).lo) + 1
    BY DEF SoFar
  <2> QED
    BY <1>15, <1>18, <2>1 DEF c
<1>20. /\ UpTo(Leaving, v) # {} /\ UpTo(Arming, v) = {} =>
            n.PBreakPos = LeaveRow(LastOf(UpTo(Leaving, v)))
       /\ UpTo(Leaving, v) = {} /\ UpTo(Arming, v) # {} =>
            n.PBreakPos = NewStart(LastOf(UpTo(Arming, v)))
       /\ UpTo(Leaving, v) = {} /\ UpTo(Arming, v) = {} => n.PBreakPos = 0
  <2>1. /\ UpTo(Leaving, k) # {} /\ UpTo(Arming, k) = {} =>
             m.PBreakPos = LeaveRow(LastOf(UpTo(Leaving, k)))
        /\ UpTo(Leaving, k) = {} /\ UpTo(Arming, k) # {} =>
             m.PBreakPos = NewStart(LastOf(UpTo(Arming, k)))
        /\ UpTo(Leaving, k) = {} /\ UpTo(Arming, k) = {} => m.PBreakPos = 0
    BY DEF SoFar
  <2> QED
    BY <1>15, <1>18, <2>1
<1>21. SoFar(n, v)
  BY <1>12, <1>16, <1>19, <1>20 DEF SoFar
<1> QED
  BY <1>21 DEF n, v

(* What the four voices have made of mt.                                     *)
DelayHere == IF Delaying = {} THEN 0 ELSE Low(HereCell(LastOf(Delaying)).lo)

Played(m) ==
  /\ m \in Midst /\ m.counter = 0 /\ m.PattDelTime2 = 0 /\ m.PatternPos = mt.PatternPos
  /\ \A v \in Voices :
       /\ m.chan[v].cmd = HereCell(v).cmd
       /\ HereCell(v).cmd # 3 => m.chan[v].cmdlo = HereCell(v).lo
       /\ m.chan[v].pattpos = NewStart(v)
       /\ m.chan[v].loopcount = NewCount(v)
  /\ m.PosJumpFlag <=> Leaving # {}
  /\ m.PBreakFlag <=> Arming # {}
  /\ m.SongPos = IF Jumping = {} THEN mt.SongPos ELSE HereCell(LastOf(Jumping)).lo - 1
  /\ Leaving # {} /\ Arming = {} => m.PBreakPos = LeaveRow(LastOf(Leaving))
  /\ Leaving = {} /\ Arming # {} => m.PBreakPos = NewStart(LastOf(Arming))
  /\ Leaving = {} /\ Arming = {} => m.PBreakPos = 0
  /\ m.PattDelTime = IF Delaying = {} THEN 0 ELSE DelayHere + 1

LEMMA RowIsPlayed ==
  ASSUME Settling, mt.PattDelTime2 = 0
  PROVE  Played(Notes(OnRow))
<1>1. SoFar(OnRow, 0)
  <2>1. mt \in Midst
    BY DEF Settling
  <2>2. /\ OnRow.counter = 0 /\ OnRow.PattDelTime2 = mt.PattDelTime2
        /\ OnRow.PatternPos = mt.PatternPos /\ OnRow.SongPos = mt.SongPos
        /\ OnRow.PosJumpFlag = mt.PosJumpFlag /\ OnRow.PBreakFlag = mt.PBreakFlag
        /\ OnRow.PBreakPos = mt.PBreakPos /\ OnRow.PattDelTime = mt.PattDelTime
        /\ OnRow.chan = mt.chan
    BY <2>1 DEF OnRow, Midst
  <2>3. OnRow \in Midst
    <3>1. 0 \in Nat
      OBVIOUS
    <3> QED
      BY <2>1, <3>1 DEF OnRow, Midst
  <2>4. /\ ~mt.PBreakFlag /\ ~mt.PosJumpFlag /\ mt.PBreakPos = 0 /\ mt.PattDelTime = 0
    BY DEF Settling, Settled
  <2>5. \A v \in Voices : ~(v <= 0)
    BY DEF Voices
  <2>6. /\ UpTo(Leaving, 0) = {} /\ UpTo(Arming, 0) = {}
        /\ UpTo(Jumping, 0) = {} /\ UpTo(Delaying, 0) = {}
    <3>1. /\ Leaving \in SUBSET Voices /\ Arming \in SUBSET Voices
          /\ Jumping \in SUBSET Voices /\ Delaying \in SUBSET Voices
      BY DEF Leaving, Arming, Looping, Jumping, Delaying
    <3> QED
      BY <3>1, Prefixes
  <2> QED
    BY <2>2, <2>3, <2>4, <2>5, <2>6 DEF SoFar
<1>2. /\ SoFar(PlayVoice(OnRow, 1), 1)
      /\ \A m : SoFar(m, 1) => SoFar(PlayVoice(m, 2), 2)
      /\ \A m : SoFar(m, 2) => SoFar(PlayVoice(m, 3), 3)
      /\ \A m : SoFar(m, 3) => SoFar(PlayVoice(m, 4), 4)
  <2>1. \A m : \A k \in 0..3 : SoFar(m, k) => SoFar(PlayVoice(m, k + 1), k + 1)
    BY VoiceGoesOn
  <2>2. 0 + 1 = 1 /\ 1 + 1 = 2 /\ 2 + 1 = 3 /\ 3 + 1 = 4
    OBVIOUS
  <2>3. 0 \in 0..3 /\ 1 \in 0..3 /\ 2 \in 0..3 /\ 3 \in 0..3
    OBVIOUS
  <2>4. SoFar(PlayVoice(OnRow, 1), 1)
    BY <1>1, <2>1, <2>2, <2>3
  <2>5. \A m : SoFar(m, 1) => SoFar(PlayVoice(m, 2), 2)
    BY <2>1, <2>2, <2>3
  <2>6. \A m : SoFar(m, 2) => SoFar(PlayVoice(m, 3), 3)
    BY <2>1, <2>2, <2>3
  <2>7. \A m : SoFar(m, 3) => SoFar(PlayVoice(m, 4), 4)
    BY <2>1, <2>2, <2>3
  <2> QED
    BY <2>4, <2>5, <2>6, <2>7
<1> DEFINE m == Notes(OnRow)
<1>3. SoFar(m, 4)
  BY <1>2 DEF Notes
<1> HIDE DEF m
<1>4. /\ UpTo(Leaving, 4) = Leaving /\ UpTo(Arming, 4) = Arming
      /\ UpTo(Jumping, 4) = Jumping /\ UpTo(Delaying, 4) = Delaying
  <2>1. /\ Leaving \in SUBSET Voices /\ Arming \in SUBSET Voices
        /\ Jumping \in SUBSET Voices /\ Delaying \in SUBSET Voices
    BY DEF Leaving, Arming, Looping, Jumping, Delaying
  <2> QED
    BY <2>1, Prefixes
<1>5. \A v \in Voices : v <= 4
  BY DEF Voices
<1>6. Played(m)
  BY <1>3, <1>4, <1>5 DEF SoFar, Played, DelayHere
<1> QED
  BY <1>6 DEF m

(* mt_dskip, as a whole.                                                     *)
LeftOver(m) ==
  LET delay == IF m.PattDelTime > 0 THEN m.PattDelTime ELSE m.PattDelTime2
  IN  IF delay > 0 THEN delay - 1 ELSE 0
RowAfter(m) ==
  IF m.PBreakFlag THEN m.PBreakPos
  ELSE IF LeftOver(m) > 0 THEN m.PatternPos ELSE m.PatternPos + 1
Ends(m) == RowAfter(m) >= Rows \/ m.PosJumpFlag

LEMMA SkipIs ==
  ASSUME NEW m \in Midst
  PROVE  LET n == Skip(m)
         IN /\ DOMAIN n = DOMAIN m
            /\ n.PatternPos = RowAfter(m)
            /\ n.PBreakPos = IF m.PBreakFlag THEN 0 ELSE m.PBreakPos
            /\ n.PattDelTime2 = LeftOver(m)
            /\ n.SongPos = m.SongPos /\ n.PosJumpFlag = m.PosJumpFlag
            /\ n.counter = m.counter /\ n.speed = m.speed /\ n.chan = m.chan
<1> DEFINE left == LeftOver(m)
           row  == IF left > 0 THEN m.PatternPos ELSE m.PatternPos + 1
           n    == [m EXCEPT !.PattDelTime = 0, !.PattDelTime2 = left,
                             !.PatternPos = row]
           b    == m.PBreakPos
           k    == [n EXCEPT !.PBreakFlag = FALSE, !.PatternPos = b, !.PBreakPos = 0]
<1>1. Skip(m) = IF m.PBreakFlag THEN k ELSE n
  BY DEF Skip, LeftOver
<1>2. RowAfter(m) = IF m.PBreakFlag THEN b ELSE row
  BY DEF RowAfter
<1> HIDE DEF left, row, b
<1>3. /\ DOMAIN n = DOMAIN m
      /\ n.PatternPos = row /\ n.PBreakPos = m.PBreakPos /\ n.PattDelTime2 = left
      /\ n.SongPos = m.SongPos /\ n.PosJumpFlag = m.PosJumpFlag
      /\ n.counter = m.counter /\ n.speed = m.speed /\ n.chan = m.chan
  BY DEF Midst
<1>4. /\ DOMAIN k = DOMAIN m
      /\ k.PatternPos = b /\ k.PBreakPos = 0 /\ k.PattDelTime2 = left
      /\ k.SongPos = m.SongPos /\ k.PosJumpFlag = m.PosJumpFlag
      /\ k.counter = m.counter /\ k.speed = m.speed /\ k.chan = m.chan
  BY DEF Midst
<1> HIDE DEF n, k
<1>5. m.PBreakFlag \in BOOLEAN
  BY DEF Midst
<1> QED
  BY <1>1, <1>2, <1>3, <1>4, <1>5 DEF left

LEMMA DskipIs ==
  ASSUME NEW m \in Midst
  PROVE  LET n == dskip(m)
         IN /\ n.PatternPos = IF Ends(m) THEN (IF m.PBreakFlag THEN 0 ELSE m.PBreakPos)
                              ELSE RowAfter(m)
            /\ n.SongPos = IF Ends(m) THEN Order!InSong(m.SongPos + 1) ELSE m.SongPos
            /\ n.PattDelTime2 = LeftOver(m)
            /\ n.counter = m.counter /\ n.speed = m.speed /\ n.chan = m.chan
<1> DEFINE s == Skip(m)
           pos == (s.SongPos + 1) % Positions
           q == IF pos >= song.length THEN 0 ELSE pos
           b == s.PBreakPos
           k == [s EXCEPT !.PatternPos = b, !.PBreakPos = 0, !.PosJumpFlag = FALSE,
                          !.SongPos = q]
<1>1. dskip(m) = IF Turns(m) THEN k ELSE s
  BY DEF dskip, nextPosition
<1>2. /\ DOMAIN s = DOMAIN m
      /\ s.PatternPos = RowAfter(m)
      /\ s.PBreakPos = IF m.PBreakFlag THEN 0 ELSE m.PBreakPos
      /\ s.PattDelTime2 = LeftOver(m)
      /\ s.SongPos = m.SongPos /\ s.PosJumpFlag = m.PosJumpFlag
      /\ s.counter = m.counter /\ s.speed = m.speed /\ s.chan = m.chan
  BY SkipIs
<1>3. Turns(m) <=> Ends(m)
  BY <1>2 DEF Turns, Ends
<1> HIDE DEF s
<1>4. q = Order!InSong(m.SongPos + 1)
  BY <1>2 DEF Order!InSong
<1>5. b = IF m.PBreakFlag THEN 0 ELSE m.PBreakPos
  BY <1>2
<1> HIDE DEF q, b
<1>6. DOMAIN m = {"SongPos", "PatternPos", "PBreakPos", "PBreakFlag", "PosJumpFlag",
                  "PattDelTime", "PattDelTime2", "counter", "speed", "LowMask", "chan"}
  BY DEF Midst
<1>7. /\ k.PatternPos = b /\ k.SongPos = q /\ k.PattDelTime2 = s.PattDelTime2
      /\ k.counter = s.counter /\ k.speed = s.speed /\ k.chan = s.chan
  BY <1>2, <1>6
<1> HIDE DEF k
<1> QED
  BY <1>1, <1>2, <1>3, <1>4, <1>5, <1>7

-----------------------------------------------------------------------------
LEMMA LastIsOne ==
  ASSUME NEW S \in SUBSET Voices, S # {}
  PROVE  LastOf(S) \in S
<1>1. S \subseteq 1..4
  BY DEF Voices
<1>2. \A v \in S : v \in Int /\ v <= 4
  BY <1>1
<1>3. \E v \in S : \A w \in S : w <= v
  <2>1. CASE 4 \in S
    BY <1>2, <2>1
  <2>2. CASE 4 \notin S /\ 3 \in S
    BY <1>1, <2>2
  <2>3. CASE 4 \notin S /\ 3 \notin S /\ 2 \in S
    BY <1>1, <2>3
  <2>4. CASE 4 \notin S /\ 3 \notin S /\ 2 \notin S
    <3>1. \A v \in S : v = 1
      BY <1>1, <2>4
    <3> QED
      BY <3>1
  <2> QED
    BY <2>1, <2>2, <2>3, <2>4
<1> QED
  BY <1>3 DEF LastOf

(* What SongOrder says of the row that is fetched, in terms of the player.   *)
LEMMA FetchedRow ==
  ASSUME Settling, Fetch
  PROVE  LET m == Notes(OnRow)
         IN /\ Played(m) /\ DelayHere \in Nibble
            /\ mt' = dskip(m) /\ mt'.chan = m.chan /\ mt'.speed = m.speed
            /\ mt'.counter = 0 /\ mt'.PattDelTime2 = DelayHere /\ LeftOver(m) = DelayHere
<1> DEFINE m == Notes(OnRow)
<1>1. Played(m)
  BY RowIsPlayed DEF Fetch
<1>2. mt' = dskip(m)
  BY DEF Fetch, FetchRow
<1> HIDE DEF m
<1>3. DelayHere \in Nibble
  <2>1. CASE Delaying = {}
    BY <2>1 DEF DelayHere, Nibble
  <2>2. CASE Delaying # {}
    <3>1. LastOf(Delaying) \in Voices
      <4>1. Delaying \in SUBSET Voices
        BY DEF Delaying
      <4> QED
        BY <2>2, <4>1, LastIsOne
    <3>2. HereCell(LastOf(Delaying)).lo \in Byte
      BY <3>1, HereCells DEF Cells, Byte
    <3> QED
      BY <2>2, <3>2, HalvesOfAByte DEF DelayHere
  <2> QED
    BY <2>1, <2>2
<1>4. LeftOver(m) = DelayHere
  <2>1. /\ m.PattDelTime = IF Delaying = {} THEN 0 ELSE DelayHere + 1
        /\ m.PattDelTime2 = 0
    BY <1>1 DEF Played
  <2>2. Delaying = {} => DelayHere = 0
    BY DEF DelayHere
  <2> QED
    BY <1>3, <2>1, <2>2 DEF LeftOver, Nibble
<1>5. m \in Midst /\ m.counter = 0
  BY <1>1 DEF Played
<1>6. /\ dskip(m).chan = m.chan /\ dskip(m).speed = m.speed
      /\ dskip(m).counter = m.counter /\ dskip(m).PattDelTime2 = LeftOver(m)
  BY <1>5, DskipIs
<1> QED
  BY <1>1, <1>2, <1>3, <1>4, <1>5, <1>6 DEF m

LEMMA FetchedOrder ==
  ASSUME Settling, Fetch
  PROVE  /\ \A v : Order!Cell(at, v)' = HereCell(v)
         /\ Order!Leaves' = Leaving /\ Order!Having(at, 11)' = Jumping
         /\ Order!HavingE(at, 6)' = Looping
         /\ Order!Delay(at)' = DelayHere
         /\ Order!Armed' = Arming
<1>1. at' = Here /\ song' = song
  BY DEF Fetch
<1>2. \A v : Order!Cell(at, v)' = HereCell(v)
  BY <1>1 DEF HereCell, Order!Cell
<1>3. /\ Order!Having(at, 11)' = {v \in Voices : HereCell(v).cmd = 11}
      /\ Order!Having(at, 13)' = {v \in Voices : HereCell(v).cmd = 13}
      /\ Order!Having(at, 14)' = {v \in Voices : HereCell(v).cmd = 14}
  BY <1>2 DEF Order!Having, Order!Voices, Voices
<1>4. Order!Having(at, 11)' = Jumping
  BY <1>3 DEF Jumping
<1>5. Order!Leaves' = Leaving
  <2>1. Order!Leaves' = Order!Having(at, 11)' \cup Order!Having(at, 13)'
    BY DEF Order!Leaves
  <2> QED
    BY <1>3, <2>1 DEF Leaving
<1>6. Order!HavingE(at, 6)' = Looping /\ Order!HavingE(at, 14)' = Delaying
  BY <1>2, <1>3 DEF Order!HavingE, Looping, Delaying, High
<1>7. Order!Delay(at)' = DelayHere
  <2> DEFINE S == Order!HavingE(at, 14)
  <2>1. \A T : Order!Last(T) = LastOf(T)
    BY DEF Order!Last, LastOf
  <2>2. S' = Delaying
    BY <1>6
  <2>3. Order!Last(S)' = LastOf(S')
    BY <2>1
  <2>4. Order!Delay(at)' = IF S' = {} THEN 0 ELSE Order!Parameter(at, Order!Last(S))'
    BY DEF Order!Delay
  <2>5. Order!Parameter(at, Order!Last(S))' = Low(HereCell(Order!Last(S)').lo)
    BY <1>1 DEF Order!Parameter, Order!Cell, HereCell, Low
  <2> QED
    BY <2>2, <2>3, <2>4, <2>5 DEF DelayHere
<1>8. Order!Armed' = Arming
  <2>1. \A v \in Voices : mt'.chan[v].loopcount = NewCount(v)
    BY FetchedRow DEF Played
  <2>2. Order!Armed' = {v \in Order!HavingE(at, 6)' :
                          /\ Order!Parameter(at, v)' # 0
                          /\ mt'.chan[v].loopcount # 0}
    BY <1>6 DEF Order!Armed, Looping
  <2>3. \A v : Order!Parameter(at, v)' = Low(HereCell(v).lo)
    BY <1>2 DEF Order!Parameter, Low
  <2>4. \A v \in Looping : mt'.chan[v].loopcount = NewCount(v)
    BY <2>1 DEF Looping
  <2> QED
    BY <1>6, <2>2, <2>3, <2>4 DEF Arming
<1> QED
  BY <1>2, <1>4, <1>5, <1>6, <1>7, <1>8

(* Where the player goes is where SongOrder goes.                            *)
GoesOn ==
  IF mt.PattDelTime2 = 0 THEN Order!Following = Here ELSE Order!Following = Order!After(Here)

LEMMA SameSong ==
  ASSUME song' = song
  PROVE  /\ \A p : Order!InSong(p)' = Order!InSong(p)
         /\ \A w : Order!After(w)' = Order!After(w)
BY DEF Order!InSong, Order!After

LEMMA FetchedTarget ==
  ASSUME Settling, Fetch
  PROVE  LET pos == IF Jumping = {} THEN mt.SongPos + 1 ELSE HereCell(LastOf(Jumping)).lo
         IN /\ Leaving # {} =>
                 Order!Target' = <<Order!InSong(pos),
                                   IF Arming # {} THEN 0 ELSE LeaveRow(LastOf(Leaving))>>
            /\ Leaving = {} /\ Arming # {} =>
                 Order!Target' = <<mt.SongPos, NewStart(LastOf(Arming))>>
            /\ Leaving = {} /\ Arming = {} => Order!Target' = Order!After(Here)
<1>1. at' = Here /\ song' = song /\ Here[1] = mt.SongPos /\ Here[2] = mt.PatternPos
  BY DEF Fetch, Here
<1>2. /\ \A v : Order!Cell(at, v)' = HereCell(v)
      /\ Order!Leaves' = Leaving /\ Order!Having(at, 11)' = Jumping
      /\ Order!Armed' = Arming
  BY FetchedOrder
<1>3. \A S : Order!Last(S) = LastOf(S)
  BY DEF Order!Last, LastOf
<1>4. /\ Order!Last(Order!Leaves)' = LastOf(Leaving)
      /\ Order!Last(Order!Armed)' = LastOf(Arming)
      /\ Order!Last(Order!Having(at, 11))' = LastOf(Jumping)
  BY <1>2, <1>3
<1>5. CASE Leaving # {}
  <2> DEFINE l == LastOf(Leaving)
             lo == HereCell(l).lo
             dec == ((lo \div 16) * 10) + (lo % 16)
             row == IF l \in Jumping \/ Arming # {} \/ dec >= Rows THEN 0 ELSE dec
             pos == IF Jumping = {} THEN mt.SongPos + 1 ELSE HereCell(LastOf(Jumping)).lo
             to == Order!Cell(at, Order!Last(Order!Having(at, 11)))
  <2>1. Order!Target' = <<Order!InSong(pos), row>>
    <3>1. Order!Cell(at, Order!Last(Order!Leaves))' = HereCell(l)
      BY <1>1, <1>4 DEF Order!Cell, HereCell
    <3>2. to' = HereCell(LastOf(Jumping))
      BY <1>1, <1>4 DEF Order!Cell, HereCell
    <3> HIDE DEF to
    <3> DEFINE p == IF Order!Having(at, 11) = {} THEN at[1] + 1 ELSE to.lo
    <3>3. p' = pos
      BY <1>1, <1>2, <3>2
    <3>4. Order!InSong(p)' = Order!InSong(pos)
      <4> HIDE DEF p, pos
      <4> QED
        BY <1>1, <3>3 DEF Order!InSong
    <3>5. Order!Target' = <<Order!InSong(p)', row>>
      BY <1>2, <1>4, <1>5, <3>1 DEF Order!Target, to
    <3> QED
      BY <3>4, <3>5
  <2>2. l \in Leaving /\ l \in Voices
    <3>1. Leaving \in SUBSET Voices
      BY DEF Leaving
    <3> QED
      BY <1>5, <3>1, LastIsOne
  <2>3. l \in Jumping <=> HereCell(l).cmd = 11
    BY <2>2 DEF Jumping
  <2>4. dec \in Int /\ BreakRow(lo) = IF dec >= Rows THEN 0 ELSE dec
    <3>1. lo \in Byte
      BY <2>2, HereCells DEF Cells, Byte
    <3>2. dec = High(lo) * 10 + Low(lo)
      BY DEF High, Low
    <3>3. High(lo) \in Nat /\ Low(lo) \in Nat
      BY <3>1, HalvesOfAByte DEF Nibble
    <3>4. dec \in Int
      <4> HIDE DEF lo, dec
      <4> QED
        BY <3>2, <3>3
    <3>5. BreakRow(lo) = IF dec > Rows - 1 THEN 0 ELSE dec
      BY DEF BreakRow, High, Low
    <3> HIDE DEF dec
    <3>6. dec > Rows - 1 <=> dec >= Rows
      BY <3>4, RowsAssumption
    <3> QED
      BY <3>4, <3>5, <3>6
  <2>5. row = IF Arming # {} THEN 0 ELSE LeaveRow(l)
    <3> HIDE DEF dec
    <3> QED
      BY <2>3, <2>4 DEF LeaveRow
  <2> HIDE DEF row, pos
  <2>6. Order!Target' = <<Order!InSong(pos), IF Arming # {} THEN 0 ELSE LeaveRow(l)>>
    BY <2>1, <2>5
  <2> QED
    BY <1>5, <2>6 DEF pos
<1>6. CASE Leaving = {} /\ Arming # {}
  <2>1. LastOf(Arming) \in Arming /\ LastOf(Arming) \in Voices
    <3>1. Arming \in SUBSET Voices
      BY DEF Arming, Looping
    <3> QED
      BY <1>6, <3>1, LastIsOne
  <2>2. mt'.chan[LastOf(Arming)].pattpos = NewStart(LastOf(Arming))
    BY <2>1, FetchedRow DEF Played
  <2>3. Order!Target' = <<at'[1], mt'.chan[LastOf(Arming)].pattpos>>
    BY <1>2, <1>4, <1>6, <2>1 DEF Order!Target
  <2> QED
    BY <1>1, <1>6, <2>2, <2>3
<1>7. CASE Leaving = {} /\ Arming = {}
  <2>1. Order!Target' = Order!After(at)'
    BY <1>2, <1>7 DEF Order!Target
  <2>2. Order!After(at)' = Order!After(Here)
    BY <1>1 DEF Order!After, Order!InSong
  <2> QED
    BY <1>7, <2>1, <2>2
<1> QED
  BY <1>5, <1>6, <1>7

LEMMA FetchGoesOn ==
  ASSUME Settling, Fetch
  PROVE  Order!Unclear' \/ GoesOn'
<1> DEFINE m == Notes(OnRow)
           pos == IF Jumping = {} THEN mt.SongPos + 1 ELSE HereCell(LastOf(Jumping)).lo
           row == IF Arming # {} THEN 0 ELSE LeaveRow(LastOf(Leaving))
           Aim == IF Leaving # {} THEN <<Order!InSong(pos), row>>
                ELSE IF Arming # {} THEN <<mt.SongPos, NewStart(LastOf(Arming))>>
                ELSE Order!After(Here)
<1>1. at' = Here /\ song' = song /\ Here = <<mt.SongPos, mt.PatternPos>>
  BY DEF Fetch, Here
<1>2. /\ Played(m) /\ DelayHere \in Nat
      /\ mt' = dskip(m) /\ mt'.PattDelTime2 = DelayHere /\ LeftOver(m) = DelayHere
  BY FetchedRow DEF Nibble
<1>3. /\ mt.PatternPos \in 0..(Rows - 1) /\ mt.SongPos \in Nat /\ Rows \in Nat
  BY RowsAssumption DEF Settling, Settled
<1>4. PICK T : T = Aim
  OBVIOUS
<1>5. Order!Target' = T
  BY <1>4, FetchedTarget
<1> HIDE DEF m, Aim
<1>6. Order!Following' = IF Leaving # {} /\ DelayHere > 0 THEN Order!After(T)' ELSE T
  <2>1. at' # <<>>
    BY <1>1
  <2>2. Order!Leaves' = Leaving /\ Order!Delay(at)' = DelayHere
    BY FetchedOrder
  <2>3. CASE Leaving # {} /\ DelayHere > 0
    <3>1. Order!Following' = Order!After(Order!Target)'
      BY <2>1, <2>2, <2>3 DEF Order!Following
    <3> QED
      BY <1>5, <2>3, <3>1 DEF Order!After, Order!InSong
  <2>4. CASE ~(Leaving # {} /\ DelayHere > 0)
    <3>1. Order!Following' = Order!Target'
      BY <2>1, <2>2, <2>4 DEF Order!Following
    <3> QED
      BY <1>5, <2>4, <3>1
  <2> QED
    BY <2>3, <2>4
<1>7. Order!Unclear' <=> DelayHere > 0 /\ Looping # {}
  <2>1. at' # <<>>
    BY <1>1
  <2> QED
    BY <2>1, FetchedOrder DEF Order!Unclear
<1>8. /\ mt'.PatternPos = IF Ends(m) THEN (IF m.PBreakFlag THEN 0 ELSE m.PBreakPos)
                          ELSE RowAfter(m)
      /\ mt'.SongPos = IF Ends(m) THEN Order!InSong(m.SongPos + 1) ELSE m.SongPos
  BY <1>2, DskipIs DEF Played
<1>9. /\ m.PosJumpFlag <=> Leaving # {}
      /\ m.PBreakFlag <=> Arming # {}
      /\ m.PatternPos = mt.PatternPos
  BY <1>2 DEF Played
<1>10. CASE Leaving # {}
  <2>1. m.PosJumpFlag /\ Ends(m)
    BY <1>9, <1>10 DEF Ends
  <2>2. mt'.PatternPos = row
    BY <1>2, <1>8, <1>9, <1>10, <2>1 DEF Played
  <2>3. m.SongPos + 1 = pos
    <3>1. CASE Jumping = {}
      BY <1>2, <3>1 DEF Played
    <3>2. CASE Jumping # {}
      <4>1. HereCell(LastOf(Jumping)).lo \in Int
        <5>1. Jumping \in SUBSET Voices
          BY DEF Jumping
        <5>2. LastOf(Jumping) \in Voices
          BY <3>2, <5>1, LastIsOne
        <5> QED
          BY <5>2, HereCells, SMTT(30) DEF Cells
      <4>2. m.SongPos = HereCell(LastOf(Jumping)).lo - 1
        BY <1>2, <3>2 DEF Played
      <4> QED
        BY <3>2, <4>1, <4>2
    <3> QED
      BY <3>1, <3>2
  <2> HIDE DEF row, pos
  <2>4. T = <<mt'.SongPos, mt'.PatternPos>>
    BY <1>4, <1>8, <1>10, <2>1, <2>2, <2>3 DEF Aim
  <2>5. Here' = T
    BY <2>4 DEF Here
  <2>6. Order!After(T)' = Order!After(Here)'
    BY <2>5 DEF Order!After, Order!InSong
  <2> QED
    BY <1>2, <1>6, <1>10, <2>5, <2>6 DEF GoesOn
<1>11. CASE Leaving = {} /\ Arming # {} /\ DelayHere = 0
  <2>1. /\ ~m.PosJumpFlag /\ m.PBreakFlag /\ m.PBreakPos = NewStart(LastOf(Arming))
        /\ m.SongPos = mt.SongPos
    <3>1. Jumping = {}
      BY <1>11 DEF Jumping, Leaving
    <3> QED
      BY <1>2, <1>9, <1>11, <3>1 DEF Played
  <2>2. m.PBreakPos \in Row
    BY <1>2 DEF Played, Midst
  <2>3. RowAfter(m) = m.PBreakPos /\ ~Ends(m)
    BY <1>3, <2>1, <2>2 DEF RowAfter, Ends, Row
  <2>4. Here' = T
    BY <1>4, <1>8, <1>11, <2>1, <2>3 DEF Aim, Here
  <2> QED
    BY <1>2, <1>6, <1>11, <2>4 DEF GoesOn
<1>12. CASE Leaving = {} /\ Arming = {}
  <2>1. /\ ~m.PosJumpFlag /\ ~m.PBreakFlag /\ m.PBreakPos = 0
        /\ m.SongPos = mt.SongPos /\ m.PatternPos = mt.PatternPos
    <3>1. Jumping = {}
      BY <1>12 DEF Jumping, Leaving
    <3> QED
      BY <1>2, <1>9, <1>12, <3>1 DEF Played
  <2>2. CASE DelayHere = 0
    <3>1. RowAfter(m) = mt.PatternPos + 1
      BY <1>2, <2>1, <2>2 DEF RowAfter
    <3>2. Here' = Order!After(Here)
      BY <1>1, <1>3, <1>8, <2>1, <3>1 DEF Ends, Here, Order!After
    <3> QED
      BY <1>2, <1>4, <1>6, <1>12, <2>2, <3>2 DEF GoesOn, Aim
  <2>3. CASE DelayHere > 0
    <3>1. RowAfter(m) = mt.PatternPos /\ ~Ends(m)
      BY <1>2, <1>3, <2>1, <2>3 DEF RowAfter, Ends
    <3>2. Here' = Here
      BY <1>8, <2>1, <3>1 DEF Here
    <3>3. Order!After(Here)' = Order!After(Here)
      BY <1>1, <3>2 DEF Order!After, Order!InSong
    <3> QED
      BY <1>2, <1>4, <1>6, <1>12, <2>3, <3>3 DEF GoesOn, Aim
  <2> QED
    BY <1>2, <2>2, <2>3
<1>13. CASE Leaving = {} /\ Arming # {} /\ DelayHere > 0
  <2>1. Looping # {}
    BY <1>13 DEF Arming
  <2> QED
    BY <1>7, <1>13, <2>1
<1> QED
  BY <1>2, <1>10, <1>11, <1>12, <1>13

-----------------------------------------------------------------------------
(* Loops are where they were.                                                *)
LoopsStill ==
  \A v \in Voices : /\ mt'.chan[v].pattpos = mt.chan[v].pattpos
                    /\ mt'.chan[v].loopcount = mt.chan[v].loopcount

LEMMA OrderStill ==
  ASSUME song' = song, at' = at, LoopsStill
  PROVE  /\ Order!Following' = Order!Following
         /\ Order!Unclear' <=> Order!Unclear
         /\ Order!Delay(at)' = Order!Delay(at)
         /\ \A v : Order!Cell(at, v)' = Order!Cell(at, v)
<1>1. \A v : Order!Cell(at, v)' = Order!Cell(at, v)
  BY DEF Order!Cell
<1>2. /\ Order!Having(at, 11)' = Order!Having(at, 11)
      /\ Order!Having(at, 13)' = Order!Having(at, 13)
      /\ Order!Having(at, 14)' = Order!Having(at, 14)
  BY <1>1 DEF Order!Having
<1>3. /\ Order!HavingE(at, 6)' = Order!HavingE(at, 6)
      /\ Order!HavingE(at, 14)' = Order!HavingE(at, 14)
  BY <1>1, <1>2 DEF Order!HavingE
<1>4. Order!Delay(at)' = Order!Delay(at)
  BY DEF Order!Delay, Order!HavingE, Order!Having, Order!Cell, Order!Parameter, Order!Last
<1>5. Order!Unclear' <=> Order!Unclear
  BY <1>3, <1>4 DEF Order!Unclear
<1>6. Order!Leaves' = Order!Leaves
  BY <1>2 DEF Order!Leaves
<1>7. Order!HavingE(at, 6) \subseteq Voices
  BY DEF Order!HavingE, Order!Having, Order!Voices, Voices
<1>8. Order!Armed' = Order!Armed
  <2>1. Order!Armed = {v \in Order!HavingE(at, 6) :
                         Order!Parameter(at, v) # 0 /\ mt.chan[v].loopcount # 0}
    BY <1>7 DEF Order!Armed
  <2>2. Order!Armed' = {v \in Order!HavingE(at, 6)' :
                          Order!Parameter(at, v)' # 0 /\ mt'.chan[v].loopcount # 0}
    BY <1>3, <1>7 DEF Order!Armed
  <2>3. \A v : Order!Parameter(at, v)' = Order!Parameter(at, v)
    BY <1>1 DEF Order!Parameter
  <2>4. \A v \in Order!HavingE(at, 6) : mt'.chan[v].loopcount = mt.chan[v].loopcount
    BY <1>7 DEF LoopsStill
  <2> QED
    BY <1>3, <2>1, <2>2, <2>3, <2>4
<1>9. Order!Target' = Order!Target
  <2>1. \A S : Order!Last(S) = LastOf(S)
    BY DEF Order!Last, LastOf
  <2>2. /\ Order!Last(Order!Leaves)' = Order!Last(Order!Leaves)
        /\ Order!Last(Order!Armed)' = Order!Last(Order!Armed)
        /\ Order!Last(Order!Having(at, 11))' = Order!Last(Order!Having(at, 11))
    BY <1>2, <1>6, <1>8, <2>1
  <2>3. CASE Order!Leaves # {}
    <3>1. /\ Order!Cell(at, Order!Last(Order!Leaves))' = Order!Cell(at, Order!Last(Order!Leaves))
          /\ Order!Cell(at, Order!Last(Order!Having(at, 11)))'
               = Order!Cell(at, Order!Last(Order!Having(at, 11)))
      BY <2>2 DEF Order!Cell
    <3> DEFINE pos == IF Order!Having(at, 11) = {} THEN at[1] + 1
                      ELSE Order!Cell(at, Order!Last(Order!Having(at, 11))).lo
               lo == Order!Cell(at, Order!Last(Order!Leaves)).lo
               dec == ((lo \div 16) * 10) + (lo % 16)
               row == IF \/ Order!Last(Order!Leaves) \in Order!Having(at, 11)
                         \/ Order!Armed # {} \/ dec >= Rows THEN 0 ELSE dec
    <3>2. pos' = pos
      BY <1>2, <3>1
    <3>3. row' = row
      BY <1>2, <1>8, <2>2, <3>1
    <3>4. Order!InSong(pos)' = Order!InSong(pos)
      <4> HIDE DEF pos
      <4> QED
        BY <3>2 DEF Order!InSong
    <3>5. Order!Target = <<Order!InSong(pos), row>>
      BY <2>3 DEF Order!Target
    <3>6. Order!Target' = <<Order!InSong(pos)', row'>>
      BY <1>6, <2>3 DEF Order!Target
    <3> HIDE DEF pos, row
    <3> QED
      BY <3>3, <3>4, <3>5, <3>6
  <2>4. CASE Order!Leaves = {} /\ Order!Armed # {}
    <3>1. Order!Last(Order!Armed) \in Voices
      <4>1. Order!Armed \in SUBSET Voices
        BY <1>7 DEF Order!Armed
      <4> QED
        BY <2>1, <2>4, <4>1, LastIsOne
    <3>2. /\ Order!Target = <<at[1], mt.chan[Order!Last(Order!Armed)].pattpos>>
          /\ Order!Target' = <<at[1], mt'.chan[Order!Last(Order!Armed)].pattpos>>
      BY <1>6, <1>8, <2>2, <2>4, <3>1 DEF Order!Target
    <3> QED
      BY <3>1, <3>2 DEF LoopsStill
  <2>5. CASE Order!Leaves = {} /\ Order!Armed = {}
    <3>1. Order!Target = Order!After(at) /\ Order!Target' = Order!After(at)'
      BY <1>6, <1>8, <2>5 DEF Order!Target
    <3> QED
      BY <3>1 DEF Order!After, Order!InSong
  <2> QED
    BY <2>3, <2>4, <2>5
<1>10. Order!Following' = Order!Following
  <2>1. Order!After(Order!Target)' = Order!After(Order!Target)
    BY <1>9 DEF Order!After, Order!InSong
  <2> QED
    BY <1>4, <1>6, <1>9, <2>1 DEF Order!Following
<1> QED
  BY <1>1, <1>4, <1>5, <1>10

-----------------------------------------------------------------------------
(* The channels hold the commands of the row fetched last, a row is delayed  *)
(* only if it says so, and the player stands where the song goes on.         *)
Orderly ==
  /\ at = <<>> => mt.PattDelTime2 = 0 /\ \A v \in Voices : mt.chan[v].cmd = 0
  /\ at # <<>> =>
       /\ \A v \in Voices :
            /\ mt.chan[v].cmd = Order!Cell(at, v).cmd
            /\ mt.chan[v].cmd # 3 => mt.chan[v].cmdlo = Order!Cell(at, v).lo
       /\ mt.PattDelTime2 # 0 => Order!Delay(at) > 0
  /\ Order!Unclear \/ GoesOn

(* The time a row has left is that of the interrupts to come.                *)
InTime ==
  /\ age \in Nat /\ due \in Nat
  /\ due = age + (mt.speed - mt.counter) + (mt.PattDelTime2 * mt.speed)

LEMMA FetchIsOrderly ==
  ASSUME Settling, Fetch
  PROVE  Orderly'
<1>1. at' = Here /\ at' # <<>>
  BY DEF Fetch, Here
<1>2. ASSUME NEW v \in Voices
      PROVE  /\ mt'.chan[v].cmd = Order!Cell(at, v)'.cmd
             /\ mt'.chan[v].cmd # 3 => mt'.chan[v].cmdlo = Order!Cell(at, v)'.lo
  BY FetchedRow, FetchedOrder DEF Played
<1>3. mt'.PattDelTime2 # 0 => Order!Delay(at)' > 0
  BY FetchedRow, FetchedOrder DEF Nibble
<1>4. Order!Unclear' \/ GoesOn'
  BY FetchGoesOn
<1> QED
  BY <1>1, <1>2, <1>3, <1>4 DEF Orderly

(* A row that is delayed, once more.                                         *)
LEMMA HeldRow ==
  ASSUME Settling, Hold
  PROVE  LET m == Effects(OnRow)
         IN /\ OnRow \in Midst /\ OnRow.PattDelTime2 # 0 /\ OnRow.chan = mt.chan
            /\ Timed(OnRow, m) /\ m \in Midst
            /\ mt' = dskip(m) /\ mt'.chan = m.chan
            /\ mt'.speed = mt.speed /\ mt'.counter = 0
            /\ mt'.PattDelTime2 = mt.PattDelTime2 - 1
            /\ LeftOver(m) = mt.PattDelTime2 - 1
<1> DEFINE m == Effects(OnRow)
<1>1. /\ mt \in Midst /\ mt.PattDelTime = 0 /\ mt.PattDelTime2 \in Nibble
      /\ mt.PattDelTime2 # 0
  BY DEF Settling, Settled, Hold, Midst
<1>2. OnRow \in Midst
  <2>1. 0 \in Nat
    OBVIOUS
  <2> QED
    BY <1>1, <2>1 DEF OnRow, Midst
<1>3. /\ OnRow.PattDelTime2 = mt.PattDelTime2 /\ OnRow.chan = mt.chan
      /\ OnRow.PattDelTime = mt.PattDelTime /\ OnRow.speed = mt.speed
      /\ OnRow.counter = 0
  BY <1>1 DEF OnRow, Midst
<1>4. Timed(OnRow, m) /\ m \in Midst
  BY <1>1, <1>2, <1>3, EffectsAreTimed DEF Timed
<1>5. mt' = dskip(m)
  BY DEF Hold, HoldRow
<1> HIDE DEF m
<1>6. m.PattDelTime = 0 /\ m.PattDelTime2 = mt.PattDelTime2 /\ m.speed = mt.speed /\ m.counter = 0
  BY <1>1, <1>3, <1>4 DEF Timed
<1>7. LeftOver(m) = mt.PattDelTime2 - 1
  BY <1>1, <1>6 DEF LeftOver, Nibble
<1>8. /\ dskip(m).chan = m.chan /\ dskip(m).speed = m.speed
      /\ dskip(m).counter = m.counter /\ dskip(m).PattDelTime2 = LeftOver(m)
  BY <1>4, DskipIs
<1> QED
  BY <1>1, <1>2, <1>3, <1>4, <1>5, <1>6, <1>7, <1>8 DEF m

(* A delayed row whose meaning is clear has no loop, and nothing but sounds  *)
(* changes while it lasts.                                                   *)
LEMMA ClearRowIsHeld ==
  ASSUME Settling, Orderly, Hold, ~Order!Unclear
  PROVE  Soft(OnRow, Effects(OnRow)) /\ LoopsStill
<1>1. /\ OnRow \in Midst /\ OnRow.PattDelTime2 # 0 /\ OnRow.chan = mt.chan
      /\ mt'.chan = Effects(OnRow).chan /\ mt.PattDelTime2 # 0
  BY HeldRow DEF Hold
<1>2. at # <<>> /\ Order!Delay(at) > 0
  BY <1>1 DEF Orderly
<1>3. Order!HavingE(at, 6) = {}
  BY <1>2 DEF Order!Unclear
<1>4. ASSUME NEW v \in Voices
      PROVE  ~Loops(OnRow.chan[v])
  <2>1. /\ mt.chan[v].cmd = Order!Cell(at, v).cmd
        /\ mt.chan[v].cmd # 3 => mt.chan[v].cmdlo = Order!Cell(at, v).lo
    BY <1>2 DEF Orderly
  <2>2. v \notin Order!HavingE(at, 6)
    BY <1>3
  <2> QED
    BY <1>1, <2>1, <2>2
       DEF Loops, High, Order!HavingE, Order!Having, Order!Voices, Voices
<1>5. Soft(OnRow, Effects(OnRow))
  BY <1>1, <1>4, EffectsAreSoft
<1> QED
  BY <1>1, <1>5 DEF Soft, OrderKept, LoopsStill

LEMMA HoldGoesOn ==
  ASSUME Settling, Orderly, Hold, ~Order!Unclear
  PROVE  GoesOn'
<1> DEFINE m == Effects(OnRow)
<1>1. /\ Soft(OnRow, m) /\ LoopsStill
  BY ClearRowIsHeld
<1>2. /\ mt' = dskip(m) /\ m \in Midst
      /\ mt'.PattDelTime2 = mt.PattDelTime2 - 1 /\ LeftOver(m) = mt.PattDelTime2 - 1
  BY HeldRow
<1> HIDE DEF m
<1>3. song' = song /\ at' = at /\ mt.PattDelTime2 # 0
  BY DEF Hold
<1>4. /\ mt \in Midst /\ mt.PattDelTime2 \in 0..15
      /\ mt.PatternPos \in 0..(Rows - 1) /\ Rows \in Nat
      /\ ~mt.PBreakFlag /\ ~mt.PosJumpFlag /\ mt.PBreakPos = 0
  BY RowsAssumption DEF Settling, Settled
<1>5. /\ ~m.PBreakFlag /\ ~m.PosJumpFlag /\ m.PBreakPos = 0
      /\ m.SongPos = mt.SongPos /\ m.PatternPos = mt.PatternPos
  BY <1>1, <1>4 DEF Soft, OnRow, Midst
<1>6. /\ mt'.PatternPos = IF Ends(m) THEN 0 ELSE RowAfter(m)
      /\ mt'.SongPos = IF Ends(m) THEN Order!InSong(mt.SongPos + 1) ELSE mt.SongPos
  BY <1>2, <1>5, DskipIs
<1>7. Order!Following' = Order!After(Here)
  BY <1>1, <1>3, OrderStill DEF Orderly, GoesOn
<1>8. CASE mt.PattDelTime2 = 1
  <2>1. RowAfter(m) = mt.PatternPos + 1
    BY <1>2, <1>5, <1>8 DEF RowAfter
  <2>2. Here' = Order!After(Here)
    BY <1>4, <1>5, <1>6, <2>1 DEF Ends, Here, Order!After
  <2> QED
    BY <1>2, <1>7, <1>8, <2>2 DEF GoesOn
<1>9. CASE mt.PattDelTime2 # 1
  <2>1. RowAfter(m) = mt.PatternPos /\ ~Ends(m)
    BY <1>2, <1>3, <1>4, <1>5, <1>9 DEF RowAfter, Ends
  <2>2. Here' = Here
    BY <1>6, <2>1 DEF Here
  <2>3. Order!After(Here)' = Order!After(Here)
    BY <1>3, <2>2 DEF Order!After, Order!InSong
  <2>4. mt'.PattDelTime2 # 0
    BY <1>2, <1>4, <1>9
  <2> QED
    BY <1>7, <2>3, <2>4 DEF GoesOn
<1> QED
  BY <1>8, <1>9

LEMMA HoldIsOrderly ==
  ASSUME Settling, Orderly, Hold
  PROVE  Orderly'
<1>1. song' = song /\ at' = at
  BY DEF Hold
<1>2. at # <<>> /\ Order!Delay(at) > 0
  BY DEF Orderly, Hold
<1>3. \A v : Order!Cell(at, v)' = Order!Cell(at, v)
  BY <1>1 DEF Order!Cell
<1>4. Order!Delay(at)' = Order!Delay(at)
  BY <1>1
     DEF Order!Delay, Order!HavingE, Order!Having, Order!Cell, Order!Parameter, Order!Last
<1>5. ASSUME NEW v \in Voices
      PROVE  /\ mt'.chan[v].cmd = Order!Cell(at, v)'.cmd
             /\ mt'.chan[v].cmd # 3 => mt'.chan[v].cmdlo = Order!Cell(at, v)'.lo
  <2>1. /\ mt.chan[v].cmd = Order!Cell(at, v).cmd
        /\ mt.chan[v].cmd # 3 => mt.chan[v].cmdlo = Order!Cell(at, v).lo
    BY <1>2 DEF Orderly
  <2>2. /\ mt'.chan[v].cmd = mt.chan[v].cmd
        /\ mt.chan[v].cmd # 3 => mt'.chan[v].cmdlo = mt.chan[v].cmdlo
    BY HeldRow DEF Timed
  <2> QED
    BY <1>3, <2>1, <2>2
<1>6. Order!Unclear' <=> Order!Unclear
  BY <1>1, <1>4 DEF Order!Unclear, Order!HavingE, Order!Having, Order!Cell
<1>7. Order!Unclear' \/ GoesOn'
  BY <1>6, HoldGoesOn
<1> QED
  BY <1>1, <1>2, <1>4, <1>5, <1>7 DEF Orderly

(* Between two rows only sounds change.                                      *)
LEMMA BetweenIsSoft ==
  ASSUME Settling, Between
  PROVE  /\ mt.counter \in Nat /\ mt'.counter = mt.counter + 1
         /\ mt.counter + 1 < mt.speed
         /\ mt'.speed = mt.speed /\ mt'.PattDelTime2 = mt.PattDelTime2
         /\ Here' = Here
         /\ \A v \in Voices : OrderKept(mt.chan[v], mt'.chan[v])
<1> DEFINE c == mt.counter + 1
           m == [mt EXCEPT !.counter = @ + 1]
<1>1. mt \in Midst /\ ~mt.PosJumpFlag
  BY DEF Settling, Settled
<1>2. mt.counter \in Nat /\ mt.speed \in Int
  <2>1. Speed \subseteq Int
    BY DEF Speed
  <2> QED
    BY <1>1, <2>1 DEF Midst
<1>3. c \in Nat /\ c # 0 /\ c < mt.speed
  <2>1. ~(c >= mt.speed)
    BY DEF Between, RowIsOver
  <2> QED
    BY <1>2, <2>1
<1>4. m = [mt EXCEPT !.counter = c]
  OBVIOUS
<1>5. mt' = IF Effects(m).PosJumpFlag THEN nextPosition(Effects(m)) ELSE Effects(m)
  BY DEF Between, BetweenRows
<1> DEFINE d == c
<1>6. d \in Nat /\ d # 0 /\ m = [mt EXCEPT !.counter = d] /\ d = mt.counter + 1
  BY <1>3, <1>4
<1> HIDE DEF c, d, m
<1>7. /\ m \in Midst /\ m.counter = d /\ m.PosJumpFlag = mt.PosJumpFlag
      /\ m.speed = mt.speed /\ m.PattDelTime2 = mt.PattDelTime2 /\ m.chan = mt.chan
      /\ m.SongPos = mt.SongPos /\ m.PatternPos = mt.PatternPos
  <2>1. m \in Midst
    BY <1>1, <1>6 DEF Midst
  <2>2. /\ m.counter = d /\ m.PosJumpFlag = mt.PosJumpFlag
        /\ m.speed = mt.speed /\ m.PattDelTime2 = mt.PattDelTime2 /\ m.chan = mt.chan
        /\ m.SongPos = mt.SongPos /\ m.PatternPos = mt.PatternPos
    BY <1>1, <1>6 DEF Midst
  <2> QED
    BY <2>1, <2>2
<1>8. Soft(m, Effects(m))
  BY <1>6, <1>7, EffectsAreSoft
<1>9. mt' = Effects(m)
  BY <1>1, <1>5, <1>7, <1>8 DEF Soft
<1>10. Soft(m, mt')
  BY <1>8, <1>9
<1>11. /\ mt'.counter = d /\ mt'.speed = mt.speed /\ mt'.PattDelTime2 = mt.PattDelTime2
       /\ mt'.SongPos = mt.SongPos /\ mt'.PatternPos = mt.PatternPos
       /\ \A v \in Voices : OrderKept(mt.chan[v], mt'.chan[v])
  BY <1>7, <1>10 DEF Soft
<1> QED
  BY <1>2, <1>3, <1>6, <1>11 DEF Here, c

LEMMA BetweenIsOrderly ==
  ASSUME Settling, Orderly, Between
  PROVE  Orderly' /\ LoopsStill
<1>1. song' = song /\ at' = at
  BY DEF Between
<1>2. LoopsStill
  BY BetweenIsSoft DEF LoopsStill, OrderKept
<1>3. /\ Order!Following' = Order!Following
      /\ Order!Unclear' <=> Order!Unclear
      /\ Order!Delay(at)' = Order!Delay(at)
      /\ \A v : Order!Cell(at, v)' = Order!Cell(at, v)
  BY <1>1, <1>2, OrderStill
<1>4. Here' = Here /\ mt'.PattDelTime2 = mt.PattDelTime2
  BY BetweenIsSoft
<1>5. Order!After(Here)' = Order!After(Here)
  BY <1>1, <1>4 DEF Order!After, Order!InSong
<1>6. GoesOn' <=> GoesOn
  BY <1>3, <1>4, <1>5 DEF GoesOn
<1>7. ASSUME NEW v \in Voices
      PROVE  /\ mt'.chan[v].cmd = mt.chan[v].cmd
             /\ mt.chan[v].cmd # 3 => mt'.chan[v].cmdlo = mt.chan[v].cmdlo
  BY BetweenIsSoft DEF OrderKept
<1>8. at = <<>> =>
        mt'.PattDelTime2 = 0 /\ \A v \in Voices : mt'.chan[v].cmd = 0
  BY <1>4, <1>7 DEF Orderly
<1>9. at # <<>> =>
        /\ \A v \in Voices :
             /\ mt'.chan[v].cmd = Order!Cell(at, v)'.cmd
             /\ mt'.chan[v].cmd # 3 => mt'.chan[v].cmdlo = Order!Cell(at, v)'.lo
        /\ mt'.PattDelTime2 # 0 => Order!Delay(at)' > 0
  BY <1>3, <1>4, <1>7 DEF Orderly
<1>10. Order!Unclear' \/ GoesOn'
  BY <1>3, <1>6 DEF Orderly
<1> QED
  BY <1>1, <1>2, <1>8, <1>9, <1>10 DEF Orderly

LEMMA InitIsOrderly ==
  ASSUME Init
  PROVE  Orderly
<1>1. /\ at = <<>> /\ mt.PattDelTime2 = 0 /\ Here = <<0, 0>>
      /\ \A v \in Voices : mt.chan[v].cmd = 0
  BY DEF Init, Here, Silent
<1>2. GoesOn
  BY <1>1 DEF GoesOn, Order!Following
<1> QED
  BY <1>1, <1>2 DEF Orderly

LEMMA StepIsOrderly ==
  ASSUME Settling, Orderly, [timer_interrupt]_vars
  PROVE  Orderly'
<1>1. CASE UNCHANGED vars
  <2>1. song' = song /\ at' = at /\ mt' = mt
    BY <1>1 DEF vars
  <2>2. LoopsStill
    BY <2>1 DEF LoopsStill
  <2>3. Order!After(Here)' = Order!After(Here) /\ Here' = Here
    BY <2>1 DEF Order!After, Order!InSong, Here
  <2> QED
    BY <2>1, <2>2, <2>3, OrderStill DEF Orderly, GoesOn
<1> QED
  BY <1>1, FetchIsOrderly, HoldIsOrderly, BetweenIsOrderly DEF timer_interrupt

(* A row has as many interrupts left as its time says.                       *)
LEMMA StepIsInTime ==
  ASSUME Settling, InTime, [timer_interrupt]_vars
  PROVE  InTime'
<1>1. /\ mt.counter \in Nat /\ mt.speed \in 1..255 /\ mt.PattDelTime2 \in 0..15
      /\ mt.counter < mt.speed
  BY DEF Settling, Settled, Midst
<1>2. CASE Fetch
  <2>1. /\ mt'.counter = 0 /\ mt'.PattDelTime2 = DelayHere /\ DelayHere \in Nat
    BY <1>2, FetchedRow DEF Nibble
  <2>2. DelayOf(RowAt(Here)) = DelayHere
    <3>1. \A v : RowAt(Here)[v] = HereCell(v)
      BY DEF RowAt, HereCell, Order!Cell
    <3> DEFINE asking == {v \in Voices : RowAt(Here)[v].cmd = 14 /\ High(RowAt(Here)[v].lo) = 14}
    <3>2. asking = Delaying
      BY <3>1 DEF Delaying
    <3>3. DelayOf(RowAt(Here)) = IF asking = {} THEN 0 ELSE Low(RowAt(Here)[LastOf(asking)].lo)
      BY DEF DelayOf, LastOf
    <3> HIDE DEF asking
    <3> QED
      BY <3>1, <3>2, <3>3 DEF DelayHere
  <2>3. age' = 0 /\ due' = mt'.speed * (1 + DelayHere)
    BY <1>2, <2>2 DEF Fetch
  <2>4. mt'.speed \in Nat
    <3>1. mt' \in Midst
      <4>1. Settling' /\ song' = song
        BY <1>2, StepSettles DEF timer_interrupt, Fetch
      <4> QED
        BY <4>1, SameSongSameState DEF Settling
    <3> QED
      BY <3>1 DEF Midst, Speed
  <2> DEFINE s == mt'.speed
  <2>5. s * (1 + DelayHere) = 0 + (s - 0) + (DelayHere * s) /\ s * (1 + DelayHere) \in Nat
    <3> HIDE DEF s
    <3> QED
      BY <2>1, <2>4 DEF s
  <2> QED
    BY <2>1, <2>3, <2>5 DEF InTime
<1>3. CASE Hold
  <2>1. /\ mt'.speed = mt.speed /\ mt'.counter = 0
        /\ mt'.PattDelTime2 = mt.PattDelTime2 - 1
    BY <1>3, HeldRow
  <2>2. age' = age + 1 /\ due' = due /\ mt.counter + 1 >= mt.speed
    BY <1>3 DEF Hold, RowIsOver
  <2> DEFINE s == mt.speed
             k == mt.PattDelTime2
             c == mt.counter
  <2>3. c + 1 = s
    <3> HIDE DEF s, c
    <3> QED
      BY <1>1, <2>2 DEF s, c
  <2>4. due = age + (s - c) + (k * s) /\ age \in Nat /\ due \in Nat
    BY DEF InTime
  <2>5. due = (age + 1) + (s - 0) + ((k - 1) * s)
    <3> HIDE DEF s, k, c
    <3>1. s \in Int /\ k \in Int /\ c \in Int
      BY <1>1 DEF s, k, c
    <3>2. (k - 1) * s = (k * s) - s
      BY <3>1
    <3> QED
      BY <2>3, <2>4, <3>1, <3>2
  <2> QED
    BY <2>1, <2>2, <2>4, <2>5 DEF InTime
<1>4. CASE Between
  <2>1. /\ mt'.counter = mt.counter + 1 /\ mt'.speed = mt.speed
        /\ mt'.PattDelTime2 = mt.PattDelTime2
    BY <1>4, BetweenIsSoft
  <2>2. age' = age + 1 /\ due' = due
    BY <1>4 DEF Between
  <2> DEFINE s == mt.speed
             r == mt.PattDelTime2 * mt.speed
             c == mt.counter
  <2>3. due = age + (s - c) + r /\ age \in Nat /\ due \in Nat
    BY DEF InTime
  <2>4. s \in Int /\ c \in Int /\ r \in Int
    BY <1>1
  <2>5. due = (age + 1) + (s - (c + 1)) + r
    <3> HIDE DEF s, r, c
    <3> QED
      BY <2>3, <2>4
  <2> QED
    BY <2>1, <2>2, <2>3, <2>5 DEF InTime
<1>5. CASE UNCHANGED vars
  BY <1>5 DEF vars, InTime
<1> QED
  BY <1>2, <1>3, <1>4, <1>5 DEF timer_interrupt

(* The interrupts that keep a row's time: all but the one that is its last.  *)
LEMMA RowIsOverInTime ==
  ASSUME Settling, InTime, timer_interrupt
  PROVE  age' = 0 <=> age + 1 = due
<1>1. /\ mt.counter \in Nat /\ mt.speed \in 1..255 /\ mt.PattDelTime2 \in 0..15
      /\ mt.counter < mt.speed
  BY DEF Settling, Settled, Midst
<1> DEFINE s == mt.speed
           c == mt.counter
           k == mt.PattDelTime2
           r == mt.PattDelTime2 * mt.speed
<1>2. s \in Nat /\ c \in Nat /\ k \in Nat /\ r \in Nat /\ c < s
  <2>1. \A a, b \in Nat : a * b \in Nat
    OBVIOUS
  <2>2. s \in Nat /\ k \in Nat /\ c \in Nat /\ c < s
    BY <1>1
  <2> QED
    BY <2>1, <2>2
<1>3. age \in Nat /\ due = age + (s - c) + r
  BY DEF InTime
<1>4. CASE Fetch
  <2>1. age' = 0 /\ k = 0 /\ c + 1 >= s
    BY <1>4 DEF Fetch, RowIsOver
  <2>2. r = 0
    <3> HIDE DEF s, c
    <3> QED
      BY <1>1, <2>1
  <2> HIDE DEF s, c, k, r
  <2> QED
    BY <1>2, <1>3, <2>1, <2>2
<1>5. CASE Hold
  <2>1. age' = age + 1 /\ k # 0
    BY <1>5 DEF Hold
  <2>2. r >= 1
    BY <1>1, <2>1
  <2> HIDE DEF s, c, k, r
  <2> QED
    BY <1>2, <1>3, <2>1, <2>2
<1>6. CASE Between
  <2>1. age' = age + 1 /\ ~(c + 1 >= s)
    BY <1>6 DEF Between, RowIsOver
  <2> HIDE DEF s, c, k, r
  <2> QED
    BY <1>2, <1>3, <2>1
<1> QED
  BY <1>4, <1>5, <1>6 DEF timer_interrupt

-----------------------------------------------------------------------------
(* The loops of the voices, as SongOrder sees them.                          *)
SongLoops == [v \in Voices |-> [start |-> mt.chan[v].pattpos,
                                count |-> mt.chan[v].loopcount]]

LEMMA StillOrStutter ==
  ASSUME LoopsStill
  PROVE  SongLoops' = SongLoops
BY DEF LoopsStill, SongLoops

(* A fetched row obeys the loops of its voices as the song says.             *)
LEMMA FetchLoops ==
  ASSUME Settling, Fetch
  PROVE  SongLoops' = [v \in Order!Voices |-> Order!Looped(at', v)]
<1>1. at' = Here /\ Here[2] = mt.PatternPos
  BY DEF Fetch, Here
<1>2. \A v \in Voices : /\ mt'.chan[v].pattpos = NewStart(v)
                        /\ mt'.chan[v].loopcount = NewCount(v)
  BY FetchedRow DEF Played
<1>3. Order!HavingE(Here, 6) = Looping
  BY DEF Order!HavingE, Order!Having, Order!Voices, Voices, Looping, HereCell, High
<1>4. \A v : Order!Parameter(Here, v) = Low(HereCell(v).lo)
  BY DEF Order!Parameter, HereCell, Low
<1>5. ASSUME NEW v \in Voices
      PROVE  Order!Looped(Here, v) = [start |-> NewStart(v), count |-> NewCount(v)]
  <2> DEFINE l == [start |-> mt.chan[v].pattpos, count |-> mt.chan[v].loopcount]
             p == Low(HereCell(v).lo)
  <2>1. Order!Looped(Here, v) =
          CASE v \notin Looping -> l
            [] v \in Looping /\ p = 0 -> [l EXCEPT !.start = mt.PatternPos]
            [] OTHER -> [l EXCEPT !.count = IF l.count = 0 THEN p ELSE l.count - 1]
    BY <1>1, <1>3, <1>4 DEF Order!Looped
  <2>2. CASE v \notin Looping
    BY <2>1, <2>2 DEF NewStart, NewCount
  <2>3. CASE v \in Looping /\ p = 0
    BY <2>1, <2>3 DEF NewStart, NewCount
  <2>4. CASE v \in Looping /\ p # 0
    BY <2>1, <2>4 DEF NewStart, NewCount
  <2> QED
    BY <2>2, <2>3, <2>4
<1> QED
  BY <1>1, <1>2, <1>5 DEF SongLoops, Order!Voices, Voices

LEMMA FetchPlays ==
  ASSUME Settling, Orderly, Fetch
  PROVE  Order!Play
<1>1. at' = Here /\ song' = song /\ mt.PattDelTime2 = 0
  BY DEF Fetch
<1>2. at' \in (0..(Positions - 1)) \X (0..(Rows - 1))
  BY <1>1 DEF Here, Settling, Settled
<1>3. Order!Unclear \/ at' = Order!Following
  BY <1>1 DEF Orderly, GoesOn
<1> QED
  BY <1>1, <1>2, <1>3, FetchLoops DEF Order!Play, SongLoops

LEMMA HoldRepeats ==
  ASSUME Settling, Orderly, Hold
  PROVE  Order!Repeat \/ UNCHANGED <<song, at, SongLoops>>
<1>1. song' = song /\ at' = at
  BY DEF Hold
<1>2. CASE ~Order!Unclear
  BY <1>1, <1>2, ClearRowIsHeld, StillOrStutter
<1>3. CASE Order!Unclear
  <2>1. mt' \in Midst
    <3>1. Settling'
      BY StepSettles DEF timer_interrupt
    <3> QED
      BY <1>1, <3>1, SameSongSameState DEF Settling
  <2>2. \A v \in Voices : mt'.chan[v].pattpos \in Row /\ mt'.chan[v].loopcount \in Nibble
    BY <2>1, ChannelPut, FieldsOfAChannel DEF Midst
  <2>3. SongLoops' \in [Voices -> [start : Row, count : Nibble]]
    BY <2>2 DEF SongLoops
  <2> QED
    BY <1>1, <1>3, <2>3 DEF Order!Repeat, SongLoops, Order!Voices, Voices, Row, Nibble
<1> QED
  BY <1>2, <1>3

LEMMA StepIsOfTheSong ==
  ASSUME Settling, Orderly, [timer_interrupt]_vars
  PROVE  [Order!Play \/ Order!Repeat]_<<song, at, SongLoops>>
<1>1. CASE Between
  <2>1. song' = song /\ at' = at
    BY <1>1 DEF Between
  <2> QED
    BY <1>1, <2>1, BetweenIsOrderly, StillOrStutter
<1>2. CASE UNCHANGED vars
  BY <1>2 DEF vars, SongLoops
<1> QED
  BY <1>1, <1>2, FetchPlays, HoldRepeats DEF timer_interrupt

LEMMA InitIsOfTheSong ==
  ASSUME Init
  PROVE  Order!Init
<1>1. at = <<>> /\ \A v \in Voices : mt.chan[v] = Silent
  BY DEF Init
<1> QED
  BY <1>1 DEF Order!Init, Order!Voices, Voices, Silent

LEMMA InitIsInTime ==
  ASSUME Init
  PROVE  InTime
<1>1. age = 0 /\ due = Speed0 /\ mt.speed = Speed0 /\ mt.counter = 0 /\ mt.PattDelTime2 = 0
  BY DEF Init
<1>2. Speed0 \in Nat
  BY SpeedAssumption
<1> QED
  BY <1>1, <1>2 DEF InTime

-----------------------------------------------------------------------------
(* Whatever four voices ask for, after every interrupt the channels hold the *)
(* commands of the row fetched last, the player stands where the song goes   *)
(* on (mt_getnew, mt_dskip, nextPosition), and the interrupts that the row   *)
(* has left are those its speed and its delay give it.                       *)
THEOREM PlayerInvariance == Spec => [](Settling /\ Orderly /\ InTime)
<1>1. Init => Settling /\ Orderly /\ InTime
  BY InitSettles, InitIsOrderly, InitIsInTime
<1>2. Settling /\ Orderly /\ InTime /\ [timer_interrupt]_vars
        => Settling' /\ Orderly' /\ InTime'
  BY StepSettles, StepIsOrderly, StepIsInTime
<1> QED
  BY <1>1, <1>2, PTL DEF Spec

(* The next row is fetched in the interrupt in which the row's time is over  *)
(* and in no other, for every song and every speed: no loop, break, jump or  *)
(* delay of another voice lengthens or shortens it.                          *)
THEOREM RowsKeepTimeAlways == Spec => RowsKeepTime
<1>1. Settling /\ InTime /\ [timer_interrupt]_vars
        => [age' = 0 <=> age + 1 = due]_vars
  BY RowIsOverInTime
<1> QED
  BY <1>1, PlayerInvariance, PTL DEF RowsKeepTime, Spec

(* The player (mt_music with all that it calls) plays the rows of every song *)
(* in the order the song gives: each interrupt fetches the row that follows, *)
(* obeys a row of unclear meaning again, or changes nothing but sounds.      *)
THEOREM SongOrderImplemented == Spec => ImplementsSongOrder
<1>1. Init => Order!Init
  BY InitIsOfTheSong
<1>2. Settling /\ Orderly /\ [timer_interrupt]_vars
        => [Order!Play \/ Order!Repeat]_<<song, at, SongLoops>>
  BY StepIsOfTheSong
<1> QED
  BY <1>1, <1>2, PlayerInvariance, PTL DEF Spec, ImplementsSongOrder, Order!Spec, SongLoops

=============================================================================
