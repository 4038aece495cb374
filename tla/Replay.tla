------------------------------- MODULE Replay -------------------------------
(* The module player (Apps/Modplayer/replay.c).  A timer interrupt calls     *)
(* mt_music: every mt_speed interrupts it fetches the next row of the song   *)
(* and gives each of the four voices its note and its command, and in the    *)
(* interrupts between it applies the effects that last.  Commands may delay  *)
(* the row, loop, break off the pattern or jump to another position; all of  *)
(* them write the same few static variables, and mt_dskip settles them.      *)
(*                                                                           *)
(* mt holds the static variables (without their prefix mt_) and the four     *)
(* channel structures; a function of the code that is called in the midst of *)
(* an interrupt is an operator from one value of mt to the next.             *)
(* PatternPos counts rows, where the code counts bytes, 16 a row.            *)
(*                                                                           *)
(* Left out: what only goes to the registers of a sound channel or to a      *)
(* counter of its own (vibrato, tremolo, glissando and inverted loops,       *)
(* sample addresses, retrigger, note delay), and the timer's period.         *)
EXTENDS Integers

CONSTANTS
  Rows,          \* rows of a pattern (64 in the code)
  Positions,     \* entries of the order list (128 in the code)
  PeriodTable,   \* mt_PeriodTable, from index 0, and the memory behind it
  Speed0,        \* interrupts a row lasts when the song starts (6)
  Vblank,        \* tempoMode: F commands of 32 and more are speeds, not tempos
  Songs          \* the songs that may be played

Voices == 1..4
NoteIndexes == 0..36         \* a finetune's row of PeriodTable; the last is 0
MaxPeriod == 907             \* the largest entry of PeriodTable

ASSUME RowsAssumption == Rows \in 1..64
ASSUME PositionsAssumption == Positions \in Nat \ {0}
ASSUME SpeedAssumption == Speed0 \in 1..255 /\ Vblank \in BOOLEAN

(* 16 finetunes of 37 entries, the largest first and 0 at the end of each,   *)
(* and 14 zeros.  A finetune is any byte of the song, so that the code may   *)
(* read as far as 37 entries from the 255th: there lies whatever the linker  *)
(* has put there.                                                            *)
ASSUME PeriodTableAssumption ==
  /\ PeriodTable \in [0..(255 * 37 + 37) -> Int]
  /\ \A i \in 0..605 : PeriodTable[i] \in 0..MaxPeriod
  /\ \A tune \in 0..15 : PeriodTable[tune * 37 + 36] = 0

(* What a voice finds in a row: a period (0 for no note), a sample, a        *)
(* command and its parameter.  Samples 1 to 32 are obeyed, though the song   *)
(* has 31: the 32nd is bytes of its order list.  Finetune and volume are     *)
(* bytes, neither masked nor clamped.                                        *)
Cells == [note : 0..4095, sample : 0..255, cmd : 0..15, lo : 0..255]
SampleNumbers == 1..32
Samples == [finetune : 0..255, volume : 0..255]
Patterns == 0..255

ASSUME SongsAssumption ==
  \A s \in Songs :
    /\ s.length \in 0..255
    /\ s.order \in [0..(Positions - 1) -> Patterns]
    /\ s.samples \in [SampleNumbers -> Samples]
    /\ \A p \in 0..(Positions - 1), r \in 0..(Rows - 1), v \in Voices :
         s.pattern[s.order[p]][r][v] \in Cells

VARIABLES
  song,   \* the module in memory
  mt,     \* the static variables of the player
  at,     \* history: the position and row fetched last
  age,    \* history: interrupts since then
  due,    \* history: interrupts that row is to last
  turned  \* history: changes whenever a pattern is left

vars == <<song, mt, at, age, due, turned>>

Silent == [cmd |-> 0, cmdlo |-> 0, note |-> 0, pattpos |-> 0, loopcount |-> 0,
           volume |-> 0, finetune |-> 0, period |-> 0, wantedperiod |-> 0,
           toneportdirec |-> 0, toneportspeed |-> 0]

(* A definition named X_Y is X with a plausible bug, for the check that the  *)
(* properties notice it; nothing else uses it.                               *)

High(byte) == byte \div 16
Low(byte)  == byte % 16
-----------------------------------------------------------------------------
(* What a command makes of its channel.                                      *)

Louder(ch, n) == [ch EXCEPT !.volume = IF ch.volume + n > 64 THEN 64 ELSE ch.volume + n]
Softer(ch, n) == [ch EXCEPT !.volume = IF ch.volume - n < 0 THEN 0 ELSE ch.volume - n]

VolumeSlide(ch) ==
  IF High(ch.cmdlo) # 0 THEN Louder(ch, High(ch.cmdlo)) ELSE Softer(ch, Low(ch.cmdlo))

VolumeChange(ch) == [ch EXCEPT !.volume = IF ch.cmdlo > 64 THEN 64 ELSE ch.cmdlo]

NoteCut(ch) == [ch EXCEPT !.volume = 0]

(* Slides of the period, by the part of the parameter that mask lets pass.   *)
Masked(ch, mask) == IF mask = 255 THEN ch.cmdlo ELSE Low(ch.cmdlo)

Higher(ch, mask) ==
  LET p == ch.period - Masked(ch, mask)
  IN [ch EXCEPT !.period = IF p < 113 THEN 113 ELSE p]

Lower(ch, mask) ==
  LET p == ch.period + Masked(ch, mask)
  IN [ch EXCEPT !.period = IF p > 856 THEN 856 ELSE p]

(* The first entry from index base on that is not above a period, or 37 if   *)
(* there is none.                                                            *)
IndexBelow(base, period) ==
  CHOOSE i \in 0..37 :
    /\ i # 37 => PeriodTable[base + i] <= period
    /\ \A j \in NoteIndexes : j < i => PeriodTable[base + j] > period

(* Bit 3 of the finetune, by which the tunes below pitch are told.           *)
Flat(finetune) == (finetune \div 8) % 2 = 1

SetTonePorta(ch) ==
  LET base   == ch.finetune * 37
      i      == IndexBelow(base, ch.note)
      wanted == PeriodTable[base + IF Flat(ch.finetune) /\ i > 0 THEN i - 1 ELSE i]
  IN [ch EXCEPT !.wantedperiod = IF ch.period = wanted THEN 0 ELSE wanted,
                !.toneportdirec = IF ch.period > wanted THEN 1 ELSE 0]

UpdateTonePortamento_Past(ch) ==
  LET next == ch.period + IF ch.toneportdirec = 1 THEN -ch.toneportspeed ELSE ch.toneportspeed
  IN IF ch.wantedperiod <= 0 THEN ch
     ELSE [ch EXCEPT !.period = next, !.wantedperiod = IF next = @ THEN 0 ELSE @]

(* The period moves by the speed, and stops where it would pass its aim.     *)
UpdateTonePortamento(ch) ==
  LET next == IF ch.toneportdirec = 1 THEN ch.period - ch.toneportspeed
                                      ELSE ch.period + ch.toneportspeed
      done == IF ch.toneportdirec = 1 THEN next <= ch.wantedperiod
                                      ELSE next >= ch.wantedperiod
  IN CASE ch.wantedperiod <= 0 -> ch
       [] ch.wantedperiod > 0 /\ done ->
            [ch EXCEPT !.period = ch.wantedperiod, !.wantedperiod = 0]
       [] OTHER -> [ch EXCEPT !.period = next]

TonePortamento(ch) ==
  UpdateTonePortamento(
    IF ch.cmdlo = 0 THEN ch ELSE [ch EXCEPT !.toneportspeed = ch.cmdlo, !.cmdlo = 0])

SetFineTune(ch) == [ch EXCEPT !.finetune = Low(ch.cmdlo)]

(* The first part of mt_SetPeriod.                                           *)
Tuned(ch) ==
  [ch EXCEPT !.period = PeriodTable[ch.finetune * 37 + IndexBelow(0, ch.note)]]

-----------------------------------------------------------------------------
(* What a command makes of the static variables.                             *)

Put(m, v, ch) == [m EXCEPT !.chan = [m.chan EXCEPT ![v] = ch]]

(* LowMask is one variable for all voices: a fine slide sets it, and the     *)
(* slide it calls puts it back.                                              *)
PortaUp(m, v) == Put([m EXCEPT !.LowMask = 255], v, Higher(m.chan[v], m.LowMask))
PortaDown(m, v) == Put([m EXCEPT !.LowMask = 255], v, Lower(m.chan[v], m.LowMask))

FinePortaUp(m, v) ==
  IF m.counter = 0 THEN PortaUp([m EXCEPT !.LowMask = 15], v) ELSE m
FinePortaDown(m, v) ==
  IF m.counter = 0 THEN PortaDown([m EXCEPT !.LowMask = 15], v) ELSE m

VolumeFineUp(m, v) ==
  IF m.counter = 0 THEN Put(m, v, Louder(m.chan[v], Low(m.chan[v].cmdlo))) ELSE m
VolumeFineDown(m, v) ==
  IF m.counter = 0 THEN Put(m, v, Softer(m.chan[v], Low(m.chan[v].cmdlo))) ELSE m

JumpLoop_Recount(m, v) ==
  LET ch   == m.chan[v]
      dat  == Low(ch.cmdlo)
      left == IF ch.loopcount <= 1 THEN dat ELSE ch.loopcount - 1
  IN CASE m.counter # 0 -> m
       [] m.counter = 0 /\ dat = 0 -> Put(m, v, [ch EXCEPT !.pattpos = m.PatternPos])
       [] OTHER -> [Put(m, v, [ch EXCEPT !.loopcount = left])
                      EXCEPT !.PBreakPos = ch.pattpos, !.PBreakFlag = TRUE]

JumpLoop(m, v) ==
  LET ch   == m.chan[v]
      dat  == Low(ch.cmdlo)
      left == IF ch.loopcount <= 0 THEN dat ELSE ch.loopcount - 1
      n    == Put(m, v, [ch EXCEPT !.loopcount = left])
  IN CASE m.counter # 0 -> m
       [] m.counter = 0 /\ dat = 0 -> Put(m, v, [ch EXCEPT !.pattpos = m.PatternPos])
       [] m.counter = 0 /\ dat # 0 /\ left = 0 -> n
       [] OTHER -> [n EXCEPT !.PBreakPos = ch.pattpos, !.PBreakFlag = TRUE]

PatternDelay_Again(m, v) ==
  IF m.counter = 0 THEN [m EXCEPT !.PattDelTime = Low(m.chan[v].cmdlo) + 1] ELSE m

PatternDelay(m, v) ==
  IF m.counter = 0 /\ m.PattDelTime2 = 0
  THEN [m EXCEPT !.PattDelTime = Low(m.chan[v].cmdlo) + 1]
  ELSE m

PositionJump_KeepRow(m, v) ==
  [m EXCEPT !.SongPos = m.chan[v].cmdlo - 1, !.PosJumpFlag = TRUE]

(* The position itself is one more: nextPosition adds it.                    *)
PositionJump(m, v) ==
  [m EXCEPT !.SongPos = m.chan[v].cmdlo - 1, !.PBreakPos = 0, !.PosJumpFlag = TRUE]

(* The parameter is decimal; a row that does not exist becomes the first.    *)
BreakRow(lo) ==
  LET row == High(lo) * 10 + Low(lo) IN IF row > Rows - 1 THEN 0 ELSE row

PatternBreak(m, v) ==
  [m EXCEPT !.PBreakPos = BreakRow(m.chan[v].cmdlo), !.PosJumpFlag = TRUE]

SetSpeed(m, v) ==
  LET lo == m.chan[v].cmdlo
  IN CASE lo = 0 -> m
       [] lo > 0 /\ (Vblank \/ lo < 32) -> [m EXCEPT !.counter = 0, !.speed = lo]
       [] OTHER -> [m EXCEPT !.counter = 0]

nextPosition_NoReset(m) ==
  LET pos == (m.SongPos + 1) % Positions
  IN [m EXCEPT !.PatternPos = m.PBreakPos, !.PosJumpFlag = FALSE,
               !.SongPos = IF pos >= song.length THEN 0 ELSE pos]

nextPosition(m) ==
  LET pos == (m.SongPos + 1) % Positions
  IN [m EXCEPT !.PatternPos = m.PBreakPos, !.PBreakPos = 0, !.PosJumpFlag = FALSE,
               !.SongPos = IF pos >= song.length THEN 0 ELSE pos]

(* What mt_dskip does before it looks for the end of the pattern.            *)
Skip(m) ==
  LET delay == IF m.PattDelTime > 0 THEN m.PattDelTime ELSE m.PattDelTime2
      left  == IF delay > 0 THEN delay - 1 ELSE 0
      row   == IF left > 0 THEN m.PatternPos ELSE m.PatternPos + 1
      n     == [m EXCEPT !.PattDelTime = 0, !.PattDelTime2 = left,
                         !.PatternPos = row]
  IN IF m.PBreakFlag
     THEN [n EXCEPT !.PBreakFlag = FALSE, !.PatternPos = m.PBreakPos, !.PBreakPos = 0]
     ELSE n

Turns(m) == Skip(m).PatternPos >= Rows \/ m.PosJumpFlag

dskip(m) == IF Turns(m) THEN nextPosition(Skip(m)) ELSE Skip(m)
-----------------------------------------------------------------------------
(* The commands of a voice.                                                  *)

E_Commands(m, v) ==
  LET ch == m.chan[v]
      e  == High(ch.cmdlo)
  IN CASE e = 1  -> FinePortaUp(m, v)
       [] e = 2  -> FinePortaDown(m, v)
       [] e = 5  -> Put(m, v, SetFineTune(ch))
       [] e = 6  -> JumpLoop(m, v)
       [] e = 10 -> VolumeFineUp(m, v)
       [] e = 11 -> VolumeFineDown(m, v)
       [] e = 12 /\ m.counter = Low(ch.cmdlo) -> Put(m, v, NoteCut(ch))
       [] e = 14 -> PatternDelay(m, v)
       [] OTHER  -> m

(* When the row is fetched.                                                  *)
CheckMoreEfx(m, v) ==
  LET c == m.chan[v].cmd
  IN CASE c = 11 -> PositionJump(m, v)
       [] c = 12 -> Put(m, v, VolumeChange(m.chan[v]))
       [] c = 13 -> PatternBreak(m, v)
       [] c = 14 -> E_Commands(m, v)
       [] c = 15 -> SetSpeed(m, v)
       [] OTHER  -> m

(* In the interrupts that follow, and when a delayed row is played again.    *)
CheckEfx(m, v) ==
  LET ch == m.chan[v]
      c  == ch.cmd
  IN CASE c = 1  -> PortaUp(m, v)
       [] c = 2  -> PortaDown(m, v)
       [] c = 3  -> Put(m, v, TonePortamento(ch))
       [] c = 5  -> Put(m, v, VolumeSlide(UpdateTonePortamento(ch)))
       [] c \in {6, 10} -> Put(m, v, VolumeSlide(ch))
       [] c = 14 -> E_Commands(m, v)
       [] OTHER  -> m

(* The cell a voice finds is copied to its channel; a sample brings its own  *)
(* finetune and volume.                                                      *)
Taken(ch, cell) ==
  LET n == [ch EXCEPT !.note = cell.note, !.cmd = cell.cmd, !.cmdlo = cell.lo]
  IN IF cell.sample \notin SampleNumbers THEN n
     ELSE [n EXCEPT !.finetune = song.samples[cell.sample].finetune,
                    !.volume = song.samples[cell.sample].volume]

SetPeriod(m, v) == CheckMoreEfx(Put(m, v, Tuned(m.chan[v])), v)

PlayCell(m, v) ==
  LET ch == m.chan[v]
  IN CASE ch.note = 0 -> CheckMoreEfx(m, v)
       [] ch.note # 0 /\ ch.cmd = 14 /\ High(ch.cmdlo) = 5 ->
            SetPeriod(Put(m, v, SetFineTune(ch)), v)
       [] ch.note # 0 /\ ch.cmd \in {3, 5} ->
            CheckMoreEfx(Put(m, v, SetTonePorta(ch)), v)
       [] OTHER -> SetPeriod(m, v)

(* All four voices read the row that was current when the interrupt began:   *)
(* that of mt, not of m, whose SongPos a jump may have changed.              *)
PlayVoice(m, v) ==
  LET cell == song.pattern[song.order[mt.SongPos]][mt.PatternPos][v]
  IN PlayCell(Put(m, v, Taken(m.chan[v], cell)), v)
-----------------------------------------------------------------------------
(* What an interrupt makes of mt.                                            *)

Notes(m) == PlayVoice(PlayVoice(PlayVoice(PlayVoice(m, 1), 2), 3), 4)
Effects(m) == CheckEfx(CheckEfx(CheckEfx(CheckEfx(m, 1), 2), 3), 4)

OnRow == [mt EXCEPT !.counter = 0]
FetchRow == dskip(Notes(OnRow))
HoldRow == dskip(Effects(OnRow))

BetweenRows ==
  LET m == Effects([mt EXCEPT !.counter = @ + 1])
  IN IF m.PosJumpFlag THEN nextPosition(m) ELSE m

RowIsOver == mt.counter + 1 >= mt.speed

(* How long a row is to last by what is written in it: the last voice that   *)
(* asks for a delay decides.                                                 *)
DelayOf(row) ==
  LET asking == {v \in Voices : row[v].cmd = 14 /\ High(row[v].lo) = 14}
  IN IF asking = {} THEN 0
     ELSE Low(row[CHOOSE v \in asking : \A w \in asking : w <= v].lo)

RowAt(where) == song.pattern[song.order[where[1]]][where[2]]

Here == <<mt.SongPos, mt.PatternPos>>
-----------------------------------------------------------------------------
(* mt_init, and ptBuddyPlay until interrupts are enabled.                    *)
Init ==
  /\ song \in Songs
  /\ mt = [SongPos |-> 0, PatternPos |-> 0, PBreakPos |-> 0, PBreakFlag |-> FALSE,
           PosJumpFlag |-> FALSE, PattDelTime |-> 0, PattDelTime2 |-> 0,
           counter |-> 0, speed |-> Speed0, LowMask |-> 255,
           chan |-> [v \in Voices |-> Silent]]
  /\ at = <<>>
  /\ age = 0
  /\ due = Speed0
  /\ turned = FALSE

(* timer_interrupt, with mt_music: a new row; the row that is being delayed, *)
(* once more; or an interrupt between two rows.                              *)
Fetch ==
  /\ RowIsOver /\ mt.PattDelTime2 = 0
  /\ mt' = FetchRow
  /\ at' = Here
  /\ age' = 0
  /\ due' = mt'.speed * (1 + DelayOf(RowAt(Here)))
  /\ turned' = (turned # Turns(Notes(OnRow)))
  /\ UNCHANGED song

Hold ==
  /\ RowIsOver /\ mt.PattDelTime2 # 0
  /\ mt' = HoldRow
  /\ age' = age + 1
  /\ turned' = (turned # Turns(Effects(OnRow)))
  /\ UNCHANGED <<song, at, due>>

Between ==
  /\ ~RowIsOver
  /\ mt' = BetweenRows
  /\ age' = age + 1
  /\ UNCHANGED <<song, at, due, turned>>

timer_interrupt == Fetch \/ Hold \/ Between

Spec == Init /\ [][timer_interrupt]_vars

(* The timer counts for ever and interrupts each time it ends: as an         *)
(* interrupt is always possible, and every step is one, this is weak         *)
(* fairness of timer_interrupt.                                              *)
FairSpec == Spec /\ []<><<TRUE>>_vars
-----------------------------------------------------------------------------
(* Every interrupt ends on a row of the song, with no loop, break or jump    *)
(* pending and the mask of the slides restored: mt_dskip settles what four   *)
(* voices have asked for, in whatever combination, before the next row is    *)
(* looked up.                                                                *)
Settled ==
  /\ mt.PatternPos \in 0..(Rows - 1)
  /\ mt.SongPos \in 0..(Positions - 1)
  /\ mt.SongPos = 0 \/ mt.SongPos < song.length
  /\ ~mt.PBreakFlag /\ ~mt.PosJumpFlag /\ mt.PBreakPos = 0
  /\ mt.PattDelTime = 0 /\ mt.PattDelTime2 \in 0..15
  /\ mt.counter < mt.speed /\ mt.speed \in 1..255
  /\ mt.LowMask = 255

(* A song whose finetunes are in the table, the one that sample 32 has of    *)
(* the order list included.                                                  *)
InTune == \A i \in SampleNumbers : song.samples[i].finetune \in 0..15

(* Whatever slides are played one after another in whatever mixture, no      *)
(* volume goes above 64 but one that a sample of the song brought unclamped, *)
(* and while the finetunes of the song are in the table the periods are; in  *)
(* every song loops start within the pattern and count no more than they     *)
(* were told.                                                                *)
VoicesInRange ==
  \A v \in Voices :
    LET ch == mt.chan[v]
    IN /\ \/ ch.volume \in 0..64
          \/ \E i \in SampleNumbers : ch.volume \in 0..song.samples[i].volume
       /\ InTune => /\ ch.period \in 0..MaxPeriod /\ ch.wantedperiod \in 0..MaxPeriod
                    /\ ch.finetune \in 0..15
       /\ ch.pattpos \in 0..(Rows - 1) /\ ch.loopcount \in 0..15

(* A row lasts as many interrupts as its speed and its delay say, whatever   *)
(* loops, breaks and jumps it holds besides and in whatever order its voices *)
(* give them: the next row is fetched in that interrupt and in no other.     *)
RowsKeepTime ==
  [][age' = 0 <=> age + 1 = due]_vars

(* Rows are fetched in the order the song gives them.                        *)
Order == INSTANCE SongOrder WITH
           loops <- [v \in Voices |-> [start |-> mt.chan[v].pattpos,
                                       count |-> mt.chan[v].loopcount]]
ImplementsSongOrder == Order!Spec

(* How often the voice repeats a loop that ends in a row of a pattern.       *)
Repeats(p, r, v) ==
  LET cell == song.pattern[song.order[p]][r][v]
  IN IF cell.cmd = 14 /\ High(cell.lo) = 6 THEN Low(cell.lo) ELSE 0

(* A song in which no voice ends two loops in one pattern, no row both       *)
(* delays and ends a loop, and voices that end loops in one row do so in     *)
(* every row of the song, with the same count.  Otherwise the player may     *)
(* loop for ever: the second end of a loop sends it back before the first,   *)
(* which counts anew; and counts outlive their pattern, so that two voices   *)
(* may come to the end of a loop out of step and send each other back.       *)
LoopsClearly ==
  \A p \in 0..(Positions - 1), r \in 0..(Rows - 1), v \in Voices :
    Repeats(p, r, v) # 0 =>
      /\ DelayOf(RowAt(<<p, r>>)) = 0
      /\ \A q \in 0..(Rows - 1) : Repeats(p, q, v) # 0 => q = r
      /\ \A w \in Voices : Repeats(p, r, w) # 0 =>
           \A s \in 0..(Positions - 1), q \in 0..(Rows - 1) : Repeats(s, q, w) = Repeats(s, q, v)

(* The song leaves every pattern after finitely many rows, although loops of *)
(* several voices share rows and the variables that send the song back, and  *)
(* a loop broken off in one pattern goes on counting in another.             *)
SongGoesOn == LoopsClearly => []<><<turned' # turned>>_vars
=============================================================================
