----------------------------- MODULE SongOrder -----------------------------
(* In which order the rows of a song are to be played, whatever the clock.   *)
(* A row is followed by the next one, or by the row its commands name:       *)
(* B jumps to a position of the order list, D breaks off the pattern and     *)
(* enters the next position at a row, E6 marks the start of a loop (0) or    *)
(* ends one, EE delays.  What a row means that both delays and loops is left *)
(* open.                                                                     *)
EXTENDS Integers

CONSTANTS Rows, Positions

VARIABLES
  song,
  at,      \* <<position, row>> played last, <<>> before the first
  loops    \* for each voice, where its loop starts and the repeats it has left

Voices == 1..4

Cell(where, v) == song.pattern[song.order[where[1]]][where[2]][v]
Having(where, cmd) == {v \in Voices : Cell(where, v).cmd = cmd}
HavingE(where, e) == {v \in Having(where, 14) : Cell(where, v).lo \div 16 = e}
Parameter(where, v) == Cell(where, v).lo % 16

Last(voices) == CHOOSE v \in voices : \A w \in voices : w <= v

(* The later voice wins.                                                     *)
Delay(where) ==
  IF HavingE(where, 14) = {} THEN 0 ELSE Parameter(where, Last(HavingE(where, 14)))

InSong(pos) ==
  LET p == pos % Positions IN IF p >= song.length THEN 0 ELSE p

After(where) ==
  IF where[2] + 1 < Rows THEN <<where[1], where[2] + 1>> ELSE <<InSong(where[1] + 1), 0>>

(* Loops that send the song back: their repeats were counted when the row    *)
(* was played.                                                               *)
Armed == {v \in HavingE(at, 6) : Parameter(at, v) # 0 /\ loops[v].count # 0}

Leaves == Having(at, 11) \cup Having(at, 13)

(* Where the row's commands send the song.  A break keeps its row only if no *)
(* jump comes in a later voice and no loop is armed.                         *)
Target ==
  LET pos == IF Having(at, 11) = {} THEN at[1] + 1 ELSE Cell(at, Last(Having(at, 11))).lo
      lo  == Cell(at, Last(Leaves)).lo
      dec == ((lo \div 16) * 10) + (lo % 16)
      row == IF Last(Leaves) \in Having(at, 11) \/ Armed # {} \/ dec >= Rows THEN 0 ELSE dec
  IN CASE Leaves # {}                 -> <<InSong(pos), row>>
       [] Leaves = {} /\ Armed # {}   -> <<at[1], loops[Last(Armed)].start>>
       [] OTHER                       -> After(at)

(* A delayed row that leaves the pattern goes one row too far: the delay is  *)
(* counted off where it arrived.                                             *)
Following ==
  CASE at = <<>>                                  -> <<0, 0>>
    [] at # <<>> /\ Leaves # {} /\ Delay(at) > 0  -> After(Target)
    [] OTHER                                      -> Target

Unclear == at # <<>> /\ Delay(at) > 0 /\ HavingE(at, 6) # {}

Looped(where, v) ==
  LET p == Parameter(where, v)
      l == loops[v]
  IN CASE v \notin HavingE(where, 6) -> l
       [] v \in HavingE(where, 6) /\ p = 0 -> [l EXCEPT !.start = where[2]]
       [] OTHER -> [l EXCEPT !.count = IF @ = 0 THEN p ELSE @ - 1]

Init ==
  /\ at = <<>>
  /\ loops = [v \in Voices |-> [start |-> 0, count |-> 0]]

Play ==
  /\ at' \in (0..(Positions - 1)) \X (0..(Rows - 1))
  /\ Unclear \/ at' = Following
  /\ loops' = [v \in Voices |-> Looped(at', v)]
  /\ UNCHANGED song

(* The commands of a row of unclear meaning may be obeyed again.             *)
Repeat ==
  /\ Unclear
  /\ loops' \in [Voices -> [start : 0..(Rows - 1), count : 0..15]]
  /\ UNCHANGED <<song, at>>

Spec == Init /\ [][Play \/ Repeat]_<<song, at, loops>>
=============================================================================
