------------------------------ MODULE Listing ------------------------------
(***************************************************************************)
(* What ScanDirectory promises: a window of at most Height rows on the     *)
(* sorted list of the directory, in which one row is selected.  The window *)
(* moves by a row or a page when the selection is at its edge, and jumps   *)
(* to a row with a given first letter, or to the row of a given directory. *)
(***************************************************************************)
EXTENDS Integers, Sequences

CONSTANTS
  Height,    \* rows of the window
  Letters,   \* the letters searched for
  Clusters,  \* the first clusters of directories
  Seeks      \* what a search is for: the next row, a directory or a file

VARIABLES
  rows,      \* the sorted list: of each row letter, dir and cluster matter
  shown,     \* the window
  sel        \* the selected row, counted from zero

Smaller(a, b) == IF a < b THEN a ELSE b

(* The window from row p on, as high as the list allows. *)
From(p) == SubSeq(rows, p, Smaller(Len(rows), p + Height - 1))

(* The place of the window in the list. *)
Top    == CHOOSE p \in 1 .. Len(rows) : rows[p] = shown[1]
Bottom == Top + Len(shown) - 1

Init == shown = <<>> /\ sel = 0

Open == shown' = From(1) /\ sel' = 0

Select(n) == sel' = n /\ UNCHANGED shown

Move(p, q) == shown' = SubSeq(rows, p, q) /\ UNCHANGED sel

(* At the last row of a full window, the window moves, as far as it can. *)
Scroll(n) ==
  LET d == Smaller(n, Len(rows) - Bottom)
  IN  sel = Len(shown) - 1 /\ Len(shown) = Height /\ Move(Top + d, Bottom + d)

(* At the first row the window moves back, and grows to its height. *)
ScrollBack(n) ==
  LET d == Smaller(n, Top - 1)
  IN  sel = 0 /\ Move(Top - d, Smaller(Bottom, Top - d + Height - 1))

Down ==
  \/ sel < Len(shown) - 1 /\ Select(sel + 1)
  \/ Scroll(1)

Up ==
  \/ sel > 0 /\ Select(sel - 1)
  \/ ScrollBack(1)

PageDown ==
  \/ sel < Len(shown) - 1 /\ Select(Len(shown) - 1)
  \/ Scroll(Height)

PageUp ==
  \/ sel > 0 /\ Select(0)
  \/ ScrollBack(Height)

JumpTo(p) == shown' = From(p) /\ sel' = 0

(* A search finds the first row of its kind at or after a letter, or after  *)
(* the selected row; and succeeds when that has the letter and, for the     *)
(* next row, is of the kind of the selected one.                            *)
Candidate(p, letter, seek) ==
  CASE seek = "file" -> ~rows[p].dir /\ rows[p].letter >= letter
    [] seek = "dir"  -> ~rows[p].dir \/ rows[p].letter >= letter
    [] seek = "next" -> p > Top + sel

Found(p, letter, seek) ==
  /\ Candidate(p, letter, seek)
  /\ \A q \in 1 .. p - 1 : ~Candidate(q, letter, seek)
  /\ rows[p].letter = letter
  /\ seek = "dir" => rows[p].dir
  /\ seek = "next" => rows[p].dir = shown[sel + 1].dir

Find == \E letter \in Letters, seek \in Seeks, p \in 1 .. Len(rows) :
          Found(p, letter, seek) /\ JumpTo(p)

(* A program that comes back from a subdirectory shows its row alone, and   *)
(* then the rows that follow.                                               *)
ShowDirectory == \E c \in Clusters, p \in 1 .. Len(rows) :
                   rows[p].cluster = c /\ shown' = <<rows[p]>> /\ sel' = 0

FillBelow == Len(shown) = 1 /\ shown' = From(Top) /\ UNCHANGED sel

(* The next program starts without a window. *)
Close == shown' = <<>> /\ sel' = 0

Next ==
  \/ Open \/ Close
  \/ /\ shown # <<>>
     /\ Down \/ Up \/ PageDown \/ PageUp \/ Find \/ ShowDirectory \/ FillBelow

Listing == Init /\ [][Next /\ UNCHANGED rows]_<<rows, shown, sel>>

=============================================================================
