------------------------------ MODULE DirScan ------------------------------
(***************************************************************************)
(* ScanDirectory (fat.c): the window of a file browser on a directory that *)
(* does not fit into memory.  Every call that has to move the window reads *)
(* the whole directory again and keeps the few entries it needs; the       *)
(* entries stay where they are and sort_table gives their order.           *)
(*                                                                         *)
(* A directory is the sequence of the slots of its sectors and clusters.   *)
(* A name is a sequence of numbers that compares as the text does after    *)
(* tolower; a part of a long name carries one number.  The checksum that   *)
(* links the parts to their entry is the short name it is computed from.   *)
(***************************************************************************)
EXTENDS Integers, Sequences, FiniteSets, SequencesExt

CONSTANTS
  MaxDirEntries,  \* MAXDIRENTRIES: 8
  Directories,    \* the contents a directory may have
  Extension,      \* the extension wanted, or "*"
  Options,        \* subset of {"SCAN_DIR", "SCAN_LFN"}
  Modes,          \* the characters looked for
  Subdirectories  \* first clusters of directories

ASSUME DirScanAssumption ==
  MaxDirEntries \in Nat /\ MaxDirEntries > 1 /\ Modes \subseteq Int

VARIABLES
  directory,       \* the slots; nothing writes the directory meanwhile
  DirEntry,        \* with DirEntryLFN: the rows kept
  sort_table, nDirEntries, iSelectedEntry,
  listing          \* history: the sorted list of the directory

scanVars == <<directory, listing, DirEntry, sort_table, nDirEntries, iSelectedEntry>>

(* The slots. *)
Slot(kind, name, ext, cluster) ==
  [kind |-> kind, name |-> name, ext |-> ext, cluster |-> cluster]
Part(number, last, text, sum) ==
  [kind |-> "lfn", number |-> number, last |-> last, text |-> text, sum |-> sum]
Unused == [kind |-> "unused"]     \* SLOT_EMPTY or SLOT_DELETED

(* A row: an entry with its long name, or <<>>. *)
Row(slot, long) == [slot |-> slot, long |-> long]
NoRow == Row(Unused, <<>>)

Places == 0 .. MaxDirEntries - 1

-----------------------------------------------------------------------------
(* CompareDirEntries: directories first, then by name, the long one if      *)
(* there is one; of equal names the short one first.                        *)

Precedes(s, t) ==
  \E i \in 1 .. Len(t) :
    /\ \A j \in 1 .. i - 1 : j <= Len(s) /\ s[j] = t[j]
    /\ i > Len(s) \/ s[i] < t[i]

IsDir(row) == row.slot.kind = "dir"
NameOf(row) == IF row.long # <<>> THEN row.long ELSE row.slot.name

Below(a, b) ==
  \/ IsDir(a) /\ ~IsDir(b)
  \/ /\ IsDir(a) = IsDir(b)
     /\ \/ Precedes(NameOf(a), NameOf(b))
        \/ NameOf(a) = NameOf(b) /\ a.long = <<>> /\ b.long # <<>>

-----------------------------------------------------------------------------
(* Long names are put together from their parts, the last part first.  A    *)
(* part out of turn spoils the name until another last part comes.  lfn is  *)
(* a name only when its first character, of part 1, is there.               *)

NoLFN == [text |-> <<>>, error |-> TRUE, number |-> 0, sum |-> <<>>]

Assemble(l, part) ==
  LET error == ~part.last /\ (l.error \/ part.number # l.number - 1 \/ part.sum # l.sum)
      size  == IF part.last THEN part.number ELSE Len(l.text)
      text  == [i \in 1 .. size |-> IF i = part.number THEN part.text
                                    ELSE IF i <= Len(l.text) THEN l.text[i] ELSE 0]
  IN  [text |-> IF error THEN l.text ELSE text,
       error |-> error, number |-> part.number, sum |-> part.sum]

(* "lfn[0] = 0": the rest of the buffer keeps what it holds. *)
Ended(text) == [i \in 1 .. Len(text) |-> IF i = 1 THEN 0 ELSE text[i]]

LongName(l) ==
  IF l.text # <<>> /\ l.text[1] # 0 THEN l.text ELSE <<>>

(* The entry is stored with the long name only if the checksum matches. *)
Stored(slot, l) == Row(slot, IF l.sum = slot.name THEN LongName(l) ELSE <<>>)

Wanted(slot) ==
  /\ slot.kind \in {"file", "dir"}     \* no volume label, hidden or "." entry
  /\ Extension = "*" \/ slot.ext = Extension \/ ("SCAN_DIR" \in Options /\ slot.kind = "dir")

-----------------------------------------------------------------------------
(* The sorted list, defined from the directory alone, for the refinement: an *)
(* entry has a long name when the slots right before it are all parts of    *)
(* one, the last first, that carry its checksum.                            *)

PartsBefore(d, k, n) ==
  /\ n < k
  /\ \A i \in 1 .. n : LET p == d[k - i]
                       IN  /\ p.kind = "lfn" /\ p.number = i
                           /\ p.last = (i = n) /\ p.sum = d[k].name

LongNameOf(d, k) ==
  IF "SCAN_LFN" \in Options /\ \E n \in 1 .. k : PartsBefore(d, k, n)
  THEN LET n == CHOOSE n \in 1 .. k : PartsBefore(d, k, n)
       IN  [i \in 1 .. n |-> d[k - i].text]
  ELSE <<>>

Listed(d) == {k \in 1 .. Len(d) : Wanted(d[k])}
RowOf(d, k) == Row(d[k], LongNameOf(d, k))
RowsOf(d) == {RowOf(d, k) : k \in Listed(d)}

Sorted(d) ==
  LET R == RowsOf(d)
  IN  [i \in 1 .. Cardinality(R) |-> CHOOSE r \in R : Cardinality({q \in R : Below(q, r)}) = i - 1]

(* tolower of the first character, which the names begin with. *)
Letter(row) == row.slot.name[1]

ListRow(row) == [row |-> row, letter |-> Letter(row), dir |-> IsDir(row),
                 cluster |-> row.slot.cluster]

SortedList(d) == [i \in 1 .. Cardinality(RowsOf(d)) |-> ListRow(Sorted(d)[i])]

(* What a directory contains.  Entries differ in their short names, and in   *)
(* their long ones.  The last part of a long name, which comes first, is     *)
(* followed by the others and the entry; other parts may be left over, and   *)
(* are then of names whose last part was overwritten.                        *)
SlotRight(slot) ==
  \/ slot.kind = "unused"
  \/ /\ slot.kind = "lfn" /\ slot.last \in BOOLEAN
     /\ slot.number \in Nat \ {0} /\ slot.text \in Nat \ {0} /\ slot.sum \in Seq(Int)
  \/ slot.kind \in {"file", "dir", "hidden"} /\ slot.name \in Seq(Int) /\ slot.name # <<>>

PartsWhole(d) ==
  \A q \in 1 .. Len(d) : d[q].kind = "lfn" /\ d[q].last =>
    LET k == q + d[q].number
    IN  k <= Len(d) /\ d[k].kind \in {"file", "dir", "hidden"} /\ PartsBefore(d, k, d[q].number)

NamesDiffer(d) ==
  \A k, l \in Listed(d) : k # l =>
    /\ d[k].name # d[l].name
    /\ LongNameOf(d, k) # <<>> => LongNameOf(d, k) # LongNameOf(d, l)

(* Rows in order have their first letters in order: a long name begins as    *)
(* the short one does.                                                       *)
LettersInOrder(d) ==
  \A a, b \in RowsOf(d) : IsDir(a) = IsDir(b) /\ Below(a, b) => Letter(a) <= Letter(b)

ASSUME DirectoriesAssumption ==
  \A d \in Directories :
    /\ d \in Seq(Range(d)) /\ \A k \in 1 .. Len(d) : SlotRight(d[k])
    /\ PartsWhole(d) /\ NamesDiffer(d) /\ LettersInOrder(d)

ScanInitial ==
  /\ directory \in Directories /\ listing = SortedList(directory)
  /\ DirEntry = [p \in Places |-> NoRow]
  /\ sort_table = [p \in Places |-> 0]
  /\ nDirEntries = 0 /\ iSelectedEntry = 0

-----------------------------------------------------------------------------
(* What one scan works on: the rows kept and their order, the new entries   *)
(* found so far, and the temporary table.                                   *)
LastRow(s)  == s.table[s.sort[MaxDirEntries - 1]]
FirstRow(s) == s.table[s.sort[0]]

(* One pass of the bubble sort: the entry at place i moves up past those it *)
(* is below of, until one that it is not.                                   *)
Bubble(s, i) ==
  LET new == s.table[s.sort[i]]
      to  == CHOOSE p \in 0 .. i :
               /\ \A q \in p .. i - 1 : Below(new, s.table[s.sort[q]])
               /\ p = 0 \/ ~Below(new, s.table[s.sort[p - 1]])
  IN  [s EXCEPT !.sort = [p \in Places |-> IF p = to THEN s.sort[i]
                                           ELSE IF p \in to + 1 .. i THEN s.sort[p - 1]
                                           ELSE s.sort[p]]]

(* A new row goes to the first empty place, or replaces the last one if it  *)
(* is below; and is sorted in.                                              *)
Keep(s, row, stored) ==
  IF s.n < MaxDirEntries
  THEN Bubble([s EXCEPT !.table[s.n] = stored, !.n = @ + 1], s.n)
  ELSE IF Below(row, LastRow(s))
  THEN Bubble([s EXCEPT !.table[s.sort[MaxDirEntries - 1]] = stored], MaxDirEntries - 1)
  ELSE s

(* The same for the temporary table, kept as a sequence, in the given order. *)
Before(a, b, down) == IF down THEN Below(a, b) ELSE Below(b, a)

SortIn(t, row, down) ==
  LET p == CHOOSE p \in 1 .. Len(t) + 1 :
             /\ \A q \in p .. Len(t) : Before(row, t[q], down)
             /\ p = 1 \/ ~Before(row, t[p - 1], down)
  IN  InsertAt(t, p, row)

KeepTemp(t, row, stored, down) ==
  IF Len(t) < MaxDirEntries THEN SortIn(t, stored, down)
  ELSE IF Before(row, t[Len(t)], down) THEN SortIn(Front(t), stored, down)
  ELSE t

(* A definition named X_Y is X with a plausible bug, for the check that the *)
(* properties can fail; nothing uses it.                                    *)
Append1_NoLower(s, row, stored) ==
  IF s.found = 0
  THEN IF Below(LastRow(s), row)
       THEN [s EXCEPT !.found = 1, !.table[s.sort[0]] = stored,
                      !.sort = [p \in Places |-> s.sort[(p + 1) % MaxDirEntries]]]
       ELSE s
  ELSE IF Below(row, LastRow(s))
       THEN [s EXCEPT !.table[s.sort[MaxDirEntries - 1]] = stored]
       ELSE s

(* SCAN_NEXT: the first row above the last one pushes the first one out;    *)
(* a later one that is below that, and above the last but one, replaces it. *)
Append1(s, row, stored) ==
  IF s.found = 0
  THEN IF Below(LastRow(s), row)
       THEN [s EXCEPT !.found = 1, !.table[s.sort[0]] = stored,
                      !.sort = [p \in Places |-> s.sort[(p + 1) % MaxDirEntries]]]
       ELSE s
  ELSE IF Below(row, LastRow(s)) /\ Below(s.table[s.sort[MaxDirEntries - 2]], row)
       THEN [s EXCEPT !.table[s.sort[MaxDirEntries - 1]] = stored]
       ELSE s

(* SCAN_PREV, the other way round. *)
Prepend1(s, row, stored) ==
  IF s.found = 0
  THEN IF Below(row, FirstRow(s))
       THEN [s EXCEPT !.found = 1, !.n = IF @ < MaxDirEntries THEN @ + 1 ELSE @,
                      !.table[s.sort[MaxDirEntries - 1]] = stored,
                      !.sort = [p \in Places |-> s.sort[(p - 1) % MaxDirEntries]]]
       ELSE s
  ELSE IF Below(FirstRow(s), row) /\ Below(row, s.table[s.sort[1]])
       THEN [s EXCEPT !.table[s.sort[0]] = stored]
       ELSE s

(* What each mode does with a row.  arg is the cluster of SCAN_INIT_FIRST,  *)
(* or the character looked for and the option of the search.                *)
Take(s, mode, arg, row, stored) ==
  CASE mode = "INIT" -> Keep(s, row, stored)
    [] mode = "INIT_FIRST" ->
         IF row.slot.cluster = arg
         THEN [s EXCEPT !.table[0] = stored, !.sort = [p \in Places |-> p], !.n = 1, !.sel = 0]
         ELSE s
    [] mode = "INIT_NEXT" -> IF Below(FirstRow(s), row) THEN Keep(s, row, stored) ELSE s
    [] mode = "NEXT" -> Append1(s, row, stored)
    [] mode = "PREV" -> Prepend1(s, row, stored)
    [] mode = "NEXT_PAGE" ->
         IF Below(LastRow(s), row) THEN [s EXCEPT !.temp = KeepTemp(@, row, stored, TRUE)] ELSE s
    [] mode = "PREV_PAGE" ->
         IF Below(row, FirstRow(s)) THEN [s EXCEPT !.temp = KeepTemp(@, row, stored, FALSE)] ELSE s
    [] mode = "FIND" ->
         IF CASE arg.seek = "file" -> Letter(row) >= arg.letter /\ ~IsDir(row)
              [] arg.seek = "dir"  -> Letter(row) >= arg.letter \/ ~IsDir(row)
              [] arg.seek = "next" -> Below(s.table[s.sort[s.sel]], row)
         THEN [s EXCEPT !.temp = KeepTemp(@, row, stored, TRUE)] ELSE s

(* One slot of the directory. *)
Visit(s, mode, arg, slot) ==
  IF slot.kind = "unused" THEN s
  ELSE IF slot.kind = "lfn"
  THEN IF "SCAN_LFN" \in Options THEN [s EXCEPT !.lfn = Assemble(@, slot)] ELSE s
  ELSE LET row == Row(slot, LongName(s.lfn))
           t   == IF Wanted(slot) THEN Take(s, mode, arg, row, Stored(slot, s.lfn)) ELSE s
       IN  [t EXCEPT !.lfn.text = Ended(@)]

Scanned(s, mode, arg) ==
  LET after[k \in 0 .. Len(directory)] ==
        IF k = 0 THEN s ELSE Visit(after[k - 1], mode, arg, directory[k])
  IN  after[Len(directory)]

(* The temporary table takes the places from p on. *)
CopyTemp(s, sort, p) ==
  [s EXCEPT !.sort = sort,
            !.table = [x \in Places |->
              IF \E i \in 1 .. Len(s.temp) : x = sort[p + i - 1]
              THEN s.temp[CHOOSE i \in 1 .. Len(s.temp) : x = sort[p + i - 1]]
              ELSE s.table[x]]]

(* After a page down the old rows that stay move up, by exchanges...        *)
Exchange(f, x, y) == [f EXCEPT ![x] = f[y], ![y] = f[x]]

ShiftUp(sort, n) ==
  LET step[i \in 0 .. MaxDirEntries - n] ==
        IF i = 0 THEN sort ELSE Exchange(step[i - 1], i - 1, i - 1 + n)
  IN  step[MaxDirEntries - n]

(* ...and after a page up they move down; the rows found are in reverse.    *)
ShiftDown(sort, n) ==
  LET step[i \in 0 .. MaxDirEntries - n] ==
        IF i = 0 THEN sort ELSE Exchange(step[i - 1], MaxDirEntries - i, MaxDirEntries - i - n)
  IN  step[MaxDirEntries - n]

Finish(s, mode, arg) ==
  LET n == Len(s.temp)
      head == s.temp[1]
  IN  IF n = 0 THEN s
      ELSE CASE mode = "NEXT_PAGE" -> CopyTemp(s, ShiftUp(s.sort, n), MaxDirEntries - n)
             [] mode = "PREV_PAGE" ->
                  [CopyTemp([s EXCEPT !.temp = Reverse(@)], ShiftDown(s.sort, n), 0)
                     EXCEPT !.n = IF @ + n > MaxDirEntries THEN MaxDirEntries ELSE @ + n]
             [] mode = "FIND" ->
                  IF /\ Letter(head) = arg.letter
                     /\ arg.seek = "dir" => IsDir(head)
                     /\ arg.seek = "next" => IsDir(head) = IsDir(s.table[s.sort[s.sel]])
                  THEN [CopyTemp(s, s.sort, 0) EXCEPT !.n = n, !.sel = 0]
                  ELSE s

Memory == [table |-> DirEntry, sort |-> sort_table, n |-> nDirEntries, sel |-> iSelectedEntry,
           found |-> 0, temp |-> <<>>, lfn |-> NoLFN]

Becomes(s) ==
  /\ DirEntry' = s.table /\ sort_table' = s.sort
  /\ nDirEntries' = s.n /\ iSelectedEntry' = s.sel
  /\ UNCHANGED <<directory, listing>>

(* A program that has just started has no window. *)
ScanRestart ==
  /\ DirEntry' = [p \in Places |-> NoRow]
  /\ sort_table' = [p \in Places |-> 0]
  /\ nDirEntries' = 0 /\ iSelectedEntry' = 0
  /\ UNCHANGED <<directory, listing>>

Select(n) ==
  iSelectedEntry' = n /\ UNCHANGED <<directory, listing, DirEntry, sort_table, nDirEntries>>

-----------------------------------------------------------------------------
(* One call of ScanDirectory for each mode. *)

ScanWith(s, mode, arg) == Becomes(Finish(Scanned(s, mode, arg), mode, arg))

ScanInit ==
  ScanWith([Memory EXCEPT !.n = 0, !.sel = 0, !.sort = [p \in Places |-> p]], "INIT", 0)

AtLast  == iSelectedEntry + 1 >= nDirEntries
Full    == nDirEntries = MaxDirEntries
NotEmpty == nDirEntries # 0

ScanNext ==
  /\ NotEmpty
  /\ \/ ~AtLast /\ Select(iSelectedEntry + 1)
     \/ AtLast /\ Full /\ ScanWith(Memory, "NEXT", 0)

ScanPrev ==
  /\ NotEmpty
  /\ \/ iSelectedEntry > 0 /\ Select(iSelectedEntry - 1)
     \/ iSelectedEntry = 0 /\ ScanWith(Memory, "PREV", 0)

ScanNextPage ==
  /\ NotEmpty
  /\ \/ ~AtLast /\ Select(nDirEntries - 1)
     \/ AtLast /\ Full /\ ScanWith(Memory, "NEXT_PAGE", 0)

ScanPrevPage ==
  /\ NotEmpty
  /\ \/ iSelectedEntry > 0 /\ Select(0)
     \/ iSelectedEntry = 0 /\ ScanWith(Memory, "PREV_PAGE", 0)

ScanFind ==
  /\ NotEmpty
  /\ \E c \in Modes, seek \in {"next", "dir", "file"} :
       ScanWith(Memory, "FIND", [letter |-> c, seek |-> seek])

(* iPreviousDirectory is the directory a program comes back from. *)
ScanInitFirst ==
  /\ NotEmpty
  /\ \E c \in Subdirectories : ScanWith(Memory, "INIT_FIRST", c)

(* "first entry is in the buffer": only SCAN_INIT_FIRST leaves it at the     *)
(* first place of the table as well.                                        *)
ScanInitNext ==
  /\ nDirEntries = 1 /\ sort_table = [p \in Places |-> p]
  /\ ScanWith(Memory, "INIT_NEXT", 0)

ScanDirectory ==
  \/ ScanInit \/ ScanNext \/ ScanPrev \/ ScanNextPage \/ ScanPrevPage
  \/ ScanFind \/ ScanInitFirst \/ ScanInitNext

-----------------------------------------------------------------------------
shown == [i \in 1 .. nDirEntries |-> ListRow(DirEntry[sort_table[i - 1]])]

L == INSTANCE Listing WITH
  Height <- MaxDirEntries, Letters <- Modes, Seeks <- {"next", "dir", "file"},
  Clusters <- Subdirectories,
  rows <- listing, shown <- shown, sel <- iSelectedEntry

(* Whatever calls come in whatever order, the rows are a window on the      *)
(* sorted directory and move as a browser expects: no row is skipped or     *)
(* shown twice, although each call sees the entries in the order of the     *)
(* disk and keeps only a few of them.                                       *)
ImplementsListing == L!Listing

=============================================================================
