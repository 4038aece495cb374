----------------------------- MODULE MC_Storage -----------------------------
(* An instance of Storage for TLC.  What the program does with the card is   *)
(* told apart by a variable that never changes, so that the cases add up     *)
(* instead of multiplying: mounting with every card and lost answers;        *)
(* browsing directories in many orders on disk; and changing a volume.       *)
EXTENDS Storage, TLC

File(name, ext) == <<Slot("file", name, ext, 0)>>

(* The directory: three short names, one of another extension, two long     *)
(* names, a subdirectory, parts of a deleted file before its slot, parts    *)
(* that have lost the last of them, a hidden entry.                         *)
Long(name, a, b) ==
  <<Part(2, TRUE, b, name), Part(1, FALSE, a, name), Slot("file", name, "mod", 0)>>

MCBlocks ==
  {File(<<1, 1>>, "mod"),
   <<Unused, Part(1, FALSE, 9, <<2, 1>>), Slot("file", <<2, 1>>, "mod", 0)>>,
   <<Slot("hidden", <<2, 9>>, "mod", 0), Slot("dir", <<2, 5>>, "", 7)>>,
   Long(<<1, 2>>, 1, 9),
   File(<<3, 1>>, "txt") \o File(<<3, 2>>, "mod"),
   Long(<<2, 2>>, 2, 3)}

Orders == {f \in [1 .. 6 -> MCBlocks] : \A i, j \in 1 .. 6 : i # j => f[i] # f[j]}

(* Of the orders on disk, some. *)
MCDirectories ==
  {f[1] \o f[2] \o f[3] \o f[4] \o f[5] \o f[6] :
   f \in {f \in Orders : /\ f[6] = Long(<<1, 2>>, 1, 9)
                         /\ f[1] # Long(<<2, 2>>, 2, 3)
                         /\ f[2] # File(<<1, 1>>, "mod")
                         /\ f[3] # File(<<3, 1>>, "txt") \o File(<<3, 2>>, "mod")}}

(* Two files, of two clusters and of one; a free cluster at the end of the  *)
(* first sector of the FAT, two at the end of the second.                   *)
Chain(links) == [i \in Indices |-> links[i + 1]]

MCVolumes ==
  {[fat |-> [k \in FatSectors |-> IF k = 0 THEN Chain(<<EOC, EOC, 5, Free>>)
                                  ELSE Chain(<<EOC, EOC, Free, Free>>)],
    dir |-> [d \in Sectors |-> [s \in Slots |->
               IF d = 1 THEN Empty
               ELSE IF s = 0 THEN Entry("b", 4, 512) ELSE Entry("a", 2, 513)]]]}

VARIABLE job

Card(kind, partitioned) ==
  [kind |-> kind, state |-> "native", polls |-> 0, sized |-> FALSE, partitioned |-> partitioned]

OneDirectory == CHOOSE d \in Directories : TRUE

MCInit ==
  /\ StorageInit
  /\ \/ job = "mount" /\ directory = OneDirectory
     \/ job = "browse" /\ card = Card("HC", TRUE)
     \/ job = "change" /\ card = Card("V2", TRUE) /\ directory = OneDirectory

(* With the other jobs nothing is lost, and the card is ready at once. *)
Plain == card'.polls = 0 /\ lost' = 0

(* The actions of StorageNext, those that are no part of the job left out. *)
MCNext ==
  /\ UNCHANGED job
  /\ \/ NewProgram
     \/ Mounting /\ (job = "mount" \/ Plain)
     \/ job = "browse" /\ Browse
     \/ job = "change" /\ Change

MCSpec == MCInit /\ [][MCNext]_<<vars, job>> /\ WF_<<vars, job>>(Mounting /\ UNCHANGED job)
=============================================================================
