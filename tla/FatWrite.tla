------------------------------ MODULE FatWrite ------------------------------
(***************************************************************************)
(* The functions of fat.c that change a volume, FileCreate and UpdateEntry,*)
(* and FileOpen, which finds the entry that UpdateEntry writes; on a FAT16 *)
(* volume, whose root directory is linear.                                 *)
(*                                                                         *)
(* The driver may fail to read a sector: bad is the set of those of a      *)
(* call.  It may refuse a write, which sd_write_sector reports with 1; it  *)
(* reports 0 when the sector is written, and also when the card has        *)
(* dropped it.  The callers take 1 for success and 0 for failure, so       *)
(* FileCreate goes on to its next write only after a refused one, and at   *)
(* most one write of a call takes effect: refused is the number of writes  *)
(* refused before one is not, and written says what became of that one.    *)
(***************************************************************************)
EXTENDS Integers

CONSTANTS
  FatNumber,     \* copies of the FAT
  FatSize,       \* sectors of a copy
  Links,         \* links in a sector: 256
  DirSectors,    \* sectors of the root directory
  DirSlots,      \* entries in a sector: 16
  ClusterBytes,  \* bytes in a cluster
  Slack,         \* cluster_size - 1: sectors, which UpdateEntry adds to bytes
  Names, Sizes,
  Volumes,       \* bound: the volumes to start from
  MaxCalls       \* bound: calls

Free == 0        \* a free cluster
EOC  == 65535    \* the mark at the end of a chain

ASSUME FatWriteAssumption ==
  /\ FatNumber \in Nat \ {0} /\ FatSize \in Nat \ {0} /\ Links \in Nat \ {0, 1, 2}
  /\ DirSectors \in Nat \ {0} /\ DirSlots \in Nat \ {0}
  /\ ClusterBytes \in Nat \ {0} /\ Slack \in Nat /\ Sizes \subseteq Nat

VARIABLES
  fat,            \* the card: of each copy and sector, the links
  dir,            \* the card: of each sector of the directory, the entries
  fat_buffer, buffered_fat_index,
  sector_buffer,
  file,           \* a fileTYPE
  calls,          \* history: calls made, up to the bound
  misread         \* history: a directory sector that could not be read was used

volumeVars == <<fat, dir>>
bufferVars == <<fat_buffer, buffered_fat_index, sector_buffer, file, misread>>
fatVars    == <<volumeVars, bufferVars, calls>>

Copies  == 0 .. FatNumber - 1
FatSectors == 0 .. FatSize - 1
Indices == 0 .. Links - 1
Sectors == 0 .. DirSectors - 1
Slots   == 0 .. DirSlots - 1

Entry(name, start, size) == [name |-> name, start |-> start, size |-> size]
Empty == Entry("empty", 0, 0)     \* SLOT_EMPTY; a deleted entry has a name

NoEntry == <<-1, -1>>
NoFile  == [name |-> "empty", start |-> 0, size |-> 0, entry |-> NoEntry]

(* What entries hold, and that the volumes to start from are volumes.       *)
Texts   == Names \union {"empty", "boot"}
             \union {v.dir[d][s].name : v \in Volumes, d \in Sectors, s \in Slots}
Entries == [name : Texts, start : Nat, size : Nat]

ASSUME VolumesAssumption ==
  \A v \in Volumes : /\ v.fat \in [FatSectors -> [Indices -> Nat]]
                    /\ v.dir \in [Sectors -> [Slots -> Entries]]

(* FindDrive forgets the buffered FAT sector and leaves the boot sector in  *)
(* sector_buffer: neither an entry nor an empty slot for what follows.      *)
Boot  == [s \in Slots |-> Entry("boot", 0, 0)]
NoFat == [i \in Indices |-> Free]

FatInit ==
  /\ \E v \in Volumes : fat = [c \in Copies |-> v.fat] /\ dir = v.dir
  /\ fat_buffer = NoFat /\ buffered_fat_index = -1
  /\ sector_buffer = Boot /\ file = NoFile /\ misread = FALSE /\ calls = 0

FatRestart ==
  /\ fat_buffer' = NoFat /\ buffered_fat_index' = -1
  /\ sector_buffer' = Boot /\ file' = NoFile /\ misread' = FALSE
  /\ UNCHANGED <<volumeVars, calls>>

-----------------------------------------------------------------------------
(* The directory is searched sector by sector; a sector that cannot be read *)
(* leaves the one before in the buffer, and nobody looks.                   *)

DirSector(d) == <<"dir", d>>
FatSector(k) == <<"fat", k>>

Searched(bad) ==
  LET buffer[d \in -1 .. DirSectors - 1] ==
        IF d = -1 THEN sector_buffer
        ELSE IF DirSector(d) \in bad THEN buffer[d - 1]
        ELSE dir[d]
  IN  buffer

(* The first place of a buffer that satisfies a test, given as the set of   *)
(* those that do.                                                           *)
FirstPlace(places, p) ==
  /\ p \in places
  /\ \A q \in places : p[1] < q[1] \/ (p[1] = q[1] /\ p[2] <= q[2])

Misreads(bad, d) == misread' = (misread \/ \E e \in 0 .. d : DirSector(e) \in bad)

FileOpen(name, bad) ==
  LET buffer == Searched(bad)
      places == {p \in Sectors \X Slots : buffer[p[1]][p[2]].name = name}
  IN  /\ \/ /\ places = {}
            /\ file' = NoFile /\ sector_buffer' = buffer[DirSectors - 1]
            /\ Misreads(bad, DirSectors - 1)
         \/ \E p \in places :
              LET e == buffer[p[1]][p[2]]
              IN  /\ FirstPlace(places, p)
                  /\ file' = [name |-> name, start |-> e.start, size |-> e.size, entry |-> p]
                  /\ sector_buffer' = buffer[p[1]]
                  /\ Misreads(bad, p[1])
      /\ UNCHANGED <<volumeVars, fat_buffer, buffered_fat_index>>

-----------------------------------------------------------------------------
(* The search for a free cluster goes through the FAT from its start; the   *)
(* first two links are reserved.                                            *)

FatCache == [index |-> buffered_fat_index, links |-> fat_buffer]

(* A definition named X_Y is X with a plausible bug, for the check that the *)
(* properties can fail; nothing uses it.                                    *)
Load_Early(cache, k, bad) ==
  IF k = cache.index THEN [ok |-> TRUE, cache |-> cache]
  ELSE IF FatSector(k) \in bad THEN [ok |-> FALSE, cache |-> [cache EXCEPT !.index = k]]
  ELSE [ok |-> TRUE, cache |-> [index |-> k, links |-> fat[0][k]]]

Load(cache, k, bad) ==
  IF k = cache.index THEN [ok |-> TRUE, cache |-> cache]
  ELSE IF FatSector(k) \in bad THEN [ok |-> FALSE, cache |-> cache]
  ELSE [ok |-> TRUE, cache |-> [index |-> k, links |-> fat[0][k]]]

FreeIn(cache) == {i \in Indices : cache.links[i] = Free /\ (cache.index = 0 => i >= 2)}

FindFree(bad) ==
  LET walk[k \in -1 .. FatSize - 1] ==
        IF k = -1 THEN [ok |-> TRUE, cache |-> FatCache, found |-> FALSE]
        ELSE IF walk[k - 1].found \/ ~walk[k - 1].ok THEN walk[k - 1]
        ELSE LET l == Load(walk[k - 1].cache, k, bad)
             IN  [ok |-> l.ok, cache |-> l.cache, found |-> l.ok /\ FreeIn(l.cache) # {}]
  IN  walk[FatSize - 1]

(* The writes of FileCreate: every copy of the FAT, then the directory.     *)
Write(n, written, k, links, d, entries) ==
  /\ fat' = IF n \in Copies /\ written THEN [fat EXCEPT ![n][k] = links] ELSE fat
  /\ dir' = IF n = FatNumber /\ written THEN [dir EXCEPT ![d] = entries] ELSE dir

(* A free cluster is marked in the buffer, and written; then the entry. *)
Allocate(name, size, p, buffer, cache, refused, written) ==
  \E i \in FreeIn(cache) :
    LET links   == [cache.links EXCEPT ![i] = EOC]
        cluster == cache.index * Links + i
        entries == [buffer EXCEPT ![p[2]] = Entry(name, cluster, size)]
        wanted  == [name |-> name, start |-> cluster, size |-> size, entry |-> p]
    IN  /\ \A j \in FreeIn(cache) : i <= j
        /\ fat_buffer' = links /\ buffered_fat_index' = cache.index
        /\ sector_buffer' = IF refused >= FatNumber THEN entries ELSE buffer
        /\ file' = IF refused > FatNumber THEN wanted ELSE [NoFile EXCEPT !.name = name, !.size = size]
        /\ Write(refused, written, cache.index, links, p[1], entries)

FileCreate(name, size, bad, refused, written) ==
  LET buffer == Searched(bad)
      places == {p \in Sectors \X Slots : buffer[p[1]][p[2]] = Empty}
      found  == FindFree(bad)
      given  == [NoFile EXCEPT !.name = name, !.size = size]
  IN  \/ /\ places = {}
         /\ file' = given /\ sector_buffer' = buffer[DirSectors - 1]
         /\ Misreads(bad, DirSectors - 1)
         /\ UNCHANGED <<volumeVars, fat_buffer, buffered_fat_index>>
      \/ \E p \in places :
           /\ FirstPlace(places, p)
           /\ Misreads(bad, p[1])
           /\ IF found.found
              THEN Allocate(name, size, p, buffer[p[1]], found.cache, refused, written)
              ELSE /\ fat_buffer' = found.cache.links
                   /\ buffered_fat_index' = found.cache.index
                   /\ file' = given /\ sector_buffer' = buffer[p[1]]
                   /\ UNCHANGED volumeVars

-----------------------------------------------------------------------------
(* "changing of allocated cluster number is not supported": the test counts *)
(* clusters, too few of them, since it adds sectors to bytes.               *)
ClusterCount(size) == (size + Slack) \div ClusterBytes

(* The entry is changed in the buffer before the test. *)
UpdateEntry(size, bad, written) ==
  LET d == file.entry[1]
      i == file.entry[2]
      named == [dir[d] EXCEPT ![i].name = file.name]
      sized == [named EXCEPT ![i].size = size]
  IN  /\ file.entry # NoEntry
      /\ file' = [file EXCEPT !.size = size]
      /\ IF DirSector(d) \in bad THEN UNCHANGED <<dir, sector_buffer>>
         ELSE IF ClusterCount(dir[d][i].size) # ClusterCount(size)
         THEN sector_buffer' = named /\ UNCHANGED dir
         ELSE /\ sector_buffer' = sized
              /\ dir' = IF written THEN [dir EXCEPT ![d] = sized] ELSE dir
      /\ UNCHANGED <<fat, fat_buffer, buffered_fat_index, misread>>

-----------------------------------------------------------------------------
(* At most one sector is bad in a call. *)
BadSets == {{}} \union {{DirSector(d)} : d \in Sectors} \union {{FatSector(k)} : k \in FatSectors}

FatNext ==
  /\ calls < MaxCalls /\ calls' = calls + 1
  /\ \E bad \in BadSets, written \in BOOLEAN :
       \/ \E name \in Names : FileOpen(name, bad)
       \/ \E name \in Names, size \in Sizes, refused \in 0 .. FatNumber + 1 :
            FileCreate(name, size, bad, refused, written)
       \/ \E size \in Sizes : UpdateEntry(size, bad, written)

-----------------------------------------------------------------------------
(* Properties. *)

(* Only free clusters are taken: whatever reads and writes fail, in         *)
(* whatever call, and whatever the one FAT buffer still holds from before,  *)
(* no link of a chain changes.  (In a copy of the FAT the mark of a new     *)
(* file may go again: a buffer with marks that were not written is          *)
(* forgotten.)  A directory entry changes only if it was empty, or is that  *)
(* of the file opened last and keeps its first cluster, unless a directory  *)
(* sector that could not be read was used in its place.                     *)
LinksKept ==
  /\ \A k \in FatSectors, i \in Indices :
       fat'[0][k][i] # fat[0][k][i] => fat[0][k][i] = Free /\ fat'[0][k][i] = EOC
  /\ \A c \in Copies, k \in FatSectors, i \in Indices :
       fat'[c][k][i] # fat[c][k][i] => {fat'[c][k][i], fat[c][k][i]} = {Free, EOC}

EntriesKept ==
  \A d \in Sectors, s \in Slots :
    dir'[d][s] # dir[d][s] =>
      \/ dir[d][s] = Empty
      \/ file.entry = <<d, s>> /\ dir'[d][s].start = dir[d][s].start

VolumeStep == LinksKept /\ (misread' \/ EntriesKept)

=============================================================================
