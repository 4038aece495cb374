------------------------------- MODULE Files -------------------------------
(***************************************************************************)
(* The file system calls of syscalls.c over the byte-wise files of         *)
(* rafile.c: a table of files, each allocated with malloc when it is       *)
(* opened, each with a buffer for the rest of the sector it has last read. *)
(* All files share the FAT buffer, and any sector of the card may be       *)
(* unreadable in any call.                                                 *)
(***************************************************************************)
EXTENDS FatFile, Sequences, FiniteSets

CONSTANTS
  SectorSize,   \* 512
  MAX_FILES,    \* slots of the table; descriptor fd uses slot fd - 2
  Objects,      \* bound: the RAFiles that malloc has memory for
  Directory,    \* the start cluster of each name in the root directory
  FileSize,     \* the bytes of the file that starts in a cluster
  Counts,       \* bound: the numbers of bytes the program reads
  Offsets,      \* bound: the offsets it seeks to
  MaxPtr,       \* bound: how far it goes in a file
  Failures      \* bound: the sets of sectors that may be bad in a call

Names == DOMAIN Directory
NULL  == "null"

(* A file of so many bytes lies within its chain. *)
InChain(start, size) ==
  \A k \in 0 .. size : k * ClusterSize * SectorSize < size => ClusterAt(start, k) \in Clusters

ASSUME FilesAssumption ==
  /\ SectorSize \in Nat \ {0} /\ MAX_FILES \in Nat /\ MaxPtr \in Nat
  /\ NULL \notin Objects
  /\ Directory \in [Names -> Clusters]
  /\ FileSize \in [Clusters -> Nat]
  /\ \A name \in Names : InChain(Directory[name], FileSize[Directory[name]])
  /\ Counts \subseteq Nat /\ Offsets \subseteq Nat

VARIABLES
  Table,        \* Files[]
  heap,         \* the objects malloc has given out and not got back
  ra,           \* the RAFile in each object
  cache,        \* fat_buffer and buffered_fat_index
  live,         \* history: the slots of descriptors the program may use
  strayed,      \* history: slots outside the conditions of the properties
  last          \* history: did the last read report success, and was it right

vars == <<Table, heap, ra, cache, live, strayed, last>>

Slots == 1 .. MAX_FILES - 1
None  == <<-1, 0>>     \* memory that no sector has been read into

NoFile == [start_cluster |-> 0, cluster |-> 0, sector |-> 0]
NewRA  == [file |-> NoFile, ptr |-> 0, buffer |-> None]
NoRead == [slot |-> 0, ok |-> FALSE, right |-> FALSE]

Init ==
  /\ Table = [s \in Slots |-> NULL]
  /\ heap = {} /\ ra = [o \in Objects |-> NewRA]
  /\ cache = EmptyCache
  /\ live = {} /\ strayed = {} /\ last = NoRead

-----------------------------------------------------------------------------
(* RARead, in its three parts.  They pass on the file, the cache, the       *)
(* result, the bytes copied so far, and whether FileNextSector has failed,  *)
(* which RARead does not look at.  A byte is the sector it came from and    *)
(* its place in it.                                                         *)

Bytes(sector, from, to) == [i \in 1 .. to - from |-> <<sector, from + i - 1>>]

(* The rest of the buffered sector: "Bytes blockoffset to 512 will be       *)
(* drained first", as the code does it.                                     *)
DrainLength(n) == IF n > SectorSize THEN SectorSize ELSE n

Drain(f, n) ==
  LET blockoffset == f.ptr % SectorSize
      l == DrainLength(n)
  IN  IF blockoffset = 0 THEN [ra |-> f, out |-> <<>>, bytes |-> n]
      ELSE [ra |-> [f EXCEPT !.ptr = @ + l - blockoffset],
            out |-> IF l > blockoffset THEN Bytes(f.buffer, blockoffset, l) ELSE <<>>,
            bytes |-> n - (l - blockoffset)]

(* A definition named X_Y is X with a plausible bug, for the check that the *)
(* properties can fail; nothing uses it.                                    *)
ReadSector_Sticky(r, n, toBuffer, bad) ==
  LET sector == SectorOf(r.ra.file)
      good   == sector \notin bad
      next   == FileNextSector(r.ra.file, r.cache, bad)
      buffer == IF toBuffer /\ good /\ r.ra.buffer = None THEN sector ELSE r.ra.buffer
      data   == IF toBuffer THEN buffer ELSE IF good THEN sector ELSE None
  IN  [ra |-> [file |-> next.file, ptr |-> r.ra.ptr + n, buffer |-> buffer],
       cache |-> next.cache,
       ok |-> r.ok /\ good,
       out |-> r.out \o Bytes(data, 0, n),
       slipped |-> r.slipped \/ ~next.ok]

(* One FileRead and FileNextSector; into is where the sector goes. *)
ReadSector(r, n, toBuffer, bad) ==
  LET sector == SectorOf(r.ra.file)
      good   == sector \notin bad
      next   == FileNextSector(r.ra.file, r.cache, bad)
      buffer == IF toBuffer /\ good THEN sector ELSE r.ra.buffer
      data   == IF toBuffer THEN buffer ELSE IF good THEN sector ELSE None
  IN  [ra |-> [file |-> next.file, ptr |-> r.ra.ptr + n, buffer |-> buffer],
       cache |-> next.cache,
       ok |-> r.ok /\ good,
       out |-> r.out \o Bytes(data, 0, n),
       slipped |-> r.slipped \/ ~next.ok]

(* Whole sectors go straight to the caller; a failed one ends the call when *)
(* the next is due.                                                         *)
RARead(f, n, bad) ==
  LET d == Drain(f, n)
      start == [ra |-> d.ra, cache |-> cache, ok |-> TRUE, out |-> d.out, slipped |-> FALSE]
      whole == d.bytes \div SectorSize
      rest  == d.bytes % SectorSize
      loop[i \in 0 .. whole] ==
        IF i = 0 THEN start
        ELSE IF loop[i - 1].ok THEN ReadSector(loop[i - 1], SectorSize, FALSE, bad)
        ELSE loop[i - 1]
      early == \E i \in 1 .. whole - 1 : ~loop[i].ok
      r == loop[whole]
  IN  IF early \/ rest = 0 THEN r ELSE ReadSector(r, rest, TRUE, bad)

(* RASeek hands FileSeek an address in bytes. *)
RASeek(f, offset, bad) ==
  LET blockoffset == offset % SectorSize
      r == FileSeek(f.file, cache, offset - blockoffset, bad)
      good == SectorOf(r.file) \notin bad
      next == FileNextSector(r.file, r.cache, bad)
  IN  IF r.ok /\ blockoffset # 0
      THEN [ra |-> [file |-> next.file, ptr |-> offset,
                    buffer |-> IF good THEN SectorOf(r.file) ELSE f.buffer],
            cache |-> next.cache, ok |-> good, slipped |-> ~next.ok]
      ELSE [ra |-> [f EXCEPT !.file = r.file, !.ptr = offset],
            cache |-> r.cache, ok |-> r.ok, slipped |-> FALSE]

-----------------------------------------------------------------------------
(* The system calls.  What becomes of a file that has strayed is not        *)
(* followed further than to its close.                                      *)

FreeSlots == {s \in Slots : Table[s] = NULL}

(* open: the first free slot, if malloc has memory, whether or not the file *)
(* is then found.  (A directory that cannot be read is one without the      *)
(* name.)                                                                   *)
open_Found_Freed(s, o, name) ==
  /\ ra' = [ra EXCEPT ![o] = [NewRA EXCEPT !.file.start_cluster = Directory[name],
                                           !.file.cluster = Directory[name]]]
  /\ live' = live \union {s}
  /\ UNCHANGED heap

open_Found(s, o, name) ==
  /\ ra' = [ra EXCEPT ![o] = [NewRA EXCEPT !.file.start_cluster = Directory[name],
                                           !.file.cluster = Directory[name]]]
  /\ heap' = heap \union {o}
  /\ live' = live \union {s}

open_Missing(o) ==
  /\ UNCHANGED ra
  /\ UNCHANGED <<heap, live>>      \* malloc and free

open(name) ==
  \E s \in FreeSlots, o \in Objects \ heap :
    /\ \A t \in FreeSlots : s <= t
    /\ Table' = [Table EXCEPT ![s] = o]
    /\ open_Found(s, o, name) \/ open_Missing(o)
    /\ UNCHANGED <<cache, strayed, last>>

(* close frees the file and leaves the slot as it is. *)
close(s) ==
  /\ s \in live
  /\ heap' = heap \ {Table[s]}
  /\ ra' = [ra EXCEPT ![Table[s]] = NewRA]     \* its memory is anybody's
  /\ live' = live \ {s}
  /\ UNCHANGED <<Table, cache, strayed, last>>

(* The sector of the card and the byte in it that hold byte p of a file.    *)
ByteAt(start, p) ==
  LET k == p \div SectorSize
  IN  <<<<ClusterAt(start, k \div ClusterSize), k % ClusterSize>>, p % SectorSize>>

(* What a read of n bytes should copy: n bytes, and those of them that the  *)
(* file has.  Neither RARead nor read looks at the size of the file; what   *)
(* they copy past its end, reporting success, is nobody's.                  *)
Copied(out, f, n) ==
  /\ Len(out) = n
  /\ \A i \in 1 .. n : f.ptr + i <= FileSize[f.file.start_cluster] =>
       out[i] = ByteAt(f.file.start_cluster, f.ptr + i - 1)

(* A read that begins in a sector and asks less than a sector. *)
Short(f, n) == f.ptr % SectorSize # 0 /\ n < SectorSize

read(s, n, bad) ==
  LET f == ra[Table[s]]
      r == RARead(f, n, bad)
  IN  /\ s \in live \ strayed /\ f.ptr + n <= MaxPtr
      /\ ra' = [ra EXCEPT ![Table[s]] = r.ra]
      /\ cache' = r.cache
      /\ last' = [slot |-> s, ok |-> r.ok, right |-> Copied(r.out, f, n)]
      /\ strayed' = IF r.ok /\ ~r.slipped /\ ~Short(f, n)
                    THEN strayed ELSE strayed \union {s}
      /\ UNCHANGED <<Table, heap, live>>

(* lseek with SEEK_SET or SEEK_CUR: the result of RASeek is not looked at.  *)
lseek(s, offset, bad) ==
  LET f == ra[Table[s]]
      r == RASeek(f, offset, bad)
  IN  /\ s \in live \ strayed /\ offset <= MaxPtr
      /\ ra' = [ra EXCEPT ![Table[s]] = r.ra]
      /\ cache' = r.cache
      /\ last' = NoRead
      /\ strayed' = IF r.ok /\ ~r.slipped /\ offset < SectorSize
                    THEN strayed ELSE strayed \union {s}
      /\ UNCHANGED <<Table, heap, live>>

Next ==
  \/ \E name \in Names : open(name)
  \/ \E s \in Slots : close(s)
  \/ \E s \in Slots, n \in Counts, bad \in Failures : read(s, n, bad)
  \/ \E s \in Slots, o \in Offsets, bad \in Failures :
       \/ lseek(s, o, bad)
       \/ s \in live /\ lseek(s, o + ra[Table[s]].ptr, bad)

Spec == Init /\ [][Next]_vars

-----------------------------------------------------------------------------
(* Properties. *)

TypeOK ==
  /\ Table \in [Slots -> Objects \union {NULL}]
  /\ heap \subseteq Objects
  /\ \A o \in Objects :
       /\ ra[o].ptr \in 0 .. MaxPtr
       /\ ra[o].file \in [start_cluster : Clusters \union {0},
                          cluster : Clusters \union {0, EOC}, sector : Nat]
  /\ cache.index \in Nat \union {-1} /\ cache.sector \in Nat \union {-1}
  /\ live \subseteq Slots /\ strayed \subseteq Slots

(* A descriptor in use has its file: no two share the memory of one, and    *)
(* none has been freed, although slots keep pointers to freed memory.       *)
DescriptorsDistinct ==
  /\ \A s \in live : Table[s] \in heap
  /\ \A s, t \in live : s # t => Table[s] # Table[t]

(* The table of descriptors is right, and no file in it leaves its chain.   *)
TableRight == TypeOK /\ DescriptorsDistinct

(* The FAT sector in the buffer is the one its index says, although reads   *)
(* of the FAT fail in the middle of a seek.                                 *)
CacheRight == cache.index = cache.sector

(* The cursor and the buffer of a file agree with its position, as far as   *)
(* the file goes: the cluster is the one of the sector, the sector the next *)
(* one to read, and the buffer holds the sector that the position is in the *)
(* middle of.  Several files move at once, over one FAT buffer, and a file  *)
(* comes back from past its end.                                            *)
CursorRight ==
  \A s \in live \ strayed :
    LET f == ra[Table[s]]
        sectors == (f.ptr + SectorSize - 1) \div SectorSize
    IN  f.ptr <= FileSize[f.file.start_cluster] =>
          /\ f.file.sector = sectors
          /\ f.file.cluster = ClusterAt(f.file.start_cluster, sectors \div ClusterSize)
          /\ f.ptr % SectorSize # 0 =>
               f.buffer = ByteAt(f.file.start_cluster, f.ptr)[1]

(* Where a file stands, and what it stands on.                              *)
PositionRight == CacheRight /\ CursorRight

(* A read reports success and has copied as many bytes as it was asked for, *)
(* and those of them that lie in the file are the bytes at its position, if *)
(* the file has not strayed.  What is past the end of the file is not told  *)
(* from it by the code, and the property says nothing of it.                *)
ReadsRight == last.slot \in live \ strayed => last.ok /\ last.right

(* The same of every read that has succeeded. *)
Drained == last.ok => last.right

=============================================================================
