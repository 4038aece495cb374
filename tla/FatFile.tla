------------------------------ MODULE FatFile ------------------------------
(***************************************************************************)
(* The functions of fat.c that move through an open file: FileSeek,        *)
(* FileNextSector and FileRead, over a FAT whose sectors are read one at a *)
(* time into one buffer that all files share.                              *)
(*                                                                         *)
(* A call may find that some sectors of the card cannot be read: bad is    *)
(* the set of them.  A sector of data is the pair of its cluster and its   *)
(* place in the cluster; sector k of the FAT is the pair of 0 and k.       *)
(***************************************************************************)
EXTENDS Integers

CONSTANTS
  Fat,          \* the link of every cluster
  EOC,          \* the mark at the end of a chain, 0xFFFF or 0x0FFFFFFF
  ClusterSize,  \* cluster_size, in sectors
  Links         \* links in a sector of the FAT: 256, or 128 for FAT32

Clusters == DOMAIN Fat

ASSUME FatAssumption ==
  /\ Clusters \subseteq Nat \ {0, 1} /\ EOC \in Nat \ Clusters
  /\ Fat \in [Clusters -> Clusters \union {EOC}]
  /\ ClusterSize \in Nat \ {0} /\ Links \in Nat \ {0}

FatSector(c) == c \div Links

(* What the FAT holds; past its end lies whatever is on the card, for which *)
(* the mark stands.                                                         *)
LinkOf(c) == IF c \in Clusters THEN Fat[c] ELSE EOC

(* The cache: buffered_fat_index, and the sector fat_buffer really holds.   *)
EmptyCache == [index |-> -1, sector |-> -1]

(* A definition named X_Y is X with a plausible bug, for the check that the *)
(* properties can fail; nothing uses it.                                    *)
Load_Early(cache, k, bad) ==
  IF k = cache.index THEN [cache |-> cache, ok |-> TRUE]
  ELSE IF <<0, k>> \in bad THEN [cache |-> [cache EXCEPT !.index = k], ok |-> FALSE]
  ELSE [cache |-> [index |-> k, sector |-> k], ok |-> TRUE]

(* "read sector of FAT if not already in the buffer" *)
Load(cache, k, bad) ==
  IF k = cache.index THEN [cache |-> cache, ok |-> TRUE]
  ELSE IF <<0, k>> \in bad THEN [cache |-> cache, ok |-> FALSE]
  ELSE [cache |-> [index |-> k, sector |-> k], ok |-> TRUE]

LinkIn(cache, c) == LinkOf((cache.sector * Links) + (c % Links))

(* Each function returns the file, the cache, and whether it reports        *)
(* success.                                                                 *)
Result(file, cache, ok) == [file |-> file, cache |-> cache, ok |-> ok]

FileNextSector(file, cache, bad) ==
  LET f == [file EXCEPT !.sector = @ + 1]
      l == Load(cache, FatSector(file.cluster), bad)
  IN  IF f.sector % ClusterSize # 0 THEN Result(f, cache, TRUE)
      ELSE IF ~l.ok THEN Result(f, l.cache, FALSE)
      ELSE Result([f EXCEPT !.cluster = LinkIn(l.cache, file.cluster)], l.cache, TRUE)

(* FileSeek first goes back, to the start of the file or in the cluster...  *)
SeekBack(file, offset) ==
  IF file.sector <= offset THEN file
  ELSE IF file.sector \div ClusterSize = offset \div ClusterSize
  THEN [file EXCEPT !.sector = offset]
  ELSE [file EXCEPT !.cluster = file.start_cluster, !.sector = 0]

(* ...then forward by clusters, and fails at the end of the chain with the  *)
(* mark for a cluster...                                                    *)
NextCluster(r, bad) ==
  LET c == r.file.cluster
      l == Load(r.cache, FatSector(c), bad)
      n == LinkIn(l.cache, c)
  IN  IF ~l.ok THEN Result(r.file, l.cache, FALSE)
      ELSE IF n = EOC THEN Result([r.file EXCEPT !.cluster = n], l.cache, FALSE)
      ELSE Result([r.file EXCEPT !.cluster = n, !.sector = @ + ClusterSize], l.cache, TRUE)

FileSeek(file, cache, offset, bad) ==
  LET f == SeekBack(file, offset)
      distance == (offset \div ClusterSize) - (f.sector \div ClusterSize)
      walk[n \in 0 .. distance] ==
        IF n = 0 THEN Result(f, cache, TRUE)
        ELSE IF walk[n - 1].ok THEN NextCluster(walk[n - 1], bad)
        ELSE walk[n - 1]
      r == walk[distance]
  IN  IF r.ok THEN Result([r.file EXCEPT !.sector = offset], r.cache, TRUE) ELSE r

(* The sector of the card that FileRead reads. *)
SectorOf(file) == <<file.cluster, file.sector % ClusterSize>>

(* The cluster that holds the k-th cluster of a file. *)
ClusterAt(start, k) ==
  LET chain[n \in 0 .. k] == IF n = 0 THEN start ELSE LinkOf(chain[n - 1])
  IN  chain[k]

=============================================================================
