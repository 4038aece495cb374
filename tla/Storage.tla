------------------------------ MODULE Storage ------------------------------
(***************************************************************************)
(* The storage stack from the card up: a program initialises the card and  *)
(* looks for a volume (SDCard); when it has mounted one, it browses a      *)
(* directory (DirScan), or opens, creates and updates files (FatWrite).    *)
(* The next program, loaded by the one before or started by a reset,       *)
(* begins again with empty memory, the card as it was left and the volume  *)
(* as it was written.                                                      *)
(*                                                                         *)
(* A high-capacity card that is taken for an old one, because the last     *)
(* answer of its initialisation was lost, is not followed beyond mounting: *)
(* SDCard says when that happens.                                          *)
(***************************************************************************)
EXTENDS SDCard, DirScan, FatWrite

vars == <<cardVars, scanVars, fatVars>>

StorageInit == CardInit /\ ScanInitial /\ FatInit

(* What FindDrive leaves in memory is there from the start: nothing reads   *)
(* it before.                                                               *)
NewProgram == spi_init /\ ScanRestart /\ FatRestart

Mounting == (Driver \/ FindDrive) /\ UNCHANGED <<scanVars, fatVars>>

InUse == pc = "mounted" /\ RightlyAddressed /\ UNCHANGED cardVars

(* The directory that is browsed is not the one written to; sector_buffer   *)
(* serves both.                                                             *)
Browse ==
  /\ InUse /\ ScanDirectory
  /\ sector_buffer' = Boot
  /\ UNCHANGED <<volumeVars, fat_buffer, buffered_fat_index, file, misread, calls>>

Change == InUse /\ FatNext /\ UNCHANGED scanVars

StorageNext == NewProgram \/ Mounting \/ Browse \/ Change

(* The processor runs: a program that initialises the card goes on.         *)
StorageSpec == StorageInit /\ [][StorageNext]_vars /\ WF_vars(Mounting)

-----------------------------------------------------------------------------
(* The links of the chains and the entries of other files survive whatever  *)
(* the programs do, a restart after any write included (FatWrite).          *)
VolumeKept == [][VolumeStep]_vars

=============================================================================
