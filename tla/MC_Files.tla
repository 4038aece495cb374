------------------------------ MODULE MC_Files ------------------------------
(* Instances for TLC: a file of three clusters that lie in two sectors of    *)
(* the FAT, not in order, and one of one cluster.                            *)
EXTENDS Files, TLC

MCFat       == 2 :> 5 @@ 5 :> 3 @@ 3 :> 15 @@ 4 :> 15
MCDirectory == "long" :> 2 @@ "short" :> 4
(* Each ends inside its last sector. *)
MCFileSize  == [c \in DOMAIN MCFat |-> IF c = 2 THEN 17 ELSE IF c = 4 THEN 4 ELSE 0]

NoFailures  == {{}}
(* A sector of the FAT, a sector of data, or both cannot be read. *)
SomeFail    == {{}, {<<0, 2>>}, {<<5, 0>>}, {<<0, 1>>, <<2, 1>>}}

=============================================================================
