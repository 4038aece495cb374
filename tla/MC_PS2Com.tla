----------------------------- MODULE MC_PS2Com -----------------------------
(* Instance for TLC: frames of two data bits and two different bytes, one   *)
(* of each parity, so that a lost, repeated or shifted bit shows.            *)
EXTENDS PS2Com

MCBytes == {<<1, 0>>, <<1, 1>>}

=============================================================================
