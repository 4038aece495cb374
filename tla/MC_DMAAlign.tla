---------------------------- MODULE MC_DMAAlign ----------------------------
(* One channel, whose host sets the length in a cycle after the address.     *)
EXTENDS DMACache

OneChannel == {0}
HalfBase   == {2}
OneLen     == {4}

Apart ==
  \E move \in BOOLEAN :
    /\ Sdram(move)
    /\ \E setaddr, setreqlen, req \in SUBSET Channels, a \in Bases, l \in Lens :
         setreqlen \cap setaddr = {} /\ Cycle(setaddr, setreqlen, req, a, l)

ApartSpec == Init /\ [][Apart]_vars
=============================================================================
