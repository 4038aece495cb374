--------------------------- MODULE MC_DMAPriority ---------------------------
(* Two channels, each with address and length set at once: the host of one   *)
(* of them, the first or the second, loads it again and again, at any time   *)
(* and without end, the host of the other loads it once.                     *)
EXTENDS DMACache

TwoChannels == {0, 1}
OneBase     == {0}
OneLen      == {4}

VARIABLES
  again,   \* the channel that is loaded again and again
  clk      \* changes in every cycle, so that a cycle in which nothing else
           \* happens is a step too: fairness makes the clock run and no
           \* host do anything

MCInit == Init /\ again \in TwoChannels /\ clk = 0

MCStep(move) ==
  /\ Sdram(move)
  /\ \E setaddr, req \in SUBSET TwoChannels :
       /\ setaddr \subseteq {again} \union (TwoChannels \ loaded)
       /\ \A c \in setaddr : Busy(c) => Receiving /\ LastWord
       /\ Cycle(setaddr, setaddr, req, 0, 4)
  /\ clk' = 1 - clk
  /\ UNCHANGED again

MCNext == \E move \in BOOLEAN : MCStep(move)

MCSpec == MCInit /\ [][MCNext]_<<vars, again, clk>> /\ WF_<<vars, again, clk>>(MCStep(TRUE))
=============================================================================
