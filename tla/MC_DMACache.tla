---------------------------- MODULE MC_DMACache ----------------------------
(* Instances of DMACache for TLC.  Three kinds of load are explored in one   *)
(* run, told apart by a variable that never changes: one channel that is     *)
(* loaded again and again, with addresses at and within a burst, together    *)
(* with a length or apart from it; the same with lengths of zero and below a *)
(* burst, and an address on half a burst; and two channels with three bursts *)
(* each, which share the burst machine and the RAM ports while their FIFOs   *)
(* wrap.                                                                     *)
EXTENDS DMACache

TwoChannels == {0, 1}
AnyBase     == {0, 2, 4, 5}  \* burst boundaries, half a burst, and an address
                             \* the test sees
AnyLen      == {0, 3, 8, 12}

VARIABLES
  load,
  left      \* bound: the cycles in which a host still sets something

Alone  == [channels |-> {0}, bases |-> {0, 5}, lens |-> {8}, joint |-> {TRUE, FALSE}]
Half   == [Alone EXCEPT !.bases = {2, 5}, !.lens = {0, 3, 8}]
Shared == [channels |-> {0, 1}, bases |-> {4}, lens |-> {12}, joint |-> {TRUE}]

MCInit ==
  /\ Init
  /\ \/ load = Alone /\ left = 3
     \/ load = Half /\ left = 2
     \/ load = Shared /\ left = 2

(* What matters of an address or a length where none is set: nothing. *)
Choice(set, values) == IF set = {} THEN {CHOOSE v \in values : TRUE} ELSE values

MCStep(move) ==
  /\ Sdram(move)
  /\ \E setaddr, req \in SUBSET load.channels, joint \in load.joint :
       \E setreqlen \in (IF joint THEN {setaddr} ELSE SUBSET load.channels) :
         /\ left' = IF setaddr \union setreqlen = {} THEN left ELSE left - 1
         /\ left' >= 0
         /\ load = Shared => setaddr \intersect loaded = {}
         /\ \E a \in Choice(setaddr, load.bases), l \in Choice(setreqlen, load.lens) :
              Cycle(setaddr, setreqlen, req, a, l)
  /\ UNCHANGED load

MCNext == \E move \in BOOLEAN : MCStep(move)

MCSpec == MCInit /\ [][MCNext]_<<vars, load, left>>
=============================================================================
