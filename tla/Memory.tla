------------------------------- MODULE Memory -------------------------------
(***************************************************************************)
(* What the CPU is promised of SDRAM, whatever lies in between: one        *)
(* request at a time, a write that stores its bytes and no others, a read  *)
(* that returns what was stored last.                                      *)
(***************************************************************************)
EXTENDS Integers

CONSTANTS
  Requests,    \* the requests a CPU may make
  Contents     \* what the memory holds at first, by row, bank and halfword

VARIABLES
  mem,
  request,     \* {} or the request that is not answered yet
  result       \* <<>> or the word that is being returned

vars == <<mem, request, result>>

\* The bytes of a halfword that a write does not mask.
Merge(old, new, dqm) ==
  [i \in {1, 2} |-> IF i \in dqm THEN old[i] ELSE new[i]]

\* A write of less than a word has its data in the lower half.
Written(m, o) ==
  LET line == m[o.tag][o.bank] IN
  [m EXCEPT ![o.tag][o.bank] =
     IF o.wrU2
       THEN [line EXCEPT ![o.half] = Merge(line[o.half], o.value[2], o.dqm)]
       ELSE [line EXCEPT ![o.half] = o.value[1], ![o.half + 1] = o.value[2]]]

ReadWord(m, o) ==
  <<m[o.tag][o.bank][o.half], m[o.tag][o.bank][o.half + 1]>>

Init ==
  /\ mem = Contents
  /\ request = {}
  /\ result = <<>>

Ask ==
  /\ request = {}
  /\ \E o \in Requests : request' = {o}
  /\ result' = <<>>
  /\ UNCHANGED mem

Answer ==
  /\ \E o \in request :
       IF o.wr
         THEN mem' = Written(mem, o) /\ result' = <<>>
         ELSE result' = <<ReadWord(mem, o)>> /\ UNCHANGED mem
  /\ request' = {}

Forget ==
  /\ result # <<>>
  /\ result' = <<>>
  /\ UNCHANGED <<mem, request>>

Next == Ask \/ Answer \/ Forget

Spec == Init /\ [][Next]_vars

=============================================================================
