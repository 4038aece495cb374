------------------------------ MODULE MC_Sdram ------------------------------
EXTENDS SdramCached

\* Every halfword of the memory differs from every other at first.
Start(t, b, h) == 100 * (t + 1) + 10 * b + h

MC_Contents ==
  [t \in Tags |-> [b \in Banks |-> [h \in Halves |->
     <<Start(t, b, h), Start(t, b, h)>>]]]

MC_Bytes == {1, 2} \cup {Start(t, b, h) : t \in Tags, b \in Banks, h \in Halves}

\* Three rows compete for one line of the cache, and one is written by words
\* and by bytes; its first byte write makes the burst wrap.
Caching ==
  [requests |-> {ReadRequest(0, 0, 0), ReadRequest(1, 0, 0), ReadRequest(2, 0, 3),
                 WriteWord(0, 0, 0, <<<<1, 1>>, <<2, 2>>>>),
                 WriteByte(0, 0, 0, TRUE, 2)},
   video |-> {}, refresh |-> FALSE]

\* Reads and writes of one bank, writes of another, video and refresh compete
\* for the slots.
Sharing ==
  [requests |-> {ReadRequest(0, 0, 0), WriteWord(0, 0, 0, <<<<1, 1>>, <<2, 2>>>>),
                 WriteWord(1, 1, 0, <<<<1, 1>>, <<1, 1>>>>)},
   video |-> {0}, refresh |-> TRUE]

MC_Workloads == {Caching, Sharing}
=============================================================================
