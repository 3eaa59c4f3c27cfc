---------------------------- MODULE MCDiscovery ----------------------------
(* Two batches: words 0 to 3, where the register at 1 is three words long    *)
(* and lies over the one at 2, and word 5.  The largest batch is 2^MaxDepth  *)
(* words, as 32 is 2^5 in the code.  (TLC keeps a table that a definition    *)
(* without parameters names, and would build one again at every use of a     *)
(* constant that the .cfg gives as its value.)                               *)
EXTENDS RegisterDiscovery, TLC
MCRegisters == {0, 1, 2, 5}
MCLength == [a \in MCRegisters |-> IF a = 1 THEN 3 ELSE 1]
Builder == INSTANCE BatchBuilder WITH MaxBatch <- 4, MaxGap <- 0, Length <- MCLength
BatchTable == [S \in SUBSET MCRegisters |-> Builder!BuildBatches(S)] @@ <<>>
MCBatches == BatchTable
PlaceTable == [S \in SUBSET MCRegisters |-> Builder!Placed(S)] @@ <<>>
MCMapped == PlaceTable
=============================================================================
