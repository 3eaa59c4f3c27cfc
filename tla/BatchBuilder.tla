---------------------------- MODULE BatchBuilder ----------------------------
(***************************************************************************)
(* application/services/batch_builder_service.py,                          *)
(* _build_batches_from_registers(): the registers to poll, sorted by       *)
(* address, are grouped into runs that one Modbus read fetches.            *)
(***************************************************************************)
EXTENDS Integers, Sequences

LOCAL INSTANCE FiniteSetsExt

CONSTANTS
  MaxBatch,  \* max_batch_size: most words one read may ask for
  MaxGap,    \* max_gap_size: unused words a batch may run over
  Length     \* Length[a]: how many words the register at address a takes

LastWord(a) == a + Length[a] - 1

\* The batch a read asks for, as a range of word addresses.
Words(b) == b.start..(b.start + b.count - 1)

Batch(a, z) == [start |-> a, count |-> z - a + 1]

\* One turn of the loop.  acc.batches ends with the batch under construction.
Place(acc, a) ==
  IF a \in acc.covered THEN acc
  ELSE
    LET n == Len(acc.batches)
        fits == /\ n > 0
                /\ a - acc.end - 1 <= MaxGap
                /\ LastWord(a) - acc.batches[n].start + 1 <= MaxBatch
    IN [batches |-> IF fits
                    THEN [acc.batches EXCEPT ![n] = Batch(@.start, LastWord(a))]
                    ELSE Append(acc.batches, Batch(a, LastWord(a))),
        end |-> LastWord(a),
        covered |-> acc.covered \cup a..LastWord(a)]

\* The loop over the registers of S, in the order of their addresses: what has
\* been made of those below n.
Grouped(S) ==
  LET below[n \in Nat] ==
        IF n = 0 THEN [batches |-> <<>>, end |-> 0, covered |-> {}]
        ELSE IF n - 1 \in S THEN Place(below[n - 1], n - 1) ELSE below[n - 1]
  IN below

\* The registers that get a place in a register_map: not those inside another.
Placed(S) == {a \in S : a \notin Grouped(S)[a].covered}

BuildBatches(S) == IF S = {} THEN <<>> ELSE Grouped(S)[Max(S) + 1].batches
=============================================================================
