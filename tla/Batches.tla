------------------------------ MODULE Batches --------------------------------
(***************************************************************************)
(* Addresses cut into transactions: chunk, or chunkArray, of the workers.  *)
(***************************************************************************)
EXTENDS SequencesExt, FiniteSetsExt

\* The members in some order, no more than size in each operation.
BatchesOf(op, members, size) ==
    LET all == SetToSeq(members)
        n   == Len(all)
    IN  [i \in 1 .. (n + size - 1) \div size |->
            [op |-> op, members |-> {all[j] : j \in (i - 1) * size + 1 .. Min({i * size, n})}]]
=============================================================================
