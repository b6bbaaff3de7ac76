-------------------------- MODULE MCGroupAffiliates --------------------------
(***************************************************************************)
(* Small instances of the worker: two managed groups with the same         *)
(* threshold, and a human whose score is below or above it.                *)
(***************************************************************************)
EXTENDS GroupAffiliatesProps, AffiliateListenerProps

MCStartCursor == InclusiveBlockCursor(0)
MCThreshold   == [g \in Managed |-> 1]
MCChanges     == [human : Humans, from : Groups, to : Groups]

\* Changes of the group only, and as the groups differ in name only, one of them is
\* the one that is joined first.
MCMoves ==
    {c \in MCChanges : /\ c.from # c.to
                       /\ c.from = ZeroGroup => c.to = CHOOSE g \in Managed : TRUE}

\* Scores are above the thresholds at the start; they may fall and rise.
MCInit == WorkerInit /\ \A h \in Humans : \A g \in Managed : Eligible(h, g)

MCFairSpec == MCInit /\ [][WorkerNext]_workerVars /\ WorkerFairness
=============================================================================
