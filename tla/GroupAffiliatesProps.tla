------------------------ MODULE GroupAffiliatesProps -------------------------
(***************************************************************************)
(* What the group-affiliates worker guarantees.                            *)
(***************************************************************************)
EXTENDS GroupAffiliates

\* The saved cursor covers only logs whose batch was carried out: whenever the
\* process ends, a restart misses no trust or untrust (main.ts, the order of
\* processEvents, saveCursor and saveAffiliateMap).  It may go back, never too
\* far forward.
SavedCursorCoversApplied ==
    \A e \in log : AtOrBefore(e.cursor, savedCursor) /\ Before(StartCursor, e.cursor)
                        => e \in applied

\* The worker is up and there is nothing it has not taken in.
Quiet ==
    /\ phase = "live" /\ conn = "live" /\ job = NoJob
    /\ wire = {} /\ pending = {} /\ catchUp = Idle
    /\ \A i \in DOMAIN tasks : tasks[i].source = "reconcile"
    /\ After(log, lastSeen) = {}

\* When the worker is quiet its map says what the registry says, whatever
\* restarts lie behind it: reconciliation then trusts whom it should (main.ts,
\* ensureAffiliateMapBackfill and saveAffiliateMap).
MapCurrentWhenQuiet ==
    Quiet => \A h \in Humans :
        LET known == map.toGroup[h]
        IN  (IF known = NoGroup THEN ZeroGroup ELSE known) = GroupIn(log, h)

\* No human is trusted in two managed groups at a time: in every plan the
\* untrust of the group left comes first, and no two plans interleave (logic.ts,
\* executePlannedOperations; main.ts, enqueueExclusive).
TrustedInOneGroup ==
    \A g, k \in Managed : g # k => trust[g] \cap trust[k] = {}

\* Nobody is trusted in a group but the one that the map has it in, whatever is
\* lost, reordered, repeated or fails on the way: the plan made from a batch,
\* which does not read the map, and the fold of that batch into the map agree,
\* and the map does not move on while the plan is carried out (logic.ts:89,
\* runForAffiliateEvents; main.ts, enqueueExclusive).
TrustFollowsMap ==
    [][\A g \in Managed : \A h \in trust'[g] \ trust[g] : map.toGroup[h] = g]_workerVars

\* Once the world is at rest the managed groups trust exactly the humans whose
\* affiliate group they are and whose score is above their minRepScore.
TrustConverges == <>[](\A g \in Managed : trust[g] = Wanted(g))

=============================================================================
