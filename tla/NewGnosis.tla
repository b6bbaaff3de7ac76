------------------------------ MODULE NewGnosis ------------------------------
(***************************************************************************)
(* The new-gnosis worker (src/src/apps/new-gnosis/main.ts and logic.ts).   *)
(* Users of the Gnosis App from before the cutoff block are looked through *)
(* once in the life of a process and must pass the blacklist and the score;*)
(* whoever registers later is trusted unconditionally, run after run.  An  *)
(* avatar that the group refuses in a simulation is left out.              *)
(* The answers that leave avatars out (unclaimed, opted out, not human)    *)
(* are taken together with that simulation: untrustable.                   *)
(***************************************************************************)
EXTENDS TrustLoop

VARIABLE backfilled     \* backfillCompleted

NewGnosisInit == backfilled = FALSE

NewGnosisForget == backfilled' = FALSE

UsersBefore == JoinedIn(0, FirstBlock - 1)
UsersSince == JoinedIn(FirstBlock, height)

\* The blacklist is loaded, and every run of the process before the backfill is
\* complete loads it again.
NewGnosisLoad ==
    /\ app = "new-gnosis" /\ work.stage = "rest" /\ ~backfilled
    /\ work' = [work EXCEPT !.stage = "backfill", !.allowed = UsersBefore \ barred]
    /\ UNCHANGED <<factVars, trusted, errorCount, mishaps, backfilled>>

\* runBackfill up to its first transaction.
NewGnosisBackfill ==
    /\ app = "new-gnosis" /\ work.stage = "backfill"
    /\ work' = [work EXCEPT !.stage = "execute",
                            !.plan = PlanOf({}, (work.allowed \cap scored) \ (trusted \cup untrustable))]
    /\ UNCHANGED <<factVars, trusted, errorCount, mishaps, backfilled>>

\* The backfill is complete and the same run goes on with runIncremental.
NewGnosisBackfilled ==
    /\ app = "new-gnosis" /\ work.stage = "execute" /\ work.plan = <<>> /\ ~backfilled
    /\ backfilled' = TRUE /\ work' = Rest
    /\ UNCHANGED <<factVars, trusted, errorCount, mishaps>>

\* runIncremental up to its first transaction: its scan starts at the cutoff, always.
NewGnosisIncremental ==
    /\ app = "new-gnosis" /\ work.stage = "rest" /\ backfilled
    /\ work' = [work EXCEPT !.stage = "execute",
                            !.plan = PlanOf({}, UsersSince \ (trusted \cup untrustable))]
    /\ UNCHANGED <<factVars, trusted, errorCount, mishaps, backfilled>>

NewGnosisDone ==
    /\ app = "new-gnosis" /\ work.stage = "execute" /\ work.plan = <<>> /\ backfilled
    /\ RunSucceeds
    /\ UNCHANGED <<factVars, trusted, mishaps, backfilled>>

NewGnosisStep == \/ NewGnosisLoad \/ NewGnosisBackfill \/ NewGnosisBackfilled
                 \/ NewGnosisIncremental \/ NewGnosisDone

\* Who should be trusted whatever their score.
NewGnosisWanted == UsersSince \ untrustable
=============================================================================
