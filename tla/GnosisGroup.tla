----------------------------- MODULE GnosisGroup -----------------------------
(***************************************************************************)
(* The gnosis-group worker (src/src/apps/gnosis-group/main.ts, logic.ts):  *)
(* it trusts the members of the backers groups (vouched), those of a       *)
(* historic snapshot, and the humans whose score is above the threshold,   *)
(* but nobody who is blacklisted.  Scores are cached for a time.  A batch  *)
(* is tried GroupBatchAttempts times, and the batches after one that fails *)
(* are sent nonetheless.  The score service knows every human it is asked  *)
(* for.                                                                    *)
(***************************************************************************)
EXTENDS TrustLoop

CONSTANT NoList        \* the blacklist has not been loaded

ASSUME NoListAssumption == \A list \in SUBSET Humans : list # NoList

VARIABLES
    loadedList,        \* what the worker has of the blacklist
    scoreCache         \* for each human "above", "below" or nothing that is valid

gnosisVars == <<loadedList, scoreCache>>

NoScores == [h \in Humans |-> "none"]

GnosisInit == loadedList = NoList /\ scoreCache = NoScores

GnosisForget == loadedList' = NoList /\ scoreCache' = NoScores

\* A score is older than the time to live.
Expire(h) ==
    /\ app = "gnosis-group" /\ scoreCache[h] # "none"
    /\ scoreCache' = [scoreCache EXCEPT ![h] = "none"]
    /\ UNCHANGED <<factVars, trusted, work, errorCount, mishaps, loadedList>>

\* refreshBlacklist: a list that has been loaded serves when a refresh fails.
GnosisLoad ==
    /\ app = "gnosis-group" /\ work.stage = "rest"
    /\ \/ loadedList' = barred /\ UNCHANGED mishaps
       \/ loadedList # NoList /\ Mishap /\ UNCHANGED loadedList
    /\ work' = [work EXCEPT !.stage = "read"]
    /\ UNCHANGED <<factVars, trusted, errorCount, scoreCache>>

\* The humans, the backers and the trustees are read and the blacklisted dropped.
GnosisRead ==
    /\ app = "gnosis-group" /\ work.stage = "read" /\ vouched \ loadedList # {}
    /\ work' = [work EXCEPT !.stage = "score",
                            !.allowed = JoinedIn(0, height) \ loadedList,
                            !.sure = (vouched \cup AlwaysTrusted) \ loadedList]
    /\ UNCHANGED <<factVars, trusted, errorCount, mishaps, gnosisVars>>

\* Without any backer left the run is an error.
GnosisNoBackers ==
    /\ app = "gnosis-group" /\ work.stage = "read" /\ vouched \ loadedList = {}
    /\ RunError(GnosisForget, UNCHANGED gnosisVars)
    /\ UNCHANGED <<factVars, trusted, mishaps>>

\* The scores of some of the humans are fetched.
Fetched(asked) == [h \in Humans |-> IF h \notin asked THEN scoreCache[h]
                                    ELSE IF h \in scored THEN "above" ELSE "below"]

Unscored == {h \in work.allowed : scoreCache[h] = "none"}

\* computeTrustPlan.
Satisfied(scores) == work.sure \cup {h \in work.allowed : scores[h] = "above"}

GnosisScore ==
    /\ app = "gnosis-group" /\ work.stage = "score"
    /\ scoreCache' = Fetched(Unscored)
    /\ work' = [work EXCEPT !.stage = "execute", !.tries = 0,
                            !.plan = PlanOf(trusted \ Satisfied(scoreCache'),
                                            Satisfied(scoreCache') \ trusted)]
    /\ UNCHANGED <<factVars, trusted, errorCount, mishaps, loadedList>>

\* A request fails; the scores of the requests before it are cached.
GnosisScoreFails ==
    /\ app = "gnosis-group" /\ work.stage = "score"
    /\ Mishap
    /\ \E asked \in (SUBSET Unscored) \ {Unscored} :
          RunError(GnosisForget, scoreCache' = Fetched(asked) /\ UNCHANGED loadedList)
    /\ UNCHANGED <<factVars, trusted>>

\* performBatchOperationWithRetry, and on with the next batch.
GnosisBatchTrouble ==
    /\ app = "gnosis-group" /\ BatchTrouble
    /\ work' = IF work.tries + 1 < GroupBatchAttempts
               THEN [work EXCEPT !.tries = @ + 1]
               ELSE [work EXCEPT !.plan = Tail(@), !.tries = 0, !.failed = TRUE]
    /\ UNCHANGED <<factVars, errorCount, gnosisVars>>

\* A run with a batch that failed is an error.
GnosisDone ==
    /\ app = "gnosis-group" /\ work.stage = "execute" /\ work.plan = <<>>
    /\ IF work.failed THEN RunError(GnosisForget, UNCHANGED gnosisVars)
                      ELSE RunSucceeds /\ UNCHANGED gnosisVars
    /\ UNCHANGED <<factVars, trusted, mishaps>>

GnosisStep == \/ GnosisLoad \/ GnosisRead \/ GnosisNoBackers
              \/ GnosisScore \/ GnosisBatchTrouble \/ GnosisDone

\* Who should be trusted, as lists and scores are.
GnosisWanted ==
    (vouched \cup AlwaysTrusted \cup (JoinedIn(0, height) \cap scored)) \ barred

\* Those of them about whom the worker has not learnt otherwise, each with the
\* ground on which: a list, or a score.
GnosisRightful ==
    LET unlisted == {h \in Humans \ barred : loadedList # NoList => h \notin loadedList}
        scoring  == {h \in JoinedIn(0, height) \cap scored : scoreCache[h] # "below"}
    IN  (((vouched \cup AlwaysTrusted) \cap unlisted) \X {"list"})
          \cup ((scoring \cap unlisted) \X {"score"})
=============================================================================
