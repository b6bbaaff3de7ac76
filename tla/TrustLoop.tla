----------------------------- MODULE TrustLoop -------------------------------
(***************************************************************************)
(* What the smaller workers (oic, dublin-tms, router2, gnosis-group,       *)
(* new-gnosis) have in common: a loop that reads logs and lists, decides   *)
(* whom its target - a group, or the router - should trust, and sends the  *)
(* difference in batches.  One process runs one worker: app.               *)
(*                                                                         *)
(* External to the code: the chain with the registry's logs, the lists     *)
(* that are read, the scores, the blacklist, and what the target trusts.   *)
(* The logs are of real changes: a human joins, or leaves.                 *)
(***************************************************************************)
EXTENDS Batches

CONSTANTS
    Apps,               \* the workers that may run
    Humans,
    AlwaysTrusted,      \* oic: the whitelist; gnosis-group: the historic snapshot
    FirstBlock,         \* the block that scans start from; new-gnosis: the cutoff
    Confirmations,
    GroupBatchSize,
    GroupBatchAttempts, \* gnosis-group: GROUP_BATCH_MAX_ATTEMPTS
    ErrorLimit,         \* errorsBeforeCrash
    MaxHeight,          \* bound: the last block that is mined
    MaxMoves,           \* bound: how often a list, a score or the blacklist changes
    MaxMishaps          \* bound: how often a request fails or the process ends

ASSUME TrustLoopAssumption ==
    /\ Apps \subseteq {"oic", "dublin-tms", "router2", "gnosis-group", "new-gnosis", "gp-crc"}
    /\ IsFiniteSet(Humans) /\ AlwaysTrusted \subseteq Humans
    /\ {FirstBlock, Confirmations, MaxHeight, MaxMoves, MaxMishaps} \subseteq Nat
    /\ {GroupBatchSize, GroupBatchAttempts, ErrorLimit} \subseteq Nat \ {0}

VARIABLES
    app,
    height,      \* the chain's head block
    logs,        \* the registry's logs
    vouched,     \* the humans on the list that the worker looks up
    scored,      \* the humans whose score is above the threshold
    barred,      \* what the blacklist service holds
    untrustable, \* the humans whom the target cannot be made to trust
    trusted,     \* whom the target trusts
    work,        \* the run under way
    errorCount,  \* consecutive errors
    moves, mishaps   \* counters for the bounds

factVars == <<app, height, logs, vouched, scored, barred, untrustable, moves>>
loopVars == <<factVars, trusted, work, errorCount, mishaps>>

None == -1
Rest == [stage |-> "rest", plan |-> <<>>, upTo |-> None, allowed |-> {}, sure |-> {},
         tries |-> 0, failed |-> FALSE]

\* What the worker looks at, besides the logs.
Facts ==
    CASE app \in {"oic", "router2"} -> {"vouched"}
      [] app = "gnosis-group"       -> {"vouched", "scored", "barred"}
      [] app = "new-gnosis"         -> {"scored", "barred"}
      [] OTHER                      -> {}

TrustLoopInit ==
    /\ app \in Apps
    /\ height = 0 /\ logs \in {{}} \cup {{[block |-> 0, human |-> h, joins |-> TRUE]} : h \in Humans}
    /\ vouched \in (IF "vouched" \in Facts THEN {{}, Humans} ELSE {{}})
    /\ scored \in (IF "scored" \in Facts THEN {{}, Humans} ELSE {{}})
    /\ barred = {}
    /\ untrustable \in {{}} \cup {{h} : h \in Humans}
    /\ trusted = {} /\ work = Rest /\ errorCount = 0
    /\ moves = 0 /\ mishaps = 0

-----------------------------------------------------------------------------
(* The world. *)

LogsOf(h, from, to) == {e \in logs : e.human = h /\ e.block \in from .. to}
NewestOf(events) == CHOOSE e \in events : \A f \in events : f.block <= e.block

\* Who has joined, and not left again, by the logs of a range.
JoinedIn(from, to) ==
    {h \in Humans : LogsOf(h, from, to) # {} /\ NewestOf(LogsOf(h, from, to)).joins}
LeftIn(from, to) ==
    {h \in Humans : LogsOf(h, from, to) # {} /\ ~NewestOf(LogsOf(h, from, to)).joins}

SafeHeight == IF height > Confirmations THEN height - Confirmations ELSE 0

\* A block is mined, with a log or without: only oic and dublin-tms look at heights.
\* Registrations are not taken back.
NewBlock ==
    /\ height < MaxHeight /\ height' = height + 1
    /\ \/ app \in {"oic", "dublin-tms"} /\ UNCHANGED logs
       \/ \E h \in Humans :
            /\ h \in JoinedIn(0, height) => app = "oic"
            /\ logs' = logs \cup {[block |-> height', human |-> h,
                                   joins |-> h \notin JoinedIn(0, height)]}
    /\ UNCHANGED <<app, vouched, scored, barred, untrustable, moves>>

Toggle(set, h) == IF h \in set THEN set \ {h} ELSE set \cup {h}

FactChanges ==
    /\ moves < MaxMoves /\ moves' = moves + 1
    /\ \E h \in Humans :
        \/ "vouched" \in Facts /\ vouched' = Toggle(vouched, h) /\ UNCHANGED <<scored, barred>>
        \/ "scored" \in Facts /\ scored' = Toggle(scored, h) /\ UNCHANGED <<vouched, barred>>
        \/ "barred" \in Facts /\ barred' = Toggle(barred, h) /\ UNCHANGED <<vouched, scored>>
    /\ UNCHANGED <<app, height, logs, untrustable>>

-----------------------------------------------------------------------------
(* The loop. *)

Mishap == mishaps < MaxMishaps /\ mishaps' = mishaps + 1

\* The process ends, or a run ends in an error: after ErrorLimit of them in a row
\* the process exits.  Forget is what becomes of the worker's own memory.
ProcessEnds(Forget) == work' = Rest /\ errorCount' = 0 /\ Forget

RunError(Forget, Keep) ==
    IF errorCount + 1 >= ErrorLimit THEN ProcessEnds(Forget)
    ELSE work' = Rest /\ errorCount' = errorCount + 1 /\ Keep

RunSucceeds == work' = Rest /\ errorCount' = 0

\* Untrusts come before trusts.
PlanOf(toUntrust, toTrust) ==
    BatchesOf("untrust", toUntrust, GroupBatchSize) \o BatchesOf("trust", toTrust, GroupBatchSize)

Executing == work.stage = "execute" /\ work.plan # <<>>
Batch == Head(work.plan)

\* One member whom the target cannot trust makes the transaction revert.
Accepted == Batch.op = "trust" => Batch.members \cap untrustable = {}

Carried == trusted' = IF Batch.op = "trust" THEN trusted \cup Batch.members
                                            ELSE trusted \ Batch.members

BatchSucceeds ==
    /\ Executing /\ Accepted
    /\ Carried
    /\ work' = [work EXCEPT !.plan = Tail(@), !.tries = 0]
    /\ UNCHANGED errorCount

\* A batch is refused, fails, or is reported as failed though it is carried out.
BatchTrouble ==
    /\ Executing
    /\ \/ ~Accepted /\ UNCHANGED <<trusted, mishaps>>
       \/ Accepted /\ Mishap /\ (UNCHANGED trusted \/ Carried)
=============================================================================
