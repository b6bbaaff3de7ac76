----------------------------- MODULE CrcBackers ------------------------------
(***************************************************************************)
(* The crc-backers worker (src/src/apps/crc-backers/main.ts and logic.ts): *)
(* a loop that scans the blocks up to a safe head, untrusts and trusts     *)
(* backers, reconciles backing processes that are under way, and moves     *)
(* nextFromBlock behind what it scanned.                                   *)
(*                                                                         *)
(* External to the code: the chain with its reorganisations, the backing   *)
(* instance contracts, the blacklist service, the group's trust relations. *)
(* A backer has one instance; a block's timestamp is its number.  A run    *)
(* untrusts and trusts at most one batch each: there are fewer backers     *)
(* than TRUST_BATCH_SIZE.                                                  *)
(***************************************************************************)
EXTENDS Integers, FiniteSets

CONSTANTS
    Backers,
    MaxBlock,             \* bound: the last block that is mined
    Confirmations,        \* cfg.confirmationBlocks
    IndexLag,             \* blocks that the index of events may be behind the head
    ExpectedTime,         \* cfg.expectedTimeTillCompletion
    OrderLifetime,        \* one day: computeOrderDeadlineSeconds
    ErrorsBeforeCrash,
    NotLoaded,            \* the blacklist has not been loaded yet
    MaxFailures,          \* bound: how often a run, a load or a save fails
    MaxListings,          \* bound: how often the blacklist changes
    MaxReorganisations    \* bound: how often a completion is undone

ASSUME BackersAssumption ==
    /\ IsFiniteSet(Backers)
    /\ MaxBlock \in Nat /\ Confirmations \in Nat /\ IndexLag \in Nat
    /\ ExpectedTime \in Nat /\ OrderLifetime \in Nat
    /\ ErrorsBeforeCrash \in Nat \ {0} /\ MaxFailures \in Nat
    /\ MaxListings \in Nat /\ MaxReorganisations \in Nat

VARIABLES
    head,         \* the chain's head
    initiated, completed,   \* the block of a backer's event, Never when there is none
    order,        \* the backing instance's order, as the simulations classify it
    trust,        \* the humans the group trusts
    blacklist,    \* what the blacklist service holds
    loaded,       \* what the worker has loaded of it, NotLoaded at first
    nextFrom,     \* nextFromBlock
    savedFrom,    \* its row in the state store
    run,          \* the run under way
    errors,       \* consecutive errors
    handled,      \* history: backers whose event a run trusted or found blacklisted
    checked,      \* history: processes that a run reconciled
    failures, listings, reorganisations   \* counters for the bounds

chainVars  == <<head, initiated, completed>>
worldVars  == <<chainVars, order, blacklist, listings, reorganisations>>
memoryVars == <<loaded, nextFrom, run, errors>>
history    == <<handled, checked>>
vars == <<worldVars, memoryVars, history, trust, savedFrom, failures>>

Never == 0
LastBlock == MaxBlock + Cardinality(Backers) + MaxReorganisations   \* with createLBP's
Orders == {"none", "current", "outdated", "filled", "short", "cancelled", "created"}
Idle == [stage |-> "idle", to |-> 0, time |-> 0, untrust |-> {}, trust |-> {},
         banned |-> {}, done |-> {}, left |-> {}]
Down == [Idle EXCEPT !.stage = "down"]

TypeOK ==
    /\ head \in 1 .. LastBlock
    /\ initiated \in [Backers -> 0 .. LastBlock] /\ completed \in [Backers -> 0 .. LastBlock]
    /\ order \in [Backers -> Orders]
    /\ trust \subseteq Backers /\ blacklist \subseteq Backers
    /\ loaded = NotLoaded \/ loaded \subseteq Backers
    /\ nextFrom \in 1 .. LastBlock + 1 /\ savedFrom \in 1 .. LastBlock + 1
    /\ run.stage \in {"down", "idle", "untrust", "trust", "pending", "reconcile", "save"}
    /\ run.left \subseteq Backers
    /\ errors \in 0 .. ErrorsBeforeCrash - 1
    /\ \A b \in Backers : completed[b] # Never => initiated[b] \in 1 .. completed[b]
    /\ \A b \in Backers : order[b] = "none" <=> initiated[b] = Never

Init ==
    /\ head = 1
    /\ initiated = [b \in Backers |-> Never] /\ completed = initiated
    /\ order = [b \in Backers |-> "none"]
    /\ trust = {} /\ blacklist = {} /\ loaded = NotLoaded
    /\ nextFrom = 1 /\ savedFrom = 1 /\ run = Down /\ errors = 0
    /\ handled = {} /\ checked = {}
    /\ failures = 0 /\ listings = 0 /\ reorganisations = 0

-----------------------------------------------------------------------------
(* The world. *)

Initiate(b) ==
    /\ initiated[b] = Never
    /\ initiated' = [initiated EXCEPT ![b] = head + 1]
    /\ order' = [order EXCEPT ![b] = "current"]
    /\ UNCHANGED completed

\* The order of an instance: its price is outdated, it is filled, with or
\* without enough of the asset, or it is cancelled.
OrderMoves ==
    /\ \E b \in Backers :
        \E move \in {<<"current", "outdated">>, <<"current", "filled">>,
                     <<"outdated", "filled">>, <<"current", "short">>,
                     <<"current", "cancelled">>} :
            order[b] = move[1] /\ order' = [order EXCEPT ![b] = move[2]]
    /\ UNCHANGED <<chainVars, blacklist, listings, reorganisations, memoryVars, history,
                   trust, savedFrom, failures>>

\* createLBP is called by the order's hook.
Complete(b) ==
    /\ order[b] = "filled"
    /\ order' = [order EXCEPT ![b] = "created"]
    /\ completed' = [completed EXCEPT ![b] = head + 1]
    /\ UNCHANGED initiated

\* A block, with what happens in it.
Mine ==
    /\ head < MaxBlock
    /\ head' = head + 1
    /\ \/ UNCHANGED <<initiated, completed, order>>
       \/ \E b \in Backers : Initiate(b) \/ Complete(b)
    /\ UNCHANGED <<blacklist, listings, reorganisations, memoryVars, history, trust, savedFrom, failures>>

\* The last Confirmations blocks may be replaced: a completion of theirs is
\* undone, to happen again later or never.
Reorganise == \E b \in Backers :
    /\ completed[b] # Never /\ completed[b] > head - Confirmations
    /\ reorganisations < MaxReorganisations
    /\ reorganisations' = reorganisations + 1
    /\ completed' = [completed EXCEPT ![b] = Never]
    /\ order' = [order EXCEPT ![b] = "filled"]
    /\ UNCHANGED <<head, initiated, blacklist, listings, memoryVars, history, trust,
                   savedFrom, failures>>

BlacklistChanges == \E b \in Backers :
    /\ listings < MaxListings
    /\ listings' = listings + 1
    /\ blacklist' = IF b \in blacklist THEN blacklist \ {b} ELSE blacklist \cup {b}
    /\ UNCHANGED <<chainVars, order, reorganisations, memoryVars, history, trust, savedFrom,
                   failures>>

-----------------------------------------------------------------------------
(* The loop: main.ts. *)

MayFail == failures < MaxFailures /\ failures' = failures + 1

\* loop() restores the cursor; a row that cannot be loaded is no row.
Start ==
    /\ run = Down
    /\ \/ nextFrom' = savedFrom /\ UNCHANGED failures
       \/ MayFail /\ nextFrom' = 1
    /\ run' = Idle
    /\ UNCHANGED <<worldVars, loaded, errors, history, trust, savedFrom>>

\* The process ends; the orchestrator starts another.
Exit ==
    /\ run' = Down /\ loaded' = NotLoaded /\ nextFrom' = 1 /\ errors' = 0

Crash ==
    /\ run # Down
    /\ MayFail /\ Exit
    /\ UNCHANGED <<worldVars, history, trust, savedFrom>>

\* An iteration ends in an error; after ErrorsBeforeCrash of them in a row the
\* process exits.
Fail ==
    /\ MayFail
    /\ IF errors + 1 >= ErrorsBeforeCrash THEN Exit
       ELSE run' = Idle /\ errors' = errors + 1 /\ UNCHANGED <<loaded, nextFrom>>

RunFails ==
    /\ \/ run.stage \in {"untrust", "trust", "pending", "reconcile"}
       \/ run.stage = "idle" /\ loaded = NotLoaded    \* the first load of the blacklist
    /\ Fail
    /\ UNCHANGED <<worldVars, history, trust, savedFrom>>

\* Mutant: no confirmations are awaited.
SafeHeadIsHead == head

SafeHead == IF head > Confirmations THEN head - Confirmations ELSE 0

\* Mutant: the first block of the range is taken for scanned.
InRangeAfterFirst(block, to, indexed) ==
    block # Never /\ block \in nextFrom + 1 .. to /\ block <= indexed

\* The events of a range, inclusive at both ends, that the index has by now.
InRange(block, to, indexed) ==
    block # Never /\ block \in nextFrom .. to /\ block <= indexed

\* Mutant: the verdicts on the trustees are not asked for.
BannedBackers(done, list) == done \cap list

\* findValidBackingEvents: verdicts are asked for on backers and trustees.
Banned(done, list) == (done \cup trust) \cap list

\* refreshBlacklist, then the run reads the head, the trustees, the completed
\* events of the range and the verdicts on both.  A blacklist that cannot be
\* refreshed is used as it was.
BeginRun ==
    /\ run.stage = "idle"
    /\ \/ loaded' = blacklist /\ UNCHANGED failures
       \/ loaded # NotLoaded /\ MayFail /\ UNCHANGED loaded
    /\ IF SafeHead < nextFrom
         THEN run' = [Idle EXCEPT !.stage = "save", !.to = nextFrom - 1]
         ELSE \E indexed \in head - IndexLag .. head :
              LET done == {b \in Backers : InRange(completed[b], SafeHead, indexed)}
              IN  run' = [stage |-> "untrust", to |-> SafeHead, time |-> head,
                          banned |-> Banned(done, loaded'), done |-> done, left |-> {},
                          untrust |-> trust \cap Banned(done, loaded'),
                          trust |-> (done \ Banned(done, loaded')) \ trust]
    /\ UNCHANGED <<worldVars, nextFrom, errors, history, trust, savedFrom>>

-----------------------------------------------------------------------------
(* A run: logic.ts. *)

UntrustBatch ==
    /\ run.stage = "untrust"
    /\ trust' = trust \ run.untrust
    /\ run' = [run EXCEPT !.stage = "trust"]
    /\ UNCHANGED <<worldVars, loaded, nextFrom, errors, history, savedFrom, failures>>

TrustBatch ==
    /\ run.stage = "trust"
    /\ trust' = trust \cup run.trust
    /\ handled' = handled \cup run.done
    /\ run' = [run EXCEPT !.stage = "pending"]
    /\ UNCHANGED <<worldVars, loaded, nextFrom, errors, checked, savedFrom, failures>>

\* A transaction is carried out though the call fails.
BatchReportedFailed ==
    /\ \/ run.stage = "untrust" /\ run.untrust # {} /\ trust' = trust \ run.untrust
       \/ run.stage = "trust" /\ run.trust # {} /\ trust' = trust \cup run.trust
    /\ Fail
    /\ UNCHANGED <<worldVars, history, savedFrom>>

\* findPendingBackingProcesses: initiated in the range, not completed in it, not
\* found blacklisted; of these only the overdue ones are reconciled.
FindPending ==
    /\ run.stage = "pending"
    /\ \E indexed \in head - IndexLag .. head :
        run' = [run EXCEPT !.stage = "reconcile", !.left =
                   {b \in Backers : /\ InRange(initiated[b], run.to, indexed)
                                    /\ b \notin run.done \cup run.banned
                                    /\ run.time - initiated[b] > ExpectedTime}]
    /\ UNCHANGED <<worldVars, loaded, nextFrom, errors, history, trust, savedFrom, failures>>

\* simulateCreateLbp and what follows from it.
TryCreateLbp(b) ==
    IF order[b] = "filled"
      THEN /\ order' = [order EXCEPT ![b] = "created"]
           /\ head' = head + 1 /\ completed' = [completed EXCEPT ![b] = head + 1]
      ELSE UNCHANGED <<order, head, completed>>

\* simulateResetCowSwapOrder and what follows from it.
TryReset(b) ==
    \/ /\ order[b] = "outdated"                                 \* OrderValid
       /\ order' = [order EXCEPT ![b] = "current"]
       /\ UNCHANGED <<head, completed>>
    \/ order[b] = "current" /\ UNCHANGED <<order, head, completed>>
    \/ order[b] \in {"filled", "short", "cancelled", "created"} \* OrderAlreadySettled
       /\ TryCreateLbp(b)

\* The next process: past its deadline only the LBP is tried.
ReconcileProcess == \E b \in run.left :
    /\ run.stage = "reconcile"
    /\ IF run.time >= initiated[b] + OrderLifetime THEN TryCreateLbp(b) ELSE TryReset(b)
    /\ checked' = checked \cup {b}
    /\ run' = [run EXCEPT !.left = @ \ {b}]
    /\ UNCHANGED <<initiated, blacklist, listings, reorganisations, loaded, nextFrom, errors,
                   handled, trust, savedFrom, failures>>

\* Mutant: the cursor moves to the head that the run started from.
RunEndsAtHead ==
    /\ run.stage = "reconcile" /\ run.left = {}
    /\ run' = [run EXCEPT !.stage = "save"]
    /\ nextFrom' = run.time + 1
    /\ UNCHANGED <<worldVars, loaded, errors, history, trust, savedFrom, failures>>

\* runOnce returns, and the loop takes over nextFromBlock.
RunEnds ==
    /\ run.stage = "reconcile" /\ run.left = {}
    /\ run' = [run EXCEPT !.stage = "save"]
    /\ nextFrom' = run.to + 1
    /\ UNCHANGED <<worldVars, loaded, errors, history, trust, savedFrom, failures>>

\* stateStore.save, whose failure goes unnoticed; the iteration has succeeded.
Save ==
    /\ run.stage = "save"
    /\ \/ savedFrom' = nextFrom /\ UNCHANGED failures
       \/ MayFail /\ UNCHANGED savedFrom
    /\ errors' = 0 /\ run' = Idle
    /\ UNCHANGED <<worldVars, loaded, nextFrom, history, trust>>

-----------------------------------------------------------------------------
WorldStep == Mine \/ OrderMoves \/ Reorganise \/ BlacklistChanges

WorkerStep == \/ Start \/ BeginRun \/ UntrustBatch \/ TrustBatch \/ FindPending
              \/ ReconcileProcess \/ RunEnds \/ Save

Next == WorldStep \/ WorkerStep \/ RunFails \/ BatchReportedFailed \/ Crash

Spec == Init /\ [][Next]_vars

\* The loop goes on, and a process that has exited is started again.  Failures
\* are bounded, so that a run succeeds some time.
FairSpec == Spec /\ WF_vars(WorkerStep) /\ WF_vars(Mine)

-----------------------------------------------------------------------------
(* Properties. *)

\* Nobody is trusted for a completion that is not on the chain for good: the
\* confirmation buffer outlasts every reorganisation, wherever the run is when
\* it happens (logic.ts:397).
TrustsOnlyFinalCompletions == \A b \in trust : completed[b] # Never

\* The cursor, in memory or stored, has passed no completion that a run did not
\* trust or find blacklisted, whatever failed and wherever the process ended
\* (main.ts:187).
CursorCoversHandled ==
    \A b \in Backers : completed[b] # Never =>
        (completed[b] < nextFrom \/ completed[b] < savedFrom => b \in handled)

\* A completion that stays and is never blacklisted leads to trust.
CompletionsTrusted ==
    \A b \in Backers :
        (completed[b] # Never /\ completed[b] <= head - Confirmations)
            ~> (b \in trust \/ listings > 0)

\* A run that has untrusted and trusted leaves no trustee that is on the list it
\* has loaded, an older one when a load failed (logic.ts:211-240).
RunUntrustsBlacklisted ==
    run.stage \in {"pending", "reconcile"} => trust \cap loaded = {}

\* README.md:9 "Reconciles initiated-but-not-completed processes": one that no
\* run has reconciled is in the range of a run to come.
PendingStaysInRange ==
    \A b \in Backers :
        initiated[b] # Never /\ completed[b] = Never /\ b \notin checked \cup blacklist
            => initiated[b] >= nextFrom
=============================================================================
