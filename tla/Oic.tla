--------------------------------- MODULE Oic ---------------------------------
(***************************************************************************)
(* The oic worker (src/src/apps/oic/main.ts and logic.ts): it trusts the   *)
(* affiliates of its group whom a trustee of the MetaOrg trusts (vouched), *)
(* and a whitelist.  It scans the registry once and goes on from there.    *)
(***************************************************************************)
EXTENDS TrustLoop

VARIABLES
    affiliates,    \* state.affiliates
    scanned,       \* state.lastSafeHeadScanned
    initialized,   \* state.initialized
    savedScan      \* the row of app "oic" in the state store

oicVars == <<affiliates, scanned, initialized, savedScan>>

OicInit == /\ affiliates = {} /\ initialized = FALSE
           /\ scanned = FirstBlock - 1 /\ savedScan = FirstBlock - 1

\* The process starts again: loop loads the row, but not the affiliates.
OicForget == /\ affiliates' = {} /\ initialized' = FALSE /\ scanned' = savedScan
             /\ UNCHANGED savedScan

\* Mutant: the row says where to go on.
ScanFromRow == scanned + 1

ScanFrom == IF initialized THEN scanned + 1 ELSE FirstBlock

\* runIncremental up to processAffiliateEvents: the affiliates follow the logs of
\* the range before anything else can fail, and the range is not done yet.
OicScan ==
    /\ app = "oic" /\ work.stage = "rest"
    /\ IF ScanFrom <= SafeHeight
         THEN affiliates' = ((IF initialized THEN affiliates ELSE {})
                               \cup JoinedIn(ScanFrom, SafeHeight)) \ LeftIn(ScanFrom, SafeHeight)
         ELSE UNCHANGED affiliates
    /\ work' = [work EXCEPT !.stage = "plan",
                            !.upTo = IF ScanFrom <= SafeHeight THEN SafeHeight ELSE None]
    /\ UNCHANGED <<factVars, trusted, errorCount, mishaps, scanned, initialized, savedScan>>

\* Mutant: the whitelist is not added.
DesiredUnlisted == vouched \cap affiliates

\* calculateDesiredTrustees, and the whitelist.
Desired == (vouched \cap affiliates) \cup AlwaysTrusted

\* executeCoreLogic up to the first transaction.
OicPlan ==
    /\ app = "oic" /\ work.stage = "plan"
    /\ work' = [work EXCEPT !.stage = "execute",
                            !.plan = PlanOf(trusted \ Desired, Desired \ trusted)]
    /\ UNCHANGED <<factVars, trusted, errorCount, mishaps, oicVars>>

\* The range is done, and its end is saved.  A save that fails goes unnoticed.
OicDone ==
    /\ app = "oic" /\ work.stage = "execute" /\ work.plan = <<>>
    /\ IF work.upTo # None THEN scanned' = work.upTo /\ initialized' = TRUE
                           ELSE UNCHANGED <<scanned, initialized>>
    /\ \/ savedScan' = scanned' /\ UNCHANGED mishaps
       \/ UNCHANGED savedScan /\ Mishap
    /\ RunSucceeds
    /\ UNCHANGED <<factVars, trusted, affiliates>>

OicStep == OicScan \/ OicPlan \/ OicDone

\* Who should be trusted, as the chain is.
OicWanted == (vouched \cap JoinedIn(FirstBlock, SafeHeight)) \cup AlwaysTrusted

-----------------------------------------------------------------------------
\* Whenever a run decides, the affiliates are those whom the registry has at the
\* end of the range scanned: a range that is applied again after a run that failed,
\* a restart that has the row but not the affiliates, and a failed save change
\* nothing (logic.ts, runIncremental and processAffiliateEvents; main.ts, loop).
AffiliatesAreReplay ==
    app = "oic" /\ work.stage \in {"plan", "execute"} =>
        affiliates = JoinedIn(FirstBlock, IF work.upTo = None THEN scanned ELSE work.upTo)
=============================================================================
