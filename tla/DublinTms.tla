------------------------------ MODULE DublinTms ------------------------------
(***************************************************************************)
(* The dublin-tms worker (src/src/apps/dublin-tms/main.ts and logic.ts):   *)
(* it trusts whoever was registered through one of the origin inviters,    *)
(* and never untrusts.  How far it has scanned is in memory only.          *)
(***************************************************************************)
EXTENDS TrustLoop

VARIABLE nextFrom      \* nextFromBlock

DublinInit == nextFrom = FirstBlock

DublinForget == nextFrom' = FirstBlock

\* Mutant: the cursor moves when the range is read.
DublinScanMoves ==
    /\ app = "dublin-tms" /\ work.stage = "rest"
    /\ nextFrom' = IF nextFrom <= SafeHeight THEN SafeHeight + 1 ELSE nextFrom
    /\ work' = [work EXCEPT !.stage = "execute", !.upTo = SafeHeight,
                            !.plan = PlanOf({}, JoinedIn(nextFrom, SafeHeight) \ trusted)]
    /\ UNCHANGED <<factVars, trusted, errorCount, mishaps>>

\* runOnce up to the first transaction: the trustees are read, and the logs of the
\* range, which ends Confirmations below the head.
DublinScan ==
    /\ app = "dublin-tms" /\ work.stage = "rest" /\ nextFrom <= SafeHeight
    /\ work' = [work EXCEPT !.stage = "execute", !.upTo = SafeHeight,
                            !.plan = PlanOf({}, JoinedIn(nextFrom, SafeHeight) \ trusted)]
    /\ UNCHANGED <<factVars, trusted, errorCount, mishaps, nextFrom>>

\* There is nothing to scan: the run is a success.
DublinNothingNew ==
    /\ app = "dublin-tms" /\ work.stage = "rest" /\ nextFrom > SafeHeight
    /\ RunSucceeds
    /\ UNCHANGED <<factVars, trusted, mishaps, nextFrom>>

DublinDone ==
    /\ app = "dublin-tms" /\ work.stage = "execute" /\ work.plan = <<>>
    /\ nextFrom' = work.upTo + 1
    /\ RunSucceeds
    /\ UNCHANGED <<factVars, trusted, mishaps>>

DublinStep == DublinScan \/ DublinNothingNew \/ DublinDone

\* Who should be trusted, as the chain is.
DublinWanted == JoinedIn(FirstBlock, SafeHeight)

-----------------------------------------------------------------------------
\* No registration is left behind the cursor untrusted, whichever batch of a run
\* fails and however often the process starts again (main.ts, mainLoop, where only
\* the outcome of a run that succeeds moves nextFromBlock).
NoRegistrationSkipped ==
    app = "dublin-tms" => JoinedIn(FirstBlock, nextFrom - 1) \subseteq trusted
=============================================================================
