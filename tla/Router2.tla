------------------------------- MODULE Router2 -------------------------------
(***************************************************************************)
(* The router2 worker (src/src/apps/router2/main.ts and logic.ts): it sets *)
(* the router's approval for whoever a group trusts (vouched) and for the  *)
(* registered users of the Gnosis App.  It remembers, in memory, for whom  *)
(* it has done so, and never asks the router.                              *)
(***************************************************************************)
EXTENDS TrustLoop

VARIABLE approved      \* InMemoryRouter2ApprovalStore

Router2Init == approved = {}

Router2Forget == approved' = {}

\* Who should be approved, as the lists are.
Router2Wanted == vouched \cup JoinedIn(0, height)

\* Mutant: who is sent is remembered at once.
Router2PlanMarks ==
    /\ app = "router2" /\ work.stage = "rest"
    /\ work' = [work EXCEPT !.stage = "execute", !.plan = PlanOf({}, Router2Wanted \ approved)]
    /\ approved' = approved \cup Router2Wanted
    /\ UNCHANGED <<factVars, trusted, errorCount, mishaps>>

\* runOnce and executeRouter2Plan up to the first transaction.
Router2Plan ==
    /\ app = "router2" /\ work.stage = "rest"
    /\ work' = [work EXCEPT !.stage = "execute", !.plan = PlanOf({}, Router2Wanted \ approved)]
    /\ UNCHANGED <<factVars, trusted, errorCount, mishaps, approved>>

\* A batch that succeeds is remembered before the next is sent: onBatchSuccess.
Router2Batch ==
    /\ app = "router2"
    /\ BatchSucceeds
    /\ approved' = approved \cup Batch.members
    /\ UNCHANGED <<factVars, mishaps>>

Router2Done ==
    /\ app = "router2" /\ work.stage = "execute" /\ work.plan = <<>>
    /\ RunSucceeds
    /\ UNCHANGED <<factVars, trusted, mishaps, approved>>

Router2Step == Router2Plan \/ Router2Batch \/ Router2Done
=============================================================================
