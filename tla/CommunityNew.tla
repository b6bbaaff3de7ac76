---------------------------- MODULE CommunityNew -----------------------------
(***************************************************************************)
(* The community-new worker (src/src/apps/community-new/main.ts and        *)
(* logic.ts): a loop whose every cycle brings its sources of members up to *)
(* date, compares them with what the managed groups trust, and untrusts    *)
(* and trusts in batches.                                                  *)
(*                                                                         *)
(* A variant is a membership source (COMMUNITY_NEW_MEMBERSHIP_SOURCE) with *)
(* an untrust mode (COMMUNITY_NEW_UNTRUST_MODE); the process has one for   *)
(* life.  The websocket listeners are off, the default; MultiListener has  *)
(* the new registry's.                                                     *)
(*                                                                         *)
(* External to the code: the registries, the RPC that serves wishlists and *)
(* fees, the reputation scores, the groups' trust relations.               *)
(***************************************************************************)
EXTENDS MultiMap, OldRegistrySource, Batches

CONSTANTS
    Variants,             \* the variants that may run
    Threshold,            \* minRepScore of each managed group
    Scores,               \* the scores an avatar may have
    TestAddresses,        \* COMMUNITY_NEW_TEST_ADDRESSES
    BypassReputation,     \* COMMUNITY_NEW_TEST_BYPASS_REPUTATION
    Grandfathered,        \* COMMUNITY_NEW_GRANDFATHER_ADDRESSES: none but in union mode
    MaxUntrustTotal,      \* COMMUNITY_NEW_MAX_UNTRUST_TOTAL
    RatioNum, RatioDen,   \* COMMUNITY_NEW_MAX_UNTRUST_RATIO
    BatchSize,
    ErrorsBeforeCrash,
    TrustedBefore,        \* what the groups may trust when the process starts first
    MaxMishaps,           \* bound: how often a request fails or the process ends
    MaxCriteriaChanges    \* bound: how often a score or a fee total changes

ASSUME CommunityAssumption ==
    /\ IsFiniteSet(Humans) /\ IsFiniteSet(Managed)
    /\ Variants \subseteq {"rpc", "registry", "old", "hybrid"} \X {"add-only", "union", "wishlist"}
    /\ Scores \subseteq Nat /\ Threshold \in [Managed -> Nat]
    /\ TestAddresses \subseteq Humans /\ BypassReputation \in BOOLEAN
    /\ Grandfathered \subseteq Member /\ TrustedBefore \subseteq SUBSET Member
    /\ MaxUntrustTotal \in Nat \ {0}
    /\ RatioNum \in Nat \ {0} /\ RatioDen \in Nat /\ RatioNum <= RatioDen
    /\ BatchSize \in Nat \ {0} /\ ErrorsBeforeCrash \in Nat \ {0}
    /\ MaxMishaps \in Nat /\ MaxCriteriaChanges \in Nat

VARIABLES
    source, mode,   \* the variant
    stage,          \* where start-up or the cycle is
    job,            \* what the cycle has read and planned
    errors,         \* consecutive errors
    trust,          \* external: what the managed groups trust, as members
    score,          \* external: reputation scores
    overCap,        \* external: avatars whose fees add up to more than the cap
    steady,         \* history: who had the same reason to be trusted since the cycle began
    tripped,        \* history: the last plan was refused by the circuit breaker
    mishaps, criteriaChanges   \* counters for the bounds

mapVars   == <<multi, multiRow, map, stored, lost>>
worldVars == <<chainVars, score, overCap, criteriaChanges>>
variant   == <<source, mode>>
communityVars == <<worldVars, mapVars, variant, stage, job, errors, trust, steady, tripped, mishaps>>

NoJob == [spared |-> {}, wishlist |-> {}, trustees |-> {}, plan |-> <<>>]

Operation == [op : {"untrust", "trust"}, members : SUBSET Member]

CommunityInit ==
    /\ ChainInit /\ MultiInit /\ Init
    /\ \E v \in Variants : source = v[1] /\ mode = v[2]
    /\ stage = "down" /\ job = NoJob /\ errors = 0
    /\ trust \in TrustedBefore /\ score \in [Humans -> Scores] /\ overCap = {}
    /\ steady = {} /\ tripped = FALSE /\ mishaps = 0 /\ criteriaChanges = 0

InGroup(members, g) == {m \in members : m[2] = g}

NeedsNewMap == source \in {"registry", "hybrid"}
NeedsOldMap == source \in {"old", "hybrid"}

-----------------------------------------------------------------------------
(* What the world calls for. *)

\* mergeHybridMembers: the allowlist decides per avatar which registry counts.
Merge(old, new) == {m \in old : m[1] \notin TestAddresses} \cup {m \in new : m[1] \in TestAddresses}

\* The members, as the registries behind the source have them now.
MembersNow ==
    CASE source \in {"rpc", "registry"} -> Listed(multiLog)
      [] source = "old"                 -> Affiliated(oldLog)
      [] source = "hybrid"              -> Merge(Affiliated(oldLog), Listed(multiLog))

\* The criteria: a score above the group's, and, with the RPC as the source,
\* fees within the cap.
Eligible(m) ==
    /\ \/ score[m[1]] > Threshold[m[2]]
       \/ source = "hybrid" /\ BypassReputation /\ m[1] \in TestAddresses
    /\ ~(source = "rpc" /\ m[1] \in overCap)

Wanted == {m \in MembersNow : Eligible(m)}

\* Who is not to be untrusted, and why: in add-only mode nobody is, in a group
\* without members nobody, an eligible member never, and in union mode neither a
\* member of the old registry nor one who is grandfathered.
Rightful ==
    {r \in Member \X {"add-only", "nobody listed", "eligible", "protected"} :
        CASE r[2] = "add-only"      -> mode = "add-only"
          [] r[2] = "nobody listed" -> InGroup(MembersNow, r[1][2]) = {}
          [] r[2] = "eligible"      -> r[1] \in Wanted
          [] r[2] = "protected"     -> /\ mode = "union"
                                       /\ r[1] \in Affiliated(oldLog) \cup Grandfathered}

MembersOfReasons(reasons) == {r[1] : r \in reasons}

\* A step of the world.  Only registries that the variant looks at change, and a
\* registry has no logs from before the block that the worker takes it to start at.
WorldStep ==
    /\ \/ NextBlock /\ source # "old" /\ head' >= DeployBlock /\ MultiChange
          /\ UNCHANGED <<score, overCap, criteriaChanges>>
       \/ NextBlock /\ (NeedsOldMap \/ mode = "union") /\ head' >= StartBlock /\ OldChange
          /\ UNCHANGED <<score, overCap, criteriaChanges>>
       \/ /\ criteriaChanges < MaxCriteriaChanges /\ criteriaChanges' = criteriaChanges + 1
          /\ \/ \E h \in Humans, s \in Scores :
                    s # score[h] /\ score' = [score EXCEPT ![h] = s] /\ UNCHANGED overCap
             \/ source = "rpc" /\ \E h \in Humans :
                    /\ overCap' = IF h \in overCap THEN overCap \ {h} ELSE overCap \cup {h}
                    /\ UNCHANGED score
          /\ UNCHANGED chainVars
    /\ UNCHANGED <<mapVars, variant, stage, job, errors, trust, tripped, mishaps>>
    /\ steady' = steady \cap Rightful'

-----------------------------------------------------------------------------
(* Start-up and the sources. *)

\* The stages of start-up and of a cycle's reads, those that the variant needs.
StartUp == <<"startNew", "startOld", "rest">>
Reads == <<"new", "old", "spare", "groups">>
Needed(s) == CASE s \in {"startNew", "new"} -> NeedsNewMap
               [] s \in {"startOld", "old"} -> NeedsOldMap
               [] s = "spare"               -> mode = "union"
               [] OTHER                     -> TRUE

FirstNeeded(stages) ==
    LET first == CHOOSE i \in DOMAIN stages :
                    Needed(stages[i]) /\ \A j \in 1 .. i - 1 : ~Needed(stages[j])
    IN  stages[first]

\* start(): the rows are loaded.
Start ==
    /\ stage = "down"
    /\ stage' = FirstNeeded(StartUp)
    /\ LoadMulti /\ LoadOld
    /\ UNCHANGED <<worldVars, variant, job, errors, trust, steady, tripped, mishaps>>

\* refreshMultiMap: before the loop, and in each cycle.
RefreshNewSource ==
    /\ stage \in {"startNew", "new"}
    /\ stage' = FirstNeeded(Tail(IF stage = "startNew" THEN StartUp ELSE Reads))
    /\ RefreshMulti
    /\ UNCHANGED <<worldVars, variant, map, stored, lost, job, errors, trust, steady, tripped, mishaps>>

AfterOld == IF stage = "startOld" THEN "rest" ELSE FirstNeeded(<<"spare", "groups">>)

\* oldSource.refresh, likewise.
RefreshOldSource ==
    /\ stage \in {"startOld", "old"}
    /\ stage' = AfterOld
    /\ RefreshOld
    /\ UNCHANGED <<worldVars, variant, multi, multiRow, job, errors, trust, steady, tripped, mishaps>>

\* The delay is over, the node is healthy, the thresholds are read.
BeginCycle ==
    /\ stage = "rest"
    /\ stage' = FirstNeeded(Reads)
    /\ job' = NoJob
    /\ steady' = Rightful
    /\ UNCHANGED <<worldVars, mapVars, variant, errors, trust, tripped, mishaps>>

\* Union mode: mergeProtectedTrustees.
ReadSpared ==
    /\ stage = "spare"
    /\ stage' = "groups"
    /\ job' = [job EXCEPT !.spared = FetchOldMembers \cup Grandfathered]
    /\ UNCHANGED <<worldVars, mapVars, variant, errors, trust, steady, tripped, mishaps>>

-----------------------------------------------------------------------------
(* runCommunityReconciliation (logic.ts). *)

\* buildWishlistOverride, or fetchAllGroupMembersWishlist with the RPC as source.
\* No refresh comes between, so the maps are as this cycle's refresh left them.
Wishlist ==
    CASE source = "rpc"      -> Listed(multiLog)
      [] source = "registry" -> multi.members
      [] source = "old"      -> OldMembers
      [] source = "hybrid"   -> Merge(OldMembers, multi.members)

\* The snapshots: wishlists and trustees of all groups.
ReadGroups ==
    /\ stage = "groups"
    /\ stage' = "criteria"
    /\ job' = [job EXCEPT !.wishlist = Wishlist, !.trustees = trust]
    /\ UNCHANGED <<worldVars, mapVars, variant, errors, trust, steady, tripped, mishaps>>

\* Mutant: an empty wishlist means that everybody has left.
UntrustPolicyUnguarded(raw) ==
    CASE mode = "add-only" -> {}
      [] mode = "union"    -> raw \ job.spared
      [] mode = "wishlist" -> raw

\* applyUntrustPolicy
UntrustPolicy(raw) ==
    LET listed == {m \in raw : InGroup(job.wishlist, m[2]) # {}}
    IN  CASE mode = "add-only" -> {}
          [] mode = "union"    -> listed \ job.spared
          [] mode = "wishlist" -> listed

\* Mutant: the share of a group is not looked at.
WithinTotal(untrusted) == Cardinality(untrusted) <= MaxUntrustTotal

\* assertUntrustWithinCaps
WithinCaps(untrusted) ==
    /\ Cardinality(untrusted) <= MaxUntrustTotal
    /\ \A g \in Managed :
        Cardinality(InGroup(untrusted, g)) * RatioDen <= Cardinality(InGroup(job.trustees, g)) * RatioNum

\* executePlan: every untrust comes before every trust.
PlanFor(untrusted, trusted) ==
    LET groups == SetToSeq(Managed)
        Ops(op, members) ==
            FlattenSeq([i \in DOMAIN groups |->
                            BatchesOf(op, InGroup(members, groups[i]), BatchSize)])
    IN  Ops("untrust", untrusted) \o Ops("trust", trusted)

EligibleListed == {m \in job.wishlist : Eligible(m)}

\* Mutant: a member whose score has fallen is kept.
ToUntrustUnlisted == UntrustPolicy(job.trustees \ job.wishlist)

ToUntrust == UntrustPolicy(job.trustees \ EligibleListed)

\* The cycle ends in an error: after too many in a row the process exits.
CycleError ==
    /\ job' = NoJob /\ steady' = {}
    /\ IF errors + 1 >= ErrorsBeforeCrash THEN stage' = "down" /\ errors' = 0
                                          ELSE stage' = "rest" /\ errors' = errors + 1

\* Scores and fees of the listed avatars are read, the plan is made and passes
\* the circuit breaker, or is refused before anything is sent.
Decide ==
    /\ stage = "criteria"
    /\ \/ /\ WithinCaps(ToUntrust)
          /\ job' = [job EXCEPT !.plan = PlanFor(ToUntrust, EligibleListed \ job.trustees)]
          /\ stage' = "execute" /\ tripped' = FALSE /\ UNCHANGED <<errors, steady>>
       \/ ~WithinCaps(ToUntrust) /\ CycleError /\ tripped' = TRUE
    /\ UNCHANGED <<worldVars, mapVars, variant, trust, mishaps>>

\* A Safe transaction is executed on chain.
Carry(op) == trust' = IF op.op = "trust" THEN trust \cup op.members ELSE trust \ op.members

ExecuteOperation ==
    /\ stage = "execute" /\ job.plan # <<>>
    /\ Carry(Head(job.plan))
    /\ job' = [job EXCEPT !.plan = Tail(@)]
    /\ UNCHANGED <<worldVars, mapVars, variant, stage, errors, steady, tripped, mishaps>>

EndCycle ==
    /\ stage = "execute" /\ job.plan = <<>>
    /\ stage' = "rest" /\ errors' = 0 /\ job' = NoJob /\ steady' = {}
    /\ UNCHANGED <<worldVars, mapVars, variant, trust, tripped, mishaps>>

-----------------------------------------------------------------------------
(* Failures. *)

\* A request of the cycle fails; a transaction may be reported as failed though
\* it is carried out.
RequestFails ==
    /\ mishaps < MaxMishaps /\ mishaps' = mishaps + 1
    /\ stage \in {"new", "old", "spare", "groups", "criteria", "execute"}
    /\ \/ UNCHANGED trust
       \/ job.plan # <<>> /\ Carry(Head(job.plan))
    /\ CycleError
    /\ UNCHANGED <<worldVars, mapVars, variant, tripped>>

\* The node answers without a block number: refreshInner takes that for nothing new,
\* and the cycle goes on with the map as it is.
OldHeadUnknown ==
    /\ mishaps < MaxMishaps /\ mishaps' = mishaps + 1
    /\ stage \in {"startOld", "old"}
    /\ stage' = AfterOld
    /\ steady' = {}
    /\ UNCHANGED <<worldVars, mapVars, variant, job, errors, trust, tripped>>

\* A signal, a crash, a failure at start-up: what is in memory is gone.
Crash ==
    /\ mishaps < MaxMishaps /\ mishaps' = mishaps + 1
    /\ stage # "down"
    /\ stage' = "down" /\ job' = NoJob /\ errors' = 0 /\ steady' = {}
    /\ UNCHANGED <<worldVars, mapVars, variant, trust, tripped>>

-----------------------------------------------------------------------------
CommunityStep == \/ Start \/ RefreshNewSource \/ RefreshOldSource \/ BeginCycle
                 \/ ReadSpared \/ ReadGroups \/ Decide \/ ExecuteOperation \/ EndCycle

CommunityNext == WorldStep \/ CommunityStep \/ RequestFails \/ OldHeadUnknown \/ Crash

\* The worker's own steps are taken, a process that has exited is started again.
\* Nothing makes the world move, a request fail or the process end.
CommunitySpec == CommunityInit /\ [][CommunityNext]_communityVars
FairCommunitySpec == CommunitySpec /\ WF_communityVars(CommunityStep)

-----------------------------------------------------------------------------
\* The affiliate map says what the old registry says on the blocks that it claims
\* to have scanned, and so does its row (oldRegistrySource.ts, refreshInner).
OldMapIsReplay ==
    \A h \in Humans : \A s \in {FromSnapshot(Snapshot(map))} \cup
                              (IF stored = NoRow THEN {} ELSE {FromSnapshot(stored)}) :
        (IF s.toGroup[h] = NoGroup THEN ZeroGroup ELSE s.toGroup[h])
            = GroupIn(UpTo(oldLog, s.block), h)

\* Nobody loses the trust of a group who had one and the same right to it ever
\* since the cycle began: an eligible member, anybody while the group has no members at all, in
\* union mode also a member of the old registry or a grandfathered one, in
\* add-only mode anybody.  Only a cycle whose old map was not brought up to date
\* (OldHeadUnknown) promises nothing.  Failed saves, restarts, failed batches and changes
\* during the cycle do not matter (logic.ts, applyUntrustPolicy; main.ts, the
\* order of refresh, override, protected set and reconciliation).
SteadyMembersKept == [][(trust \ trust') \cap MembersOfReasons(steady) = {}]_communityVars

\* Whatever fails, goes unanswered or changes after the check, no step leaves a cycle
\* with more taken away than the total in all, or than its share from one of the
\* groups -- nor does the transaction that is reported as failed and ends it
\* (logic.ts, assertUntrustWithinCaps).
CycleWithinCaps ==
    [][LET gone == job.trustees \ trust'
       IN  stage = "execute" =>
               /\ Cardinality(gone) <= MaxUntrustTotal
               /\ \A g \in Managed :
                   Cardinality(InGroup(gone, g)) * RatioDen
                       <= Cardinality(InGroup(job.trustees, g)) * RatioNum]_communityVars

\* A row never goes back, though a load has failed and the map has begun anew: it is
\* saved again only when a refresh has read up to the head, and so past whatever
\* was in the row (oldRegistrySource.ts, refreshInner; main.ts, refreshMultiMap).
RowsNeverGoBack ==
    [][/\ stored # NoRow => stored' # NoRow /\ stored'.block >= stored.block
       /\ multiRow'.block >= multiRow.block]_communityVars

\* In the end the groups trust whom they should, and nobody but those who are
\* not to be untrusted -- unless the circuit breaker refuses plan after plan.
CommunityConverges ==
    <>[](Wanted \subseteq trust /\ trust \subseteq MembersOfReasons(Rightful)) \/ []<>tripped
=============================================================================
