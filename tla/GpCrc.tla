-------------------------------- MODULE GpCrc --------------------------------
(***************************************************************************)
(* The gp-crc worker (src/src/apps/gp-crc/main.ts and logic.ts): a loop    *)
(* that trusts humans who own a Metri safe.  A safe counts for one owner.  *)
(* When another owner is linked with it later the trust moves over, but    *)
(* only MAX_SAFE_OWNER_SWITCHES times; the worker remembers, in memory,    *)
(* for whom each safe counts.                                              *)
(*                                                                         *)
(* External to the code: the registrations, Metri's table of owners, the   *)
(* blacklist service and the group's trust relations.  A run reads them as *)
(* they are: the index of trustees is taken to have caught up between two  *)
(* runs, an interval apart (NoMoreTrusteesThanSafes depends on it).        *)
(* The store's other map, avatar to safe, is read only for a safe that has *)
(* no trust state; the in-memory store has one for every safe it maps.     *)
(***************************************************************************)
EXTENDS Integers, FiniteSets

CONSTANTS
    Avatars,            \* addresses, as numbers: their order breaks a tie
    Safes,
    MaxSwitches,        \* MAX_SAFE_OWNER_SWITCHES
    BatchSize,          \* cfg.groupBatchSize
    ErrorsBeforeCrash,
    NotLoaded,          \* the blacklist has not been loaded yet
    MaxLinks,           \* bound: how often an owner is linked with a safe
    MaxChanges,         \* bound: how often a link is removed or the blacklist changes
    MaxFailures         \* bound: how often a run fails or the process ends

ASSUME GpCrcAssumption ==
    /\ IsFiniteSet(Avatars) /\ Avatars \subseteq Nat
    /\ IsFiniteSet(Safes)
    /\ MaxSwitches \in Nat /\ BatchSize \in Nat \ {0} /\ ErrorsBeforeCrash \in Nat \ {0}
    /\ {MaxLinks, MaxChanges, MaxFailures} \subseteq Nat

VARIABLES
    humans,      \* the RegisterHuman table
    linked,      \* since when an avatar owns a safe; Never when it does not
    listed,      \* what the blacklist service holds
    trust,       \* the group's trustees
    blacklist,   \* what the worker has loaded of listed
    state,       \* the store: for whom a safe counts, since when, and how often that changed
    run,         \* the run under way
    errors,      \* consecutive errors
    served,      \* history: the avatars that a safe has stood for in this process
    links, changes, failures   \* counters for the bounds

worldVars == <<humans, linked, listed, links, changes>>
memoryVars == <<blacklist, state, errors, served>>
vars == <<worldVars, trust, memoryVars, run, failures>>

Never == 0
NoState == [avatar |-> -1, since |-> Never, switches |-> 0]
Idle == [stage |-> "idle", trustees |-> {}, allowed |-> {}, untrust |-> {}, trust |-> {}]

SafeTrustState == [avatar : Avatars, since : Nat \ {Never}, switches : 0 .. MaxSwitches]

TypeOK ==
    /\ {humans, listed, trust} \subseteq SUBSET Avatars
    /\ linked \in [Safes -> [Avatars -> Nat]]
    /\ blacklist = NotLoaded \/ blacklist \subseteq Avatars
    /\ state \in [Safes -> SafeTrustState \cup {NoState}]
    /\ run \in [stage : {"idle", "safes", "untrust", "trust"}, trustees : SUBSET Avatars,
                allowed : SUBSET Avatars, untrust : SUBSET Avatars, trust : SUBSET Avatars]
    /\ errors \in 0 .. ErrorsBeforeCrash - 1
    /\ served \in [Safes -> SUBSET Avatars]
    /\ {links, changes, failures} \subseteq Nat

Init ==
    /\ humans = {} /\ listed = {} /\ trust = {}
    /\ linked = [s \in Safes |-> [a \in Avatars |-> Never]]
    /\ blacklist = NotLoaded /\ state = [s \in Safes |-> NoState]
    /\ run = Idle /\ errors = 0
    /\ served = [s \in Safes |-> {}]
    /\ links = 0 /\ changes = 0 /\ failures = 0

-----------------------------------------------------------------------------
(* The world. *)

workerUnchanged == UNCHANGED <<trust, memoryVars, run, failures>>

Register == \E a \in Avatars \ humans :
    /\ humans' = humans \cup {a}
    /\ UNCHANGED <<linked, listed, links, changes>> /\ workerUnchanged

\* An owner is linked with a safe, in the block of the link before or later.
Link == \E s \in Safes, a \in Avatars :
    /\ links < MaxLinks /\ linked[s][a] = Never
    /\ links' = links + 1
    /\ \E time \in {links, links + 1} \ {Never} : linked' = [linked EXCEPT ![s][a] = time]
    /\ UNCHANGED <<humans, listed, changes>> /\ workerUnchanged

Unlink == \E s \in Safes, a \in Avatars :
    /\ changes < MaxChanges /\ linked[s][a] # Never
    /\ changes' = changes + 1
    /\ linked' = [linked EXCEPT ![s][a] = Never]
    /\ UNCHANGED <<humans, listed, links>> /\ workerUnchanged

BlacklistChanges == \E a \in Avatars :
    /\ changes < MaxChanges
    /\ changes' = changes + 1
    /\ listed' = IF a \in listed THEN listed \ {a} ELSE listed \cup {a}
    /\ UNCHANGED <<humans, linked, links>> /\ workerUnchanged

-----------------------------------------------------------------------------
(* The loop: main.ts. *)

MayFail == failures < MaxFailures /\ failures' = failures + 1

\* The process ends and is started again: the store is in memory.
Exit ==
    /\ run' = Idle /\ errors' = 0 /\ blacklist' = NotLoaded
    /\ state' = [s \in Safes |-> NoState] /\ served' = [s \in Safes |-> {}]

Crash ==
    /\ MayFail /\ Exit
    /\ UNCHANGED <<worldVars, trust>>

\* A run ends in an error; after ErrorsBeforeCrash of them in a row the process
\* exits.
Fail ==
    /\ MayFail
    /\ IF errors + 1 >= ErrorsBeforeCrash THEN Exit
       ELSE run' = Idle /\ errors' = errors + 1 /\ UNCHANGED <<blacklist, state, served>>

RunFails ==
    /\ run.stage # "idle" \/ blacklist = NotLoaded    \* the first load of the blacklist
    /\ Fail
    /\ UNCHANGED <<worldVars, trust>>

\* Without a new list the run goes on with the one it has.
RefreshBlacklist ==
    \/ blacklist' = listed /\ UNCHANGED failures
    \/ blacklist # NotLoaded /\ MayFail /\ UNCHANGED blacklist

\* partitionBlacklistedAddresses: an address without a verdict is allowed.
Allowed(avatars, list) == avatars \ list

\* The run reads the humans and the trustees, and asks for verdicts on both.
BeginRun ==
    /\ run.stage = "idle"
    /\ RefreshBlacklist
    /\ run' = [Idle EXCEPT !.stage = "safes", !.trustees = trust,
                           !.allowed = Allowed(humans \cup trust, blacklist')]
    /\ UNCHANGED <<worldVars, trust, state, errors, served>>

-----------------------------------------------------------------------------
(* The owners of safes: metriSafeService.ts and runOnce, with its store. *)

Owners(s, avatars) == {a \in avatars : linked[s][a] # Never}

\* findAvatarsWithSafes: the latest owner among the avatars asked for and, of
\* two that are, the lower address.
IsSelected(s, a, avatars) ==
    /\ a \in Owners(s, avatars)
    /\ \A b \in Owners(s, avatars) \ {a} :
          linked[s][a] > linked[s][b] \/ (linked[s][a] = linked[s][b] /\ a < b)

Later(t, u) == IF t > u THEN t ELSE u

\* For whom a safe counts, when an owner is selected who has it since a time:
\* the trust moves to a later owner, up to MaxSwitches times.
Counted(previous, owner, since) ==
    IF previous = NoState
    THEN [avatar |-> owner, since |-> since, switches |-> 0]
    ELSE IF previous.avatar = owner
    THEN [previous EXCEPT !.since = Later(since, @)]
    ELSE IF since > previous.since /\ previous.switches < MaxSwitches
    THEN [avatar |-> owner, since |-> since, switches |-> previous.switches + 1]
    ELSE previous

Plan(eligible) ==
    run' = [run EXCEPT !.stage = "untrust", !.untrust = run.trustees \ eligible,
                       !.trust = eligible \ run.trustees]

\* The safes that the lookup tells of: an answer without a list counts as empty.
Lookup(found) ==
    \/ found = {s \in Safes : Owners(s, run.allowed) # {}} /\ UNCHANGED failures
    \/ found = {} /\ MayFail

\* The safes are looked up, the store is loaded and saved, and the plan is made.
\* Nothing is sent yet.
Decide ==
    /\ run.stage = "safes"
    /\ \E found \in SUBSET Safes :
        /\ Lookup(found)
        /\ \E owner \in [found -> run.allowed] :
            /\ \A s \in found : IsSelected(s, owner[s], run.allowed)
            /\ state' = [s \in Safes |-> IF s \in found
                                         THEN Counted(state[s], owner[s], linked[s][owner[s]])
                                         ELSE state[s]]
        /\ Plan({a \in run.allowed : \E s \in found : state'[s].avatar = a})
        /\ served' = [s \in Safes |->
                        served[s] \cup IF s \in found THEN {state'[s].avatar} ELSE {}]
    /\ UNCHANGED <<worldVars, trust, blacklist, errors>>

-----------------------------------------------------------------------------
(* The batches. *)

\* A batch of what is left: full, or all of it.
IsBatch(batch, left) ==
    \/ Cardinality(batch) = BatchSize
    \/ batch # {} /\ batch = left /\ Cardinality(left) < BatchSize

UntrustBatch ==
    /\ run.stage = "untrust"
    /\ \E batch \in SUBSET run.untrust :
        /\ IsBatch(batch, run.untrust)
        /\ trust' = trust \ batch
        /\ run' = [run EXCEPT !.untrust = @ \ batch]
    /\ UNCHANGED <<worldVars, memoryVars, failures>>

\* Mutant: trust comes first.
TrustBatchAtOnce ==
    /\ run.stage \in {"untrust", "trust"}
    /\ \E batch \in SUBSET run.trust :
        /\ IsBatch(batch, run.trust)
        /\ trust' = trust \cup batch
        /\ run' = [run EXCEPT !.trust = @ \ batch]
    /\ UNCHANGED <<worldVars, memoryVars, failures>>

TrustBatch ==
    /\ run.stage = "trust"
    /\ \E batch \in SUBSET run.trust :
        /\ IsBatch(batch, run.trust)
        /\ trust' = trust \cup batch
        /\ run' = [run EXCEPT !.trust = @ \ batch]
    /\ UNCHANGED <<worldVars, memoryVars, failures>>

\* All attempts at a batch fail, or the last is carried out all the same.
BatchReportedFailed ==
    /\ \/ run.stage = "untrust" /\ run.untrust # {} /\ \E batch \in SUBSET run.untrust :
            IsBatch(batch, run.untrust) /\ trust' = trust \ batch
       \/ run.stage = "trust" /\ run.trust # {} /\ \E batch \in SUBSET run.trust :
            IsBatch(batch, run.trust) /\ trust' = trust \cup batch
    /\ Fail
    /\ UNCHANGED worldVars

Untrusted ==
    /\ run.stage = "untrust" /\ run.untrust = {}
    /\ run' = [run EXCEPT !.stage = "trust"]
    /\ UNCHANGED <<worldVars, trust, memoryVars, failures>>

EndRun ==
    /\ run.stage = "trust" /\ run.trust = {}
    /\ run' = Idle /\ errors' = 0
    /\ UNCHANGED <<worldVars, trust, blacklist, state, served, failures>>

-----------------------------------------------------------------------------
WorldStep == Register \/ Link \/ Unlink \/ BlacklistChanges

RunStep == BeginRun \/ Decide \/ UntrustBatch \/ Untrusted \/ TrustBatch \/ EndRun

Next == WorldStep \/ RunStep \/ RunFails \/ BatchReportedFailed \/ Crash

Spec == Init /\ [][Next]_vars

\* The loop goes on.  Failures are bounded, so that a run succeeds some time.
FairSpec == Spec /\ WF_vars(RunStep)

-----------------------------------------------------------------------------
(* Properties. *)

\* A safe never makes two avatars trusted at a time: the owner who has lost it
\* is untrusted before its successor is trusted, whatever fails in between and
\* though a restart forgets for whom the safe counted (logic.ts:285-363).
NoMoreTrusteesThanSafes == Cardinality(trust) <= Cardinality(Safes)

\* While a process lives a safe stands for no more than MaxSwitches avatars
\* after its first, however often its owners change and whether or not the
\* transactions of a run succeed (logic.ts:180-197).
SwitchesBounded == \A s \in Safes : Cardinality(served[s]) <= MaxSwitches + 1

\* The trustees are those for whom a safe counts and who are not blacklisted.
TrustFollowsState ==
    trust = {a \in Avatars \ listed :
                \E s \in Safes : state[s].avatar = a
                                 /\ Owners(s, (humans \cup trust) \ listed) # {}}
=============================================================================
