------------------------------ MODULE RouterTms ------------------------------
(***************************************************************************)
(* The router-tms worker (src/src/apps/router-tms): a poll over all humans *)
(* and jobs for humans that a realtime listener hears of, one at a time in *)
(* one queue.  A job plans who is still to be enabled for routing, through *)
(* a base group or the default one, sends batches, and finds the addresses *)
(* that make a batch revert by simulating them one by one.                 *)
(*                                                                         *)
(* External to the code: the registrations, the base groups' members, the  *)
(* blacklist service, the router contract and the index of its trustees.   *)
(* The base groups are one: an avatar's group is the first that trusts it, *)
(* so no two of them have an avatar in common.  The listener's socket is   *)
(* abstracted to hearing of a registration or not; its order of addresses  *)
(* and those of a list to any choice of a batch.                           *)
(***************************************************************************)
EXTENDS Integers, FiniteSetsExt, Sequences

CONSTANTS
    Avatars,
    Reverting,          \* avatars that make every batch they are in revert
    BatchSize,          \* cfg.enableBatchSize
    ErrorsBeforeCrash,
    Persistent,         \* the enablement store is PostgreSQL, not memory
    NotLoaded,          \* the blacklist has not been loaded yet
    Hazards,
    MaxFailures,        \* bound: faults that are injected
    MaxListings,        \* bound: how often the blacklist changes
    MaxRestarts         \* bound: how often a signal ends the process

AllHazards ==
    {"loadFails",       \* the store shows nothing, quietly
     "markFails",       \* the store keeps nothing, quietly
     "revertLooksSafe"} \* a reverting batch is reported with a GS0xx code

ASSUME RouterAssumption ==
    /\ IsFiniteSet(Avatars) /\ Reverting \subseteq Avatars
    /\ BatchSize \in Nat \ {0} /\ ErrorsBeforeCrash \in Nat \ {0}
    /\ Persistent \in BOOLEAN /\ Hazards \subseteq AllHazards
    /\ MaxFailures \in Nat /\ MaxListings \in Nat /\ MaxRestarts \in Nat

VARIABLES
    registered,   \* the RegisterHuman table
    members,      \* avatars that a base group trusts
    listed,       \* what the blacklist service holds
    routed,       \* avatars the router trusts
    indexed,      \* what the index shows of routed
    fresh,        \* registrations that the listener may still hear of
    status,       \* the store: for which sources an avatar was enabled
    quarantine,   \* the store: addresses in quarantine
    loop,         \* the main loop: between polls, in one, or about to exit
    listening,    \* the listener is off, on, or stopped with a catch-up in flight
    heard,        \* its pendingHumans
    queue,        \* executionQueue: the jobs that wait
    run,          \* the job under way
    blacklist,    \* what the worker has loaded of listed
    errors,       \* consecutive errors
    failures, listings, restarts   \* counters for the bounds

worldVars  == <<registered, members, listed, listings>>
storeVars  == <<status, quarantine>>
memoryVars == <<loop, listening, heard, queue, run, blacklist, errors>>
vars == <<worldVars, storeVars, memoryVars, routed, indexed, fresh, failures, restarts>>

Sources == {"base-group", "fallback"}
NoPlan == [s \in Sources |-> {}]
Unmarked == [a \in Avatars |-> {}]

\* The fields planned and clean are history: what the run set out to enable, and
\* whether no fault was injected into it.
NoRun == [stage |-> "idle", kind |-> "poll", plan |-> NoPlan, source |-> "fallback",
          batch |-> {}, left |-> {}, good |-> {}, known |-> {}, bad |-> {},
          executed |-> FALSE, failed |-> FALSE, planned |-> {}, clean |-> TRUE]

Init ==
    /\ registered = {} /\ members = {} /\ listed = {} /\ routed = {} /\ indexed = {}
    /\ fresh = {} /\ status = Unmarked /\ quarantine = {}
    /\ loop = "delay" /\ listening = "off" /\ heard = {} /\ queue = <<>> /\ run = NoRun
    /\ blacklist = NotLoaded /\ errors = 0
    /\ failures = 0 /\ listings = 0 /\ restarts = 0

-----------------------------------------------------------------------------
(* The world. *)

\* A registration; a listener that is not subscribed misses it, but a new one
\* reads the block that is the head when it starts.
Register == \E a \in Avatars \ registered :
    /\ registered' = registered \cup {a}
    /\ fresh' \in {fresh, fresh \cup {a}}
    /\ UNCHANGED <<members, listed, listings, storeVars, memoryVars, routed, indexed, failures, restarts>>

Join == \E a \in Avatars \ members :
    /\ members' = members \cup {a}
    /\ UNCHANGED <<registered, listed, listings, storeVars, memoryVars, routed, indexed, fresh,
                   failures, restarts>>

BlacklistChanges == \E a \in Avatars :
    /\ listings < MaxListings
    /\ listings' = listings + 1
    /\ listed' = IF a \in listed THEN listed \ {a} ELSE listed \cup {a}
    /\ UNCHANGED <<registered, members, storeVars, memoryVars, routed, indexed, fresh, failures, restarts>>

IndexCatchesUp ==
    /\ indexed # routed /\ indexed' = routed
    /\ UNCHANGED <<worldVars, storeVars, memoryVars, routed, fresh, failures, restarts>>

\* The quarantine of an address has lasted for its time to live.
Expire(a) ==
    /\ a \in quarantine /\ quarantine' = quarantine \ {a}
    /\ UNCHANGED <<worldVars, status, memoryVars, routed, indexed, fresh, failures, restarts>>

MayFail == failures < MaxFailures /\ failures' = failures + 1

-----------------------------------------------------------------------------
(* The listener and the main loop. *)

Hear == \E a \in fresh :
    /\ listening # "off"
    /\ fresh' = fresh \ {a} /\ heard' = heard \cup {a}
    /\ UNCHANGED <<worldVars, storeVars, loop, listening, queue, run, blacklist, errors, routed,
                   indexed, failures, restarts>>

\* flushPendingHumans, and handleRealtimeHumanRegistrations up to its await.
Flush ==
    /\ heard # {}
    /\ heard' = {} /\ queue' = Append(queue, [kind |-> "realtime", avatars |-> heard])
    /\ UNCHANGED <<worldVars, storeVars, loop, listening, run, blacklist, errors, routed, indexed,
                   fresh, failures, restarts>>

\* The delay is over: the listener is stopped, and drops what it has not
\* flushed, unless a catch-up in flight sets the flush timer anew; the poll
\* waits behind the jobs that are queued.
Tick ==
    /\ loop = "delay"
    /\ loop' = "poll"
    /\ \/ listening' = "off" /\ heard' = {} /\ fresh' = {}
       \/ listening = "on" /\ listening' = "late" /\ UNCHANGED <<heard, fresh>>
    /\ queue' = Append(queue, [kind |-> "poll", avatars |-> {}])
    /\ UNCHANGED <<worldVars, storeVars, run, blacklist, errors, routed, indexed, failures, restarts>>

\* How a job ends for the main loop: realtime jobs only log.
Settle(kind, outcome) ==
    IF kind = "realtime" THEN UNCHANGED <<loop, listening, errors>>
    ELSE /\ errors' = CASE outcome = "error" -> errors + 1
                        [] outcome = "success" -> 0
                        [] outcome = "skipped" -> errors
         /\ loop' = IF errors' >= ErrorsBeforeCrash THEN "exit" ELSE "delay"
         /\ listening' = IF loop' = "delay" THEN "on" ELSE listening

\* The process starts anew: all that is in memory is gone.
Reset ==
    /\ loop' = "delay" /\ listening' = "off" /\ heard' = {} /\ queue' = <<>> /\ run' = NoRun
    /\ blacklist' = NotLoaded /\ errors' = 0 /\ fresh' = {}
    /\ IF Persistent THEN UNCHANGED storeVars ELSE status' = Unmarked /\ quarantine' = {}
    /\ UNCHANGED <<worldVars, routed, indexed, failures>>

Crash == restarts < MaxRestarts /\ restarts' = restarts + 1 /\ Reset

Exit == loop = "exit" /\ Reset /\ UNCHANGED restarts

-----------------------------------------------------------------------------
(* A job: the plan. *)

\* shouldEnableAvatarForSource: fallback is for those never enabled, a base
\* group also for those enabled by fallback before.
EligibleForFallback(a, seen) == seen[a] = {} /\ a \notin indexed

\* Mutant: an avatar is enabled once, through whichever source.
EligibleOnce(a, seen) == seen[a] = {} /\ a \notin indexed

EligibleForBaseGroup(a, seen) ==
    /\ "base-group" \notin seen[a]
    /\ "fallback" \in seen[a] \/ a \notin indexed

\* Mutant: the members of base groups are left in the default group's target.
PlanOverlapping(avatars, list, seen) ==
    LET allowed == avatars \ list
    IN [s \in Sources |-> {a \in allowed : IF s = "base-group"
                            THEN a \in members /\ EligibleForBaseGroup(a, seen)
                            ELSE EligibleForFallback(a, seen)}]

\* runForHumanAvatars: the targets, from the store as it was loaded.
PlanFor(avatars, list, seen) ==
    LET allowed == avatars \ list
        base == {a \in allowed \cap members : EligibleForBaseGroup(a, seen)}
    IN [s \in Sources |-> IF s = "base-group" THEN base
                          ELSE {a \in allowed \ base : EligibleForFallback(a, seen)}]

Entries(job) == IF job.kind = "poll" THEN registered ELSE job.avatars

\* refreshBlacklist: without a new list a job goes on with the one it has.
RefreshBlacklist ==
    \/ blacklist' = listed /\ UNCHANGED failures
    \/ blacklist # NotLoaded /\ MayFail /\ UNCHANGED blacklist

\* What a load returns: what is stored or, when it fails, nothing.
Loads(stored, nothing) == IF "loadFails" \in Hazards THEN {stored, nothing} ELSE {stored}

\* A job begins, with an answer to every read; when nothing is pending it ends.
\* The list and the store change under no other job meanwhile.
BeginRun ==
    /\ run.stage = "idle" /\ queue # <<>>
    /\ queue' = Tail(queue)
    /\ RefreshBlacklist
    /\ \E seen \in Loads(status, Unmarked), known \in Loads(quarantine, {}) :
        LET job == Head(queue)
            plan == PlanFor(Entries(job), blacklist', seen)
            planned == plan["base-group"] \cup plan["fallback"]
        IN IF planned = {} THEN Settle(job.kind, "success") /\ UNCHANGED run
           ELSE /\ run' = [NoRun EXCEPT !.stage = "batch", !.kind = job.kind, !.plan = plan,
                                        !.known = known, !.planned = planned]
                /\ UNCHANGED <<loop, listening, errors>>
    /\ UNCHANGED <<worldVars, storeVars, heard, routed, indexed, fresh, restarts>>

\* A job ends before it has a plan: the node is unhealthy, or a read throws,
\* the first load of the blacklist among them.
JobFails ==
    /\ run.stage = "idle" /\ queue # <<>>
    /\ queue' = Tail(queue)
    /\ MayFail
    /\ \/ Settle(Head(queue).kind, "skipped") /\ UNCHANGED blacklist
       \/ Settle(Head(queue).kind, "error") /\ blacklist' \in {blacklist, listed}
    /\ UNCHANGED <<worldVars, storeVars, heard, run, routed, indexed, fresh, restarts>>

-----------------------------------------------------------------------------
(* A job: its batches (executeBatchWithFallback). *)

workUnchanged == UNCHANGED <<worldVars, loop, listening, heard, queue, blacklist, errors, fresh, restarts>>

\* Mutant: a batch is marked before it is sent.
MarkNextBatch ==
    /\ run.stage = "batch" /\ run.plan # NoPlan
    /\ LET source == IF run.plan["base-group"] # {} THEN "base-group" ELSE "fallback"
           target == run.plan[source]
       IN \E chunk \in kSubset(Min({BatchSize, Cardinality(target)}), target) :
            LET batch == chunk \ (run.known \cup run.bad)
            IN /\ run' = [run EXCEPT !.plan[source] = @ \ chunk, !.source = source, !.batch = batch,
                                     !.stage = IF batch = {} THEN "batch" ELSE "sending"]
               /\ status' = [a \in Avatars |-> status[a] \cup IF a \in batch THEN {source} ELSE {}]
    /\ workUnchanged /\ UNCHANGED <<quarantine, routed, indexed, failures>>

\* The next batch: base groups first; addresses in quarantine are left out.
NextBatch ==
    /\ run.stage = "batch" /\ run.plan # NoPlan
    /\ LET source == IF run.plan["base-group"] # {} THEN "base-group" ELSE "fallback"
           target == run.plan[source]
       IN \E chunk \in kSubset(Min({BatchSize, Cardinality(target)}), target) :
            LET batch == chunk \ (run.known \cup run.bad)
            IN run' = [run EXCEPT !.plan[source] = @ \ chunk, !.source = source, !.batch = batch,
                                  !.stage = IF batch = {} THEN "batch" ELSE "sending"]
    /\ workUnchanged /\ UNCHANGED <<storeVars, routed, indexed, failures>>

Sending == run.stage \in {"sending", "retrying"}
Reverts == run.batch \cap Reverting # {}

\* The router trusts the batch; the index may show it later.
Enable == routed' = routed \cup run.batch /\ UNCHANGED indexed

SendSucceeds ==
    /\ Sending /\ ~Reverts
    /\ Enable
    /\ run' = [run EXCEPT !.stage = "marking"]
    /\ workUnchanged /\ UNCHANGED <<storeVars, failures>>

\* markEnabled, after the transaction.
Mark ==
    /\ run.stage = "marking"
    /\ \/ /\ status' = [a \in Avatars |->
                          status[a] \cup IF a \in run.batch THEN {run.source} ELSE {}]
          /\ UNCHANGED failures
       \/ "markFails" \in Hazards /\ MayFail /\ UNCHANGED status
    /\ run' = [run EXCEPT !.stage = "batch", !.batch = {}, !.executed = TRUE]
    /\ workUnchanged /\ UNCHANGED <<quarantine, routed, indexed>>

\* What the worker makes of a batch that threw: with a Safe-level code, or in
\* the second attempt, it is given up; an address alone goes into quarantine;
\* else each is probed.
AfterFailure(r, safeLevel) ==
    IF safeLevel \/ r.stage = "retrying"
    THEN [r EXCEPT !.stage = "batch", !.batch = {}, !.failed = TRUE]
    ELSE IF Cardinality(r.batch) = 1
    THEN [r EXCEPT !.stage = "batch", !.batch = {}, !.failed = TRUE, !.bad = @ \cup r.batch]
    ELSE [r EXCEPT !.stage = "probing", !.left = r.batch, !.good = {}]

SendReverts ==
    /\ Sending /\ Reverts
    /\ run' = AfterFailure(run, "revertLooksSafe" \in Hazards)
    /\ workUnchanged /\ UNCHANGED <<storeVars, routed, indexed, failures>>

\* A timeout, a rate limit, a Safe-level error; or the answer is lost and the
\* transaction mined all the same.
SendFails ==
    /\ Sending /\ MayFail
    /\ \E safeLevel \in BOOLEAN : run' = [AfterFailure(run, safeLevel) EXCEPT !.clean = FALSE]
    /\ \/ UNCHANGED <<routed, indexed>>
       \/ ~Reverts /\ Enable
    /\ workUnchanged /\ UNCHANGED storeVars

\* Mutant: a probe that reverts keeps the address in the batch.
ProbeKeepsBad ==
    /\ run.stage = "probing"
    /\ \E a \in run.left : run' = [run EXCEPT !.left = @ \ {a}, !.good = @ \cup {a},
                                              !.bad = @ \cup ({a} \cap Reverting)]
    /\ workUnchanged /\ UNCHANGED <<storeVars, routed, indexed, failures>>

\* The simulation of one address of the batch; a transient error proves nothing.
Probe ==
    /\ run.stage = "probing"
    /\ \E a \in run.left :
        \/ /\ run' = [run EXCEPT !.left = @ \ {a}, !.good = @ \cup ({a} \ Reverting),
                                 !.bad = @ \cup ({a} \cap Reverting)]
           /\ UNCHANGED failures
        \/ /\ MayFail
           /\ run' = [run EXCEPT !.left = @ \ {a}, !.good = @ \cup {a}, !.clean = FALSE]
    /\ workUnchanged /\ UNCHANGED <<storeVars, routed, indexed>>

\* The batch is tried again with the addresses that are good, if there are any.
Retry ==
    /\ run.stage = "probing" /\ run.left = {}
    /\ run' = IF run.good = {} THEN [run EXCEPT !.stage = "batch", !.batch = {}, !.failed = TRUE]
              ELSE [run EXCEPT !.stage = "retrying", !.batch = run.good, !.good = {}]
    /\ workUnchanged /\ UNCHANGED <<storeVars, routed, indexed, failures>>

\* All batches are through: new addresses go into quarantine, and the job ends,
\* for the main loop with an error when nothing was executed and something failed.
EndRun ==
    /\ run.stage = "batch" /\ run.plan = NoPlan
    /\ \/ quarantine' = quarantine \cup (run.bad \ run.known) /\ UNCHANGED failures
       \/ "markFails" \in Hazards /\ run.bad # {} /\ MayFail /\ UNCHANGED quarantine
    /\ Settle(run.kind, IF ~run.executed /\ run.failed THEN "error" ELSE "success")
    /\ run' = NoRun
    /\ UNCHANGED <<worldVars, status, heard, queue, blacklist, routed, indexed, fresh, restarts>>

-----------------------------------------------------------------------------
WorldStep == Register \/ Join \/ BlacklistChanges \/ IndexCatchesUp \/ \E a \in Avatars : Expire(a)

RunStep == BeginRun \/ NextBatch \/ SendSucceeds \/ Mark \/ SendReverts \/ Probe \/ Retry \/ EndRun

Next == \/ WorldStep \/ Hear \/ Flush \/ Tick \/ RunStep
        \/ JobFails \/ SendFails \/ Crash \/ Exit

Spec == Init /\ [][Next]_vars

\* Timers fire, jobs go on, a process that has exited is started again, the
\* index catches up, and a quarantine comes to its end.
FairSpec ==
    /\ Spec
    /\ WF_vars(RunStep) /\ WF_vars(Tick) /\ WF_vars(Exit) /\ WF_vars(IndexCatchesUp)
    /\ \A a \in Avatars : WF_vars(Expire(a))

-----------------------------------------------------------------------------
(* Properties. *)

\* Nobody is enabled who is not a registered human or whom the list that the
\* worker holds names, though base group members come from a source of their
\* own and jobs with other lists run in between (logic.ts:795-821).
EnablesOnlyAllowed ==
    [][\A a \in routed' \ routed : a \in registered /\ a \notin blacklist]_vars

\* While the store shows what it holds, no avatar is marked twice for a source,
\* nor for fallback after a base group: every batch was due, over jobs, restarts
\* and a lagging index (main.ts:62-66, logic.ts:560-584).
NothingMarkedTwice ==
    [][\A a \in run.batch, s \in Sources :
         run.stage = "marking" /\ run'.stage = "batch" /\ s = run.source
            => s \notin status[a] /\ (s = "fallback" => status[a] = {})]_vars

\* A run without faults enables all it planned but those in quarantine and
\* those that revert, and puts only the latter into quarantine: one bad
\* address does not hold up its batch (logic.ts:399-460).
BadAddressesSetApart ==
    run.stage = "batch" /\ run.plan = NoPlan /\ run.clean
        => /\ run.bad \subseteq Reverting
           /\ run.planned \ (Reverting \cup run.known) \subseteq routed

\* A human that stays off the blacklist and does not revert is routed in the
\* end, whatever the listener misses and though a fault may put it into
\* quarantine: the poll sees all (main.ts:194-222).
HumansRouted ==
    \A a \in Avatars \ Reverting :
        <>[](a \in registered \ listed) => <>(a \in routed)

\* One who was enabled by fallback is enabled again when a base group trusts it
\* (logic.ts:576-581).
BaseGroupFollows ==
    \A a \in Avatars \ Reverting :
        <>[](a \in (registered \cap members) \ listed /\ "fallback" \in status[a])
            => <>("base-group" \in status[a])
=============================================================================
