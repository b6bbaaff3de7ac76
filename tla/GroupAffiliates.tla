--------------------------- MODULE GroupAffiliates ---------------------------
(***************************************************************************)
(* The group-affiliates worker (src/src/apps/group-affiliates/main.ts and  *)
(* logic.ts) on top of its listener and its affiliate map: start-up,       *)
(* processing of a batch step by step, reputation reconciliation, the two  *)
(* rows it persists, and the end of the process at any moment.             *)
(*                                                                         *)
(* External to the code: the registry (a human's affiliate group is what   *)
(* its last log says), the groups' trust relations, the index over them    *)
(* that circles_query reads, and the reputation scores.                    *)
(*                                                                         *)
(* One task runs at a time: job is the one that runs.  Between its steps   *)
(* the chain, the scores and the listener go on.  A plan has at most one   *)
(* transaction per group and direction: Humans is no larger than batchSize.*)
(***************************************************************************)
EXTENDS AffiliateListener, AffiliateMap, SequencesExt

CONSTANTS
    Managed,          \* the managed groups
    ZeroGroup,        \* the affiliate group of a human that never chose one
    Threshold,        \* minRepScore of each managed group
    Scores,           \* the scores a human may have
    Confirmations,    \* CONFIRMATION_BLOCKS
    StartBlock,       \* GROUP_AFFILIATES_START_BLOCK
    ProbeFails,       \* the node may be unhealthy at start-up
    IndexLags,        \* the index of trust relations may be behind the chain
    MaxDisturbances   \* bound: how often the process ends, the store fails or a score changes

ASSUME WorkerAssumption ==
    /\ Managed \subseteq Groups /\ IsFiniteSet(Managed) /\ ZeroGroup \in Groups \ Managed
    /\ Changes \subseteq [human : Humans, from : Groups, to : Groups]
    /\ Scores \subseteq Nat /\ Threshold \in [Managed -> Nat]
    /\ Confirmations \in Nat /\ StartBlock \in Nat
    /\ StartCursor = InclusiveBlockCursor(StartBlock)
    /\ MaxLogsPerBlock >= 1 /\ MaxDisturbances \in Nat
    /\ {ProbeFails, IndexLags} \subseteq BOOLEAN

VARIABLES
    phase,         \* down, backfill, replay, live
    job,           \* the task being executed
    map,           \* affiliateMap
    savedCursor,   \* the row of app "group-affiliates"
    savedMap,      \* the row of the affiliate map
    trust,         \* external: the humans each managed group trusts
    indexed,       \* external: the same, as circles_query answers
    score,         \* external: reputation scores
    applied,       \* history: logs whose batch was carried out to its end
    disturbances   \* counter for the bound

worldVars == <<trust, indexed, score>>
storeVars == <<savedCursor, savedMap>>
appVars   == <<phase, job, map, storeVars, worldVars, applied, disturbances>>
workerVars == <<vars, appVars>>

NoJob == [kind |-> "none", stage |-> "idle", batch |-> {}, cursor |-> NoCursor, plan |-> <<>>]

FreshMap == FromSnapshot(EmptySnapshot(StartBlock - 1))

WorkerInit ==
    /\ Init
    /\ phase = "down" /\ job = NoJob /\ map = FreshMap
    /\ savedCursor = StartCursor /\ savedMap = Snapshot(FreshMap)
    /\ trust = [g \in Managed |-> {}] /\ indexed = trust
    /\ score \in [Humans -> Scores]
    /\ applied = {}
    /\ disturbances = 0

-----------------------------------------------------------------------------
(* The world. *)

EventsOf(events, h) == {e \in events : e.change.human = h}

\* What the registry answers for h when the given logs are its history.
GroupIn(events, h) == IF EventsOf(events, h) = {} THEN ZeroGroup
                      ELSE LastOf(EventsOf(events, h)).change.to

Eligible(h, g) == score[h] > Threshold[g]

\* The trust relations that the chain and the scores call for.
Wanted(g) == {h \in Humans : GroupIn(log, h) = g /\ Eligible(h, g)}

\* Humans set an affiliate group, possibly the one they have, one after the other
\* in a block.
ChangeAffiliate == \E n \in 1 .. MaxLogsPerBlock : \E changes \in [0 .. n - 1 -> Changes] :
    LET new == LogsOfBlock(head + 1, changes)
    IN  /\ \A e \in new : e.change.from = GroupIn(log \cup {f \in new : Before(f.cursor, e.cursor)},
                                                 e.change.human)
        /\ MineBlock(new)
        /\ UNCHANGED appVars

EmptyBlock == MineBlock({}) /\ UNCHANGED appVars

Disturbance == disturbances < MaxDisturbances /\ disturbances' = disturbances + 1

ChangeScore == \E h \in Humans : \E s \in Scores \ {score[h]} :
    /\ Disturbance
    /\ score' = [score EXCEPT ![h] = s]
    /\ UNCHANGED <<vars, phase, job, map, storeVars, trust, indexed, applied>>

IndexCatchesUp ==
    /\ indexed # trust
    /\ indexed' = trust
    /\ UNCHANGED <<vars, phase, job, map, storeVars, trust, score,
                   applied, disturbances>>

-----------------------------------------------------------------------------
(* Decisions: logic.ts. *)

Real(batch) == {e \in batch : e.change.from # e.change.to}

\* The events of h that leave or join g.
Touching(batch, h, g) ==
    {e \in Real(EventsOf(batch, h)) : g \in {e.change.from, e.change.to}}

\* Mutant: the newest event is applied first.
ApplyEventsReversed(m, batch) ==
    LET First(events) == CHOOSE e \in events : \A f \in events : AtOrBefore(e.cursor, f.cursor)
        replay[events \in SUBSET batch] ==
            IF events = {} THEN m
            ELSE LET e == First(events)
                 IN  MapSet(replay[events \ {e}], e.change.human, e.change.to, e.cursor.block)
    IN  replay[batch]

\* Events taken into the map in the order of their cursors: the latest is taken in
\* last.  The backfill takes in all of them, processEvents only the real changes.
ApplyEvents(m, batch) ==
    LET replay[events \in SUBSET batch] ==
            IF events = {} THEN m
            ELSE LET e == LastOf(events)
                 IN  MapSet(replay[events \ {e}], e.change.human, e.change.to, e.cursor.block)
    IN  replay[batch]

\* One operation for each group that has anybody to trust, or to untrust.
Operations(op, humansOf) ==
    LET groups == SetToSeq({g \in Managed : humansOf[g] # {}})
    IN  [i \in DOMAIN groups |-> [op |-> op, group |-> groups[i], humans |-> humansOf[groups[i]]]]

\* Mutant: trusts come first.
PlanTrustsFirst(untrusted, trusted) ==
    Operations("trust", trusted) \o Operations("untrust", untrusted)

\* executePlannedOperations: all untrusts come before all trusts.
PlanFor(untrusted, trusted) ==
    Operations("untrust", untrusted) \o Operations("trust", trusted)

\* Mutant: any event that touches a group asks for trust there.
EventPlanOfTouched(batch) ==
    LET touched == [g \in Managed |-> {h \in Humans : Touching(batch, h, g) # {}}]
    IN  PlanFor([g \in Managed |-> {h \in touched[g] \cap indexed[g] : ~Eligible(h, g)}],
                [g \in Managed |-> {h \in touched[g] \ indexed[g] : Eligible(h, g)}])

\* runForAffiliateEvents: the last event of a human that touches a group says
\* whether it is to be trusted there.
EventPlan(batch) ==
    LET touched == [g \in Managed |-> {h \in Humans : Touching(batch, h, g) # {}}]
        desired == [g \in Managed |-> {h \in touched[g] :
                        /\ LastOf(Touching(batch, h, g)).change.to = g
                        /\ Eligible(h, g)}]
    IN  PlanFor([g \in Managed |-> (touched[g] \cap indexed[g]) \ desired[g]],
                [g \in Managed |-> desired[g] \ indexed[g]])

\* Mutant: reconciliation adds no trust.
ReconcilePlanUntrustOnly ==
    PlanFor([g \in Managed |-> {h \in indexed[g] : ~Eligible(h, g)}], [g \in Managed |-> {}])

\* runReputationReconciliation: untrusts follow the scores, trusts the map.
ReconcilePlan ==
    PlanFor([g \in Managed |-> {h \in indexed[g] : ~Eligible(h, g)}],
            [g \in Managed |-> {h \in AffiliatesOf(map, g) \ indexed[g] : Eligible(h, g)}])

-----------------------------------------------------------------------------
(* Start-up: main.ts, start. *)

SafeHead == IF head > Confirmations THEN head - Confirmations ELSE 0

\* A failed load is answered like a row that is not there.
Start ==
    /\ phase = "down"
    /\ phase' = "backfill"
    /\ \/ lastSeen' = savedCursor /\ UNCHANGED disturbances
       \/ lastSeen' = StartCursor /\ Disturbance
    /\ UNCHANGED <<chainVars, socketVars, pending, catchUp, tasks, processed, job, map,
                   storeVars, worldVars, applied>>

\* saveAffiliateMap: a clean map is not saved; a failed save goes unnoticed.
SaveMapAs(m, block) ==
    LET advanced == AdvanceTo(m, block)
    IN  /\ map' = [advanced EXCEPT !.dirty = FALSE]
        /\ \/ /\ savedMap' = IF advanced.dirty THEN Snapshot(advanced) ELSE savedMap
              /\ UNCHANGED disturbances
           \/ UNCHANGED savedMap /\ Disturbance

\* ensureAffiliateMapBackfill: from the block after the loaded map's to the safe
\* head.  One chunk; the process may end before it and after it.
Backfilled(loaded) ==
    LET target == Later(StartBlock, SafeHead)
        events == EventsBetween(log, Later(StartBlock, loaded.block + 1), target, NoCursor)
    IN  IF loaded.block >= target THEN loaded ELSE AdvanceTo(ApplyEvents(loaded, events), target)

\* A load that fails leaves a fresh map; the save after it may fail or not.
Backfill ==
    /\ phase = "backfill"
    /\ phase' = "replay"
    /\ \/ LET m == Backfilled(FromSnapshot(savedMap)) IN SaveMapAs(m, m.block)
       \/ LET m == Backfilled(FreshMap)
          IN  /\ Disturbance
              /\ map' = [m EXCEPT !.dirty = FALSE] /\ savedMap' \in {savedMap, Snapshot(m)}
    /\ UNCHANGED <<vars, job, savedCursor, worldVars, applied>>

\* runStartupReplay without a replay: the node is unhealthy, or the cursor is
\* already past the safe head.
SkipReplay ==
    /\ phase = "replay" /\ job = NoJob
    /\ ProbeFails \/ SafeHead < lastSeen.block
    /\ phase' = "live"
    /\ UNCHANGED <<vars, job, map, storeVars, worldVars, applied, disturbances>>

EventsJob(batch, cursor) ==
    [kind |-> "events", stage |-> "execute", batch |-> batch, cursor |-> cursor,
     plan |-> EventPlan(batch)]

\* runStartupReplay up to the decisions of processEvents.
BeginReplay ==
    /\ phase = "replay" /\ job = NoJob
    /\ SafeHead >= lastSeen.block
    /\ LET events == EventsBetween(log, lastSeen.block, SafeHead, lastSeen)
       IN  /\ map' = ApplyEvents(map, Real(events))
           /\ job' = EventsJob(events, HeadCursor(SafeHead))
    /\ UNCHANGED <<vars, phase, storeVars, worldVars, applied, disturbances>>

-----------------------------------------------------------------------------
(* A task: main.ts, processEvents, processReputationReconciliation and the   *)
(* listener's onEvents.                                                      *)

\* The timer of the reconciliation loop.  Bound: one such task at a time.
ReconcileTick ==
    /\ phase = "live"
    /\ \A i \in DOMAIN tasks : tasks[i].source # "reconcile"
    /\ tasks' = Append(tasks, [source |-> "reconcile", batch |-> {}])
    /\ UNCHANGED <<chainVars, socketVars, lastSeen, pending, catchUp, processed, appVars>>

\* The first task of the queue: the map takes the batch before anything can
\* fail, then scores and trustees are read and the plan is made.
BeginTask ==
    /\ phase = "live" /\ job = NoJob /\ tasks # <<>>
    /\ LET task == Head(tasks)
       IN  IF task.source = "reconcile"
             THEN /\ job' = [kind |-> "reconcile", stage |-> "execute", batch |-> {},
                             cursor |-> NoCursor, plan |-> ReconcilePlan]
                  /\ UNCHANGED map
             ELSE /\ map' = ApplyEvents(map, Real(task.batch))
                  /\ job' = EventsJob(task.batch, LastOf(task.batch).cursor)
    /\ UNCHANGED <<vars, phase, storeVars, worldVars, applied, disturbances>>

\* A Safe transaction is executed on chain.
Carry(op) ==
    /\ trust' = [trust EXCEPT ![op.group] =
                    IF op.op = "trust" THEN @ \cup op.humans ELSE @ \ op.humans]
    /\ indexed' = IF IndexLags THEN indexed ELSE trust'

ExecuteOperation ==
    /\ job.stage = "execute" /\ job.plan # <<>>
    /\ Carry(Head(job.plan))
    /\ job' = [job EXCEPT !.plan = Tail(@)]
    /\ UNCHANGED <<vars, phase, map, storeVars, score, applied, disturbances>>

OperationsDone ==
    /\ job.stage = "execute" /\ job.plan = <<>>
    /\ job' = [job EXCEPT !.stage = IF job.kind = "events" THEN "saveCursor" ELSE "saveMap"]
    /\ applied' = applied \cup job.batch
    /\ UNCHANGED <<vars, phase, map, storeVars, worldVars, disturbances>>

\* Mutant: the head is saved instead of the batch's cursor.
SaveHead ==
    /\ job.stage = "saveCursor"
    /\ savedCursor' = HeadCursor(head) /\ UNCHANGED disturbances
    /\ job' = [job EXCEPT !.stage = "saveMap"]
    /\ UNCHANGED <<vars, phase, map, savedMap, worldVars, applied>>

\* The cursor of the batch's last event, whatever the row holds already.
SaveCursor ==
    /\ job.stage = "saveCursor"
    /\ \/ savedCursor' = job.cursor /\ UNCHANGED disturbances
       \/ UNCHANGED savedCursor /\ Disturbance
    /\ job' = [job EXCEPT !.stage = "saveMap"]
    /\ UNCHANGED <<vars, phase, map, savedMap, worldVars, applied>>

DropTask ==
    /\ tasks' = Tail(tasks)
    /\ UNCHANGED <<chainVars, socketVars, lastSeen, pending, catchUp, processed>>

\* The map is saved and the task ends: the replay's cursor becomes the
\* listener's start cursor, an onEvents call resolves to true.
SaveMap ==
    /\ job.stage = "saveMap"
    /\ SaveMapAs(map, IF job.kind = "events" THEN job.cursor.block ELSE map.block)
    /\ job' = NoJob /\ phase' = "live"
    /\ IF phase = "replay"
         THEN /\ lastSeen' = job.cursor
              /\ processed' = processed \cup job.batch
              /\ UNCHANGED <<chainVars, socketVars, pending, catchUp, tasks>>
         ELSE IF job.kind = "events" THEN Settle(TRUE) ELSE DropTask
    /\ UNCHANGED <<savedCursor, worldVars, applied>>

-----------------------------------------------------------------------------
(* The end of the process. *)

Reset ==
    /\ phase' = "down" /\ job' = NoJob /\ map' = FreshMap
    /\ conn' = "down" /\ startedHead' = NoHead /\ wire' = {}
    /\ lastSeen' = StartCursor /\ pending' = {} /\ catchUp' = Idle /\ tasks' = <<>>
    /\ UNCHANGED <<chainVars, processed, storeVars, score, applied>>

\* A signal, a crash, ERRORS_BEFORE_CRASH; what is in memory is gone.
Crash ==
    /\ phase # "down" /\ Disturbance
    /\ Reset
    /\ UNCHANGED <<trust, indexed>>

\* A request of the task throws, or its next transaction fails or is reported
\* as failed though it is carried out.  During start-up the process exits.  An
\* empty replay requests nothing.
TaskFails ==
    /\ "callbackFails" \in Hazards
    /\ job.stage = "execute"
    /\ job.kind = "reconcile" \/ job.batch # {}
    /\ \/ UNCHANGED <<trust, indexed>>
       \/ job.plan # <<>> /\ Carry(Head(job.plan))
    /\ IF phase = "replay"
         THEN Disturbance /\ Reset
         ELSE /\ job' = NoJob
              /\ IF job.kind = "events" THEN Settle(FALSE) ELSE DropTask
              /\ UNCHANGED <<phase, map, storeVars, score, applied, disturbances>>

\* The thresholds cannot be read: the task throws before the map has changed.
TaskFailsAtOnce ==
    /\ "callbackFails" \in Hazards
    /\ phase = "live" /\ job = NoJob /\ tasks # <<>>
    /\ IF Head(tasks).source = "reconcile" THEN DropTask ELSE Settle(FALSE)
    /\ UNCHANGED appVars

-----------------------------------------------------------------------------
\* A step of the listener, which runs once start-up is done.
Live(step) == phase = "live" /\ step /\ UNCHANGED appVars

ListenerStep ==
    Live(\/ Connect \/ HeadFetched \/ Subscribe \/ SubscriptionAcknowledged \/ Disconnect
         \/ Receive \/ Flush \/ CatchUpRequest)

WorldStep == ChangeAffiliate \/ EmptyBlock \/ ChangeScore \/ IndexCatchesUp

\* One thing after the other: start-up, then the tasks of the exclusive queue.
SequentialStep == \/ Start \/ Backfill \/ SkipReplay \/ BeginReplay
                  \/ BeginTask \/ ExecuteOperation \/ OperationsDone
                  \/ SaveCursor \/ SaveMap

WorkerStep == SequentialStep \/ ReconcileTick

WorkerNext == \/ WorldStep \/ ListenerStep \/ WorkerStep
              \/ Crash \/ TaskFails \/ TaskFailsAtOnce

\* The worker's own steps are taken, the index catches up, and a handshake that
\* is possible again and again completes some time.  Nothing makes the world
\* move, a connection drop or the process end.
WorkerFairness ==
    /\ WF_workerVars(SequentialStep) /\ WF_workerVars(ReconcileTick)
    /\ WF_workerVars(IndexCatchesUp)
    /\ WF_workerVars(Live(Connect)) /\ WF_workerVars(Live(Receive)) /\ WF_workerVars(Live(Flush))
    /\ WF_workerVars(Live(CatchUpHead \/ CatchUpFetched))
    /\ SF_workerVars(Live(Subscribe))
    /\ SF_workerVars(Live(SubscriptionAcknowledged))

WorkerSpec == WorkerInit /\ [][WorkerNext]_workerVars
FairWorkerSpec == WorkerSpec /\ WorkerFairness
=============================================================================
