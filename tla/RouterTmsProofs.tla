--------------------------- MODULE RouterTmsProofs ---------------------------
(***************************************************************************)
(* The router-tms worker, for any humans, batch size, order of addresses   *)
(* and number of faults: whom it enables, what it marks, and what it makes *)
(* of the addresses that revert.                                           *)
(***************************************************************************)
EXTENDS RouterTms, FiniteSetTheorems, SequenceTheorems, TLAPS

Stages == {"idle", "batch", "sending", "marking", "probing", "retrying"}

Plans == [Sources -> SUBSET Avatars]

Runs == [stage : Stages, kind : {"poll", "realtime"}, plan : Plans, source : Sources,
         batch : SUBSET Avatars, left : SUBSET Avatars, good : SUBSET Avatars,
         known : SUBSET Avatars, bad : SUBSET Avatars, executed : BOOLEAN, failed : BOOLEAN,
         planned : SUBSET Avatars, clean : BOOLEAN]

Jobs == [kind : {"poll", "realtime"}, avatars : SUBSET Avatars]

RouterTypeOK ==
    /\ registered \in SUBSET Avatars /\ members \in SUBSET Avatars /\ routed \in SUBSET Avatars
    /\ fresh \in SUBSET Avatars /\ heard \in SUBSET Avatars /\ quarantine \in SUBSET Avatars
    /\ status \in [Avatars -> SUBSET Sources]
    /\ loop \in {"delay", "poll", "exit"} /\ listening \in {"off", "on", "late"}
    /\ queue \in Seq(Jobs) /\ run \in Runs
    /\ errors \in Nat

\* Whether the run has an address still in its hands.
Holds(a) == a \in run.batch \/ \E s \in Sources : a \in run.plan[s]

\* Only humans are heard of, and what a run holds is on no list it knows.
Allowed ==
    /\ fresh \subseteq registered /\ heard \subseteq registered
    /\ \A i \in DOMAIN queue : queue[i].avatars \subseteq registered
    /\ \A a \in Avatars : Holds(a) => a \in registered /\ a \notin blacklist

\* What a run holds, it holds once.
Apart ==
    /\ run.plan["base-group"] \cap run.plan["fallback"] = {}
    /\ \A s \in Sources : run.plan[s] \cap run.batch = {}
    /\ run.stage = "idle" => run = NoRun
    /\ run.stage = "batch" => run.batch = {}
    /\ run.stage # "probing" => run.left = {} /\ run.good = {}
    /\ run.left \cup run.good \subseteq run.batch

\* Whether the store has nothing against an avatar being enabled for a source.
IsDue(a, s) == s \notin status[a] /\ (s = "fallback" => status[a] = {})

Due == /\ \A s \in Sources : \A a \in run.plan[s] : IsDue(a, s)
       /\ \A a \in run.batch : IsDue(a, run.source)

\* The run's account, as long as no fault is injected into it: who was planned is
\* routed, reverts, was in quarantine, or is still held; of a batch that is
\* probed, whoever does not revert is left or good.
Sorted ==
    run.clean =>
        /\ run.bad \subseteq Reverting /\ run.good \cap Reverting = {}
        /\ run.stage = "retrying" => run.batch \cap Reverting = {}
        /\ run.stage = "marking" => run.batch \subseteq routed
        /\ run.stage = "probing" => run.batch \subseteq run.left \cup run.good \cup Reverting
        /\ \A a \in run.planned : Holds(a) \/ a \in routed \cup Reverting \cup run.known

-----------------------------------------------------------------------------
(* Typing. *)

LEMMA InitTyped == Init => RouterTypeOK
BY RouterAssumption DEF Init, RouterTypeOK, Unmarked, NoRun, NoPlan, Runs, Plans, Stages, Sources, Jobs

\* A step of the world or the listener, which no run takes part in.
LEMMA OutsideTyped ==
    ASSUME RouterTypeOK,
           Register \/ Join \/ BlacklistChanges \/ IndexCatchesUp \/ (\E a \in Avatars : Expire(a))
           \/ Hear \/ Flush \/ Tick
    PROVE  RouterTypeOK'
<1> USE DEF RouterTypeOK, worldVars, storeVars, memoryVars
<1>1. CASE Register
  BY <1>1 DEF Register
<1>2. CASE Join
  BY <1>2 DEF Join
<1>3. CASE BlacklistChanges
  BY <1>3 DEF BlacklistChanges
<1>4. CASE IndexCatchesUp
  BY <1>4 DEF IndexCatchesUp
<1>5. CASE \E a \in Avatars : Expire(a)
  BY <1>5 DEF Expire
<1>6. CASE Hear
  BY <1>6 DEF Hear
<1>7. CASE Flush
  <2>1. [kind |-> "realtime", avatars |-> heard] \in Jobs
    BY DEF Jobs
  <2>2. queue' \in Seq(Jobs)
    BY <1>7, <2>1 DEF Flush
  <2>3. QED
    BY <1>7, <2>2 DEF Flush
<1>8. CASE Tick
  <2>1. [kind |-> "poll", avatars |-> {}] \in Jobs
    BY DEF Jobs
  <2>2. queue' \in Seq(Jobs)
    BY <1>8, <2>1 DEF Tick
  <2>3. QED
    BY <1>8, <2>2 DEF Tick
<1>9. QED
  BY <1>1, <1>2, <1>3, <1>4, <1>5, <1>6, <1>7, <1>8

\* Settle leaves the main loop in one of its states.
LEMMA SettleTyped ==
    ASSUME RouterTypeOK, NEW kind, NEW outcome \in {"error", "success", "skipped"},
           Settle(kind, outcome)
    PROVE  /\ loop' \in {"delay", "poll", "exit"} /\ listening' \in {"off", "on", "late"}
           /\ errors' \in Nat
<1>1. CASE kind = "realtime"
  BY <1>1 DEF Settle, RouterTypeOK
<1>2. CASE kind # "realtime"
  BY <1>2 DEF Settle, RouterTypeOK
<1>3. QED
  BY <1>1, <1>2

LEMMA ResetTyped == RouterTypeOK /\ Reset => RouterTypeOK'
<1> SUFFICES ASSUME RouterTypeOK, Reset PROVE RouterTypeOK'
  OBVIOUS
<1>1. NoRun \in Runs /\ Unmarked \in [Avatars -> SUBSET Sources]
  BY DEF NoRun, Runs, NoPlan, Plans, Stages, Sources, Unmarked
<1>2. status' \in [Avatars -> SUBSET Sources] /\ quarantine' \in SUBSET Avatars
  BY <1>1 DEF Reset, RouterTypeOK, storeVars
<1>3. QED
  BY <1>1, <1>2 DEF Reset, RouterTypeOK, worldVars

\* The first run record of a job, and how a plan is made of what was read.
LEMMA PlanTyped ==
    ASSUME NEW avatars \in SUBSET Avatars, members \subseteq Avatars, NEW list,
           NEW seen \in [Avatars -> SUBSET Sources]
    PROVE  /\ PlanFor(avatars, list, seen) \in Plans
           /\ \A s \in Sources : \A a \in PlanFor(avatars, list, seen)[s] :
                 /\ a \in avatars /\ a \notin list
                 /\ s \notin seen[a] /\ (s = "fallback" => seen[a] = {})
           /\ PlanFor(avatars, list, seen)["base-group"]
                 \cap PlanFor(avatars, list, seen)["fallback"] = {}
BY DEF PlanFor, Plans, Sources, EligibleForBaseGroup, EligibleForFallback

\* What a job that begins has been given.
LEMMA BeginRunGives ==
    ASSUME RouterTypeOK, BeginRun
    PROVE  /\ Head(queue) \in Jobs /\ queue' = Tail(queue) /\ queue' \in Seq(Jobs)
           /\ Entries(Head(queue)) \in SUBSET Avatars
           /\ \/ Settle(Head(queue).kind, "success") /\ UNCHANGED run
              \/ \E seen \in Loads(status, Unmarked), known \in Loads(quarantine, {}) :
                   LET plan == PlanFor(Entries(Head(queue)), blacklist', seen)
                   IN /\ seen \in [Avatars -> SUBSET Sources] /\ known \in SUBSET Avatars
                      /\ run' = [NoRun EXCEPT !.stage = "batch", !.kind = Head(queue).kind,
                                   !.plan = plan, !.known = known,
                                   !.planned = plan["base-group"] \cup plan["fallback"]]
                      /\ UNCHANGED <<loop, listening, errors>>
<1>1. Head(queue) \in Jobs /\ Tail(queue) \in Seq(Jobs)
  BY DEF BeginRun, RouterTypeOK
<1>2. Entries(Head(queue)) \in SUBSET Avatars
  BY <1>1 DEF Entries, Jobs, RouterTypeOK
<1>3. Unmarked \in [Avatars -> SUBSET Sources]
  BY DEF Unmarked
<1>4. \A seen \in Loads(status, Unmarked) : seen \in [Avatars -> SUBSET Sources]
  BY <1>3 DEF Loads, RouterTypeOK
<1>5. \A known \in Loads(quarantine, {}) : known \in SUBSET Avatars
  BY DEF Loads, RouterTypeOK
<1>6. QED
  BY <1>1, <1>2, <1>4, <1>5 DEF BeginRun

LEMMA BeginRunTyped == RouterTypeOK /\ BeginRun => RouterTypeOK'
<1> SUFFICES ASSUME RouterTypeOK, BeginRun PROVE RouterTypeOK'
  OBVIOUS
<1>1. run' \in Runs
  <2>1. CASE UNCHANGED run
    BY <2>1 DEF RouterTypeOK
  <2>2. CASE ~ UNCHANGED run
    <3>1. PICK seen \in Loads(status, Unmarked), known \in Loads(quarantine, {}) :
             /\ seen \in [Avatars -> SUBSET Sources] /\ known \in SUBSET Avatars
             /\ run' = [NoRun EXCEPT !.stage = "batch", !.kind = Head(queue).kind,
                          !.plan = PlanFor(Entries(Head(queue)), blacklist', seen), !.known = known,
                          !.planned = PlanFor(Entries(Head(queue)), blacklist', seen)["base-group"]
                             \cup PlanFor(Entries(Head(queue)), blacklist', seen)["fallback"]]
      BY <2>2, BeginRunGives
    <3>2. PlanFor(Entries(Head(queue)), blacklist', seen) \in Plans
      <4>1. Entries(Head(queue)) \in SUBSET Avatars
        BY BeginRunGives
      <4>2. members \subseteq Avatars
        BY DEF RouterTypeOK
      <4>3. QED
        BY <3>1, <4>1, <4>2, PlanTyped
    <3>3. Head(queue).kind \in {"poll", "realtime"}
      BY BeginRunGives DEF Jobs
    <3>4. QED
      BY <3>1, <3>2, <3>3 DEF NoRun, Runs, Plans, Stages, Sources
  <2>3. QED
    BY <2>1, <2>2
<1>2. loop' \in {"delay", "poll", "exit"} /\ listening' \in {"off", "on", "late"} /\ errors' \in Nat
  BY BeginRunGives, SettleTyped DEF RouterTypeOK
<1>3. QED
  BY <1>1, <1>2, BeginRunGives DEF BeginRun, RouterTypeOK, worldVars, storeVars

LEMMA JobFailsTyped == RouterTypeOK /\ JobFails => RouterTypeOK'
<1> SUFFICES ASSUME RouterTypeOK, JobFails PROVE RouterTypeOK'
  OBVIOUS
<1>1. queue' \in Seq(Jobs)
  BY DEF JobFails, RouterTypeOK
<1>2. loop' \in {"delay", "poll", "exit"} /\ listening' \in {"off", "on", "late"} /\ errors' \in Nat
  BY SettleTyped DEF JobFails
<1>3. QED
  BY <1>1, <1>2 DEF JobFails, RouterTypeOK, worldVars, storeVars

\* What the next batch is.
LEMMA NextBatchGives ==
    ASSUME RouterTypeOK, NextBatch
    PROVE  \E source \in Sources : \E chunk \in SUBSET run.plan[source] :
             LET batch == chunk \ (run.known \cup run.bad)
             IN run' = [run EXCEPT !.plan[source] = @ \ chunk, !.source = source, !.batch = batch,
                                   !.stage = IF batch = {} THEN "batch" ELSE "sending"]
BY DEF NextBatch, kSubset, Sources

LEMMA NextBatchTyped == RouterTypeOK /\ NextBatch => RouterTypeOK'
<1> SUFFICES ASSUME RouterTypeOK, NextBatch PROVE RouterTypeOK'
  OBVIOUS
<1>1. PICK source \in Sources : \E chunk \in SUBSET run.plan[source] :
         run' = [run EXCEPT !.plan[source] = @ \ chunk, !.source = source,
                            !.batch = chunk \ (run.known \cup run.bad),
                            !.stage = IF chunk \ (run.known \cup run.bad) = {}
                                      THEN "batch" ELSE "sending"]
  BY NextBatchGives
<1>2. PICK chunk \in SUBSET run.plan[source] :
         run' = [run EXCEPT !.plan[source] = @ \ chunk, !.source = source,
                            !.batch = chunk \ (run.known \cup run.bad),
                            !.stage = IF chunk \ (run.known \cup run.bad) = {}
                                      THEN "batch" ELSE "sending"]
  BY <1>1
<1>3. run' \in Runs
  BY <1>2 DEF RouterTypeOK, Runs, Plans, Stages
<1>4. QED
  BY <1>3 DEF NextBatch, RouterTypeOK, workUnchanged, worldVars, storeVars

LEMMA AfterFailureTyped ==
    ASSUME NEW r \in Runs, NEW safeLevel
    PROVE  AfterFailure(r, safeLevel) \in Runs
BY DEF AfterFailure, Runs, Stages

LEMMA SendingTyped ==
    ASSUME RouterTypeOK, SendSucceeds \/ SendReverts \/ SendFails
    PROVE  RouterTypeOK'
<1> USE DEF RouterTypeOK, workUnchanged, worldVars, storeVars, memoryVars
<1>1. CASE SendSucceeds
  BY <1>1 DEF SendSucceeds, Enable, Runs, Stages
<1>2. CASE SendReverts
  BY <1>2, AfterFailureTyped DEF SendReverts
<1>3. CASE SendFails
  <2>1. PICK safeLevel \in BOOLEAN : run' = [AfterFailure(run, safeLevel) EXCEPT !.clean = FALSE]
    BY <1>3 DEF SendFails
  <2>2. run' \in Runs
    BY <2>1, AfterFailureTyped DEF Runs
  <2>3. routed' \in SUBSET Avatars
    BY <1>3 DEF SendFails, Enable, Runs
  <2>4. QED
    BY <1>3, <2>2, <2>3 DEF SendFails
<1>4. QED
  BY <1>1, <1>2, <1>3

LEMMA ProbingTyped ==
    ASSUME RouterTypeOK, Mark \/ Probe \/ Retry
    PROVE  RouterTypeOK'
<1> USE DEF RouterTypeOK, workUnchanged, worldVars, storeVars, memoryVars
<1>1. CASE Mark
  <2>1. run' \in Runs
    BY <1>1 DEF Mark, Runs, Stages
  <2>2. status' \in [Avatars -> SUBSET Sources]
    BY <1>1 DEF Mark, Runs
  <2>3. QED
    BY <1>1, <2>1, <2>2 DEF Mark
<1>2. CASE Probe
  <2>1. PICK a \in run.left :
           \/ run' = [run EXCEPT !.left = @ \ {a}, !.good = @ \cup ({a} \ Reverting),
                                 !.bad = @ \cup ({a} \cap Reverting)]
           \/ run' = [run EXCEPT !.left = @ \ {a}, !.good = @ \cup {a}, !.clean = FALSE]
    BY <1>2 DEF Probe
  <2>2. a \in Avatars
    BY DEF Runs
  <2>3. CASE run' = [run EXCEPT !.left = @ \ {a}, !.good = @ \cup ({a} \ Reverting),
                                !.bad = @ \cup ({a} \cap Reverting)]
    <3>1. run' \in Runs
      BY <2>2, <2>3 DEF Runs
    <3>2. QED
      BY <1>2, <3>1 DEF Probe
  <2>4. CASE run' = [run EXCEPT !.left = @ \ {a}, !.good = @ \cup {a}, !.clean = FALSE]
    <3>1. run' \in Runs
      BY <2>2, <2>4 DEF Runs
    <3>2. QED
      BY <1>2, <3>1 DEF Probe
  <2>5. QED
    BY <2>1, <2>3, <2>4
<1>3. CASE Retry
  <2>1. run' \in Runs
    BY <1>3 DEF Retry, Runs, Stages
  <2>2. QED
    BY <1>3, <2>1 DEF Retry
<1>4. QED
  BY <1>1, <1>2, <1>3

LEMMA EndRunTyped == RouterTypeOK /\ EndRun => RouterTypeOK'
<1> SUFFICES ASSUME RouterTypeOK, EndRun PROVE RouterTypeOK'
  OBVIOUS
<1>1. NoRun \in Runs
  BY DEF NoRun, Runs, NoPlan, Plans, Stages, Sources
<1>2. loop' \in {"delay", "poll", "exit"} /\ listening' \in {"off", "on", "late"} /\ errors' \in Nat
  BY SettleTyped DEF EndRun
<1>3. quarantine' \in SUBSET Avatars
  BY DEF EndRun, RouterTypeOK, Runs
<1>4. QED
  BY <1>1, <1>2, <1>3 DEF EndRun, RouterTypeOK, worldVars

LEMMA NextTyped == RouterTypeOK /\ [Next]_vars => RouterTypeOK'
<1> SUFFICES ASSUME RouterTypeOK, [Next]_vars PROVE RouterTypeOK'
  OBVIOUS
<1>1. CASE Register \/ Join \/ BlacklistChanges \/ IndexCatchesUp
           \/ (\E a \in Avatars : Expire(a)) \/ Hear \/ Flush \/ Tick
  BY <1>1, OutsideTyped
<1>2. CASE BeginRun \/ JobFails \/ NextBatch
  BY <1>2, BeginRunTyped, JobFailsTyped, NextBatchTyped
<1>3. CASE SendSucceeds \/ SendReverts \/ SendFails \/ Mark \/ Probe \/ Retry \/ EndRun
  BY <1>3, SendingTyped, ProbingTyped, EndRunTyped
<1>4. CASE Crash \/ Exit
  BY <1>4, ResetTyped DEF Crash, Exit
<1>5. CASE UNCHANGED vars
  BY <1>5 DEF vars, worldVars, storeVars, memoryVars, RouterTypeOK
<1>6. QED
  BY <1>1, <1>2, <1>3, <1>4, <1>5 DEF Next, WorldStep, RunStep

\* The state of the worker, of its store and of the world is of the right kind.
THEOREM RouterTyped == Spec => []RouterTypeOK
BY InitTyped, NextTyped, PTL DEF Spec

-----------------------------------------------------------------------------
(* What a run holds. *)

RunInv == Allowed /\ Apart /\ ("loadFails" \notin Hazards => Due)

LEMMA InitRunInv == Init => RunInv
BY DEF Init, RunInv, Allowed, Apart, Due, Holds, NoRun, NoPlan, Sources

\* A run that is over holds nothing.
LEMMA NoRunHoldsNothing ==
    ASSUME run' = NoRun
    PROVE  Apart' /\ Due' /\ \A a : ~Holds(a)'
BY DEF NoRun, NoPlan, Sources, Apart, Due, Holds

\* While the run goes on as it is, with the same list and the same marks, what
\* it holds stays allowed, apart and due.
LEMMA RunUntouched ==
    ASSUME RunInv, UNCHANGED <<run, status, blacklist>>, registered \subseteq registered'
    PROVE  /\ Apart' /\ ("loadFails" \notin Hazards => Due')
           /\ \A a \in Avatars : Holds(a)' => a \in registered' /\ a \notin blacklist'
<1>1. Apart'
  BY DEF RunInv, Apart
<1>2. "loadFails" \notin Hazards => Due'
  BY DEF RunInv, Due, IsDue
<1>3. \A a : Holds(a)' <=> Holds(a)
  BY DEF Holds
<1>4. QED
  BY <1>1, <1>2, <1>3 DEF RunInv, Allowed

LEMMA OutsideKeepsRunInv ==
    ASSUME RouterTypeOK, RunInv,
           Register \/ Join \/ BlacklistChanges \/ IndexCatchesUp \/ (\E a \in Avatars : Expire(a))
           \/ Hear \/ Flush \/ Tick
    PROVE  RunInv'
<1> USE DEF worldVars, storeVars, memoryVars
<1>1. UNCHANGED <<run, status, blacklist>> /\ registered \subseteq registered'
  BY DEF Register, Join, BlacklistChanges, IndexCatchesUp, Expire, Hear, Flush, Tick
<1>2. fresh' \subseteq registered' /\ heard' \subseteq registered'
  BY DEF RunInv, Allowed, Register, Join, BlacklistChanges, IndexCatchesUp, Expire, Hear, Flush, Tick
<1>3. \A i \in DOMAIN queue' : queue'[i].avatars \subseteq registered'
  <2>1. CASE UNCHANGED queue
    BY <1>1, <2>1 DEF RunInv, Allowed
  <2>2. CASE Flush
    <3>1. [kind |-> "realtime", avatars |-> heard] \in Jobs /\ heard \subseteq registered'
      BY <2>2, <1>1 DEF Jobs, RouterTypeOK, RunInv, Allowed
    <3>2. QED
      BY <2>2, <3>1, <1>1, AppendProperties DEF Flush, RouterTypeOK, RunInv, Allowed
  <2>3. CASE Tick
    <3>1. [kind |-> "poll", avatars |-> {}] \in Jobs
      BY DEF Jobs
    <3>2. QED
      BY <2>3, <3>1, <1>1, AppendProperties DEF Tick, RouterTypeOK, RunInv, Allowed
  <2>4. QED
    BY <2>1, <2>2, <2>3 DEF Register, Join, BlacklistChanges, IndexCatchesUp, Expire, Hear
<1>4. QED
  BY <1>1, <1>2, <1>3, RunUntouched DEF RunInv, Allowed

\* What is left of the queue when its first job is taken.
LEMMA TailAllowed ==
    ASSUME RouterTypeOK, RunInv, queue # <<>>, queue' = Tail(queue), UNCHANGED registered
    PROVE  /\ \A i \in DOMAIN queue' : queue'[i].avatars \subseteq registered'
           /\ Head(queue).avatars \subseteq registered
BY HeadTailProperties DEF RouterTypeOK, RunInv, Allowed

LEMMA BeginRunKeepsRunInv == RouterTypeOK /\ RunInv /\ BeginRun => RunInv'
<1> SUFFICES ASSUME RouterTypeOK, RunInv, BeginRun PROVE RunInv'
  OBVIOUS
<1> USE DEF worldVars, storeVars
<1>1. /\ fresh' \subseteq registered' /\ heard' \subseteq registered'
      /\ \A i \in DOMAIN queue' : queue'[i].avatars \subseteq registered'
      /\ Entries(Head(queue)) \subseteq registered
  BY TailAllowed DEF BeginRun, RunInv, Allowed, Entries
<1>2. CASE UNCHANGED run
  <2>1. run' = NoRun
    BY <1>2 DEF BeginRun, RunInv, Apart
  <2>2. QED
    BY <1>1, <2>1, NoRunHoldsNothing DEF RunInv, Allowed
<1>3. CASE ~ UNCHANGED run
  <2> DEFINE plan(seen) == PlanFor(Entries(Head(queue)), blacklist', seen)
  <2>1. PICK seen \in Loads(status, Unmarked), known \in Loads(quarantine, {}) :
           /\ seen \in [Avatars -> SUBSET Sources]
           /\ run' = [NoRun EXCEPT !.stage = "batch", !.kind = Head(queue).kind,
                        !.plan = plan(seen), !.known = known,
                        !.planned = plan(seen)["base-group"] \cup plan(seen)["fallback"]]
    BY <1>3, BeginRunGives
  <2>2. /\ run'.plan = plan(seen) /\ run'.batch = {} /\ run'.stage = "batch"
        /\ run'.left = {} /\ run'.good = {}
    BY <2>1 DEF NoRun
  <2> HIDE DEF plan
  <2>3. /\ \A s \in Sources : \A a \in plan(seen)[s] :
              /\ a \in Entries(Head(queue)) /\ a \notin blacklist'
              /\ s \notin seen[a] /\ (s = "fallback" => seen[a] = {})
        /\ plan(seen)["base-group"] \cap plan(seen)["fallback"] = {}
    <3>1. Entries(Head(queue)) \in SUBSET Avatars
      BY BeginRunGives
    <3>2. members \subseteq Avatars
      BY DEF RouterTypeOK
    <3>3. QED
      BY <2>1, <3>1, <3>2, PlanTyped DEF plan
  <2>4. "loadFails" \notin Hazards => seen = status
    BY <2>1 DEF Loads
  <2>5. UNCHANGED <<registered, status>>
    BY DEF BeginRun
  <2>6. Apart'
    BY <2>2, <2>3 DEF Apart
  <2>7. "loadFails" \notin Hazards => Due'
    BY <2>2, <2>3, <2>4, <2>5 DEF Due, IsDue
  <2>8. Allowed'
    BY <1>1, <2>2, <2>3, <2>5 DEF Allowed, Holds
  <2>9. QED
    BY <2>6, <2>7, <2>8 DEF RunInv
<1>4. QED
  BY <1>2, <1>3

LEMMA JobFailsKeepsRunInv == RouterTypeOK /\ RunInv /\ JobFails => RunInv'
<1> SUFFICES ASSUME RouterTypeOK, RunInv, JobFails PROVE RunInv'
  OBVIOUS
<1> USE DEF worldVars, storeVars
<1>1. /\ fresh' \subseteq registered' /\ heard' \subseteq registered'
      /\ \A i \in DOMAIN queue' : queue'[i].avatars \subseteq registered'
  BY TailAllowed DEF JobFails, RunInv, Allowed
<1>2. run' = NoRun
  BY DEF JobFails, RunInv, Apart
<1>3. QED
  BY <1>1, <1>2, NoRunHoldsNothing DEF RunInv, Allowed

\* A step of a run that puts nothing new into its hands: what it holds after the
\* step it held before, for the same source, and nothing is marked.
LEMMA HoldingLess ==
    ASSUME RunInv, workUnchanged, UNCHANGED status,
           \A s \in Sources : run'.plan[s] \subseteq run.plan[s],
           \/ run'.batch \subseteq run.batch /\ (run'.source = run.source \/ run'.batch = {})
           \/ run'.source \in Sources /\ run'.batch \subseteq run.plan[run'.source]
    PROVE  Allowed' /\ ("loadFails" \notin Hazards => Due')
<1>1. \A a : Holds(a)' => Holds(a)
  BY DEF Holds
<1>2. Allowed'
  BY <1>1 DEF Allowed, RunInv, workUnchanged, worldVars
<1>3. "loadFails" \notin Hazards => Due'
  BY DEF RunInv, Due, IsDue
<1>4. QED
  BY <1>2, <1>3

LEMMA NextBatchKeepsRunInv == RouterTypeOK /\ RunInv /\ NextBatch => RunInv'
<1> SUFFICES ASSUME RouterTypeOK, RunInv, NextBatch PROVE RunInv'
  OBVIOUS
<1>1. PICK source \in Sources : \E chunk \in SUBSET run.plan[source] :
         run' = [run EXCEPT !.plan[source] = @ \ chunk, !.source = source,
                            !.batch = chunk \ (run.known \cup run.bad),
                            !.stage = IF chunk \ (run.known \cup run.bad) = {}
                                      THEN "batch" ELSE "sending"]
  BY NextBatchGives
<1>2. PICK chunk \in SUBSET run.plan[source] :
         run' = [run EXCEPT !.plan[source] = @ \ chunk, !.source = source,
                            !.batch = chunk \ (run.known \cup run.bad),
                            !.stage = IF chunk \ (run.known \cup run.bad) = {}
                                      THEN "batch" ELSE "sending"]
  BY <1>1
<1>3. /\ \A s \in Sources : run'.plan[s] = IF s = source THEN run.plan[s] \ chunk ELSE run.plan[s]
      /\ run'.source = source /\ run'.batch \subseteq chunk
      /\ run'.left = run.left /\ run'.good = run.good
      /\ run'.stage \in {"batch", "sending"} /\ (run'.stage = "batch" => run'.batch = {})
  BY <1>2 DEF RouterTypeOK, Runs, Plans
<1>4. run.left = {} /\ run.good = {}
  BY DEF NextBatch, RunInv, Apart
<1>5. Apart'
  BY <1>3, <1>4 DEF RunInv, Apart, Sources
<1>6. Allowed' /\ ("loadFails" \notin Hazards => Due')
  BY <1>3, HoldingLess DEF NextBatch, storeVars
<1>7. QED
  BY <1>5, <1>6 DEF RunInv

\* What becomes of a batch that threw.
LEMMA AfterFailureGives ==
    ASSUME NEW r \in Runs, NEW safeLevel
    PROVE  LET after == AfterFailure(r, safeLevel)
           IN /\ after.plan = r.plan /\ after.source = r.source /\ after.clean = r.clean
              /\ after.known = r.known /\ after.planned = r.planned
              /\ \/ /\ after.stage = "batch" /\ after.batch = {} /\ after.left = r.left
                    /\ after.good = r.good
                    /\ \/ after.bad = r.bad /\ (safeLevel \/ r.stage = "retrying")
                       \/ after.bad = r.bad \cup r.batch /\ Cardinality(r.batch) = 1
                 \/ /\ after.stage = "probing" /\ after.batch = r.batch /\ after.left = r.batch
                    /\ after.good = {} /\ after.bad = r.bad /\ ~safeLevel /\ r.stage # "retrying"
BY DEF AfterFailure, Runs

LEMMA SendingKeepsRunInv ==
    ASSUME RouterTypeOK, RunInv, SendSucceeds \/ SendReverts \/ SendFails
    PROVE  RunInv'
<1>1. workUnchanged /\ UNCHANGED status /\ run.stage \in {"sending", "retrying"}
  BY DEF SendSucceeds, SendReverts, SendFails, storeVars, Sending
<1>2. run.left = {} /\ run.good = {}
  BY <1>1 DEF RunInv, Apart
<1>3. /\ run'.plan = run.plan /\ run'.source = run.source
      /\ run'.batch = run.batch \/ run'.batch = {}
      /\ run'.stage \in {"marking", "batch", "probing"} /\ (run'.stage = "batch" => run'.batch = {})
      /\ run'.left \cup run'.good \subseteq run'.batch
      /\ run'.stage # "probing" => run'.left = {} /\ run'.good = {}
  <2>1. CASE SendSucceeds
    BY <2>1, <1>2 DEF SendSucceeds, RouterTypeOK, Runs
  <2>2. CASE SendReverts
    BY <2>2, <1>2, AfterFailureGives DEF SendReverts, RouterTypeOK
  <2>3. CASE SendFails
    <3>1. PICK safeLevel \in BOOLEAN : run' = [AfterFailure(run, safeLevel) EXCEPT !.clean = FALSE]
      BY <2>3 DEF SendFails
    <3>2. AfterFailure(run, safeLevel) \in Runs
      BY AfterFailureTyped DEF RouterTypeOK
    <3>3. /\ run'.plan = AfterFailure(run, safeLevel).plan
          /\ run'.source = AfterFailure(run, safeLevel).source
          /\ run'.batch = AfterFailure(run, safeLevel).batch
          /\ run'.stage = AfterFailure(run, safeLevel).stage
          /\ run'.left = AfterFailure(run, safeLevel).left
          /\ run'.good = AfterFailure(run, safeLevel).good
      BY <3>1, <3>2 DEF Runs
    <3>4. QED
      BY <3>3, <1>2, AfterFailureGives DEF RouterTypeOK
  <2>4. QED
    BY <2>1, <2>2, <2>3
<1>4. Apart'
  BY <1>3 DEF RunInv, Apart
<1>5. Allowed' /\ ("loadFails" \notin Hazards => Due')
  BY <1>1, <1>3, HoldingLess
<1>6. QED
  BY <1>4, <1>5 DEF RunInv

LEMMA ProbingKeepsRunInv ==
    ASSUME RouterTypeOK, RunInv, Probe \/ Retry
    PROVE  RunInv'
<1>1. workUnchanged /\ UNCHANGED status
  BY DEF Probe, Retry, storeVars
<1>2. /\ run'.plan = run.plan /\ run'.source = run.source /\ run'.batch \subseteq run.batch
      /\ run'.stage \in {"probing", "batch", "retrying"} /\ (run'.stage = "batch" => run'.batch = {})
      /\ run'.left \cup run'.good \subseteq run'.batch
      /\ run'.stage # "probing" => run'.left = {} /\ run'.good = {}
  <2>1. CASE Probe
    <3>1. PICK a \in run.left :
             \/ run' = [run EXCEPT !.left = @ \ {a}, !.good = @ \cup ({a} \ Reverting),
                                   !.bad = @ \cup ({a} \cap Reverting)]
             \/ run' = [run EXCEPT !.left = @ \ {a}, !.good = @ \cup {a}, !.clean = FALSE]
      BY <2>1 DEF Probe
    <3>2. run \in Runs /\ run.stage = "probing"
      BY <2>1 DEF Probe, RouterTypeOK
    <3>3. /\ run'.plan = run.plan /\ run'.source = run.source /\ run'.batch = run.batch
          /\ run'.stage = "probing" /\ run'.left = run.left \ {a}
          /\ run'.good = run.good \cup ({a} \ Reverting) \/ run'.good = run.good \cup {a}
      BY <3>1, <3>2 DEF Runs
    <3>4. QED
      BY <3>3 DEF RunInv, Apart
  <2>2. CASE Retry
    BY <2>2 DEF Retry, RouterTypeOK, Runs, RunInv, Apart
  <2>3. QED
    BY <2>1, <2>2
<1>3. Apart'
  BY <1>2 DEF RunInv, Apart
<1>4. Allowed' /\ ("loadFails" \notin Hazards => Due')
  BY <1>1, <1>2, HoldingLess
<1>5. QED
  BY <1>3, <1>4 DEF RunInv

\* The batch is marked and let go; who is still planned has not been marked.
LEMMA MarkKeepsRunInv == RouterTypeOK /\ RunInv /\ Mark => RunInv'
<1> SUFFICES ASSUME RouterTypeOK, RunInv, Mark PROVE RunInv'
  OBVIOUS
<1>1. /\ run'.plan = run.plan /\ run'.batch = {} /\ run'.stage = "batch" /\ run'.left = run.left
      /\ run'.good = run.good /\ run.left = {} /\ run.good = {}
  BY DEF Mark, RouterTypeOK, Runs, RunInv, Apart
<1>2. \A a : Holds(a)' => Holds(a)
  BY <1>1 DEF Holds
<1>3. Allowed'
  BY <1>2 DEF Mark, RunInv, Allowed, workUnchanged, worldVars
<1>4. Apart'
  BY <1>1 DEF RunInv, Apart
<1>5. ASSUME "loadFails" \notin Hazards PROVE Due'
  <2>1. \A a \in Avatars : a \notin run.batch => status'[a] = status[a]
    BY DEF Mark, RouterTypeOK
  <2>2. \A s \in Sources : run.plan[s] \cap run.batch = {} /\ run.plan[s] \subseteq Avatars
    BY DEF RunInv, Apart, RouterTypeOK, Runs, Plans
  <2>3. QED
    BY <1>1, <1>5, <2>1, <2>2 DEF RunInv, Due, IsDue
<1>6. QED
  BY <1>3, <1>4, <1>5 DEF RunInv

LEMMA NextRunInv == RouterTypeOK /\ RunInv /\ [Next]_vars => RunInv'
<1> SUFFICES ASSUME RouterTypeOK, RunInv, [Next]_vars PROVE RunInv'
  OBVIOUS
<1>1. CASE Register \/ Join \/ BlacklistChanges \/ IndexCatchesUp
           \/ (\E a \in Avatars : Expire(a)) \/ Hear \/ Flush \/ Tick
  BY <1>1, OutsideKeepsRunInv
<1>2. CASE BeginRun \/ JobFails \/ NextBatch
  BY <1>2, BeginRunKeepsRunInv, JobFailsKeepsRunInv, NextBatchKeepsRunInv
<1>3. CASE SendSucceeds \/ SendReverts \/ SendFails \/ Mark \/ Probe \/ Retry
  BY <1>3, SendingKeepsRunInv, ProbingKeepsRunInv, MarkKeepsRunInv
<1>4. CASE EndRun
  BY <1>4, NoRunHoldsNothing DEF EndRun, RunInv, Allowed, worldVars
<1>5. CASE Crash \/ Exit
  BY <1>5, NoRunHoldsNothing DEF Crash, Exit, Reset, RunInv, Allowed, worldVars
<1>6. CASE UNCHANGED vars
  BY <1>6, RunUntouched DEF vars, worldVars, storeVars, memoryVars, RunInv, Allowed
<1>7. QED
  BY <1>1, <1>2, <1>3, <1>4, <1>5, <1>6 DEF Next, WorldStep, RunStep

LEMMA RunInvHolds == Spec => []RunInv
BY InitRunInv, NextRunInv, RouterTyped, PTL DEF Spec

-----------------------------------------------------------------------------
\* Only registered humans are enabled whom the list that the worker holds does not
\* name: the list changes under no run, and each run takes its avatars from the
\* registrations and the base groups it was planned with.
THEOREM OnlyAllowedEnabled == Spec => EnablesOnlyAllowed
<1>1. RouterTypeOK /\ RunInv /\ [Next]_vars => [\A a \in routed' \ routed : a \in registered /\ a \notin blacklist]_vars
  <2> SUFFICES ASSUME RouterTypeOK, RunInv, Next, NEW a \in routed' \ routed
               PROVE  a \in registered /\ a \notin blacklist
    OBVIOUS
  <2>1. CASE SendSucceeds \/ SendFails
    <3>1. a \in run.batch /\ a \in Avatars
      BY <2>1 DEF SendSucceeds, SendFails, Enable, RouterTypeOK, Runs
    <3>2. QED
      BY <3>1 DEF RunInv, Allowed, Holds
  <2>2. CASE ~ (SendSucceeds \/ SendFails)
    <3>1. UNCHANGED routed
      BY <2>2 DEF Next, WorldStep, RunStep, Register, Join, BlacklistChanges, IndexCatchesUp, Expire,
                  Hear, Flush, Tick, BeginRun, NextBatch, Mark, SendReverts, Probe, Retry, EndRun,
                  JobFails, Crash, Exit, Reset, workUnchanged
    <3>2. QED
      BY <3>1
  <2>3. QED
    BY <2>1, <2>2
<1>2. QED
  BY <1>1, RouterTyped, RunInvHolds, PTL DEF Spec, EnablesOnlyAllowed

\* While loads of the store show what it holds, no avatar is marked twice for a
\* source, nor for fallback after a base group.
THEOREM MarkedOnce ==
    ASSUME "loadFails" \notin Hazards
    PROVE  Spec => NothingMarkedTwice
<1>1. RunInv => \A a \in run.batch, s \in Sources :
                   s = run.source => s \notin status[a] /\ (s = "fallback" => status[a] = {})
  BY DEF RunInv, Due, IsDue
<1>2. RunInv /\ [Next]_vars =>
        [\A a \in run.batch, s \in Sources :
           run.stage = "marking" /\ run'.stage = "batch" /\ s = run.source
              => s \notin status[a] /\ (s = "fallback" => status[a] = {})]_vars
  BY <1>1
<1>3. QED
  BY <1>2, RunInvHolds, PTL DEF Spec, NothingMarkedTwice

-----------------------------------------------------------------------------
(* What a run makes of the addresses that revert. *)

LEMMA InitSorted == Init => Sorted
BY DEF Init, Sorted, NoRun

LEMMA NoRunSorted == ASSUME run' = NoRun PROVE Sorted'
BY DEF NoRun, Sorted

LEMMA OutsideKeepsSorted ==
    ASSUME Sorted, UNCHANGED <<run, routed>>
    PROVE  Sorted'
<1>1. \A a : Holds(a)' <=> Holds(a)
  BY DEF Holds
<1>2. QED
  BY <1>1 DEF Sorted

LEMMA BeginRunKeepsSorted == RouterTypeOK /\ RunInv /\ BeginRun => Sorted'
<1> SUFFICES ASSUME RouterTypeOK, RunInv, BeginRun PROVE Sorted'
  OBVIOUS
<1>1. CASE UNCHANGED run
  BY <1>1, NoRunSorted DEF BeginRun, RunInv, Apart
<1>2. CASE ~ UNCHANGED run
  <2> DEFINE plan(seen) == PlanFor(Entries(Head(queue)), blacklist', seen)
  <2>1. PICK seen \in Loads(status, Unmarked), known \in Loads(quarantine, {}) :
             run' = [NoRun EXCEPT !.stage = "batch", !.kind = Head(queue).kind,
                        !.plan = plan(seen), !.known = known,
                        !.planned = plan(seen)["base-group"] \cup plan(seen)["fallback"]]
    BY <1>2, BeginRunGives
  <2> HIDE DEF plan
  <2>2. /\ run'.plan = plan(seen) /\ run'.stage = "batch" /\ run'.bad = {} /\ run'.good = {}
        /\ run'.planned = plan(seen)["base-group"] \cup plan(seen)["fallback"]
    BY <2>1 DEF NoRun
  <2>3. \A a \in run'.planned : Holds(a)'
    BY <2>2 DEF Holds, Sources
  <2>4. QED
    BY <2>2, <2>3 DEF Sorted
<1>3. QED
  BY <1>1, <1>2

LEMMA NextBatchKeepsSorted == RouterTypeOK /\ Sorted /\ RunInv /\ NextBatch => Sorted'
<1> SUFFICES ASSUME RouterTypeOK, Sorted, RunInv, NextBatch PROVE Sorted'
  OBVIOUS
<1>1. PICK source \in Sources : \E chunk \in SUBSET run.plan[source] :
         run' = [run EXCEPT !.plan[source] = @ \ chunk, !.source = source,
                            !.batch = chunk \ (run.known \cup run.bad),
                            !.stage = IF chunk \ (run.known \cup run.bad) = {}
                                      THEN "batch" ELSE "sending"]
  BY NextBatchGives
<1>2. PICK chunk \in SUBSET run.plan[source] :
         run' = [run EXCEPT !.plan[source] = @ \ chunk, !.source = source,
                            !.batch = chunk \ (run.known \cup run.bad),
                            !.stage = IF chunk \ (run.known \cup run.bad) = {}
                                      THEN "batch" ELSE "sending"]
  BY <1>1
<1>3. /\ \A s \in Sources : run'.plan[s] = IF s = source THEN run.plan[s] \ chunk ELSE run.plan[s]
      /\ run'.batch = chunk \ (run.known \cup run.bad) /\ run'.stage \in {"batch", "sending"}
      /\ run'.good = run.good /\ run'.clean = run.clean /\ run'.bad = run.bad
      /\ run'.known = run.known /\ run'.planned = run.planned
  BY <1>2 DEF RouterTypeOK, Runs, Plans
<1>4. \A a : Holds(a) => Holds(a)' \/ a \in run.known \cup run.bad
  <2>1. run.batch = {}
    BY DEF NextBatch, RunInv, Apart
  <2>2. QED
    BY <2>1, <1>3 DEF Holds
<1>5. UNCHANGED routed
  BY DEF NextBatch
<1>6. QED
  BY <1>3, <1>4, <1>5 DEF Sorted

LEMMA SendSucceedsKeepsSorted == RouterTypeOK /\ Sorted /\ SendSucceeds => Sorted'
<1> SUFFICES ASSUME RouterTypeOK, Sorted, SendSucceeds PROVE Sorted'
  OBVIOUS
<1>1. /\ run'.plan = run.plan /\ run'.batch = run.batch /\ run'.stage = "marking"
      /\ run'.good = run.good /\ run'.clean = run.clean /\ run'.bad = run.bad
      /\ run'.known = run.known /\ run'.planned = run.planned
      /\ routed' = routed \cup run.batch
  BY DEF SendSucceeds, Enable, RouterTypeOK, Runs
<1>2. \A a : Holds(a)' <=> Holds(a)
  BY <1>1 DEF Holds
<1>3. QED
  BY <1>1, <1>2 DEF Sorted

\* In a run without faults a batch that reverts is a first attempt: alone, its
\* address is a bad one; else every address of it is left to be probed.
LEMMA SendRevertsKeepsSorted ==
    ASSUME RouterTypeOK, Sorted, RunInv, SendReverts, "revertLooksSafe" \notin Hazards
    PROVE  Sorted'
<1>1. run' = AfterFailure(run, FALSE) /\ UNCHANGED routed
  BY DEF SendReverts, AfterFailure
<1>2. /\ run'.plan = run.plan /\ run'.clean = run.clean /\ run'.known = run.known
      /\ run'.planned = run.planned
      /\ \/ /\ run'.stage = "batch" /\ run'.batch = {} /\ run'.good = run.good
            /\ \/ run'.bad = run.bad /\ run.stage = "retrying"
               \/ run'.bad = run.bad \cup run.batch /\ Cardinality(run.batch) = 1
         \/ /\ run'.stage = "probing" /\ run'.batch = run.batch /\ run'.left = run.batch
            /\ run'.good = {} /\ run'.bad = run.bad
  BY <1>1 DEF RouterTypeOK, AfterFailure, Runs
<1>3. CASE ~run.clean
  BY <1>2, <1>3 DEF Sorted
<1>4. CASE run.clean /\ run'.stage = "batch"
  <2>1. run'.bad = run.bad \cup run.batch /\ Cardinality(run.batch) = 1
    BY <1>2, <1>4 DEF Sorted, SendReverts, Reverts
  <2>2. run.batch \subseteq Reverting
    <3>1. IsFiniteSet(run.batch)
      BY FS_Subset, RouterAssumption DEF RouterTypeOK, Runs
    <3>2. PICK x : run.batch = {x}
      BY <2>1, <3>1, FS_Singleton
    <3>3. QED
      BY <3>2 DEF SendReverts, Reverts
  <2>3. \A a : Holds(a) => Holds(a)' \/ a \in Reverting
    BY <1>2, <2>2 DEF Holds
  <2>4. QED
    BY <1>1, <1>2, <1>4, <2>1, <2>2, <2>3 DEF Sorted
<1>5. CASE run.clean /\ run'.stage = "probing"
  <2>1. \A a : Holds(a)' <=> Holds(a)
    BY <1>2, <1>5 DEF Holds
  <2>2. QED
    BY <1>1, <1>2, <1>5, <2>1 DEF Sorted
<1>6. QED
  BY <1>2, <1>3, <1>4, <1>5

LEMMA ProbingKeepsSorted ==
    ASSUME RouterTypeOK, Sorted, RunInv, Probe \/ Retry
    PROVE  Sorted'
<1>1. UNCHANGED routed /\ run.stage = "probing" /\ run \in Runs
  BY DEF Probe, Retry, RouterTypeOK
<1>2. CASE Probe
  <2>1. PICK a \in run.left :
           \/ run' = [run EXCEPT !.left = @ \ {a}, !.good = @ \cup ({a} \ Reverting),
                                 !.bad = @ \cup ({a} \cap Reverting)]
           \/ run' = [run EXCEPT !.left = @ \ {a}, !.good = @ \cup {a}, !.clean = FALSE]
    BY <1>2 DEF Probe
  <2>2. run'.clean =>
           /\ run.clean /\ run'.plan = run.plan /\ run'.batch = run.batch /\ run'.stage = "probing"
           /\ run'.left = run.left \ {a} /\ run'.good = run.good \cup ({a} \ Reverting)
           /\ run'.bad = run.bad \cup ({a} \cap Reverting)
           /\ run'.known = run.known /\ run'.planned = run.planned
    BY <2>1, <1>1 DEF Runs
  <2>3. run'.clean => \A b : Holds(b)' <=> Holds(b)
    BY <2>2 DEF Holds
  <2>4. QED
    BY <1>1, <2>2, <2>3 DEF Sorted
<1>3. CASE Retry
  <2>1. /\ run'.plan = run.plan /\ run'.batch = run.good /\ run'.stage \in {"batch", "retrying"}
        /\ run'.good = {} /\ run'.bad = run.bad /\ run'.clean = run.clean
        /\ run'.known = run.known /\ run'.planned = run.planned /\ run.left = {}
    BY <1>3, <1>1 DEF Retry, Runs
  <2>2. run.clean => \A b : Holds(b) => Holds(b)' \/ b \in Reverting
    BY <1>1, <2>1 DEF Holds, Sorted
  <2>3. QED
    BY <1>1, <2>1, <2>2 DEF Sorted
<1>4. QED
  BY <1>2, <1>3

LEMMA MarkKeepsSorted == RouterTypeOK /\ Sorted /\ Mark => Sorted'
<1> SUFFICES ASSUME RouterTypeOK, Sorted, Mark PROVE Sorted'
  OBVIOUS
<1>1. /\ run'.plan = run.plan /\ run'.batch = {} /\ run'.stage = "batch"
      /\ run'.good = run.good /\ run'.clean = run.clean /\ run'.bad = run.bad
      /\ run'.known = run.known /\ run'.planned = run.planned
      /\ UNCHANGED routed /\ run.stage = "marking"
  BY DEF Mark, RouterTypeOK, Runs
<1>2. run.clean => \A a : Holds(a) => Holds(a)' \/ a \in routed
  BY <1>1 DEF Holds, Sorted
<1>3. QED
  BY <1>1, <1>2 DEF Sorted

LEMMA NextSorted ==
    ASSUME RouterTypeOK, RunInv, Sorted, [Next]_vars, "revertLooksSafe" \notin Hazards
    PROVE  Sorted'
<1>1. CASE Register \/ Join \/ BlacklistChanges \/ IndexCatchesUp
           \/ (\E a \in Avatars : Expire(a)) \/ Hear \/ Flush \/ Tick
  BY <1>1, OutsideKeepsSorted
     DEF Register, Join, BlacklistChanges, IndexCatchesUp, Expire, Hear, Flush, Tick, memoryVars
<1>2. CASE BeginRun \/ NextBatch \/ SendSucceeds \/ SendReverts
  BY <1>2, BeginRunKeepsSorted, NextBatchKeepsSorted, SendSucceedsKeepsSorted, SendRevertsKeepsSorted
<1>3. CASE Probe \/ Retry \/ Mark
  BY <1>3, ProbingKeepsSorted, MarkKeepsSorted
<1>4. CASE SendFails
  <2>1. PICK safeLevel \in BOOLEAN : run' = [AfterFailure(run, safeLevel) EXCEPT !.clean = FALSE]
    BY <1>4 DEF SendFails
  <2>2. ~run'.clean
    BY <2>1, AfterFailureTyped DEF RouterTypeOK, Runs
  <2>3. QED
    BY <2>2 DEF Sorted
<1>5. CASE EndRun \/ Crash \/ Exit
  BY <1>5, NoRunSorted DEF EndRun, Crash, Exit, Reset
<1>6. CASE JobFails
  BY <1>6, OutsideKeepsSorted DEF JobFails
<1>7. CASE UNCHANGED vars
  BY <1>7, OutsideKeepsSorted DEF vars, memoryVars
<1>8. QED
  BY <1>1, <1>2, <1>3, <1>4, <1>5, <1>6, <1>7 DEF Next, WorldStep, RunStep

\* A run without faults enables all it planned but those in quarantine and those
\* that revert, and sets only the latter apart, when no revert is taken for an
\* error of the Safe.
THEOREM BadAddressesFound ==
    ASSUME "revertLooksSafe" \notin Hazards
    PROVE  Spec => []BadAddressesSetApart
<1>1. RunInv /\ Sorted => BadAddressesSetApart
  <2> SUFFICES ASSUME RunInv, Sorted, run.stage = "batch", run.plan = NoPlan, run.clean
               PROVE  /\ run.bad \subseteq Reverting
                      /\ run.planned \ (Reverting \cup run.known) \subseteq routed
    BY DEF BadAddressesSetApart
  <2>1. \A a : ~Holds(a)
    BY DEF Holds, RunInv, Apart, NoPlan
  <2>2. QED
    BY <2>1 DEF Sorted
<1>2. RouterTypeOK /\ RunInv /\ Sorted /\ [Next]_vars => Sorted'
  BY NextSorted
<1>3. QED
  BY <1>1, <1>2, InitSorted, RouterTyped, RunInvHolds, PTL DEF Spec
=============================================================================
