# A TLA+ model of group-tms

group-tms is a family of workers that keep Circles groups on Gnosis Chain in step with events,
scores and a blacklist. Each process runs one worker (`src/src/main.ts` picks it by name); a worker
reads logs and indexes, decides whom its group should trust, sends transactions through a Safe, and
remembers a cursor. The hard part is never the decision for one human. It is that reads, awaits,
timers, failures, restarts and other processes come between the decision, the transaction and the
cursor. That is what the modules here are about.

Paths below are relative to `src/src` of the repository unless they start with `src/`.

## 1. Inventory

| component | state | operations | interacts with |
|---|---|---|---|
| group-affiliates, realtime listener (`apps/group-affiliates/realtime.ts`) | socket, timers, `lastSeenCursor`, `pendingEvents`, `catchUpInFlight` | connect, subscribe, receive, flush, catch up, deliver, reconnect, stop | the node's websocket and HTTP RPC; calls `onEvents` of the worker and awaits it |
| group-affiliates, affiliate map (`affiliateMap.ts`) | human to group, reverse index, dirty set, block | set, advance, load, save | state store |
| group-affiliates, worker (`main.ts`, `logic.ts`) | task queue, cursor row, map row | start, backfill, replay, event batch, reputation reconciliation, save, exit | listener, map, trust index, scores, Safe executor |
| crc-backers (`main.ts`, `logic.ts`) | `nextFromBlock`, blacklist, error count | loop, run, reconcile a backing process | events index, blacklist service, backing instance contracts, executor |
| router-tms (`main.ts`, `logic.ts`, `realtime.ts`, stores) | job queue, enablement store, quarantine; the listener's sockets, cursor, pending humans, catch-up | poll, realtime job, batch, probe, quarantine; connect, receive, catch up, flush, stop | RegisterHuman index, trust index, blacklist, executor |
| Safe executor (`services/safeTransactionExecutor.ts`) | chain of promises | execute | the Safe contract and mempool; called by every worker |
| community-new (`main.ts`, `logic.ts`, `multiRegistry.ts`, `affiliateMultiMap.ts`, `oldRegistrySource.ts`) | members of the new registry with a block, the affiliate map of the old one, error count | replay, refresh, listener events, a cycle: wishlist, criteria, untrust policy, circuit breaker, batches | two registries, scores and fees, state store, executor |
| gp-crc (`main.ts`, `logic.ts`) | for whom each safe counts, blacklist, error count | loop, run, move trust between owners of a safe, at most two switches | registrations, Metri's safe owners, blacklist service, group transactions |
| gnosis-group (`main.ts`, `logic.ts`) | blacklist, score cache, error count | loop: refresh the blacklist, read lists, fetch scores, retried batches | trust lists, blacklist and score services, executor |
| oic (`main.ts`, `logic.ts`) | affiliates, scanned block and its row | loop: scan, plan, batches, save | old registry, trust lists, state store, executor |
| dublin-tms, router2, new-gnosis (`main.ts`, `logic.ts` each) | next block; approved addresses; whether the backfill is done | a loop with one plan per run | logs or the Gnosis App's index, trust lists, scores, executor |
| state store, mapping store | rows | load, save | PostgreSQL |
| blacklist, score, app user and RPC services | a cached list, the method names that worked, ranges still to be read | load, query, read page by page, bisect a range of events | HTTP; called by every worker |
| Slack, logging, metrics, ABIs | none | | |

What makes each of them correct, and what is hard about it:

* **Listener.** No log of the registry is lost between the websocket and the catch-up; the cursor
  covers only what the worker has processed; it never goes back; batches end in chain order. Hard:
  `deliverEvents` awaits `onEvents` before it advances the cursor, so the two paths interleave; the
  catch-up's head is fetched before the subscription exists; old sockets' handlers act on the new
  socket.
* **Affiliate map.** The reverse index is exact through every sequence of moves, loads and saves;
  entries that are not dirty are in the store. Hard: a save that fails does so silently, after the
  dirty set was cleared.
* **group-affiliates worker.** The stored cursor never covers a batch that was not carried out; no
  human is trusted in two managed groups; trust converges to what chain and scores call for. Hard:
  the process may end between any two steps, in particular between its two saves; the trust index
  lags; a plan may be carried out in part.
* **crc-backers.** Only completions that no reorganisation can undo lead to trust; the cursor passes
  no completion that was not handled; blacklisted trustees go. Hard: a reorganisation, a lagging
  index, a failure, a lost answer or a crash at every point of a run.
* **router-tms.** Every human is routed in the end; nobody who is blacklisted or not a human is;
  nobody is enabled twice for one source; one bad address does not hold up its batch. Hard: a
  transient fault looks like a bad address; store and index lag behind the last job.
* **router-tms, listener.** No registration after its first head is passed over silently: it is handed
  over in the end, or is one of those the poll must find. Hard: the cursor says what was detected, not
  what was handed over; live path and catch-up both move it; connections are lost in between.
* **gp-crc.** A safe makes one avatar trusted at a time, and moves trust only so often; trust follows
  what the store says in the end. Hard: the decision is saved before the transactions that carry it
  out; a lookup may come back empty; a restart forgets everything.
* **community-new.** Maps and rows stay replays of their registries; no member with an unbroken right
  to it loses its trust; no cycle untrusts more than the caps; the groups converge. Hard: the
  sources of one cycle are read one after the other while the registries move on; saves fail
  silently; listener and refresh write one map.
* **Safe executor.** One call at a time; one transaction per call; "done" means carried out; every
  call settles and lets the next one in. Hard: a nonce raced by another process, an answer lost after
  sending, a receipt later than the timeout.
* **Reads of events and lists.** What was there all along is read. Hard: answers end at a page, the bisection
  of a range at a depth; rows come, go and move between two pages; a cached method name stops working.
* **oic, dublin-tms, router2, gnosis-group, new-gnosis.** No log is passed over, nobody loses a trust
  that is due, and the target ends up trusting whom it should. Hard: a run fails in the middle of its
  batches or after it has changed the worker's memory; a batch that is reported as failed was carried
  out; a restart forgets the memory, or all of it but a row; scores and lists are of different ages.
The hazards are listed in `PROJECT.json` with their lines and the properties that cover them.

## 2. Modules

| module | models | built on |
|---|---|---|
| `EventCursor` | cursors and reads of the registry's log | |
| `EventFeed` | *abstract*: a lossless, ordered feed with a cursor | `EventCursor` |
| `AffiliateListener` | the data path of the listener | `EventCursor` |
| `AffiliateListenerProps` | its properties and the refinement of `EventFeed` | `AffiliateListener`, `EventFeed` |
| `AffiliateMap` | the map as a value with operations | |
| `AffiliateMapStore` | the map and its row in a store that may fail | `AffiliateMap` |
| `GroupAffiliates` | the worker, with listener and map composed in | `AffiliateListener`, `AffiliateMap` |
| `GroupAffiliatesProps` | its properties | `GroupAffiliates` |
| `ListenerConnection` | the sockets and timers of both listeners, `stop()` | |
| `RegistrationListener` | router-tms' listener: what its sockets carry, its cursor, its catch-up | `ListenerConnection`, `EventCursor` |
| `CrcBackers` | the crc-backers worker | |
| `SafeExecutor` | the executor and its retrying callers | |
| `EventRanges` | the bisection of a range of events | |
| `PagedReads` | lists read page by page while they change | |
| `Services` | the three above, each on its own, for one run | `SafeExecutor`, `EventRanges`, `PagedReads` |
| `RouterTms` | the router-tms worker | |
| `GpCrc` | the gp-crc worker with its mapping store and safe lookup | |
| `Batches` | addresses cut into transactions | |
| `TrustLoop` | what the smaller workers have in common: the world they read, a run, its batches, its errors | `Batches` |
| `Oic`, `DublinTms`, `Router2`, `GnosisGroup`, `NewGnosis` | the memory and the steps of one worker each | `TrustLoop` |
| `Workers` | a process that runs one of the smaller workers or gp-crc, with failures and restarts | these, `GpCrc` |
| `Registries` | the logs of the old and the new registry, as both sources read them | `AffiliateMap` |
| `MultiMap` | community-new's members of the new registry, their row, the refresh | `Registries` |
| `OldRegistrySource` | community-new's source on the old registry | `Registries`, `AffiliateMapStore` |
| `CommunityNew` | the community-new worker | `MultiMap`, `OldRegistrySource`, `Batches` |
| `MultiListener` | community-new's listener of the new registry beside its refresh | `MultiMap` |
| `OldListener` | community-new's listener of the old registry beside its refresh | `AffiliateListener`, `AffiliateMap` |
| `MCGroupAffiliates`, `MCCommunityNew`, `MCOldListener` | constants for TLC | |
| `GroupAffiliatesProofs` | theorems | `AffiliateListener`, `GroupAffiliates` and their properties |
| `CommunityNewProofs` | theorems | `CommunityNew` and what it is built on, `AffiliateMapStore` among them |
| `WorkersProofs` | theorems | `Workers`, with `GpCrc`, `Oic`, `DublinTms` and the other loops |
| `ServicesProofs` | theorems | `Services`: `SafeExecutor`, `EventRanges`, `PagedReads` |
| `ListenerProofs` | theorems | `ListenerConnection`, `RegistrationListener` |
| `CrcBackersProofs`, `RouterTmsProofs` | theorems | `CrcBackers`, `RouterTms` |
| `DataLemmas` | lemmas on batches, finite sets, and recursion over subsets | `Batches` |

How state and actions correspond to the code (`PROJECT.json`, "map", has the lines of every
definition):

* **`AffiliateListener`** - `lastSeen`, `pending`, `catchUp`, `tasks` are `lastSeenCursor`,
  `pendingEvents`, `catchUpInFlight` with its run, and the `executionQueue` of `main.ts`. The code
  splits at its awaits, and so does the model: `Deliver` is `deliverEvents` up to the await of
  `onEvents`, `Settle` is what follows it; `CatchUpFrom` and `CatchUpFetched` are `runCatchUp` before
  and after the request for the logs. A batch is a set: the code removes duplicates and sorts by
  cursor. `eth_getLogs` in chunks is abstracted to the logs of a block range.
* **`GroupAffiliates`** - `job` is the task under way and its `stage` the await it is at; `Backfill`,
  `BeginReplay`, `BeginTask` (map update, reads, plan), `ExecuteOperation` (one Safe transaction),
  `SaveCursor`, `SaveMap` follow `main.ts`. `Crash` may come between any two. The score threshold,
  the trust index and the registry are inputs.
* **`ListenerConnection`** - one action per handler of a socket (`Opened`, `Acknowledged`,
  `Rejected`, `Payload`, `CloseEvent`), per timer and for `stop()`. A handler acts on `ws`, the
  current socket, as in the code, not on its own. `exited` is a `send` that throws out of a handler. The
  two listeners' sockets are the same code twice; `CaughtUp` is what only router-tms' does.
* **`RegistrationListener`** - each action of a socket is `ListenerConnection`'s action with what it does to
  `wire`, the cursor and the catch-up. `startedHead` is `connectStartedHead`, `lastSeen` is
  `lastSeenCursor`, `pending` is `pendingHumans`, `catchUp` is the run behind `catchUpInFlight`, split at
  its requests for the head (`CatchUpHead`) and for the logs (`CatchUpFetched`). `atRisk` and `since` are
  history.
* **`CrcBackers`** - `run.stage` is where `runOnce` is. The model reads head, completions and
  blacklist at the start of a run and the pending processes later, as the code does; each read of the
  index may show anything from `IndexLag` blocks back to the head.
* **`SafeExecutor`** - `lock` is the chain of promises `_executeLock`; `Create`, `Estimate`, `Send`,
  `Receipt`, `TimesOut` are the parts of `_executeInner`. A caller may try again (`MaxAttempts`), as
  gnosis-group and gp-crc do.
* **`EventRanges`** - `todo` holds the calls of `fetchEventsRecursive` that are still to be made; one step is
  one answer. An answer that fills the page may be any part of the events of its range.
* **`PagedReads`** - `reader` says whose list it is, and with it how the next page is asked for (an offset,
  a row, a cursor of the node), how the end is told and how many pages there may be. `place` is the
  table, as the order of its rows: rows are added, removed, and renewed (a trust that is given again
  becomes the newest). `resolved` is `resolvedNames` of `affiliateGroupsRpcService.ts`.
* **`Services`** - `service` says which of the three is at work; they share no state in the code.
* **`RouterTms`** - `queue` is `executionQueue`; a job's run goes through batches, an attempt, a
  probe of each address, a second attempt (`executeBatchWithFallback`). `status` and `quarantine` are
  the store, PostgreSQL (`Persistent`) or memory.
* **`GpCrc`** - `run.stage` is where `runOnce` is: `BeginRun` reads humans, trustees and verdicts,
  `Decide` looks up the safes, updates and saves the store and makes the plan, `UntrustBatch` and
  `TrustBatch` are one transaction each, in that order. `state` is the trust-state map of the store;
  its avatar-to-safe map is read only for a safe that has no trust state, which the in-memory store
  never has.
* **`TrustLoop`** - `work` is the run under way: its stage, what it has read, and the batches it still
  has to send. `RunError` is the catch of each `mainLoop` with `ConsecutiveErrorTracker`;
  `BatchTrouble` is a transaction that is refused, fails, or is reported as failed though it is
  carried out. The five loops agree on all of this; what a failed batch means to the rest of the run
  is said by each (`BatchFails`, `GnosisBatchTrouble`). `untrustable` members make their batch revert.
* **`Oic`** - `OicScan` is `runIncremental` up to `processAffiliateEvents`, `OicPlan` is
  `executeCoreLogic` up to the first transaction, `OicDone` marks the range as done and saves it.
* **`DublinTms`** - `DublinScan` and `DublinNothingNew` are `runOnce` up to the first transaction, or
  up to its early return; `DublinDone` takes over `nextFromBlock`.
* **`Router2`** - `approved` is `InMemoryRouter2ApprovalStore`; `Router2Batch` remembers a batch when it
  has succeeded.
* **`GnosisGroup`** - `GnosisLoad` (`refreshBlacklist`), `GnosisRead`, `GnosisScore` (with
  `computeTrustPlan`) are the parts of a run between its awaits; `GnosisScoreFails` keeps the scores
  that came before the failure; `Expire` is the time to live of a score.
* **`NewGnosis`** - `NewGnosisLoad`, `NewGnosisBackfill` and `NewGnosisBackfilled` are the one-time
  backfill, `NewGnosisIncremental` the pass of every run.
* **`Workers`** - `app` is chosen once. `steady` is history: who has been rightful on one and the same
  ground (a list, a score, a whitelist) ever since the run began.
* **`CommunityNew`** - `stage` walks through start-up (`startNew`, `startOld`) and through a cycle
  (`new`, `old`, `spare`, `groups`, `criteria`, `execute`), each stage an await of `main.ts` or
  `logic.ts`; a variant skips the stages it does not need. A variant is a membership source with an
  untrust mode, chosen once. `Rightful` names who may not be untrusted and for which reason;
  `steady` remembers the reasons that have held ever since the cycle began. `OldHeadUnknown` is a refresh of
  the old registry to which the node gives no block number. The registries have no logs before the blocks the
  worker starts from.
* **`MultiListener`** - the listener's catch-up and the refresh of the cycle are two runs with their own
  `from` and `to`; each splits at the answers to its requests for the head and for the logs, and takes
  `from` only when the head is there.
* **`OldListener`** - the listener is `AffiliateListener`, action for action; its `tasks` are the queue of
  `runExclusive`, in which a refresh (a task of source `reconcile`) waits among the batches. A batch is
  filtered when it joins the queue; a refresh asks for the head when its turn comes.

The environment's misbehaviour is always named: a constant `Hazards` (or `StoreFails`, `IndexLags`,
`ProbeFails`, `LateClose`) says what may happen, and each name guards the one disjunct it lets happen;
`MaxDisturbances` and `MaxMishaps` bound how often a process ends, a store or a request fails.

## 3. Runs

| run | checks | shows |
|---|---|---|
| `OldListener` | `ImplementsFeed`, `EveryLogProcessed`; `MapRepaired` | the listener beside the refreshes of community-new's cycles, which may fail: with lost connections, but none of the losing hazards, it implements the lossless feed and processes every log, and the map that batches and refreshes take turns at is right once all logs are handed over |
| `GroupAffiliates_recovers` | `SavedCursorCoversApplied`, `MapCurrentWhenQuiet`, `TrustedInOneGroup`, `TrustConverges` | a crash anywhere, a failing store and score changes lose no batch, and trust reaches what the world calls for |
| `GroupAffiliates_hazards` | `TrustFollowsMap`, `BatchesEndInOrder` | with failing catch-ups and tasks, lost answers, early reconnects, a lagging index and a crash, batches reach the worker in chain order and plans agree with the map |
| `GroupAffiliates_map_after_restart` | `MapCurrentWhenQuiet` violated | finding 1 |
| `RegistrationListener` | `CurrentSocketOnly`, `NeverExits`, `NeverStranded`, `SubscribedAgain`; `NothingPassedOver`, `RegistrationsHandedOver` | for the sockets of both listeners: one at a time, and always a way back; for what they carry to router-tms: a registration is handed over, or may be left to the poll for a reason that `atRisk` names |
| `CrcBackers` | `TrustsOnlyFinalCompletions`, `CursorCoversHandled`, `RunUntrustsBlacklisted`, `CompletionsTrusted` | over reorganisations, failures and crashes |
| `CrcBackers_pending` | `PendingStaysInRange` violated | finding 2 |
| `Services` | `Serialized`, `ExecutedAtMostOncePerCall`, `EveryCallerSettles`; `RangesAccounted`; `NothingSteadyMissed`, `ReadsComplete` | the executor with every hazard and a foreign process; a bisection over an index that goes on filling; five paged lists that change while they are read, with failing requests |
| `RouterTms` | `BadAddressesSetApart`, `NothingMarkedTwice`, `HumansRouted`, `BaseGroupFollows` | with faults, a store that forgets a mark, a crash |
| `Workers` | `AffiliatesAreReplay`, `NoRegistrationSkipped`, `RightfulKept`, `LoopsConverge`; for gp-crc also `NoMoreTrusteesThanSafes` | six workers, one per behaviour: lists, scores and owners change, reads and batches fail, answers are lost, the target refuses a member, the process ends |
| `CommunityNew` | `MultiMapIsReplay`, `OldMapIsReplay`, `CycleWithinCaps`, `RowsNeverGoBack`, `SteadyMembersKept`, `CommunityConverges` | five variants, failing saves and loads, a restart or a failed request, a change of score or fees |
| `MultiListener_missed` | `NoEventMissed` violated | finding 3 |

Type invariants and bookkeeping that TLAPS proves (section 4) are not checked again by a run.
Every property of a passing run has a mutant in `PROJECT.json`: a plausible mistake in one definition
for which TLC finds that property violated under the same configuration.

### Findings

1. `apps/group-affiliates/main.ts:265-266` saves the cursor, then the map. If the process ends in
   between, the next start backfills the map up to `head - CONFIRMATION_BLOCKS` only, while replay
   and listener start behind the stored cursor. The logs in between never reach the map, and
   reconciliation plans from a map that is behind for good (line 281 says that the listener keeps it
   current). The run needs `Confirmations = 1`; with 0 the property holds (`GroupAffiliates_recovers`).
2. `apps/crc-backers/logic.ts:578` moves the cursor behind processes that were initiated but not yet
   overdue. No later run looks at them, though `src/README.md:9` says that the worker reconciles them
   and line 487 that it "will re-check later".
3. `apps/community-new/multiRegistry.ts:171` reads the block that the catch-up starts from only after
   it has asked for the head. A live log that is flushed in between has moved that block past the logs of
   the downtime; neither the catch-up, nor a refresh, nor a restart reads them any more. Lines 101-102
   say "so no event is missed across disconnects". A removal that is lost so leaves a member in the
   map, which `affiliateMultiMap.ts:15-17` says can only under-report. The listener is off by default,
   and no request fails in the run.

### Bounds, and why they are enough

* Listener: two blocks with up to two logs each. A loss needs one log before and one after a cursor,
  in one block or two; disconnections and catch-ups are not bounded.
* `GroupAffiliates`: one human, three groups (two managed) or two, two blocks of one log each. Two moves
  between managed groups are the shortest history in which an untrust and a trust can be lost or
  swapped. `LastIndex = 2` leaves room for the head cursor above every log. `GroupAffiliates_recovers`
  has two disturbances, so that the process can end after a save that failed, or a score can change
  around a restart; its groups differ in name only, so one of them is the one joined first.
  A human does not set the group it has (`MCMoves`), and scores are above the thresholds at the start
  (`MCFairSpec`): a low one is a disturbance away. `GroupAffiliates_hazards` has one disturbance besides
  its hazards.
* `RegistrationListener`: two sockets at a time, the current one and one that is closing; one that is gone
  is used again, and connections are lost without bound. Two blocks with up to two registrations each:
  one before and one after a cursor, in one block or two. The safety theorems have any number.
* `CrcBackers`: two backers, four blocks, `Confirmations = IndexLag = 1`, two failures, one
  reorganisation. Two failures in a row reach `ErrorsBeforeCrash = 2`; a failed load after a failed
  run is reached too.
* `Services`: for the executor two callers with two attempts each, two nonce races, one foreign
  transaction. For event ranges pages of two, five blocks and `DepthCap = 2`: the whole range is wider
  than 2^2 and may be cut, a part of it need not be; five events fill two blocks, and one more may show
  up in any step. For paged lists five addresses in pages of two; blacklist and members may have two
  pages, so that a list can be too long, the others three. Two changes of the table, or of the method's
  name, and one failed request per behaviour; `ErrorsBeforeCrash = 2`, so that a name that is gone ends the process
  and an error before it counts.
* `RouterTms`: two avatars, one of which reverts, in one batch of two: the smallest batch that has to
  be taken apart. `ErrorsBeforeCrash = 1`, since one fault is injected; the count above one is
  exercised in `CrcBackers`.
* `Workers`: two humans, one of them on the whitelist or in the historic snapshot, blocks up to 3 with
  one confirmation, batches of one. A human can register before the cutoff or after it; in oic one can
  join, leave and join again, in ranges that are scanned apart or together. One change of a list, a
  score or the blacklist, and one mishap, may come at any time; a member that is refused makes as
  many errors in a row as it takes to end the process (`ErrorLimit = 2`), again and again. With
  batches of one a refused member holds up nobody but itself in gnosis-group.
* gp-crc, in the same run: three avatars, one safe, one switch allowed, batches of one. Three owners are needed for a
  second switch to be refused; three links, one unlink or listing, and a failure may come at any time.
  The lists of trust begin empty or full.
* `CommunityNew`: two avatars, one managed group, two blocks with one log each, batches of one. Both are
  trusted before, so one untrust is the cap of one and half of the trustees, and two are refused; the
  refusals reach `ErrorsBeforeCrash = 2`. One mishap may fall into any stage. The five variants cover
  each source and each mode; `rpc` has the modes add-only and union, the others wishlist.
* `MultiListener`: two blocks, one log in each: one in the downtime, one after it.
* `OldListener`: one human, two groups, two blocks with up to three logs in all (`MaxLogs`), two of them in one block: a
  batch can end inside a block, and a refresh can have read a log that is newer than the batch behind it.
  Disconnections, catch-ups and refreshes are not bounded.

Counters named `Max...` bound the environment (blocks, faults, restarts), never the code.

### Hazards left out of passing runs

Some hazards really break a property; they are the edges of what the code promises:

* `minedWhileConnecting` (a log between the fetched head and the subscription), `catchUpFails`,
  `reconnectDuringCatchUp`, `flushDuringCatchUp` and `callbackFails`: each alone breaks
  `CursorCoversProcessed` (what `Lossless` proves without them) and `EveryLogProcessed`, for the live path moves the cursor past a log that
  the other path has not brought. They are in `GroupAffiliates_hazards`, all but
  `flushDuringCatchUp`.
* `flushDuringCatchUp` and `flushWhileDelivering` break `BatchesEndInOrder`: a live batch is queued
  ahead of a catch-up batch that ends earlier. Nothing is lost by the second (`Lossless` is proved
  with it).
* `reconnectBeforeFlush` breaks `TrustFollowsMap`: logs gathered before a lost connection and after the
  next one are flushed as one batch with a gap in it, the last event that touches a group is then not the
  last of the human, and the plan trusts in a group that the map has left. The defaults exclude it
  (`realtime.ts:76-78`: a debounce of 1 s, a reconnect after 2 s or more; `main.ts:254` passes neither), so it
  is a hazard and not a step that is always possible.
* `LateClose = TRUE` breaks `CurrentSocketOnly` and `NeverExits`: a close event
  that comes after the reconnect timer sets `ws` to null under its successor. `NeverStranded`,
  `ReconnectsWithoutSocket` and `StopIsFinal` are proved with it.
* In `RegistrationListener` a registration is at risk (`atRisk`), and left to the poll of `RouterTms`, when
  a request of a catch-up failed, when the index was behind the head, when the catch-up found the head in
  the cursor's block, or when a catch-up was joined that had been started before the connection was lost.
* With `IndexLags`, `ProbeFails` (a replay that is skipped), `callbackFails`, `Confirmations = 1` or two logs in
  a block a human can be trusted in two groups for a while (TLC violates `TrustedInOneGroup` with each of them
  alone), until events or reconciliation repair it.
* Two logs in a block break `MapCurrentWhenQuiet` as finding 1 does, even without confirmations: handed over in two
  batches, with the process ending between the two saves of the second one. The saved map has the block of the
  first log, the saved cursor lies after the second; the backfill starts at the next block and the replay after the cursor,
  and the second log is never taken in, though `affiliateMap.ts` calls `lastScannedBlock` the highest
  block whose events have been reduced into the map.
* In `CrcBackers` a lag of the index beyond the confirmations breaks `CursorCoversHandled`.
* `GpCrc` reads the trustees as they are. With an index that is behind, an untrust can be left out
  after a lost answer, and two avatars are trusted for one safe until a later run.
* `CommunityConverges` excepts behaviours in which the circuit breaker refuses plan after plan: the
  code's message asks an operator to raise the caps (`apps/community-new/logic.ts:492`).
* In `PagedReads` a list read at offsets misses one row for each that is removed meanwhile, a list read
  newest first one for each that is renewed: `NothingSteadyMissed` counts them (`shifts`). In
  `EventRanges` events are left out in a block that fills a page by itself, and in a range that is both
  wider than 2^DepthCap blocks and cut.
* In `OldListener` the map is not right at every moment. `apps/community-new/oldRegistrySource.ts:133` queues a batch
  of the listener behind the refresh at work, which reads the head when its turn comes and may have logs that are newer
  than the batch: the batch, applied after it, sets the former group again, though the map's block says that the newer
  log is in, and a cycle that runs in between decides from the former group. Lines 40-43 say that the queue is there
  because "concurrent writers could regress a human to a stale group"; that they take turns does not prevent it. The
  listener sets it right when it hands over the newer log itself (`MapRepaired`); a refresh does not. This listener
  is off by default, too.
* `MapRepaired` excepts what `overlapped` records: `flushWhileDelivering` breaks it without any refresh, for a live
  batch that joins the queue behind a catch-up batch which holds its logs, and newer ones, takes a human back, and
  the cursor has passed the newer log by the time it comes over the live path. `catchUpFails` breaks it until a
  refresh reads the gap, and for good once a live log has moved the map's block past it.
* In `RouterTms`, `loadFails` breaks `NothingMarkedTwice` (an unreadable store looks empty) and
  `revertLooksSafe` breaks `BadAddressesSetApart`.

### Fairness

* Timers fire, requests are answered or fail, awaited calls settle: weak fairness on the worker's own
  steps. The code arms a timer or a timeout at each of these places.
* `RegistrationListener`: weak fairness on the reconnect and the debounce timer, the requests of a
  catch-up, the close event of a socket that was closed, and the receipt of what is on the wire of a
  connection that lasts.
* A handshake (`Subscribe`, `SubscriptionAcknowledged`, `Opened`, `Acknowledged`) is strongly fair: a
  connection may be lost again and again, but a node that is tried for ever answers some time.
* `GroupAffiliates` has one weak fairness condition for start-up and the task under way
  (`SequentialStep`: exactly one of them can be taken at a time) and `CommunityNew` one for all steps of
  the worker. `OldListener` has one for what runs in the queue: it takes its requests' answers, or their failure.
* A process that exits is started again by its orchestrator (`Start`, `Exit`, `ProcessEnds`).
* `Workers` has one weak fairness condition for the steps of the loop, and one for each cached score,
  which grows older than its time to live.
* `Services`: weak fairness on each caller's steps, where a timeout ends every wait, and on the steps of a
  read, which the workers begin again and again. A request may fail, but not for ever.
* `CrcBackers` has weak fairness on `Mine`: the chain goes on to its bound.
* Nothing makes a transaction be mined in `SafeExecutor`, a log appear, a connection drop, or the
  process end. Faults are bounded where a property needs that a run succeeds some time.

## 4. Proofs

TLAPS checks these for every value of the constants that satisfies the named assumptions.

* **`GroupAffiliatesProofs`**, the listener - `ListenerTyped`, `CatchUpBookkeeping`, `CursorMonotone`, under
  every hazard: `TypeOK` with the catch-up's bookkeeping is inductive once cursors are known to be totally
  ordered. `Lossless` (`CursorCoversProcessed`) and `ListenerImplementsFeed` (`ImplementsFeed`) assume
  `Reliable`: no hazards but `flushWhileDelivering` and `reconnectBeforeFlush`, and a start cursor.
  `CursorCoversProcessed` is not inductive: whether the cursor may advance depends on what is still in
  the queue. `LInv` therefore accounts for every log: while the connection is live each log that is
  not done is queued, pending, on the wire, or in the range that the catch-up in flight will
  read; once it is lost, what precedes a pending log or a log of a queued batch is accounted for.
  When a batch settles, everything up to its last cursor is done. The refinement adds that
  `processed` holds exactly the logs up to the cursor. `ListenerBatchesInOrder` (`BatchesEndInOrder`) assumes
  `NoOvertaking` only, so it holds with failing catch-ups and callbacks. `OrderInv` adds that what came over the live
  path precedes what is still to come, and that a range being read, or a head fetched for one, reaches at least as far as
  every live batch queued.
* **`GroupAffiliatesProofs`**, the worker - `WorkerEffects` says that each step of the worker does to
  its listener what the listener does by itself, or one of four other things (`Restarted`, `CursorSet`, `Ticked`,
  `Dropped`); so an invariant of the listener is one of the worker once these four keep it. `WBase` joins
  the types of listener, job, map and rows, that nothing is queued before the worker is live, and that the
  job is the first task of the queue. On it rest `WorkerTyped`; `WorkerBatchesInOrder`
  (`BatchesEndInOrder` over restarts and replays); `RestartMissesNothing` (`SavedCursorCoversApplied`, under
  `Reliable`), for which `CoverInv` takes `LInv` of the logs whose batch was carried out and adds what the row
  and the job's cursor cover; and `TrustFollows` (`TrustFollowsMap`, under every hazard but
  `reconnectBeforeFlush`). The last needs `ContigInv`, that no batch leaves out a log between two of its own, and
  `RegistryInv`, that a log says where its human was before: then the last event of a human that touches a
  group, if it joins it, is the last real change of that human in the batch (`JoinedLast`), which is what the map
  takes in (`EventsApplied`).
  `MapIsCurrent` (`MapCurrentWhenQuiet`) assumes `CompleteReads`: no hazard, a node that answers at start-up, no
  confirmations, blocks counted from the start block, and one log in a block. `PlaceInv` says at each stage of
  start-up, task and save which block it is that the map speaks of (`MapPlace`: the map's own, the
  listener's, or the job's), and that the listener's cursor has everything behind it (`LInv(Seen)`); a batch takes the map
  from one such block to the next (`RealFolded`, `AllFolded`), for a log that changes nothing may be left out (`StaysPut`).
  `OneGroupAtATime` (`TrustedInOneGroup`) adds that the index is not behind. Not to be in two groups is not inductive:
  after a crash between the transactions of a plan, trust and the map of the restart disagree. `OneInv`
  says that whom a group trusts was in it at some block not before the saved cursor's (`WasThere`), so that the
  replay meets the log that took it elsewhere (`Leaves`, `LeaversUntrusted`); that from the start of a
  job on whoever is trusted where the map does not have it is in an untrust still to be carried out (`AboutToGo`);
  and that a plan has these first (`PlanUntrusts`).
* **`CommunityNewProofs`** - of the map and its row: `MapTyped`, `ReverseIndexAlwaysExact`,
  `CleanEntriesAlwaysStored` (the entries, while no operation of the store has failed); lemmas about `MapSet`, `AdvanceTo` and `FromSnapshot` say
  that each operation keeps the index exact. Of the worker: `MultiMapAlwaysReplay` (`MultiMapIsReplay`),
  `OldMapAlwaysReplay` (`OldMapIsReplay`), `CommunityIndexExact` (`ReverseIndexExact`), `CapsAlwaysKept`
  (`CycleWithinCaps`), `RowsAlwaysGoOn` (`RowsNeverGoBack`), `SteadyMembersAlwaysKept` (`SteadyMembersKept`). `LogsInv`, `MultiInv` and `OldInv` say what
  logs, memory and rows have to do with each other at every stage; `NewTold`, `OldTold`, `WishTold` and
  `SparedTold` what a cycle has been told by each of its sources about those who are steady, so that its plan
  spares them (`PlanSpares`); `PlanCapped` what the breaker lets through. That no row goes back, even when a load
  has failed and the map begins anew, rests on two facts: no row is ahead of the head, and a refresh
  reads up to the head before it saves.
* **`ListenerProofs`** - for any number of sockets. With late close events: `ConnectionTyped`,
  `AlwaysReconnects` (`NeverStranded`), `TimerMeansNoSocket`, `StoppedForGood`. While close events are not late:
  `OneSocket` (`CurrentSocketOnly`) and `HandlersDoNotThrow` (`NeverExits`). `SocketsAsModelled` says
  that every behaviour of `RegistrationListener` is one of `ListenerConnection`, so all of these hold of
  it. `NothingIsPassedOver` (`NothingPassedOver`, while close events are not late, for any number of
  blocks and registrations) needs more than the property.
  `PassedAccounted` adds that what the cursor is past and is not detected is on no wire; so a catch-up
  that fails puts at risk just what it would have read. `LiveAccounted` says that while a socket is
  live, each registration that is due and not detected is on its wire, or will be read by the catch-up
  in flight; so the live path may move the cursor to the first one on the wire, and a catch-up to the end of
  its range. (What is at risk is not due.)
* **`ServicesProofs`** - of the executor `ExecutorSerialized`, `ExecutorTyped`, `SentOnce`,
  `DoneWasExecuted`, under every hazard, for any number of callers, attempts and foreign transactions. `LockInv`: the
  calls in the chain are those not settled, each once, and only the head is past its await. `SentInv`
  says that at most one transaction exists per caller and try, in the mempool or mined; `CountInv`
  that `executed` counts the distinct tries whose transaction was executed, and so is at most `tries`.
  `NothingLeftOut` (`RangesAccounted`), for any page size, depth cap, number of
  blocks and of events. The invariant adds that a range at depth d is narrower than 2^(DepthCap - d)
  when the range asked for is narrower than 2^DepthCap: at the cap only single blocks are left. The
  assumption `PowersOfTwo` says what `^` is, which the provers do not know; TLC evaluates it.
  `SteadyRowsRead` (`NothingSteadyMissed`), for any table and page size: a row that was there all along and is not
  read yet lies at or after the place of the next page, or has been shifted over its edge, which `shifts` counts:
  one row for each removal or renewal. `KeyedReadsMissNothing`: reads of humans and members have no such shifts and
  miss nothing. `ServicesPromises` puts the properties of the three together, each with its exceptions.
* **`CrcBackersProofs`** - `TrustIsFinal` and `CursorNeverSkips`, assuming `IndexKeepsUp` (the index is
  no further behind than the confirmations), and `BlacklistedGo` without it. `BInv` says that the
  completions a run has read are final and are all those between its cursor and the end of its range;
  a completion that is new lies above the head, and so above every cursor. Reorganisations touch only
  what is not final, so `ChainStep` keeps the invariant once for every way the chain moves.
* **`RouterTmsProofs`** - `RouterTyped`; `OnlyAllowedEnabled` (`EnablesOnlyAllowed`), whatever fails; `MarkedOnce`
  (`NothingMarkedTwice`, unless loads fail): what is due in a job is not marked in the store, and
  what the store has forgotten is not marked in memory; `BadAddressesFound` (`BadAddressesSetApart`, unless a revert can look safe):
  what a run has planned is at each stage the union of what is enabled, still to do, quarantined and reverting.
* **`WorkersProofs`** - of gp-crc `GpCrcTyped`, `SwitchesAlwaysBounded`, `OneTrusteePerSafe`, for any avatars and
  safes. `SwitchInv` pays for each avatar a safe has stood for with a counted switch. `TrusteesInv` says
  that what the run is about to reach, `Reached`, is no more than one avatar for each safe (there is
  an injection into the safes), that it only shrinks while the run goes on, and that the trustees are
  part of it once the run may trust. `GpCrcWithin` and `GpCrcPromises` carry them into the process that runs any one of
  the workers. `NobodySkipped` (`NoRegistrationSkipped`, from `DublinInv`: the cursor, the range of the run and the
  batches still to send account for each registration), `AffiliatesReplayed` (`AffiliatesAreReplay`, from `OicInv`: memory and
  row at each stage of a run that may be repeated), `RightfulAreKept` (`RightfulKept`, from `KeptInv`: what a
  run has read holds who is steady, on the ground it is steady).

What folds and recursive functions compute is proved where they are needed by induction on the subsets of a
finite set (`DataLemmas`: `SubsetInduction`, `FoldExists`, `GreatestExists`): the library's induction theorems
take an operator and cannot be used, a least subset without the property can. For this the models
use recursive functions over subsets where a fold over a sorted sequence stood before. `ElementsInSomeOrder` and
`BatchesCover` say that batches hold all addresses, each once.

What the proofs showed about the models:

* `TrustFollowsMap` was false where TLC had found it true: three blocks are needed for the gap that
  `reconnectBeforeFlush` makes. The order of the two timers is now stated, and the property proved under it.
* `RightfulKept` was false for humans whose ground for trust changes during a run (off a list between the read of the list
  and the read of the scores, where the score then is enough); the bound on changes hid it. `steady` now remembers the ground.
* Paged reads need addresses numbered without gaps, gnosis-group a list that no human is on by default, and the
  registries no logs before the first block that is read: assumptions the models made without saying so.
* `MapCurrentWhenQuiet` and `TrustedInOneGroup` had held in runs with one log in a block; the proofs stop at a block whose
  logs come in two batches, and TLC shows both violated there (section 3, hazards left out). Each conjunct of
  the assumptions of `OneGroupAtATime` that is about failures or timing is needed in this sense.
* `OldHeadUnknown`: when the node answers without a block number, the old map is used as it is, though
  `apps/community-new/oldRegistrySource.ts:66-71` says "so the membership set is complete".

Some properties are proved and no run checks them: `CursorCoversProcessed`, `OneCatchUpInFlight`,
`LastSeenNeverGoesBack`, `StopIsFinal`, `ReconnectsWithoutSocket`, `DoneMeansExecuted`, `SwitchesBounded`,
`ReverseIndexExact` (members are read from that index, and `SteadyMembersKept` and `CommunityConverges` follow them),
`EnablesOnlyAllowed`.

Only model-checked: all liveness and fairness (out of the prover's reach, as is ENABLED). Every invariant and
action property of a passing run but `MapRepaired` is proved, under the assumptions named above.

## 5. What the models leave out

* Reorganisations in group-affiliates: the code has no handling of removed logs.
* Dry run, Slack, metrics, log wording, command line and environment parsing.
* The cut of a plan into batches in group-affiliates and crc-backers: the instances are no larger
  than one batch.
* In gp-crc: an avatar that owns several safes is looked up for each of them, but which of them the
  store names for it is not modelled. When the owner of a safe is unlinked and only an older owner
  remains, the worker goes on trusting the former (logic.ts:199-208), though a test is named "untrusts
  avatars that no longer have an associated safe" (`src/tests/apps/gp-crc/logic.spec.ts:244`);
  `TrustFollowsState` states what the code does.
* In router-tms: the hub's check that an avatar is a human, which base group an avatar's batch goes
  through. `RouterTms` hears of a registration or it does not; when the listener tells it is
  `RegistrationListener`'s, and the two are not composed: they share only the call of
  `onHumansRegistered`, and the poll does not rely on it. The router's trust is never revoked by this worker.
* In community-new: dry run, `LEADER_DB_URL` unset, a lagging index of the groups' trustees, the reads
  of thresholds, score service answers that leave a member out, and a head that is not a number. The two listeners
  have modules of their own and are not composed with the cycle. An
  avatar never sets the old group it has: the reduction of `oldRegistryMembers.ts` would take such a
  log for a departure.
* In the smaller workers: dry run, a configured last block of dublin-tms, an index that is behind (lists
  are read as they are), and score service answers that leave a human out.
  In new-gnosis the answers that leave an avatar out (not claimed, opted out, not a human, refused in
  a simulation) are one set that does not change. In oic a human that sets the group it has would be
  added and then deleted by one log (`apps/oic/logic.ts:373-378`); the logs modelled are real changes.
* A member that the target refuses ends every run of oic, dublin-tms and router2 at its batch: the
  batches after it are never sent (`HeldUp`). Only router-tms takes such a batch apart, new-gnosis
  simulates each member before, and gnosis-group goes on with the next batch.
* In the services: single requests and their formats, answers that are malformed, how often and how late
  a request is tried again, the health check of the RPC, `filterRegisterHumanAvatars` (it filters a list
  that is at hand by chunks), and the score of a single avatar. The workers' models read whole lists:
  `PagedReads` says what such a read may miss, and they are not composed with it.
* `SafeExecutor` promises one execution per call of `execute()`. A caller that tries again after a
  lost answer (`apps/gnosis-group/logic.ts:970`) can have its operation carried out once per try; trust
  operations are idempotent, so this is not stated as a property.

## 6. Running

    tlc -workers 2 -config OldListener.cfg MCOldListener
    tlapm GroupAffiliatesProofs.tla

`PROJECT.json` names the module of each configuration.

## 7. Plan

Done: listener, map, worker, sockets (1-4), crc-backers (5), executor (6), router-tms (7), gp-crc (8),
router-tms' listener (9), community-new (10), gnosis-group and new-gnosis (11), oic, dublin-tms and
router2 (12), the reads of event ranges and paged lists (13), the old registry's listener in community-new (14).

What is not modelled has no state that a worker's decision depends on (section 5); the table of
components in `PROJECT.json` gives the reason for each. The safety properties that runs check are all proved
but `MapRepaired`, which is next. What could be proved beyond them: `MapCurrentWhenQuiet` and `TrustedInOneGroup` with several logs in a block for
behaviours without the crash that breaks them, and the refinement of the listener's feed from inside the worker.
