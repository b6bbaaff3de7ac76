-------------------------- MODULE AffiliateListener --------------------------
(***************************************************************************)
(* The data path of startAffiliateGroupChangedListener                     *)
(* (src/src/apps/group-affiliates/realtime.ts): which logs of the registry *)
(* reach onEvents, in which order, and how far lastSeenCursor moves.       *)
(*                                                                         *)
(* Logs reach the worker over two paths.  The live path: the node pushes   *)
(* them over the websocket (wire), they gather in pendingEvents and a      *)
(* debounce timer hands them over (Flush).  The catch-up path: when a      *)
(* subscription is acknowledged, the range from lastSeenCursor to a head   *)
(* is read over HTTP and handed over (CatchUpFetched).  Both call onEvents,*)
(* which main.ts runs one at a time, first come first served (tasks), and  *)
(* both await its result: between the call and the result the other path   *)
(* goes on.                                                                *)
(*                                                                         *)
(* Hazards names the orders and failures that the environment may produce; *)
(* each guards the one action it would let happen.  With Hazards = {} the  *)
(* feed is lossless and in order, and each hazard alone breaks that.       *)
(*                                                                         *)
(* One block of the chain may hold several logs.  Reorganisations are not  *)
(* modelled: the code has no handling of removed logs.                     *)
(***************************************************************************)
EXTENDS EventCursor, Sequences

CONSTANTS Changes,          \* what an AffiliateGroupChanged log may say
          MaxBlock,         \* bound: the last block that is mined
          MaxLogsPerBlock,  \* bound: logs of the registry in one block
          StartCursor,      \* options.startCursor
          Hazards           \* what the environment is allowed to do

AllHazards ==
    {"minedWhileConnecting",    \* a log between connect()'s head and the subscription
     "flushDuringCatchUp",      \* the debounce ends while a catch-up is fetching
     "flushWhileDelivering",    \* ... or while its batch is queued or executed
     "reconnectDuringCatchUp",  \* a connection is back before the catch-up is done
     "reconnectBeforeFlush",    \* ... or before the debounce ends
     "catchUpFails",            \* a request of a catch-up fails
     "callbackFails"}           \* onEvents throws

ASSUME ListenerAssumption ==
    /\ MaxBlock \in Nat
    /\ MaxLogsPerBlock \in 0 .. LastIndex
    /\ StartCursor \in Cursor
    /\ Hazards \subseteq AllHazards

VARIABLES
    head,         \* the chain's head block
    log,          \* the registry's logs, mined so far
    conn,         \* the current socket: down, connecting, subscribed (not yet
                  \* acknowledged), live
    startedHead,  \* connectStartedHead of the current connect()
    wire,         \* logs pushed by the node, not yet received
    lastSeen,     \* lastSeenCursor
    pending,      \* pendingEvents; the flush timer is set iff it is not empty
    catchUp,      \* the run that catchUpInFlight stands for
    tasks,        \* the onEvents calls whose promise is unsettled, in the order
                  \* main.ts executes them (executionQueue), and its own
                  \* reconciliations among them
    processed     \* history: the logs of the calls that resolved to true

chainVars    == <<head, log>>
socketVars   == <<conn, startedHead, wire>>
listenerVars == <<lastSeen, pending, catchUp, tasks, processed>>
vars == <<chainVars, socketVars, listenerVars>>

NoHead == -1    \* connectStartedHead is null
Event  == [cursor : EventPosition, change : Changes]
Task   == [source : {"live", "catchUp", "reconcile"}, batch : SUBSET Event]
Idle   == [phase |-> "idle", from |-> NoCursor, to |-> NoHead]

TypeOK ==
    /\ head \in 0 .. MaxBlock
    /\ log \subseteq Event
    /\ conn \in {"down", "connecting", "subscribed", "live"}
    /\ startedHead \in {NoHead} \cup 0 .. MaxBlock
    /\ wire \subseteq log
    /\ lastSeen \in Cursor
    /\ pending \subseteq log
    /\ catchUp \in [phase : {"idle", "head", "fetching", "delivering"},
                    from : Cursor, to : {NoHead} \cup 0 .. MaxBlock]
    /\ tasks \in Seq(Task)
    /\ \A i \in DOMAIN tasks : tasks[i].batch \subseteq log
    /\ processed \subseteq log

Init ==
    /\ head = 0 /\ log = {}
    /\ conn = "down" /\ startedHead = NoHead /\ wire = {}
    /\ lastSeen = StartCursor
    /\ pending = {} /\ catchUp = Idle /\ tasks = <<>>
    /\ processed = {}

-----------------------------------------------------------------------------
(* The chain and the node's subscription. *)

\* A block with the given logs.  The node pushes them to a registered
\* subscription in the order of their cursors.
MineBlock(new) ==
    /\ head < MaxBlock
    /\ \/ new = {}
       \/ "minedWhileConnecting" \in Hazards
       \/ ~(conn = "connecting" /\ startedHead # NoHead)
    /\ head' = head + 1
    /\ log' = log \cup new
    /\ wire' = IF conn \in {"subscribed", "live"} THEN wire \cup new ELSE wire
    /\ UNCHANGED <<conn, startedHead, listenerVars>>

LogsOfBlock(block, changes) ==
    {[cursor |-> [block |-> block, index |-> i], change |-> changes[i]] :
        i \in DOMAIN changes}

Mine == \E n \in 0 .. MaxLogsPerBlock : \E changes \in [0 .. n - 1 -> Changes] :
            MineBlock(LogsOfBlock(head + 1, changes))

-----------------------------------------------------------------------------
(* The socket.  ListenerConnection has the detail of timers and late events. *)

\* connect(): a new socket, and a request for the head that nobody awaits.  By
\* default the debounce (1 s) ends before the reconnect timer (2 s or more).
Connect ==
    /\ conn = "down"
    /\ pending = {} \/ "reconnectBeforeFlush" \in Hazards
    /\ catchUp.phase = "idle" \/ "reconnectDuringCatchUp" \in Hazards
    /\ conn' = "connecting"
    /\ startedHead' = NoHead
    /\ UNCHANGED <<chainVars, wire, listenerVars>>

\* The answer to that request: it may come at any time, or never (it failed).
HeadFetched ==
    /\ conn # "down" /\ startedHead = NoHead
    /\ startedHead' = head
    /\ UNCHANGED <<chainVars, conn, wire, listenerVars>>

\* "open": eth_subscribe is sent and the node registers the subscription.
Subscribe ==
    /\ conn = "connecting"
    /\ conn' = "subscribed"
    /\ UNCHANGED <<chainVars, startedHead, wire, listenerVars>>

\* "close", a failed subscription, a lost connection.  What was on the wire is
\* gone; what is pending stays, and so does a catch-up in flight.
Disconnect ==
    /\ conn # "down"
    /\ conn' = "down"
    /\ wire' = {}
    /\ UNCHANGED <<chainVars, startedHead, listenerVars>>

\* Mutant: nothing is fetched when the head is the cursor's own block.
CatchUpFromNewBlock(to) ==
    IF lastSeen = NoCursor
      THEN lastSeen' = HeadCursor(to) /\ catchUp' = Idle
      ELSE /\ UNCHANGED lastSeen
           /\ catchUp' = IF to <= lastSeen.block THEN Idle
                         ELSE [phase |-> "fetching", from |-> lastSeen, to |-> to]

\* The run of runCatchUp once its head is known, up to the request for the
\* logs: the range starts at lastSeen as it is now.
CatchUpFrom(to) ==
    IF lastSeen = NoCursor
      THEN lastSeen' = HeadCursor(to) /\ catchUp' = Idle
      ELSE /\ UNCHANGED lastSeen
           /\ catchUp' = IF to < lastSeen.block THEN Idle
                         ELSE [phase |-> "fetching", from |-> lastSeen, to |-> to]

\* The acknowledgement calls runCatchUp(connectStartedHead).  A call that finds
\* a run in flight joins it: nothing is fetched for the new connection.
SubscriptionAcknowledged ==
    /\ conn = "subscribed"
    /\ conn' = "live"
    /\ \/ catchUp # Idle /\ UNCHANGED <<lastSeen, catchUp>>
       \/ catchUp = Idle /\ startedHead # NoHead /\ CatchUpFrom(startedHead)
       \/ catchUp = Idle /\ startedHead = NoHead
          /\ catchUp' = [Idle EXCEPT !.phase = "head"] /\ UNCHANGED lastSeen
    /\ UNCHANGED <<chainVars, startedHead, wire, pending, tasks, processed>>

-----------------------------------------------------------------------------
(* Handing over. *)

\* Mutant: the batch is not filtered by the cursor.
DeliverUnfiltered(source, events) ==
    tasks' = IF events = {} THEN tasks
             ELSE Append(tasks, [source |-> source, batch |-> events])

\* deliverEvents up to its await: what lies after lastSeen is handed over, and
\* nothing at all when nothing does.
Deliver(source, events) ==
    LET fresh == After(events, lastSeen)
    IN  tasks' = IF fresh = {} THEN tasks
                 ELSE Append(tasks, [source |-> source, batch |-> fresh])

\* handleSubscriptionPayload: one log per message, in the order pushed.
Receive ==
    /\ conn = "live"
    /\ \E e \in wire :
        /\ \A f \in wire : AtOrBefore(e.cursor, f.cursor)
        /\ wire' = wire \ {e}
        /\ pending' = pending \cup {e}
    /\ UNCHANGED <<chainVars, conn, startedHead, lastSeen, catchUp, tasks, processed>>

\* The flush timer.  It does not look at the catch-up in flight.
Flush ==
    /\ pending # {}
    /\ \/ catchUp.phase = "idle"
       \/ catchUp.phase \in {"head", "fetching"} /\ "flushDuringCatchUp" \in Hazards
       \/ catchUp.phase = "delivering" /\ "flushWhileDelivering" \in Hazards
    /\ pending' = {}
    /\ Deliver("live", pending)
    /\ UNCHANGED <<chainVars, socketVars, lastSeen, catchUp, processed>>

\* runCatchUp's own request for the head, when connect()'s had no answer.
CatchUpHead ==
    /\ catchUp.phase = "head"
    /\ CatchUpFrom(head)
    /\ UNCHANGED <<chainVars, socketVars, pending, tasks, processed>>

\* The logs of the range arrive: read after the cursor the run started from,
\* filtered by the cursor as it has become.
CatchUpFetched ==
    /\ catchUp.phase = "fetching"
    /\ LET events == EventsBetween(log, catchUp.from.block, catchUp.to, catchUp.from)
       IN  /\ Deliver("catchUp", events)
           /\ catchUp' = IF After(events, lastSeen) = {} THEN Idle
                         ELSE [catchUp EXCEPT !.phase = "delivering"]
    /\ UNCHANGED <<chainVars, socketVars, lastSeen, pending, processed>>

\* A request of the run fails: logged, and never tried again for this range.
CatchUpFails ==
    /\ "catchUpFails" \in Hazards
    /\ catchUp.phase \in {"head", "fetching"}
    /\ catchUp' = Idle
    /\ UNCHANGED <<chainVars, socketVars, lastSeen, pending, tasks, processed>>

\* A request of the catch-up in flight is answered, or fails.
CatchUpRequest ==
    /\ catchUp.phase # "idle"
    /\ CatchUpHead \/ CatchUpFetched \/ CatchUpFails

\* Mutant: the cursor becomes the batch's, though it may be behind.
AdvanceToBatch(batch) ==
    \E last \in batch : IsLast(last, batch) /\ lastSeen' = last.cursor

\* deliverEvents after its await.
Advance(batch) ==
    \E last \in batch : IsLast(last, batch) /\ lastSeen' = MaxCursor(lastSeen, last.cursor)

\* The first onEvents call settles.  A call that throws is only logged: its
\* batch was spliced out of pendingEvents and is not handed over again.
Settle(succeeded) ==
    /\ tasks # <<>>
    /\ succeeded \/ "callbackFails" \in Hazards
    /\ LET task == Head(tasks)
       IN  /\ IF succeeded THEN /\ Advance(task.batch)
                                /\ processed' = processed \cup task.batch
                           ELSE UNCHANGED <<lastSeen, processed>>
           /\ catchUp' = IF task.source = "catchUp" THEN Idle ELSE catchUp
    /\ tasks' = Tail(tasks)
    /\ UNCHANGED <<chainVars, socketVars, pending>>

-----------------------------------------------------------------------------
Next ==
    \/ Mine
    \/ Connect \/ HeadFetched \/ Subscribe \/ SubscriptionAcknowledged \/ Disconnect
    \/ Receive \/ Flush
    \/ CatchUpRequest
    \/ \E succeeded \in BOOLEAN : Settle(succeeded)

Spec == Init /\ [][Next]_vars
=============================================================================
