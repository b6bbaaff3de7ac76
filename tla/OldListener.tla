----------------------------- MODULE OldListener -----------------------------
(***************************************************************************)
(* The old registry's source with its websocket listener                   *)
(* (src/src/apps/community-new/oldRegistrySource.ts), that is, with        *)
(* COMMUNITY_NEW_OLD_ENABLE_WSS = 1: group-affiliates' listener and the    *)
(* refresh of every cycle write one affiliate map.  runExclusive lets one  *)
(* of them at it at a time, first come first served: tasks holds the       *)
(* listener's batches (onEvents) and the refresh ("reconcile").            *)
(*                                                                         *)
(* The process is past init(): the map has everything up to the block the  *)
(* listener starts from.  Only that the map is saved is left out: its row  *)
(* is a snapshot of it, and matters to a restart only.                     *)
(***************************************************************************)
EXTENDS AffiliateListener, AffiliateMap, FiniteSets

CONSTANT MaxLogs    \* bound: logs of the registry in all

ASSUME OldListenerAssumption ==
    /\ MaxLogs \in Nat
    /\ Changes \subseteq [human : Humans, from : Groups \cup {NoGroup}, to : Groups]
    /\ StartCursor.block \in Nat /\ StartCursor = HeadCursor(StartCursor.block)

VARIABLES map,         \* the source's AffiliateMap
          refresh,     \* the range that the refresh at work reads
          overlapped   \* history: a flush came while a catch-up's batch was queued

sourceVars == <<map, refresh>>
oldVars    == <<vars, sourceVars, overlapped>>

NoRange == [from |-> 1, to |-> 0]

OldInit ==
    /\ Init
    /\ map = FromSnapshot(EmptySnapshot(StartCursor.block))
    /\ refresh = NoRange
    /\ overlapped = FALSE

\* What the registry says when the given logs are its history.
GroupIn(events, h) ==
    LET mine == {e \in events : e.change.human = h}
    IN  IF mine = {} THEN NoGroup ELSE LastOf(mine).change.to

-----------------------------------------------------------------------------
\* Humans set an affiliate group, one after the other in a block.
ChangeGroup == \E n \in 0 .. MaxLogsPerBlock : \E changes \in [0 .. n - 1 -> Changes] :
    LET new == LogsOfBlock(head + 1, changes)
    IN  /\ \A e \in new : e.change.from = GroupIn(log \cup {f \in new : Before(f.cursor, e.cursor)},
                                                 e.change.human)
        /\ Cardinality(log \cup new) <= MaxLogs
        /\ MineBlock(new)

\* What a step of the listener does to the rest.
Beside ==
    /\ overlapped' = (overlapped \/ (catchUp.phase = "delivering" /\ pending # {} /\ pending' = {}))
    /\ UNCHANGED sourceVars

\* The listener, but for the results of onEvents.
ListenerStep ==
    /\ \/ ChangeGroup
       \/ Connect \/ HeadFetched \/ Subscribe \/ SubscriptionAcknowledged \/ Disconnect
       \/ Receive \/ Flush
       \/ CatchUpRequest
    /\ Beside

IsRefresh(task) == task.source = "reconcile"

\* Mutant: the newest event is applied first.
SetAllReversed(m, batch) ==
    LET First(events) == CHOOSE e \in events : \A f \in events : AtOrBefore(e.cursor, f.cursor)
        replay[events \in SUBSET batch] ==
            IF events = {} THEN m
            ELSE LET e == First(events)
                 IN  MapSet(replay[events \ {e}], e.change.human, e.change.to, e.cursor.block)
    IN  replay[batch]

\* The loops over sorted events: set is called for the latest last.
SetAll(m, batch) ==
    LET replay[events \in SUBSET batch] ==
            IF events = {} THEN m
            ELSE LET e == LastOf(events)
                 IN  MapSet(replay[events \ {e}], e.change.human, e.change.to, e.cursor.block)
    IN  replay[batch]

\* onEvents: the batch is taken in, as it is, and the call resolves to true.
TakeBatch ==
    /\ tasks # <<>> /\ ~IsRefresh(Head(tasks))
    /\ map' = SetAll(map, Head(tasks).batch)
    /\ Settle(TRUE)
    /\ UNCHANGED <<refresh, overlapped>>

\* A cycle asks for a refresh and waits for it.
CallRefresh ==
    /\ ~\E i \in DOMAIN tasks : IsRefresh(tasks[i])
    /\ tasks' = Append(tasks, [source |-> "reconcile", batch |-> {}])
    /\ UNCHANGED <<chainVars, socketVars, lastSeen, pending, catchUp, processed, sourceVars, overlapped>>

EndRefresh ==
    /\ refresh' = NoRange /\ tasks' = Tail(tasks)
    /\ UNCHANGED <<chainVars, socketVars, lastSeen, pending, catchUp, processed, overlapped>>

AtRefresh == tasks # <<>> /\ IsRefresh(Head(tasks))

\* refreshInner up to its request for the logs.
RefreshHead ==
    /\ AtRefresh /\ refresh = NoRange
    /\ IF map.block + 1 > head THEN EndRefresh
       ELSE /\ refresh' = [from |-> map.block + 1, to |-> head]
            /\ UNCHANGED <<vars, overlapped>>
    /\ UNCHANGED map

\* refreshInner: what follows that request.
RefreshFetched ==
    /\ AtRefresh /\ refresh # NoRange
    /\ LET events == EventsBetween(log, refresh.from, refresh.to, NoCursor)
       IN  map' = AdvanceTo(SetAll(map, events), refresh.to)
    /\ EndRefresh

\* A request of the refresh fails: the cycle ends in an error, the queue goes on.
RefreshFails == AtRefresh /\ EndRefresh /\ UNCHANGED map

RefreshStep == RefreshHead \/ RefreshFetched \/ RefreshFails

OldNext ==
    \/ ListenerStep
    \/ TakeBatch
    \/ CallRefresh \/ RefreshStep

\* Timers fire, requests are answered or fail, and what runs in the queue ends.  A
\* handshake that is possible again and again completes some time: the node is not
\* always gone.
OldSpec ==
    /\ OldInit /\ [][OldNext]_oldVars
    /\ WF_oldVars(Connect /\ Beside)
    /\ SF_oldVars(Subscribe /\ Beside) /\ SF_oldVars(SubscriptionAcknowledged /\ Beside)
    /\ WF_oldVars(Receive /\ Beside) /\ WF_oldVars(Flush /\ Beside)
    /\ WF_oldVars(CatchUpHead /\ Beside) /\ WF_oldVars(CatchUpFetched /\ Beside)
    /\ WF_oldVars(TakeBatch \/ RefreshStep)

-----------------------------------------------------------------------------
(* Properties. *)

\* Nothing is on its way to the map.
Quiet ==
    /\ conn = "live" /\ wire = {} /\ pending = {}
    /\ catchUp = Idle /\ tasks = <<>>

\* A batch that comes after a refresh which has read newer logs turns a human back
\* to a group it has left, but does no lasting harm: once the listener has handed
\* over all logs the map is what the registry says, whatever refreshes came in
\* between, and failed (oldRegistrySource.ts:80-103, 133-139).  Not so when a flush has
\* repeated logs of a catch-up's batch behind it.
MapRepaired ==
    Quiet /\ ~overlapped => \A h \in Humans : map.toGroup[h] = GroupIn(log, h)
=============================================================================
