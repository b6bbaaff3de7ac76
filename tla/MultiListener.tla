---------------------------- MODULE MultiListener ----------------------------
(***************************************************************************)
(* The realtime listener of the new registry                               *)
(* (startMultiAffiliateListener, src/src/apps/community-new/               *)
(* multiRegistry.ts) beside the refresh that every cycle of the worker     *)
(* makes (main.ts): two writers of one map, which nothing serializes, with *)
(* COMMUNITY_NEW_ENABLE_WSS = 1.                                           *)
(*                                                                         *)
(* ListenerConnection has the detail of sockets and timers.  A save is one *)
(* step with the change that it saves: a row is a snapshot, and which of   *)
(* two snapshots it is matters to a restart only.                          *)
(***************************************************************************)
EXTENDS MultiMap

CONSTANT RequestsFail   \* whether requests of a catch-up or of a refresh may fail

VARIABLES
    up,        \* start-up is done: the listener runs, and the loop
    link,      \* the current socket: down, subscribed (not yet acknowledged), live
    wire,      \* logs pushed by the node, not yet received
    pending,   \* pending; the flush timer is set iff it is not empty
    catchUp,   \* the run that catchUpInFlight stands for
    refresh    \* refreshMultiMap of the current cycle

listenerVars == <<link, wire, pending>>
runVars      == <<catchUp, refresh>>
multiVars    == <<chainVars, multi, multiRow, up, listenerVars, runVars>>

Idle == [phase |-> "idle", from |-> 0, to |-> 0]

MultiListenerInit ==
    /\ ChainInit /\ MultiInit
    /\ up = FALSE
    /\ link = "down" /\ wire = {} /\ pending = {}
    /\ catchUp = Idle /\ refresh = Idle

-----------------------------------------------------------------------------
\* A block with a log.  The node pushes it to a registered subscription.
Mine ==
    /\ NextBlock /\ MultiChange
    /\ wire' = IF link = "down" THEN wire ELSE wire \cup (multiLog' \ multiLog)
    /\ UNCHANGED <<multi, multiRow, up, link, pending, runVars>>

\* initMultiMap: the row is loaded, the map is brought up to the head, and the
\* listener is started; as one step, since nothing else runs yet.
Boot ==
    /\ ~up /\ up' = TRUE
    /\ \E loaded \in {FromRow(multiRow)} \cup (IF MultiRowFails THEN {FromRow(FreshRow)} ELSE {}) :
         LET m == AdvanceMulti(ApplyMulti(loaded, FetchMulti(RefreshFrom(loaded), head)), head)
         IN  IF RefreshFrom(loaded) > head THEN multi' = loaded /\ UNCHANGED multiRow
             ELSE SaveMulti(m)
    /\ UNCHANGED <<chainVars, listenerVars, runVars>>

\* "open": eth_subscribe is sent and the node registers the subscription.
Subscribe ==
    /\ up /\ link = "down"
    /\ link' = "subscribed"
    /\ UNCHANGED <<chainVars, multi, multiRow, up, wire, pending, runVars>>

\* The acknowledgement starts a catch-up, unless one is in flight.
Acknowledged ==
    /\ link = "subscribed" /\ link' = "live"
    /\ catchUp' = IF catchUp = Idle THEN [Idle EXCEPT !.phase = "head"] ELSE catchUp
    /\ UNCHANGED <<chainVars, multi, multiRow, up, wire, pending, refresh>>

\* "close": what was on the wire is gone, what is pending stays.
Disconnect ==
    /\ link # "down"
    /\ link' = "down" /\ wire' = {}
    /\ UNCHANGED <<chainVars, multi, multiRow, up, pending, runVars>>

\* A log is received, in the order in which the node pushed them.
Receive ==
    /\ link = "live" /\ wire # {}
    /\ \E e \in wire :
        /\ \A f \in wire : e.block <= f.block
        /\ wire' = wire \ {e} /\ pending' = pending \cup {e}
    /\ UNCHANGED <<chainVars, multi, multiRow, up, link, runVars>>

\* onEvents: the logs are folded in, the block becomes the last log's.
TakeIn(events) ==
    IF events = {} THEN UNCHANGED <<multi, multiRow>>
    ELSE SaveMulti(AdvanceMulti(ApplyMulti(multi, events), Latest(events).block))

\* The debounce timer: flush.
Flush ==
    /\ pending # {}
    /\ pending' = {}
    /\ TakeIn(pending)
    /\ UNCHANGED <<chainVars, up, link, wire, runVars>>

\* The node answers the request for the head.
CatchUpHead ==
    /\ catchUp.phase = "head"
    /\ catchUp' = [catchUp EXCEPT !.phase = "answered", !.to = head]
    /\ UNCHANGED <<chainVars, multi, multiRow, up, listenerVars, refresh>>

\* The answer is there: the range starts where the map is now.
CatchUpRange ==
    /\ catchUp.phase = "answered"
    /\ catchUp' = IF catchUp.to < multi.block + 1 THEN Idle
                  ELSE [catchUp EXCEPT !.phase = "fetching", !.from = multi.block + 1]
    /\ UNCHANGED <<chainVars, multi, multiRow, up, listenerVars, refresh>>

CatchUpFetched ==
    /\ catchUp.phase = "fetching"
    /\ TakeIn(FetchMulti(catchUp.from, catchUp.to))
    /\ catchUp' = Idle
    /\ UNCHANGED <<chainVars, up, listenerVars, refresh>>

\* refreshMultiMap: the same two steps, and what follows the request for the logs.
RefreshHead ==
    /\ up /\ refresh = Idle
    /\ refresh' = [Idle EXCEPT !.phase = "answered", !.to = head]
    /\ UNCHANGED <<chainVars, multi, multiRow, up, listenerVars, catchUp>>

RefreshRange ==
    /\ refresh.phase = "answered"
    /\ refresh' = IF RefreshFrom(multi) > refresh.to THEN Idle
                  ELSE [refresh EXCEPT !.phase = "fetching", !.from = RefreshFrom(multi)]
    /\ UNCHANGED <<chainVars, multi, multiRow, up, listenerVars, catchUp>>

RefreshFetched ==
    /\ refresh.phase = "fetching"
    /\ SaveMulti(AdvanceMulti(ApplyMulti(multi, FetchMulti(refresh.from, refresh.to)), refresh.to))
    /\ refresh' = Idle
    /\ UNCHANGED <<chainVars, up, listenerVars, catchUp>>

\* A request of a catch-up or of a refresh fails: logged, or an error of the cycle.
RequestFails ==
    /\ RequestsFail
    /\ \/ catchUp # Idle /\ catchUp' = Idle /\ UNCHANGED refresh
       \/ refresh # Idle /\ refresh' = Idle /\ UNCHANGED catchUp
    /\ UNCHANGED <<chainVars, multi, multiRow, up, listenerVars>>

\* The process ends.
Crash ==
    /\ up /\ up' = FALSE
    /\ multi' = FromRow(FreshRow)
    /\ link' = "down" /\ wire' = {} /\ pending' = {} /\ catchUp' = Idle /\ refresh' = Idle
    /\ UNCHANGED <<chainVars, multiRow>>

-----------------------------------------------------------------------------
MultiListenerNext ==
    \/ Mine \/ Boot
    \/ Subscribe \/ Acknowledged \/ Disconnect \/ Receive \/ Flush
    \/ CatchUpHead \/ CatchUpRange \/ CatchUpFetched
    \/ RefreshHead \/ RefreshRange \/ RefreshFetched
    \/ RequestFails \/ Crash

MultiListenerSpec == MultiListenerInit /\ [][MultiListenerNext]_multiVars

\* The map is where the chain is, and nothing is on its way to it.
Settled ==
    /\ up /\ link = "live" /\ wire = {} /\ pending = {}
    /\ catchUp = Idle /\ refresh = Idle
    /\ \A e \in multiLog : e.block <= multi.block

\* No event is missed across disconnects: a settled map has the members that the
\* registry has (multiRegistry.ts:101-102).
NoEventMissed == Settled => multi.members = Listed(multiLog)
=============================================================================
