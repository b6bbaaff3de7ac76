------------------------ MODULE RegistrationListener -------------------------
(***************************************************************************)
(* The listener of router-tms (startRegisterHumanListener,                 *)
(* src/src/apps/router-tms/realtime.ts), from its start to stop(): which   *)
(* registrations reach onHumansRegistered.  ListenerConnection has its     *)
(* sockets and timers; here is what they carry.                            *)
(*                                                                         *)
(* A registration is on the wire of a subscription, or a catch-up reads it *)
(* from the Circles index.  Both make it pending and move lastSeenCursor   *)
(* at once: the cursor says what was detected, not what was handed over.   *)
(*                                                                         *)
(* Some orders and failures make the listener miss a registration; atRisk  *)
(* has those that they may.  The next poll of the worker finds them        *)
(* (RouterTms).                                                            *)
(***************************************************************************)
EXTENDS ListenerConnection, EventCursor

CONSTANTS
    MaxBlock,           \* bound: the last block that is mined
    MaxLogsPerBlock     \* bound: registrations in one block

ASSUME RegistrationAssumption ==
    /\ MaxBlock \in Nat /\ MaxLogsPerBlock \in 0 .. LastIndex

VARIABLES
    head,         \* the chain's head block
    log,          \* the registrations, mined so far
    startedHead,  \* connectStartedHead of each socket
    wire,         \* what a subscription pushed, not yet received
    lastSeen,     \* lastSeenCursor
    since,        \* history: the first head that the listener worked with
    pending,      \* pendingHumans
    catchUp,      \* the run that catchUpInFlight stands for
    handedOver,   \* history: the registrations of the calls of onHumansRegistered
    atRisk        \* history: those that the listener may have to leave to the poll

chainVars == <<head, log>>
wireVars == <<startedHead, wire>>
cursorVars == <<lastSeen, since>>
humanVars == <<pending, handedOver, atRisk>>
dataVars == <<chainVars, wireVars, cursorVars, humanVars, catchUp>>
listenerVars == <<vars, dataVars>>

NoHead == -1    \* not fetched yet, or not at all
Registration == [cursor : EventPosition]
NotCatchingUp == [phase |-> "idle", from |-> NoCursor, to |-> NoHead]

ListenerTypeOK ==
    /\ head \in Nat /\ log \subseteq Registration
    /\ startedHead \in [Sockets -> Nat \cup {NoHead}]
    /\ wire \in [Sockets -> SUBSET log]
    /\ lastSeen \in Cursor /\ since \in Nat \cup {NoHead}
    /\ {pending, handedOver, atRisk} \subseteq SUBSET log
    /\ catchUp \in [phase : {"idle", "head", "fetching"}, from : Cursor, to : Nat \cup {NoHead}]

ListenerInit ==
    /\ Init
    /\ head = 0 /\ log = {}
    /\ startedHead = [s \in Sockets |-> NoHead] /\ wire = [s \in Sockets |-> {}]
    /\ lastSeen = NoCursor /\ since = NoHead
    /\ pending = {} /\ handedOver = {} /\ atRisk = {} /\ catchUp = NotCatchingUp

-----------------------------------------------------------------------------
(* The chain, and the sockets. *)

LogsOfBlock(block, n) == {[cursor |-> [block |-> block, index |-> i]] : i \in 0 .. n - 1}

\* A block is mined, while the listener is on.  A subscription that was asked for is there already, or not.
Mine == \E n \in 0 .. MaxLogsPerBlock :
    /\ ~stopped /\ head < MaxBlock
    /\ head' = head + 1
    /\ log' = log \cup LogsOfBlock(head', n)
    /\ \E asked \in SUBSET {s \in Sockets : socket[s] = "requested"} :
        wire' = [s \in Sockets |-> IF s \in asked \/ socket[s] = "live"
                                   THEN wire[s] \cup LogsOfBlock(head', n) ELSE wire[s]]
    /\ UNCHANGED <<vars, startedHead, cursorVars, humanVars, catchUp>>

\* connect()'s request for the head is answered: of use until there is a cursor.
HeadFetched(s) ==
    /\ socket[s] \in {"connecting", "requested"} /\ startedHead[s] = NoHead
    /\ lastSeen = NoCursor
    /\ startedHead' = [startedHead EXCEPT ![s] = head]
    /\ UNCHANGED <<vars, chainVars, wire, cursorVars, humanVars, catchUp>>

\* What was on the wire of a socket that is no more is gone.
SocketsCarry ==
    /\ wire' = [s \in Sockets |-> IF socket'[s] \in Alive THEN wire[s] ELSE {}]
    /\ startedHead' = [s \in Sockets |-> IF socket'[s] \in Alive THEN startedHead[s] ELSE NoHead]
    /\ UNCHANGED <<chainVars, cursorVars, humanVars, catchUp>>

SocketStep ==
    /\ \/ TimerFires \/ Stop
       \/ \E s \in Sockets : Opened(s) \/ Rejected(s) \/ CloseEvent(s)
    /\ SocketsCarry

-----------------------------------------------------------------------------
(* The cursor, and what moves it. *)

Detected == pending \cup handedOver

\* Neither detected nor on the way.
Unseen == log \ (Detected \cup UNION {wire[s] : s \in Sockets})

\* The catch-up in flight will read e.
WillRead(e) ==
    /\ catchUp.phase # "idle" /\ catchUp.from # NoCursor
    /\ Before(catchUp.from, e.cursor)
    /\ catchUp.phase = "fetching" => e.cursor.block <= catchUp.to

SetsCursor(s) ==
    IF lastSeen = NoCursor /\ startedHead[s] # NoHead
    THEN lastSeen' = InclusiveBlockCursor(startedHead[s]) /\ since' = startedHead[s]
    ELSE UNCHANGED cursorVars

\* Mutant: the run takes the cursor that there is when it has the head.
AcknowledgeLate(s) ==
    /\ Acknowledged(s)
    /\ SetsCursor(s)
    /\ catchUp' = IF catchUp.phase = "idle" THEN [NotCatchingUp EXCEPT !.phase = "head"] ELSE catchUp
    /\ UNCHANGED <<chainVars, wireVars, humanVars>>

\* The subscription is acknowledged: the first sets the cursor, if it knows a
\* head, and each has runCatchUp start from the cursor, or join the run there
\* is, which may have begun before the connection was lost.
Acknowledge(s) ==
    /\ Acknowledged(s)
    /\ SetsCursor(s)
    /\ IF catchUp.phase = "idle"
       THEN /\ catchUp' = [phase |-> "head", from |-> lastSeen', to |-> NoHead]
            /\ UNCHANGED atRisk
       ELSE /\ UNCHANGED catchUp
            /\ atRisk' = atRisk \cup {e \in Unseen : ~WillRead(e)}
    /\ UNCHANGED <<chainVars, wireVars, pending, handedOver>>

\* handleRegisterHumanEvents: one log per message, in the order pushed.
Receive(s) ==
    /\ Payload(s)
    /\ \E e \in wire[s] :
        /\ \A f \in wire[s] : AtOrBefore(e.cursor, f.cursor)
        /\ wire' = [wire EXCEPT ![s] = @ \ {e}]
        /\ pending' = pending \cup {e}
        /\ lastSeen' = MaxCursor(lastSeen, e.cursor)
    /\ UNCHANGED <<chainVars, startedHead, since, catchUp, handedOver, atRisk>>

\* flushPendingHumans: a callback that fails is logged, and not called again.
Flush ==
    /\ FlushFires
    /\ pending' = {} /\ handedOver' = handedOver \cup pending
    /\ UNCHANGED <<chainVars, wireVars, cursorVars, catchUp, atRisk>>

\* Mutant: the head is the new cursor, though there were events.
CatchUpEndsAtHead(events, to) ==
    /\ catchUp' = NotCatchingUp
    /\ lastSeen' = MaxCursor(lastSeen, HeadCursor(head))
    /\ since' = IF since = NoHead THEN to ELSE since
    /\ pending' = pending \cup events
    /\ IF events = {} THEN UNCHANGED vars ELSE CaughtUp
    /\ UNCHANGED <<chainVars, wireVars, handedOver>>

\* What a run makes of its answer.  When there are no events the head becomes
\* the cursor.
CatchUpEnds(events, to) ==
    /\ catchUp' = NotCatchingUp
    /\ since' = IF since = NoHead THEN to ELSE since
    /\ pending' = pending \cup events
    /\ \/ /\ events = {}
          /\ lastSeen' = MaxCursor(lastSeen, HeadCursor(to))
          /\ UNCHANGED vars
       \/ /\ \E last \in events : IsLast(last, events) /\ lastSeen' = MaxCursor(lastSeen, last.cursor)
          /\ CaughtUp
    /\ UNCHANGED <<chainVars, wireVars, handedOver>>

\* The undetected logs of a range.
NotDetected(from, to) == EventsBetween(log, 0, to, from) \ Detected

\* The head is fetched.  Without a cursor, or while the head is the cursor's
\* block, no logs are.
CatchUpHead ==
    /\ catchUp.phase = "head"
    /\ IF catchUp.from = NoCursor \/ head <= catchUp.from.block
       THEN /\ CatchUpEnds({}, head)
            /\ atRisk' = atRisk \cup NotDetected(catchUp.from, head)
       ELSE /\ catchUp' = [catchUp EXCEPT !.phase = "fetching", !.to = head]
            /\ UNCHANGED <<vars, chainVars, wireVars, cursorVars, humanVars>>

\* The logs of the range arrive, page by page, as far as the index is.
CatchUpFetched ==
    /\ catchUp.phase = "fetching"
    /\ \E indexed \in 0 .. head :
        LET shown == {e \in log : e.cursor.block <= indexed}
            events == EventsBetween(shown, catchUp.from.block, catchUp.to, catchUp.from)
        IN /\ CatchUpEnds(events, catchUp.to)
           /\ atRisk' = atRisk \cup (NotDetected(catchUp.from, catchUp.to) \ events)

\* A request of the run fails, which is only logged.
CatchUpFails ==
    /\ catchUp.phase # "idle"
    /\ catchUp' = NotCatchingUp
    /\ atRisk' = atRisk \cup {e \in Unseen : WillRead(e)}
    /\ UNCHANGED <<vars, chainVars, wireVars, cursorVars, pending, handedOver>>

-----------------------------------------------------------------------------
ListenerNext ==
    \/ /\ ~exited
       /\ \/ SocketStep \/ Flush \/ CatchUpHead \/ CatchUpFetched \/ CatchUpFails
          \/ \E s \in Sockets : HeadFetched(s) \/ Acknowledge(s) \/ Receive(s)
    \/ Mine
    \/ Ended /\ UNCHANGED dataVars

ListenerSpec == ListenerInit /\ [][ListenerNext]_listenerVars

\* As in ListenerConnection; timers fire, what is on the wire of a connection
\* that lasts arrives, and requests of a catch-up are answered.
FairListenerSpec ==
    /\ ListenerSpec
    /\ WF_listenerVars(~exited /\ TimerFires /\ SocketsCarry)
    /\ WF_listenerVars(~exited /\ Flush)
    /\ WF_listenerVars(~exited /\ (CatchUpHead \/ CatchUpFetched))
    /\ \A s \in Sockets :
        /\ WF_listenerVars(~exited /\ socket[s] = "closing" /\ CloseEvent(s) /\ SocketsCarry)
        /\ SF_listenerVars(~exited /\ Opened(s) /\ SocketsCarry)
        /\ SF_listenerVars(~exited /\ Acknowledge(s))
        /\ WF_listenerVars(~exited /\ Receive(s))

-----------------------------------------------------------------------------
(* Properties. *)

\* The registrations that the listener answers for: those after its first head.
\* (Those before are for the poll.)
Owed == {e \in log : since # NoHead /\ e.cursor.block > since}

\* The cursor passes over no registration: one that lies before it was detected,
\* or is in the range of the catch-up in flight, which began before the live
\* path moved the cursor (realtime.ts:192, :221), or it is one of those at risk:
\* undetected when a request failed, when the index was behind, when a catch-up
\* found the head in the cursor's block, or in a downtime that ended before the
\* catch-up of the one before.
NothingPassedOver ==
    \A e \in Owed \ atRisk : AtOrBefore(e.cursor, lastSeen) => e \in Detected \/ WillRead(e)

\* Whatever connections are lost, and whenever, each registration is handed over
\* in the end that is not at risk, unless the listener is stopped (runCatchUp,
\* realtime.ts:185).
RegistrationsHandedOver == <>[](stopped \/ Owed \subseteq handedOver \cup atRisk)
=============================================================================
