---------------------------- MODULE ListenerProofs ----------------------------
(***************************************************************************)
(* What no order of socket events can break, for any number of sockets:    *)
(* first with close events as late as they like, then while they come      *)
(* before the reconnect timer.                                             *)
(*                                                                         *)
(* Then the cursor of router-tms's listener passes over no registration,   *)
(* for any number of blocks and registrations.  The argument has two       *)
(* parts.  While a socket is live, what has not been detected is on its    *)
(* wire or in the range of the catch-up in flight, or at risk: so the live *)
(* path may move the cursor to the first log on the wire, and a catch-up   *)
(* to the end of its range.  What the cursor is past and is not detected   *)
(* is in the range of the catch-up, and on no wire: so its failure puts it *)
(* at risk.                                                                *)
(***************************************************************************)
EXTENDS RegistrationListener, TLAPS

USE DEF Alive

\* scheduleReconnect sets the timer unless the listener was stopped.
LEMMA ScheduleTyped ==
    ASSUME TypeOK, ScheduleReconnect
    PROVE  /\ timer' = (timer \/ ~stopped)
           /\ timer' \in BOOLEAN
           /\ attempt' \in 0 .. DelaySteps
<1>1. CASE stopped \/ timer
  BY <1>1 DEF TypeOK, ScheduleReconnect
<1>2. CASE ~(stopped \/ timer)
  <2>1. attempt \in 0 .. DelaySteps /\ DelaySteps \in Nat
    BY ConnectionAssumption DEF TypeOK
  <2>2. timer' = TRUE /\ attempt' = IF attempt < DelaySteps THEN attempt + 1 ELSE attempt
    BY <1>2 DEF ScheduleReconnect
  <2>3. attempt' \in 0 .. DelaySteps
    BY <2>1, <2>2
  <2>4. timer' = (timer \/ ~stopped)
    BY <1>2, <2>2, Zenon
  <2> QED
    BY <2>2, <2>3, <2>4
<1> QED
  BY <1>1, <1>2

\* closeSocket leaves the type of the sockets as it is.
LEMMA ClosedTyped ==
    ASSUME TypeOK
    PROVE  Closed \in [Sockets -> Alive \cup {"gone", "closing"}]
<1> QED
  BY DEF TypeOK, Closed

\* The listener's sockets, timer and attempts are of their types, whatever the
\* order of events.
THEOREM ConnectionTyped == Spec => []TypeOK
<1>1. ASSUME Init PROVE TypeOK
  <2>1. PICK s \in Sockets :
            socket = [x \in Sockets |-> IF x = s THEN "connecting" ELSE "gone"] /\ ws = s
    BY <1>1 DEF Init
  <2>2. 0 \in 0 .. DelaySteps
    BY ConnectionAssumption
  <2> QED
    BY <1>1, <2>1, <2>2 DEF Init, TypeOK
<1>2. TypeOK /\ [Next]_vars => TypeOK'
  <2> SUFFICES ASSUME TypeOK, [Next]_vars PROVE TypeOK'
    OBVIOUS
  <2> USE ConnectionAssumption DEF TypeOK
  <2>1. CASE TimerFires
    BY <2>1, ClosedTyped DEF TimerFires
  <2>2. CASE FlushFires
    BY <2>2 DEF FlushFires
  <2>3. CASE Stop
    BY <2>3, ClosedTyped DEF Stop
  <2>4. ASSUME NEW s \in Sockets, Opened(s) PROVE TypeOK'
    BY <2>4 DEF Opened
  <2>5. ASSUME NEW s \in Sockets, Acknowledged(s) PROVE TypeOK'
    BY <2>5 DEF Acknowledged
  <2>6. ASSUME NEW s \in Sockets, Rejected(s) PROVE TypeOK'
    <3>1. timer' \in BOOLEAN /\ attempt' \in 0 .. DelaySteps
      BY <2>6, ScheduleTyped DEF Rejected
    <3>2. socket' \in [Sockets -> Alive \cup {"gone", "closing"}]
      BY <2>6, ClosedTyped DEF Rejected
    <3> QED
      BY <2>6, <3>1, <3>2 DEF Rejected
  <2>7. ASSUME NEW s \in Sockets, Payload(s) PROVE TypeOK'
    BY <2>7 DEF Payload
  <2>8. ASSUME NEW s \in Sockets, CloseEvent(s) PROVE TypeOK'
    <3>1. timer' \in BOOLEAN /\ attempt' \in 0 .. DelaySteps
      BY <2>8, ScheduleTyped DEF CloseEvent
    <3> QED
      BY <2>8, <3>1 DEF CloseEvent
  <2>9. CASE CaughtUp
    BY <2>9 DEF CaughtUp
  <2>10. CASE UNCHANGED vars
    BY <2>10 DEF vars
  <2> QED
    BY <2>1, <2>2, <2>3, <2>4, <2>5, <2>6, <2>7, <2>8, <2>9, <2>10 DEF Next, Ended
<1> QED
  BY <1>1, <1>2, PTL DEF Spec

-----------------------------------------------------------------------------
\* The current socket is one that is not closed; the timer and the current
\* socket exclude each other, and one of them is there until stop().
ConnInv ==
    /\ ws # None => socket[ws] \in Alive
    /\ timer => ws = None
    /\ stopped => ws = None /\ ~timer
    /\ ~stopped => timer \/ ws # None

LEMMA ConnInvInductive ==
    ASSUME TypeOK, TypeOK', ConnInv, [Next]_vars PROVE ConnInv'
<1> USE ConnectionAssumption DEF TypeOK, ConnInv
<1>1. CASE TimerFires
  BY <1>1, ClosedTyped DEF TimerFires
<1>2. CASE FlushFires
  BY <1>2 DEF FlushFires
<1>3. CASE Stop
  BY <1>3 DEF Stop
<1>4. ASSUME NEW s \in Sockets, Opened(s) PROVE ConnInv'
  BY <1>4 DEF Opened
<1>5. ASSUME NEW s \in Sockets, Acknowledged(s) PROVE ConnInv'
  BY <1>5 DEF Acknowledged
<1>6. ASSUME NEW s \in Sockets, Rejected(s) PROVE ConnInv'
  BY <1>6, ScheduleTyped DEF Rejected
<1>7. ASSUME NEW s \in Sockets, Payload(s) PROVE ConnInv'
  BY <1>7 DEF Payload
<1>8. ASSUME NEW s \in Sockets, CloseEvent(s) PROVE ConnInv'
  BY <1>8, ScheduleTyped DEF CloseEvent
<1>9. CASE CaughtUp
  BY <1>9 DEF CaughtUp
<1>10. CASE UNCHANGED vars
  BY <1>10 DEF vars
<1> QED
  BY <1>1, <1>2, <1>3, <1>4, <1>5, <1>6, <1>7, <1>8, <1>9, <1>10 DEF Next, Ended

THEOREM ConnectionInvariant == Spec => []ConnInv
<1>1. Init => ConnInv
  BY ConnectionAssumption DEF Init, ConnInv
<1> QED
  BY <1>1, ConnInvInductive, ConnectionTyped, PTL DEF Spec

\* A listener that was not stopped has a socket that will say how it ends, or
\* a timer (realtime.ts, scheduleReconnect and the close handler).
THEOREM AlwaysReconnects == Spec => []NeverStranded
<1>1. ConnInv => NeverStranded
  BY DEF ConnInv, NeverStranded
<1> QED
  BY <1>1, ConnectionInvariant, PTL

\* The closeSocket() of connect() never finds a socket.
THEOREM TimerMeansNoSocket == Spec => []ReconnectsWithoutSocket
<1>1. ConnInv => ReconnectsWithoutSocket
  BY DEF ConnInv, ReconnectsWithoutSocket
<1> QED
  BY <1>1, ConnectionInvariant, PTL

\* No event that comes after stop() sets a timer or opens a socket.
THEOREM StoppedForGood == Spec => StopIsFinal
<1> DEFINE Final ==
        stopped => /\ stopped' /\ ~timer' /\ ws' = None
                   /\ \A s \in Sockets : socket[s] = "gone" => socket'[s] = "gone"
<1>1. ASSUME TypeOK, ConnInv, [Next]_vars PROVE [Final]_vars
  <2> USE <1>1, ConnectionAssumption DEF TypeOK, ConnInv
  <2>1. CASE TimerFires
    BY <2>1 DEF TimerFires
  <2>2. CASE FlushFires
    BY <2>2 DEF FlushFires
  <2>3. CASE Stop
    BY <2>3 DEF Stop
  <2>4. ASSUME NEW s \in Sockets, Opened(s) PROVE Final
    BY <2>4 DEF Opened
  <2>5. ASSUME NEW s \in Sockets, Acknowledged(s) PROVE Final
    BY <2>5 DEF Acknowledged
  <2>6. ASSUME NEW s \in Sockets, Rejected(s) PROVE Final
    BY <2>6, ScheduleTyped DEF Rejected, Closed
  <2>7. ASSUME NEW s \in Sockets, Payload(s) PROVE Final
    BY <2>7 DEF Payload
  <2>8. ASSUME NEW s \in Sockets, CloseEvent(s) PROVE Final
    BY <2>8, ScheduleTyped DEF CloseEvent
  <2>9. CASE CaughtUp
    BY <2>9 DEF CaughtUp
  <2> QED
    BY <1>1, <2>1, <2>2, <2>3, <2>4, <2>5, <2>6, <2>7, <2>8, <2>9 DEF Next, Ended
<1> QED
  BY <1>1, ConnectionTyped, ConnectionInvariant, PTL DEF Spec, StopIsFinal

-----------------------------------------------------------------------------
(* While close events are not late. *)

\* Only the current socket is not closed; there is none while a close event is
\* awaited, so that the event takes no socket's place from it.
OnlyInv ==
    /\ CurrentSocketOnly
    /\ \A s \in Sockets : socket[s] = "closing" => ws = None
    /\ NeverExits

LEMMA OnlyInvInductive ==
    ASSUME LateClose = FALSE, TypeOK, ConnInv, OnlyInv, [Next]_vars PROVE OnlyInv'
<1> USE ConnectionAssumption DEF TypeOK, OnlyInv, CurrentSocketOnly, NeverExits
<1>1. CASE TimerFires
  <2>1. ws = None /\ Closed = socket
    BY <1>1 DEF TimerFires, ConnInv, Closed
  <2>2. \A s \in Sockets : socket[s] = "gone"
    BY <1>1, <2>1 DEF TimerFires
  <2>3. CASE stopped
    BY <1>1, <2>2, <2>3 DEF TimerFires, ConnInv
  <2>4. ASSUME NEW s \in Sockets, socket' = [socket EXCEPT ![s] = "connecting"], ws' = s
        PROVE  OnlyInv'
    BY <1>1, <2>2, <2>4 DEF TimerFires
  <2> QED
    BY <1>1, <2>1, <2>3, <2>4 DEF TimerFires
<1>2. CASE FlushFires
  BY <1>2 DEF FlushFires
<1>3. CASE Stop
  BY <1>3 DEF Stop, Closed
<1>4. ASSUME NEW s \in Sockets, Opened(s) PROVE OnlyInv'
  <2>1. s = ws
    BY <1>4 DEF Opened
  <2> QED
    BY <1>4, <2>1 DEF Opened
<1>5. ASSUME NEW s \in Sockets, Acknowledged(s) PROVE OnlyInv'
  BY <1>5 DEF Acknowledged
<1>6. ASSUME NEW s \in Sockets, Rejected(s) PROVE OnlyInv'
  <2>1. s = ws
    BY <1>6 DEF Rejected
  <2> QED
    BY <1>6, <2>1 DEF Rejected, Closed
<1>7. ASSUME NEW s \in Sockets, Payload(s) PROVE OnlyInv'
  BY <1>7 DEF Payload
<1>8. ASSUME NEW s \in Sockets, CloseEvent(s) PROVE OnlyInv'
  BY <1>8 DEF CloseEvent
<1>9. CASE CaughtUp
  BY <1>9 DEF CaughtUp
<1>10. CASE UNCHANGED vars
  BY <1>10 DEF vars
<1> QED
  BY <1>1, <1>2, <1>3, <1>4, <1>5, <1>6, <1>7, <1>8, <1>9, <1>10 DEF Next, Ended

LEMMA OnlyInvariant ==
    ASSUME LateClose = FALSE PROVE Spec => []OnlyInv
<1>1. Init => OnlyInv
  BY ConnectionAssumption DEF Init, OnlyInv, CurrentSocketOnly, NeverExits
<1>2. TypeOK /\ ConnInv /\ OnlyInv /\ [Next]_vars => OnlyInv'
  BY OnlyInvInductive
<1> QED
  BY <1>1, <1>2, ConnectionTyped, ConnectionInvariant, PTL DEF Spec

\* While close events come before the reconnect timer there is no socket but
\* the current one (realtime.ts:305).
THEOREM OneSocket ==
    ASSUME LateClose = FALSE PROVE Spec => []CurrentSocketOnly
<1>1. OnlyInv => CurrentSocketOnly
  BY DEF OnlyInv
<1> QED
  BY <1>1, OnlyInvariant, PTL

\* ... and no "open" handler sends on a socket that is still connecting
\* (realtime.ts:264).
THEOREM HandlersDoNotThrow ==
    ASSUME LateClose = FALSE PROVE Spec => []NeverExits
<1>1. OnlyInv => NeverExits
  BY DEF OnlyInv
<1> QED
  BY <1>1, OnlyInvariant, PTL

-----------------------------------------------------------------------------
(* The cursors of router-tms's listener. *)

\* Cursors have a total order.
LEMMA CursorsOrdered ==
    ASSUME NEW a \in Cursor, NEW b \in Cursor, NEW c \in Cursor
    PROVE  /\ AtOrBefore(a, a)
           /\ AtOrBefore(a, b) \/ Before(b, a)
           /\ Before(a, b) => ~AtOrBefore(b, a)
           /\ AtOrBefore(a, b) /\ AtOrBefore(b, a) => a = b
           /\ AtOrBefore(a, b) /\ AtOrBefore(b, c) => AtOrBefore(a, c)
           /\ AtOrBefore(a, b) => a.block <= b.block
           /\ a.block < b.block => Before(a, b)
BY DEF Cursor, AtOrBefore, Before

\* maxCursor picks the later of two.
LEMMA LaterCursor ==
    ASSUME NEW a \in Cursor, NEW b \in Cursor
    PROVE  /\ MaxCursor(a, b) \in Cursor
           /\ AtOrBefore(a, MaxCursor(a, b))
           /\ MaxCursor(a, b) \in {a, b}
<1>1. AtOrBefore(a, a)
  BY DEF AtOrBefore
<1>2. AtOrBefore(b, a) \/ AtOrBefore(a, b)
  BY DEF AtOrBefore, Before, Cursor
<1> QED
  BY <1>1, <1>2 DEF MaxCursor

\* The cursors made from a head and those of registrations come after NoCursor.
LEMMA CursorsMade ==
    /\ NoCursor \in Cursor
    /\ \A b \in Nat : /\ HeadCursor(b) \in Cursor /\ HeadCursor(b).block = b
                      /\ InclusiveBlockCursor(b) \in Cursor /\ InclusiveBlockCursor(b).block = b
                      /\ Before(NoCursor, HeadCursor(b)) /\ Before(NoCursor, InclusiveBlockCursor(b))
    /\ \A e \in Registration : /\ e.cursor \in Cursor /\ e.cursor.block \in Nat
                               /\ Before(NoCursor, e.cursor)
BY LastIndexAssumption
   DEF NoCursor, HeadCursor, InclusiveBlockCursor, Cursor, Registration, EventPosition, Before, AtOrBefore

-----------------------------------------------------------------------------
(* The sockets: every step of the listener is one of ListenerConnection,   *)
(* or none.                                                                *)

LEMMA StepsOfSockets ==
    ASSUME [ListenerNext]_listenerVars PROVE [Next]_vars
<1>1. ASSUME UNCHANGED listenerVars PROVE [Next]_vars
  BY <1>1 DEF listenerVars
<1>2. ASSUME Mine PROVE [Next]_vars
  BY <1>2 DEF Mine
<1>3. ASSUME Ended PROVE [Next]_vars
  BY <1>3 DEF Next
<1>4. ASSUME ~exited, SocketStep PROVE [Next]_vars
  BY <1>4 DEF SocketStep, Next
<1>5. ASSUME ~exited, Flush PROVE [Next]_vars
  BY <1>5 DEF Flush, Next
<1>6. ASSUME ~exited, NEW events, NEW to, CatchUpEnds(events, to) PROVE [Next]_vars
  BY <1>6 DEF CatchUpEnds, Next
<1>7. ASSUME ~exited, CatchUpHead PROVE [Next]_vars
  BY <1>6, <1>7 DEF CatchUpHead
<1>8. ASSUME ~exited, CatchUpFetched PROVE [Next]_vars
  BY <1>6, <1>8 DEF CatchUpFetched
<1>9. ASSUME ~exited, CatchUpFails PROVE [Next]_vars
  BY <1>9 DEF CatchUpFails
<1>10. ASSUME ~exited, NEW s \in Sockets, HeadFetched(s) PROVE [Next]_vars
  BY <1>10 DEF HeadFetched
<1>11. ASSUME ~exited, NEW s \in Sockets, Acknowledge(s) PROVE [Next]_vars
  BY <1>11 DEF Acknowledge, Next
<1>12. ASSUME ~exited, NEW s \in Sockets, Receive(s) PROVE [Next]_vars
  BY <1>12 DEF Receive, Next
<1> QED
  BY <1>1, <1>2, <1>3, <1>4, <1>5, <1>7, <1>8, <1>9, <1>10, <1>11, <1>12 DEF ListenerNext

\* router-tms's listener is that of ListenerConnection as far as its sockets
\* go, and has all that is proved of them.
THEOREM SocketsAsModelled == ListenerSpec => Spec
<1>1. ListenerInit => Init
  BY DEF ListenerInit
<1>2. [ListenerNext]_listenerVars => [Next]_vars
  BY StepsOfSockets
<1> QED
  BY <1>1, <1>2, PTL DEF ListenerSpec, Spec

-----------------------------------------------------------------------------
(* Types, and where the cursors are. *)

DataTyped ==
    /\ ListenerTypeOK
    /\ \A e \in log : e.cursor.block <= head
    /\ \A s \in Sockets : startedHead[s] <= head
    /\ lastSeen.block <= head /\ AtOrBefore(NoCursor, lastSeen)
    /\ lastSeen = NoCursor => since = NoHead
    /\ AtOrBefore(catchUp.from, lastSeen)
    /\ catchUp.from # NoCursor => lastSeen # NoCursor
    /\ catchUp.phase = "fetching" =>
          catchUp.to \in Nat /\ catchUp.to <= head /\ catchUp.from # NoCursor

\* Where the cursor moves to.
LEMMA CursorMoves ==
    ASSUME DataTyped, NEW c \in Cursor, Before(NoCursor, c), c.block <= head,
           lastSeen' = MaxCursor(lastSeen, c)
    PROVE  /\ lastSeen' \in Cursor /\ lastSeen' # NoCursor /\ lastSeen'.block <= head
           /\ AtOrBefore(lastSeen, lastSeen') /\ AtOrBefore(catchUp.from, lastSeen')
           /\ lastSeen' \in {lastSeen, c} /\ AtOrBefore(NoCursor, lastSeen')
<1>1. lastSeen \in Cursor /\ catchUp.from \in Cursor /\ lastSeen.block <= head
  BY DEF DataTyped, ListenerTypeOK
<1>2. lastSeen' \in Cursor /\ AtOrBefore(lastSeen, lastSeen') /\ lastSeen' \in {lastSeen, c}
  BY <1>1, LaterCursor
<1>3. AtOrBefore(catchUp.from, lastSeen')
  BY <1>1, <1>2, CursorsOrdered DEF DataTyped
<1>4. lastSeen' # NoCursor
  BY <1>1, <1>2, CursorsMade, CursorsOrdered DEF MaxCursor
<1>5. AtOrBefore(NoCursor, lastSeen')
  BY <1>1, <1>2, CursorsMade, CursorsOrdered DEF DataTyped
<1> QED
  BY <1>1, <1>2, <1>3, <1>4, <1>5

\* A run that ends leaves a cursor of the chain.
LEMMA RunEndsTyped ==
    ASSUME DataTyped, NEW events \in SUBSET log, NEW to \in Nat, to <= head,
           CatchUpEnds(events, to)
    PROVE  /\ lastSeen' \in Cursor /\ lastSeen' # NoCursor /\ lastSeen'.block <= head
           /\ catchUp' = NotCatchingUp /\ AtOrBefore(NoCursor, lastSeen')
           /\ since' \in Nat /\ pending' \subseteq log
           /\ UNCHANGED <<socket, ws, timer, stopped, chainVars, wireVars, handedOver>>
<1>1. /\ catchUp' = NotCatchingUp /\ since' \in Nat /\ pending' \subseteq log
      /\ UNCHANGED <<socket, ws, timer, stopped, chainVars, wireVars, handedOver>>
  BY DEF CatchUpEnds, CaughtUp, vars, DataTyped, ListenerTypeOK
<1>2. PICK c \in Cursor : /\ Before(NoCursor, c) /\ c.block <= head
                          /\ lastSeen' = MaxCursor(lastSeen, c)
  <2>1. CASE lastSeen' = MaxCursor(lastSeen, HeadCursor(to))
    BY <2>1, CursorsMade
  <2>2. ASSUME NEW last \in events, lastSeen' = MaxCursor(lastSeen, last.cursor)
        PROVE  \E c \in Cursor : /\ Before(NoCursor, c) /\ c.block <= head
                                 /\ lastSeen' = MaxCursor(lastSeen, c)
    <3>1. last \in Registration /\ last.cursor.block <= head
      BY DEF DataTyped, ListenerTypeOK
    <3> QED
      BY <2>2, <3>1, CursorsMade
  <2> QED
    BY <2>1, <2>2 DEF CatchUpEnds
<1>3. /\ lastSeen' \in Cursor /\ lastSeen' # NoCursor /\ lastSeen'.block <= head
      /\ AtOrBefore(NoCursor, lastSeen')
  BY <1>2, CursorMoves
<1> QED
  BY <1>1, <1>3

LEMMA DataTypedInductive ==
    ASSUME DataTyped, ListenerNext PROVE DataTyped'
<1> USE DEF DataTyped, ListenerTypeOK, NoHead
<1>1. ASSUME Mine PROVE DataTyped'
  <2>1. PICK n \in 0 .. MaxLogsPerBlock :
          /\ head' = head + 1 /\ log' = log \cup LogsOfBlock(head', n)
          /\ \E asked \in SUBSET {s \in Sockets : socket[s] = "requested"} :
               wire' = [s \in Sockets |-> IF s \in asked \/ socket[s] = "live"
                                          THEN wire[s] \cup LogsOfBlock(head', n) ELSE wire[s]]
          /\ UNCHANGED <<startedHead, cursorVars, humanVars, catchUp>>
    BY <1>1 DEF Mine
  <2>2. LogsOfBlock(head', n) \subseteq Registration
        /\ \A e \in LogsOfBlock(head', n) : e.cursor.block = head'
    BY <2>1, RegistrationAssumption, LastIndexAssumption
       DEF LogsOfBlock, Registration, EventPosition
  <2>3. wire' \in [Sockets -> SUBSET log']
    BY <2>1
  <2>4. log' \subseteq Registration /\ \A e \in log' : e.cursor.block <= head'
    <3>1. \A e \in log : e \in Registration /\ e.cursor.block \in Nat
      BY CursorsMade
    <3> QED
      BY <2>1, <2>2, <3>1
  <2>5. lastSeen.block \in Int
    BY DEF Cursor
  <2> QED
    BY <2>1, <2>3, <2>4, <2>5 DEF cursorVars, humanVars
<1>2. ASSUME SocketStep PROVE DataTyped'
  BY <1>2 DEF SocketStep, SocketsCarry, chainVars, cursorVars, humanVars
<1>3. ASSUME Flush PROVE DataTyped'
  BY <1>3 DEF Flush, chainVars, wireVars, cursorVars
<1>4. ASSUME CatchUpHead PROVE DataTyped'
  <2>1. CASE CatchUpEnds({}, head) /\ atRisk' = atRisk \cup NotDetected(catchUp.from, head)
    <3>1. NotDetected(catchUp.from, head) \subseteq log
      BY DEF NotDetected, EventsBetween, After
    <3>2. /\ lastSeen' \in Cursor /\ lastSeen' # NoCursor /\ lastSeen'.block <= head
          /\ catchUp' = NotCatchingUp /\ AtOrBefore(NoCursor, lastSeen')
          /\ since' \in Nat /\ pending' \subseteq log
          /\ UNCHANGED <<chainVars, wireVars, handedOver>>
      BY <2>1, RunEndsTyped
    <3> QED
      BY <2>1, <3>1, <3>2, CursorsMade
         DEF NotCatchingUp, chainVars, wireVars
  <2>2. CASE /\ ~(catchUp.from = NoCursor \/ head <= catchUp.from.block)
             /\ catchUp' = [catchUp EXCEPT !.phase = "fetching", !.to = head]
             /\ UNCHANGED <<vars, chainVars, wireVars, cursorVars, humanVars>>
    <3>1. /\ catchUp' \in [phase : {"idle", "head", "fetching"}, from : Cursor, to : Nat \cup {NoHead}]
          /\ catchUp'.from = catchUp.from /\ catchUp'.to = head
      BY <2>2
    <3> QED
      BY <2>2, <3>1 DEF chainVars, wireVars, cursorVars, humanVars
  <2> QED
    BY <1>4, <2>1, <2>2 DEF CatchUpHead
<1>5. ASSUME CatchUpFetched PROVE DataTyped'
  <2>1. PICK events \in SUBSET log :
          /\ CatchUpEnds(events, catchUp.to)
          /\ atRisk' = atRisk \cup (NotDetected(catchUp.from, catchUp.to) \ events)
    BY <1>5 DEF CatchUpFetched, EventsBetween, After
  <2>2. NotDetected(catchUp.from, catchUp.to) \subseteq log
    BY DEF NotDetected, EventsBetween, After
  <2> QED
    BY <1>5, <2>1, <2>2, RunEndsTyped, CursorsMade
       DEF CatchUpFetched, NotCatchingUp, chainVars, wireVars
<1>6. ASSUME CatchUpFails PROVE DataTyped'
  <2>1. atRisk' \subseteq log
    BY <1>6 DEF CatchUpFails, Unseen
  <2> QED
    BY <1>6, <2>1, CursorsMade
       DEF CatchUpFails, NotCatchingUp, chainVars, wireVars, cursorVars
<1>7. ASSUME NEW s \in Sockets, HeadFetched(s) PROVE DataTyped'
  BY <1>7 DEF HeadFetched, chainVars, cursorVars, humanVars
<1>8. ASSUME NEW s \in Sockets, Acknowledge(s) PROVE DataTyped'
  <2>1. /\ lastSeen' \in Cursor /\ since' \in Nat \cup {NoHead} /\ lastSeen'.block <= head
        /\ lastSeen' = NoCursor => since' = NoHead
        /\ AtOrBefore(lastSeen, lastSeen') /\ AtOrBefore(NoCursor, lastSeen')
    BY <1>8, CursorsMade, CursorsOrdered DEF Acknowledge, SetsCursor, cursorVars, AtOrBefore
  <2>2. AtOrBefore(catchUp.from, lastSeen') /\ (lastSeen # NoCursor => lastSeen' # NoCursor)
    <3>1. lastSeen \in Cursor /\ catchUp.from \in Cursor
      OBVIOUS
    <3>2. AtOrBefore(catchUp.from, lastSeen')
      BY <2>1, <3>1, CursorsOrdered
    <3> QED
      BY <1>8, <3>2 DEF Acknowledge, SetsCursor, cursorVars
  <2>3. CASE catchUp' = [phase |-> "head", from |-> lastSeen', to |-> NoHead] /\ UNCHANGED atRisk
    <3>1. /\ catchUp'.from = lastSeen' /\ catchUp'.phase # "fetching"
          /\ catchUp' \in [phase : {"idle", "head", "fetching"}, from : Cursor, to : Nat \cup {NoHead}]
          /\ AtOrBefore(catchUp'.from, lastSeen')
      BY <2>1, <2>3 DEF AtOrBefore
    <3> QED
      BY <1>8, <2>1, <2>3, <3>1 DEF Acknowledge, chainVars, wireVars
  <2>4. CASE UNCHANGED catchUp /\ atRisk' = atRisk \cup {e \in Unseen : ~WillRead(e)}
    <3>1. Unseen \subseteq log
      BY DEF Unseen
    <3> QED
      BY <1>8, <2>1, <2>2, <2>4, <3>1 DEF Acknowledge, chainVars, wireVars
  <2> QED
    BY <1>8, <2>3, <2>4 DEF Acknowledge
<1>9. ASSUME NEW s \in Sockets, Receive(s) PROVE DataTyped'
  <2>1. PICK e \in log : /\ e.cursor \in Cursor /\ Before(NoCursor, e.cursor) /\ e.cursor.block <= head
                         /\ wire' = [wire EXCEPT ![s] = @ \ {e}]
                         /\ pending' = pending \cup {e}
                         /\ lastSeen' = MaxCursor(lastSeen, e.cursor)
    BY <1>9, CursorsMade DEF Receive
  <2>2. /\ lastSeen' \in Cursor /\ lastSeen' # NoCursor /\ lastSeen'.block <= head
        /\ AtOrBefore(catchUp.from, lastSeen') /\ AtOrBefore(NoCursor, lastSeen')
    BY <2>1, CursorMoves
  <2> QED
    BY <1>9, <2>1, <2>2 DEF Receive, chainVars
<1>10. ASSUME Ended, UNCHANGED dataVars PROVE DataTyped'
  BY <1>10 DEF dataVars, chainVars, wireVars, cursorVars, humanVars
<1> QED
  BY <1>1, <1>2, <1>3, <1>4, <1>5, <1>6, <1>7, <1>8, <1>9, <1>10 DEF ListenerNext

-----------------------------------------------------------------------------
(* What becomes of the registrations. *)

\* The first block that the listener does not answer for: before it has a head
\* to start from, that of the run in flight, or the chain's.
Base == IF since # NoHead THEN since ELSE IF catchUp.phase = "fetching" THEN catchUp.to ELSE head

Due == {e \in log : e.cursor.block > Base} \ atRisk

WiresOfSockets == \A s \in Sockets : wire[s] # {} => socket[s] \in Alive

\* The cursor is past a log: the live path has detected it, or the run will.
PassedAccounted ==
    \A e \in Due : AtOrBefore(e.cursor, lastSeen) =>
        e \in Detected \/ (WillRead(e) /\ \A s \in Sockets : e \notin wire[s])

LiveAccounted ==
    \A s \in Sockets : socket[s] = "live" =>
        \A e \in Due : e \in Detected \/ e \in wire[s] \/ WillRead(e)

Accounted == WiresOfSockets /\ PassedAccounted /\ LiveAccounted

\* A step that neither adds to what is due nor changes the run.
LEMMA SameAccount ==
    ASSUME Accounted, Due' \subseteq Due, lastSeen' = lastSeen,
           Detected \subseteq Detected', UNCHANGED catchUp,
           \A s \in Sockets : wire'[s] = wire[s] \/ wire'[s] = {},
           \A s \in Sockets : wire'[s] # {} => socket'[s] \in Alive,
           \A s \in Sockets : socket'[s] = "live" => socket[s] = "live" /\ wire'[s] = wire[s]
    PROVE  Accounted'
<1>1. \A e : WillRead(e)' = WillRead(e)
  BY DEF WillRead
<1>2. WiresOfSockets'
  BY DEF WiresOfSockets
<1>3. PassedAccounted'
  BY <1>1 DEF Accounted, PassedAccounted
<1>4. LiveAccounted'
  BY <1>1 DEF Accounted, LiveAccounted
<1> QED
  BY <1>2, <1>3, <1>4 DEF Accounted

\* The run ends, and has what it was to read, or leaves it at risk.
LEMMA RunEndsAccounted ==
    ASSUME DataTyped, Accounted, NEW events \in SUBSET log, NEW to \in Nat, to <= head,
           CatchUpEnds(events, to), catchUp.phase # "idle",
           since = NoHead => Base = to,
           \A e \in events : e.cursor.block <= to,
           catchUp.phase = "head" => to = head,
           catchUp.phase = "fetching" => to = catchUp.to,
           atRisk \subseteq atRisk',
           \A e \in log : Before(catchUp.from, e.cursor) /\ e.cursor.block <= to
                => e \in Detected \/ e \in events \/ e \in atRisk'
    PROVE  Accounted'
<1>1. UNCHANGED <<socket, head, log, wire, handedOver>> /\ lastSeen' \in Cursor
  BY RunEndsTyped DEF chainVars, wireVars
<1>2. Detected' = Detected \cup events
  BY <1>1 DEF CatchUpEnds, Detected
<1>3. Due' \subseteq Due
  <2>1. Base' = Base
    <3>1. CASE since = NoHead
      <4>1. since' = to /\ to # NoHead
        BY <3>1 DEF CatchUpEnds, NoHead
      <4> QED
        BY <3>1, <4>1 DEF Base
    <3>2. CASE since # NoHead
      BY <3>2 DEF CatchUpEnds, Base
    <3> QED
      BY <3>1, <3>2
  <2> QED
    BY <1>1, <2>1 DEF Due
<1>4. ASSUME NEW e \in log, WillRead(e) PROVE e.cursor.block <= to
  BY <1>4 DEF WillRead, DataTyped, ListenerTypeOK
<1>5. ASSUME NEW e \in Due', WillRead(e) PROVE e \in Detected'
  <2>1. e \in log /\ e \notin atRisk'
    BY <1>1 DEF Due
  <2> QED
    BY <1>2, <1>4, <1>5, <2>1 DEF WillRead
<1>6. ASSUME NEW e \in Due', AtOrBefore(e.cursor, lastSeen') PROVE e \in Detected'
  <2>1. e \in log /\ e \notin atRisk' /\ e \in Due
    BY <1>1, <1>3 DEF Due
  <2>2. /\ e.cursor \in Cursor /\ lastSeen \in Cursor /\ catchUp.from \in Cursor
        /\ AtOrBefore(catchUp.from, lastSeen) /\ e.cursor.block \in Nat
    BY <2>1, CursorsMade DEF DataTyped, ListenerTypeOK
  <2>3. CASE AtOrBefore(e.cursor, lastSeen)
    BY <1>2, <1>5, <2>1, <2>3 DEF Accounted, PassedAccounted
  <2>4. CASE ~AtOrBefore(e.cursor, lastSeen)
    <3>1. Before(catchUp.from, e.cursor)
      BY <2>2, <2>4 DEF AtOrBefore, Before, Cursor
    <3>2. e.cursor.block <= to
      <4>1. PICK c \in Cursor : c.block <= to /\ lastSeen' = MaxCursor(lastSeen, c)
        <5>1. CASE lastSeen' = MaxCursor(lastSeen, HeadCursor(to))
          BY <5>1, CursorsMade
        <5>2. ASSUME NEW last \in events, lastSeen' = MaxCursor(lastSeen, last.cursor)
              PROVE  \E c \in Cursor : c.block <= to /\ lastSeen' = MaxCursor(lastSeen, c)
          BY <5>2, CursorsMade DEF DataTyped, ListenerTypeOK
        <5> QED
          BY <5>1, <5>2 DEF CatchUpEnds
      <4>2. lastSeen' = c
        BY <1>6, <2>4, <4>1, LaterCursor, <2>2
      <4>3. e.cursor.block <= c.block /\ c.block \in Int
        BY <1>6, <2>2, <4>2, CursorsOrdered DEF Cursor
      <4> QED
        BY <2>2, <4>1, <4>3
    <3> QED
      BY <1>2, <2>1, <3>1, <3>2
  <2> QED
    BY <2>3, <2>4
<1>7. WiresOfSockets'
  BY <1>1 DEF Accounted, WiresOfSockets
<1>8. PassedAccounted'
  BY <1>6 DEF PassedAccounted
<1>9. LiveAccounted'
  BY <1>1, <1>2, <1>3, <1>5 DEF Accounted, LiveAccounted
<1> QED
  BY <1>7, <1>8, <1>9 DEF Accounted

\* A run either ends at the head, or its range is up to there.
LEMMA HeadAccounted ==
    ASSUME DataTyped, Accounted, CatchUpHead PROVE Accounted'
<1>1. head \in Nat /\ catchUp.phase = "head"
  BY DEF CatchUpHead, DataTyped, ListenerTypeOK
<1>2. CASE CatchUpEnds({}, head) /\ atRisk' = atRisk \cup NotDetected(catchUp.from, head)
  <2>1. ASSUME NEW e \in log, Before(catchUp.from, e.cursor), e \notin Detected
        PROVE  e \in NotDetected(catchUp.from, head)
    BY <1>1, <2>1, CursorsMade DEF NotDetected, EventsBetween, After, DataTyped, ListenerTypeOK
  <2>2. since = NoHead => Base = head
    BY <1>1 DEF Base
  <2> QED
    BY <1>1, <1>2, <2>1, <2>2, RunEndsAccounted
<1>3. CASE /\ ~(catchUp.from = NoCursor \/ head <= catchUp.from.block)
           /\ catchUp' = [catchUp EXCEPT !.phase = "fetching", !.to = head]
           /\ UNCHANGED <<vars, chainVars, wireVars, cursorVars, humanVars>>
  <2>1. /\ catchUp'.phase = "fetching" /\ catchUp'.to = head /\ catchUp'.from = catchUp.from
        /\ UNCHANGED <<socket, head, log, wire, lastSeen, since, pending, handedOver, atRisk>>
    BY <1>3 DEF DataTyped, ListenerTypeOK, vars, chainVars, wireVars, cursorVars, humanVars
  <2>2. Due' = Due /\ Detected' = Detected
    BY <1>1, <2>1 DEF Due, Base, Detected
  <2>3. \A e \in log : WillRead(e) => WillRead(e)'
    BY <2>1 DEF WillRead, DataTyped
  <2> QED
    BY <2>1, <2>2, <2>3 DEF Accounted, WiresOfSockets, PassedAccounted, LiveAccounted, Due
<1> QED
  BY <1>2, <1>3 DEF CatchUpHead

LEMMA FetchedAccounted ==
    ASSUME DataTyped, Accounted, CatchUpFetched PROVE Accounted'
<1>1. catchUp.phase = "fetching" /\ catchUp.to \in Nat /\ catchUp.to <= head
  BY DEF CatchUpFetched, DataTyped
<1>2. PICK events \in SUBSET log :
        /\ \A e \in events : e.cursor.block <= catchUp.to
        /\ CatchUpEnds(events, catchUp.to)
        /\ atRisk' = atRisk \cup (NotDetected(catchUp.from, catchUp.to) \ events)
  <2>1. catchUp.from.block \in Int /\ \A e \in log : e.cursor.block \in Nat
    BY CursorsMade DEF DataTyped, ListenerTypeOK, Cursor
  <2> QED
    BY <1>1, <2>1 DEF CatchUpFetched, EventsBetween, After
<1>3. ASSUME NEW e \in log, Before(catchUp.from, e.cursor), e.cursor.block <= catchUp.to,
             e \notin Detected
      PROVE  e \in NotDetected(catchUp.from, catchUp.to)
  BY <1>1, <1>3, CursorsMade DEF NotDetected, EventsBetween, After, DataTyped, ListenerTypeOK
<1>4. since = NoHead => Base = catchUp.to
  BY <1>1 DEF Base
<1> QED
  BY <1>1, <1>2, <1>3, <1>4, RunEndsAccounted

\* There is one socket at most, and so no wire but the live socket's.
LEMMA OneWire ==
    ASSUME CurrentSocketOnly, WiresOfSockets, NEW s \in Sockets, socket[s] \in Alive
    PROVE  \A r \in Sockets \ {s} : wire[r] = {}
BY DEF CurrentSocketOnly, WiresOfSockets

\* What only a run that fails was to read is on no wire, and so at risk.
LEMMA FailureAccounted ==
    ASSUME DataTyped, Accounted, CurrentSocketOnly, CatchUpFails PROVE Accounted'
<1>1. /\ atRisk' = atRisk \cup {e \in Unseen : WillRead(e)}
      /\ UNCHANGED <<socket, head, log, wire, lastSeen, since, pending, handedOver>>
      /\ catchUp'.phase = "idle"
  BY DEF CatchUpFails, NotCatchingUp, vars, chainVars, wireVars, cursorVars
<1>2. Due' \subseteq Due /\ Detected' = Detected
  <2>1. ASSUME NEW e \in log, e.cursor.block > Base' PROVE e.cursor.block > Base
    BY <1>1, <2>1, CursorsMade DEF Base, DataTyped, ListenerTypeOK
  <2> QED
    BY <1>1, <2>1 DEF Due, Detected
<1>3. ASSUME NEW e \in Due', WillRead(e), \A s \in Sockets : e \notin wire[s]
      PROVE  e \in Detected
  BY <1>1, <1>3 DEF Due, Unseen
<1>4. PassedAccounted'
  BY <1>1, <1>2, <1>3 DEF Accounted, PassedAccounted
<1>5. LiveAccounted'
  <2>1. ASSUME NEW s \in Sockets, socket[s] = "live", NEW e \in Due'
        PROVE  e \in Detected \/ e \in wire[s]
    <3>1. \A r \in Sockets \ {s} : wire[r] = {}
      BY <2>1, OneWire DEF Accounted, Alive
    <3> QED
      BY <1>2, <1>3, <2>1, <3>1 DEF Accounted, LiveAccounted
  <2> QED
    BY <1>1, <1>2, <2>1 DEF LiveAccounted
<1> QED
  BY <1>1, <1>4, <1>5 DEF Accounted, WiresOfSockets

\* New logs come after the cursor, and on the wire of the live socket.
LEMMA MineAccounted ==
    ASSUME DataTyped, Accounted, Mine PROVE Accounted'
<1>1. PICK n \in 0 .. MaxLogsPerBlock, asked \in SUBSET {s \in Sockets : socket[s] = "requested"} :
        /\ head' = head + 1 /\ log' = log \cup LogsOfBlock(head', n)
        /\ wire' = [s \in Sockets |-> IF s \in asked \/ socket[s] = "live"
                                     THEN wire[s] \cup LogsOfBlock(head', n) ELSE wire[s]]
        /\ UNCHANGED <<socket, lastSeen, since, pending, handedOver, atRisk, catchUp>>
  BY DEF Mine, vars, cursorVars, humanVars
<1> DEFINE New == LogsOfBlock(head', n)
<1>2. head \in Nat /\ \A e \in New : e.cursor.block = head + 1
  BY <1>1 DEF LogsOfBlock, DataTyped, ListenerTypeOK
<1>3. Due' \subseteq Due \cup New /\ Detected' = Detected /\ \A e : WillRead(e)' = WillRead(e)
  <2>1. ASSUME NEW e \in log, e.cursor.block > Base' PROVE e.cursor.block > Base
    BY <1>1, <1>2, <2>1, CursorsMade DEF Base, DataTyped, ListenerTypeOK
  <2> QED
    BY <1>1, <2>1 DEF Due, Detected, WillRead
<1>4. \A e \in log : e \notin New
  BY <1>2, CursorsMade DEF DataTyped, ListenerTypeOK
<1>5. ASSUME NEW e \in New PROVE ~AtOrBefore(e.cursor, lastSeen)
  <2>1. lastSeen.block <= head /\ lastSeen.block \in Int
    BY DEF DataTyped, ListenerTypeOK, Cursor
  <2>2. e.cursor.block = head + 1
    BY <1>2
  <2> QED
    BY <1>2, <2>1, <2>2 DEF AtOrBefore, Before
<1>6. WiresOfSockets'
  BY <1>1 DEF Accounted, WiresOfSockets, Alive
<1>7. PassedAccounted'
  <2>1. ASSUME NEW e \in Due', AtOrBefore(e.cursor, lastSeen)
        PROVE  e \in Detected \/ (WillRead(e) /\ \A s \in Sockets : e \notin wire'[s])
    <3>1. e \in Due /\ e \notin New
      BY <1>3, <1>5, <2>1
    <3> QED
      BY <1>1, <2>1, <3>1 DEF Accounted, PassedAccounted
  <2> QED
    BY <1>1, <1>3, <2>1 DEF PassedAccounted
<1>8. LiveAccounted'
  BY <1>1, <1>3 DEF Accounted, LiveAccounted
<1> QED
  BY <1>6, <1>7, <1>8 DEF Accounted

\* The socket that becomes live has a run that starts now, or joins one.
LEMMA AcknowledgeAccounted ==
    ASSUME DataTyped, Accounted, CurrentSocketOnly, NEW s \in Sockets, Acknowledge(s)
    PROVE  Accounted'
<1>1. /\ UNCHANGED <<head, log, wire, pending, handedOver>> /\ Detected' = Detected
      /\ socket[s] = "requested" /\ socket' = [socket EXCEPT ![s] = "live"]
      /\ atRisk \subseteq atRisk'
  BY DEF Acknowledge, Acknowledged, chainVars, wireVars, Detected
<1>2. \A r \in Sockets \ {s} : wire[r] = {} /\ socket[r] # "live"
  BY <1>1, OneWire DEF Accounted, CurrentSocketOnly, Alive
<1>3. lastSeen \in Cursor /\ lastSeen' \in Cursor
  BY CursorsMade DEF Acknowledge, SetsCursor, cursorVars, DataTyped, ListenerTypeOK
<1>4. ASSUME NEW e \in Due', AtOrBefore(e.cursor, lastSeen')
      PROVE  e \in Due /\ AtOrBefore(e.cursor, lastSeen)
  <2>1. e \in log /\ e.cursor \in Cursor /\ e.cursor.block \in Nat /\ e.cursor.block <= head
    BY <1>1, CursorsMade DEF Due, DataTyped, ListenerTypeOK
  <2>2. CASE /\ startedHead[s] # NoHead /\ since' = startedHead[s]
             /\ lastSeen' = InclusiveBlockCursor(startedHead[s])
    <3>1. startedHead[s] \in Nat
      BY <2>2 DEF DataTyped, ListenerTypeOK
    <3>2. e.cursor.block > startedHead[s]
      BY <2>2, <3>1 DEF Due, Base, NoHead
    <3> QED
      BY <1>3, <1>4, <2>1, <2>2, <3>1, <3>2, CursorsMade, CursorsOrdered
  <2>3. CASE UNCHANGED cursorVars
    <3>1. Base' = Base
      BY <1>1, <2>3 DEF Base, Acknowledge, cursorVars
    <3> QED
      BY <1>1, <1>4, <2>1, <2>3, <3>1 DEF Due, cursorVars
  <2> QED
    BY <2>2, <2>3 DEF Acknowledge, SetsCursor
<1>5. CASE /\ catchUp.phase = "idle"
           /\ catchUp' = [phase |-> "head", from |-> lastSeen', to |-> NoHead]
  <2>1. \A e : ~WillRead(e)
    BY <1>5 DEF WillRead
  <2>2. PassedAccounted'
    BY <1>1, <1>4, <2>1 DEF Accounted, PassedAccounted
  <2>3. ASSUME NEW e \in Due' PROVE e \in Detected' \/ WillRead(e)'
    <3>1. CASE AtOrBefore(e.cursor, lastSeen')
      BY <2>2, <3>1 DEF PassedAccounted
    <3>2. CASE ~AtOrBefore(e.cursor, lastSeen')
      <4>1. Before(lastSeen', e.cursor)
        BY <1>1, <1>3, <3>2, CursorsOrdered, CursorsMade DEF Due, DataTyped, ListenerTypeOK
      <4>2. lastSeen' # NoCursor
        <5>1. CASE lastSeen' = NoCursor
          <6>1. since' = NoHead
            BY <5>1, CursorsMade DEF Acknowledge, SetsCursor, cursorVars, DataTyped, ListenerTypeOK,
               InclusiveBlockCursor, NoCursor, NoHead
          <6> QED
            BY <1>1, <1>5, <6>1, CursorsMade DEF Due, Base, DataTyped, ListenerTypeOK
        <5> QED
          BY <5>1
      <4> QED
        BY <1>5, <4>1, <4>2 DEF WillRead
    <3> QED
      BY <3>1, <3>2
  <2>4. LiveAccounted'
    BY <2>3 DEF LiveAccounted
  <2> QED
    BY <1>1, <2>2, <2>4 DEF Accounted, WiresOfSockets, Alive
<1>6. CASE UNCHANGED catchUp /\ atRisk' = atRisk \cup {e \in Unseen : ~WillRead(e)}
  <2>1. \A e : WillRead(e)' = WillRead(e)
    BY <1>6 DEF WillRead
  <2>2. PassedAccounted'
    BY <1>1, <1>4, <2>1 DEF Accounted, PassedAccounted
  <2>3. ASSUME NEW e \in Due' PROVE e \in Detected \/ e \in wire[s] \/ WillRead(e)
    BY <1>1, <1>2, <1>6 DEF Due, Unseen
  <2>4. LiveAccounted'
    BY <1>1, <1>2, <2>1, <2>3 DEF LiveAccounted
  <2> QED
    BY <1>1, <2>2, <2>4 DEF Accounted, WiresOfSockets, Alive
<1> QED
  BY <1>5, <1>6 DEF Acknowledge

\* The cursor moves to the first log on the wire, past those that the run will read.
LEMMA ReceiveAccounted ==
    ASSUME DataTyped, Accounted, CurrentSocketOnly, NEW s \in Sockets, Receive(s)
    PROVE  Accounted'
<1>1. PICK e \in wire[s] :
        /\ \A f \in wire[s] : AtOrBefore(e.cursor, f.cursor)
        /\ wire' = [wire EXCEPT ![s] = @ \ {e}]
        /\ pending' = pending \cup {e}
        /\ lastSeen' = MaxCursor(lastSeen, e.cursor)
  BY DEF Receive
<1>2. /\ UNCHANGED <<socket, head, log, since, catchUp, handedOver, atRisk>>
      /\ socket[s] = "live"
  BY DEF Receive, Payload, chainVars
<1>3. /\ Due' = Due /\ Detected' = Detected \cup {e}
      /\ \A f : WillRead(f)' = WillRead(f)
  BY <1>1, <1>2 DEF Due, Base, Detected, WillRead
<1>4. \A r \in Sockets \ {s} : wire[r] = {} /\ socket[r] # "live"
  BY <1>2, OneWire DEF Accounted, CurrentSocketOnly, Alive
<1>5. /\ wire'[s] = wire[s] \ {e} /\ \A r \in Sockets \ {s} : wire'[r] = wire[r]
      /\ \A r \in Sockets : wire'[r] \subseteq wire[r]
  BY <1>1 DEF DataTyped, ListenerTypeOK
<1>6. WiresOfSockets'
  BY <1>2, <1>5 DEF Accounted, WiresOfSockets
<1>7. ASSUME NEW f \in Due, AtOrBefore(f.cursor, lastSeen'), f # e, f \notin Detected
      PROVE  WillRead(f) /\ \A r \in Sockets : f \notin wire[r]
  <2>1. e \in Registration /\ f \in Registration /\ lastSeen \in Cursor
    BY <1>1 DEF Due, DataTyped, ListenerTypeOK
  <2>2. CASE AtOrBefore(f.cursor, lastSeen)
    BY <1>7, <2>2 DEF Accounted, PassedAccounted
  <2>3. CASE ~AtOrBefore(f.cursor, lastSeen)
    <3>1. AtOrBefore(f.cursor, e.cursor)
      BY <1>1, <1>7, <2>1, <2>3, CursorsMade, LaterCursor
    <3>2. f \notin wire[s]
      <4>1. ASSUME f \in wire[s] PROVE FALSE
        <5>1. f.cursor = e.cursor
          BY <1>1, <2>1, <3>1, <4>1, CursorsMade, CursorsOrdered
        <5> QED
          BY <1>7, <2>1, <5>1 DEF Registration
      <4> QED
        BY <4>1
    <3> QED
      BY <1>2, <1>4, <1>7, <3>2 DEF Accounted, LiveAccounted
  <2> QED
    BY <2>2, <2>3
<1>8. PassedAccounted'
  BY <1>3, <1>5, <1>7 DEF PassedAccounted
<1>9. LiveAccounted'
  BY <1>2, <1>3, <1>4, <1>5 DEF Accounted, LiveAccounted
<1> QED
  BY <1>6, <1>8, <1>9 DEF Accounted

\* A socket's own events make none live, and drop the wires of those that go.
LEMMA SocketStepAccounted ==
    ASSUME TypeOK, DataTyped, Accounted, SocketStep PROVE Accounted'
<1>1. /\ UNCHANGED <<head, log, lastSeen, since, pending, handedOver, atRisk, catchUp>>
      /\ wire' = [s \in Sockets |-> IF socket'[s] \in Alive THEN wire[s] ELSE {}]
  BY DEF SocketStep, SocketsCarry, chainVars, cursorVars, humanVars
<1>2. Due' = Due /\ Detected' = Detected
  BY <1>1 DEF Due, Base, Detected
<1>3. \A s \in Sockets : socket'[s] = "live" => socket[s] = "live"
  <2> USE DEF TypeOK
  <2>1. Closed \in [Sockets -> Alive \cup {"gone", "closing"}]
        /\ \A s \in Sockets : Closed[s] = "live" => socket[s] = "live"
    BY DEF Closed
  <2>2. CASE TimerFires
    BY <2>1, <2>2 DEF TimerFires
  <2>3. CASE Stop
    BY <2>1, <2>3 DEF Stop
  <2>4. ASSUME NEW r \in Sockets, Opened(r) \/ Rejected(r) \/ CloseEvent(r)
        PROVE  \A s \in Sockets : socket'[s] = "live" => socket[s] = "live"
    BY <2>1, <2>4 DEF Opened, Rejected, CloseEvent
  <2> QED
    BY <2>2, <2>3, <2>4 DEF SocketStep
<1> QED
  BY <1>1, <1>2, <1>3, SameAccount DEF Alive

LEMMA AccountedInductive ==
    ASSUME TypeOK, CurrentSocketOnly, DataTyped, Accounted, [ListenerNext]_listenerVars
    PROVE  Accounted'
<1>1. ASSUME Flush PROVE Accounted'
  <2>1. /\ UNCHANGED <<socket, head, log, wire, lastSeen, since, atRisk, catchUp>>
        /\ Detected' = Detected
    BY <1>1 DEF Flush, FlushFires, chainVars, wireVars, cursorVars, Detected
  <2>2. Due' = Due
    BY <2>1 DEF Due, Base
  <2> QED
    BY <2>1, <2>2, SameAccount DEF Accounted, WiresOfSockets
<1>2. ASSUME UNCHANGED <<socket, head, log, wire, lastSeen, since, catchUp, pending, handedOver, atRisk>>
      PROVE  Accounted'
  <2>1. Due' = Due /\ Detected' = Detected
    BY <1>2 DEF Due, Base, Detected
  <2> QED
    BY <1>2, <2>1, SameAccount DEF Accounted, WiresOfSockets
<1>3. ASSUME NEW s \in Sockets, HeadFetched(s) PROVE Accounted'
  BY <1>2, <1>3 DEF HeadFetched, vars, chainVars, cursorVars, humanVars
<1>4. ASSUME (Ended /\ UNCHANGED dataVars) \/ UNCHANGED listenerVars PROVE Accounted'
  BY <1>2, <1>4 DEF Ended, vars, listenerVars, dataVars, chainVars, wireVars, cursorVars, humanVars
<1> QED
  BY <1>1, <1>3, <1>4, MineAccounted, HeadAccounted, FetchedAccounted, FailureAccounted,
     AcknowledgeAccounted, ReceiveAccounted, SocketStepAccounted DEF ListenerNext

-----------------------------------------------------------------------------
LEMMA ListenerInvariant ==
    ASSUME LateClose = FALSE PROVE ListenerSpec => [](DataTyped /\ Accounted)
<1>1. ListenerInit => DataTyped /\ Accounted
  <2> SUFFICES ASSUME ListenerInit PROVE DataTyped /\ Accounted
    OBVIOUS
  <2>1. DataTyped
    BY CursorsMade, CursorsOrdered
       DEF ListenerInit, DataTyped, ListenerTypeOK, NotCatchingUp, NoHead, NoCursor, AtOrBefore
  <2>2. Accounted
    BY DEF ListenerInit, Accounted, WiresOfSockets, PassedAccounted, LiveAccounted, Due
  <2> QED
    BY <2>1, <2>2
<1>2. ASSUME TypeOK, OnlyInv, DataTyped, Accounted, [ListenerNext]_listenerVars
      PROVE  DataTyped' /\ Accounted'
  <2>1. DataTyped'
    <3>1. CASE UNCHANGED listenerVars
      BY <1>2, <3>1 DEF listenerVars, dataVars, chainVars, wireVars, cursorVars, humanVars,
         DataTyped, ListenerTypeOK
    <3> QED
      BY <1>2, <3>1, DataTypedInductive
  <2> QED
    BY <1>2, <2>1, AccountedInductive DEF OnlyInv
<1> QED
  BY <1>1, <1>2, SocketsAsModelled, ConnectionTyped, OnlyInvariant, PTL DEF ListenerSpec

\* While close events come before the reconnect timer, the cursor passes over no
\* registration that is not at risk (realtime.ts:192, :221).
THEOREM NothingIsPassedOver ==
    ASSUME LateClose = FALSE PROVE ListenerSpec => []NothingPassedOver
<1>1. Accounted => NothingPassedOver
  BY DEF Accounted, PassedAccounted, NothingPassedOver, Owed, Due, Base
<1> QED
  BY <1>1, ListenerInvariant, PTL
=============================================================================
