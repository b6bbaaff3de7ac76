------------------------- MODULE ListenerConnection --------------------------
(***************************************************************************)
(* The sockets and the reconnect timer of                                  *)
(* startAffiliateGroupChangedListener                                      *)
(* (src/src/apps/group-affiliates/realtime.ts), which are those of         *)
(* startRegisterHumanListener (src/src/apps/router-tms/realtime.ts) too.   *)
(* The variable ws names the current socket, but the handlers of every     *)
(* socket ever opened stay registered, and they act on ws, not on their    *)
(* own socket.                                                             *)
(*                                                                         *)
(* A socket that was closed by the code tells so in an event of its own,   *)
(* later.  LateClose says whether that event may come after the reconnect  *)
(* timer (2 s at least): the close handshake waits for the node.           *)
(***************************************************************************)
EXTENDS Integers, FiniteSets

CONSTANTS Sockets,      \* sockets that may exist at a time; one that is gone is reused
          None,         \* ws is null
          DelaySteps,   \* doublings of the delay up to reconnectMaxMs
          LateClose

ASSUME ConnectionAssumption ==
    /\ IsFiniteSet(Sockets) /\ Sockets # {} /\ None \notin Sockets
    /\ DelaySteps \in Nat
    /\ LateClose \in BOOLEAN

VARIABLES
    socket,     \* gone, connecting, open (nothing asked for), requested, live, closing
    ws,         \* the current socket
    timer,      \* reconnectTimer is set
    attempt,    \* reconnectAttempt, up to DelaySteps
    flushTimer, \* flushTimer is set: logs are pending
    stopped,
    exited      \* the process ended: a handler threw (uncaughtException)

vars == <<socket, ws, timer, attempt, flushTimer, stopped, exited>>

Alive == {"connecting", "open", "requested", "live"}

TypeOK ==
    /\ socket \in [Sockets -> Alive \cup {"gone", "closing"}]
    /\ ws \in Sockets \cup {None}
    /\ timer \in BOOLEAN /\ flushTimer \in BOOLEAN
    /\ stopped \in BOOLEAN /\ exited \in BOOLEAN
    /\ attempt \in 0 .. DelaySteps

\* startAffiliateGroupChangedListener calls connect() at once.
Init ==
    /\ \E s \in Sockets : /\ socket = [x \in Sockets |-> IF x = s THEN "connecting" ELSE "gone"]
                          /\ ws = s
    /\ timer = FALSE /\ attempt = 0 /\ flushTimer = FALSE /\ stopped = FALSE /\ exited = FALSE

-----------------------------------------------------------------------------
\* closeSocket: the current socket, whichever it is.
Closed == IF ws = None THEN socket ELSE [socket EXCEPT ![ws] = "closing"]

\* Mutant: the guard is inverted.
ScheduleOnlyIfScheduled ==
    IF stopped \/ ~timer THEN UNCHANGED <<timer, attempt>>
    ELSE /\ timer' = TRUE
         /\ attempt' = IF attempt < DelaySteps THEN attempt + 1 ELSE attempt

\* Not when stopped, and one timer at a time.
ScheduleReconnect ==
    IF stopped \/ timer THEN UNCHANGED <<timer, attempt>>
    ELSE /\ timer' = TRUE
         /\ attempt' = IF attempt < DelaySteps THEN attempt + 1 ELSE attempt

\* Mutant: the timer is an interval.
TimerRepeats ==
    /\ timer
    /\ LateClose \/ \A s \in Sockets : socket[s] # "closing"
    /\ \E s \in Sockets :
        /\ Closed[s] = "gone"
        /\ socket' = [Closed EXCEPT ![s] = "connecting"]
        /\ ws' = s
    /\ UNCHANGED <<timer, attempt, flushTimer, stopped, exited>>

\* The timer: connect() closes the current socket and opens another.
TimerFires ==
    /\ timer
    /\ LateClose \/ \A s \in Sockets : socket[s] # "closing"
    /\ timer' = FALSE
    /\ IF stopped THEN UNCHANGED <<socket, ws>>
       ELSE \E s \in Sockets :
            /\ Closed[s] = "gone"
            /\ socket' = [Closed EXCEPT ![s] = "connecting"]
            /\ ws' = s
    /\ UNCHANGED <<attempt, flushTimer, stopped, exited>>

\* Mutant: the request is sent only on the first connection.
OpenedOnce(s) ==
    /\ socket[s] = "connecting"
    /\ attempt' = 0
    /\ socket' = [socket EXCEPT ![s] = IF s = ws /\ attempt = 0 THEN "requested" ELSE "open"]
    /\ UNCHANGED <<ws, timer, flushTimer, stopped, exited>>

\* "open": the request goes out on the current socket.  On one that is still
\* connecting, send throws and the process ends.
Opened(s) ==
    /\ socket[s] = "connecting"
    /\ attempt' = 0
    /\ socket' = [socket EXCEPT ![s] = IF s = ws THEN "requested" ELSE "open"]
    /\ exited' = (ws \notin {None, s} /\ socket[ws] = "connecting")
    /\ UNCHANGED <<ws, timer, flushTimer, stopped>>

\* "message" with id 1: the subscription is there.
Acknowledged(s) ==
    /\ socket[s] = "requested"
    /\ socket' = [socket EXCEPT ![s] = "live"]
    /\ UNCHANGED <<ws, timer, attempt, flushTimer, stopped, exited>>

\* "message" with logs: they become pending, and the debounce timer is set.
Payload(s) ==
    /\ socket[s] = "live"
    /\ flushTimer' = TRUE
    /\ UNCHANGED <<socket, ws, timer, attempt, stopped, exited>>

\* router-tms: what a catch-up brings becomes pending, even after stop().
CaughtUp ==
    /\ flushTimer' = TRUE
    /\ UNCHANGED <<socket, ws, timer, attempt, stopped, exited>>

\* The debounce timer: what is pending is handed over.
FlushFires ==
    /\ flushTimer
    /\ flushTimer' = FALSE
    /\ UNCHANGED <<socket, ws, timer, attempt, stopped, exited>>

\* Mutant: the reference is dropped, the socket is not closed.
RejectedUnclosed(s) ==
    /\ socket[s] = "requested"
    /\ UNCHANGED socket
    /\ ws' = None
    /\ ScheduleReconnect
    /\ UNCHANGED <<flushTimer, stopped, exited>>

\* ... or it was refused: the current socket is closed, which may be another.
Rejected(s) ==
    /\ socket[s] = "requested"
    /\ socket' = [Closed EXCEPT ![s] = IF s = ws THEN "closing" ELSE "open"]
    /\ ws' = None
    /\ ScheduleReconnect
    /\ UNCHANGED <<flushTimer, stopped, exited>>

\* "close": the connection failed or was lost, or the code closed it.
CloseEvent(s) ==
    /\ socket[s] # "gone"
    /\ socket' = [socket EXCEPT ![s] = "gone"]
    /\ ws' = None
    /\ ScheduleReconnect
    /\ UNCHANGED <<flushTimer, stopped, exited>>

\* stop(): what is pending stays there and is never handed over.
Stop ==
    /\ ~stopped
    /\ stopped' = TRUE /\ timer' = FALSE /\ flushTimer' = FALSE
    /\ socket' = Closed /\ ws' = None
    /\ UNCHANGED <<attempt, exited>>

\* The listener is stopped and every close event has come, or the process ended.
Ended ==
    /\ exited \/ (stopped /\ \A s \in Sockets : socket[s] \notin {"closing"})
    /\ UNCHANGED vars

-----------------------------------------------------------------------------
Next ==
    \/ /\ ~exited
       /\ \/ TimerFires \/ FlushFires \/ CaughtUp \/ Stop
          \/ \E s \in Sockets : \/ Opened(s) \/ Acknowledged(s) \/ Rejected(s)
                                \/ Payload(s) \/ CloseEvent(s)
    \/ Ended

\* The timer fires and a socket that was closed says so.  A handshake that is
\* possible again and again completes some time.
Fairness ==
    /\ WF_vars(~exited /\ TimerFires)
    /\ \A s \in Sockets :
        /\ WF_vars(~exited /\ socket[s] = "closing" /\ CloseEvent(s))
        /\ SF_vars(~exited /\ Opened(s)) /\ SF_vars(~exited /\ Acknowledged(s))

Spec == Init /\ [][Next]_vars
FairSpec == Spec /\ Fairness

-----------------------------------------------------------------------------
(* Properties. *)

\* There is no socket but the current one: none delivers logs twice, none
\* outlives stop().  Only while close events are not late: a late one sets ws
\* to null under the next socket, which connect() then cannot close
\* (realtime.ts:305).
CurrentSocketOnly == \A s \in Sockets : socket[s] \in Alive => s = ws

\* While close events are not late no handler throws (realtime.ts:264).
NeverExits == ~exited

\* A listener that was not stopped has a socket that will say how it ends, or a
\* timer, whichever sockets' events come late (realtime.ts, scheduleReconnect's
\* early return).
NeverStranded == stopped \/ exited \/ timer \/ (ws # None /\ socket[ws] \in Alive)

\* connect() finds no socket to close: whoever sets the timer has dropped it.
ReconnectsWithoutSocket == timer => ws = None

\* After stop() no timer is set and no socket is opened, whatever events come.
StopIsFinal ==
    [][stopped => /\ stopped' /\ ~timer' /\ ws' = None
                  /\ \A s \in Sockets : socket[s] = "gone" => socket'[s] = "gone"]_vars

\* The listener is subscribed again and again, until it is stopped.
SubscribedAgain == []<>(stopped \/ (ws # None /\ socket[ws] = "live"))
=============================================================================
