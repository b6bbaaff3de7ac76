------------------------------ MODULE EventFeed ------------------------------
(***************************************************************************)
(* What a consumer of the registry's log needs: the log grows at its end,  *)
(* and the consumer takes it in order and leaves nothing out.  The cursor  *)
(* is a promise: everything up to it has been processed, so a consumer     *)
(* that starts again from the cursor misses nothing.                       *)
(***************************************************************************)
EXTENDS EventCursor

CONSTANT StartCursor

VARIABLES log, cursor, processed

vars == <<log, cursor, processed>>

Init ==
    /\ log = {} /\ processed = {}
    /\ cursor = StartCursor

Grow ==
    /\ log \subseteq log'
    /\ \A e \in log, f \in log' \ log : Before(e.cursor, f.cursor)
    /\ UNCHANGED <<cursor, processed>>

Consume ==
    /\ \E last \in log :
        /\ Before(cursor, last.cursor)
        /\ cursor' = last.cursor
        /\ processed' = {e \in After(log, StartCursor) : AtOrBefore(e.cursor, last.cursor)}
    /\ UNCHANGED log

Next == Grow \/ Consume

Spec == Init /\ [][Next]_vars
=============================================================================
