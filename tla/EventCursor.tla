----------------------------- MODULE EventCursor -----------------------------
(***************************************************************************)
(* Cursors of the affiliate registry's event log, and the reads of that    *)
(* log that both the websocket listener and the startup replay make        *)
(* (src/src/apps/group-affiliates/realtime.ts).                            *)
(*                                                                         *)
(* A log has the position <<block, transaction index, log index>>.  Log    *)
(* indices are unique within a block and ordered as the transactions are,  *)
(* so the model keeps one index per block.                                 *)
(***************************************************************************)
EXTENDS Integers

CONSTANT LastIndex   \* Number.MAX_SAFE_INTEGER: above the index of every log

ASSUME LastIndexAssumption == LastIndex \in Nat \ {0}

Cursor == [block : Int, index : Int]

\* "No cursor yet" (null).  It precedes every event, which is all that
\* filterEventsAfterCursor and maxCursor make of a null cursor.
NoCursor == [block |-> -1, index |-> -1]

\* The position of a log: a block of the chain, an index within it.
EventPosition == [block : Nat, index : 0 .. LastIndex - 1]

Before(a, b) == \/ a.block < b.block
                \/ a.block = b.block /\ a.index < b.index

AtOrBefore(a, b) == a = b \/ Before(a, b)

\* The later of two cursors.
MaxCursor(a, b) == IF AtOrBefore(b, a) THEN a ELSE b

\* After every log of the block.
HeadCursor(block) == [block |-> block, index |-> LastIndex]

\* Before every log of the block, after every log of the block before it.
InclusiveBlockCursor(block) == [block |-> block, index |-> -1]

\* The events after a cursor.  A batch is a set: the cursors order it, and two
\* copies of one log are one element (dedupeAndSortEvents).
After(events, c) == {e \in events : Before(c, e.cursor)}

\* e is the event a sorted batch ends with.
IsLast(e, events) == e \in events /\ \A f \in events : AtOrBefore(f.cursor, e.cursor)

LastOf(events) == CHOOSE e \in events : IsLast(e, events)

\* The logs of blocks from .. to that come after a cursor (eth_getLogs, chunk
\* by chunk, on a range whose blocks are all mined).
EventsBetween(log, from, to, afterCursor) ==
    {e \in After(log, afterCursor) : e.cursor.block \in from .. to}
=============================================================================
