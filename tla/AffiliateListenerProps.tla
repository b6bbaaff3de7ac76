----------------------- MODULE AffiliateListenerProps ------------------------
(***************************************************************************)
(* What the listener's data path guarantees.                               *)
(***************************************************************************)
EXTENDS AffiliateListener

\* lastSeenCursor covers nothing that onEvents has not processed: a catch-up
\* that starts from it cannot skip a log (realtime.ts, deliverEvents and
\* runCatchUp).  Holds while the environment has no hazard.
CursorCoversProcessed ==
    \A e \in After(log, StartCursor) :
        AtOrBefore(e.cursor, lastSeen) => e \in processed

\* The listener implements the lossless, ordered feed: every settled batch
\* extends what was processed by the next logs of the chain, though batches of
\* the two paths overlap and are handed over twice.
Feed == INSTANCE EventFeed WITH cursor <- lastSeen
ImplementsFeed == Feed!Spec

\* Every log mined is processed in the end, across any number of lost
\* connections (realtime.ts, runCatchUp on every acknowledged subscription).
EveryLogProcessed ==
    \A b \in 1 .. MaxBlock :
        (head = b) ~> (\A e \in After(log, StartCursor) :
                            e.cursor.block = b => e \in processed)

\* lastSeenCursor never goes back, whichever path settles first and whatever
\* fails: no log that was acknowledged comes back as new (realtime.ts, maxCursor
\* in deliverEvents).
LastSeenNeverGoesBack == [][AtOrBefore(lastSeen, lastSeen')]_vars

\* At most one catch-up is under way, and the guard that makes a second one
\* wait (catchUpInFlight) is lifted exactly when its call has settled: it can
\* neither stay set for ever nor be lifted with the batch still queued.
OneCatchUpInFlight ==
    /\ (catchUp.phase = "delivering") <=>
            (\E i \in DOMAIN tasks : tasks[i].source = "catchUp")
    /\ \A i, j \in DOMAIN tasks :
            tasks[i].source = "catchUp" /\ tasks[j].source = "catchUp" => i = j

\* No batch of logs ends before what was processed or queued ahead of it: a log that is
\* handed over a second time comes with the logs that followed it.  The
\* executed batch is folded into the affiliate map, so an older batch after a
\* newer one would turn the map back (main.ts, enqueueExclusive; logic.ts:89).
BatchesEndInOrder ==
    \A i \in DOMAIN tasks : tasks[i].batch # {} => \E e \in tasks[i].batch :
        /\ AtOrBefore(lastSeen, e.cursor)
        /\ \A j \in 1 .. i - 1 : \A f \in tasks[j].batch : AtOrBefore(f.cursor, e.cursor)
=============================================================================
