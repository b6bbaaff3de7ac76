--------------------- MODULE GroupAffiliatesProofs -------------------------
(***************************************************************************)
(* The group-affiliates listener and worker, for any number of blocks, of  *)
(* logs in a block, of humans and of groups.                               *)
(*                                                                         *)
(* The listener by itself: types, the bookkeeping of catch-ups, that no    *)
(* log is lost, that it implements the feed, the order of batches.  The    *)
(* data: what folding a batch does to the map, what a plan asks for.  The  *)
(* worker: it does to its listener what the listener does by itself, or    *)
(* one of four other things; then order again, what the saved cursor       *)
(* covers, that trust follows the map, that the map is the registry's, and *)
(* that nobody is trusted in two groups.                                   *)
(***************************************************************************)
EXTENDS GroupAffiliatesProps, AffiliateListenerProps, DataLemmas, SequenceTheorems, TLAPS

\* Cursors are totally ordered.
LEMMA CursorOrder ==
    ASSUME NEW a \in Cursor, NEW b \in Cursor, NEW c \in Cursor
    PROVE  /\ AtOrBefore(a, a)
           /\ AtOrBefore(a, b) \/ Before(b, a)
           /\ Before(a, b) => ~AtOrBefore(b, a)
           /\ AtOrBefore(a, b) /\ AtOrBefore(b, a) => a = b
           /\ AtOrBefore(a, b) /\ AtOrBefore(b, c) => AtOrBefore(a, c)
           /\ AtOrBefore(a, b) /\ Before(b, c) => Before(a, c)
           /\ AtOrBefore(a, b) => a.block <= b.block
           /\ a.block < b.block => Before(a, b)
BY DEF Cursor, AtOrBefore, Before

\* maxCursor is the later of its arguments.
LEMMA MaxCursorLater ==
    ASSUME NEW a \in Cursor, NEW b \in Cursor
    PROVE  /\ MaxCursor(a, b) \in Cursor
           /\ AtOrBefore(a, MaxCursor(a, b)) /\ AtOrBefore(b, MaxCursor(a, b))
           /\ MaxCursor(a, b) \in {a, b}
<1>1. AtOrBefore(a, a) /\ AtOrBefore(b, b)
  BY DEF AtOrBefore
<1>2. AtOrBefore(b, a) \/ AtOrBefore(a, b)
  BY DEF AtOrBefore, Before, Cursor
<1>3. QED
  BY <1>1, <1>2 DEF MaxCursor

\* The cursors the listener makes up.
LEMMA MadeCursors ==
    /\ NoCursor \in Cursor
    /\ \A b \in Nat : HeadCursor(b) \in Cursor /\ Before(NoCursor, HeadCursor(b))
    /\ \A e \in Event : e.cursor \in Cursor /\ e.cursor.block \in Nat
BY LastIndexAssumption DEF NoCursor, HeadCursor, Cursor, Before, Event, EventPosition

\* The logs of a new block are events, and its index tells them apart.
LEMMA NewLogs ==
    ASSUME head \in Nat, NEW n \in 0 .. MaxLogsPerBlock,
           NEW changes \in [0 .. n - 1 -> Changes]
    PROVE  LET new == LogsOfBlock(head + 1, changes)
           IN  /\ new \subseteq Event
               /\ \A e \in new : e.cursor.block = head + 1
               /\ \A e, f \in new : e.cursor = f.cursor => e = f
<1> DEFINE new == LogsOfBlock(head + 1, changes)
<1>1. ASSUME NEW e \in new
      PROVE  \E i \in 0 .. n - 1 : e = [cursor |-> [block |-> head + 1, index |-> i],
                                         change |-> changes[i]]
  BY <1>1 DEF LogsOfBlock
<1>2. \A i \in 0 .. n - 1 : i \in 0 .. LastIndex - 1 /\ changes[i] \in Changes
  BY ListenerAssumption, LastIndexAssumption
<1>3. new \subseteq Event
  <2> SUFFICES ASSUME NEW e \in new PROVE e \in Event
    OBVIOUS
  <2>1. PICK i \in 0 .. n - 1 : e = [cursor |-> [block |-> head + 1, index |-> i],
                                      change |-> changes[i]]
    BY <1>1
  <2>2. [block |-> head + 1, index |-> i] \in EventPosition
    BY <1>2 DEF EventPosition
  <2>3. QED
    BY <1>2, <2>1, <2>2 DEF Event
<1>4. \A e \in new : e.cursor.block = head + 1
  BY <1>1
<1>5. \A e, f \in new : e.cursor = f.cursor => e = f
  <2> SUFFICES ASSUME NEW e \in new, NEW f \in new, e.cursor = f.cursor PROVE e = f
    OBVIOUS
  <2>1. PICK i \in 0 .. n - 1 : e = [cursor |-> [block |-> head + 1, index |-> i],
                                      change |-> changes[i]]
    BY <1>1
  <2>2. PICK j \in 0 .. n - 1 : f = [cursor |-> [block |-> head + 1, index |-> j],
                                      change |-> changes[j]]
    BY <1>1
  <2>3. i = j
    BY <2>1, <2>2
  <2>4. QED
    BY <2>1, <2>2, <2>3
<1>6. QED
  BY <1>3, <1>4, <1>5

-----------------------------------------------------------------------------
(* Types, and the bookkeeping of the catch-up in flight. *)

Inv == TypeOK /\ OneCatchUpInFlight

LEMMA IdleTyped == Idle \in [phase : {"idle", "head", "fetching", "delivering"},
                             from : Cursor, to : {NoHead} \cup 0 .. MaxBlock]
BY MadeCursors DEF Idle

LEMMA InitInv == Init => Inv
<1> SUFFICES ASSUME Init PROVE Inv
  OBVIOUS
<1>1. tasks = <<>> /\ DOMAIN tasks = {} /\ catchUp.phase = "idle"
  BY DEF Init, Idle
<1>2. QED
  BY <1>1, IdleTyped, ListenerAssumption DEF Init, Inv, TypeOK, OneCatchUpInFlight

\* The logs of the queued live batches.
FromLive(e) == \E i \in DOMAIN tasks : tasks[i].source = "live" /\ e \in tasks[i].batch

LEMMA QueuedTyped ==
    Inv => /\ \A e : FromLive(e) => e \in log
           /\ \A i \in DOMAIN tasks : tasks[i].batch \subseteq log
           /\ \A i \in DOMAIN tasks : tasks[i].source \in {"live", "catchUp", "reconcile"}
           /\ tasks \in Seq(Task) /\ DOMAIN tasks = 1 .. Len(tasks) /\ Len(tasks) \in Nat
           /\ pending \subseteq log /\ wire \subseteq log /\ log \subseteq Event
           /\ lastSeen \in Cursor /\ head \in Nat
<1> SUFFICES ASSUME Inv
             PROVE  /\ \A i \in DOMAIN tasks : tasks[i].source \in {"live", "catchUp", "reconcile"}
                    /\ DOMAIN tasks = 1 .. Len(tasks) /\ Len(tasks) \in Nat
  BY ListenerAssumption DEF Inv, TypeOK, FromLive
<1>1. tasks \in Seq(Task)
  BY DEF Inv, TypeOK
<1>2. DOMAIN tasks = 1 .. Len(tasks) /\ Len(tasks) \in Nat
  BY <1>1
<1>3. \A i \in DOMAIN tasks : tasks[i] \in Task
  BY <1>1, <1>2
<1> QED
  BY <1>2, <1>3 DEF Task

\* The first task leaves the queue.
LEMMA FirstLeaves ==
    ASSUME Inv, tasks # <<>>, tasks' = Tail(tasks)
    PROVE  /\ Head(tasks) = tasks[1] /\ 1 \in DOMAIN tasks
           /\ DOMAIN tasks' = 1 .. Len(tasks) - 1
           /\ \A i \in DOMAIN tasks' : i + 1 \in DOMAIN tasks /\ tasks'[i] = tasks[i + 1]
           /\ \A e : FromLive(e)' => FromLive(e)
<1>1. /\ Head(tasks) = tasks[1] /\ 1 \in DOMAIN tasks
      /\ DOMAIN tasks' = 1 .. Len(tasks) - 1
      /\ \A i \in DOMAIN tasks' : i + 1 \in DOMAIN tasks /\ tasks'[i] = tasks[i + 1]
  BY QueuedTyped, HeadTailProperties, EmptySeq
<1> QED
  BY <1>1 DEF FromLive

\* Another task is queued.
LEMMA AnotherQueued ==
    ASSUME Inv, NEW task \in Task, tasks' = Append(tasks, task)
    PROVE  /\ DOMAIN tasks' = 1 .. Len(tasks) + 1
           /\ \A i \in DOMAIN tasks : i \in DOMAIN tasks' /\ tasks'[i] = tasks[i]
           /\ tasks'[Len(tasks) + 1] = task
           /\ \A e : FromLive(e)' => FromLive(e) \/ (task.source = "live" /\ e \in task.batch)
<1>1. /\ DOMAIN tasks' = 1 .. Len(tasks) + 1
      /\ \A i \in DOMAIN tasks : i \in DOMAIN tasks' /\ tasks'[i] = tasks[i]
      /\ tasks'[Len(tasks) + 1] = task
  BY QueuedTyped
<1>2. \A i \in DOMAIN tasks' : i \in DOMAIN tasks \/ i = Len(tasks) + 1
  BY <1>1, QueuedTyped
<1> QED
  BY <1>1, <1>2 DEF FromLive

\* The queue without its first task: a catch-up is over with its own batch.
LEMMA TrackedWhenFirstLeaves ==
    ASSUME Inv, tasks # <<>>, tasks' = Tail(tasks),
           catchUp' = IF Head(tasks).source = "catchUp" THEN Idle ELSE catchUp
    PROVE  OneCatchUpInFlight'
<1> USE DEF Inv
<1>0. /\ Head(tasks) = tasks[1] /\ Len(tasks) \in Nat /\ Len(tasks) >= 1
      /\ DOMAIN tasks = 1 .. Len(tasks) /\ DOMAIN tasks' = 1 .. Len(tasks) - 1
      /\ \A i \in DOMAIN tasks' : i + 1 \in DOMAIN tasks /\ tasks'[i] = tasks[i + 1]
  BY FirstLeaves, QueuedTyped
<1>1. CASE Head(tasks).source = "catchUp"
  <2>1. \A i \in DOMAIN tasks' : tasks'[i].source # "catchUp"
    <3> SUFFICES ASSUME NEW i \in DOMAIN tasks', tasks'[i].source = "catchUp" PROVE FALSE
      OBVIOUS
    <3>1. i + 1 \in DOMAIN tasks /\ tasks[i + 1].source = "catchUp"
          /\ 1 \in DOMAIN tasks /\ tasks[1].source = "catchUp"
      BY <1>0, <1>1
    <3>2. i + 1 = 1
      BY <3>1 DEF OneCatchUpInFlight
    <3>3. QED
      BY <1>0, <3>2
  <2>2. catchUp'.phase = "idle"
    BY <1>0, <1>1 DEF Idle
  <2>3. QED
    BY <1>0, <2>1, <2>2 DEF OneCatchUpInFlight
<1>2. CASE Head(tasks).source # "catchUp"
  <2>1. \A i \in 1 .. Len(tasks) : tasks[i].source = "catchUp" =>
            i # 1 /\ i - 1 \in DOMAIN tasks' /\ tasks'[i - 1] = tasks[i]
    BY <1>0, <1>2
  <2>2. catchUp' = catchUp
    BY <1>0, <1>2
  <2>3. (\E i \in DOMAIN tasks : tasks[i].source = "catchUp") <=>
            (\E i \in DOMAIN tasks' : tasks'[i].source = "catchUp")
    <3>1. ASSUME NEW i \in DOMAIN tasks, tasks[i].source = "catchUp"
          PROVE  \E j \in DOMAIN tasks' : tasks'[j].source = "catchUp"
      BY <2>1, <3>1, <1>0
    <3>2. ASSUME NEW i \in DOMAIN tasks', tasks'[i].source = "catchUp"
          PROVE  \E j \in DOMAIN tasks : tasks[j].source = "catchUp"
      BY <1>0, <3>2
    <3>3. QED
      BY <3>1, <3>2
  <2>4. \A i, j \in DOMAIN tasks' :
            tasks'[i].source = "catchUp" /\ tasks'[j].source = "catchUp" => i = j
    <3> SUFFICES ASSUME NEW i \in DOMAIN tasks', NEW j \in DOMAIN tasks',
                        tasks'[i].source = "catchUp", tasks'[j].source = "catchUp"
                 PROVE  i = j
      OBVIOUS
    <3>1. i + 1 \in DOMAIN tasks /\ j + 1 \in DOMAIN tasks
          /\ tasks[i + 1] = tasks'[i] /\ tasks[j + 1] = tasks'[j]
      BY <1>0
    <3>2. i + 1 = j + 1
      BY <3>1 DEF OneCatchUpInFlight
    <3>3. QED
      BY <1>0, <3>2
  <2>5. QED
    BY <2>2, <2>3, <2>4 DEF OneCatchUpInFlight
<1> QED
  BY <1>1, <1>2

\* The queue with another task that is no catch-up's.
LEMMA TrackedWhenQueued ==
    ASSUME Inv, NEW task \in Task, task.source # "catchUp", tasks' = Append(tasks, task),
           catchUp' = catchUp
    PROVE  OneCatchUpInFlight'
<1>1. /\ DOMAIN tasks' = 1 .. Len(tasks) + 1 /\ DOMAIN tasks = 1 .. Len(tasks)
      /\ Len(tasks) \in Nat
      /\ \A i \in DOMAIN tasks : tasks'[i] = tasks[i]
      /\ tasks'[Len(tasks) + 1].source # "catchUp"
  BY AnotherQueued, QueuedTyped
<1>2. \A i \in DOMAIN tasks' : tasks'[i].source = "catchUp" =>
          i \in DOMAIN tasks /\ tasks[i].source = "catchUp"
  BY <1>1
<1> QED
  BY <1>1, <1>2 DEF OneCatchUpInFlight, Inv

\* Where catchUp goes once its head is known.
LEMMA CatchUpFromTyped ==
    ASSUME Inv, NEW to \in 0 .. MaxBlock, CatchUpFrom(to)
    PROVE  /\ lastSeen' \in Cursor /\ AtOrBefore(lastSeen, lastSeen')
           /\ catchUp' \in [phase : {"idle", "fetching"}, from : Cursor,
                            to : {NoHead} \cup 0 .. MaxBlock]
<1>1. to \in Nat /\ lastSeen \in Cursor
  BY ListenerAssumption DEF Inv, TypeOK
<1>2. CASE lastSeen = NoCursor
  BY <1>1, <1>2, MadeCursors DEF CatchUpFrom, AtOrBefore, Idle
<1>3. CASE lastSeen # NoCursor
  BY <1>1, <1>3, MadeCursors DEF CatchUpFrom, AtOrBefore, Idle
<1>4. QED
  BY <1>2, <1>3

\* What deliverEvents appends.
LEMMA DeliverTyped ==
    ASSUME Inv, NEW source \in {"live", "catchUp"}, NEW events \in SUBSET log,
           Deliver(source, events)
    PROVE  LET fresh == After(events, lastSeen)
               task  == [source |-> source, batch |-> fresh]
           IN  /\ fresh \subseteq log
               /\ task \in Task
               /\ tasks' = IF fresh = {} THEN tasks ELSE Append(tasks, task)
               /\ tasks' \in Seq(Task)
               /\ \A i \in DOMAIN tasks' : tasks'[i].batch \subseteq log
<1> DEFINE fresh == After(events, lastSeen)
           task  == [source |-> source, batch |-> fresh]
<1>1. fresh \subseteq log /\ log \subseteq Event
  BY DEF After, Inv, TypeOK
<1>2. task \in Task
  BY <1>1 DEF Task
<1>3. tasks' = IF fresh = {} THEN tasks ELSE Append(tasks, task)
  BY DEF Deliver
<1>4. tasks \in Seq(Task) /\ \A i \in DOMAIN tasks : tasks[i].batch \subseteq log
  BY DEF Inv, TypeOK
<1>5. QED
  BY <1>1, <1>2, <1>3, <1>4, AppendProperties

\* A step keeps the types, the bookkeeping and the direction of the cursor.
LEMMA NextInv == Inv /\ [Next]_vars => Inv' /\ AtOrBefore(lastSeen, lastSeen')
<1> SUFFICES ASSUME Inv, [Next]_vars
             PROVE  Inv' /\ AtOrBefore(lastSeen, lastSeen')
  OBVIOUS
<1> USE DEF Inv
<1>0. lastSeen \in Cursor /\ AtOrBefore(lastSeen, lastSeen) /\ head \in Nat
  BY CursorOrder, ListenerAssumption DEF TypeOK
<1>1. CASE Mine
  <2>1. PICK n \in 0 .. MaxLogsPerBlock : \E changes \in [0 .. n - 1 -> Changes] :
            MineBlock(LogsOfBlock(head + 1, changes))
    BY <1>1 DEF Mine
  <2>2. PICK changes \in [0 .. n - 1 -> Changes] : MineBlock(LogsOfBlock(head + 1, changes))
    BY <2>1
  <2>3. LogsOfBlock(head + 1, changes) \subseteq Event
    BY <1>0, NewLogs
  <2>4. head' \in 0 .. MaxBlock
    BY <2>2, ListenerAssumption DEF MineBlock, TypeOK
  <2>5. QED
    BY <1>0, <2>2, <2>3, <2>4 DEF MineBlock, TypeOK, OneCatchUpInFlight, listenerVars
<1>2. CASE Connect
  BY <1>0, <1>2 DEF Connect, TypeOK, OneCatchUpInFlight, listenerVars, chainVars
<1>3. CASE HeadFetched
  BY <1>0, <1>3 DEF HeadFetched, TypeOK, OneCatchUpInFlight, listenerVars, chainVars
<1>4. CASE Subscribe
  BY <1>0, <1>4 DEF Subscribe, TypeOK, OneCatchUpInFlight, listenerVars, chainVars
<1>5. CASE Disconnect
  BY <1>0, <1>5 DEF Disconnect, TypeOK, OneCatchUpInFlight, listenerVars, chainVars
<1>6. CASE SubscriptionAcknowledged
  <2>1. UNCHANGED <<chainVars, startedHead, wire, pending, tasks, processed>> /\ conn' = "live"
    BY <1>6 DEF SubscriptionAcknowledged
  <2>2. CASE catchUp # Idle /\ UNCHANGED <<lastSeen, catchUp>>
    BY <1>0, <2>1, <2>2 DEF TypeOK, OneCatchUpInFlight, chainVars
  <2>3. CASE catchUp = Idle /\ startedHead # NoHead /\ CatchUpFrom(startedHead)
    <3>1. startedHead \in 0 .. MaxBlock
      BY <2>3 DEF TypeOK
    <3>2. /\ lastSeen' \in Cursor /\ AtOrBefore(lastSeen, lastSeen')
          /\ catchUp' \in [phase : {"idle", "fetching"}, from : Cursor,
                            to : {NoHead} \cup 0 .. MaxBlock]
      BY <2>3, <3>1, CatchUpFromTyped
    <3>3. catchUp.phase # "delivering" /\ catchUp'.phase # "delivering"
      BY <2>3, <3>2 DEF Idle
    <3>4. QED
      BY <2>1, <3>2, <3>3 DEF TypeOK, OneCatchUpInFlight, chainVars
  <2>4. CASE catchUp = Idle /\ catchUp' = [Idle EXCEPT !.phase = "head"] /\ UNCHANGED lastSeen
    <3>1. catchUp.phase # "delivering" /\ catchUp'.phase = "head"
      BY <2>4 DEF Idle
    <3>2. catchUp' \in [phase : {"idle", "head", "fetching", "delivering"},
                        from : Cursor, to : {NoHead} \cup 0 .. MaxBlock]
      BY <2>4, IdleTyped
    <3>3. QED
      BY <1>0, <2>1, <2>4, <3>1, <3>2 DEF TypeOK, OneCatchUpInFlight, chainVars
  <2>5. QED
    BY <1>6, <2>2, <2>3, <2>4 DEF SubscriptionAcknowledged
<1>7. CASE Receive
  BY <1>0, <1>7 DEF Receive, TypeOK, OneCatchUpInFlight, chainVars
<1>8. CASE Flush
  <2>1. /\ Deliver("live", pending) /\ pending \in SUBSET log /\ pending' = {}
        /\ UNCHANGED <<chainVars, socketVars, lastSeen, catchUp, processed>>
    BY <1>8 DEF Flush, TypeOK
  <2>2. /\ tasks' \in Seq(Task) /\ \A i \in DOMAIN tasks' : tasks'[i].batch \subseteq log
        /\ \/ tasks' = tasks
           \/ \E task \in Task : task.source = "live" /\ tasks' = Append(tasks, task)
    BY <2>1, DeliverTyped
  <2>4. OneCatchUpInFlight'
    BY <2>1, <2>2, TrackedWhenQueued DEF OneCatchUpInFlight
  <2>5. QED
    BY <1>0, <2>1, <2>2, <2>4 DEF TypeOK, chainVars, socketVars
<1>9. CASE CatchUpHead
  <2>1. /\ catchUp.phase = "head" /\ CatchUpFrom(head)
        /\ UNCHANGED <<chainVars, socketVars, pending, tasks, processed>>
        /\ head \in 0 .. MaxBlock
    BY <1>9 DEF CatchUpHead, TypeOK
  <2>2. /\ lastSeen' \in Cursor /\ AtOrBefore(lastSeen, lastSeen')
        /\ catchUp' \in [phase : {"idle", "fetching"}, from : Cursor,
                          to : {NoHead} \cup 0 .. MaxBlock]
    BY <2>1, CatchUpFromTyped
  <2>3. QED
    BY <2>1, <2>2 DEF TypeOK, OneCatchUpInFlight, chainVars, socketVars
<1>10. CASE CatchUpFetched
  <2> DEFINE events == EventsBetween(log, catchUp.from.block, catchUp.to, catchUp.from)
             fresh  == After(events, lastSeen)
             task   == [source |-> "catchUp", batch |-> fresh]
  <2>1. /\ catchUp.phase = "fetching" /\ Deliver("catchUp", events)
        /\ catchUp' = IF fresh = {} THEN Idle ELSE [catchUp EXCEPT !.phase = "delivering"]
        /\ UNCHANGED <<chainVars, socketVars, lastSeen, pending, processed>>
    BY <1>10 DEF CatchUpFetched
  <2>2. events \in SUBSET log
    BY DEF EventsBetween, After
  <2>3. /\ tasks' = IF fresh = {} THEN tasks ELSE Append(tasks, task)
        /\ tasks' \in Seq(Task) /\ \A i \in DOMAIN tasks' : tasks'[i].batch \subseteq log
    BY <2>1, <2>2, DeliverTyped
  <2>4. catchUp' \in [phase : {"idle", "head", "fetching", "delivering"},
                      from : Cursor, to : {NoHead} \cup 0 .. MaxBlock]
    BY <2>1, IdleTyped DEF TypeOK
  <2>5. OneCatchUpInFlight'
    <3>1. CASE fresh = {}
      BY <2>1, <2>3, <3>1 DEF OneCatchUpInFlight, Idle
    <3>2. CASE fresh # {}
      <4>1. tasks \in Seq(Task) /\ tasks' = Append(tasks, task) /\ catchUp'.phase = "delivering"
        BY <2>1, <2>3, <3>2 DEF TypeOK
      <4>2. /\ DOMAIN tasks' = 1 .. Len(tasks) + 1 /\ DOMAIN tasks = 1 .. Len(tasks)
            /\ Len(tasks) \in Nat
            /\ \A i \in 1 .. Len(tasks) : tasks'[i] = tasks[i]
            /\ tasks'[Len(tasks) + 1].source = "catchUp"
        BY <4>1
      <4>3. \A i \in DOMAIN tasks : tasks[i].source # "catchUp"
        BY <2>1 DEF OneCatchUpInFlight
      <4>4. QED
        BY <4>1, <4>2, <4>3 DEF OneCatchUpInFlight
    <3>3. QED
      BY <3>1, <3>2
  <2>6. QED
    BY <1>0, <2>1, <2>3, <2>4, <2>5 DEF TypeOK, chainVars, socketVars
<1>11. CASE CatchUpFails
  <2>1. catchUp.phase # "delivering" /\ catchUp'.phase # "delivering"
    BY <1>11 DEF CatchUpFails, Idle
  <2>2. QED
    BY <1>0, <1>11, <2>1, IdleTyped
    DEF CatchUpFails, TypeOK, OneCatchUpInFlight, chainVars, socketVars
<1>12. ASSUME NEW succeeded \in BOOLEAN, Settle(succeeded)
       PROVE  Inv' /\ AtOrBefore(lastSeen, lastSeen')
  <2>1. /\ tasks # <<>> /\ tasks \in Seq(Task) /\ tasks' = Tail(tasks)
        /\ UNCHANGED <<chainVars, socketVars, pending>>
        /\ catchUp' = IF Head(tasks).source = "catchUp" THEN Idle ELSE catchUp
    BY <1>12 DEF Settle, TypeOK
  <2>2. /\ Head(tasks) = tasks[1] /\ Len(tasks) \in Nat /\ Len(tasks) >= 1
        /\ DOMAIN tasks = 1 .. Len(tasks) /\ DOMAIN tasks' = 1 .. Len(tasks) - 1
        /\ tasks' \in Seq(Task)
        /\ \A i \in DOMAIN tasks' : i + 1 \in DOMAIN tasks /\ tasks'[i] = tasks[i + 1]
    BY <2>1, HeadTailProperties, EmptySeq
  <2>3. Head(tasks).batch \subseteq log /\ log \subseteq Event
    BY <2>2 DEF TypeOK
  <2>4. lastSeen' \in Cursor /\ AtOrBefore(lastSeen, lastSeen') /\ processed' \subseteq log
    <3>1. CASE succeeded
      <4>1. Advance(Head(tasks).batch) /\ processed' = processed \cup Head(tasks).batch
        BY <1>12, <3>1 DEF Settle
      <4>2. PICK last \in Head(tasks).batch : lastSeen' = MaxCursor(lastSeen, last.cursor)
        BY <4>1 DEF Advance
      <4>3. last.cursor \in Cursor
        BY <2>3, MadeCursors
      <4>4. QED
        BY <1>0, <2>3, <4>1, <4>2, <4>3, MaxCursorLater DEF TypeOK
    <3>2. CASE ~succeeded
      BY <1>0, <1>12, <3>2 DEF Settle, TypeOK
    <3>3. QED
      BY <3>1, <3>2
  <2>5. catchUp' \in [phase : {"idle", "head", "fetching", "delivering"},
                      from : Cursor, to : {NoHead} \cup 0 .. MaxBlock]
    BY <2>1, IdleTyped DEF TypeOK
  <2>6. OneCatchUpInFlight'
    BY <2>1, TrackedWhenFirstLeaves
  <2>7. \A i \in DOMAIN tasks' : tasks'[i].batch \subseteq log
    <3> SUFFICES ASSUME NEW i \in DOMAIN tasks' PROVE tasks'[i].batch \subseteq log
      OBVIOUS
    <3>1. i + 1 \in DOMAIN tasks /\ tasks'[i] = tasks[i + 1]
      BY <2>2
    <3>2. QED
      BY <3>1 DEF TypeOK
  <2>8. QED
    BY <2>1, <2>2, <2>4, <2>5, <2>6, <2>7 DEF TypeOK, chainVars, socketVars
<1>13. CASE UNCHANGED vars
  BY <1>0, <1>13 DEF vars, chainVars, socketVars, listenerVars, TypeOK, OneCatchUpInFlight
<1>14. QED
  BY <1>1, <1>2, <1>3, <1>4, <1>5, <1>6, <1>7, <1>8, <1>9, <1>10, <1>11, <1>12, <1>13 DEF Next, CatchUpRequest

\* The listener's state has its type, under every hazard.
THEOREM ListenerTyped == Spec => []TypeOK
<1>1. Inv => TypeOK
  BY DEF Inv
<1>2. QED
  BY <1>1, InitInv, NextInv, PTL DEF Spec

\* catchUpInFlight is set exactly while a run is under way, whatever fails: no
\* reconnection is kept from catching up by a run that has ended.
THEOREM CatchUpBookkeeping == Spec => []OneCatchUpInFlight
<1>1. Inv => OneCatchUpInFlight
  BY DEF Inv
<1>2. QED
  BY <1>1, InitInv, NextInv, PTL DEF Spec

\* lastSeenCursor never goes back, under every hazard.
THEOREM CursorMonotone == Spec => LastSeenNeverGoesBack
<1>1. Inv /\ [Next]_vars => [AtOrBefore(lastSeen, lastSeen')]_vars
  BY NextInv
<1>2. QED
  BY <1>1, InitInv, NextInv, PTL DEF Spec, LastSeenNeverGoesBack

-----------------------------------------------------------------------------
(***************************************************************************)
(* With a reliable environment the listener loses no log, for any number   *)
(* of blocks, logs and lost connections: its cursor covers only what has   *)
(* been processed.                                                         *)
(*                                                                         *)
(* The argument accounts for every log while the connection is live: a log *)
(* that has not been processed is queued, pending, on the wire, or in the  *)
(* range that the catch-up in flight is going to read.  When the           *)
(* connection is lost the wire is dropped; what has gone further then      *)
(* keeps a weaker account, without gaps: everything before a pending log,  *)
(* or before a log of a queued batch, is pending, queued ahead or          *)
(* processed.  So when a batch is done, so is everything up to its last    *)
(* cursor, and the next catch-up, which starts there, reads the rest.      *)
(***************************************************************************)
\* Batches may overlap; nothing else goes wrong.
Reliable == /\ Hazards \subseteq {"flushWhileDelivering", "reconnectBeforeFlush"}
            /\ StartCursor # NoCursor

Relevant == After(log, StartCursor)

\* The logs the catch-up in flight accounts for.
CaughtUp(f) == \/ catchUp.phase = "head"
               \/ catchUp.phase = "fetching" /\ f.cursor.block <= catchUp.to

\* lastSeen covers only what is done.
CursorCovers(done) == \A e \in Relevant : AtOrBefore(e.cursor, lastSeen) => e \in done

Queued(f) == \E i \in DOMAIN tasks : f \in tasks[i].batch

Accounted(f, done) == f \in done \/ Queued(f) \/ f \in pending \/ CaughtUp(f)

\* The log of the chain: distinct positions, none after the head.
LogInv ==
    /\ \A f \in log : f.cursor.block <= head
    /\ \A e, f \in log : e.cursor = f.cursor => e = f

CursorInv ==
    /\ lastSeen # NoCursor
    /\ lastSeen = StartCursor \/ lastSeen.block <= head
    /\ catchUp.phase = "fetching" => AtOrBefore(catchUp.from, lastSeen) /\ catchUp.to \in Nat
    /\ catchUp.phase = "idle" => catchUp = Idle

\* A queued batch is preceded by all that lies before it.
QueueInv(done) ==
    \A i \in DOMAIN tasks : \A e \in tasks[i].batch, f \in Relevant :
        AtOrBefore(f.cursor, e.cursor) =>
            f \in done \/ \E j \in 1 .. i : f \in tasks[j].batch

\* So is a pending log.
PendingInv(done) ==
    \A e \in pending, f \in Relevant : AtOrBefore(f.cursor, e.cursor) => Accounted(f, done)

\* During a handshake no catch-up runs, and the head it will read up to misses
\* nothing that is not on the wire.
HandshakeInv ==
    /\ conn \in {"connecting", "subscribed"} => catchUp = Idle
    /\ conn \in {"connecting", "subscribed"} /\ startedHead # NoHead =>
           \A f \in log : f \in wire \/ f.cursor.block <= startedHead

LiveInv(done) == conn = "live" => \A f \in Relevant : f \in wire \/ Accounted(f, done)

LInv(done) ==
    /\ Inv /\ LogInv /\ CursorInv /\ CursorCovers(done)
    /\ QueueInv(done) /\ PendingInv(done)
    /\ HandshakeInv /\ LiveInv(done)

-----------------------------------------------------------------------------
LEMMA EventCursors == Inv => \A e \in log : e.cursor \in Cursor /\ e.cursor.block \in Nat
BY MadeCursors DEF Inv, TypeOK

LEMMA LInvInit ==
    ASSUME NEW done, Reliable, Init
    PROVE  LInv(done)
<1>1. /\ log = {} /\ tasks = <<>> /\ pending = {} /\ catchUp = Idle /\ conn = "down"
      /\ lastSeen = StartCursor /\ DOMAIN tasks = {} /\ catchUp.phase = "idle"
  BY DEF Init, Idle
<1>2. Relevant = {}
  BY <1>1 DEF Relevant, After
<1>3. QED
  BY <1>1, <1>2, InitInv
  DEF LInv, CursorCovers, LogInv, CursorInv, QueueInv, PendingInv, HandshakeInv,
      LiveInv, Relevant, Reliable

\* Once the head of a catch-up is known, what it accounts for does not shrink:
\* a log in a block up to the head lies in the range, or has been processed.
LEMMA CatchUpFromAccounts ==
    ASSUME NEW done, LInv(done), NEW to \in 0 .. MaxBlock, CatchUpFrom(to)
    PROVE  /\ lastSeen' = lastSeen
           /\ \A f \in Relevant : f.cursor.block <= to => f \in done \/ CaughtUp(f)'
           /\ catchUp'.phase = "fetching" => AtOrBefore(catchUp'.from, lastSeen) /\ catchUp'.to \in Nat
           /\ catchUp'.phase \in {"idle", "fetching"}
           /\ catchUp'.phase = "idle" => catchUp' = Idle
<1>1. /\ lastSeen' = lastSeen
      /\ catchUp' = IF to < lastSeen.block THEN Idle
                    ELSE [phase |-> "fetching", from |-> lastSeen, to |-> to]
  BY DEF CatchUpFrom, LInv, CursorInv
<1>2. to \in Nat /\ lastSeen \in Cursor
  BY ListenerAssumption DEF LInv, Inv, TypeOK
<1>3. CASE to < lastSeen.block
  <2>1. ASSUME NEW f \in Relevant, f.cursor.block <= to
        PROVE  f \in done
    <3>1. f \in log /\ f.cursor \in Cursor /\ f.cursor.block \in Nat
      BY EventCursors DEF LInv, Relevant, After
    <3>2. lastSeen.block \in Int
      BY <1>2 DEF Cursor
    <3>3. Before(f.cursor, lastSeen)
      BY <1>2, <1>3, <2>1, <3>1, <3>2 DEF Before
    <3>4. QED
      BY <3>3 DEF LInv, CursorCovers, Relevant, AtOrBefore
  <2>2. QED
    BY <1>1, <1>3, <2>1 DEF Idle
<1>4. CASE ~(to < lastSeen.block)
  <2>1. catchUp'.phase = "fetching" /\ catchUp'.from = lastSeen /\ catchUp'.to = to
    BY <1>1, <1>4
  <2>2. QED
    BY <1>1, <1>2, <2>1 DEF CaughtUp, AtOrBefore
<1>5. QED
  BY <1>3, <1>4

\* What a batch handed over leaves out has been processed.
LEMMA DeliverAccounts ==
    ASSUME NEW done, LInv(done), NEW source \in {"live", "catchUp"}, NEW events \in SUBSET log,
           Deliver(source, events)
    PROVE  /\ \A f \in Relevant : f \in events => f \in done \/ Queued(f)'
           /\ \A f : Queued(f) => Queued(f)'
           /\ (\A e \in events, f \in Relevant :
                    AtOrBefore(f.cursor, e.cursor) => f \in done \/ Queued(f) \/ f \in events)
              /\ log' = log => QueueInv(done)'
<1> DEFINE fresh == After(events, lastSeen)
           task  == [source |-> source, batch |-> fresh]
<1>1. /\ tasks' = IF fresh = {} THEN tasks ELSE Append(tasks, task)
      /\ tasks \in Seq(Task) /\ task \in Task
  BY DeliverTyped DEF LInv, Inv, TypeOK
<1>2. ASSUME NEW f \in Relevant, f \in events PROVE f \in done \/ f \in fresh
  <2>1. f.cursor \in Cursor /\ lastSeen \in Cursor
    BY EventCursors, <1>2 DEF LInv, Inv, TypeOK
  <2>2. AtOrBefore(f.cursor, lastSeen) \/ Before(lastSeen, f.cursor)
    BY <2>1, CursorOrder
  <2>3. QED
    BY <1>2, <2>2 DEF LInv, CursorCovers, Relevant, After
<1>3. CASE fresh = {}
  <2>1. tasks' = tasks
    BY <1>1, <1>3
  <2>2. QED
    BY <1>2, <1>3, <2>1 DEF Queued, LInv, QueueInv, Relevant
<1>4. CASE fresh # {}
  <2>1. /\ tasks' = Append(tasks, task)
        /\ DOMAIN tasks = 1 .. Len(tasks) /\ DOMAIN tasks' = 1 .. Len(tasks) + 1
        /\ Len(tasks) \in Nat
        /\ \A i \in DOMAIN tasks : i \in DOMAIN tasks' /\ tasks'[i] = tasks[i]
        /\ Len(tasks) + 1 \in DOMAIN tasks'
        /\ tasks'[Len(tasks) + 1].batch = fresh
    BY <1>1, <1>4
  <2>2. \A f : Queued(f) => Queued(f)'
    BY <2>1 DEF Queued
  <2>3. \A f \in fresh : Queued(f)'
    BY <2>1 DEF Queued
  <2>4. ASSUME \A e \in events, f \in Relevant :
                    AtOrBefore(f.cursor, e.cursor) => f \in done \/ Queued(f) \/ f \in events,
               log' = log
        PROVE  QueueInv(done)'
    <3> SUFFICES ASSUME NEW i \in DOMAIN tasks', NEW e \in tasks'[i].batch, NEW f \in Relevant,
                        AtOrBefore(f.cursor, e.cursor), f \notin done
                 PROVE  \E j \in 1 .. i : f \in tasks'[j].batch
      BY <2>4 DEF QueueInv, Relevant
    <3>1. CASE i \in DOMAIN tasks
      <4>1. PICK j \in 1 .. i : f \in tasks[j].batch
        BY <2>1, <3>1 DEF LInv, QueueInv
      <4>2. QED
        BY <2>1, <3>1, <4>1
    <3>2. CASE i = Len(tasks) + 1
      <4>1. e \in events
        BY <2>1, <3>2 DEF After
      <4>2. Queued(f) \/ f \in events
        BY <2>4, <4>1
      <4>3. Queued(f) \/ f \in fresh
        BY <1>2, <4>2
      <4>4. QED
        BY <2>1, <3>2, <4>3 DEF Queued
    <3>3. QED
      BY <2>1, <3>1, <3>2
  <2>5. QED
    BY <1>2, <2>2, <2>3, <2>4
<1>5. QED
  BY <1>3, <1>4

-----------------------------------------------------------------------------
(* One lemma for each action that changes the account of the logs. *)

\* A new block lies after everything the listener knows of.
LEMMA MineAccounts ==
    ASSUME NEW done, Reliable, LInv(done), Mine, Inv'
    PROVE  LInv(done)'
<1> USE DEF LInv
<1>0. /\ head \in Nat /\ lastSeen \in Cursor /\ pending \subseteq log
      /\ \A i \in DOMAIN tasks : tasks[i].batch \subseteq log
  BY ListenerAssumption DEF Inv, TypeOK
<1>1. PICK n \in 0 .. MaxLogsPerBlock : \E changes \in [0 .. n - 1 -> Changes] :
          MineBlock(LogsOfBlock(head + 1, changes))
  BY DEF Mine
<1>2. PICK changes \in [0 .. n - 1 -> Changes] : MineBlock(LogsOfBlock(head + 1, changes))
  BY <1>1
<1> DEFINE new == LogsOfBlock(head + 1, changes)
<1>3. /\ new \subseteq Event
      /\ \A e \in new : e.cursor.block = head + 1
      /\ \A e, f \in new : e.cursor = f.cursor => e = f
  BY <1>0, NewLogs
<1> HIDE DEF new
<1>4. /\ head' = head + 1 /\ log' = log \cup new
      /\ wire' = IF conn \in {"subscribed", "live"} THEN wire \cup new ELSE wire
      /\ UNCHANGED <<conn, startedHead, lastSeen, pending, catchUp, tasks, processed>>
      /\ new = {} \/ ~(conn = "connecting" /\ startedHead # NoHead)
  BY <1>2 DEF MineBlock, listenerVars, Reliable, new
<1>5. ASSUME NEW f \in new, NEW e \in log PROVE ~AtOrBefore(f.cursor, e.cursor)
  <2>1. /\ e.cursor \in Cursor /\ e.cursor.block \in Nat /\ e.cursor.block <= head
        /\ f.cursor \in Cursor /\ f.cursor.block = head + 1
    BY <1>3, EventCursors, MadeCursors DEF LogInv
  <2>2. QED
    BY <1>0, <2>1 DEF AtOrBefore, Before
<1>6. Relevant' = Relevant \cup After(new, StartCursor)
  BY <1>4 DEF Relevant, After
<1>7. ASSUME NEW f \in Relevant' PROVE f \in Relevant \/ f \in new
  BY <1>6 DEF After
<1>8. CursorCovers(done)'
  <2> SUFFICES ASSUME NEW f \in Relevant', AtOrBefore(f.cursor, lastSeen) PROVE f \in done
    BY <1>4 DEF CursorCovers, Relevant
  <2>1. CASE f \in Relevant
    BY <2>1 DEF CursorCovers, Relevant
  <2>2. CASE f \in new
    <3>1. f.cursor \in Cursor /\ f.cursor.block = head + 1 /\ Before(StartCursor, f.cursor)
      BY <1>3, <2>2, MadeCursors DEF Relevant, After
    <3>2. lastSeen # StartCursor
      BY <1>0, <3>1, CursorOrder
    <3>3. lastSeen.block <= head /\ lastSeen.block \in Int
      BY <1>0, <3>2 DEF CursorInv, Cursor
    <3>4. FALSE
      BY <1>0, <3>1, <3>3 DEF AtOrBefore, Before
    <3>5. QED
      BY <3>4
  <2>3. QED
    BY <1>7, <2>1, <2>2
<1>9. LogInv'
  <2>1. \A f \in log' : f.cursor.block <= head'
    BY <1>0, <1>3, <1>4, EventCursors DEF LogInv
  <2>2. ASSUME NEW e \in log, NEW f \in new PROVE e.cursor # f.cursor
    BY <1>5, <2>2 DEF AtOrBefore
  <2>3. QED
    BY <1>3, <1>4, <2>1, <2>2 DEF LogInv
<1>10. CursorInv'
  <2>1. lastSeen.block \in Int
    BY <1>0 DEF Cursor
  <2>2. QED
    BY <1>0, <1>4, <2>1 DEF CursorInv, Idle
<1>11. QueueInv(done)'
  BY <1>0, <1>4, <1>5, <1>7 DEF QueueInv
<1>12. PendingInv(done)'
  BY <1>0, <1>4, <1>5, <1>7 DEF PendingInv, Accounted, Queued, CaughtUp
<1>13. HandshakeInv'
  BY <1>4 DEF HandshakeInv, Idle
<1>14. LiveInv(done)'
  BY <1>4, <1>7 DEF LiveInv, Accounted, Queued, CaughtUp
<1>15. QED
  BY <1>8, <1>9, <1>10, <1>11, <1>12, <1>13, <1>14

\* The acknowledged subscription: what is not on its way lies in the range.
LEMMA AcknowledgedAccounts ==
    ASSUME NEW done, LInv(done), SubscriptionAcknowledged, Inv'
    PROVE  LInv(done)'
<1> USE DEF LInv
<1>1. /\ catchUp = Idle /\ conn = "subscribed" /\ conn' = "live"
      /\ UNCHANGED <<head, log, startedHead, wire, pending, tasks, processed>>
  BY DEF SubscriptionAcknowledged, HandshakeInv, chainVars
<1>2. \A f : ~CaughtUp(f)
  BY <1>1 DEF CaughtUp, Idle
<1>3. /\ \A f \in Relevant : f \in wire \/ f \in done \/ CaughtUp(f)'
      /\ lastSeen' = lastSeen
      /\ catchUp'.phase = "fetching" =>
             AtOrBefore(catchUp'.from, lastSeen) /\ catchUp'.to \in Nat
      /\ catchUp'.phase = "idle" => catchUp' = Idle
  <2>1. CASE startedHead # NoHead /\ CatchUpFrom(startedHead)
    <3>1. startedHead \in 0 .. MaxBlock
      BY <2>1 DEF Inv, TypeOK
    <3>2. \A f \in Relevant : f \in wire \/ f.cursor.block <= startedHead
      BY <1>1, <2>1 DEF HandshakeInv, Relevant, After
    <3>3. QED
      BY <1>1, <2>1, <3>1, <3>2, CatchUpFromAccounts
  <2>2. CASE catchUp' = [Idle EXCEPT !.phase = "head"] /\ UNCHANGED lastSeen
    <3>1. catchUp'.phase = "head"
      BY <2>2 DEF Idle
    <3>2. QED
      BY <2>2, <3>1 DEF CaughtUp
  <2>3. QED
    BY <1>1, <2>1, <2>2 DEF SubscriptionAcknowledged
<1>4. Relevant' = Relevant
  BY <1>1 DEF Relevant
<1>5. \A f : Accounted(f, done) => Accounted(f, done)'
  BY <1>1, <1>2 DEF Accounted, Queued
<1>6. CursorCovers(done)' /\ LogInv'
  BY <1>1, <1>3 DEF CursorCovers, Relevant, LogInv
<1>7. CursorInv'
  BY <1>1, <1>3 DEF CursorInv, Idle
<1>8. QueueInv(done)' /\ PendingInv(done)'
  BY <1>1, <1>4, <1>5 DEF QueueInv, PendingInv
<1>9. HandshakeInv' /\ LiveInv(done)'
  BY <1>1, <1>3, <1>4 DEF HandshakeInv, LiveInv, Accounted
<1>10. QED
  BY <1>6, <1>7, <1>8, <1>9

\* A log received: the wire keeps the order of the chain, so what lies before
\* it has been received already.
LEMMA ReceiveAccounts ==
    ASSUME NEW done, LInv(done), Receive, Inv'
    PROVE  LInv(done)'
<1> USE DEF LInv
<1>1. PICK e \in wire : /\ \A f \in wire : AtOrBefore(e.cursor, f.cursor)
                        /\ wire' = wire \ {e} /\ pending' = pending \cup {e}
  BY DEF Receive
<1>2. /\ conn = "live"
      /\ UNCHANGED <<head, log, conn, startedHead, lastSeen, catchUp, tasks, processed>>
  BY DEF Receive, chainVars
<1>3. Relevant' = Relevant /\ wire \subseteq log
  BY <1>2 DEF Relevant, Inv, TypeOK
<1>4. \A f : Accounted(f, done) => Accounted(f, done)'
  BY <1>1, <1>2 DEF Accounted, Queued, CaughtUp
<1>5. ASSUME NEW f \in Relevant, AtOrBefore(f.cursor, e.cursor) PROVE Accounted(f, done)'
  <2>1. CASE f \in wire
    <3>1. f.cursor = e.cursor
      BY <1>1, <1>3, <1>5, <2>1, EventCursors, CursorOrder
    <3>2. f = e
      BY <1>3, <2>1, <3>1 DEF LogInv
    <3>3. QED
      BY <1>1, <3>2 DEF Accounted
  <2>2. CASE Accounted(f, done)
    BY <1>4, <2>2
  <2>3. QED
    BY <1>2, <2>1, <2>2 DEF LiveInv
<1>6. PendingInv(done)'
  BY <1>1, <1>3, <1>4, <1>5 DEF PendingInv
<1>7. LiveInv(done)'
  BY <1>1, <1>2, <1>3, <1>4 DEF LiveInv, Accounted
<1>8. CursorCovers(done)' /\ LogInv' /\ CursorInv' /\ QueueInv(done)' /\ HandshakeInv'
  BY <1>2, <1>3
  DEF CursorCovers, Relevant, LogInv, CursorInv, QueueInv, HandshakeInv, Idle
<1>9. QED
  BY <1>6, <1>7, <1>8

\* The pending logs are handed over: no gap is before them.
LEMMA FlushAccounts ==
    ASSUME NEW done, Reliable, LInv(done), Flush, Inv'
    PROVE  LInv(done)'
<1> USE DEF LInv
<1>1. /\ catchUp.phase \in {"idle", "delivering"}
      /\ pending' = {} /\ Deliver("live", pending) /\ pending \in SUBSET log
      /\ UNCHANGED <<head, log, conn, startedHead, wire, lastSeen, catchUp, processed>>
  BY DEF Flush, Reliable, chainVars, socketVars, Inv, TypeOK
<1>2. (\A f : ~CaughtUp(f)) /\ Relevant' = Relevant
  BY <1>1 DEF CaughtUp, Relevant
<1>3. \A e \in pending, f \in Relevant :
          AtOrBefore(f.cursor, e.cursor) => f \in done \/ Queued(f) \/ f \in pending
  BY <1>2 DEF PendingInv, Accounted
<1>4. /\ \A f \in Relevant : f \in pending => f \in done \/ Queued(f)'
      /\ \A f : Queued(f) => Queued(f)'
      /\ QueueInv(done)'
  BY <1>1, <1>3, DeliverAccounts
<1>5. \A f \in Relevant : Accounted(f, done) => Accounted(f, done)'
  BY <1>1, <1>2, <1>4 DEF Accounted
<1>6. PendingInv(done)' /\ LiveInv(done)'
  BY <1>1, <1>2, <1>5 DEF PendingInv, LiveInv
<1>7. CursorCovers(done)' /\ LogInv' /\ CursorInv' /\ HandshakeInv'
  BY <1>1 DEF CursorCovers, Relevant, LogInv, CursorInv, HandshakeInv, Idle
<1>8. QED
  BY <1>4, <1>6, <1>7

\* The head of a catch-up: no log lies after it.
LEMMA CatchUpHeadAccounts ==
    ASSUME NEW done, LInv(done), CatchUpHead, Inv'
    PROVE  LInv(done)'
<1> USE DEF LInv
<1>1. /\ catchUp.phase = "head" /\ CatchUpFrom(head) /\ head \in 0 .. MaxBlock
      /\ UNCHANGED <<head, log, conn, startedHead, wire, pending, tasks, processed>>
  BY DEF CatchUpHead, chainVars, socketVars, Inv, TypeOK
<1>2. /\ lastSeen' = lastSeen
      /\ \A f \in Relevant : f.cursor.block <= head => f \in done \/ CaughtUp(f)'
      /\ catchUp'.phase = "fetching" =>
             AtOrBefore(catchUp'.from, lastSeen) /\ catchUp'.to \in Nat
      /\ catchUp'.phase = "idle" => catchUp' = Idle
  BY <1>1, CatchUpFromAccounts
<1>3. \A f \in Relevant : f.cursor.block <= head
  BY DEF LogInv, Relevant, After
<1>4. \A f \in Relevant : Accounted(f, done)'
  BY <1>1, <1>2, <1>3 DEF Accounted
<1>5. Relevant' = Relevant
  BY <1>1 DEF Relevant
<1>6. PendingInv(done)' /\ LiveInv(done)'
  BY <1>4, <1>5 DEF PendingInv, LiveInv
<1>7. catchUp # Idle
  BY <1>1 DEF Idle
<1>8. CursorCovers(done)' /\ LogInv' /\ CursorInv' /\ QueueInv(done)' /\ HandshakeInv'
  BY <1>1, <1>2, <1>5, <1>7
  DEF CursorCovers, Relevant, LogInv, CursorInv, QueueInv, HandshakeInv, Idle
<1>9. QED
  BY <1>6, <1>8

\* The logs of the range are handed over: what it leaves out lies before the
\* cursor it started from.
LEMMA CatchUpFetchedAccounts ==
    ASSUME NEW done, LInv(done), CatchUpFetched, Inv'
    PROVE  LInv(done)'
<1> USE DEF LInv
<1> DEFINE events == EventsBetween(log, catchUp.from.block, catchUp.to, catchUp.from)
<1>1. /\ catchUp.phase = "fetching" /\ Deliver("catchUp", events)
      /\ catchUp' = IF After(events, lastSeen) = {} THEN Idle
                    ELSE [catchUp EXCEPT !.phase = "delivering"]
      /\ UNCHANGED <<head, log, conn, startedHead, wire, lastSeen, pending, processed>>
  BY DEF CatchUpFetched, chainVars, socketVars
<1>2. /\ events \in SUBSET log /\ Relevant' = Relevant
      /\ catchUp.from \in Cursor /\ lastSeen \in Cursor /\ catchUp.to \in Nat
      /\ AtOrBefore(catchUp.from, lastSeen)
  BY <1>1 DEF EventsBetween, After, Relevant, CursorInv, Inv, TypeOK
<1>3. ASSUME NEW f \in Relevant, f.cursor.block <= catchUp.to
      PROVE  f \in done \/ f \in events
  <2>1. f \in log /\ f.cursor \in Cursor /\ f.cursor.block \in Nat
    BY EventCursors DEF Relevant, After
  <2>2. CASE AtOrBefore(f.cursor, catchUp.from)
    <3>1. AtOrBefore(f.cursor, lastSeen)
      BY <1>2, <2>1, <2>2, CursorOrder
    <3>2. QED
      BY <3>1 DEF CursorCovers, Relevant
  <2>3. CASE Before(catchUp.from, f.cursor)
    <3>1. catchUp.from.block <= f.cursor.block /\ catchUp.from.block \in Int
      BY <1>2, <2>1, <2>3 DEF Before, Cursor
    <3>2. f.cursor.block \in catchUp.from.block .. catchUp.to
      BY <1>2, <1>3, <2>1, <3>1
    <3>3. QED
      BY <2>1, <2>3, <3>2 DEF EventsBetween, After
  <2>4. QED
    BY <1>2, <2>1, <2>2, <2>3, CursorOrder
<1>4. ASSUME NEW e \in events, NEW f \in Relevant, AtOrBefore(f.cursor, e.cursor)
      PROVE  f \in done \/ Queued(f) \/ f \in events
  <2>1. /\ e \in log /\ f \in log /\ e.cursor.block <= catchUp.to
        /\ catchUp.from.block \in Int
    BY <1>2, EventCursors DEF EventsBetween, After, Relevant, Cursor
  <2>2. f.cursor.block <= e.cursor.block /\ f.cursor.block \in Nat /\ e.cursor.block \in Nat
    BY <1>4, <2>1, EventCursors, CursorOrder
  <2>3. f.cursor.block <= catchUp.to
    BY <1>2, <2>1, <2>2
  <2>4. QED
    BY <1>3, <2>3
<1> HIDE DEF events
<1>5. /\ \A f \in Relevant : f \in events => f \in done \/ Queued(f)'
      /\ \A f : Queued(f) => Queued(f)'
      /\ QueueInv(done)'
  BY <1>1, <1>2, <1>4, DeliverAccounts
<1>6. \A f \in Relevant : CaughtUp(f) => f \in done \/ Queued(f)'
  BY <1>1, <1>3, <1>5 DEF CaughtUp
<1>7. \A f \in Relevant : Accounted(f, done) => Accounted(f, done)'
  BY <1>1, <1>5, <1>6 DEF Accounted
<1>8. PendingInv(done)' /\ LiveInv(done)'
  BY <1>1, <1>2, <1>7 DEF PendingInv, LiveInv
<1>9. catchUp'.phase # "fetching" /\ (catchUp'.phase = "idle" => catchUp' = Idle) /\ catchUp # Idle
  BY <1>1 DEF Idle, Inv, TypeOK
<1>10. CursorCovers(done)' /\ LogInv' /\ CursorInv' /\ HandshakeInv'
  BY <1>1, <1>9 DEF CursorCovers, Relevant, LogInv, CursorInv, HandshakeInv
<1>11. QED
  BY <1>5, <1>8, <1>10

\* A batch is done: all that lies before its last log is done with it.
LEMMA SettleAccounts ==
    ASSUME NEW done, Reliable, LInv(done), NEW succeeded \in BOOLEAN, Settle(succeeded),
           Head(tasks).batch \subseteq done, Inv'
    PROVE  LInv(done)'
<1> USE DEF LInv
<1> DEFINE batch == tasks[1].batch
<1>1. /\ tasks # <<>> /\ tasks \in Seq(Task) /\ tasks' = Tail(tasks)
      /\ Advance(Head(tasks).batch) /\ processed' = processed \cup Head(tasks).batch
      /\ catchUp' = IF Head(tasks).source = "catchUp" THEN Idle ELSE catchUp
      /\ UNCHANGED <<head, log, conn, startedHead, wire, pending>>
  BY DEF Settle, Reliable, chainVars, socketVars, Inv, TypeOK
<1>2. /\ Head(tasks) = tasks[1] /\ Len(tasks) \in Nat /\ Len(tasks) >= 1
      /\ DOMAIN tasks = 1 .. Len(tasks) /\ DOMAIN tasks' = 1 .. Len(tasks) - 1
      /\ \A i \in DOMAIN tasks' : i + 1 \in DOMAIN tasks /\ tasks'[i] = tasks[i + 1]
      /\ \A i \in 2 .. Len(tasks) : i - 1 \in DOMAIN tasks' /\ tasks'[i - 1] = tasks[i]
  BY <1>1, HeadTailProperties, EmptySeq
<1>3. batch \subseteq log /\ lastSeen \in Cursor /\ Relevant' = Relevant
  BY <1>1, <1>2 DEF Inv, TypeOK, Relevant
<1>4. PICK last \in batch : lastSeen' = MaxCursor(lastSeen, last.cursor)
  BY <1>1, <1>2 DEF Advance
<1>5. /\ last.cursor \in Cursor /\ last.cursor.block \in Nat /\ last.cursor.block <= head
      /\ lastSeen' \in {lastSeen, last.cursor} /\ lastSeen' \in Cursor
      /\ AtOrBefore(lastSeen, lastSeen')
  BY <1>3, <1>4, EventCursors, MaxCursorLater DEF LogInv
<1>6. \A f : Queued(f) => f \in done \/ Queued(f)'
  <2> SUFFICES ASSUME NEW f, NEW i \in DOMAIN tasks, f \in tasks[i].batch
               PROVE  f \in done \/ Queued(f)'
    BY DEF Queued
  <2>1. CASE i = 1
    BY <1>1, <1>2, <2>1
  <2>2. CASE i \in 2 .. Len(tasks)
    BY <1>2, <2>2 DEF Queued
  <2>3. QED
    BY <1>2, <2>1, <2>2
<1>7. \A f : CaughtUp(f) => CaughtUp(f)'
  <2>1. Head(tasks).source = "catchUp" => catchUp.phase = "delivering"
    BY <1>2 DEF Inv, OneCatchUpInFlight
  <2>2. QED
    BY <1>1, <2>1 DEF CaughtUp
<1>8. \A f : Accounted(f, done) => Accounted(f, done)'
  BY <1>1, <1>6, <1>7 DEF Accounted
<1>9. CursorCovers(done)'
  <2> SUFFICES ASSUME NEW f \in Relevant, AtOrBefore(f.cursor, lastSeen') PROVE f \in done
    BY <1>3 DEF CursorCovers, Relevant
  <2>1. CASE lastSeen' = lastSeen
    BY <1>1, <2>1 DEF CursorCovers, Relevant
  <2>2. CASE lastSeen' = last.cursor
    <3>1. f \in done \/ \E j \in 1 .. 1 : f \in tasks[j].batch
      BY <1>2, <2>2 DEF QueueInv
    <3>2. QED
      BY <1>1, <1>2, <3>1
  <2>3. QED
    BY <1>5, <2>1, <2>2
<1>10. CursorInv'
  <2>1. lastSeen' # NoCursor
    BY <1>5 DEF CursorInv, NoCursor
  <2>2. lastSeen' = StartCursor \/ lastSeen'.block <= head
    BY <1>5 DEF CursorInv
  <2>3. catchUp.phase = "fetching" => AtOrBefore(catchUp.from, lastSeen')
    BY <1>3, <1>5, CursorOrder DEF CursorInv, Inv, TypeOK
  <2>4. QED
    BY <1>1, <2>1, <2>2, <2>3 DEF CursorInv, Idle
<1>11. QueueInv(done)'
  <2> SUFFICES ASSUME NEW i \in DOMAIN tasks', NEW e \in tasks'[i].batch, NEW f \in Relevant,
                      AtOrBefore(f.cursor, e.cursor), f \notin done
               PROVE  \E j \in 1 .. i : f \in tasks'[j].batch
    BY <1>3 DEF QueueInv
  <2>1. i + 1 \in DOMAIN tasks /\ e \in tasks[i + 1].batch /\ i \in Nat
    BY <1>2
  <2>2. PICK j \in 1 .. i + 1 : f \in tasks[j].batch
    BY <1>1, <2>1 DEF QueueInv
  <2>3. j # 1 /\ j <= Len(tasks)
    BY <1>1, <1>2, <2>1, <2>2
  <2>4. j - 1 \in 1 .. i /\ tasks'[j - 1] = tasks[j]
    BY <1>2, <2>1, <2>3
  <2>5. QED
    BY <2>2, <2>4
<1>12. PendingInv(done)' /\ LiveInv(done)'
  BY <1>1, <1>3, <1>8 DEF PendingInv, LiveInv
<1>13. LogInv' /\ HandshakeInv'
  BY <1>1 DEF LogInv, HandshakeInv, Idle
<1>14. QED
  BY <1>9, <1>10, <1>11, <1>12, <1>13

\* A step of a reliable environment keeps the account.
LEMMA LInvNext ==
    ASSUME NEW done, Reliable, LInv(done), [Next]_vars,
           \A succeeded \in BOOLEAN : Settle(succeeded) => Head(tasks).batch \subseteq done
    PROVE  LInv(done)'
<1>0. Inv'
  BY NextInv DEF LInv
<1> DEFINE UnchangedPath == UNCHANGED <<head, log, lastSeen, pending, catchUp, tasks, processed>>
<1>1. ASSUME UnchangedPath, conn' = "live" => conn = "live" /\ wire' = wire, HandshakeInv'
      PROVE  LInv(done)'
  BY <1>0, <1>1
  DEF LInv, CursorCovers, LogInv, CursorInv, QueueInv, PendingInv, LiveInv, Relevant,
      Accounted, Queued, CaughtUp, Idle
<1>2. CASE Mine
  BY <1>0, <1>2, MineAccounts
<1>3. CASE Connect
  <2>1. catchUp = Idle /\ UnchangedPath /\ conn' = "connecting" /\ startedHead' = NoHead
    BY <1>3 DEF Connect, Reliable, LInv, CursorInv, chainVars, listenerVars
  <2>2. QED
    BY <1>1, <2>1 DEF HandshakeInv, Idle
<1>4. CASE HeadFetched
  <2>1. UnchangedPath /\ UNCHANGED <<conn, wire>> /\ startedHead' = head
    BY <1>4 DEF HeadFetched, chainVars, listenerVars
  <2>2. QED
    BY <1>1, <2>1 DEF HandshakeInv, LInv, LogInv, Idle
<1>5. CASE Subscribe
  <2>1. /\ UnchangedPath /\ UNCHANGED <<startedHead, wire>>
        /\ conn = "connecting" /\ conn' = "subscribed"
    BY <1>5 DEF Subscribe, chainVars, listenerVars
  <2>2. QED
    BY <1>1, <2>1 DEF HandshakeInv, LInv, Idle
<1>6. CASE Disconnect
  <2>1. UnchangedPath /\ conn' = "down"
    BY <1>6 DEF Disconnect, chainVars, listenerVars
  <2>2. QED
    BY <1>1, <2>1 DEF HandshakeInv
<1>7. CASE SubscriptionAcknowledged
  BY <1>0, <1>7, AcknowledgedAccounts
<1>8. CASE Receive
  BY <1>0, <1>8, ReceiveAccounts
<1>9. CASE Flush
  BY <1>0, <1>9, FlushAccounts
<1>10. CASE CatchUpHead
  BY <1>0, <1>10, CatchUpHeadAccounts
<1>11. CASE CatchUpFetched
  BY <1>0, <1>11, CatchUpFetchedAccounts
<1>12. CASE CatchUpFails
  BY <1>12 DEF CatchUpFails, Reliable
<1>13. CASE \E succeeded \in BOOLEAN : Settle(succeeded)
  BY <1>0, <1>13, SettleAccounts
<1>14. CASE UNCHANGED vars
  BY <1>1, <1>14
  DEF vars, chainVars, socketVars, listenerVars, LInv, HandshakeInv, Idle
<1>15. QED
  BY <1>2, <1>3, <1>4, <1>5, <1>6, <1>7, <1>8, <1>9, <1>10, <1>11, <1>12, <1>13, <1>14
  DEF Next, CatchUpRequest

\* What is done may only grow.
LEMMA LInvGrows ==
    ASSUME NEW done, NEW more, done \subseteq more, LInv(done)
    PROVE  LInv(more)
BY DEF LInv, CursorCovers, QueueInv, PendingInv, LiveInv, Accounted

\* A batch that settles is done.
LEMMA ProcessedNext ==
    ASSUME Reliable, LInv(processed), [Next]_vars
    PROVE  LInv(processed)'
<1>1. PICK done : done = processed'
  OBVIOUS
<1>2. \A succeeded \in BOOLEAN : Settle(succeeded) =>
          Head(tasks).batch \subseteq done /\ processed \subseteq done
  BY <1>1 DEF Settle, Reliable
<1>3. processed \subseteq done
  <2>1. CASE Mine
    BY <1>1, <2>1 DEF Mine, MineBlock, listenerVars
  <2>2. CASE \E succeeded \in BOOLEAN : Settle(succeeded)
    BY <1>2, <2>2
  <2> QED
    BY <1>1, <2>1, <2>2
    DEF Next, Connect, HeadFetched, Subscribe, SubscriptionAcknowledged, Disconnect, Receive, Flush,
        CatchUpRequest, CatchUpHead, CatchUpFetched, CatchUpFails, vars, listenerVars
<1>4. LInv(done)'
  BY <1>2, <1>3, LInvGrows, LInvNext
<1>5. QED
  BY <1>1, <1>4
  DEF LInv, CursorCovers, QueueInv, PendingInv, LiveInv, Accounted

-----------------------------------------------------------------------------
\* With a reliable environment lastSeenCursor covers only what onEvents has
\* processed, however often the connection is lost and however the batches of
\* the two paths overlap (realtime.ts, deliverEvents and runCatchUp).
THEOREM Lossless == Reliable => (Spec => []CursorCoversProcessed)
<1>1. LInv(processed) => CursorCoversProcessed
  BY DEF LInv, CursorCovers, Relevant, CursorCoversProcessed
<1>2. SUFFICES ASSUME Reliable PROVE Spec => []CursorCoversProcessed
  OBVIOUS
<1>3. Init => LInv(processed)
  BY <1>2, LInvInit
<1>4. LInv(processed) /\ [Next]_vars => LInv(processed)'
  BY <1>2, ProcessedNext
<1>5. QED
  BY <1>1, <1>3, <1>4, PTL DEF Spec

-----------------------------------------------------------------------------
(* The listener implements the abstract feed: what has been processed is   *)
(* what lies up to the cursor and no more, so a settled batch is a step of *)
(* the feed, or repeats what has been processed and is none.               *)

ExactInv ==
    /\ AtOrBefore(StartCursor, lastSeen)
    /\ \A e \in processed : e \in Relevant /\ AtOrBefore(e.cursor, lastSeen)
    /\ \A i \in DOMAIN tasks : tasks[i].batch \subseteq Relevant

RInv == LInv(processed) /\ ExactInv

\* Handing over keeps to logs after the start cursor.
LEMMA DeliverExact ==
    ASSUME RInv, NEW source \in {"live", "catchUp"}, NEW events \in SUBSET log,
           Deliver(source, events), UNCHANGED <<log, lastSeen, processed>>
    PROVE  ExactInv'
<1> USE DEF RInv, LInv
<1> DEFINE fresh == After(events, lastSeen)
           task  == [source |-> source, batch |-> fresh]
<1>1. /\ tasks' = IF fresh = {} THEN tasks ELSE Append(tasks, task)
      /\ tasks \in Seq(Task) /\ task \in Task
  BY DeliverTyped DEF Inv, TypeOK
<1>2. fresh \subseteq Relevant
  <2> SUFFICES ASSUME NEW e \in fresh PROVE e \in Relevant
    OBVIOUS
  <2>1. e \in log /\ Before(lastSeen, e.cursor) /\ e.cursor \in Cursor
    BY EventCursors DEF After
  <2>2. Before(StartCursor, e.cursor)
    BY <2>1, CursorOrder, ListenerAssumption DEF ExactInv, Inv, TypeOK
  <2>3. QED
    BY <2>1, <2>2 DEF Relevant, After
<1>3. \A i \in DOMAIN tasks' : tasks'[i].batch \subseteq Relevant
  <2>1. CASE fresh = {}
    BY <1>1, <2>1 DEF ExactInv
  <2>2. CASE fresh # {}
    <3>1. /\ DOMAIN tasks = 1 .. Len(tasks) /\ DOMAIN tasks' = 1 .. Len(tasks) + 1
          /\ Len(tasks) \in Nat
          /\ \A i \in DOMAIN tasks : tasks'[i] = tasks[i]
          /\ tasks'[Len(tasks) + 1].batch = fresh
      BY <1>1, <2>2
    <3>2. QED
      BY <1>2, <3>1 DEF ExactInv
  <2>3. QED
    BY <2>1, <2>2
<1>4. QED
  BY <1>3 DEF ExactInv, Relevant

\* The feed's order and its reading of the log are the listener's.
LEMMA FeedCursors ==
    /\ \A a, b : Feed!Before(a, b) <=> Before(a, b)
    /\ \A a, b : Feed!AtOrBefore(a, b) <=> AtOrBefore(a, b)
    /\ Feed!After(log, StartCursor) = After(log, StartCursor)
<1>1. \A a, b : Feed!Before(a, b) <=> Before(a, b)
  BY DEF Feed!Before, Before
<1>2. \A a, b : Feed!AtOrBefore(a, b) <=> AtOrBefore(a, b)
  BY <1>1 DEF Feed!AtOrBefore, AtOrBefore
<1>3. Feed!After(log, StartCursor) = After(log, StartCursor)
  BY <1>1 DEF Feed!After, After
<1>4. QED
  BY <1>1, <1>2, <1>3

\* The initial state is the feed's.
LEMMA FeedInit == Init => Feed!Init
BY DEF Init, Feed!Init

\* A new block makes the feed's log grow at its end.
LEMMA MineRefines == Reliable /\ RInv /\ Mine /\ Inv' => ExactInv' /\ Feed!Next
<1> SUFFICES ASSUME Reliable, RInv, Mine, Inv' PROVE ExactInv' /\ Feed!Next
  OBVIOUS
<1> USE DEF RInv, LInv
<1>1. PICK n \in 0 .. MaxLogsPerBlock : \E changes \in [0 .. n - 1 -> Changes] :
          MineBlock(LogsOfBlock(head + 1, changes))
  BY DEF Mine
<1>2. PICK changes \in [0 .. n - 1 -> Changes] : MineBlock(LogsOfBlock(head + 1, changes))
  BY <1>1
<1> DEFINE new == LogsOfBlock(head + 1, changes)
<1>3. head \in Nat /\ new \subseteq Event /\ \A e \in new : e.cursor.block = head + 1
  BY NewLogs, ListenerAssumption DEF Inv, TypeOK
<1>4. log' = log \cup new /\ UNCHANGED <<lastSeen, tasks, processed>>
  BY <1>2 DEF MineBlock, listenerVars
<1> HIDE DEF new
<1>5. ASSUME NEW e \in log, NEW f \in log' \ log PROVE Before(e.cursor, f.cursor)
  <2>1. /\ e.cursor \in Cursor /\ e.cursor.block \in Nat /\ e.cursor.block <= head
        /\ f.cursor \in Cursor /\ f.cursor.block = head + 1
    BY <1>3, <1>4, EventCursors, MadeCursors DEF LogInv
  <2>2. QED
    BY <1>3, <2>1 DEF Before
<1>6. Feed!Grow
  BY <1>4, <1>5, FeedCursors DEF Feed!Grow
<1>7. Relevant \subseteq Relevant'
  BY <1>4 DEF Relevant, After
<1>8. ExactInv'
  BY <1>4, <1>7 DEF ExactInv
<1>9. QED
  BY <1>6, <1>8 DEF Feed!Next

\* A settled batch is consumed in one step, or has been before.
LEMMA SettleRefines ==
    ASSUME Reliable, RInv, NEW succeeded \in BOOLEAN, Settle(succeeded), Inv'
    PROVE  ExactInv' /\ [Feed!Next]_<<log, lastSeen, processed>>
<1> USE DEF RInv, LInv
<1> DEFINE batch == tasks[1].batch
<1>1. /\ tasks # <<>> /\ tasks \in Seq(Task) /\ tasks' = Tail(tasks)
      /\ Advance(Head(tasks).batch) /\ processed' = processed \cup Head(tasks).batch
      /\ UNCHANGED <<head, log>>
  BY DEF Settle, Reliable, chainVars, Inv, TypeOK
<1>2. /\ Head(tasks) = tasks[1] /\ 1 \in DOMAIN tasks
      /\ \A i \in DOMAIN tasks' : i + 1 \in DOMAIN tasks /\ tasks'[i] = tasks[i + 1]
  BY <1>1, HeadTailProperties, EmptySeq
<1>3. batch \subseteq Relevant /\ Relevant \subseteq log /\ lastSeen \in Cursor
  BY <1>2 DEF ExactInv, Inv, TypeOK, Relevant, After
<1>4. PICK last \in batch : /\ \A e \in batch : AtOrBefore(e.cursor, last.cursor)
                           /\ lastSeen' = MaxCursor(lastSeen, last.cursor)
  BY <1>1, <1>2 DEF Advance, IsLast
<1>5. /\ last \in log /\ last.cursor \in Cursor
      /\ AtOrBefore(lastSeen, lastSeen') /\ AtOrBefore(last.cursor, lastSeen')
      /\ lastSeen' \in Cursor
      /\ \A e \in log : e.cursor \in Cursor
  BY <1>3, <1>4, EventCursors, MaxCursorLater
<1>6. \A e \in processed' : e \in Relevant /\ AtOrBefore(e.cursor, lastSeen')
  <2>1. \A e \in processed : e \in Relevant /\ AtOrBefore(e.cursor, lastSeen')
    BY <1>3, <1>5, CursorOrder DEF ExactInv
  <2>2. \A e \in batch : AtOrBefore(e.cursor, lastSeen')
    BY <1>3, <1>4, <1>5, CursorOrder
  <2>3. QED
    BY <1>1, <1>2, <1>3, <2>1, <2>2
<1>7. ExactInv'
  <2>1. AtOrBefore(StartCursor, lastSeen')
    BY <1>3, <1>5, CursorOrder, ListenerAssumption DEF ExactInv
  <2> QED
    BY <1>1, <1>2, <1>6, <2>1 DEF ExactInv, Relevant
<1>8. CursorCovers(processed)'
  <2>1. Next
    BY DEF Next
  <2> QED
    BY <2>1, ProcessedNext DEF LInv
<1>9. processed' = {e \in After(log, StartCursor) : AtOrBefore(e.cursor, lastSeen')}
  BY <1>1, <1>6, <1>8 DEF CursorCovers, Relevant
<1>10. CASE AtOrBefore(last.cursor, lastSeen)
  <2>1. lastSeen' = lastSeen
    BY <1>4, <1>10 DEF MaxCursor
  <2>2. batch \subseteq processed
    BY <1>3, <1>4, <1>5, <1>10, CursorOrder DEF CursorCovers, Relevant
  <2>3. QED
    BY <1>1, <1>2, <1>7, <2>1, <2>2
<1>11. CASE ~AtOrBefore(last.cursor, lastSeen)
  <2>1. Before(lastSeen, last.cursor) /\ lastSeen' = last.cursor
    BY <1>3, <1>4, <1>5, <1>11, CursorOrder DEF MaxCursor
  <2>2. processed' = {e \in Feed!After(log, StartCursor) : Feed!AtOrBefore(e.cursor, last.cursor)}
    BY <1>9, <2>1, FeedCursors
  <2>3. Feed!Before(lastSeen, last.cursor)
    BY <2>1, FeedCursors
  <2>4. Feed!Consume
    BY <1>1, <1>5, <2>1, <2>2, <2>3 DEF Feed!Consume
  <2>5. QED
    BY <1>7, <2>4 DEF Feed!Next
<1>12. QED
  BY <1>10, <1>11

LEMMA RInvNext == Reliable /\ RInv /\ [Next]_vars => RInv' /\ [Feed!Next]_<<log, lastSeen, processed>>
<1> SUFFICES ASSUME Reliable, RInv, [Next]_vars
             PROVE  RInv' /\ [Feed!Next]_<<log, lastSeen, processed>>
  OBVIOUS
<1>0. LInv(processed)' /\ Inv'
  BY ProcessedNext DEF RInv, LInv
<1>1. ASSUME UNCHANGED <<log, lastSeen, processed, tasks>>
      PROVE  RInv' /\ [Feed!Next]_<<log, lastSeen, processed>>
  BY <1>0, <1>1 DEF RInv, ExactInv, Relevant
<1>2. ASSUME NEW source \in {"live", "catchUp"}, NEW events \in SUBSET log,
             Deliver(source, events), UNCHANGED <<log, lastSeen, processed>>
      PROVE  RInv' /\ [Feed!Next]_<<log, lastSeen, processed>>
  BY <1>0, <1>2, DeliverExact DEF RInv
<1>3. CASE Mine
  BY <1>0, <1>3, MineRefines DEF RInv
<1>4. CASE Connect \/ HeadFetched \/ Subscribe \/ Disconnect
  BY <1>1, <1>4 DEF Connect, HeadFetched, Subscribe, Disconnect, chainVars, listenerVars
<1>5. CASE SubscriptionAcknowledged \/ CatchUpHead
  <2>1. UNCHANGED <<log, processed, tasks>>
    BY <1>5 DEF SubscriptionAcknowledged, CatchUpHead, chainVars
  <2>2. UNCHANGED lastSeen
    BY <1>5 DEF SubscriptionAcknowledged, CatchUpHead, CatchUpFrom, RInv, LInv, CursorInv
  <2>3. QED
    BY <1>1, <2>1, <2>2
<1>6. CASE Receive
  BY <1>1, <1>6 DEF Receive, chainVars
<1>7. CASE Flush
  BY <1>2, <1>7 DEF Flush, chainVars, RInv, LInv, Inv, TypeOK
<1>8. CASE CatchUpFetched
  <2> DEFINE events == EventsBetween(log, catchUp.from.block, catchUp.to, catchUp.from)
  <2>1. Deliver("catchUp", events) /\ UNCHANGED <<log, lastSeen, processed>>
    BY <1>8 DEF CatchUpFetched, chainVars
  <2>2. events \in SUBSET log
    BY DEF EventsBetween, After
  <2>3. QED
    BY <1>2, <2>1, <2>2
<1>9. CASE CatchUpFails
  BY <1>9 DEF CatchUpFails, Reliable
<1>10. CASE \E succeeded \in BOOLEAN : Settle(succeeded)
  BY <1>0, <1>10, SettleRefines DEF RInv
<1>11. CASE UNCHANGED vars
  BY <1>1, <1>11 DEF vars, chainVars, listenerVars
<1>12. QED
  BY <1>3, <1>4, <1>5, <1>6, <1>7, <1>8, <1>9, <1>10, <1>11 DEF Next, CatchUpRequest

\* With a reliable environment the two paths together implement the feed:
\* every settled call extends what was processed by the next logs of the chain,
\* in order and without a gap, or repeats what was processed.
THEOREM ListenerImplementsFeed == Reliable => (Spec => ImplementsFeed)
<1>1. SUFFICES ASSUME Reliable PROVE Spec => Feed!Spec
  BY DEF ImplementsFeed
<1>2. Init => RInv
  <2> SUFFICES ASSUME Init PROVE RInv
    OBVIOUS
  <2>1. processed = {} /\ DOMAIN tasks = {} /\ AtOrBefore(StartCursor, lastSeen)
    BY DEF Init, AtOrBefore
  <2>2. QED
    BY <1>1, <2>1, LInvInit DEF RInv, ExactInv
<1>3. RInv /\ [Next]_vars => RInv' /\ [Feed!Next]_(Feed!vars)
  BY <1>1, RInvNext DEF Feed!vars
<1>4. Init => Feed!Init
  BY FeedInit
<1>5. QED
  BY <1>2, <1>3, <1>4, PTL DEF Spec, Feed!Spec

-----------------------------------------------------------------------------
(* What holds of the log and of the queue under every hazard. *)

\* A task without logs is a reconciliation.
QueueKinds == \A i \in DOMAIN tasks : tasks[i].source = "reconcile" <=> tasks[i].batch = {}

Base == Inv /\ LogInv /\ lastSeen # NoCursor /\ QueueKinds

\* A new block's logs lie after all there were.
LEMMA Mined ==
    ASSUME Inv, LogInv, Mine
    PROVE  \E new \in SUBSET Event :
             /\ head' = head + 1 /\ log' = log \cup new
             /\ wire' = IF conn \in {"subscribed", "live"} THEN wire \cup new ELSE wire
             /\ UNCHANGED <<conn, startedHead, lastSeen, pending, catchUp, tasks, processed>>
             /\ \A f \in new : f.cursor.block = head + 1
             /\ \A e \in log, f \in new : Before(e.cursor, f.cursor)
             /\ LogInv'
<1>0. head \in Nat
  BY QueuedTyped
<1>1. PICK n \in 0 .. MaxLogsPerBlock : \E changes \in [0 .. n - 1 -> Changes] :
          MineBlock(LogsOfBlock(head + 1, changes))
  BY DEF Mine
<1>2. PICK changes \in [0 .. n - 1 -> Changes] : MineBlock(LogsOfBlock(head + 1, changes))
  BY <1>1
<1> DEFINE new == LogsOfBlock(head + 1, changes)
<1>3. /\ new \subseteq Event
      /\ \A e \in new : e.cursor.block = head + 1
      /\ \A e, f \in new : e.cursor = f.cursor => e = f
  BY <1>0, NewLogs
<1> HIDE DEF new
<1>4. /\ head' = head + 1 /\ log' = log \cup new
      /\ wire' = IF conn \in {"subscribed", "live"} THEN wire \cup new ELSE wire
      /\ UNCHANGED <<conn, startedHead, lastSeen, pending, catchUp, tasks, processed>>
  BY <1>2 DEF MineBlock, listenerVars, new
<1>5. ASSUME NEW e \in log, NEW f \in new
      PROVE  Before(e.cursor, f.cursor) /\ e.cursor # f.cursor
  <2>1. e.cursor.block \in Nat /\ e.cursor.block <= head /\ f.cursor.block = head + 1
    BY <1>3, EventCursors DEF LogInv
  <2> QED
    BY <1>0, <2>1 DEF Before
<1>6. LogInv'
  <2>1. \A f \in log' : f.cursor.block <= head'
    BY <1>0, <1>3, <1>4, EventCursors DEF LogInv
  <2> QED
    BY <1>3, <1>4, <1>5, <2>1 DEF LogInv
<1> QED
  BY <1>3, <1>4, <1>5, <1>6

\* A log that is handed over lies after the cursor.
LEMMA Delivered ==
    ASSUME Inv, NEW source \in {"live", "catchUp"}, NEW events \in SUBSET log,
           Deliver(source, events)
    PROVE  LET fresh == After(events, lastSeen)
           IN  \/ fresh = {} /\ tasks' = tasks
               \/ fresh # {} /\ \E task \in Task : /\ task.source = source /\ task.batch = fresh
                                                   /\ tasks' = Append(tasks, task)
BY DeliverTyped

LEMMA BaseInit == StartCursor # NoCursor /\ Init => Base
<1> SUFFICES ASSUME StartCursor # NoCursor, Init PROVE Base
  OBVIOUS
<1>1. tasks = <<>> /\ DOMAIN tasks = {} /\ log = {} /\ lastSeen = StartCursor
  BY DEF Init
<1> QED
  BY <1>1, InitInv DEF Base, LogInv, QueueKinds

\* Another task that is of a kind keeps the queue so.
LEMMA KindWhenQueued ==
    ASSUME Inv, QueueKinds, NEW task \in Task, tasks' = Append(tasks, task),
           task.source = "reconcile" <=> task.batch = {}
    PROVE  QueueKinds'
<1>1. /\ DOMAIN tasks' = 1 .. Len(tasks) + 1 /\ DOMAIN tasks = 1 .. Len(tasks)
      /\ Len(tasks) \in Nat
      /\ \A i \in DOMAIN tasks : tasks'[i] = tasks[i]
      /\ tasks'[Len(tasks) + 1] = task
  BY AnotherQueued, QueuedTyped
<1>2. \A i \in DOMAIN tasks' : i \in DOMAIN tasks \/ i = Len(tasks) + 1
  BY <1>1
<1> QED
  BY <1>1, <1>2 DEF QueueKinds

LEMMA BaseNext == Base /\ [Next]_vars => Base'
<1> SUFFICES ASSUME Base, [Next]_vars PROVE Base'
  OBVIOUS
<1> USE DEF Base
<1>0. Inv'
  BY NextInv
<1>1. ASSUME UNCHANGED <<head, log, lastSeen, tasks>> PROVE Base'
  BY <1>0, <1>1 DEF LogInv, QueueKinds
<1>2. CASE Mine
  <2>1. LogInv' /\ UNCHANGED <<lastSeen, tasks>>
    BY <1>2, Mined
  <2> QED
    BY <1>0, <2>1 DEF QueueKinds
<1>3. CASE Connect \/ HeadFetched \/ Subscribe \/ Disconnect \/ Receive \/ CatchUpFails \/ UNCHANGED vars
  BY <1>1, <1>3
  DEF Connect, HeadFetched, Subscribe, Disconnect, Receive, CatchUpFails, vars, chainVars, listenerVars
<1>4. CASE SubscriptionAcknowledged \/ CatchUpHead
  <2>1. UNCHANGED <<head, log, tasks>>
    BY <1>4 DEF SubscriptionAcknowledged, CatchUpHead, chainVars
  <2>2. UNCHANGED lastSeen
    BY <1>4 DEF SubscriptionAcknowledged, CatchUpHead, CatchUpFrom
  <2> QED
    BY <1>1, <2>1, <2>2
<1>5. ASSUME NEW source \in {"live", "catchUp"}, NEW events \in SUBSET log,
             Deliver(source, events), UNCHANGED <<head, log, lastSeen>>
      PROVE  Base'
  <2> DEFINE fresh == After(events, lastSeen)
  <2>1. CASE tasks' = tasks
    BY <1>1, <1>5, <2>1
  <2>2. ASSUME fresh # {}, NEW task \in Task, task.source = source, task.batch = fresh,
               tasks' = Append(tasks, task)
        PROVE  Base'
    <3>1. task.source # "reconcile" /\ task.batch # {}
      BY <2>2
    <3>2. QueueKinds'
      BY <2>2, <3>1, KindWhenQueued
    <3> QED
      BY <1>0, <1>5, <3>2 DEF LogInv
  <2> QED
    BY <1>5, <2>1, <2>2, Delivered
<1>6. CASE Flush
  BY <1>5, <1>6 DEF Flush, chainVars, Inv, TypeOK
<1>7. CASE CatchUpFetched
  <2> DEFINE events == EventsBetween(log, catchUp.from.block, catchUp.to, catchUp.from)
  <2>1. Deliver("catchUp", events) /\ UNCHANGED <<head, log, lastSeen>>
    BY <1>7 DEF CatchUpFetched, chainVars
  <2>2. events \in SUBSET log
    BY DEF EventsBetween, After
  <2> QED
    BY <1>5, <2>1, <2>2
<1>8. CASE \E succeeded \in BOOLEAN : Settle(succeeded)
  <2>1. /\ tasks # <<>> /\ tasks' = Tail(tasks) /\ UNCHANGED <<head, log>>
        /\ \/ lastSeen' = lastSeen
           \/ \E e \in Head(tasks).batch : lastSeen' = MaxCursor(lastSeen, e.cursor)
    BY <1>8 DEF Settle, Advance, chainVars
  <2>2. /\ Head(tasks).batch \subseteq log
        /\ \A i \in DOMAIN tasks' : i + 1 \in DOMAIN tasks /\ tasks'[i] = tasks[i + 1]
    BY <2>1, FirstLeaves, QueuedTyped
  <2>3. lastSeen' # NoCursor
    BY <2>1, <2>2, EventCursors DEF MaxCursor, NoCursor
  <2> QED
    BY <1>0, <2>1, <2>2, <2>3 DEF LogInv, QueueKinds
<1> QED
  BY <1>2, <1>3, <1>4, <1>6, <1>7, <1>8 DEF Next, CatchUpRequest

-----------------------------------------------------------------------------
(***************************************************************************)
(* Batches end in the order of the chain, as long as nothing is flushed    *)
(* while a catch-up is under way.  Logs are received in the order of the   *)
(* chain, so live batches are in order; and a catch-up reads up to a head  *)
(* that is no older than any live log that is queued by then.              *)
(***************************************************************************)
NoOvertaking == Hazards \cap {"flushDuringCatchUp", "flushWhileDelivering"} = {}

\* Finitely many logs, each at a position of its own.
Ordered(events) ==
    /\ events \subseteq Event /\ IsFiniteSet(events)
    /\ \A e, f \in events : e.cursor = f.cursor => e = f

LEMMA OrderedPart ==
    ASSUME NEW events, Ordered(events), NEW part \in SUBSET events
    PROVE  Ordered(part)
BY FS_Subset DEF Ordered

\* Some log of a batch is the last, and some log is the first.
LEMMA LastExists ==
    ASSUME NEW events, Ordered(events), events # {}
    PROVE  /\ LastOf(events) \in events
           /\ \A f \in events : AtOrBefore(f.cursor, LastOf(events).cursor)
           /\ \E e \in events : \A f \in events : AtOrBefore(e.cursor, f.cursor)
<1>1. \A e \in events : e.cursor \in Cursor
  BY MadeCursors DEF Ordered
<1> DEFINE R == {p \in events \X events : AtOrBefore(p[1].cursor, p[2].cursor)}
           Q == {p \in events \X events : AtOrBefore(p[2].cursor, p[1].cursor)}
<1>2. \A x, y \in events : AtOrBefore(x.cursor, y.cursor) \/ AtOrBefore(y.cursor, x.cursor)
  BY <1>1, CursorOrder DEF AtOrBefore
<1>3. \A x, y, z \in events :
        AtOrBefore(x.cursor, y.cursor) /\ AtOrBefore(y.cursor, z.cursor) => AtOrBefore(x.cursor, z.cursor)
  BY <1>1, CursorOrder
<1>4. /\ \A x, y \in events : <<x, y>> \in R <=> AtOrBefore(x.cursor, y.cursor)
      /\ \A x, y \in events : <<x, y>> \in Q <=> AtOrBefore(y.cursor, x.cursor)
  OBVIOUS
<1> HIDE DEF R, Q
<1>5. PICK e \in events : \A f \in events : <<f, e>> \in R
  BY <1>2, <1>3, <1>4, GreatestExists DEF Ordered
<1>6. PICK d \in events : \A f \in events : <<f, d>> \in Q
  BY <1>2, <1>3, <1>4, GreatestExists DEF Ordered
<1>7. IsLast(e, events)
  BY <1>4, <1>5 DEF IsLast
<1> QED
  BY <1>4, <1>6, <1>7 DEF LastOf, IsLast

\* A log that no log of the batch follows is its last.
LEMMA LastUnique ==
    ASSUME NEW events, Ordered(events), NEW e \in events,
           \A f \in events : AtOrBefore(f.cursor, e.cursor)
    PROVE  LastOf(events) = e
<1>1. /\ LastOf(events) \in events
      /\ AtOrBefore(e.cursor, LastOf(events).cursor) /\ AtOrBefore(LastOf(events).cursor, e.cursor)
  BY LastExists
<1>2. e.cursor \in Cursor /\ LastOf(events).cursor \in Cursor
  BY <1>1, MadeCursors DEF Ordered
<1>3. LastOf(events).cursor = e.cursor
  BY <1>1, <1>2, CursorOrder
<1> QED
  BY <1>1, <1>3 DEF Ordered

\* The logs of the chain so far are finitely many.
LEMMA LogOrdered == Inv /\ LogInv => Ordered(log)
<1> SUFFICES ASSUME Inv, LogInv PROVE Ordered(log)
  OBVIOUS
<1> DEFINE placeOf == [e \in log |-> <<e.cursor.block, e.cursor.index>>]
           places == (0 .. head) \X (0 .. LastIndex - 1)
<1>1. head \in Nat /\ log \subseteq Event
  BY ListenerAssumption DEF Inv, TypeOK
<1>2. \A e \in log : e.cursor.block \in 0 .. head /\ e.cursor.index \in 0 .. LastIndex - 1
                     /\ e.cursor = [block |-> e.cursor.block, index |-> e.cursor.index]
  BY <1>1 DEF LogInv, Event, EventPosition
<1>3. \A e, f \in log : placeOf[e] = placeOf[f] => e = f
  <2> SUFFICES ASSUME NEW e \in log, NEW f \in log, placeOf[e] = placeOf[f] PROVE e = f
    OBVIOUS
  <2>1. e.cursor.block = f.cursor.block /\ e.cursor.index = f.cursor.index
    OBVIOUS
  <2>2. e.cursor = f.cursor
    BY <1>2, <2>1
  <2> QED
    BY <2>2 DEF LogInv
<1>4. placeOf \in [log -> places]
  BY <1>2
<1>5. IsFiniteSet(places)
  <2>1. IsFiniteSet(0 .. head) /\ IsFiniteSet(0 .. LastIndex - 1)
    BY <1>1, LastIndexAssumption, FS_Interval
  <2> QED
    BY <2>1, FS_Product
<1> HIDE DEF placeOf, places
<1>6. placeOf \in Injection(log, places)
  BY <1>3, <1>4, Fun_IsInj
<1>7. IsFiniteSet(log)
  BY <1>5, <1>6, FS_Injection
<1> QED
  BY <1>1, <1>7 DEF Ordered, LogInv

OrderInv ==
    /\ BatchesEndInOrder
    /\ \A e, f \in log : FromLive(e) /\ f \in pending => Before(e.cursor, f.cursor)
    /\ \A e, f \in log : (FromLive(e) \/ e \in pending) /\ f \in wire => Before(e.cursor, f.cursor)
    /\ catchUp.phase = "fetching" =>
           /\ AtOrBefore(catchUp.from, lastSeen)
           /\ \A e \in log : FromLive(e) => e.cursor.block <= catchUp.to
    /\ conn \in {"connecting", "subscribed"} /\ startedHead # NoHead =>
           \A e \in log : FromLive(e) \/ e \in pending => e.cursor.block <= startedHead
    /\ conn \in {"down", "connecting"} => wire = {}

\* The order is kept when the first task leaves, whether its batch was done or not.
LEMMA OrderWhenFirstLeaves ==
    ASSUME Inv, BatchesEndInOrder, tasks # <<>>, tasks' = Tail(tasks),
           \/ lastSeen' = lastSeen
           \/ \E e \in Head(tasks).batch : lastSeen' = MaxCursor(lastSeen, e.cursor)
    PROVE  BatchesEndInOrder'
<1> SUFFICES ASSUME NEW i \in DOMAIN tasks', tasks'[i].batch # {}
             PROVE  \E e \in tasks'[i].batch :
                      /\ AtOrBefore(lastSeen', e.cursor)
                      /\ \A j \in 1 .. i - 1 : \A f \in tasks'[j].batch : AtOrBefore(f.cursor, e.cursor)
  BY DEF BatchesEndInOrder
<1>1. /\ Head(tasks) = tasks[1] /\ DOMAIN tasks' = 1 .. Len(tasks) - 1 /\ Len(tasks) \in Nat
      /\ \A k \in DOMAIN tasks' : k + 1 \in DOMAIN tasks /\ tasks'[k] = tasks[k + 1]
  BY FirstLeaves, QueuedTyped
<1>2. PICK e \in tasks[i + 1].batch :
        /\ AtOrBefore(lastSeen, e.cursor)
        /\ \A j \in 1 .. i : \A f \in tasks[j].batch : AtOrBefore(f.cursor, e.cursor)
  BY <1>1 DEF BatchesEndInOrder
<1>3. AtOrBefore(lastSeen', e.cursor)
  <2>1. CASE lastSeen' = lastSeen
    BY <1>2, <2>1
  <2>2. ASSUME NEW g \in Head(tasks).batch, lastSeen' = MaxCursor(lastSeen, g.cursor)
        PROVE  AtOrBefore(lastSeen', e.cursor)
    BY <1>1, <1>2, <2>2 DEF MaxCursor
  <2> QED
    BY <2>1, <2>2
<1>4. \A j \in 1 .. i - 1 : \A f \in tasks'[j].batch : AtOrBefore(f.cursor, e.cursor)
  <2> SUFFICES ASSUME NEW j \in 1 .. i - 1, NEW f \in tasks'[j].batch
               PROVE  AtOrBefore(f.cursor, e.cursor)
    OBVIOUS
  <2>1. j \in DOMAIN tasks' /\ j + 1 \in 1 .. i
    BY <1>1
  <2> QED
    BY <1>1, <1>2, <2>1
<1> QED
  BY <1>1, <1>2, <1>3, <1>4

\* It is kept when a batch is queued that ends after all that is queued.
LEMMA OrderWhenQueued ==
    ASSUME Inv, BatchesEndInOrder, lastSeen' = lastSeen,
           NEW task \in Task, tasks' = Append(tasks, task),
           task.batch = {} \/ \E e \in task.batch :
                                /\ AtOrBefore(lastSeen, e.cursor)
                                /\ \A i \in DOMAIN tasks : \A f \in tasks[i].batch :
                                        AtOrBefore(f.cursor, e.cursor)
    PROVE  BatchesEndInOrder'
<1> SUFFICES ASSUME NEW i \in DOMAIN tasks', tasks'[i].batch # {}
             PROVE  \E e \in tasks'[i].batch :
                      /\ AtOrBefore(lastSeen, e.cursor)
                      /\ \A j \in 1 .. i - 1 : \A f \in tasks'[j].batch : AtOrBefore(f.cursor, e.cursor)
  BY DEF BatchesEndInOrder
<1>1. /\ DOMAIN tasks' = 1 .. Len(tasks) + 1 /\ DOMAIN tasks = 1 .. Len(tasks) /\ Len(tasks) \in Nat
      /\ \A j \in DOMAIN tasks : tasks'[j] = tasks[j]
      /\ tasks'[Len(tasks) + 1] = task
  BY AnotherQueued, QueuedTyped
<1>2. CASE i \in DOMAIN tasks
  <2>1. PICK e \in tasks[i].batch :
          /\ AtOrBefore(lastSeen, e.cursor)
          /\ \A j \in 1 .. i - 1 : \A f \in tasks[j].batch : AtOrBefore(f.cursor, e.cursor)
    BY <1>1, <1>2 DEF BatchesEndInOrder
  <2>2. \A j \in 1 .. i - 1 : j \in DOMAIN tasks
    BY <1>1, <1>2
  <2> QED
    BY <1>1, <1>2, <2>1, <2>2
<1>3. CASE i = Len(tasks) + 1
  <2>1. \A j \in 1 .. i - 1 : j \in DOMAIN tasks
    BY <1>1, <1>3
  <2> QED
    BY <1>1, <1>3, <2>1
<1> QED
  BY <1>1, <1>2, <1>3

\* A batch of live logs is handed over, with no catch-up under way.
LEMMA FlushInOrder == NoOvertaking /\ Base /\ OrderInv /\ Flush /\ Base' => OrderInv'
<1> SUFFICES ASSUME NoOvertaking, Base, OrderInv, Flush, Base' PROVE OrderInv'
  OBVIOUS
<1> USE DEF Base
<1> DEFINE fresh == After(pending, lastSeen)
<1>1. /\ pending # {} /\ catchUp.phase = "idle" /\ Deliver("live", pending) /\ pending' = {}
      /\ UNCHANGED <<head, log, conn, startedHead, wire, lastSeen, catchUp>>
  BY DEF Flush, NoOvertaking, chainVars, socketVars
<1>2. \A i \in DOMAIN tasks : tasks[i].source # "catchUp"
  BY <1>1 DEF Inv, OneCatchUpInFlight
<1>3. \A i \in DOMAIN tasks : \A e \in tasks[i].batch, f \in pending : Before(e.cursor, f.cursor)
  <2> SUFFICES ASSUME NEW i \in DOMAIN tasks, NEW e \in tasks[i].batch, NEW f \in pending
               PROVE  Before(e.cursor, f.cursor)
    OBVIOUS
  <2>1. tasks[i].source \in {"live", "reconcile"}
    BY <1>2, QueuedTyped
  <2>2. FromLive(e) /\ e \in log /\ f \in log
    BY <2>1, QueuedTyped DEF FromLive, QueueKinds
  <2> QED
    BY <2>2 DEF OrderInv
<1>4. CASE fresh = {} /\ tasks' = tasks
  <2>1. \A e : FromLive(e)' => FromLive(e)
    BY <1>4 DEF FromLive
  <2>2. BatchesEndInOrder'
    BY <1>1, <1>4 DEF BatchesEndInOrder, OrderInv
  <2> QED
    BY <1>1, <1>4, <2>1, <2>2 DEF OrderInv
<1>5. ASSUME fresh # {}, NEW task \in Task, task.source = "live", task.batch = fresh,
             tasks' = Append(tasks, task)
      PROVE  OrderInv'
  <2>1. \E e \in fresh : /\ AtOrBefore(lastSeen, e.cursor)
                         /\ \A i \in DOMAIN tasks : \A f \in tasks[i].batch :
                                AtOrBefore(f.cursor, e.cursor)
    BY <1>3, <1>5 DEF After, AtOrBefore
  <2>2. BatchesEndInOrder'
    BY <1>1, <1>5, <2>1, OrderWhenQueued DEF OrderInv
  <2>3. /\ DOMAIN tasks' = 1 .. Len(tasks) + 1
        /\ \A i \in DOMAIN tasks : tasks'[i] = tasks[i]
        /\ tasks'[Len(tasks) + 1] = task
        /\ \A e : FromLive(e)' => FromLive(e) \/ e \in pending
    BY <1>5, AnotherQueued DEF After
  <2> QED
    BY <1>1, <2>2, <2>3 DEF OrderInv
<1> QED
  BY <1>1, <1>4, <1>5, Delivered DEF Inv, TypeOK

\* A catch-up's batch: it takes in every live log that is queued and not covered.
LEMMA CatchUpInOrder == Base /\ OrderInv /\ CatchUpFetched /\ Base' => OrderInv'
<1> SUFFICES ASSUME Base, OrderInv, CatchUpFetched, Base' PROVE OrderInv'
  OBVIOUS
<1> USE DEF Base
<1> DEFINE events == EventsBetween(log, catchUp.from.block, catchUp.to, catchUp.from)
           fresh == After(events, lastSeen)
<1>1. /\ catchUp.phase = "fetching" /\ Deliver("catchUp", events)
      /\ catchUp' = IF fresh = {} THEN Idle ELSE [catchUp EXCEPT !.phase = "delivering"]
      /\ UNCHANGED <<head, log, conn, startedHead, wire, lastSeen, pending>>
  BY DEF CatchUpFetched, chainVars, socketVars
<1>2. events \in SUBSET log /\ catchUp'.phase \in {"idle", "delivering"}
  BY <1>1 DEF EventsBetween, After, Idle, Inv, TypeOK
<1>3. \A i \in DOMAIN tasks : tasks[i].source # "catchUp"
  BY <1>1 DEF Inv, OneCatchUpInFlight
<1>4. ASSUME NEW f \in log, FromLive(f), Before(lastSeen, f.cursor)
      PROVE  f \in fresh
  <2>1. /\ f.cursor \in Cursor /\ f.cursor.block \in Nat
        /\ catchUp.from \in Cursor /\ lastSeen \in Cursor
        /\ AtOrBefore(catchUp.from, lastSeen) /\ f.cursor.block <= catchUp.to
        /\ catchUp.to \in Int
    BY <1>1, <1>4, EventCursors, ListenerAssumption DEF OrderInv, Inv, TypeOK, NoHead
  <2>2. Before(catchUp.from, f.cursor) /\ catchUp.from.block \in Int
    BY <1>4, <2>1, CursorOrder DEF Cursor, AtOrBefore, Before
  <2>3. f.cursor.block \in catchUp.from.block .. catchUp.to
    BY <2>1, <2>2 DEF Before
  <2> QED
    BY <1>4, <2>2, <2>3 DEF EventsBetween, After
<1>5. CASE fresh = {} /\ tasks' = tasks
  <2>1. \A e : FromLive(e)' <=> FromLive(e)
    BY <1>5 DEF FromLive
  <2>2. BatchesEndInOrder'
    BY <1>1, <1>5 DEF BatchesEndInOrder, OrderInv
  <2> QED
    BY <1>1, <1>2, <1>5, <2>1, <2>2 DEF OrderInv
<1>6. ASSUME fresh # {}, NEW task \in Task, task.source = "catchUp", task.batch = fresh,
             tasks' = Append(tasks, task)
      PROVE  OrderInv'
  <2> DEFINE last == LastOf(fresh)
  <2>1. fresh \in SUBSET log /\ Ordered(fresh)
    BY <1>2, LogOrdered, OrderedPart DEF After, OrderInv
  <2>2. last \in fresh /\ \A f \in fresh : AtOrBefore(f.cursor, last.cursor)
    BY <1>6, <2>1, LastExists
  <2> HIDE DEF last
  <2>3. last.cursor \in Cursor /\ lastSeen \in Cursor /\ Before(lastSeen, last.cursor)
    BY <2>1, <2>2, EventCursors, QueuedTyped DEF After
  <2>4. \A i \in DOMAIN tasks : \A f \in tasks[i].batch : AtOrBefore(f.cursor, last.cursor)
    <3> SUFFICES ASSUME NEW i \in DOMAIN tasks, NEW f \in tasks[i].batch
                 PROVE  AtOrBefore(f.cursor, last.cursor)
      OBVIOUS
    <3>1. tasks[i].source \in {"live", "reconcile"}
      BY <1>3, QueuedTyped
    <3>2. FromLive(f) /\ f \in log /\ f.cursor \in Cursor
      BY <3>1, QueuedTyped, EventCursors DEF FromLive, QueueKinds
    <3>3. CASE Before(lastSeen, f.cursor)
      BY <1>4, <2>2, <3>2, <3>3
    <3>4. CASE AtOrBefore(f.cursor, lastSeen)
      BY <2>3, <3>2, <3>4, CursorOrder DEF AtOrBefore
    <3> QED
      BY <2>3, <3>2, <3>3, <3>4, CursorOrder
  <2>5. BatchesEndInOrder'
    <3>1. AtOrBefore(lastSeen, last.cursor)
      BY <2>3 DEF AtOrBefore
    <3>2. BatchesEndInOrder /\ lastSeen' = lastSeen
      BY <1>1 DEF OrderInv
    <3> QED
      BY <1>6, <2>2, <2>4, <3>1, <3>2, OrderWhenQueued
  <2>6. /\ DOMAIN tasks' = 1 .. Len(tasks) + 1
        /\ \A i \in DOMAIN tasks : tasks'[i] = tasks[i]
        /\ tasks'[Len(tasks) + 1] = task
        /\ \A e : FromLive(e)' => FromLive(e)
    BY <1>6, AnotherQueued
  <2> QED
    BY <1>1, <1>2, <2>5, <2>6 DEF OrderInv
<1> QED
  BY <1>1, <1>2, <1>5, <1>6, Delivered

\* The head of a catch-up is known: no queued live log lies after it.
LEMMA CatchUpFromInOrder ==
    ASSUME Base, NEW to \in 0 .. MaxBlock, CatchUpFrom(to),
           \A e \in log : FromLive(e) => e.cursor.block <= to
    PROVE  /\ lastSeen' = lastSeen
           /\ catchUp'.phase = "fetching" =>
                  /\ AtOrBefore(catchUp'.from, lastSeen)
                  /\ \A e \in log : FromLive(e) => e.cursor.block <= catchUp'.to
BY DEF CatchUpFrom, Base, Idle, AtOrBefore

LEMMA OrderNext == NoOvertaking /\ Base /\ OrderInv /\ [Next]_vars => OrderInv'
<1> SUFFICES ASSUME NoOvertaking, Base, OrderInv, [Next]_vars PROVE OrderInv'
  OBVIOUS
<1> USE DEF Base
<1>0. /\ Base'
      /\ \A e : FromLive(e) => e \in log
      /\ \A e \in log : e.cursor \in Cursor /\ e.cursor.block \in Nat /\ e.cursor.block <= head
      /\ pending \subseteq log /\ wire \subseteq log /\ head \in Nat
  BY BaseNext, QueuedTyped, EventCursors DEF LogInv
<1>1. CASE Mine
  <2>1. PICK new \in SUBSET Event :
             /\ head' = head + 1 /\ log' = log \cup new
             /\ wire' = IF conn \in {"subscribed", "live"} THEN wire \cup new ELSE wire
             /\ UNCHANGED <<conn, startedHead, lastSeen, pending, catchUp, tasks, processed>>
             /\ \A f \in new : f.cursor.block = head + 1
             /\ \A e \in log, f \in new : Before(e.cursor, f.cursor)
             /\ LogInv'
    BY <1>1, Mined DEF OrderInv
  <2>2. \A e : FromLive(e)' <=> FromLive(e)
    BY <2>1 DEF FromLive
  <2>3. BatchesEndInOrder'
    BY <2>1 DEF OrderInv, BatchesEndInOrder
  <2>4. \A e, f \in log' : (FromLive(e) \/ e \in pending) /\ f \in wire' => Before(e.cursor, f.cursor)
    BY <1>0, <2>1 DEF OrderInv
  <2> QED
    BY <1>0, <2>1, <2>2, <2>3, <2>4 DEF OrderInv
<1>2. CASE Connect \/ HeadFetched \/ Subscribe \/ Disconnect \/ UNCHANGED vars
  <2>1. UNCHANGED <<head, log, lastSeen, pending, catchUp, tasks>>
    BY <1>2 DEF Connect, HeadFetched, Subscribe, Disconnect, chainVars, listenerVars, vars
  <2>2. BatchesEndInOrder' /\ \A e : FromLive(e)' <=> FromLive(e)
    BY <2>1 DEF OrderInv, BatchesEndInOrder, FromLive
  <2>3. wire' \subseteq wire /\ (conn' \in {"down", "connecting"} => wire' = {})
    BY <1>2 DEF Connect, HeadFetched, Subscribe, Disconnect, vars, socketVars, OrderInv
  <2>4. conn' \in {"connecting", "subscribed"} /\ startedHead' # NoHead =>
           \A e \in log : FromLive(e) \/ e \in pending => e.cursor.block <= startedHead'
    BY <1>0, <1>2 DEF Connect, HeadFetched, Subscribe, Disconnect, vars, socketVars, OrderInv
  <2> QED
    BY <2>1, <2>2, <2>3, <2>4 DEF OrderInv
<1>3. CASE SubscriptionAcknowledged \/ CatchUpHead \/ CatchUpFails
  <2>1. /\ UNCHANGED <<head, log, wire, pending, tasks>>
        /\ conn' \in {conn, "live"} /\ startedHead' = startedHead
    BY <1>3 DEF SubscriptionAcknowledged, CatchUpHead, CatchUpFails, chainVars, socketVars
  <2>2. BatchesEndInOrder /\ \A e : FromLive(e)' <=> FromLive(e)
    BY <2>1 DEF OrderInv, FromLive
  <2>3. /\ lastSeen' = lastSeen
        /\ catchUp'.phase = "fetching" =>
                  /\ AtOrBefore(catchUp'.from, lastSeen)
                  /\ \A e \in log : FromLive(e) => e.cursor.block <= catchUp'.to
    <3>1. CASE SubscriptionAcknowledged
      <4>1. CASE catchUp = Idle /\ startedHead # NoHead /\ CatchUpFrom(startedHead)
        <5>1. conn = "subscribed" /\ startedHead \in 0 .. MaxBlock
          BY <3>1, <4>1 DEF SubscriptionAcknowledged, Inv, TypeOK
        <5>2. \A e \in log : FromLive(e) => e.cursor.block <= startedHead
          BY <4>1, <5>1 DEF OrderInv
        <5> QED
          BY <4>1, <5>1, <5>2, CatchUpFromInOrder
      <4>2. CASE catchUp' = [Idle EXCEPT !.phase = "head"] /\ UNCHANGED lastSeen
        BY <4>2 DEF Idle
      <4>3. CASE UNCHANGED <<lastSeen, catchUp>>
        BY <4>3 DEF OrderInv
      <4> QED
        BY <3>1, <4>1, <4>2, <4>3 DEF SubscriptionAcknowledged
    <3>2. CASE CatchUpHead
      <4>1. head \in 0 .. MaxBlock /\ CatchUpFrom(head)
        BY <3>2 DEF CatchUpHead, Inv, TypeOK
      <4> QED
        BY <1>0, <4>1, CatchUpFromInOrder
    <3>3. CASE CatchUpFails
      BY <3>3 DEF CatchUpFails, Idle
    <3> QED
      BY <1>3, <3>1, <3>2, <3>3
  <2>4. BatchesEndInOrder'
    BY <2>1, <2>2, <2>3 DEF BatchesEndInOrder
  <2> QED
    BY <2>1, <2>2, <2>3, <2>4 DEF OrderInv
<1>4. CASE Receive
  <2>1. PICK e \in wire : /\ \A f \in wire : AtOrBefore(e.cursor, f.cursor)
                          /\ wire' = wire \ {e} /\ pending' = pending \cup {e}
    BY <1>4 DEF Receive
  <2>2. conn = "live" /\ UNCHANGED <<head, log, conn, startedHead, lastSeen, catchUp, tasks>>
    BY <1>4 DEF Receive, chainVars
  <2>3. BatchesEndInOrder' /\ \A f : FromLive(f)' <=> FromLive(f)
    BY <2>2 DEF OrderInv, BatchesEndInOrder, FromLive
  <2>4. \A f \in wire' : Before(e.cursor, f.cursor)
    BY <1>0, <2>1 DEF OrderInv, LogInv, AtOrBefore
  <2>5. \A d \in log : FromLive(d) => Before(d.cursor, e.cursor)
    BY <1>0, <2>1 DEF OrderInv
  <2>6. \A d, f \in log : (FromLive(d) \/ d \in pending') /\ f \in wire' => Before(d.cursor, f.cursor)
    BY <1>0, <2>1, <2>4 DEF OrderInv
  <2> QED
    BY <2>1, <2>2, <2>3, <2>5, <2>6 DEF OrderInv
<1>5. CASE \E succeeded \in BOOLEAN : Settle(succeeded)
  <2>1. /\ tasks # <<>> /\ tasks' = Tail(tasks)
        /\ UNCHANGED <<head, log, conn, startedHead, wire, pending>>
        /\ catchUp' \in {Idle, catchUp}
        /\ \/ lastSeen' = lastSeen
           \/ \E e \in Head(tasks).batch : lastSeen' = MaxCursor(lastSeen, e.cursor)
    BY <1>5 DEF Settle, Advance, chainVars, socketVars
  <2>2. BatchesEndInOrder'
    BY <2>1, OrderWhenFirstLeaves DEF OrderInv
  <2>3. /\ \A i \in DOMAIN tasks' : i + 1 \in DOMAIN tasks /\ tasks'[i] = tasks[i + 1]
        /\ \A e : FromLive(e)' => FromLive(e)
    BY <2>1, FirstLeaves
  <2>4. lastSeen \in Cursor /\ lastSeen' \in Cursor /\ AtOrBefore(lastSeen, lastSeen')
    BY NextInv DEF Inv, TypeOK
  <2>5. catchUp'.phase = "fetching" =>
           /\ AtOrBefore(catchUp'.from, lastSeen')
           /\ \A e \in log : FromLive(e) => e.cursor.block <= catchUp'.to
    <3> SUFFICES ASSUME catchUp' = catchUp, catchUp.phase = "fetching"
                 PROVE  /\ AtOrBefore(catchUp.from, lastSeen')
                        /\ \A e \in log : FromLive(e) => e.cursor.block <= catchUp.to
      BY <2>1 DEF Idle
    <3> QED
      BY <2>4, CursorOrder DEF OrderInv, Inv, TypeOK
  <2> QED
    BY <2>1, <2>2, <2>3, <2>5 DEF OrderInv
<1> QED
  BY <1>0, <1>1, <1>2, <1>3, <1>4, <1>5, FlushInOrder, CatchUpInOrder DEF Next, CatchUpRequest

LEMMA OrderInit == Init => OrderInv
<1> SUFFICES ASSUME Init PROVE OrderInv
  OBVIOUS
<1>1. /\ log = {} /\ DOMAIN tasks = {} /\ catchUp.phase = "idle" /\ wire = {}
  BY DEF Init, Idle
<1> QED
  BY <1>1 DEF OrderInv, BatchesEndInOrder

\* The listener hands batches over in the order in which they end, as long as no
\* flush comes between the start of a catch-up and its result (realtime.ts,
\* flushPendingEvents does not look at catchUpInFlight).
THEOREM ListenerBatchesInOrder ==
    NoOvertaking /\ StartCursor # NoCursor => (Spec => []BatchesEndInOrder)
<1>1. SUFFICES ASSUME NoOvertaking, StartCursor # NoCursor PROVE Spec => []BatchesEndInOrder
  OBVIOUS
<1>2. Init => Base /\ OrderInv
  BY <1>1, BaseInit, OrderInit
<1>3. Base /\ OrderInv /\ [Next]_vars => (Base /\ OrderInv)'
  BY <1>1, BaseNext, OrderNext
<1>4. OrderInv => BatchesEndInOrder
  BY DEF OrderInv
<1> QED
  BY <1>2, <1>3, <1>4, PTL DEF Spec

-----------------------------------------------------------------------------
(* The affiliate map: its reverse index is exact, and after a batch it has a *)
(* human where the human's last event of the batch leads.                    *)

ExactMaps == {m \in AffiliateMapType : m.toHumans = MembersOf(m.toGroup)}

LEMMA MapSetExact ==
    ASSUME NEW m \in ExactMaps, NEW h \in Humans, NEW g \in Groups, NEW b \in Int
    PROVE  /\ MapSet(m, h, g, b) \in ExactMaps
           /\ MapSet(m, h, g, b).toGroup = [m.toGroup EXCEPT ![h] = g]
<1> DEFINE n == MapSet(m, h, g, b)
<1>1. /\ m.toGroup \in [Humans -> Groups \cup {NoGroup}] /\ m.block \in Int
      /\ m.toHumans = [x \in Groups |-> {k \in Humans : m.toGroup[k] = x}]
  BY DEF ExactMaps, AffiliateMapType, Entries, MembersOf
<1>2. Later(b, m.block) \in Int
  BY <1>1 DEF Later
<1>3. CASE m.toGroup[h] = g
  <2>1. n = [m EXCEPT !.block = Later(b, m.block)]
    BY <1>3 DEF MapSet
  <2>2. [m.toGroup EXCEPT ![h] = g] = m.toGroup
    BY <1>1, <1>3
  <2> QED
    BY <1>2, <2>1, <2>2 DEF ExactMaps, AffiliateMapType
<1>4. CASE m.toGroup[h] # g
  <2> DEFINE entries == [m.toGroup EXCEPT ![h] = g]
  <2>1. /\ n.toGroup = entries /\ n.block = Later(b, m.block)
        /\ n.toHumans = [x \in Groups |->
                IF x = g THEN m.toHumans[x] \cup {h}
                ELSE IF x = m.toGroup[h] THEN m.toHumans[x] \ {h}
                ELSE m.toHumans[x]]
        /\ n \in [toGroup : {n.toGroup}, toHumans : {n.toHumans},
                  block : {n.block}, dirty : BOOLEAN]
    BY <1>4 DEF MapSet
  <2>2. entries \in Entries /\ \A k \in Humans : entries[k] = IF k = h THEN g ELSE m.toGroup[k]
    BY <1>1 DEF Entries
  <2>3. n.toHumans = MembersOf(entries)
    BY <1>1, <2>1, <2>2 DEF MembersOf
  <2>4. n.toHumans \in [Groups -> SUBSET Humans]
    BY <2>3 DEF MembersOf
  <2> HIDE DEF n
  <2>5. n \in AffiliateMapType
    BY <1>2, <2>1, <2>2, <2>4 DEF AffiliateMapType
  <2>6. n \in ExactMaps /\ n.toGroup = [m.toGroup EXCEPT ![h] = g]
    BY <2>1, <2>3, <2>5 DEF ExactMaps
  <2> QED
    BY <2>6 DEF n
<1> QED
  BY <1>3, <1>4

LEMMA MapsAreExact ==
    /\ \A m \in ExactMaps, b \in Int : AdvanceTo(m, b) \in ExactMaps
    /\ \A m \in ExactMaps : [m EXCEPT !.dirty = FALSE] \in ExactMaps
    /\ \A m \in ExactMaps : Snapshot(m) \in SnapshotType
    /\ \A s \in SnapshotType : FromSnapshot(s) \in ExactMaps
    /\ FreshMap \in ExactMaps
<1>1. \A m \in ExactMaps, b \in Int : AdvanceTo(m, b) \in ExactMaps
  BY DEF AdvanceTo, ExactMaps, AffiliateMapType
<1>2. \A m \in ExactMaps : [m EXCEPT !.dirty = FALSE] \in ExactMaps
  BY DEF ExactMaps, AffiliateMapType
<1>3. \A m \in ExactMaps : Snapshot(m) \in SnapshotType
  BY DEF Snapshot, SnapshotType, ExactMaps, AffiliateMapType
<1>4. \A s \in SnapshotType : FromSnapshot(s) \in ExactMaps
  <2> SUFFICES ASSUME NEW s \in SnapshotType PROVE FromSnapshot(s) \in ExactMaps
    OBVIOUS
  <2>1. MembersOf(s.entries) \in [Groups -> SUBSET Humans]
    BY DEF MembersOf
  <2> QED
    BY <2>1 DEF FromSnapshot, SnapshotType, ExactMaps, AffiliateMapType
<1>5. EmptySnapshot(StartBlock - 1) \in SnapshotType
  BY WorkerAssumption DEF EmptySnapshot, SnapshotType, Entries
<1> QED
  BY <1>1, <1>2, <1>3, <1>4, <1>5 DEF FreshMap

\* What an event says.
LEMMA EventSays ==
    ASSUME NEW e \in Event
    PROVE  /\ e.change.human \in Humans /\ e.change.from \in Groups /\ e.change.to \in Groups
           /\ e.cursor.block \in Int /\ e.cursor \in Cursor
BY MadeCursors, WorkerAssumption DEF Event

\* The last of a set is the last of each part that has it.
LEMMA LastOfPart ==
    ASSUME NEW events, Ordered(events), NEW part \in SUBSET events, LastOf(events) \in part
    PROVE  LastOf(part) = LastOf(events)
BY OrderedPart, LastExists, LastUnique

\* The recursion of ApplyEvents is well defined.
Unfolds(replay, m, batch) ==
    /\ ApplyEvents(m, batch) = replay[batch]
    /\ \A events \in SUBSET batch :
          replay[events] = IF events = {} THEN m
                           ELSE LET e == LastOf(events)
                                IN  MapSet(replay[events \ {e}], e.change.human, e.change.to,
                                           e.cursor.block)

LEMMA ApplyUnfolds ==
    ASSUME NEW m \in ExactMaps, NEW batch, Ordered(batch)
    PROVE  \E replay : Unfolds(replay, m, batch)
<1> DEFINE set(n, e) == MapSet(n, e.change.human, e.change.to, e.cursor.block)
           Step  == [p \in ExactMaps \X batch |-> set(p[1], p[2])]
           Last1 == [s \in SUBSET batch |-> LastOf(s)]
           Replays(f) == f = [events \in SUBSET batch |->
                                IF events = {} THEN m
                                ELSE set(f[events \ {LastOf(events)}], LastOf(events))]
<1>1. IsFiniteSet(batch) /\ batch \subseteq Event
  BY DEF Ordered
<1>2. Step \in [ExactMaps \X batch -> ExactMaps]
  <2>1. \A n \in ExactMaps, e \in batch : set(n, e) \in ExactMaps
    BY <1>1, EventSays, MapSetExact
  <2> HIDE DEF set
  <2> QED
    BY <2>1
<1>3. \A s \in (SUBSET batch) \ {{}} : LastOf(s) \in s
  BY OrderedPart, LastExists
<1>4. \A s, t \in SUBSET batch : s \subseteq t /\ Last1[t] \in s => Last1[s] = Last1[t]
  BY OrderedPart, LastOfPart
<1>5. PICK f \in [SUBSET batch -> ExactMaps] : FoldsAs(f, m, Step, Last1, SUBSET batch)
  <2>1. \A s \in (SUBSET batch) \ {{}} : Last1[s] \in s
    BY <1>3
  <2> HIDE DEF Step, Last1
  <2> QED
    BY <1>1, <1>2, <1>4, <2>1, FoldExists
<1>6. \A g \in [SUBSET batch -> ExactMaps] : Replays(g) <=> FoldsAs(g, m, Step, Last1, SUBSET batch)
  <2> SUFFICES ASSUME NEW g \in [SUBSET batch -> ExactMaps]
               PROVE  Replays(g) <=> FoldsAs(g, m, Step, Last1, SUBSET batch)
    OBVIOUS
  <2>1. ASSUME NEW events \in SUBSET batch, events # {}
        PROVE  set(g[events \ {LastOf(events)}], LastOf(events))
                   = Step[<<g[events \ {Last1[events]}], Last1[events]>>]
    <3>1. LastOf(events) \in batch /\ g[events \ {LastOf(events)}] \in ExactMaps
      BY <1>3, <2>1
    <3> HIDE DEF set
    <3> QED
      BY <3>1
  <2> HIDE DEF set, Step, Last1
  <2> QED
    BY <2>1 DEF FoldsAs
<1>7. Replays(f)
  BY <1>5, <1>6
<1> DEFINE replay == CHOOSE g : Replays(g)
<1>8. Replays(replay)
  BY <1>7
<1>9. ApplyEvents(m, batch) = replay[batch]
  BY DEF ApplyEvents
<1> HIDE DEF replay
<1>10. \A events \in SUBSET batch :
          replay[events] = IF events = {} THEN m
                           ELSE set(replay[events \ {LastOf(events)}], LastOf(events))
  <2> HIDE DEF set
  <2> QED
    BY <1>8
<1> QED
  BY <1>9, <1>10 DEF Unfolds

\* Where a map has a human after the events.
LedTo(m, events, h) == IF EventsOf(events, h) = {} THEN m.toGroup[h]
                       ELSE LastOf(EventsOf(events, h)).change.to

LEMMA EventsApplied ==
    ASSUME NEW m \in ExactMaps, NEW batch, Ordered(batch)
    PROVE  /\ ApplyEvents(m, batch) \in ExactMaps
           /\ \A h \in Humans : ApplyEvents(m, batch).toGroup[h] = LedTo(m, batch, h)
<1>1. PICK replay : Unfolds(replay, m, batch)
  BY ApplyUnfolds
<1> DEFINE Says(events) == /\ replay[events] \in ExactMaps
                           /\ \A h \in Humans : replay[events].toGroup[h] = LedTo(m, events, h)
           Good == {events \in SUBSET batch : Says(events)}
<1>2. {} \in Good
  <2>1. replay[{}] = m /\ \A h \in Humans : EventsOf({}, h) = {}
    BY <1>1 DEF Unfolds, EventsOf
  <2> QED
    BY <2>1 DEF LedTo
<1>3. ASSUME NEW events \in (SUBSET batch) \ {{}}
      PROVE  \E e \in events : events \ {e} \in Good => events \in Good
  <2> DEFINE e == LastOf(events)
             rest == events \ {e}
             n == replay[rest]
  <2>1. Ordered(events) /\ e \in events /\ \A f \in events : AtOrBefore(f.cursor, e.cursor)
    BY OrderedPart, LastExists
  <2> SUFFICES ASSUME rest \in Good PROVE Says(events)
    BY <2>1
  <2>2. /\ n \in ExactMaps /\ \A h \in Humans : n.toGroup[h] = LedTo(m, rest, h)
    OBVIOUS
  <2>3. replay[events] = MapSet(n, e.change.human, e.change.to, e.cursor.block)
    BY <1>1 DEF Unfolds
  <2>4. /\ e \in Event /\ e.change.human \in Humans /\ e.change.to \in Groups
        /\ e.cursor.block \in Int
    BY <2>1, EventSays DEF Ordered
  <2> HIDE DEF e, n, Good
  <2>5. /\ replay[events] \in ExactMaps
        /\ replay[events].toGroup = [n.toGroup EXCEPT ![e.change.human] = e.change.to]
    BY <2>2, <2>3, <2>4, MapSetExact
  <2>6. n.toGroup \in [Humans -> Groups \cup {NoGroup}]
    BY <2>2 DEF ExactMaps, AffiliateMapType, Entries
  <2>7. ASSUME NEW h \in Humans PROVE replay[events].toGroup[h] = LedTo(m, events, h)
    <3>1. CASE h # e.change.human
      <4>1. EventsOf(events, h) = EventsOf(rest, h)
        BY <3>1 DEF EventsOf
      <4> QED
        BY <2>2, <2>5, <2>6, <3>1, <4>1 DEF LedTo
    <3>2. CASE h = e.change.human
      <4>1. e \in EventsOf(events, h) /\ EventsOf(events, h) \in SUBSET events
        BY <2>1, <3>2 DEF EventsOf
      <4>2. LastOf(EventsOf(events, h)) = e
        BY <2>1, <4>1, OrderedPart, LastUnique
      <4> QED
        BY <2>5, <2>6, <3>2, <4>1, <4>2 DEF LedTo
    <3> QED
      BY <3>1, <3>2
  <2> QED
    BY <2>5, <2>7
<1>4. batch \in Good
  <2>1. IsFiniteSet(batch)
    BY DEF Ordered
  <2> HIDE DEF Good
  <2> QED
    BY <1>2, <1>3, <2>1, SubsetInduction
<1> QED
  BY <1>1, <1>4 DEF Unfolds

-----------------------------------------------------------------------------
(* Plans: who is told to be trusted where. *)

LEMMA OperationsAre ==
    ASSUME NEW op, NEW humansOf
    PROVE  Operations(op, humansOf)
               \in Seq({[op |-> op, group |-> g, humans |-> humansOf[g]] : g \in Managed})
<1> DEFINE S == {g \in Managed : humansOf[g] # {}}
           groups == SetToSeq(S)
           T == {[op |-> op, group |-> g, humans |-> humansOf[g]] : g \in Managed}
           made == [i \in DOMAIN groups |-> [op |-> op, group |-> groups[i], humans |-> humansOf[groups[i]]]]
<1>1. IsFiniteSet(S) /\ Cardinality(S) \in Nat
  BY WorkerAssumption, FS_Subset, FS_CardinalityType
<1>2. groups \in [1 .. Cardinality(S) -> S]
  BY <1>1, ElementsInSomeOrder
<1> HIDE DEF groups
<1>3. made \in [1 .. Cardinality(S) -> T]
  BY <1>2
<1>4. Operations(op, humansOf) = made
  BY DEF Operations, groups
<1> HIDE DEF made, T
<1>5. made \in Seq(T)
  BY <1>1, <1>3, SeqDef
<1> QED
  BY <1>4, <1>5 DEF T

Planned == [op : {"trust", "untrust"}, group : Managed, humans : SUBSET Humans]

\* A plan asks for trust in whom it is given to trust.
LEMMA PlanAsks ==
    ASSUME NEW untrusted \in [Managed -> SUBSET Humans], NEW trusted \in [Managed -> SUBSET Humans]
    PROVE  /\ PlanFor(untrusted, trusted) \in Seq(Planned)
           /\ \A i \in DOMAIN PlanFor(untrusted, trusted) :
                PlanFor(untrusted, trusted)[i].op = "trust" =>
                    PlanFor(untrusted, trusted)[i].humans = trusted[PlanFor(untrusted, trusted)[i].group]
<1> DEFINE first  == Operations("untrust", untrusted)
           second == Operations("trust", trusted)
           U == {[op |-> "untrust", group |-> g, humans |-> untrusted[g]] : g \in Managed}
           T == {[op |-> "trust", group |-> g, humans |-> trusted[g]] : g \in Managed}
<1>1. first \in Seq(U) /\ second \in Seq(T)
  BY OperationsAre
<1>2. U \cup T \subseteq Planned
  BY DEF Planned
<1>3. PlanFor(untrusted, trusted) = first \o second
  BY DEF PlanFor
<1> HIDE DEF first, second, U, T
<1>4. first \in Seq(U \cup T) /\ second \in Seq(U \cup T)
  BY <1>1, SequenceWidens
<1>5. first \o second \in Seq(U \cup T)
  BY <1>4, ConcatProperties
<1>6. \A i \in DOMAIN (first \o second) : (first \o second)[i] \in U \cup T
  BY <1>5, SequenceWidens, LenProperties
<1>7. \A x \in U \cup T : x.op = "trust" => x.humans = trusted[x.group]
  BY DEF U, T
<1>8. first \o second \in Seq(Planned)
  BY <1>2, <1>5, SequenceWidens
<1> QED
  BY <1>3, <1>6, <1>7, <1>8

\* A batch asks for trust where the last event that touches a group joins it.
LEMMA EventPlanAsks ==
    ASSUME NEW batch
    PROVE  /\ EventPlan(batch) \in Seq(Planned)
           /\ \A i \in DOMAIN EventPlan(batch) : EventPlan(batch)[i].op = "trust" =>
                \A h \in EventPlan(batch)[i].humans :
                    LET g == EventPlan(batch)[i].group
                    IN  h \in Humans /\ Touching(batch, h, g) # {}
                        /\ LastOf(Touching(batch, h, g)).change.to = g
<1> DEFINE touched == [g \in Managed |-> {h \in Humans : Touching(batch, h, g) # {}}]
           desired == [g \in Managed |-> {h \in touched[g] :
                           /\ LastOf(Touching(batch, h, g)).change.to = g
                           /\ Eligible(h, g)}]
           untrusted == [g \in Managed |-> (touched[g] \cap indexed[g]) \ desired[g]]
           trusted == [g \in Managed |-> desired[g] \ indexed[g]]
<1>1. EventPlan(batch) = PlanFor(untrusted, trusted)
  BY DEF EventPlan
<1>2. untrusted \in [Managed -> SUBSET Humans] /\ trusted \in [Managed -> SUBSET Humans]
  OBVIOUS
<1>3. \A g \in Managed : \A h \in trusted[g] :
        h \in Humans /\ Touching(batch, h, g) # {} /\ LastOf(Touching(batch, h, g)).change.to = g
  OBVIOUS
<1> HIDE DEF untrusted, trusted
<1>4. /\ EventPlan(batch) \in Seq(Planned)
      /\ \A i \in DOMAIN EventPlan(batch) : EventPlan(batch)[i].op = "trust" =>
            EventPlan(batch)[i].humans = trusted[EventPlan(batch)[i].group]
  BY <1>1, <1>2, PlanAsks
<1>5. \A i \in DOMAIN EventPlan(batch) : EventPlan(batch)[i].group \in Managed
  <2>1. \A i \in DOMAIN EventPlan(batch) : EventPlan(batch)[i] \in Planned
    BY <1>4, LenProperties, SequenceWidens
  <2> QED
    BY <2>1 DEF Planned
<1> QED
  BY <1>3, <1>4, <1>5

WorldInv == /\ trust \in [Managed -> SUBSET Humans] /\ indexed \in [Managed -> SUBSET Humans]
            /\ map \in ExactMaps /\ savedMap \in SnapshotType

\* A reconciliation asks for trust where the map has a human.
LEMMA ReconcilePlanAsks ==
    ASSUME WorldInv
    PROVE  /\ ReconcilePlan \in Seq(Planned)
           /\ \A i \in DOMAIN ReconcilePlan : ReconcilePlan[i].op = "trust" =>
                \A h \in ReconcilePlan[i].humans : map.toGroup[h] = ReconcilePlan[i].group
<1> DEFINE untrusted == [g \in Managed |-> {h \in indexed[g] : ~Eligible(h, g)}]
           trusted == [g \in Managed |-> {h \in AffiliatesOf(map, g) \ indexed[g] : Eligible(h, g)}]
<1>1. \A g \in Managed : AffiliatesOf(map, g) = {h \in Humans : map.toGroup[h] = g}
  BY WorkerAssumption DEF AffiliatesOf, WorldInv, ExactMaps, MembersOf
<1>2. untrusted \in [Managed -> SUBSET Humans] /\ trusted \in [Managed -> SUBSET Humans]
  BY <1>1 DEF WorldInv
<1>3. \A g \in Managed : \A h \in trusted[g] : map.toGroup[h] = g
  BY <1>1
<1>4. ReconcilePlan = PlanFor(untrusted, trusted)
  BY DEF ReconcilePlan
<1> HIDE DEF untrusted, trusted
<1>5. /\ ReconcilePlan \in Seq(Planned)
      /\ \A i \in DOMAIN ReconcilePlan : ReconcilePlan[i].op = "trust" =>
            ReconcilePlan[i].humans = trusted[ReconcilePlan[i].group]
  BY <1>2, <1>4, PlanAsks
<1>6. \A i \in DOMAIN ReconcilePlan : ReconcilePlan[i].group \in Managed
  <2>1. \A i \in DOMAIN ReconcilePlan : ReconcilePlan[i] \in Planned
    BY <1>5, LenProperties, SequenceWidens
  <2> QED
    BY <2>1 DEF Planned
<1> QED
  BY <1>3, <1>5, <1>6

-----------------------------------------------------------------------------
(***************************************************************************)
(* The worker.  A step of it is a step of the listener, or does one of     *)
(* four other things to the listener's state: the process ends, the cursor *)
(* is set before the listener starts, a reconciliation is queued, or one   *)
(* leaves the queue.  Whatever the listener's own steps keep, and these    *)
(* keep, the worker keeps.                                                 *)
(***************************************************************************)
Restarted ==
    /\ conn' = "down" /\ startedHead' = NoHead /\ wire' = {}
    /\ lastSeen' = StartCursor /\ pending' = {} /\ catchUp' = Idle /\ tasks' = <<>>
    /\ UNCHANGED <<chainVars, processed>>

CursorSet(cursor, batch) ==
    /\ phase # "live" /\ lastSeen' = cursor
    /\ processed' = processed \cup batch
    /\ UNCHANGED <<chainVars, socketVars, pending, catchUp, tasks>>

Ticked ==
    /\ tasks' = Append(tasks, [source |-> "reconcile", batch |-> {}])
    /\ UNCHANGED <<chainVars, socketVars, lastSeen, pending, catchUp, processed>>

Dropped == tasks # <<>> /\ Head(tasks).source = "reconcile" /\ DropTask

\* Before the worker is live the listener does nothing.
StartingInv ==
    phase # "live" => /\ tasks = <<>> /\ pending = {} /\ catchUp = Idle
                      /\ conn = "down" /\ wire = {}

JobType == [kind : {"none", "events", "reconcile"},
            stage : {"idle", "execute", "saveCursor", "saveMap"},
            batch : SUBSET log, cursor : Cursor, plan : Seq(Planned)]

\* The job that is executed is the first task of the queue, or the replay.
JobInv ==
    /\ job \in JobType
    /\ job.kind = "none" <=> job = NoJob
    /\ job.kind = "none" <=> job.stage = "idle"
    /\ job.kind = "events" => job.cursor # NoCursor
    /\ job.stage = "saveCursor" => job.kind = "events"
    /\ phase \in {"down", "backfill", "replay", "live"}
    /\ phase \in {"down", "backfill"} => job = NoJob
    /\ phase = "replay" => job.kind # "reconcile"
    /\ phase = "live" /\ job.kind = "events" =>
           tasks # <<>> /\ Head(tasks).source # "reconcile" /\ Head(tasks).batch = job.batch
    /\ phase = "live" /\ job.kind = "reconcile" =>
           tasks # <<>> /\ Head(tasks).source = "reconcile"
    /\ savedCursor \in Cursor \ {NoCursor}

WBase == Base /\ StartingInv /\ JobInv /\ WorldInv

LEMMA StartCursorTyped == StartCursor \in Cursor \ {NoCursor}
BY ListenerAssumption, WorkerAssumption DEF InclusiveBlockCursor, NoCursor

\* The world moves as the listener's chain does.
LEMMA WorldMines ==
    /\ ChangeAffiliate => Mine
    /\ EmptyBlock => Mine
<1>1. 1 \in 0 .. MaxLogsPerBlock /\ 0 \in 0 .. MaxLogsPerBlock
  BY ListenerAssumption, WorkerAssumption, LastIndexAssumption
<1>2. ChangeAffiliate => Mine
  BY <1>1 DEF ChangeAffiliate, Mine
<1>3. ASSUME MineBlock({}) PROVE Mine
  <2> DEFINE changes == [i \in 0 .. (-1) |-> i]
  <2>1. changes \in [0 .. 0 - 1 -> Changes]
    OBVIOUS
  <2>2. LogsOfBlock(head + 1, changes) = {}
    BY DEF LogsOfBlock
  <2> QED
    BY <1>1, <1>3, <2>1, <2>2 DEF Mine
<1> QED
  BY <1>2, <1>3 DEF EmptyBlock

\* What each step of the worker does to the listener.
LEMMA WorkerEffects ==
    ASSUME WBase, [WorkerNext]_workerVars
    PROVE  \/ [Next]_vars
           \/ Restarted
           \/ CursorSet(savedCursor, {}) \/ CursorSet(StartCursor, {})
           \/ job.kind = "events" /\ CursorSet(job.cursor, job.batch)
           \/ Ticked \/ Dropped
<1>1. CASE UNCHANGED vars
  BY <1>1
<1>2. CASE WorldStep
  BY <1>2, WorldMines DEF WorldStep, ChangeScore, IndexCatchesUp, Next
<1>3. CASE ListenerStep
  BY <1>3 DEF ListenerStep, Live, Next
<1>4. CASE Start
  <2>1. phase # "live" /\ processed' = processed \cup {}
    BY <1>4 DEF Start
  <2> QED
    BY <1>4, <2>1 DEF Start, CursorSet
<1>5. CASE Backfill \/ SkipReplay \/ BeginReplay \/ BeginTask \/ ExecuteOperation
           \/ OperationsDone \/ SaveCursor
  BY <1>1, <1>5 DEF Backfill, SkipReplay, BeginReplay, BeginTask, ExecuteOperation,
                    OperationsDone, SaveCursor
<1>6. CASE SaveMap
  <2>1. job.kind # "none" /\ job.kind \in {"none", "events", "reconcile"}
    BY <1>6 DEF SaveMap, WBase, JobInv, JobType
  <2>2. CASE phase = "replay"
    BY <1>6, <2>1, <2>2 DEF SaveMap, CursorSet, WBase, JobInv, socketVars
  <2>3. CASE phase # "replay" /\ job.kind = "events"
    BY <1>6, <2>3 DEF SaveMap, Next
  <2>4. CASE phase # "replay" /\ job.kind = "reconcile"
    <3>1. phase = "live"
      BY <2>1, <2>4 DEF WBase, JobInv
    <3> QED
      BY <1>6, <2>4, <3>1 DEF SaveMap, Dropped, WBase, JobInv
  <2> QED
    BY <2>1, <2>2, <2>3, <2>4
<1>7. CASE ReconcileTick
  BY <1>7 DEF ReconcileTick, Ticked
<1>8. CASE Crash
  BY <1>8 DEF Crash, Reset, Restarted
<1>9. CASE TaskFails
  <2>1. job.kind # "none" /\ job.kind \in {"none", "events", "reconcile"}
    BY <1>9 DEF TaskFails, WBase, JobInv, JobType
  <2>2. CASE phase = "replay"
    BY <1>9, <2>2 DEF TaskFails, Reset, Restarted
  <2>3. CASE phase # "replay" /\ job.kind = "events"
    BY <1>9, <2>3 DEF TaskFails, Next
  <2>4. CASE phase # "replay" /\ job.kind = "reconcile"
    <3>1. phase = "live"
      BY <2>1, <2>4 DEF WBase, JobInv
    <3> QED
      BY <1>9, <2>4, <3>1 DEF TaskFails, Dropped, WBase, JobInv
  <2> QED
    BY <2>1, <2>2, <2>3, <2>4
<1>10. CASE TaskFailsAtOnce
  BY <1>10 DEF TaskFailsAtOnce, Dropped, Next
<1>11. CASE UNCHANGED workerVars
  BY <1>11 DEF workerVars
<1> QED
  BY <1>2, <1>3, <1>4, <1>5, <1>6, <1>7, <1>8, <1>9, <1>10, <1>11
  DEF WorkerNext, WorkerStep, SequentialStep

-----------------------------------------------------------------------------
(* What the worker does to the listener keeps what holds of the queue. *)

LEMMA EffectsKeepBase ==
    ASSUME Base, StartingInv,
           \/ Restarted
           \/ \E cursor \in Cursor \ {NoCursor}, batch \in SUBSET log : CursorSet(cursor, batch)
           \/ Ticked \/ Dropped
    PROVE  Base'
<1> USE DEF Base
<1>1. CASE Restarted
  <2>1. /\ UNCHANGED <<head, log, processed>> /\ conn' = "down" /\ startedHead' = NoHead
        /\ wire' = {} /\ lastSeen' = StartCursor /\ pending' = {} /\ catchUp' = Idle
        /\ tasks' = <<>> /\ DOMAIN tasks' = {} /\ catchUp'.phase = "idle"
    BY <1>1 DEF Restarted, chainVars, Idle
  <2>2. TypeOK'
    BY <2>1, IdleTyped, ListenerAssumption DEF Inv, TypeOK
  <2>3. OneCatchUpInFlight'
    BY <2>1 DEF OneCatchUpInFlight
  <2> QED
    BY <2>1, <2>2, <2>3, StartCursorTyped DEF Inv, LogInv, QueueKinds
<1>2. ASSUME NEW cursor \in Cursor \ {NoCursor}, NEW batch \in SUBSET log, CursorSet(cursor, batch)
      PROVE  Base'
  BY <1>2 DEF CursorSet, Inv, TypeOK, OneCatchUpInFlight, LogInv, QueueKinds, chainVars, socketVars
<1>3. CASE Ticked
  <2> DEFINE task == [source |-> "reconcile", batch |-> {}]
  <2>1. /\ tasks' = Append(tasks, task) /\ task \in Task /\ task.source = "reconcile" /\ task.batch = {}
        /\ UNCHANGED <<head, log, conn, startedHead, wire, lastSeen, pending, catchUp, processed>>
    BY <1>3 DEF Ticked, Task, chainVars, socketVars
  <2> HIDE DEF task
  <2>2. OneCatchUpInFlight' /\ QueueKinds'
    BY <2>1, TrackedWhenQueued, KindWhenQueued
  <2>3. tasks' \in Seq(Task) /\ \A i \in DOMAIN tasks' : tasks'[i].batch \subseteq log
    <3>1. /\ DOMAIN tasks' = 1 .. Len(tasks) + 1
          /\ \A i \in DOMAIN tasks : tasks'[i] = tasks[i]
          /\ tasks'[Len(tasks) + 1] = task
      BY <2>1, AnotherQueued
    <3>2. \A i \in DOMAIN tasks' : i \in DOMAIN tasks \/ i = Len(tasks) + 1
      BY <3>1, QueuedTyped
    <3>3. tasks' \in Seq(Task)
      BY <2>1, QueuedTyped, AppendProperties
    <3> QED
      BY <2>1, <3>1, <3>2, <3>3, QueuedTyped
  <2>4. TypeOK'
    BY <2>1, <2>3 DEF Inv, TypeOK
  <2> QED
    BY <2>1, <2>2, <2>4 DEF Inv, LogInv
<1>4. CASE Dropped
  <2>1. /\ tasks # <<>> /\ tasks' = Tail(tasks) /\ Head(tasks).source # "catchUp"
        /\ UNCHANGED <<head, log, conn, startedHead, wire, lastSeen, pending, catchUp, processed>>
    BY <1>4 DEF Dropped, DropTask, chainVars, socketVars
  <2>2. OneCatchUpInFlight'
    BY <2>1, TrackedWhenFirstLeaves
  <2>3. \A i \in DOMAIN tasks' : i + 1 \in DOMAIN tasks /\ tasks'[i] = tasks[i + 1]
    BY <2>1, FirstLeaves
  <2>4. tasks' \in Seq(Task)
    BY <2>1, QueuedTyped, HeadTailProperties, EmptySeq
  <2>5. TypeOK'
    BY <2>1, <2>3, <2>4 DEF Inv, TypeOK
  <2> QED
    BY <2>1, <2>2, <2>3, <2>5 DEF Inv, LogInv, QueueKinds
<1> QED
  BY <1>1, <1>2, <1>3, <1>4

LEMMA EffectsKeepOrder ==
    ASSUME Base, StartingInv, OrderInv, Base',
           \/ Restarted
           \/ \E cursor, batch : CursorSet(cursor, batch)
           \/ Ticked \/ Dropped
    PROVE  OrderInv'
<1> USE DEF Base
<1>1. CASE Restarted
  <2>1. /\ UNCHANGED <<head, log>> /\ conn' = "down" /\ wire' = {} /\ pending' = {}
        /\ DOMAIN tasks' = {} /\ catchUp'.phase = "idle"
    BY <1>1 DEF Restarted, chainVars, Idle
  <2> QED
    BY <2>1 DEF OrderInv, BatchesEndInOrder
<1>2. ASSUME NEW cursor, NEW batch, CursorSet(cursor, batch) PROVE OrderInv'
  <2>1. /\ conn' = "down" /\ wire' = {} /\ pending' = {} /\ DOMAIN tasks' = {} /\ catchUp'.phase = "idle"
    BY <1>2 DEF CursorSet, StartingInv, socketVars, Idle
  <2> QED
    BY <2>1 DEF OrderInv, BatchesEndInOrder
<1>3. CASE Ticked
  <2> DEFINE task == [source |-> "reconcile", batch |-> {}]
  <2>1. /\ tasks' = Append(tasks, task) /\ task \in Task /\ task.source = "reconcile" /\ task.batch = {}
        /\ UNCHANGED <<head, log, conn, startedHead, wire, lastSeen, pending, catchUp>>
    BY <1>3 DEF Ticked, Task, chainVars, socketVars
  <2> HIDE DEF task
  <2>2. BatchesEndInOrder'
    BY <2>1, OrderWhenQueued DEF OrderInv
  <2>3. \A e : FromLive(e)' => FromLive(e)
    BY <2>1, AnotherQueued
  <2> QED
    BY <2>1, <2>2, <2>3 DEF OrderInv
<1>4. CASE Dropped
  <2>1. /\ tasks # <<>> /\ tasks' = Tail(tasks)
        /\ UNCHANGED <<head, log, conn, startedHead, wire, lastSeen, pending, catchUp>>
    BY <1>4 DEF Dropped, DropTask, chainVars, socketVars
  <2>2. BatchesEndInOrder'
    BY <2>1, OrderWhenFirstLeaves DEF OrderInv
  <2>3. \A e : FromLive(e)' => FromLive(e)
    BY <2>1, FirstLeaves
  <2> QED
    BY <2>1, <2>2, <2>3 DEF OrderInv
<1> QED
  BY <1>1, <1>2, <1>3, <1>4

\* The listener's own steps leave the first task where it is.
LEMMA FirstStays ==
    ASSUME Base, ListenerStep
    PROVE  /\ UNCHANGED <<head, log>>
           /\ tasks' = tasks \/ \E task \in Task : tasks' = Append(tasks, task)
           /\ tasks # <<>> => tasks' # <<>> /\ Head(tasks') = Head(tasks)
<1> USE DEF Base
<1>1. UNCHANGED <<head, log>>
  BY DEF ListenerStep, Live, Connect, HeadFetched, Subscribe, SubscriptionAcknowledged, Disconnect,
         Receive, Flush, CatchUpRequest, CatchUpHead, CatchUpFetched, CatchUpFails, chainVars
<1>2. tasks' = tasks \/ \E task \in Task : tasks' = Append(tasks, task)
  <2>1. CASE Flush
    BY <2>1, Delivered DEF Flush, Inv, TypeOK
  <2>2. CASE CatchUpFetched
    <3> DEFINE events == EventsBetween(log, catchUp.from.block, catchUp.to, catchUp.from)
    <3>1. Deliver("catchUp", events) /\ events \in SUBSET log
      BY <2>2 DEF CatchUpFetched, EventsBetween, After
    <3> QED
      BY <3>1, Delivered
  <2>3. CASE Connect \/ HeadFetched \/ Subscribe \/ SubscriptionAcknowledged \/ Disconnect
             \/ Receive \/ CatchUpHead \/ CatchUpFails
    BY <2>3 DEF Connect, HeadFetched, Subscribe, SubscriptionAcknowledged, Disconnect, Receive,
                CatchUpHead, CatchUpFails, listenerVars
  <2> QED
    BY <2>1, <2>2, <2>3 DEF ListenerStep, Live, CatchUpRequest
<1>3. ASSUME NEW task \in Task, tasks' = Append(tasks, task), tasks # <<>>
      PROVE  tasks' # <<>> /\ Head(tasks') = Head(tasks)
  BY <1>3, QueuedTyped, AppendProperties, HeadTailProperties, EmptySeq
<1> QED
  BY <1>1, <1>2, <1>3

\* A batch made a job.
LEMMA EventsJobTyped ==
    ASSUME NEW batch \in SUBSET log, NEW cursor \in Cursor
    PROVE  EventsJob(batch, cursor) \in JobType
BY EventPlanAsks DEF EventsJob, JobType

LEMMA SafeHeadTyped == head \in Nat => SafeHead \in Nat /\ SafeHead <= head
BY WorkerAssumption DEF SafeHead

\* The real changes of a batch are ordered with it.
LEMMA RealOrdered ==
    ASSUME Base, NEW batch \in SUBSET log
    PROVE  Ordered(batch) /\ Ordered(Real(batch)) /\ Real(batch) \subseteq batch
<1>1. Real(batch) \subseteq batch
  BY DEF Real
<1> QED
  BY <1>1, LogOrdered, OrderedPart DEF Base

LEMMA StartingNext == WBase /\ [WorkerNext]_workerVars => StartingInv'
<1> SUFFICES ASSUME WBase, [WorkerNext]_workerVars, phase' # "live" PROVE StartingInv'
  BY DEF StartingInv
<1>1. CASE phase = "live"
  <2>1. Reset
    BY <1>1 DEF WorkerNext, WorldStep, ListenerStep, WorkerStep, SequentialStep, Live, appVars,
       ChangeAffiliate, EmptyBlock, ChangeScore, IndexCatchesUp, Start, Backfill, SkipReplay, BeginReplay,
       BeginTask, ExecuteOperation, OperationsDone, SaveCursor, SaveMap, ReconcileTick, Crash,
       TaskFails, TaskFailsAtOnce, workerVars
  <2> QED
    BY <2>1 DEF Reset, StartingInv
<1>2. CASE phase # "live"
  <2>1. tasks = <<>> /\ pending = {} /\ catchUp = Idle /\ conn = "down" /\ wire = {}
    BY <1>2 DEF WBase, StartingInv
  <2>2. CASE UNCHANGED <<tasks, pending, catchUp, conn, wire>>
    BY <2>1, <2>2 DEF StartingInv
  <2>3. CASE Reset
    BY <2>3 DEF Reset, StartingInv
  <2>4. CASE ChangeAffiliate \/ EmptyBlock
    BY <2>1, <2>4 DEF ChangeAffiliate, EmptyBlock, MineBlock, listenerVars, StartingInv
  <2>5. CASE ChangeScore \/ IndexCatchesUp \/ Start \/ Backfill \/ SkipReplay \/ BeginReplay
             \/ ExecuteOperation \/ OperationsDone \/ SaveCursor \/ UNCHANGED workerVars
    <3>1. UNCHANGED <<tasks, pending, catchUp, conn, wire>>
      BY <2>5 DEF ChangeScore, IndexCatchesUp, Start, Backfill, SkipReplay, BeginReplay,
         ExecuteOperation, OperationsDone, SaveCursor, vars, socketVars, listenerVars, workerVars
    <3> QED
      BY <2>2, <3>1
  <2>6. CASE SaveMap
    BY <1>2, <2>6 DEF SaveMap, WBase, JobInv
  <2>7. CASE TaskFails
    <3>1. phase = "replay"
      BY <1>2, <2>7 DEF TaskFails, WBase, JobInv, NoJob
    <3> QED
      BY <2>3, <2>7, <3>1 DEF TaskFails
  <2> QED
    BY <1>2, <2>3, <2>4, <2>5, <2>6, <2>7
    DEF WorkerNext, WorldStep, ListenerStep, WorkerStep, SequentialStep, Live, BeginTask,
        ReconcileTick, Crash, TaskFailsAtOnce
<1> QED
  BY <1>1, <1>2

LEMMA WorldNext == WBase /\ [WorkerNext]_workerVars => WorldInv'
<1> SUFFICES ASSUME WBase, [WorkerNext]_workerVars PROVE WorldInv'
  OBVIOUS
<1> USE DEF WBase
<1>0. \A batch \in SUBSET log : /\ ApplyEvents(map, Real(batch)) \in ExactMaps
                                /\ \A m \in ExactMaps : ApplyEvents(m, batch) \in ExactMaps
  BY RealOrdered, EventsApplied DEF WorldInv
<1>1. ASSUME UNCHANGED <<trust, indexed, map, savedMap>> PROVE WorldInv'
  BY <1>1 DEF WorldInv
<1>2. CASE WorldStep \/ ListenerStep \/ Start \/ SkipReplay \/ ReconcileTick
           \/ OperationsDone \/ SaveCursor \/ TaskFailsAtOnce \/ UNCHANGED workerVars
  <2>1. CASE IndexCatchesUp
    BY <2>1 DEF IndexCatchesUp, WorldInv, storeVars
  <2>2. CASE ~IndexCatchesUp
    BY <1>1, <1>2, <2>2
    DEF WorldStep, ListenerStep, Live, ChangeAffiliate, EmptyBlock, ChangeScore, Start, SkipReplay,
        ReconcileTick, OperationsDone, SaveCursor, TaskFailsAtOnce, appVars, storeVars, worldVars,
        workerVars
  <2> QED
    BY <2>1, <2>2
<1>3. ASSUME NEW m \in ExactMaps, NEW block \in Int, SaveMapAs(m, block), UNCHANGED worldVars
      PROVE  WorldInv'
  <2>1. AdvanceTo(m, block) \in ExactMaps
    BY MapsAreExact
  <2>2. Snapshot(AdvanceTo(m, block)) \in SnapshotType
    BY <2>1, MapsAreExact
  <2>3. map' \in ExactMaps
    BY <1>3, <2>1, MapsAreExact DEF SaveMapAs
  <2> QED
    BY <1>3, <2>2, <2>3 DEF SaveMapAs, WorldInv, worldVars
<1>4. CASE Backfill
  <2>1. \A m \in ExactMaps : Backfilled(m) \in ExactMaps /\ Backfilled(m).block \in Int
    <3> SUFFICES ASSUME NEW m \in ExactMaps
                 PROVE  Backfilled(m) \in ExactMaps /\ Backfilled(m).block \in Int
      OBVIOUS
    <3> DEFINE target == Later(StartBlock, SafeHead)
               events == EventsBetween(log, Later(StartBlock, m.block + 1), target, NoCursor)
    <3>1. events \in SUBSET log
      BY DEF EventsBetween, After
    <3>2. target \in Int
      BY SafeHeadTyped, QueuedTyped, WorkerAssumption DEF Later, Base
    <3>3. Backfilled(m) = IF m.block >= target THEN m ELSE AdvanceTo(ApplyEvents(m, events), target)
      BY DEF Backfilled
    <3> HIDE DEF events, target
    <3>4. Backfilled(m) \in ExactMaps
      BY <1>0, <3>1, <3>2, <3>3, MapsAreExact
    <3> QED
      BY <3>4 DEF ExactMaps, AffiliateMapType
  <2>2. FromSnapshot(savedMap) \in ExactMaps /\ FreshMap \in ExactMaps
    BY MapsAreExact DEF WorldInv
  <2>3. CASE LET m == Backfilled(FromSnapshot(savedMap)) IN SaveMapAs(m, m.block)
    BY <1>3, <1>4, <2>1, <2>2, <2>3 DEF Backfill
  <2>4. CASE LET m == Backfilled(FreshMap)
             IN  map' = [m EXCEPT !.dirty = FALSE] /\ savedMap' \in {savedMap, Snapshot(m)}
    <3>1. Backfilled(FreshMap) \in ExactMaps
      BY <2>1, <2>2
    <3>2. map' \in ExactMaps /\ savedMap' \in SnapshotType
      BY <2>4, <3>1, MapsAreExact DEF WorldInv
    <3> QED
      BY <1>4, <3>2 DEF Backfill, WorldInv, worldVars
  <2> QED
    BY <1>4, <2>3, <2>4 DEF Backfill
<1>5. CASE BeginReplay
  <2>1. EventsBetween(log, lastSeen.block, SafeHead, lastSeen) \in SUBSET log
    BY DEF EventsBetween, After
  <2>2. map' \in ExactMaps
    BY <1>0, <1>5, <2>1 DEF BeginReplay
  <2> QED
    BY <1>5, <2>2 DEF BeginReplay, WorldInv, storeVars, worldVars
<1>6. CASE BeginTask
  <2>1. Head(tasks).batch \in SUBSET log
    BY <1>6, QueuedTyped, HeadTailProperties, EmptySeq DEF BeginTask, Base
  <2>2. map' \in ExactMaps
    BY <1>0, <1>6, <2>1 DEF BeginTask, WorldInv
  <2> QED
    BY <1>6, <2>2 DEF BeginTask, WorldInv, storeVars, worldVars
<1>7. ASSUME job.plan # <<>>, Carry(Head(job.plan))
      PROVE  trust' \in [Managed -> SUBSET Humans] /\ indexed' \in [Managed -> SUBSET Humans]
  <2>1. Head(job.plan) \in Planned
    BY <1>7, HeadTailProperties DEF JobInv, JobType
  <2> QED
    BY <1>7, <2>1 DEF Carry, Planned, WorldInv
<1>8. CASE ExecuteOperation
  BY <1>7, <1>8 DEF ExecuteOperation, WorldInv, storeVars
<1>9. CASE SaveMap
  <2>1. (IF job.kind = "events" THEN job.cursor.block ELSE map.block) \in Int
    BY DEF WorldInv, ExactMaps, AffiliateMapType, JobInv, JobType, Cursor
  <2> QED
    BY <1>3, <1>9, <2>1 DEF SaveMap, WorldInv
<1>10. CASE Crash
  BY <1>10, MapsAreExact DEF Crash, Reset, WorldInv, storeVars
<1>11. CASE TaskFails
  <2>1. trust' \in [Managed -> SUBSET Humans] /\ indexed' \in [Managed -> SUBSET Humans]
    BY <1>7, <1>11 DEF TaskFails, WorldInv
  <2>2. map' \in ExactMaps /\ savedMap' \in SnapshotType
    BY <1>11, MapsAreExact DEF TaskFails, Reset, WorldInv, storeVars
  <2> QED
    BY <2>1, <2>2 DEF WorldInv
<1> QED
  BY <1>2, <1>4, <1>5, <1>6, <1>8, <1>9, <1>10, <1>11 DEF WorkerNext, WorkerStep, SequentialStep

\* The cursor of a batch is that of its last log.
LEMMA BatchCursor ==
    ASSUME Base, NEW batch \in SUBSET log, batch # {}
    PROVE  /\ LastOf(batch) \in batch
           /\ LastOf(batch).cursor \in Cursor \ {NoCursor} /\ LastOf(batch).cursor.block <= head
           /\ \A e \in batch : AtOrBefore(e.cursor, LastOf(batch).cursor)
<1>1. LastOf(batch) \in batch /\ \A e \in batch : AtOrBefore(e.cursor, LastOf(batch).cursor)
  BY RealOrdered, LastExists
<1>2. LastOf(batch).cursor \in Cursor /\ LastOf(batch).cursor.block \in Nat
      /\ LastOf(batch).cursor.block <= head
  BY <1>1, EventCursors DEF Base, LogInv
<1> QED
  BY <1>1, <1>2 DEF NoCursor

\* The first task of a queue that is not empty.
LEMMA FirstTask ==
    ASSUME Base, tasks # <<>>
    PROVE  /\ Head(tasks).batch \in SUBSET log
           /\ Head(tasks).source = "reconcile" <=> Head(tasks).batch = {}
BY QueuedTyped, HeadTailProperties, EmptySeq DEF Base, QueueKinds

LEMMA JobNext == WBase /\ [WorkerNext]_workerVars => JobInv'
<1> SUFFICES ASSUME WBase, [WorkerNext]_workerVars PROVE JobInv'
  OBVIOUS
<1> USE DEF WBase
<1>0. /\ NoJob.kind = "none" /\ NoJob.stage = "idle"
      /\ \A events \in SUBSET Event : [NoJob EXCEPT !.batch = {}] = NoJob
  BY DEF NoJob
<1>1. NoJob \in JobType' /\ NoJob \in JobType
  BY MadeCursors DEF NoJob, JobType
<1>2. ASSUME job' = NoJob, phase' \in {"down", "backfill", "replay", "live"},
             savedCursor' \in Cursor \ {NoCursor}
      PROVE  JobInv'
  BY <1>0, <1>1, <1>2 DEF JobInv
<1>3. ASSUME log \subseteq log', UNCHANGED <<phase, job, savedCursor>>,
             tasks # <<>> => tasks' # <<>> /\ Head(tasks') = Head(tasks)
      PROVE  JobInv'
  <2>1. job \in JobType'
    BY <1>3 DEF JobInv, JobType
  <2> QED
    BY <1>3, <2>1 DEF JobInv
<1>4. CASE WorldStep
  BY <1>3, <1>4 DEF WorldStep, ChangeAffiliate, EmptyBlock, ChangeScore, IndexCatchesUp, MineBlock,
                    appVars, storeVars, vars, chainVars, listenerVars
<1>5. CASE ListenerStep
  BY <1>3, <1>5, FirstStays DEF ListenerStep, Live, appVars, storeVars
<1>6. CASE Start \/ Backfill \/ SkipReplay
  BY <1>2, <1>6 DEF Start, Backfill, SkipReplay, JobInv, storeVars
<1>7. CASE BeginReplay
  <2> DEFINE events == EventsBetween(log, lastSeen.block, SafeHead, lastSeen)
  <2>1. events \in SUBSET log
    BY DEF EventsBetween, After
  <2>2. HeadCursor(SafeHead) \in Cursor \ {NoCursor}
    BY SafeHeadTyped, QueuedTyped, MadeCursors DEF Base, HeadCursor, NoCursor
  <2>3. /\ job' = EventsJob(events, HeadCursor(SafeHead)) /\ phase = "replay"
        /\ UNCHANGED <<phase, savedCursor, log>>
    BY <1>7 DEF BeginReplay, storeVars, vars, chainVars
  <2> HIDE DEF events
  <2>4. job' \in JobType'
    BY <2>1, <2>2, <2>3, EventsJobTyped DEF JobType
  <2>5. job'.kind = "events" /\ job'.stage = "execute" /\ job'.cursor = HeadCursor(SafeHead)
    BY <2>3 DEF EventsJob
  <2> QED
    BY <1>0, <2>2, <2>3, <2>4, <2>5 DEF JobInv
<1>8. CASE BeginTask
  <2>1. /\ phase = "live" /\ tasks # <<>> /\ UNCHANGED <<phase, savedCursor, log, tasks>>
    BY <1>8 DEF BeginTask, storeVars, vars, chainVars, listenerVars
  <2>2. CASE Head(tasks).source = "reconcile"
    <3>1. job' = [kind |-> "reconcile", stage |-> "execute", batch |-> {},
                  cursor |-> NoCursor, plan |-> ReconcilePlan]
      BY <1>8, <2>2 DEF BeginTask
    <3>2. job' \in JobType' /\ job'.kind = "reconcile" /\ job'.stage = "execute"
      BY <3>1, MadeCursors, ReconcilePlanAsks DEF JobType
    <3> QED
      BY <1>0, <2>1, <2>2, <3>2 DEF JobInv
  <2>3. CASE Head(tasks).source # "reconcile"
    <3> DEFINE batch == Head(tasks).batch
    <3>1. batch \in SUBSET log /\ batch # {} /\ LastOf(batch).cursor \in Cursor \ {NoCursor}
      BY <2>1, <2>3, FirstTask, BatchCursor
    <3>2. job' = EventsJob(batch, LastOf(batch).cursor)
      BY <1>8, <2>3 DEF BeginTask
    <3> HIDE DEF batch
    <3>3. job' \in JobType'
      BY <2>1, <3>1, <3>2, EventsJobTyped DEF JobType
    <3>4. /\ job'.kind = "events" /\ job'.stage = "execute" /\ job'.batch = batch
          /\ job'.cursor = LastOf(batch).cursor
      BY <3>2 DEF EventsJob
    <3> QED
      BY <1>0, <2>1, <2>3, <3>1, <3>3, <3>4 DEF JobInv, batch
  <2> QED
    BY <2>2, <2>3
<1>9. CASE ExecuteOperation
  <2>1. /\ UNCHANGED <<phase, savedCursor, log, tasks>>
        /\ job.stage = "execute" /\ job.plan # <<>> /\ job' = [job EXCEPT !.plan = Tail(@)]
    BY <1>9 DEF ExecuteOperation, storeVars, vars, chainVars, listenerVars
  <2>2. Tail(job.plan) \in Seq(Planned)
    BY <2>1, HeadTailProperties DEF JobInv, JobType
  <2>3. job' \in JobType' /\ job'.stage = "execute"
        /\ job'.kind = job.kind /\ job'.batch = job.batch /\ job'.cursor = job.cursor
    BY <2>1, <2>2 DEF JobInv, JobType
  <2> QED
    BY <1>0, <2>1, <2>3 DEF JobInv
<1>10. CASE OperationsDone \/ SaveCursor
  <2>1. /\ UNCHANGED <<phase, log, tasks>> /\ savedCursor' \in {savedCursor, job.cursor}
        /\ job.stage \in {"execute", "saveCursor"}
        /\ job.stage = "execute" => savedCursor' = savedCursor
        /\ \E stage \in {"saveCursor", "saveMap"} : /\ job' = [job EXCEPT !.stage = stage]
                                                    /\ stage = "saveCursor" => job.kind = "events"
    BY <1>10 DEF OperationsDone, SaveCursor, storeVars, vars, chainVars, listenerVars
  <2>2. /\ job' \in JobType' /\ job'.stage \in {"saveCursor", "saveMap"}
        /\ job'.stage = "saveCursor" => job'.kind = "events"
        /\ job'.kind = job.kind /\ job'.batch = job.batch /\ job'.cursor = job.cursor
    BY <2>1 DEF JobInv, JobType
  <2>3. savedCursor' \in Cursor \ {NoCursor}
    <3>1. CASE savedCursor' = savedCursor
      BY <3>1 DEF JobInv
    <3>2. CASE job.stage = "saveCursor" /\ savedCursor' = job.cursor
      BY <3>2 DEF JobInv, JobType
    <3> QED
      BY <2>1, <3>1, <3>2
  <2> QED
    <3>1. /\ phase' \in {"down", "backfill"} => job' = NoJob
          /\ job'.kind = "none" <=> job' = NoJob
          /\ job'.kind = "none" <=> job'.stage = "idle"
      <4>1. job.kind # "none" /\ job # NoJob /\ phase \notin {"down", "backfill"}
        BY <2>1 DEF JobInv, NoJob
      <4>2. job'.kind # "none" /\ job'.stage # "idle" /\ job' # NoJob
        BY <1>0, <2>2, <4>1
      <4> QED
        BY <2>1, <4>1, <4>2
    <3>2. /\ job'.kind = "events" => job'.cursor # NoCursor
          /\ phase' \in {"down", "backfill", "replay", "live"}
          /\ phase' = "replay" => job'.kind # "reconcile"
      BY <2>1, <2>2 DEF JobInv
    <3>3. /\ phase' = "live" /\ job'.kind = "events" =>
               tasks' # <<>> /\ Head(tasks').source # "reconcile" /\ Head(tasks').batch = job'.batch
          /\ phase' = "live" /\ job'.kind = "reconcile" =>
               tasks' # <<>> /\ Head(tasks').source = "reconcile"
      BY <2>1, <2>2 DEF JobInv
    <3> QED
      BY <2>2, <2>3, <3>1, <3>2, <3>3 DEF JobInv
<1>11. CASE SaveMap
  BY <1>2, <1>11 DEF SaveMap, JobInv
<1>12. CASE ReconcileTick
  <2>1. tasks # <<>> => tasks' # <<>> /\ Head(tasks') = Head(tasks)
    BY <1>12, QueuedTyped, AppendProperties, HeadTailProperties, EmptySeq DEF ReconcileTick, Base
  <2> QED
    BY <1>3, <1>12, <2>1 DEF ReconcileTick, appVars, storeVars, chainVars
<1>13. CASE Crash
  BY <1>2, <1>13 DEF Crash, Reset, storeVars, JobInv
<1>14. CASE TaskFails
  BY <1>2, <1>14 DEF TaskFails, Reset, storeVars, JobInv
<1>15. CASE TaskFailsAtOnce
  BY <1>2, <1>15 DEF TaskFailsAtOnce, appVars, storeVars, JobInv
<1>16. CASE UNCHANGED workerVars
  BY <1>3, <1>16 DEF workerVars, vars, chainVars, listenerVars, appVars, storeVars
<1> QED
  BY <1>4, <1>5, <1>6, <1>7, <1>8, <1>9, <1>10, <1>11, <1>12, <1>13, <1>14, <1>15, <1>16
  DEF WorkerNext, WorkerStep, SequentialStep

LEMMA WBaseInit == WorkerInit => WBase
<1> SUFFICES ASSUME WorkerInit PROVE WBase
  OBVIOUS
<1>1. Base
  BY BaseInit, StartCursorTyped DEF WorkerInit
<1>2. StartingInv
  BY DEF WorkerInit, Init, StartingInv
<1>3. JobInv
  BY MadeCursors, StartCursorTyped DEF WorkerInit, JobInv, JobType, NoJob
<1>4. WorldInv
  BY MapsAreExact DEF WorkerInit, WorldInv
<1> QED
  BY <1>1, <1>2, <1>3, <1>4 DEF WBase

\* What a step does to the listener, with the types of what it sets.
LEMMA EffectsTyped ==
    ASSUME WBase, [WorkerNext]_workerVars
    PROVE  \/ [Next]_vars
           \/ Restarted
           \/ \E cursor \in Cursor \ {NoCursor}, batch \in SUBSET log : CursorSet(cursor, batch)
           \/ Ticked \/ Dropped
<1>1. savedCursor \in Cursor \ {NoCursor} /\ {} \in SUBSET log
  BY DEF WBase, JobInv
<1>2. job.kind = "events" => job.cursor \in Cursor \ {NoCursor} /\ job.batch \in SUBSET log
  BY DEF WBase, JobInv, JobType
<1> QED
  BY <1>1, <1>2, StartCursorTyped, WorkerEffects

LEMMA WBaseNext == WBase /\ [WorkerNext]_workerVars => WBase'
<1> SUFFICES ASSUME WBase, [WorkerNext]_workerVars PROVE WBase'
  OBVIOUS
<1>1. Base'
  BY EffectsTyped, EffectsKeepBase, BaseNext DEF WBase
<1> QED
  BY <1>1, StartingNext, JobNext, WorldNext DEF WBase

-----------------------------------------------------------------------------
\* The worker's listener has its type, and knows of every catch-up under way,
\* whatever fails and whenever the process ends (realtime.ts, main.ts).
THEOREM WorkerTyped == WorkerSpec => [](TypeOK /\ OneCatchUpInFlight)
<1>1. WBase => TypeOK /\ OneCatchUpInFlight
  BY DEF WBase, Base, Inv
<1> QED
  BY <1>1, WBaseInit, WBaseNext, PTL DEF WorkerSpec

\* The worker takes in batches in the order in which they end, over restarts,
\* replays, failing requests and lost connections, as long as no flush comes
\* between the start of a catch-up and its result: no older batch turns the map
\* back (main.ts, enqueueExclusive; realtime.ts, flushPendingEvents).
THEOREM WorkerBatchesInOrder == NoOvertaking => (WorkerSpec => []BatchesEndInOrder)
<1>1. SUFFICES ASSUME NoOvertaking PROVE WorkerSpec => []BatchesEndInOrder
  OBVIOUS
<1>2. WorkerInit => WBase /\ OrderInv
  BY WBaseInit, OrderInit DEF WorkerInit
<1>3. WBase /\ OrderInv /\ [WorkerNext]_workerVars => (WBase /\ OrderInv)'
  <2> SUFFICES ASSUME WBase, OrderInv, [WorkerNext]_workerVars PROVE WBase' /\ OrderInv'
    OBVIOUS
  <2>1. WBase'
    BY WBaseNext
  <2> QED
    BY <1>1, <2>1, EffectsTyped, EffectsKeepOrder, OrderNext DEF WBase
<1>4. OrderInv => BatchesEndInOrder
  BY DEF OrderInv
<1> QED
  BY <1>2, <1>3, <1>4, PTL DEF WorkerSpec

-----------------------------------------------------------------------------
(***************************************************************************)
(* The saved cursor.  When the environment is reliable the account of the  *)
(* listener holds of the logs whose batch was carried out, over restarts:  *)
(* the worker resumes from a row that covers only such logs, and what its  *)
(* job is going to save covers, besides them, no log but those it carries  *)
(* out before it saves.                                                    *)
(***************************************************************************)
SavedInv ==
    /\ \A e \in Relevant : AtOrBefore(e.cursor, savedCursor) => e \in applied
    /\ savedCursor = StartCursor \/ savedCursor.block <= head

JobCovers ==
    /\ job.kind = "events" =>
           /\ job.cursor.block <= head
           /\ \A e \in Relevant : AtOrBefore(e.cursor, job.cursor) => e \in applied \cup job.batch
    /\ job.stage \in {"saveCursor", "saveMap"} => job.batch \subseteq applied

CoverInv == WBase /\ LInv(applied) /\ SavedInv /\ JobCovers

\* What the listener has accounted for stays so, as long as a batch that settles
\* was carried out.
LEMMA AppliedKept ==
    ASSUME Reliable, LInv(applied), applied \subseteq applied', [Next]_vars,
           \A succeeded \in BOOLEAN : Settle(succeeded) => Head(tasks).batch \subseteq applied
    PROVE  LInv(applied)'
<1>1. PICK done : done = applied'
  OBVIOUS
<1>2. LInv(done)'
  BY <1>1, LInvGrows, LInvNext
<1> QED
  BY <1>1, <1>2 DEF LInv, CursorCovers, QueueInv, PendingInv, LiveInv, Accounted

\* A cursor that covers only what was carried out may become the listener's.
LEMMA CoveredCursorSet ==
    ASSUME WBase, WBase', LInv(applied), UNCHANGED applied, NEW cursor, NEW batch,
           CursorSet(cursor, batch), cursor = StartCursor \/ cursor.block <= head,
           \A e \in Relevant : AtOrBefore(e.cursor, cursor) => e \in applied
    PROVE  LInv(applied)'
<1>1. /\ UNCHANGED <<head, log, conn, startedHead, wire, pending, catchUp, tasks>> /\ lastSeen' = cursor
      /\ DOMAIN tasks = {} /\ pending = {} /\ catchUp = Idle /\ conn = "down" /\ catchUp.phase = "idle"
  BY DEF CursorSet, WBase, StartingInv, chainVars, socketVars, Idle
<1>2. Inv' /\ LogInv' /\ lastSeen' # NoCursor
  BY DEF WBase, Base
<1>3. CursorInv' /\ CursorCovers(applied)'
  BY <1>1, <1>2 DEF CursorInv, CursorCovers, Relevant
<1>4. QueueInv(applied)' /\ PendingInv(applied)' /\ HandshakeInv' /\ LiveInv(applied)'
  BY <1>1 DEF QueueInv, PendingInv, HandshakeInv, LiveInv
<1> QED
  BY <1>2, <1>3, <1>4 DEF LInv

\* No log at all lies between the start cursor and itself.
LEMMA NothingAtStart == Inv => \A e \in Relevant : ~AtOrBefore(e.cursor, StartCursor)
BY EventCursors, StartCursorTyped, CursorOrder DEF Relevant, After

\* The end of the process leaves nothing to account for.
LEMMA RestartCovers ==
    ASSUME WBase, WBase', Restarted PROVE LInv(applied)'
<1>1. /\ UNCHANGED <<head, log>> /\ lastSeen' = StartCursor
      /\ DOMAIN tasks' = {} /\ pending' = {} /\ catchUp' = Idle /\ conn' = "down" /\ catchUp'.phase = "idle"
  BY DEF Restarted, chainVars, Idle
<1>2. Inv' /\ LogInv' /\ lastSeen' # NoCursor /\ Inv
  BY DEF WBase, Base
<1>3. Relevant' = Relevant
  BY <1>1 DEF Relevant
<1>4. CursorInv' /\ CursorCovers(applied)'
  BY <1>1, <1>2, <1>3, NothingAtStart DEF CursorInv, CursorCovers
<1>5. QueueInv(applied)' /\ PendingInv(applied)' /\ HandshakeInv' /\ LiveInv(applied)'
  BY <1>1 DEF QueueInv, PendingInv, HandshakeInv, LiveInv
<1> QED
  BY <1>2, <1>4, <1>5 DEF LInv

\* A reconciliation in the queue accounts for nothing.
LEMMA ReconciliationCovers ==
    ASSUME NEW done, WBase, WBase', LInv(done), Ticked \/ Dropped
    PROVE  LInv(done)'
<1>1. Inv /\ Inv' /\ LogInv' /\ QueueKinds
  BY DEF WBase, Base
<1>2. UNCHANGED <<head, log, conn, startedHead, wire, lastSeen, pending, catchUp>>
  BY DEF Ticked, Dropped, DropTask, chainVars, socketVars
<1>3. Relevant' = Relevant /\ \A f : CaughtUp(f)' = CaughtUp(f)
  BY <1>2 DEF Relevant, CaughtUp
<1>4. CASE Ticked
  <2> DEFINE task == [source |-> "reconcile", batch |-> {}]
  <2>1. tasks' = Append(tasks, task) /\ task \in Task /\ task.batch = {}
    BY <1>4 DEF Ticked, Task
  <2> HIDE DEF task
  <2>2. /\ DOMAIN tasks' = 1 .. Len(tasks) + 1 /\ DOMAIN tasks = 1 .. Len(tasks) /\ Len(tasks) \in Nat
        /\ \A i \in DOMAIN tasks : i \in DOMAIN tasks' /\ tasks'[i] = tasks[i]
        /\ tasks'[Len(tasks) + 1].batch = {}
    BY <1>1, <2>1, AnotherQueued, QueuedTyped
  <2>3. \A f : Queued(f) => Queued(f)'
    BY <2>2 DEF Queued
  <2>4. QueueInv(done)'
    <3> SUFFICES ASSUME NEW i \in DOMAIN tasks', NEW e \in tasks'[i].batch, NEW f \in Relevant,
                        AtOrBefore(f.cursor, e.cursor)
                 PROVE  f \in done \/ \E j \in 1 .. i : f \in tasks'[j].batch
      BY <1>2, <1>3 DEF QueueInv
    <3>1. i \in DOMAIN tasks /\ e \in tasks[i].batch
      BY <2>2
    <3>2. f \in done \/ \E j \in 1 .. i : f \in tasks[j].batch
      BY <3>1 DEF LInv, QueueInv
    <3>3. \A j \in 1 .. i : j \in DOMAIN tasks
      BY <2>2, <3>1
    <3> QED
      BY <2>2, <3>2, <3>3
  <2> QED
    BY <1>1, <1>2, <1>3, <2>3, <2>4
    DEF LInv, CursorInv, CursorCovers, PendingInv, HandshakeInv, LiveInv, Accounted
<1>5. CASE Dropped
  <2>1. tasks # <<>> /\ tasks' = Tail(tasks) /\ Head(tasks).source = "reconcile"
    BY <1>5 DEF Dropped, DropTask
  <2>2. /\ Head(tasks) = tasks[1] /\ 1 \in DOMAIN tasks
        /\ DOMAIN tasks' = 1 .. Len(tasks) - 1 /\ DOMAIN tasks = 1 .. Len(tasks) /\ Len(tasks) \in Nat
        /\ \A i \in DOMAIN tasks' : i + 1 \in DOMAIN tasks /\ tasks'[i] = tasks[i + 1]
    BY <1>1, <2>1, FirstLeaves, QueuedTyped
  <2>3. tasks[1].batch = {}
    BY <1>1, <2>1, <2>2 DEF QueueKinds
  <2>4. \A f, i : i \in DOMAIN tasks /\ f \in tasks[i].batch =>
            i - 1 \in DOMAIN tasks' /\ f \in tasks'[i - 1].batch
    <3> SUFFICES ASSUME NEW f, NEW i \in DOMAIN tasks, f \in tasks[i].batch
                 PROVE  i - 1 \in DOMAIN tasks' /\ f \in tasks'[i - 1].batch
      OBVIOUS
    <3>1. i # 1 /\ i \in 1 .. Len(tasks)
      BY <2>2, <2>3
    <3>2. i - 1 \in DOMAIN tasks' /\ (i - 1) + 1 = i
      BY <2>2, <3>1
    <3> QED
      BY <2>2, <3>2
  <2>5. \A f : Queued(f) => Queued(f)'
    BY <2>4 DEF Queued
  <2>6. QueueInv(done)'
    <3> SUFFICES ASSUME NEW i \in DOMAIN tasks', NEW e \in tasks'[i].batch, NEW f \in Relevant,
                        AtOrBefore(f.cursor, e.cursor), f \notin done
                 PROVE  \E j \in 1 .. i : f \in tasks'[j].batch
      BY <1>2, <1>3 DEF QueueInv
    <3>1. i + 1 \in DOMAIN tasks /\ e \in tasks[i + 1].batch
      BY <2>2
    <3>2. PICK j \in 1 .. i + 1 : f \in tasks[j].batch
      BY <3>1 DEF LInv, QueueInv
    <3>3. j \in DOMAIN tasks
      BY <2>2, <3>1, <3>2
    <3>4. j - 1 \in DOMAIN tasks' /\ f \in tasks'[j - 1].batch
      BY <2>4, <3>2, <3>3
    <3>5. j - 1 \in 1 .. i
      BY <2>2, <3>2, <3>4
    <3> QED
      BY <3>4, <3>5
  <2> QED
    BY <1>1, <1>2, <1>3, <2>5, <2>6
    DEF LInv, CursorInv, CursorCovers, PendingInv, HandshakeInv, LiveInv, Accounted
<1> QED
  BY <1>4, <1>5

\* Only the end of a job settles a batch, and that batch was carried out.
LEMMA AccountNext == Reliable /\ CoverInv /\ [WorkerNext]_workerVars => LInv(applied)'
<1> SUFFICES ASSUME Reliable, CoverInv, [WorkerNext]_workerVars PROVE LInv(applied)'
  OBVIOUS
<1>1. WBase /\ WBase' /\ LInv(applied) /\ Inv
  BY WBaseNext DEF CoverInv, WBase, Base
<1>2. ASSUME NEW succeeded \in BOOLEAN, Settle(succeeded)
      PROVE  tasks # <<>> /\ Len(tasks') = Len(tasks) - 1
  BY <1>1, <1>2, QueuedTyped, HeadTailProperties, EmptySeq DEF Settle
<1>3. ASSUME [Next]_vars, applied \subseteq applied',
             tasks' = tasks \/ \E task \in Task : tasks' = Append(tasks, task)
      PROVE  LInv(applied)'
  <2>1. Len(tasks) \in Nat /\ (Len(tasks') = Len(tasks) \/ Len(tasks') = Len(tasks) + 1)
    BY <1>1, <1>3, QueuedTyped, AppendProperties
  <2>2. \A succeeded \in BOOLEAN : ~Settle(succeeded)
    <3> SUFFICES ASSUME NEW succeeded \in BOOLEAN, Settle(succeeded) PROVE FALSE
      OBVIOUS
    <3>1. Len(tasks') = Len(tasks) - 1
      BY <1>2
    <3> QED
      BY <2>1, <3>1
  <2> QED
    BY <1>1, <1>3, <2>2, AppliedKept
<1>3a. ASSUME UNCHANGED applied, Ticked \/ Dropped PROVE LInv(applied)'
  <2>1. PICK done : done = applied'
    OBVIOUS
  <2>2. LInv(done)'
    BY <1>1, <1>3a, <2>1, ReconciliationCovers
  <2> QED
    BY <2>1, <2>2 DEF LInv, CursorCovers, QueueInv, PendingInv, LiveInv, Accounted
<1>4. CASE WorldStep
  <2>1. [Next]_vars /\ UNCHANGED <<tasks, applied>>
    BY <1>4, WorldMines
    DEF WorldStep, ChangeAffiliate, EmptyBlock, ChangeScore, IndexCatchesUp, MineBlock, appVars,
        listenerVars, vars, Next
  <2> QED
    BY <1>3, <2>1
<1>5. CASE ListenerStep
  <2>1. [Next]_vars /\ UNCHANGED applied
    BY <1>5 DEF ListenerStep, Live, Next, appVars
  <2> QED
    BY <1>1, <1>3, <1>5, <2>1, FirstStays DEF WBase
<1>6. CASE Start
  <2>1. phase # "live" /\ processed' = processed \cup {} /\ UNCHANGED applied
    BY <1>6 DEF Start
  <2>2. CASE lastSeen' = savedCursor
    <3>1. CursorSet(savedCursor, {})
      BY <1>6, <2>1, <2>2 DEF Start, CursorSet
    <3> QED
      BY <1>1, <2>1, <3>1, CoveredCursorSet DEF CoverInv, SavedInv
  <2>3. CASE lastSeen' = StartCursor
    <3>1. CursorSet(StartCursor, {})
      BY <1>6, <2>1, <2>3 DEF Start, CursorSet
    <3> QED
      BY <1>1, <2>1, <3>1, CoveredCursorSet, NothingAtStart
  <2> QED
    BY <1>6, <2>2, <2>3 DEF Start
<1>7. CASE \/ Backfill \/ SkipReplay \/ BeginReplay \/ BeginTask \/ ExecuteOperation
           \/ OperationsDone \/ SaveCursor \/ UNCHANGED workerVars
  <2>1. UNCHANGED vars /\ applied \subseteq applied'
    BY <1>7 DEF Backfill, SkipReplay, BeginReplay, BeginTask, ExecuteOperation, OperationsDone,
                SaveCursor, workerVars, appVars
  <2> QED
    BY <1>3, <2>1 DEF vars, listenerVars
<1>8. CASE SaveMap
  <2>0. /\ UNCHANGED applied /\ job.stage = "saveMap" /\ job.batch \subseteq applied
        /\ job.kind \in {"events", "reconcile"}
    BY <1>8 DEF SaveMap, CoverInv, JobCovers, WBase, JobInv, JobType
  <2>1. CASE phase = "replay"
    <3>1. job.kind = "events" /\ CursorSet(job.cursor, job.batch)
      BY <1>8, <2>0, <2>1 DEF SaveMap, CursorSet, CoverInv, WBase, JobInv, socketVars
    <3> QED
      BY <1>1, <2>0, <3>1, CoveredCursorSet DEF CoverInv, JobCovers
  <2>2. CASE phase # "replay" /\ job.kind = "events"
    <3>1. Settle(TRUE) /\ Head(tasks).batch = job.batch
      BY <1>8, <2>0, <2>2 DEF SaveMap, CoverInv, WBase, JobInv
    <3>2. [Next]_vars
      BY <3>1 DEF Next
    <3> QED
      BY <1>1, <2>0, <3>1, <3>2, AppliedKept
  <2>3. CASE phase # "replay" /\ job.kind = "reconcile"
    <3>1. Dropped
      BY <1>8, <2>0, <2>3 DEF SaveMap, Dropped, CoverInv, WBase, JobInv
    <3> QED
      BY <1>3a, <2>0, <3>1
  <2> QED
    BY <2>0, <2>1, <2>2, <2>3
<1>9. CASE ReconcileTick
  BY <1>3a, <1>9 DEF ReconcileTick, Ticked, appVars
<1>10. CASE Crash
  BY <1>1, <1>10, RestartCovers DEF Crash, Reset, Restarted
<1>11. CASE TaskFails \/ TaskFailsAtOnce
  BY <1>11 DEF TaskFails, TaskFailsAtOnce, Reliable
<1> QED
  BY <1>4, <1>5, <1>6, <1>7, <1>8, <1>9, <1>10, <1>11 DEF WorkerNext, WorkerStep, SequentialStep

\* A cursor that lies at most at the head covers no log to come.
LEMMA SavedNext == CoverInv /\ [WorkerNext]_workerVars => SavedInv' /\ JobCovers'
<1> SUFFICES ASSUME CoverInv, [WorkerNext]_workerVars PROVE SavedInv' /\ JobCovers'
  OBVIOUS
<1>1. WBase /\ Inv /\ LogInv /\ LInv(applied) /\ SavedInv /\ JobCovers
  BY DEF CoverInv, WBase, Base
<1>2. /\ savedCursor \in Cursor /\ job.cursor \in Cursor /\ head \in Nat /\ lastSeen \in Cursor
      /\ StartCursor \in Cursor
      /\ \A e \in log : e.cursor \in Cursor /\ e.cursor.block \in Nat
  BY <1>1, EventCursors, QueuedTyped, StartCursorTyped DEF WBase, JobInv, JobType
<1>3. ASSUME UNCHANGED <<head, log>>, applied \subseteq applied', savedCursor' = savedCursor
      PROVE  SavedInv' /\ Relevant' = Relevant
  BY <1>1, <1>3 DEF SavedInv, Relevant
<1>4. ASSUME UNCHANGED <<head, log, savedCursor, job>>, applied \subseteq applied'
      PROVE  SavedInv' /\ JobCovers'
  BY <1>1, <1>3, <1>4 DEF JobCovers
<1>5. ASSUME UNCHANGED <<head, log, savedCursor>>, applied \subseteq applied', job' = NoJob
      PROVE  SavedInv' /\ JobCovers'
  BY <1>3, <1>5 DEF JobCovers, NoJob
<1>6. CASE ChangeAffiliate \/ EmptyBlock
  <2>1. Mine /\ UNCHANGED <<savedCursor, job, applied>>
    BY <1>6, WorldMines DEF ChangeAffiliate, EmptyBlock, appVars, storeVars
  <2>2. PICK new \in SUBSET Event : /\ head' = head + 1 /\ log' = log \cup new
                                    /\ \A f \in new : f.cursor.block = head + 1
    BY <1>1, <2>1, Mined
  <2>3. ASSUME NEW c \in Cursor, c.block <= head, NEW e \in new PROVE ~AtOrBefore(e.cursor, c)
    <3>1. e.cursor \in Cursor /\ e.cursor.block = head + 1
      BY <2>2, MadeCursors
    <3> QED
      BY <1>2, <2>3, <3>1, CursorOrder DEF Cursor
  <2>4. \A e \in Relevant' : e \in Relevant \/ e \in new
    BY <2>2 DEF Relevant, After
  <2>5. SavedInv'
    <3>1. CASE savedCursor.block <= head
      <4>1. head \in Int /\ savedCursor.block \in Int
        BY <1>2 DEF Cursor
      <4> QED
        BY <1>1, <1>2, <2>1, <2>2, <2>3, <2>4, <3>1, <4>1 DEF SavedInv
    <3>2. CASE savedCursor = StartCursor
      <4>1. \A e \in Relevant' : ~AtOrBefore(e.cursor, StartCursor)
        <5> SUFFICES ASSUME NEW e \in Relevant' PROVE ~AtOrBefore(e.cursor, StartCursor)
          OBVIOUS
        <5>1. e.cursor \in Cursor /\ Before(StartCursor, e.cursor)
          BY <1>2, <2>2, MadeCursors DEF Relevant, After
        <5> QED
          BY <1>2, <5>1, CursorOrder
      <4> QED
        BY <2>1, <3>2, <4>1 DEF SavedInv
    <3> QED
      BY <1>1, <3>1, <3>2 DEF SavedInv
  <2>6. JobCovers'
    <3>1. job.cursor.block \in Int
      BY <1>2 DEF Cursor
    <3> QED
      BY <1>1, <1>2, <2>1, <2>2, <2>3, <2>4, <3>1 DEF JobCovers
  <2> QED
    BY <2>5, <2>6
<1>7. CASE ListenerStep
  BY <1>1, <1>4, <1>7, FirstStays DEF ListenerStep, Live, appVars, storeVars, WBase
<1>8. CASE \/ ChangeScore \/ IndexCatchesUp \/ Start \/ Backfill \/ SkipReplay \/ ReconcileTick
           \/ UNCHANGED workerVars
  BY <1>4, <1>8 DEF ChangeScore, IndexCatchesUp, Start, Backfill, SkipReplay, ReconcileTick,
                    workerVars, vars, chainVars, appVars, storeVars
<1>9. CASE BeginReplay
  <2> DEFINE events == EventsBetween(log, lastSeen.block, SafeHead, lastSeen)
  <2>1. UNCHANGED <<head, log, savedCursor, applied>> /\ job' = EventsJob(events, HeadCursor(SafeHead))
    BY <1>9 DEF BeginReplay, vars, chainVars, storeVars
  <2>2. SafeHead \in Nat /\ SafeHead <= head /\ HeadCursor(SafeHead) \in Cursor
        /\ HeadCursor(SafeHead).block = SafeHead
    BY <1>2, SafeHeadTyped, MadeCursors DEF HeadCursor
  <2>3. ASSUME NEW e \in Relevant, AtOrBefore(e.cursor, HeadCursor(SafeHead))
        PROVE  e \in applied \cup events
    <3>1. e \in log /\ e.cursor \in Cursor /\ e.cursor.block <= SafeHead
      BY <1>2, <2>2, <2>3, CursorOrder DEF Relevant, After
    <3>2. CASE AtOrBefore(e.cursor, lastSeen)
      BY <1>1, <3>2 DEF LInv, CursorCovers
    <3>3. CASE Before(lastSeen, e.cursor)
      <4>1. lastSeen.block <= e.cursor.block /\ e.cursor.block \in Int /\ lastSeen.block \in Int
        BY <1>2, <3>1, <3>3 DEF Before, Cursor
      <4>2. e.cursor.block \in lastSeen.block .. SafeHead
        BY <2>2, <3>1, <4>1
      <4> QED
        BY <3>1, <3>3, <4>2 DEF EventsBetween, After
    <3> QED
      BY <1>2, <3>1, <3>2, <3>3, CursorOrder
  <2> HIDE DEF events
  <2>4. /\ job'.kind = "events" /\ job'.stage = "execute" /\ job'.batch = events
        /\ job'.cursor = HeadCursor(SafeHead)
    BY <2>1 DEF EventsJob
  <2> QED
    BY <1>3, <2>1, <2>2, <2>3, <2>4 DEF JobCovers
<1>10. CASE BeginTask
  <2>1. UNCHANGED <<head, log, savedCursor, applied>> /\ tasks # <<>>
    BY <1>10 DEF BeginTask, vars, chainVars, storeVars
  <2>2. CASE Head(tasks).source = "reconcile"
    <3>1. job'.kind = "reconcile" /\ job'.stage = "execute"
      BY <1>10, <2>2 DEF BeginTask
    <3> QED
      BY <1>3, <2>1, <3>1 DEF JobCovers
  <2>3. CASE Head(tasks).source # "reconcile"
    <3> DEFINE batch == Head(tasks).batch
    <3>1. batch \in SUBSET log /\ batch # {}
      BY <1>1, <2>1, <2>3, FirstTask DEF WBase
    <3>2. LastOf(batch) \in batch /\ LastOf(batch).cursor.block <= head
      BY <1>1, <3>1, BatchCursor DEF WBase
    <3>3. batch = tasks[1].batch /\ 1 \in DOMAIN tasks
      BY <1>1, <2>1, QueuedTyped, HeadTailProperties, EmptySeq
    <3>4. \A f \in Relevant : AtOrBefore(f.cursor, LastOf(batch).cursor) => f \in applied \cup batch
      BY <1>1, <3>2, <3>3 DEF LInv, QueueInv
    <3>5. job' = EventsJob(batch, LastOf(batch).cursor)
      BY <1>10, <2>3 DEF BeginTask
    <3> HIDE DEF batch
    <3>6. /\ job'.kind = "events" /\ job'.stage = "execute" /\ job'.batch = batch
          /\ job'.cursor = LastOf(batch).cursor
      BY <3>5 DEF EventsJob
    <3> QED
      BY <1>3, <2>1, <3>2, <3>4, <3>6 DEF JobCovers
  <2> QED
    BY <2>2, <2>3
<1>11. CASE ExecuteOperation
  <2>1. UNCHANGED <<head, log, savedCursor, applied>> /\ job.stage = "execute"
        /\ job' = [job EXCEPT !.plan = Tail(@)]
    BY <1>11 DEF ExecuteOperation, vars, chainVars, storeVars
  <2>2. job'.kind = job.kind /\ job'.stage = "execute" /\ job'.batch = job.batch
        /\ job'.cursor = job.cursor
    BY <1>1, <2>1 DEF WBase, JobInv, JobType
  <2> QED
    BY <1>1, <1>3, <2>1, <2>2 DEF JobCovers
<1>12. CASE OperationsDone
  <2>1. UNCHANGED <<head, log, savedCursor>> /\ applied' = applied \cup job.batch
        /\ \E stage \in {"saveCursor", "saveMap"} : job' = [job EXCEPT !.stage = stage]
    BY <1>12 DEF OperationsDone, vars, chainVars, storeVars
  <2>2. job'.kind = job.kind /\ job'.batch = job.batch /\ job'.cursor = job.cursor
    BY <1>1, <2>1 DEF WBase, JobInv, JobType
  <2> QED
    BY <1>1, <1>3, <2>1, <2>2 DEF JobCovers
<1>13. CASE SaveCursor
  <2>1. /\ UNCHANGED <<head, log, applied>> /\ savedCursor' \in {savedCursor, job.cursor}
        /\ job.stage = "saveCursor" /\ job' = [job EXCEPT !.stage = "saveMap"]
    BY <1>13 DEF SaveCursor, vars, chainVars
  <2>2. job.kind = "events" /\ job.batch \subseteq applied
    BY <1>1, <2>1 DEF WBase, JobInv, JobCovers
  <2>3. SavedInv'
    BY <1>1, <2>1, <2>2 DEF SavedInv, JobCovers, Relevant
  <2>4. job'.kind = job.kind /\ job'.batch = job.batch /\ job'.cursor = job.cursor
    BY <1>1, <2>1 DEF WBase, JobInv, JobType
  <2>5. JobCovers'
    BY <1>1, <2>1, <2>2, <2>4 DEF JobCovers, Relevant
  <2> QED
    BY <2>3, <2>5
<1>14. CASE SaveMap
  BY <1>5, <1>14 DEF SaveMap, Settle, DropTask, chainVars
<1>15. CASE Crash
  BY <1>5, <1>15 DEF Crash, Reset, chainVars, storeVars
<1>16. CASE TaskFails
  BY <1>5, <1>16 DEF TaskFails, Reset, Settle, DropTask, chainVars, storeVars
<1>17. CASE TaskFailsAtOnce
  BY <1>4, <1>17 DEF TaskFailsAtOnce, Settle, DropTask, chainVars, appVars, storeVars
<1> QED
  BY <1>6, <1>7, <1>8, <1>9, <1>10, <1>11, <1>12, <1>13, <1>14, <1>15, <1>16, <1>17
  DEF WorkerNext, WorldStep, WorkerStep, SequentialStep

\* With a reliable environment the saved cursor covers only logs whose batch was
\* carried out, however often the process ends and whichever saves and loads
\* fail: a restart misses no trust or untrust (main.ts, the order of
\* processEvents, saveCursor and saveAffiliateMap).
THEOREM RestartMissesNothing == Reliable => (WorkerSpec => []SavedCursorCoversApplied)
<1>1. SUFFICES ASSUME Reliable PROVE WorkerSpec => []SavedCursorCoversApplied
  OBVIOUS
<1>2. WorkerInit => CoverInv
  <2> SUFFICES ASSUME WorkerInit PROVE CoverInv
    OBVIOUS
  <2>1. PICK done : done = applied
    OBVIOUS
  <2>2. LInv(done)
    BY <1>1, LInvInit DEF WorkerInit
  <2>3. Relevant = {} /\ savedCursor = StartCursor /\ job = NoJob
    BY DEF WorkerInit, Init, Relevant, After
  <2> QED
    BY <2>1, <2>2, <2>3, WBaseInit DEF CoverInv, SavedInv, JobCovers, NoJob
<1>3. CoverInv /\ [WorkerNext]_workerVars => CoverInv'
  <2> SUFFICES ASSUME CoverInv, [WorkerNext]_workerVars PROVE CoverInv'
    OBVIOUS
  <2> QED
    BY <1>1, WBaseNext, AccountNext, SavedNext DEF CoverInv
<1>4. CoverInv => SavedCursorCoversApplied
  BY DEF CoverInv, SavedInv, SavedCursorCoversApplied, Relevant, After
<1> QED
  BY <1>2, <1>3, <1>4, PTL DEF WorkerSpec

-----------------------------------------------------------------------------
(***************************************************************************)
(* Trust follows the map.  A plan is made from the events that touch a     *)
(* group, the map takes in all of them.  The two agree because a batch     *)
(* leaves out no log between two of its own, and because a log says where  *)
(* its human was before.  What gathers on the socket leaves nothing out    *)
(* either, as long as it is handed over before the next connection opens.  *)
(***************************************************************************)
Contiguous(events) ==
    \A e, f \in events, g \in log :
        AtOrBefore(e.cursor, g.cursor) /\ AtOrBefore(g.cursor, f.cursor) => g \in events

ToTheEnd(events) == \A e \in events, g \in log : AtOrBefore(e.cursor, g.cursor) => g \in events

ContigInv ==
    /\ Contiguous(pending)
    /\ \A i \in DOMAIN tasks : Contiguous(tasks[i].batch)
    /\ \A e \in pending, f \in wire : Before(e.cursor, f.cursor)
    /\ conn \in {"subscribed", "live"} => ToTheEnd(pending \cup wire)
    /\ conn \in {"connecting", "subscribed"} => pending = {}
    /\ conn \in {"down", "connecting"} => wire = {}

\* A range of the log that is read after one cursor and filtered by another has
\* no gaps.
LEMMA RangeContiguous ==
    ASSUME Base, NEW from \in Int, NEW to \in Int, NEW c \in Cursor, NEW d \in Cursor
    PROVE  /\ Contiguous(EventsBetween(log, from, to, c))
           /\ Contiguous(After(EventsBetween(log, from, to, c), d))
<1>0. \A e \in log : e.cursor \in Cursor /\ e.cursor.block \in Nat
  BY EventCursors DEF Base
<1>1. ASSUME NEW e \in log, NEW f \in log, NEW g \in log, NEW b \in Cursor,
             Before(b, e.cursor), AtOrBefore(e.cursor, g.cursor), AtOrBefore(g.cursor, f.cursor)
      PROVE  Before(b, g.cursor) /\ e.cursor.block <= g.cursor.block /\ g.cursor.block <= f.cursor.block
  <2>1. e.cursor \in Cursor /\ g.cursor \in Cursor /\ f.cursor \in Cursor
    BY <1>0
  <2>2. ~AtOrBefore(g.cursor, b)
    BY <1>1, <2>1, CursorOrder
  <2> QED
    BY <1>1, <2>1, <2>2, CursorOrder
<1>2. ASSUME NEW e \in EventsBetween(log, from, to, c), NEW f \in EventsBetween(log, from, to, c),
             NEW g \in log, AtOrBefore(e.cursor, g.cursor), AtOrBefore(g.cursor, f.cursor)
      PROVE  g \in EventsBetween(log, from, to, c)
  <2>1. /\ e \in log /\ f \in log /\ Before(c, e.cursor)
        /\ e.cursor.block \in from .. to /\ f.cursor.block \in from .. to
    BY DEF EventsBetween, After
  <2>2. Before(c, g.cursor) /\ g.cursor.block \in from .. to
    BY <1>0, <1>1, <1>2, <2>1
  <2> QED
    BY <2>2 DEF EventsBetween, After
<1>3. EventsBetween(log, from, to, c) \subseteq log
  BY DEF EventsBetween, After
<1> QED
  BY <1>1, <1>2, <1>3 DEF Contiguous, After

\* What is left of a gapless batch after a cursor has no gaps.
LEMMA FreshContiguous ==
    ASSUME Base, NEW events \in SUBSET log, Contiguous(events), NEW c \in Cursor
    PROVE  Contiguous(After(events, c))
<1> SUFFICES ASSUME NEW e \in After(events, c), NEW f \in After(events, c), NEW g \in log,
                    AtOrBefore(e.cursor, g.cursor), AtOrBefore(g.cursor, f.cursor)
             PROVE  g \in events /\ Before(c, g.cursor)
  BY DEF Contiguous, After
<1>1. e \in events /\ f \in events /\ Before(c, e.cursor)
  BY DEF After
<1>2. e.cursor \in Cursor /\ g.cursor \in Cursor
  BY <1>1, EventCursors DEF Base
<1> QED
  BY <1>1, <1>2, CursorOrder DEF Contiguous

\* The queue keeps its batches gapless when one without gaps joins it, and when the
\* first one leaves.
LEMMA GaplessQueue ==
    ASSUME Base, log' = log, \A i \in DOMAIN tasks : Contiguous(tasks[i].batch),
           \/ tasks' = tasks
           \/ \E task \in Task : tasks' = Append(tasks, task) /\ Contiguous(task.batch)
           \/ tasks # <<>> /\ tasks' = Tail(tasks)
    PROVE  (\A i \in DOMAIN tasks : Contiguous(tasks[i].batch))'
<1>0. \A events : Contiguous(events) => \A e, f \in events, g \in log' :
        AtOrBefore(e.cursor, g.cursor) /\ AtOrBefore(g.cursor, f.cursor) => g \in events
  BY DEF Contiguous
<1>1. SUFFICES \A i \in DOMAIN tasks' : Contiguous(tasks'[i].batch)
  BY DEF Contiguous
<1>2. CASE tasks' = tasks
  BY <1>2
<1>3. ASSUME NEW task \in Task, tasks' = Append(tasks, task), Contiguous(task.batch)
      PROVE  \A i \in DOMAIN tasks' : Contiguous(tasks'[i].batch)
  <2>1. /\ DOMAIN tasks' = 1 .. Len(tasks) + 1 /\ DOMAIN tasks = 1 .. Len(tasks) /\ Len(tasks) \in Nat
        /\ \A i \in DOMAIN tasks : tasks'[i] = tasks[i]
        /\ tasks'[Len(tasks) + 1] = task
    BY <1>3, AnotherQueued, QueuedTyped DEF Base
  <2>2. ASSUME NEW i \in DOMAIN tasks' PROVE i \in DOMAIN tasks \/ i = Len(tasks) + 1
    <3>1. i \in 1 .. Len(tasks) + 1 /\ Len(tasks) \in Nat
      BY <2>1
    <3>2. i \in 1 .. Len(tasks) \/ i = Len(tasks) + 1
      BY <3>1
    <3> QED
      BY <2>1, <3>2
  <2> QED
    BY <1>3, <2>1, <2>2
<1>4. CASE tasks # <<>> /\ tasks' = Tail(tasks)
  BY <1>4, FirstLeaves DEF Base
<1> QED
  BY <1>2, <1>3, <1>4

LEMMA ContigInit == Init => ContigInv
BY DEF Init, ContigInv, Contiguous

\* The steps of the listener and of the chain leave no gaps.
LEMMA ContigNext ==
    "reconnectBeforeFlush" \notin Hazards /\ Base /\ ContigInv /\ [Next]_vars => ContigInv'
<1> SUFFICES ASSUME "reconnectBeforeFlush" \notin Hazards, Base, ContigInv, [Next]_vars
             PROVE  ContigInv'
  OBVIOUS
<1>0. /\ Inv /\ LogInv /\ pending \subseteq log /\ wire \subseteq log /\ lastSeen \in Cursor
      /\ \A e \in log : e.cursor \in Cursor
  BY QueuedTyped, EventCursors DEF Base
<1>1. ASSUME UNCHANGED log,
             \/ tasks' = tasks
             \/ \E task \in Task : tasks' = Append(tasks, task) /\ Contiguous(task.batch)
             \/ tasks # <<>> /\ tasks' = Tail(tasks)
      PROVE  /\ (\A i \in DOMAIN tasks : Contiguous(tasks[i].batch))'
             /\ \A events : /\ Contiguous(events) <=> \A e, f \in events, g \in log' :
                                 AtOrBefore(e.cursor, g.cursor) /\ AtOrBefore(g.cursor, f.cursor)
                                     => g \in events
                            /\ ToTheEnd(events) <=> \A e \in events, g \in log' :
                                 AtOrBefore(e.cursor, g.cursor) => g \in events
  BY <1>1, GaplessQueue DEF ContigInv, Contiguous, ToTheEnd
<1>2. ASSUME UNCHANGED <<log, pending, wire>>,
             \/ tasks' = tasks
             \/ \E task \in Task : tasks' = Append(tasks, task) /\ Contiguous(task.batch)
             \/ tasks # <<>> /\ tasks' = Tail(tasks),
             \/ conn' = conn
             \/ conn = "down" /\ conn' = "connecting" /\ pending = {}
             \/ conn = "connecting" /\ conn' = "subscribed"
             \/ conn = "subscribed" /\ conn' = "live"
      PROVE  ContigInv'
  <2>1. (\A i \in DOMAIN tasks : Contiguous(tasks[i].batch))'
    BY <1>1, <1>2
  <2>2. Contiguous(pending)'
    BY <1>2 DEF ContigInv, Contiguous
  <2>3. (conn \in {"subscribed", "live"} => ToTheEnd(pending \cup wire))'
    BY <1>2 DEF ContigInv, ToTheEnd
  <2> QED
    BY <1>2, <2>1, <2>2, <2>3 DEF ContigInv
<1>3. CASE Mine
  <2>1. PICK new \in SUBSET Event :
             /\ log' = log \cup new
             /\ wire' = IF conn \in {"subscribed", "live"} THEN wire \cup new ELSE wire
             /\ UNCHANGED <<conn, pending, tasks>>
             /\ \A e \in log, f \in new : Before(e.cursor, f.cursor)
    BY <1>0, <1>3, Mined
  <2>2. \A e \in log, f \in new : ~AtOrBefore(f.cursor, e.cursor)
    BY <1>0, <2>1, MadeCursors, CursorOrder
  <2>3. ASSUME NEW events \in SUBSET log, Contiguous(events)
        PROVE  \A e, f \in events, g \in log' :
                 AtOrBefore(e.cursor, g.cursor) /\ AtOrBefore(g.cursor, f.cursor) => g \in events
    BY <2>1, <2>2, <2>3 DEF Contiguous
  <2>4. Contiguous(pending)'
    BY <1>0, <2>1, <2>3 DEF ContigInv, Contiguous
  <2>5. (\A i \in DOMAIN tasks : Contiguous(tasks[i].batch))'
    BY <1>0, <2>1, <2>3, QueuedTyped DEF ContigInv, Contiguous
  <2>6. (conn \in {"subscribed", "live"} => ToTheEnd(pending \cup wire))'
    BY <1>0, <2>1, <2>2 DEF ContigInv, ToTheEnd
  <2>7. \A e \in pending', f \in wire' : Before(e.cursor, f.cursor)
    BY <1>0, <2>1 DEF ContigInv
  <2> QED
    BY <2>1, <2>4, <2>5, <2>6, <2>7 DEF ContigInv
<1>4. CASE Connect \/ HeadFetched \/ Subscribe \/ SubscriptionAcknowledged
  BY <1>2, <1>4 DEF Connect, HeadFetched, Subscribe, SubscriptionAcknowledged, chainVars, listenerVars
<1>5. CASE Disconnect
  <2>1. UNCHANGED <<log, pending, tasks>> /\ wire' = {} /\ conn' = "down"
    BY <1>5 DEF Disconnect, chainVars, listenerVars
  <2> QED
    BY <2>1 DEF ContigInv, Contiguous
<1>6. CASE Receive
  <2>1. PICK e \in wire : /\ \A f \in wire : AtOrBefore(e.cursor, f.cursor)
                          /\ wire' = wire \ {e} /\ pending' = pending \cup {e}
    BY <1>6 DEF Receive
  <2>2. UNCHANGED <<log, conn, tasks>> /\ conn = "live"
    BY <1>6 DEF Receive, chainVars
  <2>3. \A f \in wire \ {e} : Before(e.cursor, f.cursor) /\ ~AtOrBefore(f.cursor, e.cursor)
    BY <1>0, <2>1, CursorOrder DEF LogInv, AtOrBefore
  <2>4. \A a \in pending', f \in wire' : Before(a.cursor, f.cursor) /\ ~AtOrBefore(f.cursor, a.cursor)
    BY <1>0, <2>1, <2>3, CursorOrder DEF ContigInv
  <2>5. ToTheEnd(pending')
        \/ \A a \in pending', g \in log : AtOrBefore(a.cursor, g.cursor) => g \in pending' \cup wire'
    BY <2>1, <2>2 DEF ContigInv, ToTheEnd
  <2>6. Contiguous(pending)'
    BY <2>2, <2>4, <2>5 DEF Contiguous, ToTheEnd
  <2>7. pending' \cup wire' = pending \cup wire
    BY <2>1
  <2>8. (conn \in {"subscribed", "live"} => ToTheEnd(pending \cup wire))'
    BY <2>2, <2>7 DEF ContigInv, ToTheEnd
  <2>9. (\A i \in DOMAIN tasks : Contiguous(tasks[i].batch))'
    BY <1>1, <2>2
  <2> QED
    BY <2>2, <2>4, <2>6, <2>8, <2>9 DEF ContigInv
<1>7. CASE Flush
  <2>1. UNCHANGED <<log, conn, wire>> /\ pending' = {} /\ Deliver("live", pending)
    BY <1>7 DEF Flush, chainVars, socketVars
  <2>2. Contiguous(After(pending, lastSeen))
    BY <1>0, FreshContiguous DEF ContigInv
  <2>3. tasks' = tasks \/ \E task \in Task : tasks' = Append(tasks, task) /\ Contiguous(task.batch)
    BY <1>0, <2>1, <2>2, Delivered
  <2>4. (\A i \in DOMAIN tasks : Contiguous(tasks[i].batch))'
    BY <1>1, <2>1, <2>3
  <2>5. (conn \in {"subscribed", "live"} => ToTheEnd(pending \cup wire))'
    <3> SUFFICES ASSUME conn \in {"subscribed", "live"}, NEW e \in wire, NEW g \in log,
                        AtOrBefore(e.cursor, g.cursor)
                 PROVE  g \in wire
      BY <2>1 DEF ToTheEnd
    <3>1. g \in pending \cup wire
      BY DEF ContigInv, ToTheEnd
    <3>2. g \notin pending
      BY <1>0, CursorOrder DEF ContigInv
    <3> QED
      BY <3>1, <3>2
  <2> QED
    BY <2>1, <2>4, <2>5 DEF ContigInv, Contiguous
<1>8. CASE CatchUpFetched
  <2> DEFINE events == EventsBetween(log, catchUp.from.block, catchUp.to, catchUp.from)
  <2>1. UNCHANGED <<log, conn, wire, pending>> /\ Deliver("catchUp", events) /\ events \in SUBSET log
    BY <1>8 DEF CatchUpFetched, chainVars, socketVars, EventsBetween, After
  <2>2. catchUp.from \in Cursor /\ catchUp.from.block \in Int /\ catchUp.to \in Int
    BY <1>0, ListenerAssumption DEF Inv, TypeOK, Cursor, NoHead
  <2>3. Contiguous(After(events, lastSeen))
    BY <1>0, <2>2, RangeContiguous
  <2> HIDE DEF events
  <2>4. tasks' = tasks \/ \E task \in Task : tasks' = Append(tasks, task) /\ Contiguous(task.batch)
    BY <1>0, <2>1, <2>3, Delivered
  <2> QED
    BY <1>2, <2>1, <2>4
<1>9. CASE CatchUpHead \/ CatchUpFails
  BY <1>2, <1>9 DEF CatchUpHead, CatchUpFails, chainVars, socketVars
<1>10. CASE \E succeeded \in BOOLEAN : Settle(succeeded)
  BY <1>2, <1>10 DEF Settle, chainVars, socketVars
<1>11. CASE UNCHANGED vars
  BY <1>2, <1>11 DEF vars, chainVars, socketVars, listenerVars
<1> QED
  BY <1>3, <1>4, <1>5, <1>6, <1>7, <1>8, <1>9, <1>10, <1>11 DEF Next, CatchUpRequest

LEMMA EffectsKeepContig ==
    ASSUME Base, StartingInv, ContigInv,
           \/ Restarted
           \/ \E cursor, batch : CursorSet(cursor, batch)
           \/ Ticked \/ Dropped
    PROVE  ContigInv'
<1>1. CASE Restarted
  <2>1. conn' = "down" /\ wire' = {} /\ pending' = {} /\ DOMAIN tasks' = {}
    BY <1>1 DEF Restarted
  <2> QED
    BY <2>1 DEF ContigInv, Contiguous
<1>2. ASSUME NEW cursor, NEW batch, CursorSet(cursor, batch) PROVE ContigInv'
  <2>1. conn' = "down" /\ wire' = {} /\ pending' = {} /\ DOMAIN tasks' = {}
    BY <1>2 DEF CursorSet, StartingInv, socketVars
  <2> QED
    BY <2>1 DEF ContigInv, Contiguous
<1>3. CASE Ticked \/ Dropped
  <2>1. UNCHANGED <<log, conn, wire, pending>>
    BY <1>3 DEF Ticked, Dropped, DropTask, chainVars, socketVars
  <2>2. \/ \E task \in Task : tasks' = Append(tasks, task) /\ Contiguous(task.batch)
        \/ tasks # <<>> /\ tasks' = Tail(tasks)
    <3> DEFINE task == [source |-> "reconcile", batch |-> {}]
    <3>1. task \in Task /\ Contiguous(task.batch)
      BY DEF Task, Contiguous
    <3> QED
      BY <1>3, <3>1 DEF Ticked, Dropped, DropTask
  <2>3. (\A i \in DOMAIN tasks : Contiguous(tasks[i].batch))'
    BY <2>1, <2>2, GaplessQueue DEF ContigInv
  <2> QED
    BY <2>1, <2>3 DEF ContigInv, Contiguous, ToTheEnd
<1> QED
  BY <1>1, <1>2, <1>3

\* A log says where its human was before.
Earlier(e) == {f \in log : Before(f.cursor, e.cursor)}

RegistryInv == \A e \in log : e.change.from = GroupIn(Earlier(e), e.change.human)

LEMMA RegistryNext == Base /\ RegistryInv /\ [WorkerNext]_workerVars => RegistryInv'
<1> SUFFICES ASSUME Base, RegistryInv, [WorkerNext]_workerVars PROVE RegistryInv'
  OBVIOUS
<1>1. CASE UNCHANGED log
  BY <1>1 DEF RegistryInv, Earlier
<1>2. CASE ChangeAffiliate
  <2>1. PICK n \in 1 .. MaxLogsPerBlock : \E changes \in [0 .. n - 1 -> Changes] :
          LET new == LogsOfBlock(head + 1, changes)
          IN  /\ \A e \in new : e.change.from = GroupIn(log \cup {f \in new : Before(f.cursor, e.cursor)},
                                                       e.change.human)
              /\ MineBlock(new)
    BY <1>2 DEF ChangeAffiliate
  <2>2. PICK changes \in [0 .. n - 1 -> Changes] :
          LET new == LogsOfBlock(head + 1, changes)
          IN  /\ \A e \in new : e.change.from = GroupIn(log \cup {f \in new : Before(f.cursor, e.cursor)},
                                                       e.change.human)
              /\ MineBlock(new)
    BY <2>1
  <2> DEFINE new == LogsOfBlock(head + 1, changes)
             before(d) == {f \in log' : Before(f.cursor, d.cursor)}
  <2>3. head \in Nat /\ \A f \in log : f.cursor \in Cursor /\ f.cursor.block \in Nat /\ f.cursor.block <= head
    BY QueuedTyped, EventCursors DEF Base, LogInv
  <2>4. \A e \in new : e.cursor.block = head + 1
    BY <2>3, NewLogs
  <2>5. /\ log' = log \cup new
        /\ \A e \in new : e.change.from = GroupIn(log \cup {f \in new : Before(f.cursor, e.cursor)},
                                                 e.change.human)
    BY <2>2 DEF MineBlock
  <2> HIDE DEF new
  <2>6. \A f \in log, e \in new : Before(f.cursor, e.cursor) /\ ~Before(e.cursor, f.cursor)
    BY <2>3, <2>4 DEF Before
  <2>7. \A e \in new : before(e) = log \cup {f \in new : Before(f.cursor, e.cursor)}
    BY <2>5, <2>6
  <2>8. \A d \in log : before(d) = Earlier(d)
    BY <2>5, <2>6 DEF Earlier
  <2>9. \A d \in log' : d.change.from = GroupIn(before(d), d.change.human)
    BY <2>5, <2>7, <2>8 DEF RegistryInv
  <2> QED
    BY <2>9 DEF RegistryInv, Earlier
<1>3. CASE ~UNCHANGED log
  <2>1. ~(UNCHANGED vars)
    BY <1>3 DEF vars, chainVars
  <2>2. ~EmptyBlock
    BY <1>3 DEF EmptyBlock, MineBlock
  <2>3. ~ListenerStep
    BY <1>3, FirstStays
  <2> QED
    BY <1>2, <1>3, <2>1, <2>2, <2>3
    DEF WorkerNext, WorldStep, WorkerStep, SequentialStep, ChangeScore, IndexCatchesUp, Start, Backfill,
        SkipReplay, BeginReplay, ReconcileTick, BeginTask, ExecuteOperation, OperationsDone, SaveCursor,
        SaveMap, Settle, DropTask, Crash, Reset, TaskFails, TaskFailsAtOnce, workerVars, vars, chainVars
<1> QED
  BY <1>1, <1>3

\* The last event of a human that touches a group joins it: then no later event of
\* the batch takes the human elsewhere, as that one would touch the group too.
LEMMA JoinedLast ==
    ASSUME Base, RegistryInv, NEW batch \in SUBSET log, Contiguous(batch),
           NEW h, NEW g, Touching(batch, h, g) # {},
           LastOf(Touching(batch, h, g)).change.to = g
    PROVE  /\ EventsOf(Real(batch), h) # {}
           /\ LastOf(EventsOf(Real(batch), h)).change.to = g
<1> DEFINE T == Touching(batch, h, g)
           R == EventsOf(Real(batch), h)
           t == LastOf(T)
           l == LastOf(R)
<1>0. \A part \in SUBSET log : Ordered(part)
  BY RealOrdered
<1>1. /\ T \in SUBSET log /\ R \in SUBSET log /\ T \subseteq R
      /\ \A e : e \in R <=> e \in batch /\ e.change.human = h /\ e.change.from # e.change.to
      /\ \A e : e \in T <=> e \in R /\ g \in {e.change.from, e.change.to}
  BY DEF Touching, EventsOf, Real
<1> HIDE DEF T, R
<1>2. t \in T /\ \A e \in T : AtOrBefore(e.cursor, t.cursor)
  BY <1>0, <1>1, LastExists DEF T
<1>3. R # {} /\ l \in R /\ \A e \in R : AtOrBefore(e.cursor, l.cursor)
  BY <1>0, <1>1, <1>2, LastExists
<1>4. t.change.to = g
  BY DEF T
<1> HIDE DEF t, l
<1>5. \A e \in log : e.cursor \in Cursor
  BY EventCursors DEF Base
<1>6. SUFFICES ASSUME l.change.to # g PROVE FALSE
  BY <1>3 DEF R, l
<1> DEFINE W == {e \in EventsOf(batch, h) : Before(t.cursor, e.cursor) /\ e.change.to # g}
<1>7. W \in SUBSET log /\ \A e \in W : e \in batch /\ e.change.human = h
  BY DEF EventsOf
<1>8. l \in W
  <2>1. l \in log /\ t \in log /\ AtOrBefore(t.cursor, l.cursor) /\ l # t
    BY <1>1, <1>2, <1>3, <1>4, <1>6
  <2>2. Before(t.cursor, l.cursor)
    BY <2>1 DEF Base, LogInv, AtOrBefore
  <2> QED
    BY <1>1, <1>3, <1>6, <2>2 DEF EventsOf
<1>9. PICK u \in W : \A e \in W : AtOrBefore(u.cursor, e.cursor)
  BY <1>0, <1>7, <1>8, LastExists
<1>10. u \in log /\ u \in batch /\ u.change.human = h /\ Before(t.cursor, u.cursor) /\ u.change.to # g
  BY <1>7, <1>9
<1> HIDE DEF W
<1>11. t \in log /\ t \in batch /\ t.change.human = h
  BY <1>1, <1>2
<1> DEFINE P == EventsOf(Earlier(u), h)
           v == LastOf(P)
<1>12. P \in SUBSET log /\ t \in P
  BY <1>10, <1>11 DEF Earlier, EventsOf
<1>13. v \in P /\ AtOrBefore(t.cursor, v.cursor)
  BY <1>0, <1>12, LastExists
<1>14. v \in log /\ v.change.human = h /\ Before(v.cursor, u.cursor)
  BY <1>13 DEF Earlier, EventsOf
<1>15. u.change.from = v.change.to
  BY <1>10, <1>12 DEF RegistryInv, GroupIn
<1> HIDE DEF P, v
<1>16. v.change.to = g
  <2>1. CASE v = t
    BY <1>4, <2>1
  <2>2. CASE v # t
    <3>1. Before(t.cursor, v.cursor)
      BY <1>11, <1>13, <1>14, <2>2 DEF Base, LogInv, AtOrBefore
    <3>2. AtOrBefore(v.cursor, u.cursor)
      BY <1>14 DEF AtOrBefore
    <3>3. v \in batch
      BY <1>10, <1>11, <1>13, <1>14, <3>2 DEF Contiguous
    <3>4. v \notin W
      BY <1>5, <1>9, <1>10, <1>14, CursorOrder
    <3> QED
      BY <1>14, <3>1, <3>3, <3>4 DEF W, EventsOf
  <2> QED
    BY <2>1, <2>2
<1>17. u \in T
  BY <1>1, <1>10, <1>15, <1>16
<1> QED
  BY <1>2, <1>5, <1>10, <1>11, <1>17, CursorOrder

\* What the job is still going to trust is where the map has it.
PlanInv == \A i \in DOMAIN job.plan : job.plan[i].op = "trust" =>
               \A h \in job.plan[i].humans : map.toGroup[h] = job.plan[i].group

\* The plan made from a gapless batch agrees with the map that has taken it in.
LEMMA PlanAgrees ==
    ASSUME WBase, RegistryInv, NEW batch \in SUBSET log, Contiguous(batch), NEW cursor,
           map' = ApplyEvents(map, Real(batch)), job' = EventsJob(batch, cursor)
    PROVE  PlanInv'
<1>1. job'.plan = EventPlan(batch)
  BY DEF EventsJob
<1>2. SUFFICES ASSUME NEW i \in DOMAIN EventPlan(batch), EventPlan(batch)[i].op = "trust",
                      NEW h \in EventPlan(batch)[i].humans
               PROVE  map'.toGroup[h] = EventPlan(batch)[i].group
  BY <1>1 DEF PlanInv
<1> DEFINE g == EventPlan(batch)[i].group
<1>3. /\ h \in Humans /\ Touching(batch, h, g) # {}
      /\ LastOf(Touching(batch, h, g)).change.to = g
  BY <1>2, EventPlanAsks
<1> HIDE DEF g
<1>4. /\ EventsOf(Real(batch), h) # {}
      /\ LastOf(EventsOf(Real(batch), h)).change.to = g
  BY <1>3, JoinedLast DEF WBase
<1>5. map'.toGroup[h] = LedTo(map, Real(batch), h)
  BY <1>3, RealOrdered, EventsApplied DEF WBase, WorldInv
<1> QED
  BY <1>4, <1>5 DEF LedTo, g

FollowInv == WBase /\ ContigInv /\ RegistryInv /\ PlanInv

LEMMA PlanNext == FollowInv /\ [WorkerNext]_workerVars => PlanInv'
<1> SUFFICES ASSUME FollowInv, [WorkerNext]_workerVars PROVE PlanInv'
  OBVIOUS
<1> USE DEF FollowInv
<1>1. ASSUME UNCHANGED <<job, map>> PROVE PlanInv'
  BY <1>1 DEF PlanInv
<1>2. ASSUME job' = NoJob PROVE PlanInv'
  BY <1>2 DEF PlanInv, NoJob
<1>3. CASE \/ WorldStep \/ ListenerStep \/ Start \/ SkipReplay \/ ReconcileTick \/ SaveCursor
           \/ TaskFailsAtOnce \/ OperationsDone \/ UNCHANGED workerVars
  <2>1. CASE SaveCursor \/ OperationsDone
    <3>1. map' = map /\ job'.plan = job.plan
      BY <2>1 DEF SaveCursor, OperationsDone, WBase, JobInv, JobType
    <3> QED
      BY <3>1 DEF PlanInv
  <2>2. CASE ~(SaveCursor \/ OperationsDone)
    BY <1>1, <1>3, <2>2
    DEF WorldStep, ListenerStep, Live, ChangeAffiliate, EmptyBlock, ChangeScore, IndexCatchesUp, Start,
        SkipReplay, ReconcileTick, TaskFailsAtOnce, appVars, workerVars
  <2> QED
    BY <2>1, <2>2
<1>4. CASE Backfill
  BY <1>2, <1>4 DEF Backfill, WBase, JobInv
<1>5. CASE BeginReplay
  <2> DEFINE events == EventsBetween(log, lastSeen.block, SafeHead, lastSeen)
  <2>1. Contiguous(events) /\ events \in SUBSET log
    <3>1. lastSeen \in Cursor /\ lastSeen.block \in Int /\ SafeHead \in Int
      BY QueuedTyped, SafeHeadTyped DEF WBase, Base, Cursor
    <3> QED
      BY <3>1, RangeContiguous DEF WBase, EventsBetween, After
  <2>2. map' = ApplyEvents(map, Real(events)) /\ job' = EventsJob(events, HeadCursor(SafeHead))
    BY <1>5 DEF BeginReplay
  <2> HIDE DEF events
  <2> QED
    BY <2>1, <2>2, PlanAgrees
<1>6. CASE BeginTask
  <2>1. CASE Head(tasks).source = "reconcile"
    <3>1. map' = map /\ job'.plan = ReconcilePlan
      BY <1>6, <2>1 DEF BeginTask
    <3> QED
      BY <3>1, ReconcilePlanAsks DEF PlanInv, WBase
  <2>2. CASE Head(tasks).source # "reconcile"
    <3> DEFINE batch == Head(tasks).batch
    <3>1. batch \in SUBSET log /\ tasks # <<>>
      BY <1>6, FirstTask DEF BeginTask, WBase
    <3>2. Contiguous(batch)
      BY <3>1, QueuedTyped, HeadTailProperties, EmptySeq DEF ContigInv, WBase, Base
    <3>3. map' = ApplyEvents(map, Real(batch)) /\ job' = EventsJob(batch, LastOf(batch).cursor)
      BY <1>6, <2>2 DEF BeginTask
    <3> HIDE DEF batch
    <3> QED
      BY <3>1, <3>2, <3>3, PlanAgrees
  <2> QED
    BY <2>1, <2>2
<1>7. CASE ExecuteOperation
  <2>1. map' = map /\ job.plan # <<>> /\ job'.plan = Tail(job.plan) /\ job.plan \in Seq(Planned)
    BY <1>7 DEF ExecuteOperation, WBase, JobInv, JobType
  <2>2. \A i \in DOMAIN job'.plan : i + 1 \in DOMAIN job.plan /\ job'.plan[i] = job.plan[i + 1]
    BY <2>1, HeadTailProperties, EmptySeq
  <2> QED
    BY <2>1, <2>2 DEF PlanInv
<1>8. CASE SaveMap
  BY <1>2, <1>8 DEF SaveMap
<1>9. CASE Crash \/ TaskFails
  BY <1>2, <1>9 DEF Crash, Reset, TaskFails
<1> QED
  BY <1>3, <1>4, <1>5, <1>6, <1>7, <1>8, <1>9 DEF WorkerNext, WorkerStep, SequentialStep

\* A transaction trusts only whom its plan asks for.
LEMMA TrustStep ==
    ASSUME FollowInv, [WorkerNext]_workerVars
    PROVE  \A g \in Managed : \A h \in trust'[g] \ trust[g] : map.toGroup[h] = g
<1> USE DEF FollowInv
<1>1. CASE UNCHANGED trust
  BY <1>1
<1>2. CASE job.plan # <<>> /\ Carry(Head(job.plan))
  <2>1. job.plan \in Seq(Planned)
    BY DEF WBase, JobInv, JobType
  <2>2. /\ Head(job.plan) = job.plan[1] /\ 1 \in DOMAIN job.plan
        /\ Head(job.plan) \in Planned
    BY <1>2, <2>1, HeadTailProperties, EmptySeq
  <2> DEFINE op == Head(job.plan)
  <2>3. /\ op.op = "trust" => \A h \in op.humans : map.toGroup[h] = op.group
        /\ op.group \in Managed
    BY <2>2 DEF PlanInv, Planned
  <2>4. trust' = [trust EXCEPT ![op.group] =
                    IF op.op = "trust" THEN @ \cup op.humans ELSE @ \ op.humans]
    BY <1>2 DEF Carry
  <2> HIDE DEF op
  <2>5. trust \in [Managed -> SUBSET Humans]
    BY DEF WBase, WorldInv
  <2> QED
    BY <2>3, <2>4, <2>5
<1>3. CASE TaskFails \/ ExecuteOperation
  BY <1>1, <1>2, <1>3 DEF TaskFails, ExecuteOperation
<1> QED
  BY <1>1, <1>3
  DEF WorkerNext, WorldStep, WorkerStep, SequentialStep, ListenerStep, Live, ChangeAffiliate, EmptyBlock,
      ChangeScore, IndexCatchesUp, Start, Backfill, SkipReplay, BeginReplay, ReconcileTick, BeginTask,
      OperationsDone, SaveCursor, SaveMap, Crash, TaskFailsAtOnce, appVars, worldVars, workerVars

\* Nobody is trusted in a group but the one that the map has it in, whatever is
\* lost, overtaken, repeated or fails on the way and whenever the process ends, as
\* long as the debounce ends before a new connection opens (logic.ts:89,
\* runForAffiliateEvents; main.ts, enqueueExclusive; realtime.ts:76-78).
THEOREM TrustFollows ==
    "reconnectBeforeFlush" \notin Hazards => (WorkerSpec => TrustFollowsMap)
<1>1. SUFFICES ASSUME "reconnectBeforeFlush" \notin Hazards PROVE WorkerSpec => TrustFollowsMap
  OBVIOUS
<1>2. WorkerInit => FollowInv
  <2> SUFFICES ASSUME WorkerInit PROVE FollowInv
    OBVIOUS
  <2>1. log = {} /\ job.plan = <<>>
    BY DEF WorkerInit, Init, NoJob
  <2> QED
    BY <2>1, WBaseInit, ContigInit DEF FollowInv, WorkerInit, RegistryInv, PlanInv
<1>3. FollowInv /\ [WorkerNext]_workerVars => FollowInv'
  <2> SUFFICES ASSUME FollowInv, [WorkerNext]_workerVars PROVE FollowInv'
    OBVIOUS
  <2>1. WBase' /\ RegistryInv' /\ PlanInv'
    BY WBaseNext, RegistryNext, PlanNext DEF FollowInv, WBase
  <2>2. ContigInv'
    BY <1>1, EffectsTyped, EffectsKeepContig, ContigNext DEF FollowInv, WBase
  <2> QED
    BY <2>1, <2>2 DEF FollowInv
<1> QED
  BY <1>2, <1>3, TrustStep, PTL DEF WorkerSpec, TrustFollowsMap

-----------------------------------------------------------------------------
(***************************************************************************)
(* The map is the registry's fold.  Up to some point of the chain it says  *)
(* what the logs up to that point say: up to the end of its own block once *)
(* it is filled or saved, up to lastSeenCursor while the listener runs, up *)
(* to the cursor of the batch while a batch is carried out.                *)
(***************************************************************************)
UpTo(c) == {e \in log : AtOrBefore(e.cursor, c)}

\* Logs before which no log is left out.
Prefix(events) == \A e \in events, f \in log : AtOrBefore(f.cursor, e.cursor) => f \in events

\* A batch that leaves out nothing, between its first log and the end of the given logs.
EndOf(events, batch) == \A e \in batch, f \in events : AtOrBefore(e.cursor, f.cursor) => f \in batch

KnownIn(entries, h) == IF entries[h] = NoGroup THEN ZeroGroup ELSE entries[h]

SaysWhat(entries, events) == \A h \in Humans : KnownIn(entries, h) = GroupIn(events, h)

LEMMA UpToPrefix ==
    ASSUME Base, NEW c \in Cursor
    PROVE  UpTo(c) \in SUBSET log /\ Prefix(UpTo(c))
BY EventCursors, CursorOrder DEF Base, UpTo, Prefix

\* Where a human only sets the group it has, the registry goes on saying what it said.
LEMMA StaysPut ==
    ASSUME Base, RegistryInv, NEW early \in SUBSET log, NEW late \in SUBSET log, early \subseteq late,
           Prefix(early), Prefix(late), NEW h,
           \A e \in EventsOf(late, h) : e \in early \/ e.change.from = e.change.to
    PROVE  GroupIn(late, h) = GroupIn(early, h)
<1> DEFINE L == EventsOf(late, h)
           E == EventsOf(early, h)
           l == LastOf(L)
           group == GroupIn(early, h)
<1>0. /\ \A part \in SUBSET log : Ordered(part)
      /\ \A e \in log : e.cursor \in Cursor
  BY RealOrdered, EventCursors DEF Base
<1>1. /\ L \in SUBSET log /\ E \in SUBSET L
      /\ \A e : e \in L <=> e \in late /\ e.change.human = h
      /\ \A e : e \in E <=> e \in early /\ e.change.human = h
  BY DEF EventsOf
<1>2. CASE L = {}
  BY <1>1, <1>2 DEF GroupIn
<1>3. ASSUME L # {} PROVE GroupIn(late, h) = group
  <2>1. GroupIn(late, h) = l.change.to
    BY <1>3 DEF GroupIn
  <2>2. l \in L
    BY <1>0, <1>1, <1>3, LastExists
  <2> HIDE DEF group
  <2>3. CASE l \in early
    <3>1. l \in E
      BY <1>1, <2>2, <2>3
    <3> HIDE DEF L, E
    <3>2. LastOf(E) = l
      BY <1>0, <1>1, <3>1, LastOfPart DEF l
    <3> QED
      BY <2>1, <3>1, <3>2 DEF GroupIn, E, group
  <2>4. CASE l \notin early
    <3> SUFFICES ASSUME l.change.to # group PROVE FALSE
      BY <2>1
    <3> DEFINE W == {e \in L : e \notin early /\ e.change.to # group}
    <3> HIDE DEF L, E, l
    <3>1. l \in W /\ W \in SUBSET log
      BY <1>1, <2>2, <2>4
    <3>2. PICK u \in W : \A e \in W : AtOrBefore(u.cursor, e.cursor)
      BY <1>0, <3>1, LastExists
    <3>3. /\ u \in late /\ u \in log /\ u.change.human = h /\ u \notin early
          /\ u.change.from = u.change.to /\ u.change.to # group
      BY <1>1, <3>2 DEF L
    <3> DEFINE P == EventsOf(Earlier(u), h)
               v == LastOf(P)
    <3>4. u.change.from = GroupIn(Earlier(u), h)
      BY <3>3 DEF RegistryInv
    <3>5. P \in SUBSET log /\ \A e : e \in P <=> e \in log /\ Before(e.cursor, u.cursor) /\ e.change.human = h
      BY DEF EventsOf, Earlier
    <3>6. E \in SUBSET P
      <4> SUFFICES ASSUME NEW e \in E PROVE e \in P
        OBVIOUS
      <4>1. e \in early /\ e \in log /\ ~AtOrBefore(u.cursor, e.cursor)
        BY <1>1, <3>3 DEF Prefix
      <4> QED
        BY <1>0, <1>1, <3>3, <3>5, <4>1, CursorOrder
    <3>7. CASE P = {}
      BY <3>3, <3>4, <3>6, <3>7 DEF GroupIn, group, E
    <3>8. CASE P # {}
      <4>1. v \in P /\ GroupIn(Earlier(u), h) = v.change.to
        BY <1>0, <3>5, <3>8, LastExists DEF GroupIn
      <4>2. v \in log /\ Before(v.cursor, u.cursor) /\ v.change.human = h
        BY <3>5, <4>1
      <4>3. CASE v \in early
        <5>1. v \in E
          BY <1>1, <4>2, <4>3
        <5> HIDE DEF P
        <5>2. LastOf(E) = v
          BY <1>0, <3>5, <3>6, <5>1, LastOfPart DEF v
        <5> QED
          BY <3>3, <3>4, <4>1, <5>1, <5>2 DEF GroupIn, group, E
      <4>4. CASE v \notin early
        <5> HIDE DEF v, P
        <5>1. v \in late
          BY <3>3, <4>2 DEF Prefix, AtOrBefore
        <5>2. v \notin W
          BY <1>0, <3>2, <3>3, <4>2, CursorOrder
        <5> QED
          BY <1>1, <3>3, <3>4, <4>1, <4>2, <4>4, <5>1, <5>2
      <4> QED
        BY <4>3, <4>4
    <3> QED
      BY <3>7, <3>8
  <2> QED
    BY <2>3, <2>4
<1> QED
  BY <1>2, <1>3

\* The real changes of the logs that are new, taken into a map of the known ones.
LEMMA RealFolded ==
    ASSUME Base, RegistryInv, NEW m \in ExactMaps,
           NEW known \in SUBSET log, NEW late \in SUBSET log, known \subseteq late,
           Prefix(known), Prefix(late), SaysWhat(m.toGroup, known),
           NEW batch \in SUBSET late, late \subseteq known \cup batch, EndOf(late, batch)
    PROVE  SaysWhat(ApplyEvents(m, Real(batch)).toGroup, late)
<1> SUFFICES ASSUME NEW h \in Humans
             PROVE  KnownIn(ApplyEvents(m, Real(batch)).toGroup, h) = GroupIn(late, h)
  BY DEF SaysWhat
<1> DEFINE R == EventsOf(Real(batch), h)
           r == LastOf(R)
<1>0. /\ \A part \in SUBSET log : Ordered(part)
      /\ \A e \in log : e.cursor \in Cursor /\ e \in Event
  BY RealOrdered, EventCursors, QueuedTyped DEF Base
<1>1. R \in SUBSET log /\ \A e : e \in R <=> e \in batch /\ e.change.human = h /\ e.change.from # e.change.to
  BY DEF EventsOf, Real
<1>2. ApplyEvents(m, Real(batch)).toGroup[h] = LedTo(m, Real(batch), h)
  BY RealOrdered, EventsApplied
<1>3. CASE R = {}
  <2>1. KnownIn(ApplyEvents(m, Real(batch)).toGroup, h) = GroupIn(known, h)
    BY <1>2, <1>3 DEF LedTo, KnownIn, SaysWhat
  <2>2. \A e \in EventsOf(late, h) : e \in known \/ e.change.from = e.change.to
    BY <1>1, <1>3 DEF EventsOf
  <2> QED
    BY <2>1, <2>2, StaysPut
<1>4. CASE R # {}
  <2>1. r \in R /\ \A e \in R : AtOrBefore(e.cursor, r.cursor)
    BY <1>0, <1>1, <1>4, LastExists
  <2>2. ApplyEvents(m, Real(batch)).toGroup[h] = r.change.to
    BY <1>2, <1>4 DEF LedTo
  <2> HIDE DEF R, r
  <2>3. r \in batch /\ r \in log /\ r \in Event /\ r.change.human = h
    BY <1>0, <1>1, <2>1
  <2>4. r.change.to # NoGroup
    BY <2>3, EventSays, MapAssumption
  <2> DEFINE early == UpTo(r.cursor)
  <2>5. early \in SUBSET log /\ Prefix(early)
    BY <1>0, <2>3, UpToPrefix
  <2>6. early \subseteq late
    BY <2>3 DEF Prefix, UpTo
  <2>7. r \in EventsOf(early, h) /\ \A f \in EventsOf(early, h) : AtOrBefore(f.cursor, r.cursor)
    BY <1>0, <2>3, CursorOrder DEF UpTo, EventsOf
  <2> HIDE DEF early
  <2>8. GroupIn(early, h) = r.change.to
    <3>1. EventsOf(early, h) \in SUBSET log
      BY <2>5 DEF EventsOf
    <3>2. LastOf(EventsOf(early, h)) = r
      BY <1>0, <2>7, <3>1, LastUnique
    <3> QED
      BY <2>7, <3>2 DEF GroupIn
  <2>9. ASSUME NEW e \in EventsOf(late, h), e \notin early, e.change.from # e.change.to PROVE FALSE
    <3>1. e \in late /\ e \in log /\ e.change.human = h
      BY DEF EventsOf
    <3>2. ~AtOrBefore(e.cursor, r.cursor)
      BY <2>9, <3>1 DEF early, UpTo
    <3>3. AtOrBefore(r.cursor, e.cursor)
      BY <1>0, <2>3, <3>1, <3>2, CursorOrder DEF AtOrBefore
    <3>4. e \in batch
      BY <2>3, <3>1, <3>3 DEF EndOf
    <3> QED
      BY <1>1, <2>1, <2>9, <3>1, <3>2, <3>4
  <2>10. GroupIn(late, h) = r.change.to
    BY <2>5, <2>6, <2>8, <2>9, StaysPut
  <2> QED
    BY <2>2, <2>4, <2>10 DEF KnownIn
<1> QED
  BY <1>3, <1>4

\* All of them, as the backfill takes them in.
LEMMA AllFolded ==
    ASSUME Base, NEW m \in ExactMaps,
           NEW known \in SUBSET log, NEW late \in SUBSET log, known \subseteq late,
           SaysWhat(m.toGroup, known),
           NEW batch \in SUBSET late, late \subseteq known \cup batch, EndOf(late, batch)
    PROVE  SaysWhat(ApplyEvents(m, batch).toGroup, late)
<1> SUFFICES ASSUME NEW h \in Humans
             PROVE  KnownIn(ApplyEvents(m, batch).toGroup, h) = GroupIn(late, h)
  BY DEF SaysWhat
<1> DEFINE B == EventsOf(batch, h)
           b == LastOf(B)
           L == EventsOf(late, h)
<1>0. /\ \A part \in SUBSET log : Ordered(part)
      /\ \A e \in log : e.cursor \in Cursor /\ e \in Event
  BY RealOrdered, EventCursors, QueuedTyped DEF Base
<1>1. /\ B \in SUBSET L /\ L \in SUBSET log
      /\ \A e : e \in B <=> e \in batch /\ e.change.human = h
      /\ \A e : e \in L <=> e \in late /\ e.change.human = h
  BY DEF EventsOf
<1>2. ApplyEvents(m, batch).toGroup[h] = LedTo(m, batch, h)
  BY <1>0, EventsApplied
<1>3. CASE B = {}
  <2>1. KnownIn(ApplyEvents(m, batch).toGroup, h) = GroupIn(known, h)
    BY <1>2, <1>3 DEF LedTo, KnownIn, SaysWhat
  <2>2. EventsOf(known, h) = L
    BY <1>1, <1>3 DEF EventsOf
  <2> QED
    BY <2>1, <2>2 DEF GroupIn
<1>4. CASE B # {}
  <2>1. b \in B /\ \A e \in B : AtOrBefore(e.cursor, b.cursor)
    BY <1>0, <1>1, <1>4, LastExists
  <2>2. ApplyEvents(m, batch).toGroup[h] = b.change.to
    BY <1>2, <1>4 DEF LedTo
  <2> HIDE DEF B, b, L
  <2>3. b \in batch /\ b \in log /\ b \in Event /\ b \in L
    BY <1>0, <1>1, <2>1
  <2>4. \A e \in L : AtOrBefore(e.cursor, b.cursor)
    BY <1>0, <1>1, <2>1, <2>3, CursorOrder DEF EndOf, AtOrBefore
  <2>5. LastOf(L) = b
    BY <1>0, <1>1, <2>3, <2>4, LastUnique
  <2>6. b.change.to # NoGroup
    BY <2>3, EventSays, MapAssumption
  <2> QED
    BY <2>2, <2>3, <2>5, <2>6 DEF KnownIn, GroupIn, L
<1> QED
  BY <1>3, <1>4

\* The map's block goes as far as the events do.
LEMMA BlockApplied ==
    ASSUME NEW m \in ExactMaps, NEW batch, Ordered(batch), NEW b \in Int, m.block <= b,
           \A e \in batch : e.cursor.block <= b
    PROVE  ApplyEvents(m, batch).block <= b /\ m.block <= ApplyEvents(m, batch).block
<1>1. PICK replay : Unfolds(replay, m, batch)
  BY ApplyUnfolds
<1> DEFINE Good == {events \in SUBSET batch : /\ replay[events] \in ExactMaps
                                         /\ replay[events].block <= b /\ m.block <= replay[events].block}
<1>2. \A n \in ExactMaps : n.block \in Int
  BY DEF ExactMaps, AffiliateMapType
<1>3. {} \in Good
  BY <1>1, <1>2 DEF Unfolds
<1>4. ASSUME NEW events \in (SUBSET batch) \ {{}}
      PROVE  \E e \in events : events \ {e} \in Good => events \in Good
  <2> DEFINE e == LastOf(events)
             n == replay[events \ {e}]
  <2>1. e \in events
    BY OrderedPart, LastExists
  <2> SUFFICES ASSUME events \ {e} \in Good PROVE events \in Good
    BY <2>1
  <2>2. replay[events] = MapSet(n, e.change.human, e.change.to, e.cursor.block)
    BY <1>1 DEF Unfolds
  <2>3. e.change.human \in Humans /\ e.change.to \in Groups /\ e.cursor.block \in Int
    BY <2>1, EventSays DEF Ordered
  <2>4. n \in ExactMaps
    OBVIOUS
  <2>5. e.cursor.block <= b /\ n.block \in Int /\ n.block <= b /\ m.block <= n.block
    BY <1>2, <2>1, <2>4
  <2> HIDE DEF e, n, Good
  <2>6. replay[events] \in ExactMaps
    <3>1. MapSet(n, e.change.human, e.change.to, e.cursor.block) \in ExactMaps
      BY <2>3, <2>4, MapSetExact, Zenon
    <3> QED
      BY <2>2, <3>1
  <2>7. replay[events].block = Later(e.cursor.block, n.block)
    BY <2>2, <2>4 DEF MapSet, ExactMaps, AffiliateMapType
  <2>8. replay[events].block <= b /\ m.block <= replay[events].block
    BY <1>2, <2>3, <2>5, <2>7 DEF Later
  <2> QED
    BY <2>6, <2>8 DEF Good
<1>5. batch \in Good
  <2>1. IsFiniteSet(batch)
    BY DEF Ordered
  <2> HIDE DEF Good
  <2> QED
    BY <1>3, <1>4, <2>1, SubsetInduction
<1> QED
  BY <1>1, <1>5 DEF Unfolds

-----------------------------------------------------------------------------
(* The listener's account holds of what lastSeenCursor has passed as well: the *)
(* first batch of the queue takes in every log up to its end that it has not.  *)

Seen == {e \in log : AtOrBefore(e.cursor, lastSeen)}

LEMMA SeenNext ==
    ASSUME Hazards = {}, CoverInv, LInv(Seen), [WorkerNext]_workerVars
    PROVE  LInv(Seen)'
<1>0. WBase /\ WBase' /\ Inv /\ LogInv /\ Reliable
  BY WBaseNext, StartCursorTyped DEF CoverInv, WBase, Base, Reliable
<1>1. PICK seen : seen = Seen'
  OBVIOUS
<1>2. SUFFICES LInv(seen)'
  BY <1>1 DEF LInv, CursorCovers, QueueInv, PendingInv, LiveInv, Accounted
<1>3. CursorCovers(seen)'
  BY <1>1 DEF CursorCovers, Relevant, After, Seen
<1>4. ASSUME log \subseteq log', AtOrBefore(lastSeen, lastSeen') PROVE LInv(seen)
  <2>1. Seen \subseteq seen
    <3> SUFFICES ASSUME NEW e \in Seen PROVE e \in log' /\ AtOrBefore(e.cursor, lastSeen')
      BY <1>1 DEF Seen
    <3>1. e.cursor \in Cursor /\ lastSeen \in Cursor /\ lastSeen' \in Cursor
      BY <1>0, EventCursors, QueuedTyped DEF WBase, Base, Inv, TypeOK, Seen
    <3> QED
      BY <1>4, <3>1, CursorOrder DEF Seen
  <2>2. PICK before : before = Seen
    OBVIOUS
  <2>3. LInv(before) /\ before \subseteq seen
    BY <2>1, <2>2
  <2> QED
    BY <2>3, LInvGrows
<1>5. CASE [Next]_vars
  <2>1. AtOrBefore(lastSeen, lastSeen')
    BY <1>0, <1>5, NextInv
  <2>2. log \subseteq log'
    BY <1>5
    DEF Next, Mine, MineBlock, Connect, HeadFetched, Subscribe, SubscriptionAcknowledged, Disconnect,
        Receive, Flush, CatchUpRequest, CatchUpHead, CatchUpFetched, CatchUpFails, Settle, vars, chainVars
  <2>3. ASSUME NEW succeeded \in BOOLEAN, Settle(succeeded)
        PROVE  Head(tasks).batch \subseteq seen
    <3>1. succeeded /\ Advance(Head(tasks).batch) /\ UNCHANGED log /\ tasks # <<>>
      BY <2>3 DEF Settle, chainVars
    <3>2. PICK last \in Head(tasks).batch :
             IsLast(last, Head(tasks).batch) /\ lastSeen' = MaxCursor(lastSeen, last.cursor)
      BY <3>1 DEF Advance
    <3>3. Head(tasks).batch \subseteq log
      BY <1>0, <3>1, FirstTask DEF WBase
    <3>4. AtOrBefore(last.cursor, lastSeen') /\ lastSeen' \in Cursor
      BY <1>0, <3>2, <3>3, MaxCursorLater, EventCursors, QueuedTyped
    <3>5. \A e \in Head(tasks).batch : AtOrBefore(e.cursor, lastSeen')
      BY <1>0, <3>2, <3>3, <3>4, CursorOrder, EventCursors DEF IsLast
    <3> QED
      BY <1>1, <3>1, <3>3, <3>5 DEF Seen
  <2> QED
    BY <1>0, <1>4, <1>5, <2>1, <2>2, <2>3, LInvNext
<1>6. CASE Ticked \/ Dropped
  <2>1. log' = log /\ lastSeen' = lastSeen
    BY <1>6 DEF Ticked, Dropped, DropTask, chainVars
  <2>2. AtOrBefore(lastSeen, lastSeen')
    BY <2>1 DEF AtOrBefore
  <2> QED
    BY <1>0, <1>4, <1>6, <2>1, <2>2, ReconciliationCovers
<1>7. ASSUME DOMAIN tasks' = {}, pending' = {}, catchUp' = Idle, conn' = "down",
             UNCHANGED <<head, log>>, lastSeen' = StartCursor \/ lastSeen'.block <= head
      PROVE  LInv(seen)'
  <2>1. Inv' /\ LogInv' /\ lastSeen' # NoCursor
    BY <1>0 DEF WBase, Base
  <2>2. CursorInv'
    BY <1>7, <2>1 DEF CursorInv, Idle
  <2>3. QueueInv(seen)' /\ PendingInv(seen)' /\ HandshakeInv' /\ LiveInv(seen)'
    BY <1>7 DEF QueueInv, PendingInv, HandshakeInv, LiveInv
  <2> QED
    BY <1>3, <2>1, <2>2, <2>3 DEF LInv
<1>8. CASE Restarted
  BY <1>7, <1>8 DEF Restarted, chainVars
<1>9. ASSUME NEW cursor, NEW batch, CursorSet(cursor, batch), cursor = StartCursor \/ cursor.block <= head
      PROVE  LInv(seen)'
  BY <1>0, <1>7, <1>9 DEF CursorSet, WBase, StartingInv, chainVars, socketVars
<1>10. CASE CursorSet(savedCursor, {}) \/ CursorSet(StartCursor, {})
  BY <1>9, <1>10 DEF CoverInv, SavedInv
<1>11. CASE job.kind = "events" /\ CursorSet(job.cursor, job.batch)
  BY <1>9, <1>11 DEF CoverInv, JobCovers
<1> QED
  BY <1>0, <1>5, <1>6, <1>8, <1>10, <1>11, WorkerEffects
-----------------------------------------------------------------------------
\* Nothing is lost or overtaken on the way, a restart reads from the first block up
\* to the head from a node that answers, and no block has its logs handed over in
\* two batches.  Then the map is that of a whole number of blocks.
CompleteReads ==
    /\ Hazards = {} /\ ~ProbeFails
    /\ Confirmations = 0 /\ StartBlock = 0 /\ MaxLogsPerBlock = 1

Whole(events, block) == {e \in events : e.cursor.block <= block}

IndexInv == \A e \in log : e.cursor.index = 0

MapPlace ==
    /\ savedMap.block \in -1 .. head /\ SaysWhat(savedMap.entries, Whole(log, savedMap.block))
    /\ phase = "replay" /\ job.kind = "none" =>
           /\ map.block \in -1 .. head /\ SaysWhat(map.toGroup, Whole(log, map.block))
           /\ lastSeen.block <= map.block
    /\ phase = "replay" /\ job.kind = "events" =>
           /\ job.cursor = HeadCursor(job.cursor.block) /\ job.cursor.block \in 0 .. head
           /\ SaysWhat(map.toGroup, Whole(log, job.cursor.block)) /\ map.block <= job.cursor.block
    /\ phase = "live" /\ job.kind # "events" =>
           /\ lastSeen.block \in 0 .. head /\ map.block = lastSeen.block
           /\ SaysWhat(map.toGroup, Whole(log, lastSeen.block))
    /\ phase = "live" /\ job.kind = "events" =>
           /\ job.batch # {} /\ job.cursor = LastOf(job.batch).cursor
           /\ AtOrBefore(lastSeen, job.cursor) /\ map.block <= job.cursor.block
           /\ SaysWhat(map.toGroup, Whole(log, job.cursor.block))

PlaceInv == /\ CoverInv /\ OrderInv /\ ContigInv /\ RegistryInv
            /\ LInv(Seen) /\ IndexInv /\ MapPlace

LEMMA WholePrefix ==
    ASSUME Base, NEW b \in Int
    PROVE  Whole(log, b) \in SUBSET log /\ Prefix(Whole(log, b)) /\ (head <= b => Whole(log, b) = log)
<1>1. \A e \in log : e.cursor \in Cursor /\ e.cursor.block \in Nat /\ e.cursor.block <= head
  BY EventCursors DEF Base, LogInv
<1>2. \A e, f \in log : AtOrBefore(f.cursor, e.cursor) => f.cursor.block <= e.cursor.block
  BY <1>1, CursorOrder
<1>3. head \in Nat
  BY QueuedTyped DEF Base
<1> QED
  BY <1>1, <1>2, <1>3 DEF Whole, Prefix

LEMMA IndexNext ==
    ASSUME MaxLogsPerBlock = 1, Base, IndexInv, [WorkerNext]_workerVars
    PROVE  IndexInv'
<1>1. CASE UNCHANGED log
  BY <1>1 DEF IndexInv
<1>2. CASE ChangeAffiliate
  <2>1. PICK n \in 1 .. 1 : \E changes \in [0 .. n - 1 -> Changes] : MineBlock(LogsOfBlock(head + 1, changes))
    BY <1>2 DEF ChangeAffiliate
  <2>2. PICK changes \in [0 .. 0 -> Changes] : MineBlock(LogsOfBlock(head + 1, changes))
    BY <2>1
  <2>3. \A e \in LogsOfBlock(head + 1, changes) : e.cursor.index = 0
    BY DEF LogsOfBlock
  <2> QED
    BY <2>2, <2>3 DEF IndexInv, MineBlock
<1>3. CASE ~UNCHANGED log
  <2>1. ~(UNCHANGED vars)
    BY <1>3 DEF vars, chainVars
  <2>2. ~EmptyBlock
    BY <1>3 DEF EmptyBlock, MineBlock
  <2>3. ~ListenerStep
    BY <1>3, FirstStays
  <2> QED
    BY <1>2, <1>3, <2>1, <2>2, <2>3
    DEF WorkerNext, WorldStep, WorkerStep, SequentialStep, ChangeScore, IndexCatchesUp, Start, Backfill,
        SkipReplay, BeginReplay, ReconcileTick, BeginTask, ExecuteOperation, OperationsDone, SaveCursor,
        SaveMap, Settle, DropTask, Crash, Reset, TaskFails, TaskFailsAtOnce, workerVars, vars, chainVars
<1> QED
  BY <1>1, <1>3

\* What is saved, and what the map is after it.
LEMMA SavedAs ==
    ASSUME NEW m \in ExactMaps, NEW b \in Int, m.block <= b, SaveMapAs(m, b)
    PROVE  /\ map'.toGroup = m.toGroup /\ map'.block = b
           /\ savedMap' = savedMap \/ savedMap' = [entries |-> m.toGroup, block |-> b]
<1> DEFINE advanced == AdvanceTo(m, b)
<1>1. m \in AffiliateMapType /\ m.block \in Int
  BY DEF ExactMaps, AffiliateMapType
<1>2. advanced \in AffiliateMapType
  BY MapsAreExact DEF ExactMaps
<1>2a. advanced.toGroup = m.toGroup /\ advanced.block = b
  BY <1>1 DEF AdvanceTo, AffiliateMapType
<1>3. /\ map' = [advanced EXCEPT !.dirty = FALSE]
      /\ savedMap' = savedMap \/ savedMap' = Snapshot(advanced)
  BY DEF SaveMapAs
<1> HIDE DEF advanced
<1> QED
  BY <1>2, <1>2a, <1>3 DEF AffiliateMapType, Snapshot

\* The backfill brings a map that is whole up to the head.
LEMMA BackfilledWhole ==
    ASSUME CompleteReads, Base, NEW loaded \in ExactMaps, loaded.block \in -1 .. head,
           SaysWhat(loaded.toGroup, Whole(log, loaded.block))
    PROVE  /\ Backfilled(loaded) \in ExactMaps /\ Backfilled(loaded).block = head
           /\ SaysWhat(Backfilled(loaded).toGroup, Whole(log, head))
<1> DEFINE target == Later(StartBlock, SafeHead)
           events == EventsBetween(log, Later(StartBlock, loaded.block + 1), target, NoCursor)
           known  == Whole(log, loaded.block)
           late   == Whole(log, head)
<1>1. head \in Nat /\ \A e \in log : e.cursor \in Cursor /\ e.cursor.block \in Nat /\ e.cursor.block <= head
  BY QueuedTyped, EventCursors DEF Base, LogInv
<1>2. target = head /\ Later(StartBlock, loaded.block + 1) = loaded.block + 1
  BY <1>1 DEF CompleteReads, Later, SafeHead
<1>3. Backfilled(loaded) = IF loaded.block >= head THEN loaded ELSE AdvanceTo(ApplyEvents(loaded, events), head)
  BY <1>2 DEF Backfilled
<1>4. CASE loaded.block >= head
  BY <1>1, <1>3, <1>4
<1>5. CASE loaded.block < head
  <2>1. events = {e \in log : loaded.block < e.cursor.block}
    <3>1. \A e \in log : Before(NoCursor, e.cursor)
      BY <1>1 DEF NoCursor, Before
    <3> QED
      BY <1>1, <1>2, <3>1 DEF EventsBetween, After
  <2> HIDE DEF events
  <2>2. /\ known \in SUBSET log /\ late \in SUBSET log /\ known \subseteq late
        /\ events \in SUBSET late /\ late \subseteq known \cup events
    BY <1>1, <1>5, <2>1 DEF Whole
  <2>3. EndOf(late, events)
    <3>1. \A e, f \in log : AtOrBefore(e.cursor, f.cursor) => e.cursor.block <= f.cursor.block
      BY <1>1, CursorOrder
    <3> QED
      BY <1>1, <2>1, <2>2, <3>1 DEF EndOf
  <2> DEFINE m == ApplyEvents(loaded, events)
  <2>4. Ordered(events)
    BY <2>2, RealOrdered
  <2>5. m \in ExactMaps
    BY <2>4, EventsApplied
  <2>6. SaysWhat(m.toGroup, late)
    BY <2>2, <2>3, AllFolded
  <2>7. m.block <= head
    BY <1>1, <1>5, <2>1, <2>4, BlockApplied
  <2>8. Backfilled(loaded) = AdvanceTo(m, head)
    BY <1>1, <1>3, <1>5
  <2> HIDE DEF m, known, late
  <2>9. Backfilled(loaded) \in ExactMaps
    BY <1>1, <2>5, <2>8, MapsAreExact
  <2>10. AdvanceTo(m, head).block = head /\ AdvanceTo(m, head).toGroup = m.toGroup
    BY <1>1, <2>5, <2>7 DEF AdvanceTo, ExactMaps, AffiliateMapType
  <2> QED
    BY <2>6, <2>8, <2>9, <2>10 DEF late
<1> QED
  BY <1>1, <1>4, <1>5
\* A block that is mined lies behind all places of the map.
LEMMA PlaceKept ==
    ASSUME WBase, MapPlace, head' \in Nat, head <= head',
           \A b \in Int : b <= head => Whole(log', b) = Whole(log, b),
           UNCHANGED <<phase, savedMap, job, map, lastSeen>>
    PROVE  MapPlace'
<1>1. /\ head \in Nat /\ lastSeen.block \in Int /\ job.batch \in SUBSET log /\ job.cursor.block \in Int
      /\ savedMap.block \in Int /\ map.block \in Int
  BY QueuedTyped
  DEF WBase, Base, Cursor, JobInv, JobType, WorldInv, ExactMaps, AffiliateMapType, SnapshotType
<1>3. UNCHANGED <<phase, savedMap, job, map, lastSeen>> /\ \A b \in -1 .. head : b \in -1 .. head'
  BY <1>1
<1>4. savedMap.block <= head /\ Whole(log', savedMap.block) = Whole(log, savedMap.block)
  BY <1>1 DEF MapPlace
<1>5. phase = "replay" /\ job.kind = "none" => Whole(log', map.block) = Whole(log, map.block)
  BY <1>1 DEF MapPlace
<1>6. job.kind = "events" /\ phase \in {"replay", "live"} =>
          Whole(log', job.cursor.block) = Whole(log, job.cursor.block)
  <2>1. job.batch # {} => LastOf(job.batch).cursor.block <= head
    BY <1>1, BatchCursor DEF WBase
  <2> QED
    BY <1>1, <2>1 DEF MapPlace
<1>7. phase = "live" /\ job.kind # "events" => Whole(log', lastSeen.block) = Whole(log, lastSeen.block)
  BY <1>1 DEF MapPlace
<1> QED
  <2>1. \A b \in 0 .. head : b \in 0 .. head'
    BY <1>1
  <2> QED
    BY <1>3, <1>4, <1>5, <1>6, <1>7, <2>1, Zenon DEF MapPlace

\* What only concerns the job's progress leaves the map where it is.
LEMMA PlaceStays ==
    ASSUME WBase, MapPlace, UNCHANGED <<head, log, phase, savedMap, map, lastSeen>>,
           job'.kind = job.kind, job'.batch = job.batch, job'.cursor = job.cursor
    PROVE  MapPlace'
BY DEF MapPlace

LEMMA HeadIsSafe ==
    ASSUME CompleteReads, head \in Nat
    PROVE  SafeHead = head
BY DEF CompleteReads, SafeHead

LEMMA PlaceAtBackfill ==
    ASSUME CompleteReads, PlaceInv, Backfill
    PROVE  MapPlace'
<1>1. /\ WBase /\ Base /\ MapPlace /\ CursorInv /\ head \in Nat
      /\ job = NoJob /\ NoJob.kind = "none" /\ job.kind = "none"
  BY QueuedTyped DEF PlaceInv, CoverInv, WBase, Base, LInv, Backfill, JobInv, NoJob
<1>2. UNCHANGED <<head, log, lastSeen, job>> /\ phase' = "replay"
  BY DEF Backfill, vars, chainVars, listenerVars
<1>3. FromSnapshot(savedMap) \in ExactMaps /\ FreshMap \in ExactMaps
  BY <1>1, MapsAreExact DEF WBase, WorldInv
<1>4. Backfilled(FromSnapshot(savedMap)).block = head
      /\ Backfilled(FromSnapshot(savedMap)) \in ExactMaps
      /\ SaysWhat(Backfilled(FromSnapshot(savedMap)).toGroup, Whole(log, head))
  <2>1. FromSnapshot(savedMap).block = savedMap.block /\ FromSnapshot(savedMap).toGroup = savedMap.entries
    BY DEF FromSnapshot
  <2> QED
    BY <1>1, <1>3, <2>1, BackfilledWhole DEF MapPlace
<1>5. Backfilled(FreshMap).block = head
      /\ Backfilled(FreshMap) \in ExactMaps
      /\ SaysWhat(Backfilled(FreshMap).toGroup, Whole(log, head))
  <2>1. FreshMap.block = -1 /\ FreshMap.toGroup = [h \in Humans |-> NoGroup]
    BY DEF FreshMap, FromSnapshot, EmptySnapshot, CompleteReads
  <2>2. \A h \in Humans : EventsOf(Whole(log, -1), h) = {}
    BY <1>1, EventCursors DEF Whole, EventsOf, Base
  <2>3. SaysWhat(FreshMap.toGroup, Whole(log, -1))
    BY <2>1, <2>2 DEF SaysWhat, KnownIn, GroupIn
  <2> QED
    BY <1>1, <1>3, <2>1, <2>3, BackfilledWhole
<1>6. /\ map'.block = head /\ SaysWhat(map'.toGroup, Whole(log, head))
      /\ \/ savedMap' = savedMap
         \/ savedMap'.block = head /\ SaysWhat(savedMap'.entries, Whole(log, head))
  <2>1. ASSUME NEW m, m = Backfilled(FromSnapshot(savedMap)), SaveMapAs(m, m.block)
        PROVE  /\ map'.block = head /\ SaysWhat(map'.toGroup, Whole(log, head))
               /\ \/ savedMap' = savedMap
                  \/ savedMap'.block = head /\ SaysWhat(savedMap'.entries, Whole(log, head))
    <3>1. /\ map'.toGroup = m.toGroup /\ map'.block = head
          /\ savedMap' = savedMap \/ savedMap' = [entries |-> m.toGroup, block |-> head]
      BY <1>1, <1>4, <2>1, SavedAs
    <3> QED
      BY <1>4, <2>1, <3>1
  <2>2. ASSUME NEW m, m = Backfilled(FreshMap),
               map' = [m EXCEPT !.dirty = FALSE], savedMap' \in {savedMap, Snapshot(m)}
        PROVE  /\ map'.block = head /\ SaysWhat(map'.toGroup, Whole(log, head))
               /\ \/ savedMap' = savedMap
                  \/ savedMap'.block = head /\ SaysWhat(savedMap'.entries, Whole(log, head))
    <3>1. map'.block = m.block /\ map'.toGroup = m.toGroup
      BY <1>5, <2>2 DEF ExactMaps, AffiliateMapType
    <3> QED
      BY <1>5, <2>2, <3>1 DEF Snapshot
  <2> QED
    BY <2>1, <2>2 DEF Backfill
<1>7. lastSeen.block <= head
  BY <1>1, WorkerAssumption DEF CursorInv, InclusiveBlockCursor, CompleteReads
<1>8. savedMap'.block \in -1 .. head /\ SaysWhat(savedMap'.entries, Whole(log', savedMap'.block))
  BY <1>1, <1>2, <1>6 DEF MapPlace
<1>9. SaysWhat(map'.toGroup, Whole(log', map'.block))
  BY <1>2, <1>6
<1> QED
  BY <1>1, <1>2, <1>6, <1>7, <1>8, <1>9 DEF MapPlace

\* The replay takes in what the map has not: it starts no later than the map ends.
LEMMA PlaceAtReplay ==
    ASSUME CompleteReads, PlaceInv, BeginReplay
    PROVE  MapPlace'
<1> DEFINE events == EventsBetween(log, lastSeen.block, SafeHead, lastSeen)
           known  == Whole(log, map.block)
           folded == ApplyEvents(map, Real(events))
<1>1. /\ WBase /\ Base /\ RegistryInv /\ MapPlace /\ head \in Nat /\ map \in ExactMaps
      /\ lastSeen \in Cursor /\ job.kind = "none"
  BY QueuedTyped DEF PlaceInv, CoverInv, WBase, Base, WorldInv, BeginReplay, NoJob
<1>2. \A e \in log : e.cursor \in Cursor /\ e.cursor.block \in Nat /\ e.cursor.block <= head
  BY <1>1, EventCursors DEF Base, LogInv
<1>3. /\ phase = "replay" /\ UNCHANGED <<head, log, lastSeen, phase, savedMap>>
      /\ map' = folded /\ job' = EventsJob(events, HeadCursor(head))
  BY <1>1, HeadIsSafe DEF BeginReplay, vars, chainVars, listenerVars, storeVars
<1>4. map.block \in -1 .. head /\ SaysWhat(map.toGroup, known) /\ lastSeen.block <= map.block
  BY <1>1, <1>3 DEF MapPlace
<1>5. events \in SUBSET log /\ \A e \in log : e \in events <=> Before(lastSeen, e.cursor)
  <2>1. \A e \in log : Before(lastSeen, e.cursor) => lastSeen.block <= e.cursor.block
    BY <1>1, <1>2, CursorOrder DEF AtOrBefore
  <2>2. lastSeen.block \in Int
    BY <1>1 DEF Cursor
  <2> QED
    BY <1>1, <1>2, <2>1, <2>2, HeadIsSafe DEF EventsBetween, After
<1> HIDE DEF events
<1>6. known \in SUBSET log /\ Prefix(known) /\ Prefix(log)
  BY <1>1, <1>4, WholePrefix DEF Prefix
<1>7. log \subseteq known \cup events
  <2>1. \A e \in log : e.cursor.block > map.block => Before(lastSeen, e.cursor)
    BY <1>1, <1>2, <1>4, CursorOrder DEF Cursor
  <2> QED
    BY <1>2, <1>4, <1>5, <2>1 DEF Whole
<1>8. EndOf(log, events)
  BY <1>1, <1>2, <1>5, CursorOrder DEF EndOf, AtOrBefore
<1>9. SaysWhat(folded.toGroup, log)
  BY <1>1, <1>4, <1>5, <1>6, <1>7, <1>8, RealFolded
<1>10. folded.block <= head
  <2>1. Ordered(Real(events)) /\ \A e \in Real(events) : e.cursor.block <= head
    BY <1>1, <1>2, <1>5, RealOrdered
  <2> QED
    BY <1>1, <1>4, <2>1, BlockApplied
<1>11. Whole(log, head) = log
  BY <1>1, WholePrefix
<1>12. job'.kind = "events" /\ job'.cursor = HeadCursor(head) /\ job'.cursor.block = head
  BY <1>3 DEF EventsJob, HeadCursor
<1> HIDE DEF folded
<1> QED
  BY <1>1, <1>3, <1>9, <1>10, <1>11, <1>12 DEF MapPlace

\* The first batch of the queue ends a whole block, and with what was taken in before
\* it has all logs of the blocks up to that one.
LEMMA FirstBatch ==
    ASSUME CompleteReads, PlaceInv, phase = "live", job.kind = "none",
           tasks # <<>>, Head(tasks).source # "reconcile",
           NEW batch, batch = Head(tasks).batch, NEW last, last = LastOf(batch),
           NEW known, known = Whole(log, lastSeen.block), NEW late, late = Whole(log, last.cursor.block)
    PROVE  /\ batch \in SUBSET log /\ batch # {} /\ Contiguous(batch)
           /\ last \in batch /\ last.cursor \in Cursor
           /\ last.cursor.block \in Nat /\ last.cursor.block <= head
           /\ AtOrBefore(lastSeen, last.cursor) /\ lastSeen.block <= last.cursor.block
           /\ known \in SUBSET late /\ Prefix(known) /\ late \in SUBSET log /\ Prefix(late)
           /\ batch \in SUBSET late /\ late \subseteq known \cup batch /\ EndOf(late, batch)
<1>1. /\ Base /\ Inv /\ MapPlace /\ lastSeen \in Cursor
  BY QueuedTyped DEF PlaceInv, CoverInv, WBase, Base
<1>2. \A e \in log : e.cursor \in Cursor /\ e.cursor.block \in Nat /\ e.cursor.block <= head
  BY <1>1, EventCursors DEF Base, LogInv
<1>3. lastSeen.block \in 0 .. head
  BY <1>1 DEF MapPlace
<1>4. batch \in SUBSET log /\ batch # {}
  BY <1>1, FirstTask
<1>5. Head(tasks) = tasks[1] /\ 1 \in DOMAIN tasks
  BY <1>1, QueuedTyped, HeadTailProperties, EmptySeq
<1>6. last \in batch /\ last.cursor \in Cursor /\ \A e \in batch : AtOrBefore(e.cursor, last.cursor)
  BY <1>1, <1>4, BatchCursor
<1>7. Contiguous(batch)
  BY <1>5 DEF PlaceInv, ContigInv
<1>8. AtOrBefore(lastSeen, last.cursor)
  <2>1. PICK e \in batch : AtOrBefore(lastSeen, e.cursor)
    BY <1>4, <1>5 DEF PlaceInv, OrderInv, BatchesEndInOrder
  <2> QED
    BY <1>1, <1>2, <1>4, <1>6, <2>1, CursorOrder
<1>9. \A f \in log : AtOrBefore(f.cursor, last.cursor) => AtOrBefore(f.cursor, lastSeen) \/ f \in batch
  <2> SUFFICES ASSUME NEW f \in log, AtOrBefore(f.cursor, last.cursor)
               PROVE  f \in Seen \/ f \in batch
    BY DEF Seen
  <2>1. f \in Relevant
    <3>1. f.cursor.index = 0
      BY DEF PlaceInv, IndexInv
    <3> QED
      BY <1>2, <3>1, WorkerAssumption DEF Relevant, After, CompleteReads, InclusiveBlockCursor, Before
  <2>2. f \in Seen \/ \E j \in 1 .. 1 : f \in tasks[j].batch
    BY <1>5, <1>6, <2>1 DEF PlaceInv, LInv, QueueInv
  <2> QED
    BY <1>5, <2>2
<1>10. \A f \in log : f.cursor.block <= last.cursor.block => AtOrBefore(f.cursor, last.cursor)
  <2>1. \A f \in log : f.cursor.index = 0
    BY DEF PlaceInv, IndexInv
  <2> QED
    BY <1>2, <1>4, <1>6, <2>1 DEF AtOrBefore, Before, Cursor
<1>11. last \in log /\ last.cursor.block \in Nat /\ last.cursor.block <= head
  BY <1>2, <1>4, <1>6
<1>12. /\ known \in SUBSET log /\ Prefix(known) /\ late \in SUBSET log /\ Prefix(late)
  BY <1>1, <1>3, <1>11, WholePrefix
<1>13. lastSeen.block <= last.cursor.block
  BY <1>1, <1>6, <1>8, CursorOrder
<1>14. known \in SUBSET late
  BY <1>2, <1>3, <1>11, <1>13 DEF Whole
<1>15. batch \in SUBSET late
  <2>1. \A e \in batch : e.cursor.block <= last.cursor.block
    BY <1>2, <1>4, <1>6, CursorOrder
  <2> QED
    BY <1>4, <2>1 DEF Whole
<1>16. late \subseteq known \cup batch
  <2>1. \A f \in log : AtOrBefore(f.cursor, lastSeen) => f.cursor.block <= lastSeen.block
    BY <1>1, <1>2, CursorOrder
  <2> QED
    BY <1>9, <1>10, <2>1 DEF Whole
<1>17. EndOf(late, batch)
  BY <1>6, <1>7, <1>10 DEF EndOf, Contiguous, Whole
<1> QED
  BY <1>4, <1>6, <1>7, <1>8, <1>11, <1>12, <1>13, <1>14, <1>15, <1>16, <1>17

\* It takes in what the map has not, up to the end of its last block.
LEMMA PlaceAtTask ==
    ASSUME CompleteReads, PlaceInv, BeginTask
    PROVE  MapPlace'
<1>1. /\ WBase /\ Base /\ RegistryInv /\ MapPlace /\ map \in ExactMaps
      /\ job.kind = "none" /\ phase = "live" /\ tasks # <<>>
  BY DEF PlaceInv, CoverInv, WBase, WorldInv, BeginTask, NoJob
<1>2. /\ UNCHANGED <<head, log, lastSeen, phase, savedMap>>
  BY DEF BeginTask, vars, chainVars, listenerVars, storeVars
<1>3. /\ lastSeen.block \in 0 .. head /\ map.block = lastSeen.block
      /\ SaysWhat(map.toGroup, Whole(log, lastSeen.block))
  BY <1>1 DEF MapPlace
<1>4. CASE Head(tasks).source = "reconcile"
  <2>1. job'.kind = "reconcile" /\ map' = map
    BY <1>4 DEF BeginTask
  <2> QED
    BY <1>1, <1>2, <1>3, <2>1 DEF MapPlace
<1>5. CASE Head(tasks).source # "reconcile"
  <2> DEFINE batch == Head(tasks).batch
             last  == LastOf(batch)
             known == Whole(log, lastSeen.block)
             late  == Whole(log, last.cursor.block)
             folded == ApplyEvents(map, Real(batch))
  <2>1. map' = folded /\ job' = EventsJob(batch, last.cursor)
    BY <1>5 DEF BeginTask
  <2>2. /\ batch \in SUBSET log /\ batch # {}
        /\ last.cursor.block \in Nat
        /\ AtOrBefore(lastSeen, last.cursor) /\ lastSeen.block <= last.cursor.block
        /\ known \in SUBSET late /\ Prefix(known) /\ late \in SUBSET log /\ Prefix(late)
        /\ batch \in SUBSET late /\ late \subseteq known \cup batch /\ EndOf(late, batch)
    BY <1>1, <1>5, FirstBatch
  <2> HIDE DEF batch, last
  <2>3. SaysWhat(folded.toGroup, late)
    BY <1>1, <1>3, <2>2, RealFolded
  <2>4. folded.block <= last.cursor.block
    <3>1. Ordered(Real(batch)) /\ \A e \in Real(batch) : e.cursor.block <= last.cursor.block
      BY <1>1, <2>2, RealOrdered DEF Whole
    <3> QED
      BY <1>1, <1>3, <2>2, <3>1, BlockApplied
  <2>5. job'.kind = "events" /\ job'.cursor = last.cursor /\ job'.batch = batch
    BY <2>1 DEF EventsJob
  <2> HIDE DEF folded, known
  <2> QED
    BY <1>1, <1>2, <2>1, <2>2, <2>3, <2>4, <2>5 DEF MapPlace, last
<1> QED
  BY <1>4, <1>5

\* The end of a job: what is saved is what the map says, as the map of the job's last
\* block.
LEMMA PlaceAtSave ==
    ASSUME CompleteReads, PlaceInv, SaveMap
    PROVE  MapPlace'
<1>1. /\ WBase /\ Base /\ Inv /\ MapPlace /\ JobInv /\ head \in Nat /\ map \in ExactMaps
      /\ lastSeen \in Cursor /\ job.kind \in {"events", "reconcile"} /\ phase \in {"replay", "live"}
      /\ job.cursor \in Cursor /\ job.batch \in SUBSET log /\ job.stage = "saveMap"
      /\ map.block \in Int
  BY QueuedTyped
  DEF PlaceInv, CoverInv, WBase, Base, WorldInv, SaveMap, JobInv, JobType, NoJob, ExactMaps, AffiliateMapType
<1>2. job' = NoJob /\ job'.kind = "none" /\ phase' = "live"
  BY DEF SaveMap, NoJob
<1>3. UNCHANGED <<head, log>>
  BY DEF SaveMap, Settle, DropTask, chainVars
<1>4. ASSUME NEW b \in 0 .. head, map.block <= b, SaysWhat(map.toGroup, Whole(log, b)),
             SaveMapAs(map, b), lastSeen'.block = b
      PROVE  MapPlace'
  <2>1. /\ map'.toGroup = map.toGroup /\ map'.block = b
        /\ savedMap' = savedMap \/ savedMap' = [entries |-> map.toGroup, block |-> b]
    BY <1>1, <1>4, SavedAs
  <2>2. savedMap'.block \in -1 .. head /\ SaysWhat(savedMap'.entries, Whole(log, savedMap'.block))
    BY <1>1, <1>4, <2>1 DEF MapPlace
  <2>3. /\ lastSeen'.block \in 0 .. head' /\ map'.block = lastSeen'.block
        /\ SaysWhat(map'.toGroup, Whole(log', lastSeen'.block))
    BY <1>3, <1>4, <2>1
  <2>4. savedMap'.block \in -1 .. head' /\ SaysWhat(savedMap'.entries, Whole(log', savedMap'.block))
    BY <1>3, <2>2
  <2>5. phase' # "replay" /\ job'.kind # "events"
    BY <1>2
  <2> QED
    BY <2>3, <2>4, <2>5, Zenon DEF MapPlace
<1>5. CASE phase = "replay"
  <2>1. job.kind = "events"
    BY <1>1, <1>5 DEF JobInv
  <2>2. /\ job.cursor.block \in 0 .. head /\ map.block <= job.cursor.block
        /\ SaysWhat(map.toGroup, Whole(log, job.cursor.block))
    BY <1>1, <1>5, <2>1 DEF MapPlace
  <2>3. SaveMapAs(map, job.cursor.block) /\ lastSeen'.block = job.cursor.block
    BY <1>5, <2>1 DEF SaveMap
  <2> QED
    BY <1>4, <2>2, <2>3
<1>6. CASE phase = "live" /\ job.kind = "events"
  <2>1. /\ job.batch # {} /\ job.cursor = LastOf(job.batch).cursor
        /\ AtOrBefore(lastSeen, job.cursor) /\ map.block <= job.cursor.block
        /\ SaysWhat(map.toGroup, Whole(log, job.cursor.block))
    BY <1>1, <1>6 DEF MapPlace
  <2>2. /\ SaveMapAs(map, job.cursor.block) /\ Settle(TRUE) /\ Head(tasks).batch = job.batch
    BY <1>1, <1>6 DEF SaveMap, JobInv
  <2>3. PICK last \in job.batch : IsLast(last, job.batch) /\ lastSeen' = MaxCursor(lastSeen, last.cursor)
    BY <2>2 DEF Settle, Advance
  <2>4. LastOf(job.batch) = last
    BY <1>1, <2>3, RealOrdered, LastUnique DEF IsLast
  <2>5. lastSeen' = job.cursor
    <3>1. AtOrBefore(lastSeen', job.cursor) /\ AtOrBefore(job.cursor, lastSeen') /\ lastSeen' \in Cursor
      BY <1>1, <2>1, <2>3, <2>4, MaxCursorLater, CursorOrder
    <3> QED
      BY <1>1, <3>1, CursorOrder
  <2>6. job.cursor.block \in 0 .. head
    <3>1. job.cursor.block \in Nat /\ job.cursor.block <= head
      BY <1>1, <2>1, BatchCursor, EventCursors
    <3> QED
      BY <1>1, <3>1
  <2> QED
    BY <1>4, <2>1, <2>2, <2>5, <2>6
<1>7. CASE phase = "live" /\ job.kind = "reconcile"
  <2>1. /\ lastSeen.block \in 0 .. head /\ map.block = lastSeen.block
        /\ SaysWhat(map.toGroup, Whole(log, lastSeen.block))
    BY <1>1, <1>7 DEF MapPlace
  <2>2. SaveMapAs(map, lastSeen.block) /\ lastSeen' = lastSeen
    BY <1>7, <2>1 DEF SaveMap, DropTask
  <2> QED
    BY <1>1, <1>4, <2>1, <2>2
<1> QED
  BY <1>1, <1>5, <1>6, <1>7

LEMMA PlaceNext ==
    ASSUME CompleteReads, PlaceInv, [WorkerNext]_workerVars
    PROVE  MapPlace'
<1>1. /\ WBase /\ Base /\ Inv /\ LogInv /\ MapPlace /\ JobInv /\ head \in Nat /\ lastSeen # NoCursor
      /\ job \in JobType
  BY QueuedTyped DEF PlaceInv, CoverInv, WBase, Base, JobInv
<1>2. CASE ChangeAffiliate \/ EmptyBlock
  <2>1. Mine /\ UNCHANGED <<phase, savedMap, job, map>>
    BY <1>2, WorldMines DEF ChangeAffiliate, EmptyBlock, appVars, storeVars
  <2>2. PICK new \in SUBSET Event :
          /\ head' = head + 1 /\ log' = log \cup new /\ lastSeen' = lastSeen
          /\ \A f \in new : f.cursor.block = head + 1
    BY <1>1, <2>1, Mined
  <2>3. \A e \in log : e.cursor.block \in Nat
    BY <1>1, EventCursors
  <2>4. \A b \in Int : b <= head => Whole(log', b) = Whole(log, b)
    BY <1>1, <2>2, <2>3 DEF Whole
  <2>5. head' \in Nat /\ head <= head'
    BY <1>1, <2>2
  <2>6. UNCHANGED <<phase, savedMap, job, map, lastSeen>>
    BY <2>1, <2>2
  <2> QED
    BY <1>1, <2>4, <2>5, <2>6, PlaceKept
<1>3. CASE ListenerStep
  <2>1. UNCHANGED <<head, log, phase, savedMap, job, map>>
    BY <1>1, <1>3, FirstStays DEF ListenerStep, Live, appVars, storeVars
  <2>2. lastSeen' = lastSeen
    BY <1>1, <1>3
    DEF ListenerStep, Live, Connect, HeadFetched, Subscribe, SubscriptionAcknowledged, Disconnect, Receive,
        Flush, CatchUpRequest, CatchUpHead, CatchUpFetched, CatchUpFails, CatchUpFrom, listenerVars
  <2> QED
    BY <1>1, <2>1, <2>2, PlaceStays
<1>4. CASE ChangeScore \/ IndexCatchesUp \/ ReconcileTick \/ UNCHANGED workerVars
  <2>1. UNCHANGED <<head, log, lastSeen, phase, savedMap, job, map>>
    BY <1>4 DEF ChangeScore, IndexCatchesUp, ReconcileTick, workerVars, appVars, vars, chainVars,
                listenerVars, storeVars
  <2> QED
    BY <1>1, <2>1, PlaceStays
<1>5. CASE ExecuteOperation \/ OperationsDone \/ SaveCursor
  <2>1. UNCHANGED <<head, log, lastSeen, phase, savedMap, map>>
    BY <1>5 DEF ExecuteOperation, OperationsDone, SaveCursor, vars, chainVars, listenerVars, storeVars
  <2>2. job'.kind = job.kind /\ job'.batch = job.batch /\ job'.cursor = job.cursor
    BY <1>1, <1>5 DEF ExecuteOperation, OperationsDone, SaveCursor, JobType
  <2> QED
    BY <1>1, <2>1, <2>2, PlaceStays
<1>6. CASE Start \/ Crash
  <2>1. UNCHANGED <<head, log, savedMap>> /\ phase' \in {"down", "backfill"}
    BY <1>6 DEF Start, Crash, Reset, chainVars, storeVars
  <2> QED
    BY <1>1, <2>1 DEF MapPlace
<1>7. CASE Backfill
  BY <1>7, PlaceAtBackfill
<1>8. CASE SkipReplay
  <2>1. lastSeen.block <= map.block /\ map.block \in -1 .. head /\ SafeHead < lastSeen.block
    BY <1>1, <1>8 DEF SkipReplay, MapPlace, NoJob, CompleteReads
  <2>2. lastSeen.block \in Int
    BY <1>1, QueuedTyped DEF Cursor
  <2> QED
    BY <1>1, <2>1, <2>2, HeadIsSafe
<1>9. CASE BeginReplay
  BY <1>9, PlaceAtReplay
<1>10. CASE BeginTask
  BY <1>10, PlaceAtTask
<1>11. CASE SaveMap
  BY <1>11, PlaceAtSave
<1>12. CASE TaskFails \/ TaskFailsAtOnce
  BY <1>12 DEF TaskFails, TaskFailsAtOnce, CompleteReads
<1> QED
  BY <1>2, <1>3, <1>4, <1>5, <1>6, <1>7, <1>8, <1>9, <1>10, <1>11, <1>12
  DEF WorkerNext, WorldStep, WorkerStep, SequentialStep

LEMMA ReadsComplete ==
    CompleteReads => /\ Reliable /\ NoOvertaking /\ "reconnectBeforeFlush" \notin Hazards
                     /\ Hazards = {} /\ MaxLogsPerBlock = 1
BY StartCursorTyped DEF CompleteReads, Reliable, NoOvertaking

LEMMA PlaceInit == CompleteReads /\ WorkerInit => PlaceInv
<1> SUFFICES ASSUME CompleteReads, WorkerInit PROVE PlaceInv
  OBVIOUS
<1>1. log = {} /\ job = NoJob /\ applied = {} /\ Seen = {} /\ phase = "down"
  BY DEF WorkerInit, Init, Seen
<1>2. PICK done : done = {}
  OBVIOUS
<1>3. LInv(done)
  BY <1>2, ReadsComplete, LInvInit DEF WorkerInit
<1>4. CoverInv
  <2>1. Relevant = {} /\ savedCursor = StartCursor
    BY <1>1 DEF WorkerInit, Relevant, After
  <2> QED
    BY <1>1, <1>2, <1>3, <2>1, WBaseInit DEF CoverInv, SavedInv, JobCovers, NoJob
<1>5. MapPlace
  <2>1. savedMap.block = -1 /\ savedMap.entries = [h \in Humans |-> NoGroup] /\ head = 0
    BY DEF WorkerInit, Init, Snapshot, FreshMap, FromSnapshot, EmptySnapshot, CompleteReads
  <2>2. \A h \in Humans : EventsOf(Whole(log, -1), h) = {}
    BY <1>1 DEF Whole, EventsOf
  <2> QED
    BY <1>1, <2>1, <2>2 DEF MapPlace, SaysWhat, KnownIn, GroupIn
<1> QED
  BY <1>1, <1>2, <1>3, <1>4, <1>5, OrderInit, ContigInit
  DEF PlaceInv, WorkerInit, RegistryInv, IndexInv

LEMMA PlaceInvNext == CompleteReads /\ PlaceInv /\ [WorkerNext]_workerVars => PlaceInv'
<1> SUFFICES ASSUME CompleteReads, PlaceInv, [WorkerNext]_workerVars PROVE PlaceInv'
  OBVIOUS
<1>1. WBase /\ WBase' /\ Base
  BY WBaseNext DEF PlaceInv, CoverInv, WBase
<1>2. CoverInv'
  BY <1>1, ReadsComplete, AccountNext, SavedNext DEF PlaceInv, CoverInv
<1>3. OrderInv'
  BY <1>1, ReadsComplete, EffectsTyped, EffectsKeepOrder, OrderNext DEF PlaceInv, WBase
<1>4. ContigInv'
  BY <1>1, ReadsComplete, EffectsTyped, EffectsKeepContig, ContigNext DEF PlaceInv, WBase
<1>5. RegistryInv' /\ IndexInv'
  BY <1>1, ReadsComplete, RegistryNext, IndexNext DEF PlaceInv
<1> QED
  BY <1>2, <1>3, <1>4, <1>5, ReadsComplete, SeenNext, PlaceNext DEF PlaceInv

\* When nothing is lost or overtaken, a block's logs come together and a restart
\* reads up to the head, the map says what the registry says whenever the worker is
\* quiet, however often the process ends and whichever saves and loads fail
\* (main.ts, ensureAffiliateMapBackfill and saveAffiliateMap).
THEOREM MapIsCurrent == CompleteReads => (WorkerSpec => []MapCurrentWhenQuiet)
<1>1. SUFFICES ASSUME CompleteReads PROVE WorkerSpec => []MapCurrentWhenQuiet
  OBVIOUS
<1>2. (WorkerInit => PlaceInv) /\ (PlaceInv /\ [WorkerNext]_workerVars => PlaceInv')
  BY <1>1, PlaceInit, PlaceInvNext
<1>3. PlaceInv => MapCurrentWhenQuiet
  <2> SUFFICES ASSUME PlaceInv, Quiet PROVE SaysWhat(map.toGroup, log)
    BY DEF MapCurrentWhenQuiet, SaysWhat, KnownIn
  <2>1. Base /\ phase = "live" /\ job.kind = "none" /\ After(log, lastSeen) = {} /\ lastSeen \in Cursor
    BY QueuedTyped DEF PlaceInv, CoverInv, WBase, Base, Quiet, NoJob
  <2>2. SaysWhat(map.toGroup, Whole(log, lastSeen.block))
    BY <2>1 DEF PlaceInv, MapPlace
  <2>3. \A e \in log : e.cursor.block <= lastSeen.block
    BY <2>1, EventCursors, CursorOrder DEF After, Base
  <2>4. Whole(log, lastSeen.block) = log
    BY <2>3 DEF Whole
  <2> QED
    BY <2>2, <2>4
<1> QED
  BY <1>2, <1>3, PTL DEF WorkerSpec

-----------------------------------------------------------------------------
(***************************************************************************)
(* One group at a time.  Whom a group trusts was its affiliate at some     *)
(* block not before the saved cursor's: a restart meets the event that     *)
(* took it elsewhere.  From the start of a job until its plan is carried   *)
(* out, trust where the map has a human no longer is about to be           *)
(* withdrawn, before anybody is trusted anew.                              *)
(***************************************************************************)
Untrusts(plan, h, g) == \E i \in DOMAIN plan : plan[i].op = "untrust" /\ plan[i].group = g
                                               /\ h \in plan[i].humans

UntrustsFirst(plan) == \A i, j \in DOMAIN plan : i < j /\ plan[i].op = "trust" => plan[j].op = "trust"

\* A group with anybody to trust, or to untrust, has its operation.
LEMMA OperationsCover ==
    ASSUME NEW op, NEW humansOf, NEW g \in Managed, humansOf[g] # {}
    PROVE  \E i \in DOMAIN Operations(op, humansOf) :
               Operations(op, humansOf)[i] = [op |-> op, group |-> g, humans |-> humansOf[g]]
<1> DEFINE S == {k \in Managed : humansOf[k] # {}}
           groups == SetToSeq(S)
           made == [i \in DOMAIN groups |-> [op |-> op, group |-> groups[i], humans |-> humansOf[groups[i]]]]
<1>1. IsFiniteSet(S) /\ Cardinality(S) \in Nat /\ g \in S
  BY WorkerAssumption, FS_Subset, FS_CardinalityType
<1>2. /\ groups \in [1 .. Cardinality(S) -> S]
      /\ \E i \in 1 .. Cardinality(S) : groups[i] = g
  BY <1>1, ElementsInSomeOrder
<1>3. Operations(op, humansOf) = made
  BY DEF Operations
<1> HIDE DEF groups
<1>4. \E i \in DOMAIN made : made[i] = [op |-> op, group |-> g, humans |-> humansOf[g]]
  BY <1>2
<1> QED
  BY <1>3, <1>4

\* A plan untrusts whom it is given to untrust, and before it trusts anybody.
LEMMA PlanUntrusts ==
    ASSUME NEW untrusted \in [Managed -> SUBSET Humans], NEW trusted \in [Managed -> SUBSET Humans]
    PROVE  /\ UntrustsFirst(PlanFor(untrusted, trusted))
           /\ \A g \in Managed : \A h \in untrusted[g] : Untrusts(PlanFor(untrusted, trusted), h, g)
<1> DEFINE first  == Operations("untrust", untrusted)
           second == Operations("trust", trusted)
           U == {[op |-> "untrust", group |-> g, humans |-> untrusted[g]] : g \in Managed}
           T == {[op |-> "trust", group |-> g, humans |-> trusted[g]] : g \in Managed}
           plan == first \o second
<1>1. first \in Seq(U) /\ second \in Seq(T)
  BY OperationsAre
<1>2. PlanFor(untrusted, trusted) = plan
  BY DEF PlanFor
<1>3. (\A x \in U : x.op = "untrust") /\ (\A x \in T : x.op = "trust")
  OBVIOUS
<1>4. \A g \in Managed : untrusted[g] # {} =>
          \E i \in DOMAIN first : first[i] = [op |-> "untrust", group |-> g, humans |-> untrusted[g]]
  BY OperationsCover
<1> HIDE DEF first, second, U, T
<1>5. first \in Seq(U \cup T) /\ second \in Seq(U \cup T)
  BY <1>1, SequenceWidens
<1>6. /\ Len(plan) = Len(first) + Len(second) /\ DOMAIN plan = 1 .. Len(plan)
      /\ DOMAIN first = 1 .. Len(first) /\ DOMAIN second = 1 .. Len(second)
      /\ Len(first) \in Nat /\ Len(second) \in Nat
      /\ \A i \in 1 .. Len(first) : plan[i] = first[i]
      /\ \A i \in Len(first) + 1 .. Len(plan) : plan[i] = second[i - Len(first)]
  BY <1>5, ConcatProperties, LenProperties
<1>7. (\A i \in 1 .. Len(first) : first[i].op = "untrust") /\ (\A i \in 1 .. Len(second) : second[i].op = "trust")
  BY <1>1, <1>3, SequenceWidens
<1>8. \A i \in DOMAIN plan : plan[i].op = "trust" <=> i > Len(first)
  BY <1>6, <1>7
<1>9. UntrustsFirst(plan)
  BY <1>6, <1>8 DEF UntrustsFirst
<1>10. ASSUME NEW g \in Managed, NEW h \in untrusted[g] PROVE Untrusts(plan, h, g)
  <2>1. PICK i \in DOMAIN first : first[i] = [op |-> "untrust", group |-> g, humans |-> untrusted[g]]
    BY <1>4, <1>10
  <2>2. i \in DOMAIN plan /\ plan[i] = first[i]
    BY <1>6
  <2> QED
    BY <1>10, <2>1, <2>2 DEF Untrusts
<1> QED
  BY <1>2, <1>9, <1>10

\* What is carried out leaves the rest in order.
LEMMA TailUntrusts ==
    ASSUME NEW plan \in Seq(Planned), plan # <<>>
    PROVE  /\ UntrustsFirst(plan) => UntrustsFirst(Tail(plan))
           /\ \A h, g : Untrusts(plan, h, g) =>
                  \/ Untrusts(Tail(plan), h, g)
                  \/ Head(plan).op = "untrust" /\ Head(plan).group = g /\ h \in Head(plan).humans
           /\ Head(plan) \in Planned
           /\ UntrustsFirst(plan) /\ Head(plan).op = "trust" => \A h, g : ~Untrusts(plan, h, g)
<1>1. /\ Head(plan) = plan[1] /\ 1 \in DOMAIN plan /\ Head(plan) \in Planned
      /\ DOMAIN plan = 1 .. Len(plan) /\ Len(plan) \in Nat
      /\ DOMAIN Tail(plan) = 1 .. Len(plan) - 1
      /\ \A i \in 1 .. Len(plan) - 1 : Tail(plan)[i] = plan[i + 1]
  BY HeadTailProperties, LenProperties, EmptySeq
<1>2. UntrustsFirst(plan) => UntrustsFirst(Tail(plan))
  BY <1>1 DEF UntrustsFirst
<1>3. ASSUME NEW h, NEW g, Untrusts(plan, h, g)
      PROVE  \/ Untrusts(Tail(plan), h, g)
             \/ Head(plan).op = "untrust" /\ Head(plan).group = g /\ h \in Head(plan).humans
  <2>1. PICK i \in DOMAIN plan : plan[i].op = "untrust" /\ plan[i].group = g /\ h \in plan[i].humans
    BY <1>3 DEF Untrusts
  <2>2. CASE i = 1
    BY <1>1, <2>1, <2>2
  <2>3. CASE i # 1
    <3>1. i - 1 \in DOMAIN Tail(plan) /\ Tail(plan)[i - 1] = plan[i]
      BY <1>1, <2>1, <2>3
    <3> QED
      BY <2>1, <3>1 DEF Untrusts
  <2> QED
    BY <2>2, <2>3
<1>4. ASSUME UntrustsFirst(plan), Head(plan).op = "trust", NEW i \in DOMAIN plan
      PROVE  plan[i].op # "untrust"
  <2>1. i = 1 \/ plan[i].op = "trust"
    BY <1>1, <1>4 DEF UntrustsFirst
  <2> QED
    BY <1>1, <1>4, <2>1
<1> QED
  BY <1>1, <1>2, <1>3, <1>4 DEF Untrusts

-----------------------------------------------------------------------------
\* Where the registry no longer has a human in a group, a log between says that it left.
LEMMA Leaves ==
    ASSUME Base, RegistryInv, NEW early \in SUBSET log, NEW late \in SUBSET log, early \subseteq late,
           Prefix(early), Prefix(late), NEW h, NEW g,
           GroupIn(early, h) = g, GroupIn(late, h) # g
    PROVE  \E e \in late \ early : e.change.human = h /\ e.change.from = g /\ e.change.to # g
<1> DEFINE L == EventsOf(late, h)
           W == {e \in L : e \notin early /\ e.change.to # g}
<1>0. /\ \A part \in SUBSET log : Ordered(part)
      /\ \A e \in log : e.cursor \in Cursor
  BY RealOrdered, EventCursors DEF Base
<1>1. /\ L \in SUBSET log /\ \A e : e \in L <=> e \in late /\ e.change.human = h
      /\ EventsOf(early, h) \in SUBSET L
      /\ \A e : e \in EventsOf(early, h) <=> e \in early /\ e.change.human = h
  BY DEF EventsOf
<1>2. W \in SUBSET log /\ W \subseteq L
  BY <1>1
<1>3. W # {}
  <2>1. SUFFICES ASSUME \A e \in L : e \in early \/ e.change.to = g PROVE FALSE
    OBVIOUS
  <2>2. CASE L \subseteq early
    <3>1. EventsOf(early, h) = L
      BY <1>1, <2>2
    <3> QED
      BY <3>1 DEF GroupIn
  <2>3. CASE \E e \in L : e \notin early
    <3>1. PICK e \in L : e \notin early
      BY <2>3
    <3>2. LastOf(L) \in L /\ AtOrBefore(e.cursor, LastOf(L).cursor)
      BY <1>0, <1>1, <3>1, LastExists
    <3>3. LastOf(L) \notin early
      BY <1>1, <3>1, <3>2 DEF Prefix
    <3>4. LastOf(L).change.to = g
      BY <2>1, <3>2, <3>3
    <3> QED
      BY <3>1, <3>4 DEF GroupIn
  <2> QED
    BY <2>2, <2>3
<1>4. PICK u \in W : \A e \in W : AtOrBefore(u.cursor, e.cursor)
  BY <1>0, <1>2, <1>3, LastExists
<1>5. u \in log /\ u \in late /\ u \notin early /\ u.change.human = h /\ u.change.to # g
  BY <1>1, <1>2, <1>4
<1> HIDE DEF L
<1> DEFINE P == EventsOf(Earlier(u), h)
           v == LastOf(P)
<1>6. /\ P \in SUBSET log /\ \A e : e \in P <=> e \in log /\ Before(e.cursor, u.cursor) /\ e.change.human = h
  BY DEF EventsOf, Earlier
<1>7. u.change.from = GroupIn(Earlier(u), h)
  BY <1>5 DEF RegistryInv
<1>8. \A e \in early : Before(e.cursor, u.cursor)
  BY <1>0, <1>5, CursorOrder DEF Prefix
<1>9. CASE P = {}
  <2>1. EventsOf(early, h) = {}
    BY <1>1, <1>6, <1>8, <1>9
  <2> QED
    BY <1>5, <1>7, <1>9, <2>1 DEF GroupIn
<1>10. CASE P # {}
  <2>1. v \in P /\ \A e \in P : AtOrBefore(e.cursor, v.cursor)
    BY <1>0, <1>6, <1>10, LastExists
  <2>2. u.change.from = v.change.to
    BY <1>7, <1>10 DEF GroupIn
  <2> HIDE DEF v
  <2>3. v \in log /\ Before(v.cursor, u.cursor) /\ v.change.human = h
    BY <1>6, <2>1
  <2> HIDE DEF P
  <2>4. v \in late
    <3>1. AtOrBefore(v.cursor, u.cursor)
      BY <2>3 DEF AtOrBefore
    <3> QED
      BY <1>5, <2>3, <3>1 DEF Prefix
  <2>5. CASE v \in early
    <3>1. v \in EventsOf(early, h) /\ EventsOf(early, h) \subseteq P
      BY <1>1, <1>6, <1>8, <2>3, <2>5
    <3>2. LastOf(EventsOf(early, h)) = v
      BY <1>0, <1>1, <2>1, <3>1, LastUnique
    <3>3. v.change.to = g
      BY <3>1, <3>2 DEF GroupIn
    <3> QED
      BY <1>5, <2>2, <3>3
  <2>6. CASE v \notin early
    <3>1. v \notin W
      BY <1>0, <1>4, <1>5, <2>3, CursorOrder
    <3>2. v \in L
      BY <1>1, <2>3, <2>4
    <3> QED
      BY <1>5, <2>2, <2>6, <3>1, <3>2
  <2> QED
    BY <2>5, <2>6
<1> QED
  BY <1>9, <1>10

\* A batch in which a trusted human leaves its group, and after which the map has it
\* elsewhere, asks for the untrust.
LEMMA LeaversUntrusted ==
    ASSUME WBase, RegistryInv, indexed = trust, NEW batch \in SUBSET log, Contiguous(batch),
           NEW g \in Managed, NEW h \in trust[g],
           ApplyEvents(map, Real(batch)).toGroup[h] # g,
           \E e \in batch : e.change.human = h /\ e.change.from = g /\ e.change.to # g
    PROVE  Untrusts(EventPlan(batch), h, g)
<1> DEFINE touched == [k \in Managed |-> {i \in Humans : Touching(batch, i, k) # {}}]
           desired == [k \in Managed |-> {i \in touched[k] :
                           /\ LastOf(Touching(batch, i, k)).change.to = k
                           /\ Eligible(i, k)}]
           untrusted == [k \in Managed |-> (touched[k] \cap indexed[k]) \ desired[k]]
           trusted == [k \in Managed |-> desired[k] \ indexed[k]]
<1>1. h \in Humans /\ h \in indexed[g] /\ trust \in [Managed -> SUBSET Humans]
  BY DEF WBase, WorldInv
<1>2. Touching(batch, h, g) # {}
  BY DEF Touching, EventsOf, Real
<1>3. LastOf(Touching(batch, h, g)).change.to # g
  <2> SUFFICES ASSUME LastOf(Touching(batch, h, g)).change.to = g PROVE FALSE
    OBVIOUS
  <2>1. EventsOf(Real(batch), h) # {} /\ LastOf(EventsOf(Real(batch), h)).change.to = g
    BY <1>2, JoinedLast DEF WBase
  <2>2. ApplyEvents(map, Real(batch)).toGroup[h] = LedTo(map, Real(batch), h)
    BY <1>1, RealOrdered, EventsApplied DEF WBase, WorldInv
  <2> QED
    BY <2>1, <2>2 DEF LedTo
<1>4. h \in untrusted[g]
  BY <1>1, <1>2, <1>3
<1>5. EventPlan(batch) = PlanFor(untrusted, trusted)
  BY DEF EventPlan
<1>6. untrusted \in [Managed -> SUBSET Humans] /\ trusted \in [Managed -> SUBSET Humans]
  OBVIOUS
<1> HIDE DEF untrusted, trusted
<1> QED
  BY <1>4, <1>5, <1>6, PlanUntrusts

\* Every plan withdraws trust before it gives any.
LEMMA PlansUntrustFirst ==
    ASSUME WorldInv
    PROVE  UntrustsFirst(ReconcilePlan) /\ \A batch : UntrustsFirst(EventPlan(batch))
<1>1. UntrustsFirst(ReconcilePlan)
  <2> DEFINE untrusted == [g \in Managed |-> {h \in indexed[g] : ~Eligible(h, g)}]
             trusted == [g \in Managed |-> {h \in AffiliatesOf(map, g) \ indexed[g] : Eligible(h, g)}]
  <2>1. \A g \in Managed : AffiliatesOf(map, g) \in SUBSET Humans
    BY WorkerAssumption DEF AffiliatesOf, WorldInv, ExactMaps, MembersOf
  <2>2. untrusted \in [Managed -> SUBSET Humans] /\ trusted \in [Managed -> SUBSET Humans]
    BY <2>1 DEF WorldInv
  <2>3. ReconcilePlan = PlanFor(untrusted, trusted)
    BY DEF ReconcilePlan
  <2> HIDE DEF untrusted, trusted
  <2> QED
    BY <2>2, <2>3, PlanUntrusts
<1>2. ASSUME NEW batch PROVE UntrustsFirst(EventPlan(batch))
  <2> DEFINE touched == [g \in Managed |-> {h \in Humans : Touching(batch, h, g) # {}}]
             desired == [g \in Managed |-> {h \in touched[g] :
                             /\ LastOf(Touching(batch, h, g)).change.to = g
                             /\ Eligible(h, g)}]
             untrusted == [g \in Managed |-> (touched[g] \cap indexed[g]) \ desired[g]]
             trusted == [g \in Managed |-> desired[g] \ indexed[g]]
  <2>1. EventPlan(batch) = PlanFor(untrusted, trusted)
    BY DEF EventPlan
  <2>2. untrusted \in [Managed -> SUBSET Humans] /\ trusted \in [Managed -> SUBSET Humans]
    OBVIOUS
  <2> HIDE DEF untrusted, trusted
  <2> QED
    BY <2>1, <2>2, PlanUntrusts
<1> QED
  BY <1>1, <1>2

-----------------------------------------------------------------------------
\* Whom a group trusts was in it at some block not before the saved cursor's.
WasThere == \A g \in Managed : \A h \in trust[g] :
                \E b \in savedCursor.block .. head : GroupIn(Whole(log, b), h) = g

\* From the start of a job on, trust that the map does not call for is about to go.
AboutToGo == phase = "live" \/ job.kind # "none" =>
                 \A g \in Managed : \A h \in trust[g] : map.toGroup[h] = g \/ Untrusts(job.plan, h, g)

\* Where the saved cursor is when the job, or the listener, is where it is.
RowInv ==
    /\ savedCursor.block \in 0 .. head
    /\ phase \in {"backfill", "replay"} => lastSeen.block <= savedCursor.block
    /\ phase = "live" /\ job.kind # "events" => savedCursor.block <= lastSeen.block
    /\ job.kind = "events" => savedCursor.block <= job.cursor.block

OneGroupInv ==
    /\ TrustedInOneGroup /\ WasThere /\ AboutToGo /\ RowInv
    /\ UntrustsFirst(job.plan)
    /\ job.stage \in {"saveCursor", "saveMap"} => job.plan = <<>>
    /\ indexed = trust

OneInv == PlaceInv /\ PlanInv /\ OneGroupInv

\* A map that says what the registry said has the humans of a managed group there.
LEMMA MapSays ==
    ASSUME NEW entries, NEW events, SaysWhat(entries, events), NEW h \in Humans, NEW g \in Managed
    PROVE  entries[h] = g <=> GroupIn(events, h) = g
BY WorkerAssumption, MapAssumption DEF SaysWhat, KnownIn

\* While a job runs, and between jobs of the listener, the map is that of some block
\* not before the saved cursor's.
LEMMA MapPlaced ==
    ASSUME PlaceInv, RowInv, phase = "live" \/ job.kind # "none"
    PROVE  \E b \in savedCursor.block .. head : SaysWhat(map.toGroup, Whole(log, b))
<1>1. /\ Base /\ JobInv /\ MapPlace /\ head \in Nat /\ savedCursor.block \in 0 .. head
      /\ job.batch \in SUBSET log
  BY QueuedTyped DEF PlaceInv, CoverInv, WBase, Base, RowInv, JobInv, JobType
<1>2. CASE phase = "live" /\ job.kind # "events"
  BY <1>1, <1>2 DEF MapPlace, RowInv
<1>3. CASE phase = "live" /\ job.kind = "events"
  <2>1. job.batch # {} /\ job.cursor = LastOf(job.batch).cursor
        /\ SaysWhat(map.toGroup, Whole(log, job.cursor.block))
    BY <1>1, <1>3 DEF MapPlace
  <2>2. job.cursor.block \in Int /\ job.cursor.block <= head
    BY <1>1, <2>1, BatchCursor DEF Cursor
  <2>3. savedCursor.block <= job.cursor.block
    BY <1>3 DEF RowInv
  <2> QED
    BY <1>1, <2>1, <2>2, <2>3
<1>4. CASE phase # "live"
  <2>1. phase = "replay" /\ job.kind = "events"
    BY <1>1, <1>4 DEF JobInv, JobType, NoJob
  <2> QED
    BY <1>1, <2>1 DEF MapPlace, RowInv
<1> QED
  BY <1>2, <1>3, <1>4

\* What moves nothing but the job's progress, or nothing at all.
LEMMA OneStays ==
    ASSUME OneGroupInv,
           UNCHANGED <<head, log, lastSeen, phase, map, savedCursor, trust, indexed>>,
           job'.kind = job.kind, job'.cursor = job.cursor, job'.plan = job.plan,
           job'.stage \in {"saveCursor", "saveMap"} => job.plan = <<>>
    PROVE  OneGroupInv'
BY DEF OneGroupInv, TrustedInOneGroup, WasThere, AboutToGo, RowInv

\* The chain goes on: what a group's members were they have been.
LEMMA OneMined ==
    ASSUME OneGroupInv, head \in Nat, head' = head + 1,
           \A b \in Int : b <= head => Whole(log', b) = Whole(log, b),
           UNCHANGED <<lastSeen, phase, job, map, savedCursor, trust, indexed>>
    PROVE  OneGroupInv'
<1>1. \A b \in savedCursor.block .. head : b \in savedCursor'.block .. head' /\ Whole(log', b) = Whole(log, b)
  BY DEF OneGroupInv, RowInv
<1>2. WasThere'
  BY <1>1 DEF OneGroupInv, WasThere
<1>3. RowInv'
  BY DEF OneGroupInv, RowInv
<1> QED
  BY <1>2, <1>3 DEF OneGroupInv, TrustedInOneGroup, AboutToGo

\* Between jobs nothing is about to go.
LEMMA OneIdle ==
    ASSUME OneGroupInv, UNCHANGED <<head, log, savedCursor, trust, indexed>>, job' = NoJob, RowInv',
           phase' = "live" =>
               \A g \in Managed : \A h \in trust[g] : map'.toGroup[h] = g
    PROVE  OneGroupInv'
<1>1. job'.plan = <<>> /\ job'.kind = "none" /\ job'.stage = "idle" /\ DOMAIN job'.plan = {}
  BY DEF NoJob
<1>2. UntrustsFirst(job'.plan)
  BY <1>1 DEF UntrustsFirst
<1> QED
  BY <1>1, <1>2 DEF OneGroupInv, TrustedInOneGroup, WasThere, AboutToGo

\* The replay meets every log after the saved cursor, and with them those that took
\* trusted humans elsewhere.
LEMMA OneAtReplay ==
    ASSUME CompleteReads, OneInv, PlaceInv', BeginReplay
    PROVE  OneGroupInv'
<1> DEFINE events == EventsBetween(log, lastSeen.block, SafeHead, lastSeen)
<1>1. /\ WBase /\ Base /\ RegistryInv /\ MapPlace /\ head \in Nat /\ map \in ExactMaps /\ WorldInv
      /\ lastSeen \in Cursor /\ lastSeen.block \in Int /\ phase = "replay" /\ job = NoJob
      /\ OneGroupInv /\ RowInv
  BY QueuedTyped DEF OneInv, OneGroupInv, PlaceInv, CoverInv, WBase, Base, WorldInv, BeginReplay, Cursor
<1>2. \A e \in log : e.cursor \in Cursor /\ e.cursor.block \in Nat /\ e.cursor.block <= head
  BY <1>1, EventCursors DEF Base, LogInv
<1>3. /\ UNCHANGED <<head, log, lastSeen, phase, savedCursor, trust, indexed>>
      /\ map' = ApplyEvents(map, Real(events)) /\ job' = EventsJob(events, HeadCursor(head))
  BY <1>1, HeadIsSafe DEF BeginReplay, vars, chainVars, listenerVars, storeVars, worldVars
<1>4. /\ job'.kind = "events" /\ job'.stage = "execute" /\ job'.plan = EventPlan(events)
      /\ job'.cursor.block = head
  BY <1>3 DEF EventsJob, HeadCursor
<1>5. /\ events \in SUBSET log /\ Contiguous(events)
      /\ \A e \in log : lastSeen.block < e.cursor.block => e \in events
  <2>1. \A e \in log : lastSeen.block < e.cursor.block => Before(lastSeen, e.cursor)
    BY DEF Before
  <2>2. SafeHead = head
    BY <1>1, HeadIsSafe
  <2> QED
    BY <1>1, <1>2, <2>1, <2>2, RangeContiguous DEF EventsBetween, After
<1> HIDE DEF events
<1>6. SaysWhat(map'.toGroup, log)
  <2>1. SaysWhat(map'.toGroup, Whole(log', job'.cursor.block))
    BY <1>1, <1>3, <1>4 DEF PlaceInv, MapPlace
  <2> QED
    BY <1>1, <1>3, <1>4, <2>1, WholePrefix
<1>7. ASSUME NEW g \in Managed, NEW h \in trust[g], map'.toGroup[h] # g
      PROVE  Untrusts(EventPlan(events), h, g)
  <2>1. h \in Humans
    BY <1>1 DEF WorldInv
  <2>2. PICK b \in savedCursor.block .. head : GroupIn(Whole(log, b), h) = g
    BY <1>1 DEF OneGroupInv, WasThere
  <2>3. b \in Int /\ lastSeen.block <= b
    BY <1>1, <2>2 DEF RowInv
  <2>4. GroupIn(log, h) # g
    BY <1>6, <1>7, <2>1, MapSays
  <2>5. Whole(log, b) \in SUBSET log /\ Prefix(Whole(log, b)) /\ Prefix(log)
    BY <1>1, <2>3, WholePrefix DEF Prefix
  <2>6. PICK e \in log \ Whole(log, b) : e.change.human = h /\ e.change.from = g /\ e.change.to # g
    BY <1>1, <2>2, <2>4, <2>5, Leaves
  <2>7. e \in events
    BY <1>1, <1>2, <1>5, <2>3, <2>6 DEF Whole
  <2> QED
    BY <1>1, <1>3, <1>5, <1>7, <2>6, <2>7, LeaversUntrusted DEF OneGroupInv
<1>8. UntrustsFirst(job'.plan)
  BY <1>1, <1>4, PlansUntrustFirst
<1>9. RowInv'
  BY <1>1, <1>3, <1>4 DEF RowInv
<1> QED
  BY <1>1, <1>3, <1>4, <1>7, <1>8, <1>9 DEF OneGroupInv, TrustedInOneGroup, WasThere, AboutToGo

\* The first batch of the queue has the logs that take a human from where the map has it.
LEMMA OneAtTask ==
    ASSUME CompleteReads, OneInv, PlaceInv', BeginTask
    PROVE  OneGroupInv'
<1>1. /\ WBase /\ Base /\ RegistryInv /\ MapPlace /\ WorldInv
      /\ phase = "live" /\ job = NoJob /\ job.kind = "none" /\ tasks # <<>> /\ DOMAIN job.plan = {}
      /\ OneGroupInv /\ RowInv /\ PlaceInv /\ savedCursor.block \in 0 .. head /\ head \in Nat
  BY QueuedTyped DEF OneInv, OneGroupInv, PlaceInv, CoverInv, WBase, Base, BeginTask, NoJob, RowInv
<1>2. UNCHANGED <<head, log, lastSeen, phase, savedCursor, trust, indexed>>
  BY DEF BeginTask, vars, chainVars, listenerVars, storeVars, worldVars
<1>3. \A g \in Managed : \A h \in trust[g] : map.toGroup[h] = g
  BY <1>1 DEF OneGroupInv, AboutToGo, Untrusts
<1>4. /\ lastSeen.block \in 0 .. head /\ savedCursor.block <= lastSeen.block
      /\ SaysWhat(map.toGroup, Whole(log, lastSeen.block))
  BY <1>1 DEF MapPlace, RowInv
<1>5. CASE Head(tasks).source = "reconcile"
  <2>1. /\ map' = map /\ job'.kind = "reconcile" /\ job'.stage = "execute" /\ job'.plan = ReconcilePlan
    BY <1>5 DEF BeginTask
  <2>2. UntrustsFirst(job'.plan)
    BY <1>1, <2>1, PlansUntrustFirst
  <2>3. RowInv'
    BY <1>1, <1>2, <1>4, <2>1 DEF RowInv
  <2> QED
    BY <1>1, <1>2, <1>3, <2>1, <2>2, <2>3 DEF OneGroupInv, TrustedInOneGroup, WasThere, AboutToGo
<1>6. CASE Head(tasks).source # "reconcile"
  <2> DEFINE batch == Head(tasks).batch
             last  == LastOf(batch)
             known == Whole(log, lastSeen.block)
             late  == Whole(log, last.cursor.block)
  <2>1. map' = ApplyEvents(map, Real(batch)) /\ job' = EventsJob(batch, last.cursor)
    BY <1>6 DEF BeginTask
  <2>2. /\ batch \in SUBSET log /\ Contiguous(batch)
        /\ last.cursor.block \in Nat /\ lastSeen.block <= last.cursor.block
        /\ known \in SUBSET late /\ Prefix(known) /\ late \in SUBSET log /\ Prefix(late)
        /\ late \subseteq known \cup batch
    BY <1>1, <1>6, FirstBatch
  <2> HIDE DEF batch, last
  <2>3. /\ job'.kind = "events" /\ job'.stage = "execute" /\ job'.plan = EventPlan(batch)
        /\ job'.cursor = last.cursor
    BY <2>1 DEF EventsJob
  <2>4. SaysWhat(map'.toGroup, late)
    BY <1>1, <1>2, <2>3 DEF PlaceInv, MapPlace
  <2> HIDE DEF known, late
  <2>5. ASSUME NEW g \in Managed, NEW h \in trust[g], map'.toGroup[h] # g
        PROVE  Untrusts(EventPlan(batch), h, g)
    <3>1. h \in Humans
      BY <1>1 DEF WorldInv
    <3>2. GroupIn(known, h) = g
      BY <1>3, <1>4, <3>1, MapSays DEF known
    <3>3. GroupIn(late, h) # g
      BY <2>4, <2>5, <3>1, MapSays
    <3>4. PICK e \in late \ known : e.change.human = h /\ e.change.from = g /\ e.change.to # g
      BY <1>1, <2>2, <3>2, <3>3, Leaves
    <3>5. e \in batch
      BY <2>2, <3>4
    <3> QED
      BY <1>1, <2>1, <2>2, <2>5, <3>4, <3>5, LeaversUntrusted DEF OneGroupInv
  <2>6. UntrustsFirst(job'.plan)
    BY <1>1, <2>3, PlansUntrustFirst
  <2>7. RowInv'
    BY <1>1, <1>2, <1>4, <2>2, <2>3 DEF RowInv
  <2> QED
    BY <1>1, <1>2, <2>3, <2>5, <2>6, <2>7 DEF OneGroupInv, TrustedInOneGroup, WasThere, AboutToGo
<1> QED
  BY <1>5, <1>6

\* A transaction withdraws trust that the map does not call for, or gives trust when
\* there is none of that left.
LEMMA OneAtOperation ==
    ASSUME ~IndexLags, OneInv, ExecuteOperation
    PROVE  OneGroupInv'
<1> DEFINE op == Head(job.plan)
<1>1. /\ WBase /\ WorldInv /\ OneGroupInv /\ RowInv /\ PlaceInv /\ FollowInv /\ JobInv
      /\ job.plan \in Seq(Planned) /\ job.plan # <<>> /\ job.kind # "none"
  BY DEF OneInv, OneGroupInv, PlaceInv, CoverInv, WBase, FollowInv, JobInv, JobType, ExecuteOperation
<1>2. /\ UNCHANGED <<head, log, lastSeen, phase, map, savedCursor>>
      /\ job'.kind = job.kind /\ job'.cursor = job.cursor /\ job'.stage = "execute"
      /\ job'.plan = Tail(job.plan)
  BY <1>1 DEF ExecuteOperation, vars, chainVars, listenerVars, storeVars, JobInv, JobType
<1>3. /\ op \in Planned
      /\ UntrustsFirst(Tail(job.plan))
      /\ \A h, g : Untrusts(job.plan, h, g) =>
             \/ Untrusts(Tail(job.plan), h, g)
             \/ op.op = "untrust" /\ op.group = g /\ h \in op.humans
      /\ op.op = "trust" => \A h, g : ~Untrusts(job.plan, h, g)
  <2>1. UntrustsFirst(job.plan)
    BY <1>1 DEF OneGroupInv
  <2>2. job.plan \in Seq(Planned) /\ job.plan # <<>>
    BY <1>1
  <2> QED
    BY <2>1, <2>2, TailUntrusts
<1>4. /\ trust' = [trust EXCEPT ![op.group] =
                     IF op.op = "trust" THEN @ \cup op.humans ELSE @ \ op.humans]
      /\ indexed' = trust'
  BY DEF ExecuteOperation, Carry
<1> HIDE DEF op
<1>5. \A g \in Managed : \A h \in trust'[g] \ trust[g] : map.toGroup[h] = g /\ op.op = "trust" /\ h \in Humans
  <2>1. \A g \in Managed : \A h \in trust'[g] \ trust[g] : map.toGroup[h] = g
    BY <1>1, TrustStep DEF WorkerNext, WorkerStep, SequentialStep
  <2>2. op.group \in Managed /\ op.op \in {"trust", "untrust"} /\ op.humans \in SUBSET Humans
    BY <1>3 DEF Planned
  <2>3. trust \in [Managed -> SUBSET Humans]
    BY <1>1 DEF WorldInv
  <2> QED
    BY <1>4, <2>1, <2>2, <2>3
<1>6. \A g \in Managed : \A h \in trust[g] : map.toGroup[h] = g \/ Untrusts(job.plan, h, g)
  BY <1>1 DEF OneGroupInv, AboutToGo
<1>7. op.op # "trust" => \A g \in Managed : trust'[g] \subseteq trust[g]
  BY <1>5
<1>8. TrustedInOneGroup'
  <2>1. CASE op.op = "trust"
    <3>1. \A g \in Managed : \A h \in trust'[g] : map.toGroup[h] = g
      BY <1>3, <1>5, <1>6, <2>1
    <3> QED
      BY <3>1 DEF TrustedInOneGroup
  <2>2. CASE op.op # "trust"
    BY <1>1, <1>7, <2>2 DEF OneGroupInv, TrustedInOneGroup
  <2> QED
    BY <2>1, <2>2
<1>9. WasThere'
  <2> SUFFICES ASSUME NEW g \in Managed, NEW h \in trust'[g]
               PROVE  \E b \in savedCursor.block .. head : GroupIn(Whole(log, b), h) = g
    BY <1>2 DEF WasThere
  <2>1. CASE h \in trust[g]
    BY <1>1, <2>1 DEF OneGroupInv, WasThere
  <2>2. CASE h \notin trust[g]
    <3>1. map.toGroup[h] = g /\ h \in Humans
      BY <1>5, <2>2
    <3>2. PICK b \in savedCursor.block .. head : SaysWhat(map.toGroup, Whole(log, b))
      BY <1>1, MapPlaced
    <3> QED
      BY <3>1, <3>2, MapSays
  <2> QED
    BY <2>1, <2>2
<1>10. AboutToGo'
  <2> SUFFICES ASSUME NEW g \in Managed, NEW h \in trust'[g], map.toGroup[h] # g
               PROVE  Untrusts(Tail(job.plan), h, g)
    BY <1>2 DEF AboutToGo
  <2>1. h \in trust[g] /\ Untrusts(job.plan, h, g)
    BY <1>5, <1>6
  <2>2. ~(op.op = "untrust" /\ op.group = g /\ h \in op.humans)
    <3>1. trust \in [Managed -> SUBSET Humans]
      BY <1>1 DEF WorldInv
    <3> QED
      BY <1>4, <3>1
  <2> QED
    BY <1>3, <2>1, <2>2
<1>11. RowInv'
  BY <1>1, <1>2 DEF RowInv
<1> QED
  BY <1>2, <1>3, <1>4, <1>8, <1>9, <1>10, <1>11 DEF OneGroupInv

\* What a job saves at its end is the map's block, and the job's plan is carried out.
LEMMA OneAtSave ==
    ASSUME OneInv, PlaceInv', SaveMap
    PROVE  OneGroupInv'
<1>1. /\ WBase /\ WorldInv /\ OneGroupInv /\ RowInv /\ PlaceInv /\ MapPlace /\ JobInv /\ MapPlace'
      /\ job.plan = <<>> /\ job.kind \in {"events", "reconcile"} /\ phase \in {"replay", "live"}
      /\ map \in ExactMaps /\ job.cursor.block \in Int /\ savedCursor.block \in 0 .. head
      /\ head \in Nat /\ map.block \in Int
  BY QueuedTyped
  DEF OneInv, OneGroupInv, PlaceInv, CoverInv, WBase, Base, SaveMap, JobInv, JobType, NoJob, Cursor, RowInv,
      WorldInv, ExactMaps, AffiliateMapType
<1>2. UNCHANGED <<head, log, savedCursor, trust, indexed>> /\ phase' = "live" /\ job' = NoJob
      /\ job'.kind = "none"
  BY DEF SaveMap, Settle, DropTask, chainVars, worldVars, NoJob
<1>3. \A g \in Managed : \A h \in trust[g] : map.toGroup[h] = g
  <2>1. \A h, g : ~Untrusts(job.plan, h, g)
    BY <1>1 DEF Untrusts
  <2> QED
    BY <1>1, <2>1 DEF OneGroupInv, AboutToGo
<1>4. ASSUME NEW b \in Int, savedCursor.block <= b, SaveMapAs(map, b)
      PROVE  map'.toGroup = map.toGroup /\ savedCursor.block <= map'.block
  <2>1. AdvanceTo(map, b) \in AffiliateMapType /\ AdvanceTo(map, b).toGroup = map.toGroup
        /\ b <= AdvanceTo(map, b).block
    <3>1. \A m \in AffiliateMapType, c \in Int : AdvanceTo(m, c) \in AffiliateMapType
      BY DEF AdvanceTo, AffiliateMapType
    <3>2. map \in AffiliateMapType
      BY <1>1 DEF ExactMaps
    <3>3. CASE b > map.block
      <4>1. AdvanceTo(map, b) = [map EXCEPT !.block = b, !.dirty = TRUE]
        BY <3>3 DEF AdvanceTo
      <4>2. AdvanceTo(map, b).toGroup = map.toGroup /\ AdvanceTo(map, b).block = b
        BY <3>2, <4>1 DEF AffiliateMapType
      <4> QED
        BY <3>1, <3>2, <4>2
    <3>4. CASE ~(b > map.block)
      <4>1. AdvanceTo(map, b) = map
        BY <3>4 DEF AdvanceTo
      <4> QED
        BY <1>1, <3>2, <3>4, <4>1
    <3> QED
      BY <3>3, <3>4
  <2>2. map' = [AdvanceTo(map, b) EXCEPT !.dirty = FALSE]
    BY <1>4 DEF SaveMapAs
  <2>3. map'.toGroup = AdvanceTo(map, b).toGroup /\ map'.block = AdvanceTo(map, b).block
    BY <2>1, <2>2 DEF AffiliateMapType
  <2>4. AdvanceTo(map, b).block \in Int /\ savedCursor.block \in Int
    BY <1>1, <2>1 DEF AffiliateMapType
  <2> QED
    BY <1>4, <2>1, <2>3, <2>4
<1>5. map'.toGroup = map.toGroup /\ savedCursor.block <= map'.block
  <2>1. CASE job.kind = "events"
    <3>1. SaveMapAs(map, job.cursor.block)
      BY <2>1 DEF SaveMap
    <3>2. savedCursor.block <= job.cursor.block
      BY <1>1, <2>1 DEF RowInv
    <3> QED
      BY <1>1, <1>4, <3>1, <3>2
  <2>2. CASE job.kind = "reconcile"
    <3>1. phase = "live" /\ map.block = lastSeen.block
      BY <1>1, <2>2 DEF JobInv, MapPlace
    <3>2. SaveMapAs(map, map.block)
      BY <2>2 DEF SaveMap
    <3>3. savedCursor.block <= map.block
      BY <1>1, <2>2, <3>1 DEF RowInv
    <3> QED
      BY <1>1, <1>4, <3>2, <3>3
  <2> QED
    BY <1>1, <2>1, <2>2
<1>6. map'.block = lastSeen'.block
  BY <1>1, <1>2 DEF MapPlace
<1>7. RowInv'
  BY <1>1, <1>2, <1>5, <1>6 DEF RowInv
<1> QED
  BY <1>1, <1>2, <1>3, <1>5, <1>7, OneIdle

\* The cursor is saved when the plan is carried out: the map has everybody who is
\* trusted where that is, at the cursor's block.
LEMMA OneAtCursor ==
    ASSUME OneInv, SaveCursor
    PROVE  OneGroupInv'
<1>1. /\ WBase /\ Base /\ WorldInv /\ OneGroupInv /\ RowInv /\ PlaceInv /\ MapPlace /\ JobInv
      /\ job.plan = <<>> /\ job.kind = "events" /\ phase \in {"replay", "live"}
      /\ job \in JobType /\ head \in Nat /\ savedCursor.block \in 0 .. head
  BY QueuedTyped
  DEF OneInv, OneGroupInv, PlaceInv, CoverInv, WBase, Base, SaveCursor, JobInv, NoJob, RowInv
<1>2. /\ UNCHANGED <<head, log, lastSeen, phase, map, trust, indexed>>
      /\ job'.kind = job.kind /\ job'.cursor = job.cursor /\ job'.plan = job.plan
      /\ savedCursor' \in {savedCursor, job.cursor}
  BY <1>1 DEF SaveCursor, vars, chainVars, listenerVars, worldVars, JobType
<1>3. job.cursor.block \in 0 .. head /\ SaysWhat(map.toGroup, Whole(log, job.cursor.block))
  <2>1. CASE phase = "replay"
    BY <1>1, <2>1 DEF MapPlace
  <2>2. CASE phase = "live"
    <3>1. /\ job.batch # {} /\ job.batch \in SUBSET log /\ job.cursor = LastOf(job.batch).cursor
          /\ SaysWhat(map.toGroup, Whole(log, job.cursor.block))
      BY <1>1, <2>2 DEF MapPlace, JobType
    <3>2. job.cursor.block \in Int /\ job.cursor.block <= head
      BY <1>1, <3>1, BatchCursor DEF Cursor
    <3>3. savedCursor.block <= job.cursor.block
      BY <1>1 DEF RowInv
    <3> QED
      BY <1>1, <3>1, <3>2, <3>3
  <2> QED
    BY <1>1, <2>1, <2>2
<1>4. \A g \in Managed : \A h \in trust[g] : map.toGroup[h] = g /\ h \in Humans
  <2>1. \A h, g : ~Untrusts(job.plan, h, g)
    BY <1>1 DEF Untrusts
  <2> QED
    BY <1>1, <2>1 DEF OneGroupInv, AboutToGo, WorldInv
<1>5. WasThere'
  <2>1. CASE savedCursor' = savedCursor
    BY <1>1, <1>2, <2>1 DEF OneGroupInv, WasThere
  <2>2. CASE savedCursor' = job.cursor
    <3> SUFFICES ASSUME NEW g \in Managed, NEW h \in trust[g]
                 PROVE  \E b \in job.cursor.block .. head : GroupIn(Whole(log, b), h) = g
      BY <1>2, <2>2 DEF WasThere
    <3>1. GroupIn(Whole(log, job.cursor.block), h) = g
      BY <1>3, <1>4, MapSays
    <3> QED
      BY <1>3, <3>1
  <2> QED
    BY <1>2, <2>1, <2>2
<1>6. RowInv'
  <2>1. phase = "replay" => lastSeen.block <= savedCursor'.block
    <3>1. lastSeen.block \in Int
      BY <1>1, QueuedTyped DEF Base, Cursor
    <3> QED
      BY <1>1, <1>2, <1>3, <3>1 DEF RowInv
  <2> QED
    BY <1>1, <1>2, <1>3, <2>1 DEF RowInv
<1> QED
  BY <1>1, <1>2, <1>5, <1>6 DEF OneGroupInv, TrustedInOneGroup, AboutToGo

LEMMA OneNext ==
    ASSUME CompleteReads, ~IndexLags, OneInv, PlaceInv', [WorkerNext]_workerVars
    PROVE  OneGroupInv'
<1>1. /\ WBase /\ Base /\ Inv /\ LogInv /\ lastSeen # NoCursor /\ MapPlace /\ JobInv /\ OneGroupInv /\ RowInv /\ PlaceInv
      /\ head \in Nat /\ job \in JobType /\ indexed = trust
  BY QueuedTyped DEF OneInv, OneGroupInv, PlaceInv, CoverInv, WBase, Base, JobInv
<1>2. CASE ChangeAffiliate \/ EmptyBlock
  <2>1. Mine /\ UNCHANGED <<phase, savedCursor, job, map, trust, indexed>>
    BY <1>2, WorldMines DEF ChangeAffiliate, EmptyBlock, appVars, storeVars, worldVars
  <2>2. PICK new \in SUBSET Event :
          /\ head' = head + 1 /\ log' = log \cup new /\ lastSeen' = lastSeen
          /\ \A f \in new : f.cursor.block = head + 1
    BY <1>1, <2>1, Mined
  <2>3. \A e \in log : e.cursor.block \in Nat
    BY <1>1, EventCursors
  <2>4. \A b \in Int : b <= head => Whole(log', b) = Whole(log, b)
    BY <1>1, <2>2, <2>3 DEF Whole
  <2>5. head' = head + 1 /\ UNCHANGED <<lastSeen, phase, job, map, savedCursor, trust, indexed>>
    BY <2>1, <2>2
  <2> QED
    BY <1>1, <2>4, <2>5, OneMined
<1>3. CASE ListenerStep
  <2>1. UNCHANGED <<head, log, phase, job, map, savedCursor, trust, indexed>>
    BY <1>1, <1>3, FirstStays DEF ListenerStep, Live, appVars, storeVars, worldVars
  <2>2. lastSeen' = lastSeen
    BY <1>1, <1>3
    DEF ListenerStep, Live, Connect, HeadFetched, Subscribe, SubscriptionAcknowledged, Disconnect, Receive,
        Flush, CatchUpRequest, CatchUpHead, CatchUpFetched, CatchUpFails, CatchUpFrom, listenerVars, Base
  <2> QED
    BY <1>1, <2>1, <2>2, OneStays DEF OneGroupInv
<1>4. CASE ChangeScore \/ IndexCatchesUp \/ ReconcileTick \/ UNCHANGED workerVars
  <2>1. UNCHANGED <<head, log, lastSeen, phase, job, map, savedCursor, trust, indexed>>
    BY <1>1, <1>4 DEF ChangeScore, IndexCatchesUp, ReconcileTick, workerVars, appVars, vars, chainVars,
                      listenerVars, storeVars, worldVars
  <2> QED
    BY <1>1, <2>1, OneStays DEF OneGroupInv
<1>5. CASE OperationsDone
  <2>1. /\ UNCHANGED <<head, log, lastSeen, phase, map, savedCursor, trust, indexed>>
        /\ job'.kind = job.kind /\ job'.cursor = job.cursor /\ job'.plan = job.plan /\ job.plan = <<>>
    BY <1>1, <1>5 DEF OperationsDone, vars, chainVars, listenerVars, storeVars, worldVars, JobType
  <2> QED
    BY <1>1, <2>1, OneStays
<1>6. CASE Start
  <2>1. /\ UNCHANGED <<head, log, savedCursor, trust, indexed, job>>
        /\ phase' = "backfill" /\ lastSeen' \in {savedCursor, StartCursor} /\ job = NoJob
        /\ job.kind = "none"
    BY <1>1, <1>6 DEF Start, chainVars, storeVars, worldVars, JobInv, NoJob
  <2>2. StartCursor.block = 0 /\ savedCursor.block \in 0 .. head
    BY <1>1, WorkerAssumption DEF CompleteReads, InclusiveBlockCursor, RowInv
  <2>3. RowInv'
    BY <2>1, <2>2 DEF RowInv
  <2> QED
    BY <1>1, <2>1, <2>3, OneIdle
<1>7. CASE Backfill
  <2>1. /\ UNCHANGED <<head, log, lastSeen, savedCursor, trust, indexed, job>>
        /\ phase' = "replay" /\ phase = "backfill" /\ job = NoJob /\ job.kind = "none"
    BY <1>1, <1>7 DEF Backfill, vars, chainVars, listenerVars, worldVars, JobInv, NoJob
  <2>2. RowInv'
    BY <1>1, <2>1 DEF RowInv
  <2> QED
    BY <1>1, <2>1, <2>2, OneIdle
<1>8. CASE SkipReplay
  <2>1. SafeHead < lastSeen.block /\ phase = "replay" /\ job.kind = "none"
    BY <1>8 DEF SkipReplay, CompleteReads, NoJob
  <2>2. map.block \in -1 .. head /\ lastSeen.block <= map.block /\ lastSeen.block \in Int
    BY <1>1, <2>1, QueuedTyped DEF MapPlace, Base, Cursor
  <2>3. SafeHead = head
    BY <1>1, HeadIsSafe
  <2> QED
    BY <1>1, <2>1, <2>2, <2>3
<1>9. CASE Crash
  <2>1. UNCHANGED <<head, log, savedCursor, trust, indexed>> /\ phase' = "down" /\ job' = NoJob
        /\ job'.kind = "none"
    BY <1>9 DEF Crash, Reset, chainVars, storeVars, NoJob
  <2>2. RowInv'
    BY <1>1, <2>1 DEF RowInv
  <2> QED
    BY <1>1, <2>1, <2>2, OneIdle
<1>10. ~TaskFails /\ ~TaskFailsAtOnce
  BY DEF TaskFails, TaskFailsAtOnce, CompleteReads
<1> QED
  BY <1>2, <1>3, <1>4, <1>5, <1>6, <1>7, <1>8, <1>9, <1>10,
     OneAtReplay, OneAtTask, OneAtOperation, OneAtCursor, OneAtSave
  DEF WorkerNext, WorldStep, WorkerStep, SequentialStep

\* Under the same assumptions, and with an index of trust relations that is not
\* behind the chain, nobody is trusted in two groups at a time, whenever the process
\* ends, also between the withdrawal of trust and what is to follow it (logic.ts,
\* executePlannedOperations; main.ts, enqueueExclusive and the order of
\* processEvents, saveCursor and saveAffiliateMap).
THEOREM OneGroupAtATime ==
    CompleteReads /\ ~IndexLags => (WorkerSpec => []TrustedInOneGroup)
<1>1. SUFFICES ASSUME CompleteReads, ~IndexLags PROVE WorkerSpec => []TrustedInOneGroup
  OBVIOUS
<1>2. WorkerInit => OneInv
  <2> SUFFICES ASSUME WorkerInit PROVE OneInv
    OBVIOUS
  <2>1. /\ job = NoJob /\ job.plan = <<>> /\ job.kind = "none" /\ job.stage = "idle" /\ DOMAIN job.plan = {}
        /\ phase = "down" /\ savedCursor.block = 0 /\ head = 0
        /\ trust = [g \in Managed |-> {}] /\ indexed = trust
    BY <1>1, WorkerAssumption DEF WorkerInit, Init, NoJob, CompleteReads, InclusiveBlockCursor
  <2>2. PlanInv /\ UntrustsFirst(job.plan) /\ RowInv
    BY <2>1 DEF PlanInv, UntrustsFirst, RowInv
  <2>3. TrustedInOneGroup /\ WasThere /\ AboutToGo
    BY <2>1 DEF TrustedInOneGroup, WasThere, AboutToGo
  <2> QED
    BY <1>1, <2>1, <2>2, <2>3, PlaceInit DEF OneInv, OneGroupInv
<1>3. OneInv /\ [WorkerNext]_workerVars => OneInv'
  <2> SUFFICES ASSUME OneInv, [WorkerNext]_workerVars PROVE OneInv'
    OBVIOUS
  <2>1. PlaceInv'
    BY <1>1, PlaceInvNext DEF OneInv
  <2>2. FollowInv
    BY DEF OneInv, PlaceInv, CoverInv, FollowInv
  <2> QED
    BY <1>1, <2>1, <2>2, PlanNext, OneNext DEF OneInv
<1>4. OneInv => TrustedInOneGroup
  BY DEF OneInv, OneGroupInv
<1> QED
  BY <1>2, <1>3, <1>4, PTL DEF WorkerSpec
=============================================================================
