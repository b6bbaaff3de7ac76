---------------------------- MODULE WorkersProofs ----------------------------
(***************************************************************************)
(* The smaller workers and gp-crc, for any humans and safes, any bounds    *)
(* and under every failure of the model: oic replays its registry, dublin  *)
(* leaves no registration behind, nobody rightful is untrusted, and gp-crc *)
(* trusts no more avatars than there are safes.                            *)
(***************************************************************************)
EXTENDS Workers, DataLemmas

-----------------------------------------------------------------------------
(* The smaller workers: types, and what the logs are like. *)

Orders == [op : {"trust", "untrust"}, members : SUBSET Humans]

Works == [stage : {"rest", "plan", "read", "score", "backfill", "execute"}, plan : Seq(Orders),
          upTo : Int, allowed : SUBSET Humans, sure : SUBSET Humans, tries : Nat, failed : BOOLEAN]

\* The logs of a chain that is so high: a block has one log at most.
Logbook(events, top) ==
    /\ events \subseteq [block : 0 .. top, human : Humans, joins : BOOLEAN]
    /\ \A e, f \in events : e.block = f.block => e = f

WorldTyped ==
    /\ app \in Apps /\ height \in Nat
    /\ Logbook(logs, height)
    /\ vouched \subseteq Humans /\ scored \subseteq Humans /\ barred \subseteq Humans

MemoryTyped ==
    /\ loadedList = NoList \/ loadedList \subseteq Humans
    /\ scoreCache \in [Humans -> {"none", "above", "below"}]
    /\ affiliates \subseteq Humans /\ initialized \in BOOLEAN
    /\ scanned \in Int /\ savedScan \in Int /\ nextFrom \in Int

LoopTyped ==
    /\ WorldTyped /\ MemoryTyped
    /\ trusted \subseteq Humans
    /\ work \in Works

-----------------------------------------------------------------------------
(* Plans. *)

\* A plan untrusts and trusts those it is made for, and all whom it is to trust.
IsPlan(plan, toUntrust, toTrust) ==
    /\ plan \in Seq(Orders)
    /\ \A i \in DOMAIN plan :
          plan[i].members \subseteq IF plan[i].op = "untrust" THEN toUntrust ELSE toTrust
    /\ \A h \in toTrust : \E i \in DOMAIN plan : h \in plan[i].members

LEMMA PlanFollows ==
    ASSUME NEW toUntrust \in SUBSET Humans, NEW toTrust \in SUBSET Humans
    PROVE  IsPlan(PlanOf(toUntrust, toTrust), toUntrust, toTrust)
<1> DEFINE first == BatchesOf("untrust", toUntrust, GroupBatchSize)
           second == BatchesOf("trust", toTrust, GroupBatchSize)
           plan == PlanOf(toUntrust, toTrust)
<1>1. IsFiniteSet(toUntrust) /\ IsFiniteSet(toTrust) /\ GroupBatchSize \in Nat \ {0}
  BY FS_Subset, TrustLoopAssumption
<1>2. /\ first \in Seq([op : {"untrust"}, members : SUBSET toUntrust])
      /\ second \in Seq([op : {"trust"}, members : SUBSET toTrust])
  BY <1>1, BatchesTyped
<1>3. \A h \in toTrust : \E i \in DOMAIN second : h \in second[i].members
  BY <1>1, BatchesCover
<1>4. plan = first \o second
  BY DEF PlanOf
<1> HIDE DEF first, second, plan
<1>5. /\ first \in Seq(Orders) /\ second \in Seq(Orders)
      /\ \A i \in 1 .. Len(first) : first[i].op = "untrust" /\ first[i].members \subseteq toUntrust
      /\ \A i \in 1 .. Len(second) : second[i].op = "trust" /\ second[i].members \subseteq toTrust
  <2> DEFINE U == [op : {"untrust"}, members : SUBSET toUntrust]
             T == [op : {"trust"}, members : SUBSET toTrust]
  <2>1. U \subseteq Orders /\ T \subseteq Orders
    BY DEF Orders
  <2>2. /\ \A u \in U : u.op = "untrust" /\ u.members \subseteq toUntrust
        /\ \A t \in T : t.op = "trust" /\ t.members \subseteq toTrust
    OBVIOUS
  <2>3. first \in Seq(U) /\ second \in Seq(T)
    BY <1>2
  <2> HIDE DEF U, T
  <2> QED
    BY <2>1, <2>2, <2>3, SequenceWidens
<1>6. /\ plan \in Seq(Orders) /\ Len(plan) = Len(first) + Len(second)
      /\ DOMAIN plan = 1 .. Len(plan) /\ Len(first) \in Nat /\ Len(second) \in Nat
      /\ \A i \in 1 .. Len(plan) : plan[i] = IF i <= Len(first) THEN first[i] ELSE second[i - Len(first)]
  BY <1>4, <1>5
<1>7. ASSUME NEW i \in DOMAIN plan
      PROVE  plan[i].members \subseteq IF plan[i].op = "untrust" THEN toUntrust ELSE toTrust
  <2>1. CASE i <= Len(first)
    <3>1. plan[i] = first[i] /\ i \in 1 .. Len(first)
      BY <1>6, <2>1
    <3> QED
      BY <1>5, <3>1
  <2>2. CASE i > Len(first)
    <3>1. plan[i] = second[i - Len(first)] /\ i - Len(first) \in 1 .. Len(second)
      BY <1>6, <2>2
    <3> QED
      BY <1>5, <3>1
  <2> QED
    BY <1>6, <2>1, <2>2
<1>8. ASSUME NEW h \in toTrust PROVE \E i \in DOMAIN plan : h \in plan[i].members
  <2>1. PICK j \in DOMAIN second : h \in second[j].members
    BY <1>3
  <2>2. j \in 1 .. Len(second)
    BY <1>2, <2>1
  <2>3. j + Len(first) \in DOMAIN plan /\ plan[j + Len(first)] = second[j]
    BY <1>6, <2>2
  <2> QED
    BY <2>1, <2>3
<1> QED
  BY <1>6, <1>7, <1>8 DEF IsPlan, plan

\* A plan that untrusts nobody.
LEMMA TrustOnly ==
    ASSUME NEW who, who \subseteq Humans, NEW plan, plan = PlanOf({}, who)
    PROVE  /\ \A i \in DOMAIN plan : plan[i].op = "untrust" => plan[i].members = {}
           /\ \A h \in who : \E i \in DOMAIN plan : h \in plan[i].members
<1>1. IsPlan(plan, {}, who)
  BY PlanFollows
<1> QED
  BY <1>1 DEF IsPlan

-----------------------------------------------------------------------------
(* Logs. *)

\* LogsOf, JoinedIn and LeftIn for any logs.
EventsIn(events, h, from, to) == {e \in events : e.human = h /\ e.block \in from .. to}
Joined(events, from, to) ==
    {h \in Humans : /\ EventsIn(events, h, from, to) # {}
                    /\ NewestOf(EventsIn(events, h, from, to)).joins}
Left(events, from, to) ==
    {h \in Humans : /\ EventsIn(events, h, from, to) # {}
                    /\ ~NewestOf(EventsIn(events, h, from, to)).joins}

LEMMA JoinedByLogs ==
    ASSUME NEW from, NEW to
    PROVE  JoinedIn(from, to) = Joined(logs, from, to) /\ LeftIn(from, to) = Left(logs, from, to)
  BY DEF JoinedIn, LeftIn, Joined, Left, LogsOf, EventsIn

\* Of some logs there is a newest one.
LEMMA NewestExists ==
    ASSUME NEW L, NEW top \in Nat, Logbook(L, top), NEW events \in SUBSET L, events # {}
    PROVE  /\ NewestOf(events) \in events
           /\ \A f \in events : f.block <= NewestOf(events).block
<1> DEFINE blocks == {e.block : e \in events}
<1>1. \A e \in events : e.block \in 0 .. top
  BY DEF Logbook
<1>2. blocks \subseteq 0 .. top /\ blocks # {}
  BY <1>1
<1> HIDE DEF blocks
<1>3. IsFiniteSet(blocks) /\ blocks \in SUBSET Int
  <2>1. IsFiniteSet(0 .. top)
    BY FS_Interval
  <2>2. IsFiniteSet(blocks)
    BY <1>2, <2>1, FS_Subset
  <2>3. \A n \in blocks : n \in Int
    BY <1>2
  <2> QED
    BY <2>2, <2>3
<1>4. PICK m \in blocks : \A n \in blocks : n <= m
  BY <1>2, <1>3, LargestExists
<1>5. \E e \in events : \A f \in events : f.block <= e.block
  BY <1>4 DEF blocks
<1> QED
  BY <1>5 DEF NewestOf

\* Who has joined, or left, is decided by the log that no other is after.
LEMMA NewestDecides ==
    ASSUME NEW L, NEW top \in Nat, Logbook(L, top), NEW h \in Humans, NEW from \in Int, NEW to \in Int
    PROVE  /\ h \in Joined(L, from, to) <=>
                \E e \in EventsIn(L, h, from, to) :
                    e.joins /\ \A f \in EventsIn(L, h, from, to) : f.block <= e.block
           /\ h \in Left(L, from, to) <=>
                \E e \in EventsIn(L, h, from, to) :
                    ~e.joins /\ \A f \in EventsIn(L, h, from, to) : f.block <= e.block
<1> DEFINE events == EventsIn(L, h, from, to)
           last == NewestOf(events)
<1>1. events \subseteq L /\ \A e \in events : e.block \in Int
  BY DEF EventsIn, Logbook
<1>2. h \in Joined(L, from, to) <=> events # {} /\ last.joins
  BY DEF Joined
<1>3. h \in Left(L, from, to) <=> events # {} /\ ~last.joins
  BY DEF Left
<1> HIDE DEF events, last
<1>4. events # {} => last \in events /\ \A f \in events : f.block <= last.block
  BY <1>1, NewestExists DEF last
<1>5. ASSUME NEW e \in events, \A f \in events : f.block <= e.block PROVE e = last
  <2>1. e.block = last.block
    BY <1>1, <1>4, <1>5
  <2> QED
    BY <1>1, <1>4, <2>1 DEF Logbook
<1> QED
  BY <1>2, <1>3, <1>4, <1>5 DEF events

\* A log of a later block changes nothing about a range.
LEMMA LaterLogOutside ==
    ASSUME NEW L, NEW e, NEW from \in Int, NEW to \in Int, e.block \in Int, e.block > to
    PROVE  /\ Joined(L \cup {e}, from, to) = Joined(L, from, to)
           /\ Left(L \cup {e}, from, to) = Left(L, from, to)
<1>1. \A h : EventsIn(L \cup {e}, h, from, to) = EventsIn(L, h, from, to)
  BY DEF EventsIn
<1> QED
  BY <1>1 DEF Joined, Left

\* A part of a range has some of its logs; the newest of the range decides the part
\* that it is in.
LEMMA PartOfRange ==
    ASSUME NEW L, NEW h, NEW from \in Int, NEW to \in Int, NEW first \in Int, NEW last \in Int,
           from <= first, last <= to, \A e \in L : e.block \in Int
    PROVE  EventsIn(L, h, first, last) \subseteq EventsIn(L, h, from, to)
  BY DEF EventsIn

LEMMA JoinedInPart ==
    ASSUME NEW L, NEW top \in Nat, Logbook(L, top), NEW from \in Int, NEW to \in Int,
           NEW first \in Int, NEW last \in Int, from <= first, last <= to,
           NEW h \in Humans, EventsIn(L, h, from, to) = EventsIn(L, h, first, last)
                             \/ \E e \in EventsIn(L, h, first, last) :
                                   \A f \in EventsIn(L, h, from, to) : f.block <= e.block
    PROVE  /\ h \in Joined(L, from, to) <=> h \in Joined(L, first, last)
           /\ h \in Left(L, from, to) <=> h \in Left(L, first, last)
<1> DEFINE whole == EventsIn(L, h, from, to)
           part == EventsIn(L, h, first, last)
<1>1. part \subseteq whole /\ \A e \in whole : e.block \in Int /\ e \in L
  <2>1. \A e \in L : e.block \in Int
    BY DEF Logbook
  <2> QED
    BY <2>1, PartOfRange DEF EventsIn
<1>2. /\ h \in Joined(L, from, to) <=> \E e \in whole : e.joins /\ \A f \in whole : f.block <= e.block
      /\ h \in Left(L, from, to) <=> \E e \in whole : ~e.joins /\ \A f \in whole : f.block <= e.block
  BY NewestDecides
<1>3. /\ h \in Joined(L, first, last) <=> \E e \in part : e.joins /\ \A f \in part : f.block <= e.block
      /\ h \in Left(L, first, last) <=> \E e \in part : ~e.joins /\ \A f \in part : f.block <= e.block
  BY NewestDecides
<1> HIDE DEF whole, part
<1>4. CASE whole = part
  BY <1>2, <1>3, <1>4
<1>5. ASSUME NEW e \in part, \A f \in whole : f.block <= e.block
      PROVE  /\ \A g \in whole : (\A f \in whole : f.block <= g.block) => g = e
             /\ \A g \in part : (\A f \in part : f.block <= g.block) => g = e
  <2>1. ASSUME NEW g \in whole, e.block <= g.block PROVE g = e
    <3>1. g.block = e.block
      BY <1>1, <1>5, <2>1
    <3> QED
      BY <1>1, <3>1 DEF Logbook
  <2> QED
    BY <1>1, <2>1
<1>6. ASSUME NEW e \in part, \A f \in whole : f.block <= e.block
      PROVE  /\ h \in Joined(L, from, to) <=> e.joins
             /\ h \in Left(L, from, to) <=> ~e.joins
             /\ h \in Joined(L, first, last) <=> e.joins
             /\ h \in Left(L, first, last) <=> ~e.joins
  BY <1>1, <1>2, <1>3, <1>5, <1>6
<1> QED
  BY <1>4, <1>6 DEF whole, part

\* The logs of a human in a range: none from mid on, or the newest is from there.
LEMMA NewestInPart ==
    ASSUME NEW L, NEW top \in Nat, Logbook(L, top), NEW h \in Humans,
           NEW from \in Int, NEW mid \in Int, NEW to \in Int, from <= mid + 1, mid <= to
    PROVE  \/ /\ EventsIn(L, h, mid + 1, to) = {}
              /\ EventsIn(L, h, from, to) = EventsIn(L, h, from, mid)
           \/ \E e \in EventsIn(L, h, mid + 1, to) :
                 \A f \in EventsIn(L, h, from, to) : f.block <= e.block
<1> DEFINE late == EventsIn(L, h, mid + 1, to)
<1>1. \A e \in L : e.block \in Int
  BY DEF Logbook
<1>2. CASE late = {}
  BY <1>1, <1>2 DEF EventsIn
<1>3. CASE late # {}
  <2>1. /\ NewestOf(late) \in late
        /\ \A f \in late : f.block <= NewestOf(late).block
    BY <1>3, NewestExists DEF EventsIn
  <2>2. \A f \in EventsIn(L, h, from, to) : f.block <= NewestOf(late).block
    <3> DEFINE e == NewestOf(late)
    <3>1. e \in late /\ \A f \in late : f.block <= e.block
      BY <2>1
    <3> HIDE DEF e
    <3>2. \A f \in EventsIn(L, h, from, to) : f.block <= e.block
      BY <1>1, <3>1 DEF EventsIn
    <3> QED
      BY <3>2 DEF e
  <2> QED
    BY <2>1, <2>2
<1> QED
  BY <1>2, <1>3

\* A range in two parts: who has joined in it has joined in one of them.
LEMMA JoinedInParts ==
    ASSUME NEW L, NEW top \in Nat, Logbook(L, top), NEW from \in Int, NEW mid \in Int, NEW to \in Int,
           from <= mid + 1, mid <= to
    PROVE  Joined(L, from, to) \subseteq Joined(L, from, mid) \cup Joined(L, mid + 1, to)
<1> SUFFICES ASSUME NEW h \in Joined(L, from, to)
             PROVE  h \in Joined(L, from, mid) \/ h \in Joined(L, mid + 1, to)
  OBVIOUS
<1>1. h \in Humans
  BY DEF Joined
<1>2. CASE EventsIn(L, h, from, to) = EventsIn(L, h, from, mid)
  BY <1>1, <1>2, JoinedInPart
<1>3. CASE \E e \in EventsIn(L, h, mid + 1, to) :
                \A f \in EventsIn(L, h, from, to) : f.block <= e.block
  BY <1>1, <1>3, JoinedInPart
<1> QED
  BY <1>1, <1>2, <1>3, NewestInPart

\* Who has joined by the logs to some block, updated with the logs after an earlier
\* one: a range that is applied again changes nothing.
LEMMA ReplayedAgain ==
    ASSUME NEW L, NEW top \in Nat, Logbook(L, top), NEW from \in Int, NEW done \in Int,
           NEW read \in Int, NEW to \in Int, from <= done + 1, done <= read, read <= to
    PROVE  (Joined(L, from, read) \cup Joined(L, done + 1, to)) \ Left(L, done + 1, to)
              = Joined(L, from, to)
<1> SUFFICES ASSUME NEW h \in Humans
             PROVE  h \in Joined(L, from, to) <=>
                      (h \in Joined(L, from, read) \/ h \in Joined(L, done + 1, to))
                        /\ h \notin Left(L, done + 1, to)
  BY DEF Joined, Left
<1>1. CASE /\ EventsIn(L, h, done + 1, to) = {}
           /\ EventsIn(L, h, from, to) = EventsIn(L, h, from, done)
  <2>1. h \notin Joined(L, done + 1, to) /\ h \notin Left(L, done + 1, to)
    BY <1>1 DEF Joined, Left
  <2>2. EventsIn(L, h, from, to) = EventsIn(L, h, from, read)
    <3>1. \A e \in L : e.block \in Int
      BY DEF Logbook
    <3>2. /\ EventsIn(L, h, from, done) \subseteq EventsIn(L, h, from, read)
          /\ EventsIn(L, h, from, read) \subseteq EventsIn(L, h, from, to)
      BY <3>1, PartOfRange
    <3> QED
      BY <1>1, <3>2
  <2>3. h \in Joined(L, from, to) <=> h \in Joined(L, from, read)
    BY <2>2, JoinedInPart
  <2> QED
    BY <2>1, <2>3
<1>2. CASE \E e \in EventsIn(L, h, done + 1, to) :
                \A f \in EventsIn(L, h, from, to) : f.block <= e.block
  <2>1. h \in Joined(L, from, to) <=> h \in Joined(L, done + 1, to)
    BY <1>2, JoinedInPart
  <2>2. EventsIn(L, h, done + 1, to) # {}
    BY <1>2
  <2>3. h \in Joined(L, done + 1, to) <=> h \notin Left(L, done + 1, to)
    BY <2>2 DEF Joined, Left
  <2> QED
    BY <2>1, <2>3
<1>3. done <= to
  OBVIOUS
<1> QED
  BY <1>1, <1>2, <1>3, NewestInPart

-----------------------------------------------------------------------------
(* Types. *)

LEMMA RestTyped == Rest \in Works
  BY DEF Rest, Works, None

LEMMA BatchTyped ==
    ASSUME LoopTyped, Executing
    PROVE  /\ Batch \in Orders /\ Tail(work.plan) \in Seq(Orders)
           /\ DOMAIN work.plan = 1 .. Len(work.plan) /\ Len(work.plan) \in Nat \ {0}
           /\ DOMAIN Tail(work.plan) = 1 .. Len(work.plan) - 1
           /\ Batch = work.plan[1]
           /\ \A i \in 1 .. Len(work.plan) - 1 : Tail(work.plan)[i] = work.plan[i + 1]
<1>1. work.plan \in Seq(Orders) /\ work.plan # <<>>
  BY DEF LoopTyped, Works, Executing
<1> QED
  BY <1>1 DEF Batch

LEMMA CarriedTyped ==
    ASSUME LoopTyped, Executing, Carried
    PROVE  trusted' \subseteq Humans
  BY BatchTyped DEF Carried, LoopTyped, Orders

LEMMA JoinedAreHumans ==
    ASSUME NEW from, NEW to
    PROVE  JoinedIn(from, to) \subseteq Humans /\ LeftIn(from, to) \subseteq Humans
  BY DEF JoinedIn, LeftIn

LEMMA Bounds ==
    /\ FirstBlock \in Nat /\ Confirmations \in Nat /\ IsFiniteSet(Humans)
    /\ AlwaysTrusted \subseteq Humans
  BY TrustLoopAssumption

LEMMA LoopTypedInit == WorkersInit => LoopTyped
<1> SUFFICES ASSUME WorkersInit PROVE LoopTyped
  OBVIOUS
<1>1. TrustLoopInit /\ OicInit /\ DublinInit /\ GnosisInit
  BY DEF WorkersInit
<1>2. Logbook(logs, height)
  <2>1. height = 0 /\ \A e \in logs : e \in [block : {0}, human : Humans, joins : BOOLEAN]
    <3>1. ASSUME NEW h \in Humans, logs = {[block |-> 0, human |-> h, joins |-> TRUE]}
          PROVE  \A e \in logs : e \in [block : {0}, human : Humans, joins : BOOLEAN]
      <4> DEFINE joins == TRUE
                 first == [block |-> 0, human |-> h, joins |-> joins]
      <4>1. joins \in BOOLEAN /\ logs = {first}
        BY <3>1
      <4> HIDE DEF joins
      <4>2. first \in [block : {0}, human : Humans, joins : BOOLEAN]
        BY <4>1
      <4> QED
        BY <4>1, <4>2
    <3> QED
      BY <1>1, <3>1 DEF TrustLoopInit
  <2>2. \A e, f \in logs : e = f
    BY <1>1 DEF TrustLoopInit
  <2>3. {0} = 0 .. 0
    OBVIOUS
  <2> QED
    BY <2>1, <2>2, <2>3 DEF Logbook
<1>3. loadedList = NoList /\ scoreCache \in [Humans -> {"none", "above", "below"}]
  BY <1>1 DEF GnosisInit, NoScores
<1>4. /\ affiliates \subseteq Humans /\ initialized \in BOOLEAN
      /\ scanned \in Int /\ savedScan \in Int /\ nextFrom \in Int
  <2>1. initialized \in BOOLEAN
    BY <1>1 DEF OicInit
  <2>2. scanned \in Int
    BY <1>1, Bounds DEF OicInit
  <2>3. affiliates \subseteq Humans /\ savedScan \in Int /\ nextFrom \in Int
    BY <1>1, Bounds DEF OicInit, DublinInit
  <2> QED
    BY <2>1, <2>2, <2>3
<1>5. /\ app \in Apps /\ height \in Nat /\ work \in Works
      /\ vouched \subseteq Humans /\ scored \subseteq Humans /\ barred \subseteq Humans
      /\ trusted \subseteq Humans
  BY <1>1, RestTyped DEF TrustLoopInit
<1> QED
  BY <1>1, <1>2, <1>3, <1>4, <1>5 DEF LoopTyped, WorldTyped, MemoryTyped

\* The logs stay a logbook when a block is mined.
LEMMA LogbookGrows ==
    ASSUME LoopTyped, NewBlock
    PROVE  /\ height' = height + 1
           /\ Logbook(logs, height')
           /\ Logbook(logs', height')
           /\ logs' = logs \/ \E e : logs' = logs \cup {e} /\ e.block = height + 1
<1>1. height' = height + 1 /\ height \in Nat
  BY DEF NewBlock, LoopTyped, WorldTyped
<1>2. Logbook(logs, height')
  BY <1>1 DEF LoopTyped, WorldTyped, Logbook
<1>3. CASE UNCHANGED logs
  BY <1>1, <1>2, <1>3
<1>4. ASSUME NEW e \in [block : {height'}, human : Humans, joins : BOOLEAN], logs' = logs \cup {e}
      PROVE  Logbook(logs', height')
  <2>1. e \in [block : 0 .. height', human : Humans, joins : BOOLEAN] /\ e.block = height + 1
    BY <1>1
  <2>2. \A f \in logs : f.block \in Int /\ f.block <= height
    BY DEF LoopTyped, WorldTyped, Logbook
  <2> QED
    BY <1>1, <1>2, <1>4, <2>1, <2>2 DEF Logbook
<1>5. UNCHANGED logs \/ \E e \in [block : {height'}, human : Humans, joins : BOOLEAN] : logs' = logs \cup {e}
  <2>1. CASE \E h \in Humans :
               logs' = logs \cup {[block |-> height', human |-> h, joins |-> h \notin JoinedIn(0, height)]}
    <3>1. PICK h \in Humans :
               logs' = logs \cup {[block |-> height', human |-> h, joins |-> h \notin JoinedIn(0, height)]}
      BY <2>1
    <3> DEFINE joins == h \notin JoinedIn(0, height)
    <3>2. joins \in BOOLEAN /\ logs' = logs \cup {[block |-> height', human |-> h, joins |-> joins]}
      BY <3>1
    <3> HIDE DEF joins
    <3> QED
      BY <3>2
  <2> QED
    BY <2>1 DEF NewBlock
<1> QED
  BY <1>1, <1>2, <1>3, <1>4, <1>5

LEMMA MemoryStays == MemoryTyped /\ UNCHANGED memories => MemoryTyped'
  BY DEF MemoryTyped, memories, oicVars, gnosisVars

LEMMA MemoryForgotten == MemoryTyped /\ ForgetAll => MemoryTyped'
<1> SUFFICES ASSUME MemoryTyped, ForgetAll PROVE MemoryTyped'
  OBVIOUS
<1>1. loadedList' = NoList /\ scoreCache' \in [Humans -> {"none", "above", "below"}]
  BY DEF ForgetAll, GnosisForget, NoScores
<1>2. initialized' \in BOOLEAN
  BY DEF ForgetAll, OicForget
<1>3. affiliates' \subseteq Humans /\ scanned' \in Int /\ savedScan' \in Int /\ nextFrom' \in Int
  BY Bounds DEF MemoryTyped, ForgetAll, OicForget, DublinForget
<1> QED
  BY <1>1, <1>2, <1>3 DEF MemoryTyped

LEMMA SafeHeightTyped == WorldTyped => SafeHeight \in Nat /\ SafeHeight <= height
  BY Bounds DEF WorldTyped, SafeHeight

LEMMA WorldStays == WorldTyped /\ UNCHANGED factVars => WorldTyped'
  BY DEF WorldTyped, Logbook, factVars

\* The actions of the workers, one lemma each for those that touch several parts.
LEMMA OicTyped ==
    ASSUME LoopTyped, OicStep, UNCHANGED <<nextFrom, approved, gnosisVars, backfilled>>
    PROVE  LoopTyped'
<1> USE DEF LoopTyped, factVars, gnosisVars, oicVars
<1>1. CASE OicScan
  <2>1. work' \in Works
    <3> DEFINE until == IF ScanFrom <= SafeHeight THEN SafeHeight ELSE None
    <3>1. until \in Int
      BY SafeHeightTyped DEF None
    <3>2. work' = [work EXCEPT !.stage = "plan", !.upTo = until]
      BY <1>1 DEF OicScan
    <3> HIDE DEF until
    <3> QED
      BY <3>1, <3>2 DEF Works
  <2>2. affiliates' \subseteq Humans
    BY <1>1, JoinedAreHumans DEF OicScan, MemoryTyped
  <2>3. WorldTyped' /\ trusted' = trusted
    BY <1>1, WorldStays DEF OicScan
  <2>4. MemoryTyped'
    BY <1>1, <2>2 DEF OicScan, MemoryTyped
  <2> QED
    BY <2>1, <2>3, <2>4
<1>2. CASE OicPlan
  <2>1. trusted \ Desired \subseteq Humans /\ Desired \ trusted \subseteq Humans
    BY Bounds DEF Desired, WorldTyped, MemoryTyped
  <2>2. PlanOf(trusted \ Desired, Desired \ trusted) \in Seq(Orders)
    BY <2>1, PlanFollows DEF IsPlan
  <2>3. work' \in Works
    BY <1>2, <2>2 DEF OicPlan, Works
  <2>4. WorldTyped' /\ trusted' = trusted
    BY <1>2, WorldStays DEF OicPlan
  <2>5. MemoryTyped'
    BY <1>2 DEF OicPlan, MemoryTyped
  <2> QED
    BY <2>3, <2>4, <2>5
<1>3. CASE OicDone
  <2>1. work' \in Works
    BY <1>3, RestTyped DEF OicDone, RunSucceeds
  <2>2. WorldTyped' /\ trusted' = trusted
    BY <1>3, WorldStays DEF OicDone
  <2>3. scanned' \in Int /\ savedScan' \in Int
    BY <1>3 DEF OicDone, MemoryTyped, Works
  <2>4. initialized' \in BOOLEAN
    BY <1>3 DEF OicDone, MemoryTyped
  <2>5. MemoryTyped'
    BY <1>3, <2>3, <2>4 DEF OicDone, MemoryTyped
  <2> QED
    BY <2>1, <2>2, <2>5
<1> QED
  BY <1>1, <1>2, <1>3 DEF OicStep

LEMMA DublinTyped ==
    ASSUME LoopTyped, DublinStep, UNCHANGED <<oicVars, approved, gnosisVars, backfilled>>
    PROVE  LoopTyped'
<1> USE DEF LoopTyped, factVars, gnosisVars, oicVars
<1>1. CASE DublinScan
  <2>1. JoinedIn(nextFrom, SafeHeight) \ trusted \subseteq Humans
    BY JoinedAreHumans
  <2>2. PlanOf({}, JoinedIn(nextFrom, SafeHeight) \ trusted) \in Seq(Orders)
    BY <2>1, PlanFollows DEF IsPlan
  <2>3. work' \in Works
    <3> DEFINE plan == PlanOf({}, JoinedIn(nextFrom, SafeHeight) \ trusted)
    <3>1. SafeHeight \in Int /\ plan \in Seq(Orders)
      BY <2>2, SafeHeightTyped
    <3>2. work' = [work EXCEPT !.stage = "execute", !.upTo = SafeHeight, !.plan = plan]
      BY <1>1 DEF DublinScan
    <3> HIDE DEF plan
    <3> QED
      BY <3>1, <3>2 DEF Works
  <2>4. WorldTyped' /\ trusted' = trusted
    BY <1>1, WorldStays DEF DublinScan
  <2>5. MemoryTyped'
    BY <1>1 DEF DublinScan, MemoryTyped
  <2> QED
    BY <2>3, <2>4, <2>5
<1>2. CASE DublinNothingNew
  <2>1. WorldTyped' /\ trusted' = trusted
    BY <1>2, WorldStays DEF DublinNothingNew
  <2>2. MemoryTyped'
    BY <1>2 DEF DublinNothingNew, MemoryTyped
  <2> QED
    BY <1>2, <2>1, <2>2, RestTyped DEF DublinNothingNew, RunSucceeds
<1>3. CASE DublinDone
  <2>1. WorldTyped' /\ trusted' = trusted
    BY <1>3, WorldStays DEF DublinDone
  <2>2. nextFrom' \in Int
    BY <1>3 DEF DublinDone, Works
  <2>3. MemoryTyped'
    BY <1>3, <2>2 DEF DublinDone, MemoryTyped
  <2> QED
    BY <1>3, <2>1, <2>3, RestTyped DEF DublinDone, RunSucceeds
<1> QED
  BY <1>1, <1>2, <1>3 DEF DublinStep

\* A batch sent, or reported as failed.
LEMMA BatchSucceedsTyped ==
    ASSUME LoopTyped, BatchSucceeds
    PROVE  work' \in Works /\ trusted' \subseteq Humans
<1>1. Executing /\ Carried
  BY DEF BatchSucceeds
<1>2. Tail(work.plan) \in Seq(Orders) /\ trusted' \subseteq Humans
  BY <1>1, BatchTyped, CarriedTyped
<1>3. work' = [work EXCEPT !.plan = Tail(@), !.tries = 0]
  BY DEF BatchSucceeds
<1> QED
  BY <1>2, <1>3 DEF LoopTyped, Works

LEMMA BatchTroubleTyped ==
    ASSUME LoopTyped, BatchTrouble
    PROVE  trusted' \subseteq Humans
<1>1. Executing
  BY DEF BatchTrouble
<1>2. CASE UNCHANGED trusted
  BY <1>2 DEF LoopTyped
<1>3. CASE Carried
  BY <1>1, <1>3, CarriedTyped
<1> QED
  BY <1>2, <1>3 DEF BatchTrouble

LEMMA Router2Typed ==
    ASSUME LoopTyped, Router2Step, UNCHANGED <<oicVars, nextFrom, gnosisVars, backfilled>>
    PROVE  LoopTyped'
<1>1. WorldTyped'
  BY WorldStays DEF LoopTyped, Router2Step, Router2Plan, Router2Batch, Router2Done
<1>2. MemoryTyped'
  BY DEF LoopTyped, MemoryTyped, oicVars, gnosisVars
<1>3. CASE Router2Plan
  <2>1. Router2Wanted \ approved \subseteq Humans
    BY JoinedAreHumans DEF Router2Wanted, LoopTyped, WorldTyped
  <2>2. PlanOf({}, Router2Wanted \ approved) \in Seq(Orders)
    BY <2>1, PlanFollows DEF IsPlan
  <2>3. work' \in Works
    BY <1>3, <2>2 DEF Router2Plan, Works, LoopTyped
  <2> QED
    BY <1>1, <1>2, <1>3, <2>3 DEF Router2Plan, LoopTyped
<1>4. CASE Router2Batch
  BY <1>1, <1>2, <1>4, BatchSucceedsTyped DEF Router2Batch, LoopTyped
<1>5. CASE Router2Done
  BY <1>1, <1>2, <1>5, RestTyped DEF Router2Done, RunSucceeds, LoopTyped
<1> QED
  BY <1>3, <1>4, <1>5 DEF Router2Step

LEMMA FetchedTyped ==
    ASSUME MemoryTyped, NEW asked
    PROVE  Fetched(asked) \in [Humans -> {"none", "above", "below"}]
  BY DEF MemoryTyped, Fetched

LEMMA GnosisForgetTyped ==
    ASSUME MemoryTyped, GnosisForget, UNCHANGED <<oicVars, nextFrom>>
    PROVE  MemoryTyped'
<1>1. loadedList' = NoList /\ scoreCache' \in [Humans -> {"none", "above", "below"}]
  BY DEF GnosisForget, NoScores
<1> QED
  BY <1>1 DEF MemoryTyped, oicVars

LEMMA RunErrorTyped ==
    ASSUME MemoryTyped, RunError(GnosisForget, UNCHANGED gnosisVars), UNCHANGED <<oicVars, nextFrom>>
    PROVE  MemoryTyped' /\ work' = Rest
<1>1. CASE GnosisForget
  BY <1>1, GnosisForgetTyped DEF RunError, ProcessEnds
<1>2. CASE UNCHANGED gnosisVars
  BY <1>2 DEF RunError, ProcessEnds, MemoryTyped, gnosisVars, oicVars
<1> QED
  BY <1>1, <1>2 DEF RunError, ProcessEnds

LEMMA GnosisTyped ==
    ASSUME LoopTyped, GnosisStep, UNCHANGED <<oicVars, nextFrom, approved, backfilled>>
    PROVE  LoopTyped'
<1>1. WorldTyped'
  BY WorldStays
  DEF LoopTyped, GnosisStep, GnosisLoad, GnosisRead, GnosisNoBackers, GnosisScore,
      GnosisBatchTrouble, GnosisDone
<1> USE DEF LoopTyped
<1>2. CASE GnosisLoad
  <2>1. loadedList' = NoList \/ loadedList' \subseteq Humans
    BY <1>2 DEF GnosisLoad, WorldTyped, MemoryTyped
  <2>2. MemoryTyped'
    BY <1>2, <2>1 DEF GnosisLoad, MemoryTyped, oicVars
  <2>3. work' \in Works
    BY <1>2 DEF GnosisLoad, Works
  <2> QED
    BY <1>1, <1>2, <2>2, <2>3 DEF GnosisLoad
<1>3. CASE GnosisRead
  <2> DEFINE allowed == JoinedIn(0, height) \ loadedList
             sure == (vouched \cup AlwaysTrusted) \ loadedList
  <2>1. allowed \subseteq Humans /\ sure \subseteq Humans
    BY JoinedAreHumans, Bounds DEF WorldTyped
  <2>2. work' = [work EXCEPT !.stage = "score", !.allowed = allowed, !.sure = sure]
    BY <1>3 DEF GnosisRead
  <2> HIDE DEF allowed, sure
  <2>3. work' \in Works
    BY <2>1, <2>2 DEF Works
  <2>4. MemoryTyped'
    BY <1>3 DEF GnosisRead, MemoryTyped, gnosisVars, oicVars
  <2> QED
    BY <1>1, <1>3, <2>3, <2>4 DEF GnosisRead
<1>4. CASE GnosisNoBackers
  BY <1>1, <1>4, RunErrorTyped, RestTyped DEF GnosisNoBackers
<1>5. CASE GnosisScore
  <2>1. scoreCache' \in [Humans -> {"none", "above", "below"}]
    BY <1>5, FetchedTyped DEF GnosisScore
  <2>2. MemoryTyped'
    BY <1>5, <2>1 DEF GnosisScore, MemoryTyped, oicVars
  <2> DEFINE plan == PlanOf(trusted \ Satisfied(scoreCache'), Satisfied(scoreCache') \ trusted)
  <2>3. Satisfied(scoreCache') \subseteq Humans
    BY DEF Satisfied, Works
  <2>4. plan \in Seq(Orders)
    BY <2>3, PlanFollows DEF IsPlan
  <2>5. work' = [work EXCEPT !.stage = "execute", !.tries = 0, !.plan = plan]
    BY <1>5 DEF GnosisScore
  <2> HIDE DEF plan
  <2>6. work' \in Works
    BY <2>4, <2>5 DEF Works
  <2> QED
    BY <1>1, <1>5, <2>2, <2>6 DEF GnosisScore
<1>6. CASE GnosisBatchTrouble
  <2>1. Tail(work.plan) \in Seq(Orders)
    BY <1>6, BatchTyped DEF GnosisBatchTrouble, BatchTrouble
  <2>2. ASSUME work' = [work EXCEPT !.tries = @ + 1] PROVE work' \in Works
    BY <2>2 DEF Works
  <2>3. ASSUME work' = [work EXCEPT !.plan = Tail(@), !.tries = 0, !.failed = TRUE] PROVE work' \in Works
    <3> DEFINE yes == TRUE
    <3>1. yes \in BOOLEAN /\ work' = [work EXCEPT !.plan = Tail(@), !.tries = 0, !.failed = yes]
      BY <2>3
    <3> HIDE DEF yes
    <3> QED
      BY <2>1, <3>1 DEF Works
  <2>4. work' \in Works
    BY <1>6, <2>2, <2>3 DEF GnosisBatchTrouble
  <2>5. MemoryTyped'
    BY <1>6 DEF GnosisBatchTrouble, MemoryTyped, gnosisVars, oicVars
  <2>6. trusted' \subseteq Humans
    BY <1>6, BatchTroubleTyped DEF GnosisBatchTrouble
  <2> QED
    BY <1>1, <2>4, <2>5, <2>6
<1>7. CASE GnosisDone
  <2>1. MemoryTyped' /\ work' = Rest
    <3>1. CASE RunError(GnosisForget, UNCHANGED gnosisVars)
      BY <3>1, RunErrorTyped
    <3>2. CASE RunSucceeds /\ UNCHANGED gnosisVars
      BY <3>2 DEF RunSucceeds, MemoryTyped, gnosisVars, oicVars
    <3> QED
      BY <1>7, <3>1, <3>2 DEF GnosisDone
  <2> QED
    BY <1>1, <1>7, <2>1, RestTyped DEF GnosisDone
<1> QED
  BY <1>2, <1>3, <1>4, <1>5, <1>6, <1>7 DEF GnosisStep

LEMMA NewGnosisTyped ==
    ASSUME LoopTyped, NewGnosisStep, UNCHANGED <<oicVars, nextFrom, approved, gnosisVars>>
    PROVE  LoopTyped'
<1>1. /\ WorldTyped' /\ trusted' = trusted
  BY WorldStays
  DEF LoopTyped, NewGnosisStep, NewGnosisLoad, NewGnosisBackfill, NewGnosisBackfilled,
      NewGnosisIncremental, NewGnosisDone
<1>2. MemoryTyped'
  BY DEF LoopTyped, MemoryTyped, oicVars, gnosisVars
<1>3. ASSUME NEW whom \in SUBSET Humans, work' = [work EXCEPT !.stage = "execute", !.plan = PlanOf({}, whom)]
      PROVE  work' \in Works
  BY <1>3, PlanFollows DEF IsPlan, LoopTyped, Works
<1>4. CASE NewGnosisLoad
  <2>1. UsersBefore \ barred \subseteq Humans
    BY JoinedAreHumans DEF UsersBefore
  <2>2. work' \in Works
    BY <1>4, <2>1 DEF NewGnosisLoad, LoopTyped, Works
  <2> QED
    BY <1>1, <1>2, <2>2 DEF LoopTyped
<1>5. CASE NewGnosisBackfill
  <2>1. (work.allowed \cap scored) \ (trusted \cup untrustable) \subseteq Humans
    BY DEF LoopTyped, WorldTyped
  <2>2. work' \in Works
    BY <1>3, <1>5, <2>1 DEF NewGnosisBackfill
  <2> QED
    BY <1>1, <1>2, <2>2 DEF LoopTyped
<1>6. CASE NewGnosisBackfilled \/ NewGnosisDone
  BY <1>1, <1>2, <1>6, RestTyped DEF NewGnosisBackfilled, NewGnosisDone, RunSucceeds, LoopTyped
<1>7. CASE NewGnosisIncremental
  <2>1. UsersSince \ (trusted \cup untrustable) \subseteq Humans
    BY JoinedAreHumans DEF UsersSince
  <2>2. work' \in Works
    BY <1>3, <1>7, <2>1 DEF NewGnosisIncremental
  <2> QED
    BY <1>1, <1>2, <2>2 DEF LoopTyped
<1> QED
  BY <1>4, <1>5, <1>6, <1>7 DEF NewGnosisStep

\* What the worker's own loop does not do: trouble, and the world.
LEMMA ForgottenOrKept ==
    ASSUME MemoryTyped, RunError(ForgetAll, UNCHANGED memories)
    PROVE  MemoryTyped' /\ work' = Rest
<1>1. CASE ForgetAll
  BY <1>1, MemoryForgotten DEF RunError, ProcessEnds
<1>2. CASE UNCHANGED memories
  BY <1>2, MemoryStays DEF RunError, ProcessEnds
<1> QED
  BY <1>1, <1>2 DEF RunError, ProcessEnds

LEMMA TroubleTyped ==
    ASSUME LoopTyped, \/ BatchFails \/ ReadFails \/ ProcessCrashes \/ ScoreFails
                      \/ \E h \in Humans : Expires(h)
    PROVE  LoopTyped'
<1> USE DEF LoopTyped
<1>1. WorldTyped'
  BY WorldStays
  DEF BatchFails, ReadFails, ProcessCrashes, ScoreFails, GnosisScoreFails, Expires, Expire
<1>2. CASE BatchFails
  BY <1>1, <1>2, ForgottenOrKept, BatchTroubleTyped, RestTyped DEF BatchFails
<1>3. CASE ReadFails
  BY <1>1, <1>3, ForgottenOrKept, RestTyped DEF ReadFails
<1>4. CASE ProcessCrashes
  BY <1>1, <1>4, MemoryForgotten, RestTyped DEF ProcessCrashes, ProcessEnds
<1>5. CASE ScoreFails
  <2>1. PICK asked : RunError(GnosisForget, scoreCache' = Fetched(asked) /\ UNCHANGED loadedList)
    BY <1>5 DEF ScoreFails, GnosisScoreFails
  <2>2. UNCHANGED <<oicVars, nextFrom, trusted>>
    BY <1>5 DEF ScoreFails, GnosisScoreFails
  <2>3. work' = Rest
    BY <2>1 DEF RunError, ProcessEnds
  <2>4. ASSUME GnosisForget PROVE MemoryTyped'
    BY <2>2, <2>4, GnosisForgetTyped
  <2>5. ASSUME scoreCache' = Fetched(asked) /\ UNCHANGED loadedList PROVE MemoryTyped'
    BY <2>2, <2>5, FetchedTyped DEF MemoryTyped, oicVars
  <2>6. MemoryTyped'
    BY <2>1, <2>4, <2>5 DEF RunError, ProcessEnds
  <2> QED
    BY <1>1, <2>2, <2>3, <2>6, RestTyped
<1>6. CASE \E h \in Humans : Expires(h)
  <2>1. PICK h \in Humans : Expires(h)
    BY <1>6
  <2>2. MemoryTyped'
    BY <2>1 DEF Expires, Expire, MemoryTyped, oicVars
  <2> QED
    BY <1>1, <2>1, <2>2 DEF Expires, Expire
<1> QED
  BY <1>2, <1>3, <1>4, <1>5, <1>6

LEMMA WorldChangesTyped == LoopTyped /\ WorldChanges => LoopTyped'
<1> SUFFICES ASSUME LoopTyped, WorldChanges PROVE LoopTyped'
  OBVIOUS
<1>1. MemoryTyped' /\ trusted' \subseteq Humans /\ work' \in Works
  BY MemoryStays DEF LoopTyped, WorldChanges
<1>2. CASE NewBlock
  <2>1. WorldTyped'
    BY <1>2, LogbookGrows DEF LoopTyped, WorldTyped, NewBlock
  <2> QED
    BY <1>1, <2>1 DEF LoopTyped
<1>3. CASE FactChanges
  <2>1. /\ vouched' \subseteq Humans /\ scored' \subseteq Humans /\ barred' \subseteq Humans
        /\ app' = app /\ height' = height /\ logs' = logs
    BY <1>3 DEF FactChanges, Toggle, LoopTyped, WorldTyped
  <2>2. WorldTyped'
    BY <2>1 DEF LoopTyped, WorldTyped, Logbook
  <2> QED
    BY <1>1, <2>2 DEF LoopTyped
<1> QED
  BY <1>2, <1>3 DEF WorldChanges

LEMMA LoopTypedNext == LoopTyped /\ [SmallNext \/ GpCrcNext]_workersVars => LoopTyped'
<1> SUFFICES ASSUME LoopTyped, [SmallNext \/ GpCrcNext]_workersVars PROVE LoopTyped'
  OBVIOUS
<1>1. ASSUME UNCHANGED smallVars PROVE LoopTyped'
  BY <1>1, WorldStays, MemoryStays DEF LoopTyped, smallVars, loopVars
<1>2. CASE GpCrcNext \/ UNCHANGED workersVars
  BY <1>1, <1>2 DEF GpCrcNext, workersVars
<1>3. CASE PlainBatch
  BY <1>3, BatchSucceedsTyped, WorldStays, MemoryStays DEF PlainBatch, LoopTyped
<1>4. CASE SmallNext
  BY <1>3, <1>4, OicTyped, DublinTyped, Router2Typed, GnosisTyped, NewGnosisTyped, TroubleTyped,
     WorldChangesTyped
  DEF SmallNext, WorkerStep
<1> QED
  BY <1>2, <1>4

-----------------------------------------------------------------------------
(* The chain under a worker's feet. *)

LEMMA SameApp ==
    ASSUME LoopTyped, [SmallNext \/ GpCrcNext]_workersVars
    PROVE  app' = app
<1>1. CASE GpCrcNext \/ UNCHANGED workersVars
  BY <1>1 DEF GpCrcNext, workersVars, smallVars, loopVars, factVars
<1>2. CASE WorldChanges \/ (\E h \in Humans : Expires(h)) \/ ScoreFails
  BY <1>2 DEF WorldChanges, NewBlock, FactChanges, Expires, Expire, ScoreFails, GnosisScoreFails, factVars
<1>3. CASE ReadFails \/ ProcessCrashes \/ BatchFails \/ PlainBatch
  BY <1>3 DEF ReadFails, ProcessCrashes, BatchFails, PlainBatch, factVars
<1>4. CASE OicStep \/ DublinStep \/ Router2Step
  BY <1>4
  DEF OicStep, OicScan, OicPlan, OicDone, DublinStep, DublinScan, DublinNothingNew, DublinDone,
      Router2Step, Router2Plan, Router2Batch, Router2Done, factVars
<1>5. CASE GnosisStep \/ NewGnosisStep
  BY <1>5
  DEF GnosisStep, GnosisLoad, GnosisRead, GnosisNoBackers, GnosisScore, GnosisBatchTrouble, GnosisDone,
      NewGnosisStep, NewGnosisLoad, NewGnosisBackfill, NewGnosisBackfilled, NewGnosisIncremental,
      NewGnosisDone, factVars
<1> QED
  BY <1>1, <1>2, <1>3, <1>4, <1>5 DEF SmallNext, WorkerStep

\* Blocks that are safe stay safe, and say of the past what they said.
LEMMA PastStays ==
    ASSUME LoopTyped, WorldChanges
    PROVE  /\ SafeHeight \in Nat /\ SafeHeight' \in Nat /\ SafeHeight <= SafeHeight'
           /\ \A from, to \in Int : to <= SafeHeight =>
                 /\ Joined(logs', from, to) = Joined(logs, from, to)
                 /\ Left(logs', from, to) = Left(logs, from, to)
<1>1. SafeHeight \in Nat /\ SafeHeight <= height /\ height \in Nat /\ Confirmations \in Nat
  BY SafeHeightTyped, Bounds DEF LoopTyped, WorldTyped
<1>2. CASE NewBlock
  <2>1. height' = height + 1 /\ (logs' = logs \/ \E e : logs' = logs \cup {e} /\ e.block = height + 1)
    BY <1>2, LogbookGrows
  <2>2. SafeHeight' \in Nat /\ SafeHeight <= SafeHeight'
    BY <1>1, <2>1 DEF SafeHeight
  <2>3. ASSUME NEW from \in Int, NEW to \in Int, to <= SafeHeight
        PROVE  /\ Joined(logs', from, to) = Joined(logs, from, to)
               /\ Left(logs', from, to) = Left(logs, from, to)
    <3>1. CASE logs' = logs
      BY <3>1
    <3>2. ASSUME NEW e, logs' = logs \cup {e}, e.block = height + 1
          PROVE  /\ Joined(logs', from, to) = Joined(logs, from, to)
                 /\ Left(logs', from, to) = Left(logs, from, to)
      <4>1. e.block \in Int /\ e.block > to
        BY <1>1, <2>3, <3>2
      <4> QED
        BY <3>2, <4>1, LaterLogOutside
    <3> QED
      BY <2>1, <3>1, <3>2
  <2> QED
    BY <1>1, <2>2, <2>3
<1>3. CASE FactChanges
  BY <1>1, <1>3 DEF FactChanges, SafeHeight
<1> QED
  BY <1>2, <1>3 DEF WorldChanges

-----------------------------------------------------------------------------
(* dublin-tms: up to the cursor everybody is trusted, and a run that is    *)
(* under way still has, or has trusted, all of its range.                  *)

DublinInv ==
    app = "dublin-tms" =>
        /\ nextFrom = FirstBlock \/ nextFrom \in FirstBlock .. SafeHeight + 1
        /\ Joined(logs, FirstBlock, nextFrom - 1) \subseteq trusted
        /\ work.stage \in {"rest", "execute"}
        /\ work.stage = "execute" =>
              /\ work.upTo \in nextFrom .. SafeHeight
              /\ \A i \in DOMAIN work.plan : work.plan[i].op = "untrust" => work.plan[i].members = {}
              /\ \A h \in Joined(logs, nextFrom, work.upTo) :
                    h \in trusted \/ \E i \in DOMAIN work.plan : h \in work.plan[i].members

\* Before the cursor's first range there is nobody.
LEMMA NobodyBefore ==
    ASSUME NEW L, NEW from \in Int, NEW to \in Int, to < from
    PROVE  Joined(L, from, to) = {} /\ Left(L, from, to) = {}
<1>1. \A h : EventsIn(L, h, from, to) = {}
  BY DEF EventsIn
<1> QED
  BY <1>1 DEF Joined, Left

LEMMA DublinInit0 == WorkersInit => DublinInv
<1> SUFFICES ASSUME WorkersInit PROVE DublinInv
  OBVIOUS
<1>1. nextFrom = FirstBlock /\ work.stage = "rest"
  BY DEF WorkersInit, DublinInit, TrustLoopInit, Rest
<1>2. Joined(logs, FirstBlock, nextFrom - 1) = {}
  BY <1>1, Bounds, NobodyBefore
<1> QED
  BY <1>1, <1>2 DEF DublinInv

\* The process starts again, or a run ends in an error: the cursor is where it was,
\* or at the first block.
LEMMA DublinStartsAgain ==
    ASSUME LoopTyped, DublinInv, UNCHANGED <<app, height, logs>>, trusted \subseteq trusted',
           work' = Rest, nextFrom' = nextFrom \/ nextFrom' = FirstBlock
    PROVE  DublinInv'
<1>1. work'.stage = "rest" /\ SafeHeight' = SafeHeight
  BY DEF Rest, SafeHeight
<1>2. Joined(logs, FirstBlock, FirstBlock - 1) = {}
  BY Bounds, NobodyBefore
<1> QED
  BY <1>1, <1>2 DEF DublinInv

LEMMA DublinNext == LoopTyped /\ DublinInv /\ [SmallNext \/ GpCrcNext]_workersVars => DublinInv'
<1> SUFFICES ASSUME LoopTyped, DublinInv, [SmallNext \/ GpCrcNext]_workersVars, app = "dublin-tms"
             PROVE  DublinInv'
  BY SameApp DEF DublinInv
<1> USE DEF factVars, memories
<1>1. CASE GpCrcNext \/ UNCHANGED workersVars
  <2>1. UNCHANGED <<app, height, logs, trusted, work, nextFrom>>
    BY <1>1 DEF GpCrcNext, workersVars, smallVars, loopVars
  <2>2. SafeHeight' = SafeHeight
    BY <2>1 DEF SafeHeight
  <2> QED
    BY <2>1, <2>2 DEF DublinInv
<1>2. CASE WorldChanges
  <2>1. UNCHANGED <<app, trusted, work, nextFrom>>
    BY <1>2, SameApp DEF WorldChanges
  <2>2. nextFrom \in Int /\ work.upTo \in Int /\ FirstBlock \in Int /\ SafeHeight \in Nat
    BY Bounds, SafeHeightTyped DEF LoopTyped, MemoryTyped, Works
  <2>3. Joined(logs', FirstBlock, nextFrom - 1) = Joined(logs, FirstBlock, nextFrom - 1)
    <3>1. CASE nextFrom = FirstBlock
      BY <2>2, <3>1, NobodyBefore
    <3>2. CASE nextFrom - 1 <= SafeHeight
      BY <1>2, <2>2, <3>2, PastStays
    <3> QED
      BY <2>2, <3>1, <3>2 DEF DublinInv
  <2>4. work.stage = "execute" =>
            Joined(logs', nextFrom, work.upTo) = Joined(logs, nextFrom, work.upTo)
    BY <1>2, <2>2, PastStays DEF DublinInv
  <2>5. SafeHeight <= SafeHeight' /\ SafeHeight' \in Nat
    BY <1>2, PastStays
  <2>6. nextFrom \in FirstBlock .. SafeHeight + 1 => nextFrom \in FirstBlock .. SafeHeight' + 1
    <3> DEFINE next == SafeHeight'
    <3>1. next \in Nat /\ SafeHeight <= next
      BY <2>5
    <3> HIDE DEF next
    <3>2. nextFrom \in FirstBlock .. SafeHeight + 1 => nextFrom \in FirstBlock .. next + 1
      BY <2>2, <3>1
    <3> QED
      BY <3>2 DEF next
  <2>7. work.upTo \in nextFrom .. SafeHeight => work.upTo \in nextFrom .. SafeHeight'
    BY <2>2, <2>5
  <2> HIDE DEF factVars, memories
  <2> QED
    BY <2>1, <2>3, <2>4, <2>6, <2>7 DEF DublinInv
<1>3. CASE DublinScan
  <2> DEFINE plan == PlanOf({}, JoinedIn(nextFrom, SafeHeight) \ trusted)
  <2>1. JoinedIn(nextFrom, SafeHeight) = Joined(logs, nextFrom, SafeHeight)
    BY JoinedByLogs
  <2>2. JoinedIn(nextFrom, SafeHeight) \ trusted \subseteq Humans
    BY JoinedAreHumans
  <2>3. /\ \A i \in DOMAIN plan : plan[i].op = "untrust" => plan[i].members = {}
        /\ \A h \in JoinedIn(nextFrom, SafeHeight) \ trusted :
               \E i \in DOMAIN plan : h \in plan[i].members
    BY <2>2, TrustOnly
  <2>4. /\ UNCHANGED <<app, height, logs, trusted, nextFrom>>
        /\ work'.stage = "execute" /\ work'.upTo = SafeHeight /\ work'.plan = plan
        /\ nextFrom <= SafeHeight
    BY <1>3 DEF DublinScan, LoopTyped, Works
  <2>5. SafeHeight' = SafeHeight /\ SafeHeight \in Nat /\ nextFrom \in Int
    BY <2>4, SafeHeightTyped DEF SafeHeight, LoopTyped, MemoryTyped
  <2> HIDE DEF plan
  <2> QED
    BY <2>1, <2>3, <2>4, <2>5 DEF DublinInv
<1>4. CASE DublinNothingNew
  <2>1. UNCHANGED <<app, height, logs, trusted, nextFrom>> /\ work' = Rest
    BY <1>4 DEF DublinNothingNew, RunSucceeds
  <2> QED
    BY <2>1, DublinStartsAgain
<1>5. CASE DublinDone
  <2>1. /\ UNCHANGED <<app, height, logs, trusted>> /\ work' = Rest
        /\ nextFrom' = work.upTo + 1 /\ work.stage = "execute" /\ work.plan = <<>>
    BY <1>5 DEF DublinDone, RunSucceeds
  <2>2. /\ FirstBlock \in Int /\ nextFrom \in Int /\ work.upTo \in Int /\ SafeHeight \in Nat
        /\ height \in Nat /\ Logbook(logs, height)
        /\ FirstBlock <= nextFrom /\ nextFrom <= work.upTo /\ work.upTo <= SafeHeight
    BY <2>1, Bounds, SafeHeightTyped DEF DublinInv, LoopTyped, MemoryTyped, WorldTyped, Works
  <2>3. Joined(logs, FirstBlock, work.upTo)
          \subseteq Joined(logs, FirstBlock, nextFrom - 1) \cup Joined(logs, (nextFrom - 1) + 1, work.upTo)
    BY <2>2, JoinedInParts
  <2>4. Joined(logs, nextFrom, work.upTo) \subseteq trusted
    BY <2>1 DEF DublinInv
  <2>5. Joined(logs, FirstBlock, work.upTo) \subseteq trusted
    <3>1. (nextFrom - 1) + 1 = nextFrom
      BY <2>2
    <3> QED
      BY <2>3, <2>4, <3>1 DEF DublinInv
  <2>6. nextFrom' - 1 = work.upTo /\ nextFrom' \in FirstBlock .. SafeHeight + 1
    BY <2>1, <2>2
  <2>7. SafeHeight' = SafeHeight /\ work'.stage = "rest"
    BY <2>1 DEF SafeHeight, Rest
  <2> QED
    BY <2>1, <2>5, <2>6, <2>7 DEF DublinInv
<1>6. CASE PlainBatch
  <2>1. /\ UNCHANGED <<app, height, logs, nextFrom>>
        /\ Executing /\ Carried
        /\ work' = [work EXCEPT !.plan = Tail(@), !.tries = 0]
    BY <1>6 DEF PlainBatch, BatchSucceeds
  <2>2. /\ work'.stage = "execute" /\ work'.upTo = work.upTo /\ work'.plan = Tail(work.plan)
        /\ work.stage = "execute" /\ SafeHeight' = SafeHeight
    BY <2>1 DEF LoopTyped, Works, Executing, SafeHeight
  <2>3. /\ DOMAIN work.plan = 1 .. Len(work.plan) /\ Len(work.plan) \in Nat \ {0}
        /\ DOMAIN work'.plan = 1 .. Len(work.plan) - 1
        /\ Batch = work.plan[1] /\ Batch \in Orders
        /\ \A i \in 1 .. Len(work.plan) - 1 : work'.plan[i] = work.plan[i + 1]
    BY <2>1, <2>2, BatchTyped
  <2>4. trusted \subseteq trusted' /\ Batch.members \subseteq trusted'
    BY <2>1, <2>2, <2>3 DEF Carried, Orders, DublinInv
  <2>5. \A i \in DOMAIN work'.plan : work'.plan[i].op = "untrust" => work'.plan[i].members = {}
    BY <2>2, <2>3 DEF DublinInv
  <2>6. ASSUME NEW h \in Joined(logs, nextFrom, work.upTo)
        PROVE  h \in trusted' \/ \E i \in DOMAIN work'.plan : h \in work'.plan[i].members
    <3>1. CASE h \in trusted
      BY <2>4, <3>1
    <3>2. ASSUME NEW i \in DOMAIN work.plan, h \in work.plan[i].members
          PROVE  h \in trusted' \/ \E j \in DOMAIN work'.plan : h \in work'.plan[j].members
      <4>1. CASE i = 1
        BY <2>3, <2>4, <3>2, <4>1
      <4>2. CASE i # 1
        <5>1. i - 1 \in DOMAIN work'.plan /\ work'.plan[i - 1] = work.plan[i]
          BY <2>3, <4>2
        <5> QED
          BY <3>2, <5>1
      <4> QED
        BY <4>1, <4>2
    <3> QED
      BY <2>2, <3>1, <3>2 DEF DublinInv
  <2> QED
    BY <2>1, <2>2, <2>4, <2>5, <2>6 DEF DublinInv
<1>7. CASE BatchFails
  <2>1. /\ UNCHANGED <<app, height, logs>> /\ work' = Rest
        /\ nextFrom' = nextFrom \/ nextFrom' = FirstBlock
    BY <1>7 DEF BatchFails, RunError, ProcessEnds, ForgetAll, DublinForget
  <2>2. Executing /\ (trusted' = trusted \/ Carried)
    BY <1>7 DEF BatchFails, BatchTrouble
  <2>3. Batch = work.plan[1] /\ Batch \in Orders /\ 1 \in DOMAIN work.plan
    BY <2>2, BatchTyped
  <2>4. trusted \subseteq trusted'
    BY <2>2, <2>3 DEF Carried, Orders, DublinInv, Executing
  <2> QED
    BY <2>1, <2>4, DublinStartsAgain
<1>8. CASE ReadFails \/ ProcessCrashes
  <2>1. /\ UNCHANGED <<app, height, logs, trusted>> /\ work' = Rest
        /\ nextFrom' = nextFrom \/ nextFrom' = FirstBlock
    BY <1>8 DEF ReadFails, ProcessCrashes, RunError, ProcessEnds, ForgetAll, DublinForget
  <2> QED
    BY <2>1, DublinStartsAgain
<1>9. ~(OicStep \/ Router2Step \/ GnosisStep \/ NewGnosisStep \/ ScoreFails \/ \E h \in Humans : Expires(h))
  BY DEF OicStep, OicScan, OicPlan, OicDone, Router2Step, Router2Plan, Router2Batch, Router2Done,
      GnosisStep, GnosisLoad, GnosisRead, GnosisNoBackers, GnosisScore, GnosisBatchTrouble, GnosisDone,
      NewGnosisStep, NewGnosisLoad, NewGnosisBackfill, NewGnosisBackfilled, NewGnosisIncremental,
      NewGnosisDone, ScoreFails, GnosisScoreFails, Expires, Expire
<1> QED
  BY <1>1, <1>2, <1>3, <1>4, <1>5, <1>6, <1>7, <1>8, <1>9 DEF SmallNext, WorkerStep, DublinStep

\* Whichever batch of dublin-tms fails, and however often it starts again, nobody is
\* left behind its cursor untrusted (dublin-tms/main.ts, mainLoop; logic.ts, runOnce).
THEOREM NobodySkipped == WorkersSpec => []NoRegistrationSkipped
<1>1. DublinInv => NoRegistrationSkipped
  BY JoinedByLogs DEF DublinInv, NoRegistrationSkipped
<1> QED
  BY <1>1, LoopTypedInit, LoopTypedNext, DublinInit0, DublinNext, PTL DEF WorkersSpec

-----------------------------------------------------------------------------
(* oic: between runs the affiliates are those of some block that is not    *)
(* before the range that is done; a run that has read its range has those  *)
(* at its end.                                                             *)

ReadTo == IF work.upTo = None THEN scanned ELSE work.upTo

ScannedInv ==
    /\ scanned = FirstBlock - 1 \/ scanned \in FirstBlock .. SafeHeight
    /\ savedScan = FirstBlock - 1 \/ savedScan \in FirstBlock .. SafeHeight
    /\ initialized => scanned \in FirstBlock .. SafeHeight
    /\ ~initialized /\ affiliates # {} => FirstBlock <= SafeHeight

BetweenRuns ==
    initialized => \E u \in scanned .. SafeHeight : affiliates = Joined(logs, FirstBlock, u)

UnderWay ==
    /\ affiliates = Joined(logs, FirstBlock, ReadTo)
    /\ \/ work.upTo = None
       \/ work.upTo \in FirstBlock .. SafeHeight /\ (initialized => scanned < work.upTo)

OicInv ==
    app = "oic" =>
        /\ work.stage \in {"rest", "plan", "execute"}
        /\ ScannedInv
        /\ IF work.stage = "rest" THEN BetweenRuns ELSE UnderWay

LEMMA OicInit0 == WorkersInit => OicInv
  BY DEF WorkersInit, OicInit, TrustLoopInit, Rest, OicInv, ScannedInv, BetweenRuns

\* A run under way that ends has affiliates of a block that is safe.
LEMMA UnderWayEnds ==
    ASSUME LoopTyped, ScannedInv, UnderWay
    PROVE  BetweenRuns
<1>1. SafeHeight \in Nat /\ FirstBlock \in Nat /\ scanned \in Int /\ work.upTo \in Int
  BY Bounds, SafeHeightTyped DEF LoopTyped, MemoryTyped, Works
<1> SUFFICES ASSUME initialized PROVE \E u \in scanned .. SafeHeight : affiliates = Joined(logs, FirstBlock, u)
  BY DEF BetweenRuns
<1>2. ReadTo \in scanned .. SafeHeight
  BY <1>1 DEF ReadTo, ScannedInv, UnderWay
<1> QED
  BY <1>2 DEF UnderWay

LEMMA OicEitherWay ==
    ASSUME LoopTyped, OicInv, app = "oic"
    PROVE  ScannedInv /\ BetweenRuns
  BY UnderWayEnds DEF OicInv

\* A run ends in an error, or the process does and its memory is lost.
LEMMA OicStartsAgain ==
    ASSUME LoopTyped, OicInv, app = "oic", UNCHANGED <<height, logs>>, work' = Rest,
           UNCHANGED oicVars \/ OicForget
    PROVE  OicInv'
<1>1. SafeHeight' = SafeHeight /\ work'.stage = "rest"
  BY DEF SafeHeight, Rest
<1>2. CASE UNCHANGED oicVars
  <2>1. ScannedInv' /\ BetweenRuns'
    BY <1>1, <1>2, OicEitherWay DEF ScannedInv, BetweenRuns, oicVars
  <2> QED
    BY <1>1, <2>1 DEF OicInv
<1>3. CASE OicForget
  <2>1. ScannedInv' /\ BetweenRuns'
    BY <1>1, <1>3, OicEitherWay DEF OicForget, ScannedInv, BetweenRuns
  <2> QED
    BY <1>1, <2>1 DEF OicInv
<1> QED
  BY <1>2, <1>3

LEMMA OicWorldChanges ==
    ASSUME LoopTyped, OicInv, app = "oic", WorldChanges, app' = app
    PROVE  OicInv'
<1>1. UNCHANGED <<affiliates, scanned, initialized, savedScan, work>>
  BY DEF WorldChanges, memories, oicVars
<1>2. /\ SafeHeight \in Nat /\ FirstBlock \in Nat /\ scanned \in Int /\ work.upTo \in Int /\ savedScan \in Int
      /\ SafeHeight' \in Nat /\ SafeHeight <= SafeHeight'
  BY Bounds, PastStays DEF LoopTyped, MemoryTyped, Works
<1>3. \A u \in Int : u <= SafeHeight => Joined(logs', FirstBlock, u) = Joined(logs, FirstBlock, u)
  BY <1>2, PastStays
<1> DEFINE next == SafeHeight'
<1> HIDE DEF next
<1>4. next \in Nat /\ SafeHeight <= next
  BY <1>2 DEF next
<1>5. ScannedInv => ScannedInv'
  <2>1. ScannedInv => /\ scanned = FirstBlock - 1 \/ scanned \in FirstBlock .. next
                      /\ savedScan = FirstBlock - 1 \/ savedScan \in FirstBlock .. next
                      /\ initialized => scanned \in FirstBlock .. next
                      /\ ~initialized /\ affiliates # {} => FirstBlock <= next
    BY <1>2, <1>4 DEF ScannedInv
  <2> QED
    BY <1>1, <2>1 DEF ScannedInv, next
<1>6. BetweenRuns => BetweenRuns'
  <2>1. BetweenRuns => (initialized => \E u \in scanned .. next : affiliates = Joined(logs', FirstBlock, u))
    BY <1>2, <1>3, <1>4 DEF BetweenRuns
  <2> QED
    BY <1>1, <2>1 DEF BetweenRuns, next
<1>7. ScannedInv /\ UnderWay => UnderWay'
  <2>1. ASSUME ScannedInv, UnderWay PROVE ReadTo <= SafeHeight \/ ReadTo = FirstBlock - 1
    BY <1>2, <2>1 DEF ScannedInv, UnderWay, ReadTo
  <2>2. ASSUME ScannedInv, UnderWay PROVE Joined(logs', FirstBlock, ReadTo) = Joined(logs, FirstBlock, ReadTo)
    <3>1. ReadTo \in Int
      BY <1>2 DEF ReadTo
    <3>2. CASE ReadTo = FirstBlock - 1
      BY <1>2, <3>1, <3>2, NobodyBefore
    <3> QED
      BY <1>3, <2>1, <2>2, <3>1, <3>2
  <2>3. ReadTo' = ReadTo
    BY <1>1 DEF ReadTo
  <2>4. ASSUME UnderWay PROVE \/ work.upTo = None
                              \/ work.upTo \in FirstBlock .. next /\ (initialized => scanned < work.upTo)
    BY <1>2, <1>4, <2>4 DEF UnderWay
  <2> QED
    BY <1>1, <2>2, <2>3, <2>4 DEF UnderWay, next
<1> QED
  BY <1>1, <1>5, <1>6, <1>7 DEF OicInv

\* The range is read: the affiliates are those of its end, though a part of it has
\* been applied before.
LEMMA OicScans ==
    ASSUME LoopTyped, OicInv, OicScan, UNCHANGED app
    PROVE  OicInv' /\ UnderWay' /\ (SafeHeight = ReadTo' \/ (SafeHeight < FirstBlock /\ ReadTo' = FirstBlock - 1))
<1>1. /\ SafeHeight \in Nat /\ FirstBlock \in Nat /\ scanned \in Int /\ height \in Nat
      /\ Logbook(logs, height) /\ initialized \in BOOLEAN
  BY Bounds, SafeHeightTyped DEF LoopTyped, MemoryTyped, WorldTyped
<1>2. /\ UNCHANGED <<height, logs, scanned, initialized, savedScan>> /\ app = "oic"
      /\ work.stage = "rest" /\ ScannedInv /\ BetweenRuns
  BY OicEitherWay DEF OicScan, factVars, OicInv
<1>3. /\ work'.stage = "plan"
      /\ work'.upTo = IF ScanFrom <= SafeHeight THEN SafeHeight ELSE None
  BY DEF OicScan, LoopTyped, Works
<1>4. SafeHeight' = SafeHeight
  BY <1>2 DEF SafeHeight
<1>5. CASE ScanFrom <= SafeHeight /\ initialized
  <2>1. PICK u \in scanned .. SafeHeight : affiliates = Joined(logs, FirstBlock, u)
    BY <1>2, <1>5 DEF BetweenRuns
  <2>2. ScanFrom = scanned + 1 /\ FirstBlock <= scanned + 1 /\ u \in Int /\ scanned <= u /\ u <= SafeHeight
        /\ scanned < SafeHeight
    BY <1>1, <1>2, <1>5, <2>1 DEF ScanFrom, ScannedInv
  <2>3. affiliates' = (affiliates \cup Joined(logs, scanned + 1, SafeHeight)) \ Left(logs, scanned + 1, SafeHeight)
    BY <1>5, <2>2, JoinedByLogs DEF OicScan
  <2>4. affiliates' = Joined(logs, FirstBlock, SafeHeight)
    BY <1>1, <2>1, <2>2, <2>3, ReplayedAgain
  <2>5. work'.upTo = SafeHeight /\ SafeHeight # None /\ SafeHeight \in FirstBlock .. SafeHeight
    BY <1>1, <1>2, <1>3, <1>5, <2>2 DEF None, ScannedInv
  <2>6. ReadTo' = SafeHeight
    BY <2>5 DEF ReadTo
  <2>7. UnderWay'
    BY <1>2, <1>4, <2>2, <2>4, <2>5, <2>6 DEF UnderWay
  <2>8. ScannedInv'
    BY <1>2, <1>4, <1>5 DEF ScannedInv
  <2> QED
    BY <1>3, <2>6, <2>7, <2>8 DEF OicInv
<1>6. CASE ScanFrom <= SafeHeight /\ ~initialized
  <2>1. ScanFrom = FirstBlock /\ FirstBlock <= SafeHeight
    BY <1>6 DEF ScanFrom
  <2>2. affiliates' = Joined(logs, FirstBlock, SafeHeight) \ Left(logs, FirstBlock, SafeHeight)
    BY <1>6, <2>1, JoinedByLogs DEF OicScan
  <2>3. affiliates' = Joined(logs, FirstBlock, SafeHeight)
    BY <2>2 DEF Joined, Left
  <2>4. work'.upTo = SafeHeight /\ SafeHeight # None /\ SafeHeight \in FirstBlock .. SafeHeight
    BY <1>1, <1>3, <1>6, <2>1 DEF None
  <2>5. ReadTo' = SafeHeight
    BY <2>4 DEF ReadTo
  <2>6. UnderWay'
    BY <1>2, <1>4, <1>6, <2>3, <2>4, <2>5 DEF UnderWay
  <2>7. ScannedInv'
    BY <1>2, <1>4, <1>6, <2>1 DEF ScannedInv
  <2> QED
    BY <1>3, <2>5, <2>6, <2>7 DEF OicInv
<1>7. CASE ~(ScanFrom <= SafeHeight)
  <2>1. affiliates' = affiliates /\ work'.upTo = None
    BY <1>3, <1>7 DEF OicScan
  <2>2. ReadTo' = scanned
    BY <1>2, <2>1 DEF ReadTo
  <2>3. CASE initialized
    <3>1. scanned = SafeHeight
      BY <1>1, <1>2, <1>7, <2>3 DEF ScanFrom, ScannedInv
    <3>2. affiliates = Joined(logs, FirstBlock, scanned)
      BY <1>1, <1>2, <2>3, <3>1 DEF BetweenRuns
    <3>3. UnderWay'
      BY <1>2, <2>1, <2>2, <3>2 DEF UnderWay
    <3>4. ScannedInv'
      BY <1>2, <1>4, <2>1 DEF ScannedInv
    <3> QED
      BY <1>3, <2>2, <3>1, <3>3, <3>4 DEF OicInv
  <2>4. CASE ~initialized
    <3>1. SafeHeight < FirstBlock
      BY <1>1, <1>7, <2>4 DEF ScanFrom
    <3>2. scanned = FirstBlock - 1 /\ affiliates = {}
      BY <1>1, <1>2, <2>4, <3>1 DEF ScannedInv
    <3>3. affiliates = Joined(logs, FirstBlock, scanned)
      BY <1>1, <3>2, NobodyBefore
    <3>4. UnderWay'
      BY <1>2, <2>1, <2>2, <3>3 DEF UnderWay
    <3>5. ScannedInv'
      BY <1>2, <1>4, <2>1 DEF ScannedInv
    <3> QED
      BY <1>3, <2>2, <3>1, <3>2, <3>4, <3>5 DEF OicInv
  <2> QED
    BY <2>3, <2>4
<1> QED
  BY <1>5, <1>6, <1>7

LEMMA OicNext == LoopTyped /\ OicInv /\ [SmallNext \/ GpCrcNext]_workersVars => OicInv'
<1> SUFFICES ASSUME LoopTyped, OicInv, [SmallNext \/ GpCrcNext]_workersVars, app = "oic", app' = app
             PROVE  OicInv'
  BY SameApp DEF OicInv
<1> USE DEF factVars, memories
<1>1. ASSUME UNCHANGED <<height, logs, oicVars>>, work'.stage # "rest", work.stage # "rest",
             work'.stage \in {"plan", "execute"}, work'.upTo = work.upTo
      PROVE  OicInv'
  <2>1. SafeHeight' = SafeHeight /\ ReadTo' = ReadTo
    BY <1>1 DEF SafeHeight, ReadTo, oicVars
  <2>2. ScannedInv' /\ UnderWay'
    BY <1>1, <2>1 DEF OicInv, ScannedInv, UnderWay, oicVars
  <2> QED
    BY <1>1, <2>2 DEF OicInv
<1>2. CASE GpCrcNext \/ UNCHANGED workersVars
  <2>1. UNCHANGED <<height, logs, work>> /\ UNCHANGED oicVars
    BY <1>2 DEF GpCrcNext, workersVars, smallVars, loopVars
  <2>2. SafeHeight' = SafeHeight
    BY <2>1 DEF SafeHeight
  <2> QED
    BY <2>1, <2>2 DEF OicInv, ScannedInv, UnderWay, BetweenRuns, ReadTo, oicVars
<1>3. CASE WorldChanges
  BY <1>3, OicWorldChanges
<1>4. CASE OicScan
  BY <1>4, OicScans
<1>5. CASE OicPlan
  BY <1>1, <1>5 DEF OicPlan, LoopTyped, Works
<1>6. CASE OicDone
  <2>1. /\ UNCHANGED <<height, logs, affiliates>> /\ work' = Rest /\ work.stage = "execute"
        /\ IF work.upTo # None THEN scanned' = work.upTo /\ initialized' = TRUE
                               ELSE UNCHANGED <<scanned, initialized>>
        /\ savedScan' = scanned' \/ savedScan' = savedScan
    BY <1>6 DEF OicDone, RunSucceeds
  <2>2. /\ ScannedInv /\ UnderWay /\ BetweenRuns
        /\ SafeHeight \in Nat /\ FirstBlock \in Nat /\ scanned \in Int /\ work.upTo \in Int
    BY <2>1, OicEitherWay, Bounds, SafeHeightTyped DEF OicInv, LoopTyped, MemoryTyped, Works
  <2>3. SafeHeight' = SafeHeight /\ work'.stage = "rest"
    BY <2>1 DEF SafeHeight, Rest
  <2>4. CASE work.upTo = None
    <3>1. ScannedInv' /\ BetweenRuns'
      BY <2>1, <2>2, <2>3, <2>4 DEF ScannedInv, BetweenRuns
    <3> QED
      BY <2>3, <3>1 DEF OicInv
  <2>5. CASE work.upTo # None
    <3>1. /\ scanned' \in FirstBlock .. SafeHeight /\ affiliates' = Joined(logs, FirstBlock, scanned')
          /\ initialized' = TRUE
      BY <2>1, <2>2, <2>5 DEF UnderWay, ReadTo
    <3>2. ScannedInv'
      BY <2>1, <2>2, <2>3, <3>1 DEF ScannedInv
    <3>3. BetweenRuns'
      BY <2>1, <2>2, <2>3, <3>1 DEF BetweenRuns
    <3> QED
      BY <2>3, <3>2, <3>3 DEF OicInv
  <2> QED
    BY <2>4, <2>5
<1>7. CASE PlainBatch
  BY <1>1, <1>7 DEF PlainBatch, BatchSucceeds, Executing, LoopTyped, Works
<1>8. CASE BatchFails \/ ReadFails \/ ProcessCrashes
  <2>1. /\ UNCHANGED <<height, logs>> /\ work' = Rest
        /\ UNCHANGED oicVars \/ OicForget
    BY <1>8 DEF BatchFails, ReadFails, ProcessCrashes, RunError, ProcessEnds, ForgetAll
  <2> QED
    BY <2>1, OicStartsAgain
<1>9. ~(DublinStep \/ Router2Step \/ GnosisStep \/ NewGnosisStep \/ ScoreFails \/ \E h \in Humans : Expires(h))
  BY DEF DublinStep, DublinScan, DublinNothingNew, DublinDone, Router2Step, Router2Plan, Router2Batch, Router2Done,
      GnosisStep, GnosisLoad, GnosisRead, GnosisNoBackers, GnosisScore, GnosisBatchTrouble, GnosisDone,
      NewGnosisStep, NewGnosisLoad, NewGnosisBackfill, NewGnosisBackfilled, NewGnosisIncremental,
      NewGnosisDone, ScoreFails, GnosisScoreFails, Expires, Expire
<1> QED
  BY <1>2, <1>3, <1>4, <1>5, <1>6, <1>7, <1>8, <1>9 DEF SmallNext, WorkerStep, OicStep

\* Whenever a run of oic decides, it decides about those whom the registry has at the
\* end of its range, whatever failed or was read twice before (oic/logic.ts,
\* runIncremental and processAffiliateEvents; main.ts, loop).
THEOREM AffiliatesReplayed == WorkersSpec => []AffiliatesAreReplay
<1>1. OicInv => AffiliatesAreReplay
  BY JoinedByLogs DEF OicInv, UnderWay, ReadTo, AffiliatesAreReplay
<1> QED
  BY <1>1, LoopTypedInit, LoopTypedNext, OicInit0, OicNext, PTL DEF WorkersSpec

-----------------------------------------------------------------------------
(* Nobody rightful is untrusted: what a run has decided to untrust is      *)
(* nobody whose ground has lasted since it began, and before it decides it *)
(* has such people among those whom it is going to keep.                   *)

KeptInv ==
    /\ steady \subseteq Rightful
    /\ work.stage = "execute" =>
          \A i \in DOMAIN work.plan : \A r \in steady :
              work.plan[i].op = "untrust" => r[1] \notin work.plan[i].members
    /\ app = "oic" /\ work.stage = "plan" => \A r \in steady : r[1] \in AlwaysTrusted \cup affiliates
    /\ app = "gnosis-group" /\ work.stage \in {"read", "score"} => loadedList # NoList
    /\ app = "gnosis-group" /\ work.stage = "score" =>
          \A r \in steady : r[1] \in IF r[2] = "list" THEN work.sure ELSE work.allowed

LEMMA KeptInit == WorkersInit => KeptInv
  BY DEF WorkersInit, TrustLoopInit, Rest, KeptInv

\* What is observed: those who are steady are rightful, and in a run they grow fewer.
LEMMA SteadyObserved ==
    ASSUME Observed
    PROVE  /\ steady' \subseteq Rightful'
           /\ work'.stage # "rest" => steady' \subseteq steady
  BY DEF Observed

LEMMA KeptAtRest ==
    ASSUME Observed, work' = Rest
    PROVE  KeptInv'
  BY SteadyObserved DEF KeptInv, Rest

\* The world changes, or a score expires.
LEMMA KeptMeanwhile ==
    ASSUME KeptInv, Observed, UNCHANGED <<app, work, affiliates, loadedList>>
    PROVE  KeptInv'
<1>1. CASE work.stage = "rest"
  BY <1>1, SteadyObserved DEF KeptInv
<1>2. CASE work.stage # "rest"
  BY <1>2, SteadyObserved DEF KeptInv
<1> QED
  BY <1>1, <1>2

\* A plan is made that untrusts nobody steady.
LEMMA KeptByPlan ==
    ASSUME KeptInv, Observed, work'.stage = "execute",
           \A i \in DOMAIN work'.plan : \A r \in steady' :
              work'.plan[i].op = "untrust" => r[1] \notin work'.plan[i].members
    PROVE  KeptInv'
  BY SteadyObserved DEF KeptInv

\* Whether it goes well or not, a batch of a plan leaves the rest of it.
LEMMA KeptByRest ==
    ASSUME LoopTyped, KeptInv, Observed, Executing, work'.stage = "execute",
           work'.plan = work.plan \/ work'.plan = Tail(work.plan)
    PROVE  KeptInv'
<1>1. steady' \subseteq steady
  BY SteadyObserved
<1>2. \A i \in DOMAIN work.plan : \A r \in steady :
         work.plan[i].op = "untrust" => r[1] \notin work.plan[i].members
  BY DEF KeptInv, Executing
<1>3. \A i \in DOMAIN work'.plan : \E j \in DOMAIN work.plan : work'.plan[i] = work.plan[j]
  <2>1. CASE work'.plan = work.plan
    BY <2>1
  <2>2. CASE work'.plan = Tail(work.plan)
    BY <2>2, BatchTyped
  <2> QED
    BY <2>1, <2>2
<1> QED
  BY <1>1, <1>2, <1>3, KeptByPlan

LEMMA KeptWithoutUntrust ==
    ASSUME KeptInv, Observed, NEW who, who \subseteq Humans,
           work'.stage = "execute", work'.plan = PlanOf({}, who)
    PROVE  KeptInv'
<1>1. \A i \in DOMAIN work'.plan : work'.plan[i].op = "untrust" => work'.plan[i].members = {}
  BY TrustOnly
<1> QED
  BY <1>1, KeptByPlan

\* oic: who is steady when the range is read has joined by its end, or is on the
\* whitelist; and the plan asks whether such people are vouched for now.
LEMMA OicKeeps ==
    ASSUME LoopTyped, OicInv, KeptInv, app = "oic", app' = app, Observed, OicStep
    PROVE  KeptInv'
<1>1. CASE OicScan
  <2>1. work'.stage = "plan"
    BY <1>1 DEF OicScan, LoopTyped, Works
  <2>2. /\ affiliates' = Joined(logs', FirstBlock, ReadTo') /\ logs' = logs
        /\ SafeHeight = ReadTo' \/ (SafeHeight < FirstBlock /\ ReadTo' = FirstBlock - 1)
        /\ SafeHeight \in Int /\ FirstBlock \in Int
    BY <1>1, OicScans, Bounds, SafeHeightTyped DEF UnderWay, OicScan, factVars, LoopTyped
  <2>3. JoinedIn(FirstBlock, SafeHeight) \subseteq affiliates'
    <3>1. JoinedIn(FirstBlock, SafeHeight) = Joined(logs, FirstBlock, SafeHeight)
      BY JoinedByLogs
    <3>2. SafeHeight < FirstBlock => Joined(logs, FirstBlock, SafeHeight) = {}
      BY <2>2, NobodyBefore
    <3> QED
      BY <2>2, <3>1, <3>2
  <2>4. ASSUME NEW r \in steady PROVE r[1] \in AlwaysTrusted \cup affiliates'
    <3>1. r[1] \in Wanted
      BY DEF KeptInv, Rightful
    <3> QED
      BY <2>3, <3>1 DEF Wanted, OicWanted
  <2> QED
    BY <2>1, <2>4, SteadyObserved DEF KeptInv
<1>2. CASE OicPlan
  <2> DEFINE out == trusted \ Desired
             in == Desired \ trusted
  <2>1. work'.stage = "execute" /\ work'.plan = PlanOf(out, in)
    BY <1>2 DEF OicPlan, LoopTyped, Works
  <2>2. out \in SUBSET Humans /\ in \in SUBSET Humans
    BY Bounds DEF Desired, LoopTyped, WorldTyped, MemoryTyped
  <2>3. ASSUME NEW r \in steady' PROVE r[1] \notin out
    <3>1. r \in steady /\ r \in Rightful'
      BY <2>1, SteadyObserved
    <3>2. r[1] \in AlwaysTrusted \cup affiliates
      BY <1>2, <3>1 DEF KeptInv, OicPlan
    <3>3. r[1] \in Wanted'
      BY <3>1 DEF Rightful
    <3>4. r[1] \in AlwaysTrusted \cup vouched
      BY <1>2, <3>3 DEF Wanted, OicWanted, OicPlan, factVars
    <3> QED
      BY <3>2, <3>4 DEF Desired
  <2> HIDE DEF out, in
  <2>4. \A i \in DOMAIN work'.plan : work'.plan[i].op = "untrust" => work'.plan[i].members \subseteq out
    BY <2>1, <2>2, PlanFollows DEF IsPlan
  <2> QED
    BY <2>1, <2>3, <2>4, KeptByPlan
<1>3. CASE OicDone
  BY <1>3, KeptAtRest DEF OicDone, RunSucceeds
<1> QED
  BY <1>1, <1>2, <1>3 DEF OicStep

\* gnosis-group: who has a ground when the lists are read is sure, or is to be scored;
\* and a score that was above the threshold all the time is fetched or cached as such.
LEMMA GnosisKeeps ==
    ASSUME LoopTyped, KeptInv, app = "gnosis-group", app' = app, Observed, GnosisStep
    PROVE  KeptInv'
<1>1. CASE GnosisLoad
  <2>1. loadedList' # NoList
    BY <1>1, NoListAssumption DEF GnosisLoad, LoopTyped, WorldTyped
  <2>2. work'.stage = "read"
    BY <1>1 DEF GnosisLoad, LoopTyped, Works
  <2> QED
    BY <2>1, <2>2, SteadyObserved DEF KeptInv
<1>2. CASE GnosisRead
  <2>1. /\ work'.stage = "score" /\ work'.allowed = JoinedIn(0, height) \ loadedList
        /\ work'.sure = (vouched \cup AlwaysTrusted) \ loadedList
        /\ loadedList' = loadedList /\ loadedList # NoList
    BY <1>2 DEF GnosisRead, LoopTyped, Works, KeptInv, gnosisVars
  <2>2. ASSUME NEW r \in steady PROVE r[1] \in IF r[2] = "list" THEN work'.sure ELSE work'.allowed
    <3>1. r \in GnosisRightful
      BY DEF KeptInv, Rightful
    <3> QED
      BY <2>1, <3>1 DEF GnosisRightful
  <2> QED
    BY <2>1, <2>2, SteadyObserved DEF KeptInv
<1>3. CASE GnosisScore
  <2> DEFINE kept == Satisfied(scoreCache')
             out == trusted \ kept
             in == kept \ trusted
  <2>1. work'.stage = "execute" /\ work'.plan = PlanOf(out, in)
    BY <1>3 DEF GnosisScore, LoopTyped, Works
  <2>2. out \in SUBSET Humans /\ in \in SUBSET Humans
    BY DEF LoopTyped, Satisfied, Works
  <2>3. /\ UNCHANGED <<scored, vouched, barred, height, logs>>
        /\ scoreCache' = Fetched(Unscored)
        /\ scoreCache \in [Humans -> {"none", "above", "below"}]
    BY <1>3 DEF GnosisScore, factVars, LoopTyped, MemoryTyped
  <2>4. ASSUME NEW r \in steady' PROVE r[1] \in kept
    <3>1. r \in steady /\ r \in GnosisRightful'
      BY <2>1, SteadyObserved DEF Rightful
    <3>2. r[1] \in IF r[2] = "list" THEN work.sure ELSE work.allowed
      BY <1>3, <3>1 DEF KeptInv, GnosisScore
    <3>3. CASE r[2] = "list"
      BY <3>2, <3>3 DEF Satisfied
    <3>4. CASE r[2] # "list"
      <4>1. r[1] \in Humans /\ r[1] \in scored' /\ scoreCache'[r[1]] # "below"
        BY <3>1, <3>4 DEF GnosisRightful
      <4>2. r[1] \in work.allowed
        BY <3>2, <3>4
      <4>3. scoreCache'[r[1]] = "above"
        BY <2>3, <4>1, <4>2 DEF Fetched, Unscored
      <4> QED
        BY <4>2, <4>3 DEF Satisfied
    <3> QED
      BY <3>3, <3>4
  <2> HIDE DEF kept
  <2>5. \A r \in steady' : r[1] \notin out
    BY <2>4
  <2> HIDE DEF out, in
  <2>6. \A i \in DOMAIN work'.plan : work'.plan[i].op = "untrust" => work'.plan[i].members \subseteq out
    BY <2>1, <2>2, PlanFollows DEF IsPlan
  <2> QED
    BY <2>1, <2>5, <2>6, KeptByPlan
<1>4. CASE GnosisBatchTrouble
  <2>1. Executing
    BY <1>4 DEF GnosisBatchTrouble, BatchTrouble
  <2>2. work'.stage = "execute" /\ (work'.plan = work.plan \/ work'.plan = Tail(work.plan))
    BY <1>4, <2>1 DEF GnosisBatchTrouble, Executing, LoopTyped, Works
  <2> QED
    BY <2>1, <2>2, KeptByRest
<1>5. CASE GnosisNoBackers \/ GnosisDone
  BY <1>5, KeptAtRest DEF GnosisNoBackers, GnosisDone, RunError, RunSucceeds, ProcessEnds
<1> QED
  BY <1>1, <1>2, <1>3, <1>4, <1>5 DEF GnosisStep

LEMMA KeptNext == LoopTyped /\ OicInv /\ KeptInv /\ [SmallNext \/ GpCrcNext]_workersVars => KeptInv'
<1> SUFFICES ASSUME LoopTyped, OicInv, KeptInv, [SmallNext \/ GpCrcNext]_workersVars PROVE KeptInv'
  OBVIOUS
<1> app' = app
  BY SameApp
<1>1. CASE GpCrcNext \/ UNCHANGED workersVars
  <2>1. UNCHANGED <<app, work, steady, affiliates, loadedList>> /\ UNCHANGED smallVars
    BY <1>1
    DEF GpCrcNext, workersVars, smallVars, loopVars, factVars, memories, oicVars, gnosisVars
  <2>2. Rightful' = Rightful
    BY <2>1
    DEF smallVars, loopVars, factVars, memories, oicVars, gnosisVars, Rightful, GnosisRightful, Wanted,
        OicWanted, DublinWanted, Router2Wanted, GnosisWanted, NewGnosisWanted, UsersSince, JoinedIn,
        LogsOf, SafeHeight
  <2> QED
    BY <2>1, <2>2 DEF KeptInv
<1>2. CASE SmallNext
  <2> Observed
    BY <1>2 DEF SmallNext
  <2>1. CASE OicStep
    BY <2>1, OicKeeps DEF OicStep, OicScan, OicPlan, OicDone
  <2>2. CASE GnosisStep
    BY <2>2, GnosisKeeps
    DEF GnosisStep, GnosisLoad, GnosisRead, GnosisNoBackers, GnosisScore, GnosisBatchTrouble, GnosisDone
  <2>3. CASE DublinStep
    <3>1. CASE DublinScan
      <4>1. JoinedIn(nextFrom, SafeHeight) \ trusted \subseteq Humans
        BY JoinedAreHumans
      <4>2. work'.stage = "execute" /\ work'.plan = PlanOf({}, JoinedIn(nextFrom, SafeHeight) \ trusted)
        BY <3>1 DEF DublinScan, LoopTyped, Works
      <4> QED
        BY <4>1, <4>2, KeptWithoutUntrust
    <3>2. CASE DublinNothingNew \/ DublinDone
      BY <3>2, KeptAtRest DEF DublinNothingNew, DublinDone, RunSucceeds
    <3> QED
      BY <2>3, <3>1, <3>2 DEF DublinStep
  <2>4. CASE Router2Step
    <3>1. CASE Router2Plan
      <4>1. Router2Wanted \ approved \subseteq Humans
        BY JoinedAreHumans DEF Router2Wanted, LoopTyped, WorldTyped
      <4>2. work'.stage = "execute" /\ work'.plan = PlanOf({}, Router2Wanted \ approved)
        BY <3>1 DEF Router2Plan, LoopTyped, Works
      <4> QED
        BY <4>1, <4>2, KeptWithoutUntrust
    <3>2. CASE Router2Batch
      BY <3>2, KeptByRest DEF Router2Batch, BatchSucceeds, Executing, LoopTyped, Works
    <3>3. CASE Router2Done
      BY <3>3, KeptAtRest DEF Router2Done, RunSucceeds
    <3> QED
      BY <2>4, <3>1, <3>2, <3>3 DEF Router2Step
  <2>5. CASE NewGnosisStep
    <3>1. CASE NewGnosisLoad
      <4>1. work'.stage = "backfill" /\ app = "new-gnosis"
        BY <3>1 DEF NewGnosisLoad, LoopTyped, Works
      <4> QED
        BY <4>1, SteadyObserved DEF KeptInv
    <3>2. CASE NewGnosisBackfill
      <4>1. (work.allowed \cap scored) \ (trusted \cup untrustable) \subseteq Humans
        BY DEF LoopTyped, WorldTyped
      <4>2. /\ work'.stage = "execute"
            /\ work'.plan = PlanOf({}, (work.allowed \cap scored) \ (trusted \cup untrustable))
        BY <3>2 DEF NewGnosisBackfill, LoopTyped, Works
      <4> QED
        BY <4>1, <4>2, KeptWithoutUntrust
    <3>3. CASE NewGnosisIncremental
      <4>1. UsersSince \ (trusted \cup untrustable) \subseteq Humans
        BY JoinedAreHumans DEF UsersSince
      <4>2. work'.stage = "execute" /\ work'.plan = PlanOf({}, UsersSince \ (trusted \cup untrustable))
        BY <3>3 DEF NewGnosisIncremental, LoopTyped, Works
      <4> QED
        BY <4>1, <4>2, KeptWithoutUntrust
    <3>4. CASE NewGnosisBackfilled \/ NewGnosisDone
      BY <3>4, KeptAtRest DEF NewGnosisBackfilled, NewGnosisDone, RunSucceeds
    <3> QED
      BY <2>5, <3>1, <3>2, <3>3, <3>4 DEF NewGnosisStep
  <2>6. CASE PlainBatch
    BY <2>6, KeptByRest DEF PlainBatch, BatchSucceeds, Executing, LoopTyped, Works
  <2>7. CASE WorldChanges \/ \E h \in Humans : Expires(h)
    BY <2>7, KeptMeanwhile
    DEF WorldChanges, Expires, Expire, memories, oicVars, gnosisVars
  <2>8. CASE BatchFails \/ ReadFails \/ ScoreFails \/ ProcessCrashes
    BY <2>8, KeptAtRest
    DEF BatchFails, ReadFails, ScoreFails, GnosisScoreFails, ProcessCrashes, RunError, ProcessEnds
  <2> QED
    BY <1>2, <2>1, <2>2, <2>3, <2>4, <2>5, <2>6, <2>7, <2>8 DEF SmallNext, WorkerStep
<1> QED
  BY <1>1, <1>2

\* What a batch does to those whose ground has lasted: nothing bad.
LEMMA BatchSpares ==
    ASSUME LoopTyped, KeptInv, Executing, Carried, NEW r \in steady, r[1] \in trusted
    PROVE  r[1] \in trusted'
<1>1. Batch = work.plan[1] /\ 1 \in DOMAIN work.plan /\ Batch \in Orders
  BY BatchTyped
<1>2. Batch.op = "untrust" => r[1] \notin Batch.members
  BY <1>1 DEF KeptInv, Executing
<1> QED
  BY <1>1, <1>2 DEF Carried, Orders

LEMMA KeptStep ==
    ASSUME LoopTyped, KeptInv, [SmallNext \/ GpCrcNext]_workersVars, NEW r \in steady, r[1] \in trusted
    PROVE  r[1] \in trusted'
<1>1. CASE UNCHANGED trusted
  BY <1>1
<1>2. CASE Executing /\ Carried
  BY <1>2, BatchSpares
<1>3. CASE GpCrcNext \/ UNCHANGED workersVars
  BY <1>1, <1>3 DEF GpCrcNext, workersVars, smallVars, loopVars
<1>4. CASE OicStep \/ DublinStep \/ Router2Step
  BY <1>1, <1>2, <1>4
  DEF OicStep, OicScan, OicPlan, OicDone, DublinStep, DublinScan, DublinNothingNew, DublinDone,
      Router2Step, Router2Plan, Router2Batch, Router2Done, BatchSucceeds
<1>5. CASE GnosisStep \/ NewGnosisStep
  BY <1>1, <1>2, <1>5
  DEF GnosisStep, GnosisLoad, GnosisRead, GnosisNoBackers, GnosisScore, GnosisBatchTrouble, GnosisDone,
      BatchTrouble, NewGnosisStep, NewGnosisLoad, NewGnosisBackfill, NewGnosisBackfilled,
      NewGnosisIncremental, NewGnosisDone
<1>6. CASE PlainBatch \/ BatchFails
  BY <1>1, <1>2, <1>6 DEF PlainBatch, BatchFails, BatchSucceeds, BatchTrouble
<1>7. CASE WorldChanges \/ ReadFails \/ ScoreFails \/ ProcessCrashes \/ \E h \in Humans : Expires(h)
  BY <1>1, <1>7 DEF WorldChanges, ReadFails, ScoreFails, GnosisScoreFails, ProcessCrashes, Expires, Expire
<1> QED
  BY <1>3, <1>4, <1>5, <1>6, <1>7 DEF SmallNext, WorkerStep

\* In none of the small workers is anybody untrusted whose ground for being trusted has
\* lasted since the run began, whatever fails (the plans of oic/logic.ts and
\* gnosis-group/logic.ts; the others untrust nobody).
THEOREM RightfulAreKept == WorkersSpec => RightfulKept
<1>1. LoopTyped /\ KeptInv /\ [SmallNext \/ GpCrcNext]_workersVars
        => [\A r \in steady : r[1] \in trusted => r[1] \in trusted']_workersVars
  BY KeptStep
<1> QED
  BY <1>1, LoopTypedInit, LoopTypedNext, OicInit0, OicNext, KeptInit, KeptNext, PTL
  DEF WorkersSpec, RightfulKept

-----------------------------------------------------------------------------
(* gp-crc: types. *)

\* A selected owner is an avatar that was asked for, and linked.
LEMMA SelectedTyped ==
    ASSUME TypeOK, NEW s \in Safes, NEW avatars \in SUBSET Avatars, NEW a,
           IsSelected(s, a, avatars)
    PROVE  a \in avatars /\ linked[s][a] \in Nat \ {Never}
  BY DEF TypeOK, IsSelected, Owners

\* Counting an owner gives a trust state: the switches stay within their limit.
LEMMA CountedTyped ==
    ASSUME NEW previous \in SafeTrustState \cup {NoState}, NEW owner \in Avatars,
           NEW since \in Nat \ {Never}
    PROVE  Counted(previous, owner, since) \in SafeTrustState
<1> USE GpCrcAssumption DEF SafeTrustState, NoState, Never
<1>1. CASE previous = NoState
  BY <1>1 DEF Counted
<1>2. CASE previous # NoState
  <2>1. previous \in SafeTrustState
    BY <1>2
  <2>2. Later(since, previous.since) \in Nat \ {Never}
    BY <2>1 DEF Later
  <2>3. CASE previous.avatar = owner
    BY <1>2, <2>1, <2>2, <2>3 DEF Counted
  <2>4. CASE previous.avatar # owner
    BY <1>2, <2>1, <2>4 DEF Counted
  <2>5. QED
    BY <2>3, <2>4
<1>3. QED
  BY <1>1, <1>2

RunType ==
    [stage : {"idle", "safes", "untrust", "trust"}, trustees : SUBSET Avatars,
     allowed : SUBSET Avatars, untrust : SUBSET Avatars, trust : SUBSET Avatars]

USE DEF RunType

LEMMA RunTyped == Idle \in RunType
  BY DEF Idle

LEMMA FailTyped == TypeOK /\ Fail => /\ run' = Idle
                                     /\ errors' \in 0 .. ErrorsBeforeCrash - 1
                                     /\ blacklist' = NotLoaded \/ blacklist' \subseteq Avatars
                                     /\ state' \in [Safes -> SafeTrustState \cup {NoState}]
                                     /\ served' \in [Safes -> SUBSET Avatars]
                                     /\ failures' \in Nat
  BY GpCrcAssumption DEF TypeOK, Fail, Exit, MayFail

LEMMA TypeInit == Init => TypeOK
  BY GpCrcAssumption, RunTyped DEF Init, TypeOK, Never

\* What Decide leaves in the store and the run.
LEMMA DecideTyped ==
    ASSUME TypeOK, Decide
    PROVE  /\ state' \in [Safes -> SafeTrustState \cup {NoState}]
           /\ served' \in [Safes -> SUBSET Avatars]
           /\ run' \in RunType
           /\ failures' \in Nat
<1>1. PICK found \in SUBSET Safes :
        /\ Lookup(found)
        /\ \E owner \in [found -> run.allowed] :
            /\ \A s \in found : IsSelected(s, owner[s], run.allowed)
            /\ state' = [s \in Safes |-> IF s \in found
                                         THEN Counted(state[s], owner[s], linked[s][owner[s]])
                                         ELSE state[s]]
        /\ Plan({a \in run.allowed : \E s \in found : state'[s].avatar = a})
        /\ served' = [s \in Safes |->
                        served[s] \cup IF s \in found THEN {state'[s].avatar} ELSE {}]
  BY DEF Decide
<1>2. PICK owner \in [found -> run.allowed] :
        /\ \A s \in found : IsSelected(s, owner[s], run.allowed)
        /\ state' = [s \in Safes |-> IF s \in found
                                     THEN Counted(state[s], owner[s], linked[s][owner[s]])
                                     ELSE state[s]]
  BY <1>1
<1>3. run.allowed \in SUBSET Avatars
  BY DEF TypeOK
<1>4. ASSUME NEW s \in found
      PROVE  Counted(state[s], owner[s], linked[s][owner[s]]) \in SafeTrustState
  <2>1. owner[s] \in Avatars /\ linked[s][owner[s]] \in Nat \ {Never}
    BY <1>2, <1>3, SelectedTyped
  <2>2. QED
    BY <2>1, CountedTyped DEF TypeOK
<1>5. /\ state' \in [Safes -> SafeTrustState \cup {NoState}]
      /\ \A s \in found : state'[s] \in SafeTrustState
  BY <1>2, <1>4 DEF TypeOK
<1>6. served' \in [Safes -> SUBSET Avatars]
  <2>1. \A s \in found : state'[s].avatar \in Avatars
    BY <1>5 DEF SafeTrustState
  <2> DEFINE added(s) == IF s \in found THEN {state'[s].avatar} ELSE {}
  <2>2. served' = [s \in Safes |-> served[s] \cup added(s)]
    BY <1>1
  <2>3. \A s \in Safes : served[s] \subseteq Avatars /\ added(s) \subseteq Avatars
    BY <2>1 DEF TypeOK
  <2> HIDE DEF added
  <2>4. QED
    BY <2>2, <2>3
<1>7. failures' \in Nat
  BY <1>1 DEF Lookup, MayFail, TypeOK
<1>8. run' \in RunType
  <2> DEFINE eligible == {a \in run.allowed : \E s \in found : state'[s].avatar = a}
  <2>1. eligible \subseteq Avatars
    BY <1>3
  <2>2. Plan(eligible)
    BY <1>1
  <2> HIDE DEF eligible
  <2>3. QED
    BY <2>1, <2>2 DEF Plan, TypeOK
<1>9. QED
  BY <1>5, <1>6, <1>7, <1>8

\* A batch sent leaves the run and the trustees typed.
LEMMA UntrustTyped ==
    ASSUME TypeOK, UntrustBatch
    PROVE  trust' \subseteq Avatars /\ run' \in RunType
<1>1. PICK batch : /\ trust' = trust \ batch
                   /\ run' = [run EXCEPT !.untrust = @ \ batch]
  BY DEF UntrustBatch
<1>2. trust \subseteq Avatars /\ run \in RunType
  BY DEF TypeOK, RunType
<1>3. run.untrust \ batch \subseteq Avatars
  BY <1>2 DEF RunType
<1>4. run' \in RunType
  BY <1>1, <1>2, <1>3 DEF RunType
<1>5. QED
  BY <1>1, <1>2, <1>4

LEMMA TrustTyped ==
    ASSUME TypeOK, TrustBatch
    PROVE  trust' \subseteq Avatars /\ run' \in RunType
<1>1. PICK batch \in SUBSET run.trust :
            /\ trust' = trust \cup batch
            /\ run' = [run EXCEPT !.trust = @ \ batch]
  BY DEF TrustBatch
<1>2. trust \subseteq Avatars /\ run \in RunType
  BY DEF TypeOK, RunType
<1>3. batch \subseteq Avatars /\ run.trust \ batch \subseteq Avatars
  BY <1>2 DEF RunType
<1>4. run' \in RunType
  BY <1>1, <1>2, <1>3 DEF RunType
<1>5. QED
  BY <1>1, <1>2, <1>3, <1>4

LEMMA TypeNext == TypeOK /\ [Next]_vars => TypeOK'
<1> SUFFICES ASSUME TypeOK, [Next]_vars PROVE TypeOK'
  OBVIOUS
<1> USE DEF TypeOK, worldVars, memoryVars
<1>1. CASE WorldStep
  <2>1. CASE Register
    BY <2>1 DEF Register, workerUnchanged
  <2>2. CASE Link
    BY <2>2, GpCrcAssumption DEF Link, workerUnchanged
  <2>3. CASE Unlink
    BY <2>3 DEF Unlink, workerUnchanged, Never
  <2>4. CASE BlacklistChanges
    BY <2>4 DEF BlacklistChanges, workerUnchanged
  <2>5. QED
    BY <1>1, <2>1, <2>2, <2>3, <2>4 DEF WorldStep
<1>2. CASE BeginRun
  <2>1. /\ blacklist' = NotLoaded \/ blacklist' \subseteq Avatars
        /\ failures' \in Nat
    BY <1>2 DEF BeginRun, RefreshBlacklist, MayFail
  <2> DEFINE allowed == Allowed(humans \cup trust, blacklist')
  <2>2. allowed \subseteq Avatars
    BY DEF Allowed
  <2> HIDE DEF allowed
  <2>3. run' \in RunType
    BY <1>2, <2>2 DEF BeginRun, allowed, Idle
  <2>4. QED
    BY <1>2, <2>1, <2>3 DEF BeginRun
<1>3. CASE Decide
  BY <1>3, DecideTyped DEF Decide
<1>4. CASE UntrustBatch
  BY <1>4, UntrustTyped DEF UntrustBatch
<1>5. CASE Untrusted
  BY <1>5 DEF Untrusted
<1>6. CASE TrustBatch
  BY <1>6, TrustTyped DEF TrustBatch
<1>7. CASE EndRun
  BY <1>7, GpCrcAssumption, RunTyped DEF EndRun
<1>8. CASE RunFails
  BY <1>8, FailTyped, RunTyped DEF RunFails
<1>9. CASE BatchReportedFailed
  BY <1>9, FailTyped, RunTyped DEF BatchReportedFailed
<1>10. CASE Crash
  BY <1>10, GpCrcAssumption, RunTyped DEF Crash, Exit, MayFail
<1>11. CASE UNCHANGED vars
  BY <1>11 DEF vars
<1>12. QED
  BY <1>1, <1>2, <1>3, <1>4, <1>5, <1>6, <1>7, <1>8, <1>9, <1>10, <1>11 DEF Next, RunStep

\* The variables of the worker keep their types through every failure and
\* restart (gp-crc/main.ts and logic.ts).
THEOREM GpCrcTyped == Spec => []TypeOK
  BY TypeInit, TypeNext, PTL DEF Spec

-----------------------------------------------------------------------------
(* Switches: the avatars a safe has stood for are its first and one for    *)
(* each switch counted since.                                              *)

SwitchInv == \A s \in Safes :
    /\ IsFiniteSet(served[s])
    /\ state[s] = NoState => served[s] = {}
    /\ state[s] # NoState => /\ state[s].avatar \in served[s]
                             /\ Cardinality(served[s]) <= state[s].switches + 1

\* One more owner counted: either nothing new is served, or a switch is counted,
\* or the owner is the first.
LEMMA CountedServes ==
    ASSUME NEW previous \in SafeTrustState \cup {NoState}, NEW owner \in Avatars,
           NEW since \in Nat \ {Never}, NEW before, IsFiniteSet(before),
           previous = NoState => before = {},
           previous # NoState => /\ previous.avatar \in before
                                 /\ Cardinality(before) <= previous.switches + 1,
           NEW next, next = Counted(previous, owner, since),
           NEW after, after = before \cup {next.avatar}
    PROVE  /\ next # NoState /\ IsFiniteSet(after)
           /\ next.avatar \in after /\ Cardinality(after) <= next.switches + 1
<1>1. next \in SafeTrustState /\ next # NoState
  BY CountedTyped, GpCrcAssumption DEF SafeTrustState, NoState, Never
<1>2. /\ IsFiniteSet(after)
      /\ Cardinality(after) =
            IF next.avatar \in before THEN Cardinality(before) ELSE Cardinality(before) + 1
      /\ Cardinality(before) \in Nat
  BY FS_AddElement, FS_CardinalityType
<1>3. Cardinality(after) <= next.switches + 1
  <2>1. CASE previous = NoState
    <3>1. next.switches = 0 /\ Cardinality(before) = 0 /\ next.avatar \notin before
      BY <2>1, FS_EmptySet DEF Counted
    <3>2. QED
      BY <1>2, <3>1
  <2>2. CASE previous # NoState
    <3>1. previous.switches \in Nat /\ Cardinality(before) <= previous.switches + 1
      BY <2>2, GpCrcAssumption DEF SafeTrustState
    <3>2. CASE next.avatar = previous.avatar
      <4>1. next.switches = previous.switches \/ next.switches = previous.switches + 1
        BY <2>2 DEF Counted, SafeTrustState
      <4>2. next.avatar \in before
        BY <2>2, <3>2
      <4>3. QED
        BY <1>2, <3>1, <4>1, <4>2
    <3>3. CASE next.avatar # previous.avatar
      <4>1. next.switches = previous.switches + 1
        BY <2>2, <3>3 DEF Counted, SafeTrustState
      <4>2. QED
        BY <1>2, <3>1, <4>1
    <3>4. QED
      BY <3>2, <3>3
  <2>3. QED
    BY <2>1, <2>2
<1>4. QED
  BY <1>1, <1>2, <1>3

LEMMA SwitchInit == Init => SwitchInv
  BY FS_EmptySet DEF Init, SwitchInv

\* A safe that the lookup tells of gets one of its linked avatars counted; the
\* other safes keep what they have.
LEMMA DecideCounts ==
    ASSUME TypeOK, Decide, NEW s \in Safes
    PROVE  \/ state'[s] = state[s] /\ served'[s] = served[s]
           \/ \E owner \in Avatars, since \in Nat \ {Never} :
                /\ state'[s] = Counted(state[s], owner, since)
                /\ served'[s] = served[s] \cup {state'[s].avatar}
<1>1. PICK found \in SUBSET Safes :
        /\ \E owner \in [found -> run.allowed] :
            /\ \A t \in found : IsSelected(t, owner[t], run.allowed)
            /\ state' = [t \in Safes |-> IF t \in found
                                         THEN Counted(state[t], owner[t], linked[t][owner[t]])
                                         ELSE state[t]]
        /\ served' = [t \in Safes |->
                        served[t] \cup IF t \in found THEN {state'[t].avatar} ELSE {}]
  BY DEF Decide
<1>2. PICK owner \in [found -> run.allowed] :
        /\ \A t \in found : IsSelected(t, owner[t], run.allowed)
        /\ state' = [t \in Safes |-> IF t \in found
                                     THEN Counted(state[t], owner[t], linked[t][owner[t]])
                                     ELSE state[t]]
  BY <1>1
<1>3. CASE s \in found
  <2>1. owner[s] \in Avatars /\ linked[s][owner[s]] \in Nat \ {Never}
    BY <1>2, <1>3, SelectedTyped DEF TypeOK
  <2>2. state'[s] = Counted(state[s], owner[s], linked[s][owner[s]])
    BY <1>2, <1>3
  <2>3. served'[s] = served[s] \cup {state'[s].avatar}
    BY <1>1, <1>3
  <2>4. QED
    BY <2>1, <2>2, <2>3
<1>4. CASE s \notin found
  BY <1>1, <1>2, <1>4
<1>5. QED
  BY <1>3, <1>4

LEMMA DecideSwitches == TypeOK /\ SwitchInv /\ Decide => SwitchInv'
<1> SUFFICES ASSUME TypeOK, SwitchInv, Decide, NEW s \in Safes
             PROVE  /\ IsFiniteSet(served'[s])
                    /\ state'[s] = NoState => served'[s] = {}
                    /\ state'[s] # NoState =>
                         /\ state'[s].avatar \in served'[s]
                         /\ Cardinality(served'[s]) <= state'[s].switches + 1
  BY DEF SwitchInv
<1>1. CASE state'[s] = state[s] /\ served'[s] = served[s]
  BY <1>1 DEF SwitchInv
<1>2. ASSUME NEW owner \in Avatars, NEW since \in Nat \ {Never},
             state'[s] = Counted(state[s], owner, since),
             served'[s] = served[s] \cup {state'[s].avatar}
      PROVE  /\ IsFiniteSet(served'[s]) /\ state'[s] # NoState
             /\ state'[s].avatar \in served'[s]
             /\ Cardinality(served'[s]) <= state'[s].switches + 1
  <2>1. state[s] \in SafeTrustState \cup {NoState}
    BY DEF TypeOK
  <2>2. /\ IsFiniteSet(served[s])
        /\ state[s] = NoState => served[s] = {}
        /\ state[s] # NoState => /\ state[s].avatar \in served[s]
                                 /\ Cardinality(served[s]) <= state[s].switches + 1
    BY DEF SwitchInv
  <2>3. QED
    BY <1>2, <2>1, <2>2, CountedServes
<1>3. QED
  BY <1>1, <1>2, DecideCounts

LEMMA SwitchNext == TypeOK /\ SwitchInv /\ [Next]_vars => SwitchInv'
<1> SUFFICES ASSUME TypeOK, SwitchInv, [Next]_vars PROVE SwitchInv'
  OBVIOUS
<1>1. ASSUME UNCHANGED <<state, served>> PROVE SwitchInv'
  BY <1>1 DEF SwitchInv
<1>2. ASSUME state' = [s \in Safes |-> NoState], served' = [s \in Safes |-> {}]
      PROVE  SwitchInv'
  BY <1>2, FS_EmptySet DEF SwitchInv
<1>3. CASE WorldStep
  BY <1>1, <1>3
  DEF WorldStep, Register, Link, Unlink, BlacklistChanges, workerUnchanged, memoryVars
<1>4. CASE BeginRun \/ UntrustBatch \/ Untrusted \/ TrustBatch \/ EndRun
  BY <1>1, <1>4 DEF BeginRun, UntrustBatch, Untrusted, TrustBatch, EndRun, memoryVars
<1>5. CASE Decide
  BY <1>5, DecideSwitches
<1>6. CASE RunFails \/ BatchReportedFailed \/ Crash
  BY <1>1, <1>2, <1>6 DEF RunFails, BatchReportedFailed, Crash, Fail, Exit
<1>7. CASE UNCHANGED vars
  BY <1>1, <1>7 DEF vars, memoryVars
<1>8. QED
  BY <1>3, <1>4, <1>5, <1>6, <1>7 DEF Next, RunStep

\* While a process lives no safe stands for more than MaxSwitches avatars after
\* its first, whatever fails (logic.ts:180-197).
THEOREM SwitchesAlwaysBounded == Spec => []SwitchesBounded
<1>1. TypeOK /\ SwitchInv => SwitchesBounded
  <2> SUFFICES ASSUME TypeOK, SwitchInv, NEW s \in Safes
               PROVE  Cardinality(served[s]) <= MaxSwitches + 1
    BY DEF SwitchesBounded
  <2>1. CASE state[s] = NoState
    <3>1. Cardinality(served[s]) = 0
      BY <2>1, FS_EmptySet DEF SwitchInv
    <3>2. QED
      BY <3>1, GpCrcAssumption
  <2>2. CASE state[s] # NoState
    <3>1. state[s].switches \in 0 .. MaxSwitches
      BY <2>2 DEF TypeOK, SafeTrustState
    <3>2. Cardinality(served[s]) \in Nat /\ Cardinality(served[s]) <= state[s].switches + 1
      BY <2>2, FS_CardinalityType DEF SwitchInv
    <3>3. QED
      BY <3>1, <3>2, GpCrcAssumption
  <2>3. QED
    BY <2>1, <2>2
<1>2. QED
  BY <1>1, TypeInit, TypeNext, SwitchInit, SwitchNext, PTL DEF Spec

-----------------------------------------------------------------------------
(* One trustee for each safe.  What a run is about to reach never has more *)
(* trustees than there are safes, and the trustees of the moment are some  *)
(* of those once it may trust.                                             *)

Reached == (trust \ run.untrust) \cup run.trust

FewerThanSafes(avatars) ==
    /\ IsFiniteSet(avatars)
    /\ Cardinality(avatars) <= Cardinality(Safes)

TrusteesInv ==
    /\ FewerThanSafes(trust)
    /\ run.stage \in {"untrust", "trust"} => FewerThanSafes(Reached)
    /\ run.stage = "trust" => run.untrust = {}
    /\ run.stage = "safes" => run.trustees = trust

\* Part of a set that is small enough is small enough.
LEMMA FewerInPart ==
    ASSUME NEW whole, FewerThanSafes(whole), NEW part \in SUBSET whole
    PROVE  FewerThanSafes(part)
  BY FS_Subset, FS_CardinalityType, GpCrcAssumption DEF FewerThanSafes

\* Safes count for one avatar each: the avatars they count for are no more.
LEMMA OneAvatarPerSafe ==
    ASSUME NEW eligible, NEW found \in SUBSET Safes, NEW stored,
           \A a \in eligible : \E s \in found : stored[s].avatar = a
    PROVE  FewerThanSafes(eligible)
<1> DEFINE f == [a \in eligible |-> CHOOSE s \in found : stored[s].avatar = a]
<1>1. \A a \in eligible : f[a] \in Safes /\ stored[f[a]].avatar = a
  OBVIOUS
<1>2. f \in Injection(eligible, Safes)
  <2>1. f \in [eligible -> Safes]
    BY <1>1
  <2>2. \A a, b \in eligible : f[a] = f[b] => a = b
    BY <1>1
  <2> HIDE DEF f
  <2>3. QED
    BY <2>1, <2>2, Fun_IsInj
<1> HIDE DEF f
<1>3. IsFiniteSet(eligible) /\ Cardinality(eligible) <= Cardinality(Safes)
  BY <1>2, FS_Injection, GpCrcAssumption
<1>4. QED
  BY <1>3 DEF FewerThanSafes

LEMMA TrusteesInit == Init => TrusteesInv
  BY FS_EmptySet, FS_CardinalityType, GpCrcAssumption
  DEF Init, TrusteesInv, FewerThanSafes, Idle

\* The plan: what the run will reach are the avatars that safes count for.
LEMMA DecideTrustees == TypeOK /\ TrusteesInv /\ Decide => TrusteesInv'
<1> SUFFICES ASSUME TypeOK, TrusteesInv, Decide PROVE TrusteesInv'
  OBVIOUS
<1>1. PICK found \in SUBSET Safes :
        Plan({a \in run.allowed : \E s \in found : state'[s].avatar = a})
  BY DEF Decide
<1> DEFINE eligible == {a \in run.allowed : \E s \in found : state'[s].avatar = a}
<1>2. FewerThanSafes(eligible)
  <2>1. \A a \in eligible : \E s \in found : state'[s].avatar = a
    OBVIOUS
  <2> HIDE DEF eligible
  <2>2. QED
    BY <2>1, OneAvatarPerSafe
<1>3. Plan(eligible) /\ trust' = trust /\ run.trustees = trust
  BY <1>1 DEF Decide, TrusteesInv
<1> HIDE DEF eligible
<1>4. /\ run'.stage = "untrust" /\ run'.untrust = trust \ eligible
      /\ run'.trust = eligible \ trust
  BY <1>3 DEF Plan, TypeOK
<1>5. Reached' = eligible
  BY <1>3, <1>4 DEF Reached
<1>6. FewerThanSafes(Reached)' /\ FewerThanSafes(trust)'
  BY <1>2, <1>3, <1>5 DEF FewerThanSafes, TrusteesInv
<1>7. QED
  BY <1>4, <1>6 DEF TrusteesInv

LEMMA TrusteesNext == TypeOK /\ TrusteesInv /\ [Next]_vars => TrusteesInv'
<1> SUFFICES ASSUME TypeOK, TrusteesInv, [Next]_vars PROVE TrusteesInv'
  OBVIOUS
<1>1. ASSUME UNCHANGED <<trust, run>> PROVE TrusteesInv'
  BY <1>1 DEF TrusteesInv, FewerThanSafes, Reached
<1>2. ASSUME FewerThanSafes(trust'), run' = Idle PROVE TrusteesInv'
  BY <1>2 DEF TrusteesInv, FewerThanSafes, Idle
<1>3. CASE WorldStep
  BY <1>1, <1>3 DEF WorldStep, Register, Link, Unlink, BlacklistChanges, workerUnchanged
<1>4. CASE BeginRun
  <2>1. run'.stage = "safes" /\ run'.trustees = trust /\ trust' = trust
    BY <1>4 DEF BeginRun, Idle
  <2>2. QED
    BY <2>1 DEF TrusteesInv, FewerThanSafes
<1>5. CASE Decide
  BY <1>5, DecideTrustees
<1>6. CASE UntrustBatch
  <2>1. PICK batch \in SUBSET run.untrust :
            trust' = trust \ batch /\ run' = [run EXCEPT !.untrust = @ \ batch]
    BY <1>6 DEF UntrustBatch
  <2>2. /\ run.stage = "untrust" /\ run'.stage = "untrust"
        /\ run'.untrust = run.untrust \ batch /\ run'.trust = run.trust
    BY <1>6, <2>1 DEF UntrustBatch, TypeOK
  <2>3. trust' \subseteq trust /\ Reached' \subseteq Reached
    BY <2>1, <2>2 DEF Reached
  <2>4. FewerThanSafes(trust') /\ FewerThanSafes(Reached')
    BY <2>2, <2>3, FewerInPart DEF TrusteesInv
  <2>5. QED
    BY <2>2, <2>4 DEF TrusteesInv, FewerThanSafes
<1>7. CASE Untrusted
  <2>1. /\ run.stage = "untrust" /\ run'.stage = "trust" /\ trust' = trust
        /\ run'.untrust = {} /\ run.untrust = {} /\ run'.trust = run.trust
    BY <1>7 DEF Untrusted, TypeOK
  <2>2. QED
    BY <2>1 DEF TrusteesInv, FewerThanSafes, Reached
<1>8. CASE TrustBatch
  <2>1. PICK batch \in SUBSET run.trust :
            trust' = trust \cup batch /\ run' = [run EXCEPT !.trust = @ \ batch]
    BY <1>8 DEF TrustBatch
  <2>2. /\ run.stage = "trust" /\ run'.stage = "trust" /\ run.untrust = {}
        /\ run'.untrust = {} /\ run'.trust = run.trust \ batch
    BY <1>8, <2>1 DEF TrustBatch, TypeOK, TrusteesInv
  <2>3. trust' \subseteq Reached /\ Reached' \subseteq Reached
    BY <2>1, <2>2 DEF Reached
  <2>4. FewerThanSafes(trust') /\ FewerThanSafes(Reached')
    BY <2>2, <2>3, FewerInPart DEF TrusteesInv
  <2>5. QED
    BY <2>2, <2>4 DEF TrusteesInv, FewerThanSafes
<1>9. CASE EndRun
  BY <1>2, <1>9 DEF EndRun, TrusteesInv
<1>10. CASE RunFails \/ Crash
  <2>1. trust' = trust /\ run' = Idle
    BY <1>10, FailTyped DEF RunFails, Crash, Exit
  <2>2. QED
    BY <1>2, <2>1 DEF TrusteesInv
<1>11. CASE BatchReportedFailed
  <2>1. run' = Idle
    BY <1>11, FailTyped DEF BatchReportedFailed
  <2>2. CASE run.stage = "untrust"
    <3>1. trust' \subseteq trust
      BY <1>11, <2>2 DEF BatchReportedFailed
    <3>2. QED
      BY <1>2, <2>1, <3>1, FewerInPart DEF TrusteesInv
  <2>3. CASE run.stage = "trust"
    <3>1. trust' \subseteq Reached
      BY <1>11, <2>3 DEF BatchReportedFailed, Reached, TrusteesInv
    <3>2. QED
      BY <1>2, <2>1, <2>3, <3>1, FewerInPart DEF TrusteesInv
  <2>4. QED
    BY <1>11, <2>2, <2>3 DEF BatchReportedFailed
<1>12. CASE UNCHANGED vars
  BY <1>1, <1>12 DEF vars
<1>13. QED
  BY <1>3, <1>4, <1>5, <1>6, <1>7, <1>8, <1>9, <1>10, <1>11, <1>12 DEF Next, RunStep

\* There are never more trustees than safes: an owner who has lost a safe is
\* untrusted before its successor is trusted (logic.ts:285-363).
THEOREM OneTrusteePerSafe == Spec => []NoMoreTrusteesThanSafes
<1>1. TrusteesInv => NoMoreTrusteesThanSafes
  BY DEF TrusteesInv, FewerThanSafes, NoMoreTrusteesThanSafes
<1>2. QED
  BY <1>1, TypeInit, TypeNext, TrusteesInit, TrusteesNext, PTL DEF Spec
\* What a process does that runs any worker, gp-crc does or it rests.
LEMMA GpCrcWithin == WorkersSpec => Spec
<1>1. WorkersInit => Init
  BY DEF WorkersInit
<1>2. [SmallNext \/ GpCrcNext]_workersVars => [Next]_vars
  BY DEF SmallNext, GpCrcNext, workersVars
<1>3. QED
  BY <1>1, <1>2, PTL DEF WorkersSpec, Spec

\* What gp-crc promises it promises among the workers too, of which one runs.
THEOREM GpCrcPromises == WorkersSpec => [](SwitchesBounded /\ NoMoreTrusteesThanSafes)
  BY GpCrcWithin, SwitchesAlwaysBounded, OneTrusteePerSafe, PTL
=============================================================================
