-------------------------- MODULE CommunityNewProofs --------------------------
(***************************************************************************)
(* The community-new worker, for any avatars, groups, scores, caps and     *)
(* batch sizes and under every failure of the model: its two maps say what *)
(* the registries say, a cycle takes away no more than the caps allow, and *)
(* nobody loses the trust who has a lasting right to it.  And the          *)
(* affiliate map with its row, which group-affiliates has too.             *)
(***************************************************************************)
EXTENDS CommunityNew, DataLemmas

-----------------------------------------------------------------------------
(* The affiliate map and its row, for any humans, groups and blocks. *)

\* A map whose two indexes agree.
Exact(m) == m \in AffiliateMapType /\ m.toHumans = MembersOf(m.toGroup)

\* set() keeps the two indexes in step, and its scan position does not go back.
LEMMA MapSetExact ==
    ASSUME NEW m, Exact(m), NEW h \in Humans, NEW g \in Groups, NEW b \in Int
    PROVE  /\ Exact(MapSet(m, h, g, b))
           /\ MapSet(m, h, g, b).block >= m.block
<1> DEFINE n == MapSet(m, h, g, b)
<1>1. m.toGroup \in Entries /\ m.toHumans \in [Groups -> SUBSET Humans] /\ m.block \in Int
  BY DEF Exact, AffiliateMapType
<1>2. CASE m.toGroup[h] = g
  <2>1. n = [m EXCEPT !.block = Later(b, m.block)]
    BY <1>2 DEF MapSet
  <2>2. Later(b, m.block) \in Int /\ Later(b, m.block) >= m.block
    BY <1>1 DEF Later
  <2>3. QED
    BY <2>1, <2>2 DEF Exact, AffiliateMapType
<1>3. CASE m.toGroup[h] # g
  <2>1. /\ n.toGroup = [m.toGroup EXCEPT ![h] = g]
        /\ n.toHumans = [x \in Groups |->
                IF x = g THEN m.toHumans[x] \cup {h}
                ELSE IF x = m.toGroup[h] THEN m.toHumans[x] \ {h}
                ELSE m.toHumans[x]]
        /\ n.block = Later(b, m.block)
        /\ n \in [toGroup : {n.toGroup}, toHumans : {n.toHumans},
                  block : {n.block}, dirty : BOOLEAN]
    BY <1>3 DEF MapSet
  <2>2. n.toGroup \in Entries
    BY <1>1, <2>1 DEF Entries
  <2>3. n.block \in Int /\ n.block >= m.block
    BY <1>1, <2>1 DEF Later
  <2>4. n.toHumans = MembersOf(n.toGroup)
    <3>1. \A x \in Groups : m.toHumans[x] = {k \in Humans : m.toGroup[k] = x}
      BY DEF Exact, MembersOf
    <3>2. ASSUME NEW x \in Groups
          PROVE  n.toHumans[x] = {k \in Humans : n.toGroup[k] = x}
      <4>1. \A k \in Humans : n.toGroup[k] = IF k = h THEN g ELSE m.toGroup[k]
        BY <1>1, <2>1 DEF Entries
      <4>2. CASE x = g
        BY <2>1, <3>1, <4>1, <4>2
      <4>3. CASE x # g /\ x = m.toGroup[h]
        BY <2>1, <3>1, <4>1, <4>3
      <4>4. CASE x # g /\ x # m.toGroup[h]
        BY <2>1, <3>1, <4>1, <4>4
      <4>5. QED
        BY <4>2, <4>3, <4>4
    <3>3. QED
      BY <2>1, <3>2 DEF MembersOf
  <2>5. n.toHumans \in [Groups -> SUBSET Humans]
    BY <2>4 DEF MembersOf
  <2>6. QED
    BY <2>1, <2>2, <2>3, <2>4, <2>5 DEF Exact, AffiliateMapType
<1>4. QED
  BY <1>2, <1>3

\* So does moving the scan position.
LEMMA AdvanceToExact ==
    ASSUME NEW m, Exact(m), NEW b \in Int
    PROVE  /\ Exact(AdvanceTo(m, b))
           /\ AdvanceTo(m, b).block >= m.block
           /\ AdvanceTo(m, b).toGroup = m.toGroup
<1>1. CASE b > m.block
  <2>1. AdvanceTo(m, b) = [m EXCEPT !.block = b, !.dirty = TRUE]
    BY <1>1 DEF AdvanceTo
  <2>2. m \in AffiliateMapType /\ b >= m.block
    BY <1>1 DEF Exact, AffiliateMapType
  <2>3. QED
    BY <2>1, <2>2 DEF Exact, AffiliateMapType
<1>2. CASE ~(b > m.block)
  BY <1>2 DEF Exact, AffiliateMapType, AdvanceTo
<1>3. QED
  BY <1>1, <1>2

\* A map built from a snapshot has both indexes.
LEMMA FromSnapshotExact ==
    ASSUME NEW s \in SnapshotType
    PROVE  /\ Exact(FromSnapshot(s))
           /\ FromSnapshot(s).block = s.block
           /\ FromSnapshot(s).toGroup = s.entries
           /\ ~FromSnapshot(s).dirty
BY DEF Exact, FromSnapshot, AffiliateMapType, SnapshotType, MembersOf

\* ... and is what it was saved as.
LEMMA SnapshotType1 ==
    ASSUME NEW m, Exact(m)
    PROVE  /\ Snapshot(m) \in SnapshotType
           /\ Snapshot(m).block = m.block
           /\ Snapshot(m).entries = m.toGroup
BY DEF Exact, AffiliateMapType, Snapshot, SnapshotType

LEMMA FreshExact ==
    Exact(Fresh) /\ ~Fresh.dirty /\ Fresh.toGroup = [h \in Humans |-> NoGroup]
<1>1. EmptySnapshot(StartBlock - 1) \in SnapshotType
  BY StoreAssumption DEF EmptySnapshot, SnapshotType, Entries
<1>2. QED
  BY <1>1, FromSnapshotExact DEF Fresh, EmptySnapshot

-----------------------------------------------------------------------------
\* The map a restart would begin with, were the store to answer.
Reloaded == IF stored = NoRow THEN Fresh ELSE FromSnapshot(stored)

IInv ==
    /\ TypeOK
    /\ Exact(map)
    /\ CleanEntriesStored

LEMMA InitInv == Init => IInv
BY FreshExact DEF Init, IInv, TypeOK, Exact, CleanEntriesStored

\* A step never loses the agreement of the indexes, nor an entry of a clean map.
LEMMA NextInv == IInv /\ [Next]_vars => IInv'
<1> SUFFICES ASSUME IInv, [Next]_vars
             PROVE  IInv'
  OBVIOUS
<1>0. /\ map \in AffiliateMapType /\ lost \in BOOLEAN /\ Exact(map)
      /\ stored = NoRow \/ stored \in SnapshotType
      /\ stored # NoRow => stored.block \in Int
  BY DEF IInv, TypeOK, SnapshotType
<1>1. ASSUME NEW h \in Humans, NEW g \in Groups, NEW b \in StartBlock .. MaxBlock, Set(h, g, b)
      PROVE  IInv'
  <2>1. b \in Int
    BY StoreAssumption
  <2>2. Exact(map') /\ map'.block >= map.block /\ UNCHANGED <<stored, lost>>
    BY <1>0, <1>1, <2>1, MapSetExact DEF Set
  <2>3. map.toGroup[h] = g => map'.toGroup = map.toGroup /\ map'.dirty = map.dirty
    BY <1>0, <1>1 DEF Set, MapSet, AffiliateMapType
  <2>4. map.toGroup[h] # g => map'.dirty
    BY <1>1 DEF Set, MapSet
  <2>5. CleanEntriesStored'
    BY <2>2, <2>3, <2>4 DEF IInv, CleanEntriesStored
  <2>6. QED
    BY <1>0, <2>2, <2>5 DEF IInv, TypeOK, Exact
<1>2. ASSUME NEW b \in StartBlock .. MaxBlock, AdvanceCursor(b)
      PROVE  IInv'
  <2>1. b \in Int
    BY StoreAssumption
  <2>2. /\ Exact(map') /\ map'.block >= map.block /\ map'.toGroup = map.toGroup
        /\ UNCHANGED <<stored, lost>>
    BY <1>0, <1>2, <2>1, AdvanceToExact DEF AdvanceCursor
  <2>3. map'.dirty \/ map' = map
    BY <1>2 DEF AdvanceCursor, AdvanceTo, Exact, AffiliateMapType
  <2>4. CleanEntriesStored'
    BY <2>2, <2>3 DEF IInv, CleanEntriesStored
  <2>5. QED
    BY <1>0, <2>2, <2>4 DEF IInv, TypeOK, Exact
<1>3. ASSUME Save
      PROVE  IInv'
  <2>1. /\ Exact(map') /\ map'.block = map.block /\ map'.toGroup = map.toGroup
    BY <1>0, <1>3 DEF Save, SaveAs, Exact, AffiliateMapType
  <2>2. CASE stored' = Snapshot(map) /\ UNCHANGED lost
    <3>1. /\ stored' \in SnapshotType /\ stored' # NoRow
          /\ stored'.block = map.block /\ stored'.entries = map.toGroup
      BY <1>0, <2>2, SnapshotType1, StoreAssumption
    <3>2. FromSnapshot(stored').toGroup = map'.toGroup
      BY <2>1, <3>1, FromSnapshotExact
    <3>3. CleanEntriesStored'
      BY <1>0, <2>1, <3>1, <3>2 DEF CleanEntriesStored
    <3>4. QED
      BY <1>0, <2>1, <2>2, <3>1, <3>3 DEF IInv, TypeOK, Exact
  <2>3. CASE UNCHANGED stored /\ lost' = TRUE
    BY <1>0, <2>1, <2>3 DEF IInv, TypeOK, Exact, CleanEntriesStored
  <2>4. QED
    BY <1>3, <2>2, <2>3 DEF Save, SaveAs
<1>4. ASSUME Restart
      PROVE  IInv'
  <2>1. CASE map' = Reloaded /\ UNCHANGED <<stored, lost>>
    <3>1. Exact(map')
      BY <1>0, <2>1, FreshExact, FromSnapshotExact DEF Reloaded
    <3>2. CleanEntriesStored'
      BY <2>1 DEF CleanEntriesStored, Reloaded
    <3>3. QED
      BY <1>0, <2>1, <3>1, <3>2 DEF IInv, TypeOK, Exact
  <2>2. CASE map' = Fresh /\ lost' = TRUE /\ UNCHANGED stored
    BY <1>0, <2>2, FreshExact DEF IInv, TypeOK, Exact, CleanEntriesStored
  <2>3. QED
    BY <1>4, <2>1, <2>2 DEF Restart, Reloaded
<1>5. CASE UNCHANGED vars
  BY <1>0, <1>5 DEF vars, IInv, TypeOK, Exact, CleanEntriesStored
<1>6. QED
  BY <1>1, <1>2, <1>3, <1>4, <1>5 DEF Next

\* The map and its row have their types.
THEOREM MapTyped == Spec => []TypeOK
<1>1. IInv => TypeOK
  BY DEF IInv
<1>2. QED
  BY <1>1, InitInv, NextInv, PTL DEF Spec

\* The reverse index is the inverse of the forward index in every reachable
\* state: reconciliation is given exactly the humans of a group.
THEOREM ReverseIndexAlwaysExact == Spec => []ReverseIndexExact
<1>1. IInv => ReverseIndexExact
  BY DEF IInv, Exact, ReverseIndexExact
<1>2. QED
  BY <1>1, InitInv, NextInv, PTL DEF Spec

\* While no operation of the store has failed, a map that is not dirty has all its
\* entries in the row.
THEOREM CleanEntriesAlwaysStored == Spec => []CleanEntriesStored
<1>1. IInv => CleanEntriesStored
  BY DEF IInv
<1>2. QED
  BY <1>1, InitInv, NextInv, PTL DEF Spec

-----------------------------------------------------------------------------
(* Logs in the order of their blocks. *)

\* Finitely many logs, at most one of them in a block.
Ordered(events) ==
    /\ IsFiniteSet(events)
    /\ \A e \in events : e.block \in Int
    /\ \A e, f \in events : e.block = f.block => e = f

LEMMA OrderedPart ==
    ASSUME NEW events, Ordered(events), NEW part \in SUBSET events
    PROVE  Ordered(part)
  BY FS_Subset DEF Ordered

\* One of them is the latest.
LEMMA LatestExists ==
    ASSUME NEW events, Ordered(events), events # {}
    PROVE  Latest(events) \in events /\ \A f \in events : f.block <= Latest(events).block
<1> DEFINE blocks == {e.block : e \in events}
           blockOf == [e \in events |-> e.block]
<1>1. blockOf \in Surjection(events, blocks)
  BY Fun_IsSurj
<1>2. IsFiniteSet(blocks) /\ blocks \in SUBSET Int /\ blocks # {}
  BY <1>1, FS_Surjection DEF Ordered
<1>3. PICK b \in blocks : \A c \in blocks : c <= b
  <2> HIDE DEF blocks
  <2> QED
    BY <1>2, LargestExists
<1>4. \E e \in events : \A f \in events : f.block <= e.block
  BY <1>3
<1> QED
  BY <1>4 DEF Latest

\* The latest of all is the latest of those it is among.
LEMMA LatestOfPart ==
    ASSUME NEW events, Ordered(events), NEW part \in SUBSET events, Latest(events) \in part
    PROVE  Latest(part) = Latest(events)
<1>1. Ordered(part) /\ part # {} /\ events # {}
  BY OrderedPart
<1>2. /\ Latest(part) \in part /\ Latest(events).block <= Latest(part).block
      /\ Latest(part).block <= Latest(events).block
  BY <1>1, LatestExists
<1> QED
  BY <1>2 DEF Ordered

\* A log in a later block than all others is the latest.
LEMMA NewestIsLatest ==
    ASSUME NEW before, NEW e, e.block \in Int, \A f \in before : f.block \in Int /\ f.block < e.block
    PROVE  Latest(before \cup {e}) = e
<1>1. \A f \in before \cup {e} : f.block <= e.block
  OBVIOUS
<1>2. \A x \in before \cup {e} : (\A f \in before \cup {e} : f.block <= x.block) => x = e
  OBVIOUS
<1> QED
  BY <1>1, <1>2 DEF Latest

\* What the registries say once a log is added.
LEMMA ListedExtends ==
    ASSUME NEW before \in SUBSET MultiEvent, NEW e \in MultiEvent,
           \A f \in before : f.block < e.block
    PROVE  Listed(before \cup {e}) =
              IF e.type = "add" THEN Listed(before) \cup {<<e.avatar, e.group>>}
                                ELSE Listed(before) \ {<<e.avatar, e.group>>}
<1> DEFINE pair == <<e.avatar, e.group>>
           of(events, m) == {f \in events : <<f.avatar, f.group>> = m}
           says(events, m) == of(events, m) # {} /\ Latest(of(events, m)).type = "add"
<1>1. pair \in Member /\ e.block \in Int /\ \A f \in before : f.block \in Int
  BY DEF MultiEvent, Member
<1>2. \A events : Listed(events) = {m \in Member : says(events, m)}
  BY DEF Listed
<1>3. \A m \in Member : m # pair => of(before \cup {e}, m) = of(before, m)
  OBVIOUS
<1>4. of(before \cup {e}, pair) = of(before, pair) \cup {e}
  OBVIOUS
<1>5. Latest(of(before, pair) \cup {e}) = e
  BY <1>1, NewestIsLatest
<1>6. says(before \cup {e}, pair) <=> e.type = "add"
  BY <1>4, <1>5
<1>7. \A m \in Member : m # pair => (says(before \cup {e}, m) <=> says(before, m))
  BY <1>3
<1> HIDE DEF says
<1> QED
  BY <1>1, <1>2, <1>6, <1>7

LEMMA GroupInExtends ==
    ASSUME NEW before \in SUBSET OldEvent, NEW e \in OldEvent,
           \A f \in before : f.block < e.block, NEW h
    PROVE  GroupIn(before \cup {e}, h) = IF e.human = h THEN e.to ELSE GroupIn(before, h)
<1> DEFINE mine == {f \in before : f.human = h}
<1>1. e.block \in Int /\ \A f \in before : f.block \in Int
  BY DEF OldEvent
<1>2. CASE e.human = h
  <2>1. {f \in before \cup {e} : f.human = h} = mine \cup {e}
    BY <1>2
  <2>2. Latest(mine \cup {e}) = e
    BY <1>1, NewestIsLatest
  <2> HIDE DEF mine
  <2> QED
    BY <1>2, <2>1, <2>2 DEF GroupIn
<1>3. CASE e.human # h
  <2>1. {f \in before \cup {e} : f.human = h} = mine
    BY <1>3
  <2> QED
    BY <1>3, <2>1 DEF GroupIn
<1> QED
  BY <1>2, <1>3

-----------------------------------------------------------------------------
(* The chain: what the worker may count on about the logs. *)

LogsInv ==
    /\ head \in Nat
    /\ multiLog \subseteq MultiEvent /\ oldLog \subseteq OldEvent
    /\ \A e \in multiLog : DeployBlock <= e.block /\ e.block <= head
    /\ \A e \in oldLog : StartBlock <= e.block /\ e.block <= head /\ e.from # e.to
    /\ \A e, f \in multiLog : e.block = f.block => e = f
    /\ \A e, f \in oldLog : e.block = f.block => e = f

\* The logs of the chain so far are finitely many.
LEMMA LogsOrdered == LogsInv => Ordered(multiLog) /\ Ordered(oldLog)
<1> SUFFICES ASSUME LogsInv PROVE Ordered(multiLog) /\ Ordered(oldLog)
  OBVIOUS
<1>1. ASSUME NEW events, \A e \in events : e.block \in Nat /\ e.block <= head,
             \A e, f \in events : e.block = f.block => e = f
      PROVE  Ordered(events)
  <2> DEFINE blockOf == [e \in events |-> e.block]
  <2>1. blockOf \in [events -> 0 .. head] /\ head \in Int
    BY <1>1 DEF LogsInv
  <2>2. blockOf \in Injection(events, 0 .. head)
    <3>1. \A e, f \in events : blockOf[e] = blockOf[f] => e = f
      BY <1>1
    <3> HIDE DEF blockOf
    <3> QED
      BY <2>1, <3>1, Fun_IsInj
  <2>3. IsFiniteSet(0 .. head)
    BY <2>1, FS_Interval
  <2> HIDE DEF blockOf
  <2>4. IsFiniteSet(events)
    BY <2>2, <2>3, FS_Injection
  <2> QED
    BY <1>1, <2>4 DEF Ordered
<1>2. \A e \in multiLog : e.block \in Nat
  BY DEF LogsInv, MultiEvent
<1>3. \A e \in oldLog : e.block \in Nat
  BY DEF LogsInv, OldEvent
<1> QED
  BY <1>1, <1>2, <1>3 DEF LogsInv

\* The affiliate group of a human is always a group.
LEMMA GroupInTyped ==
    ASSUME LogsInv, NEW h
    PROVE  GroupIn(oldLog, h) \in Groups
<1> DEFINE mine == {e \in oldLog : e.human = h}
<1>1. CASE mine = {}
  BY <1>1, RegistriesAssumption DEF GroupIn
<1>2. CASE mine # {}
  <2>1. Ordered(mine)
    BY LogsOrdered, OrderedPart
  <2>2. Latest(mine) \in mine
    BY <1>2, <2>1, LatestExists
  <2> QED
    BY <1>2, <2>2 DEF GroupIn, LogsInv, OldEvent
<1> QED
  BY <1>1, <1>2

-----------------------------------------------------------------------------
(* Replays. *)

Maps == [members : SUBSET Member, block : Int, dirty : BOOLEAN]

LEMMA ApplyEventTyped ==
    ASSUME NEW m \in Maps, NEW e \in MultiEvent
    PROVE  ApplyEvent(m, e) \in Maps
<1>1. <<e.avatar, e.group>> \in Member /\ e.block \in Int
  BY DEF MultiEvent, Member
<1>2. Later(e.block, m.block) \in Int
  BY <1>1 DEF Later, Maps
<1> QED
  BY <1>1, <1>2 DEF ApplyEvent, Maps

\* The recursion of applyMultiEvents is well defined.
LEMMA MultiUnfolds ==
    ASSUME NEW m \in Maps, NEW events \in SUBSET MultiEvent, Ordered(events)
    PROVE  \E replay :
              /\ ApplyMulti(m, events) = replay[events]
              /\ \A batch \in SUBSET events :
                    replay[batch] = IF batch = {} THEN m
                                    ELSE ApplyEvent(replay[batch \ {Latest(batch)}], Latest(batch))
<1> DEFINE Step == [p \in Maps \X events |-> ApplyEvent(p[1], p[2])]
           Last1 == [s \in SUBSET events |-> Latest(s)]
           Replays(f) == f = [batch \in SUBSET events |->
                                IF batch = {} THEN m
                                ELSE ApplyEvent(f[batch \ {Latest(batch)}], Latest(batch))]
<1>1. Step \in [Maps \X events -> Maps] /\ IsFiniteSet(events)
  BY ApplyEventTyped DEF Ordered
<1>2. \A s \in (SUBSET events) \ {{}} : Latest(s) \in s
  BY OrderedPart, LatestExists
<1>3. \A s, t \in SUBSET events : s \subseteq t /\ Last1[t] \in s => Last1[s] = Last1[t]
  BY OrderedPart, LatestOfPart
<1>4. PICK f \in [SUBSET events -> Maps] : FoldsAs(f, m, Step, Last1, SUBSET events)
  <2>1. \A s \in (SUBSET events) \ {{}} : Last1[s] \in s
    BY <1>2
  <2> HIDE DEF Step, Last1
  <2> QED
    BY <1>1, <1>3, <2>1, FoldExists
<1>5. Replays(f)
  <2>1. ASSUME NEW batch \in SUBSET events
        PROVE  f[batch] = IF batch = {} THEN m
                          ELSE ApplyEvent(f[batch \ {Latest(batch)}], Latest(batch))
    <3>1. CASE batch = {}
      BY <1>4, <3>1 DEF FoldsAs
    <3>2. CASE batch # {}
      <4>1. Latest(batch) \in events /\ f[batch \ {Latest(batch)}] \in Maps
        BY <1>2, <3>2
      <4>2. f[batch] = Step[<<f[batch \ {Latest(batch)}], Latest(batch)>>]
        <5>1. Last1[batch] = Latest(batch)
          OBVIOUS
        <5> HIDE DEF Last1, Step
        <5> QED
          BY <1>4, <3>2, <5>1 DEF FoldsAs
      <4> QED
        BY <3>2, <4>1, <4>2
    <3> QED
      BY <3>1, <3>2
  <2>2. f = [batch \in SUBSET events |-> f[batch]]
    OBVIOUS
  <2> QED
    BY <2>1, <2>2
<1> DEFINE replay == CHOOSE g : Replays(g)
<1>6. Replays(replay)
  BY <1>5
<1>7. ApplyMulti(m, events) = replay[events]
  BY DEF ApplyMulti
<1> HIDE DEF replay
<1>8. \A batch \in SUBSET events :
        replay[batch] = IF batch = {} THEN m
                        ELSE ApplyEvent(replay[batch \ {Latest(batch)}], Latest(batch))
  BY <1>6
<1> QED
  BY <1>7, <1>8

\* A map that says what the registry says up to a block, and then takes in the logs
\* of later blocks, says what the registry says with these.
LEMMA MultiReplayed ==
    ASSUME NEW m \in Maps, NEW before \in SUBSET MultiEvent, NEW events \in SUBSET MultiEvent,
           Ordered(events), \A e \in before, f \in events : e.block < f.block,
           NEW top \in Int, \A e \in events : e.block <= top, m.block <= top,
           m.members = Listed(before)
    PROVE  /\ ApplyMulti(m, events) \in Maps
           /\ ApplyMulti(m, events).members = Listed(before \cup events)
           /\ m.block <= ApplyMulti(m, events).block /\ ApplyMulti(m, events).block <= top
<1>1. PICK replay :
        /\ ApplyMulti(m, events) = replay[events]
        /\ \A batch \in SUBSET events :
              replay[batch] = IF batch = {} THEN m
                              ELSE ApplyEvent(replay[batch \ {Latest(batch)}], Latest(batch))
  BY MultiUnfolds
<1> DEFINE Says(batch) == /\ replay[batch] \in Maps
                          /\ replay[batch].members = Listed(before \cup batch)
                          /\ m.block <= replay[batch].block /\ replay[batch].block <= top
           Good == {batch \in SUBSET events : Says(batch)}
<1>2. {} \in Good
  <2>1. replay[{}] = m /\ before \cup {} = before
    BY <1>1
  <2> QED
    BY <2>1 DEF Maps
<1>3. ASSUME NEW batch \in (SUBSET events) \ {{}}
      PROVE  \E e \in batch : batch \ {e} \in Good => batch \in Good
  <2> DEFINE e == Latest(batch)
             rest == batch \ {e}
  <2>1. e \in batch /\ \A f \in batch : f.block <= e.block
    BY OrderedPart, LatestExists
  <2> SUFFICES ASSUME rest \in Good PROVE Says(batch)
    BY <2>1
  <2>2. /\ replay[rest] \in Maps /\ replay[rest].members = Listed(before \cup rest)
        /\ m.block <= replay[rest].block /\ replay[rest].block <= top
    OBVIOUS
  <2>3. replay[batch] = ApplyEvent(replay[rest], e)
    BY <1>1
  <2>4. e \in MultiEvent /\ e.block \in Int /\ e.block <= top
    BY <2>1 DEF MultiEvent
  <2>5. \A f \in before \cup rest : f.block < e.block
    <3>1. ASSUME NEW f \in rest PROVE f.block < e.block
      <4>1. f \in events /\ e \in events /\ f # e /\ f.block <= e.block
        BY <2>1
      <4> HIDE DEF e, rest
      <4>2. f.block # e.block /\ f.block \in Int
        BY <4>1 DEF Ordered
      <4> QED
        BY <2>4, <4>1, <4>2
    <3> QED
      BY <2>1, <3>1
  <2>6. before \cup batch = (before \cup rest) \cup {e} /\ before \cup rest \in SUBSET MultiEvent
    BY <2>1
  <2> HIDE DEF e, rest, Good
  <2>7. Listed(before \cup batch) =
            IF e.type = "add" THEN Listed(before \cup rest) \cup {<<e.avatar, e.group>>}
                              ELSE Listed(before \cup rest) \ {<<e.avatar, e.group>>}
    BY <2>4, <2>5, <2>6, ListedExtends
  <2>8. replay[batch] \in Maps
    BY <2>2, <2>3, <2>4, ApplyEventTyped
  <2>9. replay[batch].members = Listed(before \cup batch)
    BY <2>2, <2>3, <2>7 DEF ApplyEvent
  <2>10. replay[batch].block = Later(e.block, replay[rest].block)
    BY <2>3 DEF ApplyEvent
  <2>11. m.block <= replay[batch].block /\ replay[batch].block <= top
    BY <2>2, <2>4, <2>10 DEF Later, Maps
  <2> QED
    BY <2>8, <2>9, <2>11
<1>4. events \in Good
  <2>1. IsFiniteSet(events)
    BY DEF Ordered
  <2> HIDE DEF Good
  <2> QED
    BY <1>2, <1>3, <2>1, SubsetInduction
<1> QED
  BY <1>1, <1>4

\* The same for the affiliate map.
Unfolds(replay, m, events) ==
    /\ ApplyOld(m, events) = replay[events]
    /\ \A batch \in SUBSET events :
          replay[batch] = IF batch = {} THEN m
                          ELSE LET e == Latest(batch)
                               IN  MapSet(replay[batch \ {e}], e.human, e.to, e.block)

LEMMA OldUnfolds ==
    ASSUME NEW m, Exact(m), NEW events \in SUBSET OldEvent, Ordered(events)
    PROVE  \E replay : Unfolds(replay, m, events)
<1> DEFINE exact == {x \in AffiliateMapType : Exact(x)}
           set(x, e) == MapSet(x, e.human, e.to, e.block)
           Step == [p \in exact \X events |-> set(p[1], p[2])]
           Last1 == [s \in SUBSET events |-> Latest(s)]
           Replays(f) == f = [batch \in SUBSET events |->
                                IF batch = {} THEN m
                                ELSE LET e == Latest(batch)
                                     IN  MapSet(f[batch \ {e}], e.human, e.to, e.block)]
<1>1. m \in exact /\ IsFiniteSet(events)
  BY DEF Exact, Ordered
<1>2. ASSUME NEW x \in exact, NEW e \in events PROVE set(x, e) \in exact
  <2>1. e.human \in Humans /\ e.to \in Groups /\ e.block \in Int
    BY DEF OldEvent
  <2>2. Exact(set(x, e))
    BY <2>1, MapSetExact
  <2> HIDE DEF set
  <2> QED
    BY <2>2 DEF Exact
<1>3. \A s \in (SUBSET events) \ {{}} : Latest(s) \in s
  BY OrderedPart, LatestExists
<1>4. \A s, t \in SUBSET events : s \subseteq t /\ Last1[t] \in s => Last1[s] = Last1[t]
  BY OrderedPart, LatestOfPart
<1> HIDE DEF exact
<1>5. PICK f \in [SUBSET events -> exact] : FoldsAs(f, m, Step, Last1, SUBSET events)
  <2>1. Step \in [exact \X events -> exact]
    <3> HIDE DEF set
    <3> QED
      BY <1>2
  <2>2. \A s \in (SUBSET events) \ {{}} : Last1[s] \in s
    BY <1>3
  <2> HIDE DEF Step, Last1
  <2> QED
    BY <1>1, <1>4, <2>1, <2>2, FoldExists
<1>6. Replays(f)
  <2>1. ASSUME NEW batch \in SUBSET events
        PROVE  f[batch] = IF batch = {} THEN m ELSE set(f[batch \ {Latest(batch)}], Latest(batch))
    <3>1. CASE batch = {}
      BY <1>5, <3>1 DEF FoldsAs
    <3>2. CASE batch # {}
      <4>1. Latest(batch) \in events /\ f[batch \ {Latest(batch)}] \in exact
        BY <1>3, <3>2
      <4>2. f[batch] = Step[<<f[batch \ {Latest(batch)}], Latest(batch)>>]
        <5>1. Last1[batch] = Latest(batch)
          OBVIOUS
        <5> HIDE DEF Last1, Step
        <5> QED
          BY <1>5, <3>2, <5>1 DEF FoldsAs
      <4> HIDE DEF set
      <4> QED
        BY <3>2, <4>1, <4>2
    <3> QED
      BY <3>1, <3>2
  <2>2. f = [batch \in SUBSET events |-> f[batch]]
    OBVIOUS
  <2> QED
    BY <2>1, <2>2
<1> DEFINE replay == CHOOSE g : Replays(g)
<1>7. Replays(replay)
  BY <1>6
<1>8. ApplyOld(m, events) = replay[events]
  BY DEF ApplyOld
<1> HIDE DEF replay
<1>9. Unfolds(replay, m, events)
  BY <1>7, <1>8 DEF Unfolds
<1> QED
  BY <1>9

\* What an affiliate map says of a human: ZeroGroup when it has no entry.
SaysGroup(entries, h) == IF entries[h] = NoGroup THEN ZeroGroup ELSE entries[h]

LEMMA OldReplayed ==
    ASSUME NEW m \in AffiliateMapType, Exact(m), NEW before \in SUBSET OldEvent, NEW events \in SUBSET OldEvent,
           Ordered(events), \A e \in before, f \in events : e.block < f.block,
           NEW top \in Int, \A e \in events : e.block <= top, m.block <= top,
           \A h \in Humans : SaysGroup(m.toGroup, h) = GroupIn(before, h)
    PROVE  /\ Exact(ApplyOld(m, events))
           /\ \A h \in Humans : SaysGroup(ApplyOld(m, events).toGroup, h)
                                    = GroupIn(before \cup events, h)
           /\ m.block <= ApplyOld(m, events).block /\ ApplyOld(m, events).block <= top
<1>1. PICK replay : Unfolds(replay, m, events)
  BY OldUnfolds
<1> DEFINE Says(batch) == /\ Exact(replay[batch])
                          /\ \A h \in Humans : SaysGroup(replay[batch].toGroup, h)
                                                    = GroupIn(before \cup batch, h)
                          /\ m.block <= replay[batch].block /\ replay[batch].block <= top
           Good == {batch \in SUBSET events : Says(batch)}
<1>2. {} \in Good
  <2>1. replay[{}] = m /\ before \cup {} = before
    BY <1>1 DEF Unfolds
  <2>2. m.block \in Int
    BY DEF Exact, AffiliateMapType
  <2> QED
    BY <2>1, <2>2
<1>3. ASSUME NEW batch \in (SUBSET events) \ {{}}
      PROVE  \E e \in batch : batch \ {e} \in Good => batch \in Good
  <2> DEFINE e == Latest(batch)
             rest == batch \ {e}
  <2>1. e \in batch /\ \A f \in batch : f.block <= e.block
    BY OrderedPart, LatestExists
  <2> SUFFICES ASSUME rest \in Good PROVE Says(batch)
    BY <2>1
  <2>2. Says(rest)
    OBVIOUS
  <2>3. replay[batch] = MapSet(replay[rest], e.human, e.to, e.block)
    BY <1>1 DEF Unfolds
  <2>4. e \in OldEvent /\ e.human \in Humans /\ e.to \in Groups /\ e.block \in Int /\ e.block <= top
    BY <2>1 DEF OldEvent
  <2>5. \A f \in before \cup rest : f.block < e.block
    <3>1. ASSUME NEW f \in rest PROVE f.block < e.block
      <4>1. f \in events /\ e \in events /\ f # e /\ f.block <= e.block
        BY <2>1
      <4> HIDE DEF e, rest
      <4>2. f.block # e.block /\ f.block \in Int
        BY <4>1 DEF Ordered
      <4> QED
        BY <2>4, <4>1, <4>2
    <3> QED
      BY <2>1, <3>1
  <2>6. before \cup batch = (before \cup rest) \cup {e} /\ before \cup rest \in SUBSET OldEvent
    BY <2>1
  <2> HIDE DEF e, rest, Good
  <2>7. ASSUME NEW h \in Humans
        PROVE  GroupIn(before \cup batch, h) =
                   IF e.human = h THEN e.to ELSE GroupIn(before \cup rest, h)
    <3>1. before \cup rest \in SUBSET OldEvent
      BY <2>6
    <3>2. GroupIn((before \cup rest) \cup {e}, h) =
                   IF e.human = h THEN e.to ELSE GroupIn(before \cup rest, h)
      BY <2>4, <2>5, <3>1, GroupInExtends
    <3> QED
      BY <2>6, <3>2
  <2>8. Exact(replay[batch]) /\ replay[rest].block <= replay[batch].block
    BY <2>2, <2>3, <2>4, MapSetExact
  <2>9. /\ replay[batch].toGroup = [replay[rest].toGroup EXCEPT ![e.human] = e.to]
        /\ replay[batch].block = Later(e.block, replay[rest].block)
    <3>1. replay[rest] \in AffiliateMapType
      BY <2>2 DEF Exact
    <3> QED
      BY <2>3, <2>4, <3>1 DEF MapSet, AffiliateMapType, Entries
  <2>10. \A h \in Humans : SaysGroup(replay[batch].toGroup, h) = GroupIn(before \cup batch, h)
    <3>1. replay[rest].toGroup \in Entries
      BY <2>2 DEF Exact, AffiliateMapType
    <3>2. \A h \in Humans : replay[batch].toGroup[h] =
                                IF e.human = h THEN e.to ELSE replay[rest].toGroup[h]
      BY <2>4, <2>9, <3>1 DEF Entries
    <3> QED
      BY <2>2, <2>4, <2>7, <3>2, MapAssumption DEF SaysGroup
  <2>11. m.block <= replay[batch].block /\ replay[batch].block <= top
    <3>1. replay[rest].block \in Int /\ m.block \in Int
      BY <2>2 DEF Exact, AffiliateMapType
    <3> QED
      BY <2>2, <2>4, <2>9, <3>1 DEF Later
  <2> QED
    BY <2>8, <2>10, <2>11
<1>4. events \in Good
  <2>1. IsFiniteSet(events)
    BY DEF Ordered
  <2> HIDE DEF Good
  <2> QED
    BY <1>2, <1>3, <2>1, SubsetInduction
<1> QED
  BY <1>1, <1>4 DEF Unfolds

-----------------------------------------------------------------------------
(* The two maps. *)

\* A scan position: what lies behind it has been scanned.
Scanned(block, first) ==
    block \in Int /\ first - 1 <= block /\ (block <= head \/ block = first - 1)

\* A step of the chain adds logs that no scan position has passed.
LEMMA ChainGrows ==
    ASSUME LogsInv, WorldStep
    PROVE  /\ LogsInv' /\ head <= head'
           /\ \A b : Scanned(b, DeployBlock) =>
                Scanned(b, DeployBlock)' /\ UpTo(multiLog, b)' = UpTo(multiLog, b)
           /\ \A b : Scanned(b, StartBlock) =>
                Scanned(b, StartBlock)' /\ UpTo(oldLog, b)' = UpTo(oldLog, b)
<1>0. head \in Nat /\ DeployBlock \in Nat /\ StartBlock \in Nat
  BY MultiMapAssumption, StoreAssumption DEF LogsInv
<1>1. CASE NextBlock /\ head' >= DeployBlock /\ MultiChange
  <2>1. PICK e \in MultiEvent : e.block = head + 1 /\ multiLog' = multiLog \cup {e}
    <3>1. PICK m \in Member :
            multiLog' = multiLog \cup
                {[block |-> head + 1, avatar |-> m[1], group |-> m[2],
                  type |-> IF m \in Listed(multiLog) THEN "remove" ELSE "add"]}
      BY <1>1 DEF MultiChange
    <3> DEFINE e == [block |-> head + 1, avatar |-> m[1], group |-> m[2],
                     type |-> IF m \in Listed(multiLog) THEN "remove" ELSE "add"]
    <3>2. m[1] \in Humans /\ m[2] \in Managed /\ head + 1 \in Nat
      BY <1>0 DEF Member
    <3>3. e \in MultiEvent /\ e.block = head + 1
      BY <3>2 DEF MultiEvent
    <3> HIDE DEF e
    <3> QED
      BY <3>1, <3>3 DEF e
  <2>2. head' = head + 1 /\ oldLog' = oldLog
    BY <1>1 DEF NextBlock, MultiChange
  <2>3. LogsInv'
    <3>1. /\ multiLog' \subseteq MultiEvent /\ oldLog' \subseteq OldEvent
          /\ head' \in Nat /\ head <= head'
      BY <1>0, <2>1, <2>2 DEF LogsInv
    <3>2. \A f \in multiLog : f.block \in Nat /\ f.block <= head
      BY DEF LogsInv, MultiEvent
    <3>3. \A f \in oldLog : f.block \in Nat /\ f.block <= head
      BY DEF LogsInv, OldEvent
    <3> QED
      BY <1>0, <1>1, <2>1, <2>2, <3>1, <3>2, <3>3 DEF LogsInv
  <2> QED
    BY <1>0, <1>1, <2>1, <2>2, <2>3 DEF Scanned, UpTo
<1>2. CASE NextBlock /\ head' >= StartBlock /\ OldChange
  <2>1. PICK e \in OldEvent : e.block = head + 1 /\ e.from # e.to /\ oldLog' = oldLog \cup {e}
    <3>1. PICK h \in Humans, g \in Groups \ {NoGroup} :
            /\ g # GroupIn(oldLog, h)
            /\ oldLog' = oldLog \cup
                {[block |-> head + 1, human |-> h, from |-> GroupIn(oldLog, h), to |-> g]}
      BY <1>2 DEF OldChange
    <3>2. GroupIn(oldLog, h) \in Groups
      BY GroupInTyped
    <3> DEFINE e == [block |-> head + 1, human |-> h, from |-> GroupIn(oldLog, h), to |-> g]
    <3>3. e \in OldEvent /\ e.block = head + 1 /\ e.from # e.to
      BY <1>0, <3>1, <3>2 DEF OldEvent
    <3> HIDE DEF e
    <3> QED
      BY <3>1, <3>3 DEF e
  <2>2. head' = head + 1 /\ multiLog' = multiLog
    BY <1>2 DEF NextBlock, OldChange
  <2>3. LogsInv'
    <3>1. /\ multiLog' \subseteq MultiEvent /\ oldLog' \subseteq OldEvent
          /\ head' \in Nat /\ head <= head'
      BY <1>0, <2>1, <2>2 DEF LogsInv
    <3>2. \A f \in multiLog : f.block \in Nat /\ f.block <= head
      BY DEF LogsInv, MultiEvent
    <3>3. \A f \in oldLog : f.block \in Nat /\ f.block <= head
      BY DEF LogsInv, OldEvent
    <3> QED
      BY <1>0, <1>2, <2>1, <2>2, <3>1, <3>2, <3>3 DEF LogsInv
  <2> QED
    BY <1>0, <1>2, <2>1, <2>2, <2>3 DEF Scanned, UpTo
<1>3. CASE UNCHANGED chainVars
  BY <1>0, <1>3 DEF chainVars, LogsInv, Scanned, UpTo
<1> QED
  BY <1>1, <1>2, <1>3 DEF WorldStep

\* No log is from before the first block, none from after the head.
LEMMA WholeLog ==
    ASSUME LogsInv
    PROVE  /\ UpTo(multiLog, DeployBlock - 1) = {} /\ UpTo(oldLog, StartBlock - 1) = {}
           /\ \A b \in Int : head <= b => UpTo(multiLog, b) = multiLog /\ UpTo(oldLog, b) = oldLog
<1>1. \A e \in multiLog : e.block \in Int /\ DeployBlock <= e.block /\ e.block <= head
  BY DEF LogsInv, MultiEvent
<1>2. \A e \in oldLog : e.block \in Int /\ StartBlock <= e.block /\ e.block <= head
  BY DEF LogsInv, OldEvent
<1>3. head \in Int /\ DeployBlock \in Int /\ StartBlock \in Int
  BY MultiMapAssumption, StoreAssumption DEF LogsInv
<1> QED
  BY <1>1, <1>2, <1>3 DEF UpTo

MultiInv ==
    /\ multi \in Maps /\ multiRow \in [members : SUBSET Member, block : Int]
    /\ Scanned(multi.block, DeployBlock) /\ Scanned(multiRow.block, DeployBlock)
    /\ MultiMapIsReplay

\* A map that starts from the row, or from nothing.
LEMMA LoadMultiKeeps ==
    ASSUME LogsInv, MultiInv, LoadMulti, UNCHANGED chainVars
    PROVE  MultiInv'
<1>1. UNCHANGED <<head, multiLog, multiRow>>
  BY DEF LoadMulti, chainVars
<1>2. CASE multi' = FromRow(multiRow)
  BY <1>1, <1>2 DEF MultiInv, FromRow, Maps, Scanned, MultiMapIsReplay, UpTo
<1>3. CASE multi' = FromRow(FreshRow)
  <2>1. Listed(UpTo(multiLog, DeployBlock - 1)) = {}
    BY WholeLog DEF Listed
  <2>2. multi' = [members |-> {}, block |-> DeployBlock - 1, dirty |-> FALSE]
    BY <1>3 DEF FromRow, FreshRow
  <2>3. multi' \in Maps /\ Scanned(multi.block, DeployBlock)'
    BY <2>2, MultiMapAssumption DEF Maps, Scanned
  <2>4. multi'.members = Listed(UpTo(multiLog', multi'.block))
    BY <1>1, <2>1, <2>2
  <2> QED
    BY <1>1, <2>3, <2>4 DEF MultiInv, Scanned, MultiMapIsReplay, UpTo
<1> QED
  BY <1>2, <1>3 DEF LoadMulti

\* After a refresh the map says what the registry says at the head of the chain.
LEMMA RefreshMultiKeeps ==
    ASSUME LogsInv, MultiInv, RefreshMulti, UNCHANGED chainVars
    PROVE  /\ MultiInv' /\ multi'.members = Listed(multiLog)
           /\ multiRow'.block >= multiRow.block
<1> DEFINE from == RefreshFrom(multi)
           before == UpTo(multiLog, multi.block)
           events == FetchMulti(from, head)
           m == AdvanceMulti(ApplyMulti(multi, events), head)
<1>0. /\ head \in Int /\ DeployBlock \in Int /\ UNCHANGED <<head, multiLog>>
      /\ multi \in Maps /\ multi.block \in Int /\ DeployBlock - 1 <= multi.block
      /\ multi.members = Listed(before)
  BY MultiMapAssumption DEF LogsInv, MultiInv, Maps, chainVars, MultiMapIsReplay, Scanned
<1>1. from = multi.block + 1
  BY <1>0 DEF RefreshFrom, Later
<1>row. multiRow.block \in Int /\ (multiRow.block <= head \/ multiRow.block = DeployBlock - 1)
  BY DEF MultiInv, Scanned
<1>2. CASE from > head
  <2>1. UNCHANGED <<multi, multiRow>>
    BY <1>2 DEF RefreshMulti
  <2>2. before = multiLog
    BY <1>0, <1>1, <1>2, WholeLog
  <2>3. MultiInv'
    <3>1. UNCHANGED <<head, multiLog, multi, multiRow>>
      BY <1>0, <2>1
    <3> QED
      BY <3>1 DEF MultiInv, Scanned, MultiMapIsReplay, UpTo
  <2>4. multiRow'.block >= multiRow.block
    BY <1>row, <2>1
  <2> HIDE DEF before
  <2> QED
    BY <1>0, <2>1, <2>2, <2>3, <2>4
<1>3. CASE ~(from > head)
  <2>1. /\ before \in SUBSET MultiEvent /\ events \in SUBSET MultiEvent
        /\ \A e \in multiLog : e.block \in Int /\ e.block <= head
    BY DEF LogsInv, UpTo, FetchMulti, MultiEvent
  <2>2. Ordered(events)
    BY LogsOrdered, OrderedPart DEF FetchMulti
  <2>3. /\ \A e \in before, f \in events : e.block < f.block
        /\ \A e \in events : e.block <= head
        /\ before \cup events = multiLog
        /\ multi.block <= head
    BY <1>0, <1>1, <1>3, <2>1 DEF UpTo, FetchMulti
  <2> HIDE DEF before, events, from
  <2>4. /\ ApplyMulti(multi, events) \in Maps
        /\ ApplyMulti(multi, events).members = Listed(multiLog)
        /\ ApplyMulti(multi, events).block <= head
    BY <1>0, <2>1, <2>2, <2>3, MultiReplayed
  <2>5. m \in Maps /\ m.members = Listed(multiLog) /\ m.block = head
    <3> DEFINE a == ApplyMulti(multi, events)
    <3>1. a \in Maps /\ a.block \in Int /\ a.members = Listed(multiLog) /\ a.block <= head
      BY <2>4 DEF Maps
    <3>2. m = IF head > a.block THEN [a EXCEPT !.block = head, !.dirty = TRUE] ELSE a
      BY DEF AdvanceMulti
    <3> HIDE DEF a, m
    <3>3. CASE head > a.block
      <4>1. m = [a EXCEPT !.block = head, !.dirty = TRUE]
        BY <3>2, <3>3
      <4> QED
        BY <1>0, <3>1, <4>1 DEF Maps
    <3>4. CASE ~(head > a.block)
      <4>1. m = a /\ a.block = head
        BY <1>0, <3>1, <3>2, <3>4
      <4> QED
        BY <3>1, <4>1
    <3> QED
      BY <3>3, <3>4
  <2>6. SaveMulti(m)
    BY <1>3 DEF RefreshMulti, from, events
  <2> HIDE DEF m
  <2>7. UpTo(multiLog, head) = multiLog
    BY <1>0, WholeLog
  <2>8. multi' \in Maps /\ multi'.members = Listed(multiLog) /\ multi'.block = head
    BY <2>5, <2>6 DEF SaveMulti, Maps
  <2>9. Scanned(multi.block, DeployBlock)'
    BY <1>0, <2>3, <2>8 DEF Scanned
  <2>10. CASE multiRow' = RowOf(m)
    <3>1. multiRow' = [members |-> Listed(multiLog), block |-> head]
      BY <2>5, <2>10 DEF RowOf
    <3>2. Listed(multiLog) \in SUBSET Member
      BY DEF Listed
    <3>3. multiRow'.block >= multiRow.block
      BY <1>0, <1>row, <2>3, <3>1
    <3> QED
      BY <1>0, <2>7, <2>8, <2>9, <3>1, <3>2, <3>3 DEF MultiInv, Scanned, MultiMapIsReplay, UpTo
  <2>11. CASE multiRow' = multiRow
    <3>1. multiRow'.block >= multiRow.block
      BY <1>0, <1>row, <2>11
    <3> QED
      BY <1>0, <2>7, <2>8, <2>9, <2>11, <3>1 DEF MultiInv, Scanned, MultiMapIsReplay, UpTo
  <2> QED
    BY <2>6, <2>10, <2>11 DEF SaveMulti
<1> QED
  BY <1>2, <1>3

\* The same for the affiliate map.
SaysOld(entries, block) ==
    \A h \in Humans : SaysGroup(entries, h) = GroupIn(UpTo(oldLog, block), h)

OldInv ==
    /\ Exact(map) /\ Scanned(map.block, StartBlock) /\ SaysOld(map.toGroup, map.block)
    /\ stored # NoRow => /\ stored \in SnapshotType /\ Scanned(stored.block, StartBlock)
                         /\ SaysOld(stored.entries, stored.block)

LEMMA OldInvIsReplay == OldInv => OldMapIsReplay
<1> SUFFICES ASSUME OldInv PROVE OldMapIsReplay
  OBVIOUS
<1>1. /\ FromSnapshot(Snapshot(map)).toGroup = map.toGroup
      /\ FromSnapshot(Snapshot(map)).block = map.block
  BY SnapshotType1, FromSnapshotExact DEF OldInv
<1>2. stored # NoRow => /\ FromSnapshot(stored).toGroup = stored.entries
                        /\ FromSnapshot(stored).block = stored.block
  BY FromSnapshotExact DEF OldInv
<1> QED
  BY <1>1, <1>2 DEF OldInv, OldMapIsReplay, SaysOld, SaysGroup

\* A new map has nothing scanned, and no log is from before its first block.
LEMMA FreshSays ==
    ASSUME LogsInv
    PROVE  Scanned(Fresh.block, StartBlock) /\ SaysOld(Fresh.toGroup, Fresh.block)
<1>1. Fresh.block = StartBlock - 1 /\ Fresh.toGroup = [h \in Humans |-> NoGroup]
  BY DEF Fresh, FromSnapshot, EmptySnapshot
<1>2. UpTo(oldLog, StartBlock - 1) = {}
  BY WholeLog
<1>3. \A h \in Humans : GroupIn({}, h) = ZeroGroup
  BY DEF GroupIn
<1> QED
  BY <1>1, <1>2, <1>3, StoreAssumption DEF Scanned, SaysOld, SaysGroup

LEMMA LoadOldKeeps ==
    ASSUME LogsInv, OldInv, LoadOld, UNCHANGED chainVars
    PROVE  OldInv'
<1>1. UNCHANGED <<head, oldLog, stored>>
  BY DEF LoadOld, Restart, chainVars
<1>2. CASE map' = FromSnapshot(stored) /\ stored # NoRow
  <2>1. stored \in SnapshotType
    BY <1>2 DEF OldInv
  <2>2. Exact(map') /\ map'.toGroup = stored.entries /\ map'.block = stored.block
    BY <1>2, <2>1, FromSnapshotExact
  <2> QED
    BY <1>1, <1>2, <2>1, <2>2 DEF OldInv, Scanned, Exact, SaysOld, UpTo
<1>3. CASE map' = Fresh
  BY <1>1, <1>3, FreshExact, FreshSays DEF OldInv, Scanned, Exact, SaysOld, UpTo
<1> QED
  BY <1>2, <1>3 DEF LoadOld, Restart

LEMMA RefreshOldKeeps ==
    ASSUME LogsInv, OldInv, RefreshOld, UNCHANGED chainVars
    PROVE  /\ OldInv'
           /\ \A h \in Humans : SaysGroup(map'.toGroup, h) = GroupIn(oldLog, h)
           /\ stored # NoRow => stored' # NoRow /\ stored'.block >= stored.block
<1> DEFINE from == Later(StartBlock, map.block + 1)
           before == UpTo(oldLog, map.block)
           events == FetchOld(from, head)
           applied == ApplyOld(map, events)
           m == AdvanceTo(applied, head)
<1>0. /\ head \in Int /\ StartBlock \in Int /\ UNCHANGED <<head, oldLog>>
      /\ Exact(map) /\ map.block \in Int /\ StartBlock - 1 <= map.block
      /\ \A h \in Humans : SaysGroup(map.toGroup, h) = GroupIn(before, h)
  BY StoreAssumption DEF LogsInv, OldInv, chainVars, SaysOld, Scanned
<1>1. from = map.block + 1
  BY <1>0 DEF Later
<1>row. stored # NoRow => /\ stored.block \in Int
                          /\ stored.block <= head \/ stored.block = StartBlock - 1
  BY DEF OldInv, Scanned
<1>2. CASE from > head
  <2>1. UNCHANGED <<map, stored>>
    BY <1>2 DEF RefreshOld
  <2>2. before = oldLog
    BY <1>0, <1>1, <1>2, WholeLog
  <2>3. OldInv'
    <3>1. UNCHANGED <<head, oldLog, map, stored>>
      BY <1>0, <2>1
    <3> QED
      BY <3>1 DEF OldInv, Scanned, SaysOld, UpTo, Exact
  <2>4. stored # NoRow => stored' # NoRow /\ stored'.block >= stored.block
    BY <1>row, <2>1
  <2>5. \A h \in Humans : SaysGroup(map'.toGroup, h) = GroupIn(oldLog, h)
    <3> HIDE DEF before
    <3> QED
      BY <1>0, <2>1, <2>2
  <2> QED
    BY <2>3, <2>4, <2>5
<1>3. CASE ~(from > head)
  <2>1. /\ before \in SUBSET OldEvent /\ events \in SUBSET OldEvent
        /\ \A e \in oldLog : e.block \in Int /\ e.block <= head
    BY DEF LogsInv, UpTo, FetchOld, OldEvent
  <2>2. Ordered(events)
    BY LogsOrdered, OrderedPart DEF FetchOld
  <2>3. /\ \A e \in before, f \in events : e.block < f.block
        /\ \A e \in events : e.block <= head
        /\ before \cup events = oldLog
        /\ map.block <= head
    BY <1>0, <1>1, <1>3, <2>1 DEF UpTo, FetchOld
  <2>4. SaveAs(m)
    BY <1>3 DEF RefreshOld
  <2> HIDE DEF before, events, from
  <2>5. /\ Exact(applied) /\ applied.block <= head
        /\ \A h \in Humans : SaysGroup(applied.toGroup, h) = GroupIn(oldLog, h)
    <3>1. map \in AffiliateMapType /\ head \in Int
      BY <1>0 DEF Exact
    <3>2. /\ Exact(ApplyOld(map, events))
          /\ \A h \in Humans : SaysGroup(ApplyOld(map, events).toGroup, h)
                                   = GroupIn(before \cup events, h)
          /\ map.block <= ApplyOld(map, events).block /\ ApplyOld(map, events).block <= head
      <4> HIDE DEF applied
      <4> QED
        BY <1>0, <2>1, <2>2, <2>3, <3>1, OldReplayed
    <3> QED
      BY <2>3, <3>2
  <2>6. applied.block \in Int
    BY <2>5 DEF Exact, AffiliateMapType
  <2> HIDE DEF applied
  <2>7. Exact(m) /\ m.toGroup = applied.toGroup
    BY <1>0, <2>5, AdvanceToExact
  <2>8. m.block = head
    <3>1. CASE head > applied.block
      BY <2>5, <2>6, <3>1 DEF AdvanceTo, Exact, AffiliateMapType
    <3>2. CASE ~(head > applied.block)
      BY <1>0, <2>5, <2>6, <3>2 DEF AdvanceTo
    <3> QED
      BY <3>1, <3>2
  <2> HIDE DEF m
  <2>9. Exact(map') /\ map'.toGroup = m.toGroup /\ map'.block = head
    BY <2>4, <2>7, <2>8 DEF SaveAs, Exact, AffiliateMapType
  <2>10. UpTo(oldLog, head) = oldLog
    BY <1>0, WholeLog
  <2>11. \A h \in Humans : SaysGroup(map'.toGroup, h) = GroupIn(oldLog, h)
    BY <2>5, <2>7, <2>9
  <2>12. Scanned(head, StartBlock)'
    BY <1>0, <2>3 DEF Scanned
  <2>13. CASE stored' = Snapshot(m)
    <3>1. stored' \in SnapshotType /\ stored'.block = head /\ stored'.entries = m.toGroup
      BY <2>7, <2>8, <2>13, SnapshotType1
    <3>2. stored' # NoRow /\ (stored # NoRow => stored'.block >= stored.block)
      BY <1>0, <1>row, <2>3, <3>1, StoreAssumption
    <3> QED
      BY <1>0, <2>9, <2>10, <2>11, <2>12, <3>1, <3>2 DEF OldInv, Scanned, SaysOld, UpTo, Exact
  <2>14. CASE stored' = stored
    <3>1. stored # NoRow => stored' # NoRow /\ stored'.block >= stored.block
      BY <1>0, <1>row, <2>14
    <3> QED
      BY <1>0, <2>9, <2>10, <2>11, <2>12, <2>14, <3>1 DEF OldInv, Scanned, SaysOld, UpTo, Exact
  <2> QED
    BY <2>4, <2>13, <2>14 DEF SaveAs
<1> QED
  BY <1>2, <1>3

\* A map that is up to date lists the members of the old registry.
LEMMA OldMembersAre ==
    ASSUME Exact(map), \A h \in Humans : SaysGroup(map.toGroup, h) = GroupIn(oldLog, h)
    PROVE  OldMembers = Affiliated(oldLog)
<1>1. ASSUME NEW m \in Member
      PROVE  m[1] \in AffiliatesOf(map, m[2]) <=> GroupIn(oldLog, m[1]) = m[2]
  <2>1. /\ m[1] \in Humans /\ m[2] \in Groups /\ m[2] # ZeroGroup /\ m[2] # NoGroup
    BY MapAssumption, RegistriesAssumption DEF Member
  <2>2. map.toHumans[m[2]] = {h \in Humans : map.toGroup[h] = m[2]}
    BY <2>1 DEF Exact, MembersOf
  <2> QED
    BY <2>1, <2>2 DEF AffiliatesOf, SaysGroup
<1> QED
  BY <1>1 DEF OldMembers, Affiliated

\* Whoever is a member of the old registry is among those that the logs of the
\* groups give: the latest log of the avatar names the group it has come to.
LEMMA FetchedMembersSuffice ==
    ASSUME LogsInv
    PROVE  Affiliated(oldLog) \subseteq FetchOldMembers
<1> SUFFICES ASSUME NEW m \in Affiliated(oldLog) PROVE m \in FetchOldMembers
  OBVIOUS
<1> DEFINE mine == {e \in oldLog : e.human = m[1]}
           touching == {e \in oldLog : /\ e.block >= StartBlock
                                       /\ e.human = m[1] /\ m[2] \in {e.from, e.to}}
<1>1. m \in Member /\ m[2] # ZeroGroup /\ GroupIn(oldLog, m[1]) = m[2]
  BY RegistriesAssumption DEF Affiliated, Member
<1>2. mine # {} /\ Latest(mine).to = m[2]
  BY <1>1 DEF GroupIn
<1>3. Ordered(mine)
  BY LogsOrdered, OrderedPart
<1>4. Latest(mine) \in mine
  BY <1>2, <1>3, LatestExists
<1>5. /\ Latest(mine) \in oldLog /\ Latest(mine).human = m[1]
      /\ Latest(mine).block >= StartBlock /\ Latest(mine).from # Latest(mine).to
  BY <1>4, StoreAssumption DEF LogsInv, OldEvent
<1>6. Latest(mine) \in touching /\ touching \in SUBSET mine
  BY <1>2, <1>5
<1>7. Latest(touching) = Latest(mine)
  <2> HIDE DEF mine, touching
  <2> QED
    BY <1>3, <1>6, LatestOfPart
<1>8. touching # {} /\ Latest(touching).to = m[2] /\ Latest(touching).from # m[2]
  <2> HIDE DEF mine, touching
  <2> QED
    BY <1>2, <1>5, <1>6, <1>7
<1> QED
  BY <1>1, <1>8 DEF FetchOldMembers

-----------------------------------------------------------------------------
(* The cycle. *)

\* The next stage is the first that the variant needs.
LEMMA FirstNeededIs ==
    ASSUME NEW stages, NEW n \in Nat, DOMAIN stages = 1 .. n, NEW i \in 1 .. n,
           Needed(stages[i]), \A j \in 1 .. n : j < i => ~Needed(stages[j])
    PROVE  FirstNeeded(stages) = stages[i]
<1> DEFINE First(k) == Needed(stages[k]) /\ \A j \in 1 .. k - 1 : ~Needed(stages[j])
<1>1. First(i)
  <2>1. \A j \in 1 .. i - 1 : j \in 1 .. n /\ j < i
    OBVIOUS
  <2> QED
    BY <2>1
<1>2. \A k \in 1 .. n : First(k) => k = i
  <2> SUFFICES ASSUME NEW k \in 1 .. n, First(k), k # i PROVE FALSE
    OBVIOUS
  <2>1. i \in 1 .. k - 1 \/ k \in 1 .. i - 1
    OBVIOUS
  <2> QED
    BY <2>1
<1>3. (CHOOSE k \in DOMAIN stages : First(k)) = i
  <2> HIDE DEF First
  <2> QED
    BY <1>1, <1>2
<1> QED
  BY <1>3 DEF FirstNeeded

LEMMA NextStages ==
    /\ FirstNeeded(StartUp) \in {"startNew", "startOld", "rest"}
    /\ FirstNeeded(Tail(StartUp)) \in {"startOld", "rest"}
    /\ FirstNeeded(Reads) = IF NeedsNewMap THEN "new" ELSE IF NeedsOldMap THEN "old"
                            ELSE IF mode = "union" THEN "spare" ELSE "groups"
    /\ FirstNeeded(Tail(Reads)) = IF NeedsOldMap THEN "old"
                                  ELSE IF mode = "union" THEN "spare" ELSE "groups"
    /\ FirstNeeded(<<"spare", "groups">>) = IF mode = "union" THEN "spare" ELSE "groups"
<1>1. /\ Needed("startNew") = NeedsNewMap /\ Needed("new") = NeedsNewMap
      /\ Needed("startOld") = NeedsOldMap /\ Needed("old") = NeedsOldMap
      /\ Needed("spare") = (mode = "union") /\ Needed("rest") /\ Needed("groups")
  BY DEF Needed
<1>2. ASSUME NEW stages, DOMAIN stages = 1 .. 2, Needed(stages[2])
      PROVE  FirstNeeded(stages) = IF Needed(stages[1]) THEN stages[1] ELSE stages[2]
  <2>0. 2 \in Nat /\ 1 \in 1 .. 2 /\ 2 \in 1 .. 2 /\ \A j \in 1 .. 2 : ~(j < 1) /\ (j < 2 => j = 1)
    OBVIOUS
  <2>1. CASE Needed(stages[1])
    <3>1. FirstNeeded(stages) = stages[1]
      BY <1>2, <2>0, <2>1, FirstNeededIs
    <3> QED
      BY <2>1, <3>1
  <2>2. CASE ~Needed(stages[1])
    <3>1. \A j \in 1 .. 2 : j < 2 => ~Needed(stages[j])
      BY <2>0, <2>2
    <3>2. FirstNeeded(stages) = stages[2]
      BY <1>2, <2>0, <3>1, FirstNeededIs
    <3> QED
      BY <2>2, <3>2
  <2> QED
    BY <2>1, <2>2
<1>3. ASSUME NEW stages, DOMAIN stages = 1 .. 3, Needed(stages[3])
      PROVE  FirstNeeded(stages) = IF Needed(stages[1]) THEN stages[1]
                                   ELSE IF Needed(stages[2]) THEN stages[2] ELSE stages[3]
  <2>0. /\ 3 \in Nat /\ 1 \in 1 .. 3 /\ 2 \in 1 .. 3 /\ 3 \in 1 .. 3
        /\ \A j \in 1 .. 3 : ~(j < 1) /\ (j < 2 => j = 1) /\ (j < 3 => j = 1 \/ j = 2)
    OBVIOUS
  <2>1. CASE Needed(stages[1])
    <3>1. FirstNeeded(stages) = stages[1]
      BY <1>3, <2>0, <2>1, FirstNeededIs
    <3> QED
      BY <2>1, <3>1
  <2>2. CASE ~Needed(stages[1]) /\ Needed(stages[2])
    <3>1. \A j \in 1 .. 3 : j < 2 => ~Needed(stages[j])
      BY <2>0, <2>2
    <3>2. FirstNeeded(stages) = stages[2]
      BY <1>3, <2>0, <2>2, <3>1, FirstNeededIs
    <3> QED
      BY <2>2, <3>2
  <2>3. CASE ~Needed(stages[1]) /\ ~Needed(stages[2])
    <3>1. \A j \in 1 .. 3 : j < 3 => ~Needed(stages[j])
      BY <2>0, <2>3
    <3>2. FirstNeeded(stages) = stages[3]
      BY <1>3, <2>0, <3>1, FirstNeededIs
    <3> QED
      BY <2>3, <3>2
  <2> QED
    BY <2>1, <2>2, <2>3
<1>4. FirstNeeded(<<"spare", "groups">>) = IF mode = "union" THEN "spare" ELSE "groups"
  <2> DEFINE stages == <<"spare", "groups">>
  <2>1. DOMAIN stages = 1 .. 2 /\ stages[1] = "spare" /\ stages[2] = "groups"
    OBVIOUS
  <2> HIDE DEF stages
  <2>2. FirstNeeded(stages) = IF Needed(stages[1]) THEN stages[1] ELSE stages[2]
    BY <1>1, <1>2, <2>1
  <2> QED
    BY <1>1, <2>1, <2>2 DEF stages
<1>5. Tail(Reads) = <<"old", "spare", "groups">> /\ Tail(StartUp) = <<"startOld", "rest">>
  BY DEF Reads, StartUp
<1>6. FirstNeeded(Tail(StartUp)) = IF NeedsOldMap THEN "startOld" ELSE "rest"
  <2> DEFINE stages == <<"startOld", "rest">>
  <2>1. DOMAIN stages = 1 .. 2 /\ stages[1] = "startOld" /\ stages[2] = "rest"
    OBVIOUS
  <2> HIDE DEF stages
  <2>2. FirstNeeded(stages) = IF Needed(stages[1]) THEN stages[1] ELSE stages[2]
    BY <1>1, <1>2, <2>1
  <2> QED
    BY <1>1, <1>5, <2>1, <2>2 DEF stages
<1>7. FirstNeeded(StartUp) \in {"startNew", "startOld", "rest"}
  BY <1>1, <1>3 DEF StartUp
<1>8. FirstNeeded(Tail(Reads)) = IF NeedsOldMap THEN "old"
                                 ELSE IF mode = "union" THEN "spare" ELSE "groups"
  <2> DEFINE stages == <<"old", "spare", "groups">>
  <2>1. DOMAIN stages = 1 .. 3 /\ stages[1] = "old" /\ stages[2] = "spare" /\ stages[3] = "groups"
    OBVIOUS
  <2> HIDE DEF stages
  <2>2. FirstNeeded(stages) = IF Needed(stages[1]) THEN stages[1]
                              ELSE IF Needed(stages[2]) THEN stages[2] ELSE stages[3]
    BY <1>1, <1>3, <2>1
  <2> QED
    BY <1>1, <1>5, <2>1, <2>2 DEF stages
<1>9. FirstNeeded(Reads) = IF NeedsNewMap THEN "new" ELSE IF NeedsOldMap THEN "old"
                           ELSE IF mode = "union" THEN "spare" ELSE "groups"
  <2>0. /\ 4 \in Nat /\ 1 \in 1 .. 4 /\ 2 \in 1 .. 4 /\ 3 \in 1 .. 4 /\ 4 \in 1 .. 4
        /\ \A j \in 1 .. 4 : /\ ~(j < 1) /\ (j < 2 => j = 1) /\ (j < 3 => j = 1 \/ j = 2)
                            /\ (j < 4 => j = 1 \/ j = 2 \/ j = 3)
    OBVIOUS
  <2>1. /\ DOMAIN Reads = 1 .. 4 /\ Reads[1] = "new"
        /\ Reads[2] = "old" /\ Reads[3] = "spare" /\ Reads[4] = "groups"
    BY DEF Reads
  <2>2. CASE NeedsNewMap
    <3>1. FirstNeeded(Reads) = Reads[1]
      BY <1>1, <2>0, <2>1, <2>2, FirstNeededIs
    <3> QED
      BY <2>1, <2>2, <3>1
  <2>3. CASE ~NeedsNewMap /\ NeedsOldMap
    <3>1. \A j \in 1 .. 4 : j < 2 => ~Needed(Reads[j])
      BY <1>1, <2>0, <2>1, <2>3
    <3>2. FirstNeeded(Reads) = Reads[2]
      BY <1>1, <2>0, <2>1, <2>3, <3>1, FirstNeededIs
    <3> QED
      BY <2>1, <2>3, <3>2
  <2>4. CASE ~NeedsNewMap /\ ~NeedsOldMap /\ mode = "union"
    <3>1. \A j \in 1 .. 4 : j < 3 => ~Needed(Reads[j])
      BY <1>1, <2>0, <2>1, <2>4
    <3>2. FirstNeeded(Reads) = Reads[3]
      BY <1>1, <2>0, <2>1, <2>4, <3>1, FirstNeededIs
    <3> QED
      BY <2>1, <2>4, <3>2
  <2>5. CASE ~NeedsNewMap /\ ~NeedsOldMap /\ mode # "union"
    <3>1. \A j \in 1 .. 4 : j < 4 => ~Needed(Reads[j])
      BY <1>1, <2>0, <2>1, <2>5
    <3>2. FirstNeeded(Reads) = Reads[4]
      BY <1>1, <2>0, <2>1, <2>5, <3>1, FirstNeededIs
    <3> QED
      BY <2>1, <2>5, <3>2
  <2> QED
    BY <2>2, <2>3, <2>4, <2>5
<1> QED
  BY <1>4, <1>6, <1>7, <1>8, <1>9

\* The plan untrusts and trusts whom it was made for, and nobody else.
Plans(untrusted, trusted) ==
    [op : {"untrust"}, members : SUBSET untrusted] \cup [op : {"trust"}, members : SUBSET trusted]

LEMMA FiniteMembers == IsFiniteSet(Member)
  BY CommunityAssumption, FS_Product DEF Member

LEMMA PlanTyped ==
    ASSUME NEW untrusted \in SUBSET Member, NEW trusted \in SUBSET Member
    PROVE  PlanFor(untrusted, trusted) \in Seq(Plans(untrusted, trusted))
<1> DEFINE groups == SetToSeq(Managed)
           Ops(op, members) ==
              FlattenSeq([i \in DOMAIN groups |->
                            BatchesOf(op, InGroup(members, groups[i]), BatchSize)])
<1>1. ASSUME NEW op, NEW members \in SUBSET Member
      PROVE  Ops(op, members) \in Seq([op : {op}, members : SUBSET members])
  <2> DEFINE S == [op : {op}, members : SUBSET members]
             seqs == [i \in DOMAIN groups |->
                        BatchesOf(op, InGroup(members, groups[i]), BatchSize)]
  <2>1. DOMAIN groups = 1 .. Cardinality(Managed) /\ Cardinality(Managed) \in Nat
    BY CommunityAssumption, ElementsInSomeOrder, FS_CardinalityType
  <2>2. ASSUME NEW i \in DOMAIN groups
        PROVE  BatchesOf(op, InGroup(members, groups[i]), BatchSize) \in Seq(S)
    <3> DEFINE part == InGroup(members, groups[i])
    <3>1. part \subseteq members
      BY DEF InGroup
    <3>2. IsFiniteSet(part)
      <4> HIDE DEF part
      <4>1. part \subseteq Member
        BY <3>1
      <4> QED
        BY <4>1, FiniteMembers, FS_Subset
    <3>3. BatchSize \in Nat \ {0}
      BY CommunityAssumption
    <3> HIDE DEF part
    <3>4. BatchesOf(op, part, BatchSize) \in Seq([op : {op}, members : SUBSET part])
      BY <3>2, <3>3, BatchesTyped
    <3>5. [op : {op}, members : SUBSET part] \subseteq S
      BY <3>1
    <3> HIDE DEF S
    <3>6. BatchesOf(op, part, BatchSize) \in Seq(S)
      BY <3>4, <3>5, SequenceWidens
    <3> QED
      BY <3>6 DEF part
  <2> HIDE DEF S, groups
  <2>3. seqs \in Seq(Seq(S))
    BY <2>1, <2>2
  <2> HIDE DEF seqs
  <2>4. FlattenSeq(seqs) \in Seq(S)
    BY <2>3, FlattenTyped
  <2> QED
    BY <2>4 DEF S, seqs, groups
<1>2. PlanFor(untrusted, trusted) = Ops("untrust", untrusted) \o Ops("trust", trusted)
  BY DEF PlanFor
<1>3. /\ Ops("untrust", untrusted) \in Seq([op : {"untrust"}, members : SUBSET untrusted])
      /\ Ops("trust", trusted) \in Seq([op : {"trust"}, members : SUBSET trusted])
  BY <1>1
<1> HIDE DEF Ops
<1>4. /\ Ops("untrust", untrusted) \in Seq(Plans(untrusted, trusted))
      /\ Ops("trust", trusted) \in Seq(Plans(untrusted, trusted))
  <2>1. /\ [op : {"untrust"}, members : SUBSET untrusted] \subseteq Plans(untrusted, trusted)
        /\ [op : {"trust"}, members : SUBSET trusted] \subseteq Plans(untrusted, trusted)
    BY DEF Plans
  <2>2. \A S, T : S \subseteq T => Seq(S) \subseteq Seq(T)
    BY SequenceWidens
  <2> QED
    BY <1>3, <2>1, <2>2
<1> QED
  BY <1>2, <1>4, ConcatProperties

-----------------------------------------------------------------------------
(* What the cycle has learned while it goes on. *)

Reading == {"new", "old", "spare", "groups"}

Job == [spared : SUBSET Member, wishlist : SUBSET Member, trustees : SUBSET Member,
        plan : Seq(Operation)]

CycleTyped ==
    /\ source \in {"rpc", "registry", "old", "hybrid"} /\ mode \in {"add-only", "union", "wishlist"}
    /\ stage \in {"down", "startNew", "startOld", "rest", "criteria", "execute"} \cup Reading
    /\ trust \in SUBSET Member /\ job \in Job
    /\ steady \subseteq Rightful
    /\ stage # "execute" => job.plan = <<>>

\* Which of its two sources the hybrid takes for an avatar.
CountsNew(m) == source = "registry" \/ m[1] \in TestAddresses
CountsOld(m) == source = "old" \/ m[1] \notin TestAddresses

\* What a map that has been refreshed in this cycle says is not stale for those
\* who have been rightful ever since the cycle began.
NewTold ==
    stage \in {"old", "spare", "groups"} /\ NeedsNewMap => \A r \in steady :
        /\ r[2] = "eligible" /\ CountsNew(r[1]) => r[1] \in multi.members
        /\ r[2] = "nobody listed" => \A m \in InGroup(multi.members, r[1][2]) : ~CountsNew(m)

OldTold ==
    stage \in {"spare", "groups"} /\ NeedsOldMap => \A r \in steady :
        /\ r[2] = "eligible" /\ CountsOld(r[1]) => r[1] \in OldMembers
        /\ r[2] = "nobody listed" => \A m \in InGroup(OldMembers, r[1][2]) : ~CountsOld(m)

\* Nor is the wishlist, nor who is spared.
WishTold ==
    stage = "criteria" =>
        /\ job.trustees = trust
        /\ \A r \in steady :
            /\ r[2] = "eligible" => r[1] \in job.wishlist
            /\ r[2] = "nobody listed" => InGroup(job.wishlist, r[1][2]) = {}

SparedTold ==
    stage \in {"groups", "criteria"} /\ mode = "union" => \A r \in steady :
        r[2] = "protected" => r[1] \in job.spared

\* What is left of the plan takes nothing from them.
PlanSpares ==
    stage = "execute" => \A i \in DOMAIN job.plan :
        job.plan[i].op = "untrust" => job.plan[i].members \cap MembersOfReasons(steady) = {}

\* What has been taken, and what the rest of the plan may take, is what the caps
\* have been checked for.
PlanCapped ==
    stage = "execute" => \E most \in SUBSET job.trustees :
        /\ WithinCaps(most)
        /\ job.trustees \ trust \subseteq most
        /\ \A i \in DOMAIN job.plan :
            job.plan[i].op = "untrust" => job.plan[i].members \subseteq most

CommunityInv ==
    /\ LogsInv /\ MultiInv /\ OldInv /\ CycleTyped
    /\ NewTold /\ OldTold /\ WishTold /\ SparedTold /\ PlanSpares /\ PlanCapped

LEMMA CommunityStarts == CommunityInit => CommunityInv
<1> SUFFICES ASSUME CommunityInit PROVE CommunityInv
  OBVIOUS
<1>0. DeployBlock \in Nat /\ StartBlock \in Nat
  BY MultiMapAssumption, StoreAssumption
<1>1. LogsInv
  BY DEF CommunityInit, ChainInit, LogsInv
<1>2. MultiInv
  <2>1. /\ multi = [members |-> {}, block |-> DeployBlock - 1, dirty |-> FALSE]
        /\ multiRow = [members |-> {}, block |-> DeployBlock - 1]
    BY DEF CommunityInit, MultiInit, FromRow, FreshRow
  <2>2. UpTo(multiLog, DeployBlock - 1) = {} /\ Listed({}) = {}
    BY <1>1, WholeLog DEF Listed
  <2> QED
    BY <1>0, <2>1, <2>2 DEF MultiInv, Maps, Scanned, MultiMapIsReplay
<1>3. OldInv
  BY <1>1, FreshExact, FreshSays DEF CommunityInit, Init, OldInv
<1>4. CycleTyped
  <2>1. job \in Job /\ job.plan = <<>>
    BY DEF CommunityInit, NoJob, Job
  <2>2. /\ source \in {"rpc", "registry", "old", "hybrid"}
        /\ mode \in {"add-only", "union", "wishlist"}
    BY CommunityAssumption DEF CommunityInit
  <2>3. stage = "down" /\ steady = {} /\ trust \in SUBSET Member
    BY CommunityAssumption DEF CommunityInit
  <2> QED
    BY <2>1, <2>2, <2>3 DEF CycleTyped
<1>5. stage = "down"
  BY DEF CommunityInit
<1> QED
  BY <1>1, <1>2, <1>3, <1>4, <1>5
     DEF CommunityInv, NewTold, OldTold, WishTold, SparedTold, PlanSpares, PlanCapped

-----------------------------------------------------------------------------
(* Every step keeps it. *)

\* A history pair says why its member is not to be untrusted, as things are now.
LEMMA SteadyAre ==
    ASSUME CycleTyped, NEW r \in steady
    PROVE  /\ r[1] \in Member /\ r[1][2] \in Managed
           /\ r[2] \in {"add-only", "nobody listed", "eligible", "protected"}
           /\ r[2] = "add-only" => mode = "add-only"
           /\ r[2] = "nobody listed" => InGroup(MembersNow, r[1][2]) = {}
           /\ r[2] = "eligible" => r[1] \in MembersNow /\ Eligible(r[1])
           /\ r[2] = "protected" => /\ mode = "union"
                                    /\ r[1] \in Affiliated(oldLog) \cup Grandfathered
<1>1. r \in Rightful
  BY DEF CycleTyped
<1>2. r \in Member \X {"add-only", "nobody listed", "eligible", "protected"}
  BY <1>1 DEF Rightful
<1>3. r[1] \in Member /\ r[2] \in {"add-only", "nobody listed", "eligible", "protected"}
  BY <1>2
<1>4. r[1][2] \in Managed
  BY <1>3 DEF Member
<1>5. CASE r[2] = "add-only"
  BY <1>1, <1>3, <1>4, <1>5 DEF Rightful
<1>6. CASE r[2] = "nobody listed"
  BY <1>1, <1>3, <1>4, <1>6 DEF Rightful
<1>7. CASE r[2] = "eligible"
  BY <1>1, <1>3, <1>4, <1>7 DEF Rightful, Wanted
<1>8. CASE r[2] = "protected"
  BY <1>1, <1>3, <1>4, <1>8 DEF Rightful
<1> QED
  BY <1>3, <1>5, <1>6, <1>7, <1>8

LEMMA RightfulSame == UNCHANGED <<worldVars, variant>> => Rightful' = Rightful
  BY DEF worldVars, chainVars, variant, Rightful, Wanted, MembersNow, Eligible

LEMMA MapsSame ==
    ASSUME UNCHANGED chainVars
    PROVE  /\ LogsInv => LogsInv'
           /\ MultiInv /\ UNCHANGED <<multi, multiRow>> => MultiInv'
           /\ OldInv /\ UNCHANGED <<map, stored>> => OldInv'
<1>1. LogsInv => LogsInv'
  BY DEF chainVars, LogsInv
<1>2. MultiInv /\ UNCHANGED <<multi, multiRow>> => MultiInv'
  BY DEF chainVars, MultiInv, Scanned, MultiMapIsReplay, UpTo
<1>3. OldInv /\ UNCHANGED <<map, stored>> => OldInv'
  BY DEF chainVars, OldInv, Scanned, SaysOld, UpTo, Exact
<1> QED
  BY <1>1, <1>2, <1>3

LEMMA WorldKeeps ==
    ASSUME CommunityInv, WorldStep
    PROVE  CommunityInv'
<1>1. /\ UNCHANGED <<multi, multiRow, map, stored, source, mode, stage, job, trust>>
      /\ steady' = steady \cap Rightful'
  BY DEF WorldStep, mapVars, variant
<1>2. /\ LogsInv'
      /\ \A b : Scanned(b, DeployBlock) =>
            Scanned(b, DeployBlock)' /\ UpTo(multiLog, b)' = UpTo(multiLog, b)
      /\ \A b : Scanned(b, StartBlock) =>
            Scanned(b, StartBlock)' /\ UpTo(oldLog, b)' = UpTo(oldLog, b)
  BY ChainGrows DEF CommunityInv
<1>3. MultiInv'
  BY <1>1, <1>2 DEF CommunityInv, MultiInv, MultiMapIsReplay, UpTo, Scanned
<1>4. OldInv'
  BY <1>1, <1>2 DEF CommunityInv, OldInv, SaysOld, Exact, UpTo, Scanned
<1>5. CycleTyped'
  BY <1>1 DEF CommunityInv, CycleTyped
<1>6. NewTold' /\ OldTold'
  BY <1>1 DEF CommunityInv, NewTold, OldTold, NeedsNewMap, NeedsOldMap, CountsNew, CountsOld,
              InGroup, OldMembers
<1>7. WishTold' /\ SparedTold'
  BY <1>1 DEF CommunityInv, WishTold, SparedTold, InGroup
<1>8. PlanSpares'
  BY <1>1 DEF CommunityInv, PlanSpares, MembersOfReasons
<1>9. PlanCapped'
  BY <1>1 DEF CommunityInv, PlanCapped, WithinCaps, InGroup
<1> QED
  BY <1>2, <1>3, <1>4, <1>5, <1>6, <1>7, <1>8, <1>9 DEF CommunityInv

\* Outside the cycle there is nothing to be told.
LEMMA NothingTold ==
    ASSUME stage \in {"down", "startNew", "startOld", "rest", "new"}
    PROVE  NewTold /\ OldTold /\ WishTold /\ SparedTold /\ PlanSpares /\ PlanCapped
  BY DEF NewTold, OldTold, WishTold, SparedTold, PlanSpares, PlanCapped

LEMMA StartKeeps ==
    ASSUME CommunityInv, Start
    PROVE  CommunityInv'
<1>1. /\ UNCHANGED <<chainVars, worldVars, variant, source, mode, job, trust, steady>>
      /\ stage = "down" /\ stage' = FirstNeeded(StartUp) /\ LoadMulti /\ LoadOld
  BY DEF Start, worldVars, variant
<1>2. LogsInv' /\ MultiInv' /\ OldInv'
  BY <1>1, MapsSame, LoadMultiKeeps, LoadOldKeeps DEF CommunityInv
<1>3. stage' \in {"startNew", "startOld", "rest"}
  BY <1>1, NextStages
<1>4. Rightful' = Rightful
  BY <1>1, RightfulSame
<1>5. CycleTyped'
  BY <1>1, <1>3, <1>4 DEF CommunityInv, CycleTyped
<1>6. NewTold' /\ OldTold' /\ WishTold' /\ SparedTold' /\ PlanSpares' /\ PlanCapped'
  BY <1>3 DEF NewTold, OldTold, WishTold, SparedTold, PlanSpares, PlanCapped
<1> QED
  BY <1>2, <1>5, <1>6 DEF CommunityInv

LEMMA RefreshNewKeeps ==
    ASSUME CommunityInv, RefreshNewSource
    PROVE  CommunityInv'
<1>1. /\ UNCHANGED <<chainVars, worldVars, variant, source, mode, map, stored, job, trust, steady>>
      /\ stage \in {"startNew", "new"} /\ RefreshMulti
      /\ stage' = FirstNeeded(Tail(IF stage = "startNew" THEN StartUp ELSE Reads))
  BY DEF RefreshNewSource, worldVars, variant
<1>2. LogsInv' /\ MultiInv' /\ OldInv' /\ multi'.members = Listed(multiLog)
  BY <1>1, MapsSame, RefreshMultiKeeps DEF CommunityInv
<1>3. /\ stage' \in {"startOld", "rest", "old", "spare", "groups"}
      /\ stage' \in {"spare", "groups"} => ~NeedsOldMap
      /\ stage' = "groups" => mode # "union"
  BY <1>1, NextStages
<1>4. Rightful' = Rightful
  BY <1>1, RightfulSame
<1>5. CycleTyped'
  BY <1>1, <1>3, <1>4 DEF CommunityInv, CycleTyped, Reading
<1>6. NewTold'
  <2> SUFFICES ASSUME NeedsNewMap, NEW r \in steady
               PROVE  /\ r[2] = "eligible" /\ CountsNew(r[1]) => r[1] \in Listed(multiLog)
                      /\ r[2] = "nobody listed" =>
                            \A m \in InGroup(Listed(multiLog), r[1][2]) : ~CountsNew(m)
    BY <1>1, <1>2 DEF NewTold, NeedsNewMap, CountsNew
  <2>1. CycleTyped
    BY DEF CommunityInv
  <2>2. \A m : CountsNew(m) => (m \in MembersNow <=> m \in Listed(multiLog))
    BY DEF NeedsNewMap, CountsNew, MembersNow, Merge
  <2> QED
    BY <2>1, <2>2, SteadyAre DEF InGroup
<1>7. OldTold' /\ WishTold' /\ SparedTold' /\ PlanSpares' /\ PlanCapped'
  BY <1>1, <1>3 DEF OldTold, NeedsOldMap, WishTold, SparedTold, PlanSpares, PlanCapped
<1> QED
  BY <1>2, <1>5, <1>6, <1>7 DEF CommunityInv

LEMMA RefreshOldSourceKeeps ==
    ASSUME CommunityInv, RefreshOldSource
    PROVE  CommunityInv'
<1>1. /\ UNCHANGED <<chainVars, worldVars, variant, source, mode, multi, multiRow, job, trust, steady>>
      /\ stage \in {"startOld", "old"} /\ RefreshOld
      /\ stage' = IF stage = "startOld" THEN "rest" ELSE FirstNeeded(<<"spare", "groups">>)
  BY DEF RefreshOldSource, AfterOld, worldVars, variant
<1>2. LogsInv' /\ MultiInv'
  BY <1>1, MapsSame DEF CommunityInv
<1>3. OldInv' /\ \A h \in Humans : SaysGroup(map'.toGroup, h) = GroupIn(oldLog', h)
  BY <1>1, RefreshOldKeeps DEF CommunityInv, chainVars
<1>4. OldMembers' = Affiliated(oldLog)
  <2>1. (Exact(map) /\ \A h \in Humans : SaysGroup(map.toGroup, h) = GroupIn(oldLog, h))'
            => (OldMembers = Affiliated(oldLog))'
    BY OldMembersAre, PTL
  <2> QED
    BY <1>1, <1>3, <2>1 DEF OldInv, chainVars
<1>5. /\ stage' \in {"rest", "spare", "groups"}
      /\ stage' \in {"spare", "groups"} => stage = "old"
      /\ stage' = "groups" => mode # "union"
  BY <1>1, NextStages
<1>6. Rightful' = Rightful
  BY <1>1, RightfulSame
<1>7. CycleTyped'
  BY <1>1, <1>5, <1>6 DEF CommunityInv, CycleTyped, Reading
<1>8. NewTold'
  BY <1>1, <1>5 DEF CommunityInv, NewTold, NeedsNewMap, CountsNew
<1>9. OldTold'
  <2> SUFFICES ASSUME NeedsOldMap, NEW r \in steady
               PROVE  /\ r[2] = "eligible" /\ CountsOld(r[1]) => r[1] \in Affiliated(oldLog)
                      /\ r[2] = "nobody listed" =>
                            \A m \in InGroup(Affiliated(oldLog), r[1][2]) : ~CountsOld(m)
    BY <1>1, <1>4 DEF OldTold, NeedsOldMap, CountsOld
  <2>1. CycleTyped
    BY DEF CommunityInv
  <2>2. \A m : CountsOld(m) => (m \in MembersNow <=> m \in Affiliated(oldLog))
    BY DEF NeedsOldMap, CountsOld, MembersNow, Merge
  <2> QED
    BY <2>1, <2>2, SteadyAre DEF InGroup
<1>10. WishTold' /\ SparedTold' /\ PlanSpares' /\ PlanCapped'
  BY <1>1, <1>5 DEF WishTold, SparedTold, PlanSpares, PlanCapped
<1> QED
  BY <1>2, <1>3, <1>7, <1>8, <1>9, <1>10 DEF CommunityInv

\* Steps that leave the maps alone.
LEMMA ElsewhereKeeps ==
    ASSUME CommunityInv, UNCHANGED <<worldVars, mapVars>>
    PROVE  LogsInv' /\ MultiInv' /\ OldInv' /\ UNCHANGED <<multi, map, chainVars, score, overCap>>
<1>1. UNCHANGED <<chainVars, multi, multiRow, map, stored, score, overCap>>
  BY DEF worldVars, mapVars
<1> QED
  BY <1>1, MapsSame DEF CommunityInv

LEMMA BeginCycleKeeps ==
    ASSUME CommunityInv, BeginCycle
    PROVE  CommunityInv'
<1>1. /\ UNCHANGED <<worldVars, mapVars, variant, source, mode, trust>>
      /\ stage' = FirstNeeded(Reads) /\ job' = NoJob /\ steady' = Rightful
  BY DEF BeginCycle, variant
<1>2. LogsInv' /\ MultiInv' /\ OldInv'
  BY <1>1, ElsewhereKeeps
<1>3. /\ stage' \in Reading
      /\ stage' \in {"old", "spare", "groups"} => ~NeedsNewMap
      /\ stage' \in {"spare", "groups"} => ~NeedsOldMap
      /\ stage' = "groups" => mode # "union"
  BY <1>1, NextStages DEF Reading
<1>4. Rightful' = Rightful
  BY <1>1, RightfulSame
<1>5. CycleTyped'
  BY <1>1, <1>3, <1>4 DEF CommunityInv, CycleTyped, NoJob, Job
<1>6. NewTold' /\ OldTold' /\ WishTold' /\ SparedTold' /\ PlanSpares' /\ PlanCapped'
  BY <1>1, <1>3 DEF NewTold, OldTold, WishTold, SparedTold, PlanSpares, PlanCapped,
                    NeedsNewMap, NeedsOldMap, Reading
<1> QED
  BY <1>2, <1>5, <1>6 DEF CommunityInv

LEMMA ReadSparedKeeps ==
    ASSUME CommunityInv, ReadSpared
    PROVE  CommunityInv'
<1>1. /\ UNCHANGED <<worldVars, mapVars, variant, source, mode, trust, steady>>
      /\ stage = "spare" /\ stage' = "groups"
      /\ job' = [job EXCEPT !.spared = FetchOldMembers \cup Grandfathered]
  BY DEF ReadSpared, variant
<1>2. /\ LogsInv' /\ MultiInv' /\ OldInv' /\ Rightful' = Rightful
      /\ UNCHANGED <<multi, map, chainVars, score, overCap>>
  BY <1>1, ElsewhereKeeps, RightfulSame
<1>3. /\ job' \in Job /\ job'.plan = job.plan
      /\ job'.spared = FetchOldMembers \cup Grandfathered
  <2>1. FetchOldMembers \cup Grandfathered \in SUBSET Member
    BY CommunityAssumption DEF FetchOldMembers
  <2>2. job \in Job
    BY DEF CommunityInv, CycleTyped
  <2> QED
    BY <1>1, <2>1, <2>2 DEF Job
<1>4. CycleTyped'
  BY <1>1, <1>2, <1>3 DEF CommunityInv, CycleTyped, Reading
<1>5. NewTold' /\ OldTold'
  BY <1>1, <1>2 DEF CommunityInv, NewTold, OldTold, NeedsNewMap, NeedsOldMap, CountsNew,
                    CountsOld, OldMembers
<1>6. SparedTold'
  <2> SUFFICES ASSUME NEW r \in steady, r[2] = "protected"
               PROVE  r[1] \in FetchOldMembers \cup Grandfathered
    BY <1>1, <1>3 DEF SparedTold
  <2>1. Affiliated(oldLog) \subseteq FetchOldMembers
    BY FetchedMembersSuffice DEF CommunityInv
  <2>2. r[1] \in Affiliated(oldLog) \cup Grandfathered
    BY SteadyAre DEF CommunityInv
  <2> QED
    BY <2>1, <2>2
<1>7. WishTold' /\ PlanSpares' /\ PlanCapped'
  BY <1>1 DEF WishTold, PlanSpares, PlanCapped
<1> QED
  BY <1>2, <1>4, <1>5, <1>6, <1>7 DEF CommunityInv

\* The wishlist has the steady members, and nobody of a group that has none.
LEMMA WishlistTells ==
    ASSUME CommunityInv, stage = "groups", NEW r \in steady
    PROVE  /\ r[2] = "eligible" => r[1] \in Wishlist
           /\ r[2] = "nobody listed" => InGroup(Wishlist, r[1][2]) = {}
<1>1. CycleTyped /\ source \in {"rpc", "registry", "old", "hybrid"}
  BY DEF CommunityInv, CycleTyped
<1>2. /\ r[2] = "eligible" => r[1] \in MembersNow
      /\ r[2] = "nobody listed" => InGroup(MembersNow, r[1][2]) = {}
  BY <1>1, SteadyAre
<1>3. CASE source = "rpc"
  BY <1>2, <1>3 DEF Wishlist, MembersNow
<1>4. CASE source = "registry"
  <2>1. NeedsNewMap /\ \A m : CountsNew(m)
    BY <1>4 DEF NeedsNewMap, CountsNew
  <2>2. Wishlist = multi.members
    BY <1>4 DEF Wishlist
  <2> QED
    BY <1>2, <2>1, <2>2 DEF CommunityInv, NewTold, InGroup
<1>5. CASE source = "old"
  <2>1. NeedsOldMap /\ \A m : CountsOld(m)
    BY <1>5 DEF NeedsOldMap, CountsOld
  <2>2. Wishlist = OldMembers
    BY <1>5 DEF Wishlist
  <2> QED
    BY <1>2, <2>1, <2>2 DEF CommunityInv, OldTold, InGroup
<1>6. CASE source = "hybrid"
  <2>1. /\ NeedsOldMap /\ NeedsNewMap
        /\ \A m : CountsNew(m) <=> m[1] \in TestAddresses
        /\ \A m : CountsOld(m) <=> m[1] \notin TestAddresses
    BY <1>6 DEF NeedsOldMap, NeedsNewMap, CountsNew, CountsOld
  <2>2. \A m : m \in Wishlist <=> \/ m \in OldMembers /\ CountsOld(m)
                                  \/ m \in multi.members /\ CountsNew(m)
    BY <1>6, <2>1 DEF Wishlist, Merge
  <2>3. NewTold /\ OldTold
    BY DEF CommunityInv
  <2>4. /\ r[2] = "eligible" /\ CountsNew(r[1]) => r[1] \in multi.members
        /\ r[2] = "nobody listed" => \A m \in InGroup(multi.members, r[1][2]) : ~CountsNew(m)
    BY <2>1, <2>3 DEF NewTold
  <2>5. /\ r[2] = "eligible" /\ CountsOld(r[1]) => r[1] \in OldMembers
        /\ r[2] = "nobody listed" => \A m \in InGroup(OldMembers, r[1][2]) : ~CountsOld(m)
    BY <2>1, <2>3 DEF OldTold
  <2>6. r[2] = "eligible" => r[1] \in Wishlist
    BY <2>1, <2>2, <2>4, <2>5
  <2>7. r[2] = "nobody listed" => InGroup(Wishlist, r[1][2]) = {}
    BY <2>2, <2>4, <2>5 DEF InGroup
  <2> QED
    BY <2>6, <2>7
<1> QED
  BY <1>1, <1>3, <1>4, <1>5, <1>6

LEMMA ReadGroupsKeeps ==
    ASSUME CommunityInv, ReadGroups
    PROVE  CommunityInv'
<1>1. /\ UNCHANGED <<worldVars, mapVars, variant, source, mode, trust, steady>>
      /\ stage = "groups" /\ stage' = "criteria"
      /\ job' = [job EXCEPT !.wishlist = Wishlist, !.trustees = trust]
  BY DEF ReadGroups, variant
<1>2. /\ LogsInv' /\ MultiInv' /\ OldInv' /\ Rightful' = Rightful
  BY <1>1, ElsewhereKeeps, RightfulSame
<1>3. /\ job' \in Job /\ job'.plan = job.plan /\ job'.spared = job.spared
      /\ job'.wishlist = Wishlist /\ job'.trustees = trust
  <2>1. Wishlist \in SUBSET Member
    BY DEF CommunityInv, CycleTyped, Wishlist, Merge, OldMembers, Listed, MultiInv, Maps
  <2>2. job \in Job /\ trust \in SUBSET Member
    BY DEF CommunityInv, CycleTyped
  <2> QED
    BY <1>1, <2>1, <2>2 DEF Job
<1>4. CycleTyped'
  BY <1>1, <1>2, <1>3 DEF CommunityInv, CycleTyped
<1>5. WishTold'
  BY <1>1, <1>3, WishlistTells DEF WishTold
<1>6. SparedTold'
  BY <1>1, <1>3 DEF CommunityInv, SparedTold
<1>7. NewTold' /\ OldTold' /\ PlanSpares' /\ PlanCapped'
  BY <1>1 DEF NewTold, OldTold, PlanSpares, PlanCapped
<1> QED
  BY <1>2, <1>4, <1>5, <1>6, <1>7 DEF CommunityInv

\* The cycle ends in an error, or the process ends.
LEMMA EndsKeep ==
    ASSUME CommunityInv, UNCHANGED <<worldVars, mapVars, variant>>,
           stage' \in {"down", "rest"}, job' = NoJob, steady' = {}, trust' \in SUBSET Member
    PROVE  CommunityInv'
<1>1. LogsInv' /\ MultiInv' /\ OldInv' /\ UNCHANGED <<source, mode>>
  BY ElsewhereKeeps DEF variant
<1>2. CycleTyped'
  BY <1>1 DEF CommunityInv, CycleTyped, NoJob, Job
<1>3. NewTold' /\ OldTold' /\ WishTold' /\ SparedTold' /\ PlanSpares' /\ PlanCapped'
  BY DEF NewTold, OldTold, WishTold, SparedTold, PlanSpares, PlanCapped
<1> QED
  BY <1>1, <1>2, <1>3 DEF CommunityInv

\* A cycle that goes on with an old map promises nothing to anybody.
LEMMA HeadUnknownKeeps ==
    ASSUME CommunityInv, OldHeadUnknown
    PROVE  CommunityInv'
<1>1. /\ UNCHANGED <<worldVars, mapVars, variant, source, mode, job, trust>>
      /\ steady' = {} /\ stage \in {"startOld", "old"}
      /\ stage' = IF stage = "startOld" THEN "rest" ELSE FirstNeeded(<<"spare", "groups">>)
  BY DEF OldHeadUnknown, AfterOld, variant
<1>2. LogsInv' /\ MultiInv' /\ OldInv'
  BY <1>1, ElsewhereKeeps
<1>3. stage' \in {"rest", "spare", "groups"}
  BY <1>1, NextStages
<1>4. CycleTyped'
  BY <1>1, <1>3 DEF CommunityInv, CycleTyped, Reading
<1>5. NewTold' /\ OldTold' /\ WishTold' /\ SparedTold' /\ PlanSpares' /\ PlanCapped'
  BY <1>1, <1>3 DEF NewTold, OldTold, WishTold, SparedTold, PlanSpares, PlanCapped
<1> QED
  BY <1>2, <1>4, <1>5 DEF CommunityInv

\* Nobody who is steady is to be untrusted.
LEMMA PolicySpares ==
    ASSUME CommunityInv, stage = "criteria"
    PROVE  ToUntrust \subseteq job.trustees /\ ToUntrust \cap MembersOfReasons(steady) = {}
<1>1. CycleTyped /\ WishTold /\ SparedTold /\ mode \in {"add-only", "union", "wishlist"}
  BY DEF CommunityInv, CycleTyped
<1> DEFINE raw == job.trustees \ EligibleListed
<1>2. \A m \in ToUntrust : /\ m \in raw /\ InGroup(job.wishlist, m[2]) # {}
                           /\ mode # "add-only" /\ (mode = "union" => m \notin job.spared)
  BY <1>1 DEF ToUntrust, UntrustPolicy
<1>3. ASSUME NEW r \in steady PROVE r[1] \notin ToUntrust
  <2>1. CASE r[2] = "add-only"
    BY <1>1, <1>2, <2>1, SteadyAre
  <2>2. CASE r[2] = "nobody listed"
    BY <1>1, <1>2, <2>2 DEF WishTold
  <2>3. CASE r[2] = "eligible"
    <3>1. r[1] \in job.wishlist /\ Eligible(r[1])
      BY <1>1, <2>3, SteadyAre DEF WishTold
    <3> QED
      BY <1>2, <3>1 DEF EligibleListed
  <2>4. CASE r[2] = "protected"
    <3>1. mode = "union" /\ r[1] \in job.spared
      BY <1>1, <2>4, SteadyAre DEF SparedTold
    <3> QED
      BY <1>2, <3>1
  <2> QED
    BY <1>1, <2>1, <2>2, <2>3, <2>4, SteadyAre
<1> QED
  BY <1>2, <1>3 DEF MembersOfReasons

LEMMA DecideKeeps ==
    ASSUME CommunityInv, Decide
    PROVE  CommunityInv'
<1>1. UNCHANGED <<worldVars, mapVars, variant, source, mode, trust>> /\ stage = "criteria"
  BY DEF Decide, variant
<1>2. CycleTyped /\ job \in Job /\ trust \in SUBSET Member /\ job.trustees = trust
  BY <1>1 DEF CommunityInv, CycleTyped, WishTold
<1>3. CASE /\ WithinCaps(ToUntrust)
           /\ job' = [job EXCEPT !.plan = PlanFor(ToUntrust, EligibleListed \ job.trustees)]
           /\ stage' = "execute" /\ UNCHANGED steady
  <2>0. PICK untrusted, trusted :
          untrusted = ToUntrust /\ trusted = EligibleListed \ job.trustees
    OBVIOUS
  <2>1. LogsInv' /\ MultiInv' /\ OldInv' /\ Rightful' = Rightful
    BY <1>1, ElsewhereKeeps, RightfulSame
  <2>2. untrusted \in SUBSET job.trustees /\ untrusted \cap MembersOfReasons(steady) = {}
    BY <1>1, <2>0, PolicySpares
  <2>3. untrusted \in SUBSET Member /\ trusted \in SUBSET Member
    BY <1>2, <2>0, <2>2 DEF EligibleListed, Job
  <2>4. WithinCaps(untrusted) /\ job' = [job EXCEPT !.plan = PlanFor(untrusted, trusted)]
    BY <1>3, <2>0
  <2>5. PlanFor(untrusted, trusted) \in Seq(Plans(untrusted, trusted))
    BY <2>3, PlanTyped
  <2>6. Plans(untrusted, trusted) \subseteq Operation
    BY <2>3 DEF Plans, Operation
  <2>7. /\ job'.plan = PlanFor(untrusted, trusted) /\ job'.trustees = job.trustees
        /\ job'.spared = job.spared /\ job'.wishlist = job.wishlist
    BY <1>2, <2>4 DEF Job
  <2>8. job'.plan \in Seq(Operation)
    BY <2>5, <2>6, <2>7, SequenceWidens
  <2>9. job' \in Job
    BY <1>2, <2>4, <2>7, <2>8 DEF Job
  <2>10. \A i \in DOMAIN job'.plan :
            job'.plan[i].op = "untrust" => job'.plan[i].members \subseteq untrusted
    <3>1. ASSUME NEW i \in DOMAIN job'.plan PROVE job'.plan[i] \in Plans(untrusted, trusted)
      BY <2>5, <2>7
    <3> QED
      BY <3>1 DEF Plans
  <2>11. CycleTyped'
    BY <1>1, <1>2, <1>3, <2>1, <2>9 DEF CycleTyped
  <2>12. PlanSpares'
    BY <1>3, <2>2, <2>10 DEF PlanSpares, MembersOfReasons
  <2>13. PlanCapped'
    <3>1. WithinCaps(untrusted)'
      BY <2>4, <2>7 DEF WithinCaps
    <3>2. job'.trustees \ trust' = {}
      BY <1>1, <1>2, <2>7
    <3> QED
      BY <2>2, <2>7, <2>10, <3>1, <3>2 DEF PlanCapped
  <2>14. NewTold' /\ OldTold' /\ WishTold' /\ SparedTold'
    BY <1>3 DEF NewTold, OldTold, WishTold, SparedTold
  <2> QED
    BY <2>1, <2>11, <2>12, <2>13, <2>14 DEF CommunityInv
<1>4. CASE CycleError
  <2>1. stage' \in {"down", "rest"} /\ job' = NoJob /\ steady' = {}
    BY <1>4 DEF CycleError
  <2> QED
    BY <1>1, <1>2, <2>1, EndsKeep
<1> QED
  BY <1>3, <1>4 DEF Decide

\* A transaction takes no trust that the plan may not take.
LEMMA CarryTakes ==
    ASSUME CommunityInv, job.plan # <<>>, Carry(Head(job.plan))
    PROVE  /\ stage = "execute" /\ trust' \in SUBSET Member
           /\ (trust \ trust') \cap MembersOfReasons(steady) = {}
           /\ \/ trust \subseteq trust'
              \/ job.plan[1].op = "untrust" /\ trust' = trust \ job.plan[1].members
<1>1. stage = "execute" /\ job.plan \in Seq(Operation) /\ trust \in SUBSET Member
  BY DEF CommunityInv, CycleTyped, Job
<1>2. 1 \in DOMAIN job.plan /\ Head(job.plan) = job.plan[1] /\ job.plan[1] \in Operation
  BY <1>1
<1>3. job.plan[1].op = "untrust" => job.plan[1].members \cap MembersOfReasons(steady) = {}
  BY <1>1, <1>2 DEF CommunityInv, PlanSpares
<1>4. CASE job.plan[1].op = "trust"
  BY <1>1, <1>2, <1>4 DEF Carry, Operation
<1>5. CASE job.plan[1].op = "untrust"
  BY <1>1, <1>2, <1>3, <1>5 DEF Carry, Operation
<1> QED
  BY <1>2, <1>4, <1>5 DEF Operation

LEMMA ExecuteKeeps ==
    ASSUME CommunityInv, ExecuteOperation
    PROVE  CommunityInv'
<1>1. /\ UNCHANGED <<worldVars, mapVars, variant, source, mode, stage, steady>>
      /\ stage = "execute" /\ job.plan # <<>> /\ Carry(Head(job.plan))
      /\ job' = [job EXCEPT !.plan = Tail(@)]
  BY DEF ExecuteOperation, variant
<1>2. LogsInv' /\ MultiInv' /\ OldInv' /\ Rightful' = Rightful
  BY <1>1, ElsewhereKeeps, RightfulSame
<1>3. job \in Job /\ job.plan \in Seq(Operation) /\ trust \in SUBSET Member
  BY DEF CommunityInv, CycleTyped, Job
<1>4. /\ trust' \in SUBSET Member
      /\ \/ trust \subseteq trust'
         \/ job.plan[1].op = "untrust" /\ trust' = trust \ job.plan[1].members
  BY <1>1, CarryTakes
<1>5. /\ job'.plan = Tail(job.plan) /\ job'.trustees = job.trustees
      /\ job'.plan \in Seq(Operation) /\ job' \in Job
  <2>1. Tail(job.plan) \in Seq(Operation)
    BY <1>1, <1>3
  <2> QED
    BY <1>1, <1>3, <2>1 DEF Job
<1>6. ASSUME NEW i \in DOMAIN job'.plan
      PROVE  i + 1 \in DOMAIN job.plan /\ job'.plan[i] = job.plan[i + 1]
  BY <1>1, <1>3, <1>5
<1>7. CycleTyped'
  BY <1>1, <1>2, <1>4, <1>5 DEF CommunityInv, CycleTyped
<1>8. PlanSpares'
  BY <1>1, <1>6 DEF CommunityInv, PlanSpares, MembersOfReasons
<1>9. PlanCapped'
  <2>1. PICK most \in SUBSET job.trustees :
          /\ WithinCaps(most)
          /\ job.trustees \ trust \subseteq most
          /\ \A i \in DOMAIN job.plan :
              job.plan[i].op = "untrust" => job.plan[i].members \subseteq most
    BY <1>1 DEF CommunityInv, PlanCapped
  <2>2. WithinCaps(most)'
    BY <1>5, <2>1 DEF WithinCaps
  <2>3. 1 \in DOMAIN job.plan
    BY <1>1, <1>3
  <2>4. job'.trustees \ trust' \subseteq most
    BY <1>4, <1>5, <2>1, <2>3
  <2>5. \A i \in DOMAIN job'.plan :
            job'.plan[i].op = "untrust" => job'.plan[i].members \subseteq most
    BY <1>6, <2>1
  <2> QED
    BY <1>5, <2>2, <2>4, <2>5 DEF PlanCapped
<1>10. NewTold' /\ OldTold' /\ WishTold' /\ SparedTold'
  BY <1>1 DEF NewTold, OldTold, WishTold, SparedTold
<1> QED
  BY <1>2, <1>7, <1>8, <1>9, <1>10 DEF CommunityInv

\* A step keeps the invariant and takes the trust of nobody who is steady.
LEMMA CommunityKeeps ==
    ASSUME CommunityInv, [CommunityNext]_communityVars
    PROVE  CommunityInv' /\ (trust \ trust') \cap MembersOfReasons(steady) = {}
<1>0. trust \in SUBSET Member
  BY DEF CommunityInv, CycleTyped
<1>1. CASE WorldStep
  BY <1>1, WorldKeeps DEF WorldStep
<1>2. CASE Start
  BY <1>2, StartKeeps DEF Start
<1>3. CASE RefreshNewSource
  BY <1>3, RefreshNewKeeps DEF RefreshNewSource
<1>4. CASE RefreshOldSource
  BY <1>4, RefreshOldSourceKeeps DEF RefreshOldSource
<1>5. CASE BeginCycle
  BY <1>5, BeginCycleKeeps DEF BeginCycle
<1>6. CASE ReadSpared
  BY <1>6, ReadSparedKeeps DEF ReadSpared
<1>7. CASE ReadGroups
  BY <1>7, ReadGroupsKeeps DEF ReadGroups
<1>8. CASE Decide
  BY <1>8, DecideKeeps DEF Decide
<1>9. CASE ExecuteOperation
  BY <1>9, ExecuteKeeps, CarryTakes DEF ExecuteOperation
<1>10. CASE EndCycle
  BY <1>0, <1>10, EndsKeep DEF EndCycle
<1>11. CASE RequestFails
  <2>1. /\ UNCHANGED <<worldVars, mapVars, variant>>
        /\ stage' \in {"down", "rest"} /\ job' = NoJob /\ steady' = {}
    BY <1>11 DEF RequestFails, CycleError
  <2>2. trust' \in SUBSET Member /\ (trust \ trust') \cap MembersOfReasons(steady) = {}
    <3>1. CASE UNCHANGED trust
      BY <1>0, <3>1
    <3>2. CASE job.plan # <<>> /\ Carry(Head(job.plan))
      BY <3>2, CarryTakes
    <3> QED
      BY <1>11, <3>1, <3>2 DEF RequestFails
  <2> QED
    BY <2>1, <2>2, EndsKeep
<1>12. CASE Crash
  BY <1>0, <1>12, EndsKeep DEF Crash
<1>13. CASE OldHeadUnknown
  BY <1>13, HeadUnknownKeeps DEF OldHeadUnknown
<1>14. CASE UNCHANGED communityVars
  <2>1. /\ UNCHANGED <<worldVars, mapVars, variant, source, mode, stage, job, trust, steady>>
    BY <1>14 DEF communityVars, variant
  <2>2. LogsInv' /\ MultiInv' /\ OldInv' /\ Rightful' = Rightful /\ UNCHANGED <<multi, map>>
    BY <2>1, ElsewhereKeeps, RightfulSame
  <2>3. CycleTyped'
    BY <2>1, <2>2 DEF CommunityInv, CycleTyped
  <2>4. NewTold' /\ OldTold'
    BY <2>1, <2>2 DEF CommunityInv, NewTold, OldTold, NeedsNewMap, NeedsOldMap, CountsNew,
                      CountsOld, InGroup, OldMembers
  <2>5. WishTold' /\ SparedTold' /\ PlanSpares'
    BY <2>1 DEF CommunityInv, WishTold, SparedTold, PlanSpares, InGroup, MembersOfReasons
  <2>6. PlanCapped'
    BY <2>1 DEF CommunityInv, PlanCapped, WithinCaps, InGroup
  <2> QED
    BY <2>1, <2>2, <2>3, <2>4, <2>5, <2>6 DEF CommunityInv
<1> QED
  BY <1>1, <1>2, <1>3, <1>4, <1>5, <1>6, <1>7, <1>8, <1>9, <1>10, <1>11, <1>12, <1>13,
     <1>14 DEF CommunityNext, CommunityStep

-----------------------------------------------------------------------------
(* What follows. *)

LEMMA CommunityAlways == CommunitySpec => []CommunityInv
<1>1. CommunityInit => CommunityInv
  BY CommunityStarts
<1>2. CommunityInv /\ [CommunityNext]_communityVars => CommunityInv'
  BY CommunityKeeps
<1> QED
  BY <1>1, <1>2, PTL DEF CommunitySpec

\* What the refreshes of the new registry have made of the map, over failed saves
\* and loads and restarts, is what a scan of all the logs would have made.
THEOREM MultiMapAlwaysReplay == CommunitySpec => []MultiMapIsReplay
<1>1. CommunityInv => MultiMapIsReplay
  BY DEF CommunityInv, MultiInv
<1> QED
  BY <1>1, CommunityAlways, PTL

\* So it is with the affiliate map of the old registry.
THEOREM OldMapAlwaysReplay == CommunitySpec => []OldMapIsReplay
<1>1. CommunityInv => OldMapIsReplay
  BY OldInvIsReplay DEF CommunityInv
<1> QED
  BY <1>1, CommunityAlways, PTL

\* In this worker too the two indexes of the affiliate map agree.
THEOREM CommunityIndexExact == CommunitySpec => []ReverseIndexExact
<1>1. CommunityInv => ReverseIndexExact
  BY DEF CommunityInv, OldInv, Exact, ReverseIndexExact
<1> QED
  BY <1>1, CommunityAlways, PTL

\* Whatever a step takes, the caps have been checked for more.
LEMMA StepTakes ==
    ASSUME CommunityInv, [CommunityNext]_communityVars, stage = "execute"
    PROVE  \E most \in SUBSET job.trustees :
                WithinCaps(most) /\ job.trustees \ trust' \subseteq most
<1>1. PICK most \in SUBSET job.trustees :
        /\ WithinCaps(most)
        /\ job.trustees \ trust \subseteq most
        /\ \A i \in DOMAIN job.plan :
            job.plan[i].op = "untrust" => job.plan[i].members \subseteq most
  BY DEF CommunityInv, PlanCapped
<1>2. CASE job.plan # <<>> /\ Carry(Head(job.plan))
  <2>1. 1 \in DOMAIN job.plan
    BY <1>2 DEF CommunityInv, CycleTyped, Job
  <2> QED
    BY <1>1, <1>2, <2>1, CarryTakes
<1>3. CASE UNCHANGED trust
  BY <1>1, <1>3
<1>4. (job.plan # <<>> /\ Carry(Head(job.plan))) \/ UNCHANGED trust
  BY DEF CommunityNext, CommunityStep, WorldStep, Start, RefreshNewSource, RefreshOldSource,
         BeginCycle, ReadSpared, ReadGroups, Decide, ExecuteOperation, EndCycle, RequestFails,
         OldHeadUnknown, Crash, communityVars
<1> QED
  BY <1>2, <1>3, <1>4

\* The untrusts of a cycle stay within the caps, whichever of its transactions
\* fail or are reported so.
THEOREM CapsAlwaysKept == CommunitySpec => []CycleWithinCaps
<1>1. ASSUME CommunityInv, [CommunityNext]_communityVars, stage = "execute"
      PROVE  LET gone == job.trustees \ trust'
             IN  /\ Cardinality(gone) <= MaxUntrustTotal
                 /\ \A g \in Managed :
                     Cardinality(InGroup(gone, g)) * RatioDen
                         <= Cardinality(InGroup(job.trustees, g)) * RatioNum
  <2> DEFINE gone == job.trustees \ trust'
  <2>1. PICK most \in SUBSET job.trustees : WithinCaps(most) /\ gone \subseteq most
    BY <1>1, StepTakes
  <2>2. most \subseteq Member
    BY <1>1, <2>1 DEF CommunityInv, CycleTyped, Job
  <2> HIDE DEF gone
  <2>3. ASSUME NEW few, NEW many, few \subseteq many, many \subseteq Member
        PROVE  /\ Cardinality(few) \in Nat /\ Cardinality(many) \in Nat
               /\ Cardinality(few) <= Cardinality(many)
    <3>1. IsFiniteSet(many)
      BY <2>3, FiniteMembers, FS_Subset
    <3> QED
      BY <2>3, <3>1, FS_Subset, FS_CardinalityType
  <2>4. Cardinality(gone) <= MaxUntrustTotal
    <3>1. Cardinality(most) <= MaxUntrustTotal
      BY <2>1 DEF WithinCaps
    <3> QED
      BY <2>1, <2>2, <2>3, <3>1, CommunityAssumption
  <2>5. ASSUME NEW g \in Managed
        PROVE  Cardinality(InGroup(gone, g)) * RatioDen
                    <= Cardinality(InGroup(job.trustees, g)) * RatioNum
    <3> DEFINE few == InGroup(gone, g)
               many == InGroup(most, g)
               limit == Cardinality(InGroup(job.trustees, g)) * RatioNum
    <3>1. few \subseteq many /\ many \subseteq Member /\ InGroup(job.trustees, g) \subseteq Member
      BY <1>1, <2>1, <2>2 DEF InGroup, CommunityInv, CycleTyped, Job
    <3>2. Cardinality(many) * RatioDen <= limit
      BY <2>1 DEF WithinCaps
    <3> HIDE DEF few, many
    <3>3. /\ Cardinality(few) \in Nat /\ Cardinality(many) \in Nat
          /\ Cardinality(few) <= Cardinality(many)
      BY <2>3, <3>1
    <3>4. limit \in Nat /\ RatioDen \in Nat
      <4>1. Cardinality(InGroup(job.trustees, g)) \in Nat
        BY <2>3, <3>1
      <4> QED
        BY <4>1, CommunityAssumption
    <3> HIDE DEF limit
    <3>5. Cardinality(few) * RatioDen <= limit
      BY <3>2, <3>3, <3>4, ProductGrows
    <3> QED
      BY <3>5 DEF few, limit
  <2> QED
    BY <2>4, <2>5 DEF gone
<1>2. CommunityInv /\ [CommunityNext]_communityVars =>
        [LET gone == job.trustees \ trust'
         IN  stage = "execute" =>
                 /\ Cardinality(gone) <= MaxUntrustTotal
                 /\ \A g \in Managed :
                     Cardinality(InGroup(gone, g)) * RatioDen
                         <= Cardinality(InGroup(job.trustees, g)) * RatioNum]_communityVars
  BY <1>1
<1> QED
  BY <1>2, CommunityAlways, PTL DEF CommunitySpec, CycleWithinCaps

\* A failed load makes the worker scan anew, and no failure makes a row go back.
THEOREM RowsAlwaysGoOn == CommunitySpec => RowsNeverGoBack
<1> DEFINE Goes == /\ stored # NoRow => stored' # NoRow /\ stored'.block >= stored.block
                   /\ multiRow'.block >= multiRow.block
<1>1. ASSUME CommunityInv, [CommunityNext]_communityVars PROVE Goes
  <2>1. multiRow.block \in Int /\ (stored # NoRow => stored.block \in Int)
    BY <1>1 DEF CommunityInv, MultiInv, OldInv, Scanned
  <2>2. CASE RefreshNewSource
    <3>1. UNCHANGED <<chainVars, stored>> /\ RefreshMulti
      BY <2>2 DEF RefreshNewSource, worldVars
    <3> QED
      BY <1>1, <2>1, <3>1, RefreshMultiKeeps DEF CommunityInv
  <2>3. CASE RefreshOldSource
    <3>1. UNCHANGED <<chainVars, multiRow>> /\ RefreshOld
      BY <2>3 DEF RefreshOldSource, worldVars
    <3> QED
      BY <1>1, <2>1, <3>1, RefreshOldKeeps DEF CommunityInv
  <2>4. CASE ~RefreshNewSource /\ ~RefreshOldSource
    <3>1. UNCHANGED <<stored, multiRow>>
      BY <1>1, <2>4
         DEF CommunityNext, CommunityStep, WorldStep, Start, LoadMulti, LoadOld, Restart, BeginCycle,
             ReadSpared, ReadGroups, Decide, ExecuteOperation, EndCycle, RequestFails,
             OldHeadUnknown, Crash, communityVars, mapVars
    <3> QED
      BY <2>1, <3>1
  <2> QED
    BY <2>2, <2>3, <2>4
<1>2. CommunityInv /\ [CommunityNext]_communityVars => [Goes]_communityVars
  BY <1>1
<1> QED
  BY <1>2, CommunityAlways, PTL DEF CommunitySpec, RowsNeverGoBack

\* Whoever has one lasting right to the trust of a group keeps it, whatever else
\* goes on during the cycle.
THEOREM SteadyMembersAlwaysKept == CommunitySpec => SteadyMembersKept
<1>1. CommunityInv /\ [CommunityNext]_communityVars
        => [(trust \ trust') \cap MembersOfReasons(steady) = {}]_communityVars
  BY CommunityKeeps
<1> QED
  BY <1>1, CommunityAlways, PTL DEF CommunitySpec, SteadyMembersKept
=============================================================================
