---------------------------- MODULE ServicesProofs ----------------------------
(***************************************************************************)
(* The services that several workers use: the reads of event ranges and of *)
(* paged lists, and the executor of Safe transactions.                     *)
(***************************************************************************)
EXTENDS Services, DataLemmas

-----------------------------------------------------------------------------
(***************************************************************************)
(* What fetchEventsRecursive leaves out, for any page size, any depth cap, *)
(* any number of blocks and of events.                                     *)
(*                                                                         *)
(* A range that is left at depth d is no wider than 2^(DepthCap - d), when *)
(* the range that was asked for is no wider than 2^DepthCap: at the cap    *)
(* there are single blocks only, and nothing is cut.                       *)
(***************************************************************************)

\* A part of a finite set is no larger.
LEMMA NoLarger ==
    ASSUME NEW S, IsFiniteSet(S), NEW T \in SUBSET S
    PROVE  IsFiniteSet(T) /\ Cardinality(T) \in Nat /\ Cardinality(T) <= Cardinality(S)
BY FS_Subset, FS_CardinalityType

\* The index has finitely many events to begin with.
LEMMA IndexFinite ==
    ASSUME RangesInit
    PROVE  indexed \subseteq [block : Blocks, index : 1 .. PageLimit] /\ IsFiniteSet(indexed)
<1> DEFINE pair == [e \in indexed |-> <<e.block, e.index>>]
           Pairs == Blocks \X (1 .. PageLimit)
<1>1. PICK size \in [Blocks -> 0 .. PageLimit] :
        indexed = UNION {{[block |-> b, index |-> i] : i \in 1 .. size[b]} : b \in Blocks}
  BY DEF RangesInit
<1>2. indexed \subseteq [block : Blocks, index : 1 .. PageLimit]
  <2> SUFFICES ASSUME NEW e \in indexed PROVE e \in [block : Blocks, index : 1 .. PageLimit]
    OBVIOUS
  <2>1. PICK b \in Blocks : e \in {[block |-> b, index |-> i] : i \in 1 .. size[b]}
    BY <1>1
  <2>2. size[b] \in Int /\ size[b] <= PageLimit /\ PageLimit \in Int
    BY EventRangesAssumption
  <2> QED
    BY <2>1, <2>2
<1>3. pair \in Injection(indexed, Pairs)
  <2>1. pair \in [indexed -> Pairs]
    BY <1>2
  <2>2. ASSUME NEW e \in indexed, NEW f \in indexed, pair[e] = pair[f] PROVE e = f
    BY <1>2, <2>2
  <2> QED
    BY <2>1, <2>2 DEF Injection, IsInjective
<1>4. IsFiniteSet(Pairs)
  <2>1. IsFiniteSet(Blocks)
    BY FS_Interval, EventRangesAssumption DEF Blocks
  <2>2. IsFiniteSet(1 .. PageLimit)
    BY FS_Interval, EventRangesAssumption
  <2> QED
    BY <2>1, <2>2, FS_Product
<1> QED
  BY <1>2, <1>3, <1>4, FS_Injection

-----------------------------------------------------------------------------
RangesInv ==
    /\ RangesTypeOK
    /\ atStart \subseteq indexed
    /\ todo # {} => Reading
    /\ \A range \in todo : asked.to - asked.from < 2 ^ DepthCap =>
          range.to - range.from < 2 ^ (DepthCap - range.depth)
    /\ RangesAccounted

\* Halves cover a range, and are half as wide.
LEMMA HalvesOfRange ==
    ASSUME NEW range \in BlockRange, range.from < range.to, range.depth < DepthCap
    PROVE  /\ Halves(range) \subseteq BlockRange
           /\ \A e \in Event : In(e, range) => \E half \in Halves(range) : In(e, half)
           /\ range.to - range.from < 2 ^ (DepthCap - range.depth) =>
                \A half \in Halves(range) : half.to - half.from < 2 ^ (DepthCap - half.depth)
<1> DEFINE middle == (range.from + range.to) \div 2
           lower == [from |-> range.from, to |-> middle, depth |-> range.depth + 1]
           upper == [from |-> middle + 1, to |-> range.to, depth |-> range.depth + 1]
<1>1. /\ range.from \in Nat /\ range.to \in Nat /\ range.to <= LastBlock /\ LastBlock \in Nat
      /\ range.depth \in Nat /\ DepthCap \in Nat
  BY EventRangesAssumption DEF BlockRange, Blocks
<1>2. Halves(range) = {lower, upper}
  BY DEF Halves
<1>3. middle \in Nat /\ range.from <= middle /\ middle < range.to
  BY <1>1
<1>4. lower \in BlockRange /\ upper \in BlockRange
  BY <1>1, <1>3 DEF BlockRange, Blocks
<1>5. ASSUME NEW e \in Event, In(e, range) PROVE In(e, lower) \/ In(e, upper)
  BY <1>1, <1>3, <1>5 DEF In, Event, Blocks
<1>6. ASSUME range.to - range.from < 2 ^ (DepthCap - range.depth)
      PROVE  \A half \in {lower, upper} : half.to - half.from < 2 ^ (DepthCap - half.depth)
  <2> DEFINE rest == DepthCap - (range.depth + 1)
  <2>1. rest \in 0 .. DepthCap /\ rest + 1 = DepthCap - range.depth
    BY <1>1
  <2>2. 2 ^ rest \in Nat /\ 2 ^ (DepthCap - range.depth) = 2 * 2 ^ rest
    BY <2>1, PowersOfTwo
  <2> HIDE DEF rest
  <2>3. PICK width \in Nat : width = 2 ^ rest /\ range.to - range.from < 2 * width
    BY <1>6, <2>2
  <2>4. middle - range.from < width /\ range.to - (middle + 1) < width
    BY <1>1, <2>3
  <2> QED
    BY <2>3, <2>4 DEF rest
<1> QED
  BY <1>2, <1>4, <1>5, <1>6

\* A block keeps its events, and so stays crowded.
LEMMA StaysCrowded ==
    ASSUME RangesTypeOK, IsFiniteSet(indexed'), indexed \subseteq indexed', NEW b, Crowded(b)
    PROVE  Crowded(b)'
<1>1. OfBlock(b) \subseteq OfBlock(b)' /\ OfBlock(b)' \subseteq indexed' /\ OfBlock(b) \subseteq indexed
  BY DEF OfBlock
<1>2. IsFiniteSet(indexed)
  BY DEF RangesTypeOK
<1>3. /\ Cardinality(OfBlock(b)) \in Nat /\ Cardinality(OfBlock(b)') \in Nat
      /\ Cardinality(OfBlock(b)) <= Cardinality(OfBlock(b)')
  BY <1>1, <1>2, NoLarger
<1> QED
  BY <1>3, EventRangesAssumption DEF Crowded

LEMMA AskInv ==
    ASSUME RangesInv, Ask PROVE RangesInv'
<1>1. PICK from \in Blocks, to \in Blocks :
        /\ from <= to
        /\ asked' = [from |-> from, to |-> to]
        /\ todo' = {[from |-> from, to |-> to, depth |-> 0]}
        /\ found' = {} /\ cut' = FALSE /\ atStart' = indexed
        /\ UNCHANGED <<indexed, late>>
  BY DEF Ask
<1>2. from \in Nat /\ to \in Nat /\ DepthCap \in Nat
  BY EventRangesAssumption DEF Blocks
<1>3. RangesTypeOK'
  <2>1. [from |-> from, to |-> to, depth |-> 0] \in BlockRange
    BY <1>2 DEF BlockRange
  <2>2. todo' \subseteq BlockRange /\ asked' \in [from : Blocks, to : Blocks]
    BY <1>1, <2>1
  <2> QED
    BY <1>1, <2>2 DEF RangesInv, RangesTypeOK
<1>4. Reading'
  BY <1>1, <1>2 DEF Reading, NotAsked
<1>5. RangesAccounted'
  BY <1>1 DEF RangesAccounted, In
<1>6. \A range \in todo' : asked'.to - asked'.from < 2 ^ DepthCap =>
          range.to - range.from < 2 ^ (DepthCap - range.depth)
  BY <1>1, <1>2
<1> QED
  BY <1>1, <1>3, <1>4, <1>5, <1>6 DEF RangesInv

LEMMA ShowsInv ==
    ASSUME RangesInv, Shows PROVE RangesInv'
<1>1. PICK b \in Blocks :
        indexed' = indexed \cup {[block |-> b, index |-> Cardinality(OfBlock(b)) + 1]}
  BY DEF Shows
<1>2. UNCHANGED <<asked, todo, found, cut, atStart>> /\ late' = late + 1
  BY DEF Shows
<1>3. IsFiniteSet(indexed) /\ Cardinality(OfBlock(b)) \in Nat
  BY NoLarger DEF RangesInv, RangesTypeOK, OfBlock
<1>4. RangesTypeOK'
  <2>1. [block |-> b, index |-> Cardinality(OfBlock(b)) + 1] \in Event
    BY <1>3 DEF Event
  <2>2. IsFiniteSet(indexed')
    BY <1>1, <1>3, FS_AddElement
  <2> QED
    BY <1>1, <1>2, <2>1, <2>2 DEF RangesInv, RangesTypeOK
<1>5. \A c : Crowded(c) => Crowded(c)'
  BY <1>1, <1>4, StaysCrowded DEF RangesInv, RangesTypeOK
<1>6. RangesAccounted'
  BY <1>2, <1>5 DEF RangesInv, RangesAccounted
<1> QED
  BY <1>1, <1>2, <1>4, <1>6 DEF RangesInv, Reading

LEMMA ReadInv ==
    ASSUME RangesInv, ReadRange PROVE RangesInv'
<1>1. PICK range \in todo, page \in SUBSET indexed :
        /\ IsAnswer(page, range)
        /\ LET full == Cardinality(page) >= PageLimit
               single == range.from >= range.to
           IN \/ /\ ~full \/ single
                 /\ todo' = todo \ {range} /\ found' = found \cup page
                 /\ UNCHANGED cut
              \/ /\ full /\ ~single /\ range.depth >= DepthCap
                 /\ todo' = todo \ {range} /\ found' = found \cup page
                 /\ cut' = TRUE
              \/ /\ full /\ ~single /\ range.depth < DepthCap
                 /\ todo' = (todo \ {range}) \cup Halves(range)
                 /\ UNCHANGED <<found, cut>>
        /\ UNCHANGED <<indexed, asked, atStart, late>>
  BY DEF ReadRange
<1>2. /\ range \in BlockRange /\ range.from \in Nat /\ range.to \in Nat /\ range.depth \in 0 .. DepthCap
      /\ DepthCap \in Nat /\ PageLimit \in Nat /\ Reading
  BY <1>1, EventRangesAssumption DEF RangesInv, RangesTypeOK, BlockRange, Blocks
<1>3. asked.from \in Nat /\ asked.to \in Nat
  BY <1>2 DEF RangesInv, RangesTypeOK, Reading, Blocks
<1>4. Cardinality(page) \in Nat
  BY <1>1, NoLarger DEF RangesInv, RangesTypeOK
<1>5. \A b : Crowded(b)' = Crowded(b)
  BY <1>1 DEF Crowded, OfBlock
<1>6. page \subseteq Event /\ atStart \subseteq indexed /\ indexed \subseteq Event
  BY <1>1 DEF RangesInv, RangesTypeOK
\* An answer that is kept.
<1>7. CASE /\ Cardinality(page) < PageLimit \/ range.from >= range.to
           /\ todo' = todo \ {range} /\ found' = found \cup page /\ UNCHANGED cut
  <2>1. ASSUME NEW e \in atStart, In(e, range) PROVE e \in page \/ Crowded(e.block)
    <3>1. CASE page = {f \in indexed : In(f, range)}
      BY <1>6, <2>1, <3>1
    <3>2. CASE Cardinality(page) = PageLimit
      <4>1. range.from >= range.to
        BY <1>2, <1>7, <3>2
      <4>2. page \subseteq OfBlock(e.block) /\ OfBlock(e.block) \subseteq indexed
        BY <1>1, <1>2, <1>6, <2>1, <4>1 DEF IsAnswer, In, OfBlock, Event, Blocks
      <4> QED
        BY <1>2, <3>2, <4>2, NoLarger DEF Crowded, RangesInv, RangesTypeOK
    <3> QED
      BY <1>1, <3>1, <3>2 DEF IsAnswer
  <2>2. RangesAccounted'
    BY <1>1, <1>5, <1>7, <2>1 DEF RangesInv, RangesAccounted
  <2>3. RangesTypeOK'
    BY <1>1, <1>6, <1>7 DEF RangesInv, RangesTypeOK
  <2> QED
    BY <1>1, <1>7, <2>2, <2>3 DEF RangesInv, Reading
\* A range that is given up is wide, and so was the one that was asked for.
<1>8. CASE /\ range.from < range.to /\ range.depth >= DepthCap
           /\ todo' = todo \ {range} /\ found' = found \cup page /\ cut' = TRUE
  <2>1. asked.to - asked.from >= 2 ^ DepthCap
    <3>1. DepthCap - range.depth = 0 /\ 2 ^ 0 = 1 /\ 2 ^ DepthCap \in Nat
      BY <1>2, <1>8, PowersOfTwo
    <3>2. ~(range.to - range.from < 2 ^ (DepthCap - range.depth))
      <4>1. 2 ^ (DepthCap - range.depth) = 1
        BY <3>1, Zenon
      <4> QED
        BY <1>2, <1>8, <4>1
    <3>3. ~(asked.to - asked.from < 2 ^ DepthCap)
      BY <1>1, <3>2 DEF RangesInv
    <3> QED
      BY <1>3, <3>1, <3>3
  <2>2. RangesAccounted'
    BY <1>1, <1>8, <2>1 DEF RangesAccounted
  <2>3. RangesTypeOK'
    BY <1>1, <1>6, <1>8 DEF RangesInv, RangesTypeOK
  <2> QED
    BY <1>1, <1>8, <2>2, <2>3 DEF RangesInv, Reading
<1>9. CASE /\ range.from < range.to /\ range.depth < DepthCap
           /\ todo' = (todo \ {range}) \cup Halves(range) /\ UNCHANGED <<found, cut>>
  <2>1. /\ Halves(range) \subseteq BlockRange
        /\ \A e \in Event : In(e, range) => \E half \in Halves(range) : In(e, half)
        /\ range.to - range.from < 2 ^ (DepthCap - range.depth) =>
             \A half \in Halves(range) : half.to - half.from < 2 ^ (DepthCap - half.depth)
    BY <1>2, <1>9, HalvesOfRange
  <2>2. RangesAccounted'
    BY <1>1, <1>5, <1>6, <1>9, <2>1 DEF RangesInv, RangesAccounted
  <2>3. RangesTypeOK'
    BY <1>1, <1>9, <2>1 DEF RangesInv, RangesTypeOK
  <2>4. \A other \in todo' : asked'.to - asked'.from < 2 ^ DepthCap =>
            other.to - other.from < 2 ^ (DepthCap - other.depth)
    BY <1>1, <1>9, <2>1 DEF RangesInv
  <2> QED
    BY <1>1, <1>2, <2>2, <2>3, <2>4 DEF RangesInv, Reading
<1> QED
  <2>1. range.from >= range.to \/ range.from < range.to
    BY <1>2
  <2>2. ~(Cardinality(page) >= PageLimit) => Cardinality(page) < PageLimit
    BY <1>2, <1>4
  <2> QED
    BY <1>1, <1>2, <1>7, <1>8, <1>9, <2>1, <2>2

\* Of the events that there were when a read began, fetchEventsRecursive leaves
\* out none but those of a crowded block, and of a range that is wider than the
\* depth cap allows (circlesRpcService.ts:320-340).
THEOREM NothingLeftOut == RangesSpec => []RangesAccounted
<1>1. RangesInit => RangesInv
  <2> SUFFICES ASSUME RangesInit PROVE RangesInv
    OBVIOUS
  <2>1. indexed \subseteq Event /\ IsFiniteSet(indexed)
    BY IndexFinite, EventRangesAssumption DEF Event
  <2> QED
    BY <2>1 DEF RangesInit, RangesInv, RangesTypeOK, RangesAccounted
<1>2. RangesInv /\ [RangesNext]_rangeVars => RangesInv'
  <2> SUFFICES ASSUME RangesInv, [RangesNext]_rangeVars PROVE RangesInv'
    OBVIOUS
  <2>1. CASE RangeFails
    BY <2>1 DEF RangeFails, RangesInv, RangesTypeOK, RangesAccounted
  <2>2. CASE UNCHANGED rangeVars
    BY <2>2 DEF rangeVars, RangesInv, RangesTypeOK, RangesAccounted, Reading, Crowded, OfBlock
  <2> QED
    BY <2>1, <2>2, AskInv, ShowsInv, ReadInv DEF RangesNext
<1>3. RangesInv => RangesAccounted
  BY DEF RangesInv
<1> QED
  BY <1>1, <1>2, <1>3, PTL DEF RangesSpec

-----------------------------------------------------------------------------
(***************************************************************************)
(* What a paged read leaves out, for any number of rows, page size and     *)
(* changes of the table.                                                   *)
(***************************************************************************)

Ahead(a) == {b \in Rows : Key(b) < Key(a)}

\* The read has gone past where a row is now.
Passed(a) == IF AtOffset THEN Cardinality(Ahead(a)) < position ELSE Key(a) <= position

Untied(S) == {a \in S : ~Tied(a)}

Missed == {a \in Untied(steady \ collected) : Passed(a)}

PagesTyped ==
    /\ reader \in Readers /\ place \in [Addresses -> Nat]
    /\ \A a \in Addresses : place[a] <= 2 * Cardinality(Addresses) + rowChanges
    /\ rowChanges \in 0 .. MaxRowChanges
    /\ steady \subseteq Rows /\ collected \subseteq Addresses
    /\ position \in Int /\ (AtOffset => position \in Nat) /\ shifts \in Nat
    /\ status \in {"idle", "reading", "complete", "capped"}

\* Only users share places.
Placed == reader # "users" => \A a, b \in Rows : place[a] = place[b] => a = b

\* While a read goes on, no more than shifts steady rows were left behind; once it
\* is complete, no more than that are missing.
PagesInv ==
    /\ PagesTyped /\ Placed
    /\ status = "reading" => Cardinality(Missed) <= shifts
    /\ status = "complete" => Cardinality(Untied(steady \ collected)) <= shifts

-----------------------------------------------------------------------------
(* Finite sets. *)

LEMMA RowsFinite == IsFiniteSet(Rows) /\ \A S \in SUBSET Rows : IsFiniteSet(S) /\ Cardinality(S) \in Nat
BY NoLarger, PagedReadsAssumption DEF Rows

-----------------------------------------------------------------------------
(* Places. *)

LEMMA LastPlaceIsLast ==
    ASSUME PagesTyped
    PROVE  /\ LastPlace \in Occupied \cup {Absent}
           /\ \A q \in Occupied : q <= LastPlace
<1> DEFINE f == [a \in Rows |-> place[a]]
           All == Occupied \cup {Absent}
<1>1. f \in Surjection(Rows, Occupied)
  BY DEF Surjection, Occupied
<1>2. IsFiniteSet(Occupied)
  <2> HIDE DEF f
  <2> QED
    BY <1>1, RowsFinite, FS_Surjection
<1>3. IsFiniteSet(All)
  BY <1>2, FS_AddElement
<1>4. All \in SUBSET Int /\ All # {}
  BY DEF Occupied, Rows, PagesTyped, Absent
<1>5. \E m \in All : \A n \in All : n <= m
  <2> HIDE DEF All
  <2> QED
    BY <1>3, <1>4, LargestExists
<1> QED
  BY <1>5 DEF LastPlace

\* A row is put where there is none, but for users.
LEMMA NewPlaceFree ==
    ASSUME PagesTyped, NEW p \in NewPlaces
    PROVE  /\ p \in Nat \ {0} /\ p <= 2 * Cardinality(Addresses) + rowChanges + 1
           /\ reader # "users" => p \notin Occupied
<1>1. Cardinality(Addresses) \in Nat /\ \A a \in Addresses : a \in Nat \ {0} /\ a <= Cardinality(Addresses)
  BY PagedReadsAssumption, FS_CardinalityType
<1>2. /\ LastPlace \in Nat /\ LastPlace <= 2 * Cardinality(Addresses) + rowChanges
      /\ \A q \in Occupied : q \in Nat /\ q <= LastPlace
  <2>1. \A q \in Occupied \cup {Absent} : q \in Nat /\ q <= 2 * Cardinality(Addresses) + rowChanges
    BY <1>1 DEF Occupied, Rows, PagesTyped, Absent
  <2> QED
    BY <2>1, LastPlaceIsLast
<1>3. rowChanges \in Nat
  BY DEF PagesTyped
<1>4. CASE reader \in {"blacklist", "members"}
  BY <1>1, <1>3, <1>4 DEF NewPlaces
<1>5. CASE reader = "users"
  BY <1>1, <1>2, <1>3, <1>5 DEF NewPlaces, Absent
<1>6. CASE reader \notin {"blacklist", "members", "users"}
  <2>1. p = LastPlace + 1
    BY <1>6 DEF NewPlaces
  <2> QED
    BY <1>1, <1>2, <1>3, <1>6, <2>1
<1> QED
  BY <1>4, <1>5, <1>6

LEMMA PagesInitInv == PagesInit => PagesInv
<1> SUFFICES ASSUME PagesInit PROVE PagesInv
  OBVIOUS
<1>1. PICK last \in {0} \cup Addresses :
        \E sharing \in SUBSET {a \in Addresses : a <= last /\ \E b \in Addresses : b < a} :
            (reader # "users" => sharing = {}) /\ place = RowsInOrder(last, sharing)
  BY DEF PagesInit
<1>2. PICK sharing \in SUBSET {a \in Addresses : a <= last /\ \E b \in Addresses : b < a} :
            (reader # "users" => sharing = {}) /\ place = RowsInOrder(last, sharing)
  BY <1>1
<1> DEFINE Below(a) == {b \in Addresses \ sharing : b <= a}
           shared(a) == CHOOSE b \in Addresses \ sharing :
                          b <= a /\ \A c \in Addresses \ sharing : c <= b \/ c > a
<1>3. /\ Cardinality(Addresses) \in Nat
      /\ \A a \in Addresses : a \in Nat \ {0} /\ a <= Cardinality(Addresses)
  BY PagedReadsAssumption, FS_CardinalityType
<1>4. \A a \in Addresses : shared(a) \in Addresses \ sharing /\ shared(a) <= a
  <2> SUFFICES ASSUME NEW a \in Addresses
               PROVE  \E b \in Addresses \ sharing :
                          b <= a /\ \A c \in Addresses \ sharing : c <= b \/ c > a
    OBVIOUS
  <2>1. 1 \in Below(a)
    <3>1. 1 \in Addresses
      BY <1>3, PagedReadsAssumption
    <3>2. 1 \notin sharing
      BY <1>3
    <3> QED
      BY <1>3, <3>1, <3>2
  <2>2. IsFiniteSet(Below(a)) /\ Below(a) \in SUBSET Int
    BY <1>3, NoLarger, PagedReadsAssumption
  <2>3. PICK m \in Below(a) : \A n \in Below(a) : n <= m
    <3> HIDE DEF Below
    <3> QED
      BY <2>1, <2>2, LargestExists
  <2> QED
    BY <1>3, <2>3
<1>5. \A a \in Addresses : place[a] = IF a > last THEN 0 ELSE 2 * shared(a)
  BY <1>2 DEF RowsInOrder, Absent
<1>6. place \in [Addresses -> Nat]
  <2>1. DOMAIN place = Addresses /\ place = [a \in Addresses |-> place[a]]
    BY <1>2 DEF RowsInOrder
  <2> HIDE DEF shared
  <2> QED
    BY <1>3, <1>4, <1>5, <2>1
<1>7. \A a \in Addresses : place[a] <= 2 * Cardinality(Addresses) + rowChanges
  <2>1. rowChanges = 0
    BY DEF PagesInit
  <2> HIDE DEF shared
  <2> QED
    BY <1>3, <1>4, <1>5, <2>1
<1>8. Placed
  <2> SUFFICES ASSUME reader # "users", NEW a \in Rows, NEW b \in Rows, place[a] = place[b]
               PROVE  a = b
    BY DEF Placed
  <2>1. \A c \in Addresses : shared(c) = c
    <3> SUFFICES ASSUME NEW c \in Addresses PROVE shared(c) = c
      OBVIOUS
    <3>1. c \in Addresses \ sharing /\ c <= c
      BY <1>2, <1>3
    <3>2. \E d \in Addresses \ sharing : d <= c /\ \A e \in Addresses \ sharing : e <= d \/ e > c
      BY <1>3, <3>1
    <3>3. shared(c) <= c /\ (c <= shared(c) \/ c > c) /\ shared(c) \in Addresses
      BY <3>1, <3>2
    <3> QED
      BY <1>3, <3>3
  <2>2. a \in Addresses /\ b \in Addresses /\ place[a] # 0 /\ place[b] # 0
    BY DEF Rows, Absent
  <2> HIDE DEF shared
  <2> QED
    BY <1>3, <1>5, <2>1, <2>2
<1>9. PagesTyped
  <2>1. Cardinality(Addresses) \in Nat /\ MaxRowChanges \in Nat
    BY <1>3, PagedReadsAssumption
  <2> QED
    BY <1>6, <1>7, <2>1 DEF PagesInit, PagesTyped, Start, TopPlace, Rows, AtOffset
<1> QED
  BY <1>8, <1>9 DEF PagesInit, PagesInv

-----------------------------------------------------------------------------
(* The table changes. *)

\* Who is no longer missed makes the rest no more.
LEMMA FewerMissed ==
    ASSUME PagesInv, PagesTyped', Placed', UNCHANGED status, shifts' >= shifts,
           status = "reading" => Missed' \subseteq Missed,
           status = "complete" => Untied(steady \ collected)' \subseteq Untied(steady \ collected)
    PROVE  PagesInv'
<1>1. Missed \in SUBSET Rows /\ Untied(steady \ collected) \in SUBSET Rows
  BY DEF Missed, Untied, PagesInv, PagesTyped
<1>2. shifts \in Nat /\ shifts' \in Nat
  BY DEF PagesInv, PagesTyped
<1>3. status = "reading" => Cardinality(Missed') <= shifts'
  <2> SUFFICES ASSUME status = "reading" PROVE Cardinality(Missed') <= shifts'
    OBVIOUS
  <2>1. /\ Cardinality(Missed') \in Nat /\ Cardinality(Missed) \in Nat
        /\ Cardinality(Missed') <= Cardinality(Missed)
    BY <1>1, RowsFinite, NoLarger
  <2> QED
    BY <1>2, <2>1 DEF PagesInv
<1>4. status = "complete" => Cardinality(Untied(steady \ collected)') <= shifts'
  <2> SUFFICES ASSUME status = "complete"
               PROVE Cardinality(Untied(steady \ collected)') <= shifts'
    OBVIOUS
  <2>1. /\ Cardinality(Untied(steady \ collected)') \in Nat
        /\ Cardinality(Untied(steady \ collected)) \in Nat
        /\ Cardinality(Untied(steady \ collected)') <= Cardinality(Untied(steady \ collected))
    BY <1>1, RowsFinite, NoLarger
  <2> QED
    BY <1>2, <2>1 DEF PagesInv
<1> QED
  BY <1>3, <1>4 DEF PagesInv

\* The table is not touched, nor the read.
LEMMA TableKept ==
    ASSUME PagesInv, UNCHANGED <<reader, place, steady, collected, position, shifts, status>>,
           rowChanges' \in 0 .. MaxRowChanges, rowChanges <= rowChanges'
    PROVE  PagesInv'
<1>1. /\ Rows' = Rows /\ \A a : Key(a)' = Key(a) /\ AtOffset' = AtOffset
  BY DEF Rows, Key, NewestFirst, AtOffset
<1>2. Missed' = Missed
  BY <1>1 DEF Missed, Untied, Tied, Passed, Ahead
<1>3. Untied(steady \ collected)' = Untied(steady \ collected)
  BY <1>1 DEF Untied, Tied
<1>4. Placed'
  BY <1>1 DEF Placed, PagesInv
<1>5. PagesTyped'
  <2>1. \A a \in Addresses : place[a] \in Nat
    BY DEF PagesInv, PagesTyped
  <2>2. Cardinality(Addresses) \in Nat
    BY PagedReadsAssumption, FS_CardinalityType
  <2> QED
    BY <1>1, <2>1, <2>2 DEF PagesTyped, PagesInv
<1> QED
  BY <1>2, <1>3, <1>4, <1>5 DEF PagesInv

\* What a change of one row does to the rows, and that the table stays in order.
LEMMA RowMoves ==
    ASSUME PagesInv, NEW a \in Addresses, NEW p \in NewPlaces,
           place' = [place EXCEPT ![a] = p], Changes, reader = "users" => a \notin Rows,
           UNCHANGED <<reader, collected, position, status, steady>>, shifts' \in Nat
    PROVE  /\ Rows' = Rows \cup {a} /\ PagesTyped' /\ Placed'
           /\ \A b : b # a => Key(b)' = Key(b)
           /\ \A b \in Rows : b # a /\ Tied(b) => Tied(b)'
<1>1. p \in Nat \ {0} /\ p <= 2 * Cardinality(Addresses) + rowChanges + 1
      /\ (reader # "users" => p \notin Occupied)
  BY NewPlaceFree DEF PagesInv
<1>2. place' \in [Addresses -> Nat] /\ \A b \in Addresses : place'[b] = IF b = a THEN p ELSE place[b]
  BY <1>1 DEF PagesInv, PagesTyped
<1>3. Rows' = Rows \cup {a}
  BY <1>1, <1>2 DEF Rows, Absent
<1>4. \A b : b # a => Key(b)' = Key(b)
  BY DEF Key, NewestFirst, PagesInv, PagesTyped
<1>5. \A b \in Rows : b # a /\ Tied(b) => Tied(b)'
  <2> SUFFICES ASSUME NEW b \in Rows, b # a, Tied(b) PROVE Tied(b)'
    OBVIOUS
  <2>1. PICK c \in Rows \ {b} : place[c] = place[b]
    BY DEF Tied
  <2>2. c # a
    <3>1. reader = "users"
      BY <2>1 DEF PagesInv, Placed
    <3> QED
      BY <3>1, <2>1
  <2> QED
    BY <1>2, <1>3, <2>1, <2>2 DEF Tied, Rows
<1>6. PagesTyped'
  <2>1. rowChanges' = rowChanges + 1 /\ rowChanges' \in 0 .. MaxRowChanges /\ rowChanges \in Nat
    BY PagedReadsAssumption DEF Changes, PagesInv, PagesTyped
  <2>2. Cardinality(Addresses) \in Nat
    BY PagedReadsAssumption, FS_CardinalityType
  <2>3. \A b \in Addresses : place'[b] <= 2 * Cardinality(Addresses) + rowChanges'
    BY <1>1, <1>2, <2>1, <2>2 DEF PagesInv, PagesTyped
  <2> QED
    BY <1>2, <1>3, <2>1, <2>3 DEF PagesInv, PagesTyped, AtOffset
<1>7. Placed'
  <2> SUFFICES ASSUME reader # "users", NEW b \in Rows', NEW c \in Rows', place'[b] = place'[c]
               PROVE  b = c
    BY DEF Placed
  <2>1. p \notin Occupied
    BY <1>1
  <2>2. \A d \in Rows : d \in Addresses /\ place[d] # p
    BY <2>1 DEF Occupied, Rows
  <2>3. b \in Addresses /\ c \in Addresses
    BY <1>3 DEF Rows
  <2> QED
    BY <1>2, <1>3, <2>2, <2>3 DEF PagesInv, Placed
<1> QED
  BY <1>3, <1>4, <1>5, <1>6, <1>7

LEMMA AddsKeeps ==
    ASSUME PagesInv, NEW a \in Addresses, Adds(a)
    PROVE  PagesInv'
<1>1. PICK p \in NewPlaces : place' = [place EXCEPT ![a] = p]
  BY DEF Adds
<1>2. /\ Rows' = Rows \cup {a} /\ PagesTyped' /\ Placed'
      /\ \A b : b # a => Key(b)' = Key(b)
      /\ \A b \in Rows : b # a /\ Tied(b) => Tied(b)'
      /\ a \notin Rows
      /\ UNCHANGED <<reader, steady, collected, position, status, shifts>>
  <2>1. a \notin Rows /\ Changes /\ UNCHANGED <<reader, steady, collected, position, status, shifts>>
    BY DEF Adds, readVars
  <2>2. shifts' \in Nat
    BY <2>1 DEF PagesInv, PagesTyped
  <2> QED
    BY <1>1, <2>1, <2>2, RowMoves
<1>3. steady \subseteq Rows
  BY DEF PagesInv, PagesTyped
<1>4. Untied(steady \ collected)' \subseteq Untied(steady \ collected)
  BY <1>2, <1>3 DEF Untied
<1>5. \A b \in Rows : Passed(b)' => Passed(b)
  <2> SUFFICES ASSUME NEW b \in Rows, Passed(b)' PROVE Passed(b)
    OBVIOUS
  <2>1. AtOffset' = AtOffset /\ b # a /\ Key(b)' = Key(b)
    BY <1>2 DEF AtOffset
  <2>2. CASE ~AtOffset
    BY <1>2, <2>1, <2>2 DEF Passed
  <2>3. CASE AtOffset
    <3>1. Ahead(b) \subseteq Ahead(b)'
      BY <1>2, <2>1 DEF Ahead
    <3>2. IsFiniteSet(Ahead(b)') /\ Cardinality(Ahead(b)') \in Nat
      BY NoLarger, PagedReadsAssumption DEF Ahead, Rows
    <3>3. Cardinality(Ahead(b)) \in Nat /\ Cardinality(Ahead(b)) <= Cardinality(Ahead(b)')
      BY <3>1, <3>2, NoLarger
    <3>4. position \in Int
      BY DEF PagesInv, PagesTyped
    <3> QED
      BY <1>2, <2>1, <2>3, <3>2, <3>3, <3>4 DEF Passed
  <2> QED
    BY <2>2, <2>3
<1>6. Missed' \subseteq Missed
  BY <1>3, <1>4, <1>5 DEF Missed, Untied
<1>7. shifts' >= shifts
  BY <1>2 DEF PagesInv, PagesTyped
<1> QED
  BY <1>2, <1>4, <1>6, <1>7, FewerMissed

\* A trust that is renewed may be missed from now on.
LEMMA RenewsKeeps ==
    ASSUME PagesInv, NEW a \in Addresses, Renews(a)
    PROVE  PagesInv'
<1>1. PICK p \in NewPlaces : place' = [place EXCEPT ![a] = p]
  BY DEF Renews
<1>2. /\ Rows' = Rows /\ PagesTyped' /\ Placed'
      /\ \A b : b # a => Key(b)' = Key(b)
      /\ a \in Rows /\ shifts' = shifts + 1 /\ shifts \in Nat
      /\ reader = "trustees"
      /\ UNCHANGED <<reader, steady, collected, position, status>>
  <2>1. /\ a \in Rows /\ Changes /\ UNCHANGED <<reader, steady, collected, position, status>>
        /\ shifts' = shifts + 1 /\ reader = "trustees"
    BY DEF Renews, readVars, NewestFirst
  <2>2. shifts' \in Nat /\ shifts \in Nat
    BY <2>1 DEF PagesInv, PagesTyped
  <2> QED
    BY <1>1, <2>1, <2>2, RowMoves
<1>3. \A b \in Rows : ~Tied(b) /\ ~Tied(b)'
  BY <1>2 DEF PagesInv, Placed, Tied
<1>4. steady \subseteq Rows
  BY DEF PagesInv, PagesTyped
<1>5. Untied(steady \ collected)' = Untied(steady \ collected)
  BY <1>2, <1>3, <1>4 DEF Untied
<1>6. Missed' \subseteq Missed \cup {a}
  BY <1>2, <1>5 DEF Missed, Passed, AtOffset
<1>7. IsFiniteSet(Missed) /\ Cardinality(Missed) \in Nat
  BY <1>4, RowsFinite DEF Missed, Untied
<1>8. Cardinality(Missed') <= Cardinality(Missed) + 1 /\ Cardinality(Missed') \in Nat
  <2>1. /\ IsFiniteSet(Missed \cup {a})
        /\ Cardinality(Missed \cup {a}) = IF a \in Missed THEN Cardinality(Missed)
                                          ELSE Cardinality(Missed) + 1
    BY <1>7, FS_AddElement
  <2>2. Cardinality(Missed') \in Nat /\ Cardinality(Missed') <= Cardinality(Missed \cup {a})
    BY <1>6, <2>1, NoLarger
  <2> QED
    BY <1>7, <2>1, <2>2
<1>9. status = "complete" => Cardinality(Untied(steady \ collected)) \in Nat
  BY <1>4, RowsFinite DEF Untied
<1> QED
  BY <1>2, <1>5, <1>7, <1>8, <1>9 DEF PagesInv

\* At most one row stands where the read has come to.
LEMMA OneAtPosition ==
    ASSUME PagesInv, AtOffset, reader # "users"
    PROVE  \A b, c \in Rows : Cardinality(Ahead(b)) = position /\ Cardinality(Ahead(c)) = position
                                => b = c
<1>1. \A b \in Rows : IsFiniteSet(Ahead(b)) /\ Cardinality(Ahead(b)) \in Nat
  BY RowsFinite DEF Ahead
<1>2. \A b \in Rows : Key(b) = place[b] /\ place[b] \in Nat
  BY DEF AtOffset, Key, NewestFirst, Rows, PagesInv, PagesTyped
<1>3. ASSUME NEW b \in Rows, NEW c \in Rows, place[b] < place[c]
      PROVE  Cardinality(Ahead(b)) < Cardinality(Ahead(c))
  <2>1. Ahead(b) \cup {b} \in SUBSET Ahead(c) /\ b \notin Ahead(b)
    BY <1>2, <1>3 DEF Ahead
  <2>2. Cardinality(Ahead(b) \cup {b}) = Cardinality(Ahead(b)) + 1
    BY <1>1, <2>1, FS_AddElement
  <2>3. Cardinality(Ahead(b) \cup {b}) <= Cardinality(Ahead(c))
    BY <1>1, <2>1, NoLarger
  <2> QED
    BY <1>1, <2>2, <2>3
<1> QED
  <2> SUFFICES ASSUME NEW b \in Rows, NEW c \in Rows, b # c,
                      Cardinality(Ahead(b)) = position, Cardinality(Ahead(c)) = position
               PROVE  FALSE
    OBVIOUS
  <2>1. place[b] < place[c] \/ place[c] < place[b]
    BY <1>2 DEF PagesInv, Placed
  <2> QED
    BY <1>1, <1>3, <2>1

\* A row that goes moves those behind it up by one: at offsets, the one that comes
\* to stand before the offset is missed from now on.
LEMMA RemovesKeeps ==
    ASSUME PagesInv, NEW a \in Addresses, Removes(a)
    PROVE  PagesInv'
<1>1. /\ a \in Rows /\ place' = [place EXCEPT ![a] = 0] /\ reader \in {"blacklist", "trustees", "members"}
      /\ steady' = steady \ {a} /\ shifts' = IF AtOffset THEN shifts + 1 ELSE shifts
      /\ UNCHANGED <<reader, collected, position, status>> /\ Changes
  BY DEF Removes, readVars, Absent
<1>2. place' \in [Addresses -> Nat] /\ \A b \in Addresses : place'[b] = IF b = a THEN 0 ELSE place[b]
  BY <1>1 DEF PagesInv, PagesTyped
<1>3. Rows' = Rows \ {a}
  BY <1>2 DEF Rows, Absent
<1>4. \A b : b # a => Key(b)' = Key(b)
  BY <1>1 DEF Key, NewestFirst, PagesInv, PagesTyped
<1>5. PagesTyped'
  <2>1. rowChanges' = rowChanges + 1 /\ rowChanges' \in 0 .. MaxRowChanges /\ rowChanges \in Nat
    BY <1>1, PagedReadsAssumption DEF Changes, PagesInv, PagesTyped
  <2>2. Cardinality(Addresses) \in Nat
    BY PagedReadsAssumption, FS_CardinalityType
  <2>3. \A b \in Addresses : place'[b] <= 2 * Cardinality(Addresses) + rowChanges'
    BY <1>2, <2>1, <2>2 DEF PagesInv, PagesTyped
  <2>4. shifts' \in Nat
    BY <1>1 DEF PagesInv, PagesTyped
  <2> QED
    BY <1>1, <1>2, <1>3, <2>1, <2>3, <2>4 DEF PagesInv, PagesTyped, AtOffset
<1>6. Placed'
  <2>1. \A b \in Rows' : b \in Rows /\ b \in Addresses /\ b # a
    BY <1>3 DEF Rows
  <2> QED
    BY <1>1, <1>2, <2>1 DEF PagesInv, Placed
<1>7. steady \subseteq Rows /\ shifts \in Nat
  BY DEF PagesInv, PagesTyped
<1>8. (\A b \in Rows : ~Tied(b)) /\ (\A b \in Rows' : ~Tied(b)')
  BY <1>1, <1>6 DEF PagesInv, Placed, Tied
<1>9. Untied(steady \ collected)' \subseteq Untied(steady \ collected)
  BY <1>1, <1>3, <1>7, <1>8 DEF Untied
<1>10. CASE ~AtOffset
  <2>1. Missed' \subseteq Missed
    BY <1>1, <1>4, <1>9, <1>10 DEF Missed, Passed, AtOffset, Untied
  <2>2. shifts' >= shifts /\ UNCHANGED status
    BY <1>1, <1>7, <1>10
  <2> QED
    BY <1>5, <1>6, <1>9, <2>1, <2>2, FewerMissed
<1>11. CASE AtOffset
  <2> DEFINE Here == {b \in Rows : Cardinality(Ahead(b)) = position}
  <2>1. position \in Nat
    BY <1>11 DEF PagesInv, PagesTyped
  <2>2. ASSUME NEW b \in Rows, b # a, Passed(b)' PROVE Passed(b) \/ b \in Here
    <3>1. Ahead(b)' = Ahead(b) \ {a}
      BY <1>3, <1>4, <2>2 DEF Ahead
    <3>2. IsFiniteSet(Ahead(b)) /\ Cardinality(Ahead(b)) \in Nat
      BY RowsFinite DEF Ahead
    <3>3. Cardinality(Ahead(b)') >= Cardinality(Ahead(b)) - 1 /\ Cardinality(Ahead(b)') \in Nat
      BY <3>1, <3>2, FS_RemoveElement, NoLarger
    <3>4. Cardinality(Ahead(b)') < position
      BY <1>1, <1>11, <2>2 DEF Passed, AtOffset
    <3> QED
      BY <1>11, <2>1, <3>2, <3>3, <3>4 DEF Passed
  <2>3. Missed' \subseteq Missed \cup Here
    <3> HIDE DEF Here
    <3> QED
      BY <1>1, <1>7, <1>9, <2>2 DEF Missed, Untied
  <2>4. IsFiniteSet(Missed) /\ Cardinality(Missed) \in Nat
    BY <1>7, RowsFinite DEF Missed, Untied
  <2>5. Here = {} \/ \E x : Here = {x}
    <3>1. \A b, c \in Here : b = c
      BY <1>1, <1>11, OneAtPosition
    <3> QED
      BY <3>1
  <2>6. Cardinality(Missed') <= Cardinality(Missed) + 1 /\ Cardinality(Missed') \in Nat
    <3>1. CASE Here = {}
      <4>1. Missed' \in SUBSET Missed
        BY <2>3, <3>1
      <4> QED
        BY <2>4, <4>1, NoLarger
    <3>2. CASE \E x : Here = {x}
      <4>1. PICK x : Here = {x}
        BY <3>2
      <4>2. /\ IsFiniteSet(Missed \cup {x})
            /\ Cardinality(Missed \cup {x}) = IF x \in Missed THEN Cardinality(Missed)
                                              ELSE Cardinality(Missed) + 1
        BY <2>4, FS_AddElement
      <4>3. Missed' \in SUBSET (Missed \cup {x})
        BY <2>3, <4>1
      <4>4. Cardinality(Missed') \in Nat /\ Cardinality(Missed') <= Cardinality(Missed \cup {x})
        BY <4>2, <4>3, NoLarger
      <4> QED
        BY <2>4, <4>2, <4>4
    <3> QED
      BY <2>5, <3>1, <3>2
  <2>7. status = "complete" => /\ Cardinality(Untied(steady \ collected)') <= shifts'
    <3>1. IsFiniteSet(Untied(steady \ collected)) /\ Cardinality(Untied(steady \ collected)) \in Nat
      BY <1>7, RowsFinite DEF Untied
    <3>2. /\ Cardinality(Untied(steady \ collected)') \in Nat
          /\ Cardinality(Untied(steady \ collected)') <= Cardinality(Untied(steady \ collected))
      BY <1>9, <3>1, NoLarger
    <3> QED
      BY <1>1, <1>7, <1>11, <3>1, <3>2 DEF PagesInv
  <2>8. status = "reading" => Cardinality(Missed') <= shifts'
    BY <1>1, <1>7, <1>11, <2>4, <2>6 DEF PagesInv
  <2> HIDE DEF Here
  <2> QED
    BY <1>1, <1>5, <1>6, <2>7, <2>8 DEF PagesInv
<1> QED
  BY <1>10, <1>11

-----------------------------------------------------------------------------
(* The read goes on. *)

LEMMA BeginReadKeeps == PagesInv /\ BeginRead => PagesInv'
<1> SUFFICES ASSUME PagesInv, BeginRead PROVE PagesInv'
  OBVIOUS
<1>1. /\ UNCHANGED <<reader, place, rowChanges>> /\ steady' = Rows /\ shifts' = 0 /\ collected' = {}
      /\ position' = Start /\ status' = "reading"
  BY DEF BeginRead, tableVars
<1>2. Cardinality(Addresses) \in Nat /\ MaxRowChanges \in Nat
  BY PagedReadsAssumption, FS_CardinalityType
<1>3. Rows' = Rows /\ AtOffset' = AtOffset
  BY <1>1 DEF Rows, AtOffset
<1>4. PagesTyped'
  BY <1>1, <1>2, <1>3 DEF PagesInv, PagesTyped, Start, TopPlace
<1>5. Placed'
  BY <1>1, <1>3 DEF PagesInv, Placed
<1>6. \A b \in Rows : ~Passed(b)'
  <2> SUFFICES ASSUME NEW b \in Rows PROVE ~Passed(b)'
    OBVIOUS
  <2>1. CASE AtOffset
    <3>1. Cardinality(Ahead(b)') \in Nat
      BY <1>3, RowsFinite, NoLarger DEF Ahead
    <3> QED
      BY <1>1, <1>3, <2>1, <3>1 DEF Passed, Start
  <2>2. CASE ~AtOffset
    <3>1. place[b] \in Nat /\ place[b] <= 2 * Cardinality(Addresses) + MaxRowChanges
      BY <1>2 DEF Rows, PagesInv, PagesTyped
    <3>2. Key(b)' = Key(b) /\ Key(b) \in {place[b], -place[b]}
      BY <1>1 DEF Key, NewestFirst
    <3>3. position' = -(2 * Cardinality(Addresses) + MaxRowChanges + 1)
      BY <1>1, <2>2 DEF Start, TopPlace
    <3> QED
      BY <1>2, <1>3, <2>2, <3>1, <3>2, <3>3 DEF Passed
  <2> QED
    BY <2>1, <2>2
<1>7. Missed' = {}
  BY <1>1, <1>6 DEF Missed, Untied
<1> QED
  BY <1>1, <1>4, <1>5, <1>7, FS_EmptySet DEF PagesInv

\* The table stays, and nothing is being read: the read has thrown, or was cut short.
LEMMA NotReadingKeeps ==
    ASSUME PagesInv, UNCHANGED <<reader, place, steady, shifts>>, status' \in {"idle", "capped"},
           rowChanges' = rowChanges,
           collected' \in {collected, {}}, position' \in {position, Start}
    PROVE  PagesInv'
<1>1. Rows' = Rows /\ AtOffset' = AtOffset
  BY DEF Rows, AtOffset
<1>2. Cardinality(Addresses) \in Nat /\ MaxRowChanges \in Nat
  BY PagedReadsAssumption, FS_CardinalityType
<1>3. position' \in Int /\ (AtOffset => position' \in Nat)
  BY <1>2 DEF PagesInv, PagesTyped, Start, TopPlace
<1> QED
  BY <1>1, <1>3 DEF PagesInv, PagesTyped, Placed

\* What comes first among some rows.
LEMMA FirstRows ==
    ASSUME NEW rows \in SUBSET Rows, NEW number \in Nat, NEW first, AreFirst(first, number, rows)
    PROVE  /\ IsFiniteSet(first) /\ Cardinality(first) \in Nat /\ Cardinality(first) <= number
           /\ Cardinality(first) < number => first = rows
<1>1. IsFiniteSet(rows) /\ Cardinality(rows) \in Nat
  BY RowsFinite
<1>2. first \in SUBSET rows
  BY DEF AreFirst
<1>3. IsFiniteSet(first) /\ Cardinality(first) \in Nat
  BY <1>1, <1>2, NoLarger
<1>4. Cardinality(first) = number \/ Cardinality(first) = Cardinality(rows)
  BY DEF AreFirst
<1>5. Cardinality(first) = Cardinality(rows) => first = rows
  BY <1>1, <1>2, FS_Subset
<1>6. Cardinality(first) <= number
  BY <1>1, <1>3 DEF AreFirst
<1> QED
  BY <1>3, <1>4, <1>5, <1>6

\* At offsets: a row that is in no page is either one that the read has passed, or
\* comes after the page, and then the read is not at its end.
LEMMA OffsetPage ==
    ASSUME PagesInv, AtOffset, NEW skipped \in SUBSET Rows, AreFirst(skipped, position, Rows),
           NEW page \in SUBSET Rows, AreFirst(page, PageSize, Rows \ skipped),
           NEW a \in Rows, ~Tied(a), a \notin page
    PROVE  \/ Passed(a)
           \/ Cardinality(Ahead(a)) >= position + PageSize /\ ~EndsWith(page)
<1>1. position \in Nat /\ PageSize \in Nat \ {0}
  BY PagedReadsAssumption DEF PagesInv, PagesTyped
<1>2. IsFiniteSet(Ahead(a)) /\ Cardinality(Ahead(a)) \in Nat
  BY RowsFinite DEF Ahead
<1>3. \A b \in Rows : Key(b) = place[b] /\ place[b] \in Nat
  BY DEF AtOffset, Key, NewestFirst, Rows, PagesInv, PagesTyped
<1>4. /\ IsFiniteSet(skipped) /\ Cardinality(skipped) \in Nat /\ Cardinality(skipped) <= position
      /\ Cardinality(skipped) < position => skipped = Rows
      /\ \A b \in skipped, c \in Rows \ skipped : Key(b) <= Key(c)
  BY <1>1, FirstRows DEF AreFirst
<1>5. /\ IsFiniteSet(page) /\ Cardinality(page) \in Nat /\ Cardinality(page) <= PageSize
      /\ Cardinality(page) < PageSize => page = Rows \ skipped
      /\ page \subseteq Rows \ skipped
      /\ \A b \in page, c \in (Rows \ skipped) \ page : Key(b) <= Key(c)
  BY <1>1, FirstRows DEF AreFirst
<1>6. CASE a \in skipped
  <2>1. Ahead(a) \cup {a} \in SUBSET skipped /\ a \notin Ahead(a)
    BY <1>3, <1>4, <1>6 DEF Ahead
  <2>2. Cardinality(Ahead(a) \cup {a}) = Cardinality(Ahead(a)) + 1
    BY <1>2, <2>1, FS_AddElement
  <2>3. Cardinality(Ahead(a) \cup {a}) <= Cardinality(skipped)
    BY <1>4, <2>1, NoLarger
  <2> QED
    BY <1>1, <1>2, <1>4, <2>2, <2>3 DEF Passed
<1>7. CASE a \notin skipped
  <2>1. \A b \in skipped \cup page : b # a /\ Key(b) <= Key(a)
    BY <1>4, <1>5, <1>7
  <2>2. \A b \in skipped \cup page : Key(b) # Key(a)
    BY <1>3, <2>1 DEF Tied
  <2>3. skipped \cup page \in SUBSET Ahead(a)
    BY <1>3, <2>1, <2>2 DEF Ahead
  <2>4. Cardinality(skipped) = position /\ Cardinality(page) = PageSize
    BY <1>1, <1>4, <1>5, <1>7
  <2>5. Cardinality(skipped \cup page) = position + PageSize
    <3>1. skipped \cap page = {}
      BY <1>5
    <3> QED
      BY <1>4, <1>5, <2>4, <3>1, FS_Union, FS_EmptySet, <1>1
  <2>6. Cardinality(Ahead(a)) >= position + PageSize
    BY <1>2, <2>3, <2>5, NoLarger
  <2>7. Cardinality(Rows) > Cardinality(Ahead(a))
    <3>1. Ahead(a) \cup {a} \in SUBSET Rows /\ a \notin Ahead(a)
      BY <1>3 DEF Ahead
    <3>2. Cardinality(Ahead(a) \cup {a}) = Cardinality(Ahead(a)) + 1
      BY <1>2, <3>1, FS_AddElement
    <3>3. Cardinality(Ahead(a) \cup {a}) <= Cardinality(Rows) /\ Cardinality(Rows) \in Nat
      BY <3>1, RowsFinite, NoLarger
    <3> QED
      BY <1>2, <3>2, <3>3
  <2>8. Cardinality(Rows) \in Nat
    BY RowsFinite
  <2>9. ~EndsWith(page)
    BY <1>1, <1>2, <2>4, <2>6, <2>7, <2>8 DEF EndsWith, AtOffset
  <2> QED
    BY <2>6, <2>9
<1> QED
  BY <1>6, <1>7

\* The last key of a page is that of one of its rows.
LEMMA LastOfPage ==
    ASSUME PagesTyped, NEW page \in SUBSET Rows, page # {}
    PROVE  \E m \in page : PositionOfLast(page) = Key(m)
<1> DEFINE Keys == {Key(b) : b \in page}
           f == [b \in page |-> Key(b)]
<1>1. IsFiniteSet(Keys)
  <2>1. f \in Surjection(page, Keys)
    BY DEF Surjection
  <2> HIDE DEF f, Keys
  <2> QED
    BY <2>1, RowsFinite, FS_Surjection
<1>2. Keys \in SUBSET Int /\ Keys # {}
  BY DEF Key, Rows, PagesTyped
<1>3. \E m \in Keys : \A n \in Keys : n <= m
  <2> HIDE DEF Keys
  <2> QED
    BY <1>1, <1>2, LargestExists
<1>4. PositionOfLast(page) \in Keys
  BY <1>3 DEF PositionOfLast
<1> QED
  BY <1>4

LEMMA PositionTyped ==
    ASSUME PagesTyped, NEW page \in SUBSET Rows
    PROVE  PositionAfter(page) \in Int /\ (AtOffset => PositionAfter(page) \in Nat)
<1>1. PageSize \in Nat
  BY PagedReadsAssumption
<1>2. CASE AtOffset
  BY <1>1, <1>2 DEF PositionAfter, PagesTyped
<1>3. CASE ~AtOffset /\ page = {}
  BY <1>3 DEF PositionAfter, PagesTyped
<1>4. CASE ~AtOffset /\ page # {}
  <2>1. PICK m \in page : PositionOfLast(page) = Key(m)
    BY <1>4, LastOfPage
  <2>2. Key(m) \in Int
    BY DEF Key, Rows, PagesTyped
  <2> QED
    BY <1>4, <2>1, <2>2 DEF PositionAfter
<1> QED
  BY <1>2, <1>3, <1>4

\* From a row: likewise.
LEMMA KeyedPage ==
    ASSUME PagesInv, ~AtOffset, NEW page \in SUBSET Rows, AreFirst(page, PageSize, Behind),
           NEW a \in Rows, a \notin page
    PROVE  \/ Passed(a)
           \/ Key(a) > PositionAfter(page) /\ ~EndsWith(page)
<1>1. position \in Int /\ PageSize \in Nat \ {0} /\ reader \in Readers
  BY PagedReadsAssumption DEF PagesInv, PagesTyped
<1>2. \A b \in Rows : place[b] \in Nat /\ Key(b) \in Int /\ Key(b) = IF NewestFirst THEN -place[b] ELSE place[b]
  BY DEF Key, Rows, PagesInv, PagesTyped
<1>3. SUFFICES ASSUME ~Passed(a) PROVE Key(a) > PositionAfter(page) /\ ~EndsWith(page)
  OBVIOUS
<1>4. a \in Behind
  BY <1>1, <1>2, <1>3 DEF Passed, Behind
<1>5. /\ IsFiniteSet(page) /\ page # {} /\ ~(Behind \subseteq page)
      /\ \A b \in page : Key(b) <= Key(a)
  <2>1. Behind \in SUBSET Rows
    BY DEF Behind
  <2>2. Cardinality(page) < PageSize => page = Behind
    BY <1>1, <2>1, FirstRows
  <2>3. page # {}
    BY <1>1, <1>4, <2>2, FS_EmptySet
  <2> QED
    BY <1>4, <2>3, RowsFinite DEF AreFirst
<1>6. PICK m \in page : PositionOfLast(page) = Key(m)
  BY <1>5, LastOfPage DEF PagesInv
<1>7. place[m] # place[a]
  BY <1>6 DEF PagesInv, Placed, AtOffset
<1>8. Key(a) > PositionAfter(page)
  BY <1>2, <1>5, <1>6, <1>7 DEF PositionAfter
<1>9. ~EndsWith(page)
  BY <1>5 DEF EndsWith, AtOffset
<1> QED
  BY <1>8, <1>9

LEMMA ReadPageKeeps == PagesInv /\ ReadPage => PagesInv'
<1> SUFFICES ASSUME PagesInv, ReadPage PROVE PagesInv'
  OBVIOUS
<1>1. PICK page \in SUBSET Rows :
        /\ IsPage(page) /\ collected' = collected \cup page /\ position' = PositionAfter(page)
        /\ IF EndsWith(page) THEN status' = "complete" ELSE UNCHANGED status
  BY DEF ReadPage
<1>2. /\ UNCHANGED <<reader, place, rowChanges, steady, shifts>> /\ status = "reading"
  BY DEF ReadPage, tableVars
<1>3. /\ Rows' = Rows /\ AtOffset' = AtOffset
      /\ \A a : (Key(a)' = Key(a)) /\ (Tied(a)' <=> Tied(a)) /\ Ahead(a)' = Ahead(a)
  BY <1>2 DEF Rows, AtOffset, Key, NewestFirst, Tied, Ahead
<1>4. steady \subseteq Rows /\ position \in Int /\ PageSize \in Nat
  BY PagedReadsAssumption DEF PagesInv, PagesTyped
<1>5. ASSUME NEW a \in Untied(steady \ collected)'
      PROVE  a \in Missed \/ (~Passed(a)' /\ ~EndsWith(page))
  <2>1. a \in Rows /\ ~Tied(a) /\ a \notin page /\ a \in Untied(steady \ collected)
    BY <1>1, <1>2, <1>3, <1>4, <1>5 DEF Untied
  <2>2. CASE AtOffset
    <3>1. PICK skipped \in SUBSET Rows : AreFirst(skipped, position, Rows)
                                         /\ AreFirst(page, PageSize, Rows \ skipped)
      BY <1>1, <2>2 DEF IsPage
    <3>2. Passed(a) \/ (Cardinality(Ahead(a)) >= position + PageSize /\ ~EndsWith(page))
      BY <2>1, <2>2, <3>1, OffsetPage
    <3>3. position' = position + PageSize
      BY <1>1, <2>2 DEF PositionAfter
    <3>4. Cardinality(Ahead(a)) \in Nat
      BY RowsFinite DEF Ahead
    <3> QED
      BY <1>3, <1>4, <2>1, <2>2, <3>2, <3>3, <3>4 DEF Passed, Missed
  <2>3. CASE ~AtOffset
    <3>1. Passed(a) \/ (Key(a) > PositionAfter(page) /\ ~EndsWith(page))
      BY <1>1, <2>1, <2>3, KeyedPage DEF IsPage
    <3>2. Key(a) \in Int /\ PositionAfter(page) \in Int
      BY <2>1, PositionTyped DEF Key, Rows, PagesInv, PagesTyped
    <3> QED
      BY <1>1, <1>3, <2>1, <2>3, <3>1, <3>2 DEF Passed, Missed
  <2> QED
    BY <2>2, <2>3
<1>6. PagesTyped'
  <2>1. position' \in Int /\ (AtOffset => position' \in Nat)
    BY <1>1, PositionTyped DEF PagesInv
  <2>2. collected' \subseteq Addresses
    BY <1>1 DEF Rows, PagesInv, PagesTyped
  <2>3. status' \in {"reading", "complete"}
    BY <1>1, <1>2
  <2> QED
    BY <1>2, <1>3, <2>1, <2>2, <2>3 DEF PagesInv, PagesTyped
<1>7. Placed'
  BY <1>2, <1>3 DEF PagesInv, Placed
<1>8. Missed' \subseteq Missed /\ (EndsWith(page) => Untied(steady \ collected)' \subseteq Missed)
  BY <1>5 DEF Missed
<1>9. Cardinality(Missed) <= shifts /\ IsFiniteSet(Missed) /\ Cardinality(Missed) \in Nat /\ shifts \in Nat
  BY <1>2, <1>4, RowsFinite DEF Missed, Untied, PagesInv, PagesTyped
<1>10. Cardinality(Missed') <= shifts'
  BY <1>2, <1>8, <1>9, NoLarger
<1>11. EndsWith(page) => Cardinality(Untied(steady \ collected)') <= shifts'
  BY <1>2, <1>8, <1>9, NoLarger
<1>12. status' = "complete" => EndsWith(page)
  BY <1>1, <1>2
<1> QED
  BY <1>6, <1>7, <1>10, <1>11, <1>12 DEF PagesInv

LEMMA PagesInvHolds == PagesInit /\ [][PagesNext]_pageVars => []PagesInv
<1>1. PagesInv /\ [PagesNext]_pageVars => PagesInv'
  <2> SUFFICES ASSUME PagesInv, [PagesNext]_pageVars PROVE PagesInv'
    OBVIOUS
  <2>1. CASE BeginRead
    BY <2>1, BeginReadKeeps
  <2>2. CASE ReadPage
    BY <2>2, ReadPageKeeps
  <2>3. CASE OutOfPages
    BY <2>3, NotReadingKeeps DEF OutOfPages, Throws, tableVars
  <2>4. CASE PageFails
    BY <2>4, NotReadingKeeps DEF PageFails, Throws, tableVars
  <2>5. CASE TableChanges
    <3>1. CASE Renames
      <4>1. rowChanges' \in 0 .. MaxRowChanges /\ rowChanges <= rowChanges'
        BY <3>1, PagedReadsAssumption DEF Renames, Changes, PagesInv, PagesTyped
      <4> QED
        BY <3>1, <4>1, TableKept DEF Renames, readVars
    <3>2. CASE \E a \in Addresses : Adds(a) \/ Removes(a) \/ Renews(a)
      BY <3>2, AddsKeeps, RemovesKeeps, RenewsKeeps
    <3> QED
      BY <2>5, <3>1, <3>2 DEF TableChanges
  <2>6. CASE UNCHANGED pageVars
    <3>1. rowChanges' \in 0 .. MaxRowChanges /\ rowChanges <= rowChanges'
      BY <2>6, PagedReadsAssumption DEF pageVars, tableVars, PagesInv, PagesTyped
    <3> QED
      BY <2>6, <3>1, TableKept DEF pageVars, tableVars, readVars
  <2> QED
    BY <2>1, <2>2, <2>3, <2>4, <2>5, <2>6 DEF PagesNext, PagesStep
<1> QED
  BY <1>1, PagesInitInv, PTL

\* A read that is complete misses at most one row of those listed all along for each
\* row that was removed meanwhile from a list read at offsets, or was renewed
\* meanwhile in one read newest first: none, when there was no such change.
THEOREM SteadyRowsRead == PagesSpec => []NothingSteadyMissed
<1>1. PagesInv => NothingSteadyMissed
  BY DEF PagesInv, Untied, NothingSteadyMissed
<1> QED
  BY <1>1, PagesInvHolds, PTL DEF PagesSpec

\* A list that is read from a row, or by the node's cursor, and has no renewals:
\* a complete read has everyone who was listed all along, whatever is added and
\* removed meanwhile (circlesRpcService.ts:472-489, affiliateGroupsRpcService.ts:123).
THEOREM KeyedReadsMissNothing ==
    PagesSpec =>
        [](status = "complete" /\ reader \in {"humans", "members"} => steady \subseteq collected)
<1> DEFINE Keyed == reader \in {"humans", "members"}
           NoShift == Keyed => shifts = 0
<1>1. PagesInit => NoShift
  BY DEF PagesInit
<1>2. NoShift /\ [PagesNext]_pageVars => NoShift'
  <2> SUFFICES ASSUME NoShift, [PagesNext]_pageVars PROVE NoShift'
    OBVIOUS
  <2>1. CASE BeginRead
    BY <2>1 DEF BeginRead
  <2>2. CASE ReadPage \/ OutOfPages \/ PageFails
    BY <2>2 DEF ReadPage, OutOfPages, PageFails, tableVars
  <2>3. CASE Renames
    BY <2>3 DEF Renames
  <2>4. ASSUME NEW a \in Addresses, Adds(a) \/ Removes(a) PROVE NoShift'
    BY <2>4 DEF Adds, Removes, AtOffset
  <2>5. ASSUME NEW a \in Addresses, Renews(a) PROVE NoShift'
    BY <2>5 DEF Renews, NewestFirst
  <2>6. CASE UNCHANGED pageVars
    BY <2>6 DEF pageVars, tableVars
  <2> QED
    BY <2>1, <2>2, <2>3, <2>4, <2>5, <2>6 DEF PagesNext, PagesStep, TableChanges
<1>3. PagesInv /\ NoShift => (status = "complete" /\ Keyed => steady \subseteq collected)
  <2> SUFFICES ASSUME PagesInv, NoShift, status = "complete", Keyed PROVE steady \subseteq collected
    OBVIOUS
  <2> DEFINE left == Untied(steady \ collected)
  <2>1. left = steady \ collected
    BY DEF PagesInv, PagesTyped, Placed, Untied, Tied
  <2>2. left \in SUBSET Rows /\ Cardinality(left) <= 0
    BY <2>1 DEF PagesInv, PagesTyped
  <2>3. IsFiniteSet(left) /\ Cardinality(left) = 0
    BY <2>2, RowsFinite
  <2>4. left = {}
    BY <2>3, FS_EmptySet
  <2> QED
    BY <2>1, <2>4
<1> QED
  BY <1>1, <1>2, <1>3, PagesInvHolds, PTL DEF PagesSpec

-----------------------------------------------------------------------------
(***************************************************************************)
(* The executor's lock and its single send, for any number of callers,     *)
(* attempts and foreign transactions, under every hazard.                  *)
(***************************************************************************)

PcType == Inside \cup {"idle", "queued", "failed", "done", "gaveUp"}

USE DEF Inside, PcType

\* The calls in the chain are those that have not settled, each once, and only
\* the first of them is past its await.
LockInv ==
    /\ \A c \in Callers : pc[c] \in Inside => lock # <<>> /\ Head(lock) = c
    /\ \A i \in 1 .. Len(lock) : pc[lock[i]] \in Inside \cup {"queued"}
    /\ \A c \in Callers : pc[c] = "queued" => \E i \in 1 .. Len(lock) : lock[i] = c
    /\ \A i, j \in 1 .. Len(lock) : lock[i] = lock[j] => i = j

\* What the actions on the lock read and write.
CallTyped ==
    /\ lock \in Seq(Callers)
    /\ pc \in [Callers -> PcType]
    /\ tries \in [Callers -> 0 .. MaxAttempts]
    /\ \A c \in Callers : pc[c] = "idle" <=> tries[c] = 0

\* A call joins the chain: it was not in it.
LEMMA CallJoins ==
    ASSUME CallTyped, LockInv, NEW c \in Callers, Call(c)
    PROVE  CallTyped' /\ LockInv'
<1> USE ExecutorAssumption
<1>1. /\ lock' = Append(lock, c) /\ pc' = [pc EXCEPT ![c] = "queued"]
      /\ tries' = [tries EXCEPT ![c] = @ + 1]
      /\ pc[c] \in {"idle", "failed"} /\ tries[c] \in 0 .. MaxAttempts - 1
  BY DEF CallTyped, Call
<1>2. CallTyped'
  BY <1>1 DEF CallTyped
<1>3. \A i \in 1 .. Len(lock) : lock[i] # c
  BY <1>1 DEF LockInv
<1>4. /\ Len(lock') = Len(lock) + 1 /\ lock'[Len(lock) + 1] = c
      /\ \A i \in 1 .. Len(lock) : lock'[i] = lock[i]
      /\ lock # <<>> => lock' # <<>> /\ Head(lock') = Head(lock)
  BY <1>1 DEF CallTyped
<1>5. LockInv'
  <2>1. ASSUME NEW d \in Callers, pc'[d] \in Inside PROVE lock' # <<>> /\ Head(lock') = d
    BY <1>1, <1>4, <2>1 DEF CallTyped, LockInv
  <2>2. ASSUME NEW i \in 1 .. Len(lock') PROVE pc'[lock'[i]] \in Inside \cup {"queued"}
    <3>1. CASE i = Len(lock) + 1
      BY <1>1, <1>4, <3>1 DEF CallTyped
    <3>2. CASE i \in 1 .. Len(lock)
      BY <1>1, <1>3, <1>4, <3>2 DEF CallTyped, LockInv
    <3> QED
      BY <1>4, <3>1, <3>2 DEF CallTyped
  <2>3. ASSUME NEW d \in Callers, pc'[d] = "queued"
        PROVE  \E i \in 1 .. Len(lock') : lock'[i] = d
    <3>1. CASE d = c
      BY <1>4, <3>1 DEF CallTyped
    <3>2. CASE d # c
      <4>1. PICK i \in 1 .. Len(lock) : lock[i] = d
        BY <1>1, <2>3, <3>2 DEF CallTyped, LockInv
      <4> QED
        BY <1>4, <4>1 DEF CallTyped
    <3> QED
      BY <3>1, <3>2
  <2>4. ASSUME NEW i \in 1 .. Len(lock'), NEW j \in 1 .. Len(lock'), lock'[i] = lock'[j]
        PROVE  i = j
    <3>1. Len(lock) \in Nat /\ i \in 1 .. Len(lock) + 1 /\ j \in 1 .. Len(lock) + 1
      BY <1>4 DEF CallTyped
    <3>2. CASE i = Len(lock) + 1 \/ j = Len(lock) + 1
      BY <1>3, <1>4, <2>4, <3>1, <3>2
    <3>3. CASE i \in 1 .. Len(lock) /\ j \in 1 .. Len(lock)
      <4>1. lock[i] = lock[j]
        BY <1>4, <2>4, <3>3
      <4> QED
        BY <3>3, <4>1 DEF LockInv
    <3> QED
      BY <3>1, <3>2, <3>3
  <2> QED
    BY <2>1, <2>2, <2>3, <2>4 DEF LockInv
<1> QED
  BY <1>2, <1>5

\* The first of the chain leaves it; the one behind it has been waiting.
LEMMA CallLeaves ==
    ASSUME CallTyped, LockInv, NEW c \in Callers, pc[c] \in Inside,
           NEW r \in {"failed", "done"}, Leave(c, r), UNCHANGED tries
    PROVE  CallTyped' /\ LockInv'
<1>1. /\ lock' = Tail(lock) /\ pc' = [pc EXCEPT ![c] = r]
      /\ lock # <<>> /\ lock[1] = c
  BY DEF CallTyped, LockInv, Leave
<1>2. CallTyped'
  BY <1>1 DEF CallTyped
<1>3. /\ Len(lock') = Len(lock) - 1
      /\ \A i \in 1 .. Len(lock') : lock'[i] = lock[i + 1] /\ i + 1 \in 1 .. Len(lock)
      /\ \A i \in 1 .. Len(lock) : lock[i] \in Callers
  BY <1>1 DEF CallTyped
<1>4. \A i \in 1 .. Len(lock') : lock'[i] # c
  BY <1>1, <1>3 DEF LockInv, CallTyped
<1>5. \A d \in Callers : pc'[d] \notin Inside
  <2> SUFFICES ASSUME NEW d \in Callers PROVE pc'[d] \notin Inside
    OBVIOUS
  <2>1. CASE d = c
    BY <1>1, <2>1 DEF CallTyped
  <2>2. CASE d # c
    BY <1>1, <2>2 DEF CallTyped, LockInv
  <2> QED
    BY <2>1, <2>2
<1>6. \A i \in 1 .. Len(lock') : pc'[lock'[i]] \in Inside \cup {"queued"}
  BY <1>1, <1>3, <1>4 DEF CallTyped, LockInv
<1>7. ASSUME NEW d \in Callers, pc'[d] = "queued" PROVE \E i \in 1 .. Len(lock') : lock'[i] = d
  <2>1. d # c /\ pc[d] = "queued"
    BY <1>1, <1>7 DEF CallTyped
  <2>2. PICK i \in 1 .. Len(lock) : lock[i] = d
    BY <2>1 DEF LockInv
  <2>3. i # 1 /\ i - 1 \in 1 .. Len(lock')
    BY <1>1, <1>3, <2>1, <2>2 DEF CallTyped
  <2>4. lock'[i - 1] = d
    BY <1>3, <2>2, <2>3
  <2> QED
    BY <2>3, <2>4
<1>8. ASSUME NEW i \in 1 .. Len(lock'), NEW j \in 1 .. Len(lock'), lock'[i] = lock'[j]
      PROVE  i = j
  <2>1. lock[i + 1] = lock[j + 1] /\ i + 1 \in 1 .. Len(lock) /\ j + 1 \in 1 .. Len(lock)
    BY <1>3, <1>8
  <2>2. i + 1 = j + 1
    BY <2>1 DEF LockInv
  <2> QED
    BY <2>2
<1> QED
  BY <1>2, <1>5, <1>6, <1>7, <1>8 DEF LockInv

\* The first of the chain goes on, or starts.
LEMMA CallProceeds ==
    ASSUME CallTyped, LockInv, NEW c \in Callers,
           pc[c] \in Inside \/ (pc[c] = "queued" /\ Head(lock) = c),
           NEW x \in Inside, pc' = [pc EXCEPT ![c] = x], UNCHANGED <<lock, tries>>
    PROVE  CallTyped' /\ LockInv'
<1>1. CallTyped'
  BY DEF CallTyped
<1>2. lock # <<>> /\ Head(lock) = c
  BY DEF LockInv, CallTyped
<1>3. \A d \in Callers : d # c => pc'[d] = pc[d]
  BY DEF CallTyped
<1>4. pc'[c] = x
  BY DEF CallTyped
<1>5. \A i \in 1 .. Len(lock) : lock[i] \in Callers
  BY DEF CallTyped
<1> QED
  BY <1>1, <1>2, <1>3, <1>4, <1>5 DEF LockInv

\* The caller gives up: it is not in the chain.
LEMMA CallerGivesUp ==
    ASSUME CallTyped, LockInv, NEW c \in Callers, GiveUp(c)
    PROVE  CallTyped' /\ LockInv'
<1>1. /\ pc[c] = "failed" /\ pc' = [pc EXCEPT ![c] = "gaveUp"]
      /\ lock' = lock /\ tries' = tries
  BY DEF GiveUp
<1>2. CallTyped'
  BY <1>1 DEF CallTyped
<1>3. \A d \in Callers : d # c => pc'[d] = pc[d]
  BY <1>1 DEF CallTyped
<1>4. \A i \in 1 .. Len(lock) : lock[i] \in Callers /\ lock[i] # c
  BY <1>1 DEF CallTyped, LockInv
<1>5. pc'[c] = "gaveUp"
  BY <1>1 DEF CallTyped
<1> QED
  BY <1>1, <1>2, <1>3, <1>4, <1>5 DEF LockInv

\* Every step keeps the chain exact.
LEMMA LockStep ==
    ASSUME CallTyped, LockInv, [Next]_vars PROVE CallTyped' /\ LockInv'
<1>1. ASSUME NEW c \in Callers, Call(c) PROVE CallTyped' /\ LockInv'
  BY <1>1, CallJoins
<1>2. ASSUME NEW c \in Callers, GiveUp(c) PROVE CallTyped' /\ LockInv'
  BY <1>2, CallerGivesUp
<1>3. ASSUME NEW c \in Callers, Enter(c) PROVE CallTyped' /\ LockInv'
  BY <1>3, CallProceeds DEF Enter
<1>4. ASSUME NEW c \in Callers, Create(c) PROVE CallTyped' /\ LockInv'
  BY <1>4, CallProceeds DEF Create
<1>5. ASSUME NEW c \in Callers, Estimate(c) PROVE CallTyped' /\ LockInv'
  <2>1. pc[c] \in Inside /\ UNCHANGED tries
    BY <1>5 DEF Estimate
  <2>2. CASE Leave(c, "failed")
    BY <2>1, <2>2, CallLeaves
  <2>3. CASE pc' = [pc EXCEPT ![c] = "send"] /\ UNCHANGED lock
    BY <2>1, <2>3, CallProceeds
  <2>4. CASE pc' = [pc EXCEPT ![c] = "create"] /\ UNCHANGED lock
    BY <2>1, <2>4, CallProceeds
  <2> QED
    BY <1>5, <2>2, <2>3, <2>4 DEF Estimate
<1>6. ASSUME NEW c \in Callers, Send(c) PROVE CallTyped' /\ LockInv'
  <2>1. pc[c] \in Inside /\ UNCHANGED tries
    BY <1>6 DEF Send
  <2>2. CASE Leave(c, "failed")
    BY <2>1, <2>2, CallLeaves
  <2>3. CASE pc' = [pc EXCEPT ![c] = "wait"] /\ UNCHANGED lock
    BY <2>1, <2>3, CallProceeds
  <2> QED
    BY <1>6, <2>2, <2>3 DEF Send
<1>7. ASSUME NEW c \in Callers, Receipt(c) PROVE CallTyped' /\ LockInv'
  <2>1. PICK m \in mined : Leave(c, IF m.status = "executed" THEN "done" ELSE "failed")
    BY <1>7 DEF Receipt
  <2>2. pc[c] \in Inside /\ UNCHANGED tries
    BY <1>7 DEF Receipt
  <2>3. PICK r \in {"failed", "done"} : Leave(c, r)
    BY <2>1
  <2> QED
    BY <2>2, <2>3, CallLeaves
<1>8. ASSUME NEW c \in Callers, TimesOut(c) PROVE CallTyped' /\ LockInv'
  <2>1. pc[c] \in Inside /\ UNCHANGED tries /\ Leave(c, "failed")
    BY <1>8 DEF TimesOut
  <2> QED
    BY <2>1, CallLeaves
<1>9. CASE UNCHANGED callVars
  BY <1>9 DEF callVars, CallTyped, LockInv
<1> QED
  BY <1>1, <1>2, <1>3, <1>4, <1>5, <1>6, <1>7, <1>8, <1>9
     DEF Next, Step, Mined, ForeignTransaction, Ended, vars

LEMMA LockInvariant == Spec => [](CallTyped /\ LockInv)
<1>1. Init => CallTyped /\ LockInv
  BY ExecutorAssumption DEF Init, CallTyped, LockInv
<1> QED
  BY <1>1, LockStep, PTL DEF Spec

\* At most one call is inside _executeInner, whatever fails (execute's lock).
THEOREM ExecutorSerialized == Spec => []Serialized
<1>1. LockInv => Serialized
  BY DEF LockInv, Serialized
<1> QED
  BY <1>1, LockInvariant, PTL

-----------------------------------------------------------------------------
(* Transactions. *)

\* Every transaction that was sent, mined or not.
Sent == mempool \cup {m.tx : m \in mined}

RestTyped ==
    /\ race \in [Callers -> 1 .. MaxRaces]
    /\ signed \in [Callers -> Nat \cup {NoNonce}]
    /\ \A c \in Callers : pc[c] \in {"estimate", "send", "wait"} => signed[c] \in Nat
    /\ nonce \in Nat /\ foreign \in 0 .. MaxForeign
    /\ mempool \subseteq Tx
    /\ mined \subseteq [tx : Tx, status : {"executed", "failed"}]
    /\ executed \in [Callers -> Nat]

LEMMA RestStep ==
    ASSUME CallTyped, CallTyped', RestTyped, [Next]_vars PROVE RestTyped'
<1> USE ExecutorAssumption DEF RestTyped, NoNonce
<1>1. ASSUME NEW c \in Callers, Call(c) PROVE RestTyped'
  BY <1>1 DEF Call, CallTyped, chainVars
<1>2. ASSUME NEW c \in Callers, GiveUp(c) PROVE RestTyped'
  BY <1>2 DEF GiveUp, CallTyped, chainVars
<1>3. ASSUME NEW c \in Callers, Enter(c) PROVE RestTyped'
  BY <1>3 DEF Enter, CallTyped, chainVars
<1>4. ASSUME NEW c \in Callers, Create(c) PROVE RestTyped'
  BY <1>4 DEF Create, CallTyped, chainVars
<1>5. ASSUME NEW c \in Callers, Estimate(c) PROVE RestTyped'
  <2>1. race' \in [Callers -> 1 .. MaxRaces]
    BY <1>5 DEF Estimate
  <2>2. \A d \in Callers : pc'[d] \in {"estimate", "send", "wait"}
                            => pc[d] \in {"estimate", "send", "wait"}
    BY <1>5 DEF Estimate, CallTyped, Leave
  <2> QED
    BY <1>5, <2>1, <2>2 DEF Estimate, chainVars
<1>6. ASSUME NEW c \in Callers, Send(c) PROVE RestTyped'
  <2>1. TxOf(c) \in Tx
    <3>1. tries[c] \in 1 .. MaxAttempts /\ signed[c] \in Nat
      BY <1>6 DEF Send, CallTyped
    <3> QED
      BY <3>1 DEF TxOf, Tx
  <2>2. mempool' \subseteq Tx
    BY <1>6, <2>1 DEF Send
  <2>3. \A d \in Callers : pc'[d] \in {"estimate", "send", "wait"}
                            => pc[d] \in {"estimate", "send", "wait"}
    BY <1>6 DEF Send, CallTyped, Leave
  <2> QED
    BY <1>6, <2>2, <2>3 DEF Send
<1>7. ASSUME NEW c \in Callers, Receipt(c) PROVE RestTyped'
  <2>1. \A d \in Callers : pc'[d] \in {"estimate", "send", "wait"}
                            => pc[d] \in {"estimate", "send", "wait"}
    BY <1>7 DEF Receipt, CallTyped, Leave
  <2> QED
    BY <1>7, <2>1 DEF Receipt, chainVars
<1>8. ASSUME NEW c \in Callers, TimesOut(c) PROVE RestTyped'
  <2>1. \A d \in Callers : pc'[d] \in {"estimate", "send", "wait"}
                            => pc[d] \in {"estimate", "send", "wait"}
    BY <1>8 DEF TimesOut, CallTyped, Leave
  <2> QED
    BY <1>8, <2>1 DEF TimesOut, chainVars
<1>9. ASSUME NEW tx \in mempool, Mined(tx) PROVE RestTyped'
  BY <1>9 DEF Mined, callVars, Tx
<1>10. CASE ForeignTransaction
  BY <1>10 DEF ForeignTransaction, callVars
<1>11. CASE UNCHANGED vars
  BY <1>11 DEF vars, callVars, chainVars
<1> QED
  BY <1>1, <1>2, <1>3, <1>4, <1>5, <1>6, <1>7, <1>8, <1>9, <1>10, <1>11 DEF Next, Step, Ended

LEMMA RestInvariant == Spec => []RestTyped
<1>1. Init => RestTyped
  BY ExecutorAssumption DEF Init, RestTyped, NoNonce
<1> QED
  BY <1>1, RestStep, LockInvariant, PTL DEF Spec

\* Every variable of the executor and of the chain is of its type.
THEOREM ExecutorTyped == Spec => []TypeOK
<1>1. CallTyped /\ RestTyped => TypeOK
  BY DEF CallTyped, RestTyped, TypeOK
<1> QED
  BY <1>1, LockInvariant, RestInvariant, PTL

-----------------------------------------------------------------------------
(* One transaction per call of execute(). *)

\* A call that has not sent yet has sent nothing; a transaction belongs to one
\* call, is mined once, and is then not in the mempool.
SentInv ==
    /\ \A t \in Sent : t.try <= tries[t.caller]
    /\ \A t \in Sent : pc[t.caller] \in {"queued", "create", "estimate", "send"}
                            => t.try < tries[t.caller]
    /\ \A t, u \in Sent : t.caller = u.caller /\ t.try = u.try => t = u
    /\ \A m \in mined : m.tx \notin mempool
    /\ \A m, n \in mined : m.tx = n.tx => m = n

\* The tries of a caller that were carried out.
ExecutedTries(c) ==
    {t \in 1 .. MaxAttempts : \E m \in mined :
        m.tx.caller = c /\ m.tx.try = t /\ m.status = "executed"}

CountInv ==
    /\ \A c \in Callers : executed[c] = Cardinality(ExecutedTries(c))
    /\ \A c \in Callers : pc[c] = "done" => ExecutedTries(c) # {}

LEMMA SentTyped ==
    ASSUME RestTyped PROVE \A t \in Sent : t \in Tx /\ t.caller \in Callers /\ t.try \in Nat
<1>1. Sent \subseteq Tx
  BY DEF Sent, RestTyped
<1>2. \A t \in Tx : t.caller \in Callers /\ t.try \in 1 .. MaxAttempts
  BY DEF Tx
<1>3. 1 .. MaxAttempts \subseteq Nat
  BY ExecutorAssumption
<1> QED
  BY <1>1, <1>2, <1>3

\* Steps that send nothing and do not begin an attempt.
LEMMA SentUnchanged ==
    ASSUME CallTyped, RestTyped, SentInv, CountInv, UNCHANGED <<tries, chainVars>>,
           \A c \in Callers :
               pc'[c] \in {"queued", "create", "estimate", "send"}
                    => pc[c] \in {"queued", "create", "estimate", "send"},
           \A c \in Callers : pc'[c] = "done" => ExecutedTries(c) # {}
    PROVE  SentInv' /\ CountInv'
<1>1. Sent' = Sent /\ mined' = mined /\ mempool' = mempool /\ executed' = executed
  BY DEF chainVars, Sent
<1>2. \A c \in Callers : ExecutedTries(c)' = ExecutedTries(c)
  BY <1>1 DEF ExecutedTries
<1>3. \A t \in Sent : t.caller \in Callers
  BY SentTyped
<1>4. SentInv'
  BY <1>1, <1>3 DEF SentInv
<1>5. CountInv'
  BY <1>1, <1>2 DEF CountInv
<1> QED
  BY <1>4, <1>5

\* A transaction is mined: it leaves the mempool, and its try was not carried
\* out before.
LEMMA SentMined ==
    ASSUME CallTyped, RestTyped, RestTyped', SentInv, CountInv, NEW x \in mempool, Mined(x)
    PROVE  SentInv' /\ CountInv'
<1>1. PICK st \in {"executed", "failed"} :
          /\ mined' = mined \cup {[tx |-> x, status |-> st]}
          /\ st = "executed" => executed' = [executed EXCEPT ![x.caller] = @ + 1]
          /\ st = "failed" => executed' = executed
  BY DEF Mined
<1>2. mempool' = mempool \ {x} /\ pc' = pc /\ tries' = tries
  BY DEF Mined, callVars
<1> DEFINE rec == [tx |-> x, status |-> st]
<1>rec. /\ rec.tx = x /\ rec.status = st
        /\ \A m : m \in mined' <=> m \in mined \/ m = rec
  BY <1>1
<1> HIDE DEF rec
<1>3. x \in Sent /\ x \in Tx /\ x.caller \in Callers /\ x.try \in 1 .. MaxAttempts
  BY DEF Sent, RestTyped, Tx
<1>4. Sent' = Sent
  <2>1. \A t : t \in Sent <=> t \in mempool \/ \E m \in mined : t = m.tx
    BY DEF Sent
  <2>2. \A t : t \in Sent' <=> t \in mempool' \/ \E m \in mined' : t = m.tx
    BY DEF Sent
  <2>3. \A t : (\E m \in mined' : t = m.tx) <=> (t = x \/ \E m \in mined : t = m.tx)
    BY <1>rec
  <2>4. \A t : t \in Sent' <=> t \in Sent
    BY <1>2, <2>1, <2>2, <2>3
  <2> QED
    BY <2>4
<1>5. \A m \in mined : m.tx # x
  BY DEF SentInv
<1>6. SentInv'
  <2>1. \A m \in mined' : m.tx \notin mempool'
    BY <1>1, <1>2 DEF SentInv
  <2>2. \A m, n \in mined' : m.tx = n.tx => m = n
    BY <1>1, <1>5 DEF SentInv
  <2> QED
    BY <1>2, <1>4, <2>1, <2>2 DEF SentInv
<1>7. x.try \notin ExecutedTries(x.caller)
  <2> SUFFICES ASSUME NEW m \in mined, m.tx.caller = x.caller, m.tx.try = x.try PROVE FALSE
    BY DEF ExecutedTries
  <2>1. m.tx \in Sent
    BY DEF Sent
  <2>2. m.tx = x
    BY <1>3, <2>1 DEF SentInv
  <2> QED
    BY <1>5, <2>2
<1>8. ASSUME NEW c \in Callers
      PROVE  /\ executed'[c] = Cardinality(ExecutedTries(c)')
             /\ ExecutedTries(c) \subseteq ExecutedTries(c)'
  <2> DEFINE S == ExecutedTries(c)
  <2>1. S' = IF c = x.caller /\ st = "executed" THEN S \cup {x.try} ELSE S
    <3>1. \A t : t \in S <=> /\ t \in 1 .. MaxAttempts
                             /\ \E m \in mined : /\ m.tx.caller = c /\ m.tx.try = t
                                                /\ m.status = "executed"
      BY DEF ExecutedTries
    <3>2. \A t : t \in S' <=> /\ t \in 1 .. MaxAttempts
                              /\ \E m \in mined' : /\ m.tx.caller = c /\ m.tx.try = t
                                                  /\ m.status = "executed"
      BY DEF ExecutedTries
    <3>3. \A t : (\E m \in mined' : /\ m.tx.caller = c /\ m.tx.try = t
                                    /\ m.status = "executed")
                 <=> \/ \E m \in mined : /\ m.tx.caller = c /\ m.tx.try = t
                                         /\ m.status = "executed"
                     \/ x.caller = c /\ x.try = t /\ st = "executed"
      BY <1>rec
    <3>4. \A t : t \in S' <=> t \in S \/ (c = x.caller /\ st = "executed" /\ t = x.try)
      BY <1>3, <3>1, <3>2, <3>3
    <3> HIDE DEF S
    <3>5. CASE c = x.caller /\ st = "executed"
      BY <3>4, <3>5
    <3>6. CASE ~(c = x.caller /\ st = "executed")
      BY <3>4, <3>6
    <3> QED
      BY <3>5, <3>6
  <2>2. IsFiniteSet(S)
    <3>1. IsFiniteSet(1 .. MaxAttempts)
      BY ExecutorAssumption, FS_Interval
    <3>2. S \in SUBSET (1 .. MaxAttempts)
      BY DEF ExecutedTries
    <3> QED
      BY <3>1, <3>2, FS_Subset
  <2>3. executed[c] = Cardinality(S) /\ executed \in [Callers -> Nat]
    BY DEF CountInv, RestTyped
  <2>4. CASE c = x.caller /\ st = "executed"
    <3>1. executed'[c] = executed[c] + 1
      BY <1>1, <2>3, <2>4
    <3>2. Cardinality(S \cup {x.try}) = Cardinality(S) + 1
      BY <1>7, <2>2, <2>4, FS_AddElement
    <3> QED
      BY <2>1, <2>3, <2>4, <3>1, <3>2
  <2>5. CASE ~(c = x.caller /\ st = "executed")
    <3>1. executed'[c] = executed[c]
      BY <1>1, <1>3, <2>3, <2>5
    <3> QED
      BY <2>1, <2>3, <2>5, <3>1
  <2> QED
    BY <2>4, <2>5
<1>9. CountInv'
  BY <1>2, <1>8 DEF CountInv
<1> QED
  BY <1>6, <1>9

\* A new attempt: what was sent belongs to earlier ones.
LEMMA SentCall ==
    ASSUME CallTyped, RestTyped, SentInv, CountInv, NEW c \in Callers, Call(c)
    PROVE  SentInv' /\ CountInv'
<1>1. /\ pc' = [pc EXCEPT ![c] = "queued"] /\ tries' = [tries EXCEPT ![c] = @ + 1]
      /\ pc[c] \in {"idle", "failed"} /\ UNCHANGED chainVars
  BY DEF Call
<1>2. /\ Sent' = Sent /\ mined' = mined /\ mempool' = mempool /\ executed' = executed
      /\ \A d \in Callers : ExecutedTries(d)' = ExecutedTries(d)
  BY <1>1 DEF chainVars, Sent, ExecutedTries
<1>3. \A t \in Sent : t.caller \in Callers /\ t.try \in Nat
  BY SentTyped
<1>4. \A d \in Callers : tries[d] \in Nat /\ tries'[d] = IF d = c THEN tries[d] + 1 ELSE tries[d]
  BY <1>1, ExecutorAssumption DEF CallTyped
<1>5. \A d \in Callers : pc'[d] = IF d = c THEN "queued" ELSE pc[d]
  BY <1>1 DEF CallTyped
<1>6. SentInv'
  <2>1. ASSUME NEW t \in Sent
        PROVE  /\ t.try <= tries'[t.caller]
               /\ pc'[t.caller] \in {"queued", "create", "estimate", "send"}
                        => t.try < tries'[t.caller]
    <3>1. t.try <= tries[t.caller] /\ t.caller \in Callers /\ t.try \in Nat
      BY <1>3 DEF SentInv
    <3>2. CASE t.caller = c
      BY <1>4, <3>1, <3>2
    <3>3. CASE t.caller # c
      BY <1>4, <1>5, <3>1, <3>3 DEF SentInv
    <3> QED
      BY <3>2, <3>3
  <2> QED
    BY <1>2, <2>1 DEF SentInv
<1>7. CountInv'
  BY <1>2, <1>5 DEF CountInv
<1> QED
  BY <1>6, <1>7

\* The one transaction of a call.
LEMMA SentSend ==
    ASSUME CallTyped, RestTyped, SentInv, CountInv, NEW c \in Callers, Send(c)
    PROVE  SentInv' /\ CountInv'
<1>1. /\ pc[c] = "send" /\ mined' = mined /\ executed' = executed /\ tries' = tries
      /\ mempool' = mempool \/ mempool' = mempool \cup {TxOf(c)}
  BY DEF Send
<1>2. /\ \A d \in Callers : d # c => pc'[d] = pc[d]
      /\ pc'[c] \in {"wait", "failed"}
  BY DEF Send, Leave, CallTyped
<1>3. /\ TxOf(c).caller = c /\ TxOf(c).try = tries[c] /\ tries[c] \in Nat
  BY ExecutorAssumption DEF TxOf, CallTyped
<1>4. \A t \in Sent : t.caller = c => t.try < tries[c] /\ t.try \in Nat
  BY <1>1, SentTyped DEF SentInv
<1>5. \A t : t \in Sent' => t \in Sent \/ t = TxOf(c)
  BY <1>1 DEF Sent
<1>6. TxOf(c) \notin Sent
  BY <1>3, <1>4
<1>7. SentInv'
  <2>1. ASSUME NEW t \in Sent'
        PROVE  /\ t.try <= tries'[t.caller]
               /\ pc'[t.caller] \in {"queued", "create", "estimate", "send"}
                        => t.try < tries'[t.caller]
    <3>1. CASE t \in Sent
      BY <1>1, <1>2, <3>1, SentTyped DEF SentInv
    <3>2. CASE t = TxOf(c)
      BY <1>1, <1>2, <1>3, <3>2
    <3> QED
      BY <1>5, <3>1, <3>2
  <2>2. ASSUME NEW t \in Sent', NEW u \in Sent', t.caller = u.caller, t.try = u.try
        PROVE  t = u
    <3>1. CASE t \in Sent /\ u \in Sent
      BY <2>2, <3>1 DEF SentInv
    <3>2. CASE t = TxOf(c) /\ u = TxOf(c)
      BY <3>2
    <3>3. CASE t \in Sent /\ u = TxOf(c)
      BY <1>3, <1>4, <2>2, <3>3
    <3>4. CASE t = TxOf(c) /\ u \in Sent
      BY <1>3, <1>4, <2>2, <3>4
    <3> QED
      BY <1>5, <3>1, <3>2, <3>3, <3>4
  <2>3. \A m \in mined' : m.tx \notin mempool'
    <3>1. \A m \in mined : m.tx # TxOf(c)
      BY <1>6 DEF Sent
    <3> QED
      BY <1>1, <3>1 DEF SentInv
  <2>4. \A m, n \in mined' : m.tx = n.tx => m = n
    BY <1>1 DEF SentInv
  <2> QED
    BY <2>1, <2>2, <2>3, <2>4 DEF SentInv
<1>8. CountInv'
  <2>1. \A d \in Callers : ExecutedTries(d)' = ExecutedTries(d)
    BY <1>1 DEF ExecutedTries
  <2> QED
    BY <1>1, <1>2, <2>1 DEF CountInv
<1> QED
  BY <1>7, <1>8

LEMMA SentStep ==
    ASSUME CallTyped, RestTyped, RestTyped', SentInv, CountInv, [Next]_vars
    PROVE  SentInv' /\ CountInv'
<1> DEFINE Unsent == {"queued", "create", "estimate", "send"}
<1>1. ASSUME NEW c \in Callers, Call(c) PROVE SentInv' /\ CountInv'
  BY <1>1, SentCall
<1>2. ASSUME NEW c \in Callers, Send(c) PROVE SentInv' /\ CountInv'
  BY <1>2, SentSend
<1>3. ASSUME NEW x \in mempool, Mined(x) PROVE SentInv' /\ CountInv'
  BY <1>3, SentMined
<1>4. ASSUME NEW c \in Callers, GiveUp(c) \/ Enter(c) \/ Create(c) \/ TimesOut(c)
      PROVE  SentInv' /\ CountInv'
  <2>1. UNCHANGED <<tries, chainVars>>
    BY <1>4 DEF GiveUp, Enter, Create, TimesOut
  <2>2. \A d \in Callers : pc'[d] \in Unsent => pc[d] \in Unsent
    BY <1>4 DEF GiveUp, Enter, Create, TimesOut, Leave, CallTyped
  <2>3. \A d \in Callers : pc'[d] = "done" => pc[d] = "done"
    BY <1>4 DEF GiveUp, Enter, Create, TimesOut, Leave, CallTyped
  <2> QED
    BY <2>1, <2>2, <2>3, SentUnchanged DEF CountInv
<1>5. ASSUME NEW c \in Callers, Estimate(c) PROVE SentInv' /\ CountInv'
  <2>1. UNCHANGED <<tries, chainVars>>
    BY <1>5 DEF Estimate
  <2>2. \A d \in Callers : pc'[d] \in Unsent => pc[d] \in Unsent
    BY <1>5 DEF Estimate, Leave, CallTyped
  <2>3. \A d \in Callers : pc'[d] = "done" => pc[d] = "done"
    BY <1>5 DEF Estimate, Leave, CallTyped
  <2> QED
    BY <2>1, <2>2, <2>3, SentUnchanged DEF CountInv
<1>6. ASSUME NEW c \in Callers, Receipt(c) PROVE SentInv' /\ CountInv'
  <2>1. PICK m \in mined : /\ m.tx = TxOf(c)
                           /\ Leave(c, IF m.status = "executed" THEN "done" ELSE "failed")
    BY <1>6 DEF Receipt
  <2>2. UNCHANGED <<tries, chainVars>> /\ pc[c] = "wait"
    BY <1>6 DEF Receipt
  <2>3. \A d \in Callers : pc'[d] \in Unsent => pc[d] \in Unsent
    BY <2>1, <2>2 DEF Leave, CallTyped
  <2>4. ASSUME NEW d \in Callers, pc'[d] = "done" PROVE ExecutedTries(d) # {}
    <3>1. CASE d # c
      BY <2>1, <2>4, <3>1 DEF Leave, CallTyped, CountInv
    <3>2. CASE d = c
      <4>1. m.status = "executed"
        BY <2>1, <2>4, <3>2 DEF Leave, CallTyped
      <4>2. tries[c] \in 1 .. MaxAttempts
        BY <2>2, ExecutorAssumption DEF CallTyped
      <4>3. m.tx.caller = c /\ m.tx.try = tries[c]
        BY <2>1 DEF TxOf
      <4> QED
        BY <3>2, <4>1, <4>2, <4>3 DEF ExecutedTries
    <3> QED
      BY <3>1, <3>2
  <2> QED
    BY <2>2, <2>3, <2>4, SentUnchanged
<1>7. CASE ForeignTransaction \/ UNCHANGED vars
  <2>1. UNCHANGED <<pc, tries, mempool, mined, executed>>
    BY <1>7 DEF ForeignTransaction, vars, callVars, chainVars
  <2> QED
    BY <2>1 DEF SentInv, CountInv, Sent, ExecutedTries
<1> QED
  BY <1>1, <1>2, <1>3, <1>4, <1>5, <1>6, <1>7 DEF Next, Step, Ended

LEMMA SentInvariant == Spec => [](SentInv /\ CountInv)
<1>1. Init => SentInv /\ CountInv
  <2> SUFFICES ASSUME Init PROVE SentInv /\ CountInv
    OBVIOUS
  <2>1. Sent = {} /\ mined = {}
    BY DEF Init, Sent
  <2>2. SentInv
    BY <2>1 DEF Init, SentInv
  <2>3. ASSUME NEW c \in Callers PROVE executed[c] = Cardinality(ExecutedTries(c))
    <3>1. ExecutedTries(c) = {}
      BY <2>1 DEF ExecutedTries
    <3>2. executed[c] = 0
      BY DEF Init
    <3> QED
      BY <3>1, <3>2, FS_EmptySet
  <2>4. \A c \in Callers : pc[c] # "done"
    BY DEF Init
  <2> QED
    BY <2>1, <2>2, <2>3, <2>4 DEF CountInv
<1> QED
  BY <1>1, SentStep, LockInvariant, RestInvariant, PTL DEF Spec

LEMMA ExecutedTriesFinite ==
    ASSUME RestTyped, NEW c \in Callers PROVE IsFiniteSet(ExecutedTries(c))
<1>1. IsFiniteSet(1 .. MaxAttempts)
  BY ExecutorAssumption, FS_Interval
<1>2. ExecutedTries(c) \in SUBSET (1 .. MaxAttempts)
  BY DEF ExecutedTries
<1> QED
  BY <1>1, <1>2, FS_Subset

\* Each execute() is carried out at most once, though answers are lost and
\* receipts come late (safeTransactionExecutor.ts:182).
THEOREM SentOnce == Spec => []ExecutedAtMostOncePerCall
<1>1. ASSUME CallTyped, RestTyped, SentInv, CountInv PROVE ExecutedAtMostOncePerCall
  <2> SUFFICES ASSUME NEW c \in Callers PROVE executed[c] <= tries[c]
    BY DEF ExecutedAtMostOncePerCall
  <2>1. tries[c] \in Nat
    BY ExecutorAssumption, <1>1 DEF CallTyped
  <2>2. ExecutedTries(c) \subseteq 1 .. tries[c]
    <3> SUFFICES ASSUME NEW t \in 1 .. MaxAttempts, NEW m \in mined,
                        m.tx.caller = c, m.tx.try = t
                 PROVE  t \in 1 .. tries[c]
      BY DEF ExecutedTries
    <3>1. m.tx \in Sent
      BY DEF Sent
    <3>2. t <= tries[c]
      BY <1>1, <3>1 DEF SentInv
    <3> QED
      BY <2>1, <3>2
  <2>3. Cardinality(ExecutedTries(c)) <= Cardinality(1 .. tries[c])
    <3>1. IsFiniteSet(1 .. tries[c])
      BY <2>1, FS_Interval
    <3>2. ExecutedTries(c) \in SUBSET (1 .. tries[c])
      BY <2>2
    <3> QED
      BY <3>1, <3>2, FS_Subset
  <2>4. Cardinality(1 .. tries[c]) = tries[c]
    BY <2>1, FS_Interval
  <2> QED
    BY <1>1, <2>3, <2>4 DEF CountInv
<1> QED
  BY <1>1, LockInvariant, RestInvariant, SentInvariant, PTL

\* A call that returns was carried out (ensureSuccessfulReceipt).
THEOREM DoneWasExecuted == Spec => []DoneMeansExecuted
<1>1. ASSUME RestTyped, CountInv PROVE DoneMeansExecuted
  <2> SUFFICES ASSUME NEW c \in Callers, pc[c] = "done" PROVE executed[c] > 0
    BY DEF DoneMeansExecuted
  <2>1. executed[c] = Cardinality(ExecutedTries(c)) /\ ExecutedTries(c) # {}
    BY <1>1 DEF CountInv
  <2>2. Cardinality(ExecutedTries(c)) # 0
    BY <1>1, <2>1, ExecutedTriesFinite, FS_EmptySet
  <2>3. executed[c] \in Nat
    BY <1>1 DEF RestTyped
  <2> QED
    BY <2>1, <2>2, <2>3
<1> QED
  BY <1>1, RestInvariant, SentInvariant, PTL

-----------------------------------------------------------------------------
(* The services together. *)

\* What each service promises, with the exceptions that its property names (ranges
\* that are crowded or cut, one row for each that was removed or renewed), holds of
\* the process that has them all: a step of one is a step of its own specification,
\* and leaves the others as they are.
THEOREM ServicesPromises ==
    ServicesSpec => [](Serialized /\ ExecutedAtMostOncePerCall /\ RangesAccounted /\ NothingSteadyMissed)
<1>1. ServicesInit => Init /\ RangesInit /\ PagesInit
  BY DEF ServicesInit
<1>2. [ServicesNext]_servicesVars => [Next]_vars /\ [RangesNext]_rangeVars /\ [PagesNext]_pageVars
  BY DEF ServicesNext, servicesVars
<1>3. PagesInv => NothingSteadyMissed
  BY DEF PagesInv, Untied, NothingSteadyMissed
<1> QED
  BY <1>1, <1>2, <1>3, ExecutorSerialized, SentOnce, NothingLeftOut, PagesInvHolds, PTL
     DEF ServicesSpec, Spec, RangesSpec
=============================================================================
