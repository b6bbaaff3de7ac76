-------------------------- MODULE AffiliateMapStore --------------------------
(***************************************************************************)
(* The life of one affiliate map: events are applied, it is saved to the   *)
(* state store (src/src/services/stateStore.ts) and loaded from it when    *)
(* the process starts again.                                               *)
(*                                                                         *)
(* A save that fails is swallowed by the store, so save() clears the dirty *)
(* flag all the same.  A load that fails is answered as "no row": the      *)
(* process goes on with the map it was constructed with.  Every caller of  *)
(* set and save runs in the process's one execution queue, so no event is  *)
(* applied while a save is in flight.                                      *)
(***************************************************************************)
EXTENDS AffiliateMap

CONSTANTS StartBlock,   \* GROUP_AFFILIATES_START_BLOCK
          MaxBlock,     \* bound: the last block observed
          StoreFails,   \* the state store may fail
          NoRow         \* the store has no row for the map

ASSUME StoreAssumption ==
    /\ StartBlock \in Nat /\ MaxBlock \in Nat
    /\ StoreFails \in BOOLEAN
    /\ NoRow \notin SnapshotType

VARIABLES map,      \* the process's affiliateMap
          stored,   \* the row of the state store
          lost      \* history: a failed operation of the store went unnoticed

vars == <<map, stored, lost>>

TypeOK ==
    /\ map \in AffiliateMapType
    /\ stored = NoRow \/ stored \in SnapshotType
    /\ lost \in BOOLEAN

Fresh == FromSnapshot(EmptySnapshot(StartBlock - 1))

Init == map = Fresh /\ stored = NoRow /\ lost = FALSE

Set(human, newGroup, block) ==
    /\ map' = MapSet(map, human, newGroup, block)
    /\ UNCHANGED <<stored, lost>>

AdvanceCursor(block) ==
    /\ map' = AdvanceTo(map, block)
    /\ UNCHANGED <<stored, lost>>

\* save() on a dirty map.
SaveAs(m) ==
    /\ map' = [m EXCEPT !.dirty = FALSE]
    /\ \/ stored' = Snapshot(m) /\ UNCHANGED lost
       \/ StoreFails /\ UNCHANGED stored /\ lost' = TRUE

Save == map.dirty /\ SaveAs(map)

\* The process ends, at any moment, and starts again.
Restart ==
    \/ /\ map' = IF stored = NoRow THEN Fresh ELSE FromSnapshot(stored)
       /\ UNCHANGED <<stored, lost>>
    \/ StoreFails /\ map' = Fresh /\ lost' = TRUE /\ UNCHANGED stored

Next ==
    \/ \E h \in Humans, g \in Groups, b \in StartBlock .. MaxBlock : Set(h, g, b)
    \/ \E b \in StartBlock .. MaxBlock : AdvanceCursor(b)
    \/ Save
    \/ Restart

Spec == Init /\ [][Next]_vars

-----------------------------------------------------------------------------
\* The reverse index, which set() maintains by one removal and one addition, is
\* the inverse of the forward index: getAffiliatesOf, from which reconciliation
\* takes whom to trust, neither forgets a human nor lists one in two groups.
ReverseIndexExact == map.toHumans = MembersOf(map.toGroup)

\* A clean map has its entries in the store, so skipping save() when it is not
\* dirty loses none of them (affiliateMap.ts, save and set) -- unless an
\* operation of the store has failed.
CleanEntriesStored ==
    ~map.dirty /\ ~lost =>
        map.toGroup = (IF stored = NoRow THEN Fresh ELSE FromSnapshot(stored)).toGroup
=============================================================================
