---------------------------- MODULE AffiliateMap -----------------------------
(***************************************************************************)
(* The forward index human -> affiliate group and its reverse index        *)
(* (src/src/apps/group-affiliates/affiliateMap.ts), as operators on the    *)
(* value of an AffiliateMap object.  Addresses are normalised on the way   *)
(* in, so a human and a group are values here.                             *)
(***************************************************************************)
EXTENDS Integers

CONSTANTS Humans, Groups, NoGroup   \* NoGroup: the human has no entry

ASSUME MapAssumption == NoGroup \notin Groups

Entries == [Humans -> Groups \cup {NoGroup}]

AffiliateMapType ==
    [toGroup  : Entries,                   \* humanToGroup
     toHumans : [Groups -> SUBSET Humans], \* groupToHumans
     block    : Int,                       \* _lastScannedBlock
     dirty    : BOOLEAN]

SnapshotType == [entries : Entries, block : Int]

MembersOf(entries) == [g \in Groups |-> {h \in Humans : entries[h] = g}]

Snapshot(map) == [entries |-> map.toGroup, block |-> map.block]

FromSnapshot(s) == [toGroup |-> s.entries, toHumans |-> MembersOf(s.entries),
                    block |-> s.block, dirty |-> FALSE]

\* A map with no entries, scanned up to the given block.
EmptySnapshot(block) == [entries |-> [h \in Humans |-> NoGroup], block |-> block]

Later(block, other) == IF block > other THEN block ELSE other

\* An AffiliateGroupChanged event.  The block advances on either path, but an
\* event that changes no entry does not make the map dirty.
MapSet(map, human, newGroup, observedAtBlock) ==
    IF map.toGroup[human] = newGroup
      THEN [map EXCEPT !.block = Later(observedAtBlock, @)]
      ELSE [toGroup  |-> [map.toGroup EXCEPT ![human] = newGroup],
            toHumans |-> [g \in Groups |->
                IF g = newGroup THEN map.toHumans[g] \cup {human}
                ELSE IF g = map.toGroup[human] THEN map.toHumans[g] \ {human}
                ELSE map.toHumans[g]],
            block    |-> Later(observedAtBlock, map.block),
            dirty    |-> TRUE]

AdvanceTo(map, block) ==
    IF block > map.block THEN [map EXCEPT !.block = block, !.dirty = TRUE] ELSE map

AffiliatesOf(map, group) == map.toHumans[group]
=============================================================================
