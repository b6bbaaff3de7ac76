------------------------------ MODULE MultiMap -------------------------------
(***************************************************************************)
(* The index of the new registry: which avatars are members of which       *)
(* groups (src/src/apps/community-new/affiliateMultiMap.ts), its row in    *)
(* the state store, and the refresh from the registry's logs (main.ts).    *)
(*                                                                         *)
(* The forward and the reverse index are one set of pairs here: link and   *)
(* unlink change both or neither.                                          *)
(***************************************************************************)
EXTENDS Registries

CONSTANTS DeployBlock,     \* COMMUNITY_NEW_REGISTRY_DEPLOY_BLOCK
          MultiRowFails    \* the state store may fail on the row of this map

ASSUME MultiMapAssumption == DeployBlock \in Nat /\ MultiRowFails \in BOOLEAN

VARIABLES multi,     \* multiMap
          multiRow   \* its row; no row and a fresh one say the same

RowOf(m) == [members |-> m.members, block |-> m.block]
FromRow(row) == [members |-> row.members, block |-> row.block, dirty |-> FALSE]
FreshRow == [members |-> {}, block |-> DeployBlock - 1]

MultiInit == multi = FromRow(FreshRow) /\ multiRow = FreshRow

-----------------------------------------------------------------------------
\* Mutant: a removal is taken for an addition.
ApplyEventAddingOnly(m, e) ==
    LET members == m.members \cup {<<e.avatar, e.group>>}
    IN  [members |-> members, block |-> Later(e.block, m.block),
         dirty |-> m.dirty \/ members # m.members]

\* add and remove.  The block advances in any case, but only a change of the
\* members makes the map dirty.
ApplyEvent(m, e) ==
    LET member  == {<<e.avatar, e.group>>}
        members == IF e.type = "add" THEN m.members \cup member ELSE m.members \ member
    IN  [members |-> members, block |-> Later(e.block, m.block),
         dirty |-> m.dirty \/ members # m.members]

\* applyMultiEvents, on events that sortEvents has put in the order of the chain:
\* the latest is taken in last.
ApplyMulti(m, events) ==
    LET replay[batch \in SUBSET events] ==
            IF batch = {} THEN m ELSE ApplyEvent(replay[batch \ {Latest(batch)}], Latest(batch))
    IN  replay[events]

AdvanceMulti(m, block) ==
    IF block > m.block THEN [m EXCEPT !.block = block, !.dirty = TRUE] ELSE m

\* persistMultiMap, on the map as it has become: a clean map is not saved, and a
\* save that fails goes unnoticed.
SaveMulti(m) ==
    /\ multi' = [m EXCEPT !.dirty = FALSE]
    /\ \/ multiRow' = IF m.dirty THEN RowOf(m) ELSE multiRow
       \/ MultiRowFails /\ UNCHANGED multiRow

\* fetchMultiAffiliateEvents
FetchMulti(from, to) == {e \in multiLog : e.block \in from .. to}

\* Where a refresh starts to read.
RefreshFrom(m) == Later(DeployBlock, m.block + 1)

\* initMultiMap: load the row.  A load that fails is answered like no row.
LoadMulti ==
    /\ multi' \in {FromRow(multiRow)} \cup (IF MultiRowFails THEN {FromRow(FreshRow)} ELSE {})
    /\ UNCHANGED multiRow

\* refreshMultiMap, when nothing else touches the map in the meantime.
RefreshMulti ==
    IF RefreshFrom(multi) > head
      THEN UNCHANGED <<multi, multiRow>>
      ELSE SaveMulti(AdvanceMulti(ApplyMulti(multi, FetchMulti(RefreshFrom(multi), head)), head))

-----------------------------------------------------------------------------
\* The map and its row never disagree with the registry on the blocks that they
\* claim to have scanned, over refreshes, failed saves, failed loads and
\* restarts: a refresh from the block after may replace a full scan
\* (affiliateMultiMap.ts, snapshot; main.ts, refreshMultiMap).
MultiMapIsReplay ==
    /\ multi.members = Listed(UpTo(multiLog, multi.block))
    /\ multiRow.members = Listed(UpTo(multiLog, multiRow.block))
=============================================================================
