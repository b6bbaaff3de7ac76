-------------------------- MODULE OldRegistrySource --------------------------
(***************************************************************************)
(* The old registry as a source of members                                 *)
(* (src/src/apps/community-new/oldRegistrySource.ts): an affiliate map,    *)
(* brought up to the head of the chain before every cycle.  runExclusive   *)
(* lets one refresh after the other touch the map.  The websocket listener *)
(* is off, as it is unless COMMUNITY_NEW_OLD_ENABLE_WSS is set; with it,   *)
(* see OldListener.                                                        *)
(***************************************************************************)
EXTENDS Registries, AffiliateMapStore

\* OldRegistrySource.create
LoadOld == Restart

\* The loop of refreshInner: fetchAffiliateGroupChangedEventsBetween has sorted the
\* events, and set is called for one after the other.
ApplyOld(m, events) ==
    LET replay[batch \in SUBSET events] ==
            IF batch = {} THEN m
            ELSE LET e == Latest(batch)
                 IN  MapSet(replay[batch \ {e}], e.human, e.to, e.block)
    IN  replay[events]

FetchOld(from, to) == {e \in oldLog : e.block \in from .. to}

\* Mutant: the range starts at the block after the head that is scanned next.
RefreshOldSkippingBlock ==
    LET from == Later(StartBlock, map.block + 2)
    IN  IF from > head THEN UNCHANGED <<map, stored, lost>>
        ELSE SaveAs(AdvanceTo(ApplyOld(map, FetchOld(from, head)), head))

\* Mutant: the map is saved after every block, not at the head.
RefreshOldByBlock ==
    LET from == Later(StartBlock, map.block + 1)
    IN  IF from > head THEN UNCHANGED <<map, stored, lost>>
        ELSE SaveAs(AdvanceTo(ApplyOld(map, FetchOld(from, from)), from))

\* refreshInner: the map follows the logs up to the head and is saved.
RefreshOld ==
    LET from == Later(StartBlock, map.block + 1)
    IN  IF from > head THEN UNCHANGED <<map, stored, lost>>
        ELSE SaveAs(AdvanceTo(ApplyOld(map, FetchOld(from, head)), head))

\* getMembersOf, for all managed groups.
OldMembers == {m \in Member : m[1] \in AffiliatesOf(map, m[2])}

-----------------------------------------------------------------------------
\* fetchOldRegistryMembersByGroup (oldRegistryMembers.ts): for each group the
\* logs that touch it, from the start, in the order of their blocks.
FetchOldMembers ==
    {m \in Member :
        LET touching == {e \in oldLog : /\ e.block >= StartBlock
                                        /\ e.human = m[1] /\ m[2] \in {e.from, e.to}}
        IN  touching # {} /\ Latest(touching).to = m[2] /\ Latest(touching).from # m[2]}
=============================================================================
