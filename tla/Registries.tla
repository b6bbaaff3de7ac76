----------------------------- MODULE Registries ------------------------------
(***************************************************************************)
(* External to the code: the two affiliate registries that community-new   *)
(* reads (src/src/apps/community-new).  In the new one an avatar lists any *)
(* number of groups, in the old one it has a single affiliate group.  Both *)
(* are known by their logs only.                                           *)
(*                                                                         *)
(* A block holds at most one log of the two.  An avatar does not set the   *)
(* old affiliate group that it has (the reduction of oldRegistryMembers.ts *)
(* would take such a log for a departure).                                 *)
(***************************************************************************)
EXTENDS AffiliateMap

CONSTANTS Managed,     \* the managed groups
          ZeroGroup,   \* the old affiliate group of an avatar that never chose one
          MaxHead      \* bound: the last block that is mined

ASSUME RegistriesAssumption ==
    /\ Managed \subseteq Groups /\ ZeroGroup \in Groups \ Managed
    /\ MaxHead \in Nat

VARIABLES head,       \* the chain's head block
          multiLog,   \* AffiliateGroupAdded, AffiliateGroupRemoved
          oldLog      \* AffiliateGroupChanged

chainVars == <<head, multiLog, oldLog>>

Member     == Humans \X Managed
MultiEvent == [block : Nat, type : {"add", "remove"}, avatar : Humans, group : Managed]
OldEvent   == [block : Nat, human : Humans, from : Groups, to : Groups]

ChainInit == head = 0 /\ multiLog = {} /\ oldLog = {}

UpTo(log, block) == {e \in log : e.block <= block}
Latest(events) == CHOOSE e \in events : \A f \in events : f.block <= e.block

\* What the new registry says when the given logs are its history.
Listed(events) ==
    {m \in Member : LET mine == {e \in events : <<e.avatar, e.group>> = m}
                    IN  mine # {} /\ Latest(mine).type = "add"}

\* The same for the old one.
GroupIn(events, h) ==
    LET mine == {e \in events : e.human = h}
    IN  IF mine = {} THEN ZeroGroup ELSE Latest(mine).to

Affiliated(events) == {m \in Member : GroupIn(events, m[1]) = m[2]}

\* An avatar joins or leaves a group: the registry logs changes only.
MultiChange ==
    /\ \E m \in Member :
        multiLog' = multiLog \cup
            {[block |-> head + 1, avatar |-> m[1], group |-> m[2],
              type |-> IF m \in Listed(multiLog) THEN "remove" ELSE "add"]}
    /\ UNCHANGED oldLog

OldChange ==
    /\ \E h \in Humans, g \in Groups \ {NoGroup} :
        /\ g # GroupIn(oldLog, h)
        /\ oldLog' = oldLog \cup
            {[block |-> head + 1, human |-> h, from |-> GroupIn(oldLog, h), to |-> g]}
    /\ UNCHANGED multiLog

NextBlock == head < MaxHead /\ head' = head + 1
=============================================================================
