---------------------------- MODULE MCOldListener ----------------------------
(***************************************************************************)
(* Small instances of the old registry's source with its listener.         *)
(***************************************************************************)
EXTENDS OldListener, AffiliateListenerProps

MCStartCursor == HeadCursor(0)

\* Real changes; the groups differ in name only, and one of them is joined first.
MCChanges ==
    {c \in [human : Humans, from : Groups \cup {NoGroup}, to : Groups] :
        /\ c.from # c.to
        /\ c.from = NoGroup => c.to = CHOOSE g \in Groups : TRUE}
=============================================================================
