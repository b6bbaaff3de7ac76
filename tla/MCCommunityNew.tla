--------------------------- MODULE MCCommunityNew ----------------------------
(***************************************************************************)
(* Small instances of the community-new worker.                            *)
(***************************************************************************)
EXTENDS CommunityNew

MCVariants == {<<"rpc", "add-only">>, <<"rpc", "union">>, <<"registry", "wishlist">>,
               <<"old", "wishlist">>, <<"hybrid", "wishlist">>}
MCThreshold     == [g \in Managed |-> 1]
MCGrandfathered == {m \in Humans \X Managed : m[1] \notin TestAddresses}
MCTrustedBefore == {Humans \X Managed}
=============================================================================
