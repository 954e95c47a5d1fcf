----------------------------- MODULE MCSyncAgent -----------------------------
(* Small instances of SyncAgent: a point of sale and two online channels, a  *)
(* product on every channel and one that was deleted.                        *)
EXTENDS SyncAgent

CONSTANTS p1, gone, epos, shop, web

TwoChannels == {epos, shop}
ThreeChannels == {epos, shop, web}
TwoTypes == (epos :> "eposnow") @@ (shop :> "shopify")
ThreeTypes == TwoTypes @@ (web :> "shopify")

\* The two shops of one kind are interchangeable.
Shops == Permutations({shop, web})

MappingTwo == (p1 :> TwoChannels) @@ (gone :> {})
MappingThree == (p1 :> ThreeChannels) @@ (gone :> {})
SmallBuffer == (p1 :> 1) @@ (gone :> 0)

\* At most two faults, stops and switches of any kind in one behaviour.
FewFaults == dbErrors + lostReplies + channelFaults + crashes + stops + toggles <= 2
=============================================================================
