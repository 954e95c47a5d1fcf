---------------------------- MODULE MCBackendSync ----------------------------
(* Small instances of BackendSync: a till and an online shop with a buffer. *)
EXTENDS BackendSync, TLC

CONSTANTS p1, epos, shop

One == {p1}
Pair == {epos, shop}
PairTypes == (epos :> "eposnow") @@ (shop :> "shopify")
OnBoth == (p1 :> Pair)
OneBuffer == (p1 :> 1)
TwoItems == {<<p1, p1>>}
=============================================================================
