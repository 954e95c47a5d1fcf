---------------------------- MODULE MCStockEngine ----------------------------
(* A small instance of StockEngine: one product, a till and a web shop. *)
EXTENDS StockEngine, TLC

CONSTANTS p1, epos, shop

Till == {epos, shop}
TillTypes == (epos :> "eposnow") @@ (shop :> "shopify")
Everywhere == (p1 :> Till)
Buffered == (p1 :> 1)
=============================================================================
