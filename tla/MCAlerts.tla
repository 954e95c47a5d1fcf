------------------------------ MODULE MCAlerts ------------------------------
(* A small instance of Alerts: two tenants, one of which has a channel and    *)
(* may be unlucky with its queries, the other a product.                    *)
EXTENDS Alerts

CONSTANTS t1, t2, p1, c1, a1, a2, b1, h1

Owners == [x \in {p1, c1} |-> IF x = p1 THEN t2 ELSE t1]
=============================================================================
