------------------------------ MODULE MCRealtime ------------------------------
(* A small instance of Realtime: a browser, two users of two tenants.         *)
EXTENDS Realtime

CONSTANTS tab, ann, bob, n1, n2

Tenants == [u \in {ann, bob} |-> IF u = ann THEN n1 ELSE n2]
=============================================================================
