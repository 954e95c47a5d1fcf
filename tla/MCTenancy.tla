------------------------------ MODULE MCTenancy ------------------------------
(* Small instances of Tenancy.  Two addresses that differ in case only.      *)
EXTENDS Tenancy

CONSTANTS t1, t2, e1, e2, p1, p2, s1, s2

Lowered == [e \in {e1, e2} |-> e2]
Limits == [p \in {"starter", "growth"} |-> IF p = "starter" THEN 3 ELSE 10]
Allowed == {[accounts |-> 5, shops |-> 0, products |-> 0, billing |-> 0],
            [accounts |-> 0, shops |-> 3, products |-> 0, billing |-> 0],
            [accounts |-> 0, shops |-> 0, products |-> 0, billing |-> 3],
            [accounts |-> 1, shops |-> 1, products |-> 0, billing |-> 1],
            [accounts |-> 0, shops |-> 1, products |-> 3, billing |-> 0],
            [accounts |-> 1, shops |-> 0, products |-> 1, billing |-> 0]}
=============================================================================
