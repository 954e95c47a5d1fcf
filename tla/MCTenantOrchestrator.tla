------------------------ MODULE MCTenantOrchestrator ------------------------
(* Small instances of TenantOrchestrator: a tenant and a few process slots.  *)
EXTENDS TenantOrchestrator

CONSTANTS t1, c1, c2, c3
=============================================================================
