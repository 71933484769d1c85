----------------------------- MODULE MCTenants -----------------------------
(* Tenants on a small instance.                                             *)
EXTENDS Tenants, TLC

CONSTANTS t1, w1, d1

MCTenantOf == w1 :> t1
MCWorkspaceOf == d1 :> w1
=============================================================================
