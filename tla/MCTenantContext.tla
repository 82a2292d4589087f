-------------------------- MODULE MCTenantContext ---------------------------
(* Small instances of TenantContext for TLC. *)
EXTENDS TenantContext, TLC

Symmetry == Permutations(Txs) \cup Permutations(Tenants)
=============================================================================
