------------------------- MODULE MCAccountsDisjoint -------------------------
(***************************************************************************)
(* The instance in which no two processes use one account, with the        *)
(* assumption of AccountsDisjoint_proofs.                                  *)
(***************************************************************************)
EXTENDS MCAccounts

ASSUME DisjointUseAssumption == DisjointUse /\ IsFiniteSet(Processes)

=============================================================================
