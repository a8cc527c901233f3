------------------------ MODULE MCCustomersOneClerk ------------------------
(***************************************************************************)
(* The instance with one clerk, who modifies nobody who logs in, with the  *)
(* assumptions of the theorems of Customers_proofs.                        *)
(***************************************************************************)
EXTENDS MCCustomers

ASSUME OneClerkAssumption == OneClerk /\ SeparateRecords

=============================================================================
