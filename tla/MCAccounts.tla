----------------------------- MODULE MCAccounts -----------------------------
(***************************************************************************)
(* Small account files, customers and answers for Accounts.                *)
(***************************************************************************)
EXTENDS Accounts, TLC

CONSTANTS c1, c2, k1

Open1(number, balance) ==
    [accountNumber |-> number, active |-> TRUE, balance |-> balance]

\* Two customers who pay each other, and a clerk who closes one of the two
\* accounts, or one that does not exist.
SharedOpening == (0 :> Open1(0, 1)) @@ (1 :> Open1(1, 0))
SharedAccountOf == (c1 :> 0) @@ (c2 :> 1)
SharedReceivers == (c1 :> {1}) @@ (c2 :> {0})
SharedTargets == {1, 2}
SharedGarbage == {Hole, Open1(5, 2)}
SharedCalls == (c1 :> 2) @@ (c2 :> 1) @@ (k1 :> 1)

\* The customers alone, one call each.
CustomerCalls == (c1 :> 1) @@ (c2 :> 1) @@ (k1 :> 0)

\* Two customers and a clerk who never work on the same account.
DisjointOpening ==
    (0 :> Open1(0, 0)) @@ (1 :> Open1(1, 2)) @@ (2 :> Open1(2, 1))
    @@ (3 :> Open1(3, 1)) @@ (4 :> Open1(4, 0))
DisjointAccountOf == (c1 :> 1) @@ (c2 :> 2)
DisjointReceivers == (c1 :> {0}) @@ (c2 :> {2, 3, 7})
DisjointTargets == {4, -1}
DisjointCalls == (c1 :> 2) @@ (c2 :> 1) @@ (k1 :> 1)

\* The numbering of the shipped file, where the record at index 0 does not have
\* number 0 (there it is 1001, here 2).
ShippedOpening == (0 :> Open1(2, 0)) @@ (1 :> Open1(3, 1))
ShippedAccountOf == (c1 :> 2) @@ (c2 :> 3)
ShippedReceivers == (c1 :> {3}) @@ (c2 :> {2})
ShippedTargets == {2}
ShippedCalls == (c1 :> 0) @@ (c2 :> 0) @@ (k1 :> 1)

=============================================================================
