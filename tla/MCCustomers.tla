---------------------------- MODULE MCCustomers ----------------------------
(***************************************************************************)
(* Two customers, each with an account, in a file of two records.          *)
(***************************************************************************)
EXTENDS Customers, TLC

CONSTANTS c1, c2, k1, k2, harshal, nobody, n1, x, y

Record(number) ==
    [id |-> number, login |-> harshal, info |-> n1, account |-> 1001 + number,
     password |-> x]

\* What is left on the stack is a customer nobody has.
OneGarbage == {Record(7)}

NoRecord == [id |-> 0, login |-> nobody, info |-> n1, account |-> 0, password |-> x]

SomeNumbers == {-1, 0, 2}

TwoCustomers == (0 :> Record(0)) @@ (1 :> Record(1))

TwoAccounts == [i \in 0..1 |-> [number |-> 1001 + i, custid |-> i]]

\* Two connections of one customer and a clerk who adds a customer or modifies the
\* other one, or one that may not be there yet.
OneClerkCalls == (c1 :> 1) @@ (c2 :> 1) @@ (k1 :> 2)

\* Two clerks add a customer each.
TwoClerksCalls == (k1 :> 1) @@ (k2 :> 1)

=============================================================================
