------------------------------ MODULE MCStaff -------------------------------
(***************************************************************************)
(* Two employees and an administrator, in files numbered from 0.           *)
(***************************************************************************)
EXTENDS Staff, TLC

CONSTANTS a1, a2, e1, anna

Record(number) ==
    [id |-> number, name |-> anna, manager |-> FALSE, login |-> <<anna, number>>]

\* An uninitialized record, and one of zeros.
Junk == {[id |-> 7, name |-> anna, manager |-> TRUE, login |-> <<anna, 7>>]}

Nothing == Record(0)

TwoEmployees == [i \in 0..1 |-> Record(i)]

OneAdmin == [i \in 0..0 |-> [id |-> 0, login |-> <<anna, 0>>]]

\* A negative number, the last record, and the place behind it.
Typed == {-1, 1, 2}

Calls == (a1 :> 2) @@ (a2 :> 2) @@ (e1 :> 1)

=============================================================================
