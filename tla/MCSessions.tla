----------------------------- MODULE MCSessions -----------------------------
EXTENDS Sessions

\* Customers 0 and 2 have the same key when ftok tells two apart.
ThreeCustomers == {0, 1, 2}

\* One customer and another with the same key.
TwoCustomers == {0, 2}

=============================================================================
