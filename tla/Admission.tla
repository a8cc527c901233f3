----------------------------- MODULE Admission -----------------------------
(***************************************************************************)
(* What the login semaphore promises to the rest of the server: a customer *)
(* has one session at a time, a server process is in one session at a time *)
(* and a session begins and ends in one step.  Sessions shows how two      *)
(* System V semaphores keep the promise, Customers relies on it.           *)
(***************************************************************************)
CONSTANTS Servers, Numbers    \* server processes and customers' numbers

VARIABLE admitted             \* the sessions: <<process, customer>>

Init == admitted = {}

\* lock_semaphore(loginSemIdentifier, 1) returns 1.
Enter(p, c) ==
    /\ \A s \in admitted : s[1] # p /\ s[2] # c
    /\ admitted' = admitted \cup {<<p, c>>}

\* The client logs out, the handler returns, or the process dies.
Leave(s) == admitted' = admitted \ {s}

Next ==
    \/ \E p \in Servers, c \in Numbers : Enter(p, c)
    \/ \E s \in admitted : Leave(s)

Spec == Init /\ [][Next]_admitted

=============================================================================
