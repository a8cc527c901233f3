------------------------------ MODULE Sessions ------------------------------
(***************************************************************************)
(* The sessions of customers: customer_operation_handler with the two      *)
(* System V semaphores of initialize_semaphores, lock_semaphore and        *)
(* unlock_semaphore (functions/customer.h:155-262, 822-904).               *)
(*                                                                         *)
(* The login semaphore lets one session per customer in, the operation     *)
(* semaphore brackets its deposits, withdrawals, transfers and password    *)
(* changes.  Both are named by ftok from a file and the low 8 bits of the  *)
(* customer's number, are created with value 0 and then set to 1 in a      *)
(* second call, and outlive every process: no operation has SEM_UNDO.      *)
(***************************************************************************)
EXTENDS Integers, FiniteSets

CONSTANTS
    Processes,      \* the connections served at one time, a process each
    Customers,      \* the numbers of the customers who may log in
    FtokModulus,    \* 256: how many customers ftok tells apart
    SemaphoresExist, \* whether an earlier session has created the semaphores
    MaxSessions,    \* bound: connections that each process stands for in turn
    MaxDeaths       \* bound: processes that end without unlocking

ASSUME ConstantsAssumption ==
    /\ Customers \subseteq Nat
    /\ FtokModulus \in Nat \ {0}
    /\ SemaphoresExist \in BOOLEAN

VARIABLES
    pc,
    customer,       \* loggedInCustomer.id
    loginSem,       \* the semaphores, by key
    opSem,
    sessions,       \* connections so far
    died,           \* how many processes have died
    lostLogin,      \* history: keys whose login semaphore died with its holder
    lostOp          \* history: keys whose operation semaphore was never set

vars == <<pc, customer, loginSem, opSem, sessions, died, lostLogin, lostOp>>

\* ftok(CUSTOMER_FILE, custid) and ftok(ACCOUNT_FILE, custid).
Key(c) == c % FtokModulus

Keys == {Key(c) : c \in Customers}

NoSemaphore == -1

Initially == IF SemaphoresExist THEN 1 ELSE NoSemaphore

Init ==
    /\ pc = [p \in Processes |-> "closed"]
    /\ customer \in [Processes -> Customers]   \* of no meaning before Login
    /\ loginSem = [k \in Keys |-> Initially]
    /\ opSem = [k \in Keys |-> Initially]
    /\ sessions = [p \in Processes |-> 0]
    /\ died = 0
    /\ lostLogin = {}
    /\ lostOp = {}

Goto(p, from, to) == pc[p] = from /\ pc' = [pc EXCEPT ![p] = to]

K(p) == Key(customer[p])

history == <<sessions, died, lostLogin, lostOp>>

\* A client connects and gives the login and the password of a customer.
Login(p) ==
    /\ Goto(p, "closed", "createLogin")
    /\ sessions[p] < MaxSessions
    /\ sessions' = [sessions EXCEPT ![p] = @ + 1]
    /\ \E c \in Customers : customer' = [customer EXCEPT ![p] = c]
    /\ UNCHANGED <<loginSem, opSem, died, lostLogin, lostOp>>

\* Mutant of CreateLoginSem: without IPC_EXCL an existing semaphore is set again.
CreateLoginSemShared(p) ==
    /\ Goto(p, "createLogin", "setLogin")
    /\ loginSem' = [loginSem EXCEPT ![K(p)] = IF @ = NoSemaphore THEN 0 ELSE @]
    /\ UNCHANGED <<customer, opSem, history>>

\* semget with IPC_CREAT | IPC_EXCL: a new semaphore has value 0.
CreateLoginSem(p) ==
    /\ \/ /\ loginSem[K(p)] = NoSemaphore
          /\ Goto(p, "createLogin", "setLogin")
          /\ loginSem' = [loginSem EXCEPT ![K(p)] = 0]
       \/ /\ loginSem[K(p)] # NoSemaphore
          /\ Goto(p, "createLogin", "createOp")
          /\ UNCHANGED loginSem
    /\ UNCHANGED <<customer, opSem, history>>

\* semctl SETVAL 1, by the process that has created it.
SetLoginSem(p) ==
    /\ Goto(p, "setLogin", "createOp")
    /\ loginSem' = [loginSem EXCEPT ![K(p)] = 1]
    /\ UNCHANGED <<customer, opSem, history>>

CreateOpSem(p) ==
    /\ \/ /\ opSem[K(p)] = NoSemaphore
          /\ Goto(p, "createOp", "setOp")
          /\ opSem' = [opSem EXCEPT ![K(p)] = 0]
       \/ /\ opSem[K(p)] # NoSemaphore
          /\ Goto(p, "createOp", "tryLogin")
          /\ UNCHANGED opSem
    /\ UNCHANGED <<customer, loginSem, history>>

SetOpSem(p) ==
    /\ Goto(p, "setOp", "tryLogin")
    /\ opSem' = [opSem EXCEPT ![K(p)] = 1]
    /\ UNCHANGED <<customer, loginSem, history>>

\* lock_semaphore(loginSemIdentifier, 1): IPC_NOWAIT.
Admit(p) ==
    /\ Goto(p, "tryLogin", "menu")
    /\ loginSem[K(p)] > 0
    /\ loginSem' = [loginSem EXCEPT ![K(p)] = @ - 1]
    /\ UNCHANGED <<customer, opSem, history>>

\* Mutant of Refuse: the semaphore it has not got is unlocked.
RefuseAndUnlock(p) ==
    /\ Goto(p, "tryLogin", "closed")
    /\ loginSem[K(p)] = 0
    /\ loginSem' = [loginSem EXCEPT ![K(p)] = @ + 1]
    /\ UNCHANGED <<customer, opSem, history>>

\* "You're already logged in!", and the connection is closed.
Refuse(p) ==
    /\ Goto(p, "tryLogin", "closed")
    /\ loginSem[K(p)] = 0
    /\ UNCHANGED <<customer, loginSem, opSem, history>>

\* The client picks a service that changes something: lock_semaphore(.., 0).
Choose(p) ==
    /\ Goto(p, "menu", "opWait")
    /\ UNCHANGED <<customer, loginSem, opSem, history>>

StartOp(p) ==
    /\ Goto(p, "opWait", "inOp")
    /\ opSem[K(p)] > 0
    /\ opSem' = [opSem EXCEPT ![K(p)] = @ - 1]
    /\ UNCHANGED <<customer, loginSem, history>>

\* Mutant of EndOp: one of the many returns forgets to unlock.
EndOpLocked(p) ==
    /\ Goto(p, "inOp", "menu")
    /\ UNCHANGED <<customer, loginSem, opSem, history>>

\* Mutant of EndOp: a return unlocks the other semaphore.
EndOpWrongSem(p) ==
    /\ Goto(p, "inOp", "menu")
    /\ loginSem' = [loginSem EXCEPT ![K(p)] = @ + 1]
    /\ UNCHANGED <<customer, opSem, history>>

\* Every return of a service, the refusals and errors included, unlocks.
EndOp(p) ==
    /\ Goto(p, "inOp", "menu")
    /\ opSem' = [opSem EXCEPT ![K(p)] = @ + 1]
    /\ UNCHANGED <<customer, loginSem, history>>

\* Mutant of Logout: the session ends without unlocking.
LogoutLocked(p) ==
    /\ Goto(p, "menu", "closed")
    /\ UNCHANGED <<customer, loginSem, opSem, history>>

\* Any other key, and also the end of file a client leaves by closing.
Logout(p) ==
    /\ Goto(p, "menu", "closed")
    /\ loginSem' = [loginSem EXCEPT ![K(p)] = @ + 1]
    /\ UNCHANGED <<customer, opSem, history>>

(***************************************************************************)
(* The process ends without unlocking anything: a read or a write at the   *)
(* menu fails (customer.h:212-223), it gets SIGPIPE because it writes to a *)
(* client that has gone, or it is killed.  System V keeps the semaphores   *)
(* as they are.                                                            *)
(***************************************************************************)
Die(p) ==
    /\ pc[p] # "closed"
    /\ died < MaxDeaths
    /\ died' = died + 1
    /\ pc' = [pc EXCEPT ![p] = "closed"]
    /\ lostLogin' = IF pc[p] \in {"setLogin", "menu", "opWait", "inOp"}
                    THEN lostLogin \cup {K(p)} ELSE lostLogin
    /\ lostOp' = IF pc[p] = "setOp" THEN lostOp \cup {K(p)} ELSE lostOp
    /\ UNCHANGED <<customer, loginSem, opSem, sessions>>

\* What the server does without its client.
ServerStep(p) ==
    \/ CreateLoginSem(p)
    \/ SetLoginSem(p)
    \/ CreateOpSem(p)
    \/ SetOpSem(p)
    \/ Admit(p)
    \/ Refuse(p)
    \/ StartOp(p)

ClientStep(p) == Login(p) \/ Choose(p) \/ EndOp(p) \/ Logout(p)

Next == \E p \in Processes : ServerStep(p) \/ ClientStep(p) \/ Die(p)

Fairness == \A p \in Processes : WF_vars(ServerStep(p))

Spec == Init /\ [][Next]_vars

FairSpec == Spec /\ Fairness

-----------------------------------------------------------------------------
PC == {"closed", "createLogin", "setLogin", "createOp", "setOp", "tryLogin",
       "menu", "opWait", "inOp"}

\* The type of every variable.
TypeOK ==
    /\ pc \in [Processes -> PC]
    /\ customer \in [Processes -> Customers]
    /\ loginSem \in [Keys -> {NoSemaphore, 0, 1}]
    /\ opSem \in [Keys -> {NoSemaphore, 0, 1}]
    /\ sessions \in [Processes -> Nat]
    /\ died \in Nat
    /\ lostLogin \subseteq Keys
    /\ lostOp \subseteq Keys

InSession(p) == pc[p] \in {"menu", "opWait", "inOp"}

\* A customer has one session at a time, whoever created the semaphores, in
\* whatever order the first two logins went through initialize_semaphores, and
\* whoever died.  More than that, one of a group of customers ftok confuses.
OneSessionPerKey ==
    \A p, q \in Processes :
        InSession(p) /\ InSession(q) /\ K(p) = K(q) => p = q

\* The semaphores implement Admission.
Admitted == INSTANCE Admission WITH
    Servers <- Processes,
    Numbers <- Customers,
    admitted <- {<<p, customer[p]>> : p \in {q \in Processes : InSession(q)}}

\* Every step of a login, a logout or a death is the beginning of a session whose
\* customer has no other, the end of one, or is not seen from outside: two
\* semaphores that are created, set, lowered and raised in separate calls behave
\* as the one test "is this customer logged in" that Customers relies on.
ImplementsAdmission == Admitted!Spec

\* A session with the same key exists, its semaphore is just being created, or a
\* process has died with it.
ReasonToRefuse(p) ==
    \/ \E q \in Processes \ {p} :
        K(q) = K(p) /\ (InSession(q) \/ pc[q] = "setLogin")
    \/ K(p) \in lostLogin

\* "You're already logged in!" is said for one of these three reasons only.
RefusedForAReason ==
    [][\A p \in Processes : Refuse(p) => ReasonToRefuse(p)]_vars

\* A service never waits for the operation semaphore for ever, unless a process
\* has died between the semget and the SETVAL of that semaphore.  That the
\* semaphore may be left at 0 by a process that dies inside a service does not
\* matter: the login semaphore is then lost too, and nobody comes to wait.
ServicesStart ==
    \A p \in Processes :
        pc[p] = "opWait" ~> (pc[p] # "opWait" \/ K(p) \in lostOp)

\* "You're already logged in!" (constants.h:137): another session of the same
\* customer exists.
AlreadyLoggedInIsTrue ==
    [][\A p \in Processes :
        Refuse(p) =>
            \E q \in Processes \ {p} : InSession(q) /\ customer[q] = customer[p]]_vars

=============================================================================
