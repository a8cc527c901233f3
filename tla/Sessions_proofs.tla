--------------------------- MODULE Sessions_proofs ---------------------------
(***************************************************************************)
(* One session per key, for any number of processes and customers and any  *)
(* number of sessions and deaths.                                          *)
(***************************************************************************)
EXTENDS Sessions, TLAPS

\* Whoever is to raise the login semaphore of its key next, and the same for
\* the operation semaphore.
HoldsLogin(p) == InSession(p) \/ pc[p] = "setLogin"

HoldsOp(p) == pc[p] \in {"setOp", "inOp"}

LoginHeldByOne ==
    /\ \A p \in Processes : HoldsLogin(p) => loginSem[K(p)] = 0
    /\ \A p, q \in Processes :
        HoldsLogin(p) /\ HoldsLogin(q) /\ K(p) = K(q) => p = q

OpHeldByOne ==
    /\ \A p \in Processes : HoldsOp(p) => opSem[K(p)] = 0
    /\ \A p, q \in Processes :
        HoldsOp(p) /\ HoldsOp(q) /\ K(p) = K(q) => p = q

\* A login semaphore at 0 has a holder, or had one that died.
ZeroHasAReason ==
    \A k \in Keys :
        loginSem[k] = 0 =>
            (\E p \in Processes : HoldsLogin(p) /\ K(p) = k) \/ k \in lostLogin

\* The inductive invariant.
IInv == TypeOK /\ LoginHeldByOne /\ OpHeldByOne /\ ZeroHasAReason

-----------------------------------------------------------------------------
\* The key of a process is one of the keys.
LEMMA KeyType == TypeOK => \A p \in Processes : K(p) \in Keys
BY DEF TypeOK, K, Keys

\* The initial states satisfy the invariant: there is nobody yet.
LEMMA InitIInv == Init => IInv
<1> SUFFICES ASSUME Init PROVE IInv
  OBVIOUS
<1>1. TypeOK
  BY ConstantsAssumption DEF Init, TypeOK, PC, Initially, NoSemaphore
<1>2. LoginHeldByOne /\ OpHeldByOne
  BY DEF Init, LoginHeldByOne, OpHeldByOne, HoldsLogin, HoldsOp, InSession
<1>3. ZeroHasAReason
  BY DEF Init, ZeroHasAReason, Initially, NoSemaphore
<1> QED BY <1>1, <1>2, <1>3 DEF IInv

\* No step takes a variable out of its type: a semaphore is raised only by the
\* process that holds it, so it does not pass 1.
LEMMA TypeStep == IInv /\ [Next]_vars => TypeOK'
<1> SUFFICES ASSUME IInv, [Next]_vars PROVE TypeOK'
  OBVIOUS
<1> USE KeyType DEF IInv, TypeOK, PC, Goto, history, NoSemaphore
<1>1. ASSUME NEW p \in Processes, Login(p) PROVE TypeOK'
  BY <1>1 DEF Login
<1>2. ASSUME NEW p \in Processes, CreateLoginSem(p) PROVE TypeOK'
  BY <1>2 DEF CreateLoginSem
<1>3. ASSUME NEW p \in Processes, SetLoginSem(p) PROVE TypeOK'
  BY <1>3 DEF SetLoginSem
<1>4. ASSUME NEW p \in Processes, CreateOpSem(p) PROVE TypeOK'
  BY <1>4 DEF CreateOpSem
<1>5. ASSUME NEW p \in Processes, SetOpSem(p) PROVE TypeOK'
  BY <1>5 DEF SetOpSem
<1>6. ASSUME NEW p \in Processes, Admit(p) PROVE TypeOK'
  BY <1>6 DEF Admit
<1>7. ASSUME NEW p \in Processes, Refuse(p) PROVE TypeOK'
  BY <1>7 DEF Refuse
<1>8. ASSUME NEW p \in Processes, Choose(p) PROVE TypeOK'
  BY <1>8 DEF Choose
<1>9. ASSUME NEW p \in Processes, StartOp(p) PROVE TypeOK'
  BY <1>9 DEF StartOp
<1>10. ASSUME NEW p \in Processes, EndOp(p) PROVE TypeOK'
  <2>1. opSem[K(p)] = 0
    BY <1>10 DEF EndOp, OpHeldByOne, HoldsOp
  <2> QED BY <1>10, <2>1 DEF EndOp
<1>11. ASSUME NEW p \in Processes, Logout(p) PROVE TypeOK'
  <2>1. loginSem[K(p)] = 0
    BY <1>11 DEF Logout, LoginHeldByOne, HoldsLogin, InSession
  <2> QED BY <1>11, <2>1 DEF Logout
<1>12. ASSUME NEW p \in Processes, Die(p) PROVE TypeOK'
  BY <1>12 DEF Die
<1>13. CASE UNCHANGED vars
  BY <1>13 DEF vars
<1> QED
  BY <1>1, <1>2, <1>3, <1>4, <1>5, <1>6, <1>7, <1>8, <1>9, <1>10, <1>11,
     <1>12, <1>13 DEF Next, ServerStep, ClientStep

\* The login semaphore changes hands only through 1, and the one process that
\* is between semget and SETVAL has nobody to dispute it.
LEMMA LoginStep == IInv /\ [Next]_vars => LoginHeldByOne'
<1> SUFFICES ASSUME IInv, [Next]_vars PROVE LoginHeldByOne'
  OBVIOUS
<1> USE KeyType
    DEF IInv, TypeOK, PC, Goto, history, NoSemaphore, LoginHeldByOne,
        HoldsLogin, InSession, K
<1>1. ASSUME NEW p \in Processes, Login(p) PROVE LoginHeldByOne'
  BY <1>1 DEF Login
<1>2. ASSUME NEW p \in Processes, CreateLoginSem(p) PROVE LoginHeldByOne'
  BY <1>2 DEF CreateLoginSem
<1>3. ASSUME NEW p \in Processes, SetLoginSem(p) PROVE LoginHeldByOne'
  BY <1>3 DEF SetLoginSem
<1>4. ASSUME NEW p \in Processes, CreateOpSem(p) PROVE LoginHeldByOne'
  BY <1>4 DEF CreateOpSem
<1>5. ASSUME NEW p \in Processes, SetOpSem(p) PROVE LoginHeldByOne'
  BY <1>5 DEF SetOpSem
<1>6. ASSUME NEW p \in Processes, Admit(p) PROVE LoginHeldByOne'
  <2>1. \A q \in Processes : HoldsLogin(q) => K(q) # K(p)
    BY <1>6 DEF Admit
  <2>2. loginSem'[K(p)] = 0
    BY <1>6 DEF Admit
  <2> QED BY <1>6, <2>1, <2>2 DEF Admit
<1>7. ASSUME NEW p \in Processes, Refuse(p) PROVE LoginHeldByOne'
  BY <1>7 DEF Refuse
<1>8. ASSUME NEW p \in Processes, Choose(p) PROVE LoginHeldByOne'
  BY <1>8 DEF Choose
<1>9. ASSUME NEW p \in Processes, StartOp(p) PROVE LoginHeldByOne'
  BY <1>9 DEF StartOp
<1>10. ASSUME NEW p \in Processes, EndOp(p) PROVE LoginHeldByOne'
  BY <1>10 DEF EndOp
<1>11. ASSUME NEW p \in Processes, Logout(p) PROVE LoginHeldByOne'
  BY <1>11 DEF Logout
<1>12. ASSUME NEW p \in Processes, Die(p) PROVE LoginHeldByOne'
  BY <1>12 DEF Die
<1>13. CASE UNCHANGED vars
  BY <1>13 DEF vars
<1> QED
  BY <1>1, <1>2, <1>3, <1>4, <1>5, <1>6, <1>7, <1>8, <1>9, <1>10, <1>11,
     <1>12, <1>13 DEF Next, ServerStep, ClientStep

\* The same for the operation semaphore.  While one process is inside, nobody
\* can be about to set it: the semaphore has been at 1 since it was created.
LEMMA OpStep == IInv /\ [Next]_vars => OpHeldByOne'
<1> SUFFICES ASSUME IInv, [Next]_vars PROVE OpHeldByOne'
  OBVIOUS
<1> USE KeyType
    DEF IInv, TypeOK, PC, Goto, history, NoSemaphore, OpHeldByOne, HoldsOp, K
<1>1. ASSUME NEW p \in Processes, Login(p) PROVE OpHeldByOne'
  BY <1>1 DEF Login
<1>2. ASSUME NEW p \in Processes, CreateLoginSem(p) PROVE OpHeldByOne'
  BY <1>2 DEF CreateLoginSem
<1>3. ASSUME NEW p \in Processes, SetLoginSem(p) PROVE OpHeldByOne'
  BY <1>3 DEF SetLoginSem
<1>4. ASSUME NEW p \in Processes, CreateOpSem(p) PROVE OpHeldByOne'
  BY <1>4 DEF CreateOpSem
<1>5. ASSUME NEW p \in Processes, SetOpSem(p) PROVE OpHeldByOne'
  BY <1>5 DEF SetOpSem
<1>6. ASSUME NEW p \in Processes, Admit(p) PROVE OpHeldByOne'
  BY <1>6 DEF Admit
<1>7. ASSUME NEW p \in Processes, Refuse(p) PROVE OpHeldByOne'
  BY <1>7 DEF Refuse
<1>8. ASSUME NEW p \in Processes, Choose(p) PROVE OpHeldByOne'
  BY <1>8 DEF Choose
<1>9. ASSUME NEW p \in Processes, StartOp(p) PROVE OpHeldByOne'
  <2>1. \A q \in Processes : HoldsOp(q) => K(q) # K(p)
    BY <1>9 DEF StartOp
  <2>2. opSem'[K(p)] = 0
    BY <1>9 DEF StartOp
  <2> QED BY <1>9, <2>1, <2>2 DEF StartOp
<1>10. ASSUME NEW p \in Processes, EndOp(p) PROVE OpHeldByOne'
  BY <1>10 DEF EndOp
<1>11. ASSUME NEW p \in Processes, Logout(p) PROVE OpHeldByOne'
  BY <1>11 DEF Logout
<1>12. ASSUME NEW p \in Processes, Die(p) PROVE OpHeldByOne'
  BY <1>12 DEF Die
<1>13. CASE UNCHANGED vars
  BY <1>13 DEF vars
<1> QED
  BY <1>1, <1>2, <1>3, <1>4, <1>5, <1>6, <1>7, <1>8, <1>9, <1>10, <1>11,
     <1>12, <1>13 DEF Next, ServerStep, ClientStep

\* A semaphore that is 0 keeps its reason: its holder goes on, raises it, or dies
\* and is recorded.
LEMMA ReasonStep == IInv /\ [Next]_vars => ZeroHasAReason'
<1> SUFFICES ASSUME IInv, [Next]_vars,
                    NEW k \in Keys, loginSem'[k] = 0, k \notin lostLogin'
             PROVE  \E p \in Processes : HoldsLogin(p)' /\ K(p)' = k
  BY DEF ZeroHasAReason
<1> DEFINE Held == \E p \in Processes : HoldsLogin(p)' /\ K(p)' = k
<1>1. ASSUME loginSem[k] = 0
      PROVE  \E p \in Processes : HoldsLogin(p) /\ K(p) = k
  <2>1. k \notin lostLogin
    BY DEF Next, ServerStep, ClientStep, vars, history, Login, CreateLoginSem,
           SetLoginSem, CreateOpSem, SetOpSem, Admit, Refuse, Choose, StartOp,
           EndOp, Logout, Die
  <2> QED BY <1>1, <2>1 DEF IInv, ZeroHasAReason
<1> USE KeyType
    DEF IInv, TypeOK, PC, Goto, history, NoSemaphore, HoldsLogin, InSession, K
<1>2. ASSUME NEW p \in Processes, Login(p) PROVE Held
  BY <1>1, <1>2 DEF Login
<1>3. ASSUME NEW p \in Processes, CreateLoginSem(p) PROVE Held
  BY <1>1, <1>3 DEF CreateLoginSem
<1>4. ASSUME NEW p \in Processes, SetLoginSem(p) PROVE Held
  BY <1>1, <1>4 DEF SetLoginSem
<1>5. ASSUME NEW p \in Processes, CreateOpSem(p) PROVE Held
  BY <1>1, <1>5 DEF CreateOpSem
<1>6. ASSUME NEW p \in Processes, SetOpSem(p) PROVE Held
  BY <1>1, <1>6 DEF SetOpSem
<1>7. ASSUME NEW p \in Processes, Admit(p) PROVE Held
  BY <1>1, <1>7 DEF Admit
<1>8. ASSUME NEW p \in Processes, Refuse(p) PROVE Held
  BY <1>1, <1>8 DEF Refuse
<1>9. ASSUME NEW p \in Processes, Choose(p) PROVE Held
  BY <1>1, <1>9 DEF Choose
<1>10. ASSUME NEW p \in Processes, StartOp(p) PROVE Held
  BY <1>1, <1>10 DEF StartOp
<1>11. ASSUME NEW p \in Processes, EndOp(p) PROVE Held
  BY <1>1, <1>11 DEF EndOp
<1>12. ASSUME NEW p \in Processes, Logout(p) PROVE Held
  BY <1>1, <1>12 DEF Logout, LoginHeldByOne
<1>13. ASSUME NEW p \in Processes, Die(p) PROVE Held
  BY <1>1, <1>13 DEF Die
<1>14. CASE UNCHANGED vars
  BY <1>1, <1>14 DEF vars
<1> QED
  BY <1>2, <1>3, <1>4, <1>5, <1>6, <1>7, <1>8, <1>9, <1>10, <1>11, <1>12,
     <1>13, <1>14 DEF Next, ServerStep, ClientStep

\* The invariant holds for ever.
THEOREM Invariance == Spec => []IInv
<1>1. IInv /\ [Next]_vars => IInv'
  BY TypeStep, LoginStep, OpStep, ReasonStep DEF IInv
<1> QED BY InitIInv, <1>1, PTL DEF Spec

\* The variables keep their types: no semaphore passes 1.
THEOREM TypeCorrect == Spec => []TypeOK
<1>1. IInv => TypeOK
  BY DEF IInv
<1> QED BY Invariance, <1>1, PTL

\* Two processes are never in sessions with the same key.
THEOREM SingleSession == Spec => []OneSessionPerKey
<1>1. IInv => OneSessionPerKey
  BY DEF IInv, LoginHeldByOne, OneSessionPerKey, HoldsLogin
<1> QED BY Invariance, <1>1, PTL

\* A login is refused only for one of the three reasons.
THEOREM Refusals == Spec => RefusedForAReason
<1>1. ASSUME IInv, NEW p \in Processes, Refuse(p) PROVE ReasonToRefuse(p)
  <2>1. K(p) \in Keys /\ loginSem[K(p)] = 0 /\ pc[p] = "tryLogin"
    BY <1>1, KeyType DEF IInv, Refuse, Goto
  <2>2. (\E q \in Processes : HoldsLogin(q) /\ K(q) = K(p)) \/ K(p) \in lostLogin
    BY <1>1, <2>1 DEF IInv, ZeroHasAReason
  <2>3. ~HoldsLogin(p)
    BY <2>1 DEF HoldsLogin, InSession
  <2> QED BY <2>2, <2>3 DEF HoldsLogin, ReasonToRefuse
<1>2. IInv => [\A p \in Processes : Refuse(p) => ReasonToRefuse(p)]_vars
  BY <1>1
<1> QED BY Invariance, <1>2, PTL DEF RefusedForAReason

-----------------------------------------------------------------------------
Present == {<<p, customer[p]>> : p \in {q \in Processes : InSession(q)}}

\* A step after which the same processes are in sessions, of the same customers,
\* is not seen from outside.
LEMMA SameSessions ==
    ASSUME IInv,
           \A q \in Processes : InSession(q)' <=> InSession(q),
           \A q \in Processes : InSession(q) => customer'[q] = customer[q]
    PROVE  Present' = Present
BY DEF Present

\* A step with which one process leaves its session takes one pair away: no other
\* pair is the same.
LEMMA OneLeaves ==
    ASSUME IInv, NEW p \in Processes, InSession(p), ~InSession(p)',
           \A q \in Processes \ {p} : InSession(q)' <=> InSession(q),
           customer' = customer
    PROVE  Admitted!Next
<1>1. <<p, customer[p]>> \in Present
  BY DEF Present
<1>2. Present' = Present \ {<<p, customer[p]>>}
  BY DEF Present
<1> QED BY <1>1, <1>2 DEF Admitted!Next, Admitted!Leave, Present

\* The process that finds the semaphore up is in no session, and nobody is in a
\* session of its customer.
LEMMA OneEnters ==
    ASSUME IInv, NEW p \in Processes, Admit(p)
    PROVE  Admitted!Next
<1> USE DEF IInv, TypeOK
<1>1. /\ pc[p] = "tryLogin" /\ loginSem[K(p)] > 0
      /\ pc' = [pc EXCEPT ![p] = "menu"] /\ customer' = customer
  BY DEF Admit, Goto, history
<1>2. K(p) \in Keys
  BY KeyType
<1>3. \A q \in Processes : InSession(q) => q # p /\ customer[q] # customer[p]
  <2> SUFFICES ASSUME NEW q \in Processes, InSession(q)
               PROVE  q # p /\ customer[q] # customer[p]
    OBVIOUS
  <2>1. loginSem[K(q)] = 0
    BY DEF LoginHeldByOne, HoldsLogin
  <2>2. q # p
    BY <1>1 DEF InSession
  <2>3. K(q) # K(p)
    BY <1>1, <1>2, <2>1 DEF NoSemaphore
  <2> QED BY <2>2, <2>3 DEF K
<1>4. \A s \in Present : s[1] # p /\ s[2] # customer[p]
  BY <1>3 DEF Present
<1>5. \A q \in Processes : InSession(q)' <=> InSession(q) \/ q = p
  BY <1>1 DEF InSession
<1>6. Present' = Present \cup {<<p, customer[p]>>}
  BY <1>1, <1>5 DEF Present
<1>7. customer[p] \in Customers
  OBVIOUS
<1> QED BY <1>4, <1>6, <1>7 DEF Admitted!Next, Admitted!Enter, Present

\* Two semaphores in separate calls behave as one test: for any number of
\* processes, customers, keys that collide, and deaths.
THEOREM AdmissionRefinement == Spec => ImplementsAdmission
<1>1. Init => Admitted!Init
  BY DEF Init, Admitted!Init, InSession
<1>2. IInv /\ [Next]_vars => [Admitted!Next]_Present
  <2> SUFFICES ASSUME IInv, [Next]_vars PROVE Admitted!Next \/ Present' = Present
    OBVIOUS
  <2> USE DEF IInv, TypeOK, Goto, history, InSession
  <2>1. ASSUME NEW p \in Processes, Login(p) PROVE Present' = Present
    BY <2>1, SameSessions DEF Login
  <2>2. ASSUME NEW p \in Processes,
               \/ CreateLoginSem(p) \/ SetLoginSem(p) \/ CreateOpSem(p)
               \/ SetOpSem(p) \/ Refuse(p) \/ Choose(p) \/ StartOp(p) \/ EndOp(p)
        PROVE  Present' = Present
    BY <2>2, SameSessions DEF CreateLoginSem, SetLoginSem, CreateOpSem, SetOpSem,
                              Refuse, Choose, StartOp, EndOp
  <2>3. ASSUME NEW p \in Processes, Logout(p) PROVE Admitted!Next
    BY <2>3, OneLeaves DEF Logout
  <2>4. ASSUME NEW p \in Processes, Die(p) PROVE Admitted!Next \/ Present' = Present
    <3>1. CASE InSession(p)
      BY <2>4, <3>1, OneLeaves DEF Die
    <3>2. CASE ~InSession(p)
      BY <2>4, <3>2, SameSessions DEF Die
    <3> QED BY <3>1, <3>2
  <2>5. CASE UNCHANGED vars
    BY <2>5, SameSessions DEF vars
  <2> QED
    BY <2>1, <2>2, <2>3, <2>4, <2>5, OneEnters DEF Next, ServerStep, ClientStep
<1> QED
  BY Invariance, <1>1, <1>2, PTL DEF Spec, ImplementsAdmission, Admitted!Spec, Present

=============================================================================
