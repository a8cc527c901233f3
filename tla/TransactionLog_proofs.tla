------------------------ MODULE TransactionLog_proofs ------------------------
(***************************************************************************)
(* What TransactionLog shows on small instances, for any set of processes  *)
(* and any number of calls.                                                *)
(***************************************************************************)
EXTENDS TransactionLog, TLAPS

\* Between the grant and the unlock.
Inside(p) == pc[p] \in {"locked", "numbered", "unlocking"}

\* The lock a process holds inside, and that it holds none before it is granted.
HeldInside ==
    \A p \in Writers :
        /\ Inside(p) => held[p] = {From(wanted[p])}
        /\ pc[p] \in {"idle", "waiting", "dead"} => held[p] = {}

OneInside == \A p, q \in Writers : Inside(p) /\ Inside(q) => p = q

\* The number taken is still the right one when the record is written.
NumberIsFresh == \A p \in Writers : pc[p] = "numbered" => newId[p] = Len(log)

\* The inductive invariant.
IInv ==
    /\ TypeOK
    /\ HeldInside
    /\ OneInside
    /\ NumberIsFresh
    /\ IdsAreDense
    /\ ReturnsItsOwnRecord

-----------------------------------------------------------------------------
\* Two locks that reach the end of the file overlap, wherever they start.
LEMMA UnboundedLocksOverlap ==
    ASSUME NEW m \in Nat, NEW n \in Nat
    PROVE  Overlap(From(m), From(n))
BY DEF Overlap, EndsBefore, From

\* The initial states are well formed.
LEMMA InitIInv == Init => IInv
<1> SUFFICES ASSUME Init PROVE IInv
  OBVIOUS
<1> USE MaxCallsType DEF Init
<1>1. TypeOK
  BY DEF TypeOK, PC, Failed, LockRange
<1>2. HeldInside /\ OneInside /\ NumberIsFresh
  BY DEF HeldInside, OneInside, NumberIsFresh, Inside
<1>3. IdsAreDense /\ ReturnsItsOwnRecord
  BY DEF IdsAreDense, ReturnsItsOwnRecord, Failed
<1> QED BY <1>1, <1>2, <1>3 DEF IInv

\* A step by any process keeps the variables well typed.
LEMMA TypeStep == TypeOK /\ [Next]_vars => TypeOK'
<1> SUFFICES ASSUME TypeOK, [Next]_vars PROVE TypeOK'
  OBVIOUS
<1> USE DEF TypeOK, PC, Goto
<1>1. ASSUME NEW p \in Writers, Request(p) PROVE TypeOK'
  <2>1. calls' \in [Writers -> Nat]
    BY <1>1 DEF Request
  <2>2. \A q \in Writers : MaxCalls[q] \in Nat /\ calls[q] \in Nat
    BY MaxCallsType
  <2>3. \A q \in Writers : calls'[q] <= MaxCalls[q]
    BY <1>1, <2>2 DEF Request
  <2>4. wanted' \in [Writers -> Nat] /\ pc' \in [Writers -> PC]
    BY <1>1 DEF Request
  <2> QED BY <1>1, <2>1, <2>3, <2>4 DEF Request
<1>2. ASSUME NEW p \in Writers, Grant(p) PROVE TypeOK'
  BY <1>2 DEF Grant, From, LockRange
<1>3. ASSUME NEW p \in Writers, ReadLast(p) PROVE TypeOK'
  <2>1. log # <<>> => log[Len(log)].id \in Nat
    <3> SUFFICES ASSUME log # <<>> PROVE log[Len(log)].id \in Nat
      OBVIOUS
    <3>1. log \in Seq(Abstract!Record)
      OBVIOUS
    <3>2. log[Len(log)] \in Abstract!Record
      BY <3>1
    <3> QED BY <3>2 DEF Abstract!Record
  <2> QED BY <1>3, <2>1 DEF ReadLast
<1>4. ASSUME NEW p \in Writers, AppendRecord(p) PROVE TypeOK'
  BY <1>4 DEF AppendRecord, Abstract!Record
<1>5. ASSUME NEW p \in Writers, Fail(p) PROVE TypeOK'
  BY <1>5 DEF Fail
<1>6. ASSUME NEW p \in Writers, Unlock(p) PROVE TypeOK'
  <2>1. CutFrom(held[p], Len(log)) \subseteq LockRange
    BY DEF CutFrom, LockRange
  <2> QED BY <1>6, <2>1 DEF Unlock
<1>7. ASSUME NEW p \in Writers, Close(p) PROVE TypeOK'
  BY <1>7 DEF Close
<1>8. ASSUME NEW p \in Writers, Die(p) PROVE TypeOK'
  BY <1>8 DEF Die
<1>9. ASSUME NEW p \in Writers, LockFails(p) PROVE TypeOK'
  BY <1>9 DEF LockFails
<1>10. CASE UNCHANGED vars
  BY <1>10 DEF vars
<1> QED BY <1>1, <1>2, <1>3, <1>4, <1>5, <1>6, <1>7, <1>8, <1>9, <1>10 DEF Next, Step

\* At most one process is inside: a second grant would need a lock that does
\* not overlap the first one's.
LEMMA LockStep ==
    TypeOK /\ HeldInside /\ OneInside /\ [Next]_vars => (HeldInside /\ OneInside)'
<1> SUFFICES ASSUME TypeOK, HeldInside, OneInside, [Next]_vars
             PROVE  (HeldInside /\ OneInside)'
  OBVIOUS
<1> USE DEF TypeOK, PC, Goto, HeldInside, OneInside, Inside
<1>1. ASSUME NEW p \in Writers, Request(p) PROVE (HeldInside /\ OneInside)'
  BY <1>1 DEF Request
<1>2. ASSUME NEW p \in Writers, Grant(p) PROVE (HeldInside /\ OneInside)'
  <2>1. \A q \in Writers \ {p} : ~Inside(q)
    <3> SUFFICES ASSUME NEW q \in Writers \ {p}, Inside(q) PROVE FALSE
      OBVIOUS
    <3>1. held[q] = {From(wanted[q])}
      OBVIOUS
    <3>2. ~Overlap(From(wanted[q]), From(wanted[p]))
      BY <1>2, <3>1 DEF Grant, Free
    <3> QED BY <3>2, UnboundedLocksOverlap
  <2> QED BY <1>2, <2>1 DEF Grant
<1>3. ASSUME NEW p \in Writers, ReadLast(p) PROVE (HeldInside /\ OneInside)'
  BY <1>3 DEF ReadLast
<1>4. ASSUME NEW p \in Writers, AppendRecord(p) PROVE (HeldInside /\ OneInside)'
  BY <1>4 DEF AppendRecord
<1>5. ASSUME NEW p \in Writers, Fail(p) PROVE (HeldInside /\ OneInside)'
  BY <1>5 DEF Fail
<1>6. ASSUME NEW p \in Writers, Unlock(p) PROVE (HeldInside /\ OneInside)'
  BY <1>6 DEF Unlock
<1>7. ASSUME NEW p \in Writers, Close(p) PROVE (HeldInside /\ OneInside)'
  BY <1>7 DEF Close
<1>8. ASSUME NEW p \in Writers, Die(p) PROVE (HeldInside /\ OneInside)'
  BY <1>8 DEF Die
<1>9. ASSUME NEW p \in Writers, LockFails(p) PROVE (HeldInside /\ OneInside)'
  BY <1>9 DEF LockFails
<1>10. CASE UNCHANGED vars
  BY <1>10 DEF vars
<1> QED BY <1>1, <1>2, <1>3, <1>4, <1>5, <1>6, <1>7, <1>8, <1>9, <1>10 DEF Next, Step

\* The length of the file is the number of the next record.
LEMMA NextNumber ==
    ASSUME TypeOK, IdsAreDense
    PROVE  (IF log = <<>> THEN 0 ELSE log[Len(log)].id + 1) = Len(log)
<1> USE DEF TypeOK
<1>1. CASE log = <<>>
  BY <1>1
<1>2. CASE log # <<>>
  <2>1. Len(log) \in DOMAIN log
    BY <1>2
  <2> QED BY <1>2, <2>1 DEF IdsAreDense
<1> QED BY <1>1, <1>2

\* Nobody appends between the moment a process takes its number and the moment
\* it writes; so numbers stay dense, and each process gets back its own.
LEMMA NumberStep ==
    IInv /\ [Next]_vars => (NumberIsFresh /\ IdsAreDense /\ ReturnsItsOwnRecord)'
<1> SUFFICES ASSUME IInv, [Next]_vars
             PROVE  (NumberIsFresh /\ IdsAreDense /\ ReturnsItsOwnRecord)'
  OBVIOUS
<1> DEFINE Numbers == NumberIsFresh /\ IdsAreDense /\ ReturnsItsOwnRecord
<1> USE DEF IInv, TypeOK, PC, Goto, NumberIsFresh, IdsAreDense, ReturnsItsOwnRecord
<1>1. ASSUME NEW p \in Writers, Request(p) PROVE Numbers'
  BY <1>1 DEF Request
<1>2. ASSUME NEW p \in Writers, Grant(p) PROVE Numbers'
  BY <1>2 DEF Grant
<1>3. ASSUME NEW p \in Writers, ReadLast(p) PROVE Numbers'
  BY <1>3, NextNumber DEF ReadLast
<1>4. ASSUME NEW p \in Writers, AppendRecord(p) PROVE Numbers'
  <2> DEFINE rec == [id |-> newId[p], by |-> p]
  <2>1. /\ newId[p] = Len(log)
        /\ log' = Append(log, rec)
        /\ Len(log') = Len(log) + 1
        /\ DOMAIN log' = 1..(Len(log) + 1)
        /\ \A i \in 1..Len(log) : log'[i] = log[i]
        /\ log'[Len(log) + 1] = rec
    BY <1>4 DEF AppendRecord
  <2>2. IdsAreDense'
    BY <2>1
  <2>3. NumberIsFresh'
    BY <1>4, <2>1 DEF AppendRecord, OneInside, Inside
  <2>4. ASSUME NEW q \in Writers, result'[q] # Failed
        PROVE  /\ result'[q] < Len(log')
               /\ log'[result'[q] + 1] = [id |-> result'[q], by |-> q]
    <3>1. CASE q = p
      BY <1>4, <2>1, <3>1 DEF AppendRecord
    <3>2. CASE q # p
      <4>1. result'[q] = result[q]
        BY <1>4, <3>2 DEF AppendRecord
      <4>2. result[q] \in Nat /\ result[q] < Len(log)
        BY <2>4, <4>1
      <4> QED BY <2>1, <2>4, <4>1, <4>2
    <3> QED BY <3>1, <3>2
  <2> QED BY <2>2, <2>3, <2>4
<1>5. ASSUME NEW p \in Writers, Fail(p) PROVE Numbers'
  BY <1>5 DEF Fail
<1>6. ASSUME NEW p \in Writers, Unlock(p) PROVE Numbers'
  BY <1>6 DEF Unlock
<1>7. ASSUME NEW p \in Writers, Close(p) PROVE Numbers'
  BY <1>7 DEF Close
<1>8. ASSUME NEW p \in Writers, Die(p) PROVE Numbers'
  BY <1>8 DEF Die
<1>9. ASSUME NEW p \in Writers, LockFails(p) PROVE Numbers'
  BY <1>9 DEF LockFails
<1>10. CASE UNCHANGED vars
  BY <1>10 DEF vars
<1> QED BY <1>1, <1>2, <1>3, <1>4, <1>5, <1>6, <1>7, <1>8, <1>9, <1>10 DEF Next, Step

\* IInv holds for ever.
THEOREM Invariance == Spec => []IInv
<1>1. IInv /\ [Next]_vars => IInv'
  BY TypeStep, LockStep, NumberStep DEF IInv
<1> QED BY InitIInv, <1>1, PTL DEF Spec

\* The variables keep their types.
THEOREM TypeCorrect == Spec => []TypeOK
<1>1. IInv => TypeOK
  BY DEF IInv
<1> QED BY Invariance, <1>1, PTL

\* Any number of deposits, withdrawals and transfers in any number of server
\* processes number their transactions 0, 1, 2, 3 ...
THEOREM DenseIds == Spec => []IdsAreDense
<1>1. IInv => IdsAreDense
  BY DEF IInv
<1> QED BY Invariance, <1>1, PTL

\* The number a call returns is that of a record it wrote itself.
THEOREM OwnRecord == Spec => []ReturnsItsOwnRecord
<1>1. IInv => ReturnsItsOwnRecord
  BY DEF IInv
<1> QED BY Invariance, <1>1, PTL

\* The window between reading the last record and writing the next one is never
\* shared.
THEOREM Exclusion == Spec => []OneWriterInTheWindow
<1>1. IInv => OneWriterInTheWindow
  BY DEF IInv, OneInside, OneWriterInTheWindow, Inside
<1> QED BY Invariance, <1>1, PTL

\* The transaction file with its lock implements AppendLog.
THEOREM Refinement == Spec => ImplementsAppendLog
<1>1. Init => Abstract!Init
  BY DEF Init, Abstract!Init
<1>2. IInv /\ [Next]_vars => [Abstract!Next]_log
  <2> SUFFICES ASSUME IInv, [Next]_vars PROVE [Abstract!Next]_log
    OBVIOUS
  <2>1. ASSUME NEW p \in Writers, AppendRecord(p) PROVE Abstract!Next
    BY <2>1 DEF AppendRecord, Goto, IInv, NumberIsFresh, Abstract!Next, Abstract!Extend
  <2>2. CASE UNCHANGED log
    BY <2>2
  <2> QED
    BY <2>1, <2>2 DEF Next, Step, Request, Grant, ReadLast, Fail, Unlock,
                      Close, LockFails, Die, vars
<1> QED
  BY Invariance, <1>1, <1>2, PTL DEF Spec, ImplementsAppendLog, Abstract!Spec

=============================================================================
