---------------------------- MODULE Staff_proofs ----------------------------
(***************************************************************************)
(* Whatever administrators do at the same time, the record of employee n   *)
(* stays the n-th of the file and keeps its login, as long as nobody       *)
(* modifies a record that is not there.                                    *)
(***************************************************************************)
EXTENDS Staff, TLAPS

\* What a process has in hand goes to the place it was read from, or belongs behind
\* the last record: w is where the process is, n and r its place and record.
Fits(w, n, r, file, afile, far, dup) ==
    /\ w \in {"last", "name", "manager"} => n \in DOMAIN file
    /\ w \in {"name", "manager"} /\ far = {} => r.id = n + 1
    /\ w = "admin" => n \in DOMAIN afile /\ r.id = n + 1
    /\ w \in {"change", "lock", "write"} =>
        /\ n \notin far => n \in DOMAIN file
        /\ n \notin far \cup dup => r.login = file[n].login
        /\ far = {} => r.id = n /\ r.login[2] = n

RecordsFit ==
    \A p \in Processes :
        Fits(pc[p], place[p], record[p], employees, admins, astray, twice)

\* The inductive invariant.
IInv == TypeOK /\ NumbersArePlaces /\ RecordsFit

\* What LoginsLast says of a step.
LoginsKept ==
    \A i \in DOMAIN employees \ (astray \cup twice') :
        i \in DOMAIN employees' /\ employees'[i].login = employees[i].login

-----------------------------------------------------------------------------
\* A file has a last record, and its places are natural numbers.
LEMMA LastPlace ==
    ASSUME NEW Record, NEW file, IsFile(file, Record)
    PROVE  /\ DOMAIN file \subseteq Nat /\ 0 \in DOMAIN file
           /\ Last(file) \in DOMAIN file
           /\ \A i \in DOMAIN file : file[i] \in Record
<1>1. PICK n \in Nat : n \in DOMAIN file /\ file \in [0..n -> Record]
  BY DEF IsFile
<1>2. DOMAIN file = 0..n
  BY <1>1
<1>3. \A y \in DOMAIN file : n >= y
  BY <1>2
<1>4. Last(file) \in DOMAIN file
  BY <1>1, <1>3 DEF Last, Max
<1> QED BY <1>1, <1>2, <1>4

\* A function on an initial part of the natural numbers is a file.
LEMMA FileIntro ==
    ASSUME NEW Record, NEW file, NEW n \in Nat,
           DOMAIN file = 0..n, file = [i \in DOMAIN file |-> file[i]],
           \A i \in DOMAIN file : file[i] \in Record
    PROVE  IsFile(file, Record)
<1>1. file \in [0..n -> Record]
  OBVIOUS
<1> QED BY <1>1 DEF IsFile

\* A write anywhere leaves a file without gaps: what is skipped is filled with zeros.
LEMMA PutType ==
    ASSUME NEW file, IsFile(file, Employee), NEW n \in Nat, NEW value \in Employee
    PROVE  LET new == Put(file, n, value)
           IN  /\ IsFile(new, Employee)
               /\ DOMAIN file \subseteq DOMAIN new
               /\ n \in DOMAIN new
               /\ new[n] = value
               /\ \A i \in DOMAIN file : i # n => new[i] = file[i]
               /\ n \in DOMAIN file \/ n - 1 \in DOMAIN file =>
                    \A i \in DOMAIN new : i # n => i \in DOMAIN file
<1> DEFINE new == Put(file, n, value)
<1>1. PICK m \in Nat : m \in DOMAIN file /\ file \in [0..m -> Employee]
  BY DEF IsFile
<1>2. DOMAIN file = 0..m
  BY <1>1
<1>3. DOMAIN new = 0..m \cup 0..n
  BY <1>2 DEF Put
<1>4. \A i \in DOMAIN new :
        new[i] = IF i = n THEN value ELSE IF i \in DOMAIN file THEN file[i] ELSE Zeros
  BY DEF Put
<1>5. \A i \in DOMAIN new : new[i] \in Employee
  BY <1>1, <1>2, <1>4, ConstantsAssumption
<1>6. new = [i \in DOMAIN new |-> new[i]]
  BY DEF Put
<1> HIDE DEF new
<1>7. PICK k \in Nat : DOMAIN new = 0..k
  <2>1. CASE n <= m
    <3>1. DOMAIN new = 0..m
      BY <1>3, <2>1
    <3> QED BY <3>1
  <2>2. CASE m < n
    <3>1. DOMAIN new = 0..n
      BY <1>3, <2>2
    <3> QED BY <3>1
  <2> QED BY <2>1, <2>2
<1>8. IsFile(new, Employee)
  BY <1>5, <1>6, <1>7, FileIntro
<1>9. n \in DOMAIN file \/ n - 1 \in DOMAIN file =>
        \A i \in DOMAIN new : i # n => i \in DOMAIN file
  BY <1>2, <1>3
<1>10. n \in DOMAIN new /\ DOMAIN file \subseteq DOMAIN new
  BY <1>2, <1>3
<1>11. new[n] = value /\ \A i \in DOMAIN file : i # n => new[i] = file[i]
  BY <1>4, <1>10
<1> QED BY <1>8, <1>9, <1>10, <1>11 DEF new

\* The initial states satisfy the invariant.
LEMMA InitIInv == Init => IInv
<1> SUFFICES ASSUME Init PROVE IInv
  OBVIOUS
<1> USE ConstantsAssumption DEF Init
<1>1. TypeOK
  BY DEF TypeOK, PC
<1>2. RecordsFit
  BY DEF RecordsFit, Fits
<1> QED BY <1>1, <1>2 DEF IInv, NumbersArePlaces

-----------------------------------------------------------------------------
\* What a step of p has to show.
LEMMA Step ==
    ASSUME IInv, NEW p \in Processes, NEW w \in PC, NEW n \in Nat, NEW r \in Employee,
           pc' = [pc EXCEPT ![p] = w],
           place' = [place EXCEPT ![p] = n],
           record' = [record EXCEPT ![p] = r],
           reading' \in [Processes -> SUBSET Locks],
           writing' \in [Processes -> SUBSET Locks],
           IsFile(employees', Employee), IsFile(admins', Admin),
           DOMAIN employees \subseteq DOMAIN employees',
           DOMAIN admins \subseteq DOMAIN admins',
           astray \subseteq astray', astray' \subseteq Nat,
           twice \subseteq twice', twice' \subseteq Nat,
           einval' \subseteq Admins, dead' \subseteq Processes,
           calls' \in [Processes -> Nat], left' \subseteq Processes,
           LoginsKept, NumbersArePlaces',
           Fits(w, n, r, employees', admins', astray', twice')
    PROVE  IInv'
<1>1. TypeOK'
  BY DEF IInv, TypeOK
<1>2. ASSUME NEW q \in Processes
      PROVE  Fits(pc'[q], place'[q], record'[q], employees', admins', astray', twice')
  <2>1. CASE q = p
    <3>1. pc'[q] = w /\ place'[q] = n /\ record'[q] = r
      BY <2>1 DEF IInv, TypeOK
    <3> QED BY <3>1
  <2>2. CASE q # p
    <3> DEFINE v == pc[q]
               m == place[q]
               s == record[q]
    <3>1. pc'[q] = v /\ place'[q] = m /\ record'[q] = s
      BY <2>2 DEF IInv, TypeOK
    <3>2. Fits(v, m, s, employees, admins, astray, twice)
      BY DEF IInv, RecordsFit
    <3> HIDE DEF v, m, s
    <3>3. Fits(v, m, s, employees', admins', astray', twice')
      BY <3>2 DEF Fits, LoginsKept
    <3> QED BY <3>1, <3>3
  <2> QED BY <2>1, <2>2
<1> QED BY <1>1, <1>2 DEF IInv, RecordsFit

\* The same for a step after which nothing is in hand, and which writes no file.
LEMMA QuietStep ==
    ASSUME IInv, NEW p \in Processes,
           NEW w \in {"menu", "login", "details", "seen", "lookup"},
           NEW n \in Nat, NEW r \in Employee,
           pc' = [pc EXCEPT ![p] = w],
           place' = [place EXCEPT ![p] = n],
           record' = [record EXCEPT ![p] = r],
           reading' \in [Processes -> SUBSET Locks],
           writing' \in [Processes -> SUBSET Locks],
           einval' \subseteq Admins, dead' \subseteq Processes,
           calls' \in [Processes -> Nat], left' \subseteq Processes,
           UNCHANGED <<employees, admins, astray, twice>>
    PROVE  IInv' /\ LoginsKept
<1>1. w \in PC
  BY DEF PC
<1>2. Fits(w, n, r, employees', admins', astray', twice')
  BY DEF Fits
<1>3. LoginsKept
  BY DEF LoginsKept
<1>4. NumbersArePlaces'
  BY DEF IInv, NumbersArePlaces, InOrder
<1>5. /\ IsFile(employees', Employee) /\ IsFile(admins', Admin)
      /\ DOMAIN employees \subseteq DOMAIN employees'
      /\ DOMAIN admins \subseteq DOMAIN admins'
      /\ astray \subseteq astray' /\ astray' \subseteq Nat
      /\ twice \subseteq twice' /\ twice' \subseteq Nat
  BY DEF IInv, TypeOK
<1> QED BY <1>1, <1>2, <1>3, <1>4, <1>5, Step

\* And for one that keeps place and record.
LEMMA QuietMove ==
    ASSUME IInv, NEW p \in Processes,
           NEW w \in {"menu", "login", "details", "seen", "lookup"},
           pc' = [pc EXCEPT ![p] = w],
           reading' \in [Processes -> SUBSET Locks],
           writing' \in [Processes -> SUBSET Locks],
           einval' \subseteq Admins, dead' \subseteq Processes,
           calls' \in [Processes -> Nat], left' \subseteq Processes,
           UNCHANGED <<employees, admins, astray, twice, place, record>>
    PROVE  IInv' /\ LoginsKept
<1> DEFINE n == place[p]
           r == record[p]
<1>1. n \in Nat /\ r \in Employee
  BY DEF IInv, TypeOK
<1>2. place' = [place EXCEPT ![p] = n] /\ record' = [record EXCEPT ![p] = r]
  BY DEF IInv, TypeOK
<1>3. UNCHANGED <<employees, admins, astray, twice>>
  OBVIOUS
<1> HIDE DEF n, r
<1> QED BY <1>1, <1>2, <1>3, QuietStep

\* And for the return to the menu.
LEMMA ReturnStep ==
    ASSUME IInv, NEW p \in Processes, pc' = [pc EXCEPT ![p] = "menu"], Forget(p),
           reading' \in [Processes -> SUBSET Locks],
           writing' \in [Processes -> SUBSET Locks],
           einval' \subseteq Admins, dead' \subseteq Processes,
           calls' \in [Processes -> Nat], left' \subseteq Processes,
           UNCHANGED <<employees, admins, astray, twice>>
    PROVE  IInv' /\ LoginsKept
<1>1. /\ "menu" \in {"menu", "login", "details", "seen", "lookup"}
      /\ 0 \in Nat /\ Zeros \in Employee
  BY ConstantsAssumption
<1> QED BY <1>1, QuietStep DEF Forget

\* Where p is, its variables fit.
LEMMA Facts ==
    ASSUME IInv, NEW p \in Processes
    PROVE  /\ Fits(pc[p], place[p], record[p], employees, admins, astray, twice)
           /\ record[p] \in Employee /\ place[p] \in Nat
           /\ DOMAIN employees \subseteq Nat /\ DOMAIN admins \subseteq Nat
           /\ Last(employees) \in DOMAIN employees /\ Last(admins) \in DOMAIN admins
           /\ \A i \in DOMAIN employees : employees[i] \in Employee
           /\ \A i \in DOMAIN admins : admins[i] \in Admin /\ admins[i].id = i
           /\ reading \in [Processes -> SUBSET Locks]
           /\ writing \in [Processes -> SUBSET Locks]
           /\ einval \subseteq Admins /\ dead \subseteq Processes /\ left \subseteq Processes
           /\ calls \in [Processes -> Nat] /\ astray \subseteq Nat /\ twice \subseteq Nat
BY LastPlace DEF IInv, TypeOK, RecordsFit, NumbersArePlaces, InOrder

\* Ranges of a record are locks.
LEMMA Ranges ==
    ASSUME NEW n \in Nat
    PROVE  Whole(n) \subseteq Locks /\ Beginning(n) \subseteq Locks
BY DEF Whole, Beginning, Locks

\* Taking and giving back leave the locks well typed.
LEMMA LockTypes ==
    ASSUME IInv, NEW p \in Processes, NEW range \in SUBSET Locks,
           TakeRead(p, range) \/ ReadAndUnlock(p, range) \/ Close(p)
    PROVE  reading' \in [Processes -> SUBSET Locks] /\ writing' \in [Processes -> SUBSET Locks]
BY Facts DEF TakeRead, ReadAndUnlock, Close

\* Entering a service counts a call.
LEMMA EnterType ==
    ASSUME IInv, NEW p \in Processes, Enter(p)
    PROVE  calls' \in [Processes -> Nat]
BY DEF IInv, TypeOK, Enter

\* An employee's record is written at n, for an addition or a modification.
LEMMA Written ==
    ASSUME IInv, NEW n \in Nat, NEW value \in Employee,
           employees' = Put(employees, n, value), UNCHANGED <<admins, astray>>,
           n \in DOMAIN employees =>
                n \in astray \cup twice' \/ value.login = employees[n].login,
           astray = {} =>
                /\ value.id = n /\ value.login[2] = n
                /\ n \in DOMAIN employees \/ n - 1 \in DOMAIN employees
    PROVE  /\ IsFile(employees', Employee)
           /\ DOMAIN employees \subseteq DOMAIN employees'
           /\ LoginsKept
           /\ NumbersArePlaces'
<1> DEFINE new == Put(employees, n, value)
<1>1. /\ IsFile(new, Employee)
      /\ DOMAIN employees \subseteq DOMAIN new
      /\ n \in DOMAIN new
      /\ new[n] = value
      /\ \A i \in DOMAIN employees : i # n => new[i] = employees[i]
      /\ n \in DOMAIN employees \/ n - 1 \in DOMAIN employees =>
           \A i \in DOMAIN new : i # n => i \in DOMAIN employees
  BY PutType DEF IInv, TypeOK
<1>2. employees' = new
  OBVIOUS
<1> HIDE DEF new
<1>3. LoginsKept
  BY <1>1, <1>2 DEF LoginsKept
<1>4. ASSUME astray = {} PROVE InOrder(new)
  BY <1>1, <1>4 DEF InOrder, IInv, NumbersArePlaces
<1>5. NumbersArePlaces'
  BY <1>2, <1>4 DEF IInv, NumbersArePlaces, InOrder
<1> QED BY <1>1, <1>2, <1>3, <1>5

-----------------------------------------------------------------------------
(* One lemma per action, or for several that have one reason.              *)

LEMMA LoginAskStep ==
    ASSUME IInv, NEW p \in Processes, LoginAsk(p) PROVE IInv' /\ LoginsKept
<1>1. PICK n \in LoginNumbers : place' = [place EXCEPT ![p] = n]
  BY DEF LoginAsk
<1> DEFINE r == record[p]
<1>2. n \in Nat /\ r \in Employee /\ record' = [record EXCEPT ![p] = r]
  BY ConstantsAssumption DEF LoginAsk, IInv, TypeOK
<1>3. /\ pc' = [pc EXCEPT ![p] = "login"] /\ calls' \in [Processes -> Nat]
      /\ UNCHANGED <<employees, admins, astray, twice, reading, writing, einval, dead, left>>
  BY EnterType DEF LoginAsk, Goto, files, locks, history
<1> HIDE DEF r
<1>4. /\ reading' \in [Processes -> SUBSET Locks] /\ writing' \in [Processes -> SUBSET Locks]
      /\ einval' \subseteq Admins /\ dead' \subseteq Processes /\ left' \subseteq Processes
  BY <1>3, Facts
<1>5. "login" \in {"menu", "login", "details", "seen", "lookup"}
  OBVIOUS
<1> QED BY <1>1, <1>2, <1>3, <1>4, <1>5, QuietStep

\* Returns that write nothing.
LEMMA Returns ==
    ASSUME IInv, NEW p \in Processes,
           \/ LoginRead(p) \/ Details(p) \/ AddGivesUp(p) \/ WriteFails(p)
           \/ Deadlock(p) \/ Die(p)
    PROVE  IInv' /\ LoginsKept
<1>1. /\ pc' = [pc EXCEPT ![p] = "menu"] /\ Forget(p)
      /\ UNCHANGED <<employees, admins, astray, twice>>
      /\ einval' \subseteq Admins /\ dead' \subseteq Processes /\ left' \subseteq Processes
  BY Facts DEF LoginRead, Details, AddGivesUp, WriteFails, Deadlock, Die, Goto, files, history
<1>2. calls' \in [Processes -> Nat]
  BY Facts DEF LoginRead, Details, AddGivesUp, WriteFails, Deadlock, Die
<1>3. reading' \in [Processes -> SUBSET Locks] /\ writing' \in [Processes -> SUBSET Locks]
  <2>1. CASE Close(p)
    <3>1. {} \in SUBSET Locks
      OBVIOUS
    <3> QED BY <2>1, <3>1, LockTypes
  <2>2. CASE ReadAndUnlock(p, Beginning(place[p]))
    BY <2>2, Facts, Ranges, LockTypes
  <2>3. CASE UNCHANGED <<reading, writing>>
    BY <2>3, Facts
  <2> QED BY <2>1, <2>2, <2>3 DEF LoginRead, Details, AddGivesUp, WriteFails, Deadlock, Die, locks
<1> QED BY <1>1, <1>2, <1>3, ReturnStep

LEMMA ListAllStep ==
    ASSUME IInv, NEW p \in Processes, ListAll(p) PROVE IInv' /\ LoginsKept
<1>1. /\ pc' = [pc EXCEPT ![p] = "menu"] /\ calls' \in [Processes -> Nat]
      /\ UNCHANGED <<employees, admins, astray, twice, record, place, einval, dead, left>>
  BY EnterType DEF ListAll, Goto, files, history
<1>2. reading' \in [Processes -> SUBSET Locks] /\ writing' \in [Processes -> SUBSET Locks]
  <2>1. {} \in SUBSET Locks
    OBVIOUS
  <2> QED BY <2>1, LockTypes DEF ListAll
<1>3. /\ "menu" \in {"menu", "login", "details", "seen", "lookup"}
      /\ einval' \subseteq Admins /\ dead' \subseteq Processes /\ left' \subseteq Processes
  BY <1>1, Facts
<1> QED BY <1>1, <1>2, <1>3, QuietMove

\* get_employee_details is asked for a number, by the menu or by modify_employee.
LEMMA AskStep ==
    ASSUME IInv, NEW p \in Admins, NEW n \in Numbers, NEW to \in {"details", "seen"},
           Ask(p, n, to), einval' = einval \/ einval' = einval \cup {p}
    PROVE  IInv' /\ LoginsKept
<1>1. p \in Processes
  BY DEF Processes
<1>2. /\ calls' \in [Processes -> Nat]
      /\ UNCHANGED <<employees, admins, astray, twice, reading, writing, record, dead, left>>
  BY <1>1, EnterType DEF Ask, files, locks, history
<1>3. /\ reading' \in [Processes -> SUBSET Locks] /\ writing' \in [Processes -> SUBSET Locks]
      /\ einval' \subseteq Admins /\ dead' \subseteq Processes /\ left' \subseteq Processes
  BY <1>1, <1>2, Facts
<1>4. CASE n < 0 \/ p \in einval
  <2>1. pc' = [pc EXCEPT ![p] = "menu"] /\ UNCHANGED place
    BY <1>4 DEF Ask, Goto
  <2>2. "menu" \in {"menu", "login", "details", "seen", "lookup"}
    OBVIOUS
  <2> QED BY <1>1, <1>2, <1>3, <2>1, <2>2, QuietMove
<1>5. CASE ~(n < 0 \/ p \in einval)
  <2> DEFINE r == record[p]
  <2>1. pc' = [pc EXCEPT ![p] = to] /\ place' = [place EXCEPT ![p] = n]
    BY <1>5 DEF Ask, Goto
  <2>2. n \in Nat
    BY <1>5, ConstantsAssumption
  <2>3. r \in Employee /\ record' = [record EXCEPT ![p] = r]
    BY <1>1, <1>2 DEF IInv, TypeOK
  <2>4. to \in {"menu", "login", "details", "seen", "lookup"}
    OBVIOUS
  <2> HIDE DEF r
  <2> QED BY <1>1, <1>2, <1>3, <2>1, <2>2, <2>3, <2>4, QuietStep
<1> QED BY <1>4, <1>5

LEMMA GetDetailsStep ==
    ASSUME IInv, NEW p \in Admins, GetDetails(p) PROVE IInv' /\ LoginsKept
BY AskStep DEF GetDetails

LEMMA ModifyStep ==
    ASSUME IInv, NEW p \in Admins, Modify(p) PROVE IInv' /\ LoginsKept
<1>1. CASE \E n \in Numbers \ {-1} :
            /\ Ask(p, n, "seen")
            /\ einval' = IF n < 0 THEN einval \cup {p} ELSE einval
  BY <1>1, AskStep
<1>2. CASE (\E n \in Numbers : Ask(p, n, "details")) /\ einval' = einval \cup {p}
  BY <1>2, AskStep
<1> QED BY <1>1, <1>2 DEF Modify

LEMMA SeeDetailsStep ==
    ASSUME IInv, NEW p \in Processes, SeeDetails(p) PROVE IInv' /\ LoginsKept
<1>1. /\ pc' = [pc EXCEPT ![p] = "lookup"]
      /\ UNCHANGED <<employees, admins, astray, twice, record, place, einval, dead, calls, left>>
  BY DEF SeeDetails, Goto, files, history
<1>2. reading' \in [Processes -> SUBSET Locks] /\ writing' \in [Processes -> SUBSET Locks]
  BY Facts, Ranges, LockTypes DEF SeeDetails
<1>3. /\ "lookup" \in {"menu", "login", "details", "seen", "lookup"}
      /\ einval' \subseteq Admins /\ dead' \subseteq Processes /\ left' \subseteq Processes
      /\ calls' \in [Processes -> Nat]
  BY <1>1, Facts
<1> QED BY <1>1, <1>2, <1>3, QuietMove

LEMMA SeekLastStep ==
    ASSUME IInv, NEW p \in Processes, SeekLast(p) PROVE IInv' /\ LoginsKept
<1> DEFINE n == Last(employees)
           r == record[p]
<1>1. /\ pc' = [pc EXCEPT ![p] = "last"] /\ calls' \in [Processes -> Nat]
      /\ place' = [place EXCEPT ![p] = n]
      /\ UNCHANGED <<employees, admins, astray, twice, reading, writing, einval, dead, left>>
  BY EnterType DEF SeekLast, Goto, files, locks, history
<1>2. n \in Nat /\ n \in DOMAIN employees
  BY Facts
<1>3. r \in Employee /\ record' = [record EXCEPT ![p] = r]
  BY DEF SeekLast, IInv, TypeOK
<1> HIDE DEF n, r
<1>4. Fits("last", n, r, employees', admins', astray', twice')
  BY <1>1, <1>2 DEF Fits
<1>5. LoginsKept /\ NumbersArePlaces'
  BY <1>1 DEF LoginsKept, IInv, NumbersArePlaces, InOrder
<1>6. /\ "last" \in PC
      /\ reading' \in [Processes -> SUBSET Locks] /\ writing' \in [Processes -> SUBSET Locks]
      /\ einval' \subseteq Admins /\ dead' \subseteq Processes /\ left' \subseteq Processes
      /\ IsFile(employees', Employee) /\ IsFile(admins', Admin)
      /\ DOMAIN employees \subseteq DOMAIN employees' /\ DOMAIN admins \subseteq DOMAIN admins'
      /\ astray \subseteq astray' /\ astray' \subseteq Nat
      /\ twice \subseteq twice' /\ twice' \subseteq Nat
  BY <1>1 DEF PC, IInv, TypeOK
<1> QED BY <1>1, <1>2, <1>3, <1>4, <1>5, <1>6, Step

\* A step to a place with something in hand that writes no file.
LEMMA HoldingStep ==
    ASSUME IInv, NEW p \in Processes, NEW w \in PC, NEW n \in Nat, NEW r \in Employee,
           pc' = [pc EXCEPT ![p] = w],
           place' = [place EXCEPT ![p] = n],
           record' = [record EXCEPT ![p] = r],
           reading' \in [Processes -> SUBSET Locks],
           writing' \in [Processes -> SUBSET Locks],
           calls' \in [Processes -> Nat],
           astray' = astray \/ astray' = astray \cup {n},
           UNCHANGED <<employees, admins, twice, einval, dead, left>>,
           Fits(w, n, r, employees, admins, astray', twice)
    PROVE  IInv' /\ LoginsKept
<1>1. LoginsKept
  BY DEF LoginsKept
<1>2. NumbersArePlaces'
  BY DEF IInv, NumbersArePlaces, InOrder
<1>3. /\ IsFile(employees', Employee) /\ IsFile(admins', Admin)
      /\ DOMAIN employees \subseteq DOMAIN employees' /\ DOMAIN admins \subseteq DOMAIN admins'
      /\ astray \subseteq astray' /\ astray' \subseteq Nat
      /\ twice \subseteq twice' /\ twice' \subseteq Nat
      /\ einval' \subseteq Admins /\ dead' \subseteq Processes /\ left' \subseteq Processes
  BY DEF IInv, TypeOK
<1>4. Fits(w, n, r, employees', admins', astray', twice')
  OBVIOUS
<1> QED BY <1>1, <1>2, <1>3, <1>4, Step

LEMMA ReadLastStep ==
    ASSUME IInv, NEW p \in Processes, ReadLast(p) PROVE IInv' /\ LoginsKept
<1> DEFINE n == place[p]
           r == [employees[n] EXCEPT !.id = @ + 1]
<1>1. /\ pc' = [pc EXCEPT ![p] = "name"] /\ pc[p] = "last"
      /\ record' = [record EXCEPT ![p] = r]
      /\ UNCHANGED <<employees, admins, astray, twice, place, einval, dead, calls, left>>
  BY DEF ReadLast, Goto, files, history
<1>2. /\ n \in Nat /\ n \in DOMAIN employees /\ employees[n] \in Employee
      /\ astray = {} => employees[n].id = n
  BY <1>1, Facts DEF Fits, IInv, NumbersArePlaces, InOrder
<1>3. r \in Employee /\ (astray = {} => r.id = n + 1)
  BY <1>2 DEF Employee
<1>4. reading' \in [Processes -> SUBSET Locks] /\ writing' \in [Processes -> SUBSET Locks]
  BY <1>2, Ranges, LockTypes DEF ReadLast
<1>5. place' = [place EXCEPT ![p] = n] /\ calls' \in [Processes -> Nat]
  BY <1>1 DEF IInv, TypeOK
<1> HIDE DEF n, r
<1>6. Fits("name", n, r, employees, admins, astray', twice)
  BY <1>1, <1>2, <1>3 DEF Fits
<1>7. "name" \in PC
  BY DEF PC
<1>8. UNCHANGED <<employees, admins, twice, einval, dead, left>> /\ astray' = astray
  BY <1>1
<1> QED BY <1>1, <1>2, <1>3, <1>4, <1>5, <1>6, <1>7, <1>8, HoldingStep

LEMMA AddNameStep ==
    ASSUME IInv, NEW p \in Processes, AddName(p) PROVE IInv' /\ LoginsKept
<1>1. PICK name \in Names : record' = [record EXCEPT ![p] = [@ EXCEPT !.name = name]]
  BY DEF AddName
<1> DEFINE n == place[p]
           r == [record[p] EXCEPT !.name = name]
<1>2. /\ pc' = [pc EXCEPT ![p] = "manager"] /\ pc[p] = "name"
      /\ record' = [record EXCEPT ![p] = r]
      /\ UNCHANGED <<employees, admins, reading, writing, astray, twice, place, einval, dead,
                     calls, left>>
  BY <1>1 DEF AddName, Goto, files, locks, history
<1>3. /\ n \in Nat /\ n \in DOMAIN employees /\ record[p] \in Employee
      /\ astray = {} => record[p].id = n + 1
  BY <1>2, Facts DEF Fits
<1>4. r \in Employee /\ (astray = {} => r.id = n + 1)
  BY <1>3 DEF Employee
<1>5. /\ place' = [place EXCEPT ![p] = n] /\ calls' \in [Processes -> Nat]
      /\ reading' \in [Processes -> SUBSET Locks] /\ writing' \in [Processes -> SUBSET Locks]
  BY <1>2 DEF IInv, TypeOK
<1> HIDE DEF n, r
<1>6. Fits("manager", n, r, employees, admins, astray', twice)
  BY <1>2, <1>3, <1>4 DEF Fits
<1>7. "manager" \in PC
  BY DEF PC
<1>8. UNCHANGED <<employees, admins, twice, einval, dead, left>> /\ astray' = astray
  BY <1>2
<1> QED BY <1>2, <1>3, <1>4, <1>5, <1>6, <1>7, <1>8, HoldingStep

LEMMA AddEmployeeStep ==
    ASSUME IInv, NEW p \in Processes, AddEmployee(p) PROVE IInv' /\ LoginsKept
<1>1. PICK manager \in IsManager :
        employees' = Put(employees, place[p] + 1,
                         [id |-> record[p].id, name |-> record[p].name, manager |-> manager,
                          login |-> <<record[p].name, record[p].id>>])
  BY DEF AddEmployee
<1> DEFINE n == place[p] + 1
           value == [id |-> record[p].id, name |-> record[p].name, manager |-> manager,
                     login |-> <<record[p].name, record[p].id>>]
<1>2. /\ pc' = [pc EXCEPT ![p] = "menu"] /\ pc[p] = "manager"
      /\ employees' = Put(employees, n, value)
      /\ twice' = IF n \in DOMAIN employees THEN twice \cup {n} ELSE twice
      /\ Close(p) /\ Forget(p)
      /\ UNCHANGED <<admins, einval, dead, calls, astray, left>>
  BY <1>1 DEF AddEmployee, Goto
<1>3. /\ place[p] \in Nat /\ place[p] \in DOMAIN employees /\ record[p] \in Employee
      /\ astray = {} => record[p].id = place[p] + 1
  BY <1>2, Facts DEF Fits
<1>4. /\ n \in Nat /\ n - 1 \in DOMAIN employees /\ value \in Employee
      /\ astray = {} => value.id = n /\ value.login[2] = n
  BY <1>3, ConstantsAssumption DEF Employee
<1> HIDE DEF n, value
<1>5. /\ IsFile(employees', Employee)
      /\ DOMAIN employees \subseteq DOMAIN employees'
      /\ LoginsKept
      /\ NumbersArePlaces'
  BY <1>2, <1>4, Written
<1>6. reading' \in [Processes -> SUBSET Locks] /\ writing' \in [Processes -> SUBSET Locks]
  <2>1. {} \in SUBSET Locks
    OBVIOUS
  <2> QED BY <1>2, <2>1, LockTypes
<1>7. /\ IsFile(admins', Admin) /\ DOMAIN admins \subseteq DOMAIN admins'
      /\ astray \subseteq astray' /\ astray' \subseteq Nat
      /\ twice \subseteq twice' /\ twice' \subseteq Nat
      /\ einval' \subseteq Admins /\ dead' \subseteq Processes /\ left' \subseteq Processes
      /\ calls' \in [Processes -> Nat]
  BY <1>2, <1>4 DEF IInv, TypeOK
<1>8. /\ "menu" \in PC /\ 0 \in Nat /\ Zeros \in Employee
      /\ Fits("menu", 0, Zeros, employees', admins', astray', twice')
  BY ConstantsAssumption DEF PC, Fits
<1> QED BY <1>2, <1>5, <1>6, <1>7, <1>8, Step DEF Forget

LEMMA ReadLastAdminStep ==
    ASSUME IInv, NEW p \in Processes, ReadLastAdmin(p) PROVE IInv' /\ LoginsKept
<1> DEFINE n == Last(admins)
           r == [record[p] EXCEPT !.id = admins[n].id + 1]
<1>1. /\ pc' = [pc EXCEPT ![p] = "admin"] /\ calls' \in [Processes -> Nat]
      /\ record' = [record EXCEPT ![p] = r]
      /\ place' = [place EXCEPT ![p] = n]
      /\ UNCHANGED <<employees, admins, reading, writing, astray, twice, einval, dead, left>>
  BY EnterType DEF ReadLastAdmin, Goto, files, locks, history
<1>2. n \in Nat /\ n \in DOMAIN admins /\ admins[n].id = n /\ record[p] \in Employee
  BY Facts
<1>3. r \in Employee /\ r.id = n + 1
  BY <1>2 DEF Employee
<1> HIDE DEF n, r
<1>4. Fits("admin", n, r, employees, admins, astray', twice)
  BY <1>2, <1>3 DEF Fits
<1>5. /\ "admin" \in PC
      /\ reading' \in [Processes -> SUBSET Locks] /\ writing' \in [Processes -> SUBSET Locks]
  BY <1>1, Facts DEF PC
<1>6. UNCHANGED <<employees, admins, twice, einval, dead, left>> /\ astray' = astray
  BY <1>1
<1> QED BY <1>1, <1>2, <1>3, <1>4, <1>5, <1>6, HoldingStep

LEMMA AddAdminStep ==
    ASSUME IInv, NEW p \in Processes, AddAdmin(p) PROVE IInv' /\ LoginsKept
<1> DEFINE n == place[p]
<1>1. /\ pc' = [pc EXCEPT ![p] = "menu"] /\ pc[p] = "admin" /\ Forget(p)
      /\ UNCHANGED <<employees, reading, writing, astray, twice, dead, calls, left>>
      /\ einval' \subseteq Admins
  BY Facts DEF AddAdmin, Goto, locks, history
<1>2. /\ n \in Nat /\ n \in DOMAIN admins /\ record[p].id = n + 1
      /\ \A i \in DOMAIN admins : admins[i] \in Admin
  BY <1>1, Facts DEF Fits
<1>3. CASE UNCHANGED admins
  BY <1>1, <1>3, Facts, ReturnStep
<1>4. ASSUME NEW name \in Names,
             admins' = [i \in DOMAIN admins \cup {n + 1} |->
                            IF i = n + 1
                            THEN [id |-> record[p].id, login |-> <<name, record[p].id>>]
                            ELSE admins[i]]
      PROVE  IInv' /\ LoginsKept
  <2>1. PICK m \in Nat : DOMAIN admins = 0..m
    BY DEF IInv, TypeOK, IsFile
  <2>2. PICK k \in Nat : DOMAIN admins' = 0..k
    <3>1. CASE n = m
      <4>1. DOMAIN admins' = 0..(m + 1)
        BY <1>2, <1>4, <2>1, <3>1
      <4> QED BY <4>1
    <3>2. CASE n # m
      <4>1. DOMAIN admins' = 0..m
        BY <1>2, <1>4, <2>1, <3>2
      <4> QED BY <4>1
    <3> QED BY <3>1, <3>2
  <2>3. \A i \in DOMAIN admins' : admins'[i] \in Admin
    BY <1>2, <1>4 DEF Admin
  <2>4. IsFile(admins', Admin)
    <3>1. admins' = [i \in DOMAIN admins' |-> admins'[i]]
      BY <1>4
    <3> QED BY <2>2, <2>3, <3>1, FileIntro
  <2>5. InOrder(admins')
    BY <1>2, <1>4 DEF InOrder, IInv, NumbersArePlaces
  <2>6. NumbersArePlaces'
    BY <1>1, <2>5 DEF IInv, NumbersArePlaces, InOrder
  <2>7. LoginsKept
    BY <1>1 DEF LoginsKept
  <2>8. /\ IsFile(employees', Employee)
        /\ DOMAIN employees \subseteq DOMAIN employees'
        /\ DOMAIN admins \subseteq DOMAIN admins'
        /\ astray \subseteq astray' /\ astray' \subseteq Nat
        /\ twice \subseteq twice' /\ twice' \subseteq Nat
        /\ einval' \subseteq Admins /\ dead' \subseteq Processes /\ left' \subseteq Processes
        /\ calls' \in [Processes -> Nat]
        /\ reading' \in [Processes -> SUBSET Locks] /\ writing' \in [Processes -> SUBSET Locks]
    BY <1>1, <1>4 DEF IInv, TypeOK
  <2>9. /\ "menu" \in PC /\ 0 \in Nat /\ Zeros \in Employee
        /\ Fits("menu", 0, Zeros, employees', admins', astray', twice')
    BY ConstantsAssumption DEF PC, Fits
  <2> QED BY <1>1, <2>4, <2>6, <2>7, <2>8, <2>9, Step DEF Forget
<1> QED BY <1>3, <1>4 DEF AddAdmin

LEMMA LookUpStep ==
    ASSUME IInv, NEW p \in Processes, LookUp(p) PROVE IInv' /\ LoginsKept
<1>1. PICK r \in Read(place[p]) : record' = [record EXCEPT ![p] = r]
  BY DEF LookUp
<1> DEFINE n == place[p]
<1>2. /\ pc' = [pc EXCEPT ![p] = "change"]
      /\ astray' = IF n \in DOMAIN employees THEN astray ELSE astray \cup {n}
      /\ UNCHANGED <<employees, admins, twice, place, einval, dead, calls, left>>
  BY DEF LookUp, Goto, files
<1>3. /\ n \in Nat
      /\ n \in DOMAIN employees => r = employees[n]
      /\ r \in Employee
  BY <1>1, Facts, ConstantsAssumption DEF Read
<1>4. reading' \in [Processes -> SUBSET Locks] /\ writing' \in [Processes -> SUBSET Locks]
  BY <1>3, Ranges, LockTypes DEF LookUp
<1>5. place' = [place EXCEPT ![p] = n] /\ calls' \in [Processes -> Nat]
  BY <1>2 DEF IInv, TypeOK
<1> HIDE DEF n
<1>6. Fits("change", n, r, employees, admins, astray', twice)
  BY <1>2, <1>3 DEF Fits, IInv, NumbersArePlaces, InOrder
<1>7. "change" \in PC
  BY DEF PC
<1>8. /\ UNCHANGED <<employees, admins, twice, einval, dead, left>>
      /\ astray' = astray \/ astray' = astray \cup {n}
  BY <1>2
<1> QED BY <1>1, <1>2, <1>3, <1>4, <1>5, <1>6, <1>7, <1>8, HoldingStep

LEMMA ChangeStep ==
    ASSUME IInv, NEW p \in Processes, Change(p) PROVE IInv' /\ LoginsKept
<1>1. /\ UNCHANGED <<employees, admins, reading, writing, astray, twice, einval, dead,
                     calls, left>>
      /\ reading' \in [Processes -> SUBSET Locks] /\ writing' \in [Processes -> SUBSET Locks]
      /\ calls' \in [Processes -> Nat]
      /\ einval' \subseteq Admins /\ dead' \subseteq Processes /\ left' \subseteq Processes
  BY Facts DEF Change, files, locks, history
<1>2. CASE Goto(p, "change", "menu") /\ Forget(p)
  BY <1>1, <1>2, ReturnStep DEF Goto
<1>3. ASSUME Goto(p, "change", "lock"), UNCHANGED place, NEW r \in Employee,
             r.id = record[p].id, r.login = record[p].login,
             record' = [record EXCEPT ![p] = r]
      PROVE  IInv' /\ LoginsKept
  <2> DEFINE n == place[p]
             s == record[p]
  <2>1. pc' = [pc EXCEPT ![p] = "lock"] /\ pc[p] = "change"
    BY <1>3 DEF Goto
  <2>2. n \in Nat /\ Fits("change", n, s, employees, admins, astray, twice)
    BY <2>1, Facts
  <2>3. place' = [place EXCEPT ![p] = n]
    BY <1>3 DEF IInv, TypeOK
  <2>4. r.id = s.id /\ r.login = s.login
    BY <1>3
  <2> HIDE DEF n, s
  <2>5. Fits("lock", n, r, employees, admins, astray', twice)
    BY <1>1, <2>2, <2>4 DEF Fits
  <2>6. "lock" \in PC
    BY DEF PC
  <2>7. UNCHANGED <<employees, admins, twice, einval, dead, left>> /\ astray' = astray
    BY <1>1
  <2> QED BY <1>1, <1>3, <2>1, <2>2, <2>3, <2>5, <2>6, <2>7, HoldingStep
<1>4. ASSUME Goto(p, "change", "lock"), UNCHANGED place, NEW name \in Names,
             record' = [record EXCEPT ![p] = [@ EXCEPT !.name = name]]
      PROVE  IInv' /\ LoginsKept
  <2> DEFINE r == [record[p] EXCEPT !.name = name]
  <2>1. r \in Employee /\ r.id = record[p].id /\ r.login = record[p].login
    BY Facts DEF Employee
  <2>2. record' = [record EXCEPT ![p] = r]
    BY <1>4
  <2> HIDE DEF r
  <2> QED BY <1>3, <1>4, <2>1, <2>2
<1>5. ASSUME Goto(p, "change", "lock"), UNCHANGED place, NEW manager \in IsManager,
             record' = [record EXCEPT ![p] = [@ EXCEPT !.manager = manager]]
      PROVE  IInv' /\ LoginsKept
  <2> DEFINE r == [record[p] EXCEPT !.manager = manager]
  <2>1. r \in Employee /\ r.id = record[p].id /\ r.login = record[p].login
    BY Facts, ConstantsAssumption DEF Employee
  <2>2. record' = [record EXCEPT ![p] = r]
    BY <1>5
  <2> HIDE DEF r
  <2> QED BY <1>3, <1>5, <2>1, <2>2
<1> QED BY <1>2, <1>4, <1>5 DEF Change

LEMMA LockStep ==
    ASSUME IInv, NEW p \in Processes, Lock(p) PROVE IInv' /\ LoginsKept
<1> DEFINE n == place[p]
           r == record[p]
<1>1. /\ pc' = [pc EXCEPT ![p] = "write"] /\ pc[p] = "lock"
      /\ UNCHANGED <<employees, admins, astray, twice, place, record, einval, dead, calls, left>>
  BY DEF Lock, Goto, files, history
<1>2. /\ n \in Nat /\ r \in Employee
      /\ Fits("lock", n, r, employees, admins, astray, twice)
  BY <1>1, Facts
<1>3. /\ place' = [place EXCEPT ![p] = n] /\ record' = [record EXCEPT ![p] = r]
      /\ calls' \in [Processes -> Nat]
  BY <1>1 DEF IInv, TypeOK
<1>4. reading' \in [Processes -> SUBSET Locks] /\ writing' \in [Processes -> SUBSET Locks]
  BY <1>2, Ranges, Facts DEF Lock
<1> HIDE DEF n, r
<1>5. Fits("write", n, r, employees, admins, astray', twice)
  BY <1>1, <1>2 DEF Fits
<1>6. "write" \in PC
  BY DEF PC
<1>7. UNCHANGED <<employees, admins, twice, einval, dead, left>> /\ astray' = astray
  BY <1>1
<1> QED BY <1>1, <1>2, <1>3, <1>4, <1>5, <1>6, <1>7, HoldingStep

LEMMA WriteStep ==
    ASSUME IInv, NEW p \in Processes, Write(p) PROVE IInv' /\ LoginsKept
<1> DEFINE n == place[p]
           r == record[p]
<1>1. /\ pc' = [pc EXCEPT ![p] = "menu"] /\ pc[p] = "write"
      /\ employees' = Put(employees, n, r)
      /\ Close(p) /\ Forget(p)
      /\ UNCHANGED <<admins, astray, twice, einval, dead, calls, left>>
  BY DEF Write, Goto, history
<1>2. /\ n \in Nat /\ r \in Employee
      /\ Fits("write", n, r, employees, admins, astray, twice)
  BY <1>1, Facts
<1> HIDE DEF n, r
<1>3. /\ n \in DOMAIN employees =>
            n \in astray \cup twice' \/ r.login = employees[n].login
      /\ astray = {} => r.id = n /\ r.login[2] = n /\ n \in DOMAIN employees
  BY <1>1, <1>2 DEF Fits
<1>4. /\ IsFile(employees', Employee)
      /\ DOMAIN employees \subseteq DOMAIN employees'
      /\ LoginsKept
      /\ NumbersArePlaces'
  BY <1>1, <1>2, <1>3, Written
<1>5. reading' \in [Processes -> SUBSET Locks] /\ writing' \in [Processes -> SUBSET Locks]
  <2>1. {} \in SUBSET Locks
    OBVIOUS
  <2> QED BY <1>1, <2>1, LockTypes
<1>6. /\ IsFile(admins', Admin) /\ DOMAIN admins \subseteq DOMAIN admins'
      /\ astray \subseteq astray' /\ astray' \subseteq Nat
      /\ twice \subseteq twice' /\ twice' \subseteq Nat
      /\ einval' \subseteq Admins /\ dead' \subseteq Processes /\ left' \subseteq Processes
      /\ calls' \in [Processes -> Nat]
  BY <1>1 DEF IInv, TypeOK
<1>7. /\ "menu" \in PC /\ 0 \in Nat /\ Zeros \in Employee
      /\ Fits("menu", 0, Zeros, employees', admins', astray', twice')
  BY ConstantsAssumption DEF PC, Fits
<1> QED BY <1>1, <1>4, <1>5, <1>6, <1>7, Step DEF Forget

\* A step that changes nothing.
LEMMA Stutter == ASSUME IInv, UNCHANGED vars PROVE IInv'
BY DEF vars, IInv, TypeOK, NumbersArePlaces, InOrder, RecordsFit, Fits

-----------------------------------------------------------------------------
\* Every step of every process keeps the invariant and the logins.
LEMMA NextStep == ASSUME IInv, Next PROVE IInv' /\ LoginsKept
<1>1. ASSUME NEW p \in Processes, ClientStep(p) PROVE IInv' /\ LoginsKept
  <2>1. CASE LoginAsk(p)
    BY <2>1, LoginAskStep
  <2>2. CASE p \in Admins /\ (GetDetails(p) \/ Modify(p))
    BY <2>2, GetDetailsStep, ModifyStep
  <2>3. CASE ListAll(p)
    BY <2>3, ListAllStep
  <2>4. CASE SeekLast(p)
    BY <2>4, SeekLastStep
  <2>5. CASE AddName(p)
    BY <2>5, AddNameStep
  <2>6. CASE AddEmployee(p)
    BY <2>6, AddEmployeeStep
  <2>7. CASE AddGivesUp(p)
    BY <2>7, Returns
  <2>8. CASE ReadLastAdmin(p)
    BY <2>8, ReadLastAdminStep
  <2>9. CASE AddAdmin(p)
    BY <2>9, AddAdminStep
  <2>10. CASE Change(p)
    BY <2>10, ChangeStep
  <2> QED BY <1>1, <2>1, <2>2, <2>3, <2>4, <2>5, <2>6, <2>7, <2>8, <2>9, <2>10 DEF ClientStep
<1>2. ASSUME NEW p \in Processes, ServerStep(p) PROVE IInv' /\ LoginsKept
  <2>1. CASE LoginRead(p) \/ Details(p) \/ WriteFails(p) \/ Deadlock(p)
    BY <2>1, Returns
  <2>2. CASE ReadLast(p)
    BY <2>2, ReadLastStep
  <2>3. CASE SeeDetails(p)
    BY <2>3, SeeDetailsStep
  <2>4. CASE LookUp(p)
    BY <2>4, LookUpStep
  <2>5. CASE Lock(p)
    BY <2>5, LockStep
  <2>6. CASE Write(p)
    BY <2>6, WriteStep
  <2> QED BY <1>2, <2>1, <2>2, <2>3, <2>4, <2>5, <2>6 DEF ServerStep
<1>3. ASSUME NEW p \in Processes, Die(p) PROVE IInv' /\ LoginsKept
  BY <1>3, Returns
<1> QED BY <1>1, <1>2, <1>3 DEF Next

\* The invariant is inductive.
THEOREM Invariance == Spec => []IInv
<1>1. Init => IInv
  BY InitIInv
<1>2. IInv /\ [Next]_vars => IInv'
  BY NextStep, Stutter
<1> QED BY <1>1, <1>2, PTL DEF Spec

\* Type correctness: both files stay files of whole records without gaps.
THEOREM TypeCorrect == Spec => []TypeOK
<1>1. IInv => TypeOK
  BY DEF IInv
<1> QED BY <1>1, Invariance, PTL

\* The record of employee n stays the n-th, and its login leads back to it, for any
\* administrators, dialogues, failures and kills, until a record that is not in the
\* file is modified.
THEOREM PlacesKept == Spec => []NumbersArePlaces
<1>1. IInv => NumbersArePlaces
  BY DEF IInv
<1> QED BY <1>1, Invariance, PTL

\* No step takes an employee's login away, but the second addition to one place and
\* a modification of what was not there.
THEOREM LoginsAreKept == Spec => LoginsLast
<1>1. IInv /\ [Next]_vars => [LoginsKept]_vars
  BY NextStep
<1>2. [LoginsKept]_vars =>
        [\A i \in DOMAIN employees \ (astray \cup twice') :
            i \in DOMAIN employees' /\ employees'[i].login = employees[i].login]_vars
  BY DEF LoginsKept
<1> QED BY <1>1, <1>2, Invariance, PTL DEF Spec, LoginsLast

=============================================================================
