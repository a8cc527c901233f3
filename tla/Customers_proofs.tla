-------------------------- MODULE Customers_proofs --------------------------
(***************************************************************************)
(* Whatever clerks and sessions do, the record of customer n stays the     *)
(* n-th of the file, which is how login and every service look for it, as  *)
(* long as nobody modifies a customer who is not there.                    *)
(***************************************************************************)
EXTENDS Customers, TLAPS

\* What a process has in hand goes to the place of its number: w is where the
\* process is, r its record and o the place, places are those of the file.
Fits(p, w, r, o, places, far) ==
    /\ w \in {"details", "change", "write", "relink"} => o \in Nat
    /\ far = {} =>
        /\ p \in Connections /\ w # "idle" => r.id \in places
        /\ w = "details" => o = r.id /\ o - 1 \in places
        /\ w \in {"change", "lock", "write", "relink"} => o = r.id /\ o \in places
        /\ w \in {"account", "append", "link"} => o = -1 \/ o \in places

RecordsFit ==
    \A p \in Processes :
        Fits(p, pc[p], record[p], offset[p], DOMAIN customers, astray)

\* The place of a new account is in the account file or just behind it.
AccountsFit ==
    \A p \in Clerks : pc[p] = "append" => newAccount[p].place - 1 \in DOMAIN accounts

\* The inductive invariant.
IInv == TypeOK /\ RecordsAtTheirNumber /\ RecordsFit /\ AccountsFit

LocksTyped ==
    /\ reading \in [Processes -> SUBSET Locks]
    /\ writing \in [Processes -> SUBSET Locks]

-----------------------------------------------------------------------------
\* A file has a last record, and its places are natural numbers.
LEMMA LastPlace ==
    ASSUME NEW Record, NEW file, IsFile(file, Record)
    PROVE  /\ DOMAIN file \subseteq Nat /\ 0 \in DOMAIN file
           /\ Last(file) \in DOMAIN file
           /\ \A i \in DOMAIN file : file[i] \in Record
<1>1. PICK n \in Nat : n \in DOMAIN file /\ file \in [0..n -> Record]
  BY DEF IsFile
<1>2. DOMAIN file = 0..n
  BY <1>1
<1>3. \A y \in DOMAIN file : n >= y
  BY <1>2
<1>4. Last(file) \in DOMAIN file
  BY <1>1, <1>3 DEF Last, Max
<1> QED BY <1>1, <1>2, <1>4

\* The last record is behind all others.
LEMMA LastIsLast ==
    ASSUME NEW Record, NEW file, IsFile(file, Record)
    PROVE  /\ Last(file) \in Nat /\ DOMAIN file = 0..Last(file)
           /\ Last(file) + 1 \notin DOMAIN file
<1>1. PICK n \in Nat : n \in DOMAIN file /\ file \in [0..n -> Record]
  BY DEF IsFile
<1>2. DOMAIN file = 0..n
  BY <1>1
<1>3. \A y \in DOMAIN file : n >= y
  BY <1>2
<1>4. Last(file) \in DOMAIN file /\ \A y \in DOMAIN file : Last(file) >= y
  BY <1>1, <1>3 DEF Last, Max
<1>5. Last(file) = n
  BY <1>1, <1>2, <1>4
<1> QED BY <1>2, <1>5

\* A function on an initial part of the natural numbers is a file.
LEMMA FileIntro ==
    ASSUME NEW Record, NEW file, NEW n \in Nat,
           DOMAIN file = 0..n, file = [i \in DOMAIN file |-> file[i]],
           \A i \in DOMAIN file : file[i] \in Record
    PROVE  IsFile(file, Record)
<1>1. file \in [0..n -> Record]
  OBVIOUS
<1> QED BY <1>1 DEF IsFile

\* A write anywhere leaves a file without gaps: what is skipped is filled with zeros.
LEMMA PutType ==
    ASSUME NEW file, IsFile(file, Customer), NEW n \in Nat, NEW value \in Customer
    PROVE  LET new == Put(file, n, value)
           IN  /\ IsFile(new, Customer)
               /\ DOMAIN file \subseteq DOMAIN new
               /\ n \in DOMAIN new
               /\ new[n] = value
               /\ \A i \in DOMAIN file : i # n => new[i] = file[i]
               /\ n \in DOMAIN file \/ n - 1 \in DOMAIN file =>
                    \A i \in DOMAIN new : i # n => i \in DOMAIN file
<1> DEFINE new == Put(file, n, value)
<1>1. PICK m \in Nat : m \in DOMAIN file /\ file \in [0..m -> Customer]
  BY DEF IsFile
<1>2. DOMAIN file = 0..m
  BY <1>1
<1>3. DOMAIN new = 0..m \cup 0..n
  BY <1>2 DEF Put
<1>4. \A i \in DOMAIN new :
        new[i] = IF i = n THEN value ELSE IF i \in DOMAIN file THEN file[i] ELSE Zeros
  BY DEF Put
<1>5. \A i \in DOMAIN new : new[i] \in Customer
  BY <1>1, <1>2, <1>4, ConstantsAssumption
<1>6. new = [i \in DOMAIN new |-> new[i]]
  BY DEF Put
<1> HIDE DEF new
<1>7. PICK k \in Nat : DOMAIN new = 0..k
  <2>1. CASE n <= m
    <3>1. DOMAIN new = 0..m
      BY <1>3, <2>1
    <3> QED BY <3>1
  <2>2. CASE m < n
    <3>1. DOMAIN new = 0..n
      BY <1>3, <2>2
    <3> QED BY <3>1
  <2> QED BY <2>1, <2>2
<1>8. IsFile(new, Customer)
  BY <1>5, <1>6, <1>7, FileIntro
<1>9. n \in DOMAIN file \/ n - 1 \in DOMAIN file =>
        \A i \in DOMAIN new : i # n => i \in DOMAIN file
  BY <1>2, <1>3
<1>10. n \in DOMAIN new /\ DOMAIN file \subseteq DOMAIN new
  BY <1>2, <1>3
<1>11. new[n] = value /\ \A i \in DOMAIN file : i # n => new[i] = file[i]
  BY <1>4, <1>10
<1> QED BY <1>8, <1>9, <1>10, <1>11 DEF new

\* The same for the append of an account.
LEMMA AppendType ==
    ASSUME NEW file, IsFile(file, Account), NEW n \in Nat, n - 1 \in DOMAIN file,
           NEW value \in Account
    PROVE  LET new == [i \in DOMAIN file \cup {n} |-> IF i = n THEN value ELSE file[i]]
           IN  IsFile(new, Account) /\ DOMAIN file \subseteq DOMAIN new
<1> DEFINE new == [i \in DOMAIN file \cup {n} |-> IF i = n THEN value ELSE file[i]]
<1>1. PICK m \in Nat : m \in DOMAIN file /\ file \in [0..m -> Account]
  BY DEF IsFile
<1>2. DOMAIN file = 0..m /\ n - 1 \in 0..m
  BY <1>1
<1>3. DOMAIN new = 0..m \cup {n}
  BY <1>2
<1>4. \A i \in DOMAIN new : new[i] \in Account
  BY <1>1, <1>2
<1>5. new = [i \in DOMAIN new |-> new[i]]
  OBVIOUS
<1> HIDE DEF new
<1>6. PICK k \in Nat : DOMAIN new = 0..k
  <2>1. CASE n <= m
    <3>1. DOMAIN new = 0..m
      BY <1>2, <1>3, <2>1
    <3> QED BY <3>1
  <2>2. CASE m < n
    <3>1. n = m + 1
      BY <1>2, <2>2
    <3>2. DOMAIN new = 0..(m + 1)
      BY <1>3, <3>1
    <3> QED BY <3>2
  <2> QED BY <2>1, <2>2
<1>7. IsFile(new, Account)
  BY <1>4, <1>5, <1>6, FileIntro
<1> QED BY <1>2, <1>3, <1>7 DEF new

\* What a lock covers is of the type of locks.
LEMMA RangeType == ASSUME NEW n \in Int PROVE Whole(n) \subseteq Locks
BY DEF Whole, Beginning, Locks

\* The initial states satisfy the invariant.
LEMMA InitIInv == Init => IInv
<1> SUFFICES ASSUME Init PROVE IInv
  OBVIOUS
<1> USE ConstantsAssumption DEF Init
<1>1. TypeOK
  BY DEF TypeOK, PC, NoAccount
<1>2. RecordsFit
  BY DEF RecordsFit, Fits
<1>3. AccountsFit
  BY DEF AccountsFit, Processes
<1> QED BY <1>1, <1>2, <1>3 DEF IInv, RecordsAtTheirNumber, InOrder

-----------------------------------------------------------------------------
\* What a step of p has to show.
LEMMA Step ==
    ASSUME IInv, NEW p \in Processes, NEW w \in PC, NEW r \in Customer, NEW o \in Int,
           pc' = [pc EXCEPT ![p] = w],
           record' = [record EXCEPT ![p] = r],
           offset' = [offset EXCEPT ![p] = o],
           LocksTyped',
           IsFile(customers', Customer), IsFile(accounts', Account),
           DOMAIN customers \subseteq DOMAIN customers',
           DOMAIN accounts \subseteq DOMAIN accounts',
           newAccount' \in [Clerks -> [place : Nat, number : Int]],
           \A q \in Clerks \ {p} : newAccount'[q] = newAccount[q],
           einval' \subseteq Clerks,
           dead' \subseteq Processes, calls' \in [Processes -> Nat],
           astray \subseteq astray', astray' \subseteq Int,
           Fits(p, w, r, o, DOMAIN customers', astray'),
           p \in Clerks /\ w = "append" => newAccount'[p].place - 1 \in DOMAIN accounts',
           RecordsAtTheirNumber'
    PROVE  IInv'
<1>1. TypeOK'
  BY DEF IInv, TypeOK, LocksTyped
<1>2. ASSUME NEW q \in Processes
      PROVE  Fits(q, pc'[q], record'[q], offset'[q], DOMAIN customers', astray')
  <2>1. CASE q = p
    <3>1. pc'[q] = w /\ record'[q] = r /\ offset'[q] = o
      BY <2>1 DEF IInv, TypeOK
    <3> QED BY <2>1, <3>1
  <2>2. CASE q # p
    <3>1. pc'[q] = pc[q] /\ record'[q] = record[q] /\ offset'[q] = offset[q]
      BY <2>2 DEF IInv, TypeOK
    <3>2. Fits(q, pc[q], record[q], offset[q], DOMAIN customers, astray)
      BY DEF IInv, RecordsFit
    <3>3. astray' = {} => astray = {}
      OBVIOUS
    <3> QED BY <3>1, <3>2, <3>3 DEF Fits
  <2> QED BY <2>1, <2>2
<1>3. ASSUME NEW q \in Clerks, pc'[q] = "append"
      PROVE  newAccount'[q].place - 1 \in DOMAIN accounts'
  <2>1. CASE q = p
    <3>1. w = "append"
      BY <1>3, <2>1 DEF IInv, TypeOK
    <3> QED BY <2>1, <3>1
  <2>2. CASE q # p
    <3>1. pc[q] = "append" /\ newAccount'[q] = newAccount[q]
      BY <1>3, <2>2 DEF IInv, TypeOK, Processes
    <3> QED BY <3>1 DEF IInv, AccountsFit
  <2> QED BY <2>1, <2>2
<1> QED BY <1>1, <1>2, <1>3 DEF IInv, RecordsFit, AccountsFit

\* The same for a step that writes neither file and keeps newAccount.
LEMMA LocalStep ==
    ASSUME IInv, NEW p \in Processes, NEW from, NEW w \in PC, Goto(p, from, w),
           w # "append",
           NEW r \in Customer, NEW o \in Int,
           record' = [record EXCEPT ![p] = r],
           offset' = [offset EXCEPT ![p] = o],
           Fits(p, w, r, o, DOMAIN customers, astray'),
           LocksTyped', einval' \subseteq Clerks,
           astray \subseteq astray', astray' \subseteq Int,
           dead' = dead, calls' = calls \/ Enter(p),
           UNCHANGED <<customers, accounts, newAccount>>
    PROVE  IInv'
<1>1. calls' \in [Processes -> Nat]
  BY DEF IInv, TypeOK, Enter
<1>2. RecordsAtTheirNumber'
  BY DEF IInv, RecordsAtTheirNumber, InOrder
<1>3. pc' = [pc EXCEPT ![p] = w]
  BY DEF Goto
<1>4. /\ IsFile(customers', Customer) /\ IsFile(accounts', Account)
      /\ DOMAIN customers \subseteq DOMAIN customers'
      /\ DOMAIN accounts \subseteq DOMAIN accounts'
      /\ newAccount' \in [Clerks -> [place : Nat, number : Int]]
      /\ \A q \in Clerks \ {p} : newAccount'[q] = newAccount[q]
      /\ dead' \subseteq Processes
      /\ Fits(p, w, r, o, DOMAIN customers', astray')
  BY DEF IInv, TypeOK
<1> QED BY <1>1, <1>2, <1>3, <1>4, Step

\* And for one that keeps record and offset as well.
LEMMA QuietStep ==
    ASSUME IInv, NEW p \in Processes, NEW from, NEW w \in PC, Goto(p, from, w),
           w # "append",
           Fits(p, w, record[p], offset[p], DOMAIN customers, astray),
           LocksTyped', einval' \subseteq Clerks,
           calls' = calls \/ Enter(p),
           UNCHANGED <<customers, accounts, record, offset, newAccount, dead, astray>>
    PROVE  IInv'
<1> DEFINE r == record[p]
           o == offset[p]
<1>1. r \in Customer /\ o \in Int
  BY DEF IInv, TypeOK
<1>2. record' = [record EXCEPT ![p] = r] /\ offset' = [offset EXCEPT ![p] = o]
  BY DEF IInv, TypeOK
<1>3. /\ dead' = dead /\ UNCHANGED <<customers, accounts, newAccount>>
      /\ astray \subseteq astray' /\ astray' \subseteq Int
  BY DEF IInv, TypeOK
<1>4. Fits(p, w, r, o, DOMAIN customers, astray')
  OBVIOUS
<1> HIDE DEF r, o
<1> QED BY <1>1, <1>2, <1>3, <1>4, LocalStep

\* A service returns: what it had in hand is gone.
LEMMA ReturnStep ==
    ASSUME IInv, NEW p \in Processes, NEW from, from # "idle", Return(p, from),
           LocksTyped', einval' \subseteq Clerks,
           IsFile(customers', Customer), DOMAIN customers \subseteq DOMAIN customers',
           RecordsAtTheirNumber',
           UNCHANGED <<accounts, dead, calls, astray>>
    PROVE  IInv'
<1> DEFINE w == IF p \in Clerks THEN "idle" ELSE "menu"
           r == IF p \in Clerks THEN Zeros ELSE record[p]
           o == 0
<1>1. w \in PC /\ w # "append" /\ o \in Int
  BY DEF PC
<1>2. r \in Customer
  BY ConstantsAssumption DEF IInv, TypeOK
<1>3. /\ pc' = [pc EXCEPT ![p] = w]
      /\ record' = [record EXCEPT ![p] = r]
      /\ offset' = [offset EXCEPT ![p] = o]
  BY DEF Return, Goto, IInv, TypeOK
<1>4. /\ newAccount' \in [Clerks -> [place : Nat, number : Int]]
      /\ \A q \in Clerks \ {p} : newAccount'[q] = newAccount[q]
  BY DEF Return, NoAccount, IInv, TypeOK
<1>5. /\ IsFile(accounts', Account) /\ DOMAIN accounts \subseteq DOMAIN accounts'
      /\ dead' \subseteq Processes /\ calls' \in [Processes -> Nat]
      /\ astray \subseteq astray' /\ astray' \subseteq Int
  BY DEF IInv, TypeOK
<1>6. Fits(p, w, r, o, DOMAIN customers', astray')
  <2>1. Fits(p, pc[p], record[p], offset[p], DOMAIN customers, astray)
    BY DEF IInv, RecordsFit
  <2>2. pc[p] # "idle"
    BY DEF Return, Goto
  <2>3. ASSUME astray' = {}, p \in Connections, w # "idle" PROVE r.id \in DOMAIN customers'
    BY <2>1, <2>2, <2>3 DEF Fits
  <2> QED BY <2>3 DEF Fits
<1> HIDE DEF w, r, o
<1> QED BY <1>1, <1>2, <1>3, <1>4, <1>5, <1>6, Step

\* Where p is, its variables fit.
LEMMA Facts ==
    ASSUME IInv, NEW p \in Processes
    PROVE  /\ Fits(p, pc[p], record[p], offset[p], DOMAIN customers, astray)
           /\ record[p] \in Customer /\ offset[p] \in Int
           /\ DOMAIN customers \subseteq Nat /\ 0 \in DOMAIN customers
           /\ Last(customers) \in DOMAIN customers
           /\ \A i \in DOMAIN customers : customers[i] \in Customer
           /\ astray = {} => \A i \in DOMAIN customers : customers[i].id = i
           /\ einval \subseteq Clerks /\ astray \subseteq Int
           /\ LocksTyped
BY LastPlace DEF IInv, TypeOK, RecordsFit, RecordsAtTheirNumber, InOrder, LocksTyped

\* A close leaves the locks well typed, and so does leaving them alone.
LEMMA CloseType ==
    ASSUME IInv, NEW p \in Processes, Close(p) \/ UNCHANGED <<reading, writing>>
    PROVE  LocksTyped'
BY DEF IInv, TypeOK, Close, LocksTyped

\* What a step that leaves customer_db alone keeps of it.
LEMMA FileKept ==
    ASSUME IInv, customers' = customers, astray \subseteq astray'
    PROVE  /\ IsFile(customers', Customer)
           /\ DOMAIN customers \subseteq DOMAIN customers'
           /\ RecordsAtTheirNumber'
BY DEF IInv, TypeOK, RecordsAtTheirNumber, InOrder

\* A record written, at the place of its number unless somebody went astray.
LEMMA CustomerWritten ==
    ASSUME IInv, NEW n \in Nat, NEW value \in Customer,
           astray = {} => /\ value.id = n
                          /\ n \in DOMAIN customers \/ n - 1 \in DOMAIN customers,
           customers' = Put(customers, n, value), astray' = astray
    PROVE  /\ IsFile(customers', Customer)
           /\ DOMAIN customers \subseteq DOMAIN customers'
           /\ n \in DOMAIN customers'
           /\ RecordsAtTheirNumber'
<1> DEFINE new == Put(customers, n, value)
<1>1. /\ IsFile(new, Customer)
      /\ DOMAIN customers \subseteq DOMAIN new
      /\ n \in DOMAIN new
      /\ new[n] = value
      /\ \A i \in DOMAIN customers : i # n => new[i] = customers[i]
      /\ n \in DOMAIN customers \/ n - 1 \in DOMAIN customers =>
            \A i \in DOMAIN new : i # n => i \in DOMAIN customers
  BY PutType DEF IInv, TypeOK
<1> HIDE DEF new
<1>2. astray = {} => \A i \in DOMAIN new : new[i].id = i
  BY <1>1 DEF IInv, RecordsAtTheirNumber, InOrder
<1>3. customers' = new
  BY DEF new
<1> QED BY <1>1, <1>2, <1>3 DEF RecordsAtTheirNumber, InOrder

-----------------------------------------------------------------------------
(* One lemma per action.                                                   *)

LEMMA LoginStep == ASSUME IInv, NEW p \in Connections, Login(p) PROVE IInv'
<1>1. p \in Processes
  BY DEF Processes
<1>2. PICK number \in DOMAIN customers :
        record' = [record EXCEPT ![p] = customers[number]]
  BY DEF Login
<1>3. customers[number] \in Customer /\ (astray = {} => customers[number].id = number)
  BY <1>1, Facts
<1>4. offset' = [offset EXCEPT ![p] = offset[p]] /\ offset[p] \in Int
  BY <1>1 DEF Login, IInv, TypeOK
<1>5. Fits(p, "password", customers[number], offset[p], DOMAIN customers, astray)
  BY <1>3 DEF Fits
<1>6. LocksTyped'
  BY <1>1, CloseType DEF Login
<1>7. einval' \subseteq Clerks /\ astray' = astray /\ astray \subseteq Int
  BY <1>1, Facts DEF Login
<1>8. /\ Goto(p, "idle", "password") /\ Enter(p) /\ dead' = dead
      /\ UNCHANGED <<customers, accounts, newAccount>>
      /\ "password" \in PC
  BY DEF Login, files, PC
<1> QED BY <1>1, <1>2, <1>3, <1>4, <1>5, <1>6, <1>7, <1>8, LocalStep

\* A session ends: what it had in hand is gone.
LEMMA EndStep ==
    ASSUME IInv, NEW p \in Processes, NEW from, End(p, from), LocksTyped',
           UNCHANGED <<customers, accounts, einval, dead, calls, astray>>
    PROVE  IInv'
<1> DEFINE o == offset[p]
<1>1. Fits(p, "idle", Zeros, o, DOMAIN customers, astray')
  BY DEF Fits
<1>2. offset' = [offset EXCEPT ![p] = o] /\ o \in Int
  BY DEF End, IInv, TypeOK
<1> HIDE DEF o
<1>3. /\ einval' \subseteq Clerks /\ astray \subseteq astray' /\ astray' \subseteq Int
      /\ UNCHANGED <<customers, accounts, newAccount>> /\ dead' = dead /\ calls' = calls
      /\ Zeros \in Customer /\ "idle" \in PC
      /\ record' = [record EXCEPT ![p] = Zeros] /\ Goto(p, from, "idle")
  BY Facts, ConstantsAssumption DEF End, PC
<1> QED BY <1>1, <1>2, <1>3, LocalStep

\* The steps of a session that only move it.
LEMMA SessionSteps ==
    ASSUME IInv, NEW p \in Connections,
           GivePassword(p) \/ Admit(p) \/ GiveOld(p) \/ Logout(p)
    PROVE  IInv'
<1>1. p \in Processes
  BY DEF Processes
<1>2. /\ UNCHANGED <<customers, accounts, einval, dead, calls, astray>>
      /\ UNCHANGED <<reading, writing>> \/ Close(p)
  BY DEF GivePassword, Admit, GiveOld, Logout, locks, files
<1>3. LocksTyped'
  BY <1>1, <1>2, CloseType
<1>4. CASE \E from \in {"password", "semaphore", "menu"} : End(p, from)
  BY <1>1, <1>2, <1>3, <1>4, EndStep
<1>5. CASE /\ \E from \in {"password", "semaphore", "menu"},
                 w \in {"semaphore", "menu", "new"} : Goto(p, from, w)
           /\ UNCHANGED <<record, offset, newAccount>>
  <2>1. PICK from \in {"password", "semaphore", "menu"},
             w \in {"semaphore", "menu", "new"} : Goto(p, from, w)
    BY <1>5
  <2>2. Fits(p, w, record[p], offset[p], DOMAIN customers, astray)
    BY <1>1, <2>1, Facts DEF Fits, Goto
  <2>3. w \in PC /\ w # "append" /\ einval' \subseteq Clerks
    BY <1>1, <1>2, <2>1, Facts DEF PC
  <2> QED BY <1>1, <1>2, <1>3, <1>5, <2>1, <2>2, <2>3, QuietStep
<1> QED BY <1>4, <1>5 DEF GivePassword, Admit, GiveOld, Logout, locals

\* A service that returns and leaves customer_db alone.
LEMMA ReturnQuietly ==
    ASSUME IInv, NEW p \in Processes, NEW from, from # "idle", Return(p, from),
           LocksTyped', einval' \subseteq Clerks,
           UNCHANGED <<customers, accounts, dead, calls, astray>>
    PROVE  IInv'
BY FileKept, ReturnStep

LEMMA GiveNewStep == ASSUME IInv, NEW p \in Connections, GiveNew(p) PROVE IInv'
<1>1. /\ p \in Processes /\ LocksTyped' /\ einval' \subseteq Clerks /\ astray \subseteq Int
      /\ record[p] \in Customer /\ offset[p] \in Int
  BY Facts, CloseType DEF Processes, GiveNew, locks
<1>2. ASSUME Goto(p, "new", "lock"), NEW password \in Passwords, newAccount' = newAccount,
             record' = [record EXCEPT ![p] = [@ EXCEPT !.password = password]],
             offset' = [offset EXCEPT ![p] = record[p].id]
      PROVE  IInv'
  <2> DEFINE r == [record[p] EXCEPT !.password = password]
             o == record[p].id
  <2>1. r \in Customer /\ r.id = o /\ o \in Int
    BY <1>1 DEF Customer
  <2>2. record' = [record EXCEPT ![p] = r] /\ offset' = [offset EXCEPT ![p] = o]
    BY <1>1, <1>2 DEF IInv, TypeOK
  <2>3. astray = {} => o \in DOMAIN customers
    BY <1>1, <1>2, Facts DEF Fits, Goto
  <2> HIDE DEF r, o
  <2>4. Fits(p, "lock", r, o, DOMAIN customers, astray)
    BY <2>1, <2>3 DEF Fits
  <2>5. /\ dead' = dead /\ calls' = calls /\ astray' = astray
        /\ UNCHANGED <<customers, accounts, newAccount>> /\ "lock" \in PC
        /\ Goto(p, "new", "lock")
    BY <1>2 DEF GiveNew, files, PC
  <2>6. Fits(p, "lock", r, o, DOMAIN customers, astray')
    BY <2>4, <2>5
  <2> QED BY <1>1, <2>1, <2>2, <2>5, <2>6, LocalStep
<1>3. CASE Return(p, "new")
  BY <1>1, <1>3, ReturnQuietly DEF GiveNew, files
<1> QED BY <1>2, <1>3 DEF GiveNew

LEMMA GetDetailsStep == ASSUME IInv, NEW p \in Processes, GetDetails(p) PROVE IInv'
<1>1. PICK number : Details(p, number)
  BY DEF GetDetails
<1>2. LocksTyped' /\ einval' \subseteq Clerks
  BY <1>1, Facts DEF Details, LocksTyped, locks
<1>3. PICK w \in {"idle", "menu"} : Goto(p, w, w)
  BY DEF GetDetails
<1>4. Fits(p, w, record[p], offset[p], DOMAIN customers, astray)
  BY <1>3, Facts DEF Goto
<1>5. /\ UNCHANGED <<customers, accounts, record, offset, newAccount, dead, astray>>
      /\ calls' = calls \/ Enter(p)
      /\ w \in PC /\ w # "append"
  BY DEF GetDetails, files, locals, PC
<1> QED BY <1>2, <1>3, <1>4, <1>5, QuietStep

LEMMA LockStep == ASSUME IInv, NEW p \in Processes, Lock(p) PROVE IInv'
<1>1. Goto(p, "lock", "write") /\ offset[p] \in Nat
  BY Facts DEF Lock
<1>2. Fits(p, "write", record[p], offset[p], DOMAIN customers, astray)
  BY <1>1, Facts DEF Fits, Goto
<1>3. LocksTyped' /\ einval' \subseteq Clerks
  <2>1. Whole(offset[p]) \subseteq Locks
    BY <1>1, RangeType
  <2> QED BY <2>1, Facts DEF Lock, LocksTyped
<1>4. /\ UNCHANGED <<customers, accounts, record, offset, newAccount, dead, calls, astray>>
      /\ "write" \in PC
  BY DEF Lock, files, locals, PC
<1> QED BY <1>1, <1>2, <1>3, <1>4, QuietStep

\* The two steps that write a record back to the place where it was read.
LEMMA WriteBack ==
    ASSUME IInv, NEW p \in Processes, NEW from \in {"write", "relink"}, Return(p, from),
           customers' = Put(customers, offset[p], record[p]), Close(p),
           UNCHANGED <<accounts, einval, dead, calls, astray>>
    PROVE  IInv'
<1>1. /\ record[p] \in Customer /\ offset[p] \in Nat
      /\ astray = {} => record[p].id = offset[p] /\ offset[p] \in DOMAIN customers
  BY Facts DEF Return, Goto, Fits
<1>2. /\ IsFile(customers', Customer)
      /\ DOMAIN customers \subseteq DOMAIN customers'
      /\ RecordsAtTheirNumber'
  BY <1>1, CustomerWritten
<1>3. LocksTyped' /\ einval' \subseteq Clerks
  BY CloseType, Facts
<1> QED BY <1>2, <1>3, ReturnStep

LEMMA WriteStep == ASSUME IInv, NEW p \in Processes, Write(p) PROVE IInv'
BY WriteBack DEF Write

LEMMA LinkOwnerStep == ASSUME IInv, NEW p \in Clerks, LinkOwner(p) PROVE IInv'
BY WriteBack DEF LinkOwner, Processes

\* The steps that return and have written nothing.
LEMMA FailingSteps ==
    ASSUME IInv, NEW p \in Processes,
           GiveUp(p) \/ WriteFails(p) \/ (p \in Clerks /\ (NoOwner(p) \/ AddFails(p)))
    PROVE  IInv'
<1>1. PICK from \in {"lock", "write", "account", "append", "link", "relink"} :
        Return(p, from)
  BY DEF GiveUp, WriteFails, NoOwner, AddFails
<1>2. /\ UNCHANGED <<customers, accounts, dead, calls, astray>>
      /\ UNCHANGED <<reading, writing>> \/ Close(p)
  BY DEF GiveUp, WriteFails, NoOwner, AddFails, files, locks
<1>3. einval' \subseteq Clerks
  BY Facts DEF GiveUp, WriteFails, NoOwner, AddFails
<1>4. LocksTyped'
  BY <1>2, CloseType
<1> QED BY <1>1, <1>2, <1>3, <1>4, ReturnQuietly

LEMMA ReadLastCustomerStep ==
    ASSUME IInv, NEW p \in Clerks, ReadLastCustomer(p) PROVE IInv'
<1> DEFINE last == Last(customers)
           r == [customers[last] EXCEPT !.id = @ + 1]
           o == last + 1
<1>1. p \in Processes /\ p \notin Connections
  BY ConstantsAssumption DEF Processes
<1>2. /\ last \in DOMAIN customers /\ last \in Nat
      /\ customers[last] \in Customer
      /\ astray = {} => customers[last].id = last
  BY <1>1, Facts
<1>3. r \in Customer /\ o \in Nat /\ o - 1 \in DOMAIN customers
  BY <1>2 DEF Customer
<1>4. astray = {} => o = r.id
  BY <1>2 DEF Customer
<1>5. record' = [record EXCEPT ![p] = r] /\ offset' = [offset EXCEPT ![p] = o]
  BY DEF ReadLastCustomer
<1>6. LocksTyped'
  <2>1. Whole(last) \subseteq Locks
    BY <1>2, RangeType
  <2> QED BY <1>1, <2>1, Facts DEF ReadLastCustomer, LocksTyped
<1> HIDE DEF last, r, o
<1>7. Fits(p, "details", r, o, DOMAIN customers, astray)
  BY <1>1, <1>3, <1>4 DEF Fits
<1>8. /\ UNCHANGED <<customers, accounts, newAccount>> /\ dead' = dead /\ Enter(p)
      /\ Goto(p, "idle", "details") /\ "details" \in PC
      /\ einval' \subseteq Clerks /\ astray' = astray /\ astray \subseteq Int /\ o \in Int
  BY <1>1, <1>3, Facts DEF ReadLastCustomer, files, PC
<1> QED BY <1>1, <1>3, <1>5, <1>6, <1>7, <1>8, LocalStep

LEMMA AddCustomerStep == ASSUME IInv, NEW p \in Clerks, AddCustomer(p) PROVE IInv'
<1> DEFINE o == record[p].id
<1>1. p \in Processes /\ p \notin Connections
  BY ConstantsAssumption DEF Processes
<1>2. /\ offset[p] \in Nat /\ record[p] \in Customer /\ o \in Int
      /\ astray = {} => o = offset[p] /\ offset[p] - 1 \in DOMAIN customers
  BY <1>1, Facts DEF AddCustomer, Goto, Fits, Customer
<1>3. PICK name \in Names, info \in Infos :
        customers' = Put(customers, offset[p],
                         [id |-> record[p].id, login |-> name, info |-> info,
                          account |-> Unlinked, password |-> FirstPassword])
  BY DEF AddCustomer
<1> DEFINE new == [id |-> record[p].id, login |-> name, info |-> info,
                   account |-> Unlinked, password |-> FirstPassword]
<1>4. new \in Customer /\ new.id = o /\ customers' = Put(customers, offset[p], new)
  BY <1>2, <1>3 DEF Customer, Unlinked
<1> HIDE DEF new, o
<1>5. astray' = astray /\ astray \subseteq Int /\ Zeros \in Customer /\ einval' \subseteq Clerks
  BY <1>1, Facts, ConstantsAssumption DEF AddCustomer
<1>6. /\ IsFile(customers', Customer)
      /\ DOMAIN customers \subseteq DOMAIN customers'
      /\ offset[p] \in DOMAIN customers'
      /\ RecordsAtTheirNumber'
  BY <1>2, <1>4, <1>5, CustomerWritten
<1>7. Fits(p, "account", Zeros, o, DOMAIN customers', astray')
  BY <1>1, <1>2, <1>5, <1>6 DEF Fits
<1>8. LocksTyped'
  BY <1>1, CloseType DEF AddCustomer
<1>9. /\ pc' = [pc EXCEPT ![p] = "account"] /\ "account" \in PC
      /\ record' = [record EXCEPT ![p] = Zeros]
      /\ offset' = [offset EXCEPT ![p] = o]
      /\ UNCHANGED <<accounts, newAccount, dead, calls>>
  BY DEF AddCustomer, Goto, PC, o
<1>10. /\ IsFile(accounts', Account) /\ DOMAIN accounts \subseteq DOMAIN accounts'
       /\ newAccount' \in [Clerks -> [place : Nat, number : Int]]
       /\ \A q \in Clerks \ {p} : newAccount'[q] = newAccount[q]
       /\ dead' \subseteq Processes /\ calls' \in [Processes -> Nat]
       /\ astray \subseteq astray' /\ astray' \subseteq Int
  BY <1>5, <1>9 DEF IInv, TypeOK
<1> QED BY <1>1, <1>2, <1>5, <1>6, <1>7, <1>8, <1>9, <1>10, Step

LEMMA WrongPhoneStep == ASSUME IInv, NEW p \in Clerks, WrongPhone(p) PROVE IInv'
<1>1. p \in Processes /\ p \notin Connections
  BY ConstantsAssumption DEF Processes
<1>2. Fits(p, "account", Zeros, 0, DOMAIN customers, astray)
  BY <1>1, Facts DEF Fits
<1>3. /\ record' = [record EXCEPT ![p] = Zeros] /\ Zeros \in Customer
      /\ offset' = [offset EXCEPT ![p] = 0]
      /\ UNCHANGED <<customers, accounts, newAccount>> /\ dead' = dead /\ calls' = calls
      /\ Goto(p, "details", "account") /\ "account" \in PC
      /\ astray' = astray /\ astray \subseteq Int /\ 0 \in Int
  BY <1>1, Facts, ConstantsAssumption DEF WrongPhone, files, PC
<1>4. LocksTyped'
  BY <1>1, CloseType DEF WrongPhone, locks
<1>5. einval' \subseteq Clerks
  <2>1. einval' = einval \/ einval' = einval \ {p}
    BY DEF WrongPhone
  <2> QED BY <1>1, <2>1, Facts
<1>6. Fits(p, "account", Zeros, 0, DOMAIN customers, astray')
  BY <1>2, <1>3
<1> QED BY <1>1, <1>3, <1>4, <1>5, <1>6, LocalStep

LEMMA NoCustomerStep == ASSUME IInv, NEW p \in Clerks, NoCustomer(p) PROVE IInv'
<1> DEFINE r == record[p]
<1>1. p \in Processes /\ p \notin Connections
  BY ConstantsAssumption DEF Processes
<1>2. Fits(p, "account", r, -1, DOMAIN customers, astray)
  BY <1>1 DEF Fits
<1>3. record' = [record EXCEPT ![p] = r] /\ r \in Customer
  BY <1>1, Facts DEF NoCustomer, IInv, TypeOK
<1> HIDE DEF r
<1>4. /\ offset' = [offset EXCEPT ![p] = -1] /\ -1 \in Int
      /\ UNCHANGED <<customers, accounts, newAccount>> /\ dead' = dead /\ Enter(p)
      /\ Goto(p, "idle", "account") /\ "account" \in PC
      /\ astray' = astray /\ astray \subseteq Int /\ einval' \subseteq Clerks
  BY <1>1, Facts DEF NoCustomer, files, PC
<1>5. LocksTyped'
  BY <1>1, CloseType DEF NoCustomer, locks
<1> QED BY <1>1, <1>2, <1>3, <1>4, <1>5, LocalStep

\* The two steps of add_account on the account file.
LEMMA AccountStep ==
    ASSUME IInv, NEW p \in Clerks, NEW from \in {"account", "append"},
           NEW w \in {"append", "link"}, Goto(p, from, w),
           IsFile(accounts', Account), DOMAIN accounts \subseteq DOMAIN accounts',
           newAccount' \in [Clerks -> [place : Nat, number : Int]],
           \A q \in Clerks \ {p} : newAccount'[q] = newAccount[q],
           w = "append" => newAccount'[p].place - 1 \in DOMAIN accounts',
           UNCHANGED <<customers, reading, writing, record, offset, einval, dead, calls,
                       astray>>
    PROVE  IInv'
<1> DEFINE r == record[p]
           o == offset[p]
<1>1. p \in Processes /\ p \notin Connections
  BY ConstantsAssumption DEF Processes
<1>2. Fits(p, w, r, o, DOMAIN customers', astray')
  BY <1>1, Facts DEF Fits, Goto
<1>3. /\ record' = [record EXCEPT ![p] = r] /\ r \in Customer
      /\ offset' = [offset EXCEPT ![p] = o] /\ o \in Int
  BY <1>1, Facts DEF IInv, TypeOK
<1> HIDE DEF r, o
<1>4. /\ IsFile(customers', Customer) /\ DOMAIN customers \subseteq DOMAIN customers'
      /\ RecordsAtTheirNumber' /\ LocksTyped'
  BY <1>1, FileKept, CloseType
<1>5. /\ einval' \subseteq Clerks /\ dead' \subseteq Processes /\ calls' \in [Processes -> Nat]
      /\ astray \subseteq astray' /\ astray' \subseteq Int
      /\ pc' = [pc EXCEPT ![p] = w] /\ w \in PC
  BY DEF IInv, TypeOK, Goto, PC
<1> QED BY <1>1, <1>2, <1>3, <1>4, <1>5, Step

LEMMA ReadLastAccountStep ==
    ASSUME IInv, NEW p \in Clerks, ReadLastAccount(p) PROVE IInv'
<1> DEFINE last == Last(accounts)
           a == [place |-> last + 1, number |-> accounts[last].number + 1]
<1>1. last \in DOMAIN accounts /\ last \in Nat /\ accounts[last] \in Account
  BY LastPlace DEF IInv, TypeOK
<1>2. newAccount' = [newAccount EXCEPT ![p] = a]
  BY DEF ReadLastAccount
<1> HIDE DEF last
<1>3. a \in [place : Nat, number : Int] /\ a.place - 1 \in DOMAIN accounts
  BY <1>1 DEF Account
<1> HIDE DEF a
<1>4. /\ Goto(p, "account", "append")
      /\ UNCHANGED <<customers, accounts, reading, writing, record, offset, einval, dead,
                     calls, astray>>
  BY DEF ReadLastAccount, files, locks
<1>5. /\ newAccount' \in [Clerks -> [place : Nat, number : Int]]
      /\ newAccount'[p].place - 1 \in DOMAIN accounts'
      /\ \A q \in Clerks \ {p} : newAccount'[q] = newAccount[q]
      /\ IsFile(accounts', Account) /\ DOMAIN accounts \subseteq DOMAIN accounts'
  BY <1>2, <1>3, <1>4 DEF IInv, TypeOK
<1> QED BY <1>4, <1>5, AccountStep

LEMMA AddAccountStep == ASSUME IInv, NEW p \in Clerks, AddAccount(p) PROVE IInv'
<1> DEFINE n == newAccount[p].place
           a == [number |-> newAccount[p].number, custid |-> offset[p]]
<1>1. /\ n \in Nat /\ n - 1 \in DOMAIN accounts
      /\ newAccount[p].number \in Int /\ offset[p] \in Int
  BY DEF AddAccount, Goto, IInv, TypeOK, AccountsFit, Processes
<1>2. a \in Account
  BY <1>1 DEF Account
<1>3. accounts' = [i \in DOMAIN accounts \cup {n} |-> IF i = n THEN a ELSE accounts[i]]
  BY DEF AddAccount
<1> HIDE DEF a, n
<1>4. IsFile(accounts', Account) /\ DOMAIN accounts \subseteq DOMAIN accounts'
  <2> DEFINE new == [i \in DOMAIN accounts \cup {n} |-> IF i = n THEN a ELSE accounts[i]]
  <2>1. IsFile(accounts, Account)
    BY DEF IInv, TypeOK
  <2>2. IsFile(new, Account) /\ DOMAIN accounts \subseteq DOMAIN new
    BY <1>1, <1>2, <2>1, AppendType
  <2>3. accounts' = new
    BY <1>3
  <2> QED BY <2>2, <2>3
<1>5. /\ Goto(p, "append", "link") /\ newAccount' = newAccount
      /\ UNCHANGED <<customers, reading, writing, record, offset, einval, dead, calls,
                     astray>>
  BY DEF AddAccount, locks, locals
<1>6. newAccount' \in [Clerks -> [place : Nat, number : Int]]
  BY <1>5 DEF IInv, TypeOK
<1> QED BY <1>4, <1>5, <1>6, AccountStep

\* A read of customer_db returns a customer.
LEMMA ReadType ==
    ASSUME IInv, NEW n \in Int, NEW r \in Read(n)
    PROVE  r \in Customer /\ (n \in DOMAIN customers => r = customers[n])
BY LastPlace, ConstantsAssumption DEF Read, IInv, TypeOK

LEMMA ReadOwnerStep == ASSUME IInv, NEW p \in Clerks, ReadOwner(p) PROVE IInv'
<1> DEFINE o == offset[p]
<1>1. p \in Processes /\ p \notin Connections
  BY ConstantsAssumption DEF Processes
<1>2. /\ o \in Nat /\ (astray = {} => o \in DOMAIN customers)
      /\ newAccount[p].number \in Int
  BY <1>1, Facts DEF ReadOwner, Goto, Fits, IInv, TypeOK
<1>3. PICK c \in Read(o) :
        record' = [record EXCEPT ![p] = [c EXCEPT !.account = newAccount[p].number]]
  BY DEF ReadOwner
<1> DEFINE r == [c EXCEPT !.account = newAccount[p].number]
<1>4. c \in Customer /\ (o \in DOMAIN customers => c = customers[o])
  BY <1>2, <1>3, ReadType
<1>5. r \in Customer /\ r.id = c.id
  BY <1>2, <1>4 DEF Customer
<1>6. /\ record' = [record EXCEPT ![p] = r]
      /\ offset' = [offset EXCEPT ![p] = o]
  BY <1>3 DEF ReadOwner, IInv, TypeOK
<1>7. astray = {} => o = r.id
  BY <1>1, <1>2, <1>4, <1>5, Facts
<1> HIDE DEF r, o
<1>8. Fits(p, "relink", r, o, DOMAIN customers, astray)
  BY <1>1, <1>2, <1>7 DEF Fits
<1>9. LocksTyped'
  BY <1>1, CloseType DEF ReadOwner, locks
<1>10. /\ UNCHANGED <<customers, accounts, newAccount>> /\ dead' = dead /\ calls' = calls
       /\ Goto(p, "link", "relink") /\ "relink" \in PC
       /\ einval' \subseteq Clerks /\ astray' = astray /\ astray \subseteq Int /\ o \in Int
  BY <1>1, <1>2, Facts DEF ReadOwner, files, PC
<1> QED BY <1>1, <1>5, <1>6, <1>8, <1>9, <1>10, LocalStep

LEMMA RefuseStep == ASSUME IInv, NEW p \in Clerks, Refuse(p) PROVE IInv'
<1>1. p \in Processes
  BY DEF Processes
<1>2. /\ UNCHANGED <<customers, accounts, record, offset, newAccount, dead, astray>>
      /\ Goto(p, "idle", "idle") /\ Enter(p) /\ "idle" \in PC
      /\ einval' \subseteq Clerks
  BY <1>1, Facts DEF Refuse, files, locals, PC
<1>3. Fits(p, "idle", record[p], offset[p], DOMAIN customers, astray)
  BY <1>1, <1>2, Facts DEF Goto
<1>4. LocksTyped'
  BY <1>1, CloseType DEF Refuse, locks
<1> QED BY <1>1, <1>2, <1>3, <1>4, QuietStep

LEMMA ReadCustomerStep == ASSUME IInv, NEW p \in Clerks, ReadCustomer(p) PROVE IInv'
<1>1. p \in Processes /\ p \notin Connections
  BY ConstantsAssumption DEF Processes
<1>2. PICK number \in Numbers \cap Nat :
        /\ \E c \in Read(number) : record' = [record EXCEPT ![p] = c]
        /\ offset' = [offset EXCEPT ![p] = number]
        /\ astray' = astray \cup ({number} \ DOMAIN customers)
  BY DEF ReadCustomer
<1>3. PICK r \in Read(number) : record' = [record EXCEPT ![p] = r]
  BY <1>2
<1>4. r \in Customer /\ (number \in DOMAIN customers => r = customers[number])
  BY <1>2, <1>3, ReadType
<1>5. Fits(p, "change", r, number, DOMAIN customers, astray')
  <2>1. ASSUME astray' = {} PROVE number \in DOMAIN customers /\ r.id = number
    BY <1>1, <1>2, <1>4, <2>1, Facts
  <2> QED BY <1>1, <1>2, <2>1 DEF Fits
<1>6. LocksTyped'
  BY <1>1, CloseType DEF ReadCustomer
<1>7. /\ UNCHANGED <<customers, accounts, newAccount>> /\ dead' = dead /\ Enter(p)
      /\ Goto(p, "idle", "change") /\ "change" \in PC
      /\ einval' \subseteq Clerks /\ astray \subseteq astray' /\ astray' \subseteq Int
      /\ number \in Int
  BY <1>1, <1>2, Facts DEF ReadCustomer, files, PC
<1> QED BY <1>1, <1>2, <1>3, <1>4, <1>5, <1>6, <1>7, LocalStep

LEMMA GiveInfoStep == ASSUME IInv, NEW p \in Clerks, GiveInfo(p) PROVE IInv'
<1>1. /\ p \in Processes /\ p \notin Connections
      /\ LocksTyped' /\ einval' \subseteq Clerks /\ astray \subseteq Int
      /\ record[p] \in Customer /\ offset[p] \in Int
  BY Facts, CloseType, ConstantsAssumption DEF Processes, GiveInfo, locks
<1>2. ASSUME Goto(p, "change", "lock"), NEW info \in Infos,
             record' = [record EXCEPT ![p] = [@ EXCEPT !.info = info]],
             UNCHANGED <<offset, newAccount>>
      PROVE  IInv'
  <2> DEFINE r == [record[p] EXCEPT !.info = info]
             o == offset[p]
  <2>1. r \in Customer /\ r.id = record[p].id /\ o \in Int
    BY <1>1 DEF Customer
  <2>2. record' = [record EXCEPT ![p] = r] /\ offset' = [offset EXCEPT ![p] = o]
    BY <1>1, <1>2 DEF IInv, TypeOK
  <2>3. astray = {} => o = r.id /\ o \in DOMAIN customers
    BY <1>1, <1>2, <2>1, Facts DEF Fits, Goto
  <2> HIDE DEF r, o
  <2>4. Fits(p, "lock", r, o, DOMAIN customers, astray)
    BY <1>1, <2>3 DEF Fits
  <2>5. /\ dead' = dead /\ calls' = calls /\ astray' = astray
        /\ UNCHANGED <<customers, accounts, newAccount>> /\ "lock" \in PC
        /\ Goto(p, "change", "lock")
    BY <1>2 DEF GiveInfo, files, PC
  <2>6. Fits(p, "lock", r, o, DOMAIN customers, astray')
    BY <2>4, <2>5
  <2> QED BY <1>1, <2>1, <2>2, <2>5, <2>6, LocalStep
<1>3. CASE Return(p, "change")
  BY <1>1, <1>3, ReturnQuietly DEF GiveInfo, files
<1> QED BY <1>2, <1>3 DEF GiveInfo

LEMMA DieStep == ASSUME IInv, NEW p \in Processes, Die(p) PROVE IInv'
<1>1. LocksTyped'
  BY CloseType DEF Die
<1>2. dead' \subseteq Processes
  BY DEF Die, IInv, TypeOK
<1>3. UNCHANGED <<customers, accounts, pc, record, offset, newAccount, einval, calls, astray>>
  BY DEF Die, files, locals
<1> QED BY <1>1, <1>2, <1>3
    DEF IInv, TypeOK, LocksTyped, RecordsAtTheirNumber, InOrder, RecordsFit, AccountsFit

\* A step that changes nothing.
LEMMA Stutter == ASSUME IInv, UNCHANGED vars PROVE IInv'
BY DEF vars, IInv, TypeOK, RecordsAtTheirNumber, InOrder, RecordsFit, AccountsFit

-----------------------------------------------------------------------------
\* The invariant is inductive: every step of every process keeps it.
THEOREM Invariance == Spec => []IInv
<1>1. Init => IInv
  BY InitIInv
<1>2. IInv /\ [Next]_vars => IInv'
  <2> SUFFICES ASSUME IInv, [Next]_vars PROVE IInv'
    OBVIOUS
  <2>1. CASE UNCHANGED vars
    BY <2>1, Stutter
  <2>2. ASSUME NEW p \in Processes, ClientStep(p) PROVE IInv'
    <3>1. CASE p \in Connections /\ (Login(p) \/ GivePassword(p) \/ GiveOld(p) \/ Logout(p))
      BY <3>1, LoginStep, SessionSteps
    <3>2. CASE p \in Connections /\ GiveNew(p)
      BY <3>2, GiveNewStep
    <3>3. CASE GetDetails(p)
      BY <3>3, GetDetailsStep
    <3>4. CASE p \in Clerks /\ (ReadLastCustomer(p) \/ AddCustomer(p) \/ WrongPhone(p))
      BY <3>4, ReadLastCustomerStep, AddCustomerStep, WrongPhoneStep
    <3>5. CASE p \in Clerks /\ (NoCustomer(p) \/ ReadLastAccount(p))
      BY <3>5, NoCustomerStep, ReadLastAccountStep
    <3>6. CASE p \in Clerks /\ (Refuse(p) \/ ReadCustomer(p) \/ GiveInfo(p))
      BY <3>6, RefuseStep, ReadCustomerStep, GiveInfoStep
    <3> QED BY <2>2, <3>1, <3>2, <3>3, <3>4, <3>5, <3>6 DEF ClientStep
  <2>3. ASSUME NEW p \in Processes, ServerStep(p) PROVE IInv'
    <3>1. CASE p \in Connections /\ Admit(p)
      BY <3>1, SessionSteps
    <3>2. CASE Lock(p) \/ Write(p)
      BY <3>2, LockStep, WriteStep
    <3>3. CASE WriteFails(p) \/ (p \in Clerks /\ NoOwner(p))
      BY <3>3, FailingSteps
    <3>4. CASE p \in Clerks /\ (AddAccount(p) \/ ReadOwner(p) \/ LinkOwner(p))
      BY <3>4, AddAccountStep, ReadOwnerStep, LinkOwnerStep
    <3> QED BY <2>3, <3>1, <3>2, <3>3, <3>4 DEF ServerStep
  <2>4. ASSUME NEW p \in Processes, GiveUp(p) \/ (p \in Clerks /\ AddFails(p)) PROVE IInv'
    BY <2>4, FailingSteps
  <2> QED BY <2>1, <2>2, <2>3, <2>4, DieStep DEF Next
<1> QED BY <1>1, <1>2, PTL DEF Spec

\* Type correctness: both files stay files of whole records without gaps, whatever
\* numbers the clerks type.
THEOREM TypeCorrect == Spec => []TypeOK
<1>1. IInv => TypeOK
  BY DEF IInv
<1> QED BY <1>1, Invariance, PTL

\* The record of customer n stays the n-th, although the number of a new customer
\* is computed a dialogue before the record is written.
THEOREM NumbersArePlaces == Spec => []RecordsAtTheirNumber
<1>1. IInv => RecordsAtTheirNumber
  BY DEF IInv
<1> QED BY <1>1, Invariance, PTL
-----------------------------------------------------------------------------
(***************************************************************************)
(* What a step of one process does to what it has in hand and to the       *)
(* files, for the properties below.                                        *)
(***************************************************************************)

Acts(p) ==
    \/ ClientStep(p) \/ ServerStep(p)
    \/ GiveUp(p) \/ (p \in Clerks /\ AddFails(p))
    \/ Die(p)

\* The other processes stay where they are, with what they have.
Others(p) ==
    /\ \A q \in Processes \ {p} :
            /\ pc'[q] = pc[q] /\ record'[q] = record[q] /\ offset'[q] = offset[q]
            /\ q \in dead' <=> q \in dead
    /\ \A q \in Clerks \ {p} : newAccount'[q] = newAccount[q]

\* The only steps that write customer_db.
FileStep(p) ==
    \/ customers' = customers
    \/ /\ \/ pc[p] = "write" /\ Write(p)
          \/ p \in Clerks /\ pc[p] = "relink" /\ LinkOwner(p)
       /\ pc'[p] \in {"idle", "menu"}
       /\ customers' = Put(customers, offset[p], record[p])
    \/ /\ p \in Clerks /\ pc[p] = "details" /\ pc'[p] = "account"
       /\ \E name \in Names, info \in Infos :
            customers' = Put(customers, offset[p],
                             [id |-> record[p].id, login |-> name, info |-> info,
                              account |-> Unlinked, password |-> FirstPassword])

\* A session opens with the record of a login, or goes on with its customer, or ends.
SessionDoes(p) ==
    LET r == record[p]
        r1 == record'[p]
    IN  \/ pc'[p] = "idle"
        \/ /\ pc[p] = "idle" /\ pc'[p] = "password"
           /\ \E number \in LoginNumbers \cap DOMAIN customers : r1 = customers[number]
        \/ /\ pc[p] # "idle" /\ pc'[p] # "idle" /\ r1.id = r.id /\ r1.account = r.account
           /\ pc'[p] \in {"lock", "write"} =>
                \/ offset'[p] = r1.id
                \/ pc[p] \in {"lock", "write"} /\ offset'[p] = offset[p]

\* A clerk reads a record to modify it or to link an account to it, goes on with
\* it, adds a customer or an account, or has nothing in hand.
ClerkDoes(p) ==
    LET o == offset[p]
        o1 == offset'[p]
        r == record[p]
        r1 == record'[p]
        w == pc[p]
        w1 == pc'[p]
    IN  \/ w1 = "idle"
        \/ w = "idle" /\ w1 = "details" /\ o1 = Last(customers) + 1
        \/ w = "details" /\ w1 = "account" /\ o1 \in {0, r.id}
        \/ w = "idle" /\ w1 = "account" /\ o1 = -1
        \/ /\ w = "account" /\ w1 = "append" /\ o1 = o /\ accounts' = accounts
           /\ newAccount'[p] = [place |-> Last(accounts) + 1,
                                number |-> accounts[Last(accounts)].number + 1]
        \/ w = "append" /\ w1 = "link" /\ o1 = o /\ AddAccount(p)
        \/ /\ w = "link" /\ w1 = "relink" /\ o1 = o /\ o >= 0
           /\ \E c \in Read(o) : /\ r1.id = c.id /\ r1.password = c.password
                                 /\ r1.account = newAccount[p].number
        \/ /\ w = "idle" /\ w1 = "change" /\ o1 \in Numbers \cap Nat /\ r1 \in Read(o1)
           /\ o1 \notin DOMAIN customers => astray' # {}
        \/ /\ (w = "change" /\ w1 = "lock") \/ (w = "lock" /\ w1 = "write") \/ w1 = w
           /\ o1 = o /\ r1.id = r.id /\ r1.password = r.password
           /\ r1.account = r.account /\ accounts' = accounts
           /\ newAccount'[p] = newAccount[p]

LEMMA StepOthers ==
    ASSUME IInv, NEW p \in Processes, Acts(p)
    PROVE  Others(p)
<1> USE DEF Others, IInv, TypeOK, Goto, Return, End, files, locks, locals
<1>1. CASE ClientStep(p)
  BY <1>1 DEF ClientStep, GetDetails, Login, GivePassword, GiveOld, GiveNew, Logout,
     ReadLastCustomer, AddCustomer, WrongPhone, NoCustomer, ReadLastAccount, Refuse,
     ReadCustomer, GiveInfo
<1>2. CASE ServerStep(p)
  BY <1>2 DEF ServerStep, Admit, Lock, Write, WriteFails, AddAccount, ReadOwner, LinkOwner,
     NoOwner
<1>3. CASE GiveUp(p) \/ (p \in Clerks /\ AddFails(p)) \/ Die(p)
  BY <1>3 DEF GiveUp, AddFails, Die
<1> QED BY <1>1, <1>2, <1>3 DEF Acts

LEMMA StepWrites ==
    ASSUME IInv, NEW p \in Processes, Acts(p)
    PROVE  /\ FileStep(p) /\ astray \subseteq astray'
           /\ \/ accounts' = accounts
              \/ p \in Clerks /\ pc[p] = "append" /\ pc'[p] = "link" /\ AddAccount(p)
           /\ p \in Connections => accounts' = accounts /\ astray' = astray
<1> USE DEF files
<1>1. Connections \cap Clerks = {}
  BY ConstantsAssumption
<1>2. CASE Write(p)
  <2>1. /\ pc'[p] \in {"idle", "menu"} /\ pc[p] = "write"
        /\ customers' = Put(customers, offset[p], record[p])
        /\ accounts' = accounts /\ astray' = astray
    BY <1>2 DEF Write, Return, Goto, IInv, TypeOK
  <2> QED BY <1>2, <2>1 DEF FileStep
<1>3. CASE p \in Clerks /\ LinkOwner(p)
  <2>1. pc'[p] \in {"idle", "menu"} /\ pc[p] = "relink"
    BY <1>3 DEF LinkOwner, Return, Goto, IInv, TypeOK
  <2> QED BY <1>1, <1>3, <2>1 DEF FileStep, LinkOwner
<1>4. CASE p \in Clerks /\ AddCustomer(p)
  BY <1>1, <1>4 DEF FileStep, AddCustomer, Goto, IInv, TypeOK
<1>5. CASE p \in Connections /\ ClientStep(p)
  BY <1>1, <1>5 DEF FileStep, ClientStep, GetDetails, Login, GivePassword, GiveOld, GiveNew,
     Logout
<1>6. CASE /\ p \in Clerks
           /\ \/ GetDetails(p) \/ ReadLastCustomer(p) \/ WrongPhone(p) \/ NoCustomer(p)
              \/ ReadLastAccount(p) \/ Refuse(p) \/ ReadCustomer(p) \/ GiveInfo(p)
  BY <1>1, <1>6 DEF FileStep, GetDetails, ReadLastCustomer, WrongPhone, NoCustomer,
     ReadLastAccount, Refuse, ReadCustomer, GiveInfo
<1>7. CASE (p \in Connections /\ Admit(p)) \/ Lock(p) \/ WriteFails(p)
  BY <1>1, <1>7 DEF FileStep, Admit, Lock, WriteFails
<1>8. CASE p \in Clerks /\ (ReadOwner(p) \/ NoOwner(p) \/ AddFails(p))
  BY <1>1, <1>8 DEF FileStep, ReadOwner, NoOwner, AddFails
<1>9. CASE GiveUp(p) \/ Die(p)
  BY <1>9 DEF FileStep, GiveUp, Die
<1>10. CASE p \in Clerks /\ AddAccount(p)
  <2>1. customers' = customers /\ astray' = astray /\ pc[p] = "append" /\ pc'[p] = "link"
    BY <1>10 DEF AddAccount, Goto, IInv, TypeOK
  <2> QED BY <1>1, <1>10, <2>1 DEF FileStep
<1> QED
  BY <1>1, <1>2, <1>3, <1>4, <1>5, <1>6, <1>7, <1>8, <1>9, <1>10
  DEF Acts, ClientStep, ServerStep, Processes

LEMMA SessionStep ==
    ASSUME IInv, NEW p \in Connections, Acts(p)
    PROVE  SessionDoes(p)
<1>1. p \in Processes /\ p \notin Clerks /\ record[p] \in Customer
  BY ConstantsAssumption DEF Processes, IInv, TypeOK
<1> USE DEF SessionDoes, IInv, TypeOK, Goto, locals
<1>2. CASE Login(p)
  BY <1>1, <1>2 DEF Login
<1>3. CASE GiveNew(p)
  <2>1. ASSUME Goto(p, "new", "lock"), NEW password \in Passwords,
               record' = [record EXCEPT ![p] = [@ EXCEPT !.password = password]],
               offset' = [offset EXCEPT ![p] = record[p].id]
        PROVE  SessionDoes(p)
    <3> DEFINE r == [record[p] EXCEPT !.password = password]
    <3>1. r.id = record[p].id /\ r.account = record[p].account
      BY <1>1 DEF Customer
    <3>2. record'[p] = r /\ offset'[p] = record[p].id
      BY <1>1, <2>1
    <3> HIDE DEF r
    <3> QED BY <1>1, <2>1, <3>1, <3>2
  <2>2. CASE Return(p, "new")
    BY <1>1, <2>2 DEF Return
  <2> QED BY <1>3, <2>1, <2>2 DEF GiveNew
<1>4. CASE GetDetails(p) \/ GiveOld(p) \/ GivePassword(p) \/ Admit(p) \/ Logout(p)
  BY <1>1, <1>4 DEF GetDetails, GiveOld, GivePassword, Admit, Logout, End
<1>5. CASE Lock(p) \/ Write(p) \/ WriteFails(p) \/ GiveUp(p)
  BY <1>1, <1>5 DEF Lock, Write, WriteFails, GiveUp, Return
<1>6. CASE Die(p)
  BY <1>1, <1>6 DEF Die
<1> QED
  BY <1>1, <1>2, <1>3, <1>4, <1>5, <1>6 DEF Acts, ClientStep, ServerStep

LEMMA ClerkStep ==
    ASSUME IInv, NEW p \in Clerks, Acts(p)
    PROVE  ClerkDoes(p)
<1>1. p \in Processes /\ p \notin Connections /\ record[p] \in Customer
  BY ConstantsAssumption DEF Processes, IInv, TypeOK
<1> USE DEF IInv, TypeOK, Goto, locals, files
<1>2. CASE GiveInfo(p)
  <2>1. ASSUME Goto(p, "change", "lock"), NEW info \in Infos,
               record' = [record EXCEPT ![p] = [@ EXCEPT !.info = info]],
               UNCHANGED <<offset, newAccount>>, accounts' = accounts
        PROVE  ClerkDoes(p)
    <3> DEFINE r == [record[p] EXCEPT !.info = info]
    <3>1. /\ r.id = record[p].id /\ r.account = record[p].account
          /\ r.password = record[p].password
      BY <1>1 DEF Customer
    <3>2. record'[p] = r
      BY <1>1, <2>1
    <3> HIDE DEF r
    <3> QED BY <1>1, <2>1, <3>1, <3>2 DEF ClerkDoes
  <2>2. CASE Return(p, "change")
    BY <1>1, <2>2 DEF Return, ClerkDoes
  <2> QED BY <1>2, <2>1, <2>2 DEF GiveInfo
<1>3. CASE ReadLastCustomer(p) \/ NoCustomer(p)
  BY <1>1, <1>3 DEF ReadLastCustomer, NoCustomer, ClerkDoes
<1>4. CASE AddCustomer(p) \/ WrongPhone(p)
  BY <1>1, <1>4 DEF AddCustomer, WrongPhone, ClerkDoes
<1>5. CASE ReadLastAccount(p)
  BY <1>1, <1>5 DEF ReadLastAccount, ClerkDoes
<1>6. CASE AddAccount(p)
  BY <1>1, <1>6 DEF AddAccount, ClerkDoes
<1>7. CASE ReadOwner(p)
  <2>1. PICK c \in Read(offset[p]) :
            record' = [record EXCEPT ![p] = [c EXCEPT !.account = newAccount[p].number]]
    BY <1>7 DEF ReadOwner
  <2>2. c \in Customer
    BY <1>1, <2>1, ReadType
  <2> DEFINE r == [c EXCEPT !.account = newAccount[p].number]
  <2>3. r.id = c.id /\ r.password = c.password /\ r.account = newAccount[p].number
    BY <2>2 DEF Customer
  <2>4. record'[p] = r
    BY <1>1, <2>1
  <2> HIDE DEF r
  <2>5. /\ pc[p] = "link" /\ pc'[p] = "relink" /\ offset'[p] = offset[p] /\ offset[p] >= 0
    BY <1>1, <1>7 DEF ReadOwner
  <2> QED BY <2>1, <2>3, <2>4, <2>5 DEF ClerkDoes
<1>8. CASE ReadCustomer(p)
  <2>1. PICK number \in Numbers \cap Nat :
            /\ \E c \in Read(number) : record' = [record EXCEPT ![p] = c]
            /\ offset' = [offset EXCEPT ![p] = number]
            /\ astray' = astray \cup ({number} \ DOMAIN customers)
    BY <1>8 DEF ReadCustomer
  <2>2. /\ record'[p] \in Read(number) /\ offset'[p] = number
        /\ number \notin DOMAIN customers => astray' # {}
    BY <1>1, <2>1
  <2>3. pc[p] = "idle" /\ pc'[p] = "change"
    BY <1>1, <1>8 DEF ReadCustomer
  <2> QED BY <2>1, <2>2, <2>3 DEF ClerkDoes
<1>9. CASE GetDetails(p) \/ Refuse(p) \/ LinkOwner(p) \/ NoOwner(p) \/ AddFails(p)
  BY <1>1, <1>9 DEF GetDetails, Refuse, LinkOwner, NoOwner, AddFails, Return, ClerkDoes
<1>10. CASE Lock(p) \/ Write(p) \/ WriteFails(p) \/ GiveUp(p)
  BY <1>1, <1>10 DEF Lock, Write, WriteFails, GiveUp, Return, ClerkDoes
<1>11. CASE Die(p)
  BY <1>1, <1>11 DEF Die, ClerkDoes
<1> QED
  BY <1>1, <1>2, <1>3, <1>4, <1>5, <1>6, <1>7, <1>8, <1>9, <1>10, <1>11
  DEF Acts, ClientStep, ServerStep

-----------------------------------------------------------------------------
(***************************************************************************)
(* Sessions.  The record a session has in hand is that of the customer     *)
(* whose number was typed, wherever other records go, as long as that      *)
(* customer was in the opening file: a record with a place in it has that  *)
(* place as its number.                                                    *)
(***************************************************************************)

\* Where p is, what it has in hand goes to its own place in the opening file.
Known(p, w, r, o) ==
    /\ p \in Connections /\ w # "idle" => r.id \in LoginNumbers
    /\ p \in Connections /\ w \in {"lock", "write"} => o = r.id
    /\ p \in Clerks /\ w \in {"change", "lock", "write", "relink"} =>
            (o \in DOMAIN Opening => r.id = o)
    /\ p \in Clerks /\ w = "details" => o \notin DOMAIN Opening

OpeningNumbered ==
    \A i \in DOMAIN Opening : i \in DOMAIN customers /\ customers[i].id = i

RecordsKnown == \A p \in Processes : Known(p, pc[p], record[p], offset[p])

\* Relative to IInv this invariant is inductive.
KInv == OpeningNumbered /\ RecordsKnown

\* What a write leaves of the file it finds.
LEMMA PutIs ==
    ASSUME NEW file, NEW n, NEW value
    PROVE  \A i \in DOMAIN file :
                /\ i \in DOMAIN Put(file, n, value)
                /\ Put(file, n, value)[i] = IF i = n THEN value ELSE file[i]
BY DEF Put

LEMMA InitKnown == Init => KInv
BY ConstantsAssumption DEF Init, KInv, OpeningNumbered, RecordsKnown, Known

\* Records of the opening file keep their numbers.
LEMMA OpeningStep ==
    ASSUME IInv, KInv, NEW p \in Processes, FileStep(p)
    PROVE  OpeningNumbered'
<1>1. Known(p, pc[p], record[p], offset[p])
  BY DEF KInv, RecordsKnown
<1>2. CASE customers' = customers
  BY <1>2 DEF KInv, OpeningNumbered
<1>3. CASE pc[p] \in {"write", "relink"} /\ (pc[p] = "relink" => p \in Clerks)
           /\ customers' = Put(customers, offset[p], record[p])
  <2>1. offset[p] \in DOMAIN Opening => record[p].id = offset[p]
    BY <1>1, <1>3 DEF Known, Processes
  <2> QED BY <1>3, <2>1, PutIs DEF KInv, OpeningNumbered
<1>4. ASSUME p \in Clerks, pc[p] = "details", NEW value,
             customers' = Put(customers, offset[p], value)
      PROVE  OpeningNumbered'
  BY <1>1, <1>4, PutIs DEF KInv, OpeningNumbered, Known
<1> QED BY <1>2, <1>3, <1>4 DEF FileStep

\* A record read at a place of the opening file has its number.
LEMMA ReadKnown ==
    ASSUME KInv, NEW n \in DOMAIN Opening, NEW c \in Read(n)
    PROVE  c.id = n
BY DEF KInv, OpeningNumbered, Read

LEMMA NextKnown ==
    ASSUME KnownLogins, IInv, KInv, [Next]_vars
    PROVE  KInv'
<1>1. CASE UNCHANGED vars
  BY <1>1 DEF vars, KInv, OpeningNumbered, RecordsKnown
<1>2. ASSUME NEW p \in Processes, Acts(p)
      PROVE  KInv'
  <2>1. OpeningNumbered'
    BY <1>2, StepWrites, OpeningStep
  <2>2. Known(p, pc[p], record[p], offset[p])
    BY DEF KInv, RecordsKnown
  <2>3. ASSUME p \in Connections PROVE Known(p, pc'[p], record'[p], offset'[p])
    <3>1. p \notin Clerks /\ SessionDoes(p)
      BY <1>2, <2>3, ConstantsAssumption, SessionStep
    <3>2. ASSUME NEW number \in LoginNumbers \cap DOMAIN customers PROVE customers[number].id = number
      BY DEF KnownLogins, KInv, OpeningNumbered
    <3> QED BY <2>2, <2>3, <3>1, <3>2 DEF SessionDoes, Known
  <2>4. ASSUME p \in Clerks PROVE Known(p, pc'[p], record'[p], offset'[p])
    <3>1. p \notin Connections /\ ClerkDoes(p)
      BY <1>2, <2>4, ConstantsAssumption, ClerkStep
    <3>2. Last(customers) + 1 \notin DOMAIN Opening
      BY LastIsLast DEF IInv, TypeOK, KInv, OpeningNumbered
    <3>3. ASSUME NEW n \in DOMAIN Opening, NEW c \in Read(n) PROVE c.id = n
      BY <3>3, ReadKnown
    <3> QED BY <2>2, <2>4, <3>1, <3>2, <3>3 DEF ClerkDoes, Known
  <2>5. Known(p, pc[p], record[p], offset[p])'
    BY <2>3, <2>4 DEF Processes
  <2>6. ASSUME NEW q \in Processes \ {p} PROVE Known(q, pc[q], record[q], offset[q])'
    <3>1. pc'[q] = pc[q] /\ record'[q] = record[q] /\ offset'[q] = offset[q]
      BY <1>2, StepOthers DEF Others
    <3>2. Known(q, pc[q], record[q], offset[q])
      BY DEF KInv, RecordsKnown
    <3> QED BY <3>1, <3>2
  <2> QED BY <2>1, <2>5, <2>6 DEF KInv, RecordsKnown
<1> QED BY <1>1, <1>2 DEF Next, Acts

\* What Admission sees of the sessions.
Present == {<<p, record[p].id>> : p \in {q \in Connections : InSession(q)}}

\* A process gets into a session by Admit alone.
LEMMA OnlyAdmitEnters ==
    ASSUME IInv, NEW p \in Connections, Acts(p), ~InSession(p), InSession(p)'
    PROVE  Admit(p)
<1>1. p \in Processes /\ p \notin Clerks
  BY ConstantsAssumption DEF Processes
<1> USE DEF InSession, IInv, TypeOK, Goto
<1>2. ~Login(p) /\ ~GivePassword(p) /\ ~GiveOld(p) /\ ~GiveNew(p) /\ ~Logout(p) /\ ~GetDetails(p)
  BY <1>1 DEF Login, GivePassword, GiveOld, GiveNew, Logout, GetDetails, End, Return
<1>3. ~Lock(p) /\ ~Write(p) /\ ~WriteFails(p) /\ ~GiveUp(p) /\ ~Die(p)
  BY <1>1 DEF Lock, Write, WriteFails, GiveUp, Die, Return
<1> QED BY <1>1, <1>2, <1>3 DEF Acts, ClientStep, ServerStep

\* Every step is a session's begin or end, or nothing that Admission sees.
LEMMA AdmissionStep ==
    ASSUME KnownLogins, IInv, KInv, NEW p \in Processes, Acts(p)
    PROVE  Admitted!Next \/ Present' = Present
<1>1. ASSUME NEW q \in Connections \ {p}
      PROVE  record'[q] = record[q] /\ (InSession(q)' <=> InSession(q))
  BY StepOthers DEF Others, InSession, Processes
<1>2. CASE p \in Clerks \/ (p \in Connections /\ ~InSession(p) /\ ~InSession(p)')
  <2>1. \A q \in Connections : (InSession(q)' <=> InSession(q))
                             /\ (InSession(q) => record'[q] = record[q])
    BY <1>1, <1>2, ConstantsAssumption
  <2> QED BY <2>1 DEF Present
<1>3. CASE p \in Connections /\ InSession(p) /\ InSession(p)'
  <2>1. record'[p].id = record[p].id
    BY <1>3, SessionStep DEF SessionDoes, InSession
  <2>2. \A q \in Connections : (InSession(q)' <=> InSession(q))
                             /\ record'[q].id = record[q].id
    BY <1>1, <1>3, <2>1
  <2> QED BY <2>2 DEF Present
<1>4. CASE p \in Connections /\ InSession(p) /\ ~InSession(p)'
  <2>1. <<p, record[p].id>> \in Present
    BY <1>4 DEF Present
  <2>2. Present' = Present \ {<<p, record[p].id>>}
    BY <1>1, <1>4 DEF Present
  <2> QED BY <2>1, <2>2 DEF Admitted!Next, Admitted!Leave, Present
<1>5. CASE p \in Connections /\ ~InSession(p) /\ InSession(p)'
  <2>1. Admit(p) /\ p \in Processes
    BY <1>5, OnlyAdmitEnters
  <2>2. pc[p] = "semaphore" /\ record' = record
        /\ \A q \in Connections \ {p} : InSession(q) => record[q].id # record[p].id
    BY <1>5, <2>1 DEF Admit, End, Goto, InSession, IInv, TypeOK, locals
  <2>3. record[p].id \in LoginNumbers
    BY <1>5, <2>2 DEF KInv, RecordsKnown, Known, Processes
  <2>4. \A s \in Present : s[1] # p /\ s[2] # record[p].id
    BY <1>5, <2>2 DEF Present
  <2>5. Present' = Present \cup {<<p, record[p].id>>}
    BY <1>1, <1>5, <2>2 DEF Present
  <2> QED BY <1>5, <2>3, <2>4, <2>5 DEF Admitted!Next, Admitted!Enter, Present
<1> QED BY <1>2, <1>3, <1>4, <1>5 DEF Processes

\* Whatever clerks do to the records, logins, logouts, changes of password and
\* deaths are sessions of one process and one customer each.
THEOREM SessionsRefineAdmission == ASSUME KnownLogins PROVE Spec => SessionsAreAdmitted
<1>1. Init => Admitted!Init
  BY DEF Init, Admitted!Init, InSession, Processes
<1>2. IInv /\ KInv /\ [Next]_vars => [Admitted!Next]_Present
  <2> SUFFICES ASSUME IInv, KInv, [Next]_vars PROVE Admitted!Next \/ Present' = Present
    OBVIOUS
  <2>1. CASE UNCHANGED vars
    BY <2>1 DEF vars, Present, InSession
  <2>2. ASSUME NEW p \in Processes, Acts(p) PROVE Admitted!Next \/ Present' = Present
    BY <2>2, AdmissionStep
  <2> QED BY <2>1, <2>2 DEF Next, Acts
<1>3. Spec => []KInv
  BY Invariance, InitKnown, NextKnown, PTL DEF Spec
<1> QED
  BY Invariance, <1>1, <1>2, <1>3, PTL DEF Spec, SessionsAreAdmitted, Admitted!Spec, Present

-----------------------------------------------------------------------------
(***************************************************************************)
(* Passwords.  The password of a customer who does not log in is the one   *)
(* of the opening file or the first one, and that is what every clerk has  *)
(* in hand.                                                                *)
(***************************************************************************)

Given(i) == IF i \in DOMAIN Opening THEN Opening[i].password ELSE FirstPassword

Harmless(p, w, r, o) ==
    p \in Clerks =>
        /\ w \in {"change", "lock", "write", "relink"} =>
                o \notin LoginNumbers /\ r.password = Given(o)
        /\ w \in {"account", "append", "link"} => o \notin LoginNumbers

FileHarmless == \A i \in DOMAIN customers \ LoginNumbers : customers[i].password = Given(i)

ClerksHarmless ==
    astray = {} =>
        FileHarmless /\ \A p \in Processes : Harmless(p, pc[p], record[p], offset[p])

LEMMA InitHarmless == Init => ClerksHarmless
BY ConstantsAssumption DEF Init, ClerksHarmless, FileHarmless, Harmless, Given, Processes

\* What a clerk writes over another record does not change its password.
LEMMA ClerkWrites ==
    ASSUME SeparateRecords, IInv, KInv, ClerksHarmless, astray = {},
           NEW p \in Clerks, FileStep(p)
    PROVE  /\ FileHarmless'
           /\ \A i \in DOMAIN customers : customers'[i].password = customers[i].password
<1> DEFINE o == offset[p]
           last == Last(customers)
<1>1. /\ p \in Processes /\ FileHarmless /\ Harmless(p, pc[p], record[p], o)
      /\ Fits(p, pc[p], record[p], o, DOMAIN customers, astray)
      /\ Known(p, pc[p], record[p], o)
  BY Facts DEF ClerksHarmless, KInv, RecordsKnown, Processes
<1>2. last \in Nat /\ DOMAIN customers = 0..last
  BY LastIsLast DEF IInv, TypeOK
<1>3. ASSUME NEW value, customers' = Put(customers, o, value), o \in Nat,
             o \in DOMAIN customers \/ o - 1 \in DOMAIN customers,
             o \notin LoginNumbers, value.password = Given(o)
      PROVE  /\ FileHarmless'
             /\ \A i \in DOMAIN customers : customers'[i].password = customers[i].password
  <2>1. \A i \in 0..o : i \in DOMAIN customers \/ i = o
    BY <1>2, <1>3
  <2>2. /\ DOMAIN customers' = DOMAIN customers \cup 0..o
        /\ \A i \in DOMAIN customers' :
                customers'[i] = IF i = o THEN value
                                ELSE IF i \in DOMAIN customers THEN customers[i] ELSE Zeros
    BY <1>3 DEF Put
  <2> HIDE DEF o, last
  <2>3. \A i \in DOMAIN customers' :
            \/ i = o /\ customers'[i] = value
            \/ i # o /\ i \in DOMAIN customers /\ customers'[i] = customers[i]
    BY <2>1, <2>2
  <2>4. FileHarmless'
    BY <1>1, <1>3, <2>3 DEF FileHarmless
  <2>5. \A i \in DOMAIN customers : customers'[i].password = customers[i].password
    BY <1>1, <1>3, <2>2, <2>3 DEF FileHarmless
  <2> QED BY <2>4, <2>5
<1>4. CASE customers' = customers
  BY <1>1, <1>4 DEF FileHarmless
<1>5. CASE pc[p] \in {"write", "relink"} /\ customers' = Put(customers, o, record[p])
  <2>1. o \in Nat /\ o \in DOMAIN customers
    BY <1>1, <1>5 DEF Fits
  <2>2. o \notin LoginNumbers /\ record[p].password = Given(o)
    BY <1>1, <1>5 DEF Harmless
  <2> HIDE DEF o
  <2> QED BY <1>3, <1>5, <2>1, <2>2
<1>6. ASSUME pc[p] = "details", NEW name, NEW info,
             customers' = Put(customers, o,
                              [id |-> record[p].id, login |-> name, info |-> info,
                               account |-> Unlinked, password |-> FirstPassword])
      PROVE  /\ FileHarmless'
             /\ \A i \in DOMAIN customers : customers'[i].password = customers[i].password
  <2>1. o \in Nat /\ o - 1 \in DOMAIN customers
    BY <1>1, <1>6 DEF Fits
  <2>2. o \notin LoginNumbers /\ Given(o) = FirstPassword
    BY <1>1, <1>6 DEF Known, Given, SeparateRecords, KnownLogins
  <2> DEFINE value == [id |-> record[p].id, login |-> name, info |-> info,
                       account |-> Unlinked, password |-> FirstPassword]
  <2>3. value.password = Given(o) /\ customers' = Put(customers, o, value)
    BY <1>6, <2>2
  <2> HIDE DEF o, value
  <2> QED BY <1>3, <2>1, <2>2, <2>3
<1> QED BY <1>1, <1>4, <1>5, <1>6 DEF FileStep

\* What a session writes is the record of its own customer.
LEMMA SessionWrites ==
    ASSUME IInv, KInv, ClerksHarmless, astray = {}, NEW p \in Connections, FileStep(p)
    PROVE  /\ FileHarmless'
           /\ \A i \in DOMAIN customers :
                customers'[i].password # customers[i].password => Write(p) /\ record[p].id = i
<1> DEFINE o == offset[p]
<1>1. /\ p \in Processes /\ p \notin Clerks /\ FileHarmless
      /\ Fits(p, pc[p], record[p], o, DOMAIN customers, astray)
      /\ Known(p, pc[p], record[p], o) /\ DOMAIN customers \subseteq Nat
  BY Facts, ConstantsAssumption DEF ClerksHarmless, KInv, RecordsKnown, Processes
<1>2. CASE customers' = customers
  BY <1>1, <1>2 DEF FileHarmless
<1>3. CASE pc[p] = "write" /\ Write(p) /\ customers' = Put(customers, o, record[p])
  <2>1. o = record[p].id /\ o \in DOMAIN customers /\ o \in LoginNumbers
    BY <1>1, <1>3 DEF Fits, Known
  <2>2. DOMAIN customers' = DOMAIN customers \cup 0..o
        /\ \A i \in DOMAIN customers : i # o => customers'[i] = customers[i]
    BY <1>3 DEF Put
  <2>3. DOMAIN customers = 0..Last(customers) /\ Last(customers) \in Nat
    BY LastIsLast DEF IInv, TypeOK
  <2>4. DOMAIN customers' = DOMAIN customers
    BY <2>1, <2>2, <2>3
  <2> QED BY <1>1, <1>3, <2>1, <2>2, <2>4 DEF FileHarmless
<1> QED BY <1>1, <1>2, <1>3 DEF FileStep

LEMMA NextHarmless ==
    ASSUME SeparateRecords, IInv, KInv, ClerksHarmless, [Next]_vars
    PROVE  ClerksHarmless'
<1>1. CASE UNCHANGED vars
  BY <1>1 DEF vars, ClerksHarmless, FileHarmless
<1>2. ASSUME NEW p \in Processes, Acts(p), astray' = {}
      PROVE  FileHarmless' /\ \A q \in Processes : Harmless(q, pc[q], record[q], offset[q])'
  <2>1. FileStep(p) /\ astray = {} /\ Others(p)
    BY <1>2, StepWrites, StepOthers
  <2>2. FileHarmless'
    BY <2>1, ClerkWrites, SessionWrites DEF Processes
  <2>3. ASSUME p \in Clerks PROVE Harmless(p, pc'[p], record'[p], offset'[p])
    <3>1. /\ ClerkDoes(p) /\ FileHarmless
          /\ Harmless(p, pc[p], record[p], offset[p])
          /\ Fits(p, pc[p], record[p], offset[p], DOMAIN customers, astray)
          /\ Known(p, pc[p], record[p], offset[p])
      BY <1>2, <2>1, <2>3, ClerkStep, Facts DEF ClerksHarmless, KInv, RecordsKnown
    <3>2. \A n \in DOMAIN customers \ LoginNumbers : \A c \in Read(n) : c.password = Given(n)
      BY <3>1 DEF FileHarmless, Read
    <3>3. /\ LoginNumbers \subseteq Nat /\ LoginNumbers \subseteq DOMAIN Opening
          /\ 0 \notin LoginNumbers /\ LoginNumbers \cap Numbers = {}
      BY ConstantsAssumption DEF SeparateRecords, KnownLogins
    <3>4. CASE pc[p] = "link" /\ pc'[p] = "relink"
      <4>1. offset'[p] = offset[p] /\ offset[p] >= 0
        BY <3>1, <3>4 DEF ClerkDoes
      <4>2. offset'[p] = offset[p] /\ offset[p] \in DOMAIN customers \ LoginNumbers
        BY <2>1, <2>3, <3>1, <3>4, <4>1 DEF Harmless, Fits
      <4>3. PICK c \in Read(offset[p]) : record'[p].password = c.password
        BY <3>1, <3>4 DEF ClerkDoes
      <4> QED BY <3>2, <3>4, <4>2, <4>3 DEF Harmless
    <3>5. CASE pc[p] = "idle" /\ pc'[p] = "change"
      <4>1. /\ offset'[p] \in Numbers /\ offset'[p] \in DOMAIN customers
            /\ record'[p] \in Read(offset'[p])
        BY <1>2, <3>1, <3>5 DEF ClerkDoes
      <4> QED BY <3>2, <3>3, <3>5, <4>1 DEF Harmless
    <3>6. CASE pc[p] = "details" /\ pc'[p] = "account"
      <4>1. offset'[p] \in {0, record[p].id}
        BY <3>1, <3>6 DEF ClerkDoes
      <4>2. record[p].id \notin LoginNumbers
        BY <2>1, <2>3, <3>1, <3>3, <3>6 DEF Fits, Known
      <4> QED BY <3>3, <3>6, <4>1, <4>2 DEF Harmless
    <3> QED BY <2>3, <3>1, <3>3, <3>4, <3>5, <3>6 DEF ClerkDoes, Harmless
  <2>4. Harmless(p, pc[p], record[p], offset[p])'
    BY <2>3 DEF Harmless
  <2>5. ASSUME NEW q \in Processes \ {p} PROVE Harmless(q, pc[q], record[q], offset[q])'
    <3>1. pc'[q] = pc[q] /\ record'[q] = record[q] /\ offset'[q] = offset[q]
      BY <2>1 DEF Others
    <3>2. Harmless(q, pc[q], record[q], offset[q])
      BY <2>1 DEF ClerksHarmless
    <3> QED BY <3>1, <3>2
  <2> QED BY <2>2, <2>4, <2>5
<1> QED BY <1>1, <1>2 DEF Next, Acts, ClerksHarmless

\* As long as clerks keep away from the records of those who log in, a password
\* that has been changed changes again only in a session of the same customer,
\* whatever fails or dies and whichever clerks write which records meanwhile.
THEOREM PasswordsLast == ASSUME SeparateRecords PROVE Spec => PasswordChangeLasts
<1>1. Spec => []KInv
  BY Invariance, InitKnown, NextKnown, PTL DEF Spec, SeparateRecords
<1>2. Spec => []ClerksHarmless
  BY <1>1, Invariance, InitHarmless, NextHarmless, PTL DEF Spec
<1>3. IInv /\ KInv /\ ClerksHarmless /\ [Next]_vars =>
        [astray = {} => \A i \in DOMAIN customers :
            customers'[i].password # customers[i].password =>
                \E p \in Connections : Write(p) /\ record[p].id = i]_vars
  <2> SUFFICES ASSUME IInv, KInv, ClerksHarmless, Next, astray = {},
                      NEW i \in DOMAIN customers,
                      customers'[i].password # customers[i].password
               PROVE  \E p \in Connections : Write(p) /\ record[p].id = i
    OBVIOUS
  <2>1. PICK p \in Processes : Acts(p)
    BY DEF Next, Acts
  <2>2. FileStep(p)
    BY <2>1, StepWrites
  <2> QED BY <2>2, ClerkWrites, SessionWrites DEF Processes
<1> QED BY <1>1, <1>2, <1>3, Invariance, PTL DEF Spec, PasswordChangeLasts

-----------------------------------------------------------------------------
(***************************************************************************)
(* Owners.  A record of a customer is in the file or in the hands of a     *)
(* process that will write it back.  All that agree on an account agree on *)
(* the customer, and all accounts are older than the one being added.      *)
(***************************************************************************)

\* p has a customer's record in hand that may go to the file.
Carries(p) ==
    \/ p \in Connections /\ pc[p] # "idle"
    \/ p \in Clerks /\ pc[p] \in {"change", "lock", "write", "relink"}

Copies ==
    {customers[i] : i \in DOMAIN customers} \cup {record[p] : p \in {q \in Processes : Carries(q)}}

LastNumber == accounts[Last(accounts)].number

Up(r, n) == r.account = Unlinked \/ r.account <= n

OwnersAgree ==
    /\ \A r, s \in Copies :
            r.account = s.account => r.id = s.id \/ r.account = Unlinked
    /\ \A r \in Copies : Up(r, LastNumber)

\* The account being added: behind the last one until it is written, then the last.
AccountNew(p) ==
    /\ pc[p] = "append" => newAccount[p] = [place |-> Last(accounts) + 1, number |-> LastNumber + 1]
    /\ pc[p] = "link" => /\ newAccount[p].number = LastNumber
                         /\ \A r \in Copies : Up(r, LastNumber - 1)

Owners == astray = {} => OwnersAgree /\ \A p \in Clerks : AccountNew(p)

\* p reads a record to link the new account to it.
Linking(p) == p \in Clerks /\ pc[p] = "link" /\ pc'[p] = "relink"

Old(r) == \E s \in Copies : s.id = r.id /\ s.account = r.account

LEMMA CopyType == ASSUME IInv PROVE \A r \in Copies : r \in Customer
BY Facts, LastPlace DEF Copies, IInv, TypeOK

LEMMA InitOwners == OneClerk /\ Init => Owners
<1> SUFFICES ASSUME OneClerk, Init PROVE Owners
  OBVIOUS
<1>1. Copies = {Opening[i] : i \in DOMAIN Opening}
  BY DEF Init, Copies, Carries, Processes
<1>2. \A p \in Clerks : AccountNew(p)
  BY DEF Init, AccountNew, Processes
<1>3. \A i \in DOMAIN Opening : Opening[i].id = i
  BY ConstantsAssumption
<1>4. LastNumber = OpeningAccounts[Last(OpeningAccounts)].number
  BY DEF Init, LastNumber
<1> QED BY <1>1, <1>2, <1>3, <1>4 DEF Owners, OwnersAgree, OneClerk, Up

\* A step makes no copy of a record that names another customer or account, but by
\* linking a new one.
LEMMA CopiesStep ==
    ASSUME IInv, NEW p \in Processes, Acts(p), astray' = {}, NEW r \in Copies'
    PROVE  Old(r) \/ r.account = Unlinked \/ (Linking(p) /\ r = record'[p])
<1>1. FileStep(p) /\ astray = {} /\ Others(p) /\ Connections \cap Clerks = {}
  BY StepWrites, StepOthers, ConstantsAssumption
<1>2. \A s \in Copies : Old(s)
  BY DEF Old
<1>3. (\A i \in DOMAIN customers : customers[i] \in Copies)
      /\ \A q \in Processes : Carries(q) => record[q] \in Copies
  BY DEF Copies
<1>4. Fits(p, pc[p], record[p], offset[p], DOMAIN customers, astray)
  BY Facts
<1>5. ASSUME NEW i \in DOMAIN customers' PROVE Old(customers'[i]) \/ customers'[i].account = Unlinked
  <2>1. DOMAIN customers = 0..Last(customers) /\ Last(customers) \in Nat
    BY LastIsLast DEF IInv, TypeOK
  <2>2. ASSUME NEW value, customers' = Put(customers, offset[p], value), offset[p] \in Nat,
               offset[p] \in DOMAIN customers \/ offset[p] - 1 \in DOMAIN customers
        PROVE  customers'[i] = value \/ (i \in DOMAIN customers /\ customers'[i] = customers[i])
    <3> DEFINE o == offset[p]
               last == Last(customers)
    <3>1. /\ i \in DOMAIN customers \cup 0..o
          /\ customers'[i] = IF i = o THEN value
                             ELSE IF i \in DOMAIN customers THEN customers[i] ELSE Zeros
      BY <2>2 DEF Put
    <3>2. o \in Nat /\ last \in Nat /\ DOMAIN customers = 0..last
          /\ (o \in DOMAIN customers \/ o - 1 \in DOMAIN customers)
      BY <2>1, <2>2
    <3> HIDE DEF o, last
    <3>3. i \in DOMAIN customers \/ i = o
      BY <3>1, <3>2
    <3> QED BY <3>1, <3>3
  <2>3. CASE customers' = customers
    BY <1>2, <1>3, <2>3
  <2>4. CASE /\ pc[p] = "write" \/ (p \in Clerks /\ pc[p] = "relink")
             /\ customers' = Put(customers, offset[p], record[p])
    <3>1. offset[p] \in Nat /\ offset[p] \in DOMAIN customers
      BY <1>1, <1>4, <2>4 DEF Fits
    <3>2. Carries(p)
      BY <2>4 DEF Carries, Processes
    <3> QED BY <1>2, <1>3, <2>2, <2>4, <3>1, <3>2
  <2>5. ASSUME pc[p] = "details", NEW name, NEW info,
               customers' = Put(customers, offset[p],
                                [id |-> record[p].id, login |-> name, info |-> info,
                                 account |-> Unlinked, password |-> FirstPassword])
        PROVE  Old(customers'[i]) \/ customers'[i].account = Unlinked
    <3> DEFINE value == [id |-> record[p].id, login |-> name, info |-> info,
                         account |-> Unlinked, password |-> FirstPassword]
    <3>1. offset[p] \in Nat /\ offset[p] - 1 \in DOMAIN customers
      BY <1>1, <1>4, <2>5 DEF Fits
    <3>2. value.account = Unlinked /\ customers' = Put(customers, offset[p], value)
      BY <2>5
    <3> HIDE DEF value
    <3> QED BY <1>2, <1>3, <2>2, <3>1, <3>2
  <2> QED BY <1>1, <2>3, <2>4, <2>5 DEF FileStep
<1>6. ASSUME NEW q \in Processes, Carries(q)', q # p PROVE Old(record'[q])
  <2>1. pc'[q] = pc[q] /\ record'[q] = record[q]
    BY <1>1, <1>6 DEF Others
  <2>2. Carries(q)
    BY <1>6, <2>1 DEF Carries
  <2> QED BY <1>2, <1>3, <2>1, <2>2
<1>7. ASSUME p \in Connections, Carries(p)' PROVE Old(record'[p])
  <2>1. SessionDoes(p) /\ pc'[p] # "idle"
    BY <1>1, <1>7, SessionStep DEF Carries
  <2>2. CASE \E number \in LoginNumbers \cap DOMAIN customers : record'[p] = customers[number]
    BY <1>2, <1>3, <2>2
  <2>3. CASE /\ pc[p] # "idle" /\ record'[p].id = record[p].id
             /\ record'[p].account = record[p].account
    <3>1. record[p] \in Copies
      BY <1>3, <1>7, <2>3 DEF Carries
    <3> QED BY <2>3, <3>1 DEF Old
  <2> QED BY <2>1, <2>2, <2>3 DEF SessionDoes
<1>8. ASSUME p \in Clerks, Carries(p)' PROVE Old(record'[p]) \/ Linking(p)
  <2>1. ClerkDoes(p) /\ pc'[p] \in {"change", "lock", "write", "relink"}
    BY <1>1, <1>8, ClerkStep DEF Carries
  <2>2. CASE pc[p] = "link" /\ pc'[p] = "relink"
    BY <1>8, <2>2 DEF Linking
  <2>3. CASE pc'[p] = "change" /\ record'[p] \in Read(offset'[p]) /\ offset'[p] \in DOMAIN customers
    BY <1>2, <1>3, <2>3 DEF Read
  <2>4. CASE /\ pc[p] \in {"change", "lock", "write", "relink"}
             /\ record'[p].id = record[p].id /\ record'[p].account = record[p].account
    <3>1. record[p] \in Copies
      BY <1>3, <1>8, <2>4 DEF Carries
    <3> QED BY <2>4, <3>1 DEF Old
  <2> QED BY <2>1, <2>2, <2>3, <2>4 DEF ClerkDoes
<1>9. \/ \E i \in DOMAIN customers' : r = customers'[i]
      \/ \E q \in Processes : Carries(q)' /\ r = record'[q]
  BY DEF Copies
<1> QED BY <1>5, <1>6, <1>7, <1>8, <1>9 DEF Processes

\* The last account's number is not lowered, and is the new one's once that is written.
LEMMA LastStep ==
    ASSUME IInv, IInv', NEW p \in Processes, Acts(p), p \in Clerks => AccountNew(p)
    PROVE  /\ LastNumber \in Int
           /\ \/ /\ accounts' = accounts /\ LastNumber' = LastNumber
                 /\ ~(p \in Clerks /\ pc[p] = "append" /\ pc'[p] = "link")
              \/ /\ p \in Clerks /\ pc[p] = "append" /\ pc'[p] = "link"
                 /\ LastNumber' = LastNumber + 1 /\ newAccount' = newAccount
                 /\ newAccount[p].number = LastNumber'
<1> DEFINE last == Last(accounts)
<1>1. IsFile(accounts, Account) /\ IsFile(accounts', Account)
  BY DEF IInv, TypeOK
<1>2. last \in Nat /\ DOMAIN accounts = 0..last
  BY <1>1, LastIsLast
<1>3. accounts[last] \in Account /\ LastNumber = accounts[last].number
  BY <1>1, LastPlace DEF LastNumber
<1>4. LastNumber \in Int
  BY <1>3 DEF Account
<1>5. CASE accounts' = accounts /\ ~(p \in Clerks /\ pc[p] = "append" /\ pc'[p] = "link")
  BY <1>4, <1>5 DEF LastNumber
<1>6. CASE p \in Clerks /\ pc[p] = "append" /\ pc'[p] = "link" /\ AddAccount(p)
  <2> DEFINE a == [number |-> newAccount[p].number, custid |-> offset[p]]
  <2>1. newAccount[p] = [place |-> last + 1, number |-> LastNumber + 1]
    BY <1>6 DEF AccountNew
  <2>2. newAccount[p].place = last + 1 /\ newAccount[p].number = LastNumber + 1
    BY <2>1
  <2>3. /\ accounts' = [i \in DOMAIN accounts \cup {newAccount[p].place} |->
                            IF i = newAccount[p].place THEN a ELSE accounts[i]]
        /\ newAccount' = newAccount
    BY <1>6 DEF AddAccount, locals
  <2>4. a.number = LastNumber + 1
    BY <2>2
  <2> HIDE DEF last, a
  <2>5. DOMAIN accounts' = 0..(last + 1) /\ accounts'[last + 1] = a
    <3>1. DOMAIN accounts' = 0..last \cup {last + 1}
      BY <1>2, <2>2, <2>3
    <3>2. 0..last \cup {last + 1} = 0..(last + 1)
      BY <1>2
    <3> QED BY <2>2, <2>3, <3>1, <3>2
  <2>6. Last(accounts') = last + 1
    <3> DEFINE new == accounts'
               last1 == Last(new)
    <3>1. IsFile(new, Account)
      BY <1>1
    <3> HIDE DEF new
    <3>2. last1 \in Nat /\ DOMAIN new = 0..last1
      BY <3>1, LastIsLast
    <3>3. DOMAIN new = 0..(last + 1)
      BY <2>5 DEF new
    <3> HIDE DEF last1
    <3>4. last1 = last + 1
      BY <1>2, <3>2, <3>3
    <3> QED BY <3>4 DEF last1, new
  <2>7. LastNumber' = LastNumber + 1
    BY <2>4, <2>5, <2>6 DEF LastNumber
  <2> QED BY <1>4, <1>6, <2>2, <2>3, <2>7
<1>7. p \in Clerks /\ pc[p] = "append" /\ pc'[p] = "link" => AddAccount(p)
  BY ClerkStep DEF ClerkDoes
<1> QED BY <1>5, <1>6, <1>7, StepWrites

LEMMA NextOwners ==
    ASSUME OneClerk, IInv, IInv', Owners, [Next]_vars
    PROVE  Owners'
<1>1. CASE UNCHANGED vars
  BY <1>1 DEF vars, Owners, OwnersAgree, Copies, Carries, AccountNew, LastNumber, Up
<1>2. ASSUME NEW p \in Processes, Acts(p), astray' = {}
      PROVE  OwnersAgree' /\ \A k \in Clerks : AccountNew(k)'
  <2> DEFINE n == LastNumber
             n1 == LastNumber'
  <2>1. /\ astray = {} /\ OwnersAgree /\ (\A k \in Clerks : AccountNew(k))
        /\ Others(p) /\ Connections \cap Clerks = {}
    BY <1>2, StepWrites, StepOthers, ConstantsAssumption DEF Owners
  <2>2. /\ n \in Int
        /\ \/ /\ accounts' = accounts /\ n1 = n
              /\ ~(p \in Clerks /\ pc[p] = "append" /\ pc'[p] = "link")
           \/ /\ p \in Clerks /\ pc[p] = "append" /\ pc'[p] = "link"
              /\ n1 = n + 1 /\ newAccount' = newAccount /\ newAccount[p].number = n1
    BY <1>2, <2>1, LastStep
  <2>3. \A r \in Copies' : Old(r) \/ r.account = Unlinked \/ (Linking(p) /\ r = record'[p])
    BY <1>2, CopiesStep
  <2>4. /\ \A r, s \in Copies :
                r.account = s.account => r.id = s.id \/ r.account = Unlinked
        /\ \A r \in Copies : r.account \in Int /\ Up(r, n)
    BY <2>1, CopyType DEF OwnersAgree, Customer
  <2>5. Linking(p) => /\ n1 = n /\ record'[p].account = n
                      /\ \A r \in Copies : Up(r, n - 1)
    <3> SUFFICES ASSUME Linking(p)
                 PROVE  /\ n1 = n /\ record'[p].account = n
                        /\ \A r \in Copies : Up(r, n - 1)
      OBVIOUS
    <3>1. record'[p].account = newAccount[p].number
      BY <1>2, ClerkStep DEF ClerkDoes, Linking
    <3>2. newAccount[p].number = n /\ \A r \in Copies : Up(r, n - 1)
      BY <2>1 DEF AccountNew, Linking
    <3> QED BY <2>2, <3>1, <3>2 DEF Linking
  <2> HIDE DEF n, n1
  <2>6. OwnersAgree'
    <3>1. \A r \in Copies' : Up(r, n1)
      BY <2>2, <2>3, <2>4, <2>5 DEF Old, Up
    <3>2. ASSUME NEW r \in Copies', NEW s \in Copies', r.account = s.account,
                 r.account # Unlinked
          PROVE  r.id = s.id
      <4>1. CASE Old(r) /\ Old(s)
        BY <2>4, <3>2, <4>1 DEF Old
      <4>2. CASE Linking(p)
        <5>1. \A x \in Copies' : Old(x) /\ x.account # Unlinked => x.account # n
          BY <2>2, <2>4, <2>5, <4>2 DEF Old, Up
        <5> QED BY <2>3, <2>5, <3>2, <4>1, <4>2, <5>1
      <4> QED BY <2>3, <3>2, <4>1, <4>2
    <3> QED BY <3>1, <3>2 DEF OwnersAgree, n1
  <2>7. ASSUME NEW k \in Clerks PROVE AccountNew(k)'
    <3>1. ASSUME ~Linking(p), NEW m, \A r \in Copies : Up(r, m) PROVE \A r \in Copies' : Up(r, m)
      BY <2>3, <3>1 DEF Old, Up
    <3>2. AccountNew(k)
      BY <2>1
    <3>3. CASE p \in Connections
      <4>1. k # p /\ k \in Processes /\ ~Linking(p)
        BY <2>1, <3>3 DEF Processes, Linking
      <4>2. pc'[k] = pc[k] /\ newAccount'[k] = newAccount[k]
        BY <2>1, <4>1 DEF Others
      <4>3. accounts' = accounts /\ n1 = n
        BY <2>1, <2>2, <3>3
      <4> QED BY <3>1, <3>2, <4>1, <4>2, <4>3 DEF AccountNew, n, n1
    <3>4. CASE p \in Clerks
      <4>1. k = p /\ ClerkDoes(p)
        BY <1>2, <3>4, ClerkStep DEF OneClerk
      <4>2. ASSUME pc'[p] = "append"
            PROVE  newAccount'[p] = [place |-> Last(accounts') + 1, number |-> n1 + 1]
        <5>1. accounts' = accounts /\ n1 = n
          BY <2>2, <4>2
        <5>2. CASE pc[p] = "append" /\ newAccount'[p] = newAccount[p]
          BY <3>2, <4>1, <5>1, <5>2 DEF AccountNew, n
        <5>3. CASE newAccount'[p] = [place |-> Last(accounts) + 1,
                                     number |-> accounts[Last(accounts)].number + 1]
          BY <5>1, <5>3 DEF n, LastNumber
        <5> QED BY <4>1, <4>2, <5>2, <5>3 DEF ClerkDoes
      <4>3. ASSUME pc'[p] = "link"
            PROVE  newAccount'[p].number = n1 /\ \A r \in Copies' : Up(r, n1 - 1)
        <5>1. ~Linking(p)
          BY <4>3 DEF Linking
        <5>2. CASE pc[p] = "append"
          <6>1. n1 = n + 1 /\ newAccount'[p].number = n1 /\ n1 - 1 = n
            BY <2>2, <3>4, <4>3, <5>2
          <6> QED BY <2>4, <3>1, <5>1, <6>1
        <5>3. CASE pc[p] = "link" /\ newAccount'[p] = newAccount[p]
          <6>1. n1 = n
            BY <2>2, <5>3
          <6>2. newAccount[p].number = n /\ \A r \in Copies : Up(r, n - 1)
            BY <3>2, <4>1, <5>3 DEF AccountNew, n
          <6> QED BY <3>1, <5>1, <5>3, <6>1, <6>2
        <5> QED BY <4>1, <4>3, <5>2, <5>3 DEF ClerkDoes
      <4> QED BY <4>1, <4>2, <4>3 DEF AccountNew, n1
    <3> QED BY <3>3, <3>4 DEF Processes
  <2> QED BY <2>6, <2>7
<1> QED BY <1>1, <1>2 DEF Next, Acts, Owners

\* With one clerk at work no account is linked to two customers, although sessions
\* and the clerk's own calls write back what they have read before the link was made.
THEOREM OneOwner == ASSUME OneClerk PROVE Spec => []OneOwnerPerAccount
<1>1. IInv /\ Owners => OneOwnerPerAccount
  BY DEF IInv, RecordsAtTheirNumber, InOrder, Owners, OwnersAgree, Copies, OneOwnerPerAccount
<1> QED BY <1>1, Invariance, InitOwners, NextOwners, PTL DEF Spec

=============================================================================
