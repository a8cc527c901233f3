------------------------ MODULE AccountsDisjoint_proofs ------------------------
(***************************************************************************)
(* What holds of the account file as long as no two processes work on one  *)
(* account.  Nothing in the code arranges that (DisjointUse of Accounts):  *)
(* run lost_update shows what happens otherwise, and these theorems that   *)
(* sharing is all that goes wrong there.                                   *)
(***************************************************************************)
EXTENDS Accounts_proofs

\* Every record of the file is numbered by its place.
NumberedFile == \A i \in DOMAIN accounts : accounts[i].accountNumber = i

\* The number of the account a call is about to write.
Target(c) == IF c.side = "own" THEN c.own.accountNumber ELSE c.receiver.accountNumber

\* A customer's call stays with its own account and the receiver it has named.
CustomerKeeps(p, place, c) ==
    /\ place # "append" /\ c.service \in Services \cup {"none"}
    /\ place \in {"to", "amount"} => c.side = "own"
    /\ place = "log" /\ c.service = "send" => c.side = "receiver"
    /\ c.service \in Services => c.own.accountNumber = AccountOf[p]
    /\ c.service = "send" /\ place # "to" =>
            /\ c.receiver.accountNumber \in Receivers[p] \ {AccountOf[p]}
            /\ c.receiver.accountNumber \in DOMAIN accounts
    /\ place \in {"lock", "write"} => c.service \in Services /\ c.offset = Target(c)

\* A clerk's stays with an account it may close, or with the next new record.
ClerkKeeps(place, c) ==
    /\ place \in {"menu", "lock", "write", "append"} /\ c.service \notin Services
    /\ place \in {"lock", "write"} =>
            /\ c.side = "own" /\ c.offset \in DeleteTargets /\ c.offset \in DOMAIN accounts
            /\ c.own.accountNumber = c.offset
    /\ place = "append" =>
            /\ c.offset \notin DOMAIN accounts /\ c.offset - 1 \in DOMAIN accounts
            /\ c.own.accountNumber = c.offset

Keeps(p, place, c) ==
    /\ p \in Customers => CustomerKeeps(p, place, c)
    /\ p \in Clerks => ClerkKeeps(place, c)

CallsKeep == \A p \in Processes : Keeps(p, pc[p], call[p])

\* A process locks, and leaves locked, no records but those it uses.
LocksKeep ==
    \A p \in Processes : \A r \in held[p] :
        \E n \in Uses(p) \cap DOMAIN accounts : r = OneRecord(n)

\* A customer's account is always found.
AlwaysFound == \A p \in Customers : told[p] # "no such account"

\* The inductive invariant of disjoint use.
DInv == IInv /\ NumbersKept /\ NumberedFile /\ CallsKeep /\ LocksKeep /\ AlwaysFound

\* What is to be added to the balance of the customer's own account.
Change(c) == IF c.service = "deposit" THEN c.amount ELSE -c.amount

\* The structs in hand have the balances of the file, plus what is to be paid.
Fresh(p, place, c) ==
    /\ p \in Customers /\ c.service \in Services =>
        /\ place \in {"to", "amount"} => c.own.balance = accounts[AccountOf[p]].balance
        /\ place \in {"log", "find", "lock", "write"} /\ c.side = "own" =>
                c.own.balance = accounts[AccountOf[p]].balance + Change(c)
        /\ place = "amount" /\ c.service = "send" =>
                c.receiver.balance = accounts[c.receiver.accountNumber].balance
        /\ place \in {"find", "lock", "write"} /\ c.service = "send" =>
                c.receiver.balance = accounts[c.receiver.accountNumber].balance + c.amount
    /\ p \in Clerks /\ place \in {"lock", "write"} =>
        c.own.balance = accounts[c.offset].balance

CallsFresh == \A p \in Processes : Fresh(p, pc[p], call[p])

-----------------------------------------------------------------------------
(* The file, the searches and the locks.                                   *)

LEMMA FileFacts ==
    ASSUME DInv
    PROVE  /\ DOMAIN accounts \subseteq Nat /\ DOMAIN Opening \subseteq DOMAIN accounts
           /\ \A i \in DOMAIN accounts : accounts[i] \in Account
BY DEF DInv, IInv, TypeOK, IsFile, NumbersKept

\* Two records overlap when they are one.
LEMMA OverlapOne ==
    ASSUME NEW m \in Nat, NEW n \in Nat, Overlap(OneRecord(m), OneRecord(n))
    PROVE  m = n
BY DEF Overlap, EndsBefore, OneRecord

\* No process is a customer and a clerk.
LEMMA Roles ==
    ASSUME NEW p \in Processes
    PROVE  (p \in Customers \/ p \in Clerks) /\ ~(p \in Customers /\ p \in Clerks)
BY ConstantsAssumption DEF Processes

\* find_account finds whatever account the process uses.
LEMMA Finds ==
    ASSUME DisjointUse, DInv, NEW p \in Processes, NEW n \in Uses(p) \cap DOMAIN accounts
    PROVE  FindAccount(p, n) = n /\ NoRecord # n
<1> DEFINE hits == {i \in DOMAIN accounts :
                        accounts[i].accountNumber = n /\ Free(held, p, OneRecord(i))}
<1>1. n \in Nat /\ DOMAIN accounts \subseteq Nat /\ DOMAIN held = Processes
  BY FileFacts DEF DInv, IInv, TypeOK
<1>2. Free(held, p, OneRecord(n))
  <2> SUFFICES ASSUME NEW q \in Processes \ {p}, NEW h \in held[q],
                      Overlap(h, OneRecord(n))
               PROVE  FALSE
    BY <1>1 DEF Free
  <2>1. PICK m \in Uses(q) \cap DOMAIN accounts : h = OneRecord(m)
    BY DEF DInv, LocksKeep
  <2>2. m = n
    BY <1>1, <2>1, OverlapOne
  <2> QED BY <2>1, <2>2 DEF DisjointUse
<1>3. hits = {n}
  BY <1>2 DEF DInv, NumberedFile
<1>4. Min({n}) = n
  BY <1>1, LeastNat
<1> QED BY <1>1, <1>3, <1>4 DEF FindAccount, NoRecord

\* A process writes only to a record it uses, and only a clerk adds one.
LEMMA TargetUsed ==
    ASSUME DisjointUse, DInv, NEW p \in Processes, pc[p] \in {"lock", "write"}
    PROVE  /\ call[p].offset \in Uses(p) \cap DOMAIN accounts
           /\ Struct(p).accountNumber = call[p].offset
<1>1. Keeps(p, pc[p], call[p]) /\ call[p] \in Call /\ Fits(pc[p], call[p])
  BY DEF DInv, CallsKeep, IInv, TypeOK, CallsFit
<1>2. CASE p \in Customers
  <2>1. /\ call[p].offset = Target(call[p]) /\ Struct(p).accountNumber = Target(call[p])
        /\ call[p].service \in Services
    BY <1>1, <1>2 DEF Keeps, CustomerKeeps, Struct, Target
  <2>2. Target(call[p]) \in Uses(p) \cap DOMAIN accounts
    <3>1. AccountOf[p] \in DOMAIN accounts
      BY <1>2, FileFacts DEF DisjointUse
    <3> QED BY <1>1, <1>2, <2>1, <3>1
            DEF Keeps, CustomerKeeps, Fits, Target, Uses, Call
  <2> QED BY <2>1, <2>2
<1>3. CASE p \in Clerks
  BY <1>1, <1>3, Roles DEF Keeps, ClerkKeeps, Uses, Struct
<1> QED BY <1>2, <1>3, Roles

\* What a step of p may do to the file.
FileStep(p) ==
    /\ DOMAIN accounts \subseteq DOMAIN accounts'
    /\ p \in Customers => DOMAIN accounts' = DOMAIN accounts
    /\ \A i \in DOMAIN accounts : accounts'[i] # accounts[i] =>
            /\ Write(p) /\ i = call[p].offset /\ i \in Uses(p)
            /\ accounts'[i] = Struct(p)
    /\ NumberedFile'

LEMMA FileStepLemma ==
    ASSUME DisjointUse, DInv, NEW p \in Processes,
           ClientStep(p) \/ ServerStep(p) \/ Failure(p)
    PROVE  FileStep(p)
<1>1. NumberedFile /\ DOMAIN accounts \subseteq Nat
  BY FileFacts DEF DInv
<1>2. CASE Write(p)
  <2>1. /\ call[p].offset \in Uses(p) \cap DOMAIN accounts
        /\ Struct(p).accountNumber = call[p].offset
    BY <1>2, TargetUsed DEF Write, At
  <2>2. DOMAIN accounts' = DOMAIN accounts
    <3>1. PICK n \in DOMAIN accounts : DOMAIN accounts = 0..n
      BY DEF DInv, IInv, TypeOK, IsFile
    <3>2. 0..call[p].offset \subseteq 0..n
      BY <1>1, <2>1, <3>1
    <3>3. DOMAIN accounts' = DOMAIN accounts \cup 0..call[p].offset
      BY <1>2 DEF Write, Put
    <3> QED BY <3>1, <3>2, <3>3
  <2>3. \A i \in DOMAIN accounts :
            accounts'[i] = IF i = call[p].offset THEN Struct(p) ELSE accounts[i]
    BY <1>2 DEF Write, Put
  <2>4. NumberedFile'
    BY <1>1, <2>1, <2>2, <2>3 DEF NumberedFile
  <2> QED BY <1>2, <2>1, <2>2, <2>3, <2>4 DEF FileStep
<1>3. CASE accounts' = accounts
  BY <1>1, <1>3 DEF FileStep, NumberedFile
<1>4. CASE AddWrite(p) /\ accounts' = Put(accounts, call[p].offset, call[p].own)
  <2>1. Keeps(p, "append", call[p])
    BY <1>4 DEF DInv, CallsKeep, AddWrite, At
  <2>2. p \in Clerks /\ p \notin Customers
    BY <2>1, Roles DEF Keeps, CustomerKeeps
  <2>3. /\ call[p].offset \notin DOMAIN accounts /\ call[p].offset - 1 \in DOMAIN accounts
        /\ call[p].own.accountNumber = call[p].offset /\ call[p].offset \in Nat
    BY <2>1, <2>2 DEF Keeps, ClerkKeeps, DInv, IInv, TypeOK, Call
  <2>4. DOMAIN accounts' = DOMAIN accounts \cup {call[p].offset}
    <3>1. PICK n \in DOMAIN accounts : DOMAIN accounts = 0..n
      BY DEF DInv, IInv, TypeOK, IsFile
    <3>2. DOMAIN accounts' = DOMAIN accounts \cup 0..call[p].offset
      BY <1>4 DEF Put
    <3>3. n \in Nat /\ call[p].offset = n + 1
      BY <1>1, <2>3, <3>1
    <3> QED BY <3>1, <3>2, <3>3
  <2>5. \A i \in DOMAIN accounts' :
            accounts'[i] = IF i = call[p].offset THEN call[p].own ELSE accounts[i]
    BY <1>4, <2>4 DEF Put
  <2>6. NumberedFile'
    BY <1>1, <2>3, <2>4, <2>5 DEF NumberedFile
  <2> QED BY <2>2, <2>3, <2>4, <2>5, <2>6 DEF FileStep
<1> QED BY <1>2, <1>3, <1>4 DEF ClientStep, ServerStep, Open, To, DepositAmount,
        WithdrawAmount, SendAmount, DeleteRead, AddRead, Log, Find, Lock, AddWrite, Failure,
        LockOrWriteFails, Die

\* A step of one process leaves the records of the others as they are.
LEMMA OthersRecords ==
    ASSUME DisjointUse, NEW p \in Processes, NEW q \in Processes \ {p}, FileStep(p),
           NEW i \in Uses(q) \cap DOMAIN accounts
    PROVE  i \in DOMAIN accounts' /\ accounts'[i] = accounts[i]
BY DEF FileStep, DisjointUse

\* A process's locks after its step are those it had, or one on a record it uses.
LEMMA LocksStep ==
    ASSUME DisjointUse, DInv, NEW p \in Processes,
           ClientStep(p) \/ ServerStep(p) \/ Failure(p)
    PROVE  LocksKeep'
<1>1. Others(p) /\ FileStep(p) /\ held \in [Processes -> SUBSET LockRange]
  BY StepOthers, FileStepLemma DEF DInv, IInv, TypeOK
<1>2. \A r \in held'[p] :
        \/ r \in held[p]
        \/ pc[p] = "lock" /\ r = OneRecord(call[p].offset)
  BY <1>1 DEF ClientStep, ServerStep, Open, To, DepositAmount, WithdrawAmount,
     SendAmount, DeleteRead, AddRead, Log, Find, Lock, Write, AddWrite, Failure,
     LockOrWriteFails, Die, At, AfterScan
<1>3. ASSUME NEW q \in Processes, NEW r \in held'[q]
      PROVE  \E n \in Uses(q) \cap DOMAIN accounts' : r = OneRecord(n)
  <2>1. \E n \in Uses(q) \cap DOMAIN accounts : r = OneRecord(n)
    <3>1. CASE r \in held[q]
      BY <3>1 DEF DInv, LocksKeep
    <3>2. CASE q = p /\ pc[p] = "lock" /\ r = OneRecord(call[p].offset)
      BY <3>2, TargetUsed
    <3> QED BY <1>1, <1>2, <1>3, <3>1, <3>2 DEF Others
  <2> QED BY <1>1, <2>1 DEF FileStep
<1> QED BY <1>3 DEF LocksKeep

-----------------------------------------------------------------------------
(* The calls, and that no customer's account is missed.                    *)

\* Another process's call keeps to its records when the file changes.
LEMMA OthersKeep ==
    ASSUME DisjointUse, DInv, NEW p \in Processes, NEW q \in Processes \ {p},
           FileStep(p), Others(p)
    PROVE  Keeps(q, pc[q], call[q])'
<1>1. Keeps(q, pc[q], call[q]) /\ pc'[q] = pc[q] /\ call'[q] = call[q]
  BY DEF DInv, CallsKeep, Others
<1>2. DOMAIN accounts \subseteq DOMAIN accounts'
  BY DEF FileStep
<1>3. CASE q \in Customers
  <2>1. CustomerKeeps(q, pc[q], call[q])'
    BY <1>1, <1>2, <1>3 DEF Keeps, CustomerKeeps
  <2> QED BY <1>3, <2>1, Roles DEF Keeps
<1>4. CASE q \in Clerks
  <2>1. DOMAIN accounts' = DOMAIN accounts
    BY <1>4, Roles DEF DisjointUse, FileStep
  <2>2. ClerkKeeps(pc[q], call[q])'
    BY <1>1, <1>4, <2>1 DEF Keeps, ClerkKeeps
  <2> QED BY <1>4, <2>2, Roles DEF Keeps
<1> QED BY <1>3, <1>4, Roles

\* A call that has ended has nothing to keep to.
LEMMA EndedKeeps ==
    ASSUME NEW p \in Processes, Ended(p)
    PROVE  Keeps(p, pc[p], call[p])'
BY DEF Ended, Keeps, CustomerKeeps, ClerkKeeps, NoCall, Services

\* A record found under a number is at that place.
LEMMA HoldsPlace ==
    ASSUME NumberedFile, NEW account, NEW number, Holds(account, number)
    PROVE  /\ number \in DOMAIN accounts /\ accounts[number] = account
           /\ account.accountNumber = number
BY DEF Holds, NumberedFile

LEMMA PayNumber ==
    ASSUME NEW account \in Account, NEW n \in Span
    PROVE  Pay(account, n).accountNumber = account.accountNumber
BY DEF Pay, Account

LEMMA CustomerStepKeeps ==
    ASSUME DisjointUse, DInv, NEW p \in Customers, FileStep(p),
           \/ \E service \in Services : Open(p, service)
           \/ To(p) \/ DepositAmount(p) \/ WithdrawAmount(p) \/ SendAmount(p)
    PROVE  Keeps(p, pc[p], call[p])'
<1>1. /\ IInv /\ NumberedFile /\ p \in Processes /\ call[p] \in Call
      /\ CustomerKeeps(p, pc[p], call[p]) /\ Fits(pc[p], call[p])
  BY DEF DInv, IInv, TypeOK, CallsFit, CallsKeep, Keeps, Processes
<1>2. DOMAIN accounts' = DOMAIN accounts
  BY DEF FileStep
<1>3. SUFFICES ASSUME ~Ended(p) PROVE CustomerKeeps(p, pc[p], call[p])'
  BY <1>1, EndedKeeps, Roles DEF Keeps
<1>4. ASSUME NEW service \in Services, Open(p, service)
      PROVE  CustomerKeeps(p, pc[p], call[p])'
  <2>1. Holds(call'[p].own, AccountOf[p])
    BY <1>1, <1>3, <1>4, OpenDoes
  <2>2. call'[p].own.accountNumber = AccountOf[p]
    BY <1>1, <2>1, HoldsPlace
  <2> QED BY <1>1, <1>3, <1>4, <2>2, OpenDoes DEF CustomerKeeps
<1>5. CASE To(p)
  <2>1. pc[p] = "to" /\ call[p].service = "send"
    BY <1>1, <1>5 DEF To, At, Fits
  <2>2. PICK number \in Receivers[p] \ {AccountOf[p]} : Holds(call'[p].receiver, number)
    BY <1>1, <1>3, <1>5, ToDoes
  <2>3. call'[p].receiver.accountNumber = number /\ number \in DOMAIN accounts
    BY <1>1, <2>2, HoldsPlace
  <2>4. /\ pc'[p] = "amount" /\ call'[p].service = "send" /\ call'[p].side = call[p].side
        /\ call'[p].own = call[p].own
    BY <1>1, <1>3, <1>5, ToDoes
  <2> QED BY <1>1, <1>2, <2>1, <2>3, <2>4 DEF CustomerKeeps, Services
<1>6. CASE DepositAmount(p)
  <2>1. pc[p] = "amount" /\ call[p].service = "deposit" /\ call[p].own \in Account
    BY <1>1, <1>6 DEF DepositAmount, At, Call
  <2>2. PICK amount \in Amounts :
            pc'[p] = "log" /\ Paid(call[p], call'[p], amount, amount)
    BY <1>1, <1>3, <1>6, DepositDoes
  <2>3. call'[p].own.accountNumber = AccountOf[p]
    BY <1>1, <2>1, <2>2, AmountSpan, PayNumber DEF Paid, CustomerKeeps, Services
  <2> QED BY <1>1, <2>1, <2>2, <2>3 DEF CustomerKeeps, Paid
<1>7. CASE WithdrawAmount(p)
  <2>1. pc[p] = "amount" /\ call[p].service = "withdraw" /\ call[p].own \in Account
    BY <1>1, <1>7 DEF WithdrawAmount, At, Call
  <2>2. CASE pc'[p] = "hung" /\ call'[p] = call[p]
    BY <1>1, <1>2, <2>1, <2>2 DEF CustomerKeeps
  <2>3. ASSUME NEW amount \in Amounts, pc'[p] = "log",
               Paid(call[p], call'[p], amount, -amount)
        PROVE  CustomerKeeps(p, pc[p], call[p])'
    <3>1. call'[p].own.accountNumber = AccountOf[p]
      BY <1>1, <2>1, <2>3, AmountSpan, PayNumber DEF Paid, CustomerKeeps, Services
    <3> QED BY <1>1, <2>1, <2>3, <3>1 DEF CustomerKeeps, Paid
  <2> QED BY <1>1, <1>7, <2>2, <2>3, WithdrawDoes
<1>8. CASE SendAmount(p)
  <2>1. /\ pc[p] = "amount" /\ call[p].service = "send"
        /\ call[p].own \in Account /\ call[p].receiver \in Account
    BY <1>1, <1>8 DEF SendAmount, At, Call
  <2>2. PICK amount \in Amounts :
            /\ pc'[p] = "find" /\ Paid(call[p], call'[p], amount, -amount)
            /\ call'[p].receiver = Pay(call[p].receiver, amount)
    BY <1>1, <1>3, <1>8, SendDoes
  <2>3. /\ call'[p].own.accountNumber = AccountOf[p]
        /\ call'[p].receiver.accountNumber = call[p].receiver.accountNumber
    BY <1>1, <2>1, <2>2, AmountSpan, PayNumber DEF Paid, CustomerKeeps, Services
  <2> QED BY <1>1, <1>2, <2>1, <2>2, <2>3 DEF CustomerKeeps, Paid
<1> QED BY <1>4, <1>5, <1>6, <1>7, <1>8

LEMMA ClerkStepKeeps ==
    ASSUME DisjointUse, DInv, NEW p \in Clerks, FileStep(p),
           DeleteRead(p) \/ AddRead(p)
    PROVE  Keeps(p, pc[p], call[p])'
<1>1. /\ IInv /\ NumberedFile /\ p \in Processes /\ accounts' = accounts
      /\ DOMAIN Opening \subseteq DOMAIN accounts
      /\ \A i \in DOMAIN accounts : accounts[i] \in Account /\ i \in Nat
  BY FileFacts DEF DInv, Processes, DeleteRead, AddRead
<1>2. SUFFICES ASSUME ~Ended(p) PROVE ClerkKeeps(pc[p], call[p])'
  BY <1>1, EndedKeeps, Roles DEF Keeps
<1>3. CASE DeleteRead(p)
  <2>1. /\ pc'[p] = "lock" /\ call'[p].service = "delete" /\ call'[p].side = "own"
        /\ call'[p].offset \in DeleteTargets \cap Nat
        /\ call'[p].offset \in DOMAIN accounts =>
                call'[p].own = [accounts[call'[p].offset] EXCEPT !.active = FALSE]
    BY <1>1, <1>2, <1>3, DeleteDoes
  <2>2. call'[p].offset \in DOMAIN accounts
    BY <1>1, <2>1 DEF DisjointUse, NumberedByPlace
  <2>3. call'[p].own.accountNumber = call'[p].offset
    <3>1. accounts[call'[p].offset] \in Account
          /\ accounts[call'[p].offset].accountNumber = call'[p].offset
      BY <1>1, <2>2 DEF NumberedFile
    <3> QED BY <2>1, <2>2, <3>1 DEF Account
  <2> QED BY <1>1, <2>1, <2>2, <2>3 DEF ClerkKeeps, Services
<1>4. CASE AddRead(p)
  <2>1. /\ pc'[p] = "append" /\ call'[p].service = "add"
        /\ call'[p].offset \in Nat \ DOMAIN accounts
        /\ call'[p].offset - 1 \in DOMAIN accounts
        /\ call'[p].own.accountNumber = accounts[call'[p].offset - 1].accountNumber + 1
    BY <1>1, <1>2, <1>4, AddReadDoes
  <2>2. call'[p].own.accountNumber = call'[p].offset
    BY <1>1, <2>1 DEF NumberedFile
  <2> QED BY <1>1, <2>1, <2>2 DEF ClerkKeeps, Services
<1> QED BY <1>3, <1>4

LEMMA ServerStepKeeps ==
    ASSUME DisjointUse, DInv, NEW p \in Processes, FileStep(p), ServerStep(p) \/ Failure(p)
    PROVE  Keeps(p, pc[p], call[p])'
<1>1. /\ IInv /\ NumberedFile /\ call[p] \in Call
      /\ Keeps(p, pc[p], call[p]) /\ Fits(pc[p], call[p])
      /\ DOMAIN accounts \subseteq DOMAIN accounts'
  BY DEF DInv, IInv, TypeOK, CallsFit, CallsKeep, FileStep
<1>2. CASE Ended(p)
  BY <1>2, EndedKeeps
<1>3. CASE Log(p) /\ ~Ended(p)
  <2>1. /\ pc[p] = "log" /\ call[p].service \in Services /\ call[p].service # "send"
        /\ pc'[p] = "find" /\ call'[p] = call[p]
    BY <1>1, <1>3, LogDoes DEF Log, At, Fits
  <2>2. p \in Customers /\ p \notin Clerks
    BY <1>1, <2>1, Roles DEF Keeps, ClerkKeeps
  <2> QED BY <1>1, <2>1, <2>2 DEF Keeps, CustomerKeeps
<1>4. CASE Find(p) /\ ~Ended(p)
  <2>1. pc[p] = "find" /\ call[p].service \in Services
    BY <1>1, <1>4 DEF Find, At, Fits
  <2>2. p \in Customers /\ p \notin Clerks
    BY <1>1, <2>1, Roles DEF Keeps, ClerkKeeps
  <2>3. /\ pc'[p] = "lock" /\ call'[p].offset \in DOMAIN accounts
        /\ accounts[call'[p].offset].accountNumber = Target(call[p])
        /\ call'[p].service = call[p].service
        /\ call'[p].side = call[p].side /\ call'[p].own = call[p].own
        /\ call'[p].receiver = call[p].receiver
    BY <1>1, <1>4, FindDoes DEF Target
  <2>4. call'[p].offset = Target(call'[p])
    BY <1>1, <2>3 DEF NumberedFile, Target
  <2> QED BY <1>1, <2>1, <2>2, <2>3, <2>4 DEF Keeps, CustomerKeeps
<1>5. CASE Lock(p)
  <2>1. /\ pc[p] = "lock" /\ pc'[p] = "write" /\ call'[p] = call[p]
        /\ accounts' = accounts
    BY <1>1, <1>5, LockDoes DEF Lock, At
  <2> QED BY <1>1, <2>1 DEF Keeps, CustomerKeeps, ClerkKeeps
<1>6. CASE Write(p) /\ ~Ended(p)
  <2>1. pc[p] = "write" /\ call[p].service = "send"
    BY <1>1, <1>6, WriteDoes DEF Write, At
  <2>2. p \in Customers /\ p \notin Clerks
    BY <1>1, <2>1, Roles DEF Keeps, ClerkKeeps, Services
  <2>3. \/ /\ pc'[p] = "find" /\ call'[p].service = "send" /\ call'[p].own = call[p].own
           /\ call'[p].receiver = call[p].receiver
        \/ pc'[p] = "log" /\ call[p].side = "receiver" /\ call'[p] = call[p]
    BY <1>1, <1>6, WriteDoes
  <2> QED BY <1>1, <2>1, <2>2, <2>3 DEF Keeps, CustomerKeeps, Services
<1>7. CASE Die(p)
  BY <1>1, <1>7 DEF Die, Keeps, CustomerKeeps, ClerkKeeps
<1> QED BY <1>1, <1>2, <1>3, <1>4, <1>5, <1>6, <1>7, OtherStepsDo
        DEF ServerStep, Failure

LEMMA FoundStep ==
    ASSUME DisjointUse, DInv, NEW p \in Processes,
           ClientStep(p) \/ ServerStep(p) \/ Failure(p)
    PROVE  AlwaysFound'
<1>1. TypeOK /\ AlwaysFound /\ Others(p)
  BY StepOthers DEF DInv, IInv
<1>2. SUFFICES ASSUME p \in Customers, told'[p] = "no such account" PROVE FALSE
  BY <1>1 DEF AlwaysFound, Others, Processes
<1>3. ASSUME NEW place, Goto(p, place) PROVE FALSE
  BY <1>1, <1>2, <1>3, GotoDoes DEF AlwaysFound
<1>4. ASSUME NEW m, m # "no such account", Return(p, m) PROVE FALSE
  BY <1>1, <1>2, <1>4, ReturnDoes
<1>5. ASSUME NEW service \in Services, Open(p, service) PROVE FALSE
  <2>1. AccountOf[p] \in Uses(p) \cap DOMAIN accounts
    BY <1>2, FileFacts DEF DisjointUse, Uses
  <2>2. FindAccount(p, AccountOf[p]) # NoRecord
    BY <2>1, Finds
  <2>3. \/ Return(p, "refused") \/ Return(p, "aborted")
        \/ \E place \in PC : Goto(p, place)
    BY <1>5, <2>2 DEF Open, PC
  <2> QED BY <1>3, <1>4, <2>3
<1>6. CASE To(p)
  <2>1. Return(p, "refused") \/ Goto(p, "amount")
    BY <1>6 DEF To
  <2> QED BY <1>3, <1>4, <2>1
<1>7. CASE DepositAmount(p) \/ WithdrawAmount(p) \/ SendAmount(p)
  <2>1. Return(p, "refused") \/ Goto(p, "log") \/ Goto(p, "hung") \/ Goto(p, "find")
    BY <1>7 DEF DepositAmount, WithdrawAmount, SendAmount
  <2> QED BY <1>3, <1>4, <2>1
<1>8. CASE ServerStep(p) \/ LockOrWriteFails(p)
  <2>1. \/ Return(p, "success") \/ Return(p, "aborted")
        \/ \E place \in PC : Goto(p, place)
    BY <1>8 DEF ServerStep, LockOrWriteFails, Log, Find, Lock, Write, AddWrite, PC
  <2> QED BY <1>3, <1>4, <2>1
<1>9. ~Die(p)
  BY <1>1, <1>2 DEF Die, AlwaysFound
<1> QED BY <1>2, <1>5, <1>6, <1>7, <1>8, <1>9, Roles DEF ClientStep, Failure

-----------------------------------------------------------------------------
(* The invariant, and what follows from it.                                *)

LEMMA InitDInv == ASSUME DisjointUse PROVE Init => DInv
<1> SUFFICES ASSUME Init PROVE DInv
  OBVIOUS
<1>1. NumbersKept /\ NumberedFile
  BY DEF Init, NumbersKept, NumberedFile, DisjointUse, NumberedByPlace
<1>2. CallsKeep
  BY DEF Init, CallsKeep, Keeps, CustomerKeeps, ClerkKeeps, NoCall, Services
<1>3. LocksKeep /\ AlwaysFound
  BY DEF Init, LocksKeep, AlwaysFound, Processes
<1> QED BY <1>1, <1>2, <1>3, InitIInv DEF DInv

LEMMA NextDInv ==
    ASSUME DisjointUse
    PROVE  DInv /\ IInv' /\ NumbersKept' /\ [Next]_vars => DInv'
<1> SUFFICES ASSUME DInv, IInv', NumbersKept', [Next]_vars PROVE DInv'
  OBVIOUS
<1>1. CASE UNCHANGED vars
  BY <1>1 DEF vars, DInv, NumberedFile, CallsKeep, Keeps, CustomerKeeps, ClerkKeeps,
     LocksKeep, AlwaysFound
<1>2. ASSUME NEW p \in Processes, ClientStep(p) \/ ServerStep(p) \/ Failure(p)
      PROVE  DInv'
  <2>1. FileStep(p) /\ Others(p)
    BY <1>2, FileStepLemma, StepOthers DEF DInv, IInv
  <2>2. Keeps(p, pc[p], call[p])'
    BY <1>2, <2>1, CustomerStepKeeps, ClerkStepKeeps, ServerStepKeeps DEF ClientStep
  <2>3. CallsKeep'
    BY <2>1, <2>2, OthersKeep DEF CallsKeep
  <2> QED BY <1>2, <2>1, <2>3, LocksStep, FoundStep DEF DInv, FileStep
<1> QED BY <1>1, <1>2 DEF Next

\* What the processes keep to, in every reachable state.
THEOREM DisjointInvariance == ASSUME DisjointUse PROVE Spec => []DInv
<1>1. Spec => [](NumbersKept /\ StructsInPlace)
  <2>1. Init => NumbersKept /\ StructsInPlace
    BY DEF Init, NumbersKept, StructsInPlace, InPlace, Places
  <2> QED BY <2>1, Invariance, NextInPlace, PTL DEF Spec
<1> QED BY <1>1, InitDInv, NextDInv, Invariance, PTL DEF Spec

\* While no two processes share an account, no customer is told that its account
\* does not exist: the only way to miss a record is that another has locked it.
THEOREM NoAccountMissed == ASSUME DisjointUse PROVE Spec => []NotFoundMeansAbsent
<1>1. DInv => NotFoundMeansAbsent
  BY DEF DInv, AlwaysFound, NotFoundMeansAbsent
<1> QED BY <1>1, DisjointInvariance, PTL

\* The accounts a process has in hand are those it uses.
LEMMA InHandUsed ==
    ASSUME DInv, NEW p \in Processes, NEW n \in InHand(p) \cap DOMAIN accounts
    PROVE  n \in Uses(p)
<1>1. Keeps(p, pc[p], call[p]) /\ Fits(pc[p], call[p])
  BY DEF DInv, CallsKeep, IInv, CallsFit
<1>2. CASE p \in Customers
  BY <1>1, <1>2 DEF Keeps, InHand, Uses, CustomerKeeps, Services
<1>3. CASE p \in Clerks
  <2>1. /\ call[p].service = "delete" /\ n = call[p].own.accountNumber
        /\ pc[p] # "menu"
    BY <1>1, <1>3 DEF Keeps, InHand, ClerkKeeps, Services, Fits, NoCall
  <2>2. pc[p] \in {"lock", "write"}
    BY <1>1, <1>3, <2>1 DEF Keeps, ClerkKeeps
  <2> QED BY <1>1, <1>3, <2>1, <2>2, Roles DEF Keeps, ClerkKeeps, Uses
<1> QED BY <1>2, <1>3, Roles

\* While no two processes share an account, nobody changes a record between a
\* customer's read of it, or a clerk's test of its balance, and the write that
\* follows, wherever either is delayed, killed or fails.
THEOREM NothingLostApart == ASSUME DisjointUse PROVE Spec => NoLostUpdate
<1>1. DInv /\ [Next]_vars =>
        [\A p \in Processes : \A i \in DOMAIN accounts :
            /\ accounts[i].accountNumber \in InHand(p)
            /\ accounts'[i] # accounts[i]
            => Write(p)]_vars
  <2> SUFFICES ASSUME DInv, Next, NEW p \in Processes, NEW i \in DOMAIN accounts,
                      accounts[i].accountNumber \in InHand(p), accounts'[i] # accounts[i]
               PROVE  Write(p)
    OBVIOUS
  <2>1. PICK q \in Processes : ClientStep(q) \/ ServerStep(q) \/ Failure(q)
    BY DEF Next
  <2>2. Write(q) /\ i \in Uses(q)
    BY <2>1, FileStepLemma DEF FileStep
  <2>3. i \in Uses(p)
    BY InHandUsed DEF DInv, NumberedFile
  <2>4. p = q
    BY <2>2, <2>3 DEF DisjointUse
  <2> QED BY <2>2, <2>4
<1> QED BY <1>1, DisjointInvariance, PTL DEF Spec, NoLostUpdate

-----------------------------------------------------------------------------
(***************************************************************************)
(* The books.  With nobody else at its accounts the structs of a call are  *)
(* as fresh as when they were read, so each step changes a balance, the    *)
(* log and what the call still owes by amounts that cancel out.            *)
(***************************************************************************)

\* A payment that does not wrap.
LEMMA PayExact ==
    ASSUME NEW account \in Account, NEW n \in Int, account.balance + n \in CInt
    PROVE  Pay(account, n).balance = account.balance + n
<1>1. Wrap(account.balance + n) = account.balance + n
  BY IntFacts DEF Wrap, CInt
<1> QED BY <1>1 DEF Pay, Account

\* Where a customer's structs come from.
LEMMA CustomerRecords ==
    ASSUME DisjointUse, DInv, NEW p \in Customers, call[p].service \in Services
    PROVE  /\ AccountOf[p] \in Uses(p) \cap DOMAIN accounts
           /\ call[p].own.accountNumber = AccountOf[p]
           /\ call[p].service = "send" /\ pc[p] # "to" =>
                /\ call[p].receiver.accountNumber \in Uses(p) \cap DOMAIN accounts
                /\ call[p].receiver.accountNumber # AccountOf[p]
<1>1. CustomerKeeps(p, pc[p], call[p])
  BY DEF DInv, CallsKeep, Keeps, Processes
<1>2. AccountOf[p] \in DOMAIN accounts
  BY FileFacts DEF DisjointUse
<1> QED BY <1>1, <1>2 DEF CustomerKeeps, Uses

LEMMA OthersFresh ==
    ASSUME DisjointUse, DInv, CallsFresh, NEW p \in Processes, NEW q \in Processes \ {p},
           FileStep(p), Others(p)
    PROVE  Fresh(q, pc[q], call[q])'
<1>1. Fresh(q, pc[q], call[q]) /\ pc'[q] = pc[q] /\ call'[q] = call[q]
  BY DEF CallsFresh, Others
<1>2. \A i \in Uses(q) \cap DOMAIN accounts : accounts'[i] = accounts[i]
  BY OthersRecords
<1>3. CASE q \in Customers /\ call[q].service \in Services
  <2>1. accounts'[AccountOf[q]] = accounts[AccountOf[q]]
    BY <1>2, <1>3, CustomerRecords
  <2>2. call[q].service = "send" /\ pc[q] # "to" =>
            accounts'[call[q].receiver.accountNumber]
                = accounts[call[q].receiver.accountNumber]
    BY <1>2, <1>3, CustomerRecords
  <2> QED BY <1>1, <1>3, <2>1, <2>2, Roles DEF Fresh, Change
<1>4. CASE q \in Clerks /\ pc[q] \in {"lock", "write"}
  <2>1. accounts'[call[q].offset] = accounts[call[q].offset]
    BY <1>2, <1>4, TargetUsed
  <2> QED BY <1>1, <1>4, <2>1, Roles DEF Fresh
<1> QED BY <1>1, <1>3, <1>4 DEF Fresh

LEMMA EndedFresh ==
    ASSUME NEW p \in Processes, Ended(p)
    PROVE  Fresh(p, pc[p], call[p])'
BY DEF Ended, Fresh, NoCall, Services

LEMMA CustomerStepFresh ==
    ASSUME DisjointUse, DInv, CallsFresh, Headroom, NEW p \in Customers,
           \/ \E service \in Services : Open(p, service)
           \/ To(p) \/ DepositAmount(p) \/ WithdrawAmount(p) \/ SendAmount(p)
    PROVE  Fresh(p, pc[p], call[p])'
<1>1. /\ IInv /\ NumberedFile /\ p \in Processes /\ p \notin Clerks
      /\ call[p] \in Call /\ call[p].own \in Account /\ call[p].receiver \in Account
      /\ Fresh(p, pc[p], call[p]) /\ Fits(pc[p], call[p])
      /\ CustomerKeeps(p, pc[p], call[p])
  BY ConstantsAssumption DEF DInv, IInv, TypeOK, Call, CallsFit, CallsKeep, Keeps,
     CallsFresh, Processes
<1>2. accounts' = accounts
  BY DEF Open, To, DepositAmount, WithdrawAmount, SendAmount
<1>3. SUFFICES ASSUME ~Ended(p) PROVE Fresh(p, pc[p], call[p])'
  BY <1>1, EndedFresh
<1>4. ASSUME NEW service \in Services, Open(p, service)
      PROVE  Fresh(p, pc[p], call[p])'
  <2>1. /\ pc'[p] = (IF service = "send" THEN "to" ELSE "amount")
        /\ call'[p].service = service /\ Holds(call'[p].own, AccountOf[p])
    BY <1>1, <1>3, <1>4, OpenDoes
  <2>2. call'[p].own = accounts[AccountOf[p]]
    BY <1>1, <2>1, HoldsPlace
  <2> QED BY <1>1, <1>2, <2>1, <2>2 DEF Fresh
<1>5. CASE To(p)
  <2>1. /\ pc'[p] = "amount" /\ call'[p].own = call[p].own
        /\ \E n \in Receivers[p] \ {AccountOf[p]} : Holds(call'[p].receiver, n)
    BY <1>1, <1>3, <1>5, ToDoes
  <2>2. call'[p].receiver = accounts[call'[p].receiver.accountNumber]
    BY <1>1, <2>1, HoldsPlace
  <2>3. call[p].own.balance = accounts[AccountOf[p]].balance
    BY <1>1, <1>5 DEF To, At, Fits, Fresh, Services
  <2> QED BY <1>1, <1>2, <2>1, <2>2, <2>3 DEF Fresh
<1>6. ASSUME pc[p] = "amount", call[p].service \in Services
      PROVE  /\ call[p].own.balance = accounts[AccountOf[p]].balance
             /\ call[p].service = "send" =>
                    call[p].receiver.balance
                        = accounts[call[p].receiver.accountNumber].balance
             /\ \A n \in Amounts :
                    /\ call[p].own.balance + n \in CInt
                    /\ call[p].own.balance + (-n) \in CInt
                    /\ call[p].service = "send" => call[p].receiver.balance + n \in CInt
  <2>1. /\ call[p].own.balance = accounts[AccountOf[p]].balance
        /\ call[p].service = "send" =>
                call[p].receiver.balance
                    = accounts[call[p].receiver.accountNumber].balance
    BY <1>1, <1>6 DEF Fresh
  <2>2. /\ AccountOf[p] \in DOMAIN accounts
        /\ call[p].service = "send" => call[p].receiver.accountNumber \in DOMAIN accounts
    BY <1>6, CustomerRecords
  <2>3. ASSUME NEW n \in Amounts
        PROVE  /\ call[p].own.balance + n \in CInt
               /\ call[p].own.balance + (-n) \in CInt
               /\ call[p].service = "send" => call[p].receiver.balance + n \in CInt
    <3>1. n \in Int /\ call[p].own.balance \in Int
      BY <1>1, AmountSpan, IntFacts DEF Account
    <3>2. call[p].own.balance + (-n) = call[p].own.balance - n
      BY <3>1
    <3> QED BY <2>1, <2>2, <3>2 DEF Headroom
  <2> QED BY <2>1, <2>3
<1>7. CASE DepositAmount(p)
  <2>1. pc[p] = "amount" /\ call[p].service = "deposit"
    BY <1>7 DEF DepositAmount, At
  <2>2. PICK n \in Amounts : pc'[p] = "log" /\ Paid(call[p], call'[p], n, n)
    BY <1>1, <1>3, <1>7, DepositDoes
  <2>3. call'[p].own.balance = call[p].own.balance + n
    BY <1>1, <1>6, <2>1, <2>2, AmountSpan, PayExact DEF Paid, Services
  <2> QED BY <1>1, <1>2, <1>6, <2>1, <2>2, <2>3 DEF Fresh, Paid, Change, Services
<1>8. CASE WithdrawAmount(p)
  <2>1. pc[p] = "amount" /\ call[p].service = "withdraw"
    BY <1>8 DEF WithdrawAmount, At
  <2>2. CASE pc'[p] = "hung"
    BY <1>1, <2>2 DEF Fresh
  <2>3. ASSUME NEW n \in Amounts, pc'[p] = "log", Paid(call[p], call'[p], n, -n)
        PROVE  Fresh(p, pc[p], call[p])'
    <3>1. call'[p].own.balance = call[p].own.balance + (-n)
      BY <1>1, <1>6, <2>1, <2>3, AmountSpan, PayExact DEF Paid, Services
    <3> QED BY <1>1, <1>2, <1>6, <2>1, <2>3, <3>1 DEF Fresh, Paid, Change, Services
  <2> QED BY <1>1, <1>8, <2>2, <2>3, WithdrawDoes
<1>9. CASE SendAmount(p)
  <2>1. pc[p] = "amount" /\ call[p].service = "send"
    BY <1>9 DEF SendAmount, At
  <2>2. PICK n \in Amounts :
            /\ pc'[p] = "find" /\ Paid(call[p], call'[p], n, -n)
            /\ call'[p].receiver = Pay(call[p].receiver, n)
    BY <1>1, <1>3, <1>9, SendDoes
  <2>3. /\ call'[p].own.balance = call[p].own.balance + (-n)
        /\ call'[p].receiver.balance = call[p].receiver.balance + n
    BY <1>1, <1>6, <2>1, <2>2, AmountSpan, PayExact DEF Paid, Services
  <2>4. call'[p].receiver.accountNumber = call[p].receiver.accountNumber
    BY <1>1, <2>2, AmountSpan, PayNumber
  <2> QED BY <1>1, <1>2, <1>6, <2>1, <2>2, <2>3, <2>4 DEF Fresh, Paid, Change, Services
<1> QED BY <1>4, <1>5, <1>7, <1>8, <1>9

LEMMA ClerkStepFresh ==
    ASSUME DisjointUse, DInv, NEW p \in Clerks, DeleteRead(p) \/ AddRead(p)
    PROVE  Fresh(p, pc[p], call[p])'
<1>1. IInv /\ p \in Processes /\ p \notin Customers /\ accounts' = accounts
  BY ConstantsAssumption DEF DInv, Processes, DeleteRead, AddRead
<1>2. SUFFICES ASSUME ~Ended(p), DeleteRead(p) PROVE Fresh(p, pc[p], call[p])'
  <2>1. AddRead(p) => Ended(p) \/ pc'[p] = "append"
    BY <1>1, AddReadDoes
  <2> QED BY <1>1, <2>1, EndedFresh DEF Fresh
<1>3. /\ call'[p].offset \in DeleteTargets \cap Nat
      /\ call'[p].offset \in DOMAIN accounts =>
                call'[p].own = [accounts[call'[p].offset] EXCEPT !.active = FALSE]
  BY <1>1, <1>2, DeleteDoes
<1>4. call'[p].offset \in DOMAIN accounts /\ accounts[call'[p].offset] \in Account
  BY <1>3, FileFacts DEF DisjointUse, NumberedByPlace
<1>5. call'[p].own.balance = accounts[call'[p].offset].balance
  BY <1>3, <1>4 DEF Account
<1> QED BY <1>1, <1>5 DEF Fresh

LEMMA ServerStepFresh ==
    ASSUME DisjointUse, DInv, CallsFresh, NEW p \in Processes, FileStep(p),
           ServerStep(p) \/ Failure(p)
    PROVE  Fresh(p, pc[p], call[p])'
<1>1. /\ IInv /\ Keeps(p, pc[p], call[p]) /\ Fits(pc[p], call[p])
      /\ Fresh(p, pc[p], call[p]) /\ call[p] \in Call
  BY DEF DInv, IInv, TypeOK, CallsFit, CallsKeep, CallsFresh
<1>2. CASE Ended(p)
  BY <1>2, EndedFresh
<1>3. CASE Log(p) /\ ~Ended(p)
  <2>1. /\ pc[p] = "log" /\ call[p].service # "send"
        /\ pc'[p] = "find" /\ call'[p] = call[p] /\ accounts' = accounts
    BY <1>1, <1>3, LogDoes DEF Log, At
  <2> QED BY <1>1, <2>1 DEF Fresh, Change
<1>4. CASE Find(p) /\ ~Ended(p)
  <2>1. /\ pc[p] = "find" /\ call[p].service \in Services /\ accounts' = accounts
    BY <1>1, <1>4 DEF Find, At, Fits
  <2>2. p \in Customers /\ p \notin Clerks
    BY <1>1, <2>1, Roles DEF Keeps, ClerkKeeps
  <2>3. /\ pc'[p] = "lock" /\ call'[p].service = call[p].service
        /\ call'[p].side = call[p].side /\ call'[p].own = call[p].own
        /\ call'[p].receiver = call[p].receiver /\ call'[p].amount = call[p].amount
    BY <1>1, <1>4, FindDoes
  <2> QED BY <1>1, <2>1, <2>2, <2>3 DEF Fresh, Change
<1>5. CASE Lock(p)
  <2>1. /\ pc[p] = "lock" /\ pc'[p] = "write" /\ call'[p] = call[p]
        /\ accounts' = accounts
    BY <1>1, <1>5, LockDoes DEF Lock, At
  <2> QED BY <1>1, <2>1 DEF Fresh, Change
<1>6. CASE Write(p) /\ ~Ended(p)
  <2>1. pc[p] = "write" /\ call[p].service = "send" /\ call[p].service \in Services
    BY <1>1, <1>6, WriteDoes DEF Write, At, Services
  <2>2. p \in Customers /\ p \notin Clerks
    BY <1>1, <2>1, Roles DEF Keeps, ClerkKeeps
  <2>3. CASE /\ pc'[p] = "find" /\ call'[p].side = "receiver" /\ call[p].side = "own"
             /\ call'[p].receiver = call[p].receiver /\ call'[p].amount = call[p].amount
    <3>1. call[p].offset = AccountOf[p]
      BY <1>1, <2>1, <2>2, <2>3 DEF Keeps, CustomerKeeps, Target
    <3>2. /\ call[p].receiver.accountNumber \in DOMAIN accounts
          /\ call[p].receiver.accountNumber # AccountOf[p]
      BY <2>1, <2>2, CustomerRecords
    <3>3. accounts'[call[p].receiver.accountNumber]
                = accounts[call[p].receiver.accountNumber]
      BY <3>1, <3>2 DEF FileStep
    <3> QED BY <1>1, <2>1, <2>2, <2>3, <3>3 DEF Fresh
  <2>4. CASE pc'[p] = "log" /\ call[p].side = "receiver" /\ call'[p] = call[p]
    BY <2>2, <2>4 DEF Fresh
  <2> QED BY <1>1, <1>6, <2>3, <2>4, WriteDoes
<1>7. CASE Die(p)
  BY <1>1, <1>7 DEF Die, Fresh, Change
<1> QED BY <1>1, <1>2, <1>3, <1>4, <1>5, <1>6, <1>7, OtherStepsDo
        DEF ServerStep, Failure

LEMMA NextFresh ==
    ASSUME DisjointUse
    PROVE  DInv /\ CallsFresh /\ Headroom /\ [Next]_vars => CallsFresh'
<1> SUFFICES ASSUME DInv, CallsFresh, Headroom, [Next]_vars PROVE CallsFresh'
  OBVIOUS
<1>1. CASE UNCHANGED vars
  BY <1>1 DEF vars, CallsFresh, Fresh, Change
<1>2. ASSUME NEW p \in Processes, ClientStep(p) \/ ServerStep(p) \/ Failure(p)
      PROVE  CallsFresh'
  <2>1. FileStep(p) /\ Others(p)
    BY <1>2, FileStepLemma, StepOthers DEF DInv, IInv
  <2>2. Fresh(p, pc[p], call[p])'
    BY <1>2, <2>1, CustomerStepFresh, ClerkStepFresh, ServerStepFresh DEF ClientStep
  <2> QED BY <2>1, <2>2, OthersFresh DEF CallsFresh
<1> QED BY <1>1, <1>2 DEF Next

-----------------------------------------------------------------------------
(* What a call owes to the books of account n, by its place.               *)

Owed(place, c, n) ==
    LET ofOwn(amount) == IF n = c.own.accountNumber THEN amount ELSE 0
        ofReceiver(amount) == IF n = c.receiver.accountNumber THEN amount ELSE 0
        logged == place \in {"find", "lock", "write"}
    IN  IF c.service = "deposit" /\ logged THEN ofOwn(-c.amount)
        ELSE IF c.service = "withdraw" /\ logged THEN ofOwn(c.amount)
        ELSE IF c.service = "send" /\ place = "log"
             THEN ofOwn(-c.amount) + ofReceiver(c.amount)
        ELSE IF c.service = "send" /\ c.side = "receiver" THEN ofOwn(-c.amount)
        ELSE 0

\* A receiver's number is not one of the two that stand for no account.
Named(place, c) ==
    c.service = "send" /\ place = "log" => c.receiver.accountNumber \in Nat

LEMMA OwedType ==
    ASSUME NEW c \in Call, NEW place \in PC, NEW n \in Nat
    PROVE  Owed(place, c, n) \in Int
<1>1. c.amount \in Int
  BY DEF Call
<1> QED BY <1>1 DEF Owed

LEMMA PendingIs ==
    ASSUME NEW p \in Processes, call[p] \in Call, NEW n \in Nat, Named(pc[p], call[p])
    PROVE  Pending(p, n) = Owed(pc[p], call[p], n)
<1>1. /\ call[p].amount \in Int /\ call[p].own.accountNumber \in Int
      /\ call[p].receiver.accountNumber \in Int
  BY DEF Call, Account
<1> QED BY <1>1 DEF Pending, Owed, Effect, Deposited, Withdrawn, Named

LEMMA PendingWillBe ==
    ASSUME NEW p \in Processes, call'[p] \in Call, NEW n \in Nat, Named(pc[p], call[p])'
    PROVE  Pending(p, n)' = Owed(pc'[p], call'[p], n)
<1>1. /\ call'[p].amount \in Int /\ call'[p].own.accountNumber \in Int
      /\ call'[p].receiver.accountNumber \in Int
  BY DEF Call, Account
<1> QED BY <1>1 DEF Pending, Owed, Effect, Deposited, Withdrawn, Named

\* In the states of disjoint use every receiver is an account of the file.
LEMMA AllNamed ==
    ASSUME DInv, NEW p \in Processes
    PROVE  Named(pc[p], call[p])
<1>1. Keeps(p, pc[p], call[p])
  BY DEF DInv, CallsKeep
<1>2. CASE p \in Customers
  BY <1>1, <1>2, FileFacts DEF Keeps, CustomerKeeps, Named
<1>3. CASE p \in Clerks
  BY <1>1, <1>3 DEF Keeps, ClerkKeeps, Named
<1> QED BY <1>2, <1>3, Roles

\* An entry in the log adds its effect to what is logged.
LEMMA LoggedAppend ==
    ASSUME transactions \in Seq(Transaction), NEW entry \in Transaction, NEW n \in Nat,
           transactions' = Append(transactions, entry)
    PROVE  Logged(n)' = Logged(n) + Effect(entry, n)
<1> DEFINE f == [i \in DOMAIN transactions |-> Effect(transactions[i], n)]
           g == [i \in DOMAIN transactions' |-> Effect(transactions'[i], n)]
           m == Len(transactions)
           last == m + 1
<1>1. \A t \in Transaction : Effect(t, n) \in Int
  BY DEF Effect, Transaction
<1>2. /\ DOMAIN transactions' = 1..last /\ DOMAIN transactions = 1..last \ {last}
      /\ Len(transactions) \in Nat
  <2>1. /\ Len(transactions) \in Nat /\ DOMAIN transactions = 1..Len(transactions)
        /\ DOMAIN transactions' = 1..Len(transactions')
        /\ Len(transactions') = Len(transactions) + 1
    OBVIOUS
  <2>2. 1..Len(transactions) = 1..last \ {last}
    BY <2>1
  <2> QED BY <2>1, <2>2
<1>3. /\ transactions'[last] = entry
      /\ \A i \in 1..last \ {last} : transactions'[i] = transactions[i]
      /\ \A i \in DOMAIN transactions : transactions[i] \in Transaction
  OBVIOUS
<1>4. f \in [1..last \ {last} -> Int] /\ g \in [1..last -> Int]
  <2>1. \A i \in 1..last : transactions'[i] \in Transaction
    BY <1>2, <1>3
  <2>2. \A i \in 1..last : Effect(transactions'[i], n) \in Int
    BY <1>1, <2>1
  <2>3. \A i \in 1..last \ {last} : Effect(transactions[i], n) \in Int
    BY <1>1, <1>2, <1>3
  <2> HIDE DEF last
  <2> QED BY <1>2, <2>2, <2>3
<1>5. (\A i \in 1..last \ {last} : f[i] = g[i]) /\ g[last] = Effect(entry, n)
  BY <1>2, <1>3
<1>6. IsFiniteSet(1..last) /\ last \in 1..last
  BY <1>2, FS_Interval
<1>7. f \in [1..m -> Int] /\ g \in [1..(m + 1) -> Int] /\ m \in Nat /\ last = m + 1
      /\ \A i \in 1..m : f[i] = g[i]
  BY <1>2, <1>4, <1>5
<1> HIDE DEF f, g, last, m
<1>8. SumFunction(g) = SumFunction(f) + g[last]
  BY <1>7, SumAppend
<1> QED BY <1>5, <1>8 DEF Logged, f, g

LEMMA LoggedType ==
    ASSUME transactions \in Seq(Transaction), NEW n \in Nat
    PROVE  Logged(n) \in Int
<1> DEFINE f == [i \in DOMAIN transactions |-> Effect(transactions[i], n)]
<1>1. \A t \in Transaction : Effect(t, n) \in Int
  BY DEF Effect, Transaction
<1>2. DOMAIN transactions = 1..Len(transactions) /\ Len(transactions) \in Nat
  OBVIOUS
<1>3. \A i \in DOMAIN transactions : transactions[i] \in Transaction
  OBVIOUS
<1>4. f \in [1..Len(transactions) -> Int]
  BY <1>1, <1>2, <1>3
<1>5. IsFiniteSet(1..Len(transactions))
  BY <1>2, FS_Interval
<1> HIDE DEF f
<1>6. SumFunction(f) \in Int
  BY <1>4, <1>5, SumType
<1> QED BY <1>6 DEF Logged, f

-----------------------------------------------------------------------------
(* Each step changes balance, log and debt of an account consistently.     *)

Balanced(p, n) ==
    accounts'[n].balance - accounts[n].balance =
        (Logged(n)' - Logged(n)) + (Owed(pc'[p], call'[p], n) - Owed(pc[p], call[p], n))

\* A step that changes none of the three.
LEMMA NothingOwed ==
    ASSUME DInv, NEW p \in Processes, NEW n \in DOMAIN accounts,
           accounts' = accounts, transactions' = transactions,
           Owed(pc'[p], call'[p], n) = Owed(pc[p], call[p], n)
    PROVE  Balanced(p, n)
<1>1. n \in Nat /\ accounts[n] \in Account
  BY FileFacts
<1>2. accounts[n].balance \in Int
  BY <1>1, IntFacts DEF Account
<1>3. Logged(n) \in Int /\ Logged(n)' = Logged(n)
  BY <1>1, LoggedType DEF DInv, IInv, TypeOK, Logged
<1>4. Owed(pc[p], call[p], n) \in Int
  BY <1>1, OwedType DEF DInv, IInv, TypeOK
<1> QED BY <1>2, <1>3, <1>4 DEF Balanced

LEMMA EndedOwes ==
    ASSUME NEW p \in Processes, Ended(p), NEW n
    PROVE  Owed(pc'[p], call'[p], n) = 0
BY DEF Ended, Owed, NoCall

LEMMA ClientBalanced ==
    ASSUME DisjointUse, DInv, NEW p \in Processes, ClientStep(p),
           NEW n \in DOMAIN accounts
    PROVE  Balanced(p, n)
<1>1. /\ IInv /\ Keeps(p, pc[p], call[p]) /\ Fits(pc[p], call[p])
      /\ accounts' = accounts /\ transactions' = transactions
  BY DEF DInv, IInv, TypeOK, CallsFit, CallsKeep, ClientStep, Open, To, DepositAmount,
     WithdrawAmount, SendAmount, DeleteRead, AddRead
<1>2. Owed(pc[p], call[p], n) = 0 /\ Owed(pc'[p], call'[p], n) = 0
  <2>1. ASSUME p \in Customers, NEW service \in Services, Open(p, service)
        PROVE  Owed(pc[p], call[p], n) = 0 /\ Owed(pc'[p], call'[p], n) = 0
    <3>1. call[p] = NoCall /\ p \in Processes
      BY <1>1, <2>1 DEF Open, Enter, At, Fits
    <3>2. Owed(pc[p], call[p], n) = 0
      BY <3>1 DEF Owed, NoCall
    <3>3. \/ Ended(p)
          \/ /\ pc'[p] \in {"to", "amount"}
             /\ call'[p].side = "own"
      BY <1>1, <2>1, OpenDoes
    <3> QED BY <3>1, <3>2, <3>3, EndedOwes DEF Owed
  <2>2. CASE p \in Customers /\ To(p)
    <3>1. call[p].service = "send" /\ call[p].side = "own" /\ pc[p] = "to"
      BY <1>1, <2>2 DEF To, At, Fits, Keeps, CustomerKeeps
    <3> QED BY <1>1, <2>2, <3>1, ToDoes, EndedOwes DEF Owed
  <2>3. CASE p \in Customers /\ DepositAmount(p)
    <3>1. call[p].service = "deposit" /\ pc[p] = "amount"
      BY <2>3 DEF DepositAmount, At
    <3> QED BY <1>1, <2>3, <3>1, DepositDoes, EndedOwes DEF Owed, Paid
  <2>4. CASE p \in Customers /\ WithdrawAmount(p)
    <3>1. call[p].service = "withdraw" /\ pc[p] = "amount"
      BY <2>4 DEF WithdrawAmount, At
    <3> QED BY <1>1, <2>4, <3>1, WithdrawDoes DEF Owed, Paid
  <2>5. CASE p \in Customers /\ SendAmount(p)
    <3>1. call[p].service = "send" /\ call[p].side = "own" /\ pc[p] = "amount"
      BY <1>1, <2>5 DEF SendAmount, At, Keeps, CustomerKeeps
    <3> QED BY <1>1, <2>5, <3>1, SendDoes, EndedOwes DEF Owed, Paid
  <2>6. CASE p \in Clerks /\ (DeleteRead(p) \/ AddRead(p))
    <3>1. call[p] = NoCall
      BY <1>1, <2>6 DEF DeleteRead, AddRead, Enter, At, Fits
    <3>2. Ended(p) \/ call'[p].service \in {"delete", "add"}
      BY <1>1, <2>6, DeleteDoes, AddReadDoes
    <3> QED BY <1>1, <2>6, <3>1, <3>2, EndedOwes DEF Owed, NoCall
  <2> QED BY <2>1, <2>2, <2>3, <2>4, <2>5, <2>6, ClientStep(p) DEF ClientStep
<1> QED BY <1>1, <1>2, NothingOwed

\* The entry in the log: what is logged is no longer owed, or is owed from then on.
LEMMA LogBalanced ==
    ASSUME DisjointUse, FilesMayFail = FALSE, DInv, NEW p \in Processes, Log(p),
           NEW n \in DOMAIN accounts
    PROVE  Balanced(p, n)
<1> DEFINE c == call[p]
           to == CASE c.service = "deposit" -> Deposited
                   [] c.service = "withdraw" -> Withdrawn
                   [] c.service = "send" -> c.receiver.accountNumber
           entry == [from |-> c.own.accountNumber, to |-> to, amount |-> c.amount]
<1>1. /\ IInv /\ c \in Call /\ pc[p] = "log" /\ c.service \in Services
      /\ Named("log", c) /\ transactions \in Seq(Transaction)
      /\ accounts' = accounts
  BY AllNamed DEF DInv, IInv, TypeOK, Log, At, CallsFit, Fits
<1>2. /\ c.amount \in Int /\ c.own.accountNumber \in Int
      /\ c.receiver.accountNumber \in Int
  BY <1>1 DEF Call, Account
<1>3. n \in Nat /\ accounts[n].balance \in Int
  BY FileFacts, IntFacts DEF Account
<1>4. /\ c.service = "deposit" => to = -2
      /\ c.service = "withdraw" => to = -1
      /\ c.service = "send" => to = c.receiver.accountNumber
  BY DEF Deposited, Withdrawn
<1>5. entry \in Transaction /\ entry.from = c.own.accountNumber /\ entry.to = to
      /\ entry.amount = c.amount
  <2>1. to \in Int
    BY <1>1, <1>2, <1>4 DEF Services
  <2> HIDE DEF c, to
  <2> QED BY <1>2, <2>1 DEF Transaction
<1>6. transactions' = Append(transactions, entry)
  BY DEF Log
<1>7. \/ c.service = "send" /\ Ended(p)
      \/ c.service # "send" /\ pc'[p] = "find" /\ call'[p] = c
  BY <1>1, LogDoes
<1> HIDE DEF c, to, entry
<1>8. Logged(n)' = Logged(n) + Effect(entry, n) /\ Logged(n) \in Int
  BY <1>1, <1>3, <1>5, <1>6, LoggedAppend, LoggedType
<1>9. Effect(entry, n) = Owed("log", c, n) - Owed(pc'[p], call'[p], n)
      /\ Effect(entry, n) \in Int
      /\ Owed("log", c, n) \in Int /\ Owed(pc'[p], call'[p], n) \in Int
  <2>1. CASE c.service = "send" /\ Ended(p)
    <3>1. Owed(pc'[p], call'[p], n) = 0
      BY <2>1, EndedOwes
    <3>2. c.receiver.accountNumber # -2
      BY <1>1, <2>1 DEF Named
    <3> QED BY <1>2, <1>3, <1>4, <1>5, <2>1, <3>1, <3>2 DEF Effect, Owed, Deposited
  <2>2. CASE c.service = "deposit" /\ pc'[p] = "find" /\ call'[p] = c
    BY <1>2, <1>3, <1>4, <1>5, <2>2 DEF Effect, Owed, Deposited
  <2>3. CASE c.service = "withdraw" /\ pc'[p] = "find" /\ call'[p] = c
    BY <1>2, <1>3, <1>4, <1>5, <2>3 DEF Effect, Owed, Deposited
  <2> QED BY <1>1, <1>7, <2>1, <2>2, <2>3 DEF Services
<1> QED BY <1>1, <1>3, <1>8, <1>9 DEF Balanced, c

\* The write: what is written is no longer owed, or is owed to the other account.
LEMMA WriteBalanced ==
    ASSUME DisjointUse, DInv, CallsFresh, NEW p \in Processes, FileStep(p), Write(p),
           NEW n \in DOMAIN accounts
    PROVE  Balanced(p, n)
<1> DEFINE c == call[p]
           k == c.offset
<1>1. /\ IInv /\ c \in Call /\ pc[p] = "write" /\ Fits("write", c)
      /\ Keeps(p, "write", c) /\ Fresh(p, "write", c) /\ transactions' = transactions
  BY DEF DInv, IInv, TypeOK, Write, At, CallsFit, CallsKeep, CallsFresh
<1>2. n \in Nat /\ accounts[n].balance \in Int
  BY FileFacts, IntFacts DEF Account
<1>3. Logged(n)' = Logged(n) /\ Logged(n) \in Int
  BY <1>1, <1>2, LoggedType DEF IInv, TypeOK, Logged
<1>4. k \in DOMAIN accounts /\ c.amount \in Int
  BY <1>1, TargetUsed DEF Call
<1>5. accounts'[n] = IF n = k THEN Struct(p) ELSE accounts[n]
  BY <1>4 DEF Write, Put
<1>6. CASE p \in Customers
  <2>1. c.service \in Services /\ k = Target(c) /\ c.own.accountNumber = AccountOf[p]
    BY <1>1, <1>6 DEF Keeps, CustomerKeeps
  <2>2. CASE c.side = "own"
    <3>1. k = AccountOf[p] /\ Struct(p) = c.own
      BY <2>1, <2>2 DEF Target, Struct
    <3>2. c.own.balance = accounts[k].balance + Change(c)
      BY <1>1, <1>6, <2>1, <2>2, <3>1 DEF Fresh
    <3>3. accounts'[n].balance - accounts[n].balance = IF n = k THEN Change(c) ELSE 0
      <4>1. Change(c) \in Int
        BY <1>4 DEF Change
      <4> QED BY <1>2, <1>5, <3>1, <3>2, <4>1
    <3>4. Owed("write", c, n) = IF n = k /\ c.service # "send" THEN -Change(c) ELSE 0
      BY <1>1, <1>4, <2>1, <2>2, <3>1 DEF Owed, Change, Services
    <3>5. Owed(pc'[p], call'[p], n) = IF n = k /\ c.service = "send" THEN Change(c) ELSE 0
      <4>1. CASE c.service # "send" /\ Ended(p)
        BY <4>1, EndedOwes
      <4>2. CASE /\ c.service = "send" /\ pc'[p] = "find"
                 /\ call'[p].side = "receiver" /\ call'[p].service = "send"
                 /\ call'[p].own = c.own /\ call'[p].amount = c.amount
        BY <2>1, <3>1, <4>2 DEF Owed, Change
      <4> QED BY <1>1, <2>2, <4>1, <4>2, WriteDoes
    <3>6. Change(c) \in Int
      BY <1>4 DEF Change
    <3> HIDE DEF c, k
    <3> QED BY <1>1, <1>3, <3>3, <3>4, <3>5, <3>6 DEF Balanced, c
  <2>3. CASE c.side = "receiver"
    <3>1. /\ c.service = "send" /\ k = c.receiver.accountNumber /\ k # AccountOf[p]
          /\ Struct(p) = c.receiver
      BY <1>1, <1>6, <2>1, <2>3 DEF Fits, Target, Struct, Keeps, CustomerKeeps
    <3>2. c.receiver.balance = accounts[k].balance + c.amount
      BY <1>1, <1>6, <2>1, <3>1 DEF Fresh
    <3>3. accounts'[n].balance - accounts[n].balance = IF n = k THEN c.amount ELSE 0
      BY <1>2, <1>4, <1>5, <3>1, <3>2
    <3>4. Owed("write", c, n) = IF n = AccountOf[p] THEN -c.amount ELSE 0
      BY <2>1, <2>3, <3>1 DEF Owed
    <3>5. pc'[p] = "log" /\ call'[p] = c
      BY <1>1, <2>3, <3>1, WriteDoes
    <3>6. Owed("log", c, n) = (IF n = AccountOf[p] THEN -c.amount ELSE 0)
                                + (IF n = k THEN c.amount ELSE 0)
      BY <2>1, <3>1 DEF Owed
    <3> HIDE DEF c, k
    <3> QED BY <1>1, <1>3, <1>4, <3>3, <3>4, <3>5, <3>6 DEF Balanced, c
  <2> QED BY <1>1, <2>2, <2>3 DEF Call
<1>7. CASE p \in Clerks
  <2>1. c.service \notin Services /\ Struct(p) = c.own
    BY <1>1, <1>7 DEF Keeps, ClerkKeeps, Struct
  <2>2. c.own.balance = accounts[k].balance
    BY <1>1, <1>7 DEF Fresh
  <2>3. accounts'[n].balance = accounts[n].balance
    BY <1>5, <2>1, <2>2
  <2>4. Owed("write", c, n) = 0
    BY <2>1 DEF Owed, Services
  <2>5. Owed(pc'[p], call'[p], n) = 0
    BY <1>1, <2>1, WriteDoes, EndedOwes DEF Services
  <2> QED BY <1>1, <1>2, <1>3, <2>3, <2>4, <2>5 DEF Balanced
<1> QED BY <1>6, <1>7, Roles

LEMMA ServerBalanced ==
    ASSUME DisjointUse, FilesMayFail = FALSE, DInv, CallsFresh, NEW p \in Processes,
           FileStep(p), ServerStep(p) \/ Failure(p), NEW n \in DOMAIN accounts
    PROVE  Balanced(p, n)
<1>1. /\ IInv /\ TypeOK /\ call[p] \in Call /\ Fits(pc[p], call[p])
      /\ Keeps(p, pc[p], call[p])
  BY DEF DInv, IInv, TypeOK, CallsFit, CallsKeep
<1>2. CASE Find(p)
  <2>1. /\ pc[p] = "find" /\ call[p].service \in Services
        /\ accounts' = accounts /\ transactions' = transactions
    BY <1>1, <1>2 DEF Find, At, Fits
  <2>2. p \in Customers
    BY <1>1, <2>1, Roles DEF Keeps, ClerkKeeps
  <2>3. Target(call[p]) \in Uses(p) \cap DOMAIN accounts
    <3>1. CASE call[p].side = "own"
      BY <2>1, <2>2, <3>1, CustomerRecords DEF Target
    <3>2. CASE call[p].side = "receiver"
      <4>1. call[p].service = "send"
        BY <1>1, <3>2 DEF Fits
      <4> QED BY <2>1, <2>2, <3>2, <4>1, CustomerRecords DEF Target
    <3> QED BY <1>1, <3>1, <3>2 DEF Call
  <2>4. Found(p, Target(call[p])) = {Target(call[p])} /\ Target(call[p]) # NoRecord
    BY <2>3, Finds DEF Found
  <2>5. /\ pc'[p] = "lock" /\ call'[p].service = call[p].service
        /\ call'[p].side = call[p].side /\ call'[p].own = call[p].own
        /\ call'[p].receiver = call[p].receiver /\ call'[p].amount = call[p].amount
    <3> HIDE DEF Found
    <3> QED BY <1>1, <1>2, <2>4, FindDoes DEF Target
  <2>6. Owed(pc'[p], call'[p], n) = Owed(pc[p], call[p], n)
    BY <2>1, <2>5 DEF Owed
  <2> QED BY <2>1, <2>6, NothingOwed
<1>3. CASE Lock(p)
  <2>1. /\ pc[p] = "lock" /\ pc'[p] = "write" /\ call'[p] = call[p]
        /\ accounts' = accounts /\ transactions' = transactions
    BY <1>1, <1>3, LockDoes DEF Lock, At
  <2>2. Owed(pc'[p], call'[p], n) = Owed(pc[p], call[p], n)
    BY <2>1 DEF Owed
  <2> QED BY <2>1, <2>2, NothingOwed
<1>4. CASE AddWrite(p)
  <2>1. pc[p] = "append" /\ transactions' = transactions /\ Ended(p)
    BY <1>1, <1>4, OtherStepsDo DEF AddWrite, At
  <2>2. p \in Clerks
    BY <1>1, <2>1, Roles DEF Keeps, CustomerKeeps
  <2>3. Owed(pc[p], call[p], n) = 0 /\ Owed(pc'[p], call'[p], n) = 0
    BY <1>1, <2>1, <2>2, EndedOwes DEF Keeps, ClerkKeeps, Owed, Services
  <2>4. ~Write(p)
    BY <2>1 DEF Write, At
  <2>5. accounts'[n] = accounts[n]
    BY <2>4 DEF FileStep
  <2>6. n \in Nat /\ accounts[n].balance \in Int
    BY FileFacts, IntFacts DEF Account
  <2>7. Logged(n)' = Logged(n) /\ Logged(n) \in Int
    BY <1>1, <2>1, <2>6, LoggedType DEF TypeOK, Logged
  <2> QED BY <2>3, <2>5, <2>6, <2>7 DEF Balanced
<1>5. CASE Die(p)
  BY <1>5, NothingOwed DEF Die
<1>6. ~LockOrWriteFails(p)
  BY DEF LockOrWriteFails
<1> QED BY <1>2, <1>3, <1>4, <1>5, <1>6, LogBalanced, WriteBalanced
        DEF ServerStep, Failure

-----------------------------------------------------------------------------
(* The books as a whole.                                                   *)

\* What all calls together owe.
PendingOf(n) == [p \in Processes |-> Pending(p, n)]

LEMMA PendingType ==
    ASSUME DInv, NEW n \in Nat
    PROVE  /\ PendingOf(n) \in [Processes -> Int]
           /\ \A p \in Processes : PendingOf(n)[p] = Owed(pc[p], call[p], n)
<1>1. ASSUME NEW p \in Processes
      PROVE  Pending(p, n) = Owed(pc[p], call[p], n) /\ Owed(pc[p], call[p], n) \in Int
  BY AllNamed, PendingIs, OwedType DEF DInv, IInv, TypeOK
<1> QED BY <1>1 DEF PendingOf

LEMMA PendingNextType ==
    ASSUME DInv', NEW n \in Nat
    PROVE  /\ PendingOf(n)' \in [Processes -> Int]
           /\ \A p \in Processes : PendingOf(n)'[p] = Owed(pc'[p], call'[p], n)
<1>1. ASSUME NEW p \in Processes PROVE Named(pc[p], call[p])'
  <2>1. Keeps(p, pc[p], call[p])' /\ DOMAIN accounts' \subseteq Nat
    BY DEF DInv, CallsKeep, IInv, TypeOK, IsFile
  <2>2. CASE p \in Customers
    BY <2>1, <2>2 DEF Keeps, CustomerKeeps, Named
  <2>3. CASE p \in Clerks
    BY <2>1, <2>3 DEF Keeps, ClerkKeeps, Named
  <2> QED BY <2>2, <2>3, Roles
<1>2. ASSUME NEW p \in Processes
      PROVE  /\ Pending(p, n)' = Owed(pc'[p], call'[p], n)
             /\ Owed(pc'[p], call'[p], n) \in Int
  <2>1. call'[p] \in Call /\ pc'[p] \in PC
    BY DEF DInv, IInv, TypeOK
  <2> QED BY <1>1, <2>1, PendingWillBe, OwedType
<1> QED BY <1>2 DEF PendingOf

\* BooksBalance, for one account, in the form that the steps keep.
Books(n) ==
    accounts[n].balance = Opening[n].balance + Logged(n) + SumFunction(PendingOf(n))

LEMMA BooksStep ==
    ASSUME IsFiniteSet(Processes), DInv, DInv', NEW p \in Processes, Others(p),
           NEW n \in DOMAIN Opening, Balanced(p, n), Books(n)
    PROVE  Books(n)'
<1>1. n \in Nat /\ n \in DOMAIN accounts /\ accounts[n].balance \in Int
  BY FileFacts, IntFacts DEF Account
<1>2. accounts'[n].balance \in Int
  <2>1. n \in DOMAIN accounts' /\ accounts'[n] \in Account
    BY DEF DInv, IInv, TypeOK, NumbersKept, IsFile
  <2> QED BY <2>1, IntFacts DEF Account
<1>3. Opening[n].balance \in Int
  BY ConstantsAssumption, IntFacts DEF IsFile, Account
<1>4. Logged(n) \in Int /\ Logged(n)' \in Int
  <2>1. transactions \in Seq(Transaction) /\ transactions' \in Seq(Transaction)
    BY DEF DInv, IInv, TypeOK
  <2>2. Logged(n) \in Int
    BY <1>1, <2>1, LoggedType
  <2>3. Logged(n)' \in Int
    <3> DEFINE f == [i \in DOMAIN transactions' |-> Effect(transactions'[i], n)]
    <3>1. \A t \in Transaction : Effect(t, n) \in Int
      BY <1>1 DEF Effect, Transaction
    <3>2. DOMAIN transactions' = 1..Len(transactions') /\ Len(transactions') \in Nat
      BY <2>1
    <3>3. \A i \in DOMAIN transactions' : transactions'[i] \in Transaction
      BY <2>1
    <3>4. f \in [1..Len(transactions') -> Int]
      BY <3>1, <3>2, <3>3
    <3>5. IsFiniteSet(1..Len(transactions'))
      BY <3>2, FS_Interval
    <3> HIDE DEF f
    <3>6. SumFunction(f) \in Int
      BY <3>4, <3>5, SumType
    <3> QED BY <3>6 DEF Logged, f
  <2> QED BY <2>2, <2>3
<1> DEFINE f == PendingOf(n)
           g == PendingOf(n)'
<1>5. /\ f \in [Processes -> Int] /\ f[p] = Owed(pc[p], call[p], n)
      /\ \A q \in Processes \ {p} : f[q] = Owed(pc[q], call[q], n)
  BY <1>1, PendingType
<1>6. /\ g \in [Processes -> Int] /\ g[p] = Owed(pc'[p], call'[p], n)
      /\ \A q \in Processes \ {p} : g[q] = Owed(pc'[q], call'[q], n)
  BY <1>1, PendingNextType
<1>7. \A q \in Processes \ {p} : g[q] = f[q]
  BY <1>5, <1>6 DEF Others
<1>8. SumFunction(f)' = SumFunction(g)
  OBVIOUS
<1>9. accounts[n].balance = Opening[n].balance + Logged(n) + SumFunction(f)
  BY DEF Books
<1> HIDE DEF f, g
<1>10. SumFunction(g) = SumFunction(f) + (g[p] - f[p]) /\ SumFunction(f) \in Int
  BY <1>5, <1>6, <1>7, SumChange, SumType
<1>11. accounts'[n].balance - accounts[n].balance = (Logged(n)' - Logged(n)) + (g[p] - f[p])
  BY <1>5, <1>6 DEF Balanced
<1>12. g[p] \in Int /\ f[p] \in Int
  BY <1>5, <1>6
<1>13. accounts'[n].balance = Opening[n].balance + Logged(n)' + SumFunction(g)
  BY <1>1, <1>2, <1>3, <1>4, <1>9, <1>10, <1>11, <1>12
<1> QED BY <1>13 DEF Books, g

\* At first nothing is logged and nothing owed.
LEMMA InitBooks ==
    ASSUME DisjointUse, IsFiniteSet(Processes), Init
    PROVE  CallsFresh /\ \A n \in DOMAIN Opening : Books(n)
<1>1. CallsFresh
  BY DEF Init, CallsFresh, Fresh, NoCall, Services
<1>2. ASSUME NEW n \in DOMAIN Opening PROVE Books(n)
  <2>1. DInv /\ n \in Nat
    <3>1. NumbersKept /\ StructsInPlace
      BY DEF Init, NumbersKept, StructsInPlace, InPlace, Places
    <3>2. DInv
      BY <3>1, InitDInv
    <3> QED BY <3>2, FileFacts
  <2>2. Logged(n) = 0
    <3> DEFINE f == [i \in DOMAIN transactions |-> Effect(transactions[i], n)]
    <3>1. f \in [{} -> Int] /\ (\A i \in {} : f[i] = 0) /\ IsFiniteSet({})
      BY FS_EmptySet DEF Init
    <3> HIDE DEF f
    <3>2. SumFunction(f) = 0
      BY <3>1, SumZero
    <3> QED BY <3>2 DEF Logged, f
  <2>3. SumFunction(PendingOf(n)) = 0
    <3> DEFINE f == PendingOf(n)
    <3>1. f \in [Processes -> Int] /\ \A p \in Processes : f[p] = Owed(pc[p], call[p], n)
      BY <2>1, PendingType
    <3>2. \A p \in Processes : Owed(pc[p], call[p], n) = 0
      BY DEF Init, Owed, NoCall
    <3> HIDE DEF f
    <3>3. \A p \in Processes : f[p] = 0
      BY <3>1, <3>2
    <3>4. SumFunction(f) = 0
      BY <3>1, <3>3, SumZero
    <3> QED BY <3>4 DEF f
  <2>4. Opening[n].balance \in Int
    BY ConstantsAssumption, IntFacts DEF IsFile, Account
  <2> QED BY <2>2, <2>3, <2>4 DEF Books, Init
<1> QED BY <1>1, <1>2

LEMMA NextBooks ==
    ASSUME DisjointUse, FilesMayFail = FALSE, IsFiniteSet(Processes),
           DInv, DInv', CallsFresh, [Next]_vars, \A n \in DOMAIN Opening : Books(n)
    PROVE  \A n \in DOMAIN Opening : Books(n)'
<1>1. CASE UNCHANGED vars
  BY <1>1 DEF vars, Books, Logged, PendingOf, Pending
<1>2. ASSUME NEW p \in Processes, ClientStep(p) \/ ServerStep(p) \/ Failure(p),
             NEW n \in DOMAIN Opening
      PROVE  Books(n)'
  <2>1. FileStep(p) /\ Others(p) /\ n \in DOMAIN accounts
    BY <1>2, FileStepLemma, StepOthers, FileFacts DEF DInv, IInv
  <2>2. Balanced(p, n)
    BY <1>2, <2>1, ClientBalanced, ServerBalanced
  <2> QED BY <2>1, <2>2, BooksStep
<1> QED BY <1>1, <1>2 DEF Next

\* While no two processes share an account, the record file can be opened and
\* written, and no amount overflows an int, every balance is the opening balance
\* and what the passbook lists, but for calls in progress or cut short by a kill.
THEOREM BooksAlwaysBalance ==
    ASSUME DisjointUse, FilesMayFail = FALSE, IsFiniteSet(Processes)
    PROVE  Spec /\ []Headroom => []BooksBalance
<1> DEFINE AllBooks == \A n \in DOMAIN Opening : Books(n)
<1>1. Init => CallsFresh /\ AllBooks
  BY InitBooks
<1>2. DInv /\ DInv' /\ Headroom /\ CallsFresh /\ AllBooks /\ [Next]_vars
        => CallsFresh' /\ AllBooks'
  BY NextFresh, NextBooks
<1>3. AllBooks => BooksBalance
  BY DEF BooksBalance, Books, PendingOf, DisjointUse, NumberedByPlace
<1> HIDE DEF AllBooks
<1> QED BY <1>1, <1>2, <1>3, DisjointInvariance, PTL DEF Spec

=============================================================================
