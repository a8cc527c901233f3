----------------------------- MODULE Customers -----------------------------
(***************************************************************************)
(* The file db/customer_db and everything that writes it: change_password  *)
(* (functions/customer.h), run in a session that login_handler_customer    *)
(* has opened, and add_customer, the second half of add_account and        *)
(* modify_customer_info (functions/employee.h), run by clerks.             *)
(*                                                                         *)
(* A session keeps the record it has read at login for as long as it lasts *)
(* and writes the whole of it back.  A clerk who adds a customer holds a   *)
(* read lock on the last record during the whole dialogue; who modifies a  *)
(* customer holds no lock while the client answers; who links an account   *)
(* to a customer takes none at all.  get_customer_details                  *)
(* (functions/common.h) only reads, but unlocks what it has not locked.    *)
(*                                                                         *)
(* The semaphores are module Sessions: here a login is refused while       *)
(* another session of that customer lasts.  The balances are module        *)
(* Accounts: here an account record is a number and the customer's.        *)
(***************************************************************************)
EXTENDS Integers, FiniteSetsExt

CONSTANTS
    Connections, Clerks, \* the server processes
    Opening,             \* customer_db at the start, indexed from 0
    OpeningAccounts,     \* account_db at the start
    Names,               \* what login and ADD_CUSTOMER_NAME are answered with
    LoginNumbers,        \* the numbers in the logins typed
    Numbers,             \* answers to MODIFY_CUSTOMER_ID and GET_CUSTOMER_ID
    Passwords,           \* answers to PASSWORD_CHANGE_NEW_PASS
    FirstPassword,       \* what generate_random_password returns
    Infos,               \* a customer's name and phone number
    Nobody,              \* the login of a record of zeros
    Garbage,             \* what an uninitialized struct Customer may contain
    Zeros,               \* a struct Customer of zeros
    FilesMayFail,        \* whether an open or a write may fail
    MaxCalls,            \* bound: [Processes -> Nat], logins or clerk's services
    Mortal               \* bound: the processes that may be killed

VARIABLES
    customers,           \* customer_db: a function from 0 .. n to records
    accounts,            \* account_db
    reading, writing,    \* what each process has locked of customer_db
    pc,
    record,              \* loggedInCustomer, newCustomer, customer, cust
    offset,              \* the record it goes to; add_account's custid
    newAccount,          \* newAccount and the record it goes to
    einval,              \* the clerks whose errno has been left at EINVAL
    dead, calls,
    astray               \* history: numbers modified that no record had

vars == <<customers, accounts, reading, writing, pc, record, offset, newAccount,
          einval, dead, calls, astray>>

Processes == Connections \cup Clerks

Customer == [id : Int, login : Names \cup {Nobody}, info : Infos, account : Int,
             password : Passwords \cup {FirstPassword}]

Account == [number : Int, custid : Int]

\* A file of records that is not empty and has no gaps.
IsFile(file, Record) ==
    /\ \E n \in DOMAIN file : n \in Nat /\ file \in [0..n -> Record]

ASSUME ConstantsAssumption ==
    /\ Connections \cap Clerks = {}
    /\ IsFile(Opening, Customer)
    /\ \A i \in DOMAIN Opening : Opening[i].id = i
    /\ IsFile(OpeningAccounts, Account)
    /\ LoginNumbers \subseteq Nat
    /\ Numbers \subseteq Int
    /\ Garbage \subseteq Customer /\ Garbage # {}
    /\ Zeros \in Customer
    /\ FilesMayFail \in BOOLEAN
    /\ MaxCalls \in [Processes -> Nat]
    /\ Mortal \subseteq Processes

\* newCustomer.account = -700, until the account exists.
Unlinked == -700

\* Mutant of Put: without the lseek, a record read before leaves the offset
\* behind it.
PutBehind(file, place, value) ==
    [i \in DOMAIN file \cup {place + 1} |-> IF i = place + 1 THEN value ELSE file[i]]

\* write at a record; what is between it and the old end of the file reads as zeros.
Put(file, place, value) ==
    [i \in DOMAIN file \cup 0..place |->
        IF i = place THEN value ELSE IF i \in DOMAIN file THEN file[i] ELSE Zeros]

Last(file) == Max(DOMAIN file)

\* The bytes of a record: get_customer_details locks as many as a struct Account
\* has, which is a part of a struct Customer.
Beginning(n) == {<<n, "beginning">>}

Whole(n) == Beginning(n) \cup {<<n, "rest">>}

Locks == Int \X {"beginning", "rest"}

NoAccount == [place |-> 0, number |-> 0]

\* Conditions on which some of the properties depend.  Only customers of the opening
\* file log in.
KnownLogins == LoginNumbers \subseteq DOMAIN Opening

\* Clerks keep away from the records of those who log in: they modify others, and
\* customer 0, to whom a mistyped phone number links an account, does not log in.
SeparateRecords == KnownLogins /\ 0 \notin LoginNumbers /\ LoginNumbers \cap Numbers = {}

\* One clerk at work, and an account in the opening files belongs to one customer
\* and has a number up to the last one's, as add_account gives them.
OneClerk ==
    /\ \A p, q \in Clerks : p = q
    /\ \A i, j \in DOMAIN Opening :
            Opening[i].account = Opening[j].account => i = j \/ Opening[i].account = Unlinked
    /\ \A i \in DOMAIN Opening :
            \/ Opening[i].account = Unlinked
            \/ Opening[i].account <= OpeningAccounts[Last(OpeningAccounts)].number

Init ==
    /\ customers = Opening
    /\ accounts = OpeningAccounts
    /\ reading = [p \in Processes |-> {}]
    /\ writing = [p \in Processes |-> {}]
    /\ pc = [p \in Processes |-> "idle"]
    /\ record = [p \in Processes |-> Zeros]    \* of no meaning yet
    /\ offset = [p \in Processes |-> 0]
    /\ newAccount = [p \in Clerks |-> NoAccount]
    /\ einval = {}
    /\ dead = {}
    /\ calls = [p \in Processes |-> 0]
    /\ astray = {}

Goto(p, from, to) ==
    /\ p \notin dead
    /\ pc[p] = from
    /\ pc' = [pc EXCEPT ![p] = to]

Enter(p) ==
    /\ calls[p] < MaxCalls[p]
    /\ calls' = [calls EXCEPT ![p] = @ + 1]

\* A service returns to the menu of its session or its clerk, and its local
\* variables are gone: a session keeps loggedInCustomer.
Return(p, from) ==
    /\ Goto(p, from, IF p \in Clerks THEN "idle" ELSE "menu")
    /\ offset' = [offset EXCEPT ![p] = 0]
    /\ IF p \in Clerks
       THEN /\ record' = [record EXCEPT ![p] = Zeros]
            /\ newAccount' = [newAccount EXCEPT ![p] = NoAccount]
       ELSE UNCHANGED <<record, newAccount>>

\* The process ends with the session, and with it every lock it has left.
End(p, from) ==
    /\ Goto(p, from, "idle")
    /\ record' = [record EXCEPT ![p] = Zeros]
    /\ UNCHANGED <<offset, newAccount>>

\* F_RDLCK and F_WRLCK on a range of customer_db.
ReadFree(p, range) == \A q \in Processes \ {p} : writing[q] \cap range = {}

WriteFree(p, range) ==
    \A q \in Processes \ {p} : (writing[q] \cup reading[q]) \cap range = {}

\* close of a descriptor of the file: every lock the process has on it goes.
Close(p) ==
    /\ reading' = [reading EXCEPT ![p] = {}]
    /\ writing' = [writing EXCEPT ![p] = {}]

\* What a read at a place returns.
Read(place) == IF place \in DOMAIN customers THEN {customers[place]} ELSE Garbage

files == <<customers, accounts>>
locks == <<reading, writing>>
locals == <<record, offset, newAccount>>

-----------------------------------------------------------------------------
(* Customers.                                                              *)

\* A login that fits its record.  Any other ends with INVALID_LOGIN, whatever
\* the password.
Login(p) ==
    /\ Goto(p, "idle", "password")
    /\ Enter(p)
    /\ \E number \in LoginNumbers \cap DOMAIN customers, name \in Names :
        /\ ReadFree(p, Whole(number))
        /\ customers[number].login = name
        /\ record' = [record EXCEPT ![p] = customers[number]]
    /\ Close(p)
    /\ UNCHANGED <<files, offset, newAccount, einval, dead, astray>>

\* The password is compared with the record read before it was asked for.
GivePassword(p) ==
    /\ \/ Goto(p, "password", "semaphore") /\ UNCHANGED locals
       \/ End(p, "password")
    /\ UNCHANGED <<files, locks, einval, dead, calls, astray>>

InSession(p) == p \notin dead /\ pc[p] \in {"menu", "new", "lock", "write"}

\* Mutant of Admit: the result of lock_semaphore is not looked at.
AdmitAnyone(p) ==
    /\ Goto(p, "semaphore", "menu")
    /\ UNCHANGED <<files, locks, locals, einval, dead, calls, astray>>

\* lock_semaphore(loginSemIdentifier, 1).
Admit(p) ==
    /\ IF \E q \in Connections \ {p} : InSession(q) /\ record[q].id = record[p].id
       THEN End(p, "semaphore")
       ELSE Goto(p, "semaphore", "menu") /\ UNCHANGED locals
    /\ UNCHANGED <<files, locks, einval, dead, calls, astray>>

\* change_password: the old password, as the session knows it, is given.
GiveOld(p) ==
    /\ p \in Connections
    /\ Goto(p, "menu", "new")
    /\ UNCHANGED <<files, locks, locals, einval, dead, calls, astray>>

\* The new password twice; if the two differ nothing has happened.
GiveNew(p) ==
    /\ \/ /\ Goto(p, "new", "lock")
          /\ \E password \in Passwords :
                record' = [record EXCEPT ![p] = [@ EXCEPT !.password = password]]
          /\ offset' = [offset EXCEPT ![p] = record[p].id]
          /\ UNCHANGED newAccount
       \/ Return(p, "new")
    /\ UNCHANGED <<files, locks, einval, dead, calls, astray>>

Logout(p) ==
    /\ p \in Connections
    /\ End(p, "menu")
    /\ Close(p)
    /\ UNCHANGED <<files, einval, dead, calls, astray>>

-----------------------------------------------------------------------------
(* Both: the details of a customer, and the locked write of a record.      *)

\* get_customer_details, which reads a part of the record under a lock and unlocks
\* it: what the process had there is gone, and the file stays open.  A negative
\* number leaves errno at EINVAL, one beyond the end of the file does not, and a
\* file that cannot be opened leaves it at something else.
Details(p, number) ==
    \/ /\ number \in DOMAIN customers
       /\ ReadFree(p, Beginning(number))
       /\ reading' = [reading EXCEPT ![p] = @ \ Beginning(number)]
       /\ writing' = [writing EXCEPT ![p] = @ \ Beginning(number)]
       /\ UNCHANGED einval
    \/ /\ number \notin DOMAIN customers
       /\ einval' = IF number < 0 /\ p \in Clerks THEN einval \cup {p} ELSE einval
       /\ UNCHANGED locks
    \/ /\ FilesMayFail
       /\ einval' = einval \ {p}
       /\ UNCHANGED locks

GetDetails(p) ==
    /\ \/ p \in Connections /\ Goto(p, "menu", "menu") /\ Details(p, record[p].id)
          /\ UNCHANGED calls
       \/ p \in Clerks /\ Goto(p, "idle", "idle") /\ Enter(p)
          /\ \E number \in Numbers : Details(p, number)
    /\ UNCHANGED <<files, locals, dead, astray>>

\* F_SETLKW; the lock takes the place of the process' own.
Lock(p) ==
    /\ Goto(p, "lock", "write")
    /\ offset[p] >= 0
    /\ WriteFree(p, Whole(offset[p]))
    /\ writing' = [writing EXCEPT ![p] = @ \cup Whole(offset[p])]
    /\ reading' = [reading EXCEPT ![p] = @ \ Whole(offset[p])]
    /\ UNCHANGED <<files, locals, einval, dead, calls, astray>>

\* The open, the seek or the lock fails: of a change of password only
\* loggedInCustomer knows.
GiveUp(p) ==
    /\ FilesMayFail \/ offset[p] < 0
    /\ Return(p, "lock")
    /\ einval' = einval \ {p}
    /\ UNCHANGED <<files, locks, dead, calls, astray>>

\* write, F_UNLCK and close: back to the session's menu or the clerk's.
Write(p) ==
    /\ Return(p, "write")
    /\ customers' = Put(customers, offset[p], record[p])
    /\ Close(p)
    /\ UNCHANGED <<accounts, einval, dead, calls, astray>>

\* change_password returns and leaves the record locked; modify_customer_info
\* goes on and reports success.
WriteFails(p) ==
    /\ FilesMayFail
    /\ Return(p, "write")
    /\ IF p \in Clerks THEN Close(p) ELSE UNCHANGED locks
    /\ einval' = einval \ {p}
    /\ UNCHANGED <<files, dead, calls, astray>>

-----------------------------------------------------------------------------
(* Clerks.                                                                 *)

\* add_account, add_customer: the number follows the last record's, and the
\* place is behind it.
ReadLastCustomer(p) ==
    /\ Goto(p, "idle", "details")
    /\ Enter(p)
    /\ ReadFree(p, Whole(Last(customers)))
    /\ reading' = [reading EXCEPT ![p] = @ \cup Whole(Last(customers))]
    /\ writing' = [writing EXCEPT ![p] = @ \ Whole(Last(customers))]
    /\ record' = [record EXCEPT ![p] = [customers[Last(customers)] EXCEPT !.id = @ + 1]]
    /\ offset' = [offset EXCEPT ![p] = Last(customers) + 1]
    /\ UNCHANGED <<files, newAccount, einval, dead, astray>>

\* Mutant of AddCustomer: the record is not unlocked and the file not closed.
AddCustomerStaysOpen(p) ==
    /\ Goto(p, "details", "account")
    /\ \E name \in Names, info \in Infos :
        customers' = Put(customers, offset[p],
                         [id |-> record[p].id, login |-> name, info |-> info,
                          account |-> Unlinked, password |-> FirstPassword])
    /\ offset' = [offset EXCEPT ![p] = record[p].id]
    /\ record' = [record EXCEPT ![p] = Zeros]
    /\ UNCHANGED <<locks, accounts, newAccount, einval, dead, calls, astray>>

\* The client has given a name and a phone number.
AddCustomer(p) ==
    /\ Goto(p, "details", "account")
    /\ \E name \in Names, info \in Infos :
        customers' = Put(customers, offset[p],
                         [id |-> record[p].id, login |-> name, info |-> info,
                          account |-> Unlinked, password |-> FirstPassword])
    /\ offset' = [offset EXCEPT ![p] = record[p].id]
    /\ record' = [record EXCEPT ![p] = Zeros]
    /\ Close(p)
    /\ UNCHANGED <<accounts, newAccount, einval, dead, calls, astray>>

\* The phone number has not ten digits, or the write fails: add_customer returns
\* false, which is 0, and add_account goes on with that number.
WrongPhone(p) ==
    /\ Goto(p, "details", "account")
    /\ offset' = [offset EXCEPT ![p] = 0]
    /\ record' = [record EXCEPT ![p] = Zeros]
    /\ einval' \in {einval} \cup (IF FilesMayFail THEN {einval \ {p}} ELSE {})
    /\ UNCHANGED <<files, locks, newAccount, dead, calls, astray>>

\* customer_db cannot be opened: add_customer returns -1, and add_account goes on.
NoCustomer(p) ==
    /\ FilesMayFail
    /\ Goto(p, "idle", "account")
    /\ Enter(p)
    /\ offset' = [offset EXCEPT ![p] = -1]
    /\ einval' = einval \ {p}
    /\ UNCHANGED <<files, locks, record, newAccount, dead, astray>>

\* Mutant of ReadLastAccount: the number is the last account's own.
ReadLastAccountAgain(p) ==
    /\ Goto(p, "account", "append")
    /\ newAccount' = [newAccount EXCEPT ![p] =
            [place |-> Last(accounts) + 1, number |-> accounts[Last(accounts)].number]]
    /\ UNCHANGED <<files, locks, record, offset, einval, dead, calls, astray>>

\* The rest of add_account: the number and place of the account ...
ReadLastAccount(p) ==
    /\ Goto(p, "account", "append")
    /\ newAccount' = [newAccount EXCEPT ![p] =
            [place |-> Last(accounts) + 1, number |-> accounts[Last(accounts)].number + 1]]
    /\ UNCHANGED <<files, locks, record, offset, einval, dead, calls, astray>>

\* ... its record ...
AddAccount(p) ==
    /\ Goto(p, "append", "link")
    /\ accounts' = [i \in DOMAIN accounts \cup {newAccount[p].place} |->
            IF i = newAccount[p].place
            THEN [number |-> newAccount[p].number, custid |-> offset[p]] ELSE accounts[i]]
    /\ UNCHANGED <<customers, locks, locals, einval, dead, calls, astray>>

\* ... and the customer's record, read and written without a lock.
ReadOwner(p) ==
    /\ Goto(p, "link", "relink")
    /\ offset[p] >= 0
    /\ \E r \in Read(offset[p]) :
        record' = [record EXCEPT ![p] = [r EXCEPT !.account = newAccount[p].number]]
    /\ UNCHANGED <<files, locks, offset, newAccount, einval, dead, calls, astray>>

\* Mutant of LinkOwner: without the second lseek the record behind is written.
LinkBehind(p) ==
    /\ Return(p, "relink")
    /\ customers' = Put(customers, offset[p] + 1, record[p])
    /\ Close(p)
    /\ UNCHANGED <<accounts, einval, dead, calls, astray>>

LinkOwner(p) ==
    /\ Return(p, "relink")
    /\ customers' = Put(customers, offset[p], record[p])
    /\ Close(p)
    /\ UNCHANGED <<accounts, einval, dead, calls, astray>>

\* The account has a customer's number that is none, and stays without an owner.
NoOwner(p) ==
    /\ offset[p] < 0
    /\ Return(p, "link")
    /\ einval' = einval \cup {p}
    /\ UNCHANGED <<files, locks, dead, calls, astray>>

\* An open or a write of add_account fails.
AddFails(p) ==
    /\ FilesMayFail
    /\ \E from \in {"account", "append", "link", "relink"} : Return(p, from)
    /\ einval' = einval \ {p}
    /\ UNCHANGED <<files, locks, dead, calls, astray>>

\* modify_customer_info refuses what is not all digits, a sign included, and after
\* the lseek errno, not its result, decides whether the customer exists.  (A file that
\* cannot be opened ends as in GetDetails.)
Refuse(p) ==
    /\ Goto(p, "idle", "idle")
    /\ Enter(p)
    /\ \E number \in Numbers : number < 0 \/ p \in einval
    /\ UNCHANGED <<files, locks, locals, einval, dead, astray>>

\* The record is read, unlocked, and the file closed.
ReadCustomer(p) ==
    /\ Goto(p, "idle", "change")
    /\ Enter(p)
    /\ p \notin einval
    /\ \E number \in Numbers \cap Nat :
        /\ ReadFree(p, Whole(number))
        /\ \E r \in Read(number) : record' = [record EXCEPT ![p] = r]
        /\ offset' = [offset EXCEPT ![p] = number]
        /\ astray' = astray \cup ({number} \ DOMAIN customers)
    /\ Close(p)
    /\ UNCHANGED <<files, newAccount, einval, dead>>

\* The client gives a new name or phone number, or something invalid.
GiveInfo(p) ==
    /\ \/ /\ Goto(p, "change", "lock")
          /\ \E info \in Infos :
                record' = [record EXCEPT ![p] = [@ EXCEPT !.info = info]]
          /\ UNCHANGED <<offset, newAccount>>
       \/ Return(p, "change")
    /\ UNCHANGED <<files, locks, einval, dead, calls, astray>>

-----------------------------------------------------------------------------
\* The process is killed; the kernel drops its locks.
Die(p) ==
    /\ p \in Mortal \ dead
    /\ dead' = dead \cup {p}
    /\ Close(p)
    /\ UNCHANGED <<files, pc, locals, einval, calls, astray>>

\* What a process does on an answer of its client.
ClientStep(p) ==
    \/ GetDetails(p)
    \/ /\ p \in Connections
       /\ Login(p) \/ GivePassword(p) \/ GiveOld(p) \/ GiveNew(p) \/ Logout(p)
    \/ /\ p \in Clerks
       /\ \/ ReadLastCustomer(p)
          \/ AddCustomer(p)
          \/ WrongPhone(p)
          \/ NoCustomer(p)
          \/ ReadLastAccount(p)
          \/ Refuse(p)
          \/ ReadCustomer(p)
          \/ GiveInfo(p)

\* What it does alone.
ServerStep(p) ==
    \/ p \in Connections /\ Admit(p)
    \/ Lock(p)
    \/ Write(p)
    \/ WriteFails(p)
    \/ p \in Clerks /\ (AddAccount(p) \/ ReadOwner(p) \/ LinkOwner(p) \/ NoOwner(p))

Next ==
    \E p \in Processes :
        \/ ClientStep(p) \/ ServerStep(p)
        \/ GiveUp(p) \/ (p \in Clerks /\ AddFails(p))
        \/ Die(p)

\* A process that waits for no client keeps running, unless it is killed; that
\* something fails is not its way out of a wait.
Fairness == \A p \in Processes : WF_vars(ServerStep(p))

Spec == Init /\ [][Next]_vars

FairSpec == Spec /\ Fairness

-----------------------------------------------------------------------------
PC == {"idle", "password", "semaphore", "menu", "new", "lock", "write",
       "details", "account", "append", "link", "relink", "change"}

\* The type of every variable.
TypeOK ==
    /\ IsFile(customers, Customer)
    /\ IsFile(accounts, Account)
    /\ reading \in [Processes -> SUBSET Locks]
    /\ writing \in [Processes -> SUBSET Locks]
    /\ pc \in [Processes -> PC]
    /\ record \in [Processes -> Customer]
    /\ offset \in [Processes -> Int]
    /\ newAccount \in [Clerks -> [place : Nat, number : Int]]
    /\ einval \subseteq Clerks
    /\ dead \subseteq Processes
    /\ calls \in [Processes -> Nat]
    /\ astray \subseteq Int

\* The record of customer n is the n-th of the file, which is how login,
\* change_password and add_account look for it: although the number of a new
\* customer is computed from a read made a whole dialogue earlier, whoever else
\* adds, modifies, links or changes a password meanwhile.  Only who modifies a
\* customer beyond the end of the file puts an uninitialized struct there.
InOrder == \A i \in DOMAIN customers : customers[i].id = i

RecordsAtTheirNumber == astray = {} => InOrder

\* A session here begins and ends as Admission allows: the number of the record
\* in hand is the number that was typed, and nobody else is in with it.  Sessions
\* implements the same promise with semaphores, so the test in Admit is theirs.
Admitted == INSTANCE Admission WITH
    Servers <- Connections,
    Numbers <- LoginNumbers,
    admitted <- {<<p, record[p].id>> : p \in {q \in Connections : InSession(q)}}

\* Logins, logouts, deaths and password changes in between, whatever clerks do to
\* the records meanwhile, are sessions of one process and one customer each.
SessionsAreAdmitted == Admitted!Spec

\* No account belongs to two customers, although sessions that began before the
\* account was linked write their own idea of it back.  A clerk announces "The
\* newly created account's number" (constants.h:111).
OneOwnerPerAccount ==
    astray = {} => \A i, j \in DOMAIN customers :
        customers[i].account = customers[j].account =>
            i = j \/ customers[i].account = Unlinked

\* "Password successfully changed!" (constants.h:189): from then on the password
\* in the file changes only when a session of the same customer changes it.
PasswordChangeLasts ==
    [][astray = {} => \A i \in DOMAIN customers :
        customers'[i].password # customers[i].password =>
            \E p \in Connections : Write(p) /\ record[p].id = i]_vars

\* The lock a process waits for is held by a clerk whose client is still giving
\* the details of a new customer, or was left by a call that has failed.
HeldUp(p) ==
    \E q \in Processes \ {p} :
        \/ /\ Whole(offset[p]) \cap reading[q] # {}
           /\ pc[q] \in {"details", "idle"} \/ offset[q] <= 0
        \/ Whole(offset[p]) \cap writing[q] # {} /\ pc[q] # "write"

\* A process that has its client's answers writes its record, or is killed, or is
\* held up for ever.
WritersAreServed ==
    \A p \in Processes :
        pc[p] = "lock" ~> pc[p] \notin {"lock", "write"} \/ p \in dead \/ []HeldUp(p)

=============================================================================
