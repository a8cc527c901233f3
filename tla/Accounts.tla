------------------------------ MODULE Accounts ------------------------------
(***************************************************************************)
(* The file db/account_db and everything that writes it: deposit, withdraw *)
(* and send_money (functions/customer.h), run by the processes of logged   *)
(* in customers, and delete_account and add_account (functions/employee.h),*)
(* run by the processes of employees, here called clerks.                  *)
(*                                                                         *)
(* Every service works in the same way: it reads an account record into a  *)
(* local struct, talks to the client, and later writes the whole struct    *)
(* back.  The record is locked during the write only.  The semaphore that  *)
(* brackets a customer's call is that customer's own (module Sessions), so *)
(* nothing keeps two processes off one record between read and write.      *)
(*                                                                         *)
(* Waiting for a client is an action with the client's answer as an \E;    *)
(* nothing obliges a client to answer.  The appends to db/transaction_db   *)
(* are single steps here, which module TransactionLog justifies.           *)
(***************************************************************************)
EXTENDS Integers, Sequences, FiniteSetsExt, RecordLocks

CONSTANTS
    Customers, Clerks,  \* the server processes, one per connection
    AccountOf,          \* [Customers -> Int]: loggedInCustomer.account
    Opening,            \* the account file at the start, indexed from 0
    Receivers,          \* [Customers -> SUBSET Int]: answers to SEND_ACCOUNT
    DeleteTargets,      \* answers to ADMIN_DEL_ACCOUNT_NO
    Amounts,            \* answers to the prompts for an amount
    Garbage,            \* what an uninitialized struct Account may hold
    MaxInt,             \* INT_MAX
    FilesMayFail,       \* whether open and write of a file may fail
    MaxCalls,           \* bound: [Processes -> Nat], the calls each one makes
    MaxDeaths           \* bound: processes killed

VARIABLES
    accounts,           \* account_db: a function from 0 .. n-1 to records
    transactions,       \* transaction_db, without the numbers
    held,               \* write locks on account_db, per process
    pc, call,           \* each process's position and local variables
    told,               \* how its last call ended for the client
    einval,             \* the clerks whose errno is still EINVAL
    dead,               \* the killed processes
    calls

vars == <<accounts, transactions, held, pc, call, told, einval, dead, calls>>

Processes == Customers \cup Clerks

\* The values of a 32-bit int.
CInt == (-MaxInt - 1)..MaxInt

Account == [accountNumber : Int, active : BOOLEAN, balance : CInt]

\* A file that is not empty: records 0 .. n.
IsFile(file) ==
    /\ file = [i \in DOMAIN file |-> file[i]]
    /\ \E n \in DOMAIN file : DOMAIN file = 0..n
    /\ \A i \in DOMAIN file : file[i] \in Account

ASSUME ConstantsAssumption ==
    /\ Customers \cap Clerks = {}
    /\ IsFile(Opening)
    /\ \A i \in DOMAIN Opening : ~Opening[i].active => Opening[i].balance = 0
    /\ AccountOf \in [Customers -> Int]
    /\ Receivers \in [Customers -> SUBSET Int]
    /\ DeleteTargets \subseteq Int
    /\ Amounts \subseteq CInt
    /\ Garbage \subseteq Account
    /\ MaxInt \in Nat
    /\ FilesMayFail \in BOOLEAN
    /\ MaxCalls \in [Processes -> Nat]

\* What a file offset no write has reached reads as.
Hole == [accountNumber |-> 0, active |-> FALSE, balance |-> 0]

\* The two receiver numbers that are not accounts (schemas/transaction.h:9).
Withdrawn == -1
Deposited == -2

Transaction == [from : Int, to : Int, amount : Int]

Services == {"deposit", "withdraw", "send"}

\* The local variables of a call: account, receiverAccount, the amount, which
\* of the two structs is being written back, and the record to write.
Call == [service : Services \cup {"none", "delete", "add"},
         own : Account, receiver : Account, amount : Int,
         side : {"own", "receiver"}, offset : Nat]

NoCall == [service |-> "none", own |-> Hole, receiver |-> Hole, amount |-> 0,
           side |-> "own", offset |-> 0]

\* Arithmetic of a 32-bit int, which wraps in this build.
Wrap(n) == IF n > MaxInt THEN n - 2 * (MaxInt + 1)
           ELSE IF n < -MaxInt - 1 THEN n + 2 * (MaxInt + 1)
           ELSE n

\* The struct after balance += amount.
Pay(account, amount) == [account EXCEPT !.balance = Wrap(@ + amount)]

\* The test of send_money, in int; a negative amount passes it.
CanPay(account, amount) == amount # 0 /\ Pay(account, -amount).balance >= 0

\* The test of withdraw, in long int: the difference does not wrap.
CanWithdraw(account, amount) == amount # 0 /\ account.balance - amount >= 0

\* Mutant of Put: without the lseek the write starts where find_account's read
\* has ended.
PutWithoutSeek(file, record, account) ==
    [i \in DOMAIN file \cup 0..(record + 1) |->
        IF i = record + 1 THEN account
        ELSE IF i \in DOMAIN file THEN file[i] ELSE Hole]

\* write at a record; a write beyond the end leaves holes before it.
Put(file, record, account) ==
    [i \in DOMAIN file \cup 0..record |->
        IF i = record THEN account
        ELSE IF i \in DOMAIN file THEN file[i] ELSE Hole]

\* Every balance is far enough from the ends of an int for one more payment.
\* Nothing in the code sees to that: beyond it the balances wrap.
Headroom ==
    \A i \in DOMAIN accounts : \A amount \in Amounts :
        accounts[i].balance + amount \in CInt /\ accounts[i].balance - amount \in CInt

-----------------------------------------------------------------------------
(***************************************************************************)
(* What keeps the processes out of each other's way, which the code leaves *)
(* to chance: the records are numbered by their place, no account is used  *)
(* by two processes, and there is no second clerk.                         *)
(***************************************************************************)
NumberedByPlace ==
    /\ \A i \in DOMAIN Opening : Opening[i].accountNumber = i
    /\ DeleteTargets \cap Nat \subseteq DOMAIN Opening

Uses(p) == IF p \in Customers THEN {AccountOf[p]} \cup Receivers[p] ELSE DeleteTargets

DisjointUse ==
    /\ NumberedByPlace
    /\ \A p \in Customers : AccountOf[p] \in DOMAIN Opening
    /\ \A p, q \in Processes : p # q => Uses(p) \cap Uses(q) = {}
    /\ \A p, q \in Clerks : p = q

-----------------------------------------------------------------------------
NoRecord == -1

\* Mutant of FindAccount: the first locked record ends the search.
FindAccountUpToALock(p, number) ==
    LET hits == {i \in DOMAIN accounts :
                    /\ accounts[i].accountNumber = number
                    /\ \A j \in 0..i : Free(held, p, OneRecord(j))}
    IN  IF hits = {} THEN NoRecord ELSE Min(hits)

(***************************************************************************)
(* find_account tries F_SETLK on each record in turn and skips the ones it *)
(* cannot lock, so a record another process has locked is not found.       *)
(***************************************************************************)
FindAccount(p, number) ==
    LET hits == {i \in DOMAIN accounts :
                    /\ accounts[i].accountNumber = number
                    /\ Free(held, p, OneRecord(i))}
    IN  IF hits = {} THEN NoRecord ELSE Min(hits)

\* The same when the file may not open: too many open files, for instance.
Found(p, number) ==
    {FindAccount(p, number)} \cup (IF FilesMayFail THEN {NoRecord} ELSE {})

\* It unlocks every record it has passed, among them one that an earlier call
\* of the same process has left locked.
AfterScan(p, record) ==
    [held EXCEPT ![p] = {r \in @ : record # NoRecord /\ r.from > record}]

Init ==
    /\ accounts = Opening
    /\ transactions = <<>>
    /\ held = [p \in Processes |-> {}]
    /\ pc = [p \in Processes |-> "menu"]
    /\ call = [p \in Processes |-> NoCall]
    /\ told = [p \in Processes |-> "nothing"]
    /\ einval = {}
    /\ dead = {}
    /\ calls = [p \in Processes |-> 0]

At(p, place) == p \notin dead /\ pc[p] = place

Goto(p, place) == pc' = [pc EXCEPT ![p] = place] /\ UNCHANGED told

\* The call returns to the menu.
Return(p, message) ==
    /\ pc' = [pc EXCEPT ![p] = "menu"]
    /\ told' = [told EXCEPT ![p] = message]
    /\ call' = [call EXCEPT ![p] = NoCall]

Enter(p) ==
    /\ At(p, "menu")
    /\ calls[p] < MaxCalls[p]
    /\ calls' = [calls EXCEPT ![p] = @ + 1]

-----------------------------------------------------------------------------
(* Customers.                                                              *)

\* The start of deposit, withdraw and send_money: get_account_details.
Open(p, service) ==
    /\ Enter(p)
    /\ \/ LET record == FindAccount(p, AccountOf[p])
          IN  /\ held' = AfterScan(p, record)
              /\ \/ /\ record = NoRecord
                    /\ Return(p, "no such account")
                 \/ /\ record # NoRecord
                    /\ ~accounts[record].active
                    /\ Return(p, "refused")
                 \/ /\ record # NoRecord
                    /\ accounts[record].active
                    /\ Goto(p, IF service = "send" THEN "to" ELSE "amount")
                    /\ call' = [call EXCEPT ![p] =
                           [@ EXCEPT !.service = service, !.own = accounts[record]]]
       \/ FilesMayFail /\ Return(p, "aborted") /\ UNCHANGED held
    /\ UNCHANGED <<accounts, transactions, einval, dead>>

\* Mutant of To: a customer may be its own receiver.
ToAnyone(p) ==
    /\ At(p, "to")
    /\ \E number \in Receivers[p] : \E record \in Found(p, number) :
        /\ held' = AfterScan(p, record)
        /\ \/ /\ record = NoRecord
              /\ Return(p, "refused")
           \/ /\ record # NoRecord
              /\ ~accounts[record].active
              /\ Return(p, "refused")
           \/ /\ record # NoRecord
              /\ accounts[record].active
              /\ Goto(p, "amount")
              /\ call' = [call EXCEPT ![p] = [@ EXCEPT !.receiver = accounts[record]]]
    /\ UNCHANGED <<accounts, transactions, einval, dead, calls>>

\* send_money: the client names the receiver.
To(p) ==
    /\ At(p, "to")
    /\ \E number \in Receivers[p] :
        \/ /\ number = AccountOf[p]
           /\ Return(p, "refused")
           /\ UNCHANGED held
        \/ /\ number # AccountOf[p]
           /\ \E record \in Found(p, number) :
                /\ held' = AfterScan(p, record)
                /\ \/ /\ record = NoRecord
                      /\ Return(p, "refused")
                   \/ /\ record # NoRecord
                      /\ ~accounts[record].active
                      /\ Return(p, "refused")
                   \/ /\ record # NoRecord
                      /\ accounts[record].active
                      /\ Goto(p, "amount")
                      /\ call' = [call EXCEPT ![p] = [@ EXCEPT !.receiver = accounts[record]]]
    /\ UNCHANGED <<accounts, transactions, einval, dead, calls>>

\* The client's answer to DEPOSIT_AMOUNT.
DepositAmount(p) ==
    /\ At(p, "amount")
    /\ call[p].service = "deposit"
    /\ \E amount \in Amounts :
        \/ /\ amount <= 0
           /\ Return(p, "refused")
        \/ /\ amount > 0
           /\ Goto(p, "log")
           /\ call' = [call EXCEPT ![p] =
                [@ EXCEPT !.amount = amount, !.own = Pay(call[p].own, amount)]]
    /\ UNCHANGED <<accounts, transactions, held, einval, dead, calls>>

\* The client's answer to WITHDRAW_AMOUNT.  When it is refused the server reads
\* twice where the client answers once: the two then wait for each other.
WithdrawAmount(p) ==
    /\ At(p, "amount")
    /\ call[p].service = "withdraw"
    /\ \E amount \in Amounts :
        \/ /\ ~CanWithdraw(call[p].own, amount)
           /\ Goto(p, "hung")
           /\ UNCHANGED call
        \/ /\ CanWithdraw(call[p].own, amount)
           /\ Goto(p, "log")
           /\ call' = [call EXCEPT ![p] =
                [@ EXCEPT !.amount = amount, !.own = Pay(call[p].own, -amount)]]
    /\ UNCHANGED <<accounts, transactions, held, einval, dead, calls>>

\* Mutant of SendAmount: the balance is not checked.
SendAnyAmount(p) ==
    /\ At(p, "amount")
    /\ call[p].service = "send"
    /\ \E amount \in Amounts \ {0} :
        /\ Goto(p, "find")
        /\ call' = [call EXCEPT ![p] =
                [@ EXCEPT !.amount = amount, !.own = Pay(call[p].own, -amount),
                          !.receiver = Pay(call[p].receiver, amount)]]
    /\ UNCHANGED <<accounts, transactions, held, einval, dead, calls>>

\* The client's answer to SEND_AMOUNT.
SendAmount(p) ==
    /\ At(p, "amount")
    /\ call[p].service = "send"
    /\ \E amount \in Amounts :
        \/ /\ ~CanPay(call[p].own, amount)
           /\ Return(p, "refused")
        \/ /\ CanPay(call[p].own, amount)
           /\ Goto(p, "find")
           /\ call' = [call EXCEPT ![p] =
                [@ EXCEPT !.amount = amount, !.own = Pay(call[p].own, -amount),
                          !.receiver = Pay(call[p].receiver, amount)]]
    /\ UNCHANGED <<accounts, transactions, held, einval, dead, calls>>

\* write_transaction_to_file: before the balance is written in deposit and
\* withdraw, after both balances are in send_money.  A failure goes unnoticed.
Log(p) ==
    /\ At(p, "log")
    /\ LET to == CASE call[p].service = "deposit" -> Deposited
                   [] call[p].service = "withdraw" -> Withdrawn
                   [] call[p].service = "send" -> call[p].receiver.accountNumber
           entry == [from |-> call[p].own.accountNumber, to |-> to,
                     amount |-> call[p].amount]
       IN  \/ transactions' = Append(transactions, entry)
           \/ FilesMayFail /\ UNCHANGED transactions
    /\ \/ call[p].service = "send" /\ Return(p, "success")
       \/ call[p].service # "send" /\ Goto(p, "find") /\ UNCHANGED call
    /\ UNCHANGED <<accounts, held, einval, dead, calls>>

\* Mutant of Find: -1 is taken for an offset.
FindUnchecked(p) ==
    /\ At(p, "find")
    /\ \E record \in Found(p, IF call[p].side = "own"
                              THEN call[p].own.accountNumber
                              ELSE call[p].receiver.accountNumber) :
        /\ held' = AfterScan(p, record)
        /\ Goto(p, "lock")
        /\ call' = [call EXCEPT ![p] = [@ EXCEPT !.offset = record]]
    /\ UNCHANGED <<accounts, transactions, einval, dead, calls>>

\* Look for the record to write.  When it is not found the call ends without a
\* word: after -1, lseek and fcntl fail in send_money as the test does elsewhere.
Find(p) ==
    /\ At(p, "find")
    /\ \E record \in Found(p, IF call[p].side = "own"
                              THEN call[p].own.accountNumber
                              ELSE call[p].receiver.accountNumber) :
        /\ held' = AfterScan(p, record)
        /\ \/ record = NoRecord /\ Return(p, "aborted")
           \/ /\ record # NoRecord
              /\ Goto(p, "lock")
              /\ call' = [call EXCEPT ![p] = [@ EXCEPT !.offset = record]]
    /\ UNCHANGED <<accounts, transactions, einval, dead, calls>>

-----------------------------------------------------------------------------
(* All: the locked write of a whole record.                                *)

\* The struct the call is writing back.
Struct(p) == IF call[p].side = "own" THEN call[p].own ELSE call[p].receiver

\* F_SETLKW.
Lock(p) ==
    /\ At(p, "lock")
    /\ Free(held, p, OneRecord(call[p].offset))
    /\ held' = [held EXCEPT ![p] = @ \cup {OneRecord(call[p].offset)}]
    /\ Goto(p, "write")
    /\ UNCHANGED <<accounts, transactions, call, einval, dead, calls>>

\* Mutant of Write: send_money writes the sender's struct to both records.
WriteOwnTwice(p) ==
    /\ At(p, "write")
    /\ accounts' = Put(accounts, call[p].offset, call[p].own)
    /\ held' = [held EXCEPT ![p] = @ \ {OneRecord(call[p].offset)}]
    /\ \/ /\ call[p].service = "send" /\ call[p].side = "own"
          /\ Goto(p, "find")
          /\ call' = [call EXCEPT ![p] = [@ EXCEPT !.side = "receiver"]]
       \/ /\ call[p].service = "send" /\ call[p].side = "receiver"
          /\ Goto(p, "log")
          /\ UNCHANGED call
       \/ call[p].service # "send" /\ Return(p, "success")
    /\ UNCHANGED <<transactions, einval, dead, calls>>

\* Mutant of Write: send_money never gets from the sender to the receiver.
WriteOwnAgain(p) ==
    /\ At(p, "write")
    /\ accounts' = Put(accounts, call[p].offset, Struct(p))
    /\ held' = [held EXCEPT ![p] = @ \ {OneRecord(call[p].offset)}]
    /\ \/ call[p].service = "send" /\ Goto(p, "find") /\ UNCHANGED call
       \/ call[p].service # "send" /\ Return(p, "success")
    /\ UNCHANGED <<transactions, einval, dead, calls>>

\* write and F_UNLCK, and on to what comes next in the call.
Write(p) ==
    /\ At(p, "write")
    /\ accounts' = Put(accounts, call[p].offset, Struct(p))
    /\ held' = [held EXCEPT ![p] = @ \ {OneRecord(call[p].offset)}]
    /\ \/ /\ call[p].service = "send" /\ call[p].side = "own"
          /\ Goto(p, "find")
          /\ call' = [call EXCEPT ![p] = [@ EXCEPT !.side = "receiver"]]
       \/ /\ call[p].service = "send" /\ call[p].side = "receiver"
          /\ Goto(p, "log")
          /\ UNCHANGED call
       \/ call[p].service # "send" /\ Return(p, "success")
    /\ UNCHANGED <<transactions, einval, dead, calls>>

\* F_SETLKW fails, or the write does: every service returns without unlocking
\* what it has locked.
LockOrWriteFails(p) ==
    /\ FilesMayFail
    /\ At(p, "lock") \/ At(p, "write")
    /\ Return(p, "aborted")
    /\ UNCHANGED <<accounts, transactions, held, einval, dead, calls>>

-----------------------------------------------------------------------------
(* Clerks.                                                                 *)

\* Mutant of DeleteRead: an account with money on it may be closed.
DeleteAnyBalance(p) ==
    /\ Enter(p)
    /\ \E number \in DeleteTargets \cap DOMAIN accounts :
        /\ Free(held, p, OneRecord(number))
        /\ Goto(p, "lock")
        /\ call' = [call EXCEPT ![p] =
                [@ EXCEPT !.service = "delete", !.offset = number,
                          !.own = [accounts[number] EXCEPT !.active = FALSE]]]
    /\ UNCHANGED <<accounts, transactions, held, einval, dead>>

\* Mutant of DeleteRead: the record is written back as it was read.
DeleteNothing(p) ==
    /\ Enter(p)
    /\ \E number \in DeleteTargets \cap DOMAIN accounts :
        /\ Free(held, p, OneRecord(number))
        /\ accounts[number].balance = 0
        /\ Goto(p, "lock")
        /\ call' = [call EXCEPT ![p] =
                [@ EXCEPT !.service = "delete", !.offset = number,
                          !.own = accounts[number]]]
    /\ UNCHANGED <<accounts, transactions, held, einval, dead>>

(***************************************************************************)
(* delete_account up to the decision.  The number typed is used as the     *)
(* index of the record; a negative one makes lseek fail with EINVAL, and   *)
(* since only another failure changes errno the next call is refused too.  *)
(* Beyond the end of the file read returns 0 and account keeps whatever    *)
(* the stack held.  The close drops every lock the process has on the      *)
(* file, one that an earlier call has left among them.                     *)
(***************************************************************************)
DeleteRead(p) ==
    /\ Enter(p)
    /\ \E number \in DeleteTargets :
        \/ /\ number < 0 \/ p \in einval
           /\ Return(p, "no such account")
           /\ einval' = einval \cup {p}
           /\ UNCHANGED held
        \/ /\ FilesMayFail
           /\ Return(p, "no such account")
           /\ einval' = einval \ {p}
           /\ UNCHANGED held
        \/ /\ number >= 0 /\ p \notin einval
           /\ Free(held, p, OneRecord(number))
           /\ \E account \in IF number \in DOMAIN accounts
                             THEN {accounts[number]} ELSE Garbage :
                \/ account.balance # 0 /\ Return(p, "refused")
                \/ account.balance = 0 /\ FilesMayFail /\ Return(p, "aborted")
                \/ /\ account.balance = 0
                   /\ Goto(p, "lock")
                   /\ call' = [call EXCEPT ![p] =
                        [@ EXCEPT !.service = "delete", !.offset = number,
                                  !.own = [account EXCEPT !.active = FALSE]]]
           /\ held' = [held EXCEPT ![p] = {}]
           /\ UNCHANGED einval
    /\ UNCHANGED <<accounts, transactions, dead>>

\* add_account: the number follows the last record's, and so does the offset.
AddRead(p) ==
    /\ Enter(p)
    /\ \/ LET last == Max(DOMAIN accounts)
          IN  /\ Free(held, p, OneRecord(last))
              /\ held' = [held EXCEPT ![p] = @ \ {OneRecord(last)}]
              /\ Goto(p, "append")
              /\ call' = [call EXCEPT ![p] =
                    [@ EXCEPT !.service = "add", !.offset = last + 1,
                              !.own = [accountNumber |-> accounts[last].accountNumber + 1,
                                       active |-> TRUE, balance |-> 0]]]
              /\ UNCHANGED einval
       \/ FilesMayFail /\ Return(p, "aborted") /\ einval' = einval \ {p} /\ UNCHANGED held
    /\ UNCHANGED <<accounts, transactions, dead>>

\* The new record is written without a lock, at the offset where the read ended,
\* and the file is closed, unless the write has failed.
AddWrite(p) ==
    /\ At(p, "append")
    /\ \/ /\ accounts' = Put(accounts, call[p].offset, call[p].own)
          /\ held' = [held EXCEPT ![p] = {}]
          /\ Return(p, "success")
          /\ UNCHANGED einval
       \/ /\ FilesMayFail
          /\ einval' = einval \ {p}
          /\ UNCHANGED <<accounts, held>>
          /\ Return(p, "aborted")
    /\ UNCHANGED <<transactions, dead, calls>>

-----------------------------------------------------------------------------
\* The process is killed, wherever it is; the kernel drops its locks.
Die(p) ==
    /\ p \notin dead
    /\ Cardinality(dead) < MaxDeaths
    /\ dead' = dead \cup {p}
    /\ held' = [held EXCEPT ![p] = {}]
    /\ UNCHANGED <<accounts, transactions, pc, call, told, einval, calls>>

\* A step the client has to take part in.
ClientStep(p) ==
    \/ /\ p \in Customers
       /\ \/ \E service \in Services : Open(p, service)
          \/ To(p)
          \/ DepositAmount(p)
          \/ WithdrawAmount(p)
          \/ SendAmount(p)
    \/ /\ p \in Clerks
       /\ DeleteRead(p) \/ AddRead(p)

\* A step the server takes alone.
ServerStep(p) == Log(p) \/ Find(p) \/ Lock(p) \/ Write(p) \/ AddWrite(p)

\* A step nobody wants.
Failure(p) == LockOrWriteFails(p) \/ Die(p)

Next == \E p \in Processes : ClientStep(p) \/ ServerStep(p) \/ Failure(p)

\* A process that waits for no client keeps running, unless it is killed; that
\* F_SETLKW or a write fails is never what it is owed.
Fairness == \A p \in Processes : WF_vars(ServerStep(p))

Spec == Init /\ [][Next]_vars

FairSpec == Spec /\ Fairness

-----------------------------------------------------------------------------
PC == {"menu", "to", "amount", "log", "find", "lock", "write", "append", "hung"}

Messages == {"nothing", "success", "refused", "no such account", "aborted"}

\* The type of every variable.
TypeOK ==
    /\ IsFile(accounts)
    /\ transactions \in Seq(Transaction)
    /\ held \in [Processes -> SUBSET LockRange]
    /\ pc \in [Processes -> PC]
    /\ call \in [Processes -> Call]
    /\ told \in [Processes -> Messages]
    /\ einval \subseteq Clerks
    /\ dead \subseteq Processes
    /\ calls \in [Processes -> Nat]
    /\ \A p \in Processes : calls[p] <= MaxCalls[p]

\* An account that is closed holds no money: delete_account refuses to close one
\* with a balance, and no customer's late write of a struct puts money on a
\* closed account without opening it again.  (What was paid in between the
\* clerk's read and write is lost: see NoLostUpdate.)
InactiveAccountsEmpty ==
    \A i \in DOMAIN accounts : ~accounts[i].active => accounts[i].balance = 0

\* With positive amounts no balance falls below zero, even when a balance is
\* computed from a record that has changed since.
NoOverdraft == \A i \in DOMAIN accounts : accounts[i].balance >= 0

\* Whoever writes a record, and however late, it remains the record of the same
\* account: no interleaving of finds, locks and writes moves or mixes up the
\* records of the opening file.
RecordsStayPut ==
    [][\A i \in DOMAIN Opening :
        /\ i \in DOMAIN accounts'
        /\ accounts'[i].accountNumber = accounts[i].accountNumber]_vars

\* The process has all it needs from its client for the current call.
Committed(p) ==
    p \notin dead /\ pc[p] \in {"log", "find", "lock", "write", "append"}

\* A failed write has left a record locked.
Leaked(p) == held[p] # {} /\ ~Committed(p)

\* No call waits for a lock for ever: it ends, unless the process is killed or
\* waits for good for a record that another process, whose write has failed, has
\* left locked.
CommittedCallsEnd ==
    \A p \in Processes :
        Committed(p) ~>
            \/ ~Committed(p)
            \/ [](pc[p] = "lock" /\ \E q \in Processes \ {p} :
                    Leaked(q) /\ OneRecord(call[p].offset) \in held[q])

\* The accounts whose records a process has read and will write back; the clerk's
\* from the test of the balance on.
InHand(p) ==
    LET c == call[p]
        ownUnwritten == c.service \in Services /\ c.side = "own" /\ pc[p] # "hung"
        receiverUnwritten == c.service = "send" /\ pc[p] \notin {"to", "log"}
    IN  (IF ownUnwritten \/ c.service = "delete" THEN {c.own.accountNumber} ELSE {})
        \cup (IF receiverUnwritten THEN {c.receiver.accountNumber} ELSE {})

\* The sections marked "Lock the critical section" (customer.h:274, 382, 491),
\* and delete_account from the balance test to its write: between the read of a
\* record and the write of what was computed from it, no other process changes
\* the record.
NoLostUpdate ==
    [][\A p \in Processes : \A i \in DOMAIN accounts :
        /\ accounts[i].accountNumber \in InHand(p)
        /\ accounts'[i] # accounts[i]
        => Write(p)]_vars

\* "Account record doesn't exist" (common.h:84): a customer is told so only of an
\* account that is not in the file.
NotFoundMeansAbsent ==
    \A p \in Customers :
        told[p] = "no such account" =>
            \A i \in DOMAIN accounts : accounts[i].accountNumber # AccountOf[p]

\* What a transaction in the log says has happened to the balance of an account.
Effect(t, number) ==
    (IF t.from = number THEN IF t.to = Deposited THEN t.amount ELSE -t.amount ELSE 0)
    + (IF t.to = number THEN t.amount ELSE 0)

Logged(number) ==
    SumFunction([i \in DOMAIN transactions |-> Effect(transactions[i], number)])

\* What a call in progress, or cut short by a kill, has written to the record
\* and not to the log, less what it has logged and not written.
Pending(p, number) ==
    LET c == call[p]
        t(to) == [from |-> c.own.accountNumber, to |-> to, amount |-> c.amount]
    IN  CASE c.service = "deposit" /\ pc[p] \in {"find", "lock", "write"} ->
                -Effect(t(Deposited), number)
          [] c.service = "withdraw" /\ pc[p] \in {"find", "lock", "write"} ->
                -Effect(t(Withdrawn), number)
          [] c.service = "send" /\ c.side = "receiver" /\ pc[p] # "log" ->
                IF number = c.own.accountNumber THEN -c.amount ELSE 0
          [] c.service = "send" /\ pc[p] = "log" ->
                Effect(t(c.receiver.accountNumber), number)
          [] OTHER -> 0

\* The balance of every account is the opening balance and what its passbook
\* lists, but for the calls still in progress or cut short by a kill.
BooksBalance ==
    \A i \in DOMAIN Opening :
        accounts[i].balance =
            Opening[i].balance + Logged(Opening[i].accountNumber)
            + SumFunction([p \in Processes |-> Pending(p, Opening[i].accountNumber)])

\* "This account has been successfully deleted" (constants.h:75) is said when the
\* account whose number the clerk has typed is closed.
DeletionClosesTheAccountNamed ==
    [][\A p \in Clerks :
        call[p].service = "delete" /\ Write(p) =>
            \E i \in DOMAIN accounts' :
                /\ accounts'[i].accountNumber = call[p].offset
                /\ ~accounts'[i].active]_vars

=============================================================================
