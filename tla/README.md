# Verification of the bank server

The repository is a small bank: a server that forks one process per connection
(`src/server/server.c`), a terminal client (`src/client/client.c`), and files of
fixed-size records in `src/db/` that all server processes read and write. There is
no database and no shared memory between the processes. What keeps them apart is
POSIX record locks (`fcntl`) on the files and two System V semaphores per customer.
The modules here model what the processes do to those files, locks and semaphores,
check it with TLC on small instances, and prove all but its liveness with TLAPS, for any
number of processes and any answers of the clients.

## 1. Inventory

### Components, their state and their operations

| component | code | state | operations | interacts with |
|---|---|---|---|---|
| money services | `functions/customer.h` deposit, withdraw, send_money; `functions/common.h` get_account_details, find_account | `account_db`; local `struct Account`s; record locks | read, ask, log, find, lock, write | log; sessions (semaphore); clerks |
| account administration | `functions/employee.h` delete_account, add_account | `account_db` | read and check, write; append | money services; customer records |
| transaction log | `customer.h` write_transaction_to_file | `transaction_db`; a lock to the end of the file | number, append | called by the money services |
| sessions | `customer.h` customer_operation_handler, initialize_semaphores, lock_semaphore, unlock_semaphore | two semaphores per customer, which outlive every process | login, start and end a service, logout | every service of a customer |
| customer records | `customer.h` login_handler_customer, change_password; `employee.h` add_customer, add_account, modify_customer_info; `common.h` get_customer_details | `customer_db`; `loggedInCustomer`, kept for the whole session | login, change, append, modify, link, look up | sessions; accounts |
| server and dialogue | `server/server.c`, `client/client.c`, `functions/auxillaries.h`, `include/constants.h` | one stream per connection; nothing durable | accept, prompt, answer, time out | everything |
| administrators | `functions/admin.h`, `functions/admin_employee.h`, the login of `employee.h` | `employee_db`, `admin_db` | login, add, modify, look up, list | themselves |
| read-only services | get_balance, get_passbook, get_transaction_details, ... | none | locked read, print | dialogue; the locks of the files they read |
| monitor, seeding tools, loan headers | `server/monitor_activeuser.c`, `db/*.c`, `schemas/loan.h`, `functions/loan.h` | a shared counter that nothing writes; the initial files | | |

### Which behaviours are hard

* **Read, think, write back.** Every service reads a whole record, waits for a person,
  and writes the whole record back. The lock covers the write only. The semaphore taken
  under the comment "Lock the critical section" belongs to the customer and not to the
  account, so it excludes neither a transfer into the account nor a clerk.
* **Semantics of fcntl locks.** They belong to the process and not to the descriptor:
  every close of a file, and every scan of `find_account`, drops locks taken elsewhere
  in the process. `find_account` uses `F_SETLK` and treats a locked record as not there.
* **Numbers taken from the last record.** The next transaction, account or customer number
  is the last record's plus one, and the place is where that read has ended.
* **What outlives a process.** The semaphores do (they are not taken with `SEM_UNDO`);
  the locks do not.
* **A stream without a protocol.** The server writes a text and reads; the client decides by a
  mark in the text whether it answers by itself, asks, or closes. One read too many on
  either side and both wait, or every later answer goes to the wrong question.
* **`errno` for a result.** Several functions test `errno` instead of what `lseek` has
  returned, and nobody clears it: one negative number is remembered.
* **Early returns.** Some fifty returns on errors, each of which must unlock what the
  function has taken; several do not.
* **Several files in one service.** Debit, credit and log entry are three separate writes
  that a failed search or a kill can separate; account and customer are linked by two.

What would make each component correct: no update is lost and the balances agree with
the log (money services); a closed account is empty and is the one that was named
(administration); dense numbers and exclusion (log); one session per customer, true
refusals, no service blocked by a forgotten unlock (sessions); records at their numbers,
one owner per account, passwords that last (customer records); records at their numbers and
logins that last (administrators); answers that meet their questions, and nobody who waits for
a process that waits for him (locks, dialogue). `PROJECT.json` lists the hazards behind
these with their lines, and the properties that cover each.

## 2. Modules

| module | models | checked by |
|---|---|---|
| `RecordLocks` | fcntl ranges: one record, from a record to the end of the file, conflict, partial unlock | used by two modules |
| `AppendLog` | abstract: a log whose n-th record has number n, extended by one record at a time | refined by `TransactionLog` |
| `TransactionLog` | write_transaction_to_file, step by step | `transaction_log` |
| `Admission` | abstract: one session per customer and per process | refined by `Sessions` and by `Customers` |
| `Dialogue` | one connection: server process, stream, client, person | `dialogue` |
| `Staff` | everything that uses `employee_db` and `admin_db` | `staff` |
| `Accounts` | everything that writes `account_db` | `accounts_shared`, `accounts_disjoint`, `lost_update`, `not_found`, `numbering` |
| `Sessions` | semaphores and sessions | `sessions`, `already_logged_in` |
| `Customers` | everything that writes `customer_db` | `customers`, `two_clerks` |
| `*_proofs`, `SumTheorems` | the theorems of section 5; sums of functions, which `BooksBalance` needs | TLAPS |
| `MC*` | constants and small files for TLC; `MCAccountsDisjoint` and `MCCustomersOneClerk` also have TLC evaluate the conditions of the theorems that have some | |

How they fit together. `Accounts` appends to the log in one step; `TransactionLog` is the
detailed form of that step and is shown to implement `AppendLog`, whose `Next` is exactly
that step. `Accounts` has no semaphores: what a customer's own semaphore provides is that
one process runs one service at a time, which holds there because each customer is one
process; `Sessions` shows when that assumption holds (`OneSessionPerKey`). `Customers` has no
semaphores either: it refuses a login while another session of that customer lasts. That this
is what the semaphores do is the job of `Admission`, a module of two actions: `Sessions`
implements it with semget, SETVAL and semop in separate steps (`ImplementsAdmission`, proved),
and the sessions of `Customers`, whose identity is the number in a record read before the
password was asked for, stay within it (`SessionsAreAdmitted`). `Dialogue` knows nothing of
files: a service is there the set of what it may write and read on the connection, one
script per path through its code, and every `return` on a failing file is a script that
ends early. The others know nothing of the stream.

### From code to actions

An action is the code between two points at which the process can wait or another process
can see a difference.

* Waiting for the client ends an action. The answer is a `\E` over a constant set, so the
  whole piece of code after the `read` belongs to the action that receives the answer,
  with its early returns as disjuncts. Nothing obliges a client to answer.
* `F_SETLKW` ends an action: the action that passes it has the lock's condition as guard.
* A `write` to a file is a step of its own, with the unlock that follows it. An unlock
  only enables others, and nothing is read between the two, so joining them hides no
  behaviour that a property could tell apart.
* The scan of `find_account`, and the locked read of the record it has found, are one step. Only
  the probe of the record with the number looked for decides the result, and everything else
  in the scan is a shared lock held for a moment, which no other scan minds and which a
  writer outwaits. If the record is free at the probe it can be read at once or, when a
  writer comes in between, after that writer; either way the outcome is that of a
  single step at the time of the read, because records do not move (`RecordsStayPut`).
* A lock, a read and an unlock in succession are one step guarded by the lock
  (`DeleteRead`, `AddRead`, `ReadCustomer`, `Login`).
* A kill (`Die`) may come between any two steps: the kernel drops the locks and leaves
  semaphores and files as they are.

`Accounts`: `call[p]` holds the local variables of a service (`account`, `receiverAccount`,
the amount, the record to write); `pc[p]` says where it is (`amount` is the read after
`WITHDRAW_AMOUNT`, and so on). Deposit and withdraw go log, find, lock, write; send_money goes
find, lock, write for its own record, the same again for the receiver's (`side`), then
log. `einval` is the set of clerks whose `errno` has been left at `EINVAL`. Reading beyond
the end of the file leaves an uninitialized `struct Account`, which is any member of `Garbage`.
Balances wrap as 32-bit integers do, with `MaxInt` for `INT_MAX`; the test of send_money is made in
`int` (`CanPay`), that of withdraw in `long` (`CanWithdraw`). `LockOrWriteFails` is a failing
`F_SETLKW` or `write`; after either the service returns with whatever it has locked.

`TransactionLog`: the request of the lock computes its start from the end of the file *at
that time*; the wait, the seek and read of the last record, the append and the unlock (which is
relative to the *new* end, so part of the lock stays until the close) are separate actions.
`LockFails` is a failing `F_SETLKW`, `Fail` any later call that fails.

`Sessions`: `Key` maps customers to semaphore keys, as `ftok` does with the low 8 bits of
a number. A semaphore is created with value 0 and set to 1 in two steps. A session
that ends on an error returns without unlocking.

`Customers`: `record[p]` is `loggedInCustomer` in a session and the local `struct Customer` of a
clerk's service; `offset[p]` is the place it goes to and, in add_account, `custid`. A record's
text fields are members of small sets. Account records are a number and an owner there.
A lock is a set of halves of records, since get_customer_details locks and unlocks
`sizeof(struct Account)` bytes of a `struct Customer` and so can drop a part of a lock.
`einval` is as in `Accounts`. A number behind the end of the file passes every test of
modify_customer_info: its `read` returns 0, the struct is a member of `Garbage`, and the write
puts it there, with zeros (`Zeros`) before it. `astray` remembers such numbers; the
properties that this breaks say so. `GiveUp` is a failing open, seek or lock, EDEADLK among
the reasons. Failures have no fairness: they are not a way out of a wait.

`Staff`: the same for `employee_db`, with the read lock that add_employee keeps through its
dialogue (and after a wrong answer), get_employee_details with its partial unlock, its `errno`,
and its answer -1, on which modify_employee asks for another number. EDEADLK is modelled
exactly: `Deadlock` is enabled when the wait is part of a cycle. add_admin's lock is never
contended, as nothing locks `admin_db` for writing, so only its file is modelled; the login it
announces has the first word of the name only (`admin.h:269-271`) and is left out. `astray`,
`twice` and `left` are history variables: places modified that were not in the file, places two
additions have written, processes that have returned with a lock.

`Dialogue`: `script` is what the running handler or service will still write and read, `Write`
and `Read` take its items one by one, and choosing a service is choosing one of its
scripts. The texts are reduced to their marks. The client's `Take(n)` is a read that returns n
texts at once, examined in the order `client.c` tests the marks. `skipped` remembers the empty
lines a person has entered: `scanf` leaves their newline unread (`client.c:99`). The writes and
reads of a server whose client has gone succeed, fail, return nothing or raise SIGPIPE. The files are
not there, but what they can do to a dialogue is: after a read the service may find itself in
`F_SETLKW` behind another process (`blocked`), and `Granted` ends that wait or never comes. An answer
is one token that a read takes whole; in the code a line of more than 1000 bytes (`customer.h:158`
and `219`) leaves a rest that the next question gets for its answer.

## 3. Runs

| run | question | bound | result |
|---|---|---|---|
| `transaction_log` | Do concurrent appends keep the numbers dense, exclude each other, return the right number, and let everybody through? | 3 writers, one of them with two calls; failing calls; kills | holds, 62 000 states |
| `accounts_shared` | What survives when two customers pay each other while a clerk closes or opens an account? Who can be kept waiting? | c1 two calls, c2 and the clerk one; files and locks may fail; 1 kill | holds, 579 000 states |
| `accounts_disjoint` | If no two processes work on one account, is no update lost and does every balance agree with the log? | c1 two calls, c2 and the clerk one; any number of kills | holds, 645 000 states |
| `sessions` | One session per key, no untrue refusal beyond three known reasons, no service that waits for ever? Do two semaphores implement `Admission`? | 3 connections with two sessions each, two customers with one key, no semaphores at the start; 2 kills | holds, 126 000 states |
| `customers` | Do records stay at their numbers, accounts with one owner, passwords changed, sessions apart? Who can be kept waiting? | 2 connections of one customer, a clerk with two services; numbers before, in and behind the file; files may fail; one connection may be killed | holds, 311 000 states |
| `staff` | Do employees keep their places and logins? Who can be kept waiting? | 2 administrators with two calls each, 1 employee who logs in; numbers before, in and behind the file; writes may fail; one administrator may be killed | holds, 181 000 states |
| `dialogue` | Do server and client ever wait for each other, or answer past each other? Does every process end when its client goes? | one connection, every login and service of the three roles, lists of 0 to 3 entries; any wait for a record lock | holds, 2 247 states |
| `lost_update` | Is the section marked critical one? | 2 customers, a call each | violated |
| `not_found` | Is an account that "doesn't exist" absent? | 2 customers, a call each | violated |
| `numbering` | Is the account that was named the one that is closed? | the shipped numbering, one clerk | violated |
| `already_logged_in` | Is a customer who is told so logged in? | 3 connections | violated |
| `two_clerks` | Does a new account belong to one customer? | 2 clerks, a customer each | violated |

The five violations are disagreements between the code and what its own comments and messages
say; `PROJECT.json` quotes each under `findings`:

* `lost_update`: the semaphore behind "Lock the critical section" is the customer's.
* `not_found`: `find_account` cannot tell a locked record from an absent one.
* `numbering`: delete_account takes the number for an index. The shipped file starts at 1001.
* `already_logged_in`: a session that dies leaves its semaphore at 0 for ever.
* `two_clerks`: nothing is locked between reading the last account and appending the next.

`accounts_disjoint` and `customers` are the other side of these: they show under which use of
the program the property does hold. In `accounts_disjoint` no account is used by two processes,
records are numbered by their place and files do not fail; in `customers` one clerk works at a
time and modifies customers who are not logged in, or not there. The same conditions are named in
the modules (`DisjointUse`, `NumberedByPlace`; `OneClerk`, `SeparateRecords`, `KnownLogins`) and are
what the theorems of section 5 assume; the two runs' modules state them with ASSUME, so TLC
evaluates them on the constants it uses.

Three things the code does are named as exceptions in the properties of `Dialogue`, since no
document of the repository promises otherwise: after a refused amount withdraw reads twice where
the client answers once (`customer.h:445` and `448`, the item "listen"); an empty line or password
is never sent (`client.c:99`, `skipped`); and ADMIN_DOESNT_EXIST (`admin.h:104`) has no mark and is
taken for a question, so that until the end of that login the answers are one behind
(`ToldNotFound`). The two liveness properties about the server, `NoServerIsLeftBehind` and
`PersonIsServed`, also excuse a wait for a record lock that never ends (`blocked`). Everything else
the three roles can do is claimed without exception.

**Why the bounds are enough.** The hazards are races between the two halves of a service, and
two processes inside each other's windows, with a third to come in between, is where all of
them appear. The violations need one call each. Two calls of one process in a row are in every
passing run, because locks and `errno` are left over from one call to the next; in `accounts_shared`
they are a customer's, whose scan drops the lock its failed write has left. One kill
is enough where properties speak of those who remain, and it does not matter whose where the
processes are alike, so `customers` and `staff` name the one that may be killed (`Mortal`);
`accounts_disjoint` and `transaction_log` allow everybody to die. The menus of `Dialogue` come back
to the same state, so its run has no bound but the length of a list. Amounts 0, 1 and 2 reach the refusals, a draw to exactly 0, and one too
many. Bounds are all constants: `MaxCalls`, `MaxDeaths`, `Mortal`, `MaxRecords`, the sets of answers, the opening files.
Deadlock is not checked: when the calls are used up, or everybody waits for a client, the system
stops, as it should.

**Fairness.** Weak fairness on the steps a process takes alone (`ServerStep`): the operating
system keeps running a process that can run, and wakes one whose lock or semaphore is free.
Steps of a client and kills have none. Weak fairness is enough for a lock because with
finitely many calls a lock that is given back for good stays free; nothing is claimed about
starvation by an endless stream of calls. A failing `F_SETLKW` is in no fair action,
since it is not what a waiting process is owed, but for the EDEADLK of `Staff`, which the kernel
does owe to whoever waits in a circle.
In `Dialogue` the server's steps together and the client's together are fair (they are two
processes, and `select` returns after 60 seconds). The person, who may think for ever, is not,
and neither is `Granted`: the lock a service waits for may be held by add_customer through
another person's dialogue, or for good by a service that has returned without unlocking.

**What liveness says.** `CommittedCallsEnd` and `WritersAreServed` name who may keep a process
waiting for ever: one whose write has failed and left the record locked for good, or a clerk or
administrator who stops in the middle of the add_customer or add_employee dialogue. A moment's lock
excuses nothing: the escape has a `[]` in front of it. Administrators who wait in a circle are
released by the kernel; without `Deadlock` the run `staff` fails. Customers cannot wait for each other in a
circle, since the scan before each lock drops every lock up to the record wanted. `LoginsAreServed` adds that the login of an
employee does not wait for a dialogue either. What such a wait costs the other side of the
connection is in `Dialogue`: a person is served, and a server process ends after its client, unless
the server waits for a record lock for ever. `WaitersAreServed` and `ServicesStart` have no such
exception beyond a death that takes a semaphore along.

## 4. Properties worth reading first

* `Accounts!BooksBalance`: balance = opening balance + what the passbook lists, corrected by the
  calls that are in progress or were cut short (`Pending`).
* `Accounts!NoLostUpdate`: between a read and the write computed from it nobody else changes
  the record; for delete_account, between the test of the balance and the write.
* `Accounts!InactiveAccountsEmpty`: survives even lost updates, because a struct in hand that
  has money on it is an active account's.
* `TransactionLog!ImplementsAppendLog`: the locking protocol is an append-only log.
* `Sessions!RefusedForAReason`: every refusal is due to a session, to a semaphore between its
  creation and `SETVAL`, or to one lost with its holder.
* `Sessions!ImplementsAdmission`: two semaphores, created, set and lowered in separate system calls,
  behave as one test of whether the customer is logged in.
* `Staff!LoginsLast`: the only way to lose an employee's login is that two additions to
  one place overlap, or that somebody modifies a record that is not there.
* `Dialogue!NobodyWaitsForEver` and `AnswersMeetTheirPrompts`: some forty scripts, two parties and
  texts that run together, and the marks come out right but for the exceptions above.
* `Dialogue!SemaphoreLostOnlyWithItsClient`: who answers to the end can log in again. Together
  with `NoServerIsLeftBehind` it says what a closed terminal costs: a semaphore, and a process only
  while the record lock it waits for is not given back (change_password, `customer.h:714`, behind
  add_customer's read lock, `employee.h:336`; modify_employee, `admin_employee.h:348`).
* `Customers!RecordsAtTheirNumber`: login finds customers by place, so a number must be one.

## 5. Proofs

Proved for all values of the constants, under the named assumptions in the modules (constants
have their types, opening files are well formed, closed accounts are empty at the start). Where
the third column names a condition, the theorem has it as a hypothesis besides.

| module | theorem | condition | argument |
|---|---|---|---|
| `TransactionLog_proofs` | `TypeCorrect`, `DenseIds`, `OwnRecord`, `Exclusion`, `Refinement` | | a granted lock reaches from a record at or before the end of the file to infinity, so two of them would overlap; hence the last record read is still the last at the append, and the number computed from it is the place. The refinement is a corollary: every step maps to `AppendLog!Next` or a stutter |
| `Accounts_proofs` | `TypeCorrect`, `ClosedAccountsAreEmpty` | | `IInv` adds `CallsFit`: what a process will write back is safe, a customer's structs because the accounts were active when read, a clerk's because the account was empty. Without it the invariant is not inductive, since a write puts down a struct read long before |
| | `RecordsKeepTheirNumbers` | | `StructsInPlace`: whoever is about to write a record of the opening file holds a struct of its number, because it was found by that number or read there; and a new record goes behind the last |
| | `ClerksCloseWhatTheyName` | `NumberedByPlace` | `ClosingCalls`: the struct of a clerk who is about to close is inactive and, by `StructsInPlace`, has the number of its place, which is the number typed |
| | `NoAccountOverdrawn` | `[]Headroom`, no negative amount, no opening balance below 0 | `CallsInCredit`: a struct with an amount added or taken off is in credit, since the test was made on the same struct, and it does not matter that the record has changed since |
| `AccountsDisjoint_proofs` | `DisjointInvariance`, `NoAccountMissed`, `NothingLostApart` | `DisjointUse` | `DInv`: a process names, holds and locks only what it uses (`CallsKeep`, `LocksKeep`), so a search meets no foreign lock and a write no foreign record |
| | `BooksAlwaysBalance` | `DisjointUse`, `[]Headroom`, files do not fail, finitely many processes | on top of `DInv`, `CallsFresh`: a struct in hand has the balance of the file, or that and what will be paid. Each step then changes balance, log and `Pending` of one process so that the equation of each account is kept; a kill leaves `Pending` as it is, so a call cut short stays accounted for |
| `Sessions_proofs` | `TypeCorrect`, `SingleSession`, `Refusals`, `AdmissionRefinement` | | a semaphore's value accounts for who is inside; an entry then finds nobody with the same key, let alone the same customer, and a step that changes one process's session changes one pair |
| `Customers_proofs` | `TypeCorrect`, `NumbersArePlaces` | | `IInv` adds `RecordsFit`: a record in hand goes to the place of its number, inside the file or just behind its end, as long as `astray` is empty. Files only grow, so that stays true while others write; two clerks may write the same place, but with the same number |
| | `SessionsRefineAdmission` | `KnownLogins` | `KInv`: the records of the opening file keep their numbers, `astray` or not, and a session's record has the number that was typed; so the test in `Admit` is the guard of `Admission!Enter` |
| | `PasswordsLast` | `SeparateRecords` | `ClerksHarmless`: what a clerk has in hand goes to nobody who logs in, and has the password that place has had from the start |
| | `OneOwner` | `OneClerk` | `Owners` speaks of all `Copies` of records, in the file and in hand: copies of one customer may differ, but no number is on those of two, and a new account's number is above every one on them until it is linked |
| `Staff_proofs` | `TypeCorrect`, `PlacesKept`, `LoginsAreKept` | | `Fits` says the same as `RecordsFit` of administrators, and that a record being modified still has the login its place has, unless an addition has gone there twice |
| `Dialogue_proofs` | `TypeCorrect`, `NeverBothWait`, `AnswersFit`, `SemaphoreReturned` | | `InStep`: on the stream there is nothing but farewells and one text, or its answer, or the person has the question. The scripts enter only by the items they may contain (`Spoken`), and lists may have any length |

Each proof has the same shape: `InitIInv`, one lemma per action, `Invariance`, and the theorems
as consequences; further invariants are inductive relative to `IInv`. In `Customers_proofs` the
later ones need not look at each action again: `SessionStep` and `ClerkStep` say once what a step
of a session or of a clerk does to the files and to what is in hand. Lemmas on `Put`,
`FindAccount` and lock ranges are stated once. `SumTheorems` proves that a `SumFunction` over a
finite set changes with one value as expected, and by one element when a sequence is extended:
its definition is by an arbitrary choice of the order, and the library has no theorem about it.

### The conditions

All say how the program is used, none what it does; each is what the code leaves to chance, and
for most a run shows the property fail without it.

* `DisjointUse`: no account is one process's own or receiver and another's too, there is one clerk, and
  accounts are numbered by their place. Without it, `lost_update` and `not_found` are the
  counterexamples.
* `NumberedByPlace`: the opening file is numbered from 0, as the comment at `account.h:7` has it, and
  clerks do not type numbers behind it. Without it, `numbering`. The shipped file is not so numbered.
* `Headroom`: every balance, one payment more or less, is an `int`. It is a condition on states, so the
  theorems say: of a behaviour in which it always holds. It holds throughout `accounts_shared` and
  `accounts_disjoint` (`MaxInt` is beyond the money there is). Without it balances wrap (`Wrap`).
* `KnownLogins`: only customers of the opening file log in. Behind that file, once a customer who is
  not there has been modified, the record at a place may have any number, and a session goes by
  the number in its record, not by the one that was typed.
* `SeparateRecords`: `KnownLogins`, and no clerk names a customer who logs in, and customer 0, to whom a
  mistyped phone number links an account (`employee.h:385`), does not. Without it a record read
  before a change of password is written back after it (`employee.h:302` and `743`).
* `OneClerk`: one clerk at work, and the opening files are consistent: an account on one customer's
  record only, with a number up to the last. Without it, `two_clerks`. Nothing is asked of the
  customers: any number of them are in session meanwhile.
* `PasswordChangeLasts`, `OneOwnerPerAccount`, `RecordsAtTheirNumber` and the properties of `Staff` are
  claimed until a record that does not exist has been modified (`astray`); that is part of the properties.

`BooksBalance` needs `FilesMayFail = FALSE` because deposit and withdraw log first: after a
failed write the process goes on to its next call, and the passbook lists what never happened.

### Only model-checked

Every safety invariant, action property and refinement that a passing run checks is stated by a
theorem. What remains is liveness, which the prover cannot do (fairness and ENABLED):
`WaitersAreServed`, `CommittedCallsEnd`, `ServicesStart`, `WritersAreServed` (of `Customers` and of
`Staff`), `LoginsAreServed`, `NoServerIsLeftBehind`, `PersonIsServed`, `FirstPromptEnds`.

## 6. What is not modelled, and the plan

Left out for good: the monitor (it prints a counter nothing writes), the seeding tools (what they
leave behind is the `Opening` of the modules), the loan headers (declared, never defined),
formatting and the parsing of input (a login is a pair, a number a number), the contents of what
the read-only services print. Sockets and the listen queue are one nondeterministic `Accept`.

What could still be added, in this order:

1. `NoLostUpdate` for two customers one of whom pays the other, in turn: a condition on the overlap of
   calls instead of on the accounts they name.
2. A bound on the money in all accounts together, from which `Headroom` would follow where no
   update is lost.
3. A clerk who modifies a customer while that customer is in a session: `PasswordChangeLasts` and
   `OneOwnerPerAccount` need to say what each may then undo.
