------------------------------- MODULE Staff --------------------------------
(***************************************************************************)
(* The files db/employee_db and db/admin_db and everything that uses them: *)
(* the services of an administrator (functions/admin.h,                    *)
(* functions/admin_employee.h) and the login of an employee                *)
(* (functions/employee.h).                                                 *)
(*                                                                         *)
(* add_employee holds a read lock on the last record while its client is   *)
(* asked two questions, and keeps it when the second answer is wrong.      *)
(* modify_employee locks the record to read it, lets go of it during the   *)
(* dialogue, and locks it again to write all of it back.  add_admin locks  *)
(* and never unlocks, but the lock is a read lock and nothing writes to    *)
(* admin_db under a write lock, so nobody can meet it: the locks below are *)
(* those of employee_db.                                                   *)
(***************************************************************************)
EXTENDS Integers, FiniteSetsExt

CONSTANTS
    Admins, Visitors,    \* the server processes: of administrators, of employees
    Opening,             \* employee_db at the start, indexed from 0
    OpeningAdmins,       \* admin_db at the start
    Names,               \* answers to ADD_EMPLOYEE_NAME and ADD_ADMIN_NAME
    IsManager,           \* answers to MODIFY_EMPLOYEE_NEW_ISMANAGER: 0 and 1
    Numbers,             \* answers to GET_EMPLOYEE_ID and MODIFY_EMPLOYEE
    LoginNumbers,        \* the numbers in the logins employees type
    Garbage,             \* what an uninitialized struct Employee may contain
    Zeros,               \* a struct Employee of zeros
    FilesMayFail,        \* whether a write may fail
    MaxCalls,            \* bound: [Processes -> Nat], services or logins
    Mortal               \* bound: the processes that may be killed

VARIABLES
    employees,           \* employee_db: a function from 0 .. n to records
    admins,              \* admin_db
    reading, writing,    \* what each process has locked of employee_db
    pc,
    record,              \* newEmployee, newAdmin, employee
    place,               \* the record it is about, or the last one of an addition
    einval,              \* the processes whose errno has been left at EINVAL
    dead, calls,
    astray,              \* history: places modified when they were not in the file
    twice,               \* history: places to which two additions have written
    left                 \* history: processes that have returned with a lock

vars == <<employees, admins, reading, writing, pc, record, place, einval, dead,
          calls, astray, twice, left>>

Processes == Admins \cup Visitors

\* The login is the name, an underscore and the number.
Employee == [id : Int, name : Names, manager : BOOLEAN, login : Names \X Int]

Admin == [id : Int, login : Names \X Int]

\* A file of records that is not empty and has no gaps.
IsFile(file, Record) ==
    \E n \in DOMAIN file : n \in Nat /\ file \in [0..n -> Record]

\* The record of number n is the n-th, and its login leads back to it.
InOrder(file) == \A i \in DOMAIN file : file[i].id = i /\ file[i].login[2] = i

ASSUME ConstantsAssumption ==
    /\ Admins \cap Visitors = {}
    /\ IsFile(Opening, Employee) /\ InOrder(Opening)
    /\ IsFile(OpeningAdmins, Admin) /\ InOrder(OpeningAdmins)
    /\ IsManager \subseteq BOOLEAN
    /\ Numbers \subseteq Int
    /\ LoginNumbers \subseteq Nat
    /\ Garbage \subseteq Employee
    /\ Zeros \in Employee
    /\ FilesMayFail \in BOOLEAN
    /\ MaxCalls \in [Processes -> Nat]
    /\ Mortal \subseteq Processes

Last(file) == Max(DOMAIN file)

\* write at a record; what is between it and the old end of the file reads as zeros.
Put(file, n, value) ==
    [i \in DOMAIN file \cup 0..n |->
        IF i = n THEN value ELSE IF i \in DOMAIN file THEN file[i] ELSE Zeros]

\* The bytes of a record: get_employee_details locks as many as a struct Account
\* has, which is a part of a struct Employee.
Beginning(n) == {<<n, "beginning">>}

Whole(n) == Beginning(n) \cup {<<n, "rest">>}

Locks == Nat \X {"beginning", "rest"}

Init ==
    /\ employees = Opening
    /\ admins = OpeningAdmins
    /\ reading = [p \in Processes |-> {}]
    /\ writing = [p \in Processes |-> {}]
    /\ pc = [p \in Processes |-> "menu"]
    /\ record = [p \in Processes |-> Zeros]     \* of no meaning in the menu
    /\ place = [p \in Processes |-> 0]
    /\ einval = {}
    /\ dead = {}
    /\ calls = [p \in Processes |-> 0]
    /\ astray = {}
    /\ twice = {}
    /\ left = {}

Goto(p, from, to) ==
    /\ p \notin dead
    /\ pc[p] = from
    /\ pc' = [pc EXCEPT ![p] = to]

Enter(p) ==
    /\ calls[p] < MaxCalls[p]
    /\ calls' = [calls EXCEPT ![p] = @ + 1]

\* The local variables of a service end with it.
Forget(p) ==
    /\ record' = [record EXCEPT ![p] = Zeros]
    /\ place' = [place EXCEPT ![p] = 0]

files == <<employees, admins>>
locks == <<reading, writing>>
history == <<astray, twice, left>>

-----------------------------------------------------------------------------
(* Record locks.                                                           *)

\* F_RDLCK and F_WRLCK: a lock conflicts with those of other processes, and takes
\* the place of the process' own.
ReadFree(p, range) == \A q \in Processes \ {p} : writing[q] \cap range = {}

WriteFree(p, range) ==
    \A q \in Processes \ {p} : (writing[q] \cup reading[q]) \cap range = {}

\* Mutant of TakeRead: the lock is exclusive.
TakeExclusive(p, range) ==
    /\ WriteFree(p, range)
    /\ writing' = [writing EXCEPT ![p] = @ \cup range]
    /\ reading' = [reading EXCEPT ![p] = @ \ range]

TakeRead(p, range) ==
    /\ ReadFree(p, range)
    /\ reading' = [reading EXCEPT ![p] = @ \cup range]
    /\ writing' = [writing EXCEPT ![p] = @ \ range]

\* F_RDLCK, read and F_UNLCK of one range: what the process had there is gone.
ReadAndUnlock(p, range) ==
    /\ ReadFree(p, range)
    /\ reading' = [reading EXCEPT ![p] = @ \ range]
    /\ writing' = [writing EXCEPT ![p] = @ \ range]

\* close of a descriptor of the file, or the end of the process.
Close(p) ==
    /\ reading' = [reading EXCEPT ![p] = {}]
    /\ writing' = [writing EXCEPT ![p] = {}]

\* What a process waits for in F_SETLKW, and who keeps it waiting.
Wanted(p) == IF pc[p] \in {"details", "seen"} THEN Beginning(place[p]) ELSE Whole(place[p])

WaitsFor(p, q) ==
    /\ p # q
    /\ \/ /\ pc[p] \in {"details", "seen", "last", "lookup", "login"}
          /\ writing[q] \cap Wanted(p) # {}
       \/ /\ pc[p] = "lock"
          /\ (writing[q] \cup reading[q]) \cap Wanted(p) # {}

\* Everybody who is reached from q along WaitsFor is in every such set.
Closed(group) == \A q \in group, r \in Processes : WaitsFor(q, r) => r \in group

Reaches(p, q) == \A group \in SUBSET Processes : p \in group /\ Closed(group) => q \in group

InCycle(p) == \E q \in Processes : WaitsFor(p, q) /\ Reaches(q, p)

\* EDEADLK: the service returns.  errno is no longer EINVAL.
Deadlock(p) ==
    /\ p \notin dead
    /\ InCycle(p)
    /\ pc' = [pc EXCEPT ![p] = "menu"]
    /\ einval' = einval \ {p}
    /\ Forget(p)
    /\ UNCHANGED <<files, locks, dead, calls, history>>

-----------------------------------------------------------------------------
(* Employees, and the details of one.                                      *)

\* The login of an employee: the record whose number is in it is looked up.
LoginAsk(p) ==
    /\ Goto(p, "menu", "login")
    /\ Enter(p)
    /\ \E n \in LoginNumbers : place' = [place EXCEPT ![p] = n]
    /\ UNCHANGED <<files, locks, record, einval, dead, history>>

\* The login and the password are compared, and nothing is kept.
LoginRead(p) ==
    /\ Goto(p, "login", "menu")
    /\ ReadFree(p, Whole(place[p]))
    /\ Close(p)
    /\ Forget(p)
    /\ UNCHANGED <<files, einval, dead, calls, history>>

\* Mutant of Ask: the result of lseek is not tested.
AskUntested(p, n, to) ==
    /\ Enter(p)
    /\ Goto(p, "menu", to)
    /\ place' = [place EXCEPT ![p] = n]
    /\ UNCHANGED <<files, locks, record, dead, history>>

\* get_employee_details of number n.  A negative number makes lseek set errno, which
\* is taken for its result ever after.
Ask(p, n, to) ==
    /\ Enter(p)
    /\ IF n < 0 \/ p \in einval
       THEN Goto(p, "menu", "menu") /\ UNCHANGED place
       ELSE Goto(p, "menu", to) /\ place' = [place EXCEPT ![p] = n]
    /\ UNCHANGED <<files, locks, record, dead, history>>

GetDetails(p) ==
    \E n \in Numbers :
        /\ Ask(p, n, "details")
        /\ einval' = IF n < 0 THEN einval \cup {p} ELSE einval

Details(p) ==
    /\ Goto(p, "details", "menu")
    /\ ReadAndUnlock(p, Beginning(place[p]))
    /\ Forget(p)
    /\ UNCHANGED <<files, einval, dead, calls, history>>

\* list_all_employees reads without a lock, and closes the file.
ListAll(p) ==
    /\ Goto(p, "menu", "menu")
    /\ Enter(p)
    /\ Close(p)
    /\ UNCHANGED <<files, record, place, einval, dead, history>>

-----------------------------------------------------------------------------
(* Additions.                                                              *)

\* add_employee looks for the last record ...
SeekLast(p) ==
    /\ Goto(p, "menu", "last")
    /\ Enter(p)
    /\ place' = [place EXCEPT ![p] = Last(employees)]
    /\ UNCHANGED <<files, locks, record, einval, dead, history>>

\* ... locks and reads it; the new number follows its.
ReadLast(p) ==
    /\ Goto(p, "last", "name")
    /\ TakeRead(p, Whole(place[p]))
    /\ record' = [record EXCEPT ![p] = [employees[place[p]] EXCEPT !.id = @ + 1]]
    /\ UNCHANGED <<files, place, einval, dead, calls, history>>

AddName(p) ==
    /\ Goto(p, "name", "manager")
    /\ \E name \in Names : record' = [record EXCEPT ![p] = [@ EXCEPT !.name = name]]
    /\ UNCHANGED <<files, locks, place, einval, dead, calls, history>>

\* The client says whether the new employee is a manager: the record is written
\* behind the one read before, and the file closed.
AddEmployee(p) ==
    /\ Goto(p, "manager", "menu")
    /\ \E manager \in IsManager :
        employees' = Put(employees, place[p] + 1,
                         [id |-> record[p].id, name |-> record[p].name, manager |-> manager,
                          login |-> <<record[p].name, record[p].id>>])
    /\ twice' = IF place[p] + 1 \in DOMAIN employees THEN twice \cup {place[p] + 1} ELSE twice
    /\ Close(p)
    /\ Forget(p)
    /\ UNCHANGED <<admins, einval, dead, calls, astray, left>>

\* An answer other than 0 and 1, or a write that fails: the last record stays locked.
AddGivesUp(p) ==
    /\ Goto(p, "manager", "menu")
    /\ left' = left \cup {p}
    /\ Forget(p)
    /\ einval' = einval \/ (FilesMayFail /\ einval' = einval \ {p})
    /\ UNCHANGED <<files, locks, dead, calls, astray, twice>>

\* add_admin, the same on admin_db.
ReadLastAdmin(p) ==
    /\ Goto(p, "menu", "admin")
    /\ Enter(p)
    /\ record' = [record EXCEPT ![p] = [@ EXCEPT !.id = admins[Last(admins)].id + 1]]
    /\ place' = [place EXCEPT ![p] = Last(admins)]
    /\ UNCHANGED <<files, locks, einval, dead, history>>

\* The result of the write is not looked at.  The login in the record has the whole
\* name, as the model's has; what is announced is the first word of it only, and is
\* left out.
AddAdmin(p) ==
    /\ Goto(p, "admin", "menu")
    /\ \/ /\ \E name \in Names :
                admins' = [i \in DOMAIN admins \cup {place[p] + 1} |->
                            IF i = place[p] + 1
                            THEN [id |-> record[p].id, login |-> <<name, record[p].id>>]
                            ELSE admins[i]]
          /\ UNCHANGED einval
       \/ FilesMayFail /\ einval' = einval \ {p} /\ UNCHANGED admins
    /\ Forget(p)
    /\ UNCHANGED <<employees, locks, dead, calls, history>>

-----------------------------------------------------------------------------
(* modify_employee.                                                        *)

\* modify_employee calls get_employee_details first, which asks for another number
\* when it is given -1; the seek to record -1 then fails.
Modify(p) ==
    \/ \E n \in Numbers \ {-1} :
        /\ Ask(p, n, "seen")
        /\ einval' = IF n < 0 THEN einval \cup {p} ELSE einval
    \/ /\ -1 \in Numbers
       /\ \E n \in Numbers : Ask(p, n, "details")
       /\ einval' = einval \cup {p}

SeeDetails(p) ==
    /\ Goto(p, "seen", "lookup")
    /\ ReadAndUnlock(p, Beginning(place[p]))
    /\ UNCHANGED <<files, record, place, einval, dead, calls, history>>

\* What a read at place n returns.
Read(n) == IF n \in DOMAIN employees THEN {employees[n]} ELSE Garbage

\* Mutant of LookUp: the record is locked and not read.
LookUpUnread(p) ==
    /\ Goto(p, "lookup", "change")
    /\ ReadAndUnlock(p, Whole(place[p]))
    /\ \E r \in Garbage : record' = [record EXCEPT ![p] = r]
    /\ UNCHANGED <<files, place, einval, dead, calls, history>>

\* The record is read under a lock that is then given back.
LookUp(p) ==
    /\ Goto(p, "lookup", "change")
    /\ ReadAndUnlock(p, Whole(place[p]))
    /\ \E r \in Read(place[p]) : record' = [record EXCEPT ![p] = r]
    /\ astray' = IF place[p] \in DOMAIN employees THEN astray ELSE astray \cup {place[p]}
    /\ UNCHANGED <<files, place, einval, dead, calls, twice, left>>

\* The client gives a name or says whether the employee is a manager; any other
\* answer is the end of it.
Change(p) ==
    /\ \/ /\ Goto(p, "change", "lock")
          /\ \/ \E name \in Names : record' = [record EXCEPT ![p] = [@ EXCEPT !.name = name]]
             \/ \E manager \in IsManager :
                    record' = [record EXCEPT ![p] = [@ EXCEPT !.manager = manager]]
          /\ UNCHANGED place
       \/ Goto(p, "change", "menu") /\ Forget(p)
    /\ UNCHANGED <<files, locks, einval, dead, calls, history>>

Lock(p) ==
    /\ Goto(p, "lock", "write")
    /\ WriteFree(p, Whole(place[p]))
    /\ writing' = [writing EXCEPT ![p] = @ \cup Whole(place[p])]
    /\ reading' = [reading EXCEPT ![p] = @ \ Whole(place[p])]
    /\ UNCHANGED <<files, record, place, einval, dead, calls, history>>

\* Mutant of Write: the descriptor is left open, and lock2 is not unlocked.
WriteStaysOpen(p) ==
    /\ Goto(p, "write", "menu")
    /\ employees' = Put(employees, place[p], record[p])
    /\ Forget(p)
    /\ UNCHANGED <<locks, admins, einval, dead, calls, history>>

\* Mutant of Write: no seek back to the record that has been read.
WriteBehind(p) ==
    /\ Goto(p, "write", "menu")
    /\ employees' = Put(employees, place[p] + 1, record[p])
    /\ Close(p)
    /\ Forget(p)
    /\ UNCHANGED <<admins, einval, dead, calls, history>>

\* The second F_UNLCK sets lock.l_type and passes lock2, which is still a write
\* lock: only the close that follows unlocks.
Write(p) ==
    /\ Goto(p, "write", "menu")
    /\ employees' = Put(employees, place[p], record[p])
    /\ Close(p)
    /\ Forget(p)
    /\ UNCHANGED <<admins, einval, dead, calls, history>>

\* modify_employee returns and leaves the record locked.
WriteFails(p) ==
    /\ FilesMayFail
    /\ Goto(p, "write", "menu")
    /\ left' = left \cup {p}
    /\ Forget(p)
    /\ UNCHANGED <<files, locks, einval, dead, calls, astray, twice>>

-----------------------------------------------------------------------------
\* The process is killed, or ends with its client's session: everything it holds is
\* gone.
Die(p) ==
    /\ p \in Mortal \ dead
    /\ dead' = dead \cup {p}
    /\ Close(p)
    /\ pc' = [pc EXCEPT ![p] = "menu"]
    /\ einval' = einval \ {p}
    /\ left' = left \ {p}
    /\ calls' = [calls EXCEPT ![p] = 0]
    /\ Forget(p)
    /\ UNCHANGED <<files, astray, twice>>

\* What a process does on an answer of its client.
ClientStep(p) ==
    \/ p \in Visitors /\ LoginAsk(p)
    \/ /\ p \in Admins
       /\ \/ GetDetails(p)
          \/ ListAll(p)
          \/ SeekLast(p)
          \/ AddName(p)
          \/ AddEmployee(p)
          \/ AddGivesUp(p)
          \/ ReadLastAdmin(p)
          \/ AddAdmin(p)
          \/ Modify(p)
          \/ Change(p)

\* What it does alone.
ServerStep(p) ==
    \/ LoginRead(p)
    \/ Details(p)
    \/ ReadLast(p)
    \/ SeeDetails(p)
    \/ LookUp(p)
    \/ Lock(p)
    \/ Write(p)
    \/ WriteFails(p)
    \/ Deadlock(p)

Next == \E p \in Processes : ClientStep(p) \/ ServerStep(p) \/ Die(p)

\* A process that waits for no client keeps running, unless it is killed.
Fairness == \A p \in Processes : WF_vars(ServerStep(p))

Spec == Init /\ [][Next]_vars

FairSpec == Spec /\ Fairness

-----------------------------------------------------------------------------
PC == {"menu", "login", "details", "last", "name", "manager", "admin", "seen",
       "lookup", "change", "lock", "write"}

\* The type of every variable.
TypeOK ==
    /\ IsFile(employees, Employee)
    /\ IsFile(admins, Admin)
    /\ reading \in [Processes -> SUBSET Locks]
    /\ writing \in [Processes -> SUBSET Locks]
    /\ pc \in [Processes -> PC]
    /\ record \in [Processes -> Employee]
    /\ place \in [Processes -> Nat]
    /\ einval \subseteq Admins
    /\ dead \subseteq Processes
    /\ calls \in [Processes -> Nat]
    /\ astray \subseteq Nat
    /\ twice \subseteq Nat
    /\ left \subseteq Processes

\* The record of every employee and administrator is at the place of its number, and
\* its login, by which it is looked up, has that number: although two administrators
\* may compute the same number and place from one last record, modify records in
\* between, give wrong answers or be killed.  A modification of a record that was
\* not in the file when it was read puts an uninitialized struct there.
NumbersArePlaces == InOrder(admins) /\ (astray = {} => InOrder(employees))

\* Only a second addition to the same place takes an employee's login away: a
\* modification writes the whole record back, and finds the login it has read.
LoginsLast ==
    [][\A i \in DOMAIN employees \ (astray \cup twice') :
        i \in DOMAIN employees' /\ employees'[i].login = employees[i].login]_vars

\* An employee's login is kept waiting for ever only by the lock of a service that has
\* given up and left it, never by a modification in progress or by a dialogue.
LoginsAreServed ==
    \A p \in Visitors :
        pc[p] = "login" ~>
            \/ pc[p] # "login"
            \/ p \in dead
            \/ [](\E q \in left : WaitsFor(p, q))

\* At the end of those p waits for is a process that waits for nobody, and has a lock
\* because it talks to its client in add_employee or has left one behind.
HeldByAPerson(p) ==
    \E q \in Processes \ {p} :
        /\ Reaches(p, q)
        /\ \A r \in Processes : ~WaitsFor(q, r)
        /\ q \in left \/ pc[q] \in {"name", "manager"}

\* A modification is written unless it waits for ever, in the end for an administrator
\* in the dialogue of add_employee or for a call that gave up: the others let go of
\* their locks, and the kernel ends what would be a wait in a circle.
WritersAreServed ==
    \A p \in Admins :
        pc[p] = "lock" ~>
            \/ pc[p] \notin {"lock", "write"}
            \/ p \in dead
            \/ []HeldByAPerson(p)

=============================================================================
