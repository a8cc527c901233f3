--------------------------- MODULE TransactionLog ---------------------------
(***************************************************************************)
(* write_transaction_to_file (functions/customer.h:755-820), run by any    *)
(* number of server processes at once on the one file db/transaction_db.   *)
(*                                                                         *)
(* The call numbers its record by reading the last record of the file, so  *)
(* two calls must not overlap between that read and the write.  The lock   *)
(* meant to ensure it is commented "Lock the entire file" but is relative  *)
(* to the END of the file at the time of the call: it covers nothing that  *)
(* is in the file, only what will be added.  When the record has been      *)
(* written, the unlock is relative to the new end: the range between the   *)
(* old and the new end stays locked until the file is closed.              *)
(***************************************************************************)
EXTENDS Integers, Sequences, RecordLocks

CONSTANTS
    Writers,      \* the server processes
    MaxCalls      \* bound: [Writers -> Nat], the calls each process makes

ASSUME MaxCallsType == MaxCalls \in [Writers -> Nat]

VARIABLES
    log,          \* the records of transaction_db
    pc,           \* where each process is in the call
    held,         \* the ranges of transaction_db each process has locked
    wanted,       \* the first record of the range asked for (l_start)
    newId,        \* newTransaction.transactionID
    result,       \* what the last call returned
    calls         \* calls made so far

vars == <<log, pc, held, wanted, newId, result, calls>>

Failed == -1

Init ==
    /\ log = <<>>
    /\ pc = [p \in Writers |-> "idle"]
    /\ held = [p \in Writers |-> {}]
    /\ wanted = [p \in Writers |-> 0]
    /\ newId = [p \in Writers |-> 0]
    /\ result = [p \in Writers |-> Failed]
    /\ calls = [p \in Writers |-> 0]

Goto(p, from, to) == pc[p] = from /\ pc' = [pc EXCEPT ![p] = to]

\* open, and the entry of fcntl(F_SETLKW): SEEK_END is resolved now.
Request(p) ==
    /\ Goto(p, "idle", "waiting")
    /\ calls[p] < MaxCalls[p]
    /\ calls' = [calls EXCEPT ![p] = @ + 1]
    /\ wanted' = [wanted EXCEPT ![p] = Len(log)]
    /\ UNCHANGED <<log, held, newId, result>>

\* Mutant of Grant: a read lock, which others share.
GrantShared(p) ==
    /\ Goto(p, "waiting", "locked")
    /\ held' = [held EXCEPT ![p] = {From(wanted[p])}]
    /\ UNCHANGED <<log, wanted, newId, result, calls>>

\* Mutant of Grant: l_len = sizeof(struct Transaction) in place of 0.
GrantOneRecord(p) ==
    /\ Goto(p, "waiting", "locked")
    /\ Free(held, p, OneRecord(wanted[p]))
    /\ held' = [held EXCEPT ![p] = {OneRecord(wanted[p])}]
    /\ UNCHANGED <<log, wanted, newId, result, calls>>

\* F_SETLKW returns.  The file may have grown since the request.
Grant(p) ==
    /\ Goto(p, "waiting", "locked")
    /\ Free(held, p, From(wanted[p]))
    /\ held' = [held EXCEPT ![p] = {From(wanted[p])}]
    /\ UNCHANGED <<log, wanted, newId, result, calls>>

\* F_SETLKW fails, for want of locks or because of EDEADLK: the call returns -1.
LockFails(p) ==
    /\ Goto(p, "waiting", "closing")
    /\ result' = [result EXCEPT ![p] = Failed]
    /\ UNCHANGED <<log, held, wanted, newId, calls>>

\* Mutant of ReadLast: the lock is given back before the write.
ReadLastAndUnlock(p) ==
    /\ Goto(p, "locked", "numbered")
    /\ newId' = [newId EXCEPT ![p] =
                    IF log = <<>> THEN 0 ELSE log[Len(log)].id + 1]
    /\ held' = [held EXCEPT ![p] = {}]
    /\ UNCHANGED <<log, wanted, result, calls>>

\* Mutant of ReadLast: the last number is not increased but decreased.
ReadLastBackwards(p) ==
    /\ Goto(p, "locked", "numbered")
    /\ newId' = [newId EXCEPT ![p] =
                    IF log = <<>> THEN 0 ELSE log[Len(log)].id - 1]
    /\ UNCHANGED <<log, held, wanted, result, calls>>

\* Number the record after the last one, or 0 in an empty file.
ReadLast(p) ==
    /\ Goto(p, "locked", "numbered")
    /\ newId' = [newId EXCEPT ![p] =
                    IF log = <<>> THEN 0 ELSE log[Len(log)].id + 1]
    /\ UNCHANGED <<log, held, wanted, result, calls>>

\* write: O_APPEND puts the record at the end, wherever that is now.
AppendRecord(p) ==
    /\ Goto(p, "numbered", "unlocking")
    /\ log' = Append(log, [id |-> newId[p], by |-> p])
    /\ result' = [result EXCEPT ![p] = newId[p]]
    /\ UNCHANGED <<held, wanted, newId, calls>>

\* The read of the last record or the write fails: the call returns -1.
Fail(p) ==
    /\ pc[p] \in {"locked", "numbered"}
    /\ pc' = [pc EXCEPT ![p] = "unlocking"]
    /\ result' = [result EXCEPT ![p] = Failed]
    /\ UNCHANGED <<log, held, wanted, newId, calls>>

\* F_UNLCK, again relative to SEEK_END.
Unlock(p) ==
    /\ Goto(p, "unlocking", "closing")
    /\ held' = [held EXCEPT ![p] = CutFrom(@, Len(log))]
    /\ UNCHANGED <<log, wanted, newId, result, calls>>

\* Mutant of Close: the file is left open, as get_account_details does.
CloseForgotten(p) ==
    /\ Goto(p, "closing", "idle")
    /\ UNCHANGED <<log, held, wanted, newId, result, calls>>

\* close drops every lock the process has on the file.
Close(p) ==
    /\ Goto(p, "closing", "idle")
    /\ held' = [held EXCEPT ![p] = {}]
    /\ UNCHANGED <<log, wanted, newId, result, calls>>

\* The process is killed; the kernel closes its files.
Die(p) ==
    /\ pc[p] # "dead"
    /\ pc' = [pc EXCEPT ![p] = "dead"]
    /\ held' = [held EXCEPT ![p] = {}]
    /\ UNCHANGED <<log, wanted, newId, result, calls>>

\* What the process does once it has entered the call.
Step(p) ==
    \/ Grant(p)
    \/ ReadLast(p)
    \/ AppendRecord(p)
    \/ Fail(p)
    \/ Unlock(p)
    \/ Close(p)

Next == \E p \in Writers : Request(p) \/ Step(p) \/ LockFails(p) \/ Die(p)

\* A process inside the call keeps running, unless it is killed; that F_SETLKW fails
\* is not its way out of a wait.
Fairness == \A p \in Writers : WF_vars(Step(p))

Spec == Init /\ [][Next]_vars

FairSpec == Spec /\ Fairness

-----------------------------------------------------------------------------
PC == {"idle", "waiting", "locked", "numbered", "unlocking", "closing", "dead"}

Abstract == INSTANCE AppendLog WITH Writers <- Writers, log <- log

\* The type of every variable.
TypeOK ==
    /\ log \in Seq(Abstract!Record)
    /\ pc \in [Writers -> PC]
    /\ held \in [Writers -> SUBSET LockRange]
    /\ wanted \in [Writers -> Nat]
    /\ newId \in [Writers -> Nat]
    /\ result \in [Writers -> Nat \cup {Failed}]
    /\ calls \in [Writers -> Nat]
    /\ \A p \in Writers : calls[p] <= MaxCalls[p]

\* Transaction numbers are 0, 1, 2, 3 ... (schemas/transaction.h:7), although
\* each is computed from a read made before the write.
IdsAreDense == \A i \in DOMAIN log : log[i].id = i - 1

\* The number returned to deposit, withdraw and send_money is the number of a
\* record this very process has written, whoever else was writing.
ReturnsItsOwnRecord ==
    \A p \in Writers :
        result[p] # Failed =>
            /\ result[p] < Len(log)
            /\ log[result[p] + 1] = [id |-> result[p], by |-> p]

\* The window between the read of the last record and the write of the next is
\* never shared, although the ranges two processes ask for may start at
\* different records.
OneWriterInTheWindow ==
    \A p, q \in Writers :
        /\ pc[p] \in {"locked", "numbered"}
        /\ pc[q] \in {"locked", "numbered"}
        => p = q

\* The transaction file with its lock implements the log it promises to be.
ImplementsAppendLog == Abstract!Spec

\* A process that waits for the lock gets it in the end (or is killed): neither
\* the part of the range that the unlock leaves behind nor a process killed
\* while it holds the lock blocks the others for ever.
WaitersAreServed ==
    \A p \in Writers : pc[p] = "waiting" ~> pc[p] \in {"idle", "dead"}

=============================================================================
