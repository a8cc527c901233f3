----------------------------- MODULE AppendLog -----------------------------
(***************************************************************************)
(* What db/transaction_db promises to the rest of the server: a log that   *)
(* only grows, one whole record at a time, and whose records are numbered  *)
(* 0, 1, 2, 3 ... without gap or repetition (schemas/transaction.h:7).     *)
(***************************************************************************)
EXTENDS Naturals, Sequences

CONSTANT Writers    \* who may append; a record is told apart by its writer

VARIABLE log

Record == [id : Nat, by : Writers]

Extend(records, writer) == Append(records, [id |-> Len(records), by |-> writer])

Init == log = <<>>

Next == \E w \in Writers : log' = Extend(log, w)

Spec == Init /\ [][Next]_log

=============================================================================
