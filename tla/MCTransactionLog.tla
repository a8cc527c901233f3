-------------------------- MODULE MCTransactionLog --------------------------
(***************************************************************************)
(* Three writers, which is the least number for a range that starts before *)
(* the end of the file to meet both its owner and a third process.         *)
(***************************************************************************)
EXTENDS TransactionLog, TLC

CONSTANTS w1, w2, w3

\* One process writes twice, so that a lock is requested while a residue of an
\* earlier call of another process may be left.
TwoCallsForOne == (w1 :> 2) @@ (w2 :> 1) @@ (w3 :> 1)

=============================================================================
