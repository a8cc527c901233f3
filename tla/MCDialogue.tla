----------------------------- MODULE MCDialogue -----------------------------
EXTENDS Dialogue

\* A passbook with more entries than any other script has texts in a row.
Entries == 3

=============================================================================
