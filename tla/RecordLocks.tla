---------------------------- MODULE RecordLocks ----------------------------
(***************************************************************************)
(* The advisory record locks of fcntl(2), as the server uses them.  They   *)
(* belong to the kernel, not to the repository: what is written here is    *)
(* the contract that functions/*.h rely on.                                *)
(*                                                                         *)
(* A lock covers a range of one file, measured in records.  As in struct   *)
(* flock, a length of 0 means "to the end of the file, however far the     *)
(* file grows".  All the ranges kept here are write locks: the read locks  *)
(* of the server live for one read and only delay a writer.                *)
(***************************************************************************)
EXTENDS Naturals

LockRange == [from : Nat, len : Nat]

\* F_WRLCK with l_whence = SEEK_SET, l_start = record, l_len = sizeof(record).
OneRecord(record) == [from |-> record, len |-> 1]

\* F_WRLCK with l_len = 0: everything from a record on.
From(record) == [from |-> record, len |-> 0]

EndsBefore(r, s) == r.len # 0 /\ r.from + r.len <= s.from

Overlap(r, s) == ~EndsBefore(r, s) /\ ~EndsBefore(s, r)

(***************************************************************************)
(* held[p] is the set of ranges process p holds.  F_SETLKW waits until no  *)
(* OTHER process holds an overlapping range; a process never conflicts     *)
(* with itself.                                                            *)
(***************************************************************************)
Free(held, p, r) ==
    \A q \in DOMAIN held \ {p} : \A h \in held[q] : ~Overlap(h, r)

\* F_UNLCK of everything from a record on: the part of an unbounded lock that
\* lies before that record stays locked.
CutFrom(ranges, record) ==
    {[from |-> r.from, len |-> record - r.from] :
        r \in {s \in ranges : s.from < record}}

=============================================================================
