----------------------------- MODULE CStoreTable -----------------------------
(***************************************************************************)
(* What a cstore table promises its readers: a sequence of rows that       *)
(* changes only when a write session commits, and then by appending the    *)
(* rows that session wrote, in the order they were written.               *)
(***************************************************************************)
EXTENDS Sequences, Naturals

CONSTANTS Rows, MaxRows

VARIABLE table

Init == table = <<>>

\* A session commits: the table grows by the rows it wrote, appended after
\* the rows already there.  (A session of no rows leaves it unchanged.)
Commit ==
  LET next == table'
  IN /\ Len(table) < Len(next) /\ Len(next) <= MaxRows
     /\ SubSeq(next, 1, Len(table)) = table
     /\ \A i \in (Len(table) + 1)..Len(next) : next[i] \in Rows

Spec == Init /\ [][Commit]_table
=============================================================================
