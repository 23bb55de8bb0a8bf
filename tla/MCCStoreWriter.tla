--------------------------- MODULE MCCStoreWriter ---------------------------
(***************************************************************************)
(* Model-checking instance of CStoreWriter.                                *)
(*                                                                         *)
(* Two columns: an int2-like by-value column (2 bytes, 2-byte alignment,   *)
(* with a B-tree comparison function) and a json-like varlena (4-byte      *)
(* alignment, no B-tree ordering, so no min/max).  A varlena datum is its  *)
(* header byte (the total size) followed by its payload bytes.             *)
(***************************************************************************)
EXTENDS CStoreWriter

MCSchema ==
  << [attlen |-> 2,  attbyval |-> TRUE,  attalign |-> 2, hasCmp |-> TRUE],
     [attlen |-> -1, attbyval |-> FALSE, attalign |-> 4, hasCmp |-> FALSE] >>

JsonA == <<2, 120>>
JsonB == <<3, 120, 121>>

\* A row with both columns set, one with a NULL varlena, one with a NULL
\* integer: blocks see NULLs in either column and min/max in both orders.
MCRows == { <<2, JsonA>>, <<1, NULL>>, <<NULL, JsonB>> }

MCCompressions == {COMPRESSION_NONE, COMPRESSION_PG_LZ}

(***************************************************************************)
(* readerView: an observation variable holding the table a reader of the  *)
(* current forks sees (ReadTable).  It is a function of the state, so it   *)
(* adds no states; it lets the refinement mapping below be evaluated on    *)
(* states rather than re-derived inside primed expressions.               *)
(***************************************************************************)
VARIABLE readerView

MCInit == Init /\ readerView = ReadTable(Schema, dataFork, footerFork)

MCNext == Next /\ readerView' = ReadTable(Schema, dataFork', footerFork')

MCSpec == MCInit /\ [][MCNext]_<<vars, readerView>>

MCFairSpec == MCSpec /\ FooterFairness

TableSpec == INSTANCE CStoreTable WITH table <- readerView, Rows <- Rows, MaxRows <- MaxRows

=============================================================================
