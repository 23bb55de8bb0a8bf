---------------------------- MODULE CStoreWriter ----------------------------
(***************************************************************************)
(* The cstore write path of src/cstore_writer.c: a write session           *)
(* (CStoreBeginWrite, CStoreWriteRow, CStoreEndWrite) that assembles rows  *)
(* into blocks and stripes, flushes stripes to the data fork and commits   *)
(* the table footer to the footer fork by a header-page swap.             *)
(*                                                                         *)
(* ws is the TableWriteState (NULL outside a session).  CStoreEndWrite     *)
(* runs as one step up to the footer page loop, then one step per footer   *)
(* page and one for the header page: each page write is its own locked     *)
(* critical section, and a session can fail (ERROR, or a crash whose WAL   *)
(* replay keeps a prefix of the logged page writes) between any two.       *)
(* Pages written before a failure stay in the forks: PostgreSQL does not   *)
(* undo page writes on abort.                                              *)
(***************************************************************************)
EXTENDS CStoreReader

CONSTANTS
  Schema,             \* per column: [attlen, attbyval, attalign, hasCmp]
  Rows,               \* rows the caller may hand to CStoreWriteRow
  Compressions,       \* compression types a session may request
  StripeMaxRowCounts, \* stripe_max_row_count values a session may use
  BlockRowCounts,     \* block_row_count values a session may be given
  MaxRows,            \* bound: rows written over a behaviour
  MaxSessions,        \* bound: sessions begun over a behaviour
  Aborts              \* TRUE: a session may fail before its header swap

ASSUME /\ MaxRows \in Nat /\ MaxSessions \in Nat /\ Aborts \in BOOLEAN
       /\ BlockRowCounts \subseteq Nat \ {0} /\ StripeMaxRowCounts \subseteq Nat \ {0}

VARIABLES
  dataFork,       \* DATA_FORKNUM pages
  footerFork,     \* FOOTER_FORKNUM pages; block 0 is the header page
  ws,             \* TableWriteState, or NULL
  fw,             \* CStoreWriteFooter's locals during its page loop, or NULL
  sessionRows,    \* history: rows written in the current session
  committedRows,  \* history: rows of the sessions whose header swap happened
  sessions,       \* history: sessions begun
  rowsWritten,    \* history: rows written, failed sessions included
  committedFooter \* history: the table footer of the last header swap, or NULL

vars == <<dataFork, footerFork, ws, fw, sessionRows, committedRows, sessions, rowsWritten,
          committedFooter>>

Cols == 1..Len(Schema)

\* btint2cmp: the B-tree comparison function of the by-value integer column.
Compare(a, b) == a - b

ZeroSkipNode ==
  [rowCount |-> 0, hasMinMax |-> FALSE, minimumValue |-> 0, maximumValue |-> 0,
   existsBlockOffset |-> 0, existsLength |-> 0, valueBlockOffset |-> 0,
   valueLength |-> 0, valueCompressionType |-> COMPRESSION_NONE]

MaxBlockCount(stripeMaxRowCount, blockRowCount) == stripeMaxRowCount \div blockRowCount + 1

CreateEmptyStripeBuffers(stripeMaxRowCount, blockRowCount) ==
  [rowCount |-> 0,
   columnBuffersArray |->
     [c \in Cols |-> [b \in 1..MaxBlockCount(stripeMaxRowCount, blockRowCount) |->
        [existsBuffer |-> NULL, valueBuffer |-> NULL,
         valueCompressionType |-> COMPRESSION_NONE]]]]

CreateEmptyStripeSkipList(stripeMaxRowCount, blockRowCount) ==
  [blockCount |-> 0,
   blockSkipNodeArray |->
     [c \in Cols |-> [b \in 1..MaxBlockCount(stripeMaxRowCount, blockRowCount) |-> ZeroSkipNode]]]

\* CreateEmptyBlockDataArray (cstore_reader.c, spec-modelled): per column a
\* 0-indexed exists array of blockRowCount flags; the value buffer is made
\* when a stripe starts.
CreateEmptyBlockDataArray(blockRowCount) ==
  [c \in Cols |-> [existsArray |-> [i \in 0..(blockRowCount - 1) |-> FALSE],
                   valueBuffer |-> NULL]]

\* Variant that leaves the stripe footer out of a stripe's extent.
StripeEndNoFooter(m) == m.fileOffset + m.skipListLength + m.dataLength

\* The file offset right after a stripe: skip lists, data, stripe footer.
StripeEnd(m) == m.fileOffset + m.skipListLength + m.dataLength + m.footerLength

\* Variant that rounds the first data block past the one holding offset.
BlockNumberOfNext(offset) == offset \div PageDataSize + 1

\* The data block holding a logical file offset.
BlockNumberOf(offset) == offset \div PageDataSize

\* Variant with the minimum's comparison reversed.
UpdateBlockSkipNodeMinMaxSwapped(node, value, hasCmp) ==
  IF ~hasCmp THEN node
  ELSE IF ~node.hasMinMax
       THEN [node EXCEPT !.hasMinMax = TRUE, !.minimumValue = value, !.maximumValue = value]
       ELSE [node EXCEPT !.minimumValue = IF Compare(value, @) > 0 THEN value ELSE @,
                         !.maximumValue = IF Compare(value, @) > 0 THEN value ELSE @]

\* UpdateBlockSkipNodeMinMax: no comparison function, no statistics; the
\* first value sets both bounds; a later one replaces a bound it passes.
UpdateBlockSkipNodeMinMax(node, value, hasCmp) ==
  IF ~hasCmp THEN node
  ELSE IF ~node.hasMinMax
       THEN [node EXCEPT !.hasMinMax = TRUE, !.minimumValue = value, !.maximumValue = value]
       ELSE [node EXCEPT !.minimumValue = IF Compare(value, @) < 0 THEN value ELSE @,
                         !.maximumValue = IF Compare(value, @) > 0 THEN value ELSE @]

\* SerializeBlockData: freeze each column's exists flags into the block's
\* exists buffer, store its value buffer compressed when the codec succeeds,
\* and reset the working value buffer for the next block.
SerializeBlockData(w, blockIndex, rowCount) ==
  LET Block(c) ==
        LET valueBuffer == w.blockDataArray[c].valueBuffer
            compressed  == CompressBuffer(valueBuffer, w.compressionType)
        IN [existsBuffer |-> SerializeBoolArray(w.blockDataArray[c].existsArray, rowCount),
            valueBuffer  |-> IF compressed THEN PgLzCompress(valueBuffer) ELSE valueBuffer,
            valueCompressionType |-> IF compressed THEN COMPRESSION_PG_LZ ELSE COMPRESSION_NONE]
  IN [w EXCEPT
        !.stripeBuffers.columnBuffersArray =
           [c \in Cols |-> [@[c] EXCEPT ![blockIndex + 1] = Block(c)]],
        !.blockDataArray = [c \in Cols |-> [@[c] EXCEPT !.valueBuffer = <<>>]]]

(***************************************************************************)
(* FlushStripe: serialize the last partial block, fill in the skip nodes' *)
(* column-relative offsets, write skip lists, then per column all exists   *)
(* buffers and all value buffers, then the stripe footer, each through     *)
(* WriteToFile; return the stripe metadata and advance the file offset.   *)
(***************************************************************************)
\* The partial last block of a stripe, serialized at the start of FlushStripe.
SerializeLastBlock(w) ==
  LET blockRowCount     == w.tableFooter.blockRowCount
      lastBlockIndex    == w.stripeBuffers.rowCount \div blockRowCount
      lastBlockRowCount == w.stripeBuffers.rowCount % blockRowCount
  IN IF lastBlockRowCount > 0
     THEN SerializeBlockData(w, lastBlockIndex, lastBlockRowCount) ELSE w

\* CreateSkipListBufferArray: each column's skip list, serialized.
CreateSkipListBufferArray(blockSkipNodeArray, blockCount) ==
  [c \in Cols |-> SerializeColumnSkipList(blockSkipNodeArray[c], blockCount)]

\* CreateStripeFooter: per column, the size of its serialized skip list and
\* the exists and value lengths summed over the stripe's blocks.
CreateStripeFooter(blockSkipNodeArray, blockCount, skipListBufferArray) ==
  LET Blocks == 1..blockCount
      Total(c, field) == SumFunctionOnSet([b \in Blocks |-> blockSkipNodeArray[c][b][field]], Blocks)
  IN [skipListSizeArray |-> [c \in Cols |-> Len(skipListBufferArray[c])],
      existsSizeArray   |-> [c \in Cols |-> Total(c, "existsLength")],
      valueSizeArray    |-> [c \in Cols |-> Total(c, "valueLength")]]

\* The rest of FlushStripe, on the write state with every block serialized.
FlushBlocks(w1, fork) ==
  LET blockCount == w1.stripeSkipList.blockCount
      Blocks     == 1..blockCount
      buffers    == w1.stripeBuffers.columnBuffersArray
      ExistsSize(c, b) == Len(buffers[c][b].existsBuffer)
      ValueSize(c, b)  == Len(buffers[c][b].valueBuffer)
      nodes == [c \in Cols |-> [b \in DOMAIN w1.stripeSkipList.blockSkipNodeArray[c] |->
                  IF b > blockCount THEN w1.stripeSkipList.blockSkipNodeArray[c][b]
                  ELSE [w1.stripeSkipList.blockSkipNodeArray[c][b] EXCEPT
                          !.existsBlockOffset = SumFunctionOnSet([x \in Blocks |-> ExistsSize(c, x)], 1..(b - 1)),
                          !.existsLength = ExistsSize(c, b),
                          !.valueBlockOffset = SumFunctionOnSet([x \in Blocks |-> ValueSize(c, x)], 1..(b - 1)),
                          !.valueLength = ValueSize(c, b),
                          !.valueCompressionType = buffers[c][b].valueCompressionType]]]
      skipListBufferArray == CreateSkipListBufferArray(nodes, blockCount)
      stripeFooter == CreateStripeFooter(nodes, blockCount, skipListBufferArray)
      stripeFooterBuffer == SerializeStripeFooter(stripeFooter)
      writes == skipListBufferArray
                \o FlattenSeq([c \in Cols |-> [b \in Blocks |-> buffers[c][b].existsBuffer]
                                              \o [b \in Blocks |-> buffers[c][b].valueBuffer]])
                \o <<stripeFooterBuffer>>
      written == FoldLeft(WriteToFile, [fork |-> fork, activeBlockNumber |-> w1.activeBlockNumber], writes)
      skipListLength == SumFunctionOnSet(stripeFooter.skipListSizeArray, Cols)
      dataLength == SumFunctionOnSet(stripeFooter.existsSizeArray, Cols)
                    + SumFunctionOnSet(stripeFooter.valueSizeArray, Cols)
      meta == [fileOffset |-> w1.currentFileOffset, skipListLength |-> skipListLength,
               dataLength |-> dataLength, footerLength |-> Len(stripeFooterBuffer)]
  IN [fork |-> written.fork,
      meta |-> meta,
      w    |-> [w1 EXCEPT !.stripeSkipList.blockSkipNodeArray = nodes,
                          !.activeBlockNumber = written.activeBlockNumber,
                          !.currentFileOffset = StripeEnd(meta)]]

\* FlushStripe itself.
FlushStripe(w, fork) == FlushBlocks(SerializeLastBlock(w), fork)

\* Memory contexts an allocation of the session can be in: the caller's
\* context, the session's stripeWriteContext, or freed by a reset of it.
MemoryContexts == {"CallerContext", "StripeWriteContext", "Freed"}

\* MemoryContextReset(stripeWriteContext): every allocation made in the
\* stripe context is freed at once.
MemoryContextReset(contexts) ==
  [i \in DOMAIN contexts |->
     IF contexts[i] = "StripeWriteContext" THEN "Freed" ELSE contexts[i]]

\* AppendStripeMetadata: palloc a copy of the stripe's metadata in
\* CurrentMemoryContext and lappend it to the table footer's list.
AppendStripeMetadata(w, stripeMetadata, currentContext) ==
  [w EXCEPT !.tableFooter.stripeMetadataList = Append(@, stripeMetadata),
            !.stripeMetadataContexts = Append(@, currentContext)]

\* The stripe state left after FlushStripe and MemoryContextReset: stripe
\* buffers, skip list and the value buffers made in the stripe context are
\* gone, and so is anything else allocated there.
ResetStripe(w) ==
  [w EXCEPT !.stripeBuffers = NULL, !.stripeSkipList = NULL,
            !.blockDataArray = [c \in Cols |-> [@[c] EXCEPT !.valueBuffer = NULL]],
            !.stripeMetadataContexts = MemoryContextReset(@)]

\* Variant that keeps the stripe's skip list after the flush.
FlushAndAppendKeepSkipList(w, fork) ==
  LET flushed == FlushStripe(w, fork)
  IN [fork |-> flushed.fork,
      w |-> AppendStripeMetadata([ResetStripe(flushed.w) EXCEPT
                                    !.stripeSkipList = flushed.w.stripeSkipList],
                                 flushed.meta, "CallerContext")]

AppendFlushed(flushed) ==
  [fork |-> flushed.fork,
   w |-> AppendStripeMetadata(ResetStripe(flushed.w), flushed.meta, "CallerContext")]

\* The stripe flush of CStoreWriteRow and CStoreEndWrite.
FlushAndAppend(w, fork) == AppendFlushed(FlushStripe(w, fork))

\* The per-row part of CStoreWriteRow: set each column's exists flag, append
\* a present value to the column's value buffer and fold it into the
\* block's min/max; count the row in every column's skip node.
AddRow(w, row) ==
  LET blockRowCount == w.tableFooter.blockRowCount
      blockIndex    == w.stripeBuffers.rowCount \div blockRowCount
      blockRowIndex == w.stripeBuffers.rowCount % blockRowCount
      Present(c)    == row[c] # NULL
      Node(c)       == w.stripeSkipList.blockSkipNodeArray[c][blockIndex + 1]
      NewNode(c)    == [(IF Present(c)
                         THEN UpdateBlockSkipNodeMinMax(Node(c), row[c], Schema[c].hasCmp)
                         ELSE Node(c)) EXCEPT !.rowCount = @ + 1]
      NewValues(c)  == IF Present(c)
                       THEN SerializeSingleDatum(w.blockDataArray[c].valueBuffer, row[c],
                              Schema[c].attbyval, Schema[c].attlen, Schema[c].attalign)
                       ELSE w.blockDataArray[c].valueBuffer
  IN [w EXCEPT
        !.blockDataArray =
           [c \in Cols |->
              [existsArray |-> [w.blockDataArray[c].existsArray EXCEPT ![blockRowIndex] = Present(c)],
               valueBuffer |-> NewValues(c)]],
        !.stripeSkipList =
           [blockCount |-> blockIndex + 1,
            blockSkipNodeArray |->
              [c \in Cols |-> [w.stripeSkipList.blockSkipNodeArray[c] EXCEPT ![blockIndex + 1] = NewNode(c)]]]]

(***************************************************************************)
(* Actions.                                                                *)
(***************************************************************************)
History == <<sessionRows, committedRows, sessions, rowsWritten, committedFooter>>

Init ==
  /\ dataFork = <<>>
  /\ footerFork = <<>>
  /\ ws = NULL
  /\ fw = NULL
  /\ sessionRows = <<>>
  /\ committedRows = <<>>
  /\ sessions = 0
  /\ rowsWritten = 0
  /\ committedFooter = NULL

\* CStoreBeginWrite: read the committed footer (or start an empty one with
\* the session's block row count), seek to the end of its last stripe.  A
\* footer that does not parse makes the call fail.
CStoreBeginWrite(compressionType, stripeMaxRowCount, blockRowCount) ==
  /\ ws = NULL
  /\ sessions < MaxSessions
  /\ LET read == CStoreReadFooter(footerFork)
         tableFooter == IF read.status = "ok" THEN read.footer
                        ELSE [blockRowCount |-> blockRowCount, stripeMetadataList |-> <<>>]
         stripes == tableFooter.stripeMetadataList
         currentFileOffset == IF stripes = <<>> THEN 0 ELSE StripeEnd(stripes[Len(stripes)])
     IN /\ read.status # "corrupt"
        /\ ws' = [tableFooter |-> tableFooter,
                  compressionType |-> compressionType,
                  stripeMaxRowCount |-> stripeMaxRowCount,
                  currentFileOffset |-> currentFileOffset,
                  activeBlockNumber |-> BlockNumberOf(currentFileOffset),
                  stripeBuffers |-> NULL,
                  stripeSkipList |-> NULL,
                  blockDataArray |-> CreateEmptyBlockDataArray(blockRowCount),
                  stripeMetadataContexts |-> [k \in DOMAIN stripes |-> "CallerContext"]]
  /\ sessions' = sessions + 1
  /\ sessionRows' = <<>>
  /\ UNCHANGED <<dataFork, footerFork, fw, committedRows, rowsWritten, committedFooter>>

\* CStoreWriteRow: start a stripe if none is open, add the row, serialize
\* the block when this row fills it, and flush the stripe when it is full.
CStoreWriteRow(row) ==
  /\ ws # NULL
  /\ fw = NULL
  /\ rowsWritten < MaxRows
  /\ LET blockRowCount == ws.tableFooter.blockRowCount
         w0 == IF ws.stripeBuffers # NULL THEN ws
               ELSE [ws EXCEPT
                       !.stripeBuffers  = CreateEmptyStripeBuffers(ws.stripeMaxRowCount, blockRowCount),
                       !.stripeSkipList = CreateEmptyStripeSkipList(ws.stripeMaxRowCount, blockRowCount),
                       !.blockDataArray = [c \in Cols |-> [@[c] EXCEPT !.valueBuffer = <<>>]]]
         blockIndex    == w0.stripeBuffers.rowCount \div blockRowCount
         blockRowIndex == w0.stripeBuffers.rowCount % blockRowCount
         w1 == AddRow(w0, row)
         w2 == IF blockRowIndex = blockRowCount - 1
               THEN SerializeBlockData(w1, blockIndex, blockRowCount) ELSE w1
         w3 == [w2 EXCEPT !.stripeBuffers.rowCount = @ + 1]
         done == IF w3.stripeBuffers.rowCount >= w3.stripeMaxRowCount
                 THEN FlushAndAppend(w3, dataFork)
                 ELSE [fork |-> dataFork, w |-> w3]
     IN /\ ws' = done.w
        /\ dataFork' = done.fork
  /\ sessionRows' = Append(sessionRows, row)
  /\ rowsWritten' = rowsWritten + 1
  /\ UNCHANGED <<footerFork, fw, committedRows, sessions, committedFooter>>

\* CStoreWriteFooter up to its page loop, after the final flush: lay out
\* the footer stream with its length patched in, extend the footer fork by
\* a header page if it is empty, and choose the new footer's starting block.
PrepareFooter(flushed) ==
  LET tableFooterBuffer  == SerializeTableFooter(flushed.w.tableFooter)
      postscriptBuffer   == SerializePostScript(Len(tableFooterBuffer))
      wholeFooter        == <<0>> \o tableFooterBuffer \o postscriptBuffer
                                  \o <<Len(postscriptBuffer)>>
      dataLength         == Len(wholeFooter)
      originalBlockCount == Len(footerFork)
      actualBlockCount   == ActualBlockCount(dataLength)
      withHeader == IF originalBlockCount > 0 THEN footerFork
                    ELSE <<[init |-> FALSE, data |-> <<>>]>>
  IN /\ dataFork' = flushed.fork
     /\ ws' = flushed.w
     /\ footerFork' = withHeader
     /\ fw' = [wholeFooter |-> [wholeFooter EXCEPT ![1] = dataLength],
               dataLength |-> dataLength,
               originalBlockCount |-> originalBlockCount,
               actualBlockCount |-> actualBlockCount,
               newStartingBlock |->
                 FooterStartingBlock(originalBlockCount, withHeader[1], actualBlockCount),
               currentBlockNumber |-> 0,
               dataOffset |-> 0]

\* CStoreEndWrite up to CStoreWriteFooter's page loop: flush an open
\* stripe, then prepare the footer write.
CStoreEndWrite ==
  /\ ws # NULL
  /\ fw = NULL
  /\ PrepareFooter(IF ws.stripeBuffers # NULL THEN FlushAndAppend(ws, dataFork)
                   ELSE [fork |-> dataFork, w |-> ws])
  /\ UNCHANGED History

CStoreWriteFooterPage ==
  /\ fw # NULL
  /\ fw.currentBlockNumber < fw.actualBlockCount
  /\ LET copySize == Min2(PageDataSize, fw.dataLength - fw.dataOffset)
     IN /\ footerFork' = WriteFooterPage(footerFork, fw.currentBlockNumber + fw.newStartingBlock,
                                         fw.originalBlockCount,
                                         Slice(fw.wholeFooter, fw.dataOffset, copySize))
        /\ fw' = [fw EXCEPT !.currentBlockNumber = @ + 1, !.dataOffset = @ + copySize]
  /\ UNCHANGED <<dataFork, ws>>
  /\ UNCHANGED History

\* The header page swap that ends CStoreWriteFooter, then the rest of
\* CStoreEndWrite, which frees the write state.
CStoreWriteFooterHeader ==
  /\ fw # NULL
  /\ fw.currentBlockNumber = fw.actualBlockCount
  /\ footerFork' = [footerFork EXCEPT ![1] =
                      [init |-> TRUE,
                       data |-> SerializeTableFooterMetadata(fw.newStartingBlock, fw.actualBlockCount)]]
  /\ fw' = NULL
  /\ ws' = NULL
  /\ committedRows' = committedRows \o sessionRows
  /\ committedFooter' = ws.tableFooter
  /\ sessionRows' = <<>>
  /\ UNCHANGED <<dataFork, sessions, rowsWritten>>

\* A session fails (ERROR or crash) before its header swap; the pages it
\* wrote stay, its memory is gone.
SessionFails ==
  /\ Aborts
  /\ ws # NULL
  /\ ws' = NULL
  /\ fw' = NULL
  /\ sessionRows' = <<>>
  /\ UNCHANGED <<dataFork, footerFork, committedRows, sessions, rowsWritten, committedFooter>>

Next ==
  \/ \E c \in Compressions, s \in StripeMaxRowCounts, r \in BlockRowCounts :
        CStoreBeginWrite(c, s, r)
  \/ \E row \in Rows : CStoreWriteRow(row)
  \/ CStoreEndWrite
  \/ CStoreWriteFooterPage
  \/ CStoreWriteFooterHeader
  \/ SessionFails

Spec == Init /\ [][Next]_vars

\* Once CStoreEndWrite has begun, the rest of CStoreWriteFooter runs in the
\* same call, without waiting on the caller: its page loop and the header
\* swap are weakly fair.  Nothing forces a caller to write rows or to end
\* a session, so no other action is.
FooterFairness ==
  WF_vars(CStoreWriteFooterPage) /\ WF_vars(CStoreWriteFooterHeader)

(***************************************************************************)
(* Properties.                                                             *)
(***************************************************************************)
TypeOK ==
  /\ dataFork \in Seq(Seq(Int))
  /\ \A b \in DOMAIN dataFork : Len(dataFork[b]) <= PageDataSize
  /\ footerFork \in Seq([init : BOOLEAN, data : Seq(Int)])
  /\ \/ ws = NULL
     \/ /\ ws.currentFileOffset \in Nat
        /\ ws.activeBlockNumber \in Nat
        /\ ws.stripeBuffers = NULL <=> ws.stripeSkipList = NULL
        /\ ws.stripeMetadataContexts \in Seq(MemoryContexts)
  /\ fw = NULL \/ (ws # NULL /\ fw.currentBlockNumber \in 0..fw.actualBlockCount)
  /\ committedRows \in Seq(Rows) /\ sessionRows \in Seq(Rows)

\* P2 (round trip) and crash safety: at every step, also between the page
\* writes of a stripe flush or of a footer write, a reader that follows
\* the header page to the footer and the footer's offsets into the data
\* fork reads exactly the rows of the sessions that completed
\* CStoreEndWrite, in order.  It ties FlushStripe's offset bookkeeping,
\* WriteToFile's page placement and the footer ping-pong together.
RoundTrip == ReadTable(Schema, dataFork, footerFork) = committedRows

\* The logical offset at which WriteToFile, started at block active, puts
\* its first byte: pd_lower of the first page from active on with room
\* left, or the start of the block P_NEW appends at the end of the fork.
AppendOffset(fork, active) ==
  LET open == {b \in active..(Len(fork) - 1) : Len(fork[b + 1]) < PageDataSize}
  IN IF open = {} THEN Len(fork) * PageDataSize
     ELSE Min(open) * PageDataSize + Len(fork[Min(open) + 1])

\* The write cursor of a session (currentFileOffset, from which the next
\* stripe's fileOffset is taken) agrees with where WriteToFile will really
\* put the stripe's bytes (activeBlockNumber and the pages' pd_lower).
\* CStoreBeginWrite derives activeBlockNumber from the footer alone.
CursorMatchesFork ==
  ws # NULL => AppendOffset(dataFork, ws.activeBlockNumber) = ws.currentFileOffset

\* P3 and the statistics contract, on the stripes a reader finds: a block's
\* skip node has min/max exactly when the column has a comparison function
\* and the block holds a non-NULL value, and then they are the least and
\* the greatest of those values (UpdateBlockSkipNodeMinMax over the rows of
\* the block, reset for every block and stripe).
BlockStatsSound ==
  LET read == CStoreReadFooter(footerFork)
  IN read.status = "ok" =>
       \A k \in DOMAIN read.footer.stripeMetadataList :
         LET blocks == StripeBlocks(Schema, DataStream(dataFork),
                                    read.footer.stripeMetadataList[k])
         IN \A b \in DOMAIN blocks, c \in Cols :
              LET node == blocks[b][c].node
                  vals == blocks[b][c].values
                  present == {vals[i] : i \in {j \in DOMAIN vals : vals[j] # NULL}}
              IN /\ NodeHasMinMax(node) <=> (Schema[c].hasCmp /\ present # {})
                 /\ NodeHasMinMax(node) => /\ NodeMin(node) = Min(present)
                                          /\ NodeMax(node) = Max(present)

\* P6 for the footer fork: at every step, whatever failed before, the
\* header page names a footer that reads back as the one of the last
\* completed CStoreEndWrite (none before the first).  Writing a footer
\* never touches the blocks of the footer the header still names.
FooterIntact ==
  CStoreReadFooter(footerFork) =
    IF committedFooter = NULL THEN [status |-> "absent", footer |-> NULL]
    ELSE [status |-> "ok", footer |-> committedFooter]
\* Memory safety of CStoreWriteRow: the row index it will write next
\* (rowCount % the footer's blockRowCount) lies inside every column's
\* exists array, which CStoreBeginWrite sized by the session's
\* blockRowCount argument.  The spec: R is persisted in the footer and a
\* fresh footer takes the configured R.
NextRowIndexInBounds ==
  ws # NULL =>
    LET blockRowIndex == IF ws.stripeBuffers = NULL THEN 0
                         ELSE ws.stripeBuffers.rowCount % ws.tableFooter.blockRowCount
    IN \A c \in Cols : blockRowIndex \in DOMAIN ws.blockDataArray[c].existsArray
=============================================================================
