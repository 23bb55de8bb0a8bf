----------------------------- MODULE PagedFork -----------------------------
(***************************************************************************)
(* The paged fork writer of src/cstore_writer.c.                           *)
(*                                                                         *)
(* A fork is a sequence of pages: block number b is fork[b + 1].           *)
(*   - a data-fork page is its payload, a sequence of at most PageDataSize *)
(*     bytes (pd_lower - SizeOfPageHeaderData); data pages are always      *)
(*     initialised in the critical section that first writes them;         *)
(*   - a footer-fork page is a record [init, data]: the header page is     *)
(*     extended with P_NEW (a zero page, init = FALSE) before it is first  *)
(*     written, so an aborted first footer write can leave it that way.    *)
(***************************************************************************)
EXTENDS CStoreFormat

CONSTANT PageDataSize   \* CSTORE_PAGE_DATA_SIZE: payload bytes of one page

ASSUME PageDataSize \in Nat \ {0}

Min2(a, b) == IF a < b THEN a ELSE b

(***************************************************************************)
(* WriteToFile: the loop that places data at the active block and on the  *)
(* following ones.  blockCount is RelationGetNumberOfBlocksInFork, read   *)
(* once before the loop; a block number at or past it is P_NEW, which      *)
(* extends the fork by one page.  Each page takes what fits after its      *)
(* pd_lower.  The result is the fork and the last block written, which    *)
(* the caller stores as activeBlockNumber.                                 *)
(***************************************************************************)
RECURSIVE WritePages(_, _, _, _, _)
WritePages(fork, blockNumber, data, blockCount, lastBlock) ==
  IF data = <<>>
  THEN [fork |-> fork, activeBlockNumber |-> lastBlock]
  ELSE LET isNew    == blockNumber >= blockCount
           actual   == IF isNew THEN Len(fork) ELSE blockNumber
           page     == IF isNew THEN <<>> ELSE fork[actual + 1]
           copySize == Min2(PageDataSize - Len(page), Len(data))
           written  == page \o SubSeq(data, 1, copySize)
           newFork  == IF isNew THEN Append(fork, written)
                       ELSE [fork EXCEPT ![actual + 1] = written]
       IN WritePages(newFork, actual + 1, SubSeq(data, copySize + 1, Len(data)),
                     blockCount, actual)

\* fs is [fork, activeBlockNumber]; an empty write returns at once.
WriteToFile(fs, data) ==
  IF data = <<>> THEN fs
  ELSE WritePages(fs.fork, fs.activeBlockNumber, data, Len(fs.fork), fs.activeBlockNumber)

(***************************************************************************)
(* Footer fork (CStoreWriteFooter).                                        *)
(***************************************************************************)
\* actualBlockCount: pages needed for a footer stream of dataLength bytes.
ActualBlockCount(dataLength) == (dataLength - 1) \div PageDataSize + 1

\* Variant that starts the new footer where the current one starts.
FooterStartingBlockInPlace(originalBlockCount, headerPage, actualBlockCount) ==
  IF originalBlockCount = 0 THEN 1
  ELSE LET header == DeserializeTableFooterMetadata(headerPage)
       IN CASE header.startingBlock = 0                  -> 1
            [] actualBlockCount < header.startingBlock   -> 1
            [] OTHER -> header.startingBlock

\* Where the new footer goes: block 1 for an empty fork or an unparsable
\* header, block 1 again when the new footer fits before the current one,
\* otherwise right after the current one.
FooterStartingBlock(originalBlockCount, headerPage, actualBlockCount) ==
  IF originalBlockCount = 0 THEN 1
  ELSE LET header == DeserializeTableFooterMetadata(headerPage)
       IN CASE header.startingBlock = 0                  -> 1
            [] actualBlockCount < header.startingBlock   -> 1
            [] OTHER -> header.startingBlock + header.blockCount

\* One iteration of the footer page loop: PageInit the page and copy the
\* chunk; a block at or past originalBlockCount is P_NEW and is appended
\* wherever the fork ends.
WriteFooterPage(fork, blockNumber, originalBlockCount, chunk) ==
  LET page == [init |-> TRUE, data |-> chunk]
  IN IF blockNumber >= originalBlockCount THEN Append(fork, page)
     ELSE [fork EXCEPT ![blockNumber + 1] = page]

\* CStoreReadFooter (cstore_reader.c, spec-modelled): "absent" for an empty
\* footer fork or a header that names no footer, otherwise the footer read
\* from the blocks the header names.
FooterStream(fork, header) ==
  FlattenSeq([i \in 1..header.blockCount |->
                IF header.startingBlock + i <= Len(fork)
                THEN fork[header.startingBlock + i].data ELSE <<>>])

CStoreReadFooter(fork) ==
  IF fork = <<>> THEN [status |-> "absent", footer |-> NULL]
  ELSE LET header == DeserializeTableFooterMetadata(fork[1])
       IN IF header.startingBlock = 0 THEN [status |-> "absent", footer |-> NULL]
          ELSE DeserializeFooterStream(FooterStream(fork, header))
=============================================================================
