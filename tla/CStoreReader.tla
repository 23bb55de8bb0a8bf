---------------------------- MODULE CStoreReader ----------------------------
(***************************************************************************)
(* The symmetric reader the spec describes (sections 4.6 and 6): the      *)
(* reference decoder the writer's properties are stated with.  It reads    *)
(* the footer the header page names, then each stripe by offset           *)
(* arithmetic alone: skip lists at the stripe's file offset, column c's    *)
(* exists region after the skip lists and the regions of columns before c, *)
(* its value region after its exists region, the stripe footer last.      *)
(* Every read is total (CellAt, Slice), so a stripe placed at the wrong    *)
(* offset decodes to wrong rows rather than to an evaluation error.       *)
(***************************************************************************)
EXTENDS PagedFork

\* Bit i of a packed exists bitmap, i = 0 .. n-1.
UnpackBoolArray(bytes, n) ==
  [i \in 0..(n - 1) |-> (CellAt(bytes, i \div 8 + 1) \div 2^(i % 8)) % 2 = 1]

PgLzDecompress(buf) ==
  SubSeq(buf, 1, Len(buf) - 1) \o Zeros(CellAt(buf, Len(buf)))

\* count datums of a column type, read from the front of a value buffer.
RECURSIVE DecodeDatums(_, _, _)
DecodeDatums(bytes, type, count) ==
  IF count <= 0 THEN <<>>
  ELSE LET len   == IF type.attlen > 0 THEN type.attlen ELSE CellAt(bytes, 1)
           datum == IF type.attbyval
                    THEN SumFunctionOnSet([i \in 1..len |-> CellAt(bytes, i) * 256^(i - 1)], 1..len)
                    ELSE Slice(bytes, 0, len)
           step  == AlignNominal(len, type.attalign)
       IN <<datum>> \o DecodeDatums(Slice(bytes, step, Len(bytes) - step), type, count - 1)

ItemAt(seq, i) == IF i \in DOMAIN seq THEN seq[i] ELSE NULL

\* The fields of a serialized skip node, in SerializeSkipNode's order.
NodeRowCount(n) == n[1]
NodeHasMinMax(n) == n[2] = 1
NodeMin(n) == n[3]
NodeMax(n) == n[4]
NodeExistsOffset(n) == n[5]
NodeExistsLength(n) == n[6]
NodeValueOffset(n) == n[7]
NodeValueLength(n) == n[8]
NodeCompression(n) == n[9]

(***************************************************************************)
(* The blocks of the stripe m in the byte stream: for block b and column  *)
(* c, the skip node read back and the column's values (NULL where the     *)
(* exists bit is clear).                                                   *)
(***************************************************************************)
StripeBlocks(schema, stream, m) ==
  LET Cols == 1..Len(schema)
      sf == Slice(stream, m.fileOffset + m.skipListLength + m.dataLength, m.footerLength)
      SkipSize(c)   == CellAt(sf, 3 * (c - 1) + 1)
      ExistsSize(c) == CellAt(sf, 3 * (c - 1) + 2)
      ValueSize(c)  == CellAt(sf, 3 * (c - 1) + 3)
      SkipStart(c) == m.fileOffset + SumFunctionOnSet([k \in Cols |-> SkipSize(k)], 1..(c - 1))
      DataStart(c) == m.fileOffset + m.skipListLength
                      + SumFunctionOnSet([k \in Cols |-> ExistsSize(k) + ValueSize(k)], 1..(c - 1))
      blockCount == SkipSize(1) \div SkipNodeSize
      Node(c, b) == Slice(stream, SkipStart(c) + (b - 1) * SkipNodeSize, SkipNodeSize)
      Values(c, b) ==
        LET node  == Node(c, b)
            n     == NodeRowCount(node)
            bits  == UnpackBoolArray(Slice(stream, DataStart(c) + NodeExistsOffset(node),
                                           NodeExistsLength(node)), n)
            raw   == Slice(stream, DataStart(c) + ExistsSize(c) + NodeValueOffset(node),
                           NodeValueLength(node))
            bytes == IF NodeCompression(node) = COMPRESSION_PG_LZ THEN PgLzDecompress(raw) ELSE raw
            datums == DecodeDatums(bytes, schema[c], Cardinality({i \in 0..(n - 1) : bits[i]}))
        IN [i \in 1..n |-> IF bits[i - 1]
                           THEN ItemAt(datums, Cardinality({j \in 0..(i - 1) : bits[j]}))
                           ELSE NULL]
  IN [b \in 1..blockCount |-> [c \in Cols |-> [node |-> Node(c, b), values |-> Values(c, b)]]]

\* The rows of one stripe, block after block.
ReadStripe(schema, stream, m) ==
  LET blocks == StripeBlocks(schema, stream, m)
      BlockRows(b) == [i \in 1..NodeRowCount(blocks[b][1].node) |->
                         [c \in 1..Len(schema) |-> ItemAt(blocks[b][c].values, i)]]
  IN FlattenSeq([b \in DOMAIN blocks |-> BlockRows(b)])

\* The logical byte stream of the data fork as the reader addresses it:
\* logical offset o is byte o % PageDataSize of block o \div PageDataSize
\* (the same division CStoreBeginWrite uses); bytes past a page's pd_lower
\* read as -1.
DataStream(dataFork) ==
  [i \in 1..(Len(dataFork) * PageDataSize) |->
     CellAt(dataFork[(i - 1) \div PageDataSize + 1], ((i - 1) % PageDataSize) + 1)]

\* The table as a reader sees it: the rows of the stripes of the committed
\* footer, in footer order.
ReadTable(schema, dataFork, footerFork) ==
  LET read == CStoreReadFooter(footerFork)
      stripes == read.footer.stripeMetadataList
  IN IF read.status # "ok" THEN <<>>
     ELSE FlattenSeq([k \in DOMAIN stripes |->
                        ReadStripe(schema, DataStream(dataFork), stripes[k])])
=============================================================================
