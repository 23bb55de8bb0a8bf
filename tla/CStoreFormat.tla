---------------------------- MODULE CStoreFormat ----------------------------
(***************************************************************************)
(* Byte-level encoders used by the cstore writer (src/cstore_writer.c).    *)
(*                                                                         *)
(* A buffer (StringInfo) is a sequence of cells, one cell per byte.  Value *)
(* bytes and bitmap bytes are integers in 0..255.  The metadata encoders   *)
(* of cstore_metadata_serialization.c and the codec of                     *)
(* cstore_compression.c are not part of src/: they are modelled from the   *)
(* spec, the encoders as one integer cell per field, which keeps their     *)
(* lengths non-zero and their output decodable.                            *)
(***************************************************************************)
EXTENDS Integers, Sequences, SequencesExt, FiniteSetsExt

CONSTANT NULL   \* a SQL NULL in a row handed to CStoreWriteRow

\* CompressionType (cstore_fdw.h).
COMPRESSION_NONE  == 0
COMPRESSION_PG_LZ == 1

\* An all-zero buffer of n bytes (the memset before a copy).
Zeros(n) == [i \in 1..n |-> 0]

\* att_align_nominal: round a length up to the type's alignment.
AlignNominal(len, align) == ((len + align - 1) \div align) * align

\* att_addlength_datum(0, attlen, datum): a fixed-length type has attlen
\* bytes; a varlena (-1) carries its total size in its header byte; a
\* cstring (-2) runs up to and including its terminating zero byte.
DatumLength(datum, attlen) ==
  CASE attlen > 0  -> attlen
    [] attlen = -1 -> datum[1]
    [] attlen = -2 -> CHOOSE i \in DOMAIN datum : datum[i] = 0
                                    /\ \A j \in 1..(i - 1) : datum[j] # 0

\* store_att_byval: the low attlen bytes of a by-value datum, little-endian.
StoreAttByval(datum, attlen) == [i \in 1..attlen |-> (datum \div 2^(8 * (i - 1))) % 256]

\* SerializeSingleDatum (cstore_writer.c): append the datum, zero-padded to
\* its aligned length, to the value buffer.
SerializeSingleDatum(datumBuffer, datum, byValue, attlen, align) ==
  LET datumLength        == DatumLength(datum, attlen)
      datumLengthAligned == AlignNominal(datumLength, align)
      bytes == IF attlen > 0 /\ byValue THEN StoreAttByval(datum, attlen)
               ELSE SubSeq(datum, 1, datumLength)
  IN datumBuffer \o bytes \o Zeros(datumLengthAligned - datumLength)

\* Mutant: the byte count rounds down instead of up.
SerializeBoolArrayShort(boolArray, n) ==
  [k \in 1..(n \div 8) |->
     SumSet({2^(i % 8) : i \in {j \in ((k - 1) * 8)..((k * 8) - 1) :
                                  j < n /\ boolArray[j]}})]

\* SerializeBoolArray: pack the first n flags of a 0-indexed bool array,
\* flag i as bit (i % 8) of byte (i \div 8), into (n + 7) \div 8 bytes.
SerializeBoolArray(boolArray, n) ==
  [k \in 1..((n + 7) \div 8) |->
     SumSet({2^(i % 8) : i \in {j \in ((k - 1) * 8)..((k * 8) - 1) :
                                  j < n /\ boolArray[j]}})]

(***************************************************************************)
(* Block compressor (CompressBuffer, cstore_compression.c, spec-modelled). *)
(* The stand-in codec replaces the run of trailing zero bytes (alignment   *)
(* padding) by its length; like pglz it reports success only when its      *)
(* output is strictly shorter than its input.                              *)
(***************************************************************************)
TrailingZeros(buf) ==
  Cardinality({k \in 0..Len(buf) :
                 k > 0 /\ \A i \in (Len(buf) - k + 1)..Len(buf) : buf[i] = 0})

PgLzCompress(buf) == SubSeq(buf, 1, Len(buf) - TrailingZeros(buf)) \o <<TrailingZeros(buf)>>

CompressBuffer(buf, requestedType) ==
  requestedType = COMPRESSION_PG_LZ /\ Len(PgLzCompress(buf)) < Len(buf)

(***************************************************************************)
(* Metadata encoders (cstore_metadata_serialization.c, spec-modelled):     *)
(* one integer cell per field, so every cell of either fork is a byte-like *)
(* integer and a reader that looks at the wrong offset reads numbers.      *)
(***************************************************************************)
\* A total read of a buffer: a position outside it reads as -1, a value no
\* encoder emits.
CellAt(buf, i) == IF i \in 1..Len(buf) THEN buf[i] ELSE -1

Slice(buf, offset, length) == [i \in 1..length |-> CellAt(buf, offset + i)]

Bit(b) == IF b THEN 1 ELSE 0

SkipNodeSize == 9

SerializeSkipNode(node) ==
  <<node.rowCount, Bit(node.hasMinMax), node.minimumValue, node.maximumValue,
    node.existsBlockOffset, node.existsLength, node.valueBlockOffset,
    node.valueLength, node.valueCompressionType>>

\* SerializeColumnSkipList: the first blockCount skip nodes of a column.
SerializeColumnSkipList(blockSkipNodeArray, blockCount) ==
  FlattenSeq([b \in 1..blockCount |-> SerializeSkipNode(blockSkipNodeArray[b])])

\* SerializeStripeFooter: per column, skip list size, exists size, value size.
SerializeStripeFooter(stripeFooter) ==
  FlattenSeq([c \in DOMAIN stripeFooter.skipListSizeArray |->
                <<stripeFooter.skipListSizeArray[c], stripeFooter.existsSizeArray[c],
                  stripeFooter.valueSizeArray[c]>>])

StripeMetadataSize == 4

SerializeStripeMetadata(m) == <<m.fileOffset, m.skipListLength, m.dataLength, m.footerLength>>

\* SerializeTableFooter: the block row count, then the stripe metadata list.
SerializeTableFooter(tableFooter) ==
  <<tableFooter.blockRowCount>> \o
    FlattenSeq([k \in DOMAIN tableFooter.stripeMetadataList |->
                  SerializeStripeMetadata(tableFooter.stripeMetadataList[k])])

SerializePostScript(tableFooterLength) == <<tableFooterLength>>

\* The footer-fork header page payload: (startingBlock, blockCount).
SerializeTableFooterMetadata(startingBlock, blockCount) == <<startingBlock, blockCount>>

\* DeserializeTableFooterMetadata yields startingBlock 0 when the payload
\* does not parse (an uninitialised header page has no payload at all).
DeserializeTableFooterMetadata(page) ==
  IF page.init /\ Len(page.data) = 2
  THEN [startingBlock |-> page.data[1], blockCount |-> page.data[2]]
  ELSE [startingBlock |-> 0, blockCount |-> 0]

\* The inverse of the footer stream written by CStoreWriteFooter:
\* int32 length, table footer, postscript, one-byte postscript size, read
\* backwards from the last byte.  "corrupt" when the stream does not parse.
DeserializeFooterStream(stream) ==
  LET dataLength == CellAt(stream, 1)
      psSize     == CellAt(stream, dataLength)
      tfLength   == CellAt(stream, dataLength - psSize)
      tf         == Slice(stream, dataLength - psSize - 1 - tfLength, tfLength)
      nStripes   == (tfLength - 1) \div StripeMetadataSize
      Field(k, i) == tf[1 + (k - 1) * StripeMetadataSize + i]
  IN IF /\ dataLength \in 4..Len(stream)
        /\ psSize = 1
        /\ tfLength = dataLength - 3
        /\ (tfLength - 1) % StripeMetadataSize = 0
     THEN [status |-> "ok",
           footer |-> [blockRowCount |-> tf[1],
                       stripeMetadataList |->
                         [k \in 1..nStripes |->
                            [fileOffset |-> Field(k, 1), skipListLength |-> Field(k, 2),
                             dataLength |-> Field(k, 3), footerLength |-> Field(k, 4)]]]]
     ELSE [status |-> "corrupt", footer |-> NULL]
=============================================================================
