---------------------------- MODULE MCBoolArray ----------------------------
(***************************************************************************)
(* SerializeBoolArray (src/cstore_writer.c) checked against the reader's   *)
(* bit unpacking over every flag array of up to MaxFlags flags, so that    *)
(* arrays that end inside, and exactly at, a byte boundary all occur.      *)
(* The flags grow one at a time, as CStoreWriteRow sets existsArray.       *)
(***************************************************************************)
EXTENDS CStoreReader

CONSTANT MaxFlags

VARIABLE flags

\* flags as the 0-indexed C array boolArray[0 .. n-1]
BoolArray == [i \in 0..(Len(flags) - 1) |-> flags[i + 1]]

BoolInit == flags = <<>>

AddFlag ==
  /\ Len(flags) < MaxFlags
  /\ \E b \in BOOLEAN : flags' = Append(flags, b)

BoolSpec == BoolInit /\ [][AddFlag]_flags

\* The packed exists bitmap has (n + 7) / 8 bytes, each a byte value, and
\* the reader recovers every flag from it: flag i is bit i % 8 of byte i / 8.
BoolArrayRoundTrip ==
  LET n     == Len(flags)
      bytes == SerializeBoolArray(BoolArray, n)
  IN /\ Len(bytes) = (n + 7) \div 8
     /\ \A k \in DOMAIN bytes : bytes[k] \in 0..255
     /\ UnpackBoolArray(bytes, n) = BoolArray
=============================================================================
