------------------------------- MODULE Words -------------------------------
(***************************************************************************)
(* Fixed-width integers as the SDK puts them on the wire, after            *)
(* common/src/utils/encoding.ts: most significant byte first, two's        *)
(* complement for the signed ones.  A byte has ByteBase values (256 in the *)
(* code) and a word WordBytes bytes (8), so an instance may be small.      *)
(***************************************************************************)
EXTENDS Numerals, Folds

CONSTANTS ByteBase, WordBytes

ASSUME WordsAssumption == /\ ByteBase \in Nat \ {0} /\ ByteBase % 2 = 0   \* a word has a sign bit
                          /\ WordBytes \in Nat \ {0}

\* The number of values of n bytes.
Span(n) == Power(ByteBase)[n]
WordSize  == Span(WordBytes)          \* 0x10000000000000000
SignBit   == WordSize \div 2            \* 0x8000000000000000

FitsUint(v, n) == 0 <= v /\ v < Span(n)

\* encodeUint's bytes; it asserts FitsUint(v, n) first.
EncodeUint(v, n) == DigitsOf(ByteBase, v, n)

DecodeUint(bytes) == NumberOf(ByteBase, bytes)

\* The words of the signed conversions, as numbers below WordSize.
convertUint64toInt64(value) == IF value <= SignBit THEN value ELSE value - WordSize
encodeInt64(value)          == IF value < 0 THEN WordSize + value ELSE value
=============================================================================
