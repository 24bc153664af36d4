------------------------------- MODULE Bytes -------------------------------
(***************************************************************************)
(* Byte strings as common/src/utils/encoding.ts cuts, pads and digests     *)
(* them.  A byte string is a sequence, and the digest a toy one.           *)
(***************************************************************************)
EXTENDS Words, SequencesExt

CONSTANTS
    KeyLength,        \* 32: bytes of a public key
    EvmLength,        \* 20: bytes of an EVM address
    DigestLength      \* 32: SHA256_HASH_LENGTH

ASSUME BytesAssumption == KeyLength \in Nat /\ EvmLength \in 1..KeyLength /\ DigestLength \in Nat \ {0}

Zeros(n) == [i \in 1..n |-> 0]
Failed   == [ok |-> FALSE, value |-> <<>>, rest |-> <<>>]
Parsed(value, rest) == [ok |-> TRUE, value |-> value, rest |-> rest]
Drop(data, n) == SubSeq(data, n + 1, Len(data))

padLeftUint8Array(value, n)  == Zeros(n - Len(value)) \o value
padRightUint8Array(value, n) == value \o Zeros(n - Len(value))
sha256Hash(data) == [i \in 1..DigestLength |-> FoldLeft(LAMBDA h, b : (5 * h + b) % ByteBase, i, data)]
=============================================================================
