---------------------------- MODULE PackedData ----------------------------
(***************************************************************************)
(* The packed encoding of common/src/utils/encoding.ts: formats, data      *)
(* packed by a format, and the dictionary of the contracts.  A byte string *)
(* is a sequence; a byte that only carries a length, a count or a type     *)
(* index is that number, a property name is one cell of its own and the    *)
(* digest a toy one.  A format is a sequence of [name, type]: names from 0 *)
(* on are the keys JavaScript takes for array indices, the negative stand  *)
(* for every other key.  Text, bytes and base64 differ in how the caller   *)
(* sees them and not in what is packed, so a value of theirs is its bytes. *)
(***************************************************************************)
EXTENDS Bytes, TLC

CONSTANTS
    CountLimit,       \* 128: field counts, name lengths and array lengths stay below it
    SignatureLength,  \* 65: MAX_SIGNATURE_LENGTH
    DictionaryPairs   \* 15: pairs of a contract dictionary

NoSize == -1          \* "size" left undefined

Sized    == {"string", "bytes", "base64"}
IntegerTypes == {"uint", "number"}
Nested   == {"object", "hash"}

packedTypeMap == <<"uint", "number", "address", "double", "boolean", "string", "byte", "bytes",
                   "base64", "object", "hash", "array", "emptyString", "fixed", "signature", "ratio">>

\* mutant: the keys as they were inserted.
EntriesAsInserted(format) == format

\* Object.entries: index-like keys in ascending order, then the others as they were inserted.
Entries(format) ==
    SortSeq(SelectSeq(format, LAMBDA e : e.name >= 0), LAMBDA a, b : a.name < b.name)
        \o SelectSeq(format, LAMBDA e : e.name < 0)

\* mutant: one byte for the length.
EncodeShortBytes(value)      == EncodeUint(Len(value), 1) \o value
encodeDynamicBytes(value)    == EncodeUint(Len(value), 2) \o value

-----------------------------------------------------------------------------
\* What packFormat writes of a type: its index, and what it needs to be read back.
\* The size of a uint or a number is not among that.
RECURSIVE packFormat(_)
packFormat(format) ==
    LET Prefixed(bytes) == EncodeUint(Len(bytes), WordBytes) \o bytes
        Extra(t) == CASE t.type \in Sized  -> <<IF t.size = NoSize THEN 0 ELSE t.size>>
                      [] t.type \in Nested -> Prefixed(packFormat(t.info))
                      [] t.type = "array"  -> Prefixed(packFormat(<<[name |-> -1, type |-> t.info]>>))
                      [] t.type = "fixed"  -> Prefixed(t.valueHex)
                      [] OTHER             -> <<>>
        Field(e) == <<1, e.name, CHOOSE i \in DOMAIN packedTypeMap : packedTypeMap[i] = e.type.type>>
                        \o Extra(e.type)
        fields == Entries(format)
    IN  <<Len(fields)>> \o FlattenSeq([i \in DOMAIN fields |-> Field(fields[i])])

RECURSIVE unpackFormat(_)
unpackFormat(data) ==
    LET \* The type at the start of `at`, just after its name.
        Type(at) ==
            LET type == packedTypeMap[at[1]]
                length == DecodeUint(SubSeq(at, 2, WordBytes + 1))
                body == SubSeq(at, WordBytes + 2, WordBytes + 1 + length)
                after == Drop(at, WordBytes + 1 + length)
            IN  CASE type \in Sized ->
                        Parsed([type |-> type, size |-> IF at[2] # 0 THEN at[2] ELSE NoSize], Drop(at, 2))
                  [] type \in Nested -> Parsed([type |-> type, info |-> unpackFormat(body)], after)
                  [] type = "array"  -> Parsed([type |-> type, info |-> unpackFormat(body)[1].type], after)
                  [] type = "fixed"  -> Parsed([type |-> type, valueHex |-> body], after)
                  [] type \in IntegerTypes -> Parsed([type |-> type, size |-> NoSize], Drop(at, 1))
                  [] OTHER -> Parsed([type |-> type], Drop(at, 1))
        Named(acc, name, t) == Parsed(Append(acc.value, [name |-> name, type |-> t.value]), t.rest)
        Field(acc, zero) == Named(acc, acc.rest[2], Type(Drop(acc.rest, 2)))
    IN  FoldLeft(Field, Parsed(<<>>, Tail(data)), Zeros(data[1])).value

-----------------------------------------------------------------------------
\* packFormat keeps its counts and sizes below CountLimit.
RECURSIVE CanDescribe(_)
CanDescribe(format) ==
    /\ Len(format) < CountLimit
    /\ \A i \in DOMAIN format : LET t == format[i].type IN
           CASE t.type \in Sized  -> t.size < CountLimit
             [] t.type \in Nested -> CanDescribe(t.info)
             [] t.type = "array"  -> CanDescribe(<<[name |-> -1, type |-> t.info]>>)
             [] OTHER -> TRUE

\* The value is of a kind packData takes for the type; it throws for every other one.
RECURSIVE CanPack(_, _)
CanPack(v, t) ==
    CASE t.type \in Nested -> /\ \A i \in DOMAIN t.info : CanPack(v[t.info[i].name], t.info[i].type)
                              /\ t.type = "hash" => CanDescribe(t.info)
      [] t.type = "array"  -> Len(v) < CountLimit /\ \A i \in DOMAIN v : CanPack(v[i], t.info)
      [] t.type \in Sized  -> t.size \in {NoSize, Len(v)}
      [] t.type \in IntegerTypes -> FitsUint(v, IF t.size = NoSize THEN WordBytes ELSE t.size)
      [] t.type = "byte"      -> FitsUint(v, 1)
      [] t.type = "address"   -> Len(v) \in {EvmLength, KeyLength}
      [] t.type = "signature" -> Len(v) <= SignatureLength
      [] OTHER -> TRUE

RECURSIVE packField(_, _)
packData(value, format, includeType) ==
    LET fields == Entries(format)
        packed == packFormat(format)
    IN  (IF includeType THEN EncodeUint(Len(packed), WordBytes) \o packed ELSE <<>>)
            \o FlattenSeq([i \in DOMAIN fields |-> packField(value[fields[i].name], fields[i].type)])
packField(v, t) ==
    CASE t.type = "object" -> packData(v, t.info, FALSE)
      [] t.type = "hash"   -> sha256Hash(packData(v, t.info, TRUE))
      [] t.type = "array"  -> <<Len(v)>> \o FlattenSeq([i \in DOMAIN v |-> packField(v[i], t.info)])
      [] t.type = "address"   -> padLeftUint8Array(v, KeyLength)
      [] t.type = "signature" -> padRightUint8Array(v, SignatureLength)
      [] t.type \in Sized     -> IF t.size = Len(v) THEN v ELSE encodeDynamicBytes(v)
      [] t.type \in IntegerTypes -> EncodeUint(v, IF t.size = NoSize THEN WordBytes ELSE t.size)
      [] t.type = "byte"      -> <<v>>
      [] t.type = "boolean"   -> <<IF v THEN 1 ELSE 0>>
      [] t.type = "double"    -> v
      [] t.type = "fixed"     -> t.valueHex
      [] t.type = "emptyString" -> <<>>

\* unpackInner: every field, an empty one too, needs a byte left to read.
RECURSIVE unpackField(_, _)
unpackInner(data, format) ==
    LET Extended(acc, name, r) == IF r.ok THEN Parsed(acc.value @@ (name :> r.value), r.rest) ELSE Failed
        Field(acc, f) == IF ~acc.ok \/ acc.rest = <<>> THEN Failed ELSE Extended(acc, f.name, unpackField(acc.rest, f.type))
    IN  FoldLeft(Field, Parsed(<<>>, data), Entries(format))
unpackField(data, t) ==
    LET \* A slice past the end leaves the index beyond the data, which unpackData refuses.
        Take(n) == IF Len(data) < n THEN Failed ELSE Parsed(SubSeq(data, 1, n), Drop(data, n))
        Number(bytes) == IF bytes.ok THEN Parsed(DecodeUint(bytes.value), bytes.rest) ELSE Failed
        Counted(size) == IF ~size.ok \/ Len(size.rest) < size.value THEN Failed
                         ELSE Parsed(SubSeq(size.rest, 1, size.value), Drop(size.rest, size.value))
        Appended(acc, r) == IF ~acc.ok \/ ~r.ok THEN Failed ELSE Parsed(Append(acc.value, r.value[-1]), r.rest)
        Item(acc, zero) == Appended(acc, unpackInner(acc.rest, <<[name |-> -1, type |-> t.info]>>))
    IN  CASE t.type = "object"   -> unpackInner(data, t.info)
          [] t.type = "hash"     -> Take(DigestLength)
          [] t.type = "array"    -> FoldLeft(Item, Parsed(<<>>, Tail(data)), Zeros(Head(data)))
          [] t.type = "address"  -> Take(KeyLength)
          [] t.type = "signature" -> Take(SignatureLength)
          [] t.type \in Sized /\ t.size # NoSize -> Take(t.size)
          [] t.type \in Sized /\ t.size = NoSize -> Counted(Number(Take(2)))
          [] t.type \in IntegerTypes -> Number(Take(IF t.size = NoSize THEN WordBytes ELSE t.size))
          [] t.type = "byte"     -> Failed                  \* unpackInner has no case for it
          [] t.type = "boolean"  -> Parsed(Head(data) = 1, Tail(data))
          [] t.type = "double"   -> Take(WordBytes)
          [] t.type = "fixed"    -> [Take(Len(t.valueHex)) EXCEPT !.value = t.valueHex]
          [] t.type = "emptyString" -> Parsed(<<>>, data)

\* unpackData reads the format from the data itself when the caller gives none.
unpackData(data, describes, format) ==
    LET Whole(r) == IF r.ok /\ r.rest = <<>> THEN r ELSE Failed
        Described(length) == unpackInner(Drop(data, WordBytes + length),
                                         unpackFormat(SubSeq(data, WordBytes + 1, WordBytes + length)))
    IN  Whole(IF describes THEN Described(DecodeUint(SubSeq(data, 1, WordBytes))) ELSE unpackInner(data, format))

-----------------------------------------------------------------------------
\* A contract dictionary is two packed lists, its keys and its values; a Map is
\* the sequence of its pairs.  The encoder's format has "length" (here -1) in
\* front, the decoder's has it last: Object.entries moves it behind the indices.
DictionaryFormat(lengthFirst) ==
    LET length  == [name |-> -1, type |-> [type |-> "bytes", size |-> 1]]
        numbers == [i \in 1..DictionaryPairs |-> [name |-> i - 1, type |-> [type |-> "uint", size |-> NoSize]]]
    IN  IF lengthFirst THEN <<length>> \o numbers ELSE Append(numbers, length)

\* The length is one byte of a Uint8Array, which keeps what is left modulo ByteBase.
encodeC3PyTealDictionary(dictionary) ==
    LET n == Len(dictionary)
        Column(c) == [i \in -1..(IF n > DictionaryPairs THEN n ELSE DictionaryPairs) - 1 |->
                        IF i = -1 THEN <<n % ByteBase>> ELSE IF i < n THEN dictionary[i + 1][c] ELSE 0]
    IN  [keys   |-> packData(Column(1), DictionaryFormat(TRUE), FALSE),
         values |-> packData(Column(2), DictionaryFormat(TRUE), FALSE)]

\* The indices beyond the format are undefined, and BigInt(undefined) throws.
decodeC3PyTealDictionary(encoded) ==
    LET Column(data) == unpackData(data, FALSE, DictionaryFormat(FALSE))
        Length(column) == column.value[-1][1]
        Paired(ids, values) ==
            IF ~ids.ok \/ ~values.ok \/ Length(ids) # Length(values) \/ Length(ids) > DictionaryPairs THEN Failed
            ELSE Parsed([i \in 1..Length(ids) |-> <<ids.value[i - 1], values.value[i - 1]>>], <<>>)
    IN  Paired(Column(encoded.keys), Column(encoded.values))

-----------------------------------------------------------------------------
\* The layouts of contracts/CoreState.ts; the i-th property has the name -i.
Layout(types) == [i \in DOMAIN types |-> [name |-> -i, type |-> types[i]]]
Nest(format)  == [type |-> "object", info |-> format]
Width(n)      == [type |-> "uint", size |-> n]

CONTRACT_AMOUNT_FORMAT == Width(NoSize)   \* rates and asset ids too
CONTRACT_RELATIVE_TIMESTAMP_FORMAT == Width(4)
CONTRACT_RATIO_FORMAT  == Width(2)

\* Of a user per slot: cash, principal and index.
userInstrumentFormat == Layout([i \in 1..3 |-> CONTRACT_AMOUNT_FORMAT])

\* Of an instrument: its asset, the haircuts and margins, and the pool's clock, indices, rates and amounts.
riskFactorsFormat == Layout(<<CONTRACT_RATIO_FORMAT, CONTRACT_RATIO_FORMAT>>)
poolRatesFormat   == Layout(<<CONTRACT_RATIO_FORMAT, CONTRACT_AMOUNT_FORMAT, CONTRACT_AMOUNT_FORMAT, CONTRACT_AMOUNT_FORMAT>>)
poolDataFormat    == Layout(<<CONTRACT_RELATIVE_TIMESTAMP_FORMAT, CONTRACT_AMOUNT_FORMAT, CONTRACT_AMOUNT_FORMAT,
                              Nest(poolRatesFormat), CONTRACT_AMOUNT_FORMAT, CONTRACT_AMOUNT_FORMAT>>)
instrumentInfoFormat == Layout(<<Nest(riskFactorsFormat), Nest(riskFactorsFormat), Nest(poolDataFormat)>>)
instrumentFormat  == Layout(<<CONTRACT_AMOUNT_FORMAT, Nest(instrumentInfoFormat)>>)

\* parseCoreInstruments: slot after slot, as many as the caller counts.
parseCoreInstruments(data, instrumentCount) ==
    LET Listed(acc, id, r) ==
            IF ~acc.ok \/ ~r.ok THEN Failed
            ELSE Parsed(Append(acc.value, [slotId |-> id - 1, assetId |-> r.value[-1], pool |-> r.value[-2]]), r.rest)
        Slot(acc, id) == Listed(acc, id, unpackInner(acc.rest, instrumentFormat))
    IN  FoldLeft(Slot, Parsed(<<>>, data), [id \in 1..instrumentCount |-> id])

\* parseCoreUserState: the entries of the slots in which anything is not zero; it
\* reads on as long as there is a byte left, and fails on a slot cut short.
parseCoreUserState(data) ==
    LET width == 3 * WordBytes
        Slot(i) == unpackInner(Drop(data, i * width), userInstrumentFormat)
        User(slot) == [cash |-> slot[-1], principal |-> convertUint64toInt64(slot[-2]), index |-> slot[-3]]
        slots == {i \in 0..Len(data) : i * width < Len(data)}
        used == {i \in slots : Slot(i).value # -1 :> 0 @@ -2 :> 0 @@ -3 :> 0}
    IN  IF \E i \in slots : ~Slot(i).ok THEN Failed ELSE Parsed([i \in used |-> User(Slot(i).value)], <<>>)
=============================================================================
