----------------------------- MODULE Operations -----------------------------
(***************************************************************************)
(* The messages an account signs, after common/src/internal/utils          *)
(* (operation.ts, signer.ts, build_operations.ts) and common/src/internal/ *)
(* order.ts: ABI-encoded operations and orders, their signed header, the   *)
(* payload for the contracts, and the order that account.ts makes of the   *)
(* caller's texts.  An ABI type is a record; an object is the sequence of  *)
(* its [name, value] in the order of its keys, none of which looks like an *)
(* index here; base64 text is the sequence of its digits' values.          *)
(***************************************************************************)
EXTENDS PackedData, AccountIds, Amounts

ASSUME Base64Assumption == ByteBase = 256   \* four base64 digits are three bytes

WithSize(type, size) == [type |-> type, size |-> size]
Plain(type)          == [type |-> type]
Holding(type, info)  == [type |-> type, info |-> info]
Field(name, type)    == [name |-> name, type |-> type]
Entry(name, value)   == [name |-> name, value |-> value]

-----------------------------------------------------------------------------
(* The ABI of algosdk.                                                     *)
AbiUint(size)  == [abi |-> "uint", size |-> size]
AbiByte        == [abi |-> "byte"]
AbiBytes(size) == [abi |-> "bytes", size |-> size]
AbiTuple(types) == [abi |-> "tuple", types |-> types]
AbiList(type)  == [abi |-> "list", type |-> type]

RECURSIVE Dynamic(_), StaticLength(_)
Dynamic(t) == CASE t.abi = "bytes" -> t.size = NoSize
                [] t.abi = "tuple" -> \E i \in DOMAIN t.types : Dynamic(t.types[i])
                [] OTHER -> t.abi = "list"
HeadLength(t)   == IF Dynamic(t) THEN 2 ELSE StaticLength(t)
HeadsBefore(types, n) == FoldLeft(LAMBDA sum, t : sum + HeadLength(t), 0, SubSeq(types, 1, n))
StaticLength(t) == CASE t.abi = "byte" -> 1
                     [] t.abi = "tuple" -> HeadsBefore(t.types, Len(t.types))
                     [] OTHER -> t.size

\* What is dynamic leaves its offset in the head and goes to the tail.
RECURSIVE AbiEncode(_, _)
AbiEncode(v, t) ==
    LET Tuple(types) ==
            LET Put(acc, i) ==
                    LET bytes == AbiEncode(v[i], types[i])
                        offset == HeadsBefore(types, Len(types)) + Len(acc.tail)
                    IN  IF Dynamic(types[i]) THEN [head |-> acc.head \o EncodeUint(offset, 2), tail |-> acc.tail \o bytes]
                        ELSE [acc EXCEPT !.head = @ \o bytes]
                parts == FoldLeftDomain(Put, [head |-> <<>>, tail |-> <<>>], types)
            IN  parts.head \o parts.tail
    IN  CASE t.abi = "uint"  -> EncodeUint(v, t.size)
          [] t.abi = "byte"  -> <<v>>
          [] t.abi = "bytes" -> IF t.size = NoSize THEN encodeDynamicBytes(v) ELSE v
          [] t.abi = "tuple" -> Tuple(t.types)
          [] t.abi = "list"  -> EncodeUint(Len(v), 2) \o Tuple([i \in DOMAIN v |-> t.type])

RECURSIVE AbiDecode(_, _)
AbiDecode(bytes, t) ==
    LET Number(data) == DecodeUint(SubSeq(data, 1, 2))
        Tuple(data, types) ==
            [i \in DOMAIN types |->
                LET head == Drop(data, HeadsBefore(types, i - 1))
                IN  AbiDecode(IF Dynamic(types[i]) THEN Drop(data, Number(head)) ELSE head, types[i])]
    IN  CASE t.abi = "uint"  -> DecodeUint(SubSeq(bytes, 1, t.size))
          [] t.abi = "byte"  -> bytes[1]
          [] t.abi = "bytes" -> IF t.size = NoSize THEN SubSeq(bytes, 3, Number(bytes) + 2) ELSE SubSeq(bytes, 1, t.size)
          [] t.abi = "tuple" -> Tuple(bytes, t.types)
          [] t.abi = "list"  -> Tuple(Drop(bytes, 2), [i \in 1..Number(bytes) |-> t.type])

-----------------------------------------------------------------------------
(* Packed formats as ABI types, and objects as ABI values.                 *)
RECURSIVE packABIString(_)
packABIString(format) ==
    LET Type(t) == CASE t.type \in Nested  -> packABIString(t.info)
                     [] t.type = "array"   -> AbiList(packABIString(<<Field("value", t.info)>>).types[1])
                     [] t.type = "address" -> AbiBytes(KeyLength)
                     [] t.type = "byte"    -> AbiByte
                     [] t.type \in Sized   -> AbiBytes(t.size)
                     [] t.type \in IntegerTypes -> AbiUint(IF t.size = NoSize THEN WordBytes ELSE t.size)
                     [] t.type = "fixed"   -> IF Len(t.valueHex) = 1 THEN AbiByte ELSE AbiBytes(Len(t.valueHex))
    IN  AbiTuple([i \in DOMAIN format |-> Type(format[i].type)])

\* The values in the order of the object's own keys; the format only tells here which are objects.
RECURSIVE packABIValue(_, _)
packABIValue(object, format) ==
    [i \in DOMAIN object |-> IF format[i].type.type \in Nested
                             THEN packABIValue(object[i].value, format[i].type.info) ELSE object[i].value]

unpackABIValue(values, format) ==
    IF \E i \in DOMAIN format : format[i].type.type \notin Sized \cup IntegerTypes \cup {"byte", "address"}
    THEN Failed
    ELSE Parsed([n \in {format[i].name : i \in DOMAIN format} |->
                    values[CHOOSE i \in DOMAIN format : format[i].name = n]], <<>>)

encodeABIValueWithFormat(object, format) == AbiEncode(packABIValue(object, format), packABIString(format))
decodeABIValueWithFormat(bytes, format)  == unpackABIValue(AbiDecode(bytes, packABIString(format)), format)

-----------------------------------------------------------------------------
(* Base64: a digit is its value, 64 stands for "=".                         *)
encodeBase64(bytes) ==
    LET used   == (4 * Len(bytes) + 2) \div 3
        padded == bytes \o Zeros(2)
        Digit(i) == LET group == DecodeUint(SubSeq(padded, 3 * ((i - 1) \div 4) + 1, 3 * ((i - 1) \div 4) + 3))
                    IN  (group \div 64^(3 - ((i - 1) % 4))) % 64
    IN  [i \in 1..4 * ((Len(bytes) + 2) \div 3) |-> IF i <= used THEN Digit(i) ELSE 64]

\* Digits that do not fill a byte are dropped.
decodeBase64(text) ==
    LET digits == SelectSeq(text, LAMBDA d : d < 64)
        padded == digits \o Zeros(3)
        Byte(i) == LET at == 4 * ((i - 1) \div 3)
                       group == FoldLeft(LAMBDA n, d : 64 * n + d, 0, SubSeq(padded, at + 1, at + 4))
                   IN  EncodeUint(group, 3)[((i - 1) % 3) + 1]
    IN  [i \in 1..(3 * Len(digits)) \div 4 |-> Byte(i)]

\* toString of a number: "0" is the base64 digit 52.
DecimalText(n) == LET length == CHOOSE k \in 1..10 : 10^(k - 1) <= n /\ (k < 10 => n < 10^k)
                  IN  [i \in 1..length |-> 52 + ((n \div 10^(length - i)) % 10)]

-----------------------------------------------------------------------------
(* Operations.                                                             *)
OnChainRequestOp == [Deposit |-> 0, Withdraw |-> 1, PoolMove |-> 2, Delegate |-> 3, Liquidate |-> 4,
                     AccountMove |-> 5, Settle |-> 6]

WithdrawFormat   == AbiTuple(<<AbiByte, AbiUint(1), AbiUint(WordBytes), AbiTuple(<<AbiUint(2), AbiBytes(KeyLength)>>),
                               AbiUint(WordBytes), AbiUint(WordBytes)>>)
PoolMoveFormat   == AbiTuple(<<AbiByte, AbiUint(1), AbiUint(WordBytes)>>)
DelegationFormat == AbiTuple(<<AbiByte, AbiBytes(KeyLength), AbiUint(WordBytes), AbiUint(WordBytes)>>)
BasketsFormat    == LET basket == AbiList(AbiTuple(<<AbiUint(1), AbiUint(WordBytes)>>))
                    IN  AbiTuple(<<AbiByte, AbiBytes(KeyLength), basket, basket>>)

\* The receiver is the number of its chain and an address of it.
createWithdraw(slot, amount, receiver, maxBorrow, maxFees) ==
    AbiEncode(<<OnChainRequestOp.Withdraw, slot, amount, <<receiver.chain, getPublicKey(receiver.address)>>, maxBorrow, maxFees>>,
              WithdrawFormat)

createPoolMove(slot, amount) == AbiEncode(<<OnChainRequestOp.PoolMove, slot, encodeInt64(amount)>>, PoolMoveFormat)

createDelegation(delegate, nonce, expiration) ==
    AbiEncode(<<OnChainRequestOp.Delegate, getPublicKey(delegate), nonce, expiration>>, DelegationFormat)

\* A Map is the sequence of its pairs.
SomeNegative(pairs) == \E i \in DOMAIN pairs : pairs[i][2] < 0
assetToSlotIdMap(assetIds, pairs) ==
    [i \in DOMAIN pairs |-> <<(CHOOSE s \in DOMAIN assetIds : assetIds[s] = pairs[i][1]) - 1, pairs[i][2]>>]

decodeAccountId(accountId) == decodeAccountIdFull(accountId).value.publicKey

createLiquidation(liquidatee, cash, pool) ==
    LET signedPool == [i \in DOMAIN pool |-> <<pool[i][1], encodeInt64(pool[i][2])>>]
    IN  IF SomeNegative(cash) THEN Failed
        ELSE Parsed(AbiEncode(<<OnChainRequestOp.Liquidate, decodeAccountId(liquidatee), cash, signedPool>>, BasketsFormat), <<>>)

createAccountMove(target, cash, pool) ==
    IF SomeNegative(cash \o pool) THEN Failed
    ELSE Parsed(AbiEncode(<<OnChainRequestOp.AccountMove, decodeAccountId(target), cash, pool>>, BasketsFormat), <<>>)

-----------------------------------------------------------------------------
(* What is signed.                                                         *)
signedHeaderFormat == << Field("target", WithSize("bytes", KeyLength)), Field("lease", WithSize("bytes", KeyLength)),
                         Field("lastValid", WithSize("number", NoSize)) >>

signedMessageFormat == << Field("header", Holding("object", signedHeaderFormat)), Field("operation", WithSize("base64", NoSize)),
                          Field("encodedSignedData", WithSize("base64", NoSize)), Field("signMethod", WithSize("number", 1)),
                          Field("signature", WithSize("base64", NoSize)), Field("signer", WithSize("bytes", KeyLength)),
                          Field("prefix", WithSize("base64", NoSize)) >>

SignPrefix == <<40, 67, 51, 46, 73, 79, 41, 48>>   \* "(C3.IO)0"

\* mutant: the keys of the header in another order.
HeaderLeaseFirst(target, lease, lastValid) == <<Entry("lease", lease), Entry("target", target), Entry("lastValid", lastValid)>>
SignedHeader(target, lease, lastValid) == <<Entry("target", target), Entry("lease", lease), Entry("lastValid", lastValid)>>

getDataToSign(operation, target, lease, lastValid) ==
    encodeBase64(SignPrefix \o encodeABIValueWithFormat(SignedHeader(target, lease, lastValid), signedHeaderFormat) \o operation)

getSigningMethodByAddress(address) == IF address.format = C3_ACCOUNT_TYPE_EVM THEN 1 ELSE 0

\* "MX", or Ethereum's phrase (cut to its first byte here) with the length of the data.
getDataPrefixByAddress(address, dataLength) ==
    CASE address.format = C3_ACCOUNT_TYPE_ALGORAND -> <<77, 88>>
      [] address.format = C3_ACCOUNT_TYPE_EVM      -> <<25>> \o DecimalText(dataLength)
      [] address.format = C3_ACCOUNT_TYPE_SOLANA   -> <<>>

getSignedPayload(operation, signature, signer, target, lease, lastValid) ==
    LET data == getDataToSign(operation, target, lease, lastValid)
    IN  << Entry("header", SignedHeader(target, lease, lastValid)), Entry("operation", operation),
           Entry("encodedSignedData", data), Entry("signMethod", getSigningMethodByAddress(signer)),
           Entry("signature", signature), Entry("signer", getPublicKey(signer)),
           Entry("prefix", getDataPrefixByAddress(signer, Len(data))) >>

encodeSignedPayload(operation, signature, signer, target, lease, lastValid) ==
    encodeABIValueWithFormat(getSignedPayload(operation, signature, signer, target, lease, lastValid), signedMessageFormat)

buildDelegationOperation(owner, delegateTo, expiresOn, nonce) ==
    getDataToSign(createDelegation(delegateTo, nonce, expiresOn), getPublicKey(owner), Zeros(KeyLength), 0)

-----------------------------------------------------------------------------
(* Orders.                                                                 *)
orderDataFormat == << Field("operation", [type |-> "fixed", valueHex |-> <<6>>]), Field("account", WithSize("base64", KeyLength)),
                      Field("nonce", WithSize("number", NoSize)), Field("expiresOn", WithSize("number", NoSize)),
                      Field("sellSlotId", Plain("byte")), Field("sellAmount", WithSize("uint", NoSize)),
                      Field("maxBorrow", WithSize("uint", NoSize)), Field("buySlotId", Plain("byte")),
                      Field("buyAmount", WithSize("uint", NoSize)), Field("maxRepay", WithSize("uint", NoSize)) >>

encodeOrderData(data) ==
    AbiEncode(<<6, data.account, data.nonce, data.expiresOn, data.sellSlotId, data.sellAmount, data.maxSellAmountFromPool,
                data.buySlotId, data.buyAmount, data.maxBuyAmountToPool>>, packABIString(orderDataFormat))

getOrderId(encodedData) == encodeBase64(sha256Hash(encodedData))

\* Orders have neither a lease nor a last block.
encodeOrderWithHeader(data) ==
    [dataToSign |-> getDataToSign(encodeOrderData(data), data.account, Zeros(KeyLength), 0),
     id |-> getOrderId(encodeOrderData(data))]

\* The time is decoded as if its decimal text were base64; 0 is as good as none.
encodeCancelRequest(orders, allOrdersUntil) ==
    FlattenSeq([i \in DOMAIN orders |-> decodeBase64(orders[i])])
        \o (IF allOrdersUntil = 0 THEN <<>> ELSE decodeBase64(DecimalText(allOrdersUntil)))

-----------------------------------------------------------------------------
(* createOrderData of account.ts: the texts of a caller as a ticket and as *)
(* what is posted with it.  A market is the decimals of its two sides, and *)
(* an amount names its side.                                               *)
Amount(side, raw)   == [side |-> side, raw |-> raw]
SellBuyInstrument(side) == IF side = "buy" THEN <<"quote", "base">> ELSE <<"base", "quote">>
SizeInstrument(order)   == IF order.type = "market" THEN SellBuyInstrument(order.side)[1] ELSE "base"
amountFromDecimal(side, text, market) == Amount(side, fromDecimal(text, market[side]))

getBuySellAmounts(order, size, price) ==
    LET quote == Amount("quote", baseToQuote(price, size.raw))
    IN  IF order.type = "market" THEN <<size, Amount(SellBuyInstrument(order.side)[2], 0)>>
        ELSE IF order.side = "buy" THEN <<quote, size>> ELSE <<size, quote>>

\* A limit order has a price; the price of a market order is ignored.
createOrderData(order, market) ==
    LET sides  == SellBuyInstrument(order.side)
        size   == amountFromDecimal(SizeInstrument(order), order.amount, market)
        borrow == amountFromDecimal(sides[1], order.maxBorrow, market)
        repay  == amountFromDecimal(sides[2], order.maxRepay, market)
        price  == IF order.type = "limit" THEN priceFromDecimal(order.price, market) ELSE 0
        amounts == getBuySellAmounts(order, size, price)
        invalid == size.raw < 0 \/ borrow.raw < 0 \/ repay.raw < 0 \/ price < 0     \* zero passes isPositive
    IN  IF invalid THEN Failed
        ELSE Parsed([ticket |-> [sellSlotId |-> order.slots[amounts[1].side], sellAmount |-> amounts[1].raw,
                                 buySlotId |-> order.slots[amounts[2].side], buyAmount |-> amounts[2].raw,
                                 maxSellAmountFromPool |-> borrow.raw, maxBuyAmountToPool |-> repay.raw],
                     type |-> order.type, side |-> order.side, size |-> toDecimal(size.raw, market[size.side]),
                     price |-> IF order.type = "limit" THEN <<priceToDecimal(price, market)>> ELSE <<>>], <<>>)

\* What the SDK makes of an order the server returns.
convertNewOrderData(posted, market) ==
    [size  |-> amountFromDecimal(SizeInstrument(posted), posted.size, market),
     price |-> IF posted.price = <<>> THEN <<>> ELSE <<priceFromDecimal(posted.price[1], market)>>]
=============================================================================
