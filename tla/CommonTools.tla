---------------------------- MODULE CommonTools ----------------------------
(***************************************************************************)
(* The pure functions of the common package, called one at a time with     *)
(* small inputs: packed data, contract state, account ids, prices and      *)
(* margins.  The state is the call being made.  The properties relate each *)
(* function to the one that undoes it, or to what its callers use the      *)
(* answer for.                                                             *)
(***************************************************************************)
EXTENDS Bridge, PureCalls

Init == call = Idle

-----------------------------------------------------------------------------
(* Inputs.                                                                 *)
LeafTypes ==
    {WithSize("uint", size) : size \in {NoSize, 1, 3}} \cup {WithSize("bytes", size) : size \in {NoSize, 1, CountLimit}}
        \cup {WithSize("string", 0)}
        \cup {Plain(type) : type \in {"address", "boolean", "byte", "double", "emptyString", "signature"}}
        \cup {[type |-> "fixed", valueHex |-> <<7>>]}
FieldTypes ==
    LeafTypes
        \cup {Holding(type, <<Field(0, WithSize("uint", NoSize)), Field(-1, t)>>) :
                 type \in {"object", "hash"}, t \in {WithSize("bytes", 1), WithSize("uint", 1), Plain("emptyString")}}
        \cup {Holding("object", <<>>)}
        \cup {Holding("array", t) : t \in {WithSize("uint", NoSize), Plain("emptyString")}}
Formats == {<<Field(-1, t)>> : t \in FieldTypes}
               \cup {<<Field(n, t), Field(m, u)>> : n \in {-1}, m \in {0, -2}, t \in FieldTypes, u \in LeafTypes}

RECURSIVE ValuesOf(_)
ValuesOf(t) ==
    CASE t.type = "uint"    -> {0, ByteBase - 1, ByteBase}
      [] t.type \in Sized   -> {<<>>, <<3>>, [i \in 1..CountLimit |-> i]}
      [] t.type = "address" -> {<<5>>, <<4, 5>>}
      [] t.type = "boolean" -> BOOLEAN
      [] t.type = "byte"    -> {9}
      [] t.type = "double"  -> {[i \in 1..WordBytes |-> 2]}
      [] t.type = "signature" -> {<<6>>, [i \in 1..SignatureLength |-> i]}
      [] t.type = "array"   -> {<<>>} \cup {<<v>> : v \in ValuesOf(t.info)}
      [] t.type \in Nested  -> {[n \in {t.info[i].name : i \in DOMAIN t.info} |->
                                    CHOOSE v \in ValuesOf(t.info[CHOOSE i \in DOMAIN t.info : t.info[i].name = n].type) :
                                        CanPack(v, t.info[CHOOSE i \in DOMAIN t.info : t.info[i].name = n].type)]}
      [] OTHER -> {<<>>}

Records(format) ==
    IF Len(format) = 1 THEN {format[1].name :> v : v \in ValuesOf(format[1].type)}
    ELSE {(format[1].name :> v) @@ (format[2].name :> w) : v \in ValuesOf(format[1].type), w \in ValuesOf(format[2].type)}

Packable(value, format, typed) ==
    /\ \A i \in DOMAIN format : CanPack(value[format[i].name], format[i].type)
    /\ typed => CanDescribe(format)

\* A Map has each key once.  The long ones have lengths about that of a byte's values.
Maps(n) == {pairs \in [1..n -> (0..2) \X {0, SignBit, WordSize - 1}] : \A i, j \in 1..n : pairs[i][1] = pairs[j][1] => i = j}
LongMaps == {[i \in 1..n |-> <<i, n>>] : n \in {ByteBase - 1, ByteBase} \cup {ByteBase + i : i \in 1..DictionaryPairs + 1}}
UserEntries == {[cash |-> c, principal |-> p, index |-> i] : c \in {0, 5}, p \in {1 - SignBit, -1, 0, SignBit}, i \in {0, 1}}
AddressesTried == {[format |-> f, bytes |-> b] : f \in {C3_ACCOUNT_TYPE_ALGORAND, C3_ACCOUNT_TYPE_SOLANA}, b \in (0..2) \X (0..2)}
                      \cup {[format |-> C3_ACCOUNT_TYPE_EVM, bytes |-> <<b>>] : b \in 0..2}
PricesTried  == 1..60
TicksTried   == 1..7
MarketsTried == [base : 0..1, quote : 0..1]

WatchListsTried == {<<"a", "a">>, <<"a", "b">>}
WatchCalls == [do : {"start", "next"}, w : {1}, task : {"x", "y"}] \cup [do : {"start"}, w : {2}, task : {"x"}]
                  \cup [do : {"stop", "dump", "clean"}, w : {1}] \cup {[do |-> "stop", w |-> 2], [do |-> "dumpIf", w |-> 1, value |-> 2]}
                  \cup [do : {"on", "off"}]
CallListsTried == UNION {[1..n -> WatchCalls] : n \in 1..4}

CashesTried    == {<<0, 0>>, <<100, 0>>, <<100, 300>>}
PoolsTried     == {0, 100, 300} \X {-100, 0, 200}
UsdPricesTried == {1, 2} \X {1, 3}
ListingsTried  ==
    {[a \in 1..2 |-> LET factors == [haircut |-> haircuts[a], margin |-> margins[a]]
                     IN  [asset |-> a, decimals |-> 0, optUtilization |-> 8, initial |-> factors, maintenance |-> factors]] :
        haircuts, margins \in {0, 1, 5} \X {0, 2, 5}}

-----------------------------------------------------------------------------
(* Calls.                                                                  *)
Pack == \E format \in Formats, typed \in BOOLEAN : \E value \in Records(format) :
            /\ Packable(value, format, typed)
            /\ call' = [op |-> "pack", format |-> format, value |-> value, typed |-> typed]

EncodeDictionary == \E pairs \in LongMaps \cup UNION {Maps(n) : n \in 0..DictionaryPairs + 1} :
                        call' = [op |-> "dictionary", pairs |-> pairs]

\* The state of a user, from the end of which some bytes may be missing.
ReadUserState == \E entries \in [1..2 -> UserEntries], missing \in 0..3 * WordBytes :
                     call' = [op |-> "state", entries |-> entries, missing |-> missing]

\* Instruments as the contracts keep them, told apart by one number each.
InstrumentOf(n) ==
    LET factors(i) == -1 :> n @@ -2 :> i
        rates == -1 :> n @@ -2 :> 0 @@ -3 :> WordSize - 1 @@ -4 :> n
    IN  -1 :> n @@ -2 :> (-1 :> factors(1) @@ -2 :> factors(2)
                            @@ -3 :> (-1 :> n @@ -2 :> n @@ -3 :> 1 @@ -4 :> rates @@ -5 :> 0 @@ -6 :> WordSize - 1 - n))
ReadInstruments == \E n \in 0..3 : \E assets \in [1..n -> {0, 1, ByteBase}], count \in 0..4 :
                       call' = [op |-> "instruments", assets |-> assets, count |-> count]

CallOf(op, requests) == \E r \in requests : call' = [op |-> op, request |-> r]

Signers == {[format |-> f, bytes |-> <<4, 7>>] : f \in {C3_ACCOUNT_TYPE_ALGORAND, C3_ACCOUNT_TYPE_SOLANA}}
               \cup {[format |-> C3_ACCOUNT_TYPE_EVM, bytes |-> <<7>>]}
Signed  == {1 - SignBit, -1, 0, 300, SignBit}
Baskets == {<<>>} \cup {<<<<0, v>>>> : v \in Signed} \cup {<<<<2, v>>, <<1, w>>>> : v, w \in {-1, 0, 300}}

CreateOperation ==
    \/ CallOf("withdraw", [slot : {0, 3}, amount : {0, WordSize - 1}, receiver : [chain : {1, 10002}, address : Signers],
                           maxBorrow : {0, 7}, maxFees : {1, 300}])
    \/ CallOf("poolMove", [slot : {0, 3}, amount : Signed])
    \/ CallOf("delegation", [owner : Signers, delegate : Signers, nonce : {0, 300}, expiration : {5, WordSize - 1}])
    \/ CallOf("baskets", [target : Signers, cash : Baskets, pool : Baskets])

SignOrder == CallOf("order", [account : {<<4, 7>>, <<0, 1>>}, nonce : {9, 300}, expiresOn : {0, 5}, sellSlotId : {0, 1}, buySlotId : {2},
                              sellAmount : {0, 300}, buyAmount : {1, WordSize - 1}, maxSellAmountFromPool : {0, 8},
                              maxBuyAmountToPool : {3}])

SignPayload == CallOf("payload", [operation : {<<>>, <<1, 2, 3>>}, signature : {<<6>>}, signer : Signers,
                                  target : {<<4, 7>>}, lease : {<<0, 1>>, <<8, 8>>}, lastValid : {0, 300}])

OrderIds  == {getOrderId(<<1>>), getOrderId(<<2>>)}
Cancels   == [orders : {<<>>} \cup [1..1 -> OrderIds] \cup [1..2 -> OrderIds], until : {0, 12345, 12349, 12350, 99999}]
CancelTwo == CallOf("cancel", Cancels \X Cancels)

CreateOrder ==
    \E market \in Markets, side \in {"buy", "sell"}, type \in {"limit", "market"}, amount \in {-1, 0, 3, 150}, price \in {0, 7, 150},
       borrow \in {0, 20}, repay \in {-1, 0, 3} :
        LET sides == SellBuyInstrument(side)
            order == [side |-> side, type |-> type, slots |-> [base |-> 3, quote |-> 0],
                      amount |-> toDecimal(amount, market[SizeInstrument([side |-> side, type |-> type])]),
                      price |-> priceToDecimal(price, market),
                      maxBorrow |-> toDecimal(borrow, market[sides[1]]), maxRepay |-> toDecimal(repay, market[sides[2]])]
        IN  call' = [op |-> "newOrder", market |-> market, order |-> order]

\* A chain entry of an instrument, and the instruments of a network: Circle's dollars with the
\* hub's entry first or last, another token, a chain's own currency, and Algos, on no other chain.
On(chain, token) == [chain |-> chain, token |-> token]
InstrumentsOf(network, decimals) ==
    LET Listed(asaId, chains) == [asaId |-> asaId, decimals |-> decimals, chains |-> chains]
        usdc(chain) == On(chain, getUSDCTokenAddress(network, chain).value)
        coin(chain) == On(chain, Token("coin", chain))
        currency(chain) == On(chain, createWrappedAssetMap(network)[chain])
        dollars == IF network = "DEVNET" THEN 78 ELSE getAvaxUsdcAsaId(network)
    IN  << Listed(dollars, <<usdc("avax"), usdc("eth"), coin("solana")>>), Listed(dollars, <<On("bsc", Token("dollar", "bsc")), usdc("avax")>>),
           Listed(5, <<coin("sepolia"), coin("bsc")>>), Listed(6, <<currency("eth")>>), Listed(7, <<currency("solana")>>),
           Listed(0, <<>>) >>

Chains  == {"eth", "avax", "arbitrum_sepolia", "bsc", "solana", "sepolia"}
Bridges == {Chains, Chains \ {"sepolia"}}
Hub     == <<8, 8>>
Deposits(network) ==
    [instrument : {InstrumentsOf(network, n)[i] : n \in {1, 2}, i \in 1..6}, origin : Chains, amount : {20, 123},
     repayAmount : {0, 300}, account : {userAddressToAccountId(a) : a \in Signers}, sender : Signers, appId : {3, 300},
     hub : {Hub}, tokenDecimals : {1, 3}, allowance : {0, 100}]
CanSend(d) == isEVMChain(d.origin) = (d.sender.format = C3_ACCOUNT_TYPE_EVM) /\ d.sender.format # C3_ACCOUNT_TYPE_ALGORAND

CrossChains ==
    \E network \in {"MAINNET", "TESTNET", "DEVNET"}, bridges \in Bridges :
        \/ \E d \in Deposits(network) : CanSend(d) /\ call' = [op |-> "deposit", network |-> network, bridges |-> bridges, deposit |-> d]
        \/ \E i \in 1..6, chain \in Chains :
               call' = [op |-> "crossing", network |-> network, bridges |-> bridges,
                        instrument |-> InstrumentsOf(network, 2)[i], destination |-> chain]

Next == \/ /\ call = Idle
           /\ \/ Pack \/ EncodeDictionary \/ ReadUserState \/ ReadInstruments \/ NameAccount \/ RoundPrice \/ AskAvailable
              \/ CreateOperation \/ SignOrder \/ SignPayload \/ CancelTwo \/ CreateOrder \/ Measure
              \/ CrossChains
        \/ Return

Spec == Init /\ [][Next]_call

-----------------------------------------------------------------------------
(* What a value is once it went through the wire, and whether it gets there. *)
RECURSIVE Canonical(_, _)
Canonical(v, t) ==
    CASE t.type = "object"  -> [n \in DOMAIN v |-> Canonical(v[n], t.info[CHOOSE i \in DOMAIN t.info : t.info[i].name = n].type)]
      [] t.type = "hash"    -> sha256Hash(packData(v, t.info, TRUE))
      [] t.type = "array"   -> [i \in DOMAIN v |-> Canonical(v[i], t.info)]
      [] t.type = "address" -> padLeftUint8Array(v, KeyLength)
      [] t.type = "signature" -> padRightUint8Array(v, SignatureLength)
      [] t.type = "fixed"   -> t.valueHex
      [] OTHER -> v

\* A description says nothing of the size of an integer, and a size of 0 in it means none.
RECURSIVE Describable(_)
Describable(t) ==
    CASE t.type = "object" -> \A i \in DOMAIN t.info : Describable(t.info[i].type)
      [] t.type = "array"  -> Describable(t.info)
      [] t.type \in IntegerTypes -> t.size \in {NoSize, WordBytes}
      [] t.type \in Sized -> t.size # 0
      [] OTHER -> TRUE

RECURSIVE Unpackable(_)
Unpackable(t) ==
    CASE t.type = "object" -> \A i \in DOMAIN t.info : Unpackable(t.info[i].type)
      [] t.type = "array"  -> Unpackable(t.info)
      [] OTHER -> t.type # "byte"

\* The data ends with a field that takes no bytes: there is none left where unpackInner looks for it.
RECURSIVE EndsEmpty(_, _)
EndsEmpty(v, t) ==
    \/ packField(v, t) = <<>>
    \/ /\ t.type = "object"
       /\ LET last == Last(Entries(t.info)) IN EndsEmpty(v[last.name], last.type)
    \/ /\ t.type = "array" /\ v # <<>>
       /\ EndsEmpty(Last(v), t.info)

\* What packData writes, unpackData reads back as the same record, and a lone
\* field it does not read back is one that the format cannot carry: an integer
\* with a size or an empty size in self-describing data, a "byte", and a last
\* field without bytes (encoding.ts packData, packFormat, unpackPartialData).
PackedDataReadsBack ==
    call.op = "pack" =>
        LET read == unpackData(packData(call.value, call.format, call.typed), call.typed, call.format)
            last == Last(Entries(call.format))
            carried == \A i \in DOMAIN call.format :
                          LET t == call.format[i].type IN Unpackable(t) /\ (call.typed => Describable(t))
            same == read.ok /\ read.value = [n \in DOMAIN call.value |->
                        Canonical(call.value[n], call.format[CHOOSE i \in DOMAIN call.format : call.format[i].name = n].type)]
            whole == carried /\ ~EndsEmpty(call.value[last.name], last.type)
        IN  (whole => same) /\ (Len(call.format) = 1 => (same => whole))

\* A dictionary of up to DictionaryPairs pairs reaches the contract and comes
\* back as it was, although its length field is declared first by the encoder
\* and last by the decoder. The decoder refuses a longer one, unless the length has
\* run over its byte: then it comes back cut to its first pairs, and nobody is told.
\* A user's slots come back with their signed principals, or not at all when the
\* last of them is cut short, and as many instruments as are asked for in their
\* slots, or none where the state holds fewer (encoding.ts
\* encode/decodeC3PyTealDictionary, CoreState.ts parseCoreUserState,
\* parseCoreInstruments).
ContractStateReadsBack ==
    /\ call.op = "dictionary" =>
          LET read == decodeC3PyTealDictionary(encodeC3PyTealDictionary(call.pairs))
              told == Len(call.pairs) % ByteBase
          IN  IF told <= DictionaryPairs THEN read.ok /\ read.value = SubSeq(call.pairs, 1, told) ELSE ~read.ok
    /\ call.op = "state" =>
          LET Packed(e) == packData(-1 :> e.cash @@ -2 :> encodeInt64(e.principal) @@ -3 :> e.index, userInstrumentFormat, FALSE)
              data == Packed(call.entries[1]) \o Packed(call.entries[2])
              read == parseCoreUserState(SubSeq(data, 1, Len(data) - call.missing))
              used == {i \in 0..1 : LET e == call.entries[i + 1]
                                    IN  ~(e.cash = 0 /\ e.principal = 0 /\ e.index = 0) /\ (call.missing = 0 \/ i = 0)}
          IN  IF call.missing \in {0, 3 * WordBytes} THEN read.ok /\ read.value = [i \in used |-> call.entries[i + 1]]
              ELSE ~read.ok
    /\ call.op = "instruments" =>
          LET Joined(data, n) == data \o packData(InstrumentOf(n), instrumentFormat, FALSE)
              read == parseCoreInstruments(FoldLeft(Joined, <<>>, call.assets), call.count)
          IN  /\ read.ok <=> call.count <= Len(call.assets)
              /\ read.ok => read.value = [id \in 1..call.count |->
                     [slotId |-> id - 1, assetId |-> call.assets[id], pool |-> InstrumentOf(call.assets[id])[-2]]]

-----------------------------------------------------------------------------
\* What a contract finds in the bytes of an operation: its values under the operation's layout.
ReadsOperation(operation, format, expected) == AbiDecode(operation, format) = expected

\* What a contract finds in an object's bytes under a name of its format.
ValueOf(bytes, format, name) ==
    AbiDecode(bytes, packABIString(format))[CHOOSE i \in DOMAIN format : format[i].name = name]

\* Signed data is the text of the prefix, a header and the operation.
ReadsSigned(data, operation, target, lease, lastValid) ==
    LET bytes == decodeBase64(data)
        body  == Drop(bytes, Len(SignPrefix))
        width == 2 * KeyLength + WordBytes
        header == decodeABIValueWithFormat(SubSeq(body, 1, width), signedHeaderFormat)
    IN  /\ SubSeq(bytes, 1, Len(SignPrefix)) = SignPrefix
        /\ header.ok /\ header.value = [n \in {"target", "lease", "lastValid"} |->
                            CASE n = "target" -> target [] n = "lease" -> lease [] n = "lastValid" -> lastValid]
        /\ Drop(body, width) = operation

BasketsReadBack(r) ==
    LET id == userAddressToAccountId(r.target)
        liquidation == createLiquidation(id, r.cash, r.pool)
        move == createAccountMove(id, r.cash, r.pool)
        head == <<getPublicKey(r.target), r.cash>>
        read == AbiDecode(liquidation.value, BasketsFormat)
    IN  /\ liquidation.ok <=> ~SomeNegative(r.cash)
        /\ liquidation.ok => /\ <<read[1], read[2], read[3]>> = <<OnChainRequestOp.Liquidate>> \o head
                             /\ [i \in DOMAIN read[4] |-> <<read[4][i][1], convertUint64toInt64(read[4][i][2])>>] = r.pool
        /\ move.ok <=> ~SomeNegative(r.cash) /\ ~SomeNegative(r.pool)
        /\ move.ok => ReadsOperation(move.value, BasketsFormat, <<OnChainRequestOp.AccountMove>> \o head \o <<r.pool>>)

OrderReadsBack(bytes, data, r) ==
    LET Value(name) == ValueOf(bytes, orderDataFormat, name)
    IN  /\ \A name \in {"account", "nonce", "expiresOn", "sellSlotId", "sellAmount", "buySlotId", "buyAmount"} : Value(name) = r[name]
        /\ <<Value("operation"), Value("maxBorrow"), Value("maxRepay")>>
               = <<OnChainRequestOp.Settle, r.maxSellAmountFromPool, r.maxBuyAmountToPool>>
        /\ ReadsSigned(data.dataToSign, bytes, r.account, Zeros(KeyLength), 0)
        /\ decodeBase64(data.id) = sha256Hash(bytes)

PayloadReadsBack(bytes, r) ==
    LET Value(name) == ValueOf(bytes, signedMessageFormat, name)
    IN  /\ Value("header") = <<r.target, r.lease, r.lastValid>>
        /\ ReadsSigned(Value("encodedSignedData"), Value("operation"), r.target, r.lease, r.lastValid)
        /\ Value("operation") = r.operation /\ Value("signature") = r.signature
        /\ getAddressByPublicKey(r.signer.format, Value("signer")) = r.signer
        /\ Value("signMethod") = 1 <=> r.signer.format = C3_ACCOUNT_TYPE_EVM

PostedReadsBack(posted, read, order, market) ==
    LET ticket == posted.value.ticket
    IN  posted.ok =>
            /\ order.type = "limit" => /\ read.price # <<>>
                                       /\ {ticket.sellAmount, ticket.buyAmount} = {read.size.raw, baseToQuote(read.price[1], read.size.raw)}
            /\ order.type = "market" => read.price = <<>> /\ ticket.sellAmount = read.size.raw /\ ticket.buyAmount = 0
            /\ IF order.side = "buy" THEN ticket.sellSlotId = order.slots.quote /\ ticket.buySlotId = order.slots.base
               ELSE ticket.sellSlotId = order.slots.base /\ ticket.buySlotId = order.slots.quote
            /\ order.side = "buy" => toDecimal(ticket.maxSellAmountFromPool, market.quote) = order.maxBorrow
            /\ posted.value.size = order.amount

\* What the contracts read in the bytes is what was asked for: every field of an
\* operation, of an order and of a signed payload, with the signs of amounts and
\* under the names of the formats although objects are packed in their own key
\* order; the header and the operation in the signed text; and the same amounts
\* from the ticket as from the texts posted with it.  Two cancel requests that sign
\* the same name the same orders and the same time but for its last digit, which
\* the signature does not cover (operation.ts, signer.ts, order.ts, encoding.ts
\* packABIValue, account.ts createOrderData).
OperationsReadBack ==
    /\ call.op = "withdraw" =>
          LET r == call.request
          IN  ReadsOperation(createWithdraw(r.slot, r.amount, r.receiver, r.maxBorrow, r.maxFees), WithdrawFormat,
                  <<1, r.slot, r.amount, <<r.receiver.chain, getPublicKey(r.receiver.address)>>, r.maxBorrow, r.maxFees>>)
    /\ call.op = "poolMove" =>
          LET read == AbiDecode(createPoolMove(call.request.slot, call.request.amount), PoolMoveFormat)
          IN  <<read[1], read[2], convertUint64toInt64(read[3])>> = <<2, call.request.slot, call.request.amount>>
    /\ call.op = "delegation" =>
          LET r == call.request
          IN  ReadsSigned(buildDelegationOperation(r.owner, r.delegate, r.expiration, r.nonce),
                  AbiEncode(<<3, getPublicKey(r.delegate), r.nonce, r.expiration>>, DelegationFormat),
                  getPublicKey(r.owner), Zeros(KeyLength), 0)
    /\ call.op = "baskets" => BasketsReadBack(call.request)
    /\ call.op = "order" =>
          OrderReadsBack(encodeOrderData(call.request), encodeOrderWithHeader(call.request), call.request)
    /\ call.op = "payload" =>
          LET r == call.request
          IN  PayloadReadsBack(encodeSignedPayload(r.operation, r.signature, r.signer, r.target, r.lease, r.lastValid), r)
    /\ call.op = "cancel" =>
          LET first == call.request[1]
              second == call.request[2]
          IN  encodeCancelRequest(first.orders, first.until) = encodeCancelRequest(second.orders, second.until)
                  <=> first.orders = second.orders /\ first.until \div 10 = second.until \div 10
    /\ call.op = "newOrder" =>
          LET posted == createOrderData(call.order, call.market)
          IN  PostedReadsBack(posted, convertNewOrderData(posted.value, call.market), call.order, call.market)

-----------------------------------------------------------------------------
DepositArrives(network, bridges, d) ==
    LET sent == prepareWormholeDeposit(network, bridges, d)
        out  == sent.value.call
        vaa  == VaaOf(out, d.tokenDecimals)
        read(appId) == validateVaa(vaa, InstrumentsOf(network, d.instrument.decimals), appId)
        kept == bigintMin(BridgeDecimals, IF out.native THEN EvmNativeDecimals ELSE d.tokenDecimals)
        lamports == out.native /\ d.origin = "solana" /\ d.instrument.decimals # BridgeDecimals
    IN  /\ sent.ok /\ out.contract.bridge = "tokenBridge" =>
              /\ read(d.appId).ok /\ ~read(d.appId + 1).ok
              /\ read(d.appId).value.instrument.asaId = d.instrument.asaId
              /\ read(d.appId).value.repayAmount = d.repayAmount
              /\ read(d.appId).value.from = getPublicKey(d.sender)
              /\ (vaa.Amount * tenPower(d.instrument.decimals) = d.amount * tenPower(kept)) <=> ~lamports
        /\ sent.ok => /\ SubSeq(out.payload, 3, KeyLength + 2) = decodeAccountId(d.account)
                      /\ ~out.native /\ isEVMChain(d.origin)
                             => Last(<<[spender |-> out.contract, amount |-> d.allowance]>> \o sent.value.approved)
                                    \in [spender : {out.contract}, amount : out.amount..WordSize]
        /\ sent.ok /\ out.contract.bridge = "cctp" /\ network # "DEVNET" => isCctpWithdraw(network, d.instrument, d.origin)

CrossingAgrees(network, bridges, instrument, destination) ==
    LET wayBack == WithdrawFollowUp(network, bridges, instrument, destination)
        cctp    == isCctpWithdraw(network, instrument, destination)
        to      == [chain |-> destination, address |-> <<4, 7>>]
        sent    == IF cctp THEN createWormholeTxForAlgorandNetworkWithdraw_CCTP(to, Hub, 300) ELSE createWormholeTxForAlgorandNetworkWithdraw(to)
        hubFirst == instrument.chains # <<>> /\ instrument.chains[1] = On("avax", getUSDCTokenAddress(network, "avax").value)
        late    == \/ hubFirst /\ destination # "avax" /\ ~isValidCCTPChain(network, destination)
                   \/ instrument.chains = <<>>
                   \/ ~hubFirst /\ (destination \notin bridges \/ ChainsOf(instrument, destination) = <<>>)
        listed  == {o \in {instrument.chains[i] : i \in DOMAIN instrument.chains} : o.chain = destination}
        registry == [assets |-> {[asaId |-> instrument.asaId] @@ o : o \in listed}, copies |-> {}]
    IN  /\ WithdrawChecks(network, instrument, destination) =>
              /\ wayBack.ok <=> ~late
              /\ wayBack.ok /\ network # "DEVNET" /\ hubFirst => wayBack.value.isCCTP = cctp
              /\ cctp => /\ sent.to = [chain |-> "avax", address |-> Hub]
                         /\ SubSeq(sent.payload, 3, KeyLength + 4) = to.address \o EncodeUint(ChainNumber(destination), 2)
              /\ ~cctp => sent.to = to
        /\ \A o \in listed : LET asa == getMirrorAsset(registry, o, "algorand")
                             IN  getMirrorAsset(registry, On("algorand", asa.value), destination).value = o.token

\* The message of a deposit passes the check of the application it is meant for and
\* of no other, and names there the instrument, the account, the sender, what to
\* repay and the worth that was deposited, except SOL of an instrument that does not
\* have the bridge's decimals.  Circle's route is taken to a chain only when it is
\* also taken back, and a withdrawal that passed its checks and was submitted fails
\* to find its route exactly for Circle's dollars on other chains than Circle's, for
\* Algos on DEVNET, whose id stands for those dollars there, and where the hub's
\* entry is not the instrument's first or the chain has no bridge (deposit.ts,
\* dictionary.ts, service.ts, utils.ts, account.ts withdraw).
DepositsArriveAsSent ==
    /\ call.op = "deposit" => DepositArrives(call.network, call.bridges, call.deposit)
    /\ call.op = "crossing" => CrossingAgrees(call.network, call.bridges, call.instrument, call.destination)

-----------------------------------------------------------------------------
\* What the rounding of one unit of either asset can move a margin by.
Tolerance == 30

\* Without debts, trading as much as availableForTrade says at the oracle's prices
\* is covered (TradeIsCovered), and trading as much as availableForTradePriceAdjusted
\* says at the order's own price leaves the account with no margin missing but for
\* rounding; at the oracle's price the second is not too cautious either: a little
\* more would leave it short.  Trading never starts from a missing margin into a
\* riskier asset (risk.ts 79-118, 147-249).
AvailableIsCovered ==
    /\ TradeIsCovered
    /\ call.op = "trade" =>
        LET sell == call.instruments[1]
            buy == call.instruments[2]
            healthy == ExcessMargin(MarginNow) >= 0
            limit == IF call.isBuy THEN <<SHIFT_MULTIPLIER, call.limit>> ELSE <<call.limit, SHIFT_MULTIPLIER>>
            adjusted == availableForTradePriceAdjusted(sell, buy, MarginNow, call.limit, call.isBuy, call.cash, call.pool)
            oracle == call.prices[2] * limit[1] = call.prices[1] * limit[2]
            After(sold) == MarginAfter(sold, Bought(sold, limit[1], limit[2]))
        IN  /\ healthy /\ call.pool[2] >= 0 =>
                  /\ adjusted # AMOUNT_INFINITY => /\ After(adjusted) >= -Tolerance
                                                   /\ oracle => After(adjusted + Tolerance) < 0
                  /\ adjusted = AMOUNT_INFINITY => \A sold \in {100, 1000} : After(sold) >= -Tolerance
            /\ ~healthy /\ buy.initial.haircut > sell.initial.haircut => adjusted = 0
=============================================================================
