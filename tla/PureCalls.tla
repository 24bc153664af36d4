----------------------------- MODULE PureCalls -----------------------------
(***************************************************************************)
(* Calls of the functions that round or write down a price or an amount,   *)
(* name an account, reckon the margin of a position in two assets or       *)
(* measure tasks, one at a time, with any inputs: the state is the call    *)
(* being made.  They stand apart from CommonTools because they need no     *)
(* recursive operator, so that what is checked of small inputs there can   *)
(* be proved of all.                                                       *)
(***************************************************************************)
EXTENDS AccountIds, Risk, Stopwatch

CONSTANTS
    Prices,      \* raw prices; there is none of zero
    Ticks,       \* what prices, or amounts, are rounded to multiples of
    Quantities,  \* raw amounts
    Markets,     \* the decimals of a base and a quote
    Addresses,
    Cashes,      \* what of each asset an account has, and has in the pool
    Pools,
    UsdPrices,
    Limits,      \* raw prices of the order that is considered
    Listings,    \* the two instruments
    WatchLists,  \* the names of stopwatches
    TaskNames,
    CallLists    \* the calls of those stopwatches

ASSUME PureCallsAssumption ==
    /\ Prices \subseteq Nat \ {0} /\ Ticks \subseteq Nat \ {0} /\ Quantities \subseteq Nat
    /\ Markets \subseteq [base : 0..FIXED_POINT_DECIMALS, quote : 0..FIXED_POINT_DECIMALS]
    /\ \A address \in Addresses :
          /\ address = [format |-> address.format, bytes |-> address.bytes] /\ address.format \in C3_ACCOUNT_TYPES
          /\ address.bytes \in Seq(Nat)
          /\ Len(address.bytes) = IF address.format = C3_ACCOUNT_TYPE_EVM THEN EvmLength ELSE KeyLength
    /\ Cashes \subseteq [1..2 -> Nat] /\ Pools \subseteq [1..2 -> Int] /\ UsdPrices \subseteq [1..2 -> Nat \ {0}]
    /\ \A listing \in Listings, a \in 1..2 :
          /\ listing[a].asset = a /\ listing[a].optUtilization \in Nat
          /\ \A factors \in {listing[a].initial, listing[a].maintenance} :
                factors.haircut \in 0..RATIO_ONE /\ factors.margin \in Nat
    /\ \A names \in WatchLists, calls \in CallLists :
          /\ names \in Seq({names[w] : w \in DOMAIN names}) /\ calls \in Seq({calls[i] : i \in DOMAIN calls})
          /\ \A i \in DOMAIN calls : /\ calls[i].do \notin {"on", "off"} => calls[i].w \in DOMAIN names
                                     /\ calls[i].do \in {"start", "next"} => calls[i].task \in TaskNames

VARIABLE call

Idle == [op |-> "idle"]

NameAccount == \E a \in Addresses : call' = [op |-> "account", address |-> a]

RoundPrice == \E price \in Prices, tick \in Ticks, market \in Markets, amount \in Quantities :
                  call' = [op |-> "price", price |-> price, tick |-> tick, market |-> market, amount |-> amount]

\* Asset 1 is sold, asset 2 bought.
AskAvailable ==
    \E cash \in Cashes, pool \in Pools, prices \in UsdPrices, limit \in Limits, isBuy \in BOOLEAN, instruments \in Listings :
        call' = [op |-> "trade", cash |-> cash, pool |-> pool, prices |-> prices, limit |-> limit, isBuy |-> isBuy,
                 instruments |-> instruments]

Measure == \E names \in WatchLists, calls \in CallLists : call' = [op |-> "stopwatch", names |-> names, calls |-> calls]

Return == call # Idle /\ call' = Idle

PureNext == \/ call = Idle /\ (NameAccount \/ RoundPrice \/ AskAvailable \/ Measure)
            \/ Return

PureSpec == call = Idle /\ [][PureNext]_call

-----------------------------------------------------------------------------
\* An account id names the address it was made from, except an Algorand key that
\* begins like a padded EVM address (the zero address does): that one comes back
\* as an EVM address (encoding.ts userAddressToAccountId, accountIdToUserAddress).
AccountIdNamesItsAddress ==
    call.op = "account" =>
        LET id == userAddressToAccountId(call.address)
            clash == call.address.format = C3_ACCOUNT_TYPE_ALGORAND /\ IsPadded(call.address.bytes)
        IN  /\ decodeAccountIdFull(id).ok
            /\ (accountIdToUserAddress(id) = call.address) <=> ~clash

\* A price, or an amount with its sign, comes back from its decimal text unless it
\* has more digits than the text keeps, and an amount that a signed word takes comes
\* back from the word, except the least one, which comes back as its opposite.
PriceReadsBack(raw, market) == priceFromDecimal(priceToDecimal(raw, market), market) = raw <=> raw <= INFINITY
AmountReadsBack(raw, asaDecimals) ==
    /\ fromDecimal(toDecimal(raw, asaDecimals), asaDecimals) = raw <=> bigintAbs(raw) <= INFINITY
    /\ FitsUint(encodeInt64(raw), WordBytes) =>
          (convertUint64toInt64(DecodeUint(EncodeUint(encodeInt64(raw), WordBytes))) = raw <=> -SignBit < raw /\ raw <= SignBit)

\* Rounding and writing down never work against their caller: a base amount sold for
\* quote and bought back is not more than it was and short of it by less than one
\* quote unit's worth, a rounded price is a nearest tick (of two the even one), the
\* price of a market order is a tick on its own side of the price unless the
\* book's limit holds it, a whole base unit costs a whole number of quote units
\* at a price rounded to the smallest one, fees of two fills are not more than that
\* of both, and what a text or a word can hold is read back from it
\* (marketPrices.ts, instrumentAmount.ts, percentageAmount.ts, marketFee.ts,
\* fixedPoint.ts, encoding.ts, risk.ts calculateMarketOrderSlippage).
RoundingKeepsBounds ==
    call.op = "price" =>
        LET p == call.price
            back == quoteToBase(p, baseToQuote(p, call.amount))
            rounded == round(p, call.tick)
            buy == calculateMarketOrderSlippage(TRUE, p, call.tick, 2 * p)
            sell == calculateMarketOrderSlippage(FALSE, p, call.tick, 1)
        IN  /\ back <= call.amount /\ (call.amount - back) * p < SHIFT_MULTIPLIER + p
            /\ rounded % call.tick = 0
            /\ \A k \in 0..p : LET gain == bigintAbs(rounded - p) - bigintAbs(k * call.tick - p)
                                IN  gain < 0 \/ (gain = 0 /\ (k * call.tick = rounded \/ (rounded \div call.tick) % 2 = 0))
            /\ buy <= 2 * p /\ 2 * buy >= 3 * p - 1 /\ (buy < 2 * p => buy % call.tick = 0)
            /\ sell >= 1 /\ (sell > 1 => sell % call.tick = 0 /\ 2 * sell <= p + 1)
            /\ baseToQuoteIsInteger(round(p, minPrice(call.market)), tenPower(call.market.base))
            /\ applyPercentage(call.tick, divideBigIntByPercentage(call.amount, call.tick)) <= call.amount
            /\ applyFee(p, call.amount) + applyFee(p, call.tick) <= applyFee(p, call.amount + call.tick)
            /\ \A raw \in {p, call.amount} : PriceReadsBack(raw, call.market)
            /\ \A raw \in {call.amount, -call.amount} : AmountReadsBack(raw, call.market.base)

\* A margin only counts what was moved: more cash never lowers it, redeeming a
\* loan to the pool never does, and borrowing leaves it as it was; and truncation
\* moves it by less than a rescaled unit per asset (risk.ts positionHealth).
HealthFollowsPosition ==
    call.op = "trade" =>
        LET Margin(cash, pool) == ExcessMargin(positionHealth(cash, pool, call.instruments, call.prices, FALSE))
            now == Margin(call.cash, call.pool)
            Exact(a) == LET sum == call.cash[a] + call.pool[a]
                            f == call.instruments[a].maintenance
                            lend == bigintMax(0, call.pool[a])
                        IN  call.prices[a] * (IF sum < 0 THEN sum * excessToHundred(f.margin) * RATIO_ONE
                                ELSE complementToHundred(f.haircut) * (sum * RATIO_ONE - lend * call.instruments[a].optUtilization))
        IN  /\ \A k \in {1, 7} : /\ now <= Margin(<<call.cash[1] + k, call.cash[2]>>, call.pool)
                                 /\ call.pool[1] >= k => now <= Margin(<<call.cash[1] + k, call.cash[2]>>, <<call.pool[1] - k, call.pool[2]>>)
                                 /\ call.pool[2] <= 0 => now = Margin(<<call.cash[1], call.cash[2] + k>>, <<call.pool[1], call.pool[2] - k>>)
            /\ bigintAbs(now * RATIO_ONE * RATIO_ONE * PRICE_RESCALE_FACTOR - (Exact(1) + Exact(2)))
                  < 2 * RATIO_ONE * RATIO_ONE * PRICE_RESCALE_FACTOR

\* The margin once `sold` of asset 1 left, from the cash and then from the pool,
\* and `bought` of asset 2 came in.
MarginNow == marginWithoutOrders(call.cash, call.pool, call.instruments, call.prices, TRUE)
MarginAfter(sold, bought) ==
    LET fromCash == bigintMin(sold, call.cash[1])
    IN  ExcessMargin(marginWithoutOrders(<<call.cash[1] - fromCash, call.cash[2] + bought>>,
                                         <<call.pool[1] - (sold - fromCash), call.pool[2]>>,
                                         call.instruments, call.prices, TRUE))
Bought(sold, numerator, denominator) == (sold * numerator) \div denominator

\* Without debts, and with a pool that does not lend more than it has, trading as
\* much as availableForTrade says at the oracle's prices leaves no more missing than
\* the price of one unit of what is bought and two rescaled units
\* (risk.ts availableForTrade).
TradeIsCovered ==
    call.op = "trade" =>
        LET sell == call.instruments[1]
            buy == call.instruments[2]
            sold == availableForTrade(sell, buy, MarginNow, call.cash, call.pool)
        IN  (\A a \in 1..2 : call.pool[a] >= 0 /\ call.instruments[a].optUtilization <= RATIO_ONE)
                /\ buy.initial.haircut + sell.initial.margin > 0
            => MarginAfter(sold, Bought(sold, call.prices[1], call.prices[2])) + call.prices[2] + 2 * PRICE_RESCALE_FACTOR > 0

-----------------------------------------------------------------------------
SumOf(numbers) ==
    LET sum[k \in 0..Len(numbers)] == IF k = 0 THEN 0 ELSE sum[k - 1] + numbers[k]
    IN  sum[Len(numbers)]

SpansOf(tasks, name) == SumOf([i \in 1..Len(tasks) |-> IF tasks[i].name = name THEN tasks[i].span ELSE 0])
AllSpans(tasks)      == SumOf([i \in 1..Len(tasks) |-> tasks[i].span])

\* What the completed tasks of a name took, on all watches of a name.
Completed(sw, key) ==
    SumOf([w \in DOMAIN sw.watches |->
              IF sw.watches[w].name = key[1] THEN SpansOf(sw.watches[w].completedTasks, key[2]) ELSE 0])

\* The summary never loses time: until a watch is cleaned it is what the completed
\* tasks of all watches of a name add up to, and it outlives a clean.  Tasks that
\* are not nested are measured from their own start to their own stop; nested ones
\* are stopped oldest first, not as the stack the class speaks of, but once a watch
\* has stopped them all it has measured as much as a stack would have
\* (c3performance.ts Stopwatch, Stack).
SpansAddUp ==
    call.op = "stopwatch" =>
        LET queue == Measured(call.names, call.calls, Oldest)
            stack == Measured(call.names, call.calls, Newest)
            last  == Len(call.calls)
            Used(do) == \E i \in 1..last : call.calls[i].do = do
            nested == \E n \in 1..last : \E w \in DOMAIN call.names : Len(queue[n].watches[w].currentTasks) > 1
        IN  /\ \A w \in DOMAIN call.names, task \in TaskNames :
                  LET key == <<call.names[w], task>>
                  IN  /\ sumSpan(queue[last].summary, key) >= Completed(queue[last], key)
                      /\ ~Used("clean") => sumSpan(queue[last].summary, key) = Completed(queue[last], key)
            /\ ~nested => queue[last] = stack[last]
            /\ ~Used("dumpIf") => \A w \in DOMAIN call.names :
                  LET watch == queue[last].watches[w]
                  IN  watch.currentTasks = <<>> => AllSpans(watch.completedTasks) = AllSpans(stack[last].watches[w].completedTasks)
=============================================================================
