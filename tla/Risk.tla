------------------------------- MODULE Risk -------------------------------
(***************************************************************************)
(* The margin calculations of common/src/tools/risk.ts.  A position maps   *)
(* assets to cash and to pool balances (a negative pool balance is a       *)
(* debt); an instrument has its asset, its decimals, its optUtilization    *)
(* and its initial and maintenance [haircut, margin], ratios over          *)
(* RATIO_ONE.  All divisions are BigInt ones.                              *)
(***************************************************************************)
EXTENDS Amounts, FiniteSetsExt

CONSTANTS
    PRICE_RESCALE_FACTOR,  \* 10^9
    ONE_PICO_USD           \* 10^12

ASSUME RiskAssumption == PRICE_RESCALE_FACTOR \in Nat \ {0} /\ ONE_PICO_USD \in Nat \ {0}

getRF(instrument, initial) == IF initial THEN instrument.initial ELSE instrument.maintenance

\* mutant: what is lent is held back without its haircut.
LendCutOfValue(price, poolBalance, haircutRemainder, optUtilization) ==
    IF poolBalance > 0 THEN Quot(price * poolBalance * optUtilization, RATIO_ONE * PRICE_RESCALE_FACTOR) ELSE 0

\* What one asset adds to the two sides of the margin.
LendCut(price, poolBalance, haircutRemainder, optUtilization) ==
    IF poolBalance > 0
    THEN Quot(price * poolBalance * haircutRemainder * optUtilization, RATIO_ONE * RATIO_ONE * PRICE_RESCALE_FACTOR)
    ELSE 0
AssetSupport(price, balanceSum, haircutRemainder) ==
    IF balanceSum < 0 THEN 0 ELSE Quot(price * balanceSum * haircutRemainder, RATIO_ONE * PRICE_RESCALE_FACTOR)
AssetRequirement(price, balanceSum, marginAdditional) ==
    IF balanceSum < 0 THEN Quot(price * (-balanceSum) * marginAdditional, RATIO_ONE * PRICE_RESCALE_FACTOR) ELSE 0

\* positionHealth throws for an asset without an instrument or without a price;
\* here every asset has both.
positionHealth(availableCash, poolBalances, instruments, prices, initial) ==
    LET assetsToVisit == DOMAIN availableCash \cup DOMAIN poolBalances
        Sum(a) == getAmountOrZero(availableCash, a) + getAmountOrZero(poolBalances, a)
        Remainder(a) == complementToHundred(getRF(instruments[a], initial).haircut)
        Additional(a) == excessToHundred(getRF(instruments[a], initial).margin)
        Support(a) == AssetSupport(prices[a], Sum(a), Remainder(a))
                        - LendCut(prices[a], getAmountOrZero(poolBalances, a), Remainder(a), instruments[a].optUtilization)
        Requirement(a) == AssetRequirement(prices[a], Sum(a), Additional(a))
    IN  [support |-> SumFunction([a \in assetsToVisit |-> Support(a)]),
         requirement |-> SumFunction([a \in assetsToVisit |-> Requirement(a)]),
         unoffsetLiabilities |-> [a \in {b \in assetsToVisit : Sum(b) < 0} |-> -Sum(a)],
         isInitialMargin |-> initial,
         prices |-> prices]

\* Scaled back to pico USD.
marginWithoutOrders(availableCash, poolBalances, instruments, prices, initial) ==
    LET margin == positionHealth(availableCash, poolBalances, instruments, prices, initial)
    IN  [margin EXCEPT !.support = @ * PRICE_RESCALE_FACTOR, !.requirement = @ * PRICE_RESCALE_FACTOR]

ExcessMargin(margin) == margin.support - margin.requirement

\* mutant: what is lent counts as cash too.
MarginDetailsCountTwice(asset, margin, availableCash, poolBalances) ==
    LET poolBalance == getAmountOrZero(poolBalances, asset)
    IN  [availableMargin   |-> ExcessMargin(margin),
         availableCash     |-> getAmountOrZero(availableCash, asset) + bigintMax(0, poolBalance),
         liability         |-> bigintMax(0, -poolBalance),
         lend              |-> bigintMax(0, poolBalance),
         unoffsetLiability |-> getAmountOrZero(margin.unoffsetLiabilities, asset)]

getInstrumentMarginDetails(asset, margin, availableCash, poolBalances) ==
    LET poolBalance == getAmountOrZero(poolBalances, asset)
    IN  [availableMargin   |-> ExcessMargin(margin),
         availableCash     |-> getAmountOrZero(availableCash, asset),
         liability         |-> IF poolBalance >= 0 THEN 0 ELSE -poolBalance,
         lend              |-> IF poolBalance >= 0 THEN poolBalance ELSE 0,
         unoffsetLiability |-> getAmountOrZero(margin.unoffsetLiabilities, asset)]

offsetAdjustment(riskFactors, price, amount) ==
    Quot(price * amount * (riskFactors.margin + riskFactors.haircut), RATIO_ONE)

-----------------------------------------------------------------------------
\* availableForTrade.  Its early return for a smaller sell haircut compares two
\* PercentageAmount objects with <, which JavaScript never finds smaller: it is
\* dead code, and the rest is what every call runs.
availableForTrade(sell, buy, margin, availableCash, poolBalances) ==
    LET s == sell.initial
        b == buy.initial
        sellPrice == margin.prices[sell.asset]
        buyPrice  == margin.prices[buy.asset]
        details   == getInstrumentMarginDetails(sell.asset, margin, availableCash, poolBalances)
        liability == getAmountOrZero(margin.unoffsetLiabilities, buy.asset)
        weight    == b.haircut + s.margin
        withLend  == details.availableCash + details.lend
        lendCutFactor == Quot(sellPrice * complementToHundred(s.haircut) * sell.optUtilization, RATIO_ONE)
        lendCorrected == details.availableMargin + Quot(lendCutFactor * details.lend, RATIO_ONE)
        firstShortfall == Quot(Quot(lendCorrected, sellPrice) * RATIO_ONE + (s.haircut - b.haircut) * withLend, weight)
        offsetAmount == bigintMin(Quot((firstShortfall + withLend) * sellPrice, buyPrice), liability)
        shortfall == firstShortfall + Quot(offsetAdjustment(b, buyPrice, offsetAmount) * RATIO_ONE, buyPrice * weight)
    IN  bigintMax(0, shortfall + withLend)

\* A market order is given half its price of slippage, within the book's limits.
calculateMarketOrderSlippage(isBuy, orderPrice, priceTick, limit) ==
    LET slippage == applyPercentage(RATIO_ONE \div 2, orderPrice)
    IN  IF isBuy THEN bigintMin(nextMultiple(orderPrice + slippage, priceTick), limit)
                 ELSE bigintMax(prevMultiple(orderPrice - slippage, priceTick), limit)

-----------------------------------------------------------------------------
\* availableForTradePriceAdjusted: with a negative margin, and then within what
\* the account holds, and then with what it may borrow.
WhileUnderwater(s, b, details) == IF b.haircut <= s.haircut THEN details.availableCash ELSE 0

\* The price the borrowing part reckons with, between the order's and the one
\* at which margins and haircuts cancel (200 is a fifth of RATIO_ONE).
LimitPrice(isBuy, s, b, sellUsd, buyUsd, num, den) ==
    LET slack == RATIO_ONE \div 5
        scale == RATIO_ONE * RATIO_ONE
    IN  IF isBuy
        THEN LET a == Quot(complementToHundred(b.haircut) * RATIO_ONE, excessToHundred(s.margin))
             IN  bigintMax(Quot(num * ONE_PICO_USD, den),
                           Quot((a * RATIO_ONE + (RATIO_ONE - a) * slack) * buyUsd * ONE_PICO_USD, sellUsd * scale))
        ELSE LET a == Quot(excessToHundred(s.margin) * RATIO_ONE, complementToHundred(b.haircut))
             IN  bigintMin(Quot(den * ONE_PICO_USD, num),
                           Quot((a * RATIO_ONE - (a - RATIO_ONE) * slack) * sellUsd * ONE_PICO_USD, buyUsd * scale))

availableForTradePriceAdjusted(sell, buy, margin, orderPrice, isBuy, availableCash, poolBalances) ==
    LET s == sell.initial
        b == buy.initial
        sellUsd == margin.prices[sell.asset] * tenPower(sell.decimals)
        buyUsd  == margin.prices[buy.asset] * tenPower(buy.decimals)
        details == getInstrumentMarginDetails(sell.asset, margin, availableCash, poolBalances)
        fraction == tenPower(FIXED_POINT_DECIMALS - (IF isBuy THEN buy ELSE sell).decimals + (IF isBuy THEN sell ELSE buy).decimals)
        num == IF isBuy THEN orderPrice ELSE fraction
        den == IF isBuy THEN fraction ELSE orderPrice
        implicitMktPrice == Quot(buyUsd * ONE_PICO_USD, sellUsd)
        remainder == complementToHundred(b.haircut)
        adjustedLend == Quot(complementToHundred(s.haircut) * sell.optUtilization * details.lend, RATIO_ONE * RATIO_ONE)
        adjustedMargin == Quot(ExcessMargin(margin) * tenPower(sell.decimals), sellUsd) + adjustedLend
        net == bigintMax(0, details.availableCash - details.liability) + details.lend
        priceFactorX == complementToHundred(s.haircut) * ONE_PICO_USD - remainder * Quot(implicitMktPrice * den, num)
        x == Quot(adjustedMargin * RATIO_ONE * ONE_PICO_USD, priceFactorX)
        limit == LimitPrice(isBuy, s, b, sellUsd, buyUsd, num, den)
        price == IF isBuy THEN Quot(implicitMktPrice * ONE_PICO_USD, limit) ELSE Quot(implicitMktPrice * limit, ONE_PICO_USD)
        priceFactorY == excessToHundred(s.margin) * ONE_PICO_USD - remainder * price
        y == Quot(adjustedMargin * RATIO_ONE * ONE_PICO_USD - complementToHundred(s.haircut) * net * ONE_PICO_USD
                      + remainder * net * price, priceFactorY)
        liability == toScaledPrice(getAmountOrZero(margin.unoffsetLiabilities, buy.asset), buy.decimals, sell.decimals)
        offsetBuy == bigintMin(Quot((y + net) * den, num), liability)
        deltaY == Quot(Quot(offsetBuy * (b.haircut + b.margin) * buyUsd * ONE_PICO_USD, sellUsd), priceFactorY)
    IN  IF ExcessMargin(margin) < 0 THEN WhileUnderwater(s, b, details)
        ELSE IF priceFactorX > 0 /\ 0 <= x /\ x <= net THEN x
        ELSE IF priceFactorY <= 1 THEN AMOUNT_INFINITY
        ELSE bigintMax(0, net + y + deltaY)
=============================================================================
