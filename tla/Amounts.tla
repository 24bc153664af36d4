------------------------------ MODULE Amounts ------------------------------
(***************************************************************************)
(* The arithmetic of amounts, prices, fees and percentages, after          *)
(* common/src/tools: fixedPoint.ts, instrumentAmount.ts, marketPrices.ts,  *)
(* marketFee.ts, percentageAmount.ts, usdPrice.ts and math.ts.  Amounts    *)
(* and prices are their raw integers; a market is the decimals of its base *)
(* and its quote.  JavaScript divides BigInts towards zero.                *)
(***************************************************************************)
EXTENDS Numerals, SequencesExt, TLC

CONSTANTS
    FIXED_POINT_DIGITS,    \* 40
    FIXED_POINT_DECIMALS,  \* 20
    RATIO_ONE,             \* 1000
    AMOUNT_INFINITY        \* 0xFFFFFFFFFFFFFFFF

ASSUME AmountsAssumption == /\ FIXED_POINT_DECIMALS \in Nat \ {0} /\ FIXED_POINT_DIGITS = 2 * FIXED_POINT_DECIMALS
                            /\ RATIO_ONE \in Nat \ {0} /\ RATIO_ONE % 2 = 0   \* half of it is exact

bigintAbs(a)    == IF a >= 0 THEN a ELSE -a
bigintMin(a, b) == IF a < b THEN a ELSE b
bigintMax(a, b) == IF a > b THEN a ELSE b

Quot(a, b) == IF (a < 0) = (b < 0) THEN bigintAbs(a) \div bigintAbs(b) ELSE -(bigintAbs(a) \div bigintAbs(b))
Rem(a, b)  == a - b * Quot(a, b)

tenPower(exp)    == Power(10)[exp]

SHIFT_MULTIPLIER == tenPower(FIXED_POINT_DECIMALS)
INFINITY         == tenPower(FIXED_POINT_DIGITS) - 1

-----------------------------------------------------------------------------
\* fixedPoint.ts.  A decimal text is a sign, an integer part and a sequence of digits.
Digits(n, width) == DigitsOf(10, n, width)
ParsedDigits(digits) == NumberOf(10, digits)

removeTrailingZeros(digits) ==
    SubSeq(digits, 1, CHOOSE n \in 0..Len(digits) : /\ n = 0 \/ digits[n] # 0
                                                    /\ \A i \in n + 1..Len(digits) : digits[i] = 0)

\* Only the last FIXED_POINT_DIGITS digits of the number are kept.
fixedPointToDecimal(price, decimalPoint) ==
    LET digits == Digits(bigintAbs(price), FIXED_POINT_DIGITS)
    IN  [negative |-> price < 0,
         integer  |-> ParsedDigits(SubSeq(digits, 1, decimalPoint)),
         decimals |-> removeTrailingZeros(SubSeq(digits, decimalPoint + 1, FIXED_POINT_DIGITS))]

\* decimalToFixedPoint throws for more decimals than the number has.
decimalToFixedPoint(decimal, decimalPoint) ==
    LET n == Len(decimal.decimals)
        magnitude == (decimal.integer * tenPower(n) + ParsedDigits(decimal.decimals)) * tenPower(decimalPoint - n)
    IN  IF decimal.negative THEN -magnitude ELSE magnitude

-----------------------------------------------------------------------------
\* instrumentAmount.ts
toDecimal(raw, asaDecimals)       == fixedPointToDecimal(raw, FIXED_POINT_DIGITS - asaDecimals)
fromDecimal(decimal, asaDecimals) == decimalToFixedPoint(decimal, asaDecimals)
nextMultiple(raw, multiplier)     == Quot(raw + multiplier - 1, multiplier) * multiplier
prevMultiple(raw, multiplier)     == Quot(raw, multiplier) * multiplier
getAmountOrZero(amounts, asset)   == IF asset \in DOMAIN amounts THEN amounts[asset] ELSE 0

-----------------------------------------------------------------------------
\* marketPrices.ts.  fromRaw refuses a negative price.
PriceDecimals(market)         == FIXED_POINT_DECIMALS - market.base + market.quote
priceToDecimal(raw, market)   == fixedPointToDecimal(raw, FIXED_POINT_DECIMALS + market.base - market.quote)
priceFromDecimal(decimal, market) == decimalToFixedPoint(decimal, PriceDecimals(market))
ratio(base, quote)            == IF base = 0 THEN INFINITY ELSE Quot(quote * SHIFT_MULTIPLIER, base)
quoteToBase(price, quote)     == Quot(quote * SHIFT_MULTIPLIER, price)
baseToQuote(price, base)      == Quot(price * base, SHIFT_MULTIPLIER)
baseToQuoteIsInteger(price, base) == Rem(price * base, SHIFT_MULTIPLIER) = 0
minPrice(market)              == tenPower(FIXED_POINT_DECIMALS - market.base)

\* mutant: of two multiples the odd one.
RoundTiesToOdd(price, roundingPrice) ==
    LET n == Quot(price, roundingPrice)
        below == Rem(price, roundingPrice)
        above == roundingPrice - below
    IN  IF below = 0 THEN price
        ELSE IF below > above \/ (below = above /\ n % 2 = 0) THEN (n + 1) * roundingPrice
        ELSE n * roundingPrice

\* The nearest multiple of roundingPrice, and of two the even one.
round(price, roundingPrice) ==
    LET n     == Quot(price, roundingPrice)
        floor == n * roundingPrice
        ceil  == (n + 1) * roundingPrice
        below == bigintAbs(price - floor)
        above == bigintAbs(ceil - price)
    IN  IF Rem(price, roundingPrice) = 0 THEN price
        ELSE IF below > above \/ (below = above /\ n % 2 = 1) THEN ceil
        ELSE floor

-----------------------------------------------------------------------------
\* percentageAmount.ts, marketFee.ts and usdPrice.ts
divideBigIntByPercentage(amount, percentage) == Quot(amount * RATIO_ONE, percentage)
applyPercentage(percentage, raw) == Quot(percentage * raw, RATIO_ONE)
complementToHundred(percentage)  == RATIO_ONE - percentage
excessToHundred(percentage)      == RATIO_ONE + percentage
applyFee(fee, raw)               == Quot(fee * raw, SHIFT_MULTIPLIER)

\* A UsdPrice is mantissa * 10^-places: rounded half away from zero at `digits` decimal places.
toScaledPrice(mantissa, places, digits) ==
    IF places <= digits THEN mantissa * tenPower(digits - places)
    ELSE (mantissa + tenPower(places - digits) \div 2) \div tenPower(places - digits)
=============================================================================
