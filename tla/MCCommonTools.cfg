SPECIFICATION Spec
CONSTANTS
    ByteBase = 256
    WordBytes = 2
    CountLimit = 4
    KeyLength = 2
    EvmLength = 1
    SignatureLength = 3
    DigestLength = 2
    DictionaryPairs = 2
    FIXED_POINT_DIGITS = 4
    FIXED_POINT_DECIMALS = 2
    RATIO_ONE = 10
    AMOUNT_INFINITY = 65535
    PRICE_RESCALE_FACTOR = 2
    ONE_PICO_USD = 100
    BridgeDecimals = 2
    EvmNativeDecimals = 4
    Prices <- PricesTried
    Ticks <- TicksTried
    Quantities = {0, 1, 2, 7, 40, 9999, 10000, 32767, 32768}
    Markets <- MarketsTried
    Addresses <- AddressesTried
    Cashes <- CashesTried
    Pools <- PoolsTried
    UsdPrices <- UsdPricesTried
    Limits = {50, 100, 150}
    Listings <- ListingsTried
    WatchLists <- WatchListsTried
    TaskNames = {"x", "y"}
    CallLists <- CallListsTried
INVARIANTS
    PackedDataReadsBack
    ContractStateReadsBack
    AccountIdNamesItsAddress
    RoundingKeepsBounds
    AvailableIsCovered
    HealthFollowsPosition
    OperationsReadBack
    SpansAddUp
    DepositsArriveAsSent
