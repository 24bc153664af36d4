# A verification of the C3 TypeScript SDK in TLA+

The repository is a client SDK: `packages/common` (amounts, encodings, caches,
Wormhole, Pricecaster) and `packages/sdk` (`C3SDK`, `Account`, `WebSocketClient`).
It runs on one event loop. Its concurrency is that of asynchronous functions:
every `await` is a point at which other calls run, the network answers late, in
another order, with an error or not at all, and the wall clock may jump. The
modules here model that: **one action per stretch of code between two awaits**,
one control state (`pc`) per suspended call, and external actions for the
guardians, the chains, the server and the clock.

Paths below are relative to `packages/`.

## 1. Inventory

| Component | State | Operations | Hard behaviour | What makes it correct | Module |
|---|---|---|---|---|---|
| Deposit session (`sdk/src/internal/helpers/deposit.ts`) | `vaaSequence`, `vaaSignature`, `wasRedeemed` of one closure scope | `getVAASequence`, `waitForWormholeVAA`, `isVaaEnqueued`, `isTransferCompleted`, `redeemAndSubmitWormholeVAA` | overlapping calls test, await and assign the same variables; lost answers; CCTP's empty VAA | what it reports is true and final; only signed VAAs are submitted; calls end | `WormholeDeposit`, `TransferPromise` |
| Withdraw session (`sdk/src/entities/account.ts` 391-610) | the same three variables | `getVAASequence`, `waitForWormholeVAA`, `isTransferCompleted`, `redeemWormholeVAA` | the same, with lost receipts, other relayers, token account creation | as above | `WormholeWithdraw`, `TransferPromise` |
| Solana redeem (`common/src/wormhole/service.ts`, `internal/wrappedSolanaTokenBridge.ts`) | `SolanaRedeemProgress` | `createWormholeTxForSolanaRedeem` | a batch of transactions, some landed, some failed, some never signed, some counted though the chain refused them; retry and restart | posts no earlier than every signature was taken or counted in error; counts nothing but what the chain has taken, or refused with an error nobody read; forgets only what was never signed; a retry gets there | `SolanaRedeem` |
| `ExpirableCache`, `LRUCache` (`common/src/tools/cache.ts`) | value and time of last update; Map of caches | `get`, `forceExpiration` | overlapping fetches answered out of order; eviction of a cache in use | bounded staleness; bounded size; no leak between entries | `ExpirableCache`, `LRUCache` |
| Orders (`sdk/src/entities/account.ts` 734-866) | `lastStoredDate`, `maxOrderExpiresOn` | `createOrder(s)`, `cancelOrder`, `cancelAllOrders...` | overlapping batches, a clock set back | nonces increase; no order outlives its session; batches do not mix | `AccountOrders` (creation) |
| `WebSocketClient` (`sdk/src/ws/WebSocketClient.ts`) | `ws`, `requestMap` | `connect`, `close`, `subscribe`, `unsubscribe`, `listSubscriptions`, event handlers | a replaced socket still delivers; ids from the clock; promises without an owner | each promise is settled by its own answer; no socket leaks | `WebSocketClient` |
| `C3SDK` and the operations of its accounts (`sdk/src/c3sdk.ts`, `sdk/src/entities/account.ts` 196-760) | the instrument list, which never expires; tokens and keys of sessions | login plain, with an ephemeral key, or resumed; logout; pool moves, withdrawals, Algorand deposits, orders, liquidation, delegations | check-await-assign; a login completed late or twice; a list that is older than the server's | what is signed is what was asked for; what is refused is refused for a reason the caller can know | `C3Session` |
| Pricecaster client (`common/src/pricecaster/`) | one record per process, `PRICECASTER_CI` | creation, calls, deletion, waiting for a transaction, reading slots | programs compiled into a shared record; reads in two requests; a confirmation loop without an end | a creation takes its own program; no torn read; the wait ends | `Pricecaster` |
| Routes across chains (`common/src/wormhole/`, `deposit.ts` 68-201 and 276-307) | none; ERC20 allowance (external) | `depositAsset`, `prepareWormholeDeposit`, `validateVaa`, `getMirrorAsset`, the route of a withdrawal | two bridges, three networks, decimals of three parties | the message names what was deposited, for whom and how much; a route there is a route back | `Bridge` |
| Encodings (`common/src/utils/encoding.ts`, `common/src/contracts/CoreState.ts`, `common/src/internal/`) | none | packed data, contract state, account ids, ABI values, operations, orders, signed payloads | key order, widths, signs, base64 of what is not base64 | the reader finds what the writer put in | `Numerals`, `Words`, `Bytes`, `PackedData`, `AccountIds`, `Operations` |
| Amounts, prices, fees, percentages, risk (`common/src/tools`) | none | fixed point, ticks, margins, what is available for trade | rounding in several steps, divisions towards zero | rounding does not work against the caller; what is available is covered | `Numerals`, `Amounts`, `Risk` |
| Stopwatch (`common/src/tools/c3performance.ts`) | tasks under way, completed tasks, a shared summary | `start`, `stop`, `next`, `dump`, `clean`, ... | nested tasks | no time is lost | `Stopwatch` |
| HTTP, markets, parsing of answers, wallets, interfaces, configuration, examples | none, or a wallet's | requests and conversions | - | - | not modelled |

How they interact: `C3SDK` makes `Account`s; `Account.deposit` makes a deposit
session and `Account.withdraw` a withdraw session, which redeems through the
Solana redeem; `Account` owns one `WebSocketClient`; services use the caches
around their providers. `C3Session` has the SDK, its sessions and the operations of
their accounts in one module, since they share the instrument list and the tokens.
No two components share mutable state besides that.

## 2. Modules and how they correspond to the code

**`WormholeDeposit`** (with `TransferPromise`). `prepareWormholeDeposit` 203-273.
`pc[c]` names the await that call `c` is suspended at: `sequence` (receipt of the
origin chain), `haveSequence` (its caller's resumption), `fetch` (guardians),
`gotVaa`, `enqueued`, `chain` (Algorand), `submit`/`accepted`/`rejected` (server).
`accepted` is the server's state; the step from `accepted` to `SubmitSucceeds` or
`SubmitFails` is the answer, which may be lost. `TransferPromise` is the abstract
specification of both sessions: taken at most once, reported only afterwards and for
good. This one implements it with `taken <- accepted, reported <- wasRedeemed`.

**`WormholeWithdraw`.** The closures of `account.ts` 487-609, and the shorter
result for Algorand (471-485). `evmTx`, `tokenAccount`, `newTokenAccount` and
`solanaTx` are the awaits of a redeem; `solanaTx` stands for a whole run of
`SolanaRedeem`, of which two things show: that the transfer lands, which is a step of
the chain (`RedeemLands`, to `evmLanded` or `solanaLanded`), and how the call ends, later
and whichever way. `RedeemedWithError` is the third way of `SolanaRedeem`, a fulfilled
confirmation of a transaction that failed: `account.ts:593` sets `wasRedeemed` after it.
The module implements `TransferPromise` with `taken <- redeemed` and
`reported <- wasRedeemed /\ ~misreported`, where the history variable `misreported` holds
that exception and nothing else: `wasRedeemed` was set that way before anyone had redeemed.
To any chain but Solana the report itself is true
(`ReportsOutsideSolanaAreTrue`). A signer of another kind than the destination, or a Solana one
without a connection, is `"other"`: every use of it throws.

**`SolanaRedeem`.** `custom_postVaaWithRetry` 155-269 and its caller. One progress
object, attempts one after the other (the code demands it: "beware of any
concurrency issues"). `outcome[t]` is the state of transaction `t` within
`Promise.allSettled`; `landed` is what the chain has; `hasSignature` is
`tx.signature !== null`, which the filter at 246 tests. `NotSigned` is a send that ends
before the wallet has signed, since it refused or since `getLatestBlockhash` failed before
it was asked. `sendAndConfirmTransactionsWithRetry` fulfils for a transaction that is in a
block with an error, whose value is read neither at 229-239, nor at 253-266, nor in
`service.ts` 484-486: the actions named `...WithError` count it like any other, and `erred`
and `lateErrors` remember that. Building again makes a new
signature account, so `landed` starts over; `posted` and `redeemed` do not.

**`ExpirableCache`, `LRUCache`.** A value is the time its source was read, which
makes "older" a comparison. `now[c]` is the clock read before the await and
stored after it. `LRUCache` EXTENDS `ExpirableCache`: its caches are the cache
objects created so far, so a fetch into an evicted one goes on. Evicting always
takes entry 1 of the Map: line 54 compares the method `_lastUpdate` of two
entries (the same function) instead of its results.

**`AccountOrders`.** `createOrder(s)` and `createOrderData`. `pc[c]` is `market`
(lookup of the market), `build` (about to run `createOrderData`), `sign` (slot
lookups and signature) or `submit`. The nonce and the capped expiration are
computed in one step without an await, and before the validation that may drop
the whole batch. `ClockMoves` sets the wall clock to any time.

**`WebSocketClient`.** `calls` lists every call with its promise, its id, its
socket and the way of its message; `readyState` lists every socket. `requestMap`
holds the number of the call whose callback it stores. A socket delivers in
states `open` and `closing` and opens only from `connecting`, as the package `ws`
does. `close()` and errors settle nothing, as in the code.

**`C3Session`.** One SDK object and the server it talks to. `login[l].pc` and
`call[c].pc` name the request or the wallet a login or an operation waits for.
`completeLogin` is a closure its caller may call late and often: `closures` holds the
nonces it is called for. What is signed is a record of slots and amounts; a slot is the
index in the cached list, and the server's list only grows. The server takes one
answer to a nonce and accepts an operation from an open session, within its validity
and with the signature of the owner or of a key the owner delegated to. The entries of a
liquidation are sorted by slot with a stable sort, so that of two entries of one asset
the last stays last. `RequestsAssumption` says what a request is made of.

**`Pricecaster`.** `job[j].phase` is the request a call waits for; a block takes at most
one transaction of the pool, and one that is not taken by its last valid round is
lost. The contract does what the comments of the `make...Tx` methods say: it is not
in the repository. `others`, `listing` and `moved` are history, for the properties.

**`CommonTools`** composes the pure modules: its one variable is the function call being
made, each of its actions takes an input from a small set, and its invariants relate
the functions to each other. **`PureCalls`** is the part of it that needs no recursive operator
(rounding, account ids, the margin of a position and what is available for trade,
stopwatches): there the sets of inputs are constants, small ones for TLC and any ones
for the proofs. The functions are in

- `Numerals` (powers, the digits of a number and the number of some digits, recursive
  functions that bytes and decimal texts share);
- `Words` (two's complement words), `Bytes` (cutting, padding and digesting byte strings),
  `PackedData` (`packData` and `unpackData` with their
  formats, the dictionary of the contracts, their state of users and instruments),
  `AccountIds` (addresses, ids, chains);
- `Operations` (ABI values, the operations an account signs, orders and the texts they
  are made of, the signed header and payload). `AbiEncode` and `AbiDecode` stand for
  `algosdk`;
- `Amounts` (fixed point, ticks, fees, percentages, decimal texts) and `Risk` (margins,
  health, what is available for trade);
- `Bridge`: what `getWormholeDepositInfo` and `isCctpWithdraw` choose between Wormhole's
  and Circle's bridge, the transaction that is sent, the VAA the bridge makes of it
  (external) and the server's check of it. Addresses are names on a chain;
- `Stopwatch`, where the order in which tasks are stopped is a parameter, so that the
  class can be compared with the stack it speaks of.

Constants of each module are in its head, with their assumptions; `AmountsAssumption`
says that a decimal text has twice as many digits as a price has decimals, as in the
code, and `WordsAssumption` that a byte has an even number of values, so that a word has
a sign bit. Definitions
marked `\* mutant` are faulty variants of the definition that follows; no
specification uses them.

## 3. What each run checks

| Run | Instance and bounds | Shows |
|---|---|---|
| `wormhole_deposit` | 2 callers, 2 signature sets, CCTP or not; no bound on calls | `RedeemedMeansAccepted`, `CompletionNeverRetracted`, `OnlySignedVaaSubmitted`, `RedeemedStaysQuiet`, `KeepsPromise` (refinement), `CallsSettle` (liveness) |
| `wormhole_withdraw` | 2 callers, every destination and signer; no bound on calls | `KeepsPromise` (refinement), `LandedIsNeverDenied`, `CallsSettle` |
| `solana_redeem` | 3 signature transactions, 4 failures, 1 new progress object | `PostNeedsAllSignatures`, `ProgressIsHonest`, `OnlyUnsignedForgotten`, `RetryingRedeems` (liveness) |
| `expirable_cache` | 3 callers, 1 cache, clock to 4, expiration 1 or never | `BoundedStaleness`, `ForceIsObserved` |
| `lru_cache` | 2 callers, 3 keys, map of 2, 4 cache objects, clock to 3 | `MapBounded`, `ReinsertedStartsOver` |
| `lru_eviction` | the same, clock to 4 | the eviction does **not** take the oldest update (`EvictsOldestUpdate` is violated) |
| `account_orders` | 2 callers, batches of up to 2, 3 orders, clock to 3 | `NoncesIncrease`, `ReceivedWithinSession`, `BatchesDoNotMix` |
| `order_expiration` | the same with two expirations | an order is **not** capped by its session only (`CappedBySessionOnly` is violated) |
| `websocket` | 4 calls, 2 sockets, 2 miliseconds | `AnswerOfOwnKind`, `OnlyCollisionsLoseAnswers`, `ConnectResolvesWithItsSocket`, `NoOrphanSocket`, `RequestsSettle` (liveness) |
| `sdk_session` | 1 operation and 2 logins under way, 2 at a time; 3 instruments, the third listed later; 1 nonce, 2 ephemeral keys, 3 accounts, clock to 2 | `SignedAsAsked`, `RefusalsAreExplained` |
| `pricecaster` | 2 calls, 2 programs, 2 contracts of 2 slots, 3 rounds | `CreatesProgramOfItsTime`, `ReadsAreOfTheFirstMoment`, `WaitEndsUnlessLost` (liveness) |
| `common_tools` | about 163,000 inputs (below) | `PackedDataReadsBack`, `ContractStateReadsBack`, `AccountIdNamesItsAddress`, `OperationsReadBack`, `RoundingKeepsBounds`, `AvailableIsCovered`, `HealthFollowsPosition`, `DepositsArriveAsSent`, `SpansAddUp` |

`account_orders` also checks `TypeOK` of its module, which carries the facts that tie
the control state to the data (a batch is submitted only when it is complete). Those of
the other modules are proved (section 5).

Why the bounds are enough:

- *Two callers* are what an interleaving needs: every property relates one call
  to the shared variables, or two calls to each other. The caches have three,
  since a slow fetch must overwrite a newer value and a third call read it. The
  invariants are proved for any number of them (section 5).
- *Three signature transactions* let one land, one fail and one stay unsigned in one
  attempt. Four failures, of any kind, allow each transaction to fail once and the post or
  the redeem too.
- *The clocks* run to three or four with an expiration of one, so that a value
  expires, is refreshed, and expires again while an old fetch is on its way.
- *Three orders over two batches of two*: one batch is filled while the other is
  half built. A second has two miliseconds, so that the division of
  miliseconds into seconds loses something.
- *Four calls, two sockets, two miliseconds*: connect, request, connect again,
  request again in the same or the next milisecond, with the first answer still
  on its way.
- *One operation, two logins, two ephemeral keys*: an operation meets a login that ends
  another session, a list fetched by someone else, a revoked or expired delegation; the
  closure of one login is called twice. The requests take one of each kind of operation,
  a liquidation that lists an asset twice and an asset that is not there from the start.
- *Two calls over three rounds*: a contract is created, filled and reset, or replaced,
  between the two requests of a read, and a transaction is lost after one round.
- *The pure functions* run on words of two bytes instead of eight, public keys of two
  bytes instead of 32 and EVM addresses of one instead of 20, so that an address is
  shorter than a key, a signature longer and both clash where they can; prices have two
  decimals and ratios ten parts, so that roundings happen for small numbers and the
  tolerances are tight; amounts lie around the digits a text keeps (9999, 10000) and
  the sign bit of a word (32767, 32768); the bridge keeps two decimals, and tokens have one, three or
  four. A byte has its 256 values where the encoding of text as base64 matters. The
  inputs hold the boundaries of each width: zero, the sign bit, the largest word, a
  full and an overfull dictionary, dictionaries as long as a byte has values and around
  that, the state of a user with any number of bytes of its last slot missing, the shortest and the longest array.

`CHECK_DEADLOCK FALSE` stands where the instance uses up what bounds it: the calls and
sockets of `websocket`, the nonces, keys, accounts and the clock of `sdk_session`.

Symmetry is used in `expirable_cache`, `lru_cache`, `account_orders` and `sdk_session`,
which check no liveness; the callers of `ExpirableCache`, the keys of `LRUCache` and the
logins of `C3Session` are not distinguished by any definition.

### Fairness

- `WormholeDeposit`, `WormholeWithdraw`: weak fairness of each call's
  continuation. The event loop runs every resumed continuation, and every request
  other than the VAA fetch is answered or times out (the waits for confirmation
  have a number of rounds), but for the receipt of an EVM redeem: `service.ts` 455-457
  wait for it without a limit, so nothing is fair while a call is at `evmTx`, and
  `CallsSettle` of the withdrawal excepts a redeem whose transaction is never mined. A
  Solana wallet signs or refuses. `isVaaEnqueued` without a limit asks on until a host
  answers, which one is assumed to do. Nothing makes the guardians sign, the server accept or
  a user call, so `CallsSettle` promises an end only for polls, or once the
  message is signed. A call without `maxRetryCount` may wait for ever, as in the code.
- `SolanaRedeem`: the attempt's own steps, the chain's taking what was sent, and
  the *user's* retrying until an attempt has returned a signature, which
  `RetryingRedeems` assumes; the number of failures is
  bounded by `MaxFailures`.
- `WebSocketClient`: what reaches the server is answered, and the answer is
  handled, while the socket lives.
- `Pricecaster`: the node goes on making blocks and answers every request of a wait;
  that a transaction of the pool is taken is not assumed, hence the exception in
  `WaitEndsUnlessLost`.
- The caches, the orders, the sessions and the pure functions are checked for safety only.

### What the models brought to light

- `lru_eviction`: `cache.ts:52` says that the oldest entry by `_lastUpdate` is
  removed; the entry inserted first is.
- `order_expiration`: `account.ts:768` says that an order expires at the minimum of
  its own and the session's expiration; it is also cut at 90 days after the
  construction of the `Account` object, fixed once.
- `PostNeedsAllSignatures`, `ProgressIsHonest`, `RetryingRedeems`, `KeepsPromise`: the error
  value of a confirmed Solana transaction is not read. A signature transaction that failed
  on the chain is counted and never sent again, so that every post with that progress
  object fails from then on; a post that failed is counted, and the redeem tried; a redeem
  that failed returns its signature, after which the session says that the transfer was
  redeemed and refuses to redeem it. The properties state the exceptions.
- `OnlyUnsignedForgotten`, `RetryingRedeems`: a signature transaction that the wallet
  refused, or that it was never asked to sign because the query for a blockhash failed
  first, has no `signature`, is filtered out of `verifySigTxs`, and makes every
  retry with that progress object end in "Not enough signatures". The properties
  state the exception. When another relayer posts a VAA half way, the progress
  keeps its count and never reaches its total.
- `ForceIsObserved`: a fetch in flight undoes `forceExpiration()`; the property
  speaks of forces with no fetch in flight.
- `RedeemedStaysQuiet`: two redeems that overlap may both submit; only one that
  begins after a success is stopped.
- `ReceivedWithinSession`: an expiration of 0 passes `validateOrder`.
- `ConnectResolvesWithItsSocket`, `RequestsSettle`: a `connect()` that is overtaken or
  whose socket fails, a request answered by ERROR or caught by a close, and the
  first of two requests with one id stay pending for ever.
- `WormholeWithdraw`: a withdrawal to Algorand answers `false` to any failed query,
  also after it answered `true`; on the other chains a failed query throws.

- `PackedDataReadsBack`: `packFormat` does not write the size of an integer, so
  self-describing data with a sized integer cannot be read back, and a last field that
  takes no bytes is refused by `unpackInner`.
- `ContractStateReadsBack`: the length of a dictionary is written into one byte without a
  check (`encoding.ts` 681, 684): one of 256 pairs comes back empty, one of 257 to 271 cut
  to the pairs beyond the 256, counted from its front. The decoder refuses other lengths
  above 15. `parseCoreUserState` throws on a state whose last slot is cut short.
- `AccountIdNamesItsAddress`: an Algorand key that begins like a padded EVM address
  comes back as an EVM address; the zero address does.
- `OperationsReadBack`: `cancelAllOrders` signs `Date.now()` by decoding its decimal text as
  base64, and the last digit of it is not covered by the signature.
- `SignedAsAsked`: a liquidation that lists an asset twice signs its last amount only.
- `RefusalsAreExplained`: a login that answers a nonce twice is refused, and an account
  resumed without an encryption key signs with the owner's wallet while its session
  still carries the key.
- `DepositsArriveAsSent`: SOL is sent as ten lamports to a unit (`deposit.ts:123`), right for
  instruments of eight decimals only. `withdraw` looks up its route after it has
  submitted (`account.ts:498`) and there asks another question than before: the lookup
  throws for Circle's dollars to a chain that is not Circle's, and on DEVNET for Algos,
  whose id is the one that stands for those dollars.
- `WaitEndsUnlessLost`: `waitForConfirmation` has no limit; a transaction that is never
  taken is waited for until a request fails.
- `CreatesProgramOfItsTime`: creations that overlap may swap programs, through the record
  they share.
- `SpansAddUp`: `Stack.pop` takes the oldest task; nested tasks stop in the order they
  started.

Met on the way, outside what a property states: `Account.liquidate` hands
`createLiquidation` a user address where it decodes an account id; `toAccountOrder`
(`helpers/order.ts:84`) fills `cancelOrderTicket.orderId` from `.creator`; `isPositive` lets
zero through; `risk.ts` 102-106 cannot be reached; where a debt of the bought asset is
repaid, `availableForTrade` (`risk.ts:116`) turns what that frees into the sold asset with
the price of the *bought* one, while the adjusted variant (244) takes the sold one's, and
it counts the cash beside a debt of the sold asset as if there were no debt, which the
adjusted variant nets: `TradeIsCovered` therefore speaks of accounts without debts, and
TLC refutes it with them; `readParsePriceSlot` lets the slot
after the system's through; a Pricecaster slot store with `asaid: -1` throws in
`encodeUint64`; `convertUint64toInt64` gives 2^63 as a positive number; the files
`internal/operationUtils.ts`, `signerUtils.ts` and `depositUtils.ts` of the common package
repeat those in `internal/utils`.

## 4. Abstract specifications and composition

- `TransferPromise` is implemented by `WormholeDeposit` and by `WormholeWithdraw` (each
  checked and proved): a deposit and a withdrawal promise their callers the same.
- `LRUCache` composes `ExpirableCache`s by EXTENDS: its calls *are* their calls, and it is
  proved to implement them (`MapImplementsCaches`): inserting and evicting are steps of
  no cache.
- `WormholeWithdraw` sees an attempt of `SolanaRedeem` from outside: it lands or not, and
  ends afterwards with or without an error, or as if it had landed.
- `CommonTools` composes the pure modules by EXTENDS: `Words` - `Bytes` - `PackedData` and
  `AccountIds` - `Operations` - `Bridge`, and `Amounts` - `Risk`; `PureCalls` takes `AccountIds`,
  `Risk` and `Stopwatch` only. Their reference definitions are in
  `CommonTools`: each invariant calls a function and the one that undoes it, or computes
  the bound from the definition (a margin after the trade, a nearest tick by search).
- `C3Session` states its promise over the server's list and the server's own check
  (`Accepted`), which the SDK never sees.

## 5. What is proved

Eight modules hold proofs, for every value of the constants that satisfies the
module's assumptions. All safety properties of the state machines are theorems, and
four of the pure functions', with a part of a fifth. Each inductive invariant was checked by TLC on the
instance of its run before it was proved.

**`WormholeDeposit_proofs`**, from `VaaAssumption` (the guardians' byte strings, the
empty one and undefined differ). The inductive invariant `SessionInvariant` adds to
`TypeOK`: what the cached VAA may be for a CCTP session and otherwise; that a VAA
implies a signed message; what a call carries at each await; that nobody is past
the `accepted` step unless the server took the deposit; and that a completion once
seen leaves the flag or the VAA behind, with the transfer settled. It is
needed since each safety property speaks of one call and is threatened by another
one's assignment. From it: `TypeCorrect`, `RedeemedIsAccepted`, `CompletionIsFinal`,
`SubmittedVaaIsSigned`, `NoSubmitAfterRedeem`, and `ImplementsPromise`, that each step
is a step of `TransferPromise` or leaves its state alone.

**`WormholeWithdraw_proofs`**, from no assumption. `SessionInvariant` adds: the flag
implies that the VAA is in the session and that the destination chain redeemed, or that
the report is one of a Solana redeem that failed unread (`misreported`), which only a
session to Solana has; the history implies that the chain redeemed;
a call to Algorand is suspended at nothing but its confirmation; a poll that began
after a landing goes straight to the chain; whoever waits for the receipt of a landing
does so after it. From it `ImplementsPromise`, that each step is one of
`TransferPromise` or leaves its state alone (a landing takes, the end of a redeem
reports), `ReportsOutsideSolanaAreTrue`, and `LandingIsNeverDenied`.

**`SolanaRedeem_proofs`**, from the finiteness of the set of signature transactions. The
invariant `RedeemInvariant` ties the two counters to sets: until the VAA is posted, and
in the attempt that posts it, `successTxCount` is the number of the *confirmed*
signature transactions, with the posts that failed unread, and `totalTxCount` that of the
transactions built (afterwards both are shifted by the post and the redeem); what is
confirmed has landed, or failed on the chain unread; a post was sent, and so can have
failed, only once every signature was confirmed; what was built is to be sent, confirmed
or was never signed; and in a batch each transaction ends in a way its signature and the
chain explain. Without them the test `successTxCount < totalTxCount - 2` says nothing of
the signatures, since the count also grows by posts. From it: `TypeCorrect`,
`PostedWithAllSignatures`, `ProgressNeverAhead`, `ForgottenWereUnsigned`, and the action
property `AbandonedStaysAbandoned`: once a signature was not given and the others
were counted, no attempt with that progress object sends anything. A second one,
`ProgressNeverGoesBack`, is that the count a user watches only goes up while the progress
object is kept: where signatures are rebuilt and it is set to 0, nothing was counted.

**`Cache_proofs`**, from `CachesAssumption`, `TimesAssumption`, `NoneAssumption` and the
assumption of `LRUCache` on its limit. The invariant `CacheInvariant` adds: a cached value
is no older than the `lastUpdate` stored with it and than the last force of its cache; a
call in flight began no earlier than that force, and its answer is no older than its
`now`. `StalenessIsBounded` and `ForceHolds` follow for any number of callers and caches.
`MapImplementsCaches` refines: every step of `LRUCache` is one of `ExpirableCache` or
leaves its variables, so that `MapStalenessIsBounded` is had for nothing. `MapInvariant`
adds to it that no two entries share a cache object, that an object not yet made is
empty and unused, and that a call in flight into an entry's object began after the
insertion; the last is what keeps a fetch into an evicted cache out of the entry that
replaced it (`EvictedCannotReturn`). `MapStaysBounded` is its other consequence.

**`Account_proofs`** has two parts. Orders, from `ConstantsAssumption`: the invariant
`OrdersInvariant` adds that no nonce of a batch, a request or `built` is above
`lastStoredDate`, and the clock plays no part in that; that the cap is within the
session's expirations; that every order signed or sent is capped and validated; and that
no nonce is in two batches or requests. `NoncesAreOrdered`, `OrdersWithinSession` and
`BatchesStayApart` follow. Pure functions, from the assumptions of `PureCalls` and of the
modules it extends: there the invariant only says what call is made, and the work is in
lemmas about the operators. What they recurse over are numbers, and a set of numbers that
has no least one outside it is all of them: `NatInduct` and `NatRecursion` are had from
the library's theorem that the naturals are well-founded, as sets instead of operators. By
them powers multiply (`PowersAdd`), the digits of a number are read back
(`ReadFromDigits`), also as a text without its trailing zeros (`TextReadsBack`) or as a signed
word (`SignedWordReadsBack`), and sums are taken apart.

`RoundingHolds`: every division is a `Quot` of naturals,
which leaves less than its divisor (`QuotOfNats`); from that a lemma for each of
the texts and words, `baseToQuote` and `quoteToBase`, `round` (a nearest multiple, by comparing with the two
around the price), `nextMultiple`, the slippage of a market order, `minPrice`,
percentages and fees. `IdsNameTheirAddress`: a concatenation comes apart where it was put
together, whatever the digest is. `MarginFollowsPosition`: the sum over two assets is
taken apart (`SumOfTwo`), and of one asset the quotients grow with what they are of and
miss it by less than a unit; it holds for any prices, haircuts up to 1, margins and
utilizations. `AvailableForTradeIsCovered`, `PureSpec => []TradeIsCovered`: without debts,
trading as much as `availableForTrade` says leaves at most the price of one bought unit and
two rescaled units missing. The functions round four times before they give an amount;
`ShortfallBounds` says how far the shortfall is from the exact one, `SoldWithoutDebts` and
`CoveredMargin` that a debt is made only beyond what there is, and `CoverArithmetic` adds the
truncations up. `SpansHold`, for any calls of any stopwatches: `NothingLost` is kept by
every call (the summary has at least what the completed tasks took, and exactly that
until a clean), and so is `AsBusy` between the watches of the code, which stop the oldest
task, and those of a stack (as many tasks under way, and the same time measured less
the starts of those under way).

**`WebSocketClient_proofs`**, from the module's assumption. The invariant `ClientInvariant`
adds to the four safety properties: what id, message and socket a call of each kind can
have; that a callback in `requestMap` is of the call that made its id; that each connect
made a socket of its own and `Login`'s callback is that of the current one; that no socket
opened is still connecting. The properties are part of it because each is needed for
another one's step (an answer settles the right kind only if its id told the kind).
From it: `TypeCorrect`, `AnswersOwnKind`, `AnswersLostByCollision`,
`ConnectResolvedByOwnSocket`, `NoSocketLeftBehind`, and the action property
`OvertakenConnectNeverSettles`: an overtaken or closed `connect()` stays pending, whatever
happens.

**`Pricecaster_proofs`**, from the module's assumptions. The invariant `LibraryInvariant`
types a job by its phase (`JobState` is a union, one member for each request it can wait
for) and adds: what the shared record or a creation on its way holds is the program of
that creation or of one it overlaps with, and overlapping is known to both sides; no
call is built for an application that does not exist; between the two requests of a
read the contract has the number of slots the first one saw, unless the history says
that it moved. From it `TypeCorrect`, `ProgramOfItsTime` and `ReadsOfFirstMoment`.

**`C3Session_proofs`**, from `C3SessionAssumption` and `RequestsAssumption`. The invariant
`SessionInvariant` adds: every list the SDK holds is one the server has answered with,
hence a beginning of the server's; an operation that was made is that of its request over
such a list, in which all its assets are; an Account, and the login that makes it, has
an opened session, and its keys were delegated for as long as it believes, or revoked. From
it `TypeCorrect`; `OperationsAreAsAsked`, for the slots in a beginning of a list are those in
the whole list, also of an asset that a liquidation names twice; and
`NothingElseIsRefused`, each of the server's checks against the part of the invariant that
answers it.

Only model-checked:

- the liveness properties: fairness and ENABLED are beyond the prover;
- `PackedDataReadsBack`, `ContractStateReadsBack`, `OperationsReadBack` and
  `DepositsArriveAsSent`, over their bounded inputs: packing follows a format, whose nested
  formats no number or set bounds, by recursive operators, which the prover cannot
  reason about;
- the part of `AvailableIsCovered` that speaks of `availableForTradePriceAdjusted`: that
  function divides by the difference of two rounded prices, which may be small, so that
  no tolerance holds for all prices and decimals; that of the property is the instance's;
- the two violated properties.

## 6. Not modelled

- *HTTP and the parsing of answers*, the validation schemas of `tools/parser.ts` and the
  conversions in `entities/markets.ts` and `internal/helpers`: one request and one copy of
  fields each.
- *Queries of an account and of the SDK* (balances, trades, fees, system information):
  they post a filter or fill one more field that is fetched once, as the instrument
  list of `C3Session` is.
- *The assertion of `getSignedPayload`* that a lease has 32 bytes (`signer.ts:32`): the leases
  given to it have.
- *The retry limit of `isVaaEnqueued`* (`deposit.ts` 232-234): it answers or fails.
- *The requests that cancel orders* keep no state on the client; what they sign is in
  `Operations`.
- *Wallets and cryptography*: a signer signs or refuses. That `solanaSignCallback` of
  `factory.ts` throws after it has signed, and that the ciphers of `CryptoUtilsNode` and
  `CryptoUtilsWeb` write different formats, concerns single functions.
- *The counters of `C3Performance`*, beside the Stopwatch: they only add up and print.
- *The price contract's admin call `operateOn`* and the helpers of `app-tools.ts`, the
  compiled TEAL, the tables of addresses that only fill transactions.
- *Types, configuration and example programs.*

Left open although the code has them, since an instance that shows them needs more
state than the runs carry: two `Account` objects of one account each count their own
nonces (`account.ts:200`); two ERC20 deposits that overlap approve over each other
(`deposit.ts:90`, `Bridge` makes one deposit at a time); a ping on a replaced socket is
answered on the current one (`WebSocketClient.ts:113`).

## 7. Plan

1. A tolerance for `availableForTradePriceAdjusted` in terms of its price factors.
2. Two overlapping ERC20 deposits, and a second `Account` object over the nonces of
   `AccountOrders`.
