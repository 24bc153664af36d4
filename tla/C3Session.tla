----------------------------- MODULE C3Session -----------------------------
(***************************************************************************)
(* One C3SDK object (sdk/src/c3sdk.ts) with the sessions it opens for an   *)
(* owner and the operations their Accounts sign (sdk/src/entities/         *)
(* account.ts).  A signed operation names instruments by slot, the index   *)
(* in a list the SDK fetches once and keeps; the server appends to its own *)
(* meanwhile.  Operations are signed by the owner or by the ephemeral key  *)
(* of the session, whose delegation the owner signed at login.  Calls and  *)
(* logins overlap at every await.                                          *)
(***************************************************************************)
EXTENDS Integers, Sequences, FiniteSets, Functions

CONSTANTS
    Instruments,      \* the assets in the order the server lists them
    InitialListed,    \* how many it lists when the SDK is made
    Calls,            \* operations that are under way at once
    Logins,           \* logins that are under way at once
    Validity,         \* rounds an operation stays valid for
    SessionDuration,  \* what a delegation lasts
    Requests,         \* what callers ask for: [kind, give, take]
    MaxNonces,        \* bound: login nonces, and so tokens
    MaxKeys,          \* bound: ephemeral keys
    MaxAccounts,      \* bound: no session is resumed beyond so many Accounts
    MaxBusy,          \* bound: logins and operations under way together
    MaxTime           \* bound of the clock, which counts rounds and seconds alike

ASSUME C3SessionAssumption ==
    /\ Instruments \in Seq(Range(Instruments)) /\ InitialListed \in 0..Len(Instruments)
    /\ \A i, j \in DOMAIN Instruments : Instruments[i] = Instruments[j] => i = j
    /\ Validity \in Nat /\ SessionDuration \in Nat
    /\ MaxNonces \in Nat /\ MaxKeys \in Nat /\ MaxAccounts \in Nat /\ MaxBusy \in Nat /\ MaxTime \in Nat

\* A caller names at least the asset it gives and, in an order, the one it takes;
\* only a basket may be empty.
ASSUME RequestsAssumption ==
    \A request \in Requests :
        /\ request = [kind |-> request.kind, give |-> request.give, take |-> request.take]
        /\ request.kind \in {"lend", "redeem", "borrow", "repay", "withdraw", "deposit", "order", "liquidate"}
        /\ \A pairs \in {request.give, request.take} :
              pairs \in Seq(Range(pairs)) /\ \A i \in DOMAIN pairs : pairs[i][2] \in Int
        /\ request.kind # "liquidate" => Len(request.give) > 0
        /\ request.kind = "order" => Len(request.take) > 0

VARIABLES
    \* The server and the chain.
    listed, time,
    nonces,       \* login nonces given out so far
    challenges,   \* those that a login may still answer
    sessions,     \* tokens: [live, key]
    delegations,  \* [key, expires] the owner signed, as the server keeps them
    revoked,      \* keys whose delegation was revoked
    \* The SDK.
    instrumentCache,  \* how long the cached list is, NoList before it is fetched
    query,            \* a query that fetches the list for itself: NoQuery, NoList or the answer
    keys,             \* ephemeral keys generated so far
    closures,         \* nonces whose completeLogin the caller holds
    login, call,
    accounts          \* Account objects: [token, key, expires, stored]

server == <<listed, time>>
auth   == <<nonces, challenges, sessions, delegations, revoked>>
sdk    == <<keys, closures, login, accounts>>
lists  == <<instrumentCache, query>>
vars   == <<server, auth, lists, sdk, call>>

NoList  == -1
NoQuery == -2
NoKey   == 0
NoRequest == [kind |-> "none", give |-> <<>>, take |-> <<>>]

PoolMoves == {"lend", "redeem", "borrow", "repay"}

-----------------------------------------------------------------------------
(* Slots and operations.                                                   *)
Snapshot(n) == SubSeq(Instruments, 1, n)

\* mutant: the place in the list sorted by asset.
SlotInSortedList(assetIds, assetId) == Cardinality({i \in DOMAIN assetIds : assetIds[i] < assetId})

\* The index in the list, as the contracts number their slots; throws when there is none.
HasSlot(assetIds, assetId) == \E i \in DOMAIN assetIds : assetIds[i] = assetId
getSlotId(assetIds, assetId) == (CHOOSE i \in DOMAIN assetIds : assetIds[i] = assetId) - 1

createPoolMove(slot, amount) == [op |-> "PoolMove", slot |-> slot, amount |-> amount]
createWithdraw(slot, amount) == [op |-> "Withdraw", slot |-> slot, amount |-> amount]
encodeOrderData(sell, buy)   == [op |-> "Settle", sell |-> sell, buy |-> buy]
createLiquidation(cash, pool) == [op |-> "Liquidate", cash |-> cash, pool |-> pool]

\* A Map made from pairs keeps the last amount of a slot that comes twice. The
\* pairs were sorted by slot before, in a stable way: this last one stays the last.
LastWins(pairs) ==
    [slot \in {pairs[i][1] : i \in DOMAIN pairs} |->
        pairs[CHOOSE i \in DOMAIN pairs : pairs[i][1] = slot /\ \A j \in i + 1..Len(pairs) : pairs[j][1] # slot][2]]

\* Lend and repay move cash into the pool, redeem and borrow out of it.
Direction(kind) == IF kind \in {"lend", "repay"} THEN 1 ELSE -1

\* The group of an Algorand deposit, and which of its transactions the funder signs.
generateStandardDepositGroup(slot, amount) ==
    [txns |-> << [type |-> "pay", amount |-> 0], [type |-> "call", slot |-> NoList],
                 [type |-> "transfer", amount |-> amount], [type |-> "call", slot |-> slot] >>,
     transferStartIndex |-> 2]
prepareAlgorandDeposit(slot, amount) ==
    LET group == generateStandardDepositGroup(slot, amount)
    IN  [op |-> "Deposit", signed |-> group.txns[group.transferStartIndex + 1], group |-> group.txns]

\* What the caller asked for as an operation over a list of assets.  `give` and
\* `take` are pairs of an asset and an amount.
Operation(asked, assetIds) ==
    LET kind == asked.kind
        Slots(pairs) == [i \in DOMAIN pairs |-> <<getSlotId(assetIds, pairs[i][1]), pairs[i][2]>>]
        give == Slots(asked.give)
        take == Slots(asked.take)
    IN  CASE kind \in PoolMoves -> createPoolMove(give[1][1], Direction(kind) * give[1][2])
          [] kind = "withdraw"  -> createWithdraw(give[1][1], give[1][2])
          [] kind = "deposit"   -> prepareAlgorandDeposit(give[1][1], give[1][2])
          [] kind = "order"     -> encodeOrderData(give[1], take[1])
          [] kind = "liquidate" -> createLiquidation(LastWins(give), LastWins(take))

\* findInstrumentOrFail and getSlotId find every asset.
Known(asked, assetIds) == \A i \in DOMAIN (asked.give \o asked.take) : HasSlot(assetIds, (asked.give \o asked.take)[i][1])

\* validate: nothing may be given in a negative amount; a liquidation's pool may.
Valid(asked) == \A i \in DOMAIN asked.give : asked.give[i][2] >= 0

-----------------------------------------------------------------------------
(* What a login and a call remember.                                        *)
IdleLogin == [pc |-> "idle", nonce |-> 0, ephemeral |-> FALSE, key |-> NoKey, expires |-> 0, token |-> 0, stored |-> NoKey]
IdleCall  == [pc |-> "idle", account |-> 0, request |-> NoRequest, answer |-> NoList, operation |-> NoRequest,
              lastValid |-> 0, signer |-> NoKey]

BusyLogins == Cardinality({l \in Logins : login[l] # IdleLogin})
Room       == BusyLogins + Cardinality({c \in Calls : call[c] # IdleCall}) < MaxBusy

(* The server, the chain and the passing of time.                          *)
Init ==
    /\ listed = InitialListed /\ time = 0
    /\ nonces = 0 /\ challenges = {} /\ sessions = <<>> /\ delegations = {} /\ revoked = {}
    /\ instrumentCache = NoList /\ query = NoQuery /\ keys = 0 /\ closures = {} /\ accounts = <<>>
    /\ login = [l \in Logins |-> IdleLogin]
    /\ call = [c \in Calls |-> IdleCall]

ListInstrument == listed < Len(Instruments) /\ listed' = listed + 1 /\ UNCHANGED <<time, auth, lists, sdk, call>>
ClockTicks == time < MaxTime /\ time' = time + 1 /\ UNCHANGED <<listed, auth, lists, sdk, call>>

-----------------------------------------------------------------------------
(* Logins.                                                                 *)
SetLogin(l, entry) == login' = [login EXCEPT ![l] = entry]

\* login without a session, and _loginWithEphemeral: GET /v1/login/start.
StartLogin(l) ==
    /\ login[l] = IdleLogin /\ Room /\ nonces < MaxNonces
    /\ nonces' = nonces + 1
    /\ challenges' = challenges \cup {nonces'}
    /\ \E ephemeral \in BOOLEAN : SetLogin(l, [IdleLogin EXCEPT !.pc = "challenged", !.nonce = nonces', !.ephemeral = ephemeral])
    /\ UNCHANGED <<server, sessions, delegations, revoked, lists, keys, closures, accounts, call>>

\* _signLoginNonce.  A plain login goes on, an ephemeral one hands completeLogin to its caller.
SignNonce(l) ==
    /\ login[l].pc = "challenged"
    /\ IF login[l].ephemeral
       THEN closures' = closures \cup {login[l].nonce} /\ SetLogin(l, IdleLogin)
       ELSE SetLogin(l, [login[l] EXCEPT !.pc = "completing"]) /\ UNCHANGED closures
    /\ UNCHANGED <<server, auth, lists, keys, accounts, call>>

\* completeLogin, as often as the caller likes: a new key, a delegation to it for
\* the owner to sign, and both on their way to the server.
CallCompleteLogin(l) ==
    /\ login[l] = IdleLogin /\ Room /\ keys < MaxKeys
    /\ \E nonce \in closures :
          SetLogin(l, [IdleLogin EXCEPT !.pc = "completing", !.nonce = nonce, !.ephemeral = TRUE,
                                        !.key = keys + 1, !.expires = time + SessionDuration])
    /\ keys' = keys + 1
    /\ UNCHANGED <<server, auth, lists, closures, accounts, call>>

\* mutant: the Account counts the delegation from the answer on.
CompletesAndRenews(l) ==
    /\ login[l].pc = "completing" /\ login[l].nonce \in challenges
    /\ challenges' = challenges \ {login[l].nonce}
    /\ sessions' = Append(sessions, [live |-> TRUE, key |-> login[l].key])
    /\ delegations' = IF login[l].key = NoKey THEN delegations
                      ELSE delegations \cup {[key |-> login[l].key, expires |-> login[l].expires]}
    /\ SetLogin(l, [login[l] EXCEPT !.pc = "opened", !.token = Len(sessions'), !.expires = time + SessionDuration])
    /\ UNCHANGED <<server, nonces, revoked, lists, keys, closures, accounts, call>>

\* POST /v1/login/complete: the server takes one answer to a nonce, opens a
\* session and may give a key to encrypt the ephemeral one with.
ServerCompletes(l) ==
    /\ login[l].pc = "completing" /\ login[l].nonce \in challenges
    /\ challenges' = challenges \ {login[l].nonce}
    /\ sessions' = Append(sessions, [live |-> TRUE, key |-> login[l].key])
    /\ delegations' = IF login[l].key = NoKey THEN delegations
                      ELSE delegations \cup {[key |-> login[l].key, expires |-> login[l].expires]}
    /\ \E encryptionKey \in BOOLEAN :
          /\ login[l].key = NoKey => ~encryptionKey
          /\ SetLogin(l, [login[l] EXCEPT !.pc = "opened", !.token = Len(sessions'),
                                               !.stored = IF encryptionKey THEN login[l].key ELSE NoKey])
    /\ UNCHANGED <<server, nonces, revoked, lists, keys, closures, accounts, call>>

\* The owner refuses to sign, a request fails, or the server knows the nonce no
\* longer: the login rejects.
LoginFails(l) ==
    /\ login[l].pc \in {"challenged", "completing", "status"}
    /\ SetLogin(l, IdleLogin)
    /\ UNCHANGED <<server, auth, lists, keys, closures, accounts, call>>

\* generateAccountEntity.  A session keeps the key only encrypted, under what the server gave.
GenerateAccountEntity(l) ==
    /\ login[l].pc = "opened"
    /\ accounts' = Append(accounts, [token |-> login[l].token, key |-> login[l].key, expires |-> login[l].expires,
                                     stored |-> login[l].stored])
    /\ SetLogin(l, IdleLogin)
    /\ UNCHANGED <<server, auth, lists, keys, closures, call>>

\* login with the session of an Account made before (getSession).  Without a
\* stored key the owner signs; with one, the server is asked for its encryption key.
Resume(l) ==
    /\ login[l] = IdleLogin /\ Room /\ Len(accounts) + BusyLogins < MaxAccounts
    /\ \E i \in DOMAIN accounts :
          LET session == accounts[i]
          IN  SetLogin(l, IF session.stored = NoKey
                          THEN [IdleLogin EXCEPT !.pc = "opened", !.token = session.token]
                          ELSE [IdleLogin EXCEPT !.pc = "status", !.token = session.token,
                                                 !.stored = session.stored, !.expires = session.expires])
    /\ UNCHANGED <<server, auth, lists, keys, closures, accounts, call>>

\* GET /v1/login/status.  Without an encryption key the owner signs for the
\* Account, whose session still carries the encrypted one.
LoginStatus(l) ==
    /\ login[l].pc = "status"
    /\ IF sessions[login[l].token].live
       THEN \E encryptionKey \in BOOLEAN :
              SetLogin(l, [login[l] EXCEPT !.pc = "opened", !.key = IF encryptionKey THEN login[l].stored ELSE NoKey])
       ELSE SetLogin(l, IdleLogin)
    /\ UNCHANGED <<server, auth, lists, keys, closures, accounts, call>>

Logout(i) ==
    /\ sessions[accounts[i].token].live
    /\ sessions' = [sessions EXCEPT ![accounts[i].token].live = FALSE]
    /\ UNCHANGED <<server, nonces, challenges, delegations, revoked, lists, sdk, call>>

\* revokeDelegation, from a session that is still open.
RevokeDelegation(i) ==
    /\ sessions[accounts[i].token].live
    /\ \E d \in delegations : delegations' = delegations \ {d} /\ revoked' = revoked \cup {d.key}
    /\ UNCHANGED <<server, nonces, challenges, sessions, lists, sdk, call>>

-----------------------------------------------------------------------------
(* Operations of an Account.                                               *)
SetCall(c, entry) == call' = [call EXCEPT ![c] = entry]

\* What follows once the list is there: the instrument, the amounts and the
\* slots, in one go.  An order has no validity window and is signed at once.
Continued(entry, list) ==
    LET asked == entry.request
        assetIds == Snapshot(list)
    IN  IF ~Known(asked, assetIds) \/ ~Valid(asked) THEN IdleCall
        ELSE [entry EXCEPT !.pc = IF asked.kind = "order" THEN "signing" ELSE "params", !.answer = NoList,
                           !.operation = Operation(asked, assetIds)]

\* getInstrumentCache: test the field, await the request, assign the field.
Begin(c) ==
    /\ call[c] = IdleCall /\ Room
    /\ \E i \in DOMAIN accounts, request \in Requests :
          LET entry == [IdleCall EXCEPT !.account = i, !.request = request]
          IN  SetCall(c, IF instrumentCache = NoList THEN [entry EXCEPT !.pc = "fetching"] ELSE Continued(entry, instrumentCache))
    /\ UNCHANGED <<server, auth, lists, sdk>>

ServerLists(c) ==
    /\ call[c].pc = "fetching" /\ call[c].answer = NoList
    /\ SetCall(c, [call[c] EXCEPT !.answer = listed])
    /\ UNCHANGED <<server, auth, lists, sdk>>

StoreList(c) ==
    /\ call[c].pc = "fetching" /\ call[c].answer # NoList
    /\ instrumentCache' = call[c].answer
    /\ SetCall(c, Continued(call[c], call[c].answer))
    /\ UNCHANGED <<server, auth, query, sdk>>

\* getInstruments, and every query that looks instruments up, shares the cache.
BeginQuery ==
    /\ query = NoQuery /\ instrumentCache = NoList
    /\ query' = NoList
    /\ UNCHANGED <<server, auth, instrumentCache, sdk, call>>

QueryListed ==
    /\ query = NoList
    /\ query' \in {listed, NoQuery}   \* or the request fails
    /\ UNCHANGED <<server, auth, instrumentCache, sdk, call>>

EndQuery ==
    /\ query \notin {NoQuery, NoList}
    /\ instrumentCache' = query /\ query' = NoQuery
    /\ UNCHANGED <<server, auth, sdk, call>>

\* A request fails, or whoever signs refuses: the call rejects.
CallFails(c) ==
    /\ call[c].pc \in {"fetching", "params", "signing"}
    /\ SetCall(c, IdleCall)
    /\ UNCHANGED <<server, auth, lists, sdk>>

\* getOperationParams: the last round the operation is valid in.
GetOperationParams(c) ==
    /\ call[c].pc = "params"
    /\ SetCall(c, [call[c] EXCEPT !.pc = "signing", !.lastValid = time + Validity])
    /\ UNCHANGED <<server, auth, lists, sdk>>

\* A withdrawal is always the owner's to sign, a deposit the funder's; the rest
\* is getOperationSigner's.
Sign(c) ==
    /\ call[c].pc = "signing"
    /\ SetCall(c, [call[c] EXCEPT !.pc = "posting",
                      !.signer = IF call[c].request.kind \in {"withdraw", "deposit"} THEN NoKey ELSE accounts[call[c].account].key])
    /\ UNCHANGED <<server, auth, lists, sdk>>

\* The server's checks: an open session, the validity window, and the
\* signature of the owner or of a key delegated to and not expired.
Accepted(c) ==
    LET d == call[c]
    IN  /\ d.request.kind = "deposit" \/ sessions[accounts[d.account].token].live
        /\ d.request.kind = "order" \/ time <= d.lastValid
        /\ d.signer = NoKey \/ \E grant \in delegations : grant.key = d.signer /\ time <= grant.expires

\* The server's verdict is the call's: it resolves once the operation is confirmed, or rejects.
Submit(c) ==
    /\ call[c].pc = "posting"
    /\ SetCall(c, IdleCall)
    /\ UNCHANGED <<server, auth, lists, sdk>>

-----------------------------------------------------------------------------
Next ==
    \/ ListInstrument \/ ClockTicks \/ BeginQuery \/ QueryListed \/ EndQuery
    \/ \E l \in Logins : \/ StartLogin(l) \/ SignNonce(l) \/ CallCompleteLogin(l)
                         \/ ServerCompletes(l) \/ LoginFails(l) \/ GenerateAccountEntity(l)
                         \/ Resume(l) \/ LoginStatus(l)
    \/ \E i \in DOMAIN accounts : Logout(i) \/ RevokeDelegation(i)
    \/ \E c \in Calls : \/ Begin(c) \/ ServerLists(c) \/ StoreList(c) \/ CallFails(c)
                        \/ GetOperationParams(c) \/ Sign(c) \/ Submit(c)

Spec == Init /\ [][Next]_vars

-----------------------------------------------------------------------------
(* Safety.                                                                 *)
\* The assets that come once: for those of a basket that come twice only the last amount is signed.
Once(pairs) == {i \in DOMAIN pairs : \A j \in DOMAIN pairs : pairs[i][1] = pairs[j][1] => i = j}

ServerSlot(assetId) == getSlotId(Snapshot(listed), assetId)

\* What is signed is what was asked for as the server and the contracts read it,
\* whichever list the SDK had by then: every slot is that of the asset asked
\* for, cash flows in the direction the operation says, an order sells what it
\* should and buys what it should, the transfer a funder signs funds the call
\* that credits the asset's slot, and a liquidation takes every amount of its
\* baskets at their assets' slots, but for an asset listed twice (account.ts
\* encodeAndSignPoolMoveOperation, liquidate, createOrderData; c3sdk.ts getSlotId).
SignedAsAsked ==
    \A c \in Calls : call[c].pc \in {"signing", "posting"} =>
        LET asked == call[c].request
            signed == call[c].operation
            slot == ServerSlot(asked.give[1][1])
            amount == asked.give[1][2]
        IN  CASE asked.kind \in {"lend", "repay"}     -> signed = [op |-> "PoolMove", slot |-> slot, amount |-> amount]
              [] asked.kind \in {"redeem", "borrow"}  -> signed = [op |-> "PoolMove", slot |-> slot, amount |-> -amount]
              [] asked.kind = "withdraw" -> signed.slot = slot /\ signed.amount = amount
              [] asked.kind = "deposit"  -> /\ signed.signed.type = "transfer" /\ signed.signed.amount = amount
                                            /\ \E i \in 2..Len(signed.group) : signed.group[i - 1] = signed.signed
                                                                                /\ signed.group[i] = [type |-> "call", slot |-> slot]
              [] asked.kind = "order" -> signed.sell[1] = slot /\ signed.buy[1] = ServerSlot(asked.take[1][1])
              [] asked.kind = "liquidate" ->
                    /\ DOMAIN signed.cash = {ServerSlot(asked.give[i][1]) : i \in DOMAIN asked.give}
                    /\ \A i \in Once(asked.give) : signed.cash[ServerSlot(asked.give[i][1])] = asked.give[i][2]
                    /\ \A i \in Once(asked.take) : signed.pool[ServerSlot(asked.take[i][1])] = asked.take[i][2]

\* What the server would refuse it refuses for a reason the caller can know of:
\* the session was closed, the operation outlived its validity, the key's
\* delegation was revoked, or it outlived what the Account holds to be its
\* expiration.  Whatever overlaps, and however often completeLogin is called, an
\* Account never signs with a key it has no delegation for, nor counts on one for
\* longer than it lasts; and no list the SDK works with, the last or an older
\* one, lacks an asset that was there when the SDK was made (c3sdk.ts login,
\* _loginWithEphemeral, getInstrumentCache).
RefusalsAreExplained ==
    /\ \A c \in Calls : call[c].pc = "posting" =>
          LET account == accounts[call[c].account]
          IN  \/ Accepted(c)
              \/ ~sessions[account.token].live
              \/ call[c].request.kind # "order" /\ time > call[c].lastValid
              \/ call[c].signer \in revoked
              \/ call[c].signer # NoKey /\ time > account.expires
    /\ \A request \in Requests, list \in ({instrumentCache, query} \cup {call[c].answer : c \in Calls}) \ {NoList, NoQuery} :
          Known(request, Snapshot(InitialListed)) => Known(request, Snapshot(list))
=============================================================================
