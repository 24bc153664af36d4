--------------------------- MODULE AccountOrders ---------------------------
(***************************************************************************)
(* Creating orders on one Account (packages/sdk/src/entities/account.ts):  *)
(* createOrder and createOrders look up the market, build and sign their   *)
(* orders one after the other, and submit them in one request. Several     *)
(* such calls overlap at their awaits. The nonce of an order comes from    *)
(* Date.now() and the account's lastStoredDate; its expiration is capped   *)
(* by the account's maxOrderExpiresOn, computed once by the constructor.   *)
(* Date.now() is the wall clock: it may be set back.                       *)
(***************************************************************************)
EXTENDS Integers, Sequences, FiniteSetsExt

CONSTANTS
    Callers,            \* concurrent createOrder(s) calls
    MilisInSecond,      \* MILISECONDS_IN_SECOND
    DefaultExpiry,      \* DEFAULT_ORDER_EXPIRY_IN_SECONDS
    Expirations,        \* expirations a session, delegation or order may have
    NoExpiration,       \* none given
    StartTime,          \* when the Account is constructed
    MaxBatch,           \* bound: orders of one call
    MaxOrders,          \* bound: orders ever built
    MaxTime             \* bound: the clock

ASSUME ConstantsAssumption ==
    /\ MilisInSecond \in Nat \ {0} /\ DefaultExpiry \in Nat
    /\ Expirations \subseteq Nat \ {0} /\ NoExpiration \notin Int
    /\ MaxBatch \in Nat /\ MaxOrders \in Nat
    /\ MaxTime \in Nat /\ StartTime \in 0..MaxTime

VARIABLES
    clock,                  \* Date.now()
    sessionExpirations,     \* those given of the ephemeral key and the delegation
    maxOrderExpiresOn,
    lastStoredDate,
    pc,         \* caller -> "idle", "market", "build", "sign" or "submit"
    toBuild,    \* caller -> orders of its batch not yet built
    batch,      \* caller -> orders built so far
    built,      \* history: every order that got a nonce, in that order
    received    \* external: the requests the server has received

constants == <<sessionExpirations, maxOrderExpiresOn>>
callVars == <<pc, toBuild, batch>>
vars == <<clock, constants, lastStoredDate, callVars, built, received>>

Time == 0..MaxTime
Seconds(milis) == milis \div MilisInSecond

\* What createOrderData fixes of an order before it is signed. Requested is the
\* expiration asked for, createdAt the clock its validation used.
Order == [nonce : Nat, requested : Nat, expiresOn : Nat, createdAt : Time]

TypeOK ==
    /\ clock \in Time
    /\ sessionExpirations \subseteq Expirations
    /\ maxOrderExpiresOn \in Nat
    /\ lastStoredDate \in Nat
    /\ pc \in [Callers -> {"idle", "market", "build", "sign", "submit"}]
    /\ toBuild \in [Callers -> 0..MaxBatch]
    /\ batch \in [Callers -> Seq(Order)]
    /\ built \in Seq(Order)
    /\ received \subseteq Seq(Order)
    /\ \A c \in Callers : pc[c] = "submit" => toBuild[c] = 0 /\ batch[c] # <<>>

\* Math.min(defaultOrderExpiration(), ephemeralExpiration, operateOnExpiration)
ExpirationCap == Min({Seconds(clock) + DefaultExpiry} \cup sessionExpirations)

Init ==
    /\ clock = StartTime
    /\ \E ephemeralExpiration, operateOnExpiration \in Expirations \cup {NoExpiration} :
          sessionExpirations = {ephemeralExpiration, operateOnExpiration} \ {NoExpiration}
    /\ maxOrderExpiresOn = ExpirationCap
    /\ lastStoredDate = clock
    /\ pc = [c \in Callers |-> "idle"]
    /\ toBuild = [c \in Callers |-> 0]
    /\ batch = [c \in Callers |-> <<>>]
    /\ built = <<>>
    /\ received = {}

----------------------------------------------------------------------------

CreateKeepsBatch(c, n) ==  \* mutant: newOrders is a field, not a local of the call
    /\ pc[c] = "idle"
    /\ pc' = [pc EXCEPT ![c] = "market"]
    /\ toBuild' = [toBuild EXCEPT ![c] = n]
    /\ batch' = [batch EXCEPT ![c] = IF received = {} THEN <<>> ELSE CHOOSE r \in received : TRUE]
    /\ UNCHANGED <<clock, constants, lastStoredDate, built, received>>

\* createOrder (a batch of one) or createOrders, up to findMarketInfoOrFail.
CreateOrders(c, n) ==
    /\ pc[c] = "idle"
    /\ pc' = [pc EXCEPT ![c] = "market"]
    /\ toBuild' = [toBuild EXCEPT ![c] = n]
    /\ batch' = [batch EXCEPT ![c] = <<>>]
    /\ UNCHANGED <<clock, constants, lastStoredDate, built, received>>

\* An empty batch is refused in the end: CallFails covers it.
MarketFound(c) ==
    /\ pc[c] = "market"
    /\ toBuild[c] > 0
    /\ pc' = [pc EXCEPT ![c] = "build"]
    /\ UNCHANGED <<clock, constants, lastStoredDate, toBuild, batch, built, received>>

NonceFromClock == clock     \* mutant: no memory of the last nonce

\* if (lastStoredDate < now) lastStoredDate = now else lastStoredDate++
NextNonce == IF lastStoredDate < clock THEN clock ELSE lastStoredDate + 1

UncappedExpiration(requested) == requested  \* mutant

\* We are using the minimum between the expiration of the order and ...
CappedExpiration(requested) == Min({requested, maxOrderExpiresOn})

\* validateOrder: order.expiresOn && order.expiresOn * MILISECONDS_IN_SECOND < now
ExpiresBeforeCreation(expiresOn) == expiresOn # 0 /\ expiresOn * MilisInSecond < clock

\* createOrderData up to its first await. The nonce is taken before the order is
\* validated, and the order in the batch is dropped with the call if it is not valid.
BuildOrder(c, requested) ==
    /\ pc[c] = "build"
    /\ Len(built) < MaxOrders
    /\ LET order == [nonce |-> NextNonce, requested |-> requested,
                     expiresOn |-> CappedExpiration(requested), createdAt |-> clock]
       IN  /\ lastStoredDate' = order.nonce
           /\ built' = Append(built, order)
           /\ IF ExpiresBeforeCreation(order.expiresOn)
              THEN /\ pc' = [pc EXCEPT ![c] = "idle"]
                   /\ toBuild' = [toBuild EXCEPT ![c] = 0]
                   /\ batch' = [batch EXCEPT ![c] = <<>>]
              ELSE /\ pc' = [pc EXCEPT ![c] = "sign"]
                   /\ toBuild' = [toBuild EXCEPT ![c] = @ - 1]
                   /\ batch' = [batch EXCEPT ![c] = Append(@, order)]
    /\ UNCHANGED <<clock, constants, received>>

SubmitAfterFirst(c) ==  \* mutant: does not wait for the whole batch
    /\ pc[c] = "sign"
    /\ pc' = [pc EXCEPT ![c] = "submit"]
    /\ UNCHANGED <<clock, constants, lastStoredDate, toBuild, batch, built, received>>

\* The slot lookups and the signature have been awaited.
OrderSigned(c) ==
    /\ pc[c] = "sign"
    /\ pc' = [pc EXCEPT ![c] = IF toBuild[c] > 0 THEN "build" ELSE "submit"]
    /\ UNCHANGED <<clock, constants, lastStoredDate, toBuild, batch, built, received>>

EndCall(c) ==
    /\ pc' = [pc EXCEPT ![c] = "idle"]
    /\ toBuild' = [toBuild EXCEPT ![c] = 0]
    /\ batch' = [batch EXCEPT ![c] = <<>>]
    /\ UNCHANGED <<clock, constants, lastStoredDate, built>>

\* A lookup or the signer rejects, a market does not match, a request is lost.
CallFails(c) ==
    /\ pc[c] # "idle"
    /\ EndCall(c)
    /\ UNCHANGED received

\* submitNewOrders: the whole batch in one request.
ServerReceives(c) ==
    /\ pc[c] = "submit"
    /\ received' = received \cup {batch[c]}
    /\ EndCall(c)

\* The wall clock runs, or is set to any other time.
ClockMoves ==
    /\ clock' \in Time \ {clock}
    /\ UNCHANGED <<constants, lastStoredDate, callVars, built, received>>

\* An expiration given by the caller, the default one, or 0: not checked at all.
Requests == Expirations \cup {Seconds(clock) + DefaultExpiry, 0}

Next ==
    \/ \E c \in Callers :
        \/ \E n \in 0..MaxBatch : CreateOrders(c, n)
        \/ MarketFound(c)
        \/ \E requested \in Requests : BuildOrder(c, requested)
        \/ OrderSigned(c) \/ CallFails(c) \/ ServerReceives(c)
    \/ ClockMoves

Spec == Init /\ [][Next]_vars

----------------------------------------------------------------------------

\* Every order of the account gets a larger nonce than all orders before it,
\* however calls overlap, within one milisecond and when the clock is set back.
NoncesIncrease ==
    \A i, j \in DOMAIN built : i < j => built[i].nonce < built[j].nonce

\* No order the server receives outlives the session or the delegation that
\* signed it, nor had it expired when it was built. (Expiration 0, which the
\* caller may ask for, is let through by validateOrder.)
ReceivedWithinSession ==
    \A request \in received : \A i \in DOMAIN request :
        LET order == request[i]
        IN  /\ \A e \in sessionExpirations : order.expiresOn <= e
            /\ order.expiresOn # 0 => order.expiresOn * MilisInSecond >= order.createdAt

\* A request lists its orders in the order they were asked for, and no order is
\* in two requests: batches built at the same time do not mix.
BatchesDoNotMix ==
    /\ \A r \in received : \A i, j \in DOMAIN r : i < j => r[i].nonce < r[j].nonce
    /\ \A r, s \in received : \A i \in DOMAIN r, j \in DOMAIN s : r[i] = s[j] => r = s

\* account.ts: "We are using the minimum between the expiration of the order and
\* the expiration of the session". The cap is also the default expiration at the
\* time the Account was constructed, 90 days after it.
CappedBySessionOnly ==
    sessionExpirations # {} =>
        \A i \in DOMAIN built :
            built[i].expiresOn = Min({built[i].requested} \cup sessionExpirations)
==============================================================================
