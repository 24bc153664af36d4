--------------------------- MODULE ExpirableCache ---------------------------
(***************************************************************************)
(* ExpirableCache (packages/common/src/tools/cache.ts): get() reads the    *)
(* clock, decides, awaits the data provider and then stores the value with *)
(* the time it read before the await. Several get() calls may be in        *)
(* flight, their fetches may be answered in any order or fail, and         *)
(* forceExpiration() may run between two steps of one.                     *)
(*                                                                         *)
(* A value is modelled by the time at which the provider's source was      *)
(* read, so an older value is a smaller number.                            *)
(***************************************************************************)
EXTENDS Integers

CONSTANTS
    Callers,        \* concurrent get() calls
    Caches,         \* cache objects
    Expiration,     \* expirationTimeInMillis of a cache that expires
    MaxTime,        \* bound of the clock
    None

ASSUME CachesAssumption == Caches # {}
ASSUME TimesAssumption == Expiration \in Nat \ {0} /\ MaxTime \in Nat \ {0}
ASSUME NoneAssumption == None \notin Int

VARIABLES
    clock,
    expirationTimeInMillis, \* of all caches: Expiration, or 0 for ever
    data,           \* cache -> data[0], None while undefined
    lastUpdate,     \* cache -> time of the last update, 0 for "fetch"
    pc,             \* caller -> "idle", "fetching" or "answered"
    cacheOf,        \* caller -> the cache whose get() it runs
    now,            \* caller -> the clock at the start of its get()
    answer,         \* caller -> the provider's answer on its way
    result,         \* caller -> what its last get() returned, None if it threw
    forcedAt,       \* history: cache -> last forceExpiration() with no fetch in flight
    cleanSince      \* history: caller -> forcedAt of its cache when its get() began

caches == <<data, lastUpdate>>
callVars == <<pc, cacheOf, now, answer, result>>
history == <<forcedAt, cleanSince>>
vars == <<clock, expirationTimeInMillis, caches, callVars, history>>

Time == 0..MaxTime

TypeOK ==
    /\ clock \in Time
    /\ expirationTimeInMillis \in {0, Expiration}
    /\ data \in [Caches -> Time \cup {None}]
    /\ lastUpdate \in [Caches -> Time]
    /\ pc \in [Callers -> {"idle", "fetching", "answered"}]
    /\ cacheOf \in [Callers -> Caches]
    /\ now \in [Callers -> Time]
    /\ answer \in [Callers -> Time \cup {None}]
    /\ result \in [Callers -> Time \cup {None}]
    /\ forcedAt \in [Caches -> Time]
    /\ cleanSince \in [Callers -> Time]
    /\ \A k \in Caches : lastUpdate[k] # 0 => data[k] # None

\* Date.now() is never 0, the value of lastUpdate that stands for "fetch".
Init ==
    /\ clock = 1
    /\ expirationTimeInMillis \in {0, Expiration}
    /\ data = [k \in Caches |-> None]
    /\ lastUpdate = [k \in Caches |-> 0]
    /\ pc = [c \in Callers |-> "idle"]
    /\ cacheOf = [c \in Callers |-> CHOOSE k \in Caches : TRUE]
    /\ now = [c \in Callers |-> 0]
    /\ answer = [c \in Callers |-> None]
    /\ result = [c \in Callers |-> None]
    /\ forcedAt = [k \in Caches |-> 0]
    /\ cleanSince = [c \in Callers |-> 0]

\* lastUpdate === 0 || (isExpirable && (now - lastUpdate) > expirationTime)
IsExpired(k) ==
    \/ lastUpdate[k] = 0
    \/ expirationTimeInMillis > 0 /\ clock - lastUpdate[k] > expirationTimeInMillis

InFlight(k) == {c \in Callers : pc[c] # "idle" /\ cacheOf[c] = k}

\* get() on cache k up to its await. A cached value is returned at once.
Get(c, k) ==
    /\ pc[c] = "idle"
    /\ cacheOf' = [cacheOf EXCEPT ![c] = k]
    /\ now' = [now EXCEPT ![c] = clock]
    /\ cleanSince' = [cleanSince EXCEPT ![c] = forcedAt[k]]
    /\ \/ IsExpired(k) /\ pc' = [pc EXCEPT ![c] = "fetching"] /\ UNCHANGED result
       \/ ~IsExpired(k) /\ result' = [result EXCEPT ![c] = data[k]] /\ UNCHANGED pc
    /\ UNCHANGED <<clock, expirationTimeInMillis, caches, answer, forcedAt>>

\* External: the provider reads its source some time after the request.
ProviderAnswers(c) ==
    /\ pc[c] = "fetching"
    /\ pc' = [pc EXCEPT ![c] = "answered"]
    /\ answer' = [answer EXCEPT ![c] = clock]
    /\ UNCHANGED <<clock, expirationTimeInMillis, caches, cacheOf, now, result, history>>

\* data[0] = await dataProvider(); lastUpdate = now; return data[0]
Update(c, updatedAt) ==
    /\ pc[c] = "answered"
    /\ data' = [data EXCEPT ![cacheOf[c]] = answer[c]]
    /\ lastUpdate' = [lastUpdate EXCEPT ![cacheOf[c]] = updatedAt]
    /\ result' = [result EXCEPT ![c] = answer[c]]
    /\ pc' = [pc EXCEPT ![c] = "idle"]
    /\ answer' = [answer EXCEPT ![c] = None]
    /\ UNCHANGED <<clock, expirationTimeInMillis, cacheOf, now, history>>

StoreAtResume(c) == Update(c, clock)    \* mutant: the clock is read after the await

StoreAnswer(c) == Update(c, now[c])

\* The provider rejects: get() throws and the cache stays as it was.
ProviderFails(c) ==
    /\ pc[c] \in {"fetching", "answered"}
    /\ pc' = [pc EXCEPT ![c] = "idle"]
    /\ answer' = [answer EXCEPT ![c] = None]
    /\ result' = [result EXCEPT ![c] = None]
    /\ UNCHANGED <<clock, expirationTimeInMillis, caches, cacheOf, now, history>>

ForceOnlyIfExpirable(k) ==  \* mutant: a cache without expiration ignores the force
    /\ lastUpdate' = [lastUpdate EXCEPT ![k] = IF expirationTimeInMillis = 0 THEN @ ELSE 0]
    /\ forcedAt' = [forcedAt EXCEPT ![k] = IF InFlight(k) = {} THEN clock ELSE forcedAt[k]]
    /\ UNCHANGED <<clock, expirationTimeInMillis, data, callVars, cleanSince>>

ForceExpiration(k) ==
    /\ lastUpdate' = [lastUpdate EXCEPT ![k] = 0]
    /\ forcedAt' = [forcedAt EXCEPT ![k] = IF InFlight(k) = {} THEN clock ELSE forcedAt[k]]
    /\ UNCHANGED <<clock, expirationTimeInMillis, data, callVars, cleanSince>>

Tick ==
    /\ clock < MaxTime
    /\ clock' = clock + 1
    /\ UNCHANGED <<expirationTimeInMillis, caches, callVars, history>>

CallStep(c) == ProviderAnswers(c) \/ StoreAnswer(c) \/ ProviderFails(c)

Next ==
    \/ \E c \in Callers : CallStep(c) \/ \E k \in Caches : Get(c, k)
    \/ \E k \in Caches : ForceExpiration(k)
    \/ Tick

Spec == Init /\ [][Next]_vars

----------------------------------------------------------------------------

\* A value that get() returns was read from the source no more than
\* expirationTimeInMillis before that get() began, even when a slow fetch of an
\* older get() overwrites a newer value.
BoundedStaleness ==
    \A c \in Callers :
        pc[c] = "idle" /\ result[c] # None /\ expirationTimeInMillis > 0 =>
            result[c] >= now[c] - expirationTimeInMillis

\* Once forceExpiration() has run with no fetch in flight, no later get()
\* returns a value read before it, whatever fetches follow. (A fetch in flight
\* undoes the force: it stores its value and its time when it resumes.)
ForceIsObserved ==
    \A c \in Callers :
        pc[c] = "idle" /\ result[c] # None => result[c] >= cleanSince[c]
==============================================================================
