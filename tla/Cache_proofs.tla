----------------------------- MODULE Cache_proofs -----------------------------
(***************************************************************************)
(* Proofs about cache.ts for any number of callers, caches, keys and       *)
(* entries, any expiration and any clock bound. ExpirableCache: type        *)
(* correctness, the bound on the age of what get() returns, and that a      *)
(* force with nothing in flight holds. LRUCache: it implements the caches   *)
(* it is made of, it stays within its limit, and an evicted cache cannot    *)
(* reach the one that replaced it.                                         *)
(***************************************************************************)
EXTENDS LRUCache, SequenceTheorems, TLAPS


\* A cached value is as new as the time stored with it and as the last force.
CacheOK(k) ==
    /\ lastUpdate[k] <= clock /\ forcedAt[k] <= clock
    /\ lastUpdate[k] # 0 => data[k] >= lastUpdate[k] /\ data[k] >= forcedAt[k]

\* A get() in flight began no earlier than the last force, and its answer was
\* read after it began.
CallOK(c) ==
    /\ now[c] <= clock
    /\ pc[c] # "idle" => now[c] >= forcedAt[cacheOf[c]] /\ now[c] >= cleanSince[c]
    /\ pc[c] = "answered" => answer[c] # None /\ answer[c] >= now[c]

IInv ==
    /\ TypeOK
    /\ \A k \in Caches : CacheOK(k)
    /\ \A c \in Callers : CallOK(c)
    /\ BoundedStaleness /\ ForceIsObserved

LEMMA TimeInNat == Time \subseteq Nat /\ None \notin Time /\ 0 \in Time
BY TimesAssumption, NoneAssumption DEF Time

LEMMA InitIInv == Init => IInv
<1> SUFFICES ASSUME Init
             PROVE  IInv
  OBVIOUS
<1>1. TypeOK
  BY CachesAssumption, TimesAssumption DEF Init, TypeOK, Time
<1>2. \A k \in Caches : CacheOK(k)
  BY DEF Init, CacheOK
<1>3. \A c \in Callers : CallOK(c)
  <2>1. \A c \in Callers : pc[c] = "idle" /\ now[c] = 0 /\ clock = 1
    BY DEF Init
  <2>2. ASSUME NEW c \in Callers
        PROVE  CallOK(c)
    <3>1. now[c] <= clock
      BY <2>1
    <3>2. pc[c] = "idle"
      BY <2>1
    <3>3. QED
      BY <3>1, <3>2 DEF CallOK
  <2>3. QED
    BY <2>2
<1>4. BoundedStaleness /\ ForceIsObserved
  BY DEF Init, BoundedStaleness, ForceIsObserved
<1>5. QED
  BY <1>1, <1>2, <1>3, <1>4 DEF IInv

\* A hit returns a value that is not too old; a miss begins to fetch.
LEMMA GetKeepsIInv ==
    ASSUME IInv, NEW c \in Callers, NEW k \in Caches, Get(c, k)
    PROVE  IInv'
<1> USE TimeInNat, TimesAssumption DEF IInv, caches, vars
<1>1. TypeOK'
  BY DEF Get, TypeOK
<1>2. \A m \in Caches : CacheOK(m)'
  BY DEF Get, CacheOK
<1>3. \A d \in Callers : CallOK(d)'
  BY DEF Get, CallOK, CacheOK, TypeOK
<1>4. ~IsExpired(k) =>
        /\ data[k] \in Nat /\ data[k] >= forcedAt[k]
        /\ expirationTimeInMillis > 0 => data[k] >= clock - expirationTimeInMillis
  <2>1. SUFFICES ASSUME ~IsExpired(k)
                 PROVE  /\ data[k] \in Nat /\ data[k] >= forcedAt[k]
                        /\ expirationTimeInMillis > 0 =>
                             data[k] >= clock - expirationTimeInMillis
    OBVIOUS
  <2>2. /\ data[k] \in Time /\ lastUpdate[k] \in Time /\ clock \in Time
        /\ data[k] >= lastUpdate[k] /\ data[k] >= forcedAt[k]
    BY <2>1 DEF IsExpired, CacheOK, TypeOK
  <2>3. data[k] \in Nat /\ lastUpdate[k] \in Nat /\ clock \in Nat
        /\ expirationTimeInMillis \in Nat
    BY <2>2 DEF TypeOK
  <2>4. QED
    BY <2>1, <2>2, <2>3 DEF IsExpired
<1>5. BoundedStaleness'
  BY <1>4 DEF Get, BoundedStaleness, TypeOK
<1>6. ForceIsObserved'
  BY <1>4 DEF Get, ForceIsObserved, TypeOK
<1>7. QED
  BY <1>1, <1>2, <1>3, <1>5, <1>6

\* Storing an answer may put back an older value, but never one older than its
\* own get() or than a force that found nothing in flight.
LEMMA CallStepKeepsIInv ==
    ASSUME IInv, NEW c \in Callers, CallStep(c)
    PROVE  IInv'
<1> USE TimeInNat, TimesAssumption DEF IInv, caches, history
<1>1. CASE ProviderAnswers(c)
  <2>1. TypeOK' /\ (\A k \in Caches : CacheOK(k)') /\ \A d \in Callers : CallOK(d)'
    BY <1>1 DEF ProviderAnswers, TypeOK, CacheOK, CallOK
  <2>2. BoundedStaleness' /\ ForceIsObserved'
    BY <1>1 DEF ProviderAnswers, BoundedStaleness, ForceIsObserved, TypeOK
  <2>3. QED
    BY <2>1, <2>2
<1>2. CASE StoreAnswer(c)
  <2> USE <1>2 DEF StoreAnswer, Update
  <2>1. /\ answer[c] \in Time /\ answer[c] >= now[c] /\ now[c] \in Time
        /\ now[c] >= forcedAt[cacheOf[c]] /\ now[c] >= cleanSince[c]
        /\ cacheOf[c] \in Caches
    BY DEF CallOK, TypeOK
  <2>2. TypeOK'
    BY <2>1 DEF TypeOK
  <2>3. \A k \in Caches : CacheOK(k)'
    <3> SUFFICES ASSUME NEW k \in Caches
                 PROVE  CacheOK(k)'
      OBVIOUS
    <3>1. CASE k = cacheOf[c]
      <4>1. /\ data'[k] = answer[c] /\ lastUpdate'[k] = now[c]
            /\ forcedAt'[k] = forcedAt[k] /\ clock' = clock
        BY <3>1 DEF TypeOK
      <4>2. now[c] <= clock /\ forcedAt[k] <= clock /\ clock \in Nat
            /\ answer[c] \in Nat /\ now[c] \in Nat /\ forcedAt[k] \in Nat
        BY <2>1 DEF CallOK, CacheOK, TypeOK
      <4>3. QED
        BY <3>1, <4>1, <4>2, <2>1 DEF CacheOK
    <3>2. CASE k # cacheOf[c]
      BY <3>2 DEF CacheOK, TypeOK
    <3>3. QED
      BY <3>1, <3>2
  <2>4. \A d \in Callers : CallOK(d)'
    BY DEF CallOK, TypeOK
  <2>5. /\ result'[c] = answer[c] /\ answer[c] \in Nat /\ now[c] \in Nat
        /\ cleanSince[c] \in Nat /\ expirationTimeInMillis \in Nat
        /\ \A d \in Callers \ {c} : result'[d] = result[d] /\ pc'[d] = pc[d]
    BY <2>1 DEF TypeOK
  <2>6. BoundedStaleness'
    BY <2>1, <2>5 DEF BoundedStaleness
  <2>7. ForceIsObserved'
    BY <2>1, <2>5 DEF ForceIsObserved
  <2>8. QED
    BY <2>2, <2>3, <2>4, <2>6, <2>7
<1>3. CASE ProviderFails(c)
  <2>1. TypeOK' /\ (\A k \in Caches : CacheOK(k)') /\ \A d \in Callers : CallOK(d)'
    BY <1>3 DEF ProviderFails, TypeOK, CacheOK, CallOK
  <2>2. BoundedStaleness' /\ ForceIsObserved'
    BY <1>3 DEF ProviderFails, BoundedStaleness, ForceIsObserved, TypeOK
  <2>3. QED
    BY <2>1, <2>2
<1>4. QED
  BY <1>1, <1>2, <1>3 DEF CallStep

\* A force only moves forcedAt when no get() of that cache is in flight.
LEMMA ForceKeepsIInv ==
    ASSUME IInv, NEW k \in Caches, ForceExpiration(k)
    PROVE  IInv'
<1> USE TimeInNat DEF IInv, callVars, ForceExpiration
<1>1. TypeOK'
  BY DEF TypeOK
<1>2. \A m \in Caches : CacheOK(m)'
  BY DEF CacheOK, TypeOK
<1>3. \A d \in Callers : CallOK(d)'
  BY DEF CallOK, TypeOK, InFlight
<1>4. BoundedStaleness' /\ ForceIsObserved'
  BY DEF BoundedStaleness, ForceIsObserved
<1>5. QED
  BY <1>1, <1>2, <1>3, <1>4

LEMMA NextKeepsIInv == IInv /\ [Next]_vars => IInv'
<1> SUFFICES ASSUME IInv, [Next]_vars
             PROVE  IInv'
  OBVIOUS
<1>1. CASE UNCHANGED vars
  BY <1>1 DEF vars, caches, callVars, history, IInv, TypeOK, CacheOK, CallOK,
     BoundedStaleness, ForceIsObserved
<1>2. CASE Tick
  <2>1. clock' \in Time /\ clock' = clock + 1
    BY <1>2, TimesAssumption DEF Tick, IInv, TypeOK, Time
  <2> USE <1>2 DEF Tick, caches, callVars, history, IInv
  <2>2. TypeOK'
    BY <2>1 DEF TypeOK
  <2>3. \A k \in Caches : CacheOK(k)'
    <3> SUFFICES ASSUME NEW k \in Caches
                 PROVE  CacheOK(k)'
      OBVIOUS
    <3>1. clock \in Nat /\ lastUpdate[k] \in Nat /\ forcedAt[k] \in Nat
      BY TimeInNat DEF TypeOK
    <3>2. lastUpdate[k] <= clock' /\ forcedAt[k] <= clock'
      BY <2>1, <3>1 DEF CacheOK
    <3>3. QED
      BY <3>2 DEF CacheOK
  <2>4. \A c \in Callers : CallOK(c)'
    <3> SUFFICES ASSUME NEW c \in Callers
                 PROVE  CallOK(c)'
      OBVIOUS
    <3>1. clock \in Nat /\ now[c] \in Nat /\ now[c] <= clock
      BY TimeInNat DEF TypeOK, CallOK
    <3>2. now[c] <= clock'
      BY <2>1, <3>1
    <3>3. QED
      BY <3>2 DEF CallOK
  <2>5. BoundedStaleness' /\ ForceIsObserved'
    BY DEF BoundedStaleness, ForceIsObserved
  <2>6. QED
    BY <2>2, <2>3, <2>4, <2>5
<1>3. QED
  BY <1>1, <1>2, GetKeepsIInv, CallStepKeepsIInv, ForceKeepsIInv DEF Next

\* Every reachable state satisfies the inductive invariant.
THEOREM CacheInvariant == Spec => []IInv
BY InitIInv, NextKeepsIInv, PTL DEF Spec

\* A cache that has a time has a value, and get() returns one or throws.
THEOREM TypeCorrect == Spec => []TypeOK
<1>1. IInv => TypeOK
  BY DEF IInv
<1>2. QED
  BY <1>1, CacheInvariant, PTL

\* get() never returns a value older than its expiration, however fetches overlap.
THEOREM StalenessIsBounded == Spec => []BoundedStaleness
<1>1. IInv => BoundedStaleness
  BY DEF IInv
<1>2. QED
  BY <1>1, CacheInvariant, PTL

\* forceExpiration() with nothing in flight hides every value read before it.
THEOREM ForceHolds == Spec => []ForceIsObserved
<1>1. IInv => ForceIsObserved
  BY DEF IInv
<1>2. QED
  BY <1>1, CacheInvariant, PTL

-------------------------------------------------------------------------------
(* The map of caches.                                                       *)

Entry == [key : Keys, cache : Caches, insertedAt : Time]

LruTypeOK == entries \in Seq(Entry) /\ created \subseteq Caches

\* Each entry has a cache of its own, made when it was inserted.
EntriesOwnCaches ==
    /\ \A i \in DOMAIN entries : entries[i].cache \in created /\ entries[i].insertedAt <= clock
    /\ \A i, j \in DOMAIN entries : entries[i].cache = entries[j].cache => i = j

\* A cache not made yet holds nothing, and no get() runs in it.
UnmadeCachesEmpty ==
    \A k \in Caches \ created : data[k] = None /\ \A c \in Callers : pc[c] # "idle" => cacheOf[c] # k

\* A get() in flight began after the entry was inserted that it will store into.
InFlightIsYounger ==
    \A c \in Callers : pc[c] # "idle" =>
        \A i \in DOMAIN entries : entries[i].cache = cacheOf[c] => entries[i].insertedAt <= now[c]

LruIInv ==
    /\ IInv /\ LruTypeOK /\ MapBounded
    /\ EntriesOwnCaches /\ UnmadeCachesEmpty /\ InFlightIsYounger
    /\ ReinsertedStartsOver

LEMMA EntriesAreASequence ==
    LruTypeOK => /\ DOMAIN entries = 1..Len(entries) /\ Len(entries) \in Nat
                 /\ \A i \in DOMAIN entries : /\ entries[i] \in Entry /\ entries[i].key \in Keys
                                              /\ entries[i].cache \in Caches
                                              /\ entries[i].insertedAt \in Time
<1> SUFFICES ASSUME entries \in Seq(Entry)
             PROVE  /\ DOMAIN entries = 1..Len(entries) /\ Len(entries) \in Nat
                    /\ \A i \in DOMAIN entries : /\ entries[i] \in Entry /\ entries[i].key \in Keys
                                                 /\ entries[i].cache \in Caches
                                                 /\ entries[i].insertedAt \in Time
  BY DEF LruTypeOK
<1>1. DOMAIN entries = 1..Len(entries) /\ Len(entries) \in Nat
  BY LenProperties
<1>2. \A i \in DOMAIN entries : entries[i] \in Entry
  BY <1>1, ElementOfSeq
<1>3. QED
  BY <1>1, <1>2 DEF Entry

\* The eviction leaves room for one entry, and the others in their order.
LEMMA KeptHasRoom ==
    ASSUME LruTypeOK, MapBounded
    PROVE  /\ Kept \in Seq(Entry) /\ Len(Kept) < MaxItems
           /\ \E gone \in {0, 1} : \A i \in DOMAIN Kept :
                i + gone \in DOMAIN entries /\ Kept[i] = entries[i + gone]
<1>1. /\ DOMAIN entries = 1..Len(entries) /\ Len(entries) \in Nat /\ Len(entries) <= MaxItems
      /\ \A i \in DOMAIN entries : entries[i] \in Entry
      /\ MaxItems \in Nat /\ MaxItems # 0
  BY EntriesAreASequence, MaxItemsAssumption DEF MapBounded
<1>2. CASE Len(entries) >= MaxItems
  <2> DEFINE n == Len(entries) - 1
             rest == [i \in 1..n |-> entries[i + 1]]
  <2>1. n \in Nat /\ n < MaxItems
    BY <1>1, <1>2
  <2>2. Kept = rest
    BY <1>2 DEF Kept, OldestEntryIndex
  <2>3. \A i \in 1..n : i + 1 \in DOMAIN entries /\ rest[i] = entries[i + 1]
    BY <1>1
  <2> HIDE DEF n
  <2>4. rest \in Seq(Entry) /\ Len(rest) = n /\ DOMAIN rest = 1..n
    BY <1>1, <2>1, <2>3, IsASeq
  <2>5. QED
    BY <2>1, <2>2, <2>3, <2>4
<1>3. CASE ~(Len(entries) >= MaxItems)
  <2>1. Kept = entries /\ Len(entries) < MaxItems
    BY <1>1, <1>3 DEF Kept
  <2>2. \A i \in DOMAIN entries : i + 0 = i
    BY <1>1
  <2>3. QED
    BY <2>1, <2>2 DEF LruTypeOK
<1>4. QED
  BY <1>2, <1>3

\* get() of a known key runs in the cache of that key's entry.
LEMMA KnownCacheIsMade ==
    ASSUME LruTypeOK, EntriesOwnCaches, NEW key, HasKey(key)
    PROVE  CacheFor(key) \in created
<1> DEFINE e == CHOOSE e \in {entries[i] : i \in DOMAIN entries} : e.key = key
<1>1. \E i \in DOMAIN entries : e = entries[i]
  BY DEF HasKey
<1>2. QED
  BY <1>1 DEF CacheFor, EntriesOwnCaches

LEMMA NewCacheIsNew ==
    ASSUME LruTypeOK, created # Caches
    PROVE  NewCache \in Caches \ created
BY DEF LruTypeOK, NewCache

\* A step of the map is a step of its caches, or of none of them.
LEMMA LruStepImplementsStep == LruTypeOK /\ EntriesOwnCaches /\ [LruNext]_allVars => [Next]_vars
<1> SUFFICES ASSUME LruTypeOK, EntriesOwnCaches, [LruNext]_allVars
             PROVE  [Next]_vars
  OBVIOUS
<1>1. ASSUME NEW c \in Callers, NEW key \in Keys, GetKnown(c, key)
      PROVE  Next
  <2>1. CacheFor(key) \in Caches
    BY <1>1, KnownCacheIsMade DEF GetKnown, LruTypeOK
  <2>2. QED
    BY <1>1, <2>1 DEF GetKnown, Next
<1>2. ASSUME NEW c \in Callers, NEW key \in Keys, GetNew(c, key)
      PROVE  Next
  BY <1>2, NewCacheIsNew DEF GetNew, Next
<1>3. CASE UNCHANGED allVars
  BY <1>3 DEF allVars
<1>4. QED
  BY <1>1, <1>2, <1>3 DEF LruNext, Next

LEMMA LruInitIInv == LruInit => LruIInv
<1> SUFFICES ASSUME LruInit
             PROVE  LruIInv
  OBVIOUS
<1>1. entries = <<>> /\ Len(entries) = 0 /\ DOMAIN entries = {} /\ entries \in Seq(Entry)
  BY DEF LruInit
<1>2. UnmadeCachesEmpty
  BY DEF LruInit, Init, UnmadeCachesEmpty
<1>3. IInv
  BY InitIInv DEF LruInit
<1>4. QED
  BY <1>1, <1>2, <1>3, MaxItemsAssumption
     DEF LruInit, LruIInv, LruTypeOK, MapBounded, EntriesOwnCaches, InFlightIsYounger,
         ReinsertedStartsOver

\* get() of a known key leaves the map alone, and begins after its insertion.
LEMMA GetKnownKeepsLruIInv ==
    ASSUME LruIInv, IInv', NEW c \in Callers, NEW key \in Keys, GetKnown(c, key)
    PROVE  LruIInv'
<1> DEFINE k == CacheFor(key)
<1>1. k \in created /\ k \in Caches
  BY KnownCacheIsMade DEF GetKnown, LruIInv, LruTypeOK
<1>2. /\ Get(c, k) /\ UNCHANGED lruVars
      /\ TypeOK /\ LruTypeOK
  BY DEF GetKnown, LruIInv, IInv
<1> HIDE DEF k
<1>3. /\ UNCHANGED <<entries, created, data, clock>>
      /\ cacheOf'[c] = k /\ now'[c] = clock
      /\ \A d \in Callers \ {c} : pc'[d] = pc[d] /\ cacheOf'[d] = cacheOf[d] /\ now'[d] = now[d]
  BY <1>2 DEF Get, TypeOK, lruVars, caches
<1>4. LruTypeOK' /\ MapBounded' /\ EntriesOwnCaches' /\ ReinsertedStartsOver'
  BY <1>3 DEF LruIInv, LruTypeOK, MapBounded, EntriesOwnCaches, ReinsertedStartsOver
<1>5. UnmadeCachesEmpty'
  BY <1>1, <1>3 DEF LruIInv, UnmadeCachesEmpty
<1>6. InFlightIsYounger'
  BY <1>3 DEF LruIInv, EntriesOwnCaches, InFlightIsYounger
<1>7. QED
  BY <1>4, <1>5, <1>6 DEF LruIInv

\* get() of a new key evicts at most the first entry and appends one whose cache
\* is empty and has no get() in flight but this one.
LEMMA GetNewKeepsLruIInv ==
    ASSUME LruIInv, IInv', NEW c \in Callers, NEW key \in Keys, GetNew(c, key)
    PROVE  LruIInv'
<1> DEFINE k == NewCache
           new == [key |-> key, cache |-> k, insertedAt |-> clock]
           n == Len(Kept) + 1
<1>1. /\ TypeOK /\ LruTypeOK /\ MapBounded /\ EntriesOwnCaches
      /\ UnmadeCachesEmpty /\ InFlightIsYounger /\ ReinsertedStartsOver
  BY DEF LruIInv, IInv
<1>2. k \in Caches /\ k \notin created /\ created \subseteq Caches
  BY <1>1, NewCacheIsNew DEF GetNew, LruTypeOK
<1>3. /\ Get(c, k) /\ ~HasKey(key) /\ created' = created \cup {k}
      /\ entries' = Append(Kept, new)
  BY DEF GetNew
<1>4. new \in Entry /\ new.key = key /\ new.cache = k /\ new.insertedAt = clock
  BY <1>1, <1>2 DEF Entry, TypeOK
<1> HIDE DEF k, new
<1>5. PICK gone \in {0, 1} : \A i \in DOMAIN Kept :
        i + gone \in DOMAIN entries /\ Kept[i] = entries[i + gone]
  BY <1>1, KeptHasRoom
<1>6. /\ Kept \in Seq(Entry) /\ Len(Kept) \in Nat /\ n <= MaxItems /\ DOMAIN Kept = 1..Len(Kept)
  BY <1>1, KeptHasRoom, LenProperties, MaxItemsAssumption
<1>7. /\ entries' \in Seq(Entry) /\ Len(entries') = n
      /\ \A i \in 1..Len(Kept) : entries'[i] = Kept[i]
      /\ entries'[n] = new
  BY <1>3, <1>4, <1>6, AppendProperties
<1>8. DOMAIN entries' = DOMAIN Kept \cup {n} /\ n \notin DOMAIN Kept
  <2>1. DOMAIN entries' = 1..n
    BY <1>7, LenProperties
  <2>2. QED
    BY <1>6, <2>1
<1>9. \A i \in DOMAIN entries' : i # n =>
        i \in DOMAIN Kept /\ i + gone \in DOMAIN entries /\ entries'[i] = entries[i + gone]
  BY <1>5, <1>6, <1>7, <1>8
<1>10. \A i, j \in DOMAIN entries' : i # n /\ j # n /\ i + gone = j + gone => i = j
  BY <1>6, <1>9
<1> HIDE DEF n
<1>11. /\ UNCHANGED <<data, clock>>
       /\ cacheOf'[c] = k /\ now'[c] = clock
       /\ \A d \in Callers \ {c} : pc'[d] = pc[d] /\ cacheOf'[d] = cacheOf[d] /\ now'[d] = now[d]
  BY <1>1, <1>3 DEF Get, TypeOK, caches
<1>12. \A i \in DOMAIN entries : entries[i].key # key /\ entries[i].cache # k
  BY <1>1, <1>2, <1>3 DEF HasKey, EntriesOwnCaches
<1>13. LruTypeOK'
  BY <1>2, <1>3, <1>7 DEF LruTypeOK
<1>14. MapBounded'
  <2>1. \A i, j \in DOMAIN entries' : entries'[i].key = entries'[j].key => i = j
    <3>1. ASSUME NEW i \in DOMAIN entries', NEW j \in DOMAIN entries',
                 entries'[i].key = entries'[j].key, i # n, j # n
          PROVE  i = j
      BY <1>1, <1>9, <1>10, <3>1 DEF MapBounded
    <3>2. ASSUME NEW i \in DOMAIN entries', i # n
          PROVE  entries'[i].key # key
      BY <1>9, <1>12, <3>2
    <3>3. QED
      BY <1>4, <1>7, <3>1, <3>2
  <2>2. QED
    BY <1>6, <1>7, <2>1 DEF MapBounded
<1>15. EntriesOwnCaches'
  <2>1. ASSUME NEW i \in DOMAIN entries'
        PROVE  entries'[i].cache \in created' /\ entries'[i].insertedAt <= clock'
    <3>1. CASE i = n
      <4>1. clock <= clock
        BY <1>1, TimeInNat DEF TypeOK
      <4>2. QED
        BY <1>3, <1>4, <1>7, <1>11, <3>1, <4>1
    <3>2. CASE i # n
      BY <1>1, <1>3, <1>9, <1>11, <3>2 DEF EntriesOwnCaches
    <3>3. QED
      BY <3>1, <3>2
  <2>2. \A i, j \in DOMAIN entries' : entries'[i].cache = entries'[j].cache => i = j
    <3>1. ASSUME NEW i \in DOMAIN entries', NEW j \in DOMAIN entries',
                 entries'[i].cache = entries'[j].cache, i # n, j # n
          PROVE  i = j
      BY <1>1, <1>9, <1>10, <3>1 DEF EntriesOwnCaches
    <3>2. ASSUME NEW i \in DOMAIN entries', i # n
          PROVE  entries'[i].cache # k
      BY <1>9, <1>12, <3>2
    <3>3. QED
      BY <1>4, <1>7, <3>1, <3>2
  <2>3. QED
    BY <2>1, <2>2 DEF EntriesOwnCaches
<1>16. UnmadeCachesEmpty'
  BY <1>1, <1>3, <1>11 DEF UnmadeCachesEmpty
<1>17. InFlightIsYounger'
  <2>1. ASSUME NEW d \in Callers \ {c}, pc[d] # "idle", NEW i \in DOMAIN entries',
               entries'[i].cache = cacheOf[d]
        PROVE  entries'[i].insertedAt <= now[d]
    <3>1. CASE i = n
      BY <1>1, <1>2, <1>4, <1>7, <2>1, <3>1 DEF UnmadeCachesEmpty
    <3>2. CASE i # n
      BY <1>1, <1>9, <2>1, <3>2 DEF InFlightIsYounger
    <3>3. QED
      BY <3>1, <3>2
  <2>2. \A i \in DOMAIN entries' : entries'[i].insertedAt <= now'[c]
    BY <1>11, <1>15 DEF EntriesOwnCaches
  <2>3. QED
    BY <1>11, <2>1, <2>2 DEF InFlightIsYounger
<1>18. ReinsertedStartsOver'
  <2>1. ASSUME NEW i \in DOMAIN entries', data[entries'[i].cache] # None
        PROVE  data[entries'[i].cache] >= entries'[i].insertedAt
    <3>1. CASE i = n
      BY <1>1, <1>2, <1>4, <1>7, <2>1, <3>1 DEF UnmadeCachesEmpty
    <3>2. CASE i # n
      BY <1>1, <1>9, <2>1, <3>2 DEF ReinsertedStartsOver
    <3>3. QED
      BY <3>1, <3>2
  <2>2. QED
    BY <1>11, <2>1 DEF ReinsertedStartsOver
<1>19. QED
  BY <1>13, <1>14, <1>15, <1>16, <1>17, <1>18 DEF LruIInv

\* A get() goes on in its cache, whether the cache's entry is still there or not.
LEMMA CallStepKeepsLruIInv ==
    ASSUME LruIInv, IInv', NEW c \in Callers, CallStep(c), UNCHANGED lruVars
    PROVE  LruIInv'
<1>1. /\ TypeOK /\ LruTypeOK /\ MapBounded /\ EntriesOwnCaches
      /\ UnmadeCachesEmpty /\ InFlightIsYounger /\ ReinsertedStartsOver
  BY DEF LruIInv, IInv
<1>2. UNCHANGED <<entries, created, clock, cacheOf, now>>
  BY DEF lruVars, CallStep, ProviderAnswers, StoreAnswer, Update, ProviderFails
<1>3. pc[c] # "idle" /\ \A d \in Callers \ {c} : pc'[d] = pc[d]
  BY <1>1 DEF CallStep, ProviderAnswers, StoreAnswer, Update, ProviderFails, TypeOK
<1>4. LruTypeOK' /\ MapBounded' /\ EntriesOwnCaches' /\ InFlightIsYounger'
  BY <1>1, <1>2, <1>3 DEF LruTypeOK, MapBounded, EntriesOwnCaches, InFlightIsYounger
<1>5. UNCHANGED data \/ (/\ data' = [data EXCEPT ![cacheOf[c]] = answer[c]]
                         /\ pc[c] = "answered")
  BY DEF CallStep, ProviderAnswers, StoreAnswer, Update, ProviderFails, caches
<1>6. UnmadeCachesEmpty'
  BY <1>1, <1>2, <1>3, <1>5 DEF UnmadeCachesEmpty, TypeOK
<1>7. ReinsertedStartsOver'
  <2>1. ASSUME NEW i \in DOMAIN entries, data'[entries[i].cache] # None
        PROVE  data'[entries[i].cache] >= entries[i].insertedAt
    <3>1. entries[i].cache \in Caches /\ entries[i].insertedAt \in Nat
      BY <1>1, EntriesAreASequence, TimeInNat
    <3>2. CASE data'[entries[i].cache] = data[entries[i].cache]
      BY <1>1, <2>1, <3>2 DEF ReinsertedStartsOver
    <3>3. CASE /\ pc[c] = "answered" /\ entries[i].cache = cacheOf[c]
               /\ data'[entries[i].cache] = answer[c]
      <4>1. answer[c] >= now[c] /\ answer[c] \in Nat /\ now[c] \in Nat
        BY <1>1, <3>3, TimeInNat DEF LruIInv, IInv, CallOK, TypeOK
      <4>2. now[c] >= entries[i].insertedAt
        BY <1>1, <3>1, <3>3, <4>1 DEF InFlightIsYounger
      <4>3. QED
        BY <3>1, <3>3, <4>1, <4>2
    <3>4. QED
      BY <1>1, <1>5, <3>1, <3>2, <3>3 DEF TypeOK
  <2>2. QED
    BY <1>2, <2>1 DEF ReinsertedStartsOver
<1>8. QED
  BY <1>4, <1>6, <1>7 DEF LruIInv

LEMMA LruNextKeepsIInv == LruIInv /\ [LruNext]_allVars => LruIInv'
<1> SUFFICES ASSUME LruIInv, [LruNext]_allVars
             PROVE  LruIInv'
  OBVIOUS
<1>1. IInv'
  BY LruStepImplementsStep, NextKeepsIInv DEF LruIInv
<1>2. ASSUME NEW c \in Callers, CallStep(c), UNCHANGED lruVars
      PROVE  LruIInv'
  BY <1>1, <1>2, CallStepKeepsLruIInv
<1>3. ASSUME NEW c \in Callers, NEW key \in Keys, GetKnown(c, key) \/ GetNew(c, key)
      PROVE  LruIInv'
  BY <1>1, <1>3, GetKnownKeepsLruIInv, GetNewKeepsLruIInv
<1>4. CASE Tick /\ UNCHANGED lruVars
  <2>1. /\ UNCHANGED <<entries, created, data, pc, cacheOf, now>>
        /\ clock' = clock + 1 /\ clock \in Nat
    BY <1>4, TimeInNat DEF Tick, lruVars, caches, callVars, LruIInv, IInv, TypeOK
  <2>2. EntriesOwnCaches'
    <3>1. \A i \in DOMAIN entries : entries[i].insertedAt \in Nat
      BY EntriesAreASequence, TimeInNat DEF LruIInv
    <3>2. \A i \in DOMAIN entries : entries[i].insertedAt <= clock'
      BY <2>1, <3>1 DEF LruIInv, EntriesOwnCaches
    <3>3. QED
      BY <2>1, <3>2 DEF LruIInv, EntriesOwnCaches
  <2>3. QED
    BY <1>1, <2>1, <2>2 DEF LruIInv, LruTypeOK, MapBounded, UnmadeCachesEmpty,
       InFlightIsYounger, ReinsertedStartsOver
<1>5. CASE UNCHANGED allVars
  BY <1>1, <1>5 DEF allVars, lruVars, vars, caches, callVars, LruIInv, LruTypeOK, MapBounded,
     EntriesOwnCaches, UnmadeCachesEmpty, InFlightIsYounger, ReinsertedStartsOver
<1>6. QED
  BY <1>2, <1>3, <1>4, <1>5 DEF LruNext

\* Every reachable state of the map satisfies the inductive invariant.
THEOREM MapInvariant == LruSpec => []LruIInv
BY LruInitIInv, LruNextKeepsIInv, PTL DEF LruSpec

\* The map implements the caches it is made of: each of its steps is a step of
\* one of them, or of none, so that what is proved of ExpirableCache holds here.
THEOREM MapImplementsCaches == LruSpec => Spec
<1>1. LruInit => Init
  BY DEF LruInit
<1>2. LruIInv /\ [LruNext]_allVars => [Next]_vars
  BY LruStepImplementsStep DEF LruIInv
<1>3. QED
  BY <1>1, <1>2, MapInvariant, PTL DEF LruSpec, Spec

\* No get() of the map returns a value older than the expiration, whichever
\* entries were evicted while it was in flight.
THEOREM MapStalenessIsBounded == LruSpec => []BoundedStaleness
BY MapImplementsCaches, StalenessIsBounded, PTL

\* The map never exceeds maxItems and has one entry for a key.
THEOREM MapStaysBounded == LruSpec => []MapBounded
<1>1. LruIInv => MapBounded
  BY DEF LruIInv
<1>2. QED
  BY <1>1, MapInvariant, PTL

\* No value from before an entry's insertion is ever found in it.
THEOREM EvictedCannotReturn == LruSpec => []ReinsertedStartsOver
<1>1. LruIInv => ReinsertedStartsOver
  BY DEF LruIInv
<1>2. QED
  BY <1>1, MapInvariant, PTL
=============================================================================
