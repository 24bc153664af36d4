------------------------------ MODULE LRUCache ------------------------------
(***************************************************************************)
(* LRUCache (packages/common/src/tools/cache.ts): a Map from keys to       *)
(* ExpirableCaches that holds at most maxItems entries. get(key) finds or  *)
(* creates the key's cache, evicting an entry if the map is full, and      *)
(* returns that cache's get(). A call may still be fetching into a cache   *)
(* whose entry has been evicted, while its key has a new entry.            *)
(***************************************************************************)
EXTENDS ExpirableCache, Sequences

CONSTANTS Keys, MaxItems

ASSUME MaxItemsAssumption == MaxItems \in Nat \ {0}

VARIABLES
    entries,    \* the Map in insertion order: [key, cache, insertedAt]
    created     \* cache objects created so far; Caches bounds their number

lruVars == <<entries, created>>
allVars == <<vars, lruVars>>

LruInit == Init /\ entries = <<>> /\ created = {}

HasKey(key) == \E i \in DOMAIN entries : entries[i].key = key

CacheFor(key) == (CHOOSE e \in {entries[i] : i \in DOMAIN entries} : e.key = key).cache

RecycledCache == CHOOSE k \in Caches : TRUE  \* mutant: keys share a cache object

\* new ExpirableCache(...)
NewCache == CHOOSE k \in Caches : k \notin created

\* The reduce compares `_lastUpdate` of two entries without calling it: one
\* method with itself, never less. The first entry of the Map stays the result.
OldestEntryIndex == 1

KeptOffByOne ==  \* mutant: evicts only once the map is over its limit
    IF Len(entries) > MaxItems THEN Tail(entries) ELSE entries

\* What is left after the eviction, if the map is full.
Kept ==
    IF Len(entries) >= MaxItems
    THEN [i \in 1..(Len(entries) - 1) |->
            IF i < OldestEntryIndex THEN entries[i] ELSE entries[i + 1]]
    ELSE entries

GetKnown(c, key) ==
    /\ HasKey(key)
    /\ Get(c, CacheFor(key))
    /\ UNCHANGED lruVars

GetNew(c, key) ==
    /\ ~HasKey(key)
    /\ created # Caches
    /\ entries' = Append(Kept, [key |-> key, cache |-> NewCache, insertedAt |-> clock])
    /\ created' = created \cup {NewCache}
    /\ Get(c, NewCache)

LruNext ==
    \/ \E c \in Callers : \/ CallStep(c) /\ UNCHANGED lruVars
                          \/ \E key \in Keys : GetKnown(c, key) \/ GetNew(c, key)
    \/ Tick /\ UNCHANGED lruVars

LruSpec == LruInit /\ [][LruNext]_allVars

----------------------------------------------------------------------------

\* The map never holds more than maxItems entries, nor two for one key, with
\* any number of get() calls suspended in it.
MapBounded ==
    /\ Len(entries) <= MaxItems
    /\ \A i, j \in DOMAIN entries : entries[i].key = entries[j].key => i = j

\* An entry that was evicted and inserted again starts over: a fetch still in
\* flight for the evicted one cannot put an older value into the new one.
ReinsertedStartsOver ==
    \A i \in DOMAIN entries :
        LET e == entries[i] IN data[e.cache] # None => data[e.cache] >= e.insertedAt

\* cache.ts: "Remove the oldest entry based on _lastUpdate". An evicted entry is
\* no younger than any other that has been fetched. The code evicts the entry
\* inserted first, even if it was refreshed after the others.
EvictsOldestUpdate ==
    [][\A i \in DOMAIN entries :
            (\A j \in DOMAIN entries' : entries'[j] # entries[i]) =>
                \A j \in DOMAIN entries : lastUpdate[entries[j].cache] # 0 =>
                    lastUpdate[entries[i].cache] <= lastUpdate[entries[j].cache]]_allVars
==============================================================================
