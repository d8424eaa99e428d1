---------------------------- MODULE BaselineCache ----------------------------
(***************************************************************************)
(* The TTL cache of the Go backend's week-ago query results (cache.go).    *)
(* Get and Set each hold the cache's lock, so each is one step; Set purges *)
(* what has expired and makes room before it stores.  Time passes freely   *)
(* between them, up to the bound MaxTime.                                  *)
(***************************************************************************)
EXTENDS Naturals, FiniteSets, Functions

CONSTANTS
    Keys,         \* hashes of a request's queries and datasource UIDs
    Results,      \* what a fetch may return
    TTL,          \* lifetime of an entry
    MaxEntries,   \* maxCacheEntries
    MaxTime       \* bound: the latest moment of a behaviour

ASSUME CacheAssumption ==
    /\ TTL \in Nat
    /\ MaxEntries \in Nat \ {0}
    /\ MaxTime \in Nat

VARIABLES
    entries,      \* BaselineCache.entries: a function on the keys it holds
    now           \* time.Now()

cacheVars == <<entries, now>>

Entry == [results : Results, expiresAt : Nat]

CacheTypeOK ==
    /\ DOMAIN entries \subseteq Keys
    /\ entries \in [DOMAIN entries -> Entry]
    /\ now \in Nat

\* An entry is served until the moment of its expiry, that moment included.
Expired(k) == now > entries[k].expiresAt

\* The keys Get finds.
Fresh == {k \in DOMAIN entries : ~Expired(k)}

CacheInit ==
    /\ entries = [k \in {} |-> 0]
    /\ now = 0

Newest(ks) ==
    {k \in ks : \A j \in ks : entries[k].expiresAt >= entries[j].expiresAt}
Oldest(ks) ==
    {k \in ks : \A j \in ks : entries[k].expiresAt <= entries[j].expiresAt}

\* The keys that may be left once Set has made room: at capacity the entry closest
\* to its expiry goes, any of several, even when the key to store is in the cache.
NoEviction(ks) == {ks}
Room(ks) ==
    IF Cardinality(ks) >= MaxEntries THEN {ks \ {k} : k \in Oldest(ks)} ELSE {ks}

ExpiryOfNew == now + TTL

\* Set(key, results).
SetEntry(k, res) ==
    /\ \E left \in Room(Fresh) :
        entries' = [j \in left \cup {k} |->
                        IF j = k THEN [results |-> res, expiresAt |-> ExpiryOfNew]
                                 ELSE entries[j]]
    /\ UNCHANGED now

Tick ==
    /\ now < MaxTime
    /\ now' = now + 1
    /\ UNCHANGED entries

CacheNext == Tick \/ \E k \in Keys, res \in Results : SetEntry(k, res)

CacheSpec == CacheInit /\ [][CacheNext]_cacheVars

-----------------------------------------------------------------------------
(* Properties                                                                *)

\* However many Sets are made, the cache never holds more than its capacity.
CapacityRespected == IsFiniteSet(DOMAIN entries) /\ Cardinality(DOMAIN entries) <= MaxEntries

\* A live entry is lost only to a full cache, and then it is one that would have
\* expired first; at most one is lost at a time.
LiveEntriesSurvive ==
    [][\A k \in Fresh :
        k \notin DOMAIN entries'
          => /\ Cardinality(Fresh) >= MaxEntries
             /\ \A j \in Fresh \ {k} :
                  /\ entries[k].expiresAt <= entries[j].expiresAt
                  /\ j \in DOMAIN entries']_cacheVars
=============================================================================
