SPECIFICATION FairSpec
CONSTANTS
    k1 = k1  k2 = k2  qa = qa  qb = qb
    Keys = {k1, k2}
    Queries <- MCQueries
    Requests = {r1, r2}
    Slots = 2
    Results <- Batches
    NoOne = NoOne
    None = None
    TTL = 1
    MaxEntries = 1
    MaxTime = 2
CHECK_DEADLOCK FALSE
INVARIANTS
    BaselinesAreComplete
    OneFetchPerKey
    FetchedOnlyIfStale
    NoBaselineMeansCancelledLeader
PROPERTIES
    EveryRequestAnswered
