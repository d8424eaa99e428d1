SPECIFICATION CacheSpec
CONSTANTS
    Keys = {k1, k2, k3, k4}
    Results = {r1, r2}
    TTL = 2
    MaxEntries = 3
    MaxTime = 6
SYMMETRY Symmetry
INVARIANTS
    CapacityRespected
PROPERTIES
    LiveEntriesSurvive
