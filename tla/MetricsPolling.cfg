SPECIFICATION FairSpec
CONSTANTS
    Topologies = {t1, t2, t3}
    NoTopology = NoTopology
    MaxChanges = 5
PROPERTIES
    ShownIsPolled
    MetricsAreKept
INVARIANTS
    OnePollInFlight
    OneLiveInterval
    GraphIsOfShown
    PollingNeverDies
