SPECIFICATION FairSpec
CONSTANTS
    Requests = {r1, r2}
    Saves = {s1}
    flow = flow  node = node  edge = edge
    Resources <- MCResources
    Rank <- MCRank
    Ops <- MCOps
    Users = {editor}
    Admins = {}
    Editors = {editor}
    open = open
    Configs = {open, closed}
    AllowList <- MCAllowList
    Seed = Seed
    NoValue = NoValue
    MaxInstances = 2
CHECK_DEADLOCK FALSE
PROPERTIES
    EveryRequestEnds
    ImplementsDurableStore
INVARIANTS
    SavedWasServed
    SerialEditsAreSaved
    SerialEditsKeepConfig
    RefusedWritesNothing
    AnsweredImportsWereWhole
