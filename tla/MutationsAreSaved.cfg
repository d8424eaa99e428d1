SPECIFICATION Spec
CONSTANTS
    Requests = {r1, r2}
    Saves = {}
    flow = flow  node = node  edge = edge
    Resources <- MCResources
    Rank <- MCRank
    Ops <- TwoPuts
    Users = {admin}
    Admins = {admin}
    Editors = {editor}
    open = open
    Configs = {open}
    AllowList <- MCAllowList
    Seed = Seed
    NoValue = NoValue
    MaxInstances = 1
CHECK_DEADLOCK FALSE
INVARIANT MutationsAreSaved
