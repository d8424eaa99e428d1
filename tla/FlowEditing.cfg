SPECIFICATION FairSpec
CONSTANTS
    flow = flow
    new = new
    Tabs = {t1, t2}
    Docs = {flow, new}
    Edits <- SharedEdits
    Steps <- MCSteps
    Replaced <- MCReplaced
    Deletions <- MCDeletions
    Layouts <- MCLayouts
    Seed = Seed
    Existing = {flow}
    Nothing = Nothing
CHECK_DEADLOCK FALSE
INVARIANTS
    PageIsCurrent
    WaitedEditsAreKept
    RefsResolve
PROPERTIES
    LoadsGoForward
    LoadingEnds
