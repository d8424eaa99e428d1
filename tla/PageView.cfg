SPECIFICATION MCSpec
CONSTANTS
    Browsers = {1}
    Charts = {"metric", "pods"}
    Ranges <- MCRanges
    Slots = 1
    MaxFetches = 2
    Flows = {"a", "b"}
    Sequenced = {"a"}
    Spots = {"left", "right"}
    MaxDrags = 1
    MaxOthers = 1
    ed = ed
    eve = eve
    guest = guest
    root = root
    Users = {ed, eve, guest, root}
    Nobody = Nobody
    Role <- MCRole
    ServerAdmins = {root}
    SignedIn = {ed, eve, root}
    Emails = {"Ed@x", "ed@x", "eve@x"}
    Email <- MCEmail
    Normal <- MCNormal
    Unreadable = Unreadable
    MaxSaves = 2
CHECK_DEADLOCK FALSE
INVARIANTS
    ShownIsPicked
    CanvasIsLocal
    OffersAreHonoured
PROPERTIES
    ChartsSettle
    CardsStay
    SavedIsRestored
