SPECIFICATION Spec
CONSTANTS
    f1 = f1
    f2 = f2
    Tabs = {t1, t2}
    Flows <- MCFlows
    Jobs = {"delete", "again", "refer", "node", "create"}
    Kind <- MCKind
    Target <- MCTarget
    Template = Template
    First = "first"
    Referring = {f1}
    Ref = "ref"
    Unused = "unused"
    Absent = "absent"
    Nobody = Nobody
CHECK_DEADLOCK FALSE
INVARIANTS
    RefsResolve
PROPERTIES
    RenderingKept
