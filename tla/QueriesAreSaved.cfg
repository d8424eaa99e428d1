SPECIFICATION Spec
CONSTANTS
    a = a
    b = b
    custom = custom
    Kinds = {"eks-service", "external", "http-json", "http-xml", "tcp-db", "amqp", "kafka", "grpc"}
    SlotsOf <- MCSlots
    MetricFields = {"query", "dataSource", "sla"}
    Needed = {"query"}
    Values = {a, b}
    Null = Null
    Blank = Blank
    NoTemplate = NoTemplate
    Entries <- MCEntries
    Templates <- MCTemplates
    MaxSaves = 2
CHECK_DEADLOCK FALSE
PROPERTY QueriesAreSaved
