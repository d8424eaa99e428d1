SPECIFICATION Spec
CONSTANTS
    Kinds = {"eks", "ec2", "flow", "http", "tcp-db", "amqp", "kafka", "grpc"}
    Names = {"x", "y"}
    Polled <- MCPolled
    SlaDefaults = {"rps", "cpu", "db"}
INVARIANTS
    RowsAreMeasured
    ChartAsksTheSame
    DotHasItsCause
