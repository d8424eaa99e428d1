------------------------------ MODULE MetricCards ------------------------------
(***************************************************************************)
(* The numbers on a card.  From the definition of an entity four parts of  *)
(* the browser derive what they need on their own, and agree by the names  *)
(* of keys only: the visitor emits queries under keys, the assembler reads *)
(* answers by key into the metrics of each variant (aggregate, endpoint,   *)
(* routing key, deployment), the card picks a variant by what is selected, *)
(* and the chart and the query list find a row's query again.              *)
(*                                                                         *)
(* A key is <<scope, metric>>, the scope "base", "agg" or a name, for the  *)
(* prefixes agg:, ep:, rk: and deploy:.  A query is a metric restricted to *)
(* a name, to none ("any"), or to what the definition says of its own.     *)
(* One metric stands for those of its kind: "rps" for rates, "cpu" for     *)
(* cpu and memory, "latency" for latencies, queues, lag and connections,   *)
(* "consumerRps" for the consumer's, "db" for a database and its           *)
(* connection drawn in the card of their only service.                     *)
(***************************************************************************)
EXTENDS Integers, FiniteSets, Functions

CONSTANTS
    Kinds,       \* kinds of entities
    Names,       \* names of deployments, paths and routing keys
    SlaDefaults, \* metrics with default thresholds
    Polled(_)    \* of a set of keys: the answers to their queries that are considered

None == -1
Nodes == {"eks", "ec2", "flow"}

MetricsOf(kind) ==
    CASE kind = "eks" -> {"cpu", "ready", "desired"}
      [] kind = "ec2" -> {"cpu"}
      [] kind = "flow" -> {}
      [] kind \in {"http", "tcp-db", "grpc"} -> {"rps", "latency"}
      [] kind \in {"amqp", "kafka"} -> {"rps", "latency", "consumerRps"}

NamesOf(kind) == IF kind \in {"eks", "http", "amqp"} THEN Names ELSE {}

\* own: usedDeployment, method and path, or the routing key of the publisher.
Owns(kind) == CASE kind = "eks" -> {"none"} \cup Names
                [] kind = "http" -> {"none", "own"}
                [] kind = "amqp" -> {"none", "own"}
                [] OTHER -> {"none"}

Definitions ==
    UNION {[kind : {k}, metrics : SUBSET (MetricsOf(k) \cup {"custom"}), names : SUBSET NamesOf(k),
            own : Owns(k), conOwn : IF k = "amqp" THEN {"none", "conOwn"} ELSE {"none"},
            db : IF k \in {"eks", "ec2"} THEN BOOLEAN ELSE {FALSE}] : k \in Kinds}

\* The first one listed.
First(names) == CHOOSE n \in names : TRUE

-----------------------------------------------------------------------------
(* The visitor                                                               *)

\* What the placeholders of a base query become.
BaseScope(d, m) ==
    LET own == IF d.kind \in Nodes THEN "none" ELSE IF m = "consumerRps" THEN d.conOwn ELSE d.own IN
    IF own = "none" THEN "any" ELSE own

EmitsAggregate(d) ==
    \/ d.kind = "http" /\ (d.own # "none" \/ d.names # {})
    \/ d.kind = "amqp" /\ d.names # {} /\ d.own # "none"

VisitDefinitionQueries(d) ==
    LET named == IF d.kind = "eks" THEN d.metrics ELSE d.metrics \ {"custom"}
        keys == ({"base"} \X (d.metrics \cup (IF d.db THEN {"db"} ELSE {})))
                  \cup (IF EmitsAggregate(d) THEN {"agg"} \X (d.metrics \ {"custom"}) ELSE {})
                  \cup (d.names \X named) IN
    [k \in keys |-> [metric |-> k[2],
                     scope |-> IF k[1] = "base" THEN IF k[2] = "db" THEN "any" ELSE BaseScope(d, k[2])
                               ELSE IF k[1] = "agg" THEN "any" ELSE k[1]]]

\* A name is none of the options that the cards have of their own, nor one of the words for
\* a scope that is no name.
ASSUME CardsAssumption ==
    /\ Kinds \subseteq Nodes \cup {"http", "tcp-db", "amqp", "kafka", "grpc"}
    /\ IsFiniteSet(Names)
    /\ Names \cap {"all", "endpoint", "none", "base", "agg", "any", "own", "conOwn"} = {}
    /\ \A d \in Definitions :
          LET keys == DOMAIN VisitDefinitionQueries(d) IN Polled(keys) \subseteq [keys -> Int]

-----------------------------------------------------------------------------
VARIABLES
    def,        \* the definition of the entity, as the page has it
    answers,    \* key -> value or None: the last poll, empty before the first
    weekAgo,    \* the values of a week ago, all None or all 10
    sel,        \* what is selected on the card: "all", "endpoint" or a name
    saved,      \* endpointSelections: the choice that survives a remount, or "none"
    mode        \* "baseline" or "sla"

vars == <<def, answers, weekAgo, sel, saved, mode>>

-----------------------------------------------------------------------------
(* The assembler: metrics of each variant                                    *)

\* Rates are 0 if there is no answer, except those of a base that are not defined.
ZeroIfMissing(d, v, m) ==
    \/ m = "rps" /\ (d.kind \in {"http", "tcp-db", "grpc"} \/ v # "base" \/ m \in d.metrics)
    \/ m = "cpu" /\ d.kind = "eks" /\ v # "base"

Value(d, ans, v, m) ==
    IF <<v, m>> \in DOMAIN ans /\ ans[<<v, m>>] # None THEN ans[<<v, m>>]
    ELSE IF ZeroIfMissing(d, v, m) THEN 0 ELSE None

BuildsForNames(d) == d.kind \in {"http", "amqp"} /\ d.names # {}
BuildsAggregate(d) ==
    \/ d.kind = "http" /\ (d.own # "none" \/ d.names # {})
    \/ d.kind = "amqp" /\ d.names # {} /\ d.own # "none"

\* Replicas: a sum over the deployments, if all of them have a value.
Total(d, ans, m) ==
    LET value == [n \in d.names |-> Value(d, ans, n, m)] IN
    IF \E n \in d.names : value[n] = None THEN None ELSE SumFunction(value)

-----------------------------------------------------------------------------
(* The card: rows [metric, keys, value], keys being those its value is from   *)

HasEndpoint(d) ==
    \/ d.kind = "http" /\ d.own # "none"
    \/ d.kind \in {"http", "amqp"} /\ Cardinality(d.names) > 1
EffectiveEndpoint(d, s) == IF HasEndpoint(d) THEN s ELSE "all"

Variant(d, s) ==
    IF d.kind \notin {"http", "amqp"} THEN IF s \in d.names THEN s ELSE "base"
    ELSE LET e == EffectiveEndpoint(d, s) IN
         IF e = "all" /\ BuildsAggregate(d) THEN "agg" ELSE IF e \in d.names THEN e ELSE "base"

PodsRow(d, ans, v) ==
    LET value(m) == IF v = "base" THEN Total(d, ans, m) ELSE Value(d, ans, v, m) IN
    [metric |-> "pods", keys |-> (IF v = "base" THEN d.names ELSE {v}) \X {"ready", "desired"},
     value |-> IF value("ready") = None \/ value("desired") = None THEN None ELSE value("ready"),
     desired |-> value("desired")]

MetricRow(d, ans, v, m) ==
    [metric |-> m, keys |-> {<<v, m>>}, value |-> Value(d, ans, v, m), desired |-> None]

\* Custom metrics of an edge have no variants; those of a deployment do.
MetricRows(d, ans, s) ==
    LET v == Variant(d, s) IN
    {MetricRow(d, ans, v, m) : m \in MetricsOf(d.kind) \ {"ready", "desired"}}
      \cup {MetricRow(d, ans, IF d.kind = "eks" THEN v ELSE "base", m) : m \in d.metrics \cap {"custom"}}
      \cup (IF d.kind = "eks" THEN {PodsRow(d, ans, v)} ELSE {})

\* Those of the database that is drawn in the card.
DbRows(d, ans) == IF d.db THEN {MetricRow(d, ans, "base", "db")} ELSE {}

-----------------------------------------------------------------------------
(* Colours and dots                                                          *)

\* Directions are of the metrics that are defined.
Direction(m) == IF m \in {"rps", "consumerRps"} THEN "higher" ELSE "lower"
HasDirection(d, m) == m \in d.metrics \cup {"db"}

\* Of a metric's own thresholds and the defaults of its kind only the resulting map matters;
\* a custom metric's own are not in it.
HasSla(m) == m \in SlaDefaults \ {"custom"}

CompareToSla(value, direction) ==
    IF direction = "lower"
    THEN IF value >= 15 THEN "critical" ELSE IF value >= 12 THEN "warning" ELSE "healthy"
    ELSE IF value <= 5 THEN "critical" ELSE IF value <= 8 THEN "warning" ELSE "healthy"

\* The thresholds of the settings by default: 20 and 50 percent.
CompareToBaseline(value, week, direction) ==
    LET ratio == ((value - week) * 100) \div week
        change == IF direction = "lower" THEN ratio ELSE -ratio IN
    IF change >= 50 THEN "critical" ELSE IF change > 20 THEN "warning" ELSE "healthy"

PodsStatus(r) ==
    IF r.value = None THEN "unknown" ELSE IF r.value = 0 THEN "critical"
    ELSE IF r.value # r.desired THEN "warning" ELSE "healthy"

Status(d, r, week, coloring) ==
    IF r.metric = "pods" THEN PodsStatus(r)
    ELSE IF r.value = None \/ ~HasDirection(d, r.metric) THEN "unknown"
    ELSE IF coloring = "baseline"
    THEN IF week = None \/ r.keys \cap DOMAIN answers = {} THEN "unknown"
         ELSE CompareToBaseline(r.value, week, Direction(r.metric))
    ELSE IF HasSla(r.metric) THEN CompareToSla(r.value, Direction(r.metric)) ELSE "unknown"

HealthFromMetricRows(d, rows) ==
    LET statuses == {Status(d, r, weekAgo, mode) : r \in rows} \ {"unknown"} IN
    IF "critical" \in statuses THEN "critical"
    ELSE IF "warning" \in statuses THEN "warning"
    ELSE IF statuses # {} THEN "healthy" ELSE "unknown"

\* The dot of a node is of all its rows and its database's; that of an edge, and its line,
\* of the base metrics, whatever is selected.
EdgeHealth(d) ==
    HealthFromMetricRows(d, {MetricRow(d, answers, "base", m) : m \in MetricsOf(d.kind) \cup (d.metrics \cap {"custom"})})
DotWithoutDb ==
    IF def.kind \in Nodes THEN HealthFromMetricRows(def, MetricRows(def, answers, sel)) ELSE EdgeHealth(def)
Dot ==
    IF def.kind \in Nodes
    THEN HealthFromMetricRows(def, MetricRows(def, answers, sel) \cup DbRows(def, answers))
    ELSE EdgeHealth(def)

\* What the card lists: rows without a value may be hidden.
Listed(showNA) ==
    {r \in MetricRows(def, answers, sel) \cup DbRows(def, answers) : showNA \/ r.value # None}

-----------------------------------------------------------------------------
(* The chart of a row, and the list of queries                               *)

Known(d, k) == k \in DOMAIN VisitDefinitionQueries(d)

\* The key whose query the chart of a metric sends.
ResolveBase(d, s, m) == <<"base", m>>
ResolveChartQueryKey(d, s, m) ==
    LET scoped == IF m = "db" THEN "base"
                  ELSE IF d.kind = "eks" THEN s
                  ELSE IF EffectiveEndpoint(d, s) = "all" THEN "agg" ELSE EffectiveEndpoint(d, s) IN
    IF Known(d, <<scoped, m>>) THEN <<scoped, m>> ELSE <<"base", m>>

\* The pods' chart has no fallback to the queries of all deployments.
PodsChartKeys(d, s) == {k \in {IF s = "all" THEN "base" ELSE s} \X {"ready", "desired"} : Known(d, k)}

ChartKeys(d, s, m) ==
    IF m = "pods" THEN PodsChartKeys(d, s) ELSE {k \in {ResolveChartQueryKey(d, s, m)} : Known(d, k)}

\* The dialog lists the queries of the name that is selected, or else those without a name.
FilterQueries(d, s) ==
    {k \in DOMAIN VisitDefinitionQueries(d) :
       k[2] # "db" /\ k[1] = IF s \in {"all", "endpoint"} THEN "base" ELSE s}

-----------------------------------------------------------------------------
(* The state                                                                 *)

\* What is selected at first, and again after a remount.
Default(d, choice) ==
    IF d.kind \in Nodes THEN IF d.own = "none" THEN "all" ELSE d.own
    ELSE IF choice # "none" THEN choice
    ELSE IF d.names # {} THEN First(d.names) ELSE "endpoint"

NoAnswers == [k \in {} |-> None]

Init ==
    /\ def \in Definitions
    /\ answers = NoAnswers /\ weekAgo = None
    /\ saved = "none" /\ sel = Default(def, "none")
    /\ mode = "baseline"

\* A poll is answered: some queries with a number, the others not.
Poll ==
    /\ answers' \in Polled(DOMAIN VisitDefinitionQueries(def))
    /\ weekAgo' \in {None, 10}
    /\ UNCHANGED <<def, sel, saved, mode>>

\* The page loads another definition: the card is drawn without numbers at once.  A node's
\* selection follows the deployment in use; an edge's stays.
Reload(d) ==
    /\ d.kind = def.kind /\ d # def
    /\ def' = d
    /\ answers' = NoAnswers /\ weekAgo' = None
    /\ sel' = IF d.kind \in Nodes /\ d.own # def.own THEN Default(d, saved) ELSE sel
    /\ UNCHANGED <<saved, mode>>

\* The topology is left and shown again.
Remount ==
    /\ sel' = Default(def, saved)
    /\ answers' = NoAnswers /\ weekAgo' = None
    /\ UNCHANGED <<def, saved, mode>>

Options(d) ==
    CASE d.kind = "eks" /\ d.names # {} -> {"all"} \cup d.names
      [] d.kind \in {"http", "amqp"} /\ Cardinality(d.names) > 1 -> {"all"} \cup d.names
      [] d.kind = "http" /\ Cardinality(d.names) <= 1 -> {"all"} \cup (IF d.own = "none" THEN {} ELSE {"endpoint"})
      [] OTHER -> {}

Select(s) ==
    /\ s \in Options(def) /\ (def.kind = "eks" \/ HasEndpoint(def))
    /\ sel' = s
    /\ saved' = IF def.kind = "eks" THEN saved ELSE s
    /\ UNCHANGED <<def, answers, weekAgo, mode>>

SetColoringMode ==
    /\ mode' = IF mode = "baseline" THEN "sla" ELSE "baseline"
    /\ UNCHANGED <<def, answers, weekAgo, sel, saved>>

Next ==
    \/ Poll \/ Remount \/ SetColoringMode
    \/ \E d \in Definitions : Reload(d)
    \/ \E s \in {"all", "endpoint"} \cup Names : Select(s)

Spec == Init /\ [][Next]_vars

-----------------------------------------------------------------------------
(* Properties                                                                *)

\* What the card says it is of: what is selected, if there is a choice and the definition
\* still has it; otherwise what the definition names as its own, or everything.  The rate
\* of a consumer with a routing key of its own keeps to it even under "all", if the
\* publisher has none; of one routing key the numbers are those of all.
Wanted(m) ==
    IF def.kind = "eks"
    THEN IF sel \in def.names THEN {sel} ELSE IF m = "pods" THEN def.names ELSE {"any"}
    ELSE IF m = "custom" \/ def.kind \notin {"http", "amqp"} THEN {BaseScope(def, m)}
    ELSE LET e == EffectiveEndpoint(def, sel) IN
         IF e \in def.names THEN {e}
         ELSE IF e # "all" THEN {BaseScope(def, m)}
         ELSE IF def.kind = "amqp" /\ (def.own = "none" \/ def.names = {}) THEN {BaseScope(def, m)}
         ELSE {"any"}

Answered(k) == k \in DOMAIN answers /\ answers[k] # None

\* A number on a card is the answer to a query of that metric, restricted to what the card
\* says; or a 0 in place of a missing rate, of a deployment's cpu, or of the pods of no
\* deployments.  And what was answered is on the card.
RowsAreMeasured ==
    LET query == VisitDefinitionQueries(def) IN
    \A r \in MetricRows(def, answers, sel) :
       /\ r.value # None =>
            \/ r.keys # {} /\ \A k \in r.keys : Answered(k) /\ query[k].scope \in Wanted(r.metric)
            \/ r.value = 0 /\ r.metric \in {"rps", "cpu"} /\ \A k \in r.keys : ~Answered(k)
            \/ r.metric = "pods" /\ r.keys = {}
       /\ r.metric # "pods" =>
            LET wanted == {k \in DOMAIN answers : query[k].metric = r.metric /\ query[k].scope \in Wanted(r.metric)} IN
            wanted # {} /\ (\A k \in wanted : Answered(k)) => r.value # None

\* The chart that a row opens asks for the query whose answer the row shows, also when what
\* was selected is gone, and the list of queries under a name is that of the rows.  Not so
\* for the pods: of all deployments the row adds up each one's, the chart has a query of its
\* own, and for a deployment that is gone it has none.
ChartAsksTheSame ==
    LET query == VisitDefinitionQueries(def)
        rows == MetricRows(def, answers, sel)
        asked(keys) == {query[k] : k \in keys \cap DOMAIN query} IN
    /\ \A r \in rows \cup DbRows(def, answers) :
          (r.metric # "pods" \/ sel \in def.names) =>
             asked(ChartKeys(def, sel, r.metric)) = asked(r.keys)
    /\ (sel \in def.names /\ Variant(def, sel) = sel) =>
          asked(FilterQueries(def, sel)) =
            asked(UNION {r.keys : r \in {x \in rows : def.kind = "eks" \/ x.metric # "custom"}})

\* A dot is red exactly if a number on the card is, its database's included and whether or
\* not the rows without a value are hidden; of an edge, if its own endpoint is shown.
DotHasItsCause ==
    (def.kind \in {"eks", "ec2"} \/ (def.kind # "flow" /\ Variant(def, sel) = "base")) =>
      (Dot = "critical" <=> \E r \in Listed(FALSE) : Status(def, r, weekAgo, mode) = "critical")
=============================================================================
