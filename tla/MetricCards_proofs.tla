-------------------------- MODULE MetricCards_proofs --------------------------
(***************************************************************************)
(* The numbers on a card are answers to queries of what the card says, the *)
(* chart of a row asks for what the row shows, and a dot has a cause among *)
(* the rows: for any names, any answers and any selection.                 *)
(***************************************************************************)
EXTENDS MetricCards, TLAPS

\* The kinds the assumption on Kinds allows.
AllKinds == {"eks", "ec2", "flow", "http", "tcp-db", "amqp", "kafka", "grpc"}

-----------------------------------------------------------------------------
(* Definitions                                                               *)

\* The metrics of each kind: only the deployments of eks have replicas.
LEMMA Metrics ==
    ASSUME NEW k \in AllKinds
    PROVE  /\ k = "eks" => MetricsOf(k) = {"cpu", "ready", "desired"}
           /\ k # "eks" => MetricsOf(k) \cap {"ready", "desired"} = {}
           /\ MetricsOf(k) \cap {"custom", "db", "pods"} = {}
<1>1. MetricsOf("eks") = {"cpu", "ready", "desired"}
  BY Zenon DEF MetricsOf
<1>2. MetricsOf("ec2") = {"cpu"}
  BY Zenon DEF MetricsOf
<1>3. MetricsOf("flow") = {}
  BY Zenon DEF MetricsOf
<1>4. MetricsOf("http") = {"rps", "latency"}
  BY Zenon DEF MetricsOf
<1>5. MetricsOf("tcp-db") = {"rps", "latency"}
  BY Zenon DEF MetricsOf
<1>6. MetricsOf("grpc") = {"rps", "latency"}
  BY Zenon DEF MetricsOf
<1>7. MetricsOf("amqp") = {"rps", "latency", "consumerRps"}
  BY Zenon DEF MetricsOf
<1>8. MetricsOf("kafka") = {"rps", "latency", "consumerRps"}
  BY Zenon DEF MetricsOf
<1> QED
  BY <1>1, <1>2, <1>3, <1>4, <1>5, <1>6, <1>7, <1>8 DEF AllKinds

\* Of the nodes only eks has something of its own, a deployment in use.
LEMMA NodesOwn ==
    /\ Owns("eks") = {"none"} \cup Names
    /\ Owns("ec2") = {"none"} /\ Owns("flow") = {"none"}
BY Zenon DEF Owns

\* What the fields of a definition may be, of the kind it has.
LEMMA DefShape ==
    ASSUME NEW d \in Definitions
    PROVE  /\ d.kind \in AllKinds
           /\ d.metrics \subseteq MetricsOf(d.kind) \cup {"custom"}
           /\ d.names \subseteq Names
           /\ d.names # {} => d.kind \in {"eks", "http", "amqp"}
           /\ d.db \in BOOLEAN
           /\ d.db => d.kind \in {"eks", "ec2"}
           /\ d.kind \in Nodes => d.own \in {"none"} \cup Names
           /\ d.kind # "amqp" => d.conOwn = "none"
<1>1. PICK k \in Kinds :
         d \in [kind : {k}, metrics : SUBSET (MetricsOf(k) \cup {"custom"}), names : SUBSET NamesOf(k),
                own : Owns(k), conOwn : IF k = "amqp" THEN {"none", "conOwn"} ELSE {"none"},
                db : IF k \in {"eks", "ec2"} THEN BOOLEAN ELSE {FALSE}]
  BY DEF Definitions
<1>2. /\ d.kind = k
      /\ d.metrics \in SUBSET (MetricsOf(k) \cup {"custom"})
      /\ d.names \in SUBSET NamesOf(k)
      /\ d.own \in Owns(k)
  BY <1>1
<1>8. d.conOwn \in IF k = "amqp" THEN {"none", "conOwn"} ELSE {"none"}
  BY <1>1
<1>3. d.db \in IF k \in {"eks", "ec2"} THEN BOOLEAN ELSE {FALSE}
  BY <1>1
<1>4. k \in AllKinds
  BY CardsAssumption DEF AllKinds, Nodes
<1>5. d.db \in BOOLEAN /\ (d.db => k \in {"eks", "ec2"})
  BY <1>3
<1>6. d.names \subseteq Names /\ (d.names # {} => k \in {"eks", "http", "amqp"})
  BY <1>2 DEF NamesOf
<1>7. k \in Nodes => d.own \in {"none"} \cup Names
  BY <1>2, NodesOwn DEF Nodes
<1> QED
  BY <1>2, <1>4, <1>5, <1>6, <1>7, <1>8

\* Of a metric there are a base query, one of all names if there is such, and one per name:
\* not of custom metrics, but for those of deployments.
LEMMA Key ==
    ASSUME NEW d \in Definitions, NEW v, NEW m
    PROVE  <<v, m>> \in DOMAIN VisitDefinitionQueries(d) <=>
              \/ v = "base" /\ (m \in d.metrics \/ (d.db /\ m = "db"))
              \/ v = "agg" /\ EmitsAggregate(d) /\ m \in d.metrics \ {"custom"}
              \/ v \in d.names /\ m \in d.metrics /\ (d.kind = "eks" \/ m # "custom")
BY DEF VisitDefinitionQueries

\* A query asks for the metric of its key, restricted to the name of its key.
LEMMA QueryScope ==
    ASSUME NEW d, NEW v, NEW m, <<v, m>> \in DOMAIN VisitDefinitionQueries(d)
    PROVE  /\ VisitDefinitionQueries(d)[<<v, m>>].metric = m
           /\ VisitDefinitionQueries(d)[<<v, m>>].scope =
                 IF v = "base" THEN IF m = "db" THEN "any" ELSE BaseScope(d, m)
                 ELSE IF v = "agg" THEN "any" ELSE v
BY DEF VisitDefinitionQueries

\* The visitor asks for what is defined, and for the database drawn in the card.
LEMMA KeyMetric ==
    ASSUME NEW d, NEW k \in DOMAIN VisitDefinitionQueries(d)
    PROVE  LET m == VisitDefinitionQueries(d)[k].metric IN m \in d.metrics \/ (d.db /\ m = "db")
BY DEF VisitDefinitionQueries

-----------------------------------------------------------------------------
(* The state                                                                 *)

\* The answers are to the queries of the definition that is shown, or there are none yet; what
\* is selected may be a name that the definition no longer has.
CardInv ==
    /\ def \in Definitions
    /\ answers = NoAnswers \/ answers \in [DOMAIN VisitDefinitionQueries(def) -> Int]
    /\ sel \in {"all", "endpoint"} \cup Names
    /\ saved \in {"none", "all", "endpoint"} \cup Names

\* What is selected at first is an option of a card, or a name of the definition.
LEMMA DefaultOK ==
    ASSUME NEW d \in Definitions, NEW choice \in {"none", "all", "endpoint"} \cup Names
    PROVE  Default(d, choice) \in {"all", "endpoint"} \cup Names
<1>1. d.names # {} => First(d.names) \in Names
  BY DefShape DEF First
<1> QED
  BY <1>1, DefShape DEF Default

\* Before the first poll there are no answers.
LEMMA CardInvInit == Init => CardInv
BY DefaultOK DEF Init, CardInv

\* A poll answers the queries of the definition shown, a reload drops the answers, and
\* the selection is an option that there was.
LEMMA CardInvStep == CardInv /\ [Next]_vars => CardInv'
<1> SUFFICES ASSUME CardInv, [Next]_vars PROVE CardInv'
  OBVIOUS
<1>1. CASE Poll
  <2>1. answers' \in [DOMAIN VisitDefinitionQueries(def) -> Int]
    BY <1>1, CardsAssumption DEF Poll, CardInv
  <2> QED
    BY <1>1, <2>1 DEF Poll, CardInv
<1>2. CASE Remount
  BY <1>2, DefaultOK DEF Remount, CardInv
<1>3. CASE SetColoringMode
  BY <1>3 DEF SetColoringMode, CardInv
<1>4. ASSUME NEW d \in Definitions, Reload(d) PROVE CardInv'
  <2>1. Default(d, saved) \in {"all", "endpoint"} \cup Names
    BY DefaultOK DEF CardInv
  <2> QED
    BY <1>4, <2>1 DEF Reload, CardInv
<1>5. ASSUME NEW s \in {"all", "endpoint"} \cup Names, Select(s) PROVE CardInv'
  BY <1>5 DEF Select, CardInv
<1>6. CASE UNCHANGED vars
  BY <1>6 DEF vars, CardInv
<1> QED
  BY <1>1, <1>2, <1>3, <1>4, <1>5, <1>6 DEF Next

\* Whatever is loaded, polled and selected, the answers are to the queries of the definition
\* shown, and what is selected is an option of the card or a name.
THEOREM CardInvAlways == Spec => []CardInv
<1> QED
  BY CardInvInit, CardInvStep, PTL DEF Spec

-----------------------------------------------------------------------------
(* Rows                                                                      *)

\* The metrics of which there is a row, but for the pods, and the variant each is of.
RowMetrics(d) == (MetricsOf(d.kind) \ {"ready", "desired"}) \cup (d.metrics \cap {"custom"})
RowVariant(d, s, m) == IF m = "custom" /\ d.kind # "eks" THEN "base" ELSE Variant(d, s)
RowKey(d, s, m) == <<RowVariant(d, s, m), m>>

\* The rows of a card: one for each metric, of its variant, and the pods of an eks.
LEMMA RowsAre ==
    ASSUME NEW d \in Definitions, NEW ans, NEW s
    PROVE  MetricRows(d, ans, s) =
              {MetricRow(d, ans, RowVariant(d, s, m), m) : m \in RowMetrics(d)}
                \cup IF d.kind = "eks" THEN {PodsRow(d, ans, Variant(d, s))} ELSE {}
<1> DEFINE v == Variant(d, s)
           W == IF d.kind = "eks" THEN v ELSE "base"
           A == {MetricRow(d, ans, v, m) : m \in MetricsOf(d.kind) \ {"ready", "desired"}}
           B == {MetricRow(d, ans, W, m) : m \in d.metrics \cap {"custom"}}
           R == {MetricRow(d, ans, RowVariant(d, s, m), m) : m \in RowMetrics(d)}
<1>1. "custom" \notin MetricsOf(d.kind)
  BY DefShape, Metrics
<1>2. \A m \in MetricsOf(d.kind) \ {"ready", "desired"} : RowVariant(d, s, m) = v
  BY <1>1 DEF RowVariant
<1>3. \A m \in d.metrics \cap {"custom"} : RowVariant(d, s, m) = W
  BY DEF RowVariant
<1>4. R = A \cup B
  BY <1>2, <1>3 DEF RowMetrics
<1> QED
  BY <1>4 DEF MetricRows

\* A row of a metric has the value found under its one key.
LEMMA RowShape ==
    ASSUME NEW d, NEW ans, NEW v, NEW m
    PROVE  /\ MetricRow(d, ans, v, m).metric = m
           /\ MetricRow(d, ans, v, m).keys = {<<v, m>>}
           /\ MetricRow(d, ans, v, m).value = Value(d, ans, v, m)
BY DEF MetricRow

\* The pods' metrics and the database have rows of their own; a custom one has if defined.
LEMMA RowMetric ==
    ASSUME NEW d \in Definitions, NEW m \in RowMetrics(d)
    PROVE  m \notin {"ready", "desired", "db", "pods"} /\ (m = "custom" => m \in d.metrics)
BY DefShape, Metrics DEF RowMetrics

\* The variants that the card tells apart are those that the visitor has queries for.
LEMMA Variants ==
    ASSUME NEW d \in Definitions, NEW s
    PROVE  /\ \/ Variant(d, s) = "base"
              \/ Variant(d, s) \in d.names
              \/ Variant(d, s) = "agg" /\ EmitsAggregate(d)
           /\ d.kind = "eks" => Variant(d, s) = IF s \in d.names THEN s ELSE "base"
BY DEF Variant, BuildsAggregate, EmitsAggregate

\* So of a metric that is defined, the row has a query.
LEMMA RowIsQueried ==
    ASSUME NEW d \in Definitions, NEW s, NEW m \in RowMetrics(d) \cap d.metrics
    PROVE  RowKey(d, s, m) \in DOMAIN VisitDefinitionQueries(d)
<1>1. CASE RowVariant(d, s, m) = "base"
  BY <1>1, Key DEF RowKey
<1>2. CASE RowVariant(d, s, m) # "base"
  <2>1. RowVariant(d, s, m) = Variant(d, s) /\ (m # "custom" \/ d.kind = "eks")
    BY <1>2 DEF RowVariant
  <2>2. CASE Variant(d, s) \in d.names
    BY <2>1, <2>2, Key DEF RowKey
  <2>3. CASE Variant(d, s) = "agg" /\ EmitsAggregate(d)
    <3>1. m # "custom"
      BY <2>1, <2>3 DEF EmitsAggregate
    <3> QED
      BY <2>1, <2>3, <3>1, Key DEF RowKey
  <2> QED
    BY <1>2, <2>1, <2>2, <2>3, Variants
<1> QED
  BY <1>1, <1>2

\* And it is restricted to what the card says.
LEMMA RowIsOfWanted ==
    ASSUME CardInv, NEW m \in RowMetrics(def),
           RowKey(def, sel, m) \in DOMAIN VisitDefinitionQueries(def)
    PROVE  VisitDefinitionQueries(def)[RowKey(def, sel, m)].scope \in Wanted(m)
<1> DEFINE v == RowVariant(def, sel, m)
           e == EffectiveEndpoint(def, sel)
           scope == IF v = "base" THEN BaseScope(def, m) ELSE IF v = "agg" THEN "any" ELSE v
<1>1. def \in Definitions /\ def.names \subseteq Names /\ m # "db" /\ m # "pods"
  BY DefShape, RowMetric DEF CardInv
<1>2. VisitDefinitionQueries(def)[RowKey(def, sel, m)].scope = scope
  BY <1>1, QueryScope DEF RowKey
<1>3. "all" \notin def.names /\ "base" \notin def.names /\ "agg" \notin def.names
  BY <1>1, CardsAssumption
<1>4. CASE def.kind = "eks"
  <2>1. v = IF sel \in def.names THEN sel ELSE "base"
    BY <1>1, <1>4, Variants DEF RowVariant
  <2>2. BaseScope(def, m) = "any"
    BY <1>4 DEF BaseScope, Nodes
  <2> QED
    BY <1>1, <1>2, <1>3, <1>4, <2>1, <2>2 DEF Wanted
<1>5. CASE def.kind \notin {"eks", "http", "amqp"} \/ (def.kind # "eks" /\ m = "custom")
  <2>1. v = "base"
    BY <1>1, <1>5, DefShape DEF RowVariant, Variant
  <2> QED
    BY <1>2, <1>5, <2>1 DEF Wanted
<1>6. CASE def.kind \in {"http", "amqp"} /\ m # "custom"
  <2>1. v = IF e = "all" /\ BuildsAggregate(def) THEN "agg" ELSE IF e \in def.names THEN e ELSE "base"
    BY <1>6 DEF RowVariant, Variant
  <2>2. Wanted(m) = IF e \in def.names THEN {e}
                    ELSE IF e # "all" THEN {BaseScope(def, m)}
                    ELSE IF def.kind = "amqp" /\ (def.own = "none" \/ def.names = {}) THEN {BaseScope(def, m)}
                    ELSE {"any"}
    BY <1>6 DEF Wanted
  <2>3. CASE e \in def.names
    BY <1>2, <1>3, <2>1, <2>2, <2>3
  <2>4. CASE e \notin def.names /\ e # "all"
    BY <1>2, <2>1, <2>2, <2>4
  <2>5. CASE e = "all" /\ BuildsAggregate(def)
    <3>1. Wanted(m) = {"any"}
      BY <1>3, <1>6, <2>2, <2>5 DEF BuildsAggregate
    <3> QED
      BY <1>2, <2>1, <2>5, <3>1
  <2>6. CASE e = "all" /\ ~BuildsAggregate(def)
    <3>1. v = "base"
      BY <1>3, <2>1, <2>6
    <3>2. def.kind = "http" => BaseScope(def, m) = "any"
      BY <1>1, <2>6, DefShape DEF BuildsAggregate, BaseScope, Nodes
    <3>3. def.kind = "amqp" => def.own = "none" \/ def.names = {}
      BY <2>6 DEF BuildsAggregate
    <3> QED
      BY <1>2, <1>3, <1>6, <2>2, <2>6, <3>1, <3>2, <3>3
  <2> QED
    BY <2>3, <2>4, <2>5, <2>6
<1> QED
  BY <1>1, <1>4, <1>5, <1>6

-----------------------------------------------------------------------------
(* What the card shows was measured                                          *)

\* An answer is the value, and without one the value is missing or a 0 in its place.
LEMMA ValueOf ==
    ASSUME NEW d, NEW ans, NEW v, NEW m
    PROVE  /\ <<v, m>> \in DOMAIN ans /\ ans[<<v, m>>] # None => Value(d, ans, v, m) # None
           /\ ~(<<v, m>> \in DOMAIN ans /\ ans[<<v, m>>] # None) /\ Value(d, ans, v, m) # None =>
                 Value(d, ans, v, m) = 0 /\ m \in {"rps", "cpu"}
BY DEF Value, ZeroIfMissing

\* After a poll the answers have the keys of the definition shown.
LEMMA AnsweredKeys ==
    ASSUME CardInv, NEW k \in DOMAIN answers
    PROVE  DOMAIN answers = DOMAIN VisitDefinitionQueries(def)
BY DEF CardInv, NoAnswers

\* A number on a row of a metric.
LEMMA RowMeasured ==
    ASSUME CardInv, NEW m \in RowMetrics(def), NEW v, v = RowVariant(def, sel, m),
           Value(def, answers, v, m) # None
    PROVE  \/ Answered(<<v, m>>) /\ VisitDefinitionQueries(def)[<<v, m>>].scope \in Wanted(m)
           \/ Value(def, answers, v, m) = 0 /\ m \in {"rps", "cpu"} /\ ~Answered(<<v, m>>)
<1>1. CASE Answered(<<v, m>>)
  <2>1. RowKey(def, sel, m) \in DOMAIN VisitDefinitionQueries(def)
    BY <1>1, AnsweredKeys DEF Answered, RowKey
  <2> QED
    BY <1>1, <2>1, RowIsOfWanted DEF RowKey
<1>2. CASE ~Answered(<<v, m>>)
  BY <1>2, ValueOf DEF Answered
<1> QED
  BY <1>1, <1>2

\* What was answered, of what the card says, is a number on it.
LEMMA AnswerIsShown ==
    ASSUME CardInv, NEW m \in RowMetrics(def), NEW v, v = RowVariant(def, sel, m),
           NEW k \in DOMAIN answers, VisitDefinitionQueries(def)[k].metric = m,
           \A q \in DOMAIN answers :
              VisitDefinitionQueries(def)[q].metric = m
                /\ VisitDefinitionQueries(def)[q].scope \in Wanted(m) => Answered(q)
    PROVE  Value(def, answers, v, m) # None
<1>1. def \in Definitions /\ m \notin {"db"}
  BY RowMetric DEF CardInv
<1>2. DOMAIN answers = DOMAIN VisitDefinitionQueries(def)
  BY AnsweredKeys
<1>3. m \in def.metrics
  BY <1>1, <1>2, KeyMetric
<1>4. <<v, m>> \in DOMAIN VisitDefinitionQueries(def)
  BY <1>1, <1>3, RowIsQueried DEF RowKey
<1>5. VisitDefinitionQueries(def)[<<v, m>>].metric = m
  BY <1>4, QueryScope
<1>6. VisitDefinitionQueries(def)[<<v, m>>].scope \in Wanted(m)
  BY <1>4, RowIsOfWanted DEF RowKey
<1>7. Answered(<<v, m>>)
  BY <1>2, <1>4, <1>5, <1>6
<1> QED
  BY <1>7, ValueOf DEF Answered

\* The pods of all deployments are known if those of each one are.
LEMMA PodsMeasured ==
    ASSUME CardInv, def.kind = "eks", NEW r, r = PodsRow(def, answers, Variant(def, sel)), r.value # None
    PROVE  /\ r.metric = "pods"
           /\ \/ r.keys = {}
              \/ \A k \in r.keys : Answered(k) /\ VisitDefinitionQueries(def)[k].scope \in Wanted("pods")
<1> DEFINE v == Variant(def, sel)
           N == IF v = "base" THEN def.names ELSE {v}
           W(m) == IF v = "base" THEN Total(def, answers, m) ELSE Value(def, answers, v, m)
<1>1. /\ def \in Definitions /\ def.names \subseteq Names
      /\ v = IF sel \in def.names THEN sel ELSE "base"
  BY DefShape, Variants DEF CardInv
<1>2. "base" \notin def.names /\ "agg" \notin def.names /\ N \subseteq def.names /\ N \subseteq Wanted("pods")
  BY <1>1, CardsAssumption DEF Wanted
<1>3. r.metric = "pods" /\ r.keys = N \X {"ready", "desired"}
  BY DEF PodsRow
<1>4. W("ready") # None /\ W("desired") # None
  BY DEF PodsRow
<1>5. ASSUME NEW n \in N, NEW m \in {"ready", "desired"}
      PROVE  Answered(<<n, m>>) /\ VisitDefinitionQueries(def)[<<n, m>>].scope \in Wanted("pods")
  <2>1. W(m) # None
    BY <1>4
  <2>2. Value(def, answers, n, m) # None
    BY <2>1 DEF Total
  <2>3. Answered(<<n, m>>)
    BY <2>2, ValueOf DEF Answered
  <2>4. VisitDefinitionQueries(def)[<<n, m>>].scope = n
    BY <1>2, <2>3, AnsweredKeys, QueryScope DEF Answered
  <2> QED
    BY <1>2, <2>3, <2>4
<1> HIDE DEF N
<1>6. ASSUME NEW k \in r.keys
      PROVE  Answered(k) /\ VisitDefinitionQueries(def)[k].scope \in Wanted("pods")
  <2>1. PICK n \in N, m \in {"ready", "desired"} : k = <<n, m>>
    BY <1>3
  <2> QED
    BY <1>5, <2>1
<1> QED
  BY <1>3, <1>6

\* So each row, the pods' among them, shows what was measured.
LEMMA RowsMeasured == CardInv => RowsAreMeasured
<1> SUFFICES ASSUME CardInv, NEW r \in MetricRows(def, answers, sel)
             PROVE  LET query == VisitDefinitionQueries(def) IN
                    /\ r.value # None =>
                         \/ r.keys # {} /\ \A k \in r.keys : Answered(k) /\ query[k].scope \in Wanted(r.metric)
                         \/ r.value = 0 /\ r.metric \in {"rps", "cpu"} /\ \A k \in r.keys : ~Answered(k)
                         \/ r.metric = "pods" /\ r.keys = {}
                    /\ r.metric # "pods" =>
                         LET wanted == {k \in DOMAIN answers :
                                          query[k].metric = r.metric /\ query[k].scope \in Wanted(r.metric)} IN
                         wanted # {} /\ (\A k \in wanted : Answered(k)) => r.value # None
  BY Zenon DEF RowsAreMeasured
<1>1. CASE def.kind = "eks" /\ r = PodsRow(def, answers, Variant(def, sel))
  <2>1. r.metric = "pods"
    BY <1>1 DEF PodsRow
  <2>2. r.value # None =>
           \/ r.keys = {}
           \/ \A k \in r.keys : Answered(k) /\ VisitDefinitionQueries(def)[k].scope \in Wanted("pods")
    BY <1>1, PodsMeasured
  <2> QED
    BY <2>1, <2>2
<1>2. ASSUME NEW m \in RowMetrics(def), r = MetricRow(def, answers, RowVariant(def, sel, m), m)
      PROVE  LET query == VisitDefinitionQueries(def) IN
             /\ r.value # None =>
                  \/ r.keys # {} /\ \A k \in r.keys : Answered(k) /\ query[k].scope \in Wanted(r.metric)
                  \/ r.value = 0 /\ r.metric \in {"rps", "cpu"} /\ \A k \in r.keys : ~Answered(k)
                  \/ r.metric = "pods" /\ r.keys = {}
             /\ r.metric # "pods" =>
                  LET wanted == {k \in DOMAIN answers :
                                   query[k].metric = r.metric /\ query[k].scope \in Wanted(r.metric)} IN
                  wanted # {} /\ (\A k \in wanted : Answered(k)) => r.value # None
  <2>1. PICK v : v = RowVariant(def, sel, m)
    OBVIOUS
  <2>2. r.metric = m /\ r.keys = {<<v, m>>} /\ r.value = Value(def, answers, v, m)
    BY <1>2, <2>1, RowShape
  <2>3. r.value # None =>
           \/ /\ r.keys # {}
              /\ \A k \in r.keys : Answered(k) /\ VisitDefinitionQueries(def)[k].scope \in Wanted(r.metric)
           \/ r.value = 0 /\ r.metric \in {"rps", "cpu"} /\ \A k \in r.keys : ~Answered(k)
    BY <2>1, <2>2, RowMeasured
  <2>4. ASSUME NEW k \in DOMAIN answers, VisitDefinitionQueries(def)[k].metric = m,
               \A q \in DOMAIN answers :
                  VisitDefinitionQueries(def)[q].metric = m
                    /\ VisitDefinitionQueries(def)[q].scope \in Wanted(m) => Answered(q)
        PROVE  r.value # None
    BY <2>1, <2>2, <2>4, AnswerIsShown
  <2> QED
    BY <2>2, <2>3, <2>4
<1> QED
  BY <1>1, <1>2, RowsAre DEF CardInv

\* A number on a card is the answer to a query of its metric, restricted to what the card says,
\* or one of the three cases without an answer; and what was answered is on the card.
THEOREM RowsAreMeasuredAlways == Spec => []RowsAreMeasured
<1> QED
  BY RowsMeasured, CardInvAlways, PTL

-----------------------------------------------------------------------------
(* The chart and the list of queries                                         *)

\* The chart of a metric that is defined has the key of its row.
LEMMA ChartKeyIsRows ==
    ASSUME CardInv, NEW m \in RowMetrics(def) \cap def.metrics
    PROVE  ResolveChartQueryKey(def, sel, m) = RowKey(def, sel, m)
<1> DEFINE s == sel
           e == EffectiveEndpoint(def, s)
           scoped == IF m = "db" THEN "base" ELSE IF def.kind = "eks" THEN s
                     ELSE IF e = "all" THEN "agg" ELSE e
           R == ResolveChartQueryKey(def, s, m)
           v == RowVariant(def, s, m)
<1>1. def \in Definitions /\ m # "db"
  BY RowMetric DEF CardInv
<1>2. R = IF <<scoped, m>> \in DOMAIN VisitDefinitionQueries(def) THEN <<scoped, m>> ELSE <<"base", m>>
  BY DEF ResolveChartQueryKey, Known
<1>3. \A n : <<n, m>> \in DOMAIN VisitDefinitionQueries(def) <=>
         \/ n = "base"
         \/ n = "agg" /\ EmitsAggregate(def) /\ m # "custom"
         \/ n \in def.names /\ (def.kind = "eks" \/ m # "custom")
  BY <1>1, Key
<1>4. \A n \in def.names : n \notin {"all", "endpoint", "base", "agg"}
  BY <1>1, DefShape, CardsAssumption
<1>5. s \in {"all", "endpoint"} \cup Names /\ s # "base" /\ s # "agg"
  BY CardsAssumption DEF CardInv
<1> HIDE DEF s, R
<1>6. CASE def.kind = "eks"
  <2>1. scoped = s /\ ~EmitsAggregate(def)
    BY <1>1, <1>6 DEF EmitsAggregate
  <2>2. v = IF s \in def.names THEN s ELSE "base"
    BY <1>1, <1>6, Variants DEF RowVariant
  <2>3. R = <<v, m>>
    BY <1>2, <1>3, <1>5, <1>6, <2>1, <2>2
  <2> QED
    BY <2>3 DEF RowKey, R, s
<1>7. CASE def.kind \notin {"eks", "http", "amqp"}
  <2>1. scoped = "agg" /\ ~EmitsAggregate(def) /\ def.names = {}
    BY <1>1, <1>7, DefShape DEF EffectiveEndpoint, HasEndpoint, EmitsAggregate
  <2>2. v = "base"
    BY <1>7, <2>1 DEF RowVariant, Variant
  <2>3. R = <<v, m>>
    BY <1>2, <1>3, <2>1, <2>2
  <2> QED
    BY <2>3 DEF RowKey, R, s
<1>8. CASE def.kind \in {"http", "amqp"}
  <2>1. scoped = IF e = "all" THEN "agg" ELSE e
    BY <1>1, <1>8
  <2>2. v = IF m = "custom" THEN "base"
            ELSE IF e = "all" /\ EmitsAggregate(def) THEN "agg" ELSE IF e \in def.names THEN e ELSE "base"
    BY <1>8 DEF RowVariant, Variant, BuildsAggregate, EmitsAggregate
  <2>3. e \in {"all", "endpoint"} \cup Names /\ e # "base" /\ e # "agg"
    BY <1>5 DEF EffectiveEndpoint
  <2> HIDE DEF e, scoped, v
  <2>4. R = <<v, m>>
    BY <1>2, <1>3, <1>4, <1>8, <2>1, <2>2, <2>3
  <2> QED
    BY <2>4 DEF RowKey, R, s, v
<1> QED
  BY <1>6, <1>7, <1>8

\* What is asked under some keys.
Asked(keys) == {VisitDefinitionQueries(def)[k] : k \in keys \cap DOMAIN VisitDefinitionQueries(def)}

\* Keys that are no queries ask nothing.
LEMMA SameKeysAskSame ==
    ASSUME NEW K, NEW L,
           K \cap DOMAIN VisitDefinitionQueries(def) = L \cap DOMAIN VisitDefinitionQueries(def)
    PROVE  Asked(K) = Asked(L)
BY DEF Asked

\* The chart of any row asks for the queries of the row; of the pods, for a deployment's.
LEMMA ChartOfRow ==
    ASSUME CardInv, NEW r \in MetricRows(def, answers, sel) \cup DbRows(def, answers),
           r.metric # "pods" \/ sel \in def.names
    PROVE  Asked(ChartKeys(def, sel, r.metric)) = Asked(r.keys)
<1> DEFINE K == DOMAIN VisitDefinitionQueries(def)
<1>1. def \in Definitions /\ def.names \subseteq Names /\ "all" \notin def.names /\ "base" \notin def.names
  BY DefShape, CardsAssumption DEF CardInv
<1>2. ASSUME NEW m \in RowMetrics(def), r.metric = m, r.keys = {RowKey(def, sel, m)}
      PROVE  ChartKeys(def, sel, m) \cap K = r.keys \cap K
  <2>1. m # "pods" /\ m # "db"
    BY <1>1, RowMetric
  <2>2. ChartKeys(def, sel, m) = {ResolveChartQueryKey(def, sel, m)} \cap K
    BY <2>1 DEF ChartKeys, Known
  <2>3. CASE m \in def.metrics
    BY <1>2, <2>2, <2>3, ChartKeyIsRows
  <2>4. CASE m \notin def.metrics
    <3>1. \A n : <<n, m>> \notin K
      BY <1>1, <2>1, <2>4, Key
    <3>2. ResolveChartQueryKey(def, sel, m) \notin K
      BY <3>1 DEF ResolveChartQueryKey, Known
    <3>3. RowKey(def, sel, m) \notin K
      BY <3>1 DEF RowKey
    <3> QED
      BY <1>2, <2>2, <3>2, <3>3
  <2> QED
    BY <2>3, <2>4
<1>3. CASE r \in DbRows(def, answers)
  <2>1. def.db /\ r = MetricRow(def, answers, "base", "db")
    BY <1>3 DEF DbRows
  <2>2. r.metric = "db" /\ r.keys = {<<"base", "db">>}
    BY <2>1, RowShape
  <2>3. <<"base", "db">> \in K
    BY <1>1, <2>1, Key
  <2>4. ResolveChartQueryKey(def, sel, "db") = <<"base", "db">>
    BY DEF ResolveChartQueryKey
  <2>5. ChartKeys(def, sel, "db") = {<<"base", "db">>}
    BY <2>3, <2>4 DEF ChartKeys, Known
  <2> QED
    BY <2>2, <2>5
<1>4. CASE def.kind = "eks" /\ r = PodsRow(def, answers, Variant(def, sel))
  <2>1. Variant(def, sel) = IF sel \in def.names THEN sel ELSE "base"
    BY <1>1, <1>4, Variants
  <2>2. r.metric = "pods"
    BY <1>4 DEF PodsRow
  <2>3. r.keys = {sel} \X {"ready", "desired"}
    BY <1>1, <1>4, <2>1, <2>2 DEF PodsRow
  <2>4. PodsChartKeys(def, sel) = ({sel} \X {"ready", "desired"}) \cap K
    BY <1>1, <2>2 DEF PodsChartKeys, Known
  <2>5. ChartKeys(def, sel, "pods") = PodsChartKeys(def, sel)
    BY DEF ChartKeys
  <2>6. ChartKeys(def, sel, r.metric) \cap K = r.keys \cap K
    BY <2>2, <2>3, <2>4, <2>5
  <2> QED
    BY <2>6, SameKeysAskSame
<1>5. ASSUME NEW m \in RowMetrics(def), r = MetricRow(def, answers, RowVariant(def, sel, m), m)
      PROVE  Asked(ChartKeys(def, sel, r.metric)) = Asked(r.keys)
  <2>1. r.metric = m /\ r.keys = {RowKey(def, sel, m)}
    BY <1>5, RowShape DEF RowKey
  <2>2. ChartKeys(def, sel, r.metric) \cap K = r.keys \cap K
    BY <1>2, <2>1
  <2> QED
    BY <2>2, SameKeysAskSame
<1> QED
  BY <1>1, <1>3, <1>4, <1>5, RowsAre

\* The keys of the rows of a name are the keys of its queries.
LEMMA QueriesOfName ==
    ASSUME CardInv, sel \in def.names, Variant(def, sel) = sel
    PROVE  LET rows == MetricRows(def, answers, sel) IN
           Asked(FilterQueries(def, sel)) =
              Asked(UNION {r.keys : r \in {x \in rows : def.kind = "eks" \/ x.metric # "custom"}})
<1> DEFINE K == DOMAIN VisitDefinitionQueries(def)
           rows == MetricRows(def, answers, sel)
           U == UNION {r.keys : r \in {x \in rows : def.kind = "eks" \/ x.metric # "custom"}}
           Q == FilterQueries(def, sel)
<1>1. /\ def \in Definitions /\ def.names \subseteq Names
      /\ sel \notin {"all", "endpoint", "base", "agg"}
  BY DefShape, CardsAssumption DEF CardInv
<1>2. \A k \in K : k = <<k[1], k[2]>>
  BY DEF VisitDefinitionQueries
<1>3. \A m : <<sel, m>> \in K <=> m \in def.metrics /\ (def.kind = "eks" \/ m # "custom")
  BY <1>1, Key
<1>4. Q = {k \in K : k[2] # "db" /\ k[1] = sel}
  BY <1>1 DEF FilterQueries
<1> DEFINE M == {m \in def.metrics : def.kind = "eks" \/ m # "custom"}
           F == {<<sel, m>> : m \in M}
<1>5. \A m \in M : m # "db"
  BY <1>1, DefShape, Metrics
<1>6. Q = F
  <2>1. ASSUME NEW k \in Q PROVE k \in F
    <3>1. k = <<sel, k[2]>> /\ k \in K
      BY <1>2, <1>4
    <3>2. k[2] \in M
      BY <1>3, <3>1
    <3> QED
      BY <3>1, <3>2
  <2>2. ASSUME NEW m \in M PROVE <<sel, m>> \in Q
    BY <1>3, <1>4, <1>5
  <2> QED
    BY <2>1, <2>2
<1>7. ASSUME NEW k \in U \cap K PROVE k \in F
  <2>1. PICK r \in rows : k \in r.keys /\ (def.kind = "eks" \/ r.metric # "custom")
    OBVIOUS
  <2>2. CASE def.kind = "eks" /\ r = PodsRow(def, answers, Variant(def, sel))
    <3>1. r.keys = {sel} \X {"ready", "desired"}
      BY <1>1, <2>2 DEF PodsRow
    <3>2. PICK m \in {"ready", "desired"} : k = <<sel, m>>
      BY <2>1, <3>1
    <3> QED
      BY <1>3, <3>2
  <2>3. ASSUME NEW m \in RowMetrics(def), r = MetricRow(def, answers, RowVariant(def, sel, m), m)
        PROVE  k \in F
    <3>1. r.metric = m /\ r.keys = {<<RowVariant(def, sel, m), m>>}
      BY <2>3, RowShape
    <3>2. k = <<sel, m>>
      BY <2>1, <3>1 DEF RowVariant
    <3> QED
      BY <1>3, <3>2
  <2> QED
    BY <1>1, <2>2, <2>3, RowsAre
<1>8. ASSUME NEW m \in M PROVE <<sel, m>> \in U
  <2>1. m \in MetricsOf(def.kind) \cup {"custom"} /\ (m \in {"ready", "desired"} => def.kind = "eks")
    BY <1>1, DefShape, Metrics
  <2>2. CASE m \in {"ready", "desired"}
    <3> DEFINE r == PodsRow(def, answers, Variant(def, sel))
    <3>1. r \in rows
      BY <1>1, <2>1, <2>2, RowsAre
    <3>2. r.keys = {sel} \X {"ready", "desired"}
      BY <1>1 DEF PodsRow
    <3> QED
      BY <2>1, <2>2, <3>1, <3>2
  <2>3. CASE m \notin {"ready", "desired"}
    <3> DEFINE r == MetricRow(def, answers, RowVariant(def, sel, m), m)
    <3>1. m \in RowMetrics(def)
      BY <2>1, <2>3 DEF RowMetrics
    <3>2. r \in rows
      BY <1>1, <3>1, RowsAre
    <3>3. r.metric = m /\ r.keys = {<<RowVariant(def, sel, m), m>>}
      BY RowShape
    <3>4. RowVariant(def, sel, m) = sel
      BY DEF RowVariant
    <3> HIDE DEF r, rows
    <3> QED
      BY <3>2, <3>3, <3>4
  <2> QED
    BY <2>2, <2>3
<1>9. F \subseteq K
  BY <1>3
<1>10. Q \cap K = U \cap K
  BY <1>6, <1>7, <1>8, <1>9
<1> QED
  BY <1>10, SameKeysAskSame

\* And so do the chart and the list of queries.
LEMMA ChartsAsk == CardInv => ChartAsksTheSame
<1> SUFFICES ASSUME CardInv PROVE ChartAsksTheSame
  OBVIOUS
<1>1. \A keys : Asked(keys) = {VisitDefinitionQueries(def)[k] : k \in keys \cap DOMAIN VisitDefinitionQueries(def)}
  BY DEF Asked
<1>2. \A r \in MetricRows(def, answers, sel) \cup DbRows(def, answers) :
         (r.metric # "pods" \/ sel \in def.names) =>
            Asked(ChartKeys(def, sel, r.metric)) = Asked(r.keys)
  BY ChartOfRow
<1>3. (sel \in def.names /\ Variant(def, sel) = sel) =>
         Asked(FilterQueries(def, sel)) =
           Asked(UNION {r.keys : r \in {x \in MetricRows(def, answers, sel) :
                                           def.kind = "eks" \/ x.metric # "custom"}})
  BY QueriesOfName
<1> QED
  BY <1>2, <1>3, Zenon DEF ChartAsksTheSame, Asked

\* The chart of a row sends the query whose answer the row shows, and the list of queries under
\* a name is that of its rows: for any definition, whatever is selected, also what is gone.
THEOREM ChartAsksTheSameAlways == Spec => []ChartAsksTheSame
<1> QED
  BY ChartsAsk, CardInvAlways, PTL

-----------------------------------------------------------------------------
(* Dots                                                                      *)

\* The worst of some rows is red if one of them is.
LEMMA WorstOf ==
    ASSUME NEW d, NEW rows
    PROVE  HealthFromMetricRows(d, rows) = "critical" <=>
              \E r \in rows : Status(d, r, weekAgo, mode) = "critical"
BY DEF HealthFromMetricRows

\* A row without a number has no status.
LEMMA NoNumberNoStatus ==
    ASSUME NEW d, NEW r, r.value = None
    PROVE  Status(d, r, weekAgo, mode) = "unknown"
BY DEF Status, PodsStatus

\* The rows without a number that may be hidden don't count for the dot.
LEMMA DotsHaveCauses == CardInv => DotHasItsCause
<1> SUFFICES ASSUME CardInv,
                    def.kind \in {"eks", "ec2"} \/ (def.kind # "flow" /\ Variant(def, sel) = "base")
             PROVE  Dot = "critical" <=>
                       \E r \in Listed(FALSE) : Status(def, r, weekAgo, mode) = "critical"
  BY DEF DotHasItsCause
<1> DEFINE all == MetricRows(def, answers, sel) \cup DbRows(def, answers)
<1>1. Dot = HealthFromMetricRows(def, all)
  <2>1. CASE def.kind \in Nodes
    BY <2>1 DEF Dot
  <2>2. CASE def.kind \notin Nodes
    <3>1. def \in Definitions /\ def.kind \in AllKinds \ Nodes /\ ~def.db /\ Variant(def, sel) = "base"
      BY <2>2, DefShape DEF CardInv, Nodes
    <3>2. RowMetrics(def) = MetricsOf(def.kind) \cup (def.metrics \cap {"custom"})
      BY <3>1, Metrics DEF RowMetrics, Nodes
    <3>3. \A m : RowVariant(def, sel, m) = "base"
      BY <3>1 DEF RowVariant
    <3>4. MetricRows(def, answers, sel) = {MetricRow(def, answers, "base", m) : m \in RowMetrics(def)}
      BY <3>1, <3>3, RowsAre DEF Nodes
    <3>5. DbRows(def, answers) = {}
      BY <3>1 DEF DbRows
    <3> QED
      BY <2>2, <3>2, <3>4, <3>5 DEF Dot, EdgeHealth
  <2> QED
    BY <2>1, <2>2
<1>2. Listed(FALSE) = {r \in all : r.value # None}
  BY DEF Listed
<1> HIDE DEF all
<1>3. "critical" # "unknown"
  OBVIOUS
<1> QED
  BY <1>1, <1>2, <1>3, WorstOf, NoNumberNoStatus

\* A dot is red exactly if a number that its card lists is, for any answers of now and of
\* a week ago: of a node whatever is selected, of an edge if its own endpoint is shown.
THEOREM DotHasItsCauseAlways == Spec => []DotHasItsCause
<1> QED
  BY DotsHaveCauses, CardInvAlways, PTL
=============================================================================
