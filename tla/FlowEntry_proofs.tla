--------------------------- MODULE FlowEntry_proofs ---------------------------
(***************************************************************************)
(* What a form of the page saves of an entry and its template is what the  *)
(* cards show, the schemas take what the forms make, and a copy of a       *)
(* template that is deleted shows what the reference did: for any metrics, *)
(* values and documents, and any number of forms.                          *)
(***************************************************************************)
EXTENDS FlowEntry, TLAPS

\* A template the manager's form may hold: what is wrong with it is one of the fields that the
\* form offers and the schema hasn't.
ManagersFields(k) == {"endpointPaths", "usedDeployment"} \cup RefOnly(k)
DraftOK(k, d) ==
    /\ BodySchema(k) \subseteq DOMAIN d.fields
    /\ DOMAIN d.fields \subseteq DefSchema(k) \cup ManagersFields(k)
    /\ MetricsOK(k, d.metrics)
    /\ MainSection(k) \in DOMAIN d.metrics
    /\ "consumerFilter" \in DOMAIN d.fields => "consumer" \in DOMAIN d.metrics

TemplateOK(k, t) == DefOK(k, t) /\ WellFormed(t)

\* What is toggled on of a metric.
Drafts == UNION {[on -> Values \cup {Blank}] : on \in SUBSET MetricFields}

FormOK ==
    /\ form.op \in {"metric", "order", "properties", "queries"} => entry # NoEntry
    /\ form.op = "metric" =>
          /\ form.draft \in Drafts
          /\ \/ form.section \in DOMAIN Base.metrics /\ form.key \in DOMAIN Base.metrics[form.section]
             \/ form.section = "metrics" /\ form.key \in CustomsOf(Base) \cup CustomsOf(entry)
    /\ form.op = "order" => kind \notin NodeKinds
    /\ form.op = "properties" => DOMAIN form.draft = FormFields(kind)
    /\ form.op = "queries" =>
          /\ form.section \in Sections(kind) /\ DOMAIN form.draft \subseteq SlotsOf[form.section]
          /\ \A x \in DOMAIN form.draft : form.draft[x] \in Contents
          /\ form.source \in Contents
    /\ form.op = "reference" => template # NoTemplate
    /\ form.op = "create" =>
          /\ form.made.fields \in [DOMAIN form.made.fields -> Values]
          /\ form.made.metrics = Unset(kind)
          /\ TemplateOK(kind, form.made)
    /\ form.op = "template" => DraftOK(kind, form.draft) /\ WellFormed(form.draft)

EntryInv ==
    /\ kind \in NodeKinds \cup EdgeKinds
    /\ entry # NoEntry => EntryOK(kind, entry)
    /\ WellFormed(entry)
    /\ template # NoTemplate => TemplateOK(kind, template)
    /\ ~entry.inline => TemplateOK(kind, template)
    /\ FormOK

-----------------------------------------------------------------------------
(* The tables of kinds                                                       *)

\* What the proofs need to know of the schemas, the resolver's lists and those of the forms,
\* each of which is a file of its own in the code.
TablesAgree(k) ==
    /\ MainSection(k) \in Sections(k)
    /\ DefSchema(k) \cap RefOnly(k) = {}
    /\ BodySchema(k) \cup MayBeBlank(k) \subseteq DefSchema(k) /\ "dataSource" \in BodySchema(k)
    /\ FormFields(k) \cap OnTheRef(k) \subseteq RefSchema(k)
    /\ FormFields(k) \ OnTheRef(k) \subseteq DefSchema(k) \cup IF k = "http-xml" THEN {"endpointPaths"} ELSE {}
    /\ (FormFields(k) \ OnTheRef(k)) \cap (RefOnly(k) \cup Overridable(k)) = {}
    /\ \A f \in FormFields(k) \cap OnTheRef(k) :
          f \in RefOnly(k) \cup Overridable(k) \/ f \notin DefSchema(k)
    /\ k \notin NodeKinds => "sequenceOrder" \in RefSchema(k)
    /\ RefSchema(k) \cap Overridable(k) \subseteq OnTheRef(k) \cup {"customMetrics"}
    /\ "routingKeyFilter" \in RefSchema(k) => "routingKeyFilter" \in OnTheRef(k)
    /\ "customMetrics" \in DefSchema(k) \cap Overridable(k)
    /\ TemplateFields(k) \subseteq DefSchema(k) \cup ManagersFields(k)
    /\ "label" \in FormFields(k)
    /\ \A f \in {"customMetrics", "consumerFilter", "publishFilter"} :
          f \notin FormFields(k) \cup TemplateFields(k) \cup BodySchema(k) \cup MayBeBlank(k)
             \cup RefOnly(k)
    /\ "consumerFilter" \notin Overridable(k)
    /\ k = "eks-service" => MainSection(k) = "metrics"

\* The tables of the code fit together for every kind.
LEMMA Tables == ASSUME NEW k \in NodeKinds \cup EdgeKinds PROVE TablesAgree(k)
<1>1. CASE k = "eks-service"
  <2>1. Sections("eks-service") = {"metrics"}
    BY Zenon DEF Sections, NodeKinds
  <2>2. MainSection("eks-service") = "metrics"
    BY Zenon DEF MainSection, NodeKinds
  <2>3. RefSchema("eks-service") = {"label", "dataSource", "customMetrics"} \cup {"usedDeployment"}
    BY Zenon DEF RefSchema, NodeKinds
  <2>4. BodySchema("eks-service") = {"label", "dataSource", "body"}
    BY Zenon DEF BodySchema, NodeKinds
  <2>5. DefSchema("eks-service") =
        ({"label", "dataSource", "body"} \cup {"customMetrics"}) \cup {"detail"}
    BY Zenon DEF DefSchema, NodeKinds, BodySchema
  <2>6. RefOnly("eks-service") = {}
    BY Zenon DEF RefOnly, NodeKinds
  <2>7. Overridable("eks-service") =
        {"dataSource", "customMetrics"} \cup {"label", "usedDeployment"}
    BY Zenon DEF Overridable, NodeKinds
  <2>8. FormFields("eks-service") =
        {"label", "dataSource"} \cup {"body", "detail", "usedDeployment"}
    BY Zenon DEF FormFields, NodeKinds
  <2>9. OnTheRef("eks-service") = {"label", "dataSource"} \cup {"usedDeployment"}
    BY Zenon DEF OnTheRef, NodeKinds
  <2>10. MayBeBlank("eks-service") = {"detail"}
    BY Zenon DEF MayBeBlank, NodeKinds
  <2>11. TemplateFields("eks-service") =
        {"label", "dataSource"} \cup {"body", "detail", "usedDeployment"}
    BY Zenon DEF TemplateFields, NodeKinds, FormFields
  <2> QED
    BY <1>1, <2>1, <2>2, <2>3, <2>4, <2>5, <2>6, <2>7, <2>8, <2>9, <2>10, <2>11
       DEF TablesAgree, NodeKinds, ManagersFields
<1>2. CASE k = "external"
  <2>1. Sections("external") = {"metrics"}
    BY Zenon DEF Sections, NodeKinds
  <2>2. MainSection("external") = "metrics"
    BY Zenon DEF MainSection, NodeKinds
  <2>3. RefSchema("external") = {"label", "dataSource", "customMetrics"} \cup {"usedDeployment"}
    BY Zenon DEF RefSchema, NodeKinds
  <2>4. BodySchema("external") = {"label", "dataSource", "body"}
    BY Zenon DEF BodySchema, NodeKinds
  <2>5. DefSchema("external") =
        ({"label", "dataSource", "body"} \cup {"customMetrics"}) \cup {"detail"}
    BY Zenon DEF DefSchema, NodeKinds, BodySchema
  <2>6. RefOnly("external") = {}
    BY Zenon DEF RefOnly, NodeKinds
  <2>7. Overridable("external") = {"dataSource", "customMetrics"} \cup {"label"}
    BY Zenon DEF Overridable, NodeKinds
  <2>8. FormFields("external") = {"label", "dataSource"} \cup {"body", "detail"}
    BY Zenon DEF FormFields, NodeKinds
  <2>9. OnTheRef("external") = {"label", "dataSource"} \cup {"usedDeployment"}
    BY Zenon DEF OnTheRef, NodeKinds
  <2>10. MayBeBlank("external") = {"detail"}
    BY Zenon DEF MayBeBlank, NodeKinds
  <2>11. TemplateFields("external") = {"label", "dataSource"} \cup {"body", "detail"}
    BY Zenon DEF TemplateFields, NodeKinds, FormFields
  <2> QED
    BY <1>2, <2>1, <2>2, <2>3, <2>4, <2>5, <2>6, <2>7, <2>8, <2>9, <2>10, <2>11
       DEF TablesAgree, NodeKinds, ManagersFields
<1>3. CASE k = "http-json"
  <2>1. Sections("http-json") = {"metrics"}
    BY Zenon DEF Sections, NodeKinds
  <2>2. MainSection("http-json") = "metrics"
    BY Zenon DEF MainSection, NodeKinds
  <2>3. RefSchema("http-json") =
        {"label", "dataSource", "customMetrics"} \cup ({"sequenceOrder"} \cup {"method", "endpointPath", "endpointPaths"})
    BY Zenon DEF RefSchema, NodeKinds
  <2>4. BodySchema("http-json") = {"dataSource"}
    BY Zenon DEF BodySchema, NodeKinds
  <2>5. DefSchema("http-json") = ({"dataSource"} \cup {"customMetrics"}) \cup {}
    BY Zenon DEF DefSchema, NodeKinds, BodySchema
  <2>6. RefOnly("http-json") = {"method", "endpointPath", "sequenceOrder"}
    BY Zenon DEF RefOnly, NodeKinds
  <2>7. Overridable("http-json") = {"dataSource", "customMetrics"} \cup {"endpointPaths"}
    BY Zenon DEF Overridable, NodeKinds
  <2>8. FormFields("http-json") =
        {"label", "dataSource"} \cup {"method", "endpointPath", "endpointPaths"}
    BY Zenon DEF FormFields, NodeKinds
  <2>9. OnTheRef("http-json") =
        {"label", "dataSource"} \cup {"method", "endpointPath", "endpointPaths"}
    BY Zenon DEF OnTheRef, NodeKinds
  <2>10. MayBeBlank("http-json") = {}
    BY Zenon DEF MayBeBlank, NodeKinds
  <2>11. TemplateFields("http-json") =
        ({"label", "dataSource"} \cup {"method", "endpointPath", "endpointPaths"}) \ {"label"}
    BY Zenon DEF TemplateFields, NodeKinds, FormFields
  <2> QED
    BY <1>3, <2>1, <2>2, <2>3, <2>4, <2>5, <2>6, <2>7, <2>8, <2>9, <2>10, <2>11
       DEF TablesAgree, NodeKinds, ManagersFields
<1>4. CASE k = "http-xml"
  <2>1. Sections("http-xml") = {"metrics"}
    BY Zenon DEF Sections, NodeKinds
  <2>2. MainSection("http-xml") = "metrics"
    BY Zenon DEF MainSection, NodeKinds
  <2>3. RefSchema("http-xml") =
        {"label", "dataSource", "customMetrics"} \cup ({"sequenceOrder"} \cup {"method", "endpointPath", "soapAction"})
    BY Zenon DEF RefSchema, NodeKinds
  <2>4. BodySchema("http-xml") = {"dataSource"}
    BY Zenon DEF BodySchema, NodeKinds
  <2>5. DefSchema("http-xml") = ({"dataSource"} \cup {"customMetrics"}) \cup {}
    BY Zenon DEF DefSchema, NodeKinds, BodySchema
  <2>6. RefOnly("http-xml") = {"method", "endpointPath", "soapAction", "sequenceOrder"}
    BY Zenon DEF RefOnly, NodeKinds
  <2>7. Overridable("http-xml") = {"dataSource", "customMetrics"} \cup {}
    BY Zenon DEF Overridable, NodeKinds
  <2>8. FormFields("http-xml") =
        {"label", "dataSource"} \cup {"method", "endpointPath", "endpointPaths", "soapAction"}
    BY Zenon DEF FormFields, NodeKinds
  <2>9. OnTheRef("http-xml") = {"label", "dataSource"} \cup {"method", "endpointPath", "soapAction"}
    BY Zenon DEF OnTheRef, NodeKinds
  <2>10. MayBeBlank("http-xml") = {}
    BY Zenon DEF MayBeBlank, NodeKinds
  <2>11. TemplateFields("http-xml") =
        ({"label", "dataSource"} \cup {"method", "endpointPath", "endpointPaths", "soapAction"}) \ {"label"}
    BY Zenon DEF TemplateFields, NodeKinds, FormFields
  <2> QED
    BY <1>4, <2>1, <2>2, <2>3, <2>4, <2>5, <2>6, <2>7, <2>8, <2>9, <2>10, <2>11
       DEF TablesAgree, NodeKinds, ManagersFields
<1>5. CASE k = "tcp-db"
  <2>1. Sections("tcp-db") = {"metrics"}
    BY Zenon DEF Sections, NodeKinds
  <2>2. MainSection("tcp-db") = "metrics"
    BY Zenon DEF MainSection, NodeKinds
  <2>3. RefSchema("tcp-db") =
        {"label", "dataSource", "customMetrics"} \cup ({"sequenceOrder"} \cup {})
    BY Zenon DEF RefSchema, NodeKinds
  <2>4. BodySchema("tcp-db") = {"dataSource"}
    BY Zenon DEF BodySchema, NodeKinds
  <2>5. DefSchema("tcp-db") = ({"dataSource"} \cup {"customMetrics"}) \cup {"detail"}
    BY Zenon DEF DefSchema, NodeKinds, BodySchema
  <2>6. RefOnly("tcp-db") = {"sequenceOrder"}
    BY Zenon DEF RefOnly, NodeKinds
  <2>7. Overridable("tcp-db") = {"dataSource", "customMetrics"} \cup {}
    BY Zenon DEF Overridable, NodeKinds
  <2>8. FormFields("tcp-db") = {"label", "dataSource"} \cup {"detail"}
    BY Zenon DEF FormFields, NodeKinds
  <2>9. OnTheRef("tcp-db") = {"label", "dataSource"} \cup {}
    BY Zenon DEF OnTheRef, NodeKinds
  <2>10. MayBeBlank("tcp-db") = {}
    BY Zenon DEF MayBeBlank, NodeKinds
  <2>11. TemplateFields("tcp-db") = ({"label", "dataSource"} \cup {"detail"}) \ {"label"}
    BY Zenon DEF TemplateFields, NodeKinds, FormFields
  <2> QED
    BY <1>5, <2>1, <2>2, <2>3, <2>4, <2>5, <2>6, <2>7, <2>8, <2>9, <2>10, <2>11
       DEF TablesAgree, NodeKinds, ManagersFields
<1>6. CASE k = "amqp"
  <2>1. Sections("amqp") = {"publish", "queue", "consumer"}
    BY Zenon DEF Sections, NodeKinds
  <2>2. MainSection("amqp") = "publish"
    BY Zenon DEF MainSection, NodeKinds
  <2>3. RefSchema("amqp") =
        {"label", "dataSource", "customMetrics"} \cup ({"sequenceOrder"} \cup {"routingKeyFilter"})
    BY Zenon DEF RefSchema, NodeKinds
  <2>4. BodySchema("amqp") = {"dataSource", "body"}
    BY Zenon DEF BodySchema, NodeKinds
  <2>5. DefSchema("amqp") =
        ({"dataSource", "body"} \cup {"customMetrics"}) \cup {"publishFilter", "consumerFilter", "detail"}
    BY Zenon DEF DefSchema, NodeKinds, BodySchema
  <2>6. RefOnly("amqp") = {"sequenceOrder"}
    BY Zenon DEF RefOnly, NodeKinds
  <2>7. Overridable("amqp") = {"dataSource", "customMetrics"} \cup {}
    BY Zenon DEF Overridable, NodeKinds
  <2>8. FormFields("amqp") = {"label", "dataSource"} \cup {"body", "routingKeyFilter"}
    BY Zenon DEF FormFields, NodeKinds
  <2>9. OnTheRef("amqp") = {"label", "dataSource"} \cup {"routingKeyFilter"}
    BY Zenon DEF OnTheRef, NodeKinds
  <2>10. MayBeBlank("amqp") = {}
    BY Zenon DEF MayBeBlank, NodeKinds
  <2>11. TemplateFields("amqp") = {"dataSource", "body", "detail"}
    BY Zenon DEF TemplateFields, NodeKinds, FormFields
  <2> QED
    BY <1>6, <2>1, <2>2, <2>3, <2>4, <2>5, <2>6, <2>7, <2>8, <2>9, <2>10, <2>11
       DEF TablesAgree, NodeKinds, ManagersFields
<1>7. CASE k = "kafka"
  <2>1. Sections("kafka") = {"publish", "topicMetrics", "consumer"}
    BY Zenon DEF Sections, NodeKinds
  <2>2. MainSection("kafka") = "publish"
    BY Zenon DEF MainSection, NodeKinds
  <2>3. RefSchema("kafka") =
        {"label", "dataSource", "customMetrics"} \cup ({"sequenceOrder"} \cup {"consumerGroup"})
    BY Zenon DEF RefSchema, NodeKinds
  <2>4. BodySchema("kafka") = {"dataSource", "body"}
    BY Zenon DEF BodySchema, NodeKinds
  <2>5. DefSchema("kafka") = ({"dataSource", "body"} \cup {"customMetrics"}) \cup {"consumerGroup"}
    BY Zenon DEF DefSchema, NodeKinds, BodySchema
  <2>6. RefOnly("kafka") = {"sequenceOrder"}
    BY Zenon DEF RefOnly, NodeKinds
  <2>7. Overridable("kafka") = {"dataSource", "customMetrics"} \cup {"consumerGroup"}
    BY Zenon DEF Overridable, NodeKinds
  <2>8. FormFields("kafka") = {"label", "dataSource"} \cup {"body", "consumerGroup"}
    BY Zenon DEF FormFields, NodeKinds
  <2>9. OnTheRef("kafka") = {"label", "dataSource"} \cup {"consumerGroup"}
    BY Zenon DEF OnTheRef, NodeKinds
  <2>10. MayBeBlank("kafka") = {"consumerGroup"}
    BY Zenon DEF MayBeBlank, NodeKinds
  <2>11. TemplateFields("kafka") =
        ({"label", "dataSource"} \cup {"body", "consumerGroup"}) \ {"label"}
    BY Zenon DEF TemplateFields, NodeKinds, FormFields
  <2> QED
    BY <1>7, <2>1, <2>2, <2>3, <2>4, <2>5, <2>6, <2>7, <2>8, <2>9, <2>10, <2>11
       DEF TablesAgree, NodeKinds, ManagersFields
<1>8. CASE k = "grpc"
  <2>1. Sections("grpc") = {"metrics"}
    BY Zenon DEF Sections, NodeKinds
  <2>2. MainSection("grpc") = "metrics"
    BY Zenon DEF MainSection, NodeKinds
  <2>3. RefSchema("grpc") =
        {"label", "dataSource", "customMetrics"} \cup ({"sequenceOrder"} \cup {})
    BY Zenon DEF RefSchema, NodeKinds
  <2>4. BodySchema("grpc") = {"dataSource", "body"}
    BY Zenon DEF BodySchema, NodeKinds
  <2>5. DefSchema("grpc") = ({"dataSource", "body"} \cup {"customMetrics"}) \cup {}
    BY Zenon DEF DefSchema, NodeKinds, BodySchema
  <2>6. RefOnly("grpc") = {"sequenceOrder"}
    BY Zenon DEF RefOnly, NodeKinds
  <2>7. Overridable("grpc") = {"dataSource", "customMetrics"} \cup {}
    BY Zenon DEF Overridable, NodeKinds
  <2>8. FormFields("grpc") = {"label", "dataSource"} \cup {"body"}
    BY Zenon DEF FormFields, NodeKinds
  <2>9. OnTheRef("grpc") = {"label", "dataSource"} \cup {}
    BY Zenon DEF OnTheRef, NodeKinds
  <2>10. MayBeBlank("grpc") = {}
    BY Zenon DEF MayBeBlank, NodeKinds
  <2>11. TemplateFields("grpc") = ({"label", "dataSource"} \cup {"body"}) \ {"label"}
    BY Zenon DEF TemplateFields, NodeKinds, FormFields
  <2> QED
    BY <1>8, <2>1, <2>2, <2>3, <2>4, <2>5, <2>6, <2>7, <2>8, <2>9, <2>10, <2>11
       DEF TablesAgree, NodeKinds, ManagersFields
<1> QED
  BY <1>1, <1>2, <1>3, <1>4, <1>5, <1>6, <1>7, <1>8 DEF NodeKinds, EdgeKinds

-----------------------------------------------------------------------------
(* What the operators on documents do                                        *)

\* Leaving out fields that aren't there changes nothing.
LEMMA WithoutNothing ==
    ASSUME NEW f, NEW D, f = [x \in DOMAIN f |-> f[x]], DOMAIN f \cap D = {}
    PROVE  Without(f, D) = f
<1>1. DOMAIN f \ D = DOMAIN f
  OBVIOUS
<1> QED
  BY <1>1 DEF Without

\* A metric of a reference, as it is shown: the template's, with the reference's over it.
LEMMA ShownOfRef ==
    ASSUME NEW k, NEW t, NEW r, NEW s, NEW x
    PROVE  MetricAt(ResolveRef(k, t, r), s, x) =
              IF s \in DOMAIN t.metrics /\ x \in DOMAIN t.metrics[s]
              THEN IF x \in DOMAIN Part(r.metrics, s)
                   THEN Effective(t.metrics[s][x], Part(r.metrics, s)[x])
                   ELSE t.metrics[s][x]
              ELSE Null
<1> DEFINE m == ResolveRef(k, t, r).metrics
<1>1. m = [z \in DOMAIN t.metrics |-> MergeMetrics(t.metrics[z], Part(r.metrics, z))]
  BY DEF ResolveRef
<1>2. CASE s \notin DOMAIN t.metrics
  BY <1>1, <1>2 DEF MetricAt, Part, Nowhere
<1>3. CASE s \in DOMAIN t.metrics
  <2>1. Part(m, s) = MergeMetrics(t.metrics[s], Part(r.metrics, s)) /\ m[s] = Part(m, s)
    BY <1>1, <1>3 DEF Part
  <2> QED
    BY <2>1, <1>3 DEF MetricAt, MergeMetrics, Effective
<1> QED
  BY <1>2, <1>3

\* What a row of the metric forms says.
LEMMA RowShape ==
    ASSUME NEW t, NEW e, NEW row \in Rows(t, e)
    PROVE  /\ row.section \in DOMAIN t.metrics
           /\ row.key \in DOMAIN t.metrics[row.section]
           /\ row.effective =
                 IF ~e.inline /\ row.key \in DOMAIN Part(e.metrics, row.section)
                 THEN Effective(t.metrics[row.section][row.key], Part(e.metrics, row.section)[row.key])
                 ELSE t.metrics[row.section][row.key]
BY DEF Rows, Nowhere

\* Of every metric of a document there is a row.
LEMMA RowThere ==
    ASSUME NEW t, NEW e, NEW s \in DOMAIN t.metrics, NEW x \in DOMAIN t.metrics[s],
           e.inline \/ x \notin DOMAIN Part(e.metrics, s)
    PROVE  [section |-> s, key |-> x, overridden |-> FALSE, effective |-> t.metrics[s][x]] \in Rows(t, e)
<1> DEFINE over(z) == IF e.inline THEN Nowhere ELSE Part(e.metrics, z)
           Row(z, y) == [section |-> z, key |-> y, overridden |-> y \in DOMAIN over(z),
                         effective |-> IF y \in DOMAIN over(z)
                                       THEN Effective(t.metrics[z][y], over(z)[y])
                                       ELSE t.metrics[z][y]]
<1>1. x \notin DOMAIN over(s)
  BY DEF Nowhere
<1>2. (x \in DOMAIN over(s)) = FALSE
  BY <1>1
<1>3. [section |-> s, key |-> x, overridden |-> FALSE, effective |-> t.metrics[s][x]] = Row(s, x)
  BY <1>1, <1>2
<1>4. Rows(t, e) = UNION {{Row(z, y) : y \in DOMAIN t.metrics[z]} : z \in DOMAIN t.metrics}
  BY Zenon DEF Rows
<1> HIDE DEF Row
<1>5. Row(s, x) \in UNION {{Row(z, y) : y \in DOMAIN t.metrics[z]} : z \in DOMAIN t.metrics}
  OBVIOUS
<1> QED
  BY <1>3, <1>4, <1>5, Zenon

\* A row agrees with what is shown, for any documents whatsoever.
LEMMA RowAgrees ==
    ASSUME NEW row \in Rows(Base, entry)
    PROVE  row.effective = MetricAt(Shown, row.section, row.key)
<1>1. CASE entry.inline
  BY <1>1, RowShape DEF Base, Shown, Resolve, ResolveInline, MetricAt, Part
<1>2. CASE ~entry.inline
  BY <1>2, RowShape, ShownOfRef DEF Base, Shown, Resolve
<1> QED
  BY <1>1, <1>2

\* A section of the metrics that isn't there is as one that is empty.
LEMMA PartOf ==
    ASSUME NEW m, NEW z
    PROVE  /\ z \in DOMAIN m => Part(m, z) = m[z]
           /\ \A y : y \in DOMAIN Part(m, z) => z \in DOMAIN m
BY DEF Part, Nowhere

\* A metric that is patched has what was toggled on, or is gone if nothing was; the others
\* stay, and of the sections only that of the metric comes or goes.
LEMMA Patched ==
    ASSUME NEW m, NEW s, NEW x, NEW draft, NEW P, P = PatchMetrics(m, s, x, draft)
    PROVE  /\ \A z, y : ~(z = s /\ y = x) =>
                 /\ y \in DOMAIN Part(P, z) <=> y \in DOMAIN Part(m, z)
                 /\ y \in DOMAIN Part(P, z) => Part(P, z)[y] = Part(m, z)[y]
           /\ DOMAIN draft = {} => x \notin DOMAIN Part(P, s)
           /\ DOMAIN draft # {} =>
                 x \in DOMAIN Part(P, s) /\ Part(P, s)[x] = Stored(draft)
           /\ \A z : z # s => (z \in DOMAIN P <=> z \in DOMAIN m)
<1> DEFINE old == Part(m, s)
           new == IF DOMAIN draft = {} THEN Without(old, {x}) ELSE With(old, x, Stored(draft))
<1>1. P = IF DOMAIN new = {} THEN Without(m, {s}) ELSE With(m, s, new)
  BY DEF PatchMetrics
<1>2. DOMAIN new = IF DOMAIN draft = {} THEN DOMAIN old \ {x} ELSE DOMAIN old \cup {x}
  BY DEF Without, With
<1>3. DOMAIN draft # {} => new[x] = Stored(draft)
  BY DEF With
<1>4. \A y \in DOMAIN new : y # x => new[y] = old[y]
  BY DEF Without, With
<1> HIDE DEF new, old
<1>5. CASE DOMAIN new = {}
  <2>1. DOMAIN P = DOMAIN m \ {s} /\ \A z \in DOMAIN P : P[z] = m[z]
    BY <1>1, <1>5 DEF Without
  <2>2. Part(P, s) = Nowhere /\ \A z : z # s => Part(P, z) = Part(m, z)
    BY <2>1 DEF Part
  <2>3. DOMAIN draft = {} /\ DOMAIN old \subseteq {x}
    BY <1>2, <1>5
  <2> QED
    BY <2>1, <2>2, <2>3 DEF Nowhere, old
<1>6. CASE DOMAIN new # {}
  <2>1. DOMAIN P = DOMAIN m \cup {s} /\ P[s] = new /\ \A z \in DOMAIN m : z # s => P[z] = m[z]
    BY <1>1, <1>6 DEF With
  <2>2. Part(P, s) = new /\ \A z : z # s => Part(P, z) = Part(m, z)
    BY <2>1 DEF Part
  <2> QED
    BY <2>1, <2>2, <1>2, <1>3, <1>4 DEF old
<1> QED
  BY <1>5, <1>6

\* A metric of which nothing is toggled on is gone.
LEMMA PatchedAway ==
    ASSUME NEW m, NEW s, NEW x, NEW draft, DOMAIN draft = {}
    PROVE  x \notin DOMAIN Part(PatchMetrics(m, s, x, draft), s)
<1>1. PICK P : P = PatchMetrics(m, s, x, draft)
  OBVIOUS
<1>2. x \notin DOMAIN Part(P, s)
  BY <1>1, Patched
<1> QED
  BY <1>1, <1>2

-----------------------------------------------------------------------------
(* Metrics                                                                   *)

\* A function on fields of a metric, with values that a form or a file may give them, is one.
LEMMA IsObject ==
    ASSUME NEW F \in SUBSET MetricFields, NEW m \in [F -> Contents]
    PROVE  m \in MetricObjects
BY DEF MetricObjects

\* And every metric is such a function.
LEMMA ObjectShape ==
    ASSUME NEW m \in MetricObjects
    PROVE  \E F \in SUBSET MetricFields : m \in [F -> Contents]
BY DEF MetricObjects

\* Configured metrics stay such when fields are added or left out.
LEMMA SpreadIsObject ==
    ASSUME NEW m \in MetricObjects, NEW n \in MetricObjects
    PROVE  Spread(m, n) \in MetricObjects
<1>1. PICK F \in SUBSET MetricFields : m \in [F -> Contents]
  BY ObjectShape
<1>2. PICK G \in SUBSET MetricFields : n \in [G -> Contents]
  BY ObjectShape
<1>3. F \cup G \in SUBSET MetricFields
  OBVIOUS
<1>4. Spread(m, n) \in [F \cup G -> Contents]
  BY <1>1, <1>2 DEF Spread
<1> QED
  BY <1>3, <1>4, IsObject

\* A metric of which fields are left out is one.
LEMMA WithoutIsObject ==
    ASSUME NEW m \in MetricObjects, NEW D
    PROVE  Without(m, D) \in MetricObjects
<1>1. PICK F \in SUBSET MetricFields : m \in [F -> Contents]
  BY ObjectShape
<1>2. F \ D \in SUBSET MetricFields
  OBVIOUS
<1>3. Without(m, D) \in [F \ D -> Contents]
  BY <1>1 DEF Without
<1> QED
  BY <1>2, <1>3, IsObject

\* And one of which a field is set.
LEMMA WithIsObject ==
    ASSUME NEW m \in MetricObjects, NEW f \in MetricFields, NEW v \in Contents
    PROVE  With(m, f, v) \in MetricObjects
<1>1. PICK F \in SUBSET MetricFields : m \in [F -> Contents]
  BY ObjectShape
<1>2. F \cup {f} \in SUBSET MetricFields
  OBVIOUS
<1>3. With(m, f, v) \in [F \cup {f} -> Contents]
  BY <1>1 DEF With
<1> QED
  BY <1>2, <1>3, IsObject

\* What draftToPartialMetric makes of the fields toggled on is a metric of some of them.
LEMMA StoredIsObject ==
    ASSUME NEW draft \in Drafts
    PROVE  Stored(draft) \in MetricObjects /\ DOMAIN Stored(draft) \subseteq DOMAIN draft
<1>1. PICK F \in SUBSET MetricFields : draft \in [F -> Values \cup {Blank}]
  BY DEF Drafts
<1> DEFINE G == {f \in DOMAIN draft : /\ f = "dataSource" => draft[f] # Shown.fields["dataSource"]
                                      /\ draft[f] # Blank}
<1>2. Stored(draft) = Only(draft, G)
  BY DEF Stored
<1>3. G \subseteq F
  BY <1>1
<1> HIDE DEF G
<1>4. Only(draft, G) \in [G -> Contents] /\ G \in SUBSET MetricFields
  BY <1>1, <1>3 DEF Only, Contents
<1> QED
  BY <1>1, <1>2, <1>3, <1>4, IsObject

\* The metrics the chart starts from, with a query alone, are such.
LEMMA ConstantIsObject ==
    ASSUME NEW f \in MetricFields, NEW v \in Contents
    PROVE  /\ [y \in {f} |-> v] \in MetricObjects
           /\ [y \in {} |-> Null] \in MetricObjects
           /\ [y \in Needed |-> "default"] \in MetricObjects
<1>1. Needed \in SUBSET MetricFields /\ {f} \in SUBSET MetricFields /\ {} \in SUBSET MetricFields
  BY EntryAssumption
<1>2. [y \in {f} |-> v] \in [{f} -> Contents]
  OBVIOUS
<1>3. [y \in {} |-> Null] \in [{} -> Contents]
  OBVIOUS
<1>4. [y \in Needed |-> "default"] \in [Needed -> Contents]
  BY DEF Contents
<1> QED
  BY <1>1, <1>2, <1>3, <1>4, IsObject

\* What the manager's form makes of a metric.
LEMMA EditedIsObject ==
    ASSUME NEW m \in MetricObjects \cup {Null}, NEW f \in MetricFields, NEW v \in Values \cup {Blank},
           m # Null => Needed \subseteq DOMAIN m
    PROVE  /\ Edited(m, f, v) \in MetricObjects
           /\ Needed \subseteq DOMAIN Edited(m, f, v)
<1>1. Needed \in SUBSET MetricFields
  BY EntryAssumption
<1>2. Touched(m) \in MetricObjects /\ Needed \subseteq DOMAIN Touched(m)
  <2>1. [g \in Needed |-> IF g = "query" THEN Blank ELSE "default"]
          \in [Needed -> Contents]
    BY DEF Contents
  <2>2. [g \in Needed |-> IF g = "query" THEN Blank ELSE "default"] \in MetricObjects
    BY <1>1, <2>1, IsObject
  <2> QED
    BY <2>2 DEF Touched
<1>3. Without(Touched(m), {f}) \in MetricObjects /\ With(Touched(m), f, v) \in MetricObjects
  BY <1>2, WithoutIsObject, WithIsObject DEF Contents
<1>4. f \notin Needed => Needed \subseteq DOMAIN Without(Touched(m), {f})
  BY <1>2 DEF Without
<1>5. Needed \subseteq DOMAIN With(Touched(m), f, v)
  BY <1>2 DEF With
<1>6. "sla" \notin Needed
  BY EntryAssumption
<1> QED
  BY <1>3, <1>4, <1>5, <1>6 DEF Edited

\* A metric that is replaced by one that may be stored leaves a document that may be.
LEMMA MetricReplaced ==
    ASSUME NEW k, NEW t, NEW s \in Sections(k), NEW x \in SlotsOf[s], NEW m,
           m \in MetricObjects \cup {Null}, m # Null => Needed \subseteq DOMAIN m
    PROVE  /\ WithMetric(t, s, x, m).fields = t.fields
           /\ DOMAIN WithMetric(t, s, x, m).metrics = DOMAIN t.metrics \cup {s}
           /\ \A z, y : ~(z = s /\ y = x) =>
                 /\ MetricAt(WithMetric(t, s, x, m), z, y) = MetricAt(t, z, y)
                 /\ y \in DOMAIN Part(WithMetric(t, s, x, m).metrics, z)
                      <=> y \in DOMAIN Part(t.metrics, z)
           /\ MetricAt(WithMetric(t, s, x, m), s, x) = m
           /\ MetricsOK(k, t.metrics) => MetricsOK(k, WithMetric(t, s, x, m).metrics)
           /\ WellFormed(t) => WellFormed(WithMetric(t, s, x, m))
<1> DEFINE n == WithMetric(t, s, x, m).metrics
<1>1. WithMetric(t, s, x, m).fields = t.fields
  BY DEF WithMetric
<1>2. /\ DOMAIN n = DOMAIN t.metrics \cup {s}
      /\ DOMAIN n[s] = DOMAIN Part(t.metrics, s) \cup {x}
      /\ n[s][x] = m
      /\ \A y \in DOMAIN Part(t.metrics, s) :
            y # x => s \in DOMAIN t.metrics /\ n[s][y] = t.metrics[s][y]
      /\ \A z \in DOMAIN t.metrics : z # s => n[z] = t.metrics[z]
  BY DEF WithMetric, With, Part, Nowhere
<1> HIDE DEF n
<1>3. /\ \A z, y : ~(z = s /\ y = x) => MetricAt([metrics |-> n], z, y) = MetricAt(t, z, y)
      /\ MetricAt([metrics |-> n], s, x) = m
  BY <1>2 DEF MetricAt, Part, Nowhere
<1>7. \A z, y : ~(z = s /\ y = x) => (y \in DOMAIN Part(n, z) <=> y \in DOMAIN Part(t.metrics, z))
  BY <1>2 DEF Part, Nowhere
<1>4. \A z, y : MetricAt([metrics |-> n], z, y) = MetricAt(WithMetric(t, s, x, m), z, y)
  BY DEF MetricAt, n
<1>5. MetricsOK(k, t.metrics) => MetricsOK(k, n)
  BY <1>2 DEF MetricsOK, Part, Nowhere
<1>6. WellFormed(t) => WellFormed(WithMetric(t, s, x, m))
  <2> SUFFICES ASSUME WellFormed(t) PROVE WellFormed(WithMetric(t, s, x, m))
    OBVIOUS
  <2>1. \A z \in DOMAIN n : \A y \in DOMAIN n[z] : n[z][y] \in MetricObjects \cup {Null}
    BY <1>2 DEF WellFormed, Part, Nowhere
  <2>2. CustomsOf(WithMetric(t, s, x, m)) = CustomsOf(t)
    BY <1>1 DEF CustomsOf
  <2> QED
    BY <2>1, <2>2 DEF WellFormed, n
<1> QED
  BY <1>1, <1>2, <1>3, <1>4, <1>5, <1>6, <1>7 DEF n

\* Metrics that the schemas take, of a template and a reference to it, are merged to such.
LEMMA MergedOK ==
    ASSUME NEW k, NEW t, NEW r, MetricsOK(k, t.metrics), MetricsOK(k, r.metrics),
           WellFormed(t), WellFormed(r), NEW m, m = ResolveRef(k, t, r).metrics
    PROVE  /\ DOMAIN m = DOMAIN t.metrics
           /\ MetricsOK(k, m)
           /\ \A s \in DOMAIN m : \A x \in DOMAIN m[s] : m[s][x] \in MetricObjects \cup {Null}
<1>1. m = [z \in DOMAIN t.metrics |-> MergeMetrics(t.metrics[z], Part(r.metrics, z))]
  BY DEF ResolveRef
<1>2. DOMAIN m = DOMAIN t.metrics
  BY <1>1
<1>3. ASSUME NEW s \in DOMAIN m, NEW x \in DOMAIN m[s]
      PROVE  /\ x \in DOMAIN t.metrics[s]
             /\ (m[s][x] \in MetricObjects /\ Needed \subseteq DOMAIN m[s][x]) \/ m[s][x] = Null
  <2> DEFINE own == t.metrics[s][x]
             over == Part(r.metrics, s)
  <2>1. m[s] = MergeMetrics(t.metrics[s], over)
    BY <1>1, <1>2
  <2>2. /\ x \in DOMAIN t.metrics[s]
        /\ x \in DOMAIN over => over[x] # Null
        /\ m[s][x] = IF x \notin DOMAIN over THEN own
                     ELSE IF own = Null THEN over[x] ELSE Spread(own, over[x])
    BY <2>1 DEF MergeMetrics
  <2>3. own # Null => own \in MetricObjects /\ Needed \subseteq DOMAIN own
    BY <1>2, <2>2 DEF MetricsOK, WellFormed
  <2>4. x \in DOMAIN over => over[x] \in MetricObjects /\ Needed \subseteq DOMAIN over[x]
    BY <2>2, PartOf DEF MetricsOK, WellFormed
  <2>5. own # Null /\ x \in DOMAIN over =>
          Spread(own, over[x]) \in MetricObjects /\ Needed \subseteq DOMAIN Spread(own, over[x])
    BY <2>3, <2>4, SpreadIsObject DEF Spread
  <2> HIDE DEF own, over
  <2> QED
    BY <2>2, <2>3, <2>4, <2>5
<1>4. MetricsOK(k, m)
  BY <1>2, <1>3 DEF MetricsOK
<1> QED
  BY <1>2, <1>3, <1>4

\* The copy of what a reference resolves to has the custom metrics of the one or the other.
LEMMA InlinedWellFormed ==
    ASSUME NEW k, NEW t, NEW r, MetricsOK(k, t.metrics), MetricsOK(k, r.metrics),
           WellFormed(t), WellFormed(r)
    PROVE  WellFormed(Inlined(k, t, r))
<1> DEFINE d == Inlined(k, t, r)
<1>1. d.metrics = ResolveRef(k, t, r).metrics /\ d.fields = ResolveRef(k, t, r).fields
  BY DEF Inlined
<1>2. CustomsOf(d) \subseteq CustomsOf(t) \cup CustomsOf(r)
  <2>1. "customMetrics" \notin DOMAIN Filters(t, r)
    BY DEF Filters, Nowhere
  <2>2. d.fields = Spread(Spread(t.fields, Only(r.fields, RefOnly(k) \cup Overridable(k))), Filters(t, r))
    BY <1>1 DEF ResolveRef
  <2> HIDE DEF d
  <2> QED
    BY <2>1, <2>2 DEF CustomsOf, Spread, Only
<1> HIDE DEF d
<1>3. \A s \in DOMAIN d.metrics : \A x \in DOMAIN d.metrics[s] : d.metrics[s][x] \in MetricObjects \cup {Null}
  BY <1>1, MergedOK
<1>4. \A c \in CustomsOf(d) : c \notin SlotsOf["metrics"]
  BY <1>2 DEF WellFormed
<1> QED
  BY <1>3, <1>4 DEF WellFormed, d

-----------------------------------------------------------------------------
(* The inductive invariant: filling in a form                                *)

\* The documents at the start are ones the schemas take, and no form is filled in.
LEMMA EntryInvInit == Init => EntryInv
<1> SUFFICES ASSUME Init PROVE EntryInv
  OBVIOUS
<1>1. kind \in NodeKinds \cup EdgeKinds
  BY EntryAssumption DEF Init
<1>2. WellFormed(NoEntry)
  BY DEF WellFormed, NoEntry, Nowhere, CustomsOf
<1>3. WellFormed(entry) /\ (entry # NoEntry => EntryOK(kind, entry))
  BY <1>2, EntryAssumption DEF Init
<1>4. template # NoTemplate => TemplateOK(kind, template)
  BY EntryAssumption DEF Init, TemplateOK
<1>5. NoEntry.inline
  BY DEF NoEntry
<1>6. ~entry.inline => TemplateOK(kind, template)
  BY <1>4, <1>5 DEF Init
<1>7. FormOK
  BY DEF Init, Idle, FormOK
<1> QED
  BY <1>1, <1>3, <1>4, <1>6, <1>7 DEF EntryInv

\* A form that is as it should be is all there is to show of filling it in.
LEMMA SubmitKeeps ==
    ASSUME EntryInv, NEW f, Submit(f), FormOK'
    PROVE  EntryInv'
BY DEF EntryInv, Submit

\* What may be made of a metric.
LEMMA MetricFormOK ==
    ASSUME EntryInv, NEW row \in AllRows, NEW f \in MetricForms(row), Fill(f)
    PROVE  EntryInv'
<1>1. f.op = "metric" /\ f.section = row.section /\ f.key = row.key /\ f.draft \in Drafts
  <2>1. PICK draft \in UNION {[on -> Values] \cup {[g \in on |-> IF g = "sla" THEN Blank ELSE v] : v \in Values}
                            : on \in SUBSET MetricFields} :
             f = [op |-> "metric", section |-> row.section, key |-> row.key, draft |-> draft]
    BY DEF MetricForms
  <2>2. PICK on \in SUBSET MetricFields :
             draft \in [on -> Values] \cup {[g \in on |-> IF g = "sla" THEN Blank ELSE v] : v \in Values}
    BY <2>1
  <2>3. draft \in [on -> Values \cup {Blank}]
    BY <2>2
  <2> QED
    BY <2>1, <2>3 DEF Drafts
<1>2. \/ row.section \in DOMAIN Base.metrics /\ row.key \in DOMAIN Base.metrics[row.section]
      \/ row.section = "metrics" /\ row.key \in CustomsOf(Base) \cup CustomsOf(entry)
  <2>1. CASE row \in Rows(Base, entry)
    BY <2>1, RowShape
  <2>2. CASE row \in CustomRows(Base, entry)
    BY <2>2 DEF CustomRows
  <2> QED
    BY <2>1, <2>2 DEF AllRows
<1>3. form' = f /\ entry # NoEntry /\ entry' = entry /\ Base' = Base
  BY DEF Fill, Submit, Base
<1>4. FormOK'
  BY <1>1, <1>2, <1>3 DEF FormOK
<1> QED
  BY <1>4, SubmitKeeps DEF Fill

\* The metric forms and the override panel toggle fields of a row that is there.
LEMMA FillMetricKeeps == EntryInv /\ (FillMetric \/ FillOverride) => EntryInv'
BY MetricFormOK DEF FillMetric, FillOverride

\* The sequence order is a form of edges.
LEMMA FillOrderKeeps == EntryInv /\ FillOrder => EntryInv'
<1> SUFFICES ASSUME EntryInv, FillOrder PROVE EntryInv'
  OBVIOUS
<1>1. PICK v \in Values \cup {Blank} : Fill([op |-> "order", draft |-> v])
  BY DEF FillOrder
<1>2. form' = [op |-> "order", draft |-> v] /\ entry # NoEntry /\ entry' = entry /\ kind' = kind
  BY <1>1 DEF Fill, Submit
<1>3. FormOK'
  BY <1>2 DEF FormOK, FillOrder
<1> QED
  BY <1>1, <1>3, SubmitKeeps DEF Fill

\* The properties form sends all its fields.
LEMMA FillPropertiesKeeps == EntryInv /\ FillProperties => EntryInv'
<1> SUFFICES ASSUME EntryInv, FillProperties PROVE EntryInv'
  OBVIOUS
<1> DEFINE old == Loaded(kind, template, entry)
           filled(f, v, label) == With(With(old, f, v), "label", label)
<1>1. PICK f \in FormFields(kind), v \in Values \cup {Blank}, label \in Values \cup {old["label"]} :
         Fill([op |-> "properties", draft |-> filled(f, v, label)])
  BY DEF FillProperties
<1>2. /\ form' = [op |-> "properties", draft |-> filled(f, v, label)]
      /\ entry # NoEntry /\ entry' = entry /\ kind' = kind
  BY <1>1 DEF Fill, Submit
<1>3. "label" \in FormFields(kind)
  BY Tables DEF EntryInv, TablesAgree
<1>4. DOMAIN filled(f, v, label) = FormFields(kind)
  BY <1>3 DEF Loaded, With
<1> HIDE DEF filled
<1>5. FormOK'
  BY <1>2, <1>4 DEF FormOK
<1> QED
  BY <1>1, <1>5, SubmitKeeps DEF Fill

\* What a chart sends of the queries of a section.
LEMMA QueriesKeep ==
    ASSUME EntryInv, NEW s \in Sections(kind), NEW draft, NEW v \in Contents,
           DOMAIN draft \subseteq SlotsOf[s], \A x \in DOMAIN draft : draft[x] \in Contents,
           Fill([op |-> "queries", section |-> s, source |-> v, draft |-> draft])
    PROVE  EntryInv'
<1>1. /\ form' = [op |-> "queries", section |-> s, source |-> v, draft |-> draft]
      /\ entry # NoEntry /\ entry' = entry /\ kind' = kind
  BY DEF Fill, Submit
<1>2. FormOK'
  BY <1>1 DEF FormOK
<1> QED
  BY <1>2, SubmitKeeps DEF Fill

\* The pods chart sends the two queries of a node, or one of them.
LEMMA FillPodsKeeps == EntryInv /\ FillPods => EntryInv'
<1> SUFFICES ASSUME EntryInv, FillPods PROVE EntryInv'
  OBVIOUS
<1>1. PICK draft \in [Pods -> Contents], source \in Contents :
         Fill([op |-> "queries", section |-> "metrics", source |-> source,
               draft |-> Only(draft, SentPods(draft, source))])
  BY Zenon DEF FillPods
<1>2. "metrics" \in Sections(kind)
  <2>1. MainSection(kind) = "metrics" /\ MainSection(kind) \in Sections(kind)
    BY Tables DEF EntryInv, TablesAgree, FillPods
  <2> QED
    BY <2>1
<1>3. /\ DOMAIN Only(draft, SentPods(draft, source)) \subseteq SlotsOf["metrics"]
      /\ \A x \in DOMAIN Only(draft, SentPods(draft, source)) :
            Only(draft, SentPods(draft, source))[x] \in Contents
  BY EntryAssumption DEF Only
<1> QED
  BY <1>1, <1>2, <1>3, QueriesKeep

\* The chart of a metric sends the query of that metric.
LEMMA FillQueryKeeps == EntryInv /\ FillQuery => EntryInv'
<1> SUFFICES ASSUME EntryInv, FillQuery PROVE EntryInv'
  OBVIOUS
<1>1. PICK s \in Sections(kind), q \in Values \cup {Blank}, source \in Contents :
         \E x \in SlotsOf[s] :
            Fill([op |-> "queries", section |-> s, source |-> source, draft |-> [y \in {x} |-> q]])
  BY Zenon DEF FillQuery
<1>2. PICK x \in SlotsOf[s] :
         Fill([op |-> "queries", section |-> s, source |-> source, draft |-> [y \in {x} |-> q]])
  BY <1>1
<1>3. q \in Contents
  BY DEF Contents
<1> QED
  BY <1>2, <1>3, QueriesKeep

\* The deletion sends nothing.
LEMMA FillDeleteKeeps == EntryInv /\ FillDelete => EntryInv'
<1> SUFFICES ASSUME EntryInv, FillDelete PROVE EntryInv'
  OBVIOUS
<1>1. Submit([op |-> "delete"])
  BY DEF FillDelete
<1>2. FormOK'
  BY <1>1 DEF FormOK, Submit
<1> QED
  BY <1>1, <1>2, SubmitKeeps

\* A template is chosen from those there are.
LEMMA FillReferenceKeeps == EntryInv /\ FillReference => EntryInv'
<1> SUFFICES ASSUME EntryInv, FillReference PROVE EntryInv'
  OBVIOUS
<1>1. Submit([op |-> "reference"]) /\ template # NoTemplate
  BY DEF FillReference
<1>2. FormOK'
  BY <1>1 DEF FormOK, Submit
<1> QED
  BY <1>1, <1>2, SubmitKeeps

\* The metrics of a new document: none is configured yet.
LEMMA UnsetOK ==
    ASSUME NEW k \in NodeKinds \cup EdgeKinds, NEW d, d.metrics = Unset(k)
    PROVE  /\ MetricsOK(k, d.metrics)
           /\ MainSection(k) \in DOMAIN d.metrics
           /\ CustomsOf(d) = {} => WellFormed(d)
<1>1. MainSection(k) \in Sections(k)
  BY Tables DEF TablesAgree
<1>2. /\ DOMAIN d.metrics = {MainSection(k)}
      /\ \A s \in DOMAIN d.metrics : /\ DOMAIN d.metrics[s] = SlotsOf[s]
                                     /\ \A x \in DOMAIN d.metrics[s] : d.metrics[s][x] = Null
  BY DEF Unset
<1> QED
  BY <1>1, <1>2 DEF MetricsOK, WellFormed

\* What the add dialogs make is a template as good as any.
LEMMA FillCreateKeeps == EntryInv /\ FillCreate => EntryInv'
<1> SUFFICES ASSUME EntryInv, FillCreate PROVE EntryInv'
  OBVIOUS
<1>1. PICK blank \in SUBSET MayBeBlank(kind), asTemplate \in BOOLEAN :
         \E fields \in [BodySchema(kind) \cup (MayBeBlank(kind) \ blank) -> Values] :
            Submit([op |-> "create", asTemplate |-> asTemplate,
                    made |-> [fields |-> fields, metrics |-> Unset(kind)]])
  BY DEF FillCreate
<1> DEFINE F == BodySchema(kind) \cup (MayBeBlank(kind) \ blank)
<1>2. PICK fields \in [F -> Values] :
         Submit([op |-> "create", asTemplate |-> asTemplate,
                 made |-> [fields |-> fields, metrics |-> Unset(kind)]])
  BY <1>1
<1> DEFINE made == [fields |-> fields, metrics |-> Unset(kind)]
<1>3. made.metrics = Unset(kind) /\ made.fields = fields /\ DOMAIN made.fields = F
  OBVIOUS
<1>4. kind \in NodeKinds \cup EdgeKinds
  BY DEF EntryInv
<1>5. /\ BodySchema(kind) \subseteq F /\ F \subseteq DefSchema(kind)
      /\ "customMetrics" \notin F /\ "consumerFilter" \notin F
  BY <1>4, Tables DEF TablesAgree
<1>6. form' = [op |-> "create", asTemplate |-> asTemplate, made |-> made] /\ kind' = kind
  BY <1>2 DEF Submit
<1> HIDE DEF F, made
<1>7. CustomsOf(made) = {}
  BY <1>3, <1>5 DEF CustomsOf
<1>8. TemplateOK(kind, made)
  BY <1>3, <1>4, <1>5, <1>7, UnsetOK DEF TemplateOK, DefOK
<1>9. made.fields \in [DOMAIN made.fields -> Values]
  BY <1>3
<1>10. form'.op = "create" /\ form'.made = made
  BY <1>6
<1>11. FormOK'
  BY <1>3, <1>6, <1>8, <1>9, <1>10 DEF FormOK
<1> QED
  BY <1>2, <1>11, SubmitKeeps DEF made

\* A document of the manager stays one with each change the form makes.
ManagersOK(k, d) == DraftOK(k, d) /\ WellFormed(d)

\* The manager starts from a template without metrics.
LEMMA ScaffoldOK ==
    ASSUME NEW k \in NodeKinds \cup EdgeKinds, NEW v
    PROVE  ManagersOK(k, Scaffold(k, v))
<1> DEFINE d == Scaffold(k, v)
           F == BodySchema(k) \cup IF k \in {"http-json", "http-xml"} THEN {"endpointPaths"} ELSE {}
<1>1. d.metrics = Unset(k) /\ DOMAIN d.fields = F
  BY DEF Scaffold
<1>2. /\ BodySchema(k) \subseteq F /\ F \subseteq DefSchema(k) \cup ManagersFields(k)
      /\ "customMetrics" \notin F /\ "consumerFilter" \notin F
  BY Tables DEF TablesAgree, ManagersFields
<1> HIDE DEF d, F
<1>3. CustomsOf(d) = {}
  BY <1>1, <1>2 DEF CustomsOf
<1> QED
  BY <1>1, <1>2, <1>3, UnsetOK DEF ManagersOK, DraftOK, d

\* Changing a field of it, or leaving one out, keeps what the schema asks for.
LEMMA WithFieldOK ==
    ASSUME NEW k \in NodeKinds \cup EdgeKinds, NEW t, ManagersOK(k, t),
           NEW f \in TemplateFields(k), NEW v
    PROVE  ManagersOK(k, WithField(k, t, f, v))
<1> DEFINE d == WithField(k, t, f, v)
<1>1. d.metrics = t.metrics
  BY DEF WithField
<1>2. d.fields = IF v = Blank /\ f \notin StaysEmpty(k) THEN Without(t.fields, {f}) ELSE With(t.fields, f, v)
  BY DEF WithField
<1>3. /\ f \in DefSchema(k) \cup ManagersFields(k)
      /\ f # "customMetrics" /\ f # "consumerFilter"
  BY Tables DEF TablesAgree
<1> HIDE DEF d
<1>4. CASE v = Blank /\ f \notin StaysEmpty(k)
  <2>1. /\ DOMAIN d.fields = DOMAIN t.fields \ {f}
        /\ \A g \in DOMAIN d.fields : d.fields[g] = t.fields[g]
    BY <1>2, <1>4 DEF Without
  <2>2. f \notin BodySchema(k)
    BY <1>4 DEF StaysEmpty
  <2>3. CustomsOf(d) = CustomsOf(t)
    BY <2>1, <1>3 DEF CustomsOf
  <2> QED
    BY <2>1, <2>2, <2>3, <1>1, <1>3 DEF ManagersOK, DraftOK, WellFormed, d
<1>5. CASE ~(v = Blank /\ f \notin StaysEmpty(k))
  <2>1. /\ DOMAIN d.fields = DOMAIN t.fields \cup {f}
        /\ \A g \in DOMAIN t.fields : g # f => d.fields[g] = t.fields[g]
    BY <1>2, <1>5 DEF With
  <2>3. CustomsOf(d) = CustomsOf(t)
    BY <2>1, <1>3 DEF CustomsOf
  <2> QED
    BY <2>1, <2>3, <1>1, <1>3 DEF ManagersOK, DraftOK, WellFormed, d
<1> QED
  BY <1>4, <1>5

\* And so does changing a metric of it, if the metric has what it needs.
LEMMA WithMetricOK ==
    ASSUME NEW k, NEW t, ManagersOK(k, t), NEW s \in DOMAIN t.metrics, NEW x \in DOMAIN t.metrics[s],
           NEW m, m \in MetricObjects \cup {Null}, m # Null => Needed \subseteq DOMAIN m
    PROVE  ManagersOK(k, WithMetric(t, s, x, m))
<1>1. s \in Sections(k) /\ x \in SlotsOf[s]
  BY DEF ManagersOK, DraftOK, MetricsOK
<1>2. /\ WithMetric(t, s, x, m).fields = t.fields
      /\ DOMAIN WithMetric(t, s, x, m).metrics = DOMAIN t.metrics \cup {s}
  BY <1>1, MetricReplaced
<1>3. MetricsOK(k, t.metrics) => MetricsOK(k, WithMetric(t, s, x, m).metrics)
  BY <1>1, MetricReplaced
<1>4. WellFormed(t) => WellFormed(WithMetric(t, s, x, m))
  BY <1>1, MetricReplaced
<1> QED
  BY <1>2, <1>3, <1>4 DEF ManagersOK, DraftOK

\* What the manager sends is a template but for the fields its form has on top.
LEMMA FillTemplateKeeps == EntryInv /\ FillTemplate => EntryInv'
<1> SUFFICES ASSUME EntryInv, FillTemplate PROVE EntryInv'
  OBVIOUS
<1>1. PICK old \in IF template # NoTemplate THEN {template}
                   ELSE {Scaffold(kind, v) : v \in IF entry = NoEntry THEN Values ELSE {}} :
         \E draft \in Changes(old) : Submit([op |-> "template", draft |-> draft])
  BY Zenon DEF FillTemplate
<1>2. PICK draft \in Changes(old) : Submit([op |-> "template", draft |-> draft])
  BY <1>1
<1> DEFINE slots == UNION {{<<s, x>> : x \in DOMAIN old.metrics[s]} : s \in DOMAIN old.metrics}
<1>3. kind \in NodeKinds \cup EdgeKinds
  BY DEF EntryInv
<1>4. ManagersOK(kind, old)
  <2>1. CASE template # NoTemplate
    <3>1. old = template /\ TemplateOK(kind, template)
      BY <2>1 DEF EntryInv
    <3>2. DefSchema(kind) \subseteq DefSchema(kind) \cup ManagersFields(kind)
      OBVIOUS
    <3> QED
      BY <3>1, <3>2 DEF TemplateOK, DefOK, ManagersOK, DraftOK
  <2>2. CASE template = NoTemplate
    BY <2>2, <1>3, ScaffoldOK
  <2> QED
    BY <2>1, <2>2
<1>5. \A p \in slots : p[1] \in DOMAIN old.metrics /\ p[2] \in DOMAIN old.metrics[p[1]]
  OBVIOUS
<1> HIDE DEF slots
<1>6. ManagersOK(kind, draft)
  <2>1. CASE draft \in {WithField(kind, old, f, v) : f \in TemplateFields(kind), v \in Values \cup {Blank}}
    BY <2>1, <1>3, <1>4, WithFieldOK
  <2>2. CASE draft \in {WithMetricField(old, p[1], p[2], f, v) :
                          p \in slots, f \in MetricFields, v \in Values \cup {Blank}}
    <3>1. PICK p \in slots, f \in MetricFields, v \in Values \cup {Blank} :
             draft = WithMetricField(old, p[1], p[2], f, v)
      BY <2>2
    <3> DEFINE m == old.metrics[p[1]][p[2]]
    <3>2. m \in MetricObjects \cup {Null} /\ (m # Null => Needed \subseteq DOMAIN m)
      BY <1>4, <1>5 DEF ManagersOK, WellFormed, DraftOK, MetricsOK
    <3>3. Edited(m, f, v) \in MetricObjects /\ Needed \subseteq DOMAIN Edited(m, f, v)
      BY <3>2, EditedIsObject
    <3>4. draft = WithMetric(old, p[1], p[2], Edited(m, f, v))
      BY <3>1 DEF WithMetricField
    <3> HIDE DEF m
    <3> QED
      BY <3>3, <3>4, <1>4, <1>5, WithMetricOK
  <2>3. CASE draft \in {WithoutMetric(old, p[1], p[2]) : p \in slots}
    BY <2>3, <1>4, <1>5, WithMetricOK DEF WithoutMetric
  <2> QED
    BY <2>1, <2>2, <2>3 DEF Changes, slots
<1>7. form' = [op |-> "template", draft |-> draft] /\ kind' = kind
  BY <1>2 DEF Submit
<1>8. FormOK'
  BY <1>6, <1>7 DEF FormOK, ManagersOK
<1> QED
  BY <1>2, <1>8, SubmitKeeps

-----------------------------------------------------------------------------
(* The inductive invariant: saving a form                                    *)

\* How a document may be.
DocumentsOK(e, t) ==
    /\ e # NoEntry => EntryOK(kind, e)
    /\ WellFormed(e)
    /\ t # NoTemplate => TemplateOK(kind, t)
    /\ ~e.inline => TemplateOK(kind, t)

\* A save whose documents are as they should be keeps the invariant: the form is closed.
LEMMA AnswerKeeps ==
    ASSUME EntryInv, NEW a, NEW e, NEW t, Answer(a, e, t), DocumentsOK(e, t)
    PROVE  EntryInv'
<1>1. kind' = kind /\ entry' = e /\ template' = t /\ form' = [op |-> "none"]
  BY DEF Answer, Idle
<1>2. FormOK'
  BY <1>1 DEF FormOK
<1> QED
  BY <1>1, <1>2 DEF EntryInv, DocumentsOK

\* A save that is refused leaves the documents as they are.
LEMMA DocumentsStay == EntryInv => DocumentsOK(entry, template)
BY DEF EntryInv, DocumentsOK

\* A flow that is PUT has an entry that the schema takes, if it is saved.
LEMMA PutEntryKeeps ==
    ASSUME EntryInv, NEW e, PutEntry(e), WellFormed(e), ~e.inline => TemplateOK(kind, template)
    PROVE  EntryInv'
<1>1. CASE EntryOK(kind, e)
  BY <1>1, AnswerKeeps DEF PutEntry, DocumentsOK, EntryInv
<1>2. CASE ~EntryOK(kind, e)
  BY <1>2, AnswerKeeps, DocumentsStay DEF PutEntry
<1> QED
  BY <1>1, <1>2

\* A metric that is patched is well formed if it was.
LEMMA PatchedWellFormed ==
    ASSUME NEW s, NEW x, NEW draft \in Drafts, NEW e, WellFormed(e), NEW d,
           d.fields = e.fields, d.metrics = PatchMetrics(e.metrics, s, x, draft)
    PROVE  WellFormed(d)
<1> DEFINE m == e.metrics
           P == d.metrics
<1>1. CustomsOf(d) = CustomsOf(e)
  BY DEF CustomsOf
<1>2. Stored(draft) \in MetricObjects
  BY StoredIsObject
<1>3. ASSUME NEW z \in DOMAIN P, NEW y \in DOMAIN P[z] PROVE P[z][y] \in MetricObjects \cup {Null}
  <2>1. P[z] = Part(P, z)
    BY DEF Part
  <2>2. CASE z = s /\ y = x
    <3>1. DOMAIN draft = {} => x \notin DOMAIN Part(P, s)
      BY Patched
    <3>2. DOMAIN draft # {} => Part(P, s)[x] = Stored(draft)
      BY Patched
    <3> QED
      BY <3>1, <3>2, <2>1, <2>2, <1>2
  <2>3. CASE ~(z = s /\ y = x)
    <3>1. y \in DOMAIN Part(m, z) /\ Part(P, z)[y] = Part(m, z)[y]
      BY <2>1, <2>3, Patched
    <3>2. z \in DOMAIN m /\ Part(m, z) = m[z]
      BY <3>1, PartOf
    <3> QED
      BY <3>1, <3>2, <2>1 DEF WellFormed
  <2> QED
    BY <2>2, <2>3
<1> QED
  BY <1>1, <1>3 DEF WellFormed

\* handleSaveFlowOverride patches the metrics of the entry.
LEMMA SaveMetricKeeps == EntryInv /\ SaveMetric => EntryInv'
<1> SUFFICES ASSUME EntryInv, SaveMetric PROVE EntryInv'
  OBVIOUS
<1> DEFINE e == [inline |-> entry.inline, fields |-> entry.fields,
                 metrics |-> PatchMetrics(entry.metrics, form.section, form.key, form.draft)]
<1>1. form.op = "metric" /\ PutEntry(e)
  BY DEF SaveMetric
<1>2. form.draft \in Drafts
  BY <1>1 DEF EntryInv, FormOK
<1>3. /\ e.inline = entry.inline /\ e.fields = entry.fields
      /\ e.metrics = PatchMetrics(entry.metrics, form.section, form.key, form.draft)
  OBVIOUS
<1>4. WellFormed(e)
  BY <1>2, <1>3, PatchedWellFormed DEF EntryInv
<1>5. ~e.inline => TemplateOK(kind, template)
  BY <1>3 DEF EntryInv
<1> HIDE DEF e
<1> QED
  BY <1>1, <1>4, <1>5, PutEntryKeeps

\* Fields that don't hold custom metrics may be anything.
LEMMA FieldsWellFormed ==
    ASSUME NEW d, WellFormed(d), NEW e, e.metrics = d.metrics,
           "customMetrics" \in DOMAIN e.fields =>
              "customMetrics" \in DOMAIN d.fields /\ e.fields["customMetrics"] = d.fields["customMetrics"]
    PROVE  WellFormed(e)
<1>1. CustomsOf(e) \subseteq CustomsOf(d)
  BY DEF CustomsOf
<1> QED
  BY <1>1 DEF WellFormed

\* handleSaveEdgeSequenceOrder patches one field of it.
LEMMA SaveOrderKeeps == EntryInv /\ SaveOrder => EntryInv'
<1> SUFFICES ASSUME EntryInv, SaveOrder PROVE EntryInv'
  OBVIOUS
<1> DEFINE fields == IF form.draft = Blank THEN Without(entry.fields, {"sequenceOrder"})
                     ELSE With(entry.fields, "sequenceOrder", form.draft)
           e == WithFields(entry, fields)
<1>1. PutEntry(e)
  BY DEF SaveOrder
<1>2. e.inline = entry.inline /\ e.fields = fields /\ e.metrics = entry.metrics
  BY DEF WithFields
<1>3. "customMetrics" \in DOMAIN fields =>
         "customMetrics" \in DOMAIN entry.fields /\ fields["customMetrics"] = entry.fields["customMetrics"]
  BY DEF Without, With
<1> HIDE DEF e, fields
<1>4. WellFormed(e)
  BY <1>2, <1>3, FieldsWellFormed DEF EntryInv
<1>5. ~e.inline => TemplateOK(kind, template)
  BY <1>2 DEF EntryInv
<1> QED
  BY <1>1, <1>4, <1>5, PutEntryKeeps

\* What a patch of the properties contains.
LEMMA PatchShape ==
    ASSUME NEW draft
    PROVE  /\ DOMAIN PatchOf(draft) \subseteq DOMAIN draft
           /\ \A f \in DOMAIN PatchOf(draft) : PatchOf(draft)[f] = draft[f] /\ draft[f] # Blank
           /\ \A f \in DOMAIN draft : draft[f] # Blank => f \in DOMAIN PatchOf(draft)
BY DEF PatchOf, Only

\* Fields that are spread over a document.
LEMMA SpreadWellFormed ==
    ASSUME NEW d, WellFormed(d), NEW patch, "customMetrics" \notin DOMAIN patch,
           NEW e, e.metrics = d.metrics, e.fields = Spread(d.fields, patch)
    PROVE  WellFormed(e)
<1>1. "customMetrics" \in DOMAIN e.fields =>
         "customMetrics" \in DOMAIN d.fields /\ e.fields["customMetrics"] = d.fields["customMetrics"]
  BY DEF Spread
<1> QED
  BY <1>1, FieldsWellFormed

\* handleSaveEntityProperties patches the entry, and the template if it takes the rest.
LEMMA SavePropertiesKeeps == EntryInv /\ SaveProperties => EntryInv'
<1> SUFFICES ASSUME EntryInv, SaveProperties PROVE EntryInv'
  OBVIOUS
<1> DEFINE patch == PatchOf(form.draft)
           onRef == IF entry.inline THEN patch ELSE Only(patch, OnTheRef(kind))
           rest  == IF entry.inline THEN Nowhere ELSE Without(patch, OnTheRef(kind))
           e == WithFields(entry, Spread(entry.fields, onRef))
           t == [fields |-> Spread(template.fields, rest), metrics |-> template.metrics]
<1>1. /\ form.op = "properties"
      /\ \/ DOMAIN rest = {} /\ PutEntry(e)
         \/ /\ DOMAIN rest # {}
            /\ IF ~EntryOK(kind, e) THEN Answer("refused", entry, template)
               ELSE IF DefOK(kind, t) THEN Answer("accepted", e, t)
               ELSE Answer("half", e, template)
  BY Zenon DEF SaveProperties
<1>2. "customMetrics" \notin DOMAIN patch
  BY <1>1, Tables, PatchShape DEF EntryInv, FormOK, TablesAgree
<1>3. "customMetrics" \notin DOMAIN onRef /\ "customMetrics" \notin DOMAIN rest
  BY <1>2 DEF Only, Without, Nowhere
<1>4. entry.inline => DOMAIN rest = {}
  BY DEF Nowhere
<1>5. /\ e.inline = entry.inline /\ e.fields = Spread(entry.fields, onRef) /\ e.metrics = entry.metrics
      /\ t.fields = Spread(template.fields, rest) /\ t.metrics = template.metrics
  BY DEF WithFields
<1> HIDE DEF patch, onRef, rest, e, t
<1>6. WellFormed(e)
  BY <1>3, <1>5, SpreadWellFormed DEF EntryInv
<1>7. ~e.inline => TemplateOK(kind, template)
  BY <1>5 DEF EntryInv
<1>8. CASE DOMAIN rest = {}
  BY <1>1, <1>6, <1>7, <1>8, PutEntryKeeps
<1>9. CASE DOMAIN rest # {}
  <2>1. TemplateOK(kind, template) /\ WellFormed(template)
    BY <1>4, <1>9 DEF EntryInv, TemplateOK
  <2>2. WellFormed(t)
    BY <2>1, <1>3, <1>5, SpreadWellFormed
  <2>3. EntryOK(kind, e) => DocumentsOK(e, template)
    BY <2>1, <1>6 DEF DocumentsOK
  <2>4. EntryOK(kind, e) /\ DefOK(kind, t) => DocumentsOK(e, t)
    BY <2>2, <1>6 DEF DocumentsOK, TemplateOK
  <2> QED
    BY <1>1, <1>9, <2>3, <2>4, AnswerKeeps, DocumentsStay
<1> QED
  BY <1>8, <1>9

\* A query that is saved from a chart replaces one metric of the template.
LEMMA RequeriedIs ==
    ASSUME NEW k, NEW t, TemplateOK(k, t), NEW s \in Sections(k), NEW x \in SlotsOf[s],
           NEW q \in Contents, NEW source \in Contents, s = "consumer" => s \in DOMAIN t.metrics
    PROVE  \E m \in MetricObjects :
              /\ m # Null /\ Needed \subseteq DOMAIN m /\ m["query"] = q
              /\ IF source = t.fields["dataSource"] THEN "dataSource" \notin DOMAIN m
                 ELSE "dataSource" \in DOMAIN m /\ m["dataSource"] = source
              /\ Requeried(t, s, x, q, source) = WithMetric(t, s, x, m)
<1> DEFINE old == IF MetricAt(t, s, x) = Null THEN [f \in Needed |-> "default"]
                  ELSE Without(t.metrics[s][x], {"dataSource"})
           own == IF source = t.fields["dataSource"] THEN Nowhere ELSE [f \in {"dataSource"} |-> source]
           m == Spread(With(old, "query", q), own)
<1>1. Requeried(t, s, x, q, source) = WithMetric(t, s, x, m)
  BY Zenon DEF Requeried
<1>2. /\ "query" \in MetricFields /\ "dataSource" \in MetricFields /\ "dataSource" \notin Needed
      /\ \A n \in MetricObjects : n # Null
  BY EntryAssumption
<1>3. old \in MetricObjects /\ Needed \subseteq DOMAIN old /\ "dataSource" \notin DOMAIN old
  <2>1. CASE MetricAt(t, s, x) = Null
    BY <2>1, <1>2, ConstantIsObject
  <2>2. CASE MetricAt(t, s, x) # Null
    <3>1. s \in DOMAIN t.metrics /\ x \in DOMAIN t.metrics[s] /\ t.metrics[s][x] # Null
      BY <2>2 DEF MetricAt, Part, Nowhere
    <3>2. t.metrics[s][x] \in MetricObjects /\ Needed \subseteq DOMAIN t.metrics[s][x]
      BY <3>1 DEF TemplateOK, WellFormed, DefOK, MetricsOK
    <3>3. old = Without(t.metrics[s][x], {"dataSource"})
      BY <2>2
    <3>4. old \in MetricObjects
      BY <3>2, <3>3, WithoutIsObject
    <3> QED
      BY <3>2, <3>3, <3>4, <1>2 DEF Without
  <2> QED
    BY <2>1, <2>2
<1>4. /\ own \in MetricObjects /\ "query" \notin DOMAIN own
      /\ IF source = t.fields["dataSource"] THEN DOMAIN own = {}
         ELSE DOMAIN own = {"dataSource"} /\ own["dataSource"] = source
  BY <1>2, ConstantIsObject DEF Nowhere
<1> HIDE DEF old, own
<1>5. With(old, "query", q) \in MetricObjects
  BY <1>2, <1>3, WithIsObject
<1>6. m \in MetricObjects
  BY <1>4, <1>5, SpreadIsObject
<1>7. /\ Needed \subseteq DOMAIN m /\ "query" \in DOMAIN m /\ m["query"] = q
      /\ IF source = t.fields["dataSource"] THEN "dataSource" \notin DOMAIN m
         ELSE "dataSource" \in DOMAIN m /\ m["dataSource"] = source
  BY <1>3, <1>4 DEF Spread, With
<1> HIDE DEF m
<1> QED
  BY <1>1, <1>2, <1>6, <1>7

\* So it leaves a template that may be stored.
LEMMA RequeriedOK ==
    ASSUME NEW k, NEW t, TemplateOK(k, t), NEW s \in Sections(k), NEW x \in SlotsOf[s],
           NEW q \in Contents, NEW source \in Contents, NEW d, d = Requeried(t, s, x, q, source)
    PROVE  TemplateOK(k, d)
<1>1. CASE s = "consumer" /\ s \notin DOMAIN t.metrics
  <2>1. d = t
    BY <1>1, Zenon DEF Requeried
  <2> QED
    BY <2>1
<1>2. CASE s = "consumer" => s \in DOMAIN t.metrics
  <2>1. PICK m \in MetricObjects :
           /\ m # Null /\ Needed \subseteq DOMAIN m
           /\ d = WithMetric(t, s, x, m)
    BY <1>2, RequeriedIs
  <2>2. m \in MetricObjects \cup {Null} /\ (m # Null => Needed \subseteq DOMAIN m)
    BY <2>1
  <2>3. /\ WithMetric(t, s, x, m).fields = t.fields
        /\ DOMAIN WithMetric(t, s, x, m).metrics = DOMAIN t.metrics \cup {s}
    BY DEF WithMetric, With
  <2>4. MetricsOK(k, t.metrics) => MetricsOK(k, WithMetric(t, s, x, m).metrics)
    BY <2>2, MetricReplaced
  <2>5. WellFormed(t) => WellFormed(WithMetric(t, s, x, m))
    BY <2>2, MetricReplaced
  <2> QED
    BY <2>1, <2>3, <2>4, <2>5 DEF TemplateOK, DefOK
<1> QED
  BY <1>1, <1>2

\* handleSaveMetricQuery leaves a template with one metric changed.
LEMMA SaveQueriesKeeps == EntryInv /\ SaveQueries => EntryInv'
<1> SUFFICES ASSUME EntryInv, SaveQueries PROVE EntryInv'
  OBVIOUS
<1>1. CASE entry.inline
  BY <1>1, AnswerKeeps, DocumentsStay DEF SaveQueries
<1>2. CASE ~entry.inline
  <2>1. PICK x \in DOMAIN form.draft :
           Answer("accepted", entry, Requeried(template, form.section, x, form.draft[x], form.source))
    BY <1>2 DEF SaveQueries
  <2>2. /\ form.section \in Sections(kind) /\ x \in SlotsOf[form.section]
        /\ form.draft[x] \in Contents /\ form.source \in Contents
        /\ TemplateOK(kind, template)
    BY <1>2 DEF EntryInv, FormOK, SaveQueries
  <2>3. TemplateOK(kind, Requeried(template, form.section, x, form.draft[x], form.source))
    BY <2>2, RequeriedOK
  <2>4. DocumentsOK(entry, Requeried(template, form.section, x, form.draft[x], form.source))
    BY <2>3 DEF EntryInv, DocumentsOK
  <2> QED
    BY <2>1, <2>4, AnswerKeeps
<1> QED
  BY <1>1, <1>2

\* Without the template, the entry is inline.
LEMMA DeleteTemplateKeeps == EntryInv /\ DeleteTemplate => EntryInv'
<1> SUFFICES ASSUME EntryInv, DeleteTemplate PROVE EntryInv'
  OBVIOUS
<1> DEFINE e == Inlined(kind, template, entry)
<1>1. CASE entry.inline
  <2>1. Answer("accepted", entry, NoTemplate)
    BY <1>1 DEF DeleteTemplate
  <2>2. DocumentsOK(entry, NoTemplate)
    BY <1>1 DEF EntryInv, DocumentsOK
  <2> QED
    BY <2>1, <2>2, AnswerKeeps
<1>2. CASE ~entry.inline /\ EntryOK(kind, e)
  <2>1. Answer("accepted", e, NoTemplate)
    BY <1>2 DEF DeleteTemplate
  <2>2. entry # NoEntry /\ e.inline
    BY <1>2 DEF NoEntry, Inlined
  <2>3. MetricsOK(kind, template.metrics) /\ MetricsOK(kind, entry.metrics)
    BY <1>2, <2>2 DEF EntryInv, EntryOK, RefOK, TemplateOK, DefOK
  <2>4. WellFormed(template) /\ WellFormed(entry)
    BY <1>2 DEF EntryInv, TemplateOK
  <2>5. WellFormed(e)
    BY <2>3, <2>4, InlinedWellFormed
  <2>6. DocumentsOK(e, NoTemplate)
    BY <2>2, <2>5, <1>2 DEF DocumentsOK
  <2> QED
    BY <2>1, <2>6, AnswerKeeps
<1>3. CASE ~entry.inline /\ ~EntryOK(kind, e)
  BY <1>3, AnswerKeeps, DocumentsStay DEF DeleteTemplate
<1> QED
  BY <1>1, <1>2, <1>3

\* A bare reference is one, to the template that was chosen.
LEMMA AddReferenceKeeps == EntryInv /\ AddReference => EntryInv'
<1> SUFFICES ASSUME EntryInv, AddReference PROVE EntryInv'
  OBVIOUS
<1>1. form.op = "reference" /\ PutEntry(BareReference)
  BY DEF AddReference
<1>2. TemplateOK(kind, template)
  BY <1>1 DEF EntryInv, FormOK
<1>3. WellFormed(BareReference)
  BY DEF WellFormed, BareReference, Nowhere, CustomsOf
<1> QED
  BY <1>1, <1>2, <1>3, PutEntryKeeps

\* The add dialogs leave an inline entry, or a template with a reference to it.
LEMMA CreateKeeps == EntryInv /\ Create => EntryInv'
<1> SUFFICES ASSUME EntryInv, Create PROVE EntryInv'
  OBVIOUS
<1>1. form.op = "create" /\ TemplateOK(kind, form.made)
  BY DEF Create, EntryInv, FormOK
<1>2. CASE form.asTemplate
  <2>1. PutTemplate(form.made, BareReference)
    BY <1>2 DEF Create
  <2>2. Answer("accepted", BareReference, form.made)
    BY <2>1, <1>1 DEF PutTemplate, TemplateOK
  <2>3. WellFormed(BareReference) /\ EntryOK(kind, BareReference)
    BY DEF WellFormed, BareReference, Nowhere, CustomsOf, EntryOK, RefOK, MetricsOK
  <2> QED
    BY <2>2, <2>3, <1>1, AnswerKeeps DEF DocumentsOK
<1>3. CASE ~form.asTemplate
  <2> DEFINE e == [inline |-> TRUE, fields |-> form.made.fields, metrics |-> form.made.metrics]
  <2>1. PutEntry(e)
    BY <1>3 DEF Create, CreateInline
  <2>2. e.inline /\ e.fields = form.made.fields /\ e.metrics = form.made.metrics
    OBVIOUS
  <2> HIDE DEF e
  <2>3. WellFormed(e)
    BY <2>2, <1>1, FieldsWellFormed DEF TemplateOK
  <2> QED
    BY <2>1, <2>2, <2>3, PutEntryKeeps
<1> QED
  BY <1>2, <1>3

\* The manager replaces the template if the schema takes it.
LEMMA SaveTemplateKeeps == EntryInv /\ SaveTemplate => EntryInv'
<1> SUFFICES ASSUME EntryInv, SaveTemplate PROVE EntryInv'
  OBVIOUS
<1>1. form.op = "template" /\ PutTemplate(form.draft, entry) /\ WellFormed(form.draft)
  BY DEF SaveTemplate, EntryInv, FormOK
<1>2. CASE DefOK(kind, form.draft)
  <2>1. DocumentsOK(entry, form.draft)
    BY <1>1, <1>2 DEF EntryInv, DocumentsOK, TemplateOK
  <2> QED
    BY <1>1, <1>2, <2>1, AnswerKeeps DEF PutTemplate
<1>3. CASE ~DefOK(kind, form.draft)
  BY <1>1, <1>3, AnswerKeeps, DocumentsStay DEF PutTemplate
<1> QED
  BY <1>2, <1>3

\* Every step keeps the invariant.
LEMMA EntryInvStep == EntryInv /\ [Next]_vars => EntryInv'
<1> SUFFICES ASSUME EntryInv, [Next]_vars PROVE EntryInv'
  OBVIOUS
<1>1. CASE FillMetric \/ FillOverride \/ FillOrder \/ FillProperties \/ FillPods
  BY <1>1, FillMetricKeeps, FillOrderKeeps, FillPropertiesKeeps, FillPodsKeeps
<1>2. CASE FillQuery \/ FillDelete \/ FillReference \/ FillCreate \/ FillTemplate
  BY <1>2, FillQueryKeeps, FillDeleteKeeps, FillReferenceKeeps, FillCreateKeeps, FillTemplateKeeps
<1>3. CASE SaveMetric \/ SaveOrder \/ SaveProperties \/ SaveQueries
  BY <1>3, SaveMetricKeeps, SaveOrderKeeps, SavePropertiesKeeps, SaveQueriesKeeps
<1>4. CASE DeleteTemplate \/ AddReference \/ Create \/ SaveTemplate
  BY <1>4, DeleteTemplateKeeps, AddReferenceKeeps, CreateKeeps, SaveTemplateKeeps
<1>5. CASE UNCHANGED vars
  <2>1. FormOK' <=> FormOK
    BY <1>5 DEF vars, FormOK, Base
  <2> QED
    BY <2>1, <1>5 DEF vars, EntryInv
<1> QED
  BY <1>1, <1>2, <1>3, <1>4, <1>5 DEF Next

\* So it holds throughout.
THEOREM EntryInvAlways == Spec => []EntryInv
BY EntryInvInit, EntryInvStep, PTL DEF Spec

-----------------------------------------------------------------------------
(* Rows                                                                      *)

\* The value a row of the metric forms arrives at is the one that topologyResolver does: two
\* implementations of the same merge, which agree for any documents.
THEOREM RowsAgreeAlways == Spec => []RowsAgree
<1>1. RowsAgree
  BY RowAgrees DEF RowsAgree
<1> QED
  BY <1>1, PTL

-----------------------------------------------------------------------------
(* Refusals                                                                  *)

\* A form that is submitted is the one that is saved.
LEMMA StepOf ==
    ASSUME Next
    PROVE  /\ form.op = "metric" => SaveMetric
           /\ form.op = "order" => SaveOrder
           /\ form.op = "properties" => SaveProperties
           /\ form.op = "queries" => SaveQueries
           /\ form.op = "delete" => DeleteTemplate
           /\ form.op = "reference" => AddReference
           /\ form.op = "create" => Create
           /\ form.op = "template" => SaveTemplate
<1> SUFFICES ASSUME form # Idle
             PROVE  SaveMetric \/ SaveOrder \/ SaveProperties \/ SaveQueries
                       \/ DeleteTemplate \/ AddReference \/ Create \/ SaveTemplate
  BY DEF Idle, SaveMetric, SaveOrder, SaveProperties, SaveQueries, DeleteTemplate, AddReference,
         Create, SaveTemplate
<1>1. \A f : ~Submit(f)
  BY DEF Submit
<1>2. \A f : ~Fill(f)
  BY <1>1 DEF Fill
<1>3. ~FillMetric /\ ~FillOverride
  BY <1>2 DEF FillMetric, FillOverride
<1>4. ~FillOrder /\ ~FillPods /\ ~FillQuery
  BY <1>2, Zenon DEF FillOrder, FillPods, FillQuery
<1>5. ~FillProperties
  BY <1>2, Zenon DEF FillProperties
<1>6. ~FillDelete /\ ~FillReference
  BY <1>1 DEF FillDelete, FillReference
<1>7. ~FillCreate
  BY <1>1, Zenon DEF FillCreate
<1>8. ~FillTemplate
  BY <1>1, Zenon DEF FillTemplate
<1> QED
  BY <1>3, <1>4, <1>5, <1>6, <1>7, <1>8 DEF Next

\* An entry that is PUT is accepted as it is, or changes nothing.
LEMMA PutEntryAnswers ==
    ASSUME NEW e, PutEntry(e)
    PROVE  \/ /\ answer' = "accepted" /\ EntryOK(kind, e)
              /\ entry' = e /\ template' = template /\ kind' = kind
           \/ answer' = "refused" /\ ~EntryOK(kind, e)
<1>1. CASE EntryOK(kind, e)
  BY <1>1 DEF PutEntry, Answer
<1>2. CASE ~EntryOK(kind, e)
  BY <1>2 DEF PutEntry, Answer
<1> QED
  BY <1>1, <1>2

\* An override of a metric of its section is taken if it has the fields a metric needs.
LEMMA OverrideIsTaken ==
    ASSUME EntryInv, form.op = "metric", form.key \in SlotsOf[form.section],
           Needed \subseteq DOMAIN Stored(form.draft), NEW e,
           e.inline = entry.inline, e.fields = entry.fields,
           e.metrics = PatchMetrics(entry.metrics, form.section, form.key, form.draft)
    PROVE  EntryOK(kind, e)
<1> DEFINE m == entry.metrics
           s == form.section
           x == form.key
           P == e.metrics
<1>1. form.draft \in Drafts /\ entry # NoEntry /\ EntryOK(kind, entry)
  BY DEF EntryInv, FormOK
<1>2. DOMAIN form.draft # {}
  BY <1>1, StoredIsObject, EntryAssumption
<1>3. s \in DOMAIN Base.metrics
  <2>1. \A c \in CustomsOf(Base) \cup CustomsOf(entry) : c \notin SlotsOf["metrics"]
    BY DEF EntryInv, WellFormed, Base, TemplateOK
  <2> QED
    BY <2>1 DEF EntryInv, FormOK
<1>4. s \in Sections(kind) /\ MetricsOK(kind, m)
  BY <1>1, <1>3 DEF Base, EntryInv, EntryOK, RefOK, DefOK, TemplateOK, MetricsOK
<1>5. x \in DOMAIN Part(P, s) /\ Part(P, s)[x] = Stored(form.draft)
  BY <1>2, Patched
<1>6. \A z, y : ~(z = s /\ y = x) =>
         /\ y \in DOMAIN Part(P, z) <=> y \in DOMAIN Part(m, z)
         /\ y \in DOMAIN Part(P, z) => Part(P, z)[y] = Part(m, z)[y]
  BY Patched
<1>7. DOMAIN P = DOMAIN m \cup {s}
  <2>1. \A z : z # s => (z \in DOMAIN P <=> z \in DOMAIN m)
    BY Patched
  <2>2. s \in DOMAIN P
    BY <1>5, PartOf
  <2> QED
    BY <2>1, <2>2
<1>8. MetricsOK(kind, P)
  <2>1. ASSUME NEW z \in DOMAIN P, NEW y \in DOMAIN P[z]
        PROVE  y \in SlotsOf[z] /\ (P[z][y] # Null => Needed \subseteq DOMAIN P[z][y])
    <3>1. P[z] = Part(P, z)
      BY PartOf
    <3>2. CASE z = s /\ y = x
      BY <3>1, <3>2, <1>5
    <3>3. CASE ~(z = s /\ y = x)
      <4>1. y \in DOMAIN Part(m, z) /\ Part(P, z)[y] = Part(m, z)[y]
        BY <3>1, <3>3, <1>6
      <4>2. z \in DOMAIN m /\ Part(m, z) = m[z]
        BY <4>1, PartOf
      <4> QED
        BY <4>1, <4>2, <3>1, <1>4 DEF MetricsOK
    <3> QED
      BY <3>2, <3>3
  <2> HIDE DEF P, m, s
  <2>2. DOMAIN P \subseteq Sections(kind)
    BY <1>4, <1>7 DEF MetricsOK
  <2> QED
    BY <2>1, <2>2 DEF MetricsOK
<1> HIDE DEF P, m, s
<1>9. CASE entry.inline
  BY <1>9, <1>1, <1>7, <1>8 DEF EntryOK, DefOK, P, m
<1>10. CASE ~entry.inline
  BY <1>10, <1>1, <1>8 DEF EntryOK, RefOK, P, m
<1> QED
  BY <1>9, <1>10

\* The sequence number of a reference is always taken.
LEMMA OrderIsTaken ==
    ASSUME EntryInv, form.op = "order", ~entry.inline, NEW fields,
           DOMAIN fields \subseteq DOMAIN entry.fields \cup {"sequenceOrder"}
    PROVE  EntryOK(kind, WithFields(entry, fields))
<1>1. entry # NoEntry /\ kind \notin NodeKinds /\ EntryOK(kind, entry)
  BY DEF EntryInv, FormOK
<1>2. "sequenceOrder" \in RefSchema(kind)
  BY <1>1, Tables DEF TablesAgree, EntryInv
<1> QED
  BY <1>1, <1>2 DEF EntryOK, RefOK, WithFields

\* So are the properties of a reference; and those of the template, but for the endpoint paths
\* of an HTTP XML edge.
LEMMA PropertiesAreTaken ==
    ASSUME EntryInv, form.op = "properties", ~entry.inline
    PROVE  LET patch == PatchOf(form.draft)
               rest  == Without(patch, OnTheRef(kind))
           IN /\ EntryOK(kind, WithFields(entry, Spread(entry.fields, Only(patch, OnTheRef(kind)))))
              /\ \/ kind = "http-xml" /\ form.draft["endpointPaths"] # Blank
                 \/ DefOK(kind, [fields |-> Spread(template.fields, rest), metrics |-> template.metrics])
<1> DEFINE patch == PatchOf(form.draft)
           rest  == Without(patch, OnTheRef(kind))
           onRef == Only(patch, OnTheRef(kind))
<1>1. entry # NoEntry /\ EntryOK(kind, entry) /\ DefOK(kind, template)
  BY DEF EntryInv, FormOK, TemplateOK
<1>2. DOMAIN patch \subseteq FormFields(kind)
  BY PatchShape DEF EntryInv, FormOK
<1>3. TablesAgree(kind)
  BY Tables DEF EntryInv
<1>4. DOMAIN onRef \subseteq RefSchema(kind)
  BY <1>2, <1>3 DEF Only, TablesAgree
<1>5. EntryOK(kind, WithFields(entry, Spread(entry.fields, onRef)))
  BY <1>1, <1>4 DEF EntryOK, RefOK, WithFields, Spread
<1>6. DOMAIN rest = DOMAIN patch \ OnTheRef(kind)
  BY DEF Without
<1>7. CASE kind = "http-xml" /\ "endpointPaths" \in DOMAIN patch
  BY <1>5, <1>7, PatchShape
<1>8. CASE ~(kind = "http-xml" /\ "endpointPaths" \in DOMAIN patch)
  <2>1. DOMAIN rest \subseteq DefSchema(kind) /\ "consumerFilter" \notin DOMAIN rest
    BY <1>2, <1>3, <1>6, <1>8 DEF TablesAgree
  <2>2. DefOK(kind, [fields |-> Spread(template.fields, rest), metrics |-> template.metrics])
    BY <2>1, <1>1 DEF DefOK, Spread
  <2> QED
    BY <2>2, <1>5
<1> QED
  BY <1>7, <1>8

\* A copy of what a reference resolves to is taken, unless the reference has what only
\* references can have.
LEMMA CopyIsTaken ==
    ASSUME EntryInv, ~entry.inline, DOMAIN entry.fields \cap (RefOnly(kind) \cup OnTheRef(kind)) = {}
    PROVE  EntryOK(kind, Inlined(kind, template, entry))
<1> DEFINE e == Inlined(kind, template, entry)
           over == Only(entry.fields, RefOnly(kind) \cup Overridable(kind))
<1>1. NoEntry.inline
  BY DEF NoEntry
<1>2. EntryOK(kind, entry) /\ TemplateOK(kind, template) /\ WellFormed(entry)
  BY <1>1 DEF EntryInv
<1>3. TablesAgree(kind)
  BY Tables DEF EntryInv
<1>4. Filters(template, entry) = Nowhere
  BY <1>2, <1>3 DEF Filters, EntryOK, RefOK, TablesAgree
<1>5. e.fields = Spread(Spread(template.fields, over), Nowhere)
  BY <1>4 DEF Inlined, ResolveRef
<1>6. DOMAIN over \subseteq {"customMetrics"}
  BY <1>2, <1>3 DEF Only, EntryOK, RefOK, TablesAgree
<1>7. DOMAIN e.fields = DOMAIN template.fields \cup DOMAIN over
  BY <1>5 DEF Spread, Nowhere
<1>8. e.metrics = ResolveRef(kind, template, entry).metrics /\ e.inline
  BY DEF Inlined
<1>9. DOMAIN e.metrics = DOMAIN template.metrics /\ MetricsOK(kind, e.metrics)
  BY <1>2, <1>8, MergedOK DEF TemplateOK, DefOK, EntryOK, RefOK
<1>10. "customMetrics" \in DefSchema(kind)
  BY <1>3 DEF TablesAgree
<1> HIDE DEF e, over
<1> QED
  BY <1>2, <1>6, <1>7, <1>8, <1>9, <1>10 DEF EntryOK, DefOK, TemplateOK, e

\* An override that is taken back leaves what the reference has otherwise.
LEMMA RemovalIsTaken ==
    ASSUME EntryInv, form.op = "metric", ~entry.inline, DOMAIN form.draft = {}, NEW e,
           e.inline = entry.inline, e.fields = entry.fields,
           e.metrics = PatchMetrics(entry.metrics, form.section, form.key, form.draft)
    PROVE  EntryOK(kind, e)
<1> DEFINE m == entry.metrics
           s == form.section
           P == e.metrics
<1>1. EntryOK(kind, entry)
  BY DEF EntryInv, FormOK
<1>2. MetricsOK(kind, m)
  BY <1>1 DEF EntryOK, RefOK
<1>3. \A z, y : y \in DOMAIN Part(P, z) =>
         y \in DOMAIN Part(m, z) /\ Part(P, z)[y] = Part(m, z)[y]
  <2>1. PICK draft : draft = form.draft /\ DOMAIN draft = {}
    OBVIOUS
  <2>2. P = PatchMetrics(m, s, form.key, draft)
    BY <2>1
  <2> HIDE DEF P, m, s
  <2>3. \A z, y : ~(z = s /\ y = form.key) =>
           /\ y \in DOMAIN Part(P, z) <=> y \in DOMAIN Part(m, z)
           /\ y \in DOMAIN Part(P, z) => Part(P, z)[y] = Part(m, z)[y]
    BY <2>2, Patched
  <2>4. form.key \notin DOMAIN Part(P, s)
    BY <2>1, <2>2, PatchedAway
  <2> QED
    BY <2>3, <2>4
<1>4. DOMAIN P \subseteq DOMAIN m
  <2> DEFINE new == Without(Part(m, s), {form.key})
  <2>1. P = IF DOMAIN new = {} THEN Without(m, {s}) ELSE With(m, s, new)
    BY DEF PatchMetrics
  <2>2. DOMAIN new # {} => s \in DOMAIN m
    BY PartOf DEF Without
  <2> HIDE DEF new
  <2> QED
    BY <2>1, <2>2 DEF Without, With
<1>5. ASSUME NEW z \in DOMAIN P, NEW y \in DOMAIN P[z]
      PROVE  y \in SlotsOf[z] /\ (P[z][y] # Null => Needed \subseteq DOMAIN P[z][y])
  <2>1. P[z] = Part(P, z) /\ m[z] = Part(m, z) /\ z \in DOMAIN m
    BY <1>4, PartOf
  <2>2. y \in DOMAIN m[z] /\ P[z][y] = m[z][y]
    BY <2>1, <1>3
  <2> QED
    BY <2>1, <2>2, <1>2 DEF MetricsOK
<1> HIDE DEF P, m, s
<1>6. MetricsOK(kind, P)
  BY <1>2, <1>4, <1>5 DEF MetricsOK
<1> QED
  BY <1>1, <1>6 DEF EntryOK, RefOK, P

FormIsTaken ==
    LET complete == form.key \in SlotsOf[form.section] /\ Needed \subseteq DOMAIN Stored(form.draft)
        takenBack == ~entry.inline /\ DOMAIN form.draft = {}
        xmlPaths == kind = "http-xml" /\ form.draft["endpointPaths"] # Blank
        ownFields == DOMAIN entry.fields \cap (RefOnly(kind) \cup OnTheRef(kind))
        managers == {"endpointPaths", "usedDeployment"} \cup RefOnly(kind)
    IN (\/ form.op \in {"reference", "create"}
        \/ form.op = "metric" /\ (complete \/ takenBack)
        \/ form.op = "order" /\ ~entry.inline
        \/ form.op = "properties" /\ ~entry.inline /\ ~xmlPaths
        \/ form.op = "delete" /\ (entry.inline \/ ownFields = {})
        \/ form.op = "template" /\ DOMAIN form.draft.fields \cap managers = {})
       => answer' = "accepted"

\* The forms of an entry, one by one.
LEMMA TakenStep == EntryInv /\ Next => FormIsTaken
<1> SUFFICES ASSUME EntryInv, Next PROVE FormIsTaken
  OBVIOUS
<1>1. ASSUME form.op = "metric",
             \/ form.key \in SlotsOf[form.section] /\ Needed \subseteq DOMAIN Stored(form.draft)
             \/ ~entry.inline /\ DOMAIN form.draft = {}
      PROVE  answer' = "accepted"
  <2> DEFINE e == [inline |-> entry.inline, fields |-> entry.fields,
                   metrics |-> PatchMetrics(entry.metrics, form.section, form.key, form.draft)]
  <2>1. PutEntry(e)
    BY <1>1, StepOf DEF SaveMetric
  <2>2. /\ e.inline = entry.inline /\ e.fields = entry.fields
        /\ e.metrics = PatchMetrics(entry.metrics, form.section, form.key, form.draft)
    OBVIOUS
  <2> HIDE DEF e
  <2>3. EntryOK(kind, e)
    BY <1>1, <2>2, OverrideIsTaken, RemovalIsTaken
  <2> QED
    BY <2>1, <2>3, PutEntryAnswers
<1>2. ASSUME form.op = "order", ~entry.inline
      PROVE  answer' = "accepted"
  <2> DEFINE fields == IF form.draft = Blank THEN Without(entry.fields, {"sequenceOrder"})
                       ELSE With(entry.fields, "sequenceOrder", form.draft)
  <2>1. PutEntry(WithFields(entry, fields))
    BY <1>2, StepOf DEF SaveOrder
  <2>2. DOMAIN fields \subseteq DOMAIN entry.fields \cup {"sequenceOrder"}
    BY DEF Without, With
  <2> HIDE DEF fields
  <2> QED
    BY <1>2, <2>1, <2>2, OrderIsTaken, PutEntryAnswers
<1>3. ASSUME form.op = "properties", ~entry.inline,
             ~(kind = "http-xml" /\ form.draft["endpointPaths"] # Blank)
      PROVE  answer' = "accepted"
  <2> DEFINE patch == PatchOf(form.draft)
             onRef == IF entry.inline THEN patch ELSE Only(patch, OnTheRef(kind))
             rest  == IF entry.inline THEN Nowhere ELSE Without(patch, OnTheRef(kind))
             e == WithFields(entry, Spread(entry.fields, onRef))
             t == [fields |-> Spread(template.fields, rest), metrics |-> template.metrics]
  <2>1. \/ DOMAIN rest = {} /\ PutEntry(e)
        \/ /\ DOMAIN rest # {}
           /\ IF ~EntryOK(kind, e) THEN Answer("refused", entry, template)
              ELSE IF DefOK(kind, t) THEN Answer("accepted", e, t)
              ELSE Answer("half", e, template)
    BY <1>3, StepOf, Zenon DEF SaveProperties
  <2>2. EntryOK(kind, e) /\ DefOK(kind, t)
    BY <1>3, PropertiesAreTaken
  <2> HIDE DEF e, t, rest, onRef, patch
  <2> QED
    BY <2>1, <2>2, PutEntryAnswers DEF Answer
<1>4. ASSUME form.op = "delete",
             entry.inline \/ DOMAIN entry.fields \cap (RefOnly(kind) \cup OnTheRef(kind)) = {}
      PROVE  answer' = "accepted"
  BY <1>4, StepOf, CopyIsTaken DEF DeleteTemplate, Answer
<1>5. ASSUME form.op = "reference"
      PROVE  answer' = "accepted"
  <2>1. PutEntry(BareReference) /\ EntryOK(kind, BareReference)
    BY <1>5, StepOf DEF AddReference, BareReference, EntryOK, RefOK, MetricsOK, Nowhere
  <2> QED
    BY <2>1, PutEntryAnswers
<1>6. ASSUME form.op = "create"
      PROVE  answer' = "accepted"
  <2>1. Create /\ DefOK(kind, form.made)
    BY <1>6, StepOf DEF EntryInv, FormOK, TemplateOK
  <2>2. EntryOK(kind, [inline |-> TRUE, fields |-> form.made.fields, metrics |-> form.made.metrics])
    BY <2>1 DEF EntryOK, DefOK
  <2>3. form.asTemplate => answer' = "accepted"
    BY <2>1 DEF Create, PutTemplate, Answer
  <2>4. ~form.asTemplate => answer' = "accepted"
    BY <2>1, <2>2, PutEntryAnswers DEF Create, CreateInline
  <2> QED
    BY <2>3, <2>4
<1>7. ASSUME form.op = "template", DOMAIN form.draft.fields \cap ManagersFields(kind) = {}
      PROVE  answer' = "accepted"
  <2>1. DraftOK(kind, form.draft) /\ SaveTemplate
    BY <1>7, StepOf DEF EntryInv, FormOK
  <2>2. DefOK(kind, form.draft)
    BY <1>7, <2>1 DEF DraftOK, DefOK
  <2> QED
    BY <2>1, <2>2 DEF SaveTemplate, PutTemplate, Answer
<1> QED
  BY <1>1, <1>2, <1>3, <1>4, <1>5, <1>6, <1>7, Zenon DEF FormIsTaken, ManagersFields

\* The schemas take what the forms make, whatever was edited before and for any documents: a new
\* entry, a complete override, one that is taken back, the properties of a reference, ...
THEOREM FormsAreTakenAlways == Spec => FormsAreTaken
<1>1. EntryInv /\ [Next]_vars => [FormIsTaken]_vars
  BY TakenStep
<1> QED
  BY <1>1, EntryInvAlways, PTL DEF Spec, FormsAreTaken, FormIsTaken

-----------------------------------------------------------------------------
(* Deletion                                                                  *)

\* A template that could be deleted left nothing behind that shows otherwise, whatever the
\* reference overrode.
THEOREM InliningKeepsAlways == Spec => InliningKeeps
<1> DEFINE Kept ==
       form.op = "delete" /\ answer' = "accepted" =>
          /\ Shown'.fields = Shown.fields
          /\ \A row \in Rows(Base, entry) :
                MetricAt(Shown', row.section, row.key) = row.effective
<1>1. EntryInv /\ Next => Kept
  <2> SUFFICES ASSUME EntryInv, Next, form.op = "delete", answer' = "accepted"
               PROVE  /\ Shown'.fields = Shown.fields
                      /\ \A row \in Rows(Base, entry) :
                            MetricAt(Shown', row.section, row.key) = row.effective
    OBVIOUS
  <2>1. DeleteTemplate
    BY StepOf
  <2> DEFINE r == ResolveRef(kind, template, entry)
             e == Inlined(kind, template, entry)
  <2>2. Shown'.fields = Shown.fields /\ \A s, x : MetricAt(Shown', s, x) = MetricAt(Shown, s, x)
    <3>1. CASE entry.inline
      <4>1. entry' = entry /\ kind' = kind
        BY <2>1, <3>1 DEF DeleteTemplate, Answer
      <4> QED
        BY <4>1, <3>1 DEF Shown, Resolve
    <3>2. CASE ~entry.inline
      <4>1. entry' = e /\ kind' = kind /\ EntryOK(kind, e)
        BY <2>1, <3>2 DEF DeleteTemplate, Answer
      <4>2. e.inline /\ e.fields = r.fields /\ e.metrics = r.metrics
        BY DEF Inlined
      <4>3. Shown = r
        BY <3>2 DEF Shown, Resolve
      <4>4. Shown' = [fields |-> Without(e.fields, RefOnly(kind)), metrics |-> e.metrics]
        BY <4>1, <4>2 DEF Shown, Resolve, ResolveInline
      <4>5. DOMAIN e.fields \cap RefOnly(kind) = {}
        BY <4>1, <4>2, Tables DEF EntryOK, DefOK, EntryInv, TablesAgree
      <4>6. r.fields = [f \in DOMAIN r.fields |-> r.fields[f]]
        BY DEF ResolveRef, Spread
      <4> HIDE DEF e, r
      <4>7. Without(e.fields, RefOnly(kind)) = e.fields
        BY <4>2, <4>5, <4>6, WithoutNothing
      <4> QED
        BY <4>2, <4>3, <4>4, <4>7 DEF MetricAt
    <3> QED
      BY <3>1, <3>2
  <2> QED
    BY <2>2, RowAgrees
<1>2. EntryInv /\ [Next]_vars => [Kept]_vars
  BY <1>1
<1> QED
  BY <1>2, EntryInvAlways, PTL DEF Spec, InliningKeeps

-----------------------------------------------------------------------------
(* Accepted forms                                                            *)

\* The parts of AcceptedIsShown, as actions.
OverrideIsShown ==
    form.op = "metric" /\ answer' = "accepted" /\ form.section \in DOMAIN SlotsOf
      /\ form.key \in SlotsOf[form.section] =>
     LET s == form.section
         x == form.key
         now == MetricAt(Shown', s, x)
         base == IF entry.inline THEN Null ELSE MetricAt(template, s, x)
         inBase(f) == base # Null /\ f \in DOMAIN base
         from(f) == IF inBase(f) THEN Seen(Shown', base, f) ELSE Seen(Shown', Nowhere, f)
     IN /\ Shown'.fields = Shown.fields
        /\ \A row \in Rows(Base, entry) :
              <<row.section, row.key>> # <<s, x>> =>
                  MetricAt(Shown', row.section, row.key) = row.effective
        /\ IF DOMAIN form.draft = {} THEN now = base
           ELSE \A f \in MetricFields :
                  Seen(Shown', now, f) =
                     IF f \notin DOMAIN form.draft THEN from(f)
                     ELSE IF f \in DOMAIN Stored(form.draft) THEN form.draft[f]
                     ELSE from(f)

\* What is seen of fields that are spread over others.
LEMMA SeenOfSpread ==
    ASSUME NEW d, NEW m, NEW n, NEW f
    PROVE  Seen(d, Spread(m, n), f) =
              IF f \in DOMAIN n THEN n[f]
              ELSE IF f \in DOMAIN m THEN Seen(d, m, f) ELSE Seen(d, Nowhere, f)
BY DEF Seen, SourceOf, Spread, Nowhere

\* What is seen of fields that stand alone.
LEMMA SeenOf ==
    ASSUME NEW d, NEW n, NEW f
    PROVE  Seen(d, n, f) = IF f \in DOMAIN n THEN n[f] ELSE Seen(d, Nowhere, f)
BY DEF Seen, SourceOf, Nowhere

\* What is stored of a draft is as entered.
LEMMA StoredFields ==
    ASSUME NEW draft
    PROVE  /\ DOMAIN Stored(draft) \subseteq DOMAIN draft
           /\ \A f \in DOMAIN Stored(draft) : Stored(draft)[f] = draft[f]
BY DEF Stored, Only

\* An override shows: the fields toggled on over the template's, all else as it was.
LEMMA OverrideStep == EntryInv /\ Next => OverrideIsShown
<1> SUFFICES ASSUME EntryInv, Next, form.op = "metric", answer' = "accepted",
                    form.key \in SlotsOf[form.section]
             PROVE  OverrideIsShown
  BY DEF OverrideIsShown
<1> DEFINE s == form.section
           x == form.key
           P == PatchMetrics(entry.metrics, s, x, form.draft)
           e == [inline |-> entry.inline, fields |-> entry.fields, metrics |-> P]
           base == IF entry.inline THEN Null ELSE MetricAt(template, s, x)
           from(f) == IF base # Null /\ f \in DOMAIN base THEN Seen(Shown', base, f)
                      ELSE Seen(Shown', Nowhere, f)
           new == Stored(form.draft)
<1>1. entry' = e /\ template' = template /\ kind' = kind
  BY StepOf, PutEntryAnswers DEF SaveMetric
<1>2. e.inline = entry.inline /\ e.fields = entry.fields /\ e.metrics = P
  OBVIOUS
<1>3. new \in MetricObjects /\ new # Null /\ DOMAIN new \subseteq DOMAIN form.draft
        /\ \A f \in DOMAIN new : new[f] = form.draft[f]
  BY StoredIsObject, StoredFields, EntryAssumption DEF EntryInv, FormOK
<1>4. s \in DOMAIN Base.metrics /\ x \in DOMAIN Base.metrics[s]
  <2>1. \A c \in CustomsOf(Base) \cup CustomsOf(entry) : c \notin SlotsOf["metrics"]
    BY DEF EntryInv, WellFormed, Base, TemplateOK
  <2> QED
    BY <2>1 DEF EntryInv, FormOK
<1>12. P = PatchMetrics(entry.metrics, s, x, form.draft)
  OBVIOUS
<1> HIDE DEF P
<1>5. \A z, y : ~(z = s /\ y = x) =>
         /\ y \in DOMAIN Part(P, z) <=> y \in DOMAIN Part(entry.metrics, z)
         /\ y \in DOMAIN Part(P, z) => Part(P, z)[y] = Part(entry.metrics, z)[y]
  BY <1>12, Patched
<1>6. /\ DOMAIN form.draft = {} => x \notin DOMAIN Part(P, s)
      /\ DOMAIN form.draft # {} => x \in DOMAIN Part(P, s) /\ Part(P, s)[x] = new
  <2>1. DOMAIN form.draft = {} => x \notin DOMAIN Part(P, s)
    BY <1>12, PatchedAway
  <2>2. DOMAIN form.draft # {} => x \in DOMAIN Part(P, s)
    BY <1>12, Patched
  <2>3. DOMAIN form.draft # {} => Part(P, s)[x] = new
    BY <1>12, Patched
  <2> QED
    BY <2>1, <2>2, <2>3
<1> HIDE DEF e
<1>7. Shown'.fields = Shown.fields
  <2>1. CASE entry.inline
    BY <2>1, <1>1, <1>2 DEF Shown, Resolve, ResolveInline
  <2>2. CASE ~entry.inline
    BY <2>2, <1>1, <1>2 DEF Shown, Resolve, ResolveRef, Filters
  <2> QED
    BY <2>1, <2>2
<1>8. ASSUME NEW z, NEW y, z \in DOMAIN Base.metrics, y \in DOMAIN Base.metrics[z], ~(z = s /\ y = x)
      PROVE  MetricAt(Shown', z, y) = MetricAt(Shown, z, y)
  <2>1. CASE entry.inline
    <3>1. \A d, a, b : MetricAt(d, a, b) =
             IF b \in DOMAIN Part(d.metrics, a) THEN Part(d.metrics, a)[b] ELSE Null
      BY DEF MetricAt, Part, Nowhere
    <3>2. Shown'.metrics = P /\ Shown.metrics = entry.metrics
      BY <2>1, <1>1, <1>2 DEF Shown, Resolve, ResolveInline
    <3> QED
      BY <3>1, <3>2, <1>5, <1>8
  <2>2. CASE ~entry.inline
    <3>1. Shown' = ResolveRef(kind, template, e) /\ Shown = ResolveRef(kind, template, entry)
      BY <2>2, <1>1, <1>2 DEF Shown, Resolve
    <3> QED
      BY <3>1, <1>2, <1>5, <1>8, ShownOfRef
  <2> QED
    BY <2>1, <2>2
<1>9. \A row \in Rows(Base, entry) :
         <<row.section, row.key>> # <<s, x>> => MetricAt(Shown', row.section, row.key) = row.effective
  BY <1>8, RowShape, RowAgrees
<1>10. /\ DOMAIN form.draft = {} => MetricAt(Shown', s, x) = base
       /\ DOMAIN form.draft # {} =>
             MetricAt(Shown', s, x) = IF base = Null THEN new ELSE Spread(base, new)
  <2>1. CASE entry.inline
    <3>1. Shown'.metrics = P
      BY <2>1, <1>1, <1>2 DEF Shown, Resolve, ResolveInline
    <3>2. MetricAt(Shown', s, x) = IF x \in DOMAIN Part(P, s) THEN Part(P, s)[x] ELSE Null
      BY <3>1 DEF MetricAt, Part, Nowhere
    <3> QED
      BY <2>1, <3>2, <1>6
  <2>2. CASE ~entry.inline
    <3>1. Shown' = ResolveRef(kind, template, e)
      BY <2>2, <1>1, <1>2 DEF Shown, Resolve
    <3>2. /\ s \in DOMAIN template.metrics /\ x \in DOMAIN template.metrics[s]
          /\ base = template.metrics[s][x]
      BY <2>2, <1>4 DEF Base, MetricAt, Part
    <3>3. MetricAt(Shown', s, x) =
             IF x \in DOMAIN Part(P, s) THEN Effective(base, Part(P, s)[x]) ELSE base
      BY <3>1, <3>2, <1>2, ShownOfRef
    <3> HIDE DEF base, new
    <3> QED
      BY <3>3, <1>3, <1>6 DEF Effective
  <2> QED
    BY <2>1, <2>2
<1>11. ASSUME DOMAIN form.draft # {}, NEW f \in MetricFields
       PROVE  Seen(Shown', MetricAt(Shown', s, x), f) =
                 IF f \notin DOMAIN form.draft THEN from(f)
                 ELSE IF f \in DOMAIN Stored(form.draft) THEN form.draft[f]
                 ELSE from(f)
  <2> DEFINE d == Shown'
  <2>1. Seen(d, new, f) = IF f \in DOMAIN new THEN new[f] ELSE Seen(d, Nowhere, f)
    BY SeenOf
  <2>2. Seen(d, Spread(base, new), f) =
           IF f \in DOMAIN new THEN new[f]
           ELSE IF f \in DOMAIN base THEN Seen(d, base, f) ELSE Seen(d, Nowhere, f)
    BY SeenOfSpread
  <2> HIDE DEF d, base, new
  <2> QED
    BY <2>1, <2>2, <1>3, <1>10, <1>11 DEF d, new
<1> QED
  BY <1>7, <1>9, <1>10, <1>11, Zenon DEF OverrideIsShown

PropertiesAreShown ==
    form.op = "properties" /\ answer' = "accepted" =>
       /\ Shown'.metrics = Shown.metrics
       /\ \A f \in DOMAIN PatchOf(form.draft) :
             /\ Loaded(kind, template', entry')[f] = form.draft[f]
             /\ f \in DOMAIN Shown'.fields => Shown'.fields[f] = form.draft[f]

\* What an accepted form of properties has written.
LEMMA PropertiesSaved ==
    ASSUME EntryInv, SaveProperties, answer' = "accepted"
    PROVE  LET patch == PatchOf(form.draft) IN
           /\ kind' = kind
           /\ entry'.inline = entry.inline /\ entry'.metrics = entry.metrics
           /\ entry'.fields = Spread(entry.fields, IF entry.inline THEN patch ELSE Only(patch, OnTheRef(kind)))
           /\ ~entry.inline =>
                 /\ template'.metrics = template.metrics
                 /\ \A f \in DOMAIN patch \ OnTheRef(kind) :
                       f \in DOMAIN template'.fields /\ template'.fields[f] = patch[f]
                 /\ \A f \in OnTheRef(kind) :
                       f \in DOMAIN template'.fields <=> f \in DOMAIN template.fields
<1> DEFINE patch == PatchOf(form.draft)
           onRef == IF entry.inline THEN patch ELSE Only(patch, OnTheRef(kind))
           rest  == IF entry.inline THEN Nowhere ELSE Without(patch, OnTheRef(kind))
           e == WithFields(entry, Spread(entry.fields, onRef))
           t == [fields |-> Spread(template.fields, rest), metrics |-> template.metrics]
<1>1. \/ DOMAIN rest = {} /\ PutEntry(e)
      \/ /\ DOMAIN rest # {}
         /\ IF ~EntryOK(kind, e) THEN Answer("refused", entry, template)
            ELSE IF DefOK(kind, t) THEN Answer("accepted", e, t)
            ELSE Answer("half", e, template)
  BY Zenon DEF SaveProperties
<1>2. /\ e.inline = entry.inline /\ e.fields = Spread(entry.fields, onRef) /\ e.metrics = entry.metrics
      /\ t.fields = Spread(template.fields, rest) /\ t.metrics = template.metrics
  BY DEF WithFields
<1>3. ~entry.inline =>
         /\ DOMAIN rest = DOMAIN patch \ OnTheRef(kind)
         /\ \A f \in DOMAIN rest : rest[f] = patch[f]
  BY DEF Without
<1> HIDE DEF e, t, onRef, rest, patch
<1>4. entry' = e /\ kind' = kind
  BY <1>1, PutEntryAnswers DEF Answer
<1>5. DOMAIN rest = {} => template' = template
  BY <1>1, PutEntryAnswers DEF Answer
<1>6. DOMAIN rest # {} => template' = t
  BY <1>1 DEF Answer
<1>7. CASE entry.inline
  BY <1>2, <1>4, <1>7 DEF onRef, patch
<1>8. CASE ~entry.inline
  <2>1. template'.metrics = template.metrics
    BY <1>2, <1>5, <1>6
  <2>2. \A f \in DOMAIN patch \ OnTheRef(kind) :
           f \in DOMAIN template'.fields /\ template'.fields[f] = patch[f]
    BY <1>2, <1>3, <1>6, <1>8 DEF Spread
  <2>3. \A f \in OnTheRef(kind) : f \in DOMAIN template'.fields <=> f \in DOMAIN template.fields
    BY <1>2, <1>3, <1>5, <1>6, <1>8 DEF Spread
  <2> QED
    BY <2>1, <2>2, <2>3, <1>2, <1>4, <1>8 DEF onRef, patch
<1> QED
  BY <1>7, <1>8

\* Properties show: on the cards and in the form, wherever they were saved.
LEMMA PropertiesStep == EntryInv /\ Next => PropertiesAreShown
<1> SUFFICES ASSUME EntryInv, Next, form.op = "properties", answer' = "accepted"
             PROVE  PropertiesAreShown
  BY DEF PropertiesAreShown
<1> DEFINE patch == PatchOf(form.draft)
<1>1. /\ kind' = kind
      /\ entry'.inline = entry.inline /\ entry'.metrics = entry.metrics
      /\ entry'.fields = Spread(entry.fields, IF entry.inline THEN patch ELSE Only(patch, OnTheRef(kind)))
  BY StepOf, PropertiesSaved
<1>2. ~entry.inline =>
         /\ template'.metrics = template.metrics
         /\ \A f \in DOMAIN patch \ OnTheRef(kind) :
               f \in DOMAIN template'.fields /\ template'.fields[f] = patch[f]
         /\ \A f \in OnTheRef(kind) :
               f \in DOMAIN template'.fields <=> f \in DOMAIN template.fields
  BY StepOf, PropertiesSaved
<1>3. /\ DOMAIN patch \subseteq FormFields(kind)
      /\ \A f \in DOMAIN patch : patch[f] = form.draft[f]
  BY PatchShape DEF EntryInv, FormOK
<1>4. TablesAgree(kind)
  BY Tables DEF EntryInv
<1> HIDE DEF patch
<1>5. Shown'.metrics = Shown.metrics
  <2>1. CASE entry.inline
    BY <2>1, <1>1 DEF Shown, Resolve, ResolveInline
  <2>2. CASE ~entry.inline
    BY <2>2, <1>1, <1>2 DEF Shown, Resolve, ResolveRef
  <2> QED
    BY <2>1, <2>2
<1>6. ASSUME NEW f \in DOMAIN patch
      PROVE  /\ Loaded(kind, template', entry')[f] = form.draft[f]
             /\ f \in DOMAIN Shown'.fields => Shown'.fields[f] = form.draft[f]
  <2>1. CASE entry.inline
    <3>1. f \in DOMAIN entry'.fields /\ entry'.fields[f] = patch[f]
      BY <2>1, <1>1 DEF Spread
    <3>2. Loaded(kind, template', entry')[f] = patch[f]
      BY <3>1, <2>1, <1>1, <1>3 DEF Loaded
    <3>3. Shown'.fields = Without(entry'.fields, RefOnly(kind))
      BY <2>1, <1>1 DEF Shown, Resolve, ResolveInline
    <3> QED
      BY <3>1, <3>2, <3>3, <1>3 DEF Without
  <2>2. CASE ~entry.inline /\ f \in OnTheRef(kind)
    <3>1. f \in DOMAIN entry'.fields /\ entry'.fields[f] = patch[f]
      BY <2>2, <1>1 DEF Spread, Only
    <3>2. Loaded(kind, template', entry')[f] = patch[f]
      BY <3>1, <2>2, <1>1, <1>3 DEF Loaded
    <3>3. f \notin DOMAIN Filters(template', entry')
      BY <1>3, <1>4 DEF Filters, Nowhere, TablesAgree
    <3>4. Shown'.fields = Spread(Spread(template'.fields,
                                        Only(entry'.fields, RefOnly(kind) \cup Overridable(kind))),
                                 Filters(template', entry'))
      BY <2>2, <1>1 DEF Shown, Resolve, ResolveRef
    <3>5. CASE f \in RefOnly(kind) \cup Overridable(kind)
      BY <3>1, <3>2, <3>3, <3>4, <3>5, <1>3 DEF Spread, Only
    <3>6. CASE f \notin RefOnly(kind) \cup Overridable(kind)
      <4>1. f \notin DefSchema(kind)
        BY <3>6, <2>2, <1>3, <1>4 DEF TablesAgree
      <4>2. f \notin DOMAIN template'.fields
        BY <4>1, <2>2, <1>2 DEF EntryInv, TemplateOK, DefOK
      <4> QED
        BY <4>2, <3>2, <3>3, <3>4, <3>6, <1>3 DEF Spread, Only
    <3> QED
      BY <3>5, <3>6
  <2>3. CASE ~entry.inline /\ f \notin OnTheRef(kind)
    <3>1. f \in DOMAIN template'.fields /\ template'.fields[f] = patch[f]
      BY <2>3, <1>2
    <3>2. Loaded(kind, template', entry')[f] = patch[f]
      BY <3>1, <2>3, <1>1, <1>3 DEF Loaded
    <3>3. f \notin DOMAIN Filters(template', entry') /\ f \notin RefOnly(kind) \cup Overridable(kind)
      BY <2>3, <1>3, <1>4 DEF Filters, Nowhere, TablesAgree
    <3>4. Shown'.fields = Spread(Spread(template'.fields,
                                        Only(entry'.fields, RefOnly(kind) \cup Overridable(kind))),
                                 Filters(template', entry'))
      BY <2>3, <1>1 DEF Shown, Resolve, ResolveRef
    <3> QED
      BY <3>1, <3>2, <3>3, <3>4, <1>3 DEF Spread, Only
  <2> QED
    BY <2>1, <2>2, <2>3
<1> QED
  BY <1>5, <1>6 DEF PropertiesAreShown, patch

QueryIsShown ==
    form.op = "queries" =>
       \A s \in Sections(kind) : \A x \in SlotsOf[s] :
           LET sent == s = form.section /\ x \in DOMAIN form.draft
               overridden == x \in DOMAIN Part(entry.metrics, s)
               ownSource == "dataSource" \in DOMAIN entry.fields
                               /\ form.source = template.fields["dataSource"]
               kept == MetricAt(Shown', s, x) = MetricAt(Shown, s, x)
               shown == /\ MetricAt(Shown', s, x) # Null
                        /\ QueryAt(Shown', s, x) = form.draft[x]
                        /\ ownSource \/ SourceOf(Shown', MetricAt(Shown', s, x)) = form.source
           IN /\ sent \/ kept
              /\ sent /\ ~entry.inline /\ s \in DOMAIN template'.metrics /\ ~overridden =>
                    shown \/ (kept /\ DOMAIN form.draft # {x})

\* The data source of an edge or a node by reference is its template's, unless it has its own.
LEMMA SourceOfRef ==
    ASSUME NEW k \in NodeKinds \cup EdgeKinds, NEW t, DefOK(k, t), NEW r,
           "dataSource" \notin DOMAIN r.fields
    PROVE  ResolveRef(k, t, r).fields["dataSource"] = t.fields["dataSource"]
<1> DEFINE over == Only(r.fields, RefOnly(k) \cup Overridable(k))
           filters == Filters(t, r)
<1>1. ResolveRef(k, t, r).fields = Spread(Spread(t.fields, over), filters)
  BY DEF ResolveRef
<1>2. "dataSource" \notin DOMAIN over
  BY DEF Only
<1>3. "dataSource" \notin DOMAIN filters
  BY DEF Filters, Nowhere
<1>4. "dataSource" \in DOMAIN t.fields
  BY Tables DEF DefOK, TablesAgree
<1> HIDE DEF over, filters
<1> QED
  BY <1>1, <1>2, <1>3, <1>4 DEF Spread

\* A query that is saved shows with its data source in the metric it was of, unless the reference
\* overrides that one.
LEMMA QueryOfRef ==
    ASSUME NEW k \in NodeKinds \cup EdgeKinds, NEW t, TemplateOK(k, t),
           NEW q \in Sections(k), NEW y \in SlotsOf[q], NEW v \in Contents, NEW source \in Contents,
           NEW r, y \notin DOMAIN Part(r.metrics, q), NEW d, d = Requeried(t, q, y, v, source),
           q \in DOMAIN d.metrics
    PROVE  LET m == MetricAt(ResolveRef(k, d, r), q, y) IN
           /\ m # Null /\ m["query"] = v
           /\ \/ "dataSource" \in DOMAIN r.fields /\ source = t.fields["dataSource"]
              \/ SourceOf(ResolveRef(k, d, r), m) = source
<1>1. q = "consumer" => q \in DOMAIN t.metrics
  BY Zenon DEF Requeried
<1>2. PICK m \in MetricObjects :
         /\ m # Null /\ Needed \subseteq DOMAIN m /\ m["query"] = v
         /\ IF source = t.fields["dataSource"] THEN "dataSource" \notin DOMAIN m
            ELSE "dataSource" \in DOMAIN m /\ m["dataSource"] = source
         /\ d = WithMetric(t, q, y, m)
  BY <1>1, RequeriedIs
<1>3. q \in DOMAIN d.metrics /\ y \in DOMAIN d.metrics[q] /\ d.metrics[q][y] = m
  BY <1>2 DEF WithMetric, With
<1>4. MetricAt(ResolveRef(k, d, r), q, y) = m
  BY <1>3, ShownOfRef
<1>5. d.fields = t.fields
  BY <1>2 DEF WithMetric
<1>6. \/ "dataSource" \in DOMAIN r.fields /\ source = t.fields["dataSource"]
      \/ SourceOf(ResolveRef(k, d, r), m) = source
  <2>1. CASE source # t.fields["dataSource"]
    BY <2>1, <1>2 DEF SourceOf
  <2>2. CASE source = t.fields["dataSource"] /\ "dataSource" \notin DOMAIN r.fields
    <3>1. ResolveRef(k, d, r).fields["dataSource"] = d.fields["dataSource"]
      BY <2>2, RequeriedOK, SourceOfRef DEF TemplateOK
    <3> QED
      BY <3>1, <2>2, <1>2, <1>5 DEF SourceOf
  <2> QED
    BY <2>1, <2>2
<1> QED
  BY <1>2, <1>4, <1>6

\* And in no other.
LEMMA OthersOfRef ==
    ASSUME NEW k, NEW t, TemplateOK(k, t), NEW q \in Sections(k), NEW y \in SlotsOf[q],
           NEW v \in Contents, NEW source \in Contents, NEW r, NEW s, NEW x, ~(s = q /\ x = y)
    PROVE  MetricAt(ResolveRef(k, Requeried(t, q, y, v, source), r), s, x)
              = MetricAt(ResolveRef(k, t, r), s, x)
<1>1. CASE q = "consumer" /\ q \notin DOMAIN t.metrics
  <2>1. Requeried(t, q, y, v, source) = t
    BY <1>1, Zenon DEF Requeried
  <2> QED
    BY <2>1
<1>2. CASE q = "consumer" => q \in DOMAIN t.metrics
  <2>1. PICK m : Requeried(t, q, y, v, source) = WithMetric(t, q, y, m)
    BY <1>2, RequeriedIs
  <2> DEFINE d == WithMetric(t, q, y, m)
  <2>2. /\ DOMAIN d.metrics = DOMAIN t.metrics \cup {q}
        /\ DOMAIN d.metrics[q] = DOMAIN Part(t.metrics, q) \cup {y}
        /\ \A w \in DOMAIN Part(t.metrics, q) :
              w # y => q \in DOMAIN t.metrics /\ d.metrics[q][w] = t.metrics[q][w]
        /\ \A z \in DOMAIN t.metrics : z # q => d.metrics[z] = t.metrics[z]
    BY DEF WithMetric, With, Part, Nowhere
  <2> HIDE DEF d
  <2>3. /\ s \in DOMAIN d.metrics /\ x \in DOMAIN d.metrics[s]
               <=> s \in DOMAIN t.metrics /\ x \in DOMAIN t.metrics[s]
        /\ s \in DOMAIN t.metrics /\ x \in DOMAIN t.metrics[s] => d.metrics[s][x] = t.metrics[s][x]
    BY <2>2 DEF Part, Nowhere
  <2>4. MetricAt(ResolveRef(k, d, r), s, x) = MetricAt(ResolveRef(k, t, r), s, x)
    BY <2>3, ShownOfRef
  <2> QED
    BY <2>1, <2>4 DEF d
<1> QED
  BY <1>1, <1>2

\* A query shows, and no other metric is changed.
LEMMA QueryStep == EntryInv /\ Next => QueryIsShown
<1> SUFFICES ASSUME EntryInv, Next, form.op = "queries",
                    NEW s \in Sections(kind), NEW x \in SlotsOf[s]
             PROVE  LET sent == s = form.section /\ x \in DOMAIN form.draft
                        overridden == x \in DOMAIN Part(entry.metrics, s)
                        ownSource == "dataSource" \in DOMAIN entry.fields
                                        /\ form.source = template.fields["dataSource"]
                        kept == MetricAt(Shown', s, x) = MetricAt(Shown, s, x)
                        shown == /\ MetricAt(Shown', s, x) # Null
                                 /\ QueryAt(Shown', s, x) = form.draft[x]
                                 /\ ownSource \/ SourceOf(Shown', MetricAt(Shown', s, x)) = form.source
                    IN /\ sent \/ kept
                       /\ sent /\ ~entry.inline /\ s \in DOMAIN template'.metrics /\ ~overridden =>
                             shown \/ (kept /\ DOMAIN form.draft # {x})
  BY Zenon DEF QueryIsShown
<1>1. SaveQueries
  BY StepOf
<1>2. CASE entry.inline
  <2>1. entry' = entry /\ kind' = kind
    BY <1>1, <1>2 DEF SaveQueries, Answer
  <2>2. MetricAt(Shown', s, x) = MetricAt(Shown, s, x)
    BY <2>1, <1>2 DEF Shown, Resolve
  <2> QED
    BY <2>2, <1>2
<1>3. CASE ~entry.inline
  <2>1. PICK y \in DOMAIN form.draft :
           Answer("accepted", entry, Requeried(template, form.section, y, form.draft[y], form.source))
    BY <1>1, <1>3 DEF SaveQueries
  <2>2. PICK q \in Sections(kind), v \in Contents, source \in Contents :
           q = form.section /\ v = form.draft[y] /\ source = form.source
    BY DEF EntryInv, FormOK
  <2>3. y \in SlotsOf[q] /\ TemplateOK(kind, template) /\ kind \in NodeKinds \cup EdgeKinds
    BY <2>2, <1>3 DEF EntryInv, FormOK
  <2>4. PICK t : t = Requeried(template, q, y, v, source)
    OBVIOUS
  <2>5. Shown = ResolveRef(kind, template, entry) /\ Shown' = ResolveRef(kind, t, entry) /\ template' = t
    BY <2>1, <2>2, <2>4, <1>3 DEF Answer, Shown, Resolve
  <2>6. CASE ~(s = q /\ x = y)
    <3>1. MetricAt(Shown', s, x) = MetricAt(Shown, s, x)
      BY <2>3, <2>4, <2>5, <2>6, OthersOfRef
    <3>2. s = form.section => DOMAIN form.draft # {x}
      BY <2>2, <2>6
    <3> QED
      BY <3>1, <3>2
  <2>7. CASE s = q /\ x = y
    <3>1. ASSUME y \notin DOMAIN Part(entry.metrics, q), q \in DOMAIN t.metrics
          PROVE  LET m == MetricAt(ResolveRef(kind, t, entry), q, y) IN
                 /\ m # Null /\ m["query"] = v
                 /\ \/ "dataSource" \in DOMAIN entry.fields /\ source = template.fields["dataSource"]
                    \/ SourceOf(ResolveRef(kind, t, entry), m) = source
      BY <3>1, <2>3, <2>4, QueryOfRef
    <3> QED
      BY <3>1, <2>1, <2>2, <2>5, <2>7 DEF QueryAt
  <2> QED
    BY <2>6, <2>7
<1> QED
  BY <1>2, <1>3

CreatedAreShown ==
    form.op = "create" /\ answer' = "accepted" =>
       /\ Shown'.fields = form.made.fields
       /\ \A x \in SlotsOf[MainSection(kind)] :
             [section |-> MainSection(kind), key |-> x, overridden |-> FALSE, effective |-> Null]
                 \in Rows(Base', entry')

\* What was created shows, with a row for each metric it may have.
LEMMA CreateStep == EntryInv /\ Next => CreatedAreShown
<1> SUFFICES ASSUME EntryInv, Next, form.op = "create", answer' = "accepted"
             PROVE  CreatedAreShown
  BY DEF CreatedAreShown
<1> DEFINE made == form.made
           s == MainSection(kind)
<1>1. Create
  BY StepOf
<1>2. /\ made.fields = [f \in DOMAIN made.fields |-> made.fields[f]]
      /\ made.metrics = Unset(kind) /\ DefOK(kind, made)
  BY DEF EntryInv, FormOK, TemplateOK
<1>3. DOMAIN made.fields \cap RefOnly(kind) = {}
  BY <1>2, Tables DEF EntryInv, TablesAgree, DefOK
<1>4. /\ DOMAIN made.metrics = {s} /\ DOMAIN made.metrics[s] = SlotsOf[s]
      /\ \A x \in SlotsOf[s] : made.metrics[s][x] = Null
  BY <1>2 DEF Unset
<1> HIDE DEF made, s
<1>5. CASE form.asTemplate
  <2>1. entry' = BareReference /\ template' = made /\ kind' = kind
    BY <1>1, <1>2, <1>5 DEF Create, PutTemplate, Answer, made
  <2>2. /\ ~BareReference.inline /\ BareReference.fields = Nowhere /\ BareReference.metrics = Nowhere
    BY DEF BareReference
  <2>3. Shown'.fields = made.fields
    <3>1. Shown'.fields = Spread(Spread(made.fields, Only(Nowhere, RefOnly(kind) \cup Overridable(kind))),
                                 Nowhere)
      BY <2>1, <2>2 DEF Shown, Resolve, ResolveRef, Filters, Nowhere
    <3> QED
      BY <3>1, <1>2 DEF Spread, Only, Nowhere
  <2>4. Base' = made
    BY <2>1, <2>2 DEF Base
  <2>5. \A x \in SlotsOf[s] :
           [section |-> s, key |-> x, overridden |-> FALSE, effective |-> made.metrics[s][x]]
              \in Rows(made, BareReference)
    <3> TAKE x \in SlotsOf[s]
    <3>1. s \in DOMAIN made.metrics /\ x \in DOMAIN made.metrics[s]
      BY <1>4
    <3>2. x \notin DOMAIN Part(BareReference.metrics, s)
      BY <2>2 DEF Part, Nowhere
    <3> QED
      BY <3>1, <3>2, RowThere
  <2> QED
    BY <2>1, <2>3, <2>4, <2>5, <1>4 DEF CreatedAreShown, made, s
<1>6. CASE ~form.asTemplate
  <2> DEFINE e == [inline |-> TRUE, fields |-> made.fields, metrics |-> made.metrics]
  <2>1. PutEntry(e)
    BY <1>1, <1>6 DEF Create, CreateInline, made
  <2>2. entry' = e /\ kind' = kind
    BY <2>1, PutEntryAnswers
  <2>3. e.inline /\ e.fields = made.fields /\ e.metrics = made.metrics
    OBVIOUS
  <2> HIDE DEF e
  <2>4. Shown'.fields = Without(made.fields, RefOnly(kind))
    BY <2>2, <2>3 DEF Shown, Resolve, ResolveInline
  <2>5. Shown'.fields = made.fields
    BY <2>4, <1>2, <1>3, WithoutNothing
  <2>6. Base' = e
    BY <2>2, <2>3 DEF Base
  <2>7. \A x \in SlotsOf[s] :
           [section |-> s, key |-> x, overridden |-> FALSE, effective |-> e.metrics[s][x]] \in Rows(e, e)
    <3> TAKE x \in SlotsOf[s]
    <3>1. s \in DOMAIN e.metrics /\ x \in DOMAIN e.metrics[s]
      BY <2>3, <1>4
    <3> QED
      BY <3>1, <2>3, RowThere
  <2> QED
    BY <2>2, <2>3, <2>5, <2>6, <2>7, <1>4 DEF CreatedAreShown, made, s
<1> QED
  BY <1>5, <1>6

TemplateIsShown ==
    form.op = "template" /\ answer' = "accepted" /\ ~entry.inline =>
       /\ \A f \in DOMAIN form.draft.fields :
             \/ f \in DOMAIN entry.fields \cup DOMAIN Filters(form.draft, entry)
             \/ Shown'.fields[f] = form.draft.fields[f]
       /\ \A s \in DOMAIN form.draft.metrics : \A x \in DOMAIN form.draft.metrics[s] :
             \/ x \in DOMAIN Part(entry.metrics, s)
             \/ MetricAt(Shown', s, x) = form.draft.metrics[s][x]

\* A template that was saved shows where the reference doesn't override it.
LEMMA TemplateStep == EntryInv /\ Next => TemplateIsShown
<1> SUFFICES ASSUME EntryInv, Next, form.op = "template", answer' = "accepted", ~entry.inline
             PROVE  TemplateIsShown
  BY DEF TemplateIsShown
<1> DEFINE d == form.draft
<1>1. entry' = entry /\ template' = d /\ kind' = kind
  BY StepOf DEF SaveTemplate, PutTemplate, Answer
<1> HIDE DEF d
<1>2. Shown' = ResolveRef(kind, d, entry)
  BY <1>1 DEF Shown, Resolve
<1>3. ASSUME NEW f \in DOMAIN d.fields, f \notin DOMAIN entry.fields \cup DOMAIN Filters(d, entry)
      PROVE  Shown'.fields[f] = d.fields[f]
  BY <1>2, <1>3 DEF ResolveRef, Spread, Only
<1>4. ASSUME NEW s \in DOMAIN d.metrics, NEW x \in DOMAIN d.metrics[s],
             x \notin DOMAIN Part(entry.metrics, s)
      PROVE  MetricAt(Shown', s, x) = d.metrics[s][x]
  BY <1>2, <1>4, ShownOfRef
<1> QED
  BY <1>3, <1>4 DEF TemplateIsShown, d

\* What a form sent and the backend accepted is what the cards and the forms show from then
\* on, and nothing else changes: of a new entry, an override, the properties, a query or the
\* template, for any documents the schemas take and whatever was edited before.
THEOREM AcceptedIsShownAlways == Spec => AcceptedIsShown
<1>1. EntryInv /\ [Next]_vars => [OverrideIsShown]_vars
  BY OverrideStep
<1>2. EntryInv /\ [Next]_vars => [PropertiesAreShown]_vars
  BY PropertiesStep
<1>3. EntryInv /\ [Next]_vars => [QueryIsShown]_vars
  BY QueryStep
<1>4. EntryInv /\ [Next]_vars => [CreatedAreShown]_vars
  BY CreateStep
<1>5. EntryInv /\ [Next]_vars => [TemplateIsShown]_vars
  BY TemplateStep
<1>6. Spec => OverrideShown
  BY <1>1, EntryInvAlways, PTL DEF Spec, OverrideShown, OverrideIsShown
<1>7. Spec => PropertiesShown
  BY <1>2, EntryInvAlways, PTL DEF Spec, PropertiesShown, PropertiesAreShown
<1>8. Spec => QueryShown
  BY <1>3, EntryInvAlways, PTL DEF Spec, QueryShown, QueryIsShown
<1>9. Spec => CreatedIsShown
  BY <1>4, EntryInvAlways, PTL DEF Spec, CreatedIsShown, CreatedAreShown
<1>10. Spec => TemplateShown
  BY <1>5, EntryInvAlways, PTL DEF Spec, TemplateShown, TemplateIsShown
<1> QED
  BY <1>6, <1>7, <1>8, <1>9, <1>10, PTL DEF AcceptedIsShown
=============================================================================
