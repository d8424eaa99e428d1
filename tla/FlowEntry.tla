------------------------------ MODULE FlowEntry ------------------------------
(***************************************************************************)
(* One entry of a flow, a node or an edge, and the template it refers to.  *)
(* The page shows what topologyResolver makes of the two; the forms of the *)
(* page (metric override, sequence order, properties, query of the chart,  *)
(* deletion of the template) patch the entry, the template or both and PUT *)
(* them, and the backend takes a document only if its JSON schema does.    *)
(* The entry is there from the start, or one of the add dialogs makes it.  *)
(*                                                                         *)
(* Objects are functions on the fields they have.  A metric belongs to a   *)
(* section of the entry: "publish", "queue", ... or, for kinds that have   *)
(* none, "metrics".  Kinds whose fields differ in name only are one kind:  *)
(* external is also ec2-service and database.  What other users do between *)
(* the load of a form and its save is FlowEditing's.                       *)
(***************************************************************************)
EXTENDS Naturals

CONSTANTS
    Kinds,          \* the kinds of entries considered
    SlotsOf,        \* section -> the metrics it may have
    MetricFields,   \* fields of a metric, among them "dataSource" and "sla"
    Needed,         \* those the schema requires: query, unit, direction
    Values,         \* what a field may hold
    Null,           \* a metric that isn't configured, or is disabled
    Blank,          \* an empty form field
    NoTemplate,     \* there is no template
    Entries,        \* the entries at the start
    Templates,      \* the templates at the start
    MaxSaves        \* bound on the forms submitted

VARIABLES
    kind,       \* of the entry, for good
    entry,      \* the saved entry of the flow
    template,   \* the saved template, which an inline entry doesn't refer to
    form,       \* the form the user submits
    answer,     \* how the last one was answered
    saves       \* number of forms submitted

vars == <<kind, entry, template, form, answer, saves>>

-----------------------------------------------------------------------------
(* Objects                                                                   *)

Nowhere == [x \in {} |-> Null]
Without(f, D) == [x \in DOMAIN f \ D |-> f[x]]
Only(f, D) == [x \in DOMAIN f \cap D |-> f[x]]
\* {...f, ...g}
Spread(f, g) == [x \in DOMAIN f \cup DOMAIN g |-> IF x \in DOMAIN g THEN g[x] ELSE f[x]]
With(f, x, v) == [y \in DOMAIN f \cup {x} |-> IF y = x THEN v ELSE f[y]]
Part(f, x) == IF x \in DOMAIN f THEN f[x] ELSE Nowhere

Pods == {"readyReplicas", "desiredReplicas"}
NodeKinds == {"eks-service", "external"}
EdgeKinds == {"http-json", "http-xml", "tcp-db", "amqp", "kafka", "grpc"}
Sections(k) ==
    CASE k = "amqp"  -> {"publish", "queue", "consumer"}
      [] k = "kafka" -> {"publish", "topicMetrics", "consumer"}
      [] OTHER       -> {"metrics"}
MainSection(k) == IF k \in {"amqp", "kafka"} THEN "publish" ELSE "metrics"

-----------------------------------------------------------------------------
(* The schemas: additionalProperties is false throughout                     *)

RefSchema(k) ==
    {"label", "dataSource", "customMetrics"} \cup
    IF k \in NodeKinds THEN {"usedDeployment"} ELSE {"sequenceOrder"} \cup
        CASE k = "http-json" -> {"method", "endpointPath", "endpointPaths"}
          [] k = "http-xml"  -> {"method", "endpointPath", "soapAction"}
          [] k = "amqp"      -> {"routingKeyFilter"}
          [] k = "kafka"     -> {"consumerGroup"}
          [] OTHER           -> {}

\* body: the fields that say what the thing is; detail: those that may be left out.
\* A filter of an AMQP section is part of that section.
BodySchema(k) ==
    CASE k \in NodeKinds -> {"label", "dataSource", "body"}
      [] k \in {"amqp", "kafka", "grpc"} -> {"dataSource", "body"}
      [] OTHER -> {"dataSource"}
DefSchema(k) ==
    BodySchema(k) \cup {"customMetrics"} \cup
    CASE k \in NodeKinds \cup {"tcp-db"} -> {"detail"}
      [] k = "amqp"  -> {"publishFilter", "consumerFilter", "detail"}
      [] k = "kafka" -> {"consumerGroup"}
      [] OTHER -> {}

MetricsOK(k, m) ==
    /\ DOMAIN m \subseteq Sections(k)
    /\ \A s \in DOMAIN m :
          /\ DOMAIN m[s] \subseteq SlotsOf[s]
          /\ \A x \in DOMAIN m[s] : m[s][x] # Null => Needed \subseteq DOMAIN m[s][x]
RefOK(k, r) == DOMAIN r.fields \subseteq RefSchema(k) /\ MetricsOK(k, r.metrics)
DefOK(k, d) ==
    /\ BodySchema(k) \subseteq DOMAIN d.fields
    /\ DOMAIN d.fields \subseteq DefSchema(k)
    /\ MetricsOK(k, d.metrics)
    /\ MainSection(k) \in DOMAIN d.metrics
    /\ "consumerFilter" \in DOMAIN d.fields => "consumer" \in DOMAIN d.metrics
EntryOK(k, e) == IF e.inline THEN DefOK(k, e) ELSE RefOK(k, e)

\* A configured metric.  Forms leave fields blank, or fill in a unit and a direction.
Contents == Values \cup {Blank, "default"}
MetricObjects == UNION {[F -> Contents] : F \in SUBSET MetricFields}

\* A list of custom metrics in a reference replaces the template's.
CustomsOf(d) == IF "customMetrics" \in DOMAIN d.fields THEN d.fields["customMetrics"] ELSE {}

\* Custom metrics have keys of their own.
WellFormed(d) ==
    /\ \A s \in DOMAIN d.metrics : \A x \in DOMAIN d.metrics[s] :
          d.metrics[s][x] \in MetricObjects \cup {Null}
    /\ \A c \in CustomsOf(d) : c \notin SlotsOf["metrics"]

ASSUME EntryAssumption ==
    /\ Kinds \subseteq NodeKinds \cup EdgeKinds
    /\ {"query", "dataSource", "sla"} \subseteq MetricFields
    /\ "query" \in Needed /\ Needed \subseteq MetricFields \ {"dataSource", "sla"}
    /\ Pods \subseteq SlotsOf["metrics"]
    /\ \A m \in MetricObjects : m # Null
    /\ \A d \in Entries \cup Templates : WellFormed(d)

-----------------------------------------------------------------------------
(* topologyResolver                                                          *)

\* Metric by metric and field by field, over the metrics the template has.
MergeReplacing(t, over) ==
    [x \in {y \in DOMAIN t : y \in DOMAIN over => over[y] # Null} |->
        IF x \in DOMAIN over THEN over[x] ELSE t[x]]
MergeMetrics(t, over) ==
    [x \in {y \in DOMAIN t : y \in DOMAIN over => over[y] # Null} |->
        IF x \notin DOMAIN over THEN t[x]
        ELSE IF t[x] = Null THEN over[x] ELSE Spread(t[x], over[x])]

\* Fields that an edge has from its reference alone, and those it may have from either.
RefOnly(k) ==
    CASE k = "http-json" -> {"method", "endpointPath", "sequenceOrder"}
      [] k = "http-xml"  -> {"method", "endpointPath", "soapAction", "sequenceOrder"}
      [] k \in NodeKinds -> {}
      [] OTHER           -> {"sequenceOrder"}
Overridable(k) ==
    {"dataSource", "customMetrics"} \cup
    CASE k = "eks-service" -> {"label", "usedDeployment"}
      [] k = "external"    -> {"label"}
      [] k = "http-json"   -> {"endpointPaths"}
      [] k = "kafka"       -> {"consumerGroup"}
      [] OTHER             -> {}

\* The routing key of a reference is the filter of the publish section, and of the
\* consumer section if there is one.
Filters(t, r) ==
    IF "routingKeyFilter" \notin DOMAIN r.fields THEN Nowhere
    ELSE [f \in {"publishFilter"} \cup
                IF "consumer" \in DOMAIN t.metrics THEN {"consumerFilter"} ELSE {}
            |-> r.fields["routingKeyFilter"]]

ResolveRef(k, t, r) ==
    [fields  |-> Spread(Spread(t.fields, Only(r.fields, RefOnly(k) \cup Overridable(k))),
                        Filters(t, r)),
     metrics |-> [s \in DOMAIN t.metrics |-> MergeMetrics(t.metrics[s], Part(r.metrics, s))]]
\* An inline edge has none of the fields of a reference.
ResolveInline(k, e) == [fields |-> Without(e.fields, RefOnly(k)), metrics |-> e.metrics]
Resolve(k, t, e) == IF e.inline THEN ResolveInline(k, e) ELSE ResolveRef(k, t, e)

\* A metric as the cards show it.
MetricAt(d, s, x) == IF x \in DOMAIN Part(d.metrics, s) THEN d.metrics[s][x] ELSE Null
SourceOf(d, m) == IF "dataSource" \in DOMAIN m THEN m["dataSource"] ELSE d.fields["dataSource"]

-----------------------------------------------------------------------------
(* computeLayeredMetrics: the rows of the metric forms                       *)

Effective(own, over) ==
    IF over = Null THEN Null ELSE IF own = Null THEN over ELSE Spread(own, over)
Rows(t, e) ==
    LET over(s) == IF e.inline THEN Nowhere ELSE Part(e.metrics, s)
        Row(s, x) ==
            [section |-> s, key |-> x, overridden |-> x \in DOMAIN over(s),
             effective |-> IF x \in DOMAIN over(s) THEN Effective(t.metrics[s][x], over(s)[x])
                           ELSE t.metrics[s][x]]
    IN UNION {{Row(s, x) : x \in DOMAIN t.metrics[s]} : s \in DOMAIN t.metrics}

CustomRows(t, e) ==
    {[section |-> "metrics", key |-> c,
      overridden |-> ~e.inline /\ c \in CustomsOf(e)] : c \in CustomsOf(t) \cup CustomsOf(e)}

\* The entry before it is added.
NoEntry == [inline |-> TRUE, fields |-> Nowhere, metrics |-> Nowhere]
\* { nodeId } or { edgeId, kind }
BareReference == [inline |-> FALSE, fields |-> Nowhere, metrics |-> Nowhere]

\* An inline entry plays the role of its template.
Base == IF entry.inline THEN entry ELSE template
Shown == Resolve(kind, template, entry)

-----------------------------------------------------------------------------
(* flowOverridePatch and draftToPartialMetric                                *)

\* What is stored of the fields that are toggled on: not a data source that is the
\* entity's own, nor thresholds that are left blank.
Stored(draft) ==
    Only(draft, {f \in DOMAIN draft : /\ f = "dataSource" => draft[f] # Shown.fields["dataSource"]
                                     /\ draft[f] # Blank})

\* Nothing toggled on: the metric is removed; and a section that has no metrics left.
PatchOnTop(m, s, x, draft) ==
    LET old == Part(m, s)
        own == IF MetricAt([metrics |-> m], s, x) = Null THEN Nowhere ELSE old[x]
        new == IF DOMAIN draft = {} THEN Without(old, {x}) ELSE With(old, x, Spread(own, Stored(draft)))
    IN IF DOMAIN new = {} THEN Without(m, {s}) ELSE With(m, s, new)
PatchMetrics(m, s, x, draft) ==
    LET old == Part(m, s)
        new == IF DOMAIN draft = {} THEN Without(old, {x}) ELSE With(old, x, Stored(draft))
    IN IF DOMAIN new = {} THEN Without(m, {s}) ELSE With(m, s, new)

-----------------------------------------------------------------------------
(* The properties form                                                       *)

FormFields(k) ==
    {"label", "dataSource"} \cup
    CASE k = "eks-service" -> {"body", "detail", "usedDeployment"}
      [] k = "external"    -> {"body", "detail"}
      [] k = "http-json"   -> {"method", "endpointPath", "endpointPaths"}
      [] k = "http-xml"    -> {"method", "endpointPath", "endpointPaths", "soapAction"}
      [] k = "tcp-db"      -> {"detail"}
      [] k = "amqp"        -> {"body", "routingKeyFilter"}
      [] k = "kafka"       -> {"body", "consumerGroup"}
      [] k = "grpc"        -> {"body"}
\* Of those, the ones the form saves in the reference.  The others go to the template.
OnTheRefBut(k) ==
    {"label", "dataSource"} \cup
    CASE k \in NodeKinds  -> {"usedDeployment"}
      [] k = "http-json"  -> {"method", "endpointPath", "endpointPaths"}
      [] k = "http-xml"   -> {"method", "endpointPath", "soapAction"}
      [] OTHER            -> {}
OnTheRef(k) ==
    {"label", "dataSource"} \cup
    CASE k \in NodeKinds  -> {"usedDeployment"}
      [] k = "http-json"  -> {"method", "endpointPath", "endpointPaths"}
      [] k = "http-xml"   -> {"method", "endpointPath", "soapAction"}
      [] k = "amqp"       -> {"routingKeyFilter"}
      [] k = "kafka"      -> {"consumerGroup"}
      [] OTHER            -> {}

\* What the form shows when it opens.
Loaded(k, t, e) ==
    [f \in FormFields(k) |->
        IF f \in DOMAIN e.fields /\ (e.inline \/ f \in OnTheRef(k)) THEN e.fields[f]
        ELSE IF ~e.inline /\ f \in DOMAIN t.fields THEN t.fields[f] ELSE Blank]

\* A field that is left blank isn't part of the patch.
PatchOf(draft) == Only(draft, {f \in DOMAIN draft : draft[f] # Blank})

-----------------------------------------------------------------------------
Idle == [op |-> "none"]

Init ==
    /\ kind \in Kinds
    /\ entry \in {e \in Entries : EntryOK(kind, e)} \cup {NoEntry}
    /\ template \in {t \in Templates : DefOK(kind, t)} \cup {NoTemplate}
    /\ entry # NoEntry => (entry.inline <=> template = NoTemplate)
    /\ form = Idle
    /\ answer = "none"
    /\ saves = 0

Submit(f) ==
    /\ form = Idle /\ saves < MaxSaves
    /\ form' = f
    /\ answer' = "none"
    /\ UNCHANGED <<kind, entry, template, saves>>
Fill(f) == entry # NoEntry /\ Submit(f)

\* What the user may make of a row: fields toggled on, and filled in.
MetricForms(row) ==
    {[op |-> "metric", section |-> row.section, key |-> row.key, draft |-> draft] :
        draft \in UNION {[on -> Values] \cup {[f \in on |-> IF f = "sla" THEN Blank ELSE v] : v \in Values}
                            : on \in SUBSET MetricFields}}
AllRows == Rows(Base, entry) \cup CustomRows(Base, entry)

\* "Override", "Edit", "Set" and "x" of a row
FillMetric == \E row \in AllRows : \E f \in MetricForms(row) : Fill(f)
\* The override panel of a metric's chart
FillOverride == ~entry.inline /\ \E row \in AllRows : \E f \in MetricForms(row) : Fill(f)

FillOrder ==
    /\ kind \notin NodeKinds
    /\ \E v \in Values \cup {Blank} : Fill([op |-> "order", draft |-> v])

\* One field is changed, and the label, which the form of an edge doesn't know.
FillProperties ==
    LET old == Loaded(kind, template, entry) IN
    \E f \in FormFields(kind), v \in Values \cup {Blank}, label \in Values \cup {old["label"]} :
        LET draft == With(With(old, f, v), "label", label) IN
        /\ \A r \in {"label", "dataSource", "body"} \cap DOMAIN draft : draft[r] # Blank
        /\ Fill([op |-> "properties", draft |-> draft])

\* What a chart shows of a metric: its query as it is written, and its data source.  That of a
\* metric that isn't configured is blank, or for some metrics of an edge that of the edge.
QueryAt(d, s, x) ==
    LET m == MetricAt(d, s, x) IN IF m = Null THEN Blank ELSE m["query"]
SourcesAt(s, x) ==
    LET m == MetricAt(Shown, s, x) IN
    IF m # Null THEN {SourceOf(Shown, m)}
    ELSE {Blank} \cup IF kind \in NodeKinds \cup {"amqp", "kafka"} THEN {} ELSE {Shown.fields["dataSource"]}

\* The pods chart: two queries with one data source, that of the first which is configured.
\* Saving sends the queries that were edited; both, if the data source was changed.
PodsSources ==
    SourcesAt("metrics", IF MetricAt(Shown, "metrics", "readyReplicas") # Null
                         THEN "readyReplicas" ELSE "desiredReplicas")
SentPods(draft, source) ==
    {x \in Pods : draft[x] # QueryAt(Shown, "metrics", x) \/ source \notin PodsSources}
FillPods ==
    /\ kind = "eks-service"
    /\ \E draft \in [Pods -> Contents], source \in Contents :
          /\ \A x \in Pods : draft[x] \in Values \cup {Blank, QueryAt(Shown, "metrics", x)}
          /\ source \in Values \cup PodsSources
          /\ SentPods(draft, source) # {}
          /\ Fill([op |-> "queries", section |-> "metrics", source |-> source,
                   draft |-> Only(draft, SentPods(draft, source))])

\* The chart of a metric without a row, also of a section that the template doesn't have.
\* Those of a reference's custom metrics have rows.
FillQuery ==
    /\ entry # NoEntry
    /\ \E s \in Sections(kind), q \in Values \cup {Blank}, source \in Contents :
           \E x \in SlotsOf[s] :
               /\ entry.inline \/ x \notin DOMAIN Part(Base.metrics, s)
               /\ \E original \in SourcesAt(s, x) :
                     /\ source \in Values \cup {original}
                     /\ q # QueryAt(Shown, s, x) \/ source # original
               /\ Fill([op |-> "queries", section |-> s, source |-> source, draft |-> [y \in {x} |-> q]])

FillDelete == template # NoTemplate /\ Submit([op |-> "delete"])

-----------------------------------------------------------------------------
(* The add dialogs and the detail form of the templates manager              *)

Unset(k) == [s \in {MainSection(k)} |-> [x \in SlotsOf[s] |-> Null]]

\* A connection to a database can't be drawn: the dialog of edges doesn't offer the kind.
Addable == kind # "tcp-db" /\ entry = NoEntry
MayBeBlank(k) == CASE k \in NodeKinds -> {"detail"} [] k = "kafka" -> {"consumerGroup"} [] OTHER -> {}

\* "Use existing template"
FillReference == Addable /\ template # NoTemplate /\ Submit([op |-> "reference"])
\* "Create new", as a template (of which the flow gets a reference) or inline.
FillCreate ==
    /\ Addable
    /\ \E blank \in SUBSET MayBeBlank(kind), asTemplate \in BOOLEAN :
       \E fields \in [BodySchema(kind) \cup (MayBeBlank(kind) \ blank) -> Values] :
          Submit([op |-> "create", asTemplate |-> asTemplate,
                  made |-> [fields |-> fields, metrics |-> Unset(kind)]])

TemplateFields(k) ==
    CASE k \in NodeKinds -> FormFields(k)
      [] k = "amqp"      -> {"dataSource", "body", "detail"}
      [] OTHER           -> FormFields(k) \ {"label"}
\* An empty text or list stays in the document; what else is blank isn't part of it.
StaysEmpty(k) == BodySchema(k) \cup {"endpointPaths"}
Scaffold(k, v) ==
    [fields  |-> [f \in BodySchema(k) \cup IF k \in {"http-json", "http-xml"} THEN {"endpointPaths"} ELSE {}
                    |-> IF f \in {"label", "dataSource"} THEN v ELSE Blank],
     metrics |-> Unset(k)]
WithField(k, t, f, v) ==
    [fields  |-> IF v = Blank /\ f \notin StaysEmpty(k) THEN Without(t.fields, {f})
                 ELSE With(t.fields, f, v),
     metrics |-> t.metrics]
\* updateMetricField.  Thresholds come in two fields, each of which is dropped as long as the
\* other one is blank: a metric that has none can't be given any.
Touched(m) == IF m = Null THEN [f \in Needed |-> IF f = "query" THEN Blank ELSE "default"] ELSE m
Edited(m, f, v) ==
    LET own == Touched(m) IN
    IF (v = Blank /\ f \notin Needed) \/ (f = "sla" /\ f \notin DOMAIN own) THEN Without(own, {f})
    ELSE With(own, f, v)
WithMetric(t, s, x, m) ==
    [fields |-> t.fields, metrics |-> With(t.metrics, s, With(Part(t.metrics, s), x, m))]
WithMetricField(t, s, x, f, v) == WithMetric(t, s, x, Edited(t.metrics[s][x], f, v))
WithoutMetric(t, s, x) == WithMetric(t, s, x, Null)

\* One change: to a field, to a field of a metric that is listed, or a metric is cleared.
Changes(t) ==
    LET slots == UNION {{<<s, x>> : x \in DOMAIN t.metrics[s]} : s \in DOMAIN t.metrics} IN
    {WithField(kind, t, f, v) : f \in TemplateFields(kind), v \in Values \cup {Blank}}
      \cup {WithMetricField(t, p[1], p[2], f, v) :
               p \in slots, f \in MetricFields, v \in Values \cup {Blank}}
      \cup {WithoutMetric(t, p[1], p[2]) : p \in slots}

\* A new template, or the one there is, with one change.
FillTemplate ==
    \E old \in IF template # NoTemplate THEN {template}
               ELSE {Scaffold(kind, v) : v \in IF entry = NoEntry THEN Values ELSE {}} :
        \E draft \in Changes(old) :
           /\ \A f \in {"label", "dataSource"} \cap DOMAIN draft.fields : draft.fields[f] # Blank
           /\ Submit([op |-> "template", draft |-> draft])

-----------------------------------------------------------------------------
Answer(a, e, t) ==
    /\ entry' = e /\ template' = t /\ answer' = a
    /\ form' = Idle /\ saves' = saves + 1
    /\ UNCHANGED kind

\* A flow with this entry is PUT; the backend validates it.
PutEntry(e) ==
    IF EntryOK(kind, e) THEN Answer("accepted", e, template) ELSE Answer("refused", entry, template)

\* handleSaveFlowOverride
SaveMetric ==
    /\ form.op = "metric"
    /\ PutEntry([inline |-> entry.inline, fields |-> entry.fields,
                 metrics |-> PatchMetrics(entry.metrics, form.section, form.key, form.draft)])

WithFields(e, fields) == [inline |-> e.inline, fields |-> fields, metrics |-> e.metrics]

\* handleSaveEdgeSequenceOrder
SaveOrder ==
    /\ form.op = "order"
    /\ PutEntry(WithFields(entry,
           IF form.draft = Blank THEN Without(entry.fields, {"sequenceOrder"})
           ELSE With(entry.fields, "sequenceOrder", form.draft)))

\* handleSaveEntityProperties: the flow first, then the template with the rest, if any.
SaveProperties ==
    LET patch == PatchOf(form.draft)
        onRef == IF entry.inline THEN patch ELSE Only(patch, OnTheRef(kind))
        rest  == IF entry.inline THEN Nowhere ELSE Without(patch, OnTheRef(kind))
        e == WithFields(entry, Spread(entry.fields, onRef))
    IN
    /\ form.op = "properties"
    /\ \/ /\ DOMAIN rest = {}
          /\ PutEntry(e)
       \/ /\ DOMAIN rest # {}
          /\ LET t == [fields |-> Spread(template.fields, rest), metrics |-> template.metrics] IN
             IF ~EntryOK(kind, e) THEN Answer("refused", entry, template)
             ELSE IF DefOK(kind, t) THEN Answer("accepted", e, t)
             ELSE Answer("half", e, template)

\* applyMetricQueryToTemplate: the data source is compared with the template's, and a section
\* that the template doesn't have is made, but for that of a consumer.
RequeriedAlone(t, s, x, q, source) ==
    [fields |-> t.fields, metrics |-> With(t.metrics, s, [y \in {x} |-> [f \in Needed |-> q]])]
Requeried(t, s, x, q, source) ==
    LET old == IF MetricAt(t, s, x) = Null THEN [f \in Needed |-> "default"]
               ELSE Without(t.metrics[s][x], {"dataSource"})
        own == IF source = t.fields["dataSource"] THEN Nowhere ELSE [f \in {"dataSource"} |-> source]
    IN IF s = "consumer" /\ s \notin DOMAIN t.metrics THEN t
       ELSE WithMetric(t, s, x, Spread(With(old, "query", q), own))

\* handleSaveMetricQuery, once per query that is sent: each call PUTs the template as loaded,
\* with its own query.  They are sent at the same time, and the last one stays.
\* Of an inline entry there is no template: the call does nothing.
SaveQueries ==
    /\ form.op = "queries"
    /\ IF entry.inline THEN Answer("accepted", entry, template)
       ELSE \E x \in DOMAIN form.draft :
              Answer("accepted", entry,
                     Requeried(template, form.section, x, form.draft[x], form.source))

\* inlineTemplateRefsInRawFlow and the deletion: a copy of what the entry resolves to.
\* If the backend refuses the flow, nothing is deleted.  With no reference to it the template
\* is deleted alone.
InlinedBare(k, t, e) == [inline |-> TRUE, fields |-> t.fields, metrics |-> t.metrics]
Inlined(k, t, e) ==
    [inline |-> TRUE, fields |-> ResolveRef(k, t, e).fields, metrics |-> ResolveRef(k, t, e).metrics]
DeleteTemplate ==
    LET e == Inlined(kind, template, entry) IN
    /\ form.op = "delete"
    /\ IF entry.inline THEN Answer("accepted", entry, NoTemplate)
       ELSE IF EntryOK(kind, e) THEN Answer("accepted", e, NoTemplate)
       ELSE Answer("refused", entry, template)

\* handleSelectTemplate and handleSelectEdgeTemplate
AddReference == form.op = "reference" /\ PutEntry(BareReference)

PutTemplate(t, e) ==
    IF DefOK(kind, t) THEN Answer("accepted", e, t) ELSE Answer("refused", entry, template)

\* handleCreateNode and handleCreateEdge: the template first, then the flow.  A template that
\* already has the id is replaced.
CreateInline(made) == PutEntry([inline |-> TRUE, fields |-> made.fields, metrics |-> made.metrics])
Create ==
    /\ form.op = "create"
    /\ IF form.asTemplate THEN PutTemplate(form.made, BareReference) ELSE CreateInline(form.made)

\* handleSave of the templates manager
SaveTemplate == form.op = "template" /\ PutTemplate(form.draft, entry)

Next ==
    \/ FillMetric \/ FillOverride \/ FillOrder \/ FillProperties \/ FillPods \/ FillQuery \/ FillDelete
    \/ FillReference \/ FillCreate \/ FillTemplate
    \/ SaveMetric \/ SaveOrder \/ SaveProperties \/ SaveQueries \/ DeleteTemplate
    \/ AddReference \/ Create \/ SaveTemplate

Spec == Init /\ [][Next]_vars

-----------------------------------------------------------------------------
(* Properties                                                                *)

\* The metric forms show what the cards do: the value a row of computeLayeredMetrics
\* arrives at is the one topologyResolver does, for a reference and an inline entry.
RowsAgree ==
    \A row \in Rows(Base, entry) : row.effective = MetricAt(Shown, row.section, row.key)

\* What the user sees of a field of a metric, with the data source it is queried from.
Seen(d, m, f) ==
    IF f = "dataSource" THEN SourceOf(d, m)
    ELSE IF f \in DOMAIN m THEN m[f] ELSE Blank

\* A metric override that was accepted shows what was entered in the fields that were
\* toggled on, and in the others what the template says; except that the data source of
\* the entity and blank thresholds don't show over others of the template.  An override
\* that was taken back shows what the template says.  All other metrics and all
\* properties stay as they were.
OverrideShown ==
    [][form.op = "metric" /\ answer' = "accepted" /\ form.section \in DOMAIN SlotsOf
         /\ form.key \in SlotsOf[form.section] =>
        LET s == form.section
            x == form.key
            now == MetricAt(Shown', s, x)
            base == IF entry.inline THEN Null ELSE MetricAt(template, s, x)
            inBase(f) == base # Null /\ f \in DOMAIN base
            from(f) == IF inBase(f) THEN Seen(Shown', base, f) ELSE Seen(Shown', Nowhere, f)
        IN /\ Shown'.fields = Shown.fields
           /\ \A row \in Rows(Base, entry) :
                 <<row.section, row.key>> # <<s, x>> =>
                     MetricAt(Shown', row.section, row.key) = row.effective
           /\ IF DOMAIN form.draft = {} THEN now = base
              ELSE \A f \in MetricFields :
                     Seen(Shown', now, f) =
                        IF f \notin DOMAIN form.draft THEN from(f)
                        ELSE IF f \in DOMAIN Stored(form.draft) THEN form.draft[f]
                        ELSE from(f)]_vars

\* Properties that were accepted are shown as entered, on the cards and when the form is
\* opened again, unless they were left blank; and no metric of the entry changes, but for
\* the data source they are queried from.
PropertiesShown ==
    [][form.op = "properties" /\ answer' = "accepted" =>
        /\ Shown'.metrics = Shown.metrics
        /\ \A f \in DOMAIN PatchOf(form.draft) :
              /\ Loaded(kind, template', entry')[f] = form.draft[f]
              /\ f \in DOMAIN Shown'.fields => Shown'.fields[f] = form.draft[f]]_vars

\* What the forms make of an entry fits the schemas, which are files of their own.  The backend
\* takes whatever the add dialogs make; a metric override of which all that a metric needs is
\* toggled on, and one that is taken back; the sequence number and the properties of a
\* reference, but for endpoint paths of an HTTP XML edge; a deletion of a template whose reference
\* has nothing of its own; and a template from the manager without the HTTP fields and the
\* active deployment.  Nothing is said of the other forms, partial overrides among them.
FormsAreTaken ==
    [][ LET complete == form.key \in SlotsOf[form.section] /\ Needed \subseteq DOMAIN Stored(form.draft)
            takenBack == ~entry.inline /\ DOMAIN form.draft = {}
            xmlPaths == kind = "http-xml" /\ form.draft["endpointPaths"] # Blank
            ownFields == DOMAIN entry.fields \cap (RefOnly(kind) \cup OnTheRef(kind))
            managers == {"endpointPaths", "usedDeployment"} \cup RefOnly(kind)
        IN (\/ form.op \in {"reference", "create"}
            \/ form.op = "metric" /\ (complete \/ takenBack)
            \/ form.op = "order" /\ ~entry.inline
            \/ form.op = "properties" /\ ~entry.inline /\ ~xmlPaths
            \/ form.op = "delete" /\ (entry.inline \/ ownFields = {})
            \/ form.op = "template" /\ DOMAIN form.draft.fields \cap managers = {})
           => answer' = "accepted"]_vars

\* README.md:156, "override individual metric fields without replacing the entire metric
\* definition": an override of some fields of a metric that the template defines is not refused.
PartialOverridesAreSaved ==
    [][form.op = "metric" /\ ~entry.inline /\ MetricAt(template, form.section, form.key) # Null
         /\ DOMAIN Stored(form.draft) # {} => answer' # "refused"]_vars

\* A template that could be deleted left nothing behind that shows otherwise: every
\* metric, its source and every property the reference overrode is in the copy.
InliningKeeps ==
    [][form.op = "delete" /\ answer' = "accepted" =>
        /\ Shown'.fields = Shown.fields
        /\ \A row \in Rows(Base, entry) :
              MetricAt(Shown', row.section, row.key) = row.effective]_vars

\* A query of a reference that a chart sends is shown with the data source that was picked,
\* unless the flow overrides the metric, or its data source while the template's was picked, or
\* the template has no such consumer.  Of two that are sent at once, each is shown as it was sent
\* or as it was before; QueriesAreSaved is about the one that is lost.  No other metric changes.
QueryShown ==
    [][form.op = "queries" =>
        \A s \in Sections(kind) : \A x \in SlotsOf[s] :
            LET sent == s = form.section /\ x \in DOMAIN form.draft
                overridden == x \in DOMAIN Part(entry.metrics, s)
                ownSource == "dataSource" \in DOMAIN entry.fields
                                /\ form.source = template.fields["dataSource"]
                kept == MetricAt(Shown', s, x) = MetricAt(Shown, s, x)
                shown == /\ MetricAt(Shown', s, x) # Null
                         /\ QueryAt(Shown', s, x) = form.draft[x]
                         /\ ownSource \/ SourceOf(Shown', MetricAt(Shown', s, x)) = form.source
            IN /\ sent \/ kept
               /\ sent /\ ~entry.inline /\ s \in DOMAIN template'.metrics /\ ~overridden =>
                     shown \/ (kept /\ DOMAIN form.draft # {x})]_vars

\* An entry that an add dialog made shows what was entered, and has its metrics as rows that
\* can be filled in, whether it was made inline or as a template.
CreatedIsShown ==
    [][form.op = "create" /\ answer' = "accepted" =>
        /\ Shown'.fields = form.made.fields
        /\ \A x \in SlotsOf[MainSection(kind)] :
              [section |-> MainSection(kind), key |-> x, overridden |-> FALSE, effective |-> Null]
                  \in Rows(Base', entry')]_vars

\* A template that was saved in the manager shows in the flow in all that the flow's reference
\* doesn't override.
TemplateShown ==
    [][form.op = "template" /\ answer' = "accepted" /\ ~entry.inline =>
        /\ \A f \in DOMAIN form.draft.fields :
              \/ f \in DOMAIN entry.fields \cup DOMAIN Filters(form.draft, entry)
              \/ Shown'.fields[f] = form.draft.fields[f]
        /\ \A s \in DOMAIN form.draft.metrics : \A x \in DOMAIN form.draft.metrics[s] :
              \/ x \in DOMAIN Part(entry.metrics, s)
              \/ MetricAt(Shown', s, x) = form.draft.metrics[s][x]]_vars

\* What a form sent and the backend accepted, of a new entry, a metric, the properties, a query
\* or the template, is what the cards and the forms show from then on; nothing else of the
\* entry changes.
AcceptedIsShown ==
    OverrideShown /\ PropertiesShown /\ QueryShown /\ CreatedIsShown /\ TemplateShown

\* handleSaveMetricQuery: "Save an edited metric query to the node or edge template".
QueriesAreSaved ==
    [][form.op = "queries" =>
        \A x \in DOMAIN form.draft : QueryAt(Base', form.section, x) = form.draft[x]]_vars
=============================================================================
