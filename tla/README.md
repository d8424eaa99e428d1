# Topology dashboard: TLA+ models, checks and proofs

The repository is a Grafana app plugin: a Go backend (`src/pkg/plugin`) that keeps service
topologies and queries Prometheus, and a React front end (`src/src`) that draws the topologies,
polls their metrics and lets people edit them. This directory holds its models. Paths below are
relative to the repository.

## 1. The system

### Parts, state, operations

| Part | Code | State | Operations |
|---|---|---|---|
| Topology store | `pkg/plugin/topology_store.go` | maps of flows, node and edge templates; datasources; SLA defaults; one RWMutex | Put/Delete/Get/List per resource, `GetBundle`, `Snapshot`, hydration from the settings |
| HTTP handlers | `topology_handler.go`, `import_handler.go` | none of their own | list, get, create, put, delete; ZIP import in three phases |
| Persistence | `persist.go` | Grafana's plugin settings (`jsonData`), external | after each mutating answer: Snapshot, GET settings, merge, POST |
| Permission | `auth.go`, `permissions.ts` | `editAllowList` in the settings | `canEdit`, `requireEdit` |
| App lifecycle | `app.go` | one `App` per SDK instance | `NewApp` (hydrates), `Dispose`, `CheckHealth` |
| Metrics handler | `metrics_handler.go`, `prometheus.go` | `promSem` (15 slots), `baselineFlight` | batch of instant queries, week-ago batch |
| Baseline cache | `cache.go` | at most 500 entries, 5 minutes each | `Get`, `Set` |
| Range handler, charts | `range_handler.go`, `prometheus.go`, `MetricChartModal.tsx`, `PodsChartModal.tsx`, `TimeRangePicker.tsx` | `rangeSem` (4 slots); the open chart, its range and data; the picked range in localStorage | open, pick, refetch, cancel; validate the window, run the queries, respond |
| Metric polling | `useGrafanaMetrics.ts` | graph, loading, error; refs for effect number, in-flight flag, baselines | effects on a new definition, interval, tab visibility |
| Bundle hook, page editing | `useTopologyData.ts`, `TopologyPage.tsx` | raw flows and templates, resolved definition | load, reload, read-modify-write of a flow or template, layout save |
| Forms and templates | `AddNodeModal.tsx`, `AddEdgeModal.tsx`, `MetricEditModal.tsx`, `EntityPropertiesModal.tsx`, `TemplatesManagerModal.tsx`, `flowOverridePatch.ts`, `computeLayeredMetrics.ts`, `topologyResolver.ts`, `inlineTemplateRefs.ts`, `inlineAndDeleteTemplate.ts`, `templateDependencies.ts`, `pkg/plugin/schemas` | the draft of a form | resolve, override, edit, create, inline, delete |
| Canvas | `topologyPositionStore.ts`, `useTopologyFlow.ts`, `TopologyView.tsx`, `collapseDbConnections.ts` | positions of three origins, what is laid out, edit mode and view options | initialize, drag, save, collapse, sequence mode, prune |
| Cards | `queryVisitor.ts`, `assembleTopologyGraph.ts`, `nodeDisplayData.ts`, `edgeDisplayData.ts`, `TopologyNodeCard.tsx`, `TopologyEdgeCard.tsx`, `slaThresholds.ts`, `baselineComparison.ts`, `metricColor.ts`, `healthFromMetricRows.ts` | what is selected on a card, and a map of choices that outlives it | derive queries, assemble answers, pick a variant, colour |
| Config page | `AppConfig.tsx` | forms | save of the settings, editors of every resource, ZIP upload |

### How they interact

* The front end calls the backend over HTTP. Each request is a goroutine; nothing orders two of
  them. A mutating one writes the store of the `App` that serves it and then persists the whole
  store by two calls to Grafana's own HTTP API.
* The config page makes the same read-modify-write of the same settings from the browser. A stored
  change of the settings makes Grafana's SDK create a new `App` for later requests, while the old
  one finishes those it serves.
* All requests of all users share `promSem`, the baseline cache and the singleflight group. The
  leader of a flight runs the queries under its own request's context.
* In the browser, one JavaScript task is atomic and everything else interleaves: an `await` is
  where the world changes under a handler.

### What is hard, and the properties that make each part correct

* Persistence: overlapping read-modify-writes by two kinds of writers, failing calls, restarts. What
  is saved must be one served state; a lone writer must lose nothing; invalid input must leave no
  trace.
* Fetching: a shared pool, a cache at capacity with expiry, cancelled leaders. No slot leaks, nothing
  partial is cached or answered, one fetch per key, everyone is answered.
* Polling: answers that come after a switch, polls that are skipped because of another topology's. The
  graph is always of the topology shown; polling never dies.
* Editing: documents computed from what a page loaded, saved one by one, then loaded again, all in any
  order. Waited-for edits are kept, the page ends up with what the backend holds, no flow refers to a
  missing template, and deleting a template changes nothing that is shown.
* Forms: what an entity comes to is computed by the resolver, again by the forms, and taken apart
  again by what they save, against schemas that allow fixed sets of fields. Forms and cards agree, and
  what was accepted is shown.
* Permission: two checks in two languages, one with a list loaded earlier. They agree.
* Canvas: three origins of positions with priorities, merged by one effect after every change. Cards
  stay where they are until they are dragged or something else is drawn, and a saved layout is restored.
* Charts: answers of ranges that are no longer picked, cancelled queries, few slots. A chart shows the
  range picked in it, and settles.
* Cards: four parts agree on queries by the names of keys only. A number is of what the card says it
  is, its chart asks for the same, and a red dot has a cause on the card.

The complete list of hazards, each with its line and properties, is in `PROJECT.json`.

## 2. Modules

| Module | Models | Role |
|---|---|---|
| `DurableStore` | what the backend promises of its data | abstract specification |
| `TopologyPersistence` | store, handlers, import, `persist.go`, `auth.go`, `NewApp`, config page save | component |
| `TopologyPersistence_proofs` | | theorems |
| `BaselineCache` | `cache.go` | component |
| `BaselineFetch` | `handleMetrics`, `executeQueries`, singleflight; extends `BaselineCache` | composition |
| `BaselineFetch_proofs` | | theorems, those of `BaselineCache` first |
| `MetricsPolling` | `useGrafanaMetrics.ts` | component |
| `MetricsPolling_proofs` | | theorems |
| `FlowEditing` | `useTopologyData.ts`, the handlers of `TopologyPage.tsx`, several tabs | component |
| `FlowEditing_proofs` | | theorems |
| `EditPermission` | `canEdit`, `canEditTopology`, the allow list, requests with what Grafana passes along | component |
| `TemplateDeletion` | `inlineAndDeleteTemplate.ts`, `templateDependencies.ts`, the manager's deletion against other edits in several tabs | component |
| `TemplateDeletion_proofs` | | theorems |
| `FlowEntry` | one node or edge and its template under every form: resolver, layered rows, override patches, schemas, add dialogs, templates manager | component |
| `FlowEntry_proofs` | | theorems |
| `RangeCharts` | chart modals, time range picker, `range_handler.go`, `executeRangeQueries` | component |
| `CanvasLayout` | the position store and the effect that feeds it, edit mode, collapse, sequence mode, layout save | component |
| `MetricCards` | visitor, assembler, rows of the cards, colours, selections, chart queries | component |
| `MetricCards_proofs` | | theorems |
| `PageView_proofs` | | theorems of `EditPermission`, `CanvasLayout` and `RangeCharts` |
| `MC*` | | instances for TLC; `MCPageView` runs `RangeCharts`, `CanvasLayout` and `EditPermission` from a common start |

Operators such as `NextFilesStrict` or `LeakedSlots` that stand just before the operator they
resemble are deliberate faults: replacing the operator by its faulty form makes a run fail
(`mutants` in `PROJECT.json`), which shows that the properties depend on it.

### TopologyPersistence

`settings` is what Grafana's database holds: `topologyData` and `config`, all other fields as one
value. `store[i]` is the store of the i-th `App`; `current` is the one that gets new requests. A
request goes through `pc`: `write` (its handler), `snapshot`, `get`, `post` (the steps of
`persistTopologyData`), `done`. A resource is a key of the store (a flow, a template, the
datasource list, the SLA defaults); its value is the request that wrote it, which is all the
properties need to tell writes apart.

| Action | Code |
|---|---|
| `Arrive` | `requireEdit`, `readBody`, schema validation: refused (not persisted), invalid (persisted all the same, `withPersist` runs after any answer) or accepted |
| `WriteFile` | one Put or Delete under the write lock; an import makes several, in the order of its sections |
| `TakeSnapshot`, `FetchSettings`, `PostSettings` | `persistTopologyData`; every step may fail, the POST before or after it was stored |
| `OpenSave`, `PostSave` | `onSubmitDs` of the config page |
| `NewApp` | a crash (requests die) or a new instance (requests of the old one go on) |

The ghosts `history`, `adminConfig`, `overlapped` and `failed` record what the properties compare
with; no guard reads them.

### BaselineCache, BaselineFetch

`entries` is a function on the keys held; `Fresh` are those `Get` finds. `SetEntry` is the whole of
`Set`: purge, eviction, store. A request of `BaselineFetch` runs its current batch, looks in the
cache, joins or leads a flight, looks again, fetches, stores, and returns to all members of the
flight. `task[r]` holds the goroutine of each query of its batch. A result "aborted" is nil in the
code; the model keeps it apart to state that a departed client never leaves partial results behind.
The singleflight library and time are external.

### MetricsPolling

A topology is a pair of the hook's definition and SLA defaults. One JavaScript task is one action:
`Show` (cleanup and the two effects on a change), `Requery` (the queries of the same definition are made anew,
as after a layout save: only the polling effect runs again), `Settle` (the call returns: `poll`'s tail,
`safePoll`'s finally, the effect's finally), `Fire` (the interval), `Hide`, `Reveal`. Answers are
represented by the topology they are of. When `Show` or `Requery` finds a poll in flight, the first poll of
the effect is skipped, and its promise resolves at once: loading ends and the interval starts.

### FlowEditing

`page[t]` is what tab `t` loaded, `saved` what the backend holds; a document's content is the set of
edits in it. All handlers of the page have one shape: compute every document from the page at the
click (`Begin`), save them in order, each after the answer to the one before (`StoreDoc`, `Answer`),
and reload. `Steps[e]` is that order: a node with its template is `<<template, flow>>`
(`handleCreateNode`), properties of an entity are `<<flow, template>>` (`handleSaveEntityProperties`),
most others `<<flow>>`. `Replaced` are the templates a handler makes from scratch, also over an
existing one of the same id. Saving a layout updates the tab's own copy (`Updated`) instead of
reloading. A save may fail before or after it was stored.

| Action | Code |
|---|---|
| `Begin` | a handler up to its first `await`; only while the page isn't loading (`TopologyPage.tsx:957`) |
| `StoreDoc` | the PUT or DELETE at the backend |
| `Answer` | the handler after an `await`: next document, or reload, or the layout's local update; or its `catch` |
| `ServeBundle` | `GetBundle` under the read lock |
| `Loaded`, `LoadFails` | the effect's continuation, `catch` and `finally` |

The backend's persistence is not repeated here: `saved` is its store. Edits of two tabs, and edits
begun before the answer of an earlier one, do overwrite each other in this code (there are no
versions); nothing in the repository promises otherwise, so `WaitedEditsAreKept` and `PageIsCurrent`
exclude them through the ghosts `overlapped` and `layoutOverlapped`, while `RefsResolve` and
`LoadsGoForward` hold with them.

### EditPermission

`editAllowList` is the list in the settings, `pageList[u]` the one the page of user `u` loaded.
`Offered` is `canEditTopology`, `CanEdit` the backend's check of the user and the settings that Grafana
passes along with a request.

| Action | Code |
|---|---|
| `SaveList` | the config page adds an e-mail (normalised) or removes one |
| `LoadPage` | `readPluginSettings`, or its `catch` |
| `Edit` | an edit that the page offers |
| `Call` | the same request without the page: by script, or by a user whom the page offers nothing |
| `Pass` | Grafana, external: it adds the user and the settings of that moment |
| `Handle` | `requireEdit` |

Roles don't change. What Grafana passes for somebody who isn't signed in isn't decided by this code: it
may be no user or one with the role of anonymous users, and the model has both.

### TemplateDeletion

One template, the flows that use it, and jobs of users: refer to it, create a node with it, create it,
edit it, delete it. A job computes its writes from the bundle its page loaded (`Plan`, a set of
writes with their places in the order) and makes them one by one; `Store`, `Refuse`, `Answer` and `Lose` are the ways a write may go. A flow's content is a reference
or the version whose copy it holds. A bundle with a dangling reference can't be resolved, and the page
keeps the last one (`Load`). Jobs begun on a page that lacks a change, or during another job, can leave a
dangling reference behind (there are no versions and the backend doesn't check references); the
properties exclude exactly those by the ghosts `behind` and `overlapped`.

### FlowEntry

`entry` is one node or edge of a flow, `template` the template it refers to; objects are functions on
the fields they have, so that an absent field, a null metric and a blank text stay apart. `ResolveRef`
and `ResolveInline` are `topologyResolver.ts`, `Rows` is `computeLayeredMetrics.ts`, `RefOK` and `DefOK`
are the JSON schemas by field and section. A form is filled (`Fill*`, with what it shows at that moment)
and then submitted:

| Action | Code |
|---|---|
| `FillMetric`, `FillOverride`, `SaveMetric` | `MetricEditModal.tsx`, the override panel of a chart, `draftToPartialMetric`, `flowOverridePatch.ts` |
| `FillOrder`, `SaveOrder` | sequence order of an edge |
| `FillProperties`, `SaveProperties` | `EntityPropertiesModal.tsx`, `entityPropertiesDraft.ts`; the flow is saved first, then the template |
| `FillPods`, `FillQuery`, `SaveQueries` | queries edited in the charts, one PUT of the template each; the pods chart sends those that were edited, and both if their data source was changed |
| `FillReference`, `FillCreate`, `AddReference`, `Create` | the add dialogs: an existing template, a new one with a reference, or an inline entry |
| `FillTemplate`, `SaveTemplate` | detail form of `TemplatesManagerModal.tsx`, new and existing templates |
| `FillDelete`, `DeleteTemplate` | inlining and deletion |

Left out are the charts of an inline entry's custom metrics, which save nothing, and
`handleSaveAllMetricQueries`, which nothing calls in edit mode.

### RangeCharts

A browser has at most one chart open; each run of its effect sends a request (`Fetch`). `req[<<b, n>>]`
goes from "sent" over "served", where each query is a goroutine that waits for a slot, to "answered".
`Aborted` is the check after the `await`; `Cancel` is Grafana's cancellation of requests with the same id.
A range is its kind and length; `LoadTimeRange`, `Step` and `ValidateRange` are computed in seconds as in
the code.

### CanvasLayout

`saved` are flows in the backend, `page` as loaded, `bundled` and `local` the layouts in the position
store, `canvas` what it laid out last. `Initialize` is the effect of `useTopologyFlow.ts` with the whole of
the store's `initialize`, and part of every action that changes what it depends on. A topology has a
service and a database of its own that can be collapsed into the service's card.

### MetricCards

`def` is the definition of an entity, `answers` the last poll by key. `VisitDefinitionQueries` is what
the visitor emits; `Value` and `Total` are the assembler's; `MetricRows` and `Variant` the card's;
`ResolveChartQueryKey` the chart's. Each is written from its own file, so that they can disagree. A query
is represented by its metric and the name it is restricted to, which decides whether two are the same.
The state changes by polls, reloads with another definition, remounts, selections and the colouring mode.
`Names` are deployments, paths and routing keys; `Polled(keys)` are the answers that a poll of these keys may
bring: any of them in the proofs, those of `MCMetricCards` in the run.

## 3. Runs

A run checks only what it is for; type invariants are theorems or parts of an inductive invariant
(section 5).

| Run | Shows | Bounds |
|---|---|---|
| `persistence` | `SavedWasServed`, `SerialEditsAreSaved`, `SerialEditsKeepConfig`, `RefusedWritesNothing`, `AnsweredImportsWereWhole`; every request ends; refinement of `DurableStore` | 2 requests, 1 config save, 3 resources in 2 sections, 1 restart; an editor whom the list admits or not |
| `mutations_are_saved` | counterexample: an older snapshot is posted last | 2 requests |
| `baseline_cache` | capacity, who is evicted | 4 keys, capacity 3, lifetime 2, 7 moments |
| `baseline_fetch` | completeness, one fetch per key, nobody fetches what is cached, only a cancelled leader costs the baseline, everyone is answered | 2 requests, 2 keys that share a query, 2 slots, 1 entry, 3 moments |
| `metrics_polling` | one poll, one interval, no stale graph, polling never dies, metrics are kept, what stays shown is polled again and again | 3 topologies, 5 switches |
| `flow_editing` | page is current, waited edits are kept, references resolve, loads go forward, loading ends | 2 tabs; a node with its template, a layout save, deletion of the flow |
| `template_deletion` | references resolve, and flows show the same, at every moment of a deletion | 2 tabs, 2 flows, 2 deletions, a reference, a node and a template under the same id |
| `flow_entry` | `RowsAgree`, `AcceptedIsShown`, `FormsAreTaken`, `InliningKeeps` | 8 kinds, 6 entries and 4 templates of each (bare, full, a metric disabled, not yet there), 2 submissions |
| `queries_are_saved` | counterexample: of two queries sent at once one is lost | the same |
| `partial_overrides_are_saved` | counterexample: an override of some fields of a metric is refused | the same |
| `page_view` | `ShownIsPicked`, `ChartsSettle`, `CanvasIsLocal`, `CardsStay`, `SavedIsRestored`, `OffersAreHonoured` | 1 browser, 2 charts, 3 ranges, 1 slot, 2 requests; 2 topologies, 2 places, 1 drag, 1 change of another user; an editor, an admin, an anonymous guest and a server admin, 3 spellings of e-mails, 2 changes of the list |
| `metric_cards` | `RowsAreMeasured`, `ChartAsksTheSame`, `DotHasItsCause` | every definition of 8 kinds over 2 names; answers all alike but one, or none (`MCPolled`) |

Why the bounds are enough to see the interesting cases: every violation the overlapping writers can
cause needs two writers of the settings, and a third adds nothing a second one cannot do to the
first; an import of two files in one section and one in another has every shape the writing loop
distinguishes; a cache of capacity n shows eviction with n+1 keys; five switches let a poll of a topology
answer after its topology was left, came back and was left again; two tabs are what it takes for a flow
to be saved from a page that is older than a template. In `flow_entry` a form is filled from what the one
before saved, so two submissions reach every "again": an override that is edited or taken back, a created
entry that is overridden, a copy that is edited. In `page_view` the second request of a chart is the one
that overtakes or cancels the first, which holds the only slot; the canvas takes one step of every sort
around one drag. The three parts share no state, and one of them is run at a time instead of interleaved.
Users are independent of each other in `EditPermission` but for the list, so one user edits per behaviour.
`metric_cards` has no bound on its steps: the state space is finite. Symmetry permutes interchangeable
keys and results of `baseline_cache` only. Deadlock checking is off where the bounded behaviours end.

`FormsAreTaken` says which forms the backend always takes: everything the add dialogs make, metric
overrides that have all a metric needs, and their removal, the order and the properties of a reference
(endpoint paths of an HTTP XML edge excepted), a deletion that has nothing of the reference's own to copy,
and what the templates manager makes without the HTTP fields and the active deployment. It promises
nothing of the others. Of those, partial overrides have a run of their own, which shows them refused
(section 4, item 3), and items 4 and 5 there are two more.

### Fairness

* `TopologyPersistence`, `BaselineFetch`: weak fairness of each request's own steps. Goroutines are
  scheduled; a call ends within the HTTP client's timeout (`app.go:71`, 30 s); a lock is held for
  memory operations only. That a waiting query gets a slot follows, since every holder gives it back;
  no strong fairness is assumed. Arrival, cancellation, restarts, time and the config page are not
  fair.
* `MetricsPolling`: a call in flight settles (Grafana's proxy answers or the fetch fails), and the
  browser fires a live interval in a visible tab. Switches and visibility are not fair.
* `FlowEditing`: every request of a tab is answered or fails, and so every load's `finally` runs. Users
  are not fair. `LoadingEnds` holds because edits are finitely many and each reloads once.
* `RangeCharts`: requests reach the handler or fail, goroutines run, a query ends within the HTTP
  client's timeout. `Acquire` is strongly fair per query: the semaphore is a buffered channel
  (`prometheus.go:217`), which serves its senders in the order they came. Users, cancellation and effects
  that run again are not fair.

## 4. Findings

Shown by a run:

1. `README.md:628-630` promises that the backend persists after each mutation and that data survives restarts. Two
   requests that overlap may take snapshots in one order and post in the other; no call fails, both
   are answered with success, and the saved data lacks the later mutation until something else is
   saved (`MutationsAreSaved`). The same overlap of a persist with the config page's save undoes the one
   that was posted first; what holds for writers that don't overlap is proved (`SerialEditsAreSaved`,
   `SerialEditsKeepConfig`), although `persist.go:34-37` and `AppConfig.tsx:307-309` speak of more.
2. `TopologyPage.tsx:882` saves "an edited metric query"; of two queries edited in the pods chart, one is
   lost. So may be a single one if the data source is changed as well: then both are sent
   (`PodsChartModal.tsx:299`, `:302`), and the last to arrive may be the one that wasn't edited. The query
   of a consumer that the template doesn't have, and all queries of an inline entry, are dropped without a
   message (`QueriesAreSaved`).
3. `README.md:156` describes overrides of single fields of a metric, and `README.md:149` shows a threshold
   alone. The forms send them and the resolver merges them, but the schema requires query, unit and
   direction of any override (`flow.schema.json:27`), so the backend refuses them
   (`PartialOverridesAreSaved`).

Forms outside of `FormsAreTaken`:

4. The templates manager can't create an HTTP template: `scaffoldEdge` gives it `endpointPaths`
   (`TemplatesManagerModal.tsx:129-131`), and it offers method, path and SOAP action for existing ones, none
   of which the schema of an edge template allows (`edge-template.schema.json`). The same goes for the
   active deployment of an EKS template. The backend answers 400.
5. Endpoint paths of an HTTP XML reference are saved by half: the template gets what its schema refuses
   after the flow was saved (`TopologyPage.tsx:935`).

Read in the code while modelling:

6. In the templates manager a metric without thresholds can't be given any: `updateSla` drops each of the
   two numbers as long as the other is blank (`TemplatesManagerModal.tsx:1416`, `WithMetricField`).
7. The add dialogs don't look whether their id exists: a template of that id is replaced by one without
   metrics, for all flows that use it, and a flow may get the same node twice. (`AddEdgeModal.tsx` calls the
   id unique; the templates manager does check.) A connection to a database can't be drawn at all, since
   the dialog doesn't offer the kind.
8. `README.md:100-108` says that backend and frontend alike always allow a server admin to edit, and never
   somebody anonymous. The backend's `canEdit` only knows the role in the organisation of the user it is
   passed, so it refuses a server admin who isn't an admin there, and whether it refuses an anonymous
   admin depends on Grafana passing no user. To everybody else it grants what the page offers
   (`OffersAreHonoured`, proved).
9. The time range picker offers a stored range of up to 30 days as "aligned with server-side
   maxRangeWindowSeconds" (`TimeRangePicker.tsx:67-68`); the server's maximum is 15 (`range_handler.go:13`).
   `ShownIsPicked` says that this is the only refusal.
10. `topologyPositionStore.ts` gives bundled layouts the lowest priority in its comment and the highest in
   its code; `SavedIsRestored` states what the code does. The positions of a sequence diagram can be saved
   as the layout.
11. Numbers that are not measured: a missing rate is shown, and coloured, as 0, and so is a deployment's
    missing cpu; a node without deployment names shows its pods as 0 of 0 in red (`README.md:423` promises
    "Unknown"). A custom metric's own thresholds are never used (`README.md:366-368`). Of an AMQP edge with
    one routing key filter the numbers are those of all keys, while the label is of its own. All of these are
    exceptions named in `Wanted`, `ZeroIfMissing`, `HasSla` and `RowsAreMeasured`.

## 5. Proofs

Every theorem holds for all values of the constants under the named assumptions of the modules
(`ConstantsAssumption`, `CacheAssumption`, `FetchAssumption`, `PollingAssumption`, `EditingAssumption`,
`DeletionAssumption`, `PermissionAssumption`, `LayoutAssumption`, `ChartsAssumption`, `EntryAssumption`,
`CardsAssumption`), which say no more than that bounds are naturals, queries of a key and names of an entity
are finitely many, the special values are distinct, handlers save documents in the order of the code, saving
a layout replaces no document, the stored ranges are ones that could be picked, and a metric has the fields
that the code reads. One of them the code doesn't enforce: that no deployment, path or routing key is called
like an option of a card, "all" or "endpoint" (`CardsAssumption`); a routing key "all" would be shown as
everything.

* `TopologyPersistence_proofs`. `SavedWasServedAlways` uses `HistoryInv`: stores, snapshots, pages and
  the saved data are all in `history`; the property alone says nothing about what is about to be
  posted. `RefusedWritesNothingAlways` uses `RefusedInv`: a request is in phase `write` only if
  allowed and valid. `SerialEditsAreSavedAlways` and `SerialEditsKeepConfigAlways` share `SerialInv`:
  as long as nobody overlapped, at most one writer is active, and what it holds at each phase equals
  what is served or saved. `Implementation` maps each step to a step of `DurableStore` or a stutter.
  `AnsweredImportsWereWholeAlways` adds `WholeInv`: while nobody overlaps, the files an import has written
  so far are all still in its app's store, so the last write leaves it there whole.
* `BaselineFetch_proofs`. Of the cache by itself, capacity is inductive with the lemma that making room
  leaves one free; evictions are a property of a single `Set`. Of the handler, `SlotInv` counts running queries and adds that batches outside the phases
  `current` and `fetch` are finished. `FlightInv` ties the phases of a leader to the singleflight
  table and says that a leader that fetches does so for a key that is not alive; it is needed because
  `FetchedOnlyIfStale` depends on nobody else storing the key meanwhile.
  `AnswerInv` is about what is passed on: what is stored is complete (`StoredComplete`), the leader of a
  key has that key (`LeaderHasKey`), and per request a batch that nobody cancelled has no hole, a follower
  waits for a leader of its own key, and who returns nothing was cancelled (`AnswerOK`).
  `BaselinesAreCompleteAlways` and `NoBaselineMeansCancelledLeaderAlways` follow.
* `MetricsPolling_proofs`. `PollingInv`: at most one poll, the flag mirrors it, its number is at most
  the current one and equal only for the topology shown; with `BaselineInv`, `OneLiveInterval`,
  `GraphIsOfShown` and `PollingNeverDies` it is inductive.
* `FlowEditing_proofs`. `Typing` needs `Handlers` (a handler under way has a tab and a document left to
  save). `NoLoadGoesBack` uses `LoadsInOrder`: each tab has one load per number, none above its tick,
  and the answer to the last one is no older than the page. `ReferencesResolve` uses `RefsAreBacked`:
  an edit that is contained in any document of the backend, a page, an answer under way or another
  handler's payload refers to templates that exist; only the handler's own payload may be ahead, and
  its templates are stored first. It rests on `EditingAssumption`: handlers save the templates they
  create before the flow (the order of the code), and what is deleted here are flows.
  `PageIsCurrentAlways`: a page may differ from the backend as long as the last load is on its way, so
  `LoadsAwaited` says that a last load is awaited and its result not taken over yet, and `SoloPage` that the
  page, or that result, is what the backend holds whenever no edit is under way. Layout saves change the
  page without a load; `LayoutAlone` is what makes them safe, and `SoloPage` says by how much the two differ
  meanwhile. `WaitedEditsAreKeptAlways`: an edit that is done is in the backend, in what its tab shows or
  will load, and in the payload of the edit under way (`DoneIsKept`); of an edit under way the documents
  already stored have it (`StoredIsThere`).
* `TemplateDeletion_proofs`. While no job began behind a change or during another, `PageOK` says what a page
  may lack: flows whose reference a deletion has replaced already, before it failed. They show the same,
  so a deletion computed from such a page still does the right thing, which is why a failed one can be tried
  again. `DeletionOK` says that the writes left cover every flow that still refers to the template, with
  copies of the version that is saved; so when the template goes, the last of them, nothing refers to it. Of
  half a new node the template is saved, and its page counts as behind. `RenderingKept` follows from the same
  invariant.
* `PageView_proofs`, of `EditPermission`. `PageIsFresh`: a page shows the settings' list, or none, until the next save.
  `RequestsAreGranted`: a request that a page with the current list offered, and that Grafana has passed on,
  carries a user and settings that `CanEdit` grants. `OffersAreAlwaysHonoured` follows; no assumption is made
  of users that aren't signed in.
* `PageView_proofs`, of `CanvasLayout`. `CanvasInv`: what is laid out has a place for each of its cards and no others,
  edit mode is never collapsed, the page has some topology once anything is drawn, and the canvas is that
  of the page and the screen. `SavedIsAlwaysRestored` is then a property of the one effect;
  `CardsAlwaysStay` needs that an unchanged drawing leaves the canvas alone.
* `PageView_proofs`, of `RangeCharts`. `ChartsInv`: the newest request of an open chart is of the range picked in it
  (`NewestIsPicked`), a range that is shown or sent is at least a minute long (`LongEnough`), and an open
  chart has a kind. The second part is what makes the step valid for every range but one that is too long:
  `ValidateRange` is used through arithmetic on `Step`, proved for all integers.

* `FlowEntry_proofs`. `EntryInv`: the entry and the template saved are documents the schemas take, an entry
  by reference has its template, their metrics are in sections a document can have (`WellFormed`), and
  `FormOK` says what an open form can hold, since what is submitted was filled from an earlier moment.
  `TablesAgree` is what the proofs need of the lists of fields by kind (schemas, resolver, forms: each is a
  file of its own in the code), proved kind by kind; the rest holds for any metrics, values and documents.
  `RowsAgreeAlways`: the merge of `computeLayeredMetrics.ts` and that of `topologyResolver.ts` are compared
  field by field. `FormsAreTakenAlways`: a document that was fine stays fine when it is changed by
  what `FormOK` says these forms hold. `InliningKeepsAlways`: a copy that the schema takes
  has none of the fields that only a reference has, so the resolver leaves it as it is. `AcceptedIsShownAlways` has
  one lemma per form; of two queries sent at once it says no more than that each is shown as sent or as before.
* `MetricCards_proofs`. `CardInv` only types the state: the answers have the keys of the definition shown, or
  there are none; what is selected may be gone. The properties rest on agreements of the four parts, each a
  lemma about any definition: of a metric that is defined, the key a row reads is one the visitor emits
  (`RowIsQueried`), its query is restricted to what the card says (`RowIsOfWanted`), the chart resolves to the
  same key whatever is selected (`ChartKeyIsRows`), and the keys listed under a name are those of its rows
  (`QueriesOfName`). The dot is the worst of the rows, and rows without a number have no status.

Only model-checked: liveness (`EveryRequestEnds`, `EveryRequestAnswered`, `ShownIsPolled`, `LoadingEnds`,
`ChartsSettle`), which is beyond the prover. Every other property of a run is a theorem, but for the three
that are violated. Of what the theorems quantify over, the runs cover all kinds of entities and few names, values
and documents.

## 6. Not modelled, and why

The components that are `partly` or `not_modelled` in `PROJECT.json` have their reasons there. In short:

* Text: labels, units, formats, styles, the coordinates of the automatic and the sequence layout.
* Documents edited as JSON (`EditJsonModal`, the config page's editors): what they put into a document is
  unbounded; that such a save overlaps with others is `FlowEditing`'s case of a one-document handler.
* Sizes and names in a ZIP: `import_handler.go` checks every file before the first write, which is modelled;
  how a path is categorised and the limits are not.
* Two documents whose ids the store's file names don't tell apart (`topology_store.go:55`): nothing says
  which characters an id may have.
* The migration script and the provisioning files, which aren't part of the running system.

What could come next: flow steps as a document of their own, handles and labels of edges beside their
positions, `TemplateDeletion` as a refinement of `FlowEditing`.
