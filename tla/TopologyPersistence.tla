------------------------- MODULE TopologyPersistence -------------------------
(***************************************************************************)
(* The topology store of the Go backend and how it reaches Grafana's       *)
(* database.  Every mutating request is one goroutine: requireEdit, the    *)
(* handler (which writes the store of the app that serves it), then        *)
(* withPersist's persistTopologyData: Snapshot, GET the plugin settings,   *)
(* POST them back with topologyData replaced.  No lock is held from one of *)
(* these steps to the next, and nothing orders the requests.  The config   *)
(* page makes the same GET and POST from the browser for the other fields. *)
(*                                                                         *)
(* Data is abstract: a resource is a flow, a template, the datasource      *)
(* list or the SLA defaults, and its value is the request that wrote it.   *)
(* The settings are the two parts the writers disagree about: topologyData *)
(* and config (dataSourceMap, editAllowList and the thresholds).           *)
(***************************************************************************)
EXTENDS Naturals

CONSTANTS
    Requests,      \* mutating requests, each made once
    Saves,         \* presses of the config page's save button
    Resources,     \* the keys of the store
    Rank,          \* the section of a resource, as an import writes them
    Ops,           \* what a request may ask: [kind, files, bad]
    Users,         \* who may send a request
    Admins,        \* the users whose role is Admin
    Editors,       \* the users whose role is Editor
    Configs,       \* the values of the settings' other fields
    AllowList,     \* editAllowList of each of them
    Seed,          \* the value of a resource that existed at the start
    NoValue,       \* the value of a resource the store doesn't hold
    MaxInstances   \* bound: the apps created in one behaviour

Instances == 1..MaxInstances
Values == Requests \cup {Seed, NoValue}
Data == [Resources -> Values]
Settings == [topologyData : Data, config : Configs]
Op == [kind : {"put", "delete", "import"},
       files : SUBSET Resources, bad : SUBSET Resources]

ASSUME ConstantsAssumption ==
    /\ MaxInstances \in Nat \ {0}
    /\ Rank \in [Resources -> Nat]
    /\ Ops \subseteq Op /\ Ops # {}
    /\ \A o \in Ops : o.files # {} /\ o.bad \subseteq o.files
    /\ AllowList \in [Configs -> SUBSET Users]
    /\ Seed \notin Requests /\ NoValue \notin Requests

VARIABLES
    settings,      \* the plugin settings in Grafana's database
    store,         \* App.topologyStore of each app
    current,       \* the app that serves the requests that arrive now
    pc,            \* where each request's goroutine is
    op,            \* what it asks
    app,           \* the app that serves it
    todo,          \* the resources its handler has still to write
    reply,         \* the answer its handler gave
    snapshot,      \* what Snapshot returned to it
    fetched,       \* the settings its GET returned
    savePc,        \* where each config page save is
    form,          \* the config the admin entered there
    page,          \* the settings its GET returned
    history,       \* ghost: every state a store has been in
    adminConfig,   \* ghost: the config of the last save that reached Grafana
    overlapped,    \* ghost: two writers of the settings were active at once
    failed         \* ghost: a call of some persistTopologyData failed

ghosts == <<history, adminConfig, overlapped, failed>>
pageVars == <<savePc, form, page>>
requestVars == <<pc, op, app, todo, reply, snapshot, fetched>>
vars == <<settings, store, current, requestVars, pageVars, ghosts>>

ActiveRequests == {r \in Requests : pc[r] \notin {"idle", "done"}}
ActiveSaves == {s \in Saves : savePc[s] = "post"}
Quiet == ActiveRequests = {} /\ ActiveSaves = {}

\* Grafana passes the current settings along with a request: canEdit reads them.
CanEdit(u, c) == u \in Admins \/ (u \in Editors /\ u \in AllowList[c])

TypeOK ==
    /\ settings \in Settings
    /\ store \in [Instances -> Data]
    /\ current \in Instances
    /\ pc \in [Requests -> {"idle", "write", "snapshot", "get", "post", "done"}]
    /\ op \in [Requests -> Ops]
    /\ app \in [Requests -> Instances]
    /\ todo \in [Requests -> SUBSET Resources]
    /\ reply \in [Requests -> {"none", "ok", "invalid", "forbidden"}]
    /\ snapshot \in [Requests -> Data]
    /\ fetched \in [Requests -> Settings]
    /\ savePc \in [Saves -> {"idle", "post", "done"}]
    /\ form \in [Saves -> Configs]
    /\ page \in [Saves -> Settings]
    /\ history \subseteq Data
    /\ adminConfig \in Configs
    /\ overlapped \in BOOLEAN
    /\ failed \in BOOLEAN

Init ==
    \E d \in {[f \in Resources |-> Seed], [f \in Resources |-> NoValue]},
       c \in Configs :
        /\ settings = [topologyData |-> d, config |-> c]
        /\ store = [i \in Instances |-> d]
        /\ current = 1
        /\ pc = [r \in Requests |-> "idle"]
        /\ op = [r \in Requests |-> CHOOSE o \in Ops : TRUE]
        /\ app = [r \in Requests |-> 1]
        /\ todo = [r \in Requests |-> {}]
        /\ reply = [r \in Requests |-> "none"]
        /\ snapshot = [r \in Requests |-> d]
        /\ fetched = [r \in Requests |-> settings]
        /\ savePc = [s \in Saves |-> "idle"]
        /\ form = [s \in Saves |-> c]
        /\ page = [s \in Saves |-> settings]
        /\ history = {d}
        /\ adminConfig = c
        /\ overlapped = FALSE
        /\ failed = FALSE

-----------------------------------------------------------------------------
(* The handler: what a mutating request does to the store.                   *)

\* readBody and the schema validator accept every file of the request.
AcceptsTruncated(o) == \E f \in o.files : f \notin o.bad
Valid(o) == o.bad = {}

\* requireEdit, then the body's checks.  A refused request never reaches
\* withPersist; an invalid one does, because withPersist persists after any answer.
Arrive(r, u, o) ==
    /\ pc[r] = "idle"
    /\ op' = [op EXCEPT ![r] = o]
    /\ app' = [app EXCEPT ![r] = current]
    /\ \/ /\ ~CanEdit(u, settings.config)
          /\ pc' = [pc EXCEPT ![r] = "done"]
          /\ reply' = [reply EXCEPT ![r] = "forbidden"]
          /\ UNCHANGED <<todo, overlapped>>
       \/ /\ CanEdit(u, settings.config)
          /\ ~Valid(o)
          /\ pc' = [pc EXCEPT ![r] = "snapshot"]
          /\ reply' = [reply EXCEPT ![r] = "invalid"]
          /\ overlapped' = (overlapped \/ ~Quiet)
          /\ UNCHANGED todo
       \/ /\ CanEdit(u, settings.config)
          /\ Valid(o)
          /\ pc' = [pc EXCEPT ![r] = "write"]
          /\ todo' = [todo EXCEPT ![r] = o.files]
          /\ overlapped' = (overlapped \/ ~Quiet)
          /\ UNCHANGED reply
    /\ UNCHANGED <<settings, store, current, snapshot, fetched, pageVars>>
    /\ UNCHANGED <<history, adminConfig, failed>>

Written(r) == IF op[r].kind = "delete" THEN NoValue ELSE r

\* An import writes flows, node templates, edge templates, datasources, SLA defaults.
NextFilesStrict(r) == {f \in todo[r] : \A g \in todo[r] \ {f} : Rank[f] < Rank[g]}
NextFiles(r) == {f \in todo[r] : \A g \in todo[r] : Rank[f] <= Rank[g]}

RestOfSections(r, f) == {g \in todo[r] : Rank[g] # Rank[f]}
Rest(r, f) == todo[r] \ {f}

\* One Put or Delete of the store, under its write lock; an import makes several.
WriteFile(r, f) ==
    /\ pc[r] = "write"
    /\ f \in NextFiles(r)
    /\ store' = [store EXCEPT ![app[r]] = [@ EXCEPT ![f] = Written(r)]]
    /\ history' = history \cup {store'[app[r]]}
    /\ todo' = [todo EXCEPT ![r] = Rest(r, f)]
    /\ \/ /\ Rest(r, f) = {}
          /\ reply' = [reply EXCEPT ![r] = "ok"]
          /\ pc' = [pc EXCEPT ![r] = "snapshot"]
       \/ /\ Rest(r, f) # {}
          /\ UNCHANGED <<reply, pc>>
    /\ UNCHANGED <<settings, current, op, app, snapshot, fetched, pageVars>>
    /\ UNCHANGED <<adminConfig, overlapped, failed>>

-----------------------------------------------------------------------------
(* persistTopologyData: every error ends it and is only logged.              *)

PersistFails(r) ==
    /\ pc' = [pc EXCEPT ![r] = "done"]
    /\ failed' = TRUE

\* Snapshot, under the store's read lock.
TornSnapshot(r) ==
    [f \in Resources |-> IF \E g \in Resources : Rank[g] < Rank[f]
                         THEN settings.topologyData[f] ELSE store[app[r]][f]]
Snapshot(r) == store[app[r]]

\* The snapshot is taken unless there is no token or no plugin id.
TakeSnapshot(r) ==
    /\ pc[r] = "snapshot"
    /\ \/ /\ snapshot' = [snapshot EXCEPT ![r] = Snapshot(r)]
          /\ pc' = [pc EXCEPT ![r] = "get"]
          /\ UNCHANGED failed
       \/ /\ PersistFails(r)
          /\ UNCHANGED snapshot
    /\ UNCHANGED <<settings, store, current, op, app, todo, reply, fetched, pageVars>>
    /\ UNCHANGED <<history, adminConfig, overlapped>>

\* The settings a persist starts from: those the GET returns.
FirstSettings(r) == fetched[r]
FreshSettings(r) == settings

FetchSettings(r) ==
    /\ pc[r] = "get"
    /\ \/ /\ fetched' = [fetched EXCEPT ![r] = FreshSettings(r)]
          /\ pc' = [pc EXCEPT ![r] = "post"]
          /\ UNCHANGED failed
       \/ /\ PersistFails(r)
          /\ UNCHANGED fetched
    /\ UNCHANGED <<settings, store, current, op, app, todo, reply, snapshot, pageVars>>
    /\ UNCHANGED <<history, adminConfig, overlapped>>

\* The POST replaces the whole settings.  It may fail before Grafana stores them,
\* or after (the answer is lost or the client gives up): both are an error here.
PostSettings(r) ==
    /\ pc[r] = "post"
    /\ \/ /\ settings' = [topologyData |-> snapshot[r], config |-> fetched[r].config]
          /\ \/ /\ pc' = [pc EXCEPT ![r] = "done"]
                /\ UNCHANGED failed
             \/ PersistFails(r)
       \/ /\ PersistFails(r)
          /\ UNCHANGED settings
    /\ UNCHANGED <<store, current, op, app, todo, reply, snapshot, fetched, pageVars>>
    /\ UNCHANGED <<history, adminConfig, overlapped>>

-----------------------------------------------------------------------------
(* The config page's save: onSubmitDs reads the settings and posts them back *)
(* with its own fields replaced.                                             *)

PageLoadSettings(s) == page[s]
PageSettings(s) == settings

OpenSave(s, c) ==
    /\ savePc[s] = "idle"
    /\ savePc' = [savePc EXCEPT ![s] = "post"]
    /\ form' = [form EXCEPT ![s] = c]
    /\ page' = [page EXCEPT ![s] = PageSettings(s)]
    /\ overlapped' = (overlapped \/ ~Quiet)
    /\ UNCHANGED <<settings, store, current, requestVars>>
    /\ UNCHANGED <<history, adminConfig, failed>>

\* The POST is stored, or it fails and the admin sees the error.
PostSave(s) ==
    /\ savePc[s] = "post"
    /\ savePc' = [savePc EXCEPT ![s] = "done"]
    /\ \/ /\ settings' = [topologyData |-> page[s].topologyData, config |-> form[s]]
          /\ adminConfig' = form[s]
       \/ UNCHANGED <<settings, adminConfig>>
    /\ UNCHANGED <<store, current, requestVars, form, page>>
    /\ UNCHANGED <<history, overlapped, failed>>

-----------------------------------------------------------------------------
(* NewApp: the plugin process restarts (its requests die), or the SDK makes  *)
(* a new instance and the old one finishes the requests it is serving.       *)

HydrateEmpty(d) == [f \in Resources |-> NoValue]
Hydrate(d) == d

NewApp(crash) ==
    /\ current < MaxInstances
    /\ current' = current + 1
    /\ store' = [store EXCEPT ![current + 1] = Hydrate(settings.topologyData)]
    /\ pc' = [r \in Requests |-> IF crash /\ r \in ActiveRequests THEN "done" ELSE pc[r]]
    /\ overlapped' = (overlapped \/ ActiveRequests # {})
    /\ UNCHANGED <<settings, op, app, todo, reply, snapshot, fetched, pageVars>>
    /\ UNCHANGED <<history, adminConfig, failed>>

-----------------------------------------------------------------------------
Step(r) ==
    \/ \E f \in Resources : WriteFile(r, f)
    \/ TakeSnapshot(r)
    \/ FetchSettings(r)
    \/ PostSettings(r)

Next ==
    \/ \E r \in Requests, u \in Users, o \in Ops : Arrive(r, u, o)
    \/ \E r \in Requests : Step(r)
    \/ \E s \in Saves, c \in Configs : OpenSave(s, c)
    \/ \E s \in Saves : PostSave(s)
    \/ \E crash \in BOOLEAN : NewApp(crash)

Spec == Init /\ [][Next]_vars

\* A goroutine keeps running, and the HTTP client gives up after 30 seconds.
FairSpec == Spec /\ \A r \in Requests : WF_vars(Step(r))

-----------------------------------------------------------------------------
(* Properties                                                                *)

\* Grafana's database always holds one state some store was really in: neither a
\* persist nor a config page save ever stores a mixture of two states, however
\* handlers, snapshots, reads and writes interleave (persist.go, AppConfig.tsx).
SavedWasServed == settings.topologyData \in history

\* While writers of the settings come one at a time and no call of a persist fails,
\* what the app serves is what is saved whenever no request is active: a restart at
\* such a moment loses nothing.
SerialEditsAreSaved ==
    ~overlapped /\ ~failed /\ ActiveRequests = {}
        => settings.topologyData = store[current]

\* While writers come one at a time, the read-modify-write of a persist keeps the
\* other fields of the settings as the admin last saved them, even when calls fail.
SerialEditsKeepConfig == ~overlapped => settings.config = adminConfig

\* A request with one invalid file, or from a user who may not edit, never puts
\* anything into a store or into Grafana's database: an import checks every file
\* before it writes the first one.
RefusedWritesNothing ==
    \A r \in Requests :
        reply[r] = "forbidden" \/ (pc[r] # "idle" /\ op[r].bad # {})
            => \A d \in history : \A f \in Resources : d[f] # r

\* An import answered with success was in the store with all its files at one
\* moment, unless another writer was active meanwhile.
AnsweredImportsWereWhole ==
    \A r \in Requests :
        reply[r] = "ok" /\ ~overlapped
            => \E d \in history : \A f \in op[r].files : d[f] = Written(r)

\* Every request that arrives ends, whatever the calls to Grafana do.
EveryRequestEnds == \A r \in Requests : pc[r] # "idle" ~> pc[r] = "done"

\* The stores and the saved topology data behave as DurableStore promises.
DS == INSTANCE DurableStore WITH saved <- settings.topologyData
ImplementsDurableStore == DS!Spec

(* What the repository says of this code, which overlapping writers break.   *)

\* README.md:628-630: changes are persisted "after each mutation", so topology data
\* "survives plugin restarts": once every request has ended and none of the calls
\* to Grafana failed, what the app serves is saved.
MutationsAreSaved ==
    ActiveRequests = {} /\ ~failed => settings.topologyData = store[current]
=============================================================================
