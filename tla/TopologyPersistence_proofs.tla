---------------------- MODULE TopologyPersistence_proofs ----------------------
(* What holds of TopologyPersistence for every set of requests, resources,   *)
(* users and settings, and any number of apps.                               *)
EXTENDS TopologyPersistence, TLAPS

-----------------------------------------------------------------------------
(* Type correctness.                                                         *)

\* The initial states have their types.
LEMMA TypeInit == Init => TypeOK
<1> SUFFICES ASSUME Init PROVE TypeOK
  OBVIOUS
<1> USE ConstantsAssumption DEF Instances, Data, Values, Settings
<1>1. PICK d \in {[f \in Resources |-> Seed], [f \in Resources |-> NoValue]},
           c \in Configs : Init!(d, c)
  BY DEF Init
<1>2. d \in Data /\ 1 \in Instances
  OBVIOUS
<1>3. (CHOOSE o \in Ops : TRUE) \in Ops
  OBVIOUS
<1> QED
  BY <1>1, <1>2, <1>3, Zenon DEF TypeOK

\* What a step of each action does to the types, one action at a time.
LEMMA TypeNext == TypeOK /\ [Next]_vars => TypeOK'
<1> SUFFICES ASSUME TypeOK, [Next]_vars PROVE TypeOK'
  OBVIOUS
<1> USE ConstantsAssumption DEF Instances, TypeOK, ghosts, pageVars, requestVars
<1>1. ASSUME NEW r \in Requests, NEW u \in Users, NEW o \in Ops, Arrive(r, u, o)
      PROVE TypeOK'
  <2>1. o.files \in SUBSET Resources
    BY DEF Op
  <2> QED
    BY <1>1, <2>1 DEF Arrive
<1>2. ASSUME NEW r \in Requests, NEW f \in Resources, WriteFile(r, f)
      PROVE TypeOK'
  <2>1. Written(r) \in Values
    BY DEF Written, Values
  <2>2. [store[app[r]] EXCEPT ![f] = Written(r)] \in Data
    BY <2>1 DEF Data
  <2>3. store' \in [Instances -> Data] /\ store'[app[r]] \in Data
    BY <1>2, <2>2 DEF WriteFile
  <2>4. todo' \in [Requests -> SUBSET Resources]
    BY <1>2 DEF WriteFile, Rest
  <2>5. reply' \in [Requests -> {"none", "ok", "invalid", "forbidden"}]
        /\ pc' \in [Requests -> {"idle", "write", "snapshot", "get", "post", "done"}]
    BY <1>2 DEF WriteFile
  <2>6. history' \subseteq Data
    BY <1>2, <2>3 DEF WriteFile
  <2>7. UNCHANGED <<settings, current, op, app, snapshot, fetched, pageVars,
                    adminConfig, overlapped, failed>>
    BY <1>2 DEF WriteFile
  <2> QED
    BY <2>3, <2>4, <2>5, <2>6, <2>7
<1>3. ASSUME NEW r \in Requests, TakeSnapshot(r)
      PROVE TypeOK'
  BY <1>3 DEF TakeSnapshot, Snapshot, PersistFails
<1>4. ASSUME NEW r \in Requests, FetchSettings(r)
      PROVE TypeOK'
  <2>1. fetched' \in [Requests -> Settings]
    BY <1>4 DEF FetchSettings, FreshSettings
  <2>2. pc' \in [Requests -> {"idle", "write", "snapshot", "get", "post", "done"}]
        /\ failed' \in BOOLEAN
    BY <1>4 DEF FetchSettings, PersistFails
  <2>3. UNCHANGED <<settings, store, current, op, app, todo, reply, snapshot, pageVars,
                    history, adminConfig, overlapped>>
    BY <1>4 DEF FetchSettings
  <2> QED
    BY <2>1, <2>2, <2>3
<1>5. ASSUME NEW r \in Requests, PostSettings(r)
      PROVE TypeOK'
  <2>1. settings' \in Settings
    BY <1>5 DEF PostSettings, Settings
  <2>2. pc' \in [Requests -> {"idle", "write", "snapshot", "get", "post", "done"}]
        /\ failed' \in BOOLEAN
    BY <1>5 DEF PostSettings, PersistFails
  <2>3. UNCHANGED <<store, current, op, app, todo, reply, snapshot, fetched, pageVars,
                    history, adminConfig, overlapped>>
    BY <1>5 DEF PostSettings
  <2> QED
    BY <2>1, <2>2, <2>3
<1>6. ASSUME NEW s \in Saves, NEW c \in Configs, OpenSave(s, c)
      PROVE TypeOK'
  BY <1>6 DEF OpenSave, PageSettings
<1>7. ASSUME NEW s \in Saves, PostSave(s)
      PROVE TypeOK'
  BY <1>7 DEF PostSave, Settings
<1>8. ASSUME NEW crash \in BOOLEAN, NewApp(crash)
      PROVE TypeOK'
  <2>1. settings.topologyData \in Data
    BY DEF Settings
  <2> QED
    BY <1>8, <2>1 DEF NewApp, Hydrate
<1>9. CASE UNCHANGED vars
  BY <1>9 DEF vars
<1> QED
  BY <1>1, <1>2, <1>3, <1>4, <1>5, <1>6, <1>7, <1>8, <1>9 DEF Next, Step

\* The variables always have their types: in particular the settings in Grafana's
\* database stay a pair of topology data and config, whoever wrote them last.
THEOREM TypeCorrect == Spec => []TypeOK
  BY TypeInit, TypeNext, PTL DEF Spec

-----------------------------------------------------------------------------
(* Every copy of topology data, wherever it is held, is a state that some    *)
(* store was in.                                                             *)

HistoryInv ==
    /\ settings.topologyData \in history
    /\ \A i \in Instances : store[i] \in history
    /\ \A r \in Requests : snapshot[r] \in history
    /\ \A s \in Saves : page[s].topologyData \in history

\* At the start everything holds the one state there has been.
LEMMA HistoryInit == Init => HistoryInv
<1> SUFFICES ASSUME Init PROVE HistoryInv
  OBVIOUS
<1> QED
  BY DEF Init, HistoryInv

\* Whatever is copied from a store to a snapshot to the database was a store's state.
LEMMA HistoryNext == TypeOK /\ HistoryInv /\ [Next]_vars => HistoryInv'
<1> SUFFICES ASSUME TypeOK, HistoryInv, [Next]_vars PROVE HistoryInv'
  OBVIOUS
<1> USE ConstantsAssumption DEF TypeOK, HistoryInv, ghosts, pageVars, requestVars
<1>1. ASSUME NEW r \in Requests, NEW u \in Users, NEW o \in Ops, Arrive(r, u, o)
      PROVE HistoryInv'
  BY <1>1 DEF Arrive
<1>2. ASSUME NEW r \in Requests, NEW f \in Resources, WriteFile(r, f)
      PROVE HistoryInv'
  BY <1>2 DEF WriteFile
<1>3. ASSUME NEW r \in Requests, TakeSnapshot(r)
      PROVE HistoryInv'
  BY <1>3 DEF TakeSnapshot, Snapshot, PersistFails
<1>4. ASSUME NEW r \in Requests, FetchSettings(r)
      PROVE HistoryInv'
  BY <1>4 DEF FetchSettings, PersistFails
<1>5. ASSUME NEW r \in Requests, PostSettings(r)
      PROVE HistoryInv'
  BY <1>5 DEF PostSettings, PersistFails
<1>6. ASSUME NEW s \in Saves, NEW c \in Configs, OpenSave(s, c)
      PROVE HistoryInv'
  BY <1>6 DEF OpenSave, PageSettings
<1>7. ASSUME NEW s \in Saves, PostSave(s)
      PROVE HistoryInv'
  BY <1>7 DEF PostSave
<1>8. ASSUME NEW crash \in BOOLEAN, NewApp(crash)
      PROVE HistoryInv'
  BY <1>8 DEF NewApp, Hydrate
<1>9. CASE UNCHANGED vars
  BY <1>9 DEF vars
<1> QED
  BY <1>1, <1>2, <1>3, <1>4, <1>5, <1>6, <1>7, <1>8, <1>9 DEF Next, Step

\* What Grafana's database holds is always one state that some store was in,
\* however many requests, config page saves and restarts interleave.
THEOREM SavedWasServedAlways == Spec => []SavedWasServed
<1>1. HistoryInv => SavedWasServed
  BY DEF HistoryInv, SavedWasServed
<1> QED
  BY <1>1, TypeCorrect, HistoryInit, HistoryNext, PTL DEF Spec

-----------------------------------------------------------------------------
(* A refused request leaves no trace.  RefusedWritesNothing is not inductive  *)
(* alone: a request must also have left no trace before it arrives, and one   *)
(* that is writing must be a valid one that has not been answered.            *)

NotStored(r) == \A d \in history : \A f \in Resources : d[f] # r

RefusedInv ==
    \A r \in Requests :
        /\ pc[r] = "idle" => NotStored(r) /\ reply[r] # "forbidden"
        /\ reply[r] = "forbidden" => NotStored(r)
        /\ pc[r] # "idle" /\ op[r].bad # {} => NotStored(r)
        /\ pc[r] = "write" => op[r].bad = {} /\ reply[r] # "forbidden"

\* No request has written anything at the start.
LEMMA RefusedInit == Init => RefusedInv
<1> SUFFICES ASSUME Init PROVE RefusedInv
  OBVIOUS
<1>1. \A r \in Requests : NotStored(r)
  BY ConstantsAssumption DEF Init, NotStored
<1> QED
  BY <1>1 DEF Init, RefusedInv

\* Only a request that was allowed and valid writes.
LEMMA RefusedNext ==
    TypeOK /\ HistoryInv /\ RefusedInv /\ [Next]_vars => RefusedInv'
<1> SUFFICES ASSUME TypeOK, HistoryInv, RefusedInv, [Next]_vars PROVE RefusedInv'
  OBVIOUS
<1> USE ConstantsAssumption DEF RefusedInv, ghosts, pageVars, requestVars
<1>1. ASSUME NEW r \in Requests, NEW u \in Users, NEW o \in Ops, Arrive(r, u, o)
      PROVE RefusedInv'
  <2>1. \A q \in Requests : NotStored(q)' <=> NotStored(q)
    BY <1>1 DEF Arrive, NotStored
  <2>2. pc[r] = "idle" /\ pc'[r] # "idle" /\ op'[r] = o
        /\ (pc'[r] = "write" => o.bad = {} /\ reply'[r] = reply[r])
    BY <1>1 DEF Arrive, TypeOK, Valid
  <2>3. \A q \in Requests \ {r} : pc'[q] = pc[q] /\ op'[q] = op[q] /\ reply'[q] = reply[q]
    BY <1>1 DEF Arrive, TypeOK
  <2> QED
    BY <2>1, <2>2, <2>3
<1>2. ASSUME NEW r \in Requests, NEW f \in Resources, WriteFile(r, f)
      PROVE RefusedInv'
  <2>1. app[r] \in Instances /\ store[app[r]] \in history
    BY DEF TypeOK, HistoryInv
  <2>2. store'[app[r]] = [store[app[r]] EXCEPT ![f] = Written(r)]
    BY <1>2, <2>1 DEF WriteFile, TypeOK
  <2>3. \A q \in Requests \ {r} : Written(r) # q
    BY DEF Written
  <2>4. ASSUME NEW q \in Requests \ {r}, NotStored(q)
        PROVE NotStored(q)'
    <3>1. \A g \in Resources : store'[app[r]][g] # q
      BY <2>1, <2>2, <2>3, <2>4 DEF NotStored, TypeOK, Data
    <3> QED
      BY <1>2, <2>4, <3>1 DEF WriteFile, NotStored
  <2>5. pc[r] = "write" /\ op[r].bad = {} /\ reply[r] # "forbidden"
    BY <1>2 DEF WriteFile
  <2>6. pc'[r] # "idle" /\ op'[r].bad = {} /\ reply'[r] # "forbidden"
    BY <1>2, <2>5 DEF WriteFile, TypeOK
  <2>7. \A q \in Requests \ {r} : pc'[q] = pc[q] /\ op'[q] = op[q] /\ reply'[q] = reply[q]
    BY <1>2 DEF WriteFile, TypeOK
  <2> QED
    BY <2>4, <2>6, <2>7
<1>3. ASSUME NEW r \in Requests, TakeSnapshot(r)
      PROVE RefusedInv'
  BY <1>3 DEF TakeSnapshot, PersistFails, NotStored, TypeOK
<1>4. ASSUME NEW r \in Requests, FetchSettings(r)
      PROVE RefusedInv'
  BY <1>4 DEF FetchSettings, PersistFails, NotStored, TypeOK
<1>5. ASSUME NEW r \in Requests, PostSettings(r)
      PROVE RefusedInv'
  BY <1>5 DEF PostSettings, PersistFails, NotStored, TypeOK
<1>6. ASSUME NEW s \in Saves, NEW c \in Configs, OpenSave(s, c)
      PROVE RefusedInv'
  BY <1>6 DEF OpenSave, NotStored
<1>7. ASSUME NEW s \in Saves, PostSave(s)
      PROVE RefusedInv'
  BY <1>7 DEF PostSave, NotStored
<1>8. ASSUME NEW crash \in BOOLEAN, NewApp(crash)
      PROVE RefusedInv'
  BY <1>8 DEF NewApp, NotStored, TypeOK, ActiveRequests
<1>9. CASE UNCHANGED vars
  BY <1>9 DEF vars, NotStored
<1> QED
  BY <1>1, <1>2, <1>3, <1>4, <1>5, <1>6, <1>7, <1>8, <1>9 DEF Next, Step

\* Nothing of a request that requireEdit refuses, or of which one file is invalid, is
\* ever in a store or in Grafana's database: imports check every file before writing.
THEOREM RefusedWritesNothingAlways == Spec => []RefusedWritesNothing
<1>1. RefusedInv => RefusedWritesNothing
  BY DEF RefusedInv, RefusedWritesNothing, NotStored
<1> QED
  BY <1>1, TypeCorrect, HistoryInit, HistoryNext, RefusedInit, RefusedNext, PTL DEF Spec

-----------------------------------------------------------------------------
(* Writers that come one at a time.  Between the steps of the only active    *)
(* writer nothing else moves, so what it has read is still true when it      *)
(* writes; the two properties are about the moments when nobody is active.   *)

Alone ==
    /\ \A q, r \in ActiveRequests : q = r
    /\ \A s, t \in ActiveSaves : s = t
    /\ ActiveRequests = {} \/ ActiveSaves = {}

SerialState ==
    /\ Alone
    /\ settings.config = adminConfig
    /\ \A r \in ActiveRequests :
        /\ app[r] = current
        /\ pc[r] \in {"get", "post"} => snapshot[r] = store[current]
        /\ pc[r] = "post" => fetched[r] = settings
    /\ \A s \in ActiveSaves : page[s] = settings
    /\ ~failed /\ ActiveRequests = {} => settings.topologyData = store[current]

SerialInv == ~overlapped => SerialState

\* What is served is saved at the start.
LEMMA SerialInit == Init => SerialInv
<1> SUFFICES ASSUME Init PROVE SerialInv
  OBVIOUS
<1> USE ConstantsAssumption
<1>1. ActiveRequests = {} /\ ActiveSaves = {}
  BY DEF Init, ActiveRequests, ActiveSaves
<1>2. settings.config = adminConfig /\ settings.topologyData = store[current]
  BY DEF Init, Instances
<1> QED
  BY <1>1, <1>2 DEF SerialInv, SerialState, Alone

\* A lone writer takes what is served, and what it read, to the database unchanged.
LEMMA SerialNext == TypeOK /\ SerialInv /\ [Next]_vars => SerialInv'
<1> USE DEF ghosts, pageVars, requestVars
<1>0. TypeOK /\ [Next]_vars /\ ~overlapped' => ~overlapped
  BY DEF Next, Step, vars, Arrive, WriteFile, TakeSnapshot, FetchSettings, PostSettings,
         OpenSave, PostSave, NewApp, TypeOK
<1> SUFFICES ASSUME TypeOK, SerialState, [Next]_vars, ~overlapped' PROVE SerialState'
  BY <1>0 DEF SerialInv
<1>1. ASSUME NEW r \in Requests, NEW u \in Users, NEW o \in Ops, Arrive(r, u, o)
      PROVE SerialState'
  <2>1. CASE pc'[r] = "done"
    <3>1. ActiveRequests' = ActiveRequests /\ ActiveSaves' = ActiveSaves
      BY <1>1, <2>1 DEF Arrive, ActiveRequests, ActiveSaves, TypeOK
    <3>2. \A q \in ActiveRequests : pc'[q] = pc[q] /\ app'[q] = app[q]
      BY <1>1 DEF Arrive, ActiveRequests, TypeOK
    <3> QED
      BY <1>1, <3>1, <3>2 DEF Arrive, SerialState, Alone
  <2>2. CASE pc'[r] # "done"
    <3>1. Quiet
      BY <1>1, <2>2 DEF Arrive, TypeOK
    <3>2. ActiveRequests' = {r} /\ ActiveSaves' = {}
      BY <1>1, <2>2, <3>1 DEF Arrive, Quiet, ActiveRequests, ActiveSaves, TypeOK
    <3>3. app'[r] = current' /\ pc'[r] \notin {"get", "post"}
      BY <1>1, <2>2 DEF Arrive, TypeOK
    <3> QED
      BY <1>1, <3>2, <3>3 DEF Arrive, SerialState, Alone
  <2> QED
    BY <2>1, <2>2
<1>2. ASSUME NEW r \in Requests, NEW f \in Resources, WriteFile(r, f)
      PROVE SerialState'
  <2>1. r \in ActiveRequests /\ pc'[r] \in {"write", "snapshot"}
    BY <1>2 DEF WriteFile, ActiveRequests, TypeOK
  <2>2. ActiveRequests' = {r} /\ ActiveSaves' = {}
    BY <1>2, <2>1 
    DEF WriteFile, ActiveRequests, ActiveSaves, SerialState, Alone, TypeOK
  <2> QED
    BY <1>2, <2>1, <2>2 DEF WriteFile, SerialState, Alone
<1>3. ASSUME NEW r \in Requests, TakeSnapshot(r)
      PROVE SerialState'
  <2>1. r \in ActiveRequests /\ app[r] = current
    BY <1>3 DEF TakeSnapshot, ActiveRequests, SerialState
  <2>2. ActiveSaves' = {} /\ ActiveRequests' \subseteq {r}
    BY <1>3, <2>1
    DEF TakeSnapshot, PersistFails, ActiveRequests, ActiveSaves, SerialState, Alone, TypeOK
  <2>3. CASE pc'[r] = "get"
    BY <1>3, <2>1, <2>2, <2>3
    DEF TakeSnapshot, PersistFails, Snapshot, SerialState, Alone, ActiveRequests, TypeOK
  <2>4. CASE pc'[r] = "done" /\ failed'
    BY <1>3, <2>1, <2>2, <2>4
    DEF TakeSnapshot, PersistFails, SerialState, Alone, ActiveRequests, TypeOK
  <2> QED
    BY <1>3, <2>3, <2>4 DEF TakeSnapshot, PersistFails, TypeOK
<1>4. ASSUME NEW r \in Requests, FetchSettings(r)
      PROVE SerialState'
  <2>1. r \in ActiveRequests
    BY <1>4 DEF FetchSettings, ActiveRequests
  <2>2. ActiveSaves' = {} /\ ActiveRequests' \subseteq {r}
    BY <1>4, <2>1
    DEF FetchSettings, PersistFails, ActiveRequests, ActiveSaves, SerialState, Alone, TypeOK
  <2>3. CASE pc'[r] = "post"
    BY <1>4, <2>1, <2>2, <2>3
    DEF FetchSettings, PersistFails, FreshSettings, SerialState, Alone, ActiveRequests, TypeOK
  <2>4. CASE pc'[r] = "done" /\ failed'
    BY <1>4, <2>1, <2>2, <2>4
    DEF FetchSettings, PersistFails, SerialState, Alone, ActiveRequests, TypeOK
  <2> QED
    BY <1>4, <2>3, <2>4 DEF FetchSettings, PersistFails, TypeOK
<1>5. ASSUME NEW r \in Requests, PostSettings(r)
      PROVE SerialState'
  <2>1. r \in ActiveRequests /\ pc[r] = "post" /\ pc'[r] = "done"
    BY <1>5 DEF PostSettings, PersistFails, ActiveRequests, TypeOK
  <2>2. ActiveSaves' = {} /\ ActiveRequests' = {}
    BY <1>5, <2>1
    DEF PostSettings, PersistFails, ActiveRequests, ActiveSaves, SerialState, Alone, TypeOK
  <2>3. settings'.config = adminConfig'
    BY <1>5, <2>1 DEF PostSettings, SerialState
  <2>4. ~failed' => settings'.topologyData = store'[current']
    BY <1>5, <2>1 DEF PostSettings, PersistFails, SerialState
  <2> QED
    BY <2>2, <2>3, <2>4 DEF SerialState, Alone
<1>6. ASSUME NEW s \in Saves, NEW c \in Configs, OpenSave(s, c)
      PROVE SerialState'
  <2>1. Quiet
    BY <1>6 DEF OpenSave, TypeOK
  <2>2. ActiveRequests' = {} /\ ActiveSaves' = {s}
    BY <1>6, <2>1 DEF OpenSave, Quiet, ActiveRequests, ActiveSaves, TypeOK
  <2>3. page'[s] = settings'
    BY <1>6 DEF OpenSave, PageSettings, TypeOK
  <2> QED
    BY <1>6, <2>1, <2>2, <2>3 DEF OpenSave, Quiet, SerialState, Alone
<1>7. ASSUME NEW s \in Saves, PostSave(s)
      PROVE SerialState'
  <2>1. s \in ActiveSaves
    BY <1>7 DEF PostSave, ActiveSaves
  <2>2. ActiveRequests = {} /\ ActiveRequests' = {} /\ ActiveSaves' = {}
    BY <1>7, <2>1 DEF PostSave, ActiveRequests, ActiveSaves, SerialState, Alone, TypeOK
  <2>3. settings'.config = adminConfig' /\ settings'.topologyData = settings.topologyData
    BY <1>7, <2>1 DEF PostSave, SerialState
  <2> QED
    BY <1>7, <2>2, <2>3 DEF PostSave, SerialState, Alone
<1>8. ASSUME NEW crash \in BOOLEAN, NewApp(crash)
      PROVE SerialState'
  <2>1. ActiveRequests = {}
    BY <1>8 DEF NewApp, TypeOK
  <2>2. pc' = pc /\ ActiveRequests' = {} /\ ActiveSaves' = ActiveSaves
    BY <1>8, <2>1 DEF NewApp, ActiveRequests, ActiveSaves, TypeOK
  <2>3. current + 1 \in Instances
    BY <1>8, ConstantsAssumption DEF NewApp, Instances, TypeOK
  <2>4. store'[current'] = settings.topologyData
    BY <1>8, <2>3 DEF NewApp, Hydrate, TypeOK
  <2> QED
    BY <1>8, <2>2, <2>4 DEF NewApp, SerialState, Alone
<1>9. CASE UNCHANGED vars
  BY <1>9 DEF vars, SerialState, Alone, ActiveRequests, ActiveSaves
<1> QED
  BY <1>1, <1>2, <1>3, <1>4, <1>5, <1>6, <1>7, <1>8, <1>9 DEF Next, Step

\* As long as writers come one at a time and no call to Grafana fails, whatever the app
\* serves is also saved whenever no request is active.
THEOREM SerialEditsAreSavedAlways == Spec => []SerialEditsAreSaved
<1>1. SerialInv => SerialEditsAreSaved
  BY DEF SerialInv, SerialState, SerialEditsAreSaved
<1> QED
  BY <1>1, TypeCorrect, SerialInit, SerialNext, PTL DEF Spec

\* As long as writers come one at a time, the other fields of the settings stay what
\* the admin last saved, even when calls to Grafana fail.
THEOREM SerialEditsKeepConfigAlways == Spec => []SerialEditsKeepConfig
<1>1. SerialInv => SerialEditsKeepConfig
  BY DEF SerialInv, SerialState, SerialEditsKeepConfig
<1> QED
  BY <1>1, TypeCorrect, SerialInit, SerialNext, PTL DEF Spec

-----------------------------------------------------------------------------
(* Imports answered with success.  A lone writer finds what it has written   *)
(* already in its store at each of its writes, so after the last one the     *)
(* store, and hence history, holds the import whole.                         *)

WasWhole(r) == \E d \in history : \A f \in op[r].files : d[f] = Written(r)

WholeState(r) ==
    /\ reply[r] = "ok" => WasWhole(r)
    /\ pc[r] = "write" => \A f \in op[r].files \ todo[r] : store[app[r]][f] = Written(r)
    /\ pc[r] \in {"idle", "write"} => reply[r] = "none"

WholeInv == ~overlapped => \A r \in Requests : WholeState(r)

\* Nothing is answered at the start.
LEMMA WholeInit == Init => WholeInv
  BY DEF Init, WholeInv, WholeState

\* A step that leaves a request, its app's store and the history's past alone keeps
\* what is known of it.
LEMMA WholeKept ==
    ASSUME NEW r \in Requests, WholeState(r),
           pc'[r] = pc[r] \/ pc'[r] \in {"get", "post", "done"},
           op'[r] = op[r], reply'[r] = reply[r], todo'[r] = todo[r],
           pc'[r] = "write" => store'[app'[r]] = store[app[r]],
           history \subseteq history'
    PROVE  WholeState(r)'
  BY DEF WholeState, WasWhole, Written

\* Every step of a lone writer keeps the part of its import it has written.
LEMMA WholeNext ==
    TypeOK /\ SerialInv /\ WholeInv /\ [Next]_vars => WholeInv'
<1> USE DEF ghosts, pageVars, requestVars
<1>0. TypeOK /\ [Next]_vars /\ ~overlapped' => ~overlapped
  BY DEF Next, Step, vars, Arrive, WriteFile, TakeSnapshot, FetchSettings, PostSettings,
         OpenSave, PostSave, NewApp, TypeOK
<1> SUFFICES ASSUME TypeOK, SerialState, \A r \in Requests : WholeState(r),
                    [Next]_vars, ~overlapped'
             PROVE  \A r \in Requests : WholeState(r)'
  BY <1>0 DEF SerialInv, WholeInv
<1>1. ASSUME NEW r \in Requests, NEW u \in Users, NEW o \in Ops, Arrive(r, u, o),
             NEW q \in Requests
      PROVE WholeState(q)'
  <2>1. /\ UNCHANGED <<store, history>>
        /\ pc[r] = "idle" /\ op'[r] = o
        /\ \/ pc'[r] # "write" /\ reply'[r] \in {"forbidden", "invalid"} /\ pc'[r] # "idle"
           \/ pc'[r] = "write" /\ reply' = reply /\ todo'[r] = o.files
    BY <1>1 DEF Arrive, TypeOK
  <2>2. CASE q = r
    BY <2>1, <2>2 DEF WholeState
  <2>3. CASE q # r
    <3>1. /\ pc'[q] = pc[q] /\ op'[q] = op[q] /\ app'[q] = app[q]
          /\ reply'[q] = reply[q] /\ todo'[q] = todo[q]
      BY <1>1, <2>3 DEF Arrive, TypeOK
    <3> QED
      BY <2>1, <3>1, WholeKept
  <2> QED
    BY <2>2, <2>3
<1>2. ASSUME NEW r \in Requests, NEW f \in Resources, WriteFile(r, f),
             NEW q \in Requests
      PROVE WholeState(q)'
  <2>1. app[r] \in Instances /\ store[app[r]] \in [Resources -> Values]
        /\ todo[r] \in SUBSET Resources /\ op[r].files \subseteq Resources
    BY ConstantsAssumption DEF TypeOK, Data, Op
  <2>2. store'[app[r]] = [store[app[r]] EXCEPT ![f] = Written(r)]
        /\ history' = history \cup {store'[app[r]]}
        /\ UNCHANGED <<op, app>> /\ pc[r] = "write" /\ todo'[r] = todo[r] \ {f}
    BY <1>2, <2>1 DEF WriteFile, Rest, TypeOK
  <2>3. CASE q = r
    <3>1. Written(r)' = Written(r)
      BY <2>2 DEF Written
    <3>2. \A g \in op[r].files \ todo[r] : store[app[r]][g] = Written(r)
      BY <2>2 DEF WholeState
    <3>3. \A g \in op[r].files \ todo'[r] : store'[app[r]][g] = Written(r)
      BY <2>1, <2>2, <3>2
    <3>4. \/ pc'[r] = "write" /\ reply'[r] = reply[r]
          \/ pc'[r] = "snapshot" /\ reply'[r] = "ok" /\ todo'[r] = {}
      BY <1>2 DEF WriteFile, Rest, TypeOK
    <3>5. reply[r] = "none"
      BY <2>2 DEF WholeState
    <3>6. todo'[r] = {} => WasWhole(r)'
      BY <2>2, <3>1, <3>3 DEF WasWhole
    <3> QED
      BY <2>2, <2>3, <3>1, <3>3, <3>4, <3>5, <3>6 DEF WholeState
  <2>4. CASE q # r
    <3>1. /\ pc'[q] = pc[q] /\ op'[q] = op[q] /\ app'[q] = app[q]
          /\ reply'[q] = reply[q] /\ todo'[q] = todo[q]
      BY <1>2, <2>4 DEF WriteFile, TypeOK
    <3>2. pc[q] # "write"
      BY <2>2, <2>4 DEF SerialState, Alone, ActiveRequests
    <3>3. history \subseteq history'
      BY <2>2
    <3> QED
      BY <3>1, <3>2, <3>3, WholeKept
  <2> QED
    BY <2>3, <2>4
<1>3. ASSUME NEW r \in Requests, TakeSnapshot(r) \/ FetchSettings(r) \/ PostSettings(r),
             NEW q \in Requests
      PROVE WholeState(q)'
  <2>1. /\ UNCHANGED <<store, op, app, reply, todo, history>>
        /\ pc'[q] = pc[q] \/ pc'[q] \in {"get", "post", "done"}
    BY <1>3 DEF TakeSnapshot, FetchSettings, PostSettings, PersistFails, TypeOK
  <2> QED
    BY <2>1, WholeKept
<1>4. ASSUME NEW s \in Saves, (\E c \in Configs : OpenSave(s, c)) \/ PostSave(s),
             NEW q \in Requests
      PROVE WholeState(q)'
  <2>1. UNCHANGED <<store, requestVars, history>>
    BY <1>4 DEF OpenSave, PostSave
  <2> QED
    BY <2>1, WholeKept
<1>5. ASSUME NEW crash \in BOOLEAN, NewApp(crash), NEW q \in Requests
      PROVE WholeState(q)'
  <2>1. ActiveRequests = {}
    BY <1>5 DEF NewApp, TypeOK
  <2>2. UNCHANGED <<op, app, reply, todo, history>> /\ pc'[q] = pc[q] /\ pc[q] # "write"
    BY <1>5, <2>1 DEF NewApp, ActiveRequests
  <2> QED
    BY <2>2, WholeKept
<1>6. ASSUME UNCHANGED vars, NEW q \in Requests
      PROVE WholeState(q)'
  BY <1>6, WholeKept DEF vars
<1> QED
  BY <1>1, <1>2, <1>3, <1>4, <1>5, <1>6 DEF Next, Step

\* While writers come one at a time and no app starts under one, an import that was
\* answered with success was in the store with all its files at one moment.
THEOREM AnsweredImportsWereWholeAlways == Spec => []AnsweredImportsWereWhole
<1>1. WholeInv => AnsweredImportsWereWhole
  BY DEF WholeInv, WholeState, WasWhole, AnsweredImportsWereWhole
<1> QED
  BY <1>1, TypeCorrect, SerialInit, SerialNext, WholeInit, WholeNext, PTL DEF Spec

-----------------------------------------------------------------------------
(* TopologyPersistence implements DurableStore: a handler's write is Edit, a  *)
(* POST that Grafana stores is Save, NewApp is Start, all else is a stutter.  *)

\* The initial states are initial states of DurableStore.
LEMMA DurableInit == Init => DS!Init
<1> SUFFICES ASSUME Init PROVE DS!Init
  OBVIOUS
<1>1. TypeOK
  BY TypeInit
<1>2. settings.topologyData \in Data /\ Data = DS!Data
  BY <1>1 DEF TypeOK, Settings, Data, DS!Data
<1> QED
  BY <1>2 DEF Init, DS!Init

\* Every step is one of DurableStore or leaves its variables alone.
LEMMA DurableNext ==
    TypeOK /\ HistoryInv /\ TypeOK' /\ HistoryInv' /\ [Next]_vars => [DS!Next]_(DS!vars)
<1> SUFFICES ASSUME TypeOK, HistoryInv, TypeOK', HistoryInv', [Next]_vars
             PROVE  DS!Next \/ UNCHANGED DS!vars
  OBVIOUS
<1> USE ConstantsAssumption DEF ghosts, pageVars, requestVars, DS!vars
<1>1. ASSUME NEW r \in Requests, NEW u \in Users, NEW o \in Ops, Arrive(r, u, o)
      PROVE UNCHANGED DS!vars
  BY <1>1 DEF Arrive
<1>2. ASSUME NEW r \in Requests, NEW f \in Resources, WriteFile(r, f)
      PROVE DS!Next
  <2>1. app[r] \in Instances /\ Written(r) \in Values
    BY DEF TypeOK, Written, Values
  <2>2. store' = [store EXCEPT ![app[r]] = [@ EXCEPT ![f] = Written(r)]]
        /\ history' = history \cup {store'[app[r]]} /\ UNCHANGED settings
    BY <1>2 DEF WriteFile
  <2>3. DS!Edit
    BY <2>1, <2>2 DEF DS!Edit
  <2> QED
    BY <2>3 DEF DS!Next
<1>3. ASSUME NEW r \in Requests, TakeSnapshot(r)
      PROVE UNCHANGED DS!vars
  BY <1>3 DEF TakeSnapshot
<1>4. ASSUME NEW r \in Requests, FetchSettings(r)
      PROVE UNCHANGED DS!vars
  BY <1>4 DEF FetchSettings
<1>5. ASSUME NEW r \in Requests, PostSettings(r)
      PROVE DS!Next
  <2>1. DS!Save
    BY <1>5 DEF PostSettings, HistoryInv, DS!Save
  <2> QED
    BY <2>1 DEF DS!Next
<1>6. ASSUME NEW s \in Saves, NEW c \in Configs, OpenSave(s, c)
      PROVE UNCHANGED DS!vars
  BY <1>6 DEF OpenSave
<1>7. ASSUME NEW s \in Saves, PostSave(s)
      PROVE DS!Next
  <2>1. DS!Save
    BY <1>7 DEF PostSave, HistoryInv, DS!Save
  <2> QED
    BY <2>1 DEF DS!Next
<1>8. ASSUME NEW crash \in BOOLEAN, NewApp(crash)
      PROVE DS!Next
  <2>1. current + 1 \in Instances
    BY <1>8 DEF NewApp, TypeOK, Instances
  <2>2. DS!Start
    BY <1>8, <2>1 DEF NewApp, Hydrate, DS!Start
  <2> QED
    BY <2>2 DEF DS!Next
<1>9. CASE UNCHANGED vars
  BY <1>9 DEF vars
<1> QED
  BY <1>1, <1>2, <1>3, <1>4, <1>5, <1>6, <1>7, <1>8, <1>9 DEF Next, Step

\* The stores and the saved topology data behave as DurableStore promises.
THEOREM Implementation == Spec => ImplementsDurableStore
  BY TypeCorrect, HistoryInit, HistoryNext, DurableInit, DurableNext, PTL
  DEF Spec, ImplementsDurableStore, DS!Spec
=============================================================================
