---------------------------- MODULE BaselineFetch ----------------------------
(***************************************************************************)
(* POST /metrics of the Go backend (handleMetrics).  A request runs its    *)
(* queries for now, one goroutine each, all of them drawing on the         *)
(* process-wide semaphore promSem; one that asks for the baseline then     *)
(* looks in the cache, and on a miss joins the singleflight of its key:    *)
(* the first becomes the leader, looks again, runs the week-ago queries    *)
(* under its OWN context and stores the results; the others wait for what  *)
(* the leader returns.  Any client may go away at any time, which cancels  *)
(* its request's context.                                                  *)
(*                                                                         *)
(* A request is represented by its cache key: Queries[k] are the distinct  *)
(* queries (after deduplicateTasks) of the requests with key k, and a      *)
(* result is "value", "nil" (the query failed) or "missing" (it never ran).*)
(***************************************************************************)
EXTENDS BaselineCache

CONSTANTS
    Requests,   \* the POSTs to /metrics, each made once
    Queries,    \* the distinct queries of the requests with a key
    Slots,      \* capacity of promSem
    NoOne,      \* no request
    None        \* no baseline results

\* What a fetch returns.  An aborted query is nil in the code too: the model keeps it
\* apart to tell a failure of Prometheus from one the leader's client caused.
Batches == UNION {[Queries[k] -> {"value", "nil", "aborted", "missing"}] : k \in Keys}

ASSUME FetchAssumption ==
    /\ Slots \in Nat \ {0}
    /\ \A k \in Keys : IsFiniteSet(Queries[k])
    /\ NoOne \notin Requests
    /\ Batches \subseteq Results /\ None \notin Results

VARIABLES
    pc,          \* where each request's handler is
    key,         \* its cache key
    baseline,    \* includeBaseline
    cancelled,   \* its context is done
    task,        \* the goroutine of each query of the batch it runs last
    promSem,     \* slots taken
    flight,      \* baselineFlight: the leader of each key's call
    joined,      \* the leader of the call a request takes part in
    answer       \* baselineResults of its response; until then what its call returns

requestVars == <<pc, key, baseline, cancelled, task, joined, answer>>
vars == <<cacheVars, requestVars, promSem, flight>>

Phases == {"idle", "current", "get", "join", "check", "fetch", "return", "wait",
           "done", "refused"}
TaskStates == {"queued", "running", "value", "nil", "aborted", "missing"}
Unfinished(r) == {q \in DOMAIN task[r] : task[r][q] \in {"queued", "running"}}

TypeOK ==
    /\ CacheTypeOK
    /\ pc \in [Requests -> Phases]
    /\ key \in [Requests -> Keys]
    /\ baseline \in [Requests -> BOOLEAN]
    /\ cancelled \in [Requests -> BOOLEAN]
    /\ DOMAIN task = Requests
    /\ \A r \in Requests : task[r] \in [Queries[key[r]] -> TaskStates]
    /\ promSem \in Nat
    /\ flight \in [Keys -> Requests \cup {NoOne}]
    /\ joined \in [Requests -> Requests \cup {NoOne}]
    /\ answer \in [Requests -> Results \cup {None}]

Init ==
    /\ CacheInit
    /\ pc = [r \in Requests |-> "idle"]
    /\ key \in [Requests -> Keys]
    /\ baseline \in [Requests -> BOOLEAN]
    /\ cancelled = [r \in Requests |-> FALSE]
    /\ task = [r \in Requests |-> [q \in Queries[key[r]] |-> "missing"]]
    /\ promSem = 0
    /\ flight = [k \in Keys |-> NoOne]
    /\ joined = [r \in Requests |-> NoOne]
    /\ answer = [r \in Requests |-> None]

-----------------------------------------------------------------------------
(* executeQueries                                                            *)

\* All the goroutines of a batch are started at once; the batch ends with the last.
Start(r) == task' = [task EXCEPT ![r] = [q \in Queries[key[r]] |-> "queued"]]

SlotFree == promSem < Slots

Acquire(r, q) ==
    /\ task[r][q] = "queued"
    /\ SlotFree
    /\ task' = [task EXCEPT ![r][q] = "running"]
    /\ promSem' = promSem + 1
    /\ UNCHANGED <<cacheVars, pc, key, baseline, cancelled, joined, answer, flight>>

\* The select takes the other branch: the query is not run and has no result.
Skip(r, q) ==
    /\ task[r][q] = "queued"
    /\ cancelled[r]
    /\ task' = [task EXCEPT ![r][q] = "missing"]
    /\ UNCHANGED <<cacheVars, pc, key, baseline, cancelled, joined, answer, flight, promSem>>

LeakedSlots(r) == IF cancelled[r] THEN promSem ELSE promSem - 1
ReleasedSlots(r) == promSem - 1

\* queryPrometheus answers, with a value or nil; the deferred receive frees the slot.
Finish(r, q) ==
    /\ task[r][q] = "running"
    /\ \E v \in {"value", "nil"} \cup (IF cancelled[r] THEN {"aborted"} ELSE {}) :
        task' = [task EXCEPT ![r][q] = v]
    /\ promSem' = ReleasedSlots(r)
    /\ UNCHANGED <<cacheVars, pc, key, baseline, cancelled, joined, answer, flight>>

-----------------------------------------------------------------------------
(* handleMetrics                                                             *)

Arrive(r) ==
    /\ pc[r] = "idle"
    /\ pc' = [pc EXCEPT ![r] = "current"]
    /\ Start(r)
    /\ UNCHANGED <<cacheVars, key, baseline, cancelled, joined, answer, flight, promSem>>

\* A bad method, body or query, no queries, no token or no datasource map: answered
\* before any query runs.
Refuse(r) ==
    /\ pc[r] = "idle"
    /\ pc' = [pc EXCEPT ![r] = "refused"]
    /\ UNCHANGED <<cacheVars, key, baseline, cancelled, task, joined, answer, flight, promSem>>

\* The current results are complete.
CurrentDone(r) ==
    /\ pc[r] = "current"
    /\ Unfinished(r) = {}
    /\ pc' = [pc EXCEPT ![r] = IF baseline[r] THEN "get" ELSE "done"]
    /\ UNCHANGED <<cacheVars, key, baseline, cancelled, task, joined, answer, flight, promSem>>

CacheGet(r) ==
    /\ pc[r] = "get"
    /\ \/ /\ key[r] \in Fresh
          /\ answer' = [answer EXCEPT ![r] = entries[key[r]].results]
          /\ pc' = [pc EXCEPT ![r] = "done"]
       \/ /\ key[r] \notin Fresh
          /\ pc' = [pc EXCEPT ![r] = "join"]
          /\ UNCHANGED answer
    /\ UNCHANGED <<cacheVars, key, baseline, cancelled, task, joined, flight, promSem>>

-----------------------------------------------------------------------------
(* baselineFlight.Do                                                         *)

LeadsAlways(k) == TRUE
Leads(k) == flight[k] = NoOne

JoinFlight(r) ==
    /\ pc[r] = "join"
    /\ \/ /\ Leads(key[r])
          /\ flight' = [flight EXCEPT ![key[r]] = r]
          /\ joined' = [joined EXCEPT ![r] = r]
          /\ pc' = [pc EXCEPT ![r] = "check"]
       \/ /\ ~Leads(key[r])
          /\ joined' = [joined EXCEPT ![r] = flight[key[r]]]
          /\ pc' = [pc EXCEPT ![r] = "wait"]
          /\ UNCHANGED flight
    /\ UNCHANGED <<cacheVars, key, baseline, cancelled, task, answer, promSem>>

\* The leader looks again: an earlier flight may have filled the cache meanwhile.
FoundNever(k) == FALSE
Found(k) == k \in Fresh

DoubleCheck(r) ==
    /\ pc[r] = "check"
    /\ \/ /\ Found(key[r])
          /\ answer' = [answer EXCEPT ![r] = entries[key[r]].results]
          /\ pc' = [pc EXCEPT ![r] = "return"]
          /\ UNCHANGED task
       \/ /\ ~Found(key[r])
          /\ Start(r)
          /\ pc' = [pc EXCEPT ![r] = "fetch"]
          /\ UNCHANGED answer
    /\ UNCHANGED <<cacheVars, key, baseline, cancelled, joined, flight, promSem>>

\* ctx.Err() of the leader: the results of a cancelled leader are thrown away.
UsableAlways(r) == TRUE
UsableIfAllSucceeded(r) == \A q \in DOMAIN task[r] : task[r][q] = "value"
Usable(r) == ~cancelled[r]

FetchDone(r) ==
    /\ pc[r] = "fetch"
    /\ Unfinished(r) = {}
    /\ pc' = [pc EXCEPT ![r] = "return"]
    /\ \/ /\ Usable(r)
          /\ SetEntry(key[r], task[r])
          /\ answer' = [answer EXCEPT ![r] = task[r]]
       \/ /\ ~Usable(r)
          /\ UNCHANGED <<cacheVars, answer>>
    /\ UNCHANGED <<key, baseline, cancelled, task, joined, flight, promSem>>

\* Do returns: the key is free for another call, and the leader and all who waited
\* get its results, or none of them does.
FlightReturns(r) ==
    LET members == {w \in Requests : joined[w] = r /\ pc[w] \in {"wait", "return"}}
    IN  /\ pc[r] = "return"
        /\ flight' = [flight EXCEPT ![key[r]] = NoOne]
        /\ answer' = [w \in Requests |-> IF w \in members THEN answer[r] ELSE answer[w]]
        /\ pc' = [w \in Requests |-> IF w \in members THEN "done" ELSE pc[w]]
        /\ UNCHANGED <<cacheVars, key, baseline, cancelled, task, joined, promSem>>

\* The client goes away, at any moment before its answer.
Cancel(r) ==
    /\ pc[r] \notin {"idle", "done", "refused"}
    /\ cancelled' = [cancelled EXCEPT ![r] = TRUE]
    /\ UNCHANGED <<cacheVars, pc, key, baseline, task, joined, answer, flight, promSem>>

-----------------------------------------------------------------------------
Step(r) ==
    \/ \E q \in DOMAIN task[r] : Acquire(r, q) \/ Skip(r, q) \/ Finish(r, q)
    \/ CurrentDone(r)
    \/ CacheGet(r)
    \/ JoinFlight(r)
    \/ DoubleCheck(r)
    \/ FetchDone(r)
    \/ FlightReturns(r)

TimePasses == Tick /\ UNCHANGED <<requestVars, promSem, flight>>

Next ==
    \/ \E r \in Requests : Arrive(r) \/ Refuse(r) \/ Step(r) \/ Cancel(r)
    \/ TimePasses

Spec == Init /\ [][Next]_vars

\* A goroutine keeps running, and a query ends within the HTTP client's 30 seconds.
FairSpec == Spec /\ \A r \in Requests : WF_vars(Step(r))

-----------------------------------------------------------------------------
(* Properties                                                                *)

RunningTasks ==
    {t \in Requests \X UNION {Queries[k] : k \in Keys} :
        t[2] \in Queries[key[t[1]]] /\ task[t[1]][t[2]] = "running"}

\* At no moment do the batches of all requests together, current or baseline, run more
\* queries than promSem has slots, and a slot is taken for each of those only.
SlotsRespected == promSem = Cardinality(RunningTasks) /\ promSem <= Slots

\* What is cached, and what a request is answered with, has a result for every query
\* of the request's own key, and none that a departing client cut short.
Complete(k) == [Queries[k] -> {"value", "nil"}]
BaselinesAreComplete ==
    /\ \A k \in DOMAIN entries : entries[k].results \in Complete(k)
    /\ \A r \in Requests : answer[r] # None => answer[r] \in Complete(key[r])

\* However many requests miss the cache at once, one of them fetches a key.
OneFetchPerKey ==
    \A r, s \in Requests :
        pc[r] = "fetch" /\ pc[s] = "fetch" /\ key[r] = key[s] => r = s

\* A key is never fetched while the cache can serve it: a request that missed just
\* before another one's fetch ended doesn't fetch again, and Set never finds its key
\* alive, so a full cache doesn't evict an entry to replace another.
FetchedOnlyIfStale == \A r \in Requests : pc[r] = "fetch" => key[r] \notin Fresh

\* A request that asked for the baseline is answered without it only if the leader of
\* the call it took part in was cancelled, itself or another request.
NoBaselineMeansCancelledLeader ==
    \A r \in Requests :
        pc[r] = "done" /\ baseline[r] /\ answer[r] = None
            => joined[r] # NoOne /\ cancelled[joined[r]]

\* Every request is answered: cancellations, failing queries, a full semaphore and a
\* leader that goes away never leave a handler or its followers waiting.
EveryRequestAnswered == \A r \in Requests : pc[r] = "current" ~> pc[r] = "done"
=============================================================================
