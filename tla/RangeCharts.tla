----------------------------- MODULE RangeCharts ------------------------------
(***************************************************************************)
(* The charts of a metric and of the pods, from the time range the user    *)
(* picks to the queries of the backend.                                    *)
(*                                                                         *)
(* Each effect of an open chart sends one request; what an earlier one     *)
(* still brings is ignored, and Grafana cancels it because it has the same *)
(* id.  The handler checks the range and runs the queries of a request,    *)
(* each in a goroutine that needs one of a few slots, for all browsers.    *)
(* The refetch on a refresh tick never happens: the page provides the tick *)
(* as a constant.  In edit mode a chart fetches nothing.                   *)
(***************************************************************************)
EXTENDS Integers, FiniteSets

CONSTANTS
    Browsers,
    Charts,         \* the charts a browser may open: "metric", "pods"
    Ranges,         \* time ranges that may be stored or picked
    Slots,          \* capacity of rangeSem
    MaxFetches      \* bound on the requests of a browser

\* What localStorage has was picked once: an absolute range of at least a minute.  A
\* relative one may be of any length, as another version had other presets.
ASSUME ChartsAssumption ==
    /\ Slots \in Nat \ {0} /\ MaxFetches \in Nat
    /\ Ranges \subseteq [kind : {"relative", "absolute"}, seconds : Int]
    /\ \A r \in Ranges : r.kind = "absolute" => r.seconds <= 0 \/ r.seconds >= 60

-----------------------------------------------------------------------------
(* Time ranges: [kind |-> "relative" or "absolute", seconds |-> length]      *)

Minute == 60
Day == 24 * 3600
Presets == {5 * Minute, 15 * Minute, 30 * Minute, 3600, 7200, 21600, 43200,
            Day, 2 * Day, 7 * Day, 15 * Day}
Larger(x, y) == IF x > y THEN x ELSE y
Smaller(x, y) == IF x < y THEN x ELSE y
Hour == [kind |-> "relative", seconds |-> 3600]

\* What localStorage holds is clamped, or replaced if it makes no sense.
LoadTimeRange(r) ==
    IF r.kind = "relative"
    THEN [kind |-> "relative", seconds |-> Larger(Minute, Smaller(r.seconds, 30 * Day))]
    ELSE IF r.seconds <= 0 THEN Hour ELSE r

Pickable(r) ==
    IF r.kind = "relative" THEN r.seconds \in Presets ELSE r.seconds >= Minute

Step(r) == Larger(15, Larger(r.seconds, 1) \div 240)

MaxWindow == 15 * Day
ValidateRange(r, step) ==
    /\ r.seconds > 0
    /\ r.seconds <= MaxWindow
    /\ step >= 15
    /\ step <= r.seconds

QueriesOf(chart) == IF chart = "pods" THEN {"ready", "desired"} ELSE {"value"}

-----------------------------------------------------------------------------
VARIABLES
    stored,     \* browser -> the range in its localStorage
    chart,      \* browser -> the open chart, or "none"
    range,      \* browser -> the range picked in it
    view,       \* browser -> what it shows
    sent,       \* browser -> number of requests sent so far
    req         \* <<browser, n>> -> its n-th request

chartVars == <<stored, chart, range, view, sent, req>>

Fetches == Browsers \X (1..MaxFetches)
NoRequest == [phase |-> "none"]

TimeRanges == [kind : {"relative", "absolute"}, seconds : Int]
Tasks == UNION {[QueriesOf(c) -> {"waiting", "running", "dropped", "value", "nil"}] : c \in Charts}
Requests ==
    [phase : {"none", "refused", "gone"}]
      \cup [phase : {"sent"}, chart : Charts, range : TimeRanges, cancelled : BOOLEAN]
      \cup [phase : {"served"}, range : TimeRanges, cancelled : BOOLEAN, tasks : Tasks]
      \cup [phase : {"answered"}, range : TimeRanges, tasks : Tasks]

ChartsTypeOK ==
    /\ stored \in [Browsers -> Ranges]
    /\ chart \in [Browsers -> Charts \cup {"none"}]
    /\ range \in [Browsers -> TimeRanges]
    /\ view \in [Browsers -> [status : {"none", "edit", "loading", "error", "refused"}]
                               \cup [status : {"data"}, range : TimeRanges]]
    /\ sent \in [Browsers -> 0..MaxFetches]
    /\ req \in [Fetches -> Requests]

Newest(f) == f[2] = sent[f[1]]
Running == {t \in Fetches \X {"value", "ready", "desired"} :
              req[t[1]].phase = "served" /\ t[2] \in DOMAIN req[t[1]].tasks
                /\ req[t[1]].tasks[t[2]] = "running"}

ChartsInit ==
    /\ stored \in [Browsers -> Ranges]
    /\ chart = [b \in Browsers |-> "none"]
    /\ range = [b \in Browsers |-> Hour]
    /\ view = [b \in Browsers |-> [status |-> "none"]]
    /\ sent = [b \in Browsers |-> 0]
    /\ req = [f \in Fetches |-> NoRequest]

-----------------------------------------------------------------------------
(* The browser                                                               *)

\* The first effect of the chart: the spinner, and a request for the queries of the
\* chart; or an error, if there is no query or no data source.
Fetch(b, c, r) ==
    /\ range' = [range EXCEPT ![b] = r]
    /\ \/ /\ sent[b] < MaxFetches
          /\ sent' = [sent EXCEPT ![b] = @ + 1]
          /\ req' = [req EXCEPT ![<<b, sent[b] + 1>>] =
                       [phase |-> "sent", chart |-> c, range |-> r, cancelled |-> FALSE]]
          /\ view' = [view EXCEPT ![b] = [status |-> "loading"]]
       \/ view' = [view EXCEPT ![b] = [status |-> "error"]] /\ UNCHANGED <<sent, req>>

Open(b, c) ==
    /\ chart[b] = "none"
    /\ chart' = [chart EXCEPT ![b] = c]
    /\ Fetch(b, c, LoadTimeRange(stored[b]))
    /\ UNCHANGED stored

OpenInEditMode(b, c) ==
    /\ chart[b] = "none"
    /\ chart' = [chart EXCEPT ![b] = c]
    /\ view' = [view EXCEPT ![b] = [status |-> "edit"]]
    /\ UNCHANGED <<stored, range, sent, req>>

Pick(b, r) ==
    /\ view[b].status \notin {"none", "edit"}
    /\ Pickable(r)
    /\ stored' = [stored EXCEPT ![b] = r]
    /\ Fetch(b, chart[b], r)
    /\ UNCHANGED chart

\* The queries or data sources of the page are derived anew: the effect runs again.
Rerun(b) ==
    /\ view[b].status \notin {"none", "edit"}
    /\ Fetch(b, chart[b], range[b])
    /\ UNCHANGED <<stored, chart>>

Close(b) ==
    /\ chart[b] # "none"
    /\ chart' = [chart EXCEPT ![b] = "none"]
    /\ view' = [view EXCEPT ![b] = [status |-> "none"]]
    /\ UNCHANGED <<stored, range, sent, req>>

\* Is the controller of this request's effect aborted, or its chart closed?
AbortedNot(f) == FALSE
Aborted(f) == ~Newest(f) \/ view[f[1]].status # "loading"

\* The answer arrives: the chart shows what has data.
Deliver(f) ==
    LET b == f[1]
        outcome == IF req[f].phase = "refused" THEN [status |-> "refused"]
                   ELSE IF \E q \in DOMAIN req[f].tasks : req[f].tasks[q] = "value"
                   THEN [status |-> "data", range |-> req[f].range]
                   ELSE [status |-> "error"] IN
    /\ req[f].phase \in {"answered", "refused"}
    /\ req' = [req EXCEPT ![f] = [phase |-> "gone"]]
    /\ view' = IF Aborted(f) THEN view ELSE [view EXCEPT ![b] = outcome]
    /\ UNCHANGED <<stored, chart, range, sent>>

\* The request fails, or is cancelled before it reaches the handler.
Fail(f) ==
    /\ req[f].phase = "sent"
    /\ req' = [req EXCEPT ![f] = [phase |-> "gone"]]
    /\ view' = IF Aborted(f) THEN view
               ELSE [view EXCEPT ![f[1]] = [status |-> "error"]]
    /\ UNCHANGED <<stored, chart, range, sent>>

-----------------------------------------------------------------------------
(* The backend                                                               *)

Serve(f) ==
    LET r == req[f].range IN
    /\ req[f].phase = "sent"
    /\ req' = [req EXCEPT ![f] =
                 IF ValidateRange(r, Step(r))
                 THEN [phase |-> "served", range |-> r, cancelled |-> req[f].cancelled,
                       tasks |-> [q \in QueriesOf(req[f].chart) |-> "waiting"]]
                 ELSE [phase |-> "refused"]]
    /\ UNCHANGED <<stored, chart, range, view, sent>>

SetTask(f, q, v) ==
    /\ req' = [req EXCEPT ![f] =
                 [phase |-> "served", range |-> req[f].range, cancelled |-> req[f].cancelled,
                  tasks |-> [req[f].tasks EXCEPT ![q] = v]]]
    /\ UNCHANGED <<stored, chart, range, view, sent>>
InState(f, q, v) == req[f].phase = "served" /\ q \in DOMAIN req[f].tasks /\ req[f].tasks[q] = v

Acquire(f, q) == InState(f, q, "waiting") /\ Cardinality(Running) < Slots /\ SetTask(f, q, "running")
GiveUp(f, q) == InState(f, q, "waiting") /\ req[f].cancelled /\ SetTask(f, q, "dropped")
\* A query of a cancelled request fails; so may any other.
FinishIfWanted(f, q) ==
    InState(f, q, "running") /\ ~req[f].cancelled /\ \E v \in {"value", "nil"} : SetTask(f, q, v)
Finish(f, q) ==
    InState(f, q, "running") /\ \E v \in {"value", "nil"} :
        (req[f].cancelled => v = "nil") /\ SetTask(f, q, v)

\* wg.Wait, and the response.
Respond(f) ==
    /\ req[f].phase = "served"
    /\ \A q \in DOMAIN req[f].tasks : req[f].tasks[q] \notin {"waiting", "running"}
    /\ req' = [req EXCEPT ![f] =
                 [phase |-> "answered", range |-> req[f].range, tasks |-> req[f].tasks]]
    /\ UNCHANGED <<stored, chart, range, view, sent>>

Cancelled(r) ==
    IF r.phase = "sent"
    THEN [phase |-> "sent", chart |-> r.chart, range |-> r.range, cancelled |-> TRUE]
    ELSE [phase |-> "served", range |-> r.range, cancelled |-> TRUE, tasks |-> r.tasks]

\* A later request with the same id cancels this one.
Cancel(f) ==
    /\ req[f].phase \in {"sent", "served"} /\ ~req[f].cancelled
    /\ ~Newest(f)
    /\ req' = [req EXCEPT ![f] = Cancelled(@)]
    /\ UNCHANGED <<stored, chart, range, view, sent>>

-----------------------------------------------------------------------------
User(b) ==
    \/ \E c \in Charts : Open(b, c) \/ OpenInEditMode(b, c)
    \/ \E r \in Ranges : Pick(b, r)
    \/ Rerun(b) \/ Close(b)
Transport(f) == Deliver(f) \/ Fail(f) \/ Cancel(f)
Task(f, q) == Acquire(f, q) \/ GiveUp(f, q) \/ Finish(f, q)

ChartsNext ==
    \/ \E b \in Browsers : User(b)
    \/ \E f \in Fetches : Transport(f) \/ Serve(f) \/ Respond(f)
    \/ \E f \in Fetches, q \in {"value", "ready", "desired"} : Task(f, q)

\* Requests reach the backend or fail, its goroutines run, the waiting ones get a slot in
\* turn, and the HTTP client gives up after 30 seconds.  Users do what they like.
ChartsFairness ==
    /\ \A f \in Fetches : WF_chartVars(Deliver(f)) /\ WF_chartVars(Serve(f)) /\ WF_chartVars(Respond(f))
    /\ \A f \in Fetches, q \in {"value", "ready", "desired"} :
          SF_chartVars(Acquire(f, q)) /\ WF_chartVars(Finish(f, q))

ChartsSpec == ChartsInit /\ [][ChartsNext]_chartVars /\ ChartsFairness

-----------------------------------------------------------------------------
(* Properties                                                                *)

\* What a chart shows is of the range that is picked in it, whatever earlier requests
\* bring afterwards: its data, and a refusal, which comes only of a range of more than 15
\* days (the step computed in the browser suits every other range).
ShownIsPicked ==
    \A b \in Browsers :
       /\ view[b].status = "data" => view[b].range = range[b]
       /\ view[b].status = "refused" => range[b].seconds > MaxWindow

\* A chart that loads ends up with data or an error, or is closed, even while others hold
\* all slots or are cancelled in the middle of a query.
ChartsSettle == \A b \in Browsers : view[b].status = "loading" ~> view[b].status # "loading"
=============================================================================
