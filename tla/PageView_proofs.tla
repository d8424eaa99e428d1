---------------------------- MODULE PageView_proofs ----------------------------
(***************************************************************************)
(* Three parts of the page that keep a state of their own and share none:  *)
(* a chart shows what is picked in it, for every number of browsers, slots *)
(* and requests and every set of time ranges; the canvas and the stores of *)
(* positions agree, for every set of topologies and places; and the checks *)
(* of the page and of the backend who may edit agree, for every set of     *)
(* users and e-mails and whatever their normal form is.                    *)
(***************************************************************************)
EXTENDS RangeCharts, CanvasLayout, EditPermission, TLAPS

-----------------------------------------------------------------------------
(* Charts                                                                    *)

\* A range that is picked in a chart is never too short for the handler.
LongEnough(r) == r.seconds >= 15

\* The newest request of a loading chart is for the range picked in it; it is refused only
\* if that is too long.
NewestIsPicked ==
    \A f \in Fetches : Newest(f) /\ view[f[1]].status = "loading" =>
       /\ req[f].phase \in {"sent", "served", "answered"} => req[f].range = range[f[1]]
       /\ req[f].phase = "refused" => range[f[1]].seconds > MaxWindow

ChartsInv ==
    /\ ShownIsPicked
    /\ NewestIsPicked
    /\ \A b \in Browsers : LongEnough(range[b]) /\ (view[b].status # "none" => chart[b] \in Charts)

-----------------------------------------------------------------------------
(* Lemmas about time ranges                                                  *)

\* What a chart loads from localStorage is a time range, and long enough.
LEMMA LoadedIsLongEnough ==
    ASSUME NEW r \in Ranges
    PROVE  LoadTimeRange(r) \in TimeRanges /\ LongEnough(LoadTimeRange(r))
<1>1. r \in TimeRanges /\ (r.kind = "absolute" => r.seconds <= 0 \/ r.seconds >= 60)
  BY ChartsAssumption DEF TimeRanges
<1>2. r.seconds \in Int /\ r.kind \in {"relative", "absolute"}
  BY <1>1 DEF TimeRanges
<1>3. CASE r.kind = "relative"
  <2> DEFINE n == Larger(Minute, Smaller(r.seconds, 30 * Day))
  <2>1. n \in Int /\ n >= 15
    BY <1>2 DEF Larger, Smaller, Minute, Day
  <2>2. LoadTimeRange(r) = [kind |-> "relative", seconds |-> n]
    BY <1>3 DEF LoadTimeRange
  <2> QED
    BY <2>1, <2>2 DEF TimeRanges, LongEnough
<1>4. CASE r.kind = "absolute" /\ r.seconds <= 0
  <2>1. LoadTimeRange(r) = [kind |-> "relative", seconds |-> 3600]
    BY <1>4 DEF LoadTimeRange, Hour
  <2> QED
    BY <2>1 DEF TimeRanges, LongEnough
<1>5. CASE r.kind = "absolute" /\ ~(r.seconds <= 0)
  BY <1>1, <1>2, <1>5 DEF LoadTimeRange, LongEnough
<1> QED
  BY <1>2, <1>3, <1>4, <1>5

\* What a user picks is long enough: a preset, or at least a minute.
LEMMA PickedIsLongEnough ==
    ASSUME NEW r \in Ranges, Pickable(r)
    PROVE  r \in TimeRanges /\ LongEnough(r)
<1>1. r \in TimeRanges /\ r.seconds \in Int
  BY ChartsAssumption DEF TimeRanges
<1> QED
  BY <1>1 DEF Pickable, LongEnough, Presets, Minute, Day

\* The step of a range that is long enough suits the handler: only a window of more than
\* 15 days is refused.
LEMMA OnlyTooLongIsRefused ==
    ASSUME NEW r \in TimeRanges, LongEnough(r), ~ValidateRange(r, Step(r))
    PROVE  r.seconds > MaxWindow
<1>1. r.seconds \in Int /\ r.seconds >= 15
  BY DEF TimeRanges, LongEnough
<1>2. Larger(r.seconds, 1) = r.seconds
  BY <1>1 DEF Larger
<1>3. r.seconds \div 240 \in Int /\ r.seconds \div 240 <= r.seconds
  BY <1>1
<1>4. Step(r) \in Int /\ Step(r) >= 15 /\ Step(r) <= r.seconds
  BY <1>1, <1>2, <1>3 DEF Step, Larger
<1> QED
  BY <1>1, <1>4 DEF ValidateRange, MaxWindow, Day

-----------------------------------------------------------------------------
(* Lemmas about requests                                                     *)

\* A request of each phase has the fields of its phase.
LEMMA RequestFields ==
    ASSUME NEW r \in Requests
    PROVE  /\ r.phase \in {"none", "refused", "gone", "sent", "served", "answered"}
           /\ r.phase \in {"sent", "served", "answered"} => r.range \in TimeRanges
           /\ r.phase = "sent" => r.chart \in Charts
           /\ r.phase \in {"sent", "served"} => r.cancelled \in BOOLEAN
           /\ r.phase \in {"served", "answered"} => r.tasks \in Tasks
BY DEF Requests

\* The requests of each phase.
LEMMA RequestIntro ==
    ASSUME NEW c \in Charts, NEW r \in TimeRanges, NEW x \in BOOLEAN, NEW t \in Tasks
    PROVE  /\ [phase |-> "sent", chart |-> c, range |-> r, cancelled |-> x] \in Requests
           /\ [phase |-> "served", range |-> r, cancelled |-> x, tasks |-> t] \in Requests
           /\ [phase |-> "answered", range |-> r, tasks |-> t] \in Requests
           /\ [phase |-> "gone"] \in Requests /\ [phase |-> "refused"] \in Requests
BY DEF Requests

-----------------------------------------------------------------------------
(* The steps                                                                 *)

\* The effect of a chart, for a range that is long enough: its newest request is for it.
LEMMA FetchStep ==
    ASSUME ChartsTypeOK, ChartsInv, NEW b \in Browsers, NEW c \in Charts,
           NEW r \in TimeRanges, LongEnough(r), Fetch(b, c, r),
           chart' = [chart EXCEPT ![b] = c]
    PROVE  /\ range' \in [Browsers -> TimeRanges]
           /\ view' \in [Browsers -> [status : {"none", "edit", "loading", "error", "refused"}]
                                       \cup [status : {"data"}, range : TimeRanges]]
           /\ sent' \in [Browsers -> 0..MaxFetches]
           /\ req' \in [Fetches -> Requests]
           /\ ChartsInv'
<1>1. range' = [range EXCEPT ![b] = r]
  BY DEF Fetch
<1>2. range' \in [Browsers -> TimeRanges] /\ \A x \in Browsers : LongEnough(range'[x])
  BY <1>1 DEF ChartsTypeOK, ChartsInv
<1>0. ASSUME NEW st \in {"loading", "error"}, view' = [view EXCEPT ![b] = [status |-> st]]
      PROVE  \A x \in Browsers : view'[x].status # "none" => chart'[x] \in Charts
  <2>1. chart'[b] = c /\ \A x \in Browsers \ {b} : view'[x] = view[x] /\ chart'[x] = chart[x]
    BY <1>0 DEF ChartsTypeOK
  <2> QED
    BY <2>1 DEF ChartsInv
<1>3. CASE view' = [view EXCEPT ![b] = [status |-> "error"]] /\ UNCHANGED <<sent, req>>
  <2>1. view'[b].status = "error" /\ \A x \in Browsers \ {b} : view'[x] = view[x] /\ range'[x] = range[x]
    BY <1>1, <1>3 DEF ChartsTypeOK
  <2>2. ShownIsPicked'
    BY <2>1 DEF ChartsInv, ShownIsPicked
  <2>3. NewestIsPicked'
    <3> SUFFICES ASSUME NEW f \in Fetches, Newest(f), view'[f[1]].status = "loading"
                 PROVE  /\ req[f].phase \in {"sent", "served", "answered"} => req[f].range = range'[f[1]]
                        /\ req[f].phase = "refused" => range'[f[1]].seconds > MaxWindow
      BY <1>3 DEF NewestIsPicked, Newest
    <3>1. f[1] \in Browsers \ {b}
      BY <2>1 DEF Fetches
    <3> QED
      BY <2>1, <3>1 DEF ChartsInv, NewestIsPicked
  <2> QED
    BY <1>0, <1>2, <1>3, <2>2, <2>3 DEF ChartsTypeOK, ChartsInv
<1>4. ASSUME sent[b] < MaxFetches,
             sent' = [sent EXCEPT ![b] = @ + 1],
             req' = [req EXCEPT ![<<b, sent[b] + 1>>] =
                       [phase |-> "sent", chart |-> c, range |-> r, cancelled |-> FALSE]],
             view' = [view EXCEPT ![b] = [status |-> "loading"]]
      PROVE  /\ view' \in [Browsers -> [status : {"none", "edit", "loading", "error", "refused"}]
                                         \cup [status : {"data"}, range : TimeRanges]]
             /\ sent' \in [Browsers -> 0..MaxFetches]
             /\ req' \in [Fetches -> Requests]
             /\ ShownIsPicked' /\ NewestIsPicked'
  <2> DEFINE new == <<b, sent[b] + 1>>
  <2>1. sent[b] \in 0..MaxFetches /\ sent[b] + 1 \in 1..MaxFetches
    BY <1>4, ChartsAssumption DEF ChartsTypeOK
  <2>2. new \in Fetches
    BY <2>1 DEF Fetches
  <2>3. [phase |-> "sent", chart |-> c, range |-> r, cancelled |-> FALSE] \in Requests
    BY DEF Requests
  <2>4. req' \in [Fetches -> Requests]
    BY <1>4, <2>3 DEF ChartsTypeOK
  <2>5. sent' \in [Browsers -> 0..MaxFetches]
    BY <1>4, <2>1, ChartsAssumption DEF ChartsTypeOK
  <2>6. view'[b].status = "loading" /\ \A x \in Browsers \ {b} : view'[x] = view[x] /\ range'[x] = range[x]
    BY <1>1, <1>4 DEF ChartsTypeOK
  <2>7. ShownIsPicked'
    BY <2>6 DEF ChartsInv, ShownIsPicked
  <2>8. NewestIsPicked'
    <3> SUFFICES ASSUME NEW f \in Fetches, f[2] = sent'[f[1]], view'[f[1]].status = "loading"
                 PROVE  /\ req'[f].phase \in {"sent", "served", "answered"} => req'[f].range = range'[f[1]]
                        /\ req'[f].phase = "refused" => range'[f[1]].seconds > MaxWindow
      BY DEF NewestIsPicked, Newest
    <3>1. f[1] \in Browsers /\ f[2] \in 1..MaxFetches /\ f = <<f[1], f[2]>>
      BY DEF Fetches
    <3>2. CASE f[1] = b
      <4>1. f = new
        BY <1>4, <3>1, <3>2 DEF ChartsTypeOK
      <4>2. req'[f] = [phase |-> "sent", chart |-> c, range |-> r, cancelled |-> FALSE]
        BY <1>4, <2>2, <4>1 DEF ChartsTypeOK
      <4>3. range'[f[1]] = r
        BY <1>1, <3>2 DEF ChartsTypeOK
      <4> QED
        BY <4>2, <4>3
    <3>3. CASE f[1] # b
      <4>1. f # new /\ req'[f] = req[f]
        BY <1>4, <3>3 DEF ChartsTypeOK
      <4>2. f[2] = sent[f[1]] /\ view[f[1]].status = "loading" /\ range'[f[1]] = range[f[1]]
        BY <1>4, <2>6, <3>1, <3>3 DEF ChartsTypeOK
      <4> QED
        BY <4>1, <4>2 DEF ChartsInv, NewestIsPicked, Newest
    <3> QED
      BY <3>2, <3>3
  <2>9. view' \in [Browsers -> [status : {"none", "edit", "loading", "error", "refused"}]
                                \cup [status : {"data"}, range : TimeRanges]]
    BY <1>4 DEF ChartsTypeOK
  <2> QED
    BY <2>4, <2>5, <2>7, <2>8, <2>9
<1> QED
  BY <1>0, <1>2, <1>3, <1>4 DEF Fetch, ChartsInv

\* What the user does: every fetch of a chart is for a range that is long enough.
LEMMA UserStep ==
    ASSUME ChartsTypeOK, ChartsInv, NEW b \in Browsers, User(b)
    PROVE  ChartsTypeOK' /\ ChartsInv'
<1>1. ASSUME NEW c \in Charts, Open(b, c) PROVE ChartsTypeOK' /\ ChartsInv'
  <2>1. stored[b] \in Ranges
    BY DEF ChartsTypeOK
  <2>2. Fetch(b, c, LoadTimeRange(stored[b])) /\ chart' = [chart EXCEPT ![b] = c] /\ UNCHANGED stored
    BY <1>1 DEF Open
  <2> QED
    BY <2>1, <2>2, LoadedIsLongEnough, FetchStep DEF ChartsTypeOK
<1>2. ASSUME NEW r \in Ranges, Pick(b, r) PROVE ChartsTypeOK' /\ ChartsInv'
  <2>1. /\ view[b].status \notin {"none", "edit"} /\ Pickable(r)
        /\ stored' = [stored EXCEPT ![b] = r]
        /\ Fetch(b, chart[b], r) /\ chart' = [chart EXCEPT ![b] = chart[b]]
    BY <1>2 DEF Pick, ChartsTypeOK
  <2>2. chart[b] \in Charts
    BY <2>1 DEF ChartsInv, ChartsTypeOK
  <2> QED
    BY <2>1, <2>2, PickedIsLongEnough, FetchStep DEF ChartsTypeOK
<1>3. CASE Rerun(b)
  <2>1. /\ view[b].status \notin {"none", "edit"}
        /\ Fetch(b, chart[b], range[b]) /\ UNCHANGED stored
        /\ chart' = [chart EXCEPT ![b] = chart[b]]
    BY <1>3 DEF Rerun, ChartsTypeOK
  <2>2. chart[b] \in Charts
    BY <2>1 DEF ChartsInv, ChartsTypeOK
  <2>3. range[b] \in TimeRanges /\ LongEnough(range[b])
    BY DEF ChartsTypeOK, ChartsInv
  <2> QED
    BY <2>1, <2>2, <2>3, FetchStep DEF ChartsTypeOK
<1>4. ASSUME (\E c \in Charts : OpenInEditMode(b, c)) \/ Close(b)
      PROVE  ChartsTypeOK' /\ ChartsInv'
  <2>1. PICK st \in {"edit", "none"} : view' = [view EXCEPT ![b] = [status |-> st]]
    BY <1>4 DEF OpenInEditMode, Close
  <2>1a. \A x \in Browsers : view'[x].status # "none" => chart'[x] \in Charts
    BY <1>4 DEF OpenInEditMode, Close, ChartsTypeOK, ChartsInv
  <2>2. UNCHANGED <<stored, range, sent, req>>
    BY <1>4 DEF OpenInEditMode, Close
  <2>3. chart' \in [Browsers -> Charts \cup {"none"}]
    BY <1>4 DEF OpenInEditMode, Close, ChartsTypeOK
  <2>4. ChartsTypeOK'
    BY <2>1, <2>2, <2>3 DEF ChartsTypeOK
  <2>5. view'[b].status \in {"edit", "none"} /\ \A x \in Browsers \ {b} : view'[x] = view[x]
    BY <2>1 DEF ChartsTypeOK
  <2>6. ShownIsPicked'
    BY <2>2, <2>5 DEF ChartsInv, ShownIsPicked
  <2>7. NewestIsPicked'
    <3> SUFFICES ASSUME NEW f \in Fetches, Newest(f), view'[f[1]].status = "loading"
                 PROVE  /\ req[f].phase \in {"sent", "served", "answered"} => req[f].range = range[f[1]]
                        /\ req[f].phase = "refused" => range[f[1]].seconds > MaxWindow
      BY <2>2 DEF NewestIsPicked, Newest
    <3>1. f[1] \in Browsers \ {b}
      BY <2>5 DEF Fetches
    <3> QED
      BY <2>5, <3>1 DEF ChartsInv, NewestIsPicked
  <2> QED
    BY <2>2, <2>4, <2>6, <2>7, <2>1a DEF ChartsInv
<1> QED
  BY <1>1, <1>2, <1>3, <1>4 DEF User

\* An action that only changes one request, to one of the same range, or of none, or to a
\* refusal of a range that is too long, keeps the invariant.
LEMMA RequestStep ==
    ASSUME ChartsTypeOK, ChartsInv, NEW f \in Fetches, NEW r \in Requests,
           req' = [req EXCEPT ![f] = r], UNCHANGED <<stored, chart, range, view, sent>>,
           Newest(f) /\ view[f[1]].status = "loading" =>
              /\ r.phase \in {"sent", "served", "answered"} => r.range = range[f[1]]
              /\ r.phase = "refused" => range[f[1]].seconds > MaxWindow
    PROVE  ChartsTypeOK' /\ ChartsInv'
<1>1. ChartsTypeOK'
  BY DEF ChartsTypeOK
<1>2. req'[f] = r /\ \A g \in Fetches \ {f} : req'[g] = req[g]
  BY DEF ChartsTypeOK
<1>3. NewestIsPicked'
  <2> SUFFICES ASSUME NEW g \in Fetches, Newest(g), view[g[1]].status = "loading"
               PROVE  /\ req'[g].phase \in {"sent", "served", "answered"} => req'[g].range = range[g[1]]
                      /\ req'[g].phase = "refused" => range[g[1]].seconds > MaxWindow
    BY DEF NewestIsPicked, Newest
  <2>1. CASE g = f
    BY <1>2, <2>1
  <2>2. CASE g # f
    BY <1>2, <2>2 DEF ChartsInv, NewestIsPicked
  <2> QED
    BY <2>1, <2>2
<1> QED
  BY <1>1, <1>3 DEF ChartsInv, ShownIsPicked

\* What the backend does with a request, and Grafana's cancellation of one.
LEMMA BackendStep ==
    ASSUME ChartsTypeOK, ChartsInv, NEW f \in Fetches,
           \/ Serve(f) \/ Respond(f) \/ Cancel(f)
           \/ \E q \in {"value", "ready", "desired"} : Task(f, q)
    PROVE  ChartsTypeOK' /\ ChartsInv'
<1>1. /\ req[f] \in Requests /\ f[1] \in Browsers
      /\ range[f[1]] \in TimeRanges /\ LongEnough(range[f[1]])
  BY DEF ChartsTypeOK, ChartsInv, Fetches
<1>2. Newest(f) /\ view[f[1]].status = "loading" /\ req[f].phase \in {"sent", "served", "answered"}
        => req[f].range = range[f[1]]
  BY DEF ChartsInv, NewestIsPicked
<1>3. CASE Serve(f)
  <2> DEFINE r == req[f].range
             served == [phase |-> "served", range |-> r, cancelled |-> req[f].cancelled,
                        tasks |-> [q \in QueriesOf(req[f].chart) |-> "waiting"]]
             new == IF ValidateRange(r, Step(r)) THEN served ELSE [phase |-> "refused"]
  <2>1. /\ req[f].phase = "sent" /\ UNCHANGED <<stored, chart, range, view, sent>>
        /\ req' = [req EXCEPT ![f] = new]
    BY <1>3 DEF Serve
  <2>2. r \in TimeRanges /\ req[f].chart \in Charts /\ req[f].cancelled \in BOOLEAN
    BY <1>1, <2>1, RequestFields
  <2>3. [q \in QueriesOf(req[f].chart) |-> "waiting"] \in Tasks
    BY <2>2 DEF Tasks
  <2>4. served \in Requests /\ [phase |-> "refused"] \in Requests
    BY <2>2, <2>3 DEF Requests
  <2>5. served.phase = "served" /\ served.range = r
    OBVIOUS
  <2> HIDE DEF served
  <2>6. Newest(f) /\ view[f[1]].status = "loading" =>
           /\ new.phase \in {"sent", "served", "answered"} => new.range = range[f[1]]
           /\ new.phase = "refused" => range[f[1]].seconds > MaxWindow
    <3> SUFFICES ASSUME Newest(f), view[f[1]].status = "loading"
                 PROVE  /\ new.phase \in {"sent", "served", "answered"} => new.range = range[f[1]]
                        /\ new.phase = "refused" => range[f[1]].seconds > MaxWindow
      OBVIOUS
    <3>1. r = range[f[1]]
      BY <1>2, <2>1
    <3>2. CASE ValidateRange(r, Step(r))
      BY <2>5, <3>1, <3>2
    <3>3. CASE ~ValidateRange(r, Step(r))
      <4>1. range[f[1]].seconds > MaxWindow
        BY <1>1, <3>1, <3>3, OnlyTooLongIsRefused
      <4> QED
        BY <3>3, <4>1
    <3> QED
      BY <3>2, <3>3
  <2>7. new \in Requests
    BY <2>4
  <2> HIDE DEF new
  <2> QED
    BY <2>1, <2>6, <2>7, RequestStep
<1>4. CASE Respond(f)
  <2> DEFINE new == [phase |-> "answered", range |-> req[f].range, tasks |-> req[f].tasks]
  <2>1. /\ req[f].phase = "served" /\ UNCHANGED <<stored, chart, range, view, sent>>
        /\ req' = [req EXCEPT ![f] = new]
    BY <1>4 DEF Respond
  <2>2. new \in Requests
    BY <1>1, <2>1, RequestFields DEF Requests
  <2>3. new.phase = "answered" /\ new.range = req[f].range
    OBVIOUS
  <2> HIDE DEF new
  <2> QED
    BY <1>2, <2>1, <2>2, <2>3, RequestStep
<1>5. CASE Cancel(f)
  <2>1. /\ req[f].phase \in {"sent", "served"} /\ ~Newest(f)
        /\ req' = [req EXCEPT ![f] = Cancelled(req[f])]
        /\ UNCHANGED <<stored, chart, range, view, sent>>
    BY <1>5 DEF Cancel
  <2>2. Cancelled(req[f]) \in Requests
    BY <1>1, <2>1, RequestFields DEF Cancelled, Requests
  <2> QED
    BY <2>1, <2>2, RequestStep
<1>6. ASSUME NEW q \in {"value", "ready", "desired"}, Task(f, q) PROVE ChartsTypeOK' /\ ChartsInv'
  <2>1. PICK v \in {"running", "dropped", "value", "nil"} : SetTask(f, q, v)
    BY <1>6 DEF Task, Acquire, GiveUp, Finish
  <2>2. req[f].phase = "served" /\ q \in DOMAIN req[f].tasks
    BY <1>6 DEF Task, Acquire, GiveUp, Finish, InState
  <2> DEFINE new == [phase |-> "served", range |-> req[f].range, cancelled |-> req[f].cancelled,
                     tasks |-> [req[f].tasks EXCEPT ![q] = v]]
  <2>3. req' = [req EXCEPT ![f] = new] /\ UNCHANGED <<stored, chart, range, view, sent>>
    BY <2>1 DEF SetTask
  <2>4. req[f].tasks \in Tasks /\ req[f].range \in TimeRanges /\ req[f].cancelled \in BOOLEAN
    BY <1>1, <2>2, RequestFields
  <2>5. [req[f].tasks EXCEPT ![q] = v] \in Tasks
    BY <2>4 DEF Tasks
  <2>6. new \in Requests
    BY <2>4, <2>5 DEF Requests
  <2>7. new.phase = "served" /\ new.range = req[f].range
    OBVIOUS
  <2> HIDE DEF new
  <2> QED
    BY <1>2, <2>2, <2>3, <2>6, <2>7, RequestStep
<1> QED
  BY <1>3, <1>4, <1>5, <1>6

\* An answer, or the failure of a request: only that of the newest request changes what a
\* loading chart shows.
LEMMA AnswerStep ==
    ASSUME ChartsTypeOK, ChartsInv, NEW f \in Fetches, Deliver(f) \/ Fail(f)
    PROVE  ChartsTypeOK' /\ ChartsInv'
<1> DEFINE b == f[1]
<1>1. /\ req[f] \in Requests /\ b \in Browsers /\ range[b] \in TimeRanges
      /\ [phase |-> "gone"] \in Requests
  BY DEF ChartsTypeOK, Fetches, Requests
<1>2. req' = [req EXCEPT ![f] = [phase |-> "gone"]] /\ UNCHANGED <<stored, chart, range, sent>>
  BY DEF Deliver, Fail
<1>3. req' \in [Fetches -> Requests] /\ req'[f].phase = "gone" /\ \A g \in Fetches \ {f} : req'[g] = req[g]
  BY <1>1, <1>2 DEF ChartsTypeOK
<1>4. CASE view' = view
  BY <1>1, <1>2, <1>4, RequestStep
<1>5. ASSUME view' # view
      PROVE  \E o \in [status : {"error", "refused"}] \cup [status : {"data"}, range : {range[b]}] :
                /\ view' = [view EXCEPT ![b] = o]
                /\ o.status = "refused" => range[b].seconds > MaxWindow
  <2>1. Newest(f) /\ view[b].status = "loading"
    BY <1>5 DEF Deliver, Fail, Aborted
  <2>2. /\ req[f].phase \in {"sent", "served", "answered"} => req[f].range = range[b]
        /\ req[f].phase = "refused" => range[b].seconds > MaxWindow
    BY <2>1 DEF ChartsInv, NewestIsPicked
  <2>3. CASE Fail(f)
    <3>1. view' = [view EXCEPT ![b] = [status |-> "error"]]
      BY <1>5, <2>3 DEF Fail
    <3> WITNESS [status |-> "error"] \in [status : {"error", "refused"}] \cup [status : {"data"}, range : {range[b]}]
    <3> QED
      BY <3>1
  <2>4. CASE Deliver(f)
    <3> DEFINE outcome == IF req[f].phase = "refused" THEN [status |-> "refused"]
                          ELSE IF \E q \in DOMAIN req[f].tasks : req[f].tasks[q] = "value"
                          THEN [status |-> "data", range |-> req[f].range]
                          ELSE [status |-> "error"]
    <3>1. req[f].phase \in {"answered", "refused"} /\ view' = [view EXCEPT ![b] = outcome]
      BY <1>5, <2>4 DEF Deliver
    <3>2. CASE req[f].phase = "refused"
      <4>1. outcome = [status |-> "refused"]
        BY <3>2
      <4> HIDE DEF outcome
      <4> WITNESS [status |-> "refused"] \in [status : {"error", "refused"}] \cup [status : {"data"}, range : {range[b]}]
      <4> QED
        BY <2>2, <3>1, <3>2, <4>1
    <3>3. CASE req[f].phase = "answered"
      <4>1. outcome \in {[status |-> "data", range |-> range[b]], [status |-> "error"]}
        BY <2>2, <3>3
      <4>2. outcome \in [status : {"error", "refused"}] \cup [status : {"data"}, range : {range[b]}]
              /\ outcome.status # "refused"
        BY <4>1
      <4> HIDE DEF outcome
      <4> QED
        BY <3>1, <4>2
    <3> QED
      BY <3>1, <3>2, <3>3
  <2> QED
    BY <2>3, <2>4
<1>6. CASE view' # view
  <2>1. PICK o \in [status : {"error", "refused"}] \cup [status : {"data"}, range : {range[b]}] :
           /\ view' = [view EXCEPT ![b] = o]
           /\ o.status = "refused" => range[b].seconds > MaxWindow
    BY <1>5, <1>6
  <2>2. view'[b] = o /\ \A x \in Browsers \ {b} : view'[x] = view[x]
    BY <1>1, <2>1 DEF ChartsTypeOK
  <2>3. o.status # "loading" /\ (o.status = "data" => o.range = range[b])
    BY <2>1
  <2>4. view' \in [Browsers -> [status : {"none", "edit", "loading", "error", "refused"}]
                                \cup [status : {"data"}, range : TimeRanges]]
    BY <1>1, <2>1 DEF ChartsTypeOK
  <2>5. ChartsTypeOK'
    BY <1>2, <1>3, <2>4 DEF ChartsTypeOK
  <2>6. ShownIsPicked'
    BY <1>2, <2>1, <2>2, <2>3 DEF ChartsInv, ShownIsPicked
  <2>7. NewestIsPicked'
    <3> SUFFICES ASSUME NEW g \in Fetches, Newest(g), view'[g[1]].status = "loading"
                 PROVE  /\ req'[g].phase \in {"sent", "served", "answered"} => req'[g].range = range[g[1]]
                        /\ req'[g].phase = "refused" => range[g[1]].seconds > MaxWindow
      BY <1>2 DEF NewestIsPicked, Newest
    <3>1. g[1] \in Browsers \ {b} /\ g # f
      BY <2>2, <2>3 DEF Fetches
    <3> QED
      BY <1>3, <2>2, <3>1 DEF ChartsInv, NewestIsPicked
  <2> QED
    <3>1. \A x \in Browsers : view'[x].status # "none" => view[x].status # "none"
      BY <1>5, <1>6, <2>2 DEF Deliver, Fail, Aborted
    <3>2. \A x \in Browsers : view'[x].status # "none" => chart[x] \in Charts
      BY <3>1 DEF ChartsInv
    <3> QED
      BY <1>2, <2>5, <2>6, <2>7, <3>2 DEF ChartsInv
<1> QED
  BY <1>4, <1>6

-----------------------------------------------------------------------------
(* The theorems                                                              *)

\* Before a chart is opened there is nothing to agree with.
LEMMA ChartsInitInv == ChartsInit => ChartsTypeOK /\ ChartsInv
<1> SUFFICES ASSUME ChartsInit PROVE ChartsTypeOK /\ ChartsInv
  OBVIOUS
<1>1. Hour \in TimeRanges /\ LongEnough(Hour)
  BY DEF Hour, TimeRanges, LongEnough
<1>2. NoRequest \in Requests
  BY DEF NoRequest, Requests
<1>3. sent \in [Browsers -> 0..MaxFetches]
  BY ChartsAssumption DEF ChartsInit
<1>4. ChartsTypeOK
  BY <1>1, <1>2, <1>3 DEF ChartsInit, ChartsTypeOK
<1>5. \A b \in Browsers : view[b].status = "none" /\ range[b] = Hour
  BY DEF ChartsInit
<1> QED
  BY <1>1, <1>4, <1>5 DEF ChartsInv, ShownIsPicked, NewestIsPicked, Fetches

\* Every step keeps the invariant.
LEMMA ChartsStep == ChartsTypeOK /\ ChartsInv /\ [ChartsNext]_chartVars => ChartsTypeOK' /\ ChartsInv'
<1> SUFFICES ASSUME ChartsTypeOK, ChartsInv, [ChartsNext]_chartVars
             PROVE  ChartsTypeOK' /\ ChartsInv'
  OBVIOUS
<1>1. CASE UNCHANGED chartVars
  BY <1>1 DEF chartVars, ChartsTypeOK, ChartsInv, ShownIsPicked, NewestIsPicked, Newest
<1>2. CASE \E b \in Browsers : User(b)
  BY <1>2, UserStep
<1>3. CASE \E f \in Fetches : Transport(f) \/ Serve(f) \/ Respond(f)
  BY <1>3, AnswerStep, BackendStep DEF Transport
<1>4. CASE \E f \in Fetches, q \in {"value", "ready", "desired"} : Task(f, q)
  BY <1>4, BackendStep
<1> QED
  BY <1>1, <1>2, <1>3, <1>4 DEF ChartsNext

\* Charts, ranges and requests have their types.
THEOREM ChartsTypeCorrect == ChartsSpec => []ChartsTypeOK
BY ChartsInitInv, ChartsStep, PTL DEF ChartsSpec

\* What a chart shows, data or a refusal, is of the range that is picked in it, whatever
\* order the answers of its requests arrive in.
THEOREM ShownIsAlwaysPicked == ChartsSpec => []ShownIsPicked
<1>1. ChartsInv => ShownIsPicked
  BY DEF ChartsInv
<1> QED
  BY <1>1, ChartsInitInv, ChartsStep, PTL DEF ChartsSpec

-----------------------------------------------------------------------------
(* The canvas.  The effect of useTopologyFlow is the heart of every step: one *)
(* lemma says what it leaves behind, whatever page and screen it is given.    *)

\* What CanvasIsLocal needs of the steps before: a canvas has a place for each card, edit
\* mode is never collapsed, and there is a topology to show.
CanvasInv ==
    /\ CanvasIsLocal
    /\ DOMAIN canvas.at = canvas.nodes
    /\ screen.editing => ~screen.collapse
    /\ \E g \in Flows : Exists(saved, g)
    /\ canvas # NoCanvas => \E g \in Flows : Exists(page, g)

-----------------------------------------------------------------------------
(* Lemmas about layouts                                                      *)

\* The layouts are the functions from cards to places.
LEMMA LayoutIntro ==
    ASSUME NEW D \in SUBSET Cards, NEW l \in [D -> Spots \cup {"auto", "seq"}]
    PROVE  l \in Layouts
BY DEF Layouts

\* A layout has a place for each card of its domain.
LEMMA LayoutElim ==
    ASSUME NEW l \in Layouts
    PROVE  /\ DOMAIN l \in SUBSET Cards
           /\ l \in [DOMAIN l -> Spots \cup {"auto", "seq"}]
BY DEF Layouts

\* The automatic layout is a layout; what is not set is none.
LEMMA NoLayoutIsLayout == NoLayout \in Layouts /\ Unset \notin Layouts
<1>1. NoLayout \in [{} -> Spots \cup {"auto", "seq"}]
  BY DEF NoLayout
<1>2. "none" \in DOMAIN Unset /\ "none" \notin Cards
  BY DEF Unset, Cards
<1> QED
  BY <1>1, <1>2, LayoutIntro, LayoutElim

\* A card's place in a layout is a spot, or left to the automatic layout.
LEMMA AtType ==
    ASSUME NEW l \in Layouts, NEW c
    PROVE  At(l, c) \in Spots \cup {"auto", "seq"}
BY LayoutElim DEF At

\* What is kept of a layout agrees with it on the cards that are drawn.
LEMMA KeepAgrees ==
    ASSUME NEW l \in Layouts, NEW nodes \in SUBSET Cards
    PROVE  /\ Keep(l, nodes) \in Layouts
           /\ \A c \in nodes : At(Keep(l, nodes), c) = At(l, c)
<1>1. Keep(l, nodes) \in [DOMAIN l \cap nodes -> Spots \cup {"auto", "seq"}]
  BY LayoutElim DEF Keep
<1>2. DOMAIN l \cap nodes \in SUBSET Cards
  OBVIOUS
<1>3. Keep(l, nodes) \in Layouts
  BY <1>1, <1>2, LayoutIntro
<1>4. ASSUME NEW c \in nodes PROVE At(Keep(l, nodes), c) = At(l, c)
  BY DEF Keep, At
<1> QED
  BY <1>3, <1>4

\* Some topology is shown whenever there is one.
LEMMA EffectiveExists ==
    ASSUME NEW p, NEW sel \in Flows, \E g \in Flows : Exists(p, g)
    PROVE  Effective(p, sel) \in Flows /\ Exists(p, Effective(p, sel))
BY DEF Effective

-----------------------------------------------------------------------------
(* The effect                                                                *)

\* The layout the effect starts from is a layout, and the saved one if there is one.
LEMMA PriorityType ==
    ASSUME LayoutTypeOK, NEW p \in [Flows -> FlowDocuments], NEW f \in Flows
    PROVE  /\ Bundle(p, f) \in [Flows -> Layouts \cup {Unset}]
           /\ Pruned(p) \in [Flows -> Layouts \cup {Unset}]
           /\ Exists(p, f) => Pruned(p)[f] = local[f]
           /\ Priority(Bundle(p, f)[f], Pruned(p)[f]) \in Layouts
           /\ p[f].layout # NoLayout => Priority(Bundle(p, f)[f], Pruned(p)[f]) = p[f].layout
<1>1. p[f].layout \in Layouts
  BY DEF FlowDocuments
<1>2. Bundle(p, f) \in [Flows -> Layouts \cup {Unset}]
  BY <1>1 DEF Bundle, LayoutTypeOK
<1>3. Pruned(p) \in [Flows -> Layouts \cup {Unset}]
  BY DEF Pruned, LayoutTypeOK
<1>4. Exists(p, f) => Pruned(p)[f] = local[f]
  BY DEF Pruned
<1>5. Priority(Bundle(p, f)[f], Pruned(p)[f]) \in Layouts
  BY <1>2, <1>3, NoLayoutIsLayout DEF Priority
<1>6. ASSUME p[f].layout # NoLayout
      PROVE  Priority(Bundle(p, f)[f], Pruned(p)[f]) = p[f].layout
  <2>1. Bundle(p, f)[f] = p[f].layout
    BY <1>6 DEF Bundle, LayoutTypeOK
  <2> QED
    BY <2>1, <1>1, NoLayoutIsLayout DEF Priority
<1> QED
  BY <1>2, <1>3, <1>4, <1>5, <1>6

\* After the effect, for any page and screen, the canvas is what CanvasIsLocal says.
LEMMA EffectStep ==
    ASSUME LayoutTypeOK, CanvasInv,
           NEW p \in [Flows -> FlowDocuments], NEW s \in Screens,
           \E g \in Flows : Exists(p, g), s.editing => ~s.collapse,
           Initialize(p, s), page' = p, screen' = s
    PROVE  /\ bundled' \in [Flows -> Layouts \cup {Unset}]
           /\ local' \in [Flows -> Layouts \cup {Unset}]
           /\ canvas' \in [flow : Flows \cup {"none"}, nodes : SUBSET Cards, seq : BOOLEAN, at : Layouts]
           /\ canvas'.flow \in Flows
           /\ CanvasIsLocal'
           /\ DOMAIN canvas'.at = canvas'.nodes
<1> DEFINE f == Effective(p, s.selected)
           nodes == Drawn(p[f].nodes, s.collapse)
           seq == s.sequence /\ f \in Sequenced
           layout == Priority(Bundle(p, f)[f], Pruned(p)[f])
           same == canvas.flow = f /\ canvas.nodes = nodes /\ canvas.seq = seq
           at == [c \in nodes |-> IF seq THEN "seq" ELSE At(layout, c)]
<1>1. f \in Flows /\ Exists(p, f)
  BY EffectiveExists DEF Screens
<1>2. nodes \in SUBSET Cards
  BY <1>1 DEF Drawn, FlowDocuments
<1>3. /\ bundled' = Bundle(p, f)
      /\ canvas' = IF same THEN canvas ELSE Canvas(f, nodes, seq, at)
      /\ local' = IF same \/ seq THEN Pruned(p) ELSE [Pruned(p) EXCEPT ![f] = Keep(layout, nodes)]
  BY Zenon DEF Initialize
<1>4. /\ Bundle(p, f) \in [Flows -> Layouts \cup {Unset}]
      /\ Pruned(p) \in [Flows -> Layouts \cup {Unset}]
      /\ Pruned(p)[f] = local[f]
      /\ layout \in Layouts
  BY <1>1, PriorityType
<1>5. nodes = IF s.editing THEN p[f].nodes ELSE Drawn(p[f].nodes, s.collapse)
  BY DEF Drawn
<1>6. seq \in BOOLEAN
  OBVIOUS
<1> HIDE DEF f, nodes, seq, layout
<1>7. CASE same
  <2>1. canvas' = canvas /\ local' = Pruned(p)
    BY <1>3, <1>7
  <2>2. canvas # NoCanvas
    BY <1>7, <1>1, LayoutAssumption DEF NoCanvas, Canvas
  <2>3. canvas.seq \/ (local[f] # Unset /\ \A c \in canvas.nodes : canvas.at[c] = At(local[f], c))
    BY <2>2, <1>7 DEF CanvasInv, CanvasIsLocal
  <2>4. CanvasIsLocal'
    <3> SUFFICES /\ canvas.flow = f
                 /\ canvas.nodes = IF s.editing THEN p[f].nodes ELSE Drawn(p[f].nodes, s.collapse)
                 /\ canvas.seq \/ (local'[f] # Unset /\ \A c \in canvas.nodes : canvas.at[c] = At(local'[f], c))
      BY <2>1 DEF CanvasIsLocal, f
    <3> QED
      BY <2>1, <2>3, <1>4, <1>5, <1>7
  <2> QED
    BY <2>1, <2>4, <1>1, <1>3, <1>4, <1>7 DEF LayoutTypeOK, CanvasInv
<1>8. CASE ~same
  <2>1. canvas' = Canvas(f, nodes, seq, at)
    BY <1>3, <1>8
  <2>2. /\ canvas'.flow = f /\ canvas'.nodes = nodes
        /\ canvas'.seq = seq /\ canvas'.at = at
    BY <2>1 DEF Canvas
  <2>3. at \in [nodes -> Spots \cup {"auto", "seq"}]
    BY <1>4, AtType
  <2>4. at \in Layouts
    BY <2>3, <1>2, LayoutIntro
  <2>5. canvas' \in [flow : Flows \cup {"none"}, nodes : SUBSET Cards, seq : BOOLEAN, at : Layouts]
    BY <2>1, <2>4, <1>1, <1>2, <1>6 DEF Canvas
  <2>6. Keep(layout, nodes) \in Layouts /\ \A c \in nodes : At(Keep(layout, nodes), c) = At(layout, c)
    BY <1>2, <1>4, KeepAgrees
  <2>7. local' = IF seq THEN Pruned(p) ELSE [Pruned(p) EXCEPT ![f] = Keep(layout, nodes)]
    BY <1>3, <1>8
  <2>8. local' \in [Flows -> Layouts \cup {Unset}]
    BY <2>6, <2>7, <1>4
  <2>9. seq \/ (local'[f] # Unset /\ \A c \in nodes : at[c] = At(local'[f], c))
    <3> SUFFICES ASSUME ~seq PROVE local'[f] # Unset /\ \A c \in nodes : at[c] = At(local'[f], c)
      OBVIOUS
    <3>1. local'[f] = Keep(layout, nodes)
      BY <2>7, <1>1, <1>4
    <3> QED
      BY <3>1, <2>6, NoLayoutIsLayout
  <2>10. CanvasIsLocal'
    <3> SUFFICES /\ canvas'.flow = f
                 /\ canvas'.nodes = IF s.editing THEN p[f].nodes ELSE Drawn(p[f].nodes, s.collapse)
                 /\ canvas'.seq \/ (local'[f] # Unset /\ \A c \in canvas'.nodes : canvas'.at[c] = At(local'[f], c))
      BY DEF CanvasIsLocal, f
    <3> QED
      BY <2>2, <2>9, <1>5
  <2>11. DOMAIN canvas'.at = canvas'.nodes
    BY <2>2, <2>3
  <2> QED
    BY <2>2, <2>5, <2>8, <2>10, <2>11, <1>1, <1>3, <1>4
<1> QED
  BY <1>7, <1>8

-----------------------------------------------------------------------------
(* The inductive invariant                                                   *)

\* It holds before anything is loaded.
LEMMA InvInit == LayoutInit => LayoutTypeOK /\ CanvasInv
<1> SUFFICES ASSUME LayoutInit PROVE LayoutTypeOK /\ CanvasInv
  OBVIOUS
<1>1. NoLayout \in Layouts /\ {} \in SUBSET Cards /\ Cards \ {"db"} \in SUBSET Cards
  BY NoLayoutIsLayout
<1>2. PICK f \in Flows : screen = Screen(f, FALSE, FALSE, FALSE)
  BY DEF LayoutInit
<1>3. screen \in Screens
  BY <1>2 DEF Screen, Screens
<1>4. saved \in [Flows -> FlowDocuments]
  BY <1>1 DEF LayoutInit, FlowDocuments
<1>5. page \in [Flows -> FlowDocuments]
  BY <1>1 DEF LayoutInit, FlowDocuments
<1>6. canvas \in [flow : Flows \cup {"none"}, nodes : SUBSET Cards, seq : BOOLEAN, at : Layouts]
  BY <1>1 DEF LayoutInit, NoCanvas, Canvas
<1>7. LayoutTypeOK
  <2>1. bundled \in [Flows -> Layouts \cup {Unset}] /\ local \in [Flows -> Layouts \cup {Unset}]
    BY DEF LayoutInit
  <2>2. drags \in 0..MaxDrags /\ others \in 0..MaxOthers
    BY LayoutAssumption DEF LayoutInit
  <2> QED
    BY <1>3, <1>4, <1>5, <1>6, <2>1, <2>2 DEF LayoutTypeOK
<1>8. Exists(saved, f)
  <2>1. saved[f] \in [nodes : {Cards, Cards \ {"db"}}, layout : {NoLayout}]
    BY DEF LayoutInit
  <2>2. "svc" \in Cards /\ "svc" \in Cards \ {"db"}
    BY DEF Cards
  <2> QED
    BY <2>1, <2>2 DEF Exists
<1>9. DOMAIN canvas.at = canvas.nodes
  BY DEF LayoutInit, NoCanvas, Canvas, NoLayout
<1> QED
  BY <1>2, <1>7, <1>8, <1>9 DEF CanvasInv, CanvasIsLocal, LayoutInit, Screen

\* An action of the user that changes the screen, and the effect after it.
LEMMA ShowStep ==
    ASSUME LayoutTypeOK, CanvasInv, NEW s \in Screens, s.editing => ~s.collapse, Show(s)
    PROVE  LayoutTypeOK' /\ CanvasInv'
<1>1. \E g \in Flows : Exists(page, g)
  BY DEF Show, CanvasInv
<1>2. page \in [Flows -> FlowDocuments] /\ page' = page /\ screen' = s /\ Initialize(page, s)
  BY DEF Show, LayoutTypeOK
<1>3. /\ bundled' \in [Flows -> Layouts \cup {Unset}]
      /\ local' \in [Flows -> Layouts \cup {Unset}]
      /\ canvas' \in [flow : Flows \cup {"none"}, nodes : SUBSET Cards, seq : BOOLEAN, at : Layouts]
      /\ CanvasIsLocal'
      /\ DOMAIN canvas'.at = canvas'.nodes
  BY <1>1, <1>2, EffectStep
<1>4. LayoutTypeOK'
  BY <1>2, <1>3 DEF LayoutTypeOK, Show
<1>5. CanvasInv'
  BY <1>1, <1>2, <1>3 DEF CanvasInv, Show, Exists
<1> QED
  BY <1>4, <1>5

\* Every choice of the user about what is shown is such an action.
LEMMA ScreenStep ==
    ASSUME LayoutTypeOK, CanvasInv,
           (\E f \in Flows : Select(f)) \/ ToggleEditMode \/ ToggleCollapse \/ ToggleSequence
    PROVE  \E s \in Screens : (s.editing => ~s.collapse) /\ Show(s)
<1>1. /\ screen.selected \in Flows /\ screen.editing \in BOOLEAN
      /\ screen.collapse \in BOOLEAN /\ screen.sequence \in BOOLEAN
      /\ screen.editing => ~screen.collapse
  BY DEF LayoutTypeOK, Screens, CanvasInv
<1>2. ASSUME NEW f \in Flows, NEW e \in BOOLEAN, NEW c \in BOOLEAN, NEW q \in BOOLEAN,
             e => ~c, Show(Screen(f, e, c, q))
      PROVE  \E s \in Screens : (s.editing => ~s.collapse) /\ Show(s)
  <2>1. Screen(f, e, c, q) \in Screens
    BY DEF Screen, Screens
  <2>2. Screen(f, e, c, q).editing => ~Screen(f, e, c, q).collapse
    BY <1>2 DEF Screen
  <2> QED
    BY <1>2, <2>1, <2>2
<1>3. ASSUME NEW f \in Flows, Select(f) PROVE \E s \in Screens : (s.editing => ~s.collapse) /\ Show(s)
  BY <1>1, <1>2, <1>3 DEF Select
<1>4. CASE ToggleEditMode
  <2>1. Show(Screen(screen.selected, ~screen.editing, screen.collapse /\ screen.editing, screen.sequence))
    BY <1>4 DEF ToggleEditMode
  <2>2. ~(screen.collapse /\ screen.editing)
    BY <1>1
  <2>3. (~screen.editing) \in BOOLEAN /\ (screen.collapse /\ screen.editing) \in BOOLEAN
    OBVIOUS
  <2> QED
    BY <1>1, <1>2, <2>1, <2>2, <2>3
<1>5. CASE ToggleCollapse
  <2>1. ~screen.editing /\ Show(Screen(screen.selected, screen.editing, ~screen.collapse, screen.sequence))
    BY <1>5 DEF ToggleCollapse
  <2>2. (~screen.collapse) \in BOOLEAN
    OBVIOUS
  <2> QED
    BY <1>1, <1>2, <2>1, <2>2
<1>6. CASE ToggleSequence
  <2>1. Show(Screen(screen.selected, screen.editing, screen.collapse, ~screen.sequence))
    BY <1>6 DEF ToggleSequence
  <2>2. (~screen.sequence) \in BOOLEAN
    OBVIOUS
  <2> QED
    BY <1>1, <1>2, <2>1, <2>2
<1> QED
  BY <1>3, <1>4, <1>5, <1>6

\* A drag writes the place to the canvas and to the local layout at once.
LEMMA DragStep ==
    ASSUME LayoutTypeOK, CanvasInv, NEW c \in Cards, NEW q \in Spots, Drag(c, q)
    PROVE  LayoutTypeOK' /\ CanvasInv'
<1> DEFINE f == canvas.flow
           old == local[f]
           new == [x \in {c} \cup (IF old = Unset THEN {} ELSE DOMAIN old) |-> IF x = c THEN q ELSE old[x]]
<1>1. /\ screen.editing /\ ~canvas.seq /\ c \in canvas.nodes /\ drags < MaxDrags
      /\ canvas' = Canvas(f, canvas.nodes, FALSE, [canvas.at EXCEPT ![c] = q])
      /\ drags' = drags + 1
      /\ UNCHANGED <<saved, page, bundled, screen, others>>
  BY DEF Drag
<1>2. local' = [local EXCEPT ![f] = new]
  BY Zenon DEF Drag
<1>3. canvas # NoCanvas
  BY <1>1 DEF NoCanvas, Canvas
<1>4. /\ f = Effective(page, screen.selected)
      /\ canvas.nodes = IF screen.editing THEN page[f].nodes ELSE Drawn(page[f].nodes, screen.collapse)
      /\ old # Unset /\ \A x \in canvas.nodes : canvas.at[x] = At(old, x)
  BY <1>1, <1>3 DEF CanvasInv, CanvasIsLocal
<1>5. f \in Flows /\ \E g \in Flows : Exists(page, g)
  BY <1>3, <1>4, EffectiveExists DEF CanvasInv, LayoutTypeOK, Screens
<1>6. old \in Layouts
  BY <1>4, <1>5 DEF LayoutTypeOK
<1>7. new \in Layouts /\ new # Unset
  <2>1. /\ old \in [DOMAIN old -> Spots \cup {"auto", "seq"}] /\ DOMAIN old \in SUBSET Cards
    BY <1>6, LayoutElim
  <2>2. new = [x \in {c} \cup DOMAIN old |-> IF x = c THEN q ELSE old[x]]
    BY <1>4
  <2>3. new \in [{c} \cup DOMAIN old -> Spots \cup {"auto", "seq"}]
    BY <2>1, <2>2
  <2>4. new \in Layouts
    BY <2>1, <2>3, LayoutIntro
  <2> QED
    BY <2>4, NoLayoutIsLayout
<1>8. [canvas.at EXCEPT ![c] = q] \in Layouts /\ DOMAIN [canvas.at EXCEPT ![c] = q] = canvas.nodes
  <2>1. canvas.at \in [canvas.nodes -> Spots \cup {"auto", "seq"}] /\ canvas.nodes \in SUBSET Cards
    BY LayoutElim DEF LayoutTypeOK, CanvasInv
  <2>2. [canvas.at EXCEPT ![c] = q] \in [canvas.nodes -> Spots \cup {"auto", "seq"}]
    BY <2>1
  <2> QED
    BY <2>1, <2>2, LayoutIntro
<1>9. /\ canvas'.flow = f /\ canvas'.nodes = canvas.nodes
      /\ canvas'.at = [canvas.at EXCEPT ![c] = q]
  BY <1>1 DEF Canvas
<1>10. LayoutTypeOK'
  <2>1. canvas' \in [flow : Flows \cup {"none"}, nodes : SUBSET Cards, seq : BOOLEAN, at : Layouts]
    BY <1>1, <1>5, <1>8 DEF Canvas, LayoutTypeOK
  <2>2. local' \in [Flows -> Layouts \cup {Unset}]
    BY <1>2, <1>7 DEF LayoutTypeOK
  <2>3. drags' \in 0..MaxDrags
    BY <1>1, LayoutAssumption DEF LayoutTypeOK
  <2> QED
    BY <1>1, <2>1, <2>2, <2>3 DEF LayoutTypeOK
<1>11. local'[f] = new
  BY <1>2, <1>5 DEF LayoutTypeOK
<1>12. ASSUME NEW x \in canvas.nodes PROVE canvas'.at[x] = At(new, x)
  <2>1. DOMAIN canvas.at = canvas.nodes
    BY DEF CanvasInv
  <2>2. canvas'.at[x] = IF x = c THEN q ELSE canvas.at[x]
    BY <1>9, <2>1
  <2>3. canvas.at[x] = At(old, x)
    BY <1>4
  <2>4. At(new, x) = IF x = c THEN q ELSE At(old, x)
    BY <1>4 DEF At
  <2> QED
    BY <2>2, <2>3, <2>4
<1> HIDE DEF new, old
<1>13. CanvasIsLocal'
  <2> SUFFICES /\ canvas'.flow = Effective(page, screen.selected)
               /\ canvas'.nodes = IF screen.editing THEN page[f].nodes ELSE Drawn(page[f].nodes, screen.collapse)
               /\ local'[f] # Unset /\ \A x \in canvas'.nodes : canvas'.at[x] = At(local'[f], x)
    BY <1>1, <1>4 DEF CanvasIsLocal
  <2> QED
    BY <1>4, <1>7, <1>9, <1>11, <1>12
<1>14. CanvasInv'
  BY <1>1, <1>3, <1>8, <1>9, <1>13 DEF CanvasInv, Exists
<1> QED
  BY <1>10, <1>14

\* Saving writes the canvas' places into the flow, in the backend and on the page.
LEMMA SaveStep ==
    ASSUME LayoutTypeOK, CanvasInv, SaveLayout
    PROVE  LayoutTypeOK' /\ CanvasInv'
<1> DEFINE f == canvas.flow
           flow == [nodes |-> page[f].nodes, layout |-> canvas.at]
<1>1. /\ canvas # NoCanvas /\ screen.editing
      /\ saved' = [saved EXCEPT ![f] = flow]
      /\ page' = [page EXCEPT ![f] = flow]
      /\ Initialize(page', screen)
      /\ UNCHANGED <<screen, drags, others>>
  BY DEF SaveLayout
<1>2. f \in Flows /\ Exists(page, f)
  BY <1>1, EffectiveExists DEF CanvasInv, CanvasIsLocal, LayoutTypeOK, Screens
<1>3. flow \in FlowDocuments /\ flow.nodes # {}
  BY <1>2 DEF LayoutTypeOK, FlowDocuments, Exists
<1>4. page' \in [Flows -> FlowDocuments] /\ saved' \in [Flows -> FlowDocuments]
  BY <1>1, <1>3 DEF LayoutTypeOK
<1>5. Exists(page', f) /\ Exists(saved', f)
  BY <1>1, <1>2, <1>3 DEF Exists, LayoutTypeOK
<1>6. screen \in Screens /\ (screen.editing => ~screen.collapse)
  BY DEF LayoutTypeOK, CanvasInv
<1>7. \E g \in Flows : Exists(page', g)
  BY <1>2, <1>5
<1>8. /\ bundled' \in [Flows -> Layouts \cup {Unset}]
      /\ local' \in [Flows -> Layouts \cup {Unset}]
      /\ canvas' \in [flow : Flows \cup {"none"}, nodes : SUBSET Cards, seq : BOOLEAN, at : Layouts]
      /\ CanvasIsLocal'
      /\ DOMAIN canvas'.at = canvas'.nodes
  BY <1>1, <1>4, <1>6, <1>7, EffectStep
<1>9. LayoutTypeOK'
  BY <1>1, <1>4, <1>8 DEF LayoutTypeOK
<1>10. CanvasInv'
  BY <1>1, <1>2, <1>5, <1>6, <1>8 DEF CanvasInv
<1> QED
  BY <1>9, <1>10

\* A load brings the saved flows to the page.
LEMMA ReloadStep ==
    ASSUME LayoutTypeOK, CanvasInv, Reload
    PROVE  LayoutTypeOK' /\ CanvasInv'
<1>1. /\ page' = saved /\ Initialize(saved, screen)
      /\ UNCHANGED <<saved, screen, drags, others>>
  BY DEF Reload
<1>2. /\ saved \in [Flows -> FlowDocuments] /\ screen \in Screens
      /\ \E g \in Flows : Exists(saved, g)
      /\ screen.editing => ~screen.collapse
  BY DEF LayoutTypeOK, CanvasInv
<1>3. /\ bundled' \in [Flows -> Layouts \cup {Unset}]
      /\ local' \in [Flows -> Layouts \cup {Unset}]
      /\ canvas' \in [flow : Flows \cup {"none"}, nodes : SUBSET Cards, seq : BOOLEAN, at : Layouts]
      /\ CanvasIsLocal'
      /\ DOMAIN canvas'.at = canvas'.nodes
  BY <1>1, <1>2, EffectStep
<1>4. LayoutTypeOK'
  BY <1>1, <1>2, <1>3 DEF LayoutTypeOK
<1>5. CanvasInv'
  BY <1>1, <1>2, <1>3 DEF CanvasInv
<1> QED
  BY <1>4, <1>5

\* After a restart there is no canvas.
LEMMA RestartStep ==
    ASSUME LayoutTypeOK, CanvasInv, Restart
    PROVE  LayoutTypeOK' /\ CanvasInv'
<1>1. /\ canvas # NoCanvas /\ canvas' = NoCanvas
      /\ page' = [f \in Flows |-> [nodes |-> {}, layout |-> NoLayout]]
      /\ bundled' = [f \in Flows |-> Unset]
      /\ screen' = Screen(Effective(page, screen.selected), FALSE, FALSE, FALSE)
      /\ UNCHANGED <<saved, local, drags, others>>
  BY DEF Restart
<1>2. Effective(page, screen.selected) \in Flows
  BY <1>1, EffectiveExists DEF CanvasInv, LayoutTypeOK, Screens
<1>3. screen' \in Screens /\ ~screen'.editing
  BY <1>1, <1>2 DEF Screen, Screens
<1>4. page' \in [Flows -> FlowDocuments]
  BY <1>1, NoLayoutIsLayout DEF FlowDocuments
<1>5. canvas' \in [flow : Flows \cup {"none"}, nodes : SUBSET Cards, seq : BOOLEAN, at : Layouts]
  BY <1>1, NoLayoutIsLayout DEF NoCanvas, Canvas
<1>6. bundled' \in [Flows -> Layouts \cup {Unset}]
  BY <1>1
<1>7. LayoutTypeOK'
  BY <1>1, <1>3, <1>4, <1>5, <1>6 DEF LayoutTypeOK
<1>8. DOMAIN canvas'.at = canvas'.nodes
  BY <1>1 DEF NoCanvas, Canvas, NoLayout
<1>9. CanvasInv'
  BY <1>1, <1>3, <1>8 DEF CanvasInv, CanvasIsLocal, Exists
<1> QED
  BY <1>7, <1>9

\* What others save reaches the page with its next load only.
LEMMA OthersStep ==
    ASSUME LayoutTypeOK, CanvasInv, NEW f \in Flows, OthersSave(f)
    PROVE  LayoutTypeOK' /\ CanvasInv'
<1>1. /\ others < MaxOthers /\ others' = others + 1
      /\ \E g \in Flows : Exists(saved', g)
      /\ UNCHANGED <<page, bundled, local, canvas, screen, drags>>
  BY Zenon DEF OthersSave
<1>2. PICK flow \in
        IF Exists(saved, f)
        THEN {[nodes |-> n, layout |-> saved[f].layout] : n \in {Cards, Cards \ {"db"}}}
               \cup {[nodes |-> {}, layout |-> NoLayout]}
               \cup {[nodes |-> saved[f].nodes, layout |-> [c \in saved[f].nodes |-> p]] : p \in Spots}
        ELSE {[nodes |-> Cards, layout |-> NoLayout]} :
          saved' = [saved EXCEPT ![f] = flow]
  BY Zenon DEF OthersSave
<1>3. saved[f].nodes \in SUBSET Cards /\ saved[f].layout \in Layouts /\ NoLayout \in Layouts
  BY NoLayoutIsLayout DEF LayoutTypeOK, FlowDocuments
<1>4. flow \in FlowDocuments
  <2>1. ASSUME NEW q \in Spots PROVE [c \in saved[f].nodes |-> q] \in Layouts
    <3>1. [c \in saved[f].nodes |-> q] \in [saved[f].nodes -> Spots \cup {"auto", "seq"}]
      OBVIOUS
    <3> QED
      BY <3>1, <1>3, LayoutIntro
  <2>2. ASSUME NEW n \in SUBSET Cards, NEW l \in Layouts
        PROVE  [nodes |-> n, layout |-> l] \in FlowDocuments
    BY DEF FlowDocuments
  <2>3. CASE ~Exists(saved, f)
    BY <1>2, <1>3, <2>2, <2>3
  <2>4. CASE Exists(saved, f)
    <3>1. CASE \E n \in {Cards, Cards \ {"db"}} : flow = [nodes |-> n, layout |-> saved[f].layout]
      BY <1>3, <2>2, <3>1
    <3>2. CASE flow = [nodes |-> {}, layout |-> NoLayout]
      BY <1>3, <2>2, <3>2
    <3>3. CASE \E q \in Spots : flow = [nodes |-> saved[f].nodes, layout |-> [c \in saved[f].nodes |-> q]]
      BY <1>3, <2>1, <2>2, <3>3
    <3> QED
      BY <1>2, <2>4, <3>1, <3>2, <3>3
  <2> QED
    BY <2>3, <2>4
<1>5. saved' \in [Flows -> FlowDocuments]
  BY <1>2, <1>4 DEF LayoutTypeOK
<1>6. others' \in 0..MaxOthers
  BY <1>1, LayoutAssumption DEF LayoutTypeOK
<1>7. LayoutTypeOK'
  BY <1>1, <1>5, <1>6 DEF LayoutTypeOK
<1>8. CanvasInv'
  BY <1>1 DEF CanvasInv, CanvasIsLocal, Exists
<1> QED
  BY <1>7, <1>8

\* Every step keeps the invariant.
LEMMA InvStep == LayoutTypeOK /\ CanvasInv /\ [LayoutNext]_layoutVars => LayoutTypeOK' /\ CanvasInv'
<1> SUFFICES ASSUME LayoutTypeOK, CanvasInv, [LayoutNext]_layoutVars
             PROVE  LayoutTypeOK' /\ CanvasInv'
  OBVIOUS
<1>1. CASE UNCHANGED layoutVars
  BY <1>1 DEF layoutVars, LayoutTypeOK, CanvasInv, CanvasIsLocal, Exists
<1>2. CASE (\E f \in Flows : Select(f)) \/ ToggleEditMode \/ ToggleCollapse \/ ToggleSequence
  <2>1. PICK s \in Screens : (s.editing => ~s.collapse) /\ Show(s)
    BY <1>2, ScreenStep
  <2> QED
    BY <2>1, ShowStep
<1>3. CASE \E c \in Cards, p \in Spots : Drag(c, p)
  BY <1>3, DragStep
<1>4. CASE SaveLayout \/ Reload \/ Restart
  BY <1>4, SaveStep, ReloadStep, RestartStep
<1>5. CASE \E f \in Flows : OthersSave(f)
  BY <1>5, OthersStep
<1> QED
  BY <1>1, <1>2, <1>3, <1>4, <1>5 DEF LayoutNext

-----------------------------------------------------------------------------
(* The theorems                                                              *)

\* Positions, documents and the screen have their types.
THEOREM LayoutTypeCorrect == LayoutSpec => []LayoutTypeOK
BY InvInit, InvStep, PTL DEF LayoutSpec

\* The canvas shows the selected topology as loaded, with every card where the local
\* layout has it.
THEOREM CanvasIsAlwaysLocal == LayoutSpec => []CanvasIsLocal
<1>1. CanvasInv => CanvasIsLocal
  BY DEF CanvasInv
<1> QED
  BY <1>1, InvInit, InvStep, PTL DEF LayoutSpec

\* The effect moves no card that stays on the canvas.
LEMMA EffectMovesNothing ==
    ASSUME NEW p, NEW s, Initialize(p, s)
    PROVE  \/ canvas' = canvas
           \/ canvas'.flow # canvas.flow \/ canvas'.nodes # canvas.nodes \/ canvas'.seq # canvas.seq
BY DEF Initialize, Canvas

\* A restart leaves no canvas.
LEMMA NothingAfterRestart == Restart => canvas'.flow = "none" /\ canvas'.nodes = {}
<1>1. Restart => canvas' = NoCanvas
  BY Zenon DEF Restart
<1>2. NoCanvas.flow = "none" /\ NoCanvas.nodes = {}
  BY DEF NoCanvas, Canvas
<1> QED
  BY <1>1, <1>2

\* A card moves only when the user drags it, or when what is drawn changes.
THEOREM CardsAlwaysStay == LayoutSpec => CardsStay
<1>1. LayoutTypeOK /\ [LayoutNext]_layoutVars =>
        [\A c \in canvas.nodes \cap canvas'.nodes :
           canvas'.at[c] # canvas.at[c] =>
             \/ drags' # drags
             \/ canvas'.flow # canvas.flow \/ canvas'.nodes # canvas.nodes \/ canvas'.seq # canvas.seq]_layoutVars
  <2> SUFFICES ASSUME LayoutTypeOK, LayoutNext, NEW c \in canvas.nodes \cap canvas'.nodes,
                      canvas' # canvas, drags' = drags
               PROVE  canvas'.flow # canvas.flow \/ canvas'.nodes # canvas.nodes \/ canvas'.seq # canvas.seq
    OBVIOUS
  <2>1. CASE \E s : Show(s)
    BY <2>1, EffectMovesNothing DEF Show
  <2>2. CASE SaveLayout \/ Reload
    BY <2>2, EffectMovesNothing DEF SaveLayout, Reload
  <2>3. ~Restart
    BY NothingAfterRestart
  <2>4. ASSUME NEW d \in Cards, NEW q \in Spots PROVE ~Drag(d, q)
    <3>1. Drag(d, q) => drags' = drags + 1
      BY Zenon DEF Drag
    <3> QED
      BY <3>1, LayoutAssumption DEF LayoutTypeOK
  <2>5. ASSUME NEW f \in Flows PROVE ~OthersSave(f)
    BY Zenon DEF OthersSave
  <2> QED
    BY <2>1, <2>2, <2>3, <2>4, <2>5 DEF LayoutNext, Select, ToggleEditMode, ToggleCollapse, ToggleSequence
<1> QED
  BY <1>1, InvInit, InvStep, PTL DEF LayoutSpec, CardsStay

\* Where a topology is shown anew, the effect puts the cards where the saved layout has
\* them.
LEMMA EffectRestores ==
    ASSUME LayoutTypeOK, NEW p \in [Flows -> FlowDocuments], NEW s \in Screens,
           \E g \in Flows : Exists(p, g), Initialize(p, s),
           canvas'.flow # canvas.flow, ~canvas'.seq
    PROVE  \A c \in canvas'.nodes \cap DOMAIN p[canvas'.flow].layout :
              canvas'.at[c] = p[canvas'.flow].layout[c]
<1> DEFINE f == Effective(p, s.selected)
           nodes == Drawn(p[f].nodes, s.collapse)
           seq == s.sequence /\ f \in Sequenced
           layout == Priority(Bundle(p, f)[f], Pruned(p)[f])
           at == [c \in nodes |-> IF seq THEN "seq" ELSE At(layout, c)]
<1>1. f \in Flows
  BY EffectiveExists DEF Screens
<1>2. p[f].layout # NoLayout => layout = p[f].layout
  BY <1>1, PriorityType
<1>3. canvas' = canvas \/ canvas' = Canvas(f, nodes, seq, at)
  BY Zenon DEF Initialize
<1> HIDE DEF f, nodes, seq, layout
<1>4. canvas' = Canvas(f, nodes, seq, at)
  BY <1>3
<1>5. /\ canvas'.flow = f /\ canvas'.nodes = nodes
      /\ canvas'.seq = seq /\ canvas'.at = at
  BY <1>4 DEF Canvas
<1> SUFFICES ASSUME NEW c \in nodes, c \in DOMAIN p[f].layout
             PROVE  at[c] = p[f].layout[c]
  BY <1>5
<1>6. p[f].layout # NoLayout
  BY DEF NoLayout
<1>7. at[c] = At(layout, c)
  BY <1>5
<1> QED
  BY <1>2, <1>6, <1>7 DEF At

\* A topology that is shown anew has its cards where its saved layout has them.
THEOREM SavedIsAlwaysRestored == LayoutSpec => SavedIsRestored
<1>1. LayoutTypeOK /\ CanvasInv /\ [LayoutNext]_layoutVars =>
        [(canvas'.flow \in Flows \ {canvas.flow} /\ ~canvas'.seq) =>
           LET layout == page'[canvas'.flow].layout IN
           \A c \in canvas'.nodes \cap DOMAIN layout : canvas'.at[c] = layout[c]]_layoutVars
  <2> SUFFICES ASSUME LayoutTypeOK, CanvasInv, LayoutNext,
                      canvas'.flow \in Flows, canvas'.flow # canvas.flow, ~canvas'.seq
               PROVE  \A c \in canvas'.nodes \cap DOMAIN page'[canvas'.flow].layout :
                         canvas'.at[c] = page'[canvas'.flow].layout[c]
    BY Zenon
  <2>1. LayoutTypeOK' /\ CanvasInv'
    BY InvStep
  <2>2. page' \in [Flows -> FlowDocuments] /\ screen' \in Screens
    BY <2>1 DEF LayoutTypeOK
  <2>3. \E g \in Flows : Exists(page', g)
    BY <2>1, LayoutAssumption DEF CanvasInv, NoCanvas, Canvas, Exists
  <2>4. Initialize(page', screen')
    <3>1. CASE \E s : Show(s)
      BY <3>1 DEF Show
    <3>2. CASE SaveLayout \/ Reload
      BY <3>2 DEF SaveLayout, Reload
    <3>3. ~Restart
      BY NothingAfterRestart, LayoutAssumption
    <3>4. ASSUME NEW d \in Cards, NEW q \in Spots PROVE ~Drag(d, q)
      BY DEF Drag, Canvas
    <3>5. ASSUME NEW f \in Flows PROVE ~OthersSave(f)
      BY Zenon DEF OthersSave
    <3> QED
      BY <3>1, <3>2, <3>3, <3>4, <3>5 DEF LayoutNext, Select, ToggleEditMode, ToggleCollapse, ToggleSequence
  <2> QED
    BY <2>2, <2>3, <2>4, EffectRestores
<1> QED
  BY <1>1, InvInit, InvStep, PTL DEF LayoutSpec, SavedIsRestored

-----------------------------------------------------------------------------
(* Permissions                                                               *)

\* A page shows the list of the settings, or none, until an admin saves another list.
PageIsFresh ==
    \A u \in Users : ~listSaved[u] => pageList[u] = editAllowList \/ pageList[u] = Unreadable

\* A request that a page offered isn't refused, with the settings as they are before Grafana passes
\* it on, and with those that it carries from then on.
RequestsAreGranted ==
    \A u \in Users \ ServerAdmins : edit[u].offered /\ ~edit[u].stale =>
       /\ u \in SignedIn /\ edit[u].state # "refused"
       /\ edit[u].state = "sent" => CanEdit(u, editAllowList)
       /\ edit[u].state = "passed" => CanEdit(edit[u].user, edit[u].settings)

PermissionInv == PermissionTypeOK /\ PageIsFresh /\ RequestsAreGranted

\* A request is one.
LEMMA RequestType ==
    ASSUME NEW offered \in BOOLEAN, NEW stale \in BOOLEAN
    PROVE  Request(offered, stale) \in Edits /\ NoEdit \in Edits
BY DEF Request, NoEdit, Edits

\* It holds at the start.
LEMMA PermissionInvInit == PermissionInit => PermissionInv
<1> SUFFICES ASSUME PermissionInit PROVE PermissionInv
  OBVIOUS
<1>1. \A u \in Users : edit[u] = NoEdit
  BY DEF PermissionInit
<1>2. NoEdit.offered = FALSE /\ NoEdit.stale = FALSE /\ NoEdit \in Edits
  BY RequestType DEF NoEdit, Request
<1>3. PermissionTypeOK
  BY <1>2, PermissionAssumption DEF PermissionInit, PermissionTypeOK
<1>4. PageIsFresh
  BY DEF PermissionInit, PageIsFresh
<1>5. RequestsAreGranted
  BY <1>1, <1>2 DEF RequestsAreGranted
<1> QED
  BY <1>3, <1>4, <1>5 DEF PermissionInv

\* Each step keeps the types.
LEMMA PermissionTypeStep == PermissionTypeOK /\ [PermissionNext]_permissionVars => PermissionTypeOK'
<1> SUFFICES ASSUME PermissionTypeOK, [PermissionNext]_permissionVars PROVE PermissionTypeOK'
  OBVIOUS
<1>1. CASE UNCHANGED permissionVars
  BY <1>1 DEF permissionVars, PermissionTypeOK
<1>2. CASE SaveList
  <2>1. editAllowList' \subseteq Emails
    BY <1>2, PermissionAssumption DEF SaveList, PermissionTypeOK
  <2>2. saves' \in 0..MaxSaves
    BY <1>2, PermissionAssumption DEF SaveList, PermissionTypeOK
  <2>3. listSaved' \in [Users -> BOOLEAN]
    BY <1>2 DEF SaveList
  <2>4. edit' \in [Users -> Edits]
    BY <1>2 DEF SaveList, PermissionTypeOK, Edits
  <2> QED
    BY <1>2, <2>1, <2>2, <2>3, <2>4 DEF SaveList, PermissionTypeOK
<1>3. ASSUME NEW u \in Users, LoadPage(u) PROVE PermissionTypeOK'
  <2>1. pageList' \in [Users -> (SUBSET Emails) \cup {Unreadable}]
    BY <1>3 DEF LoadPage, PluginSettings, PermissionTypeOK
  <2>2. listSaved' \in [Users -> BOOLEAN]
    BY <1>3 DEF LoadPage, PermissionTypeOK
  <2> QED
    BY <1>3, <2>1, <2>2 DEF LoadPage, PermissionTypeOK
<1>4. ASSUME NEW u \in Users, Edit(u) \/ Call(u) PROVE PermissionTypeOK'
  <2>1. PICK offered \in BOOLEAN, stale \in BOOLEAN : Send(u, Request(offered, stale))
    BY <1>4 DEF Edit, Call, PermissionTypeOK
  <2>2. edit' \in [Users -> Edits]
    BY <2>1, RequestType DEF Send, PermissionTypeOK
  <2> QED
    BY <2>1, <2>2 DEF Send, PermissionTypeOK
<1>5. ASSUME NEW u \in Users, Pass(u) \/ Handle(u) PROVE PermissionTypeOK'
  <2>1. edit' \in [Users -> Edits]
    <3>1. CASE Pass(u)
      <4>1. PICK user \in Users \cup {Nobody} :
               edit' = [edit EXCEPT ![u] = [edit[u] EXCEPT !.state = "passed", !.user = user,
                                                           !.settings = editAllowList]]
        BY <3>1 DEF Pass
      <4>2. [edit[u] EXCEPT !.state = "passed", !.user = user, !.settings = editAllowList] \in Edits
        BY DEF PermissionTypeOK, Edits
      <4> QED
        BY <4>1, <4>2 DEF PermissionTypeOK
    <3>2. CASE Handle(u)
      <4>1. PICK s : /\ s \in {"accepted", "refused"}
                     /\ edit' = [edit EXCEPT ![u] = [edit[u] EXCEPT !.state = s]]
        BY <3>2 DEF Handle
      <4>2. [edit[u] EXCEPT !.state = s] \in Edits
        BY <4>1 DEF PermissionTypeOK, Edits
      <4> QED
        BY <4>1, <4>2 DEF PermissionTypeOK
    <3> QED
      BY <1>5, <3>1, <3>2
  <2> QED
    BY <1>5, <2>1 DEF Pass, Handle, PermissionTypeOK
<1> QED
  BY <1>1, <1>2, <1>3, <1>4, <1>5 DEF PermissionNext

\* A page's list is the one of the settings until an admin saves another.
LEMMA FreshStep == PermissionTypeOK /\ PageIsFresh /\ [PermissionNext]_permissionVars => PageIsFresh'
<1> SUFFICES ASSUME PermissionTypeOK, PageIsFresh, [PermissionNext]_permissionVars PROVE PageIsFresh'
  OBVIOUS
<1>1. CASE UNCHANGED permissionVars
  BY <1>1 DEF permissionVars, PageIsFresh
<1>2. CASE SaveList
  BY <1>2 DEF SaveList, PageIsFresh
<1>3. ASSUME NEW u \in Users, LoadPage(u) PROVE PageIsFresh'
  BY <1>3 DEF LoadPage, PluginSettings, PageIsFresh, PermissionTypeOK
<1>4. ASSUME NEW u \in Users, Edit(u) \/ Call(u) \/ Pass(u) \/ Handle(u) PROVE PageIsFresh'
  BY <1>4 DEF Edit, Call, Send, Pass, Handle, PageIsFresh
<1> QED
  BY <1>1, <1>2, <1>3, <1>4 DEF PermissionNext

\* With a fresh list, what the page offers is what the backend accepts.
LEMMA ChecksAgree ==
    ASSUME PageIsFresh, NEW u \in Users \ ServerAdmins, ~listSaved[u], Offered(u)
    PROVE  u \in SignedIn /\ CanEdit(u, editAllowList)
BY PermissionAssumption DEF PageIsFresh, Offered, CanEdit

\* A request that was offered stays one that is granted, until the list is changed before Grafana
\* passes it on.
LEMMA GrantedStep == PermissionInv /\ [PermissionNext]_permissionVars => RequestsAreGranted'
<1> SUFFICES ASSUME PermissionTypeOK, PageIsFresh, RequestsAreGranted, [PermissionNext]_permissionVars,
                    NEW u \in Users \ ServerAdmins, (edit[u].offered /\ ~edit[u].stale)'
             PROVE  /\ u \in SignedIn /\ edit'[u].state # "refused"
                    /\ edit'[u].state = "sent" => CanEdit(u, editAllowList')
                    /\ edit'[u].state = "passed" => CanEdit(edit'[u].user, edit'[u].settings)
  BY DEF PermissionInv, RequestsAreGranted, CanEdit, Listed
<1>0. edit \in [Users -> Edits]
  BY DEF PermissionTypeOK
<1>1. CASE UNCHANGED permissionVars
  BY <1>1 DEF permissionVars, RequestsAreGranted
<1>2. CASE SaveList
  <2>1. edit[u].state # "sent" /\ edit'[u] = edit[u]
    BY <1>2, <1>0 DEF SaveList, Edits
  <2> QED
    BY <2>1 DEF RequestsAreGranted
<1>3. ASSUME NEW v \in Users, LoadPage(v) PROVE edit' = edit /\ editAllowList' = editAllowList
  BY <1>3 DEF LoadPage
<1>4. ASSUME NEW v \in Users, Edit(v) \/ Call(v) \/ Pass(v) \/ Handle(v)
      PROVE  editAllowList' = editAllowList /\ (v # u => edit'[u] = edit[u])
  BY <1>0, <1>4 DEF Edit, Call, Send, Pass, Handle
<1>5. CASE Edit(u)
  <2>1. edit'[u] = Request(TRUE, listSaved[u]) /\ editAllowList' = editAllowList
    BY <1>5, <1>0 DEF Edit, Send
  <2>2. edit'[u].state = "sent" /\ ~listSaved[u]
    BY <2>1 DEF Request
  <2> QED
    BY <1>5, <2>1, <2>2, ChecksAgree DEF Edit
<1>6. CASE Call(u)
  <2>1. edit'[u] = Request(FALSE, FALSE)
    BY <1>6, <1>0 DEF Call, Send
  <2> QED
    BY <2>1 DEF Request
<1>7. CASE Pass(u)
  <2>1. edit[u].offered /\ ~edit[u].stale /\ edit[u].state = "sent"
    BY <1>7, <1>0 DEF Pass, Edits
  <2>2. u \in SignedIn /\ CanEdit(u, editAllowList)
    BY <2>1 DEF RequestsAreGranted
  <2>3. edit'[u].state = "passed" /\ edit'[u].user = u /\ edit'[u].settings = editAllowList
    BY <1>7, <1>0, <2>2 DEF Pass, Edits
  <2> QED
    BY <2>2, <2>3
<1>8. CASE Handle(u)
  <2>1. edit[u].offered /\ ~edit[u].stale /\ edit[u].state = "passed"
    BY <1>8, <1>0 DEF Handle, Edits
  <2>2. u \in SignedIn /\ CanEdit(edit[u].user, edit[u].settings)
    BY <2>1 DEF RequestsAreGranted
  <2>3. edit'[u].state = "accepted"
    BY <1>8, <1>0, <2>2 DEF Handle, Edits
  <2> QED
    BY <2>2, <2>3
<1> QED
  <2>1. ASSUME edit'[u] = edit[u], editAllowList' = editAllowList
        PROVE  /\ u \in SignedIn /\ edit'[u].state # "refused"
               /\ edit'[u].state = "sent" => CanEdit(u, editAllowList')
               /\ edit'[u].state = "passed" => CanEdit(edit'[u].user, edit'[u].settings)
    BY <2>1 DEF RequestsAreGranted
  <2> QED
    BY <2>1, <1>1, <1>2, <1>3, <1>4, <1>5, <1>6, <1>7, <1>8 DEF PermissionNext

\* So the invariant holds throughout.
LEMMA PermissionInvAlways == PermissionSpec => []PermissionInv
<1>1. PermissionInv /\ [PermissionNext]_permissionVars => PermissionInv'
  BY PermissionTypeStep, FreshStep, GrantedStep DEF PermissionInv
<1> QED
  BY <1>1, PermissionInvInit, PTL DEF PermissionSpec

\* A user other than a server admin whom the page offers to edit is refused only if the list was
\* changed after the page loaded it, for any users, lists and requests, whatever Grafana passes
\* along for those who aren't signed in.
THEOREM OffersAreAlwaysHonoured == PermissionSpec => []OffersAreHonoured
<1>1. PermissionInv => OffersAreHonoured
  BY DEF PermissionInv, RequestsAreGranted, OffersAreHonoured
<1> QED
  BY <1>1, PermissionInvAlways, PTL

\* The list holds e-mails, a page one of its own, and a request is in one of its states.
THEOREM PermissionTypeCorrect == PermissionSpec => []PermissionTypeOK
<1>1. PermissionInv => PermissionTypeOK
  BY DEF PermissionInv
<1> QED
  BY <1>1, PermissionInvAlways, PTL
=============================================================================
