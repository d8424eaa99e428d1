---------------------------- MODULE MetricsPolling ----------------------------
(***************************************************************************)
(* useGrafanaMetrics: the browser's polling of POST /metrics.  The hook    *)
(* draws the topology it is given without metrics, polls at once, then at  *)
(* an interval while the tab is visible, and whenever the tab becomes      *)
(* visible.  pollRef numbers the effects that polled, inflightRef keeps    *)
(* two polls from overlapping, and the week-ago results are asked for only *)
(* when they are missing or old.  One JavaScript task is one step; what    *)
(* happens between two tasks (another topology is chosen, the tab is       *)
(* hidden) finds the poll in flight.                                       *)
(*                                                                         *)
(* A topology here is one pair of the hook's definition and slaDefaults: a *)
(* change of either runs the same effects.  The queries, groupedMaps, are  *)
(* made anew of the same definition when a layout is saved, which runs the *)
(* polling effect alone once more.  Results, errors and baselines          *)
(* are represented by the topology whose poll brought them.  Every reload  *)
(* makes a new definition, so Topologies are objects, not topology ids.    *)
(***************************************************************************)
EXTENDS Naturals, FiniteSets

CONSTANTS
    Topologies,    \* pairs of a definition and SLA defaults
    NoTopology,    \* the undefined definition, graph, baseline or error
    MaxChanges     \* bound: how often the hook is given another pair, or other queries

ASSUME PollingAssumption == NoTopology \notin Topologies /\ MaxChanges \in Nat

VARIABLES
    shown,         \* the pair the effects last ran with
    visible,       \* document.visibilityState
    graph,         \* the assembled graph: of which topology, metrics and baseline
    loading,       \* the first poll of an effect is pending
    error,         \* the topology whose poll failed last, if none succeeded since
    pollRef,       \* the number of the polling effect in force
    inflightRef,   \* a poll is in flight
    baselineCache, \* the week-ago results kept
    polls,         \* the calls of the backend not answered yet
    timers,        \* the live intervals
    changes        \* counts against MaxChanges

vars == <<shown, visible, graph, loading, error, pollRef, inflightRef,
          baselineCache, polls, timers, changes>>

Some == Topologies \cup {NoTopology}
Graph == [of : Some, metrics : Some, baseline : Some]
Poll == [id : Nat, of : Topologies, baseline : BOOLEAN, first : BOOLEAN]
Timer == [id : Nat, of : Topologies]

TypeOK ==
    /\ shown \in Some
    /\ visible \in BOOLEAN
    /\ graph \in Graph
    /\ loading \in BOOLEAN
    /\ error \in Some
    /\ pollRef \in Nat
    /\ inflightRef \in BOOLEAN
    /\ baselineCache \in Some
    /\ polls \subseteq Poll
    /\ timers \subseteq Timer
    /\ changes \in 0..MaxChanges

Drawn(t) == [of |-> t, metrics |-> NoTopology, baseline |-> NoTopology]

\* The hook's effects have run without a definition: the page is still loading them.
Init ==
    /\ shown = NoTopology
    /\ visible \in BOOLEAN
    /\ graph = Drawn(NoTopology)
    /\ loading = FALSE
    /\ error = NoTopology
    /\ pollRef = 0
    /\ inflightRef = FALSE
    /\ baselineCache = NoTopology
    /\ polls = {}
    /\ timers = {}
    /\ changes = 0

-----------------------------------------------------------------------------
\* The baselines a poll may ask for: it must when none are kept, and may, when the
\* kept ones are five minutes old by then.
Wanted(kept) == IF kept = NoTopology THEN {TRUE} ELSE BOOLEAN

MayOverlap(t) == t # NoTopology
MayPoll(t) == t # NoTopology /\ ~inflightRef

\* safePoll(id), of the closure made for t.
SafePoll(id, t, kept, first) ==
    \/ /\ MayPoll(t)
       /\ inflightRef' = TRUE
       /\ \E b \in Wanted(kept) :
           polls' = polls \cup {[id |-> id, of |-> t, baseline |-> b, first |-> first]}
    \/ /\ ~MayPoll(t)
       /\ UNCHANGED <<inflightRef, polls>>

\* The interval an effect starts once its first poll is over, unless it was cleaned up.
IntervalIfVisible(id, t, ref) == IF visible THEN {[id |-> id, of |-> t]} ELSE {}
IntervalAlways(id, t, ref) == {[id |-> id, of |-> t]}
Interval(id, t, ref) == IF ref = id THEN {[id |-> id, of |-> t]} ELSE {}

Cleared == {i \in timers : i.id # pollRef}
CleanedUp == IF shown = NoTopology THEN pollRef ELSE pollRef + 1

\* What the week-ago results become when another topology is given: with none, the
\* effect returns before it resets them.
BaselineAfter(t) == IF t = NoTopology THEN baselineCache ELSE NoTopology

\* When a poll is still in flight the first poll of t is skipped, and is over at once.
StartsLoading(t) == t # NoTopology
LoadingAfter(t) == MayPoll(t)

\* The polling effect: its cleanup, and its run for t.
PollAgain(t, kept) ==
    /\ pollRef' = CleanedUp + 1
    /\ SafePoll(pollRef', t, kept, TRUE)
    /\ timers' = Cleared \cup (IF MayPoll(t) THEN {} ELSE Interval(pollRef', t, pollRef'))
    /\ loading' = LoadingAfter(t)

\* The definition or the SLA defaults change: the cleanup of the polling effect, then
\* the graph's effect and the polling effect.
Show(t) ==
    /\ changes < MaxChanges
    /\ t # shown
    /\ changes' = changes + 1
    /\ shown' = t
    /\ graph' = Drawn(t)
    /\ baselineCache' = BaselineAfter(t)
    /\ \/ /\ t = NoTopology
          /\ pollRef' = CleanedUp
          /\ timers' = Cleared
          /\ loading' = FALSE
          /\ UNCHANGED <<inflightRef, polls>>
       \/ t # NoTopology /\ PollAgain(t, NoTopology)
    /\ UNCHANGED <<visible, error>>

\* The queries of the definition are made anew: safePoll is another function, and the polling
\* effect runs again.  What is drawn and the week-ago results stay.
Requery ==
    /\ changes < MaxChanges
    /\ shown # NoTopology
    /\ changes' = changes + 1
    /\ PollAgain(shown, baselineCache)
    /\ UNCHANGED <<shown, visible, graph, error, baselineCache>>

CurrentAlways(p) == TRUE
Current(p) == pollRef = p.id

BaselineForgotten(p, got) == IF got THEN p.of ELSE NoTopology
WeekAgo(p, got) == IF got THEN p.of ELSE baselineCache

\* The backend answers: with the week-ago results only if asked for them, and even
\* then not always; or the call fails.  The answer of a stale poll is dropped.
Answered(p) ==
    \/ /\ ~Current(p)
       /\ UNCHANGED <<graph, error, baselineCache>>
    \/ /\ Current(p)
       /\ \E got \in {FALSE, p.baseline} :
            /\ graph' = [of |-> p.of, metrics |-> p.of, baseline |-> WeekAgo(p, got)]
            /\ baselineCache' = WeekAgo(p, got)
       /\ error' = NoTopology
    \/ /\ Current(p)
       /\ error' = p.of
       /\ UNCHANGED <<graph, baselineCache>>

\* The call settles, safePoll's finally runs, and that of the effect if it was its first.
Settle(p) ==
    /\ p \in polls
    /\ Answered(p)
    /\ polls' = polls \ {p}
    /\ inflightRef' = FALSE
    /\ \/ /\ p.first
          /\ loading' = (loading /\ pollRef # p.id)
          /\ timers' = timers \cup Interval(p.id, p.of, pollRef)
       \/ /\ ~p.first
          /\ UNCHANGED <<loading, timers>>
    /\ UNCHANGED <<shown, visible, pollRef, changes>>

\* An interval fires: nothing is polled while the tab is hidden.
Fire(i) ==
    /\ i \in timers
    /\ visible
    /\ SafePoll(i.id, i.of, baselineCache, FALSE)
    /\ UNCHANGED <<shown, visible, graph, loading, error, pollRef, baselineCache,
                   timers, changes>>

Hide ==
    /\ visible
    /\ visible' = FALSE
    /\ UNCHANGED <<shown, graph, loading, error, pollRef, inflightRef, baselineCache,
                   polls, timers, changes>>

\* The tab becomes visible: a poll at once.
Reveal ==
    /\ ~visible
    /\ visible' = TRUE
    /\ SafePoll(pollRef, shown, baselineCache, FALSE)
    /\ UNCHANGED <<shown, graph, loading, error, pollRef, baselineCache, timers, changes>>

Next ==
    \/ \E t \in Some : Show(t)
    \/ Requery
    \/ \E p \in polls : Settle(p)
    \/ \E i \in timers : Fire(i)
    \/ Hide
    \/ Reveal

Spec == Init /\ [][Next]_vars

\* The backend answers or the call fails, and the browser fires a live interval again
\* and again.
FairSpec ==
    /\ Spec
    /\ WF_vars(\E p \in polls : Settle(p))
    /\ WF_vars(\E i \in timers : Fire(i))

-----------------------------------------------------------------------------
(* Properties                                                                *)

\* Polls never overlap, whatever effect, interval or tab switch asks for them, and the
\* flag that sees to it is never left set.
OnePollInFlight ==
    /\ Cardinality(polls) <= 1
    /\ inflightRef <=> polls # {}

\* An interval of a topology that is no longer shown never stays alive, also when its
\* first poll ended after the switch, and there is never more than one.
OneLiveInterval ==
    \A i \in timers : i = [id |-> pollRef, of |-> shown]

\* The graph is that of the topology shown, and so are its metrics, its baseline and
\* the week-ago results kept for the next poll: an answer that comes after the switch
\* to another topology changes nothing.
GraphIsOfShown ==
    /\ graph.of = shown
    /\ graph.metrics \in {NoTopology, shown}
    /\ graph.baseline \in {NoTopology, shown}
    /\ shown # NoTopology => baselineCache \in {NoTopology, shown}

\* While a topology is shown, either its first poll is in flight and it is loading, or
\* it has an interval and isn't: polling doesn't die with a skipped or stale poll, and
\* the page doesn't load forever.
PollingNeverDies ==
    /\ loading <=> \E p \in polls : p.first /\ p.id = pollRef
    /\ shown # NoTopology /\ ~loading => \E i \in timers : i.id = pollRef

\* As long as the same topology is shown, a later poll never takes back the metrics or
\* the baseline an earlier one brought: a failing poll, an answer without week-ago
\* results and the polls that don't ask for them leave them in place.
MetricsAreKept ==
    [][shown' = shown =>
        /\ graph.metrics # NoTopology => graph'.metrics = graph.metrics
        /\ graph.baseline # NoTopology => graph'.baseline = graph.baseline]_vars

\* A topology that stays shown in a visible tab is polled again and again, also when
\* its first poll was skipped because of another topology's, or failed, or ended while
\* the tab was hidden.
ShownIsPolled ==
    \A t \in Topologies :
        <>[](shown = t /\ visible)
            => []<><<\E p \in polls : p.id = pollRef /\ p.of = t /\ Settle(p)>>_vars
=============================================================================
