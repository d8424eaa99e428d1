------------------------ MODULE MetricsPolling_proofs ------------------------
(* Proofs about MetricsPolling, for any topologies and any number of changes. *)
EXTENDS MetricsPolling, FiniteSetTheorems, TLAPS

(* Type correctness: every step keeps the state well formed.                  *)
LEMMA TypeInit == Init => TypeOK
<1> SUFFICES ASSUME Init PROVE TypeOK
  OBVIOUS
<1>1. NoTopology \in Some
  BY DEF Some
<1>2. graph \in Graph
  BY <1>1 DEF Init, Graph, Drawn
<1>3. changes \in 0..MaxChanges /\ pollRef \in Nat
  BY PollingAssumption DEF Init
<1>4. polls \subseteq Poll /\ timers \subseteq Timer
  BY DEF Init
<1> QED BY <1>1, <1>2, <1>3, <1>4 DEF Init, TypeOK

\* safePoll keeps the types of what it changes.
LEMMA SafePollTyped ==
  ASSUME TypeOK, NEW id \in Nat, NEW t \in Some, NEW kept, NEW first \in BOOLEAN,
         SafePoll(id, t, kept, first)
  PROVE  inflightRef' \in BOOLEAN /\ polls' \subseteq Poll
<1>1. CASE MayPoll(t)
  <2>1. t \in Topologies
    BY <1>1 DEF MayPoll, Some
  <2>2. PICK b \in Wanted(kept) :
          polls' = polls \cup {[id |-> id, of |-> t, baseline |-> b, first |-> first]}
    BY <1>1 DEF SafePoll
  <2>3. b \in BOOLEAN
    BY DEF Wanted
  <2>4. [id |-> id, of |-> t, baseline |-> b, first |-> first] \in Poll
    BY <2>1, <2>3 DEF Poll
  <2>5. polls' \subseteq Poll
    BY <2>2, <2>4 DEF TypeOK
  <2> QED BY <1>1, <2>5 DEF SafePoll
<1>2. CASE ~MayPoll(t)
  BY <1>2 DEF SafePoll, TypeOK
<1> QED BY <1>1, <1>2

\* The polling effect raises its number, and keeps the types of what it changes.
LEMMA PollAgainTyped ==
  ASSUME TypeOK, NEW t \in Topologies, NEW kept, PollAgain(t, kept)
  PROVE  /\ pollRef' \in Nat /\ pollRef < pollRef' /\ loading' \in BOOLEAN
         /\ inflightRef' \in BOOLEAN /\ polls' \subseteq Poll /\ timers' \subseteq Timer
<1>1. pollRef \in Nat /\ CleanedUp \in Nat /\ CleanedUp >= pollRef
  BY DEF TypeOK, CleanedUp
<1>2. pollRef' \in Nat /\ pollRef < pollRef'
  BY <1>1 DEF PollAgain
<1>3. loading' \in BOOLEAN
  BY DEF PollAgain, LoadingAfter, MayPoll, TypeOK
<1>4. inflightRef' \in BOOLEAN /\ polls' \subseteq Poll
  BY <1>2, SafePollTyped DEF PollAgain, Some
<1>5. timers' \subseteq Timer
  BY <1>2 DEF PollAgain, Cleared, Interval, Timer, TypeOK
<1> QED BY <1>2, <1>3, <1>4, <1>5

\* Every step keeps the types.
LEMMA TypeNext == TypeOK /\ [Next]_vars => TypeOK'
<1> SUFFICES ASSUME TypeOK, [Next]_vars PROVE TypeOK'
  OBVIOUS
<1> USE PollingAssumption
<1>1. ASSUME NEW t \in Some, Show(t) PROVE TypeOK'
  <2>1. NoTopology \in Some
    BY DEF Some
  <2>2. graph' \in Graph /\ baselineCache' \in Some
    BY <1>1, <2>1 DEF TypeOK, Show, Graph, Drawn, BaselineAfter
  <2>3. changes' \in 0..MaxChanges
    BY <1>1 DEF Show, TypeOK
  <2>4. /\ pollRef' \in Nat /\ loading' \in BOOLEAN /\ inflightRef' \in BOOLEAN
        /\ polls' \subseteq Poll /\ timers' \subseteq Timer
    <3>1. CASE t = NoTopology
      <4>1. /\ pollRef' = CleanedUp /\ timers' = Cleared /\ loading' = FALSE
            /\ inflightRef' = inflightRef /\ polls' = polls
        BY <1>1, <3>1 DEF Show
      <4>2. pollRef' \in Nat /\ timers' \subseteq Timer
        BY <4>1 DEF CleanedUp, Cleared, TypeOK
      <4> QED BY <4>1, <4>2 DEF TypeOK
    <3>2. CASE t # NoTopology
      <4>1. PollAgain(t, NoTopology) /\ t \in Topologies
        BY <1>1, <3>2 DEF Show, Some
      <4> QED BY <4>1, PollAgainTyped
    <3> QED BY <3>1, <3>2
  <2> QED BY <1>1, <2>2, <2>3, <2>4 DEF TypeOK, Show
<1>7. CASE Requery
  <2>1. changes' \in 0..MaxChanges
    BY <1>7 DEF Requery, TypeOK
  <2>2. /\ pollRef' \in Nat /\ loading' \in BOOLEAN /\ inflightRef' \in BOOLEAN
        /\ polls' \subseteq Poll /\ timers' \subseteq Timer
    BY <1>7, PollAgainTyped DEF Requery, TypeOK, Some
  <2> QED BY <1>7, <2>1, <2>2 DEF TypeOK, Requery
<1>2. ASSUME NEW p \in polls, Settle(p) PROVE TypeOK'
  <2>1. p \in Poll
    BY DEF TypeOK
  <2>2. graph' \in Graph /\ error' \in Some /\ baselineCache' \in Some
    BY <1>2, <2>1 DEF TypeOK, Settle, Answered, WeekAgo, Some, Graph, Poll
  <2>3. timers' \subseteq Timer
    BY <1>2, <2>1 DEF TypeOK, Settle, Interval, Timer, Poll
  <2> QED BY <1>2, <2>2, <2>3 DEF TypeOK, Settle
<1>3. ASSUME NEW i \in timers, Fire(i) PROVE TypeOK'
  <2>1. i.id \in Nat /\ i.of \in Topologies
    BY DEF TypeOK, Timer
  <2>2. inflightRef' \in BOOLEAN /\ polls' \subseteq Poll
    <3>1. SafePoll(i.id, i.of, baselineCache, FALSE)
      BY <1>3 DEF Fire
    <3> QED BY <2>1, <3>1, SafePollTyped DEF Some
  <2> QED BY <1>3, <2>2 DEF TypeOK, Fire
<1>4. CASE Hide
  BY <1>4 DEF TypeOK, Hide
<1>5. CASE Reveal
  <2>1. inflightRef' \in BOOLEAN /\ polls' \subseteq Poll
    <3>1. SafePoll(pollRef, shown, baselineCache, FALSE)
      BY <1>5 DEF Reveal
    <3> QED BY <3>1, SafePollTyped DEF TypeOK
  <2> QED BY <1>5, <2>1 DEF TypeOK, Reveal
<1>6. CASE UNCHANGED vars
  BY <1>6 DEF TypeOK, vars
<1> QED BY <1>1, <1>2, <1>3, <1>4, <1>5, <1>6, <1>7 DEF Next

(* The state of the hook is always of its type, however long it polls.        *)
THEOREM TypeCorrect == Spec => []TypeOK
  BY TypeInit, TypeNext, PTL DEF Spec

-----------------------------------------------------------------------------
(* The inductive invariant.  A poll carries the number of the effect that     *)
(* made it, and only one with the current number is of the topology shown:    *)
(* that is why the test of pollRef suffices to drop the answers of others.    *)
PollInv ==
    /\ \A p \in polls : \A q \in polls : p = q
    /\ inflightRef <=> polls # {}
    /\ \A p \in polls : p.id <= pollRef /\ (p.id = pollRef => p.of = shown)

BaselineInv == graph.baseline # NoTopology => baselineCache # NoTopology

PollingInv ==
    /\ PollInv
    /\ BaselineInv
    /\ OneLiveInterval
    /\ GraphIsOfShown
    /\ PollingNeverDies

\* The hook starts without polls, intervals and baselines.
LEMMA PollingInit == Init => PollingInv
  BY DEF Init, PollingInv, PollInv, BaselineInv, OneLiveInterval, GraphIsOfShown,
         PollingNeverDies, Drawn

(* Another topology gets a number of its own, above that of every poll in     *)
(* flight, and the interval of the one before is cleared.                     *)
LEMMA Renumbered ==
  ASSUME TypeOK, PollingInv, pollRef' \in Nat, pollRef < pollRef'
  PROVE  (\A p \in polls : p.id \in Nat /\ p.id < pollRef') /\ Cleared = {}
<1>1. \A p \in polls : p.id \in Nat /\ p.id <= pollRef
  BY DEF TypeOK, Poll, PollingInv, PollInv
<1>2. \A i \in timers : i.id = pollRef
  BY DEF PollingInv, OneLiveInterval
<1> QED BY <1>1, <1>2 DEF Cleared, TypeOK

(* safePoll keeps the polls apart: it adds one of the current number and of   *)
(* the topology shown, or nothing.                                            *)
LEMMA SafePollAdds ==
  ASSUME PollInv, NEW id, NEW t, NEW kept, NEW first, SafePoll(id, t, kept, first)
  PROVE  /\ \A p \in polls' : \A q \in polls' : p = q
         /\ inflightRef' <=> polls' # {}
         /\ \A p \in polls' : p \in polls \/ (p.id = id /\ p.of = t /\ p.first = first)
         /\ MayPoll(t) => polls = {} /\ polls' # {}
         /\ ~MayPoll(t) => polls' = polls
<1>1. CASE MayPoll(t)
  <2>1. PICK b :
          polls' = polls \cup {[id |-> id, of |-> t, baseline |-> b, first |-> first]}
    BY <1>1 DEF SafePoll
  <2>2. polls = {}
    BY <1>1 DEF PollInv, MayPoll
  <2>3. polls' = {[id |-> id, of |-> t, baseline |-> b, first |-> first]}
    BY <2>1, <2>2
  <2>4. inflightRef'
    BY <1>1 DEF SafePoll
  <2> QED BY <1>1, <2>2, <2>3, <2>4
<1>2. CASE ~MayPoll(t)
  <2>1. polls' = polls /\ inflightRef' = inflightRef
    BY <1>2 DEF SafePoll
  <2> QED BY <1>2, <2>1 DEF PollInv
<1> QED BY <1>1, <1>2

\* The polling effect leaves its first poll in flight or its interval alive, and no other interval.
LEMMA PollAgainKeeps ==
  ASSUME TypeOK, PollingInv, NEW t \in Topologies, NEW kept, PollAgain(t, kept), shown' = t
  PROVE  PollInv' /\ OneLiveInterval' /\ PollingNeverDies'
<1> USE PollingAssumption
<1>1. /\ pollRef' \in Nat /\ pollRef < pollRef'
      /\ \A p \in polls : p.id \in Nat /\ p.id < pollRef'
      /\ Cleared = {}
  BY PollAgainTyped, Renumbered
<1>2. /\ \A p \in polls' : \A q \in polls' : p = q
      /\ inflightRef' <=> polls' # {}
      /\ \A p \in polls' : p \in polls \/ (p.id = pollRef' /\ p.of = t /\ p.first)
      /\ MayPoll(t) => polls = {} /\ polls' # {}
      /\ ~MayPoll(t) => polls' = polls
  BY SafePollAdds DEF PollAgain, PollingInv
<1>3. loading' <=> MayPoll(t)
  BY DEF PollAgain, LoadingAfter
<1>4. PollInv'
  BY <1>1, <1>2 DEF PollInv
<1>5. timers' = IF MayPoll(t) THEN {} ELSE {[id |-> pollRef', of |-> t]}
  BY <1>1 DEF PollAgain, Interval
<1>6. OneLiveInterval'
  BY <1>5 DEF OneLiveInterval
<1>7. PollingNeverDies'
  <2>1. CASE MayPoll(t)
    <3>1. loading' /\ \E p \in polls' : p.first /\ p.id = pollRef'
      BY <1>2, <1>3, <2>1
    <3> QED BY <3>1 DEF PollingNeverDies
  <2>2. CASE ~MayPoll(t)
    <3>1. ~loading' /\ [id |-> pollRef', of |-> t] \in timers'
      BY <1>3, <1>5, <2>2
    <3>2. \A p \in polls' : p.id # pollRef'
      BY <1>1, <1>2, <2>2
    <3> QED BY <3>1, <3>2 DEF PollingNeverDies
  <2> QED BY <2>1, <2>2
<1> QED BY <1>4, <1>6, <1>7

\* Every step keeps the invariant of polls, intervals and the graph.
LEMMA PollingNext == TypeOK /\ PollingInv /\ [Next]_vars => PollingInv'
<1> SUFFICES ASSUME TypeOK, PollingInv, [Next]_vars PROVE PollingInv'
  OBVIOUS
<1> USE PollingAssumption
<1>t. /\ \A p \in polls : p.id \in Nat /\ p.of \in Topologies /\ p.first \in BOOLEAN
      /\ \A i \in timers : i.id \in Nat /\ i.of \in Topologies
      /\ pollRef \in Nat /\ shown \in Some
  BY DEF TypeOK, Poll, Timer
<1>i. PollInv /\ BaselineInv /\ OneLiveInterval /\ GraphIsOfShown /\ PollingNeverDies
  BY DEF PollingInv
<1>1. ASSUME NEW t \in Some, Show(t) PROVE PollingInv'
  <2>1. GraphIsOfShown' /\ BaselineInv' /\ shown' = t
    BY <1>1 DEF Show, GraphIsOfShown, BaselineInv, Drawn, BaselineAfter
  <2>2. CASE t = NoTopology
    <3>1. pollRef' = pollRef + 1
      BY <1>1, <2>2 DEF Show, CleanedUp
    <3>2. (\A p \in polls : p.id < pollRef') /\ Cleared = {}
      BY <1>t, <3>1, Renumbered
    <3>3. polls' = polls /\ inflightRef' = inflightRef /\ timers' = {} /\ ~loading'
      BY <1>1, <2>2, <3>2 DEF Show
    <3>4. PollInv'
      BY <1>i, <1>t, <3>1, <3>2, <3>3 DEF PollInv
    <3>5. OneLiveInterval' /\ PollingNeverDies'
      BY <1>t, <2>1, <2>2, <3>1, <3>2, <3>3 DEF OneLiveInterval, PollingNeverDies
    <3> QED BY <2>1, <3>4, <3>5 DEF PollingInv
  <2>3. CASE t # NoTopology
    <3>1. PollInv' /\ OneLiveInterval' /\ PollingNeverDies'
      BY <1>1, <2>1, <2>3, PollAgainKeeps DEF Show, Some
    <3> QED BY <2>1, <3>1 DEF PollingInv
  <2> QED BY <2>2, <2>3
<1>8. CASE Requery
  <2>1. PollInv' /\ OneLiveInterval' /\ PollingNeverDies'
    BY <1>8, <1>t, PollAgainKeeps DEF Requery, Some
  <2>2. GraphIsOfShown' /\ BaselineInv'
    BY <1>8, <1>i DEF Requery, GraphIsOfShown, BaselineInv
  <2> QED BY <2>1, <2>2 DEF PollingInv
<1>2. ASSUME NEW p \in polls, Settle(p) PROVE PollingInv'
  <2>1. polls' = {} /\ ~inflightRef' /\ shown' = shown /\ pollRef' = pollRef
    BY <1>2, <1>i DEF Settle, PollInv
  <2>2. PollInv'
    BY <2>1 DEF PollInv
  <2>3. GraphIsOfShown' /\ BaselineInv'
    BY <1>2, <1>i, <1>t, <2>1
       DEF Settle, Answered, Current, WeekAgo, GraphIsOfShown, BaselineInv, PollInv
  <2>4. OneLiveInterval'
    BY <1>2, <1>i, <2>1 DEF Settle, Interval, OneLiveInterval, PollInv
  <2>5. PollingNeverDies'
    <3>1. \A q \in polls : q = p
      BY <1>i DEF PollInv
    <3>2. CASE p.first /\ p.id = pollRef
      <4>1. ~loading'
        BY <1>2, <3>2 DEF Settle
      <4>2. [id |-> p.id, of |-> p.of] \in timers'
        BY <1>2, <3>2 DEF Settle, Interval
      <4> QED BY <2>1, <3>2, <4>1, <4>2 DEF PollingNeverDies
    <3>3. CASE ~(p.first /\ p.id = pollRef)
      <4>1. ~loading
        BY <1>i, <3>1, <3>3 DEF PollingNeverDies
      <4>2. ~loading'
        BY <1>2, <4>1 DEF Settle
      <4>3. timers \subseteq timers'
        BY <1>2 DEF Settle
      <4>4. shown # NoTopology => \E i \in timers : i.id = pollRef
        BY <1>i, <4>1 DEF PollingNeverDies
      <4> QED BY <2>1, <4>2, <4>3, <4>4 DEF PollingNeverDies
    <3> QED BY <3>2, <3>3
  <2> QED BY <2>2, <2>3, <2>4, <2>5 DEF PollingInv
<1>3. ASSUME NEW id, NEW of, SafePoll(id, of, baselineCache, FALSE),
             id = pollRef, of = shown,
             UNCHANGED <<shown, graph, loading, pollRef, baselineCache, timers>>
      PROVE  PollingInv'
  <2>1. /\ \A p \in polls' : \A q \in polls' : p = q
        /\ inflightRef' <=> polls' # {}
        /\ \A p \in polls' : p \in polls \/ (p.id = pollRef /\ p.of = shown /\ ~p.first)
        /\ MayPoll(of) => polls = {} /\ polls' # {}
        /\ ~MayPoll(of) => polls' = polls
    BY <1>3, <1>i, SafePollAdds
  <2>2. PollInv'
    BY <1>3, <1>i, <1>t, <2>1 DEF PollInv
  <2>3. (\E p \in polls' : p.first /\ p.id = pollRef)
            <=> (\E p \in polls : p.first /\ p.id = pollRef)
    BY <2>1
  <2>4. PollingNeverDies'
    BY <1>3, <1>i, <2>3 DEF PollingNeverDies
  <2>5. OneLiveInterval' /\ GraphIsOfShown' /\ BaselineInv'
    BY <1>3, <1>i DEF OneLiveInterval, GraphIsOfShown, BaselineInv
  <2> QED BY <2>2, <2>4, <2>5 DEF PollingInv
<1>4. ASSUME NEW i \in timers, Fire(i) PROVE PollingInv'
  <2>1. i.id = pollRef /\ i.of = shown
    BY <1>i DEF OneLiveInterval
  <2>2. SafePoll(i.id, i.of, baselineCache, FALSE)
        /\ UNCHANGED <<shown, graph, loading, pollRef, baselineCache, timers>>
    BY <1>4 DEF Fire
  <2> QED BY <1>3, <2>1, <2>2
<1>5. CASE Hide
  BY <1>5, <1>i DEF Hide, PollingInv, PollInv, BaselineInv, OneLiveInterval,
                    GraphIsOfShown, PollingNeverDies
<1>6. CASE Reveal
  <2>1. SafePoll(pollRef, shown, baselineCache, FALSE)
        /\ UNCHANGED <<shown, graph, loading, pollRef, baselineCache, timers>>
    BY <1>6 DEF Reveal
  <2> QED BY <1>3, <2>1
<1>7. CASE UNCHANGED vars
  BY <1>7, <1>i DEF vars, PollingInv, PollInv, BaselineInv, OneLiveInterval,
                    GraphIsOfShown, PollingNeverDies
<1> QED BY <1>1, <1>2, <1>4, <1>5, <1>6, <1>7, <1>8 DEF Next

\* The inductive invariant holds throughout.
LEMMA PollingInvariant == Spec => [](TypeOK /\ PollingInv)
  BY TypeInit, TypeNext, PollingInit, PollingNext, PTL DEF Spec

(* Polls never overlap and the flag that prevents it is always released.      *)
THEOREM OnePollInFlightAlways == Spec => []OnePollInFlight
<1>1. PollingInv => OnePollInFlight
  <2> SUFFICES ASSUME PollingInv PROVE Cardinality(polls) <= 1
    BY DEF PollingInv, PollInv, OnePollInFlight
  <2>1. CASE polls = {}
    <3>1. Cardinality(polls) = 0
      BY <2>1, FS_EmptySet
    <3> QED BY <3>1
  <2>2. CASE polls # {}
    <3>1. PICK p : p \in polls
      BY <2>2
    <3>2. polls = {p}
      BY <3>1 DEF PollingInv, PollInv
    <3>3. Cardinality(polls) = 1
      BY <3>2, FS_Singleton
    <3> QED BY <3>3
  <2> QED BY <2>1, <2>2
<1> QED BY <1>1, PollingInvariant, PTL

(* The only live interval is that of the topology shown.                      *)
THEOREM OneLiveIntervalAlways == Spec => []OneLiveInterval
<1>1. PollingInv => OneLiveInterval
  BY DEF PollingInv
<1> QED BY <1>1, PollingInvariant, PTL

(* Metrics, baseline and graph shown are of one topology, the one chosen.     *)
THEOREM GraphIsOfShownAlways == Spec => []GraphIsOfShown
<1>1. PollingInv => GraphIsOfShown
  BY DEF PollingInv
<1> QED BY <1>1, PollingInvariant, PTL

(* A topology shown always has its first poll in flight or its interval alive. *)
THEOREM PollingNeverDiesAlways == Spec => []PollingNeverDies
<1>1. PollingInv => PollingNeverDies
  BY DEF PollingInv
<1> QED BY <1>1, PollingInvariant, PTL

(* No step takes back the metrics or the baseline of the topology shown.      *)
THEOREM MetricsAreKeptAlways == Spec => MetricsAreKept
<1> DEFINE Kept == shown' = shown =>
              /\ graph.metrics # NoTopology => graph'.metrics = graph.metrics
              /\ graph.baseline # NoTopology => graph'.baseline = graph.baseline
<1>1. TypeOK /\ PollingInv /\ [Next]_vars => [Kept]_vars
  <2> SUFFICES ASSUME TypeOK, PollingInv, Next, shown' = shown
               PROVE  /\ graph.metrics # NoTopology => graph'.metrics = graph.metrics
                      /\ graph.baseline # NoTopology => graph'.baseline = graph.baseline
    BY DEF vars
  <2>1. ASSUME NEW p \in polls, Settle(p)
        PROVE  /\ graph.metrics # NoTopology => graph'.metrics = graph.metrics
               /\ graph.baseline # NoTopology => graph'.baseline = graph.baseline
    <3>1. CASE ~Current(p)
      BY <2>1, <3>1 DEF Settle, Answered
    <3>2. CASE Current(p)
      <4>1. p.of = shown /\ p.of \in Topologies
        BY <3>2 DEF PollingInv, PollInv, Current, TypeOK, Poll
      <4>2. /\ graph.metrics \in {NoTopology, shown}
            /\ graph.baseline \in {NoTopology, shown}
            /\ baselineCache \in {NoTopology, shown}
            /\ graph.baseline # NoTopology => baselineCache # NoTopology
        BY <4>1, PollingAssumption DEF PollingInv, GraphIsOfShown, BaselineInv
      <4>3. CASE graph' = graph
        BY <4>3
      <4>4. CASE \E got \in {FALSE, p.baseline} :
                   graph' = [of |-> p.of, metrics |-> p.of, baseline |-> WeekAgo(p, got)]
        BY <4>1, <4>2, <4>4 DEF WeekAgo
      <4> QED BY <2>1, <3>2, <4>3, <4>4 DEF Settle, Answered
    <3> QED BY <3>1, <3>2
  <2> QED BY <2>1 DEF Next, Show, Requery, Fire, Hide, Reveal
<1> QED BY <1>1, PollingInvariant, PTL DEF Spec, MetricsAreKept
=============================================================================
