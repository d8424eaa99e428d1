-------------------------- MODULE FlowEditing_proofs --------------------------
(***************************************************************************)
(* What holds of editing for any tabs, documents and edits: a load never   *)
(* replaces the result of a later one, no flow refers to a template that   *)
(* doesn't exist, a tab that edits alone ends up with what the backend     *)
(* holds, and no edit that was waited for is lost.                         *)
(***************************************************************************)
EXTENDS FlowEditing, TLAPS

\* The constants are what the specification assumes they are, step by step.
LEMMA StepFacts ==
    ASSUME NEW e \in Edits
    PROVE  /\ Steps[e] \in Seq(Docs)
           /\ Len(Steps[e]) \in Nat \ {0}
           /\ \A i \in 1..Len(Steps[e]) : Steps[e][i] \in Docs
           /\ Steps[e][1] \in Docs
<1>1. Steps[e] \in Seq(Docs) /\ Len(Steps[e]) > 0
  BY EditingAssumption
<1>2. Len(Steps[e]) \in Nat
  BY <1>1
<1>3. \A i \in 1..Len(Steps[e]) : Steps[e][i] \in Docs
  BY <1>1
<1> QED
  BY <1>1, <1>2, <1>3

\* The content a handler saves is made of edits and the seed.
LEMMA EditedType ==
    ASSUME TypeOK, NEW t \in Tabs, NEW e \in Edits, NEW d \in Docs
    PROVE  Edited(t, e, d) \in Content
BY DEF TypeOK, Edited, Content, Bundle

\* The tab's own copy after saving a layout is a bundle.
LEMMA UpdatedType ==
    ASSUME TypeOK, NEW t \in Tabs, NEW e \in Edits
    PROVE  Updated(t, e) \in Bundle
BY DEF TypeOK, Updated, Bundle

\* What reload does to the state of a tab keeps its types.
LEMMA ReloadType ==
    ASSUME TypeOK, NEW t \in Tabs, Reload(t)
    PROVE  /\ tick' \in [Tabs -> Nat]
           /\ loading' \in [Tabs -> BOOLEAN]
           /\ fetches' \subseteq Fetch
<1>1. tick' \in [Tabs -> Nat] /\ loading' \in [Tabs -> BOOLEAN]
  BY DEF TypeOK, Reload
<1>2. Load(t, tick[t] + 1) \in Fetch
  BY DEF TypeOK, Load, Fetch
<1> QED
  BY <1>1, <1>2 DEF TypeOK, Reload

\* A handler under way belongs to a tab, and has a document left to save.
Handlers ==
    /\ \A e \in Begun : tab[e] \in Tabs
    /\ \A e \in Edits : pc[e] = "idle" => stored[e] = 0
    /\ \A e \in UnderWay : stored[e] < Len(Steps[e])

\* A click keeps the types.
LEMMA BeginType ==
    ASSUME TypeOK, Handlers, NEW t \in Tabs, NEW e \in Edits, Begin(t, e)
    PROVE  TypeOK' /\ Handlers'
<1>1. [d \in Docs |-> Edited(t, e, d)] \in Bundle
  BY EditedType DEF Bundle
<1>2. payload' \in [Edits -> Bundle]
  BY <1>1 DEF Begin, TypeOK
<1>3. /\ pc' \in [Edits -> {"idle", "sent", "answered", "done", "failed"}]
      /\ tab' \in [Edits -> Tabs \cup {Nothing}]
      /\ tab'[e] = t /\ pc'[e] = "sent" /\ stored[e] = 0
      /\ \A x \in Edits \ {e} : tab'[x] = tab[x] /\ pc'[x] = pc[x]
  BY DEF Begin, TypeOK, Handlers
<1>4. overlapped' \in BOOLEAN /\ layoutOverlapped' \in BOOLEAN
  BY DEF Begin, TypeOK
<1>5. TypeOK'
  BY <1>2, <1>3, <1>4 DEF Begin, TypeOK, tabVars
<1>6. Len(Steps[e]) > 0 /\ stored' = stored
  BY StepFacts DEF Begin
<1>7. Handlers'
  BY <1>3, <1>6 DEF Handlers, Begun, UnderWay
<1> QED
  BY <1>5, <1>7

\* A save that is stored or refused keeps the types.
LEMMA StoreDocType ==
    ASSUME TypeOK, Handlers, NEW e \in Edits, StoreDoc(e)
    PROVE  TypeOK' /\ Handlers'
<1>1. PICK d : \/ /\ saved' = [saved EXCEPT ![d] = payload[e][d]]
                  /\ version' = version + 1
                  /\ pc' = [pc EXCEPT ![e] = "answered"]
                  /\ saveFailed' = saveFailed
               \/ SaveFails(e) /\ UNCHANGED <<saved, version>>
  BY DEF StoreDoc
<1>2. saved' \in Bundle
  BY <1>1 DEF TypeOK, Bundle
<1>3. pc' \in [Edits -> {"idle", "sent", "answered", "done", "failed"}] /\ version' \in Nat
  BY <1>1 DEF TypeOK, SaveFails
<1>4. saveFailed' \in BOOLEAN
  BY <1>1 DEF TypeOK, SaveFails
<1>5. TypeOK'
  BY <1>2, <1>3, <1>4 DEF StoreDoc, TypeOK, tabVars, overlaps
<1>6. /\ pc[e] = "sent" /\ pc'[e] \in {"answered", "failed"}
      /\ \A x \in Edits \ {e} : pc'[x] = pc[x]
  BY <1>1 DEF StoreDoc, TypeOK, SaveFails
<1>7. Handlers'
  BY <1>6 DEF StoreDoc, Handlers, Begun, UnderWay
<1> QED
  BY <1>5, <1>7

\* An answer to a handler keeps the types.
LEMMA AnswerType ==
    ASSUME TypeOK, Handlers, NEW e \in Edits, Answer(e)
    PROVE  TypeOK' /\ Handlers'
<1>1. /\ pc' \in [Edits -> {"idle", "sent", "answered", "done", "failed"}]
      /\ stored' \in [Edits -> Nat]
  <2>1. \/ /\ stored' = [stored EXCEPT ![e] = @ + 1]
           /\ pc' = [pc EXCEPT ![e] = "sent"] \/ pc' = [pc EXCEPT ![e] = "done"]
        \/ stored' = stored /\ pc' = [pc EXCEPT ![e] = "failed"]
    BY DEF Answer, SaveFails
  <2> QED
    BY <2>1 DEF TypeOK
<1>2. saveFailed' \in BOOLEAN
  BY DEF Answer, SaveFails, TypeOK
<1>3. tab[e] \in Tabs /\ e \in UnderWay
  BY DEF Answer, Handlers, Begun, UnderWay
<1>4. UNCHANGED <<saved, tab, payload, version, overlaps, loadFailed>>
  BY DEF Answer
<1>5. TypeOK'
  <2>1. CASE UNCHANGED tabVars
    BY <1>1, <1>2, <1>4, <2>1 DEF TypeOK, tabVars, overlaps
  <2>2. CASE Reload(tab[e])
    BY <1>1, <1>2, <1>3, <1>4, <2>2, ReloadType DEF TypeOK, Reload, overlaps
  <2>3. CASE /\ page' = [page EXCEPT ![tab[e]] = Updated(tab[e], e)]
             /\ UNCHANGED <<loading, tick, prevTick, prevPrint, fetches, seen>>
    <3>1. page' \in [Tabs -> Bundle]
      BY <1>3, <2>3, UpdatedType DEF TypeOK
    <3> QED
      BY <1>1, <1>2, <1>4, <2>3, <3>1 DEF TypeOK, overlaps
  <2> QED
    BY <2>1, <2>2, <2>3 DEF Answer
<1>6. Handlers'
  <2>1. /\ \A x \in Edits \ {e} : pc'[x] = pc[x] /\ stored'[x] = stored[x]
        /\ pc'[e] \in {"sent", "done", "failed"}
        /\ pc'[e] = "sent" => stored'[e] < Len(Steps[e])
    BY DEF Answer, SaveFails, TypeOK
  <2> QED
    BY <1>4, <2>1, <1>3 DEF Handlers, Begun, UnderWay
<1> QED
  BY <1>5, <1>6

\* A step of a load keeps the types.
LEMMA LoadStepType ==
    ASSUME TypeOK, NEW f \in fetches, LoadStep(f)
    PROVE  TypeOK'
<1>1. f \in Fetch
  BY DEF TypeOK
<1>2. CASE ServeBundle(f)
  <2>1. [tab |-> f.tab, tick |-> f.tick, bundle |-> saved, version |-> version] \in Fetch
    BY <1>1 DEF TypeOK, Fetch
  <2> QED
    BY <1>2, <2>1 DEF ServeBundle, TypeOK, editVars, overlaps
<1>3. CASE Loaded(f)
  <2>1. f.bundle # Nothing /\ f.bundle \in Bundle /\ f.version \in Nat /\ f.tick \in Nat
    BY <1>1, <1>3 DEF Loaded, Fetch
  <2>2. Fingerprint(f.bundle) \in SUBSET Docs
    BY DEF Fingerprint
  <2>3. /\ page' \in [Tabs -> Bundle] /\ loading' \in [Tabs -> BOOLEAN]
        /\ prevTick' \in [Tabs -> Nat \cup {Nothing}] /\ seen' \in [Tabs -> Nat]
    BY <1>3, <2>1 DEF Loaded, TypeOK
  <2>4. prevPrint' \in [Tabs -> (SUBSET Docs) \cup {Nothing}]
    BY <1>3, <2>2 DEF Loaded, TypeOK
  <2> QED
    BY <1>3, <2>3, <2>4 DEF Loaded, TypeOK, editVars, overlaps
<1>4. CASE LoadFails(f)
  <2>1. LoadingAfterFailure(f) \in BOOLEAN
    BY DEF LoadingAfterFailure
  <2> QED
    BY <1>4, <2>1 DEF LoadFails, TypeOK, editVars, overlaps, Aborted
<1> QED
  BY <1>2, <1>3, <1>4 DEF LoadStep

\* A load doesn't concern the handlers.
LEMMA LoadStepHandlers ==
    ASSUME Handlers, NEW f \in fetches, LoadStep(f)
    PROVE  Handlers'
BY DEF LoadStep, ServeBundle, Loaded, LoadFails, editVars, Handlers, Begun, UnderWay

\* At the start everything has its type and no handler is under way.
LEMMA TypeInit == Init => TypeOK /\ Handlers
<1> SUFFICES ASSUME Init PROVE TypeOK /\ Handlers
  OBVIOUS
<1>1. saved \in Bundle /\ Empty \in Bundle
  BY DEF Init, Bundle, Content, Empty
<1>2. fetches \subseteq Fetch
  BY DEF Init, Load, Fetch
<1> QED
  BY <1>1, <1>2 DEF Init, TypeOK, Handlers, Begun, UnderWay

\* Each step keeps the types, and each handler with a document left to save.
LEMMA TypeStep == TypeOK /\ Handlers /\ [Next]_vars => (TypeOK /\ Handlers)'
<1> SUFFICES ASSUME TypeOK, Handlers, [Next]_vars PROVE TypeOK' /\ Handlers'
  OBVIOUS
<1>1. CASE UNCHANGED vars
  BY <1>1 DEF TypeOK, Handlers, Begun, UnderWay, vars, tabVars, editVars, overlaps
<1>2. ASSUME NEW t \in Tabs, NEW e \in Edits, Begin(t, e) PROVE TypeOK' /\ Handlers'
  BY <1>2, BeginType
<1>3. ASSUME NEW e \in Edits, HandlerStep(e) PROVE TypeOK' /\ Handlers'
  BY <1>3, StoreDocType, AnswerType DEF HandlerStep
<1>4. ASSUME NEW f \in fetches, LoadStep(f) PROVE TypeOK' /\ Handlers'
  BY <1>4, LoadStepType, LoadStepHandlers
<1> QED
  BY <1>1, <1>2, <1>3, <1>4 DEF Next

\* The variables of the module keep their types, whatever is loaded and saved.
THEOREM Typing == Spec => []TypeOK
BY TypeInit, TypeStep, PTL DEF Spec

-----------------------------------------------------------------------------
(* Loads.                                                                    *)

\* A tab has one load of each number, none is newer than its last one, and the last
\* one's answer isn't older than what the tab shows.
LoadsInOrder ==
    /\ \A t \in Tabs : seen[t] <= version
    /\ \A f \in fetches : f.tick <= tick[f.tab]
    /\ \A f, g \in fetches : f.tab = g.tab /\ f.tick = g.tick => f = g
    /\ \A f \in fetches : f.bundle # Nothing => f.version <= version
    /\ \A f \in fetches :
         f.bundle # Nothing /\ f.tick = tick[f.tab] => seen[f.tab] <= f.version

\* A step that changes no load keeps their order.
LEMMA OtherStepKeepsOrder ==
    ASSUME TypeOK, LoadsInOrder, UNCHANGED <<tick, fetches, seen>>,
           version' \in Nat, version' >= version
    PROVE  LoadsInOrder'
<1>1. \A f \in fetches : f.version \in Nat /\ f.tab \in Tabs
  BY DEF TypeOK, Fetch
<1> QED
  BY <1>1 DEF LoadsInOrder, TypeOK

\* The load that reload starts is the newest of its tab.
LEMMA ReloadKeepsOrder ==
    ASSUME TypeOK, LoadsInOrder, NEW t \in Tabs, Reload(t), version' = version
    PROVE  LoadsInOrder'
<1> DEFINE new == Load(t, tick[t] + 1)
<1>1. /\ new.tab = t /\ new.tick = tick[t] + 1 /\ new.bundle = Nothing
      /\ tick'[t] = tick[t] + 1 /\ \A u \in Tabs \ {t} : tick'[u] = tick[u]
      /\ fetches' = fetches \cup {new} /\ seen' = seen
      /\ \A u \in Tabs : tick[u] \in Nat
  BY DEF Reload, Load, TypeOK
<1>2. \A f \in fetches : f.tab \in Tabs /\ f.tick \in Nat /\ f.tick <= tick[f.tab]
  BY DEF TypeOK, Fetch, LoadsInOrder
<1> HIDE DEF new
<1>3. \A f \in fetches' : f.tick <= tick'[f.tab]
  BY <1>1, <1>2
<1>4. \A f \in fetches : f.tab = t => f.tick # tick[t] + 1
  BY <1>1, <1>2
<1>5. \A f, g \in fetches' : f.tab = g.tab /\ f.tick = g.tick => f = g
  BY <1>1, <1>4 DEF LoadsInOrder
<1>6. \A f \in fetches' :
        f.bundle # Nothing /\ f.tick = tick'[f.tab] => seen'[f.tab] <= f.version
  BY <1>1, <1>2, <1>4 DEF LoadsInOrder
<1> QED
  BY <1>1, <1>3, <1>5, <1>6 DEF LoadsInOrder

\* The backend answers a load with what it holds now.
LEMMA ServeKeepsOrder ==
    ASSUME TypeOK, LoadsInOrder, NEW f \in fetches, ServeBundle(f)
    PROVE  LoadsInOrder'
<1> DEFINE served == [tab |-> f.tab, tick |-> f.tick, bundle |-> saved, version |-> version]
<1>1. /\ served.tab = f.tab /\ served.tick = f.tick /\ served.version = version
      /\ fetches' = (fetches \ {f}) \cup {served}
      /\ UNCHANGED <<tick, seen, version>>
  BY DEF ServeBundle
<1>2. f.tab \in Tabs /\ version \in Nat
  BY DEF TypeOK, Fetch
<1> HIDE DEF served
<1>3. \A g, h \in fetches' : g.tab = h.tab /\ g.tick = h.tick => g = h
  BY <1>1 DEF LoadsInOrder
<1>4. \A g \in fetches' : g.tick <= tick'[g.tab]
  BY <1>1 DEF LoadsInOrder
<1>5. \A g \in fetches' : g.bundle # Nothing => g.version <= version'
  BY <1>1, <1>2 DEF LoadsInOrder
<1>6. \A g \in fetches' :
        g.bundle # Nothing /\ g.tick = tick'[g.tab] => seen'[g.tab] <= g.version
  BY <1>1, <1>2 DEF LoadsInOrder
<1> QED
  BY <1>1, <1>3, <1>4, <1>5, <1>6 DEF LoadsInOrder

\* A tab takes over the answer of its last load only, and that isn't older than what
\* it shows.
LEMMA LoadedKeepsOrder ==
    ASSUME TypeOK, LoadsInOrder, NEW f \in fetches, Loaded(f)
    PROVE  LoadsInOrder' /\ \A t \in Tabs : seen'[t] >= seen[t]
<1>1. /\ f.bundle # Nothing /\ fetches' = fetches \ {f}
      /\ UNCHANGED <<tick, version>>
      /\ \/ seen' = seen
         \/ ~Aborted(f) /\ seen' = [seen EXCEPT ![f.tab] = f.version]
  BY DEF Loaded
<1>2. /\ f.tab \in Tabs /\ f.version \in Nat /\ version \in Nat
      /\ \A t \in Tabs : seen[t] \in Nat
  BY DEF TypeOK, Fetch
<1>3. CASE seen' = seen
  BY <1>1, <1>2, <1>3 DEF LoadsInOrder
<1>4. CASE ~Aborted(f) /\ seen' = [seen EXCEPT ![f.tab] = f.version]
  <2>1. f.tick = tick[f.tab] /\ seen[f.tab] <= f.version /\ f.version <= version
    BY <1>1, <1>4 DEF Aborted, LoadsInOrder
  <2>2. seen'[f.tab] = f.version /\ \A t \in Tabs \ {f.tab} : seen'[t] = seen[t]
    BY <1>2, <1>4 DEF TypeOK
  <2>3. \A g \in fetches' : g.tab \in Tabs /\ ~(g.tab = f.tab /\ g.tick = f.tick)
    BY <1>1 DEF LoadsInOrder, TypeOK, Fetch
  <2>4. \A g \in fetches' :
          g.bundle # Nothing /\ g.tick = tick'[g.tab] => seen'[g.tab] <= g.version
    BY <1>1, <2>1, <2>2, <2>3 DEF LoadsInOrder
  <2>5. \A t \in Tabs : seen'[t] <= version' /\ seen'[t] >= seen[t]
    BY <1>1, <1>2, <2>1, <2>2 DEF LoadsInOrder
  <2> QED
    BY <1>1, <2>4, <2>5 DEF LoadsInOrder
<1> QED
  BY <1>1, <1>3, <1>4

\* The loads stay in order in each step, and no tab goes back.
LEMMA LoadsStep ==
    ASSUME TypeOK, Handlers, LoadsInOrder, [Next]_vars
    PROVE  LoadsInOrder' /\ \A t \in Tabs : seen'[t] >= seen[t]
<1>1. version \in Nat /\ \A t \in Tabs : seen[t] \in Nat
  BY DEF TypeOK
<1>2. ASSUME UNCHANGED <<tick, fetches, seen>>, version' \in Nat, version' >= version
      PROVE  LoadsInOrder' /\ \A t \in Tabs : seen'[t] >= seen[t]
  BY <1>1, <1>2, OtherStepKeepsOrder
<1>3. CASE UNCHANGED vars
  BY <1>1, <1>2, <1>3 DEF vars, tabVars
<1>4. ASSUME NEW t \in Tabs, NEW e \in Edits, Begin(t, e)
      PROVE  LoadsInOrder' /\ \A u \in Tabs : seen'[u] >= seen[u]
  BY <1>1, <1>2, <1>4 DEF Begin, tabVars
<1>5. ASSUME NEW e \in Edits, StoreDoc(e)
      PROVE  LoadsInOrder' /\ \A u \in Tabs : seen'[u] >= seen[u]
  <2>1. UNCHANGED <<tick, fetches, seen>> /\ (version' = version + 1 \/ version' = version)
    BY <1>5 DEF StoreDoc, tabVars
  <2> QED
    BY <1>1, <1>2, <2>1
<1>6. ASSUME NEW e \in Edits, Answer(e)
      PROVE  LoadsInOrder' /\ \A u \in Tabs : seen'[u] >= seen[u]
  <2>1. tab[e] \in Tabs /\ version' = version
    BY <1>6 DEF Answer, Handlers, Begun
  <2>2. UNCHANGED <<tick, fetches, seen>> \/ Reload(tab[e])
    BY <1>6 DEF Answer, tabVars
  <2>3. CASE Reload(tab[e])
    <3>1. seen' = seen
      BY <2>3 DEF Reload
    <3>2. LoadsInOrder'
      BY <2>1, <2>3, ReloadKeepsOrder
    <3> QED
      BY <1>1, <3>1, <3>2
  <2> QED
    BY <1>1, <1>2, <2>1, <2>2, <2>3
<1>7. ASSUME NEW f \in fetches, LoadStep(f)
      PROVE  LoadsInOrder' /\ \A u \in Tabs : seen'[u] >= seen[u]
  <2>1. CASE ServeBundle(f)
    BY <1>1, <2>1, ServeKeepsOrder DEF ServeBundle
  <2>2. CASE Loaded(f)
    BY <2>2, LoadedKeepsOrder
  <2>3. CASE LoadFails(f)
    BY <1>1, <2>3 DEF LoadFails, LoadsInOrder
  <2> QED
    BY <1>7, <2>1, <2>2, <2>3 DEF LoadStep
<1> QED
  BY <1>3, <1>4, <1>5, <1>6, <1>7 DEF Next, HandlerStep

\* What a tab loads is never older than what it loaded before, however its loads
\* overtake each other: the load that useTopologyData's effect aborts changes nothing.
THEOREM NoLoadGoesBack == Spec => LoadsGoForward
<1>1. Init => LoadsInOrder
  <2> SUFFICES ASSUME Init PROVE LoadsInOrder
    OBVIOUS
  <2>1. /\ \A t \in Tabs : tick[t] = 0 /\ seen[t] = 0
        /\ version = 0
        /\ \A f \in fetches : \E t \in Tabs : f = Load(t, 0)
    BY DEF Init
  <2> QED
    BY <2>1 DEF LoadsInOrder, Load
<1>2. TypeOK /\ Handlers /\ LoadsInOrder /\ [Next]_vars => LoadsInOrder'
  BY LoadsStep
<1>3. TypeOK /\ Handlers /\ LoadsInOrder /\ [Next]_vars
        => [\A t \in Tabs : seen'[t] >= seen[t]]_vars
  BY LoadsStep
<1> QED
  BY <1>1, <1>2, <1>3, TypeInit, TypeStep, PTL DEF Spec, LoadsGoForward

-----------------------------------------------------------------------------
(* References.                                                               *)

\* The templates an edit creates, and the documents in which it refers to them.
Templates(e) == Replaced[e] \cap ToSet(Steps[e])
Flows(e) == ToSet(Steps[e]) \ Replaced[e]

\* What edit e refers to exists.
Backed(e) == \A d \in Templates(e) : saved[d] # {}

\* The handler of edit e has stored its i-th document.
IsStored(e, i) == i <= stored[e] \/ (pc[e] = "answered" /\ i = stored[e] + 1)

\* A document that contains an edit, anywhere, refers to what exists; only a handler's
\* own edit is in documents it computed before its templates are stored.  These are
\* stored first.
RefsAreBacked ==
    /\ \A e \in Edits : \A f \in Flows(e) : e \in saved[f] => Backed(e)
    /\ \A t \in Tabs : \A e \in Edits : \A f \in Flows(e) : e \in page[t][f] => Backed(e)
    /\ \A l \in fetches : l.bundle # Nothing =>
         \A e \in Edits : \A f \in Flows(e) : e \in l.bundle[f] => Backed(e)
    /\ \A x \in Edits : \A e \in Edits \ {x} : \A f \in Flows(e) :
         e \in payload[x][f] => Backed(e)
    /\ \A x \in Begun \ Deletions : \A d \in Docs : payload[x][d] # {}
    /\ \A e \in Edits \ Deletions : \A i \in 1..Len(Steps[e]) :
         Steps[e][i] \in Replaced[e] /\ IsStored(e, i) => saved[Steps[e][i]] # {}

\* The documents of an edit are documents.
LEMMA DocsOfEdits ==
    ASSUME NEW e \in Edits
    PROVE  /\ ToSet(Steps[e]) = {Steps[e][i] : i \in 1..Len(Steps[e])}
           /\ Templates(e) \subseteq Docs /\ Flows(e) \subseteq Docs
           /\ Len(Steps[e]) = 1 => Templates(e) \subseteq {Steps[e][1]}
<1>1. DOMAIN Steps[e] = 1..Len(Steps[e])
  BY StepFacts
<1> QED
  BY <1>1, StepFacts DEF ToSet, Templates, Flows

\* A step that changes neither the backend nor a document that a handler computed keeps
\* the references if it brings no unbacked edit into a page or an answer.
LEMMA BackedWhenNotSaved ==
    ASSUME RefsAreBacked, UNCHANGED <<saved, payload, pc, stored>>,
           \A t \in Tabs : \A e \in Edits : \A f \in Flows(e) :
             e \in page'[t][f] => Backed(e),
           \A l \in fetches' : l.bundle # Nothing =>
             \A e \in Edits : \A f \in Flows(e) : e \in l.bundle[f] => Backed(e)
    PROVE  RefsAreBacked'
<1>1. \A e \in Edits : Backed(e)' <=> Backed(e)
  BY DEF Backed, Templates
<1>2. \A e \in Edits : Flows(e)' = Flows(e)
  BY DEF Flows
<1> QED
  BY <1>1, <1>2 DEF RefsAreBacked, Begun, IsStored

\* A click computes documents whose other edits are in the page.
LEMMA BeginIsBacked ==
    ASSUME TypeOK, Handlers, RefsAreBacked, NEW t \in Tabs, NEW x \in Edits, Begin(t, x)
    PROVE  RefsAreBacked'
<1>1. /\ UNCHANGED <<saved, page, fetches, stored>>
      /\ stored[x] = 0 /\ pc'[x] = "sent"
      /\ \A e \in Edits \ {x} : payload'[e] = payload[e] /\ pc'[e] = pc[e]
      /\ payload'[x] = [d \in Docs |-> Edited(t, x, d)]
  BY DEF Begin, TypeOK, Handlers, tabVars
<1>2. \A e \in Edits : Backed(e)' <=> Backed(e)
  BY <1>1 DEF Backed, Templates
<1>3. \A e \in Edits : Flows(e)' = Flows(e) /\ Flows(e) \subseteq Docs
  BY DocsOfEdits DEF Flows
<1>4. \A e \in Edits \ {x} : \A f \in Flows(e) : e \in payload'[x][f] => Backed(e)
  <2> SUFFICES ASSUME NEW e \in Edits \ {x}, NEW f \in Flows(e), e \in payload'[x][f]
               PROVE  Backed(e)
    OBVIOUS
  <2>1. e \in page[t][f]
    BY <1>1, <1>3 DEF Edited
  <2> QED
    BY <2>1 DEF RefsAreBacked
<1>5. x \notin Deletions => \A d \in Docs : payload'[x][d] # {}
  BY <1>1 DEF Edited
<1>6. \A y \in Edits : \A e \in Edits \ {y} : \A f \in Flows(e) :
        e \in payload'[y][f] => Backed(e)
  BY <1>1, <1>4 DEF RefsAreBacked
<1>7. \A y \in Begun' \ Deletions : \A d \in Docs : payload'[y][d] # {}
  BY <1>1, <1>5 DEF RefsAreBacked, Begun
<1>8. \A e \in Edits \ Deletions : \A i \in 1..Len(Steps[e]) :
         Steps[e][i] \in Replaced[e] /\ IsStored(e, i)' => saved'[Steps[e][i]] # {}
  BY <1>1 DEF RefsAreBacked, IsStored
<1> QED
  BY <1>1, <1>2, <1>3, <1>6, <1>7, <1>8 DEF RefsAreBacked

\* The document a handler saves next.
LEMMA NextDoc ==
    ASSUME TypeOK, Handlers, NEW x \in Edits, StoreDoc(x)
    PROVE  /\ x \in Begun /\ stored[x] + 1 \in 1..Len(Steps[x])
           /\ Order(x)[stored[x] + 1] \in Docs
           /\ x \in Deletions => Order(x)[stored[x] + 1] = Steps[x][1]
<1>1. x \in Begun /\ x \in UnderWay /\ stored[x] \in Nat
  BY DEF StoreDoc, Begun, UnderWay, TypeOK
<1>2. stored[x] < Len(Steps[x]) /\ Len(Steps[x]) \in Nat
  BY <1>1, StepFacts DEF Handlers
<1>3. x \in Deletions => Len(Steps[x]) = 1
  BY EditingAssumption
<1> QED
  BY <1>1, <1>2, <1>3, StepFacts DEF Order

\* A stored template stays: only flows are deleted.
LEMMA TemplatesStay ==
    ASSUME TypeOK, Handlers, RefsAreBacked, NEW x \in Edits, StoreDoc(x),
           NEW e \in Edits, NEW d \in Replaced[e], d \in Docs, saved[d] # {}
    PROVE  saved'[d] # {}
<1> DEFINE n == Order(x)[stored[x] + 1]
<1>1. saved' = saved \/ saved' = [saved EXCEPT ![n] = payload[x][n]]
  BY DEF StoreDoc
<1>2. x \in Deletions => n \notin Replaced[e]
  BY NextDoc, EditingAssumption
<1>3. x \notin Deletions => payload[x][d] # {}
  BY NextDoc DEF RefsAreBacked
<1> HIDE DEF n
<1> QED
  BY <1>1, <1>2, <1>3 DEF TypeOK, Bundle

\* A handler whose next document isn't one of its templates has stored all of those.
LEMMA TemplatesFirst ==
    ASSUME TypeOK, Handlers, RefsAreBacked, NEW x \in Edits \ Deletions, StoreDoc(x),
           Order(x)[stored[x] + 1] \notin Replaced[x]
    PROVE  Backed(x)
<1> SUFFICES ASSUME NEW d \in Templates(x) PROVE saved[d] # {}
  BY DEF Backed
<1>1. x \in Edits /\ ToSet(Steps[x]) = {Steps[x][i] : i \in 1..Len(Steps[x])}
  BY DocsOfEdits
<1>2. PICK i \in 1..Len(Steps[x]) : Steps[x][i] = d /\ d \in Replaced[x]
  BY <1>1 DEF Templates
<1>3. DOMAIN Steps[x] = 1..Len(Steps[x])
  BY <1>1, StepFacts
<1>4. stored[x] + 1 \in 1..Len(Steps[x]) /\ Steps[x][stored[x] + 1] \notin Replaced[x]
  BY NextDoc DEF Order
<1>5. i < stored[x] + 1
  BY <1>2, <1>3, <1>4, EditingAssumption
<1>6. stored[x] \in Nat
  BY DEF TypeOK
<1> QED
  BY <1>2, <1>5, <1>6 DEF RefsAreBacked, IsStored

\* A stored document brings into the backend the handler's own edit, whose templates
\* are stored by then, and edits that were backed when it was computed.
LEMMA StoreDocIsBacked ==
    ASSUME TypeOK, Handlers, RefsAreBacked, NEW x \in Edits, StoreDoc(x)
    PROVE  RefsAreBacked'
<1> DEFINE n == Order(x)[stored[x] + 1]
<1>1. /\ UNCHANGED <<page, fetches, payload, stored>>
      /\ \/ saved' = [saved EXCEPT ![n] = payload[x][n]] /\ pc' = [pc EXCEPT ![x] = "answered"]
         \/ saved' = saved /\ pc' = [pc EXCEPT ![x] = "failed"]
      /\ pc[x] = "sent"
  BY DEF StoreDoc, SaveFails, tabVars
<1>2. \A e \in Edits : Flows(e)' = Flows(e) /\ Flows(e) \subseteq Docs /\ Templates(e) \subseteq Docs
  BY DocsOfEdits DEF Flows
<1>3. \A e \in Edits : Backed(e) => Backed(e)'
  BY <1>2, TemplatesStay DEF Backed, Templates
<1>4. n \in Docs /\ x \in Begun
  BY NextDoc
<1>5. \A e \in Edits : \A f \in Flows(e) : e \in saved'[f] => Backed(e)
  <2> SUFFICES ASSUME NEW e \in Edits, NEW f \in Flows(e), e \in saved'[f]
               PROVE  Backed(e)
    OBVIOUS
  <2>1. CASE e \in saved[f]
    BY <2>1 DEF RefsAreBacked
  <2>2. CASE e \notin saved[f]
    <3>1. f = n /\ e \in payload[x][f]
      BY <1>1, <1>2, <1>4, <2>2 DEF TypeOK, Bundle
    <3>2. CASE e # x
      BY <3>1, <3>2 DEF RefsAreBacked
    <3>3. CASE e = x /\ x \notin Deletions
      BY <3>1, <3>3, TemplatesFirst DEF Flows
    <3>4. CASE e = x /\ x \in Deletions
      <4>1. \A d \in Templates(x) : d = n
        <5>1. Len(Steps[x]) = 1 /\ n = Steps[x][1]
          BY <3>4, NextDoc, EditingAssumption
        <5> QED
          BY <5>1, DocsOfEdits
      <4> QED
        BY <3>1, <3>4, <4>1 DEF Backed, Templates, Flows
    <3> QED
      BY <3>2, <3>3, <3>4
  <2> QED
    BY <2>1, <2>2
<1>6. \A e \in Edits \ Deletions : \A i \in 1..Len(Steps[e]) :
         Steps[e][i] \in Replaced[e] /\ IsStored(e, i)' => saved'[Steps[e][i]] # {}
  <2> SUFFICES ASSUME NEW e \in Edits \ Deletions, NEW i \in 1..Len(Steps[e]),
                      Steps[e][i] \in Replaced[e],
                      IsStored(e, i)'
               PROVE  saved'[Steps[e][i]] # {}
    OBVIOUS
  <2>1. Steps[e][i] \in Docs
    BY StepFacts
  <2>2. CASE IsStored(e, i)
    <3>1. saved[Steps[e][i]] # {}
      BY <2>2 DEF RefsAreBacked
    <3> QED
      BY <2>1, <3>1, TemplatesStay
  <2>3. CASE ~IsStored(e, i)
    <3>1. e = x /\ i = stored[x] + 1 /\ saved' = [saved EXCEPT ![n] = payload[x][n]]
      BY <1>1, <2>3 DEF TypeOK, IsStored
    <3>2. Steps[e][i] = n /\ payload[x][n] # {}
      BY <1>4, <3>1 DEF Order, RefsAreBacked
    <3> QED
      BY <1>4, <3>1, <3>2 DEF TypeOK, Bundle
  <2> QED
    BY <2>2, <2>3
<1>7. Begun' \subseteq Begun
  BY <1>1, <1>4 DEF Begun, TypeOK
<1> QED
  BY <1>1, <1>2, <1>3, <1>5, <1>6, <1>7 DEF RefsAreBacked

\* A saved layout brings into the page what the handler computed; it creates nothing.
LEMMA AnswerIsBacked ==
    ASSUME TypeOK, Handlers, RefsAreBacked, NEW x \in Edits, Answer(x)
    PROVE  RefsAreBacked'
<1>1. /\ UNCHANGED <<saved, payload>>
      /\ pc[x] = "answered" /\ pc'[x] # "answered" /\ pc'[x] # "idle"
      /\ stored'[x] = stored[x] + 1 \/ stored'[x] = stored[x]
      /\ \A e \in Edits \ {x} : pc'[e] = pc[e] /\ stored'[e] = stored[e]
  BY DEF Answer, SaveFails, TypeOK
<1>2. \A e \in Edits : (Backed(e)' <=> Backed(e)) /\ Flows(e)' = Flows(e)
  BY <1>1 DEF Backed, Flows, Templates
<1>3. tab[x] \in Tabs /\ stored[x] \in Nat
  BY <1>1 DEF Handlers, Begun, TypeOK
<1>4. \A l \in fetches' : l.bundle # Nothing => l \in fetches
  BY DEF Answer, Reload, Load, tabVars
<1>5. \A t \in Tabs : \A e \in Edits : \A f \in Flows(e) : e \in page'[t][f] => Backed(e)
  <2>1. CASE page' = page
    BY <2>1 DEF RefsAreBacked
  <2>2. CASE x \in Layouts /\ page' = [page EXCEPT ![tab[x]] = Updated(tab[x], x)]
    <3> SUFFICES ASSUME NEW t \in Tabs, NEW e \in Edits, NEW f \in Flows(e),
                        e \in page'[t][f], e \notin page[t][f]
                 PROVE  Backed(e)
      BY DEF RefsAreBacked
    <3>1. f \in Docs
      BY DocsOfEdits
    <3>2. f = Steps[x][1] /\ e \in payload[x][f]
      BY <1>3, <2>2, <3>1 DEF Updated, TypeOK
    <3>3. CASE e # x
      BY <3>2, <3>3 DEF RefsAreBacked
    <3>4. CASE e = x
      <4>1. Len(Steps[x]) = 1
        BY <2>2, EditingAssumption
      <4>2. Templates(x) \subseteq {Steps[x][1]}
        BY <4>1, DocsOfEdits
      <4> QED
        BY <3>2, <3>4, <4>2 DEF Backed, Templates, Flows
    <3> QED
      BY <3>3, <3>4
  <2> QED
    BY <2>1, <2>2 DEF Answer, Reload, tabVars
<1>6. \A e \in Edits \ Deletions : \A i \in 1..Len(Steps[e]) :
         Steps[e][i] \in Replaced[e] /\ IsStored(e, i)' => saved'[Steps[e][i]] # {}
  BY <1>1, <1>3 DEF RefsAreBacked, IsStored
<1>7. Begun' \subseteq Begun
  BY <1>1 DEF Begun
<1> QED
  BY <1>1, <1>2, <1>4, <1>5, <1>6, <1>7 DEF RefsAreBacked

\* A load brings into a page what the backend held.
LEMMA LoadStepIsBacked ==
    ASSUME TypeOK, RefsAreBacked, NEW l \in fetches, LoadStep(l)
    PROVE  RefsAreBacked'
<1>1. CASE ServeBundle(l)
  <2> DEFINE served == [tab |-> l.tab, tick |-> l.tick, bundle |-> saved, version |-> version]
  <2>1. /\ UNCHANGED <<saved, payload, pc, stored, page>>
        /\ fetches' = (fetches \ {l}) \cup {served} /\ served.bundle = saved
    BY <1>1 DEF ServeBundle, editVars
  <2> HIDE DEF served
  <2> QED
    BY <2>1, BackedWhenNotSaved DEF RefsAreBacked
<1>2. CASE Loaded(l)
  <2>1. /\ UNCHANGED <<saved, payload, pc, stored>>
        /\ fetches' = fetches \ {l} /\ l.bundle # Nothing
        /\ page' = page \/ page' = [page EXCEPT ![l.tab] = l.bundle]
    BY <1>2 DEF Loaded, editVars
  <2>2. \A t \in Tabs : page'[t] = page[t] \/ page'[t] = l.bundle
    BY <2>1 DEF TypeOK
  <2> QED
    BY <2>1, <2>2, BackedWhenNotSaved DEF RefsAreBacked
<1>3. CASE LoadFails(l)
  <2>1. /\ UNCHANGED <<saved, payload, pc, stored, page>>
        /\ fetches' = fetches \ {l}
    BY <1>3 DEF LoadFails, editVars
  <2> QED
    BY <2>1, BackedWhenNotSaved DEF RefsAreBacked
<1> QED
  BY <1>1, <1>2, <1>3 DEF LoadStep

\* No flow refers to a template that doesn't exist, between the two saves of a handler,
\* after one of them failed and whatever other tabs save: the handlers store a template
\* before the flow that refers to it, and flows are computed from loaded ones.
THEOREM ReferencesResolve == Spec => []RefsResolve
<1>1. Init => RefsAreBacked
  <2> SUFFICES ASSUME Init PROVE RefsAreBacked
    OBVIOUS
  <2>1. /\ \A e \in Edits : \A f \in Flows(e) : f \in Docs
        /\ \A d \in Docs : \A e \in Edits : e \notin saved[d]
    BY DocsOfEdits, EditingAssumption DEF Init
  <2>2. /\ \A t \in Tabs : \A d \in Docs : page[t][d] = {}
        /\ \A e \in Edits : \A d \in Docs : payload[e][d] = {}
        /\ \A e \in Edits : pc[e] = "idle" /\ stored[e] = 0
    BY DEF Init, Empty
  <2>3. \A l \in fetches : l.bundle = Nothing
    BY DEF Init, Load
  <2> QED
    BY <2>1, <2>2, <2>3 DEF RefsAreBacked, Begun, IsStored
<1>2. TypeOK /\ Handlers /\ RefsAreBacked /\ [Next]_vars => RefsAreBacked'
  <2> SUFFICES ASSUME TypeOK, Handlers, RefsAreBacked, [Next]_vars PROVE RefsAreBacked'
    OBVIOUS
  <2>1. CASE UNCHANGED vars
    BY <2>1, BackedWhenNotSaved DEF RefsAreBacked, vars, tabVars, editVars
  <2> QED
    BY <2>1, BeginIsBacked, StoreDocIsBacked, AnswerIsBacked, LoadStepIsBacked
       DEF Next, HandlerStep
<1>3. RefsAreBacked => RefsResolve
  BY DEF RefsAreBacked, RefsResolve, Refers, Backed, Templates, Flows
<1> QED
  BY <1>1, <1>2, <1>3, TypeInit, TypeStep, PTL DEF Spec

-----------------------------------------------------------------------------
(* What a tab shows.  A tab that isn't loading waits for no load; so a saved *)
(* layout, which begins there, finds the page as it was at its click unless  *)
(* another edit of the tab is under way.                                     *)

\* A tab's last load is awaited, and brings what the tab has not taken over yet.
LoadsAwaited ==
    /\ \A f \in fetches :
         f.tick = tick[f.tab] => loading[f.tab] /\ prevTick[f.tab] # f.tick
    /\ \A t \in Tabs :
         prevTick[t] # Nothing => prevTick[t] \in Nat /\ prevTick[t] <= tick[t]
    /\ \A t \in Tabs : prevTick[t] = Nothing => prevPrint[t] = Nothing

\* A load that isn't aborted is always taken over: the fingerprint doesn't hold it back.
LEMMA TakenOver ==
    ASSUME TypeOK, LoadsAwaited, NEW f \in fetches, Loaded(f), ~Aborted(f)
    PROVE  /\ loading[f.tab] /\ f.tab \in Tabs
           /\ page' = [page EXCEPT ![f.tab] = f.bundle]
           /\ loading' = [loading EXCEPT ![f.tab] = FALSE]
           /\ prevTick' = [prevTick EXCEPT ![f.tab] = f.tick]
           /\ f.tick = tick[f.tab]
<1>1. f.tab \in Tabs /\ f.tick \in Nat
  BY DEF TypeOK, Fetch
<1>2. f.tick = tick[f.tab] /\ loading[f.tab] /\ prevTick[f.tab] # f.tick
  BY DEF Aborted, LoadsAwaited
<1>3. Resolves(f)
  <2>1. CASE prevTick[f.tab] # Nothing
    BY <1>2, <2>1 DEF Resolves
  <2>2. CASE prevTick[f.tab] = Nothing
    <3>1. prevPrint[f.tab] = Nothing
      BY <1>1, <2>2 DEF LoadsAwaited
    <3>2. Fingerprint(f.bundle) # Nothing
      BY EditingAssumption DEF Fingerprint
    <3> QED
      BY <3>1, <3>2 DEF Resolves
  <2> QED
    BY <2>1, <2>2
<1> QED
  BY <1>1, <1>2, <1>3 DEF Loaded

\* A load that is aborted, or fails after that, changes nothing a tab shows.
LEMMA AbortedChangesNothing ==
    ASSUME TypeOK, NEW f \in fetches, Loaded(f) \/ LoadFails(f), Aborted(f)
    PROVE  /\ fetches' = fetches \ {f}
           /\ UNCHANGED <<saved, page, loading, tick, prevTick, prevPrint, loadFailed>>
<1>1. CASE Loaded(f)
  BY <1>1 DEF Loaded
<1>2. CASE LoadFails(f)
  <2>1. f.tab \in Tabs
    BY DEF TypeOK, Fetch
  <2>2. LoadingAfterFailure(f) = loading[f.tab]
    BY <2>1 DEF LoadingAfterFailure, TypeOK
  <2>3. loading' = loading
    BY <1>2, <2>1, <2>2 DEF LoadFails, TypeOK
  <2>4. loadFailed' = loadFailed
    BY <1>2 DEF LoadFails, TypeOK
  <2> QED
    BY <1>2, <2>3, <2>4 DEF LoadFails
<1> QED
  BY <1>1, <1>2

\* A load that fails without being aborted is recorded.
LEMMA FailureIsRecorded ==
    ASSUME TypeOK, NEW f \in fetches, LoadFails(f), ~Aborted(f)
    PROVE  loadFailed'
BY DEF LoadFails

\* The start: every tab waits for its first load.
LEMMA AwaitedInit == Init => LoadsAwaited
<1> SUFFICES ASSUME Init PROVE LoadsAwaited
  OBVIOUS
<1>1. /\ \A t \in Tabs : loading[t] /\ prevTick[t] = Nothing /\ prevPrint[t] = Nothing
      /\ \A f \in fetches : f.tab \in Tabs /\ f.tick = 0
  BY DEF Init, Load
<1> QED
  BY <1>1, EditingAssumption DEF LoadsAwaited

\* Each step keeps a tab waiting for its last load as long as that is under way.
LEMMA AwaitedStep ==
    ASSUME TypeOK, Handlers, LoadsInOrder, LoadsAwaited, [Next]_vars
    PROVE  LoadsAwaited'
<1>0. /\ \A f \in fetches : f.tab \in Tabs /\ f.tick \in Nat
      /\ \A t \in Tabs : tick[t] \in Nat
  BY DEF TypeOK, Fetch
<1>1. ASSUME UNCHANGED <<loading, tick, prevTick, prevPrint, fetches>>
      PROVE  LoadsAwaited'
  BY <1>1 DEF LoadsAwaited
<1>2. ASSUME NEW e \in Edits, Answer(e), Reload(tab[e])
      PROVE  LoadsAwaited'
  <2> DEFINE t == tab[e]
  <2> DEFINE new == Load(t, tick[t] + 1)
  <2>1. t \in Tabs
    BY <1>2 DEF Answer, Handlers, Begun
  <2>2. /\ new.tab = t /\ new.tick = tick[t] + 1
        /\ tick'[t] = tick[t] + 1 /\ \A u \in Tabs \ {t} : tick'[u] = tick[u]
        /\ fetches' = fetches \cup {new}
        /\ loading'[t] /\ \A u \in Tabs \ {t} : loading'[u] = loading[u]
        /\ prevTick' = prevTick /\ prevPrint' = prevPrint
    BY <1>2, <2>1 DEF Reload, Load, TypeOK
  <2> HIDE DEF new, t
  <2>3. prevTick[t] # tick[t] + 1
    BY <1>0, <2>1, EditingAssumption DEF LoadsAwaited
  <2>4. \A f \in fetches : f.tab = t => f.tick # tick[t] + 1
    BY <1>0, <2>1 DEF LoadsInOrder
  <2>5. \A f \in fetches' :
          f.tick = tick'[f.tab] => loading'[f.tab] /\ prevTick'[f.tab] # f.tick
    BY <1>0, <2>1, <2>2, <2>3, <2>4 DEF LoadsAwaited
  <2>6. \A u \in Tabs :
          prevTick'[u] # Nothing => prevTick'[u] \in Nat /\ prevTick'[u] <= tick'[u]
    BY <1>0, <2>1, <2>2 DEF LoadsAwaited
  <2> QED
    BY <2>2, <2>5, <2>6 DEF LoadsAwaited
<1>3. ASSUME NEW f \in fetches, ServeBundle(f)
      PROVE  LoadsAwaited'
  <2>1. /\ \A g \in fetches' : \E h \in fetches : h.tab = g.tab /\ h.tick = g.tick
        /\ UNCHANGED <<loading, tick, prevTick, prevPrint>>
    BY <1>3 DEF ServeBundle
  <2> QED
    BY <2>1 DEF LoadsAwaited
<1>4. ASSUME NEW f \in fetches, Loaded(f) \/ LoadFails(f), Aborted(f)
      PROVE  LoadsAwaited'
  BY <1>4, AbortedChangesNothing DEF LoadsAwaited
<1>5. ASSUME NEW f \in fetches, Loaded(f), ~Aborted(f)
      PROVE  LoadsAwaited'
  <2>1. /\ f.tab \in Tabs /\ f.tick = tick[f.tab]
        /\ loading' = [loading EXCEPT ![f.tab] = FALSE]
        /\ prevTick' = [prevTick EXCEPT ![f.tab] = f.tick]
    BY <1>5, TakenOver
  <2>2. /\ fetches' = fetches \ {f} /\ tick' = tick
        /\ \A u \in Tabs \ {f.tab} : prevPrint'[u] = prevPrint[u]
    BY <1>5 DEF Loaded, TypeOK
  <2>3. \A g \in fetches' : ~(g.tab = f.tab /\ g.tick = f.tick)
    BY <2>2 DEF LoadsInOrder
  <2>4. \A g \in fetches' :
          g.tick = tick'[g.tab] => loading'[g.tab] /\ prevTick'[g.tab] # g.tick
    BY <1>0, <2>1, <2>2, <2>3 DEF LoadsAwaited, TypeOK
  <2>5. \A u \in Tabs :
          prevTick'[u] # Nothing => prevTick'[u] \in Nat /\ prevTick'[u] <= tick'[u]
    BY <1>0, <2>1, <2>2 DEF LoadsAwaited, TypeOK
  <2>6. \A u \in Tabs : prevTick'[u] = Nothing => prevPrint'[u] = Nothing
    BY <1>0, <2>1, <2>2, EditingAssumption DEF LoadsAwaited, TypeOK
  <2> QED
    BY <2>4, <2>5, <2>6 DEF LoadsAwaited
<1>6. ASSUME NEW f \in fetches, LoadFails(f), ~Aborted(f)
      PROVE  LoadsAwaited'
  <2>1. /\ fetches' = fetches \ {f} /\ UNCHANGED <<tick, prevTick, prevPrint>>
        /\ \A u \in Tabs \ {f.tab} : loading'[u] = loading[u]
    BY <1>6 DEF LoadFails, TypeOK
  <2>2. \A g \in fetches' : ~(g.tab = f.tab /\ g.tick = tick[f.tab])
    BY <1>6, <2>1 DEF LoadsInOrder, Aborted
  <2> QED
    BY <1>0, <2>1, <2>2 DEF LoadsAwaited
<1>7. CASE UNCHANGED vars
  BY <1>1, <1>7 DEF vars, tabVars
<1>8. ASSUME NEW t \in Tabs, NEW e \in Edits, Begin(t, e) PROVE LoadsAwaited'
  BY <1>1, <1>8 DEF Begin, tabVars
<1>9. ASSUME NEW e \in Edits, StoreDoc(e) PROVE LoadsAwaited'
  BY <1>1, <1>9 DEF StoreDoc, tabVars
<1>10. ASSUME NEW e \in Edits, Answer(e) PROVE LoadsAwaited'
  BY <1>1, <1>2, <1>10 DEF Answer, tabVars
<1> QED
  BY <1>3, <1>4, <1>5, <1>6, <1>7, <1>8, <1>9, <1>10 DEF Next, HandlerStep, LoadStep

\* The flow whose layout an edit saves.
FlowOf(e) == Steps[e][1]

\* A layout is saved alone, from a page that is shown and has the flow.
LayoutAlone ==
    /\ layoutOverlapped => overlapped
    /\ ~layoutOverlapped => \A e \in UnderWay \cap Layouts :
         UnderWay = {e} /\ ~loading[tab[e]] /\ page[tab[e]][FlowOf(e)] # {}

\* Each step leaves a layout's save alone, or records that it doesn't.
LEMMA LayoutStep ==
    ASSUME TypeOK, Handlers, LoadsAwaited, LayoutAlone, [Next]_vars
    PROVE  LayoutAlone'
<1>1. ASSUME UNCHANGED <<loading, page, tab, overlaps>>, UnderWay' \subseteq UnderWay
      PROVE  LayoutAlone'
  BY <1>1 DEF LayoutAlone, overlaps, FlowOf
<1>2. ASSUME NEW t \in Tabs, NEW e \in Edits, Begin(t, e)
      PROVE  LayoutAlone'
  <2>1. UnderWay' = UnderWay \cup {e}
    BY <1>2 DEF Begin, UnderWay, TypeOK
  <2>2. layoutOverlapped' => overlapped'
    BY <1>2 DEF Begin, LayoutAlone
  <2>3. ASSUME ~layoutOverlapped', NEW x \in UnderWay' \cap Layouts
        PROVE  UnderWay = {} /\ x = e /\ x \in Layouts
    BY <1>2, <2>1, <2>3 DEF Begin
  <2>4. e \in Layouts => page[t][FlowOf(e)] # {}
    <3>1. e \in Layouts => Replaced[e] = {} /\ FlowOf(e) \in ToSet(Steps[e])
      BY StepFacts, DocsOfEdits, EditingAssumption DEF FlowOf
    <3> QED
      BY <1>2, <3>1 DEF Begin
  <2>5. tab'[e] = t /\ ~loading[t] /\ loading' = loading /\ page' = page
    BY <1>2 DEF Begin, Editable, TypeOK, tabVars
  <2> QED
    BY <2>1, <2>2, <2>3, <2>4, <2>5 DEF LayoutAlone, FlowOf
<1>3. ASSUME NEW e \in Edits, StoreDoc(e)
      PROVE  LayoutAlone'
  <2>1. UnderWay' \subseteq UnderWay
    BY <1>3 DEF StoreDoc, SaveFails, UnderWay, TypeOK
  <2> QED
    BY <1>1, <1>3, <2>1 DEF StoreDoc, tabVars
<1>4. ASSUME NEW e \in Edits, Answer(e)
      PROVE  LayoutAlone'
  <2>1. e \in UnderWay /\ UnderWay' \subseteq UnderWay /\ UNCHANGED <<tab, overlaps>>
    BY <1>4 DEF Answer, SaveFails, UnderWay, TypeOK
  <2>2. CASE UNCHANGED <<loading, page>>
    BY <1>1, <2>1, <2>2
  <2>3. CASE e \notin UnderWay'
    <3>1. ~layoutOverlapped => UnderWay' \cap Layouts = {}
      BY <2>1, <2>3 DEF LayoutAlone
    <3> QED
      BY <2>1, <3>1 DEF LayoutAlone, overlaps
  <2> QED
    BY <1>4, <2>2, <2>3 DEF Answer, SaveFails, UnderWay, TypeOK, tabVars
<1>5. ASSUME NEW f \in fetches, LoadStep(f)
      PROVE  LayoutAlone'
  <2>1. UNCHANGED <<tab, overlaps>> /\ UnderWay' = UnderWay
    BY <1>5 DEF LoadStep, ServeBundle, Loaded, LoadFails, editVars, UnderWay
  <2>2. CASE ServeBundle(f)
    BY <1>1, <2>1, <2>2 DEF ServeBundle
  <2>3. CASE (Loaded(f) \/ LoadFails(f)) /\ Aborted(f)
    BY <1>1, <2>1, <2>3, AbortedChangesNothing
  <2>4. CASE Loaded(f) /\ ~Aborted(f)
    <3>1. loading[f.tab] /\ \A u \in Tabs \ {f.tab} : page'[u] = page[u] /\ loading'[u] = loading[u]
      BY <2>4, TakenOver DEF TypeOK
    <3>2. \A e \in UnderWay : tab[e] \in Tabs
      BY DEF Handlers, Begun, UnderWay
    <3> QED
      BY <2>1, <3>1, <3>2 DEF LayoutAlone, overlaps, FlowOf
  <2>5. CASE LoadFails(f) /\ ~Aborted(f)
    <3>1. /\ loading[f.tab] /\ page' = page
          /\ \A u \in Tabs \ {f.tab} : loading'[u] = loading[u]
      BY <2>5 DEF LoadFails, LoadsAwaited, Aborted, TypeOK
    <3>2. \A e \in UnderWay : tab[e] \in Tabs
      BY DEF Handlers, Begun, UnderWay
    <3> QED
      BY <2>1, <3>1, <3>2 DEF LayoutAlone, overlaps, FlowOf
  <2> QED
    BY <1>5, <2>2, <2>3, <2>4, <2>5 DEF LoadStep
<1>6. CASE UNCHANGED vars
  BY <1>1, <1>6 DEF vars, tabVars, editVars, overlaps, UnderWay
<1> QED
  BY <1>2, <1>3, <1>4, <1>5, <1>6 DEF Next, HandlerStep

-----------------------------------------------------------------------------
(* PageIsCurrent.  While only tab t has edited and nothing failed, what it   *)
(* shows, or what its last load brings, is what the backend holds as soon as *)
(* no edit is under way; and while a layout is being saved, the two differ   *)
(* by that layout.                                                           *)

Solo(t) ==
    /\ \A e \in Begun : tab[e] = t
    /\ ~saveFailed /\ ~loadFailed /\ ~layoutOverlapped

SoloPage(t) ==
    /\ UnderWay = {} /\ ~loading[t] => page[t] = saved
    /\ UnderWay = {} => \A f \in fetches :
         f.tab = t /\ f.tick = tick[t] /\ f.bundle # Nothing => f.bundle = saved
    /\ \A e \in UnderWay \cap Layouts :
         saved = IF pc[e] = "sent" THEN page[t]
                 ELSE [page[t] EXCEPT ![FlowOf(e)] = payload[e][FlowOf(e)]]

SoloInv == \A t \in Tabs : Solo(t) => SoloPage(t)

\* At the start every tab is loading.
LEMMA SoloInit == Init => SoloInv /\ LayoutAlone
<1> SUFFICES ASSUME Init PROVE SoloInv /\ LayoutAlone
  OBVIOUS
<1>1. /\ \A t \in Tabs : loading[t] /\ UnderWay = {}
      /\ \A f \in fetches : f.bundle = Nothing
  BY DEF Init, Load, UnderWay
<1>2. UnderWay = {} /\ ~layoutOverlapped
  BY DEF Init, UnderWay
<1> QED
  BY <1>1, <1>2 DEF SoloInv, SoloPage, LayoutAlone

\* A tab was alone before, if it is alone now.
LEMMA SoloBefore ==
    ASSUME TypeOK, NEW t \in Tabs, [Next]_vars, Solo(t)'
    PROVE  Solo(t)
<1>1. /\ saveFailed => saveFailed'
      /\ loadFailed => loadFailed'
      /\ layoutOverlapped => layoutOverlapped'
  BY DEF Next, HandlerStep, LoadStep, Begin, StoreDoc, Answer, SaveFails, ServeBundle,
         Loaded, LoadFails, vars, overlaps, TypeOK
<1>2. \A e \in Begun : e \in Begun' /\ tab'[e] = tab[e]
  <2>1. ASSUME NEW u \in Tabs, NEW x \in Edits, Begin(u, x)
        PROVE  \A e \in Begun : e \in Begun' /\ tab'[e] = tab[e]
    BY <2>1 DEF Begin, Begun, TypeOK
  <2>2. ASSUME NEW x \in Edits, HandlerStep(x)
        PROVE  \A e \in Begun : e \in Begun' /\ tab'[e] = tab[e]
    BY <2>2 DEF HandlerStep, StoreDoc, Answer, SaveFails, Begun, TypeOK
  <2>3. ASSUME NEW f \in fetches, LoadStep(f)
        PROVE  \A e \in Begun : e \in Begun' /\ tab'[e] = tab[e]
    BY <2>3 DEF LoadStep, ServeBundle, Loaded, LoadFails, editVars, Begun
  <2>4. CASE UNCHANGED vars
    BY <2>4 DEF vars, editVars, Begun
  <2> QED
    BY <2>1, <2>2, <2>3, <2>4 DEF Next
<1> QED
  BY <1>1, <1>2 DEF Solo

\* Each step of the only tab that edits keeps what it shows in line with the backend.
LEMMA SoloStep ==
    ASSUME TypeOK, Handlers, LoadsInOrder, LoadsAwaited, LayoutAlone, SoloInv, [Next]_vars
    PROVE  SoloInv'
<1> SUFFICES ASSUME NEW t \in Tabs, Solo(t)' PROVE SoloPage(t)'
  BY DEF SoloInv
<1>0. Solo(t) /\ SoloPage(t)
  BY SoloBefore DEF SoloInv
<1>1. ASSUME NEW u \in Tabs, NEW e \in Edits, Begin(u, e)
      PROVE  SoloPage(t)'
  <2>1. UnderWay' = UnderWay \cup {e} /\ pc'[e] = "sent" /\ tab'[e] = u /\ e \in Begun'
    BY <1>1 DEF Begin, UnderWay, Begun, TypeOK
  <2>2. u = t
    BY <2>1 DEF Solo
  <2>3. \A x \in UnderWay' \cap Layouts : x = e /\ UnderWay = {}
    <3>1. ~layoutOverlapped'
      BY DEF Solo
    <3> QED
      BY <1>1, <2>1, <3>1 DEF Begin
  <2>4. ~loading[t] /\ UNCHANGED <<saved, page>>
    BY <1>1, <2>2 DEF Begin, Editable, tabVars
  <2> QED
    BY <1>0, <2>1, <2>3, <2>4 DEF SoloPage
<1>2. ASSUME NEW e \in Edits, StoreDoc(e)
      PROVE  SoloPage(t)'
  <2>1. /\ ~saveFailed' /\ ~layoutOverlapped
    BY <1>0 DEF Solo
  <2>2. /\ saved' = [saved EXCEPT ![Order(e)[stored[e] + 1]]
                        = payload[e][Order(e)[stored[e] + 1]]]
        /\ pc' = [pc EXCEPT ![e] = "answered"]
        /\ UNCHANGED <<page, payload>> /\ pc[e] = "sent"
    BY <1>2, <2>1 DEF StoreDoc, SaveFails, tabVars
  <2>3. e \in UnderWay /\ e \in UnderWay' /\ UnderWay' = UnderWay /\ pc'[e] = "answered"
    BY <2>2 DEF UnderWay, TypeOK
  <2>4. ASSUME NEW x \in UnderWay \cap Layouts
        PROVE  saved' = [page[t] EXCEPT ![FlowOf(x)] = payload[x][FlowOf(x)]] /\ x = e
    <3>1. x = e
      BY <2>1, <2>3 DEF LayoutAlone
    <3>2. Len(Steps[e]) = 1 /\ stored[e] < Len(Steps[e]) /\ stored[e] \in Nat
      BY <2>3, <3>1, EditingAssumption DEF Handlers, TypeOK
    <3>3. Order(e)[stored[e] + 1] = FlowOf(e)
      BY <3>2 DEF Order, FlowOf
    <3>4. saved = page[t]
      BY <1>0, <2>2, <3>1 DEF SoloPage
    <3> QED
      BY <2>2, <3>1, <3>3, <3>4
  <2> QED
    BY <2>2, <2>3, <2>4 DEF SoloPage, FlowOf
<1>3. ASSUME NEW e \in Edits, Answer(e)
      PROVE  SoloPage(t)'
  <2>1. /\ e \in UnderWay /\ e \in Begun /\ tab[e] = t /\ pc[e] = "answered"
        /\ saved' = saved /\ payload' = payload /\ ~saveFailed' /\ ~layoutOverlapped
    BY <1>0, <1>3 DEF Answer, UnderWay, Begun, Solo
  <2>2. CASE /\ pc' = [pc EXCEPT ![e] = "sent"]
             /\ stored[e] + 1 < Len(Steps[e])
    <3>1. stored[e] \in Nat /\ stored[e] + 1 < Len(Steps[e])
      BY <2>2 DEF TypeOK
    <3>2. ASSUME e \in Layouts PROVE FALSE
      <4>1. Len(Steps[e]) = 1
        BY <3>2, EditingAssumption
      <4>2. stored[e] + 1 < 1
        BY <3>1, <4>1
      <4> QED
        BY <3>1, <4>2
    <3>3. UnderWay' = UnderWay /\ UnderWay \cap Layouts = {}
      BY <2>1, <2>2, <3>2 DEF LayoutAlone, UnderWay, TypeOK
    <3> QED
      BY <2>1, <3>3 DEF SoloPage
  <2>3. CASE /\ pc' = [pc EXCEPT ![e] = "done"]
             /\ e \notin Layouts
             /\ Reload(t)
    <3>1. UnderWay' = UnderWay \ {e} /\ UnderWay \cap Layouts = {}
      BY <2>1, <2>3 DEF LayoutAlone, UnderWay, TypeOK
    <3>2. loading'[t] /\ tick'[t] = tick[t] + 1 /\ tick[t] \in Nat
      BY <2>3 DEF Reload, TypeOK
    <3>3. \A f \in fetches' : f.tab = t /\ f.tick = tick'[t] => f.bundle = Nothing
      <4>1. \A f \in fetches : f.tab = t => f.tick <= tick[t] /\ f.tick \in Nat
        BY DEF LoadsInOrder, TypeOK, Fetch
      <4>2. \A f \in fetches' : f \in fetches \/ f.bundle = Nothing
        BY <2>3 DEF Reload, Load
      <4> QED
        BY <3>2, <4>1, <4>2
    <3> QED
      BY <3>1, <3>2, <3>3 DEF SoloPage
  <2>4. CASE /\ pc' = [pc EXCEPT ![e] = "done"]
             /\ e \in Layouts
             /\ page' = [page EXCEPT ![t] = Updated(t, e)]
             /\ UNCHANGED <<loading, tick, fetches>>
    <3>1. UnderWay = {e} /\ ~loading[t] /\ page[t][FlowOf(e)] # {}
      BY <2>1, <2>4 DEF LayoutAlone
    <3>2. UnderWay' = {}
      BY <2>4, <3>1 DEF UnderWay, TypeOK
    <3>3. page[t] \in [Docs -> Content] /\ FlowOf(e) \in Docs
      BY StepFacts DEF TypeOK, Bundle, FlowOf
    <3>4. Updated(t, e) = [page[t] EXCEPT ![FlowOf(e)] = payload[e][FlowOf(e)]]
      BY <3>1, <3>3 DEF Updated, FlowOf
    <3>5. saved = [page[t] EXCEPT ![FlowOf(e)] = payload[e][FlowOf(e)]]
      BY <1>0, <2>1, <2>4 DEF SoloPage
    <3>6. page'[t] = saved
      BY <2>4, <3>4, <3>5 DEF TypeOK
    <3>7. \A f \in fetches' : ~(f.tab = t /\ f.tick = tick'[t])
      BY <2>4, <3>1 DEF LoadsAwaited
    <3> QED
      BY <2>1, <3>2, <3>6, <3>7 DEF SoloPage
  <2> QED
    BY <1>3, <2>1, <2>2, <2>3, <2>4 DEF Answer, SaveFails
<1>4. ASSUME NEW f \in fetches, ServeBundle(f)
      PROVE  SoloPage(t)'
  <2>1. /\ UNCHANGED <<saved, page, loading, tick, pc, payload>> /\ UnderWay' = UnderWay
        /\ \A g \in fetches' : g \in fetches \/ g.bundle = saved
    BY <1>4 DEF ServeBundle, editVars, UnderWay
  <2> QED
    BY <1>0, <2>1 DEF SoloPage, FlowOf
<1>5. ASSUME NEW f \in fetches, Loaded(f) \/ LoadFails(f), Aborted(f)
      PROVE  SoloPage(t)'
  <2>1. /\ UNCHANGED <<saved, page, loading, tick, pc, payload>> /\ UnderWay' = UnderWay
        /\ fetches' = fetches \ {f}
    BY <1>5, AbortedChangesNothing DEF Loaded, LoadFails, editVars, UnderWay
  <2> QED
    BY <1>0, <2>1 DEF SoloPage, FlowOf
<1>6. ASSUME NEW f \in fetches, Loaded(f), ~Aborted(f)
      PROVE  SoloPage(t)'
  <2>1. /\ UNCHANGED <<saved, tick, pc, payload, tab>> /\ UnderWay' = UnderWay
        /\ fetches' = fetches \ {f} /\ f.bundle # Nothing
    BY <1>6 DEF Loaded, editVars, UnderWay
  <2>2. /\ loading[f.tab] /\ f.tab \in Tabs /\ f.tick = tick[f.tab]
        /\ page' = [page EXCEPT ![f.tab] = f.bundle]
        /\ loading' = [loading EXCEPT ![f.tab] = FALSE]
    BY <1>6, TakenOver
  <2>3. CASE f.tab = t
    <3>1. UnderWay = {} => f.bundle = saved
      BY <1>0, <2>1, <2>2, <2>3 DEF SoloPage
    <3>2. page'[t] = f.bundle
      BY <2>2, <2>3 DEF TypeOK
    <3>3. \A e \in UnderWay : tab[e] = t
      BY <1>0 DEF Solo, UnderWay, Begun
    <3>4. UnderWay \cap Layouts = {}
      BY <1>0, <2>2, <2>3, <3>3 DEF LayoutAlone, Solo
    <3> QED
      BY <1>0, <2>1, <3>1, <3>2, <3>4 DEF SoloPage
  <2>4. CASE f.tab # t
    <3>1. page'[t] = page[t] /\ loading'[t] = loading[t]
      BY <2>2, <2>4 DEF TypeOK
    <3> QED
      BY <1>0, <2>1, <3>1 DEF SoloPage, FlowOf
  <2> QED
    BY <2>3, <2>4
<1>7. ASSUME NEW f \in fetches, LoadFails(f), ~Aborted(f)
      PROVE  SoloPage(t)'
  BY <1>7, FailureIsRecorded DEF Solo
<1>8. CASE UNCHANGED vars
  BY <1>0, <1>8 DEF vars, tabVars, editVars, SoloPage, UnderWay, FlowOf
<1> QED
  BY <1>1, <1>2, <1>3, <1>4, <1>5, <1>6, <1>7, <1>8 DEF Next, HandlerStep, LoadStep

\* A tab that waits for nothing shows what the backend holds, if only it has edited, its
\* calls succeeded and no layout overlapped another save: however its other saves
\* overlapped, and in whatever order their loads were answered.
THEOREM PageIsCurrentAlways == Spec => []PageIsCurrent
<1>1. Init => LoadsInOrder
  BY DEF Init, Load, LoadsInOrder
<1>2. TypeOK /\ Handlers /\ LoadsInOrder /\ LoadsAwaited /\ LayoutAlone /\ SoloInv
        /\ [Next]_vars => (LoadsInOrder /\ LoadsAwaited /\ LayoutAlone /\ SoloInv)'
  BY LoadsStep, AwaitedStep, LayoutStep, SoloStep
<1>3. SoloInv => PageIsCurrent
  BY DEF SoloInv, Solo, SoloPage, PageIsCurrent, Undisturbed
<1> QED
  BY <1>1, <1>2, <1>3, TypeInit, TypeStep, AwaitedInit, SoloInit, PTL DEF Spec

-----------------------------------------------------------------------------
(* WaitedEditsAreKept.  While edits come one at a time, an edit whose saves  *)
(* were answered is in the backend, in what its tab shows or will load, and  *)
(* in what the edit under way computed from that: the loss of an edit needs  *)
(* one that replaces or deletes the document.                                *)

Kept(e, d, b) ==
    \/ e \in b[d]
    \/ \E x \in Begun \ {e} :
         d \in Replaced[x] \/ (x \in Deletions /\ d \in ToSet(Steps[x]))

OneAtATime ==
    ~overlapped => /\ \A x, y \in UnderWay : x = y
                   /\ \A x, y \in Begun : tab[x] = tab[y]

HandlersAddTheirEdit ==
    \A e \in Begun \ Deletions : \A d \in Docs : e \in payload[e][d]

DoneIsKept(e) ==
    pc[e] = "done" =>
        \A d \in ToSet(Steps[e]) :
            /\ Kept(e, d, saved)
            /\ ~loading[tab[e]] => Kept(e, d, page[tab[e]])
            /\ \A f \in fetches :
                 f.tab = tab[e] /\ f.tick = tick[f.tab] /\ f.bundle # Nothing
                   => Kept(e, d, f.bundle)
            /\ \A x \in UnderWay : d \in ToSet(Steps[x]) => Kept(e, d, payload[x])

StoredIsThere(e) ==
    e \in UnderWay =>
        \A i \in 1..Len(Steps[e]) : IsStored(e, i) => e \in saved[Steps[e][i]]

WaitedInv ==
    /\ OneAtATime
    /\ HandlersAddTheirEdit
    /\ ~overlapped /\ ~loadFailed =>
         \A e \in Edits \ Deletions : DoneIsKept(e) /\ StoredIsThere(e)

\* No edit has begun at the start.
LEMMA WaitedInit == Init => WaitedInv
<1> SUFFICES ASSUME Init PROVE WaitedInv
  OBVIOUS
<1>1. \A e \in Edits : pc[e] = "idle"
  BY DEF Init
<1> QED
  BY <1>1 DEF WaitedInv, OneAtATime, HandlersAddTheirEdit, DoneIsKept, StoredIsThere,
              UnderWay, Begun

\* Edits stay begun, and what is lost stays lost.
LEMMA BegunGrows ==
    ASSUME TypeOK, [Next]_vars
    PROVE  /\ overlapped => overlapped'
           /\ loadFailed => loadFailed'
           /\ Begun \subseteq Begun'
           /\ \A e \in Begun : tab'[e] = tab[e]
<1>1. /\ overlapped => overlapped'
      /\ loadFailed => loadFailed'
  BY DEF Next, HandlerStep, LoadStep, Begin, StoreDoc, Answer, SaveFails, ServeBundle,
         Loaded, LoadFails, vars, overlaps, TypeOK
<1>2. ASSUME NEW u \in Tabs, NEW x \in Edits, Begin(u, x)
      PROVE  Begun \subseteq Begun' /\ \A e \in Begun : tab'[e] = tab[e]
  BY <1>2 DEF Begin, Begun, TypeOK
<1>3. ASSUME NEW x \in Edits, HandlerStep(x)
      PROVE  Begun \subseteq Begun' /\ \A e \in Begun : tab'[e] = tab[e]
  BY <1>3 DEF HandlerStep, StoreDoc, Answer, SaveFails, Begun, TypeOK
<1>4. ASSUME NEW f \in fetches, LoadStep(f)
      PROVE  Begun \subseteq Begun' /\ \A e \in Begun : tab'[e] = tab[e]
  BY <1>4 DEF LoadStep, ServeBundle, Loaded, LoadFails, editVars, Begun
<1>5. CASE UNCHANGED vars
  BY <1>1, <1>5 DEF vars, editVars, Begun
<1> QED
  BY <1>1, <1>2, <1>3, <1>4, <1>5 DEF Next

\* Edits are one at a time as long as none begins while another is under way, and each
\* handler's documents have its edit.
LEMMA OneAtATimeStep ==
    ASSUME TypeOK, Handlers, OneAtATime, HandlersAddTheirEdit, [Next]_vars
    PROVE  OneAtATime' /\ HandlersAddTheirEdit'
<1>1. ASSUME UNCHANGED <<payload, tab>>, Begun' = Begun, UnderWay' \subseteq UnderWay
      PROVE  OneAtATime' /\ HandlersAddTheirEdit'
  <2>1. ~overlapped' => ~overlapped
    BY BegunGrows
  <2>2. OneAtATime'
    BY <1>1, <2>1 DEF OneAtATime
  <2>3. HandlersAddTheirEdit'
    BY <1>1 DEF HandlersAddTheirEdit
  <2> QED
    BY <2>2, <2>3
<1>2. ASSUME NEW t \in Tabs, NEW e \in Edits, Begin(t, e)
      PROVE  OneAtATime' /\ HandlersAddTheirEdit'
  <2>1. /\ UnderWay' = UnderWay \cup {e} /\ Begun' = Begun \cup {e} /\ e \notin Begun
        /\ tab'[e] = t /\ \A x \in Begun : tab'[x] = tab[x]
    BY <1>2 DEF Begin, UnderWay, Begun, TypeOK
  <2>2. ~overlapped' => UnderWay = {} /\ \A x \in Begun : tab[x] = t
    BY <1>2 DEF Begin
  <2>3. /\ payload'[e] = [d \in Docs |-> Edited(t, e, d)]
        /\ \A x \in Edits \ {e} : payload'[x] = payload[x]
    BY <1>2 DEF Begin, TypeOK
  <2>4. e \notin Deletions => \A d \in Docs : e \in payload'[e][d]
    BY <2>3 DEF Edited
  <2>5. HandlersAddTheirEdit'
    BY <2>1, <2>3, <2>4 DEF HandlersAddTheirEdit, Begun
  <2>6. OneAtATime'
    BY <2>1, <2>2 DEF OneAtATime
  <2> QED
    BY <2>5, <2>6
<1>3. ASSUME NEW e \in Edits, HandlerStep(e)
      PROVE  OneAtATime' /\ HandlersAddTheirEdit'
  <2>1. /\ UNCHANGED <<payload, tab>>
        /\ Begun' = Begun /\ UnderWay' \subseteq UnderWay
    BY <1>3 DEF HandlerStep, StoreDoc, Answer, SaveFails, Begun, UnderWay, TypeOK
  <2> QED
    BY <1>1, <2>1
<1>4. ASSUME NEW f \in fetches, LoadStep(f)
      PROVE  OneAtATime' /\ HandlersAddTheirEdit'
  BY <1>1, <1>4
  DEF LoadStep, ServeBundle, Loaded, LoadFails, editVars, Begun, UnderWay
<1>5. CASE UNCHANGED vars
  BY <1>1, <1>5 DEF vars, editVars, Begun, UnderWay
<1> QED
  BY <1>2, <1>3, <1>4, <1>5 DEF Next

\* A handler saves documents.
LEMMA SavesDocs ==
    ASSUME NEW e \in Edits
    PROVE  ToSet(Steps[e]) \subseteq Docs
<1>1. /\ ToSet(Steps[e]) = {Steps[e][i] : i \in 1..Len(Steps[e])}
      /\ \A i \in 1..Len(Steps[e]) : Steps[e][i] \in Docs
  BY DocsOfEdits, StepFacts
<1> QED
  BY <1>1

\* What a step leaves alone it also leaves kept.
LEMMA KeptAsItWas ==
    ASSUME NEW e \in Edits, DoneIsKept(e), StoredIsThere(e),
           UNCHANGED <<saved, page, loading, tick, fetches, payload>>,
           pc'[e] = pc[e], tab'[e] = tab[e], stored'[e] = stored[e],
           UnderWay' \subseteq UnderWay, Begun \subseteq Begun'
    PROVE  DoneIsKept(e)' /\ StoredIsThere(e)'
<1>1. DoneIsKept(e)'
  BY DEF DoneIsKept, Kept
<1>2. StoredIsThere(e)'
  BY DEF StoredIsThere, IsStored, UnderWay
<1> QED
  BY <1>1, <1>2

\* A click computes documents with all edits that its tab shows, or loses them openly.
LEMMA BeginKeeps ==
    ASSUME TypeOK, Handlers, [Next]_vars, WaitedInv, OneAtATime', ~overlapped', ~loadFailed',
           NEW t \in Tabs, NEW x \in Edits, Begin(t, x), NEW e \in Edits \ Deletions
    PROVE  DoneIsKept(e)' /\ StoredIsThere(e)'
<1>1. /\ UNCHANGED <<saved, page, loading, tick, fetches, stored>>
      /\ pc'[x] = "sent" /\ stored[x] = 0 /\ tab'[x] = t /\ ~loading[t]
      /\ payload'[x] = [d \in Docs |-> Edited(t, x, d)]
  BY DEF Begin, Editable, TypeOK, Handlers, tabVars
<1>2. /\ UnderWay = {} /\ UnderWay' = {x} /\ x \in Begun'
  BY DEF Begin, UnderWay, Begun, TypeOK
<1>3. Begun \subseteq Begun' /\ \A y \in Begun : tab'[y] = tab[y]
  BY BegunGrows
<1>4. DoneIsKept(e)
  BY BegunGrows DEF WaitedInv
<1>5. CASE e = x
  BY <1>1, <1>5 DEF DoneIsKept, StoredIsThere, IsStored
<1>6. CASE e # x
  <2>1. pc'[e] = pc[e]
    BY <1>6 DEF Begin, TypeOK
  <2>2. StoredIsThere(e)'
    BY <1>2, <1>6 DEF StoredIsThere
  <2>3. ASSUME pc[e] = "done", NEW d \in ToSet(Steps[e])
        PROVE  /\ Kept(e, d, saved)'
               /\ ~loading'[tab'[e]] => Kept(e, d, page[tab[e]])'
               /\ \A f \in fetches' :
                    f.tab = tab'[e] /\ f.tick = tick'[f.tab] /\ f.bundle # Nothing
                      => Kept(e, d, f.bundle)'
               /\ d \in ToSet(Steps[x]) => Kept(e, d, payload[x])'
    <3>1. e \in Begun /\ tab[e] = t
      <4>1. e \in Begun
        BY <2>3 DEF Begun
      <4>2. tab'[e] = tab'[x]
        BY <1>2, <1>3, <4>1 DEF OneAtATime
      <4> QED
        BY <1>1, <1>3, <4>1, <4>2
    <3>2. tab'[e] = t /\ d \in Docs
      BY <1>3, <3>1, SavesDocs
    <3>3. Kept(e, d, saved) /\ Kept(e, d, page[t])
      BY <1>1, <1>4, <2>3, <3>1 DEF DoneIsKept
    <3>4. d \in ToSet(Steps[x]) => Kept(e, d, payload[x])'
      <4>1. CASE x \in Deletions \/ d \in Replaced[x]
        BY <1>2, <1>6, <4>1 DEF Kept
      <4>2. CASE x \notin Deletions /\ d \notin Replaced[x]
        <5>1. payload'[x][d] = page[t][d] \cup {x}
          BY <1>1, <3>2, <4>2 DEF Edited
        <5> QED
          BY <1>3, <3>3, <5>1 DEF Kept
      <4> QED
        BY <4>1, <4>2
    <3>5. \A f \in fetches :
            f.tab = tab[e] /\ f.tick = tick[f.tab] /\ f.bundle # Nothing
              => Kept(e, d, f.bundle)
      BY <1>4, <2>3 DEF DoneIsKept
    <3> QED
      BY <1>1, <1>3, <3>1, <3>2, <3>3, <3>4, <3>5 DEF Kept
  <2>4. DoneIsKept(e)'
    BY <1>1, <1>2, <1>3, <2>1, <2>3 DEF DoneIsKept, Kept
  <2> QED
    BY <2>2, <2>4
<1> QED
  BY <1>5, <1>6

\* A save brings to the backend all edits that were answered before, and its own.
LEMMA StoreDocKeeps ==
    ASSUME TypeOK, Handlers, [Next]_vars, WaitedInv, ~overlapped', ~loadFailed',
           NEW x \in Edits, StoreDoc(x), NEW e \in Edits \ Deletions
    PROVE  DoneIsKept(e)' /\ StoredIsThere(e)'
<1> DEFINE n == Order(x)[stored[x] + 1]
<1>1. /\ UNCHANGED <<page, loading, tick, fetches, payload, stored, tab>>
      /\ pc[x] = "sent" /\ pc'[x] # "done"
      /\ \A y \in Edits \ {x} : pc'[y] = pc[y]
  BY DEF StoreDoc, SaveFails, TypeOK, tabVars
<1>2. x \in UnderWay /\ x \in Begun /\ UnderWay' \subseteq UnderWay /\ Begun' = Begun
  BY DEF StoreDoc, SaveFails, UnderWay, Begun, TypeOK
<1>3. UnderWay = {x} /\ DoneIsKept(e) /\ StoredIsThere(e)
  BY <1>2, BegunGrows DEF WaitedInv, OneAtATime
<1>4. \/ saved' = [saved EXCEPT ![n] = payload[x][n]] /\ pc'[x] = "answered"
      \/ saved' = saved /\ pc'[x] = "failed"
  BY DEF StoreDoc, SaveFails, TypeOK
<1>5. /\ n \in Docs /\ n \in ToSet(Steps[x]) /\ n = Steps[x][stored[x] + 1]
      /\ saved \in [Docs -> Content]
  <2>1. stored[x] + 1 \in 1..Len(Steps[x]) /\ n \in Docs
    BY NextDoc
  <2>2. n = Steps[x][stored[x] + 1]
    BY DEF Order
  <2>3. n \in ToSet(Steps[x])
    BY <2>1, <2>2, DocsOfEdits
  <2> QED
    BY <2>1, <2>2, <2>3 DEF TypeOK, Bundle
<1> HIDE DEF n
<1>6. CASE e = x
  <2>1. DoneIsKept(e)'
    BY <1>1, <1>6 DEF DoneIsKept
  <2>2. \A d \in Docs : e \in payload[e][d]
    BY <1>2, <1>6 DEF WaitedInv, HandlersAddTheirEdit
  <2>3. ASSUME NEW i \in 1..Len(Steps[e]), IsStored(e, i)', pc'[x] = "answered"
        PROVE  e \in saved'[Steps[e][i]]
    <3>1. IsStored(e, i) \/ i = stored[x] + 1
      BY <1>1, <1>6, <2>3 DEF IsStored
    <3>2. Steps[e][i] \in Docs
      BY StepFacts
    <3>3. CASE Steps[e][i] = n
      BY <1>4, <1>5, <2>2, <2>3, <3>3, <1>6
    <3>4. CASE Steps[e][i] # n
      <4>1. e \in saved[Steps[e][i]]
        BY <1>2, <1>3, <1>5, <1>6, <3>1, <3>4 DEF StoredIsThere
      <4> QED
        BY <1>4, <1>5, <2>3, <3>2, <3>4, <4>1
    <3> QED
      BY <3>3, <3>4
  <2>4. pc'[x] = "failed" => e \notin UnderWay'
    BY <1>6 DEF UnderWay
  <2>5. StoredIsThere(e)'
    BY <1>4, <2>3, <2>4 DEF StoredIsThere
  <2> QED
    BY <2>1, <2>5
<1>7. CASE e # x
  <2>1. e \notin UnderWay' /\ pc'[e] = pc[e]
    BY <1>1, <1>2, <1>3, <1>7
  <2>2. ASSUME pc[e] = "done", NEW d \in ToSet(Steps[e])
        PROVE  Kept(e, d, saved)'
    <3>1. Kept(e, d, saved) /\ d \in Docs
      BY <1>3, <2>2, SavesDocs DEF DoneIsKept
    <3>2. d \in ToSet(Steps[x]) => Kept(e, d, payload[x])
      BY <1>2, <1>3, <2>2 DEF DoneIsKept
    <3> QED
      BY <1>2, <1>4, <1>5, <3>1, <3>2 DEF Kept
  <2>3. DoneIsKept(e)'
    BY <1>1, <1>2, <1>3, <2>1, <2>2 DEF DoneIsKept, Kept
  <2> QED
    BY <2>1, <2>3 DEF StoredIsThere
<1> QED
  BY <1>6, <1>7

\* An answered edit is in the backend; its tab loads it, or puts the layout it saved into
\* the page it began with.
LEMMA AnswerKeeps ==
    ASSUME TypeOK, Handlers, LoadsInOrder, LoadsAwaited, LayoutAlone, [Next]_vars, WaitedInv,
           ~overlapped', ~loadFailed',
           NEW x \in Edits, Answer(x), NEW e \in Edits \ Deletions
    PROVE  DoneIsKept(e)' /\ StoredIsThere(e)'
<1>1. /\ UNCHANGED <<saved, payload, tab>>
      /\ pc[x] = "answered" /\ stored[x] \in Nat /\ tab[x] \in Tabs
      /\ \A y \in Edits \ {x} : pc'[y] = pc[y] /\ stored'[y] = stored[y]
  BY DEF Answer, SaveFails, TypeOK, Handlers, Begun
<1>2. /\ x \in UnderWay /\ x \in Begun /\ UnderWay' \subseteq UnderWay
      /\ Begun \subseteq Begun' /\ Begun' \subseteq Begun
  BY DEF Answer, SaveFails, UnderWay, Begun, TypeOK
<1>3. /\ UnderWay = {x} /\ ~overlapped /\ ~layoutOverlapped
      /\ DoneIsKept(e) /\ StoredIsThere(e)
  BY <1>2, BegunGrows DEF WaitedInv, OneAtATime, LayoutAlone
<1>4. e # x => StoredIsThere(e)' /\ e \notin UnderWay'
  BY <1>2, <1>3 DEF StoredIsThere
<1>5. CASE pc' = [pc EXCEPT ![x] = "failed"] /\ UNCHANGED tabVars
  <2>1. e # x => DoneIsKept(e)'
    BY <1>1, <1>2, <1>3, <1>5 DEF DoneIsKept, Kept, tabVars
  <2>2. e = x => DoneIsKept(e)' /\ StoredIsThere(e)'
    BY <1>5 DEF DoneIsKept, StoredIsThere, UnderWay, TypeOK
  <2> QED
    BY <1>4, <2>1, <2>2
<1>6. CASE /\ pc' = [pc EXCEPT ![x] = "sent"] /\ UNCHANGED tabVars
           /\ stored' = [stored EXCEPT ![x] = @ + 1]
  <2>1. e # x => DoneIsKept(e)'
    BY <1>1, <1>2, <1>3, <1>6 DEF DoneIsKept, Kept, tabVars
  <2>2. e = x => DoneIsKept(e)'
    BY <1>6 DEF DoneIsKept, TypeOK
  <2>3. e = x => StoredIsThere(e)'
    <3>1. pc'[x] = "sent" /\ stored'[x] = stored[x] + 1
      BY <1>6 DEF TypeOK
    <3>2. \A i \in 1..Len(Steps[x]) : IsStored(x, i)' => IsStored(x, i)
      BY <1>1, <3>1 DEF IsStored
    <3> QED
      BY <1>1, <1>2, <1>3, <3>2 DEF StoredIsThere
  <2> QED
    BY <1>4, <2>1, <2>2, <2>3
<1>7. CASE pc' = [pc EXCEPT ![x] = "done"] /\ stored[x] + 1 = Len(Steps[x])
  <2>1. UnderWay' = {} /\ pc'[x] = "done"
    BY <1>3, <1>7 DEF UnderWay, TypeOK
  <2>2. StoredIsThere(e)'
    BY <2>1 DEF StoredIsThere
  <2>3. e = x => \A d \in ToSet(Steps[x]) : e \in saved[d]
    <3>1. \A i \in 1..Len(Steps[x]) : IsStored(x, i)
      BY <1>1, <1>7 DEF IsStored
    <3> QED
      BY <1>2, <1>3, <3>1, DocsOfEdits DEF StoredIsThere
  <2>4. ASSUME pc'[e] = "done"
        PROVE  tab[e] = tab[x] /\ (e # x => pc[e] = "done")
    <3>1. e \in Begun /\ (e # x => pc[e] = "done")
      BY <1>1, <1>2, <2>4 DEF Begun
    <3> QED
      BY <1>2, <1>3, <3>1 DEF WaitedInv, OneAtATime
  <2>5. ASSUME pc'[e] = "done", NEW d \in ToSet(Steps[e])
        PROVE  Kept(e, d, saved)'
    <3>1. CASE e = x
      BY <1>1, <2>3, <2>5, <3>1 DEF Kept
    <3>2. CASE e # x
      <4>1. Kept(e, d, saved)
        BY <1>3, <2>4, <2>5, <3>2 DEF DoneIsKept
      <4> QED
        BY <1>1, <1>2, <4>1 DEF Kept
    <3> QED
      BY <3>1, <3>2
  <2>6. CASE Reload(tab[x])
    <3>1. /\ loading'[tab[x]] /\ tick'[tab[x]] = tick[tab[x]] + 1 /\ tick[tab[x]] \in Nat
      BY <1>1, <2>6 DEF Reload, TypeOK
    <3>2. \A f \in fetches' : f.tab = tab[x] /\ f.tick = tick'[f.tab] => f.bundle = Nothing
      <4>1. \A f \in fetches : f.tab = tab[x] => f.tick <= tick[tab[x]] /\ f.tick \in Nat
        BY DEF LoadsInOrder, TypeOK, Fetch
      <4>2. \A f \in fetches' : f \in fetches \/ f.bundle = Nothing
        BY <2>6 DEF Reload, Load
      <4> QED
        BY <3>1, <4>1, <4>2
    <3>3. DoneIsKept(e)'
      BY <1>1, <2>1, <2>4, <2>5, <3>1, <3>2 DEF DoneIsKept
    <3> QED
      BY <2>2, <3>3
  <2>7. CASE /\ x \in Layouts
             /\ page' = [page EXCEPT ![tab[x]] = Updated(tab[x], x)]
             /\ UNCHANGED <<loading, tick, fetches>>
    <3>1. ~loading[tab[x]] /\ page[tab[x]][FlowOf(x)] # {}
      BY <1>2, <1>3, <2>7 DEF LayoutAlone
    <3>2. FlowOf(x) \in Docs /\ FlowOf(x) \in ToSet(Steps[x]) /\ x \notin Deletions
          /\ ToSet(Steps[x]) \subseteq {FlowOf(x)}
      <4>1. Len(Steps[x]) = 1 /\ x \notin Deletions
        BY <2>7, EditingAssumption
      <4>2. ToSet(Steps[x]) = {Steps[x][i] : i \in 1..Len(Steps[x])}
        BY DocsOfEdits
      <4>3. ToSet(Steps[x]) = {FlowOf(x)}
        BY <4>1, <4>2 DEF FlowOf
      <4> QED
        BY <4>1, <4>3, SavesDocs
    <3>3. \A f \in fetches' : ~(f.tab = tab[x] /\ f.tick = tick'[f.tab])
      BY <2>7, <3>1 DEF LoadsAwaited
    <3>4. page'[tab[x]] = Updated(tab[x], x)
      BY <1>1, <2>7 DEF TypeOK
    <3>5. ASSUME pc'[e] = "done", NEW d \in ToSet(Steps[e])
          PROVE  Kept(e, d, page[tab[e]])'
      <4>1. d \in Docs /\ tab'[e] = tab[x]
        BY <1>1, <2>4, <3>5, SavesDocs
      <4>2. page'[tab[x]][d] = IF d = FlowOf(x) THEN payload[x][d] ELSE page[tab[x]][d]
        BY <3>1, <3>4, <4>1 DEF Updated, FlowOf
      <4>3. CASE e = x
        <5>1. d = FlowOf(x) /\ x \in payload[x][d]
          BY <1>2, <3>2, <3>5, <4>1, <4>3 DEF WaitedInv, HandlersAddTheirEdit
        <5> QED
          BY <4>1, <4>2, <4>3, <5>1 DEF Kept
      <4>4. CASE e # x
        <5>1. /\ Kept(e, d, page[tab[x]])
              /\ d \in ToSet(Steps[x]) => Kept(e, d, payload[x])
          BY <1>2, <1>3, <2>4, <3>1, <3>5, <4>4 DEF DoneIsKept
        <5> QED
          BY <1>2, <3>2, <4>1, <4>2, <5>1 DEF Kept
      <4> QED
        BY <4>3, <4>4
    <3>6. DoneIsKept(e)'
      BY <1>1, <2>1, <2>4, <2>5, <3>3, <3>5 DEF DoneIsKept
    <3> QED
      BY <2>2, <3>6
  <2> QED
    BY <1>7, <2>6, <2>7 DEF Answer, SaveFails, TypeOK
<1> QED
  BY <1>5, <1>6, <1>7 DEF Answer, SaveFails

\* A load brings to a page what the backend held, with all edits its tab has answered.
LEMMA LoadKeeps ==
    ASSUME TypeOK, Handlers, LoadsInOrder, LoadsAwaited, [Next]_vars, WaitedInv,
           ~overlapped', ~loadFailed',
           NEW f \in fetches, LoadStep(f), NEW e \in Edits \ Deletions
    PROVE  DoneIsKept(e)' /\ StoredIsThere(e)'
<1>1. /\ UNCHANGED <<saved, payload, pc, stored, tab>>
      /\ UnderWay' = UnderWay /\ Begun' = Begun
      /\ DoneIsKept(e) /\ StoredIsThere(e)
  <2>1. DoneIsKept(e) /\ StoredIsThere(e)
    BY BegunGrows DEF WaitedInv
  <2> QED
    BY <2>1 DEF LoadStep, ServeBundle, Loaded, LoadFails, editVars, UnderWay, Begun
<1>2. StoredIsThere(e)'
  BY <1>1 DEF StoredIsThere, IsStored
<1>3. CASE ServeBundle(f)
  <2>1. /\ UNCHANGED <<page, loading, tick>>
        /\ \A g \in fetches' : g \in fetches \/ g.bundle = saved
    BY <1>3 DEF ServeBundle
  <2>2. DoneIsKept(e)'
    BY <1>1, <2>1 DEF DoneIsKept, Kept
  <2> QED
    BY <1>2, <2>2
<1>4. CASE (Loaded(f) \/ LoadFails(f)) /\ Aborted(f)
  <2>1. UNCHANGED <<page, loading, tick>> /\ fetches' = fetches \ {f}
    BY <1>4, AbortedChangesNothing
  <2>2. DoneIsKept(e)'
    BY <1>1, <2>1 DEF DoneIsKept, Kept
  <2> QED
    BY <1>2, <2>2
<1>5. CASE Loaded(f) /\ ~Aborted(f)
  <2>1. /\ f.tab \in Tabs /\ f.tick = tick[f.tab] /\ f.bundle # Nothing
        /\ tick' = tick /\ fetches' = fetches \ {f}
        /\ page'[f.tab] = f.bundle
        /\ \A u \in Tabs \ {f.tab} : page'[u] = page[u] /\ loading'[u] = loading[u]
    BY <1>5, TakenOver DEF Loaded, TypeOK
  <2>2. pc[e] = "done" => tab[e] \in Tabs
    BY DEF Handlers, Begun
  <2>3. DoneIsKept(e)'
    BY <1>1, <2>1, <2>2 DEF DoneIsKept, Kept
  <2> QED
    BY <1>2, <2>3
<1>6. CASE LoadFails(f) /\ ~Aborted(f)
  BY <1>6, FailureIsRecorded
<1> QED
  BY <1>3, <1>4, <1>5, <1>6 DEF LoadStep

\* Every step keeps what waited edits have saved.
LEMMA WaitedStep ==
    ASSUME TypeOK, Handlers, LoadsInOrder, LoadsAwaited, LayoutAlone, WaitedInv, [Next]_vars
    PROVE  WaitedInv'
<1>1. OneAtATime' /\ HandlersAddTheirEdit'
  BY OneAtATimeStep DEF WaitedInv
<1> SUFFICES ASSUME ~overlapped', ~loadFailed', NEW e \in Edits \ Deletions
             PROVE  DoneIsKept(e)' /\ StoredIsThere(e)'
  BY <1>1 DEF WaitedInv
<1>2. CASE UNCHANGED vars
  <2>1. DoneIsKept(e) /\ StoredIsThere(e)
    BY BegunGrows DEF WaitedInv
  <2>2. UnderWay' = UnderWay /\ Begun' = Begun
    BY <1>2 DEF vars, editVars, UnderWay, Begun
  <2> QED
    BY <1>2, <2>1, <2>2, KeptAsItWas DEF vars, tabVars, editVars
<1>3. ASSUME NEW t \in Tabs, NEW x \in Edits, Begin(t, x)
      PROVE  DoneIsKept(e)' /\ StoredIsThere(e)'
  BY <1>1, <1>3, BeginKeeps
<1>4. ASSUME NEW x \in Edits, HandlerStep(x)
      PROVE  DoneIsKept(e)' /\ StoredIsThere(e)'
  BY <1>4, StoreDocKeeps, AnswerKeeps DEF HandlerStep
<1>5. ASSUME NEW f \in fetches, LoadStep(f)
      PROVE  DoneIsKept(e)' /\ StoredIsThere(e)'
  BY <1>5, LoadKeeps
<1> QED
  BY <1>2, <1>3, <1>4, <1>5 DEF Next

\* A user who waits for each answer before the next edit loses none of the answered
\* ones, also after others failed, except to a replacement or deletion of the document.
THEOREM WaitedEditsAreKeptAlways == Spec => []WaitedEditsAreKept
<1>1. Init => LoadsInOrder
  BY DEF Init, Load, LoadsInOrder
<1>2. TypeOK /\ Handlers /\ LoadsInOrder /\ LoadsAwaited /\ LayoutAlone /\ WaitedInv
        /\ [Next]_vars => (LoadsInOrder /\ LoadsAwaited /\ LayoutAlone /\ WaitedInv)'
  BY LoadsStep, AwaitedStep, LayoutStep, WaitedStep
<1>3. WaitedInv => WaitedEditsAreKept
  BY DEF WaitedInv, DoneIsKept, Kept, WaitedEditsAreKept
<1> QED
  BY <1>1, <1>2, <1>3, TypeInit, TypeStep, AwaitedInit, SoloInit, WaitedInit, PTL DEF Spec
=============================================================================
