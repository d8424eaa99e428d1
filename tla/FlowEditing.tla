----------------------------- MODULE FlowEditing -----------------------------
(***************************************************************************)
(* Editing topologies on the topology page, in several browser tabs.  A    *)
(* tab works on the bundle useTopologyData loaded.  Each handler of        *)
(* TopologyPage computes whole new documents from that bundle at the click *)
(* and saves them one after the other; then it calls reload, which fetches *)
(* the bundle again and hides the page meanwhile.  Saving the layout       *)
(* updates the tab's own copy instead.  The requests of one tab, and those *)
(* of different tabs, reach the backend in any order.                      *)
(*                                                                         *)
(* A document is a flow or a template.  Its content is the set of edits it *)
(* contains; a document that doesn't exist contains none.  Only flows are  *)
(* deleted here: deleting a template is a protocol of its own.             *)
(***************************************************************************)
EXTENDS Naturals, Sequences, FiniteSets, SequencesExt

CONSTANTS
    Tabs,       \* open topology pages
    Docs,       \* flows and templates
    Edits,      \* what users do, each once
    Steps,      \* the documents a handler saves, in order
    Replaced,   \* those of them it doesn't derive from the loaded ones
    Deletions,  \* edits that delete their flow
    Layouts,    \* edits that save the layout of a flow
    Seed,       \* the content of a document that exists at the start
    Existing,   \* those documents
    Nothing     \* no tab, no tick, no fingerprint, no bundle

ASSUME EditingAssumption ==
    /\ Steps \in [Edits -> Seq(Docs)]
    /\ Replaced \in [Edits -> SUBSET Docs]
    /\ \A e \in Edits : Len(Steps[e]) > 0 /\ IsInjective(Steps[e])
    /\ \A e \in Edits : \A i, j \in DOMAIN Steps[e] :
         Steps[e][i] \in Replaced[e] /\ Steps[e][j] \notin Replaced[e] => i < j
    /\ Deletions \cup Layouts \subseteq Edits
    /\ \A e \in Deletions \cup Layouts : Len(Steps[e]) = 1
    /\ \A e \in Deletions, x \in Edits : Steps[e][1] \notin Replaced[x]
    /\ Deletions \cap Layouts = {}
    /\ \A e \in Layouts : Replaced[e] = {}
    /\ Existing \subseteq Docs
    /\ Seed \notin Edits
    /\ Nothing \notin Tabs \cup Nat
    /\ \A ds \in SUBSET Docs : ds # Nothing

VARIABLES
    saved,      \* the backend's documents
    page,       \* the documents each tab loaded
    loading,    \* a tab shows only that it is loading
    tick,       \* the number of its last load
    prevTick,   \* prevTick.current
    prevPrint,  \* prevBundleFingerprint.current
    fetches,    \* the loads under way
    pc,         \* where the handler of each edit is
    tab,        \* the tab it runs in
    payload,    \* the documents it computed
    stored,     \* how many of them the backend has answered for
    version,    \* ghost: counts the changes of the backend
    seen,       \* ghost: the version each tab loaded last
    overlapped, \* ghost: an edit began while another tab had edited, or one was under way
    layoutOverlapped, \* ghost: one of two edits under way at once was a layout
    saveFailed, \* ghost: a save failed, before or after the backend stored it
    loadFailed  \* ghost: a load failed

tabVars == <<page, loading, tick, prevTick, prevPrint, fetches, seen>>
editVars == <<pc, tab, payload, stored>>
overlaps == <<overlapped, layoutOverlapped>>
vars == <<saved, tabVars, editVars, version, overlaps, saveFailed, loadFailed>>

Content == SUBSET (Edits \cup {Seed})
Bundle == [Docs -> Content]
Fetch == [tab : Tabs, tick : Nat, bundle : Bundle \cup {Nothing}, version : Nat]

TypeOK ==
    /\ saved \in Bundle
    /\ page \in [Tabs -> Bundle]
    /\ loading \in [Tabs -> BOOLEAN]
    /\ tick \in [Tabs -> Nat]
    /\ prevTick \in [Tabs -> Nat \cup {Nothing}]
    /\ prevPrint \in [Tabs -> (SUBSET Docs) \cup {Nothing}]
    /\ fetches \subseteq Fetch
    /\ pc \in [Edits -> {"idle", "sent", "answered", "done", "failed"}]
    /\ tab \in [Edits -> Tabs \cup {Nothing}]
    /\ payload \in [Edits -> Bundle]
    /\ stored \in [Edits -> Nat]
    /\ version \in Nat
    /\ seen \in [Tabs -> Nat]
    /\ overlapped \in BOOLEAN /\ layoutOverlapped \in BOOLEAN
    /\ saveFailed \in BOOLEAN /\ loadFailed \in BOOLEAN

UnderWay == {e \in Edits : pc[e] \in {"sent", "answered"}}
Begun == {e \in Edits : pc[e] # "idle"}
Empty == [d \in Docs |-> {}]

\* The fetch of useTopologyData's effect.
Load(t, n) == [tab |-> t, tick |-> n, bundle |-> Nothing, version |-> 0]

Init ==
    /\ saved = [d \in Docs |-> IF d \in Existing THEN {Seed} ELSE {}]
    /\ page = [t \in Tabs |-> Empty]
    /\ loading = [t \in Tabs |-> TRUE]
    /\ tick = [t \in Tabs |-> 0]
    /\ prevTick = [t \in Tabs |-> Nothing]
    /\ prevPrint = [t \in Tabs |-> Nothing]
    /\ fetches = {Load(t, 0) : t \in Tabs}
    /\ pc = [e \in Edits |-> "idle"]
    /\ tab = [e \in Edits |-> Nothing]
    /\ payload = [e \in Edits |-> Empty]
    /\ stored = [e \in Edits |-> 0]
    /\ version = 0
    /\ seen = [t \in Tabs |-> 0]
    /\ overlapped = FALSE /\ layoutOverlapped = FALSE
    /\ saveFailed = FALSE /\ loadFailed = FALSE

-----------------------------------------------------------------------------
(* The handlers of the page                                                  *)

\* The page is shown, with its controls, only while it isn't loading.
EditableAlways(t) == TRUE
Editable(t) == ~loading[t]

OrderBackwards(e) == Reverse(Steps[e])
Order(e) == Steps[e]

\* The document a handler saves: the loaded one with the edit applied.
Edited(t, e, d) ==
    IF e \in Deletions THEN {}
    ELSE IF d \in Replaced[e] THEN {e} ELSE page[t][d] \cup {e}

\* The click.  All documents are computed from the bundle loaded at that moment.
\* A handler that doesn't find a document there leaves it out: that is a shorter edit.
Begin(t, e) ==
    /\ pc[e] = "idle"
    /\ Editable(t)
    /\ \A d \in ToSet(Steps[e]) \ Replaced[e] : page[t][d] # {}
    /\ pc' = [pc EXCEPT ![e] = "sent"]
    /\ tab' = [tab EXCEPT ![e] = t]
    /\ payload' = [payload EXCEPT ![e] = [d \in Docs |-> Edited(t, e, d)]]
    /\ overlapped' = (overlapped \/ UnderWay # {} \/ \E x \in Begun : tab[x] # t)
    /\ layoutOverlapped' =
         (layoutOverlapped \/ (UnderWay # {} /\ (UnderWay \cup {e}) \cap Layouts # {}))
    /\ UNCHANGED <<saved, tabVars, stored, version, saveFailed, loadFailed>>

\* The handler's catch: an error is shown, and nothing is loaded again.
SaveFails(e) ==
    /\ pc' = [pc EXCEPT ![e] = "failed"]
    /\ saveFailed' = TRUE

\* The backend handles the save of the next document, or refuses it.
StoreDoc(e) ==
    /\ pc[e] = "sent"
    /\ LET d == Order(e)[stored[e] + 1] IN
        \/ /\ saved' = [saved EXCEPT ![d] = payload[e][d]]
           /\ version' = version + 1
           /\ pc' = [pc EXCEPT ![e] = "answered"]
           /\ UNCHANGED saveFailed
        \/ /\ SaveFails(e)
           /\ UNCHANGED <<saved, version>>
    /\ UNCHANGED <<tabVars, tab, payload, stored, overlaps, loadFailed>>

\* reload: the effect of the new tick aborts the one before, and starts a load.
Reload(t) ==
    /\ tick' = [tick EXCEPT ![t] = @ + 1]
    /\ loading' = [loading EXCEPT ![t] = TRUE]
    /\ fetches' = fetches \cup {Load(t, tick[t] + 1)}
    /\ UNCHANGED <<page, prevTick, prevPrint, seen>>

\* The tab's copy after its layout was saved: of the one flow, if it is still there.
Updated(t, e) ==
    [d \in Docs |-> IF d = Steps[e][1] /\ page[t][d] # {} THEN payload[e][d] ELSE page[t][d]]

\* The answer reaches the handler, which saves the next document or is through; or it
\* is lost.
Answer(e) ==
    /\ pc[e] = "answered"
    /\ \/ /\ stored' = [stored EXCEPT ![e] = @ + 1]
          /\ stored[e] + 1 < Len(Steps[e])
          /\ pc' = [pc EXCEPT ![e] = "sent"]
          /\ UNCHANGED <<tabVars, saveFailed>>
       \/ /\ stored' = [stored EXCEPT ![e] = @ + 1]
          /\ stored[e] + 1 = Len(Steps[e])
          /\ pc' = [pc EXCEPT ![e] = "done"]
          /\ \/ /\ e \notin Layouts
                /\ Reload(tab[e])
             \/ /\ e \in Layouts
                /\ page' = [page EXCEPT ![tab[e]] = Updated(tab[e], e)]
                /\ UNCHANGED <<loading, tick, prevTick, prevPrint, fetches, seen>>
          /\ UNCHANGED saveFailed
       \/ /\ SaveFails(e)
          /\ UNCHANGED <<tabVars, stored>>
    /\ UNCHANGED <<saved, tab, payload, version, overlaps, loadFailed>>

-----------------------------------------------------------------------------
(* useTopologyData                                                           *)

\* The backend answers with the whole bundle, under the store's read lock.
ServeBundle(f) ==
    /\ f.bundle = Nothing
    /\ fetches' = (fetches \ {f}) \cup
         {[tab |-> f.tab, tick |-> f.tick, bundle |-> saved, version |-> version]}
    /\ UNCHANGED <<saved, page, loading, tick, prevTick, prevPrint, seen, editVars>>
    /\ UNCHANGED <<version, overlaps, saveFailed, loadFailed>>

AbortedNever(f) == FALSE
Aborted(f) == f.tick # tick[f.tab]

\* bundleFingerprint tells which documents there are, not what they contain.
Fingerprint(b) == {d \in Docs : b[d] # {}}

\* The bundle is taken over on an explicit reload, or when its fingerprint is new.
Resolves(f) ==
    \/ prevTick[f.tab] # Nothing /\ prevTick[f.tab] # f.tick
    \/ Fingerprint(f.bundle) # prevPrint[f.tab]

Loaded(f) ==
    LET t == f.tab IN
    /\ f.bundle # Nothing
    /\ fetches' = fetches \ {f}
    /\ \/ /\ Aborted(f)
          /\ UNCHANGED <<page, loading, prevTick, prevPrint, seen>>
       \/ /\ ~Aborted(f)
          /\ prevTick' = [prevTick EXCEPT ![t] = f.tick]
          /\ loading' = [loading EXCEPT ![t] = FALSE]
          /\ \/ /\ Resolves(f)
                /\ page' = [page EXCEPT ![t] = f.bundle]
                /\ prevPrint' = [prevPrint EXCEPT ![t] = Fingerprint(f.bundle)]
                /\ seen' = [seen EXCEPT ![t] = f.version]
             \/ /\ ~Resolves(f)
                /\ UNCHANGED <<page, prevPrint, seen>>
    /\ UNCHANGED <<saved, tick, editVars, version, overlaps, saveFailed, loadFailed>>

StillLoading(f) == TRUE
LoadingAfterFailure(f) == loading[f.tab] /\ Aborted(f)

\* The load fails: only logged; what was loaded before stays.
LoadFails(f) ==
    /\ fetches' = fetches \ {f}
    /\ loading' = [loading EXCEPT ![f.tab] = LoadingAfterFailure(f)]
    /\ loadFailed' = (loadFailed \/ ~Aborted(f))
    /\ UNCHANGED <<saved, page, tick, prevTick, prevPrint, seen, editVars>>
    /\ UNCHANGED <<version, overlaps, saveFailed>>

-----------------------------------------------------------------------------
HandlerStep(e) == StoreDoc(e) \/ Answer(e)
LoadStep(f) == ServeBundle(f) \/ Loaded(f) \/ LoadFails(f)

Next ==
    \/ \E t \in Tabs, e \in Edits : Begin(t, e)
    \/ \E e \in Edits : HandlerStep(e)
    \/ \E f \in fetches : LoadStep(f)

Spec == Init /\ [][Next]_vars

\* Every request is answered or fails.
FairSpec ==
    /\ Spec
    /\ \A e \in Edits : WF_vars(HandlerStep(e))
    /\ WF_vars(\E f \in fetches : LoadStep(f))

-----------------------------------------------------------------------------
(* Properties                                                                *)

Refers(e, d) == Len(Steps[e]) > 1 /\ d \in Replaced[e]

\* A flow never refers to a template that doesn't exist, not even between the two saves
\* of a handler or after one of them failed, whatever other tabs save meanwhile: the
\* bundle could not be resolved.
RefsResolve ==
    \A e \in Edits : \A d, f \in ToSet(Steps[e]) :
        Refers(e, d) /\ f \notin Replaced[e] /\ e \in saved[f] => saved[d] # {}

\* Only tab t has edited, and nothing failed.
Undisturbed(t) ==
    /\ UnderWay = {} /\ Begun # {}
    /\ \A e \in Begun : tab[e] = t
    /\ ~saveFailed /\ ~loadFailed /\ ~layoutOverlapped

\* A tab that waits for nothing shows what the backend holds, if only it has edited,
\* its calls succeeded and it didn't save a layout while it saved something else:
\* also when its other saves overlapped and their loads were answered in any order.
PageIsCurrent ==
    \A t \in Tabs : Undisturbed(t) /\ ~loading[t] => page[t] = saved

\* A user who waits for the answer of each edit before the next one loses none of
\* those that were answered, also after some others failed: except to an edit that
\* replaces or deletes the whole document, and as long as no load fails.
WaitedEditsAreKept ==
    ~overlapped /\ ~loadFailed
        => \A e \in Edits \ Deletions : \A d \in ToSet(Steps[e]) :
              pc[e] = "done"
                => \/ e \in saved[d]
                   \/ \E x \in Begun \ {e} :
                        d \in Replaced[x] \/ (x \in Deletions /\ d \in ToSet(Steps[x]))

\* A load that was overtaken by a later one of the same tab never replaces its result:
\* what a tab loads is never older than what it loaded before.
LoadsGoForward == [][\A t \in Tabs : seen'[t] >= seen[t]]_vars

\* The page never stays hidden behind its loading placeholder, also when loads fail
\* or overtake each other.
LoadingEnds == \A t \in Tabs : loading[t] ~> ~loading[t]
=============================================================================
