-------------------------- MODULE TemplateDeletion --------------------------
(***************************************************************************)
(* Deleting a template that flows refer to.  TemplatesManagerModal looks   *)
(* for the flows that use the template in the bundle its page loaded; it   *)
(* saves each of them with the references replaced by copies of the        *)
(* template, one after the other, and deletes the template last            *)
(* (inlineAndDeleteTemplate).  Meanwhile, before and after, this and other *)
(* tabs refer to the template, edit it or create it again.                 *)
(*                                                                         *)
(* The module is about one template.  A flow doesn't use it, refers to it, *)
(* or holds a copy of one of its versions; a version is the job that wrote *)
(* it.  A bundle with a reference to a missing template can't be resolved: *)
(* the page keeps what it loaded before.                                   *)
(***************************************************************************)
EXTENDS Integers, Sequences, SequencesExt

CONSTANTS
    Tabs,       \* open topology pages
    Flows,      \* the flows, in the order of their names
    Jobs,       \* what users do, each once
    Kind,       \* what kind of job it is
    Target,     \* the flow it is about, if it is about one
    Template,   \* the template
    First,      \* its version at the start
    Referring,  \* the flows that refer to it at the start
    Ref,        \* the content of a flow that refers to it
    Unused,     \* the content of a flow that doesn't use it
    Absent,     \* the content of a template that doesn't exist
    Nobody      \* no tab

ASSUME DeletionAssumption ==
    /\ Flows \in Seq(ToSet(Flows)) /\ IsInjective(Flows)
    /\ Kind \in [Jobs -> {"refer", "node", "edit", "create", "delete"}]
    /\ Target \in [Jobs -> ToSet(Flows)]
    /\ Referring \subseteq ToSet(Flows)
    /\ Template \notin ToSet(Flows)
    /\ First \notin Jobs /\ Nobody \notin Tabs
    /\ Ref \notin Jobs \cup {First, Unused} /\ Unused \notin Jobs \cup {First}
    /\ Absent \notin Jobs \cup {First}

VARIABLES
    saved,      \* the backend's documents
    page,       \* the documents each tab loaded
    loading,    \* a tab loads again, its page and modal are hidden
    pc,         \* where each job is
    tab,        \* the tab it runs in
    plan,       \* the writes it has still to make
    behind,     \* ghost: tabs that lack a change they weren't told of
    overlapped  \* ghost: a job began behind another change, or during another job

vars == <<saved, page, loading, pc, tab, plan, behind, overlapped>>

FlowSet == ToSet(Flows)
UnderWay == {j \in Jobs : pc[j] \in {"sent", "answered"}}

Init ==
    /\ saved = [d \in FlowSet \cup {Template} |->
                  IF d = Template THEN First ELSE IF d \in Referring THEN Ref ELSE Unused]
    /\ page = [t \in Tabs |-> saved]
    /\ loading = [t \in Tabs |-> FALSE]
    /\ pc = [j \in Jobs |-> "idle"]
    /\ tab = [j \in Jobs |-> Nobody]
    /\ plan = [j \in Jobs |-> {}]
    /\ behind = {}
    /\ overlapped = FALSE

-----------------------------------------------------------------------------
(* What a job writes, from the bundle b its page shows                       *)

\* A write, and its place among those of its job.
Write(doc, to, step) == [doc |-> doc, to |-> to, step |-> step]

\* findTemplateDependencies: the places of the flows
Dependents(b) == {i \in DOMAIN Flows : b[Flows[i]] = Ref}

\* The copy that replaces a reference: of the template as loaded, not of the draft.
CopyOfDraft(b, j) == j
Copy(b, j) == b[Template]

DeleteFirst(b, j) ==
    {Write(Flows[i], Copy(b, j), i) : i \in Dependents(b)} \cup {Write(Template, Absent, 0)}
InlineAndDelete(b, j) ==
    {Write(Flows[i], Copy(b, j), i) : i \in Dependents(b)}
      \cup {Write(Template, Absent, Len(Flows) + 1)}

Plan(b, j) ==
    CASE Kind[j] = "refer"  -> {Write(Target[j], Ref, 1)}
      [] Kind[j] = "node"   -> {Write(Template, j, 1), Write(Target[j], Ref, 2)}
      [] Kind[j] = "edit"   -> {Write(Template, j, 1)}
      [] Kind[j] = "create" -> {Write(Template, j, 1)}
      [] Kind[j] = "delete" -> InlineAndDelete(b, j)

\* A template that is loaded can be referred to, edited and deleted; one that isn't,
\* created.  The form for a new node doesn't look whether its template exists.
Offered(b, j) ==
    /\ Kind[j] = "create" => b[Template] = Absent
    /\ Kind[j] \in {"refer", "edit", "delete"} => b[Template] # Absent

-----------------------------------------------------------------------------
Begin(t, j) ==
    /\ pc[j] = "idle"
    /\ ~loading[t]
    /\ Offered(page[t], j)
    /\ pc' = [pc EXCEPT ![j] = "sent"]
    /\ tab' = [tab EXCEPT ![j] = t]
    /\ plan' = [plan EXCEPT ![j] = Plan(page[t], j)]
    /\ overlapped' = (overlapped \/ t \in behind \/ UnderWay # {})
    /\ UNCHANGED <<saved, page, loading, behind>>

\* The backend makes the next write.  Deleting what doesn't exist succeeds.
Store(j) ==
    /\ pc[j] = "sent"
    /\ \E w \in plan[j] :
         /\ \A x \in plan[j] : w.step <= x.step
         /\ saved' = [saved EXCEPT ![w.doc] = w.to]
         /\ plan' = [plan EXCEPT ![j] = @ \ {w}]
    /\ pc' = [pc EXCEPT ![j] = "answered"]
    /\ behind' = behind \cup (Tabs \ {tab[j]})
    /\ UNCHANGED <<page, loading, tab, overlapped>>

\* Of a new node, only its template was saved.
HalfNode(j) == Kind[j] = "node" /\ \A w \in plan[j] : w.doc # Template

\* It refuses it: the job ends there, nothing is loaded again, and what it wrote stays.
\* After half a new node its own page lacks the new version of the template.
Refuse(j) ==
    /\ pc[j] = "sent"
    /\ pc' = [pc EXCEPT ![j] = "failed"]
    /\ behind' = IF HalfNode(j) THEN behind \cup {tab[j]} ELSE behind
    /\ UNCHANGED <<saved, page, loading, tab, plan, overlapped>>

\* The answer arrives; after the last one the page is loaded again.
Answer(j) ==
    /\ pc[j] = "answered"
    /\ \/ /\ plan[j] # {}
          /\ pc' = [pc EXCEPT ![j] = "sent"]
          /\ UNCHANGED loading
       \/ /\ plan[j] = {}
          /\ pc' = [pc EXCEPT ![j] = "done"]
          /\ loading' = [loading EXCEPT ![tab[j]] = TRUE]
    /\ UNCHANGED <<saved, page, tab, plan, behind, overlapped>>

\* The answer is lost: to the tab the write has failed.
Lose(j) ==
    /\ pc[j] = "answered"
    /\ pc' = [pc EXCEPT ![j] = "failed"]
    /\ behind' = behind \cup {tab[j]}
    /\ UNCHANGED <<saved, page, loading, tab, plan, overlapped>>

\* resolveTopology finds every template.
Resolvable(b) == b[Template] = Absent => \A f \in FlowSet : b[f] # Ref

Load(t) ==
    /\ loading[t]
    /\ loading' = [loading EXCEPT ![t] = FALSE]
    /\ \/ /\ Resolvable(saved)
          /\ page' = [page EXCEPT ![t] = saved]
          /\ behind' = behind \ {t}
       \/ /\ UNCHANGED page          \* the load failed, or resolving threw
          /\ behind' = behind \cup {t}
    /\ UNCHANGED <<saved, pc, tab, plan, overlapped>>

Next ==
    \/ \E t \in Tabs, j \in Jobs : Begin(t, j)
    \/ \E j \in Jobs : Store(j) \/ Refuse(j) \/ Answer(j) \/ Lose(j)
    \/ \E t \in Tabs : Load(t)

Spec == Init /\ [][Next]_vars

-----------------------------------------------------------------------------
(* Properties                                                                *)

\* Unless a job began in a tab that lacks a change (of another tab, or one of its own
\* whose answer or load failed or that was saved by half), or during another job, no
\* flow ever refers to a missing template: not between the writes of a deletion, not
\* after one of them was refused, and not when the deletion is tried again.
RefsResolve == ~overlapped => Resolvable(saved)

Rendered(b, f) == IF b[f] = Ref THEN b[Template] ELSE b[f]
Stores(j) == pc[j] = "sent" /\ pc'[j] = "answered"

\* Deleting a template, and creating one, change nothing that any flow shows, whichever
\* of their writes are made: same exception.
RenderingKept ==
    [][\A j \in Jobs :
        Kind[j] \in {"delete", "create"} /\ Stores(j) /\ ~overlapped
          => \A f \in FlowSet : Rendered(saved', f) = Rendered(saved, f)]_vars
=============================================================================
