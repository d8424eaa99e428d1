----------------------- MODULE TemplateDeletion_proofs -----------------------
(***************************************************************************)
(* No flow refers to a missing template, and deleting a template or        *)
(* creating one changes nothing that is shown: for any tabs, flows and     *)
(* jobs, with refused writes, lost answers and loads that fail.            *)
(***************************************************************************)
EXTENDS TemplateDeletion, TLAPS

Docs == FlowSet \cup {Template}
Versions == Jobs \cup {First}
Content == Versions \cup {Ref, Unused, Absent}
Bundle == {b \in [Docs -> Content] : b[Template] \in Versions \cup {Absent}}
Writes == {w \in [doc : Docs, to : Content, step : Int] :
             w.doc = Template => w.to \in Versions \cup {Absent}}

Typing ==
    /\ saved \in Bundle
    /\ page \in [Tabs -> Bundle]
    /\ loading \in [Tabs -> BOOLEAN]
    /\ pc \in [Jobs -> {"idle", "sent", "answered", "failed", "done"}]
    /\ tab \in [Jobs -> Tabs \cup {Nobody}]
    /\ \A j \in UnderWay : tab[j] \in Tabs
    /\ plan \in [Jobs -> SUBSET Writes]
    /\ behind \subseteq Tabs

\* The writes that are left of a job of each kind, and the order of two of one job.
PlanShape(j) ==
    /\ \A w, x \in plan[j] : w.step = x.step => w = x
    /\ Kind[j] = "refer" =>
         \A w \in plan[j] : w.doc \in FlowSet /\ w.to = Ref /\ w.step = 1
    /\ Kind[j] = "node" =>
         \A w \in plan[j] : \/ w.doc = Template /\ w.to = j /\ w.step = 1
                            \/ w.doc \in FlowSet /\ w.to = Ref /\ w.step = 2
    /\ Kind[j] \in {"edit", "create"} =>
         \A w \in plan[j] : w.doc = Template /\ w.to = j /\ w.step = 1
    /\ Kind[j] = "delete" =>
         \A w \in plan[j] : \/ w.doc = Template /\ w.to = Absent /\ w.step = Len(Flows) + 1
                            \/ w.doc \in FlowSet /\ w.step <= Len(Flows)

\* A page shows what is saved, but for flows whose reference a deletion replaced that
\* didn't come to its end: what they show is the same.
PageOK(t) ==
    /\ page[t][Template] = saved[Template]
    /\ \A f \in FlowSet :
         \/ page[t][f] = saved[f]
         \/ page[t][f] = Ref /\ saved[f] = saved[Template]

\* A deletion that isn't over has the template as its last write, and a write for
\* every flow that refers to it, with a copy of the version that is saved.
DeletionOK(j) ==
    /\ saved[Template] # Absent
    /\ \E w \in plan[j] : w.doc = Template
    /\ \A w \in plan[j] : w.doc # Template =>
         w.to = saved[Template] /\ saved[w.doc] \in {Ref, saved[Template]}
    /\ \A f \in FlowSet : saved[f] = Ref => \E w \in plan[j] : w.doc = f

JobOK(j) ==
    /\ \A x \in UnderWay : x = j
    /\ ~loading[tab[j]] /\ tab[j] \notin behind
    /\ pc[j] = "sent" => plan[j] # {}
    /\ plan[j] # {} /\ ~HalfNode(j) => PageOK(tab[j])
    /\ plan[j] # {} /\ (Kind[j] = "refer" \/ HalfNode(j)) => saved[Template] # Absent
    /\ plan[j] # {} /\ Kind[j] = "create" => saved[Template] = Absent
    /\ plan[j] # {} /\ Kind[j] = "delete" => DeletionOK(j)

TabsOK ==
    \A t \in Tabs \ behind :
        ~loading[t] /\ (\A j \in UnderWay : tab[j] # t) => PageOK(t)

DeletionInv ==
    /\ Typing
    /\ \A j \in Jobs : PlanShape(j)
    /\ RefsResolve
    /\ ~overlapped => TabsOK /\ \A j \in UnderWay : JobOK(j)

-----------------------------------------------------------------------------
(* Lemmas                                                                    *)

\* The places of the flows are the numbers up to the length of their list.
LEMMA Places ==
    /\ Len(Flows) \in Nat
    /\ \A i \in DOMAIN Flows : i \in 1..Len(Flows) /\ Flows[i] \in FlowSet
    /\ \A f \in FlowSet : \E i \in DOMAIN Flows : Flows[i] = f
<1>1. Flows \in Seq(ToSet(Flows))
  BY DeletionAssumption
<1>2. Len(Flows) \in Nat /\ DOMAIN Flows = 1..Len(Flows)
  BY <1>1
<1>3. \A i \in DOMAIN Flows : Flows[i] \in ToSet(Flows)
  BY <1>1, <1>2
<1>4. \A f \in ToSet(Flows) : \E i \in DOMAIN Flows : Flows[i] = f
  BY DEF ToSet
<1> QED
  BY <1>2, <1>3, <1>4 DEF FlowSet

\* What a job plans are writes of its kind.
LEMMA PlanIsShaped ==
    ASSUME NEW b \in Bundle, NEW j \in Jobs, Offered(b, j)
    PROVE  /\ Plan(b, j) \in SUBSET Writes
           /\ Plan(b, j) # {}
           /\ \A w, x \in Plan(b, j) : w.step = x.step => w = x
           /\ Kind[j] = "refer" =>
                \A w \in Plan(b, j) : w.doc \in FlowSet /\ w.to = Ref /\ w.step = 1
           /\ Kind[j] = "node" =>
                \A w \in Plan(b, j) : \/ w.doc = Template /\ w.to = j /\ w.step = 1
                                      \/ w.doc \in FlowSet /\ w.to = Ref /\ w.step = 2
           /\ Kind[j] = "node" => \E w \in Plan(b, j) : w.doc = Template
           /\ Kind[j] \in {"edit", "create"} =>
                \A w \in Plan(b, j) : w.doc = Template /\ w.to = j /\ w.step = 1
           /\ Kind[j] = "delete" =>
                \A w \in Plan(b, j) :
                  \/ w.doc = Template /\ w.to = Absent /\ w.step = Len(Flows) + 1
                  \/ w.doc \in FlowSet /\ w.step <= Len(Flows)
<1> USE DeletionAssumption
<1>0. Target[j] \in FlowSet /\ Template \notin FlowSet
  BY DEF FlowSet
<1>1. CASE Kind[j] = "refer"
  <2>1. Plan(b, j) = {Write(Target[j], Ref, 1)}
    BY <1>1 DEF Plan
  <2> QED
    BY <1>0, <1>1, <2>1 DEF Write, Writes, Docs, Content
<1>2. CASE Kind[j] = "node"
  <2>1. Plan(b, j) = {Write(Template, j, 1), Write(Target[j], Ref, 2)}
    BY <1>2 DEF Plan
  <2> QED
    BY <1>0, <1>2, <2>1 DEF Write, Writes, Docs, Content, Versions
<1>3. CASE Kind[j] \in {"edit", "create"}
  <2>1. Plan(b, j) = {Write(Template, j, 1)}
    BY <1>3 DEF Plan
  <2> QED
    BY <1>0, <1>3, <2>1 DEF Write, Writes, Docs, Content, Versions
<1>4. CASE Kind[j] = "delete"
  <2>1. Plan(b, j) = {Write(Flows[i], b[Template], i) : i \in Dependents(b)}
                       \cup {Write(Template, Absent, Len(Flows) + 1)}
    BY <1>4 DEF Plan, InlineAndDelete, Copy
  <2>2. b[Template] \in Content
    BY DEF Bundle, Content
  <2>3. ASSUME NEW w \in Plan(b, j)
        PROVE  /\ w \in Writes
               /\ \/ w.doc = Template /\ w.to = Absent /\ w.step = Len(Flows) + 1
                  \/ w.doc \in FlowSet /\ w.step <= Len(Flows)
    <3>1. CASE w = Write(Template, Absent, Len(Flows) + 1)
      BY <3>1, Places DEF Write, Writes, Docs, Content
    <3>2. ASSUME NEW i \in Dependents(b), w = Write(Flows[i], b[Template], i)
          PROVE  w \in Writes /\ w.doc \in FlowSet /\ w.step <= Len(Flows)
      <4>1. Flows[i] \in FlowSet /\ i \in Nat /\ i <= Len(Flows)
        BY Places DEF Dependents
      <4>2. w.doc = Flows[i] /\ w.step = i /\ w.doc # Template
        BY <1>0, <3>2, <4>1 DEF Write
      <4>3. w \in [doc : Docs, to : Content, step : Int]
        BY <3>2, <4>1, <2>2 DEF Write, Docs
      <4> QED
        BY <4>1, <4>2, <4>3 DEF Writes
    <3> QED
      BY <2>1, <2>3, <3>1, <3>2
  <2>4. Plan(b, j) # {}
    BY <2>1
  <2>5. ASSUME NEW w \in Plan(b, j), NEW x \in Plan(b, j), w.step = x.step
        PROVE  w = x
    <3>1. \A i \in Dependents(b) : i # Len(Flows) + 1
      BY Places DEF Dependents
    <3> QED
      BY <2>1, <2>5, <3>1 DEF Write
  <2> QED
    BY <1>4, <2>3, <2>4, <2>5
<1> QED
  BY <1>1, <1>2, <1>3, <1>4, DeletionAssumption

\* The write that a job makes next.
LEMMA Written ==
    ASSUME Typing, NEW j \in Jobs, Store(j)
    PROVE  \E w \in plan[j] :
             /\ w \in Writes
             /\ \A x \in plan[j] : w.step <= x.step
             /\ \A d \in Docs : saved'[d] = IF d = w.doc THEN w.to ELSE saved[d]
             /\ saved' \in Bundle
             /\ plan'[j] = plan[j] \ {w}
             /\ plan' \in [Jobs -> SUBSET Writes]
             /\ \A i \in Jobs \ {j} : plan'[i] = plan[i]
<1>1. PICK w \in plan[j] :
        /\ \A x \in plan[j] : w.step <= x.step
        /\ saved' = [saved EXCEPT ![w.doc] = w.to]
        /\ plan' = [plan EXCEPT ![j] = plan[j] \ {w}]
  BY DEF Store
<1>2. plan \in [Jobs -> SUBSET Writes] /\ saved \in [Docs -> Content]
  BY DEF Typing, Bundle
<1>3. w \in Writes
  BY <1>2
<1>4. w.doc \in Docs /\ w.to \in Content
  BY <1>3 DEF Writes
<1>5. saved' \in [Docs -> Content]
  BY <1>1, <1>2, <1>4
<1>6. \A d \in Docs : saved'[d] = IF d = w.doc THEN w.to ELSE saved[d]
  BY <1>1, <1>2, <1>4
<1>7. saved'[Template] \in Versions \cup {Absent}
  BY <1>3, <1>6 DEF Writes, Typing, Bundle, Docs
<1> QED
  BY <1>1, <1>2, <1>3, <1>5, <1>6, <1>7 DEF Bundle

-----------------------------------------------------------------------------
(* The types and the plans                                                   *)

LEMMA TypingInit == Init => Typing /\ \A j \in Jobs : PlanShape(j)
<1> SUFFICES ASSUME Init PROVE Typing /\ \A j \in Jobs : PlanShape(j)
  OBVIOUS
<1>1. Template \notin FlowSet
  BY DeletionAssumption DEF FlowSet
<1>2. saved \in Bundle
  BY <1>1 DEF Init, Bundle, Docs, Content, Versions
<1>3. UnderWay = {}
  BY DEF Init, UnderWay
<1> QED
  BY <1>2, <1>3 DEF Init, Typing, PlanShape

LEMMA TypingNext ==
    ASSUME Typing, \A j \in Jobs : PlanShape(j), [Next]_vars
    PROVE  Typing' /\ \A j \in Jobs : PlanShape(j)'
<1> USE DEF Typing, UnderWay
<1>1. ASSUME NEW t \in Tabs, NEW j \in Jobs, Begin(t, j)
      PROVE  Typing' /\ \A i \in Jobs : PlanShape(i)'
  <2>1. plan' = [plan EXCEPT ![j] = Plan(page[t], j)]
    BY <1>1, Zenon DEF Begin
  <2>2. Plan(page[t], j) \in SUBSET Writes
    BY <1>1, PlanIsShaped DEF Begin
  <2>3. plan' \in [Jobs -> SUBSET Writes]
    BY <2>1, <2>2
  <2>4. Typing'
    BY <1>1, <2>3 DEF Begin
  <2>5. PlanShape(j)'
    <3>1. plan'[j] = Plan(page[t], j) /\ page[t] \in Bundle /\ Offered(page[t], j)
      BY <1>1, <2>1 DEF Begin
    <3> QED
      BY <3>1, PlanIsShaped DEF PlanShape
  <2>6. \A i \in Jobs \ {j} : PlanShape(i)'
    BY <2>1 DEF PlanShape
  <2> QED
    BY <2>4, <2>5, <2>6
<1>2. ASSUME NEW j \in Jobs, Store(j)
      PROVE  Typing' /\ \A i \in Jobs : PlanShape(i)'
  <2>1. saved' \in Bundle /\ plan' \in [Jobs -> SUBSET Writes]
        /\ \A i \in Jobs : plan'[i] \subseteq plan[i]
    BY <1>2, Written
  <2>2. Typing'
    BY <1>2, <2>1 DEF Store
  <2> QED
    BY <2>1, <2>2 DEF PlanShape
<1>3. ASSUME NEW j \in Jobs, Refuse(j) \/ Answer(j) \/ Lose(j)
      PROVE  Typing' /\ \A i \in Jobs : PlanShape(i)'
  <2>1. Typing'
    BY <1>3 DEF Refuse, Answer, Lose
  <2>2. plan' = plan
    BY <1>3 DEF Refuse, Answer, Lose
  <2> QED
    BY <2>1, <2>2 DEF PlanShape
<1>4. ASSUME NEW t \in Tabs, Load(t)
      PROVE  Typing' /\ \A i \in Jobs : PlanShape(i)'
  <2>1. Typing'
    BY <1>4 DEF Load
  <2>2. plan' = plan
    BY <1>4 DEF Load
  <2> QED
    BY <2>1, <2>2 DEF PlanShape
<1>5. CASE UNCHANGED vars
  BY <1>5 DEF vars, PlanShape
<1> QED
  BY <1>1, <1>2, <1>3, <1>4, <1>5 DEF Next

-----------------------------------------------------------------------------
(* The steps                                                                 *)

LEMMA InvInit == Init => DeletionInv
<1> SUFFICES ASSUME Init PROVE DeletionInv
  OBVIOUS
<1>1. Typing /\ \A j \in Jobs : PlanShape(j)
  BY TypingInit
<1>2. UnderWay = {}
  BY DEF Init, UnderWay
<1>3. \A t \in Tabs : page[t] = saved
  BY DEF Init
<1>4. TabsOK
  BY <1>3 DEF TabsOK, PageOK
<1>5. saved[Template] = First
  BY DEF Init
<1>6. RefsResolve
  BY <1>5, DeletionAssumption DEF RefsResolve, Resolvable
<1> QED
  BY <1>1, <1>2, <1>4, <1>6 DEF DeletionInv

\* A job begins on a page that shows what is saved, alone.
LEMMA BeginNext ==
    ASSUME DeletionInv, NEW t \in Tabs, NEW j \in Jobs, Begin(t, j), ~overlapped'
    PROVE  RefsResolve' /\ TabsOK' /\ \A i \in UnderWay' : JobOK(i)'
<1>1. ~overlapped /\ t \notin behind /\ UnderWay = {}
  BY DEF Begin
<1>2. pc[j] = "idle" /\ ~loading[t] /\ Offered(page[t], j)
  BY DEF Begin
<1>3. UNCHANGED <<saved, page, loading, behind>>
  BY DEF Begin
<1>4. pc' = [pc EXCEPT ![j] = "sent"] /\ tab' = [tab EXCEPT ![j] = t]
      /\ plan' = [plan EXCEPT ![j] = Plan(page[t], j)]
  BY Zenon DEF Begin
<1>5. pc'[j] = "sent" /\ tab'[j] = t /\ plan'[j] = Plan(page[t], j)
  BY <1>4 DEF DeletionInv, Typing
<1>6. UnderWay' = {j}
  BY <1>1, <1>4 DEF UnderWay, DeletionInv, Typing
<1>7. PageOK(t)
  BY <1>1, <1>2 DEF DeletionInv, TabsOK
<1>8. page[t] \in Bundle /\ saved \in Bundle
  BY DEF DeletionInv, Typing
<1>9. PageOK(t)'
  BY <1>3, <1>7 DEF PageOK
<1>10. RefsResolve'
  BY <1>1, <1>3 DEF DeletionInv, RefsResolve, Resolvable
<1>11. TabsOK'
  <2>1. ASSUME NEW u \in Tabs \ behind, ~loading[u] PROVE PageOK(u)
    BY <1>1, <2>1 DEF DeletionInv, TabsOK
  <2> QED
    BY <1>3, <2>1 DEF TabsOK, PageOK
<1>12. Kind[j] = "node" => ~HalfNode(j)'
  BY <1>2, <1>5, <1>8, PlanIsShaped DEF HalfNode
<1>13. Kind[j] = "refer" => saved[Template] # Absent
  BY <1>2, <1>7 DEF Offered, PageOK
<1>14. Kind[j] = "create" => saved[Template] = Absent
  BY <1>2, <1>7 DEF Offered, PageOK
<1>15. ASSUME Kind[j] = "delete" PROVE DeletionOK(j)'
  <2>1. plan'[j] = {Write(Flows[i], saved[Template], i) : i \in Dependents(page[t])}
                      \cup {Write(Template, Absent, Len(Flows) + 1)}
    BY <1>5, <1>7, <1>15 DEF Plan, InlineAndDelete, Copy, PageOK
  <2>2. saved[Template] # Absent
    BY <1>2, <1>7, <1>15 DEF Offered, PageOK
  <2>3. Write(Template, Absent, Len(Flows) + 1).doc = Template
    BY DEF Write
  <2>4. \E w \in plan'[j] : w.doc = Template
    BY <2>1, <2>3
  <2>5. ASSUME NEW w \in plan'[j], w.doc # Template
        PROVE  w.to = saved[Template] /\ saved[w.doc] \in {Ref, saved[Template]}
    <3>1. PICK i \in Dependents(page[t]) : w = Write(Flows[i], saved[Template], i)
      BY <2>1, <2>3, <2>5
    <3>2. w.doc = Flows[i] /\ w.to = saved[Template]
      BY <3>1 DEF Write
    <3>3. Flows[i] \in FlowSet /\ page[t][Flows[i]] = Ref
      BY Places DEF Dependents
    <3>4. saved[Flows[i]] \in {Ref, saved[Template]}
      BY <1>7, <3>3 DEF PageOK
    <3> QED
      BY <3>2, <3>4
  <2>6. ASSUME NEW f \in FlowSet, saved[f] = Ref
        PROVE  \E w \in plan'[j] : w.doc = f
    <3>1. page[t][f] = Ref
      BY <1>7, <2>6 DEF PageOK
    <3>2. PICK i \in DOMAIN Flows : Flows[i] = f
      BY Places
    <3>3. i \in Dependents(page[t])
      BY <3>1, <3>2 DEF Dependents
    <3>4. Write(f, saved[Template], i) \in plan'[j]
      BY <2>1, <3>2, <3>3
    <3> QED
      BY <3>4 DEF Write
  <2> QED
    BY <1>3, <2>2, <2>4, <2>5, <2>6 DEF DeletionOK
<1>16. plan'[j] # {}
  BY <1>2, <1>5, <1>8, PlanIsShaped
<1>17. HalfNode(j)' => Kind[j] = "node"
  BY DEF HalfNode
<1>18. JobOK(j)'
  <2>1. (\A x \in UnderWay : x = j)'
    BY <1>6
  <2>2. (~loading[tab[j]] /\ tab[j] \notin behind)'
    BY <1>1, <1>2, <1>3, <1>5
  <2>3. (plan[j] # {} /\ ~HalfNode(j) => PageOK(tab[j]))'
    BY <1>5, <1>9 DEF PageOK
  <2>4. (plan[j] # {} /\ (Kind[j] = "refer" \/ HalfNode(j)) => saved[Template] # Absent)'
    BY <1>3, <1>12, <1>13, <1>17
  <2> QED
    BY <1>3, <1>14, <1>15, <1>16, <2>1, <2>2, <2>3, <2>4 DEF JobOK
<1> QED
  BY <1>6, <1>10, <1>11, <1>18

\* A job's next write: it leaves every flow with a template, and a deletion or a
\* creation leaves what the flows show.
LEMMA StoreNext ==
    ASSUME DeletionInv, NEW j \in Jobs, Store(j), ~overlapped
    PROVE  /\ RefsResolve' /\ TabsOK' /\ \A i \in UnderWay' : JobOK(i)'
           /\ Kind[j] \in {"delete", "create"} =>
                \A f \in FlowSet : Rendered(saved', f) = Rendered(saved, f)
<1> USE DEF Rendered, Resolvable
<1>1. PICK w \in plan[j] :
        /\ w \in Writes
        /\ \A x \in plan[j] : w.step <= x.step
        /\ \A d \in Docs : saved'[d] = IF d = w.doc THEN w.to ELSE saved[d]
        /\ plan'[j] = plan[j] \ {w}
  BY Written DEF DeletionInv
<1>2. /\ pc[j] = "sent" /\ pc' = [pc EXCEPT ![j] = "answered"]
      /\ behind' = behind \cup (Tabs \ {tab[j]})
      /\ UNCHANGED <<page, loading, tab, overlapped>>
  BY DEF Store
<1>3. j \in UnderWay /\ UnderWay' = UnderWay /\ pc'[j] = "answered"
  BY <1>2 DEF UnderWay, DeletionInv, Typing
<1>4. JobOK(j) /\ Resolvable(saved) /\ PlanShape(j)
  BY <1>3 DEF DeletionInv, RefsResolve
<1>5. Template \notin FlowSet /\ Template \in Docs /\ FlowSet \subseteq Docs
  BY DeletionAssumption DEF FlowSet, Docs
<1>6. TabsOK'
  <2>1. ASSUME NEW t \in Tabs, t \notin behind' PROVE t = tab[j]
    BY <1>2, <2>1
  <2>2. tab'[j] = tab[j]
    BY <1>2
  <2> QED
    BY <1>3, <2>1, <2>2 DEF TabsOK
<1>7. saved[Template] \in Versions \cup {Absent}
  BY DEF DeletionInv, Typing, Bundle
<1>8. Ref \notin Versions /\ Absent \notin Versions /\ j \in Versions
  BY DeletionAssumption DEF Versions
<1>9. /\ (\A x \in UnderWay : x = j)'
      /\ (~loading[tab[j]] /\ tab[j] \notin behind)'
      /\ (pc[j] = "sent" => plan[j] # {})'
  BY <1>2, <1>3, <1>4 DEF JobOK
<1>10. CASE Kind[j] = "refer"
  <2>1. w.doc \in FlowSet /\ w.to = Ref /\ plan'[j] = {}
    BY <1>1, <1>4, <1>10 DEF PlanShape
  <2>2. saved[Template] # Absent
    BY <1>1, <1>4, <1>10 DEF JobOK
  <2>3. Resolvable(saved')
    BY <1>1, <1>5, <2>1, <2>2
  <2> QED
    BY <1>3, <1>4, <1>6, <1>9, <1>10, <2>1, <2>3 DEF JobOK, RefsResolve
<1>11. CASE Kind[j] \in {"edit", "create"}
  <2>1. w.doc = Template /\ w.to = j /\ plan'[j] = {}
    BY <1>1, <1>4, <1>11 DEF PlanShape
  <2>2. saved'[Template] = j /\ \A f \in FlowSet : saved'[f] = saved[f]
    BY <1>1, <1>5, <2>1
  <2>3. Resolvable(saved')
    BY <1>8, <2>2
  <2>4. ASSUME Kind[j] = "create", NEW f \in FlowSet
        PROVE  Rendered(saved', f) = Rendered(saved, f)
    <3>1. saved[Template] = Absent
      BY <1>1, <1>4, <2>4 DEF JobOK
    <3>2. saved[f] # Ref
      BY <1>4, <3>1
    <3> QED
      BY <2>2, <3>2
  <2> QED
    BY <1>3, <1>4, <1>6, <1>9, <1>11, <2>1, <2>3, <2>4 DEF JobOK, RefsResolve
<1>12. CASE Kind[j] = "node"
  <2>1. CASE w.doc = Template
    <3>1. w.to = j /\ w.step = 1
      BY <1>4, <1>5, <1>12, <2>1 DEF PlanShape
    <3>2. saved'[Template] = j
      BY <1>1, <1>5, <2>1, <3>1
    <3>3. \A x \in plan'[j] : x.doc # Template
      BY <1>1, <1>4, <1>5, <1>12, <3>1 DEF PlanShape
    <3>4. HalfNode(j)'
      BY <1>12, <3>3 DEF HalfNode
    <3>5. saved'[Template] # Absent
      BY <1>8, <3>2
    <3>6. JobOK(j)'
      BY <1>9, <1>12, <3>4, <3>5 DEF JobOK
    <3> QED
      BY <1>3, <1>4, <1>6, <1>12, <3>5, <3>6 DEF JobOK, RefsResolve
  <2>2. CASE w.doc # Template
    <3>1. w.doc \in FlowSet /\ w.to = Ref /\ w.step = 2
      BY <1>4, <1>12, <2>2 DEF PlanShape
    <3>2. \A x \in plan[j] : x.step = 2 /\ x.doc # Template
      BY <1>1, <1>4, <1>5, <1>12, <3>1 DEF PlanShape
    <3>3. HalfNode(j)
      BY <1>12, <3>2 DEF HalfNode
    <3>4. plan'[j] = {}
      BY <1>1, <1>4, <3>1, <3>2 DEF PlanShape
    <3>5. saved[Template] # Absent
      BY <1>1, <1>4, <3>3 DEF JobOK
    <3>6. saved'[Template] # Absent
      BY <1>1, <1>5, <2>2, <3>5
    <3>7. JobOK(j)'
      BY <1>9, <3>4 DEF JobOK
    <3> QED
      BY <1>3, <1>4, <1>6, <1>12, <3>6, <3>7 DEF JobOK, RefsResolve
  <2> QED
    BY <2>1, <2>2
<1>13. CASE Kind[j] = "delete"
  <2>1. DeletionOK(j) /\ PageOK(tab[j])
    BY <1>1, <1>4, <1>13 DEF JobOK, HalfNode
  <2>2. CASE w.doc = Template
    <3>1. w.to = Absent /\ w.step = Len(Flows) + 1
      BY <1>4, <1>5, <1>13, <2>2 DEF PlanShape
    <3>2. ASSUME NEW x \in plan[j]
          PROVE  x.step = Len(Flows) + 1 /\ x.doc = Template
      <4>1. Len(Flows) + 1 <= x.step
        BY <1>1, <3>1
      <4>2. x.step \in Int
        BY DEF DeletionInv, Typing, Writes
      <4>3. ~(x.step <= Len(Flows))
        BY <4>1, <4>2, Places
      <4> QED
        BY <1>4, <1>13, <4>3 DEF PlanShape
    <3>3. plan'[j] = {}
      BY <1>1, <1>4, <3>1, <3>2 DEF PlanShape
    <3>4. \A f \in FlowSet : saved[f] # Ref /\ saved'[f] = saved[f]
      BY <1>1, <1>5, <2>1, <2>2, <3>2 DEF DeletionOK
    <3>5. JobOK(j)'
      BY <1>9, <3>3 DEF JobOK
    <3> QED
      BY <1>3, <1>4, <1>6, <3>4, <3>5 DEF JobOK, RefsResolve
  <2>3. CASE w.doc # Template
    <3>1. w.doc \in FlowSet
      BY <1>4, <1>13, <2>3 DEF PlanShape
    <3>2. w.to = saved[Template] /\ saved[w.doc] \in {Ref, saved[Template]}
      BY <2>1, <2>3 DEF DeletionOK
    <3>3. saved'[Template] = saved[Template] /\ saved[Template] \in Versions
      BY <1>1, <1>5, <1>7, <2>1, <2>3 DEF DeletionOK
    <3>4. \A f \in FlowSet :
            saved'[f] = IF f = w.doc THEN saved[Template] ELSE saved[f]
      BY <1>1, <1>5, <3>2
    <3>5. PageOK(tab[j])'
      <4>1. page' = page /\ tab' = tab
        BY <1>2
      <4>2. page[tab[j]][Template] = saved'[Template]
        BY <2>1, <3>3 DEF PageOK
      <4>3. ASSUME NEW f \in FlowSet
            PROVE  \/ page[tab[j]][f] = saved'[f]
                   \/ page[tab[j]][f] = Ref /\ saved'[f] = saved'[Template]
        <5>1. \/ page[tab[j]][f] = saved[f]
              \/ page[tab[j]][f] = Ref /\ saved[f] = saved[Template]
          BY <2>1 DEF PageOK
        <5> QED
          BY <3>2, <3>3, <3>4, <5>1
      <4> QED
        BY <4>1, <4>2, <4>3 DEF PageOK
    <3>6. DeletionOK(j)'
      <4>1. saved'[Template] # Absent
        BY <1>8, <3>3
      <4>2. \E x \in plan'[j] : x.doc = Template
        BY <1>1, <2>1, <2>3 DEF DeletionOK
      <4>3. ASSUME NEW x \in plan'[j], x.doc # Template
            PROVE  x.to = saved'[Template] /\ saved'[x.doc] \in {Ref, saved'[Template]}
        <5>1. x \in plan[j] /\ x.doc \in FlowSet
          BY <1>1, <1>4, <1>13, <4>3 DEF PlanShape
        <5>2. x.to = saved[Template] /\ saved[x.doc] \in {Ref, saved[Template]}
          BY <2>1, <4>3, <5>1 DEF DeletionOK
        <5> QED
          BY <3>3, <3>4, <5>1, <5>2
      <4>4. ASSUME NEW f \in FlowSet, saved'[f] = Ref
            PROVE  \E x \in plan'[j] : x.doc = f
        <5>1. f # w.doc /\ saved[f] = Ref
          BY <1>8, <3>3, <3>4, <4>4
        <5>2. PICK x \in plan[j] : x.doc = f
          BY <2>1, <5>1 DEF DeletionOK
        <5> QED
          BY <1>1, <5>1, <5>2
      <4> QED
        BY <4>1, <4>2, <4>3, <4>4 DEF DeletionOK
    <3>7. Resolvable(saved')
      BY <1>8, <3>3
    <3>8. JobOK(j)'
      BY <1>9, <1>13, <3>5, <3>6 DEF JobOK, HalfNode
    <3>9. ASSUME NEW f \in FlowSet PROVE Rendered(saved', f) = Rendered(saved, f)
      BY <1>8, <3>2, <3>3, <3>4
    <3> QED
      BY <1>3, <1>4, <1>6, <3>7, <3>8, <3>9 DEF JobOK, RefsResolve
  <2> QED
    BY <2>2, <2>3
<1> QED
  BY <1>10, <1>11, <1>12, <1>13, DeletionAssumption

\* A job that ends leaves its page as good as before, or behind, or loading.
LEMMA EndNext ==
    ASSUME DeletionInv, ~overlapped, NEW j \in UnderWay,
           UNCHANGED <<saved, page, tab, plan>>,
           pc' = [pc EXCEPT ![j] = "failed"] \/ pc' = [pc EXCEPT ![j] = "done"],
           behind \subseteq behind', \A t \in Tabs : loading[t] => loading'[t],
           PageOK(tab[j]) \/ tab[j] \in behind' \/ loading'[tab[j]]
    PROVE  RefsResolve' /\ TabsOK' /\ \A i \in UnderWay' : JobOK(i)'
<1>1. JobOK(j) /\ Resolvable(saved) /\ TabsOK
  BY DEF DeletionInv, RefsResolve
<1>2. UnderWay = {j}
  BY <1>1 DEF JobOK
<1>3. UnderWay' = {}
  BY <1>2 DEF UnderWay, DeletionInv, Typing
<1>4. loading \in [Tabs -> BOOLEAN]
  BY DEF DeletionInv, Typing
<1>5. ASSUME NEW t \in Tabs, t \notin behind', ~loading'[t] PROVE PageOK(t)'
  <2>1. t \notin behind /\ ~loading[t]
    BY <1>4, <1>5
  <2>2. CASE t = tab[j]
    BY <1>5, <2>2 DEF PageOK
  <2>3. CASE t # tab[j]
    BY <1>1, <1>2, <2>1, <2>3 DEF TabsOK, PageOK
  <2> QED
    BY <2>2, <2>3
<1>6. TabsOK'
  BY <1>5 DEF TabsOK
<1>7. RefsResolve'
  BY <1>1 DEF RefsResolve, Resolvable
<1> QED
  BY <1>3, <1>6, <1>7

\* A write is refused.
LEMMA RefuseNext ==
    ASSUME DeletionInv, NEW j \in Jobs, Refuse(j), ~overlapped
    PROVE  RefsResolve' /\ TabsOK' /\ \A i \in UnderWay' : JobOK(i)'
<1>1. /\ pc[j] = "sent" /\ pc' = [pc EXCEPT ![j] = "failed"]
      /\ UNCHANGED <<saved, page, loading, tab, plan>>
      /\ behind' = IF HalfNode(j) THEN behind \cup {tab[j]} ELSE behind
  BY DEF Refuse
<1>2. j \in UnderWay
  BY <1>1 DEF UnderWay
<1>3. JobOK(j)
  BY <1>2 DEF DeletionInv
<1>4. HalfNode(j) \/ PageOK(tab[j])
  BY <1>1, <1>3 DEF JobOK
<1>5. PageOK(tab[j]) \/ tab[j] \in behind'
  BY <1>1, <1>4
<1>6. behind \subseteq behind' /\ \A t \in Tabs : loading[t] => loading'[t]
  BY <1>1
<1> QED
  BY <1>1, <1>2, <1>5, <1>6, EndNext

\* An answer is lost.
LEMMA LoseNext ==
    ASSUME DeletionInv, NEW j \in Jobs, Lose(j), ~overlapped
    PROVE  RefsResolve' /\ TabsOK' /\ \A i \in UnderWay' : JobOK(i)'
<1>1. /\ pc[j] = "answered" /\ pc' = [pc EXCEPT ![j] = "failed"]
      /\ UNCHANGED <<saved, page, loading, tab, plan>>
      /\ behind' = behind \cup {tab[j]}
  BY DEF Lose
<1>2. j \in UnderWay
  BY <1>1 DEF UnderWay
<1> QED
  BY <1>1, <1>2, EndNext

\* An answer arrives: the next write, or the page is loaded again.
LEMMA AnswerNext ==
    ASSUME DeletionInv, NEW j \in Jobs, Answer(j), ~overlapped
    PROVE  RefsResolve' /\ TabsOK' /\ \A i \in UnderWay' : JobOK(i)'
<1>1. /\ pc[j] = "answered"
      /\ UNCHANGED <<saved, page, tab, plan, behind, overlapped>>
  BY DEF Answer
<1>2. j \in UnderWay
  BY <1>1 DEF UnderWay
<1>3. JobOK(j) /\ RefsResolve /\ TabsOK
  BY <1>2 DEF DeletionInv
<1>4. CASE plan[j] # {}
  <2>1. pc' = [pc EXCEPT ![j] = "sent"] /\ loading' = loading
    BY <1>4 DEF Answer
  <2>2. UnderWay' = UnderWay
    BY <1>1, <2>1 DEF UnderWay, DeletionInv, Typing
  <2>3. JobOK(j)'
    BY <1>1, <1>3, <1>4, <2>1, <2>2 DEF JobOK, HalfNode, PageOK, DeletionOK
  <2>4. TabsOK'
    BY <1>1, <1>3, <2>1, <2>2 DEF TabsOK, PageOK
  <2>5. RefsResolve'
    BY <1>1, <1>3 DEF RefsResolve, Resolvable
  <2>6. UnderWay' = {j}
    BY <1>2, <1>3, <2>2 DEF JobOK
  <2> QED
    BY <2>3, <2>4, <2>5, <2>6
<1>5. CASE plan[j] = {}
  <2>1. pc' = [pc EXCEPT ![j] = "done"] /\ loading' = [loading EXCEPT ![tab[j]] = TRUE]
    BY <1>5 DEF Answer
  <2>2. tab[j] \in Tabs /\ loading \in [Tabs -> BOOLEAN]
    BY <1>2 DEF DeletionInv, Typing
  <2>3. loading'[tab[j]] /\ \A t \in Tabs : loading[t] => loading'[t]
    BY <2>1, <2>2
  <2> QED
    BY <1>1, <1>2, <2>1, <2>3, EndNext
<1> QED
  BY <1>4, <1>5

\* A page is loaded, of which no job is under way.
LEMMA LoadNext ==
    ASSUME DeletionInv, NEW t \in Tabs, Load(t), ~overlapped
    PROVE  RefsResolve' /\ TabsOK' /\ \A i \in UnderWay' : JobOK(i)'
<1>1. /\ loading[t] /\ loading' = [loading EXCEPT ![t] = FALSE]
      /\ UNCHANGED <<saved, pc, tab, plan, overlapped>>
      /\ \/ page' = [page EXCEPT ![t] = saved] /\ behind' = behind \ {t}
         \/ page' = page /\ behind' = behind \cup {t}
  BY DEF Load
<1>2. UnderWay' = UnderWay
  BY <1>1 DEF UnderWay
<1>3. \A u \in Tabs \ {t} : page'[u] = page[u] /\ loading'[u] = loading[u]
  BY <1>1 DEF DeletionInv, Typing
<1>4. RefsResolve'
  BY <1>1 DEF DeletionInv, RefsResolve, Resolvable
<1>5. ASSUME NEW j \in UnderWay PROVE JobOK(j)'
  <2>1. JobOK(j) /\ tab[j] \in Tabs
    BY <1>5 DEF DeletionInv, Typing
  <2>2. tab[j] # t
    BY <1>1, <2>1 DEF JobOK
  <2>3. page'[tab[j]] = page[tab[j]] /\ loading'[tab[j]] = loading[tab[j]]
    BY <1>3, <2>1, <2>2
  <2>4. tab[j] \notin behind'
    BY <1>1, <2>1, <2>2 DEF JobOK
  <2>5. PageOK(tab[j]) => PageOK(tab[j])'
    BY <1>1, <2>3 DEF PageOK
  <2>6. HalfNode(j)' = HalfNode(j) /\ (DeletionOK(j) => DeletionOK(j)')
    BY <1>1 DEF HalfNode, DeletionOK
  <2> QED
    BY <1>1, <1>2, <2>1, <2>3, <2>4, <2>5, <2>6 DEF JobOK
<1>6. ASSUME NEW u \in Tabs, u \notin behind', ~loading'[u],
             \A j \in UnderWay : tab[j] # u
      PROVE  PageOK(u)'
  <2>1. CASE u = t
    <3>1. page'[t] = saved
      BY <1>1, <1>6, <2>1 DEF DeletionInv, Typing
    <3> QED
      BY <1>1, <2>1, <3>1 DEF PageOK
  <2>2. CASE u # t
    <3>1. u \notin behind /\ ~loading[u] /\ page'[u] = page[u]
      BY <1>1, <1>3, <1>6, <2>2
    <3>2. PageOK(u)
      BY <1>6, <3>1 DEF DeletionInv, TabsOK
    <3> QED
      BY <1>1, <3>1, <3>2 DEF PageOK
  <2> QED
    BY <2>1, <2>2
<1>7. TabsOK'
  BY <1>1, <1>2, <1>6 DEF TabsOK
<1> QED
  BY <1>2, <1>4, <1>5, <1>7

LEMMA InvNext == DeletionInv /\ [Next]_vars => DeletionInv'
<1> SUFFICES ASSUME DeletionInv, [Next]_vars PROVE DeletionInv'
  OBVIOUS
<1>1. Typing' /\ \A j \in Jobs : PlanShape(j)'
  BY TypingNext DEF DeletionInv
<1>2. SUFFICES ASSUME ~overlapped'
               PROVE  RefsResolve' /\ TabsOK' /\ \A j \in UnderWay' : JobOK(j)'
  BY <1>1 DEF DeletionInv, RefsResolve
<1>3. ASSUME NEW t \in Tabs, NEW j \in Jobs, Begin(t, j)
      PROVE  RefsResolve' /\ TabsOK' /\ \A i \in UnderWay' : JobOK(i)'
  BY <1>2, <1>3, BeginNext
<1>4. ASSUME NEW j \in Jobs, Store(j) \/ Refuse(j) \/ Answer(j) \/ Lose(j)
      PROVE  RefsResolve' /\ TabsOK' /\ \A i \in UnderWay' : JobOK(i)'
  <2>1. ~overlapped
    BY <1>2, <1>4 DEF Store, Refuse, Answer, Lose
  <2> QED
    BY <1>4, <2>1, StoreNext, RefuseNext, AnswerNext, LoseNext
<1>5. ASSUME NEW t \in Tabs, Load(t)
      PROVE  RefsResolve' /\ TabsOK' /\ \A i \in UnderWay' : JobOK(i)'
  <2>1. ~overlapped
    BY <1>2, <1>5 DEF Load
  <2> QED
    BY <1>5, <2>1, LoadNext
<1>6. CASE UNCHANGED vars
  <2>1. UnderWay' = UnderWay
    BY <1>6 DEF vars, UnderWay
  <2>2. TabsOK' /\ RefsResolve'
    BY <1>2, <1>6, <2>1 DEF DeletionInv, vars, TabsOK, PageOK, RefsResolve, Resolvable
  <2>3. \A j \in UnderWay : JobOK(j)'
    BY <1>2, <1>6, <2>1 DEF DeletionInv, vars, JobOK, HalfNode, PageOK, DeletionOK
  <2> QED
    BY <2>1, <2>2, <2>3
<1> QED
  BY <1>3, <1>4, <1>5, <1>6 DEF Next

-----------------------------------------------------------------------------
(* The theorems                                                              *)

\* Of jobs that begin on a page that lacks no change, and none during another, no flow
\* ever refers to a missing template: also between the writes of a deletion, and after
\* any of them was refused or its answer lost.
THEOREM RefsResolveAlways == Spec => []RefsResolve
<1>1. DeletionInv => RefsResolve
  BY DEF DeletionInv
<1> QED
  BY <1>1, InvInit, InvNext, PTL DEF Spec

\* Of the same jobs, no write of a deletion or of a creation changes what any flow
\* shows.
THEOREM RenderingKeptAlways == Spec => RenderingKept
<1> DEFINE Kept ==
      \A j \in Jobs :
        Kind[j] \in {"delete", "create"} /\ Stores(j) /\ ~overlapped
          => \A f \in FlowSet : Rendered(saved', f) = Rendered(saved, f)
<1>1. ASSUME DeletionInv, [Next]_vars PROVE [Kept]_vars
  <2> SUFFICES ASSUME NEW j \in Jobs, Kind[j] \in {"delete", "create"},
                      Stores(j), ~overlapped, NEW f \in FlowSet
               PROVE  Rendered(saved', f) = Rendered(saved, f)
    OBVIOUS
  <2>1. pc \in [Jobs -> {"idle", "sent", "answered", "failed", "done"}]
    BY <1>1 DEF DeletionInv, Typing
  <2>2. CASE Store(j)
    BY <1>1, <2>2, StoreNext
  <2>3. CASE ~Store(j)
    <3>1. ~\E t \in Tabs, i \in Jobs : Begin(t, i)
      BY <2>1 DEF Begin, Stores
    <3>2. ~\E i \in Jobs : Refuse(i) \/ Answer(i) \/ Lose(i)
      BY <2>1 DEF Refuse, Answer, Lose, Stores
    <3>3. ~\E t \in Tabs : Load(t)
      BY <2>1 DEF Load, Stores
    <3>4. ~\E i \in Jobs : Store(i)
      BY <2>1, <2>3 DEF Store, Stores
    <3>5. UNCHANGED vars
      BY <1>1, <3>1, <3>2, <3>3, <3>4 DEF Next
    <3> QED
      BY <3>5 DEF vars
  <2> QED
    BY <2>2, <2>3
<1>2. [][Kept]_vars => RenderingKept
  BY DEF RenderingKept
<1> QED
  BY <1>1, <1>2, InvInit, InvNext, PTL DEF Spec
=============================================================================
