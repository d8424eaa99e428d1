----------------------------- MODULE CanvasLayout -----------------------------
(***************************************************************************)
(* Where the cards of a topology are drawn.  A position has three origins: *)
(* the layout saved in the flow (bundled), the browser's own store (local, *)
(* kept in localStorage) and the automatic layout.  One effect brings them *)
(* together after every change of what is shown.  The server layouts of    *)
(* the store are never set.  Edges' handles and labels follow the same     *)
(* rules as positions and are left out, as is the camera.                  *)
(***************************************************************************)
EXTENDS Integers, FiniteSets

CONSTANTS
    Flows,          \* ids of topologies
    Sequenced,      \* those whose edges are all ordered
    Spots,          \* places a card can be dragged to
    MaxDrags,       \* bound on the drags of the user
    MaxOthers       \* bound on the changes of other users

ASSUME LayoutAssumption ==
    /\ Sequenced \subseteq Flows
    /\ "none" \notin Flows
    /\ MaxDrags \in Nat /\ MaxOthers \in Nat

\* A service, and the database only it uses, which may be added or removed.
Cards == {"svc", "db"}
NoLayout == [c \in {} |-> "auto"]
Unset == [c \in {"none"} |-> "auto"]

VARIABLES
    saved,      \* flow -> [nodes, layout] in the backend; nodes is empty if it does not exist
    page,       \* flow -> [nodes, layout] as loaded
    bundled,    \* flow -> layout given to the store, or Unset
    local,      \* flow -> layout in localStorage, or Unset
    canvas,     \* [flow, nodes, seq, at]: what the store last laid out
    screen,     \* [selected, editing, collapse, sequence]
    drags, others

layoutVars == <<saved, page, bundled, local, canvas, screen, drags, others>>

Layouts == UNION {[D -> Spots \cup {"auto", "seq"}] : D \in SUBSET Cards}
FlowDocuments == [nodes : SUBSET Cards, layout : Layouts]
Screens == [selected : Flows, editing : BOOLEAN, collapse : BOOLEAN, sequence : BOOLEAN]

LayoutTypeOK ==
    /\ saved \in [Flows -> FlowDocuments] /\ page \in [Flows -> FlowDocuments]
    /\ bundled \in [Flows -> Layouts \cup {Unset}]
    /\ local \in [Flows -> Layouts \cup {Unset}]
    /\ canvas \in [flow : Flows \cup {"none"}, nodes : SUBSET Cards, seq : BOOLEAN, at : Layouts]
    /\ screen \in Screens
    /\ drags \in 0..MaxDrags /\ others \in 0..MaxOthers

-----------------------------------------------------------------------------
Exists(p, f) == p[f].nodes # {}
\* The selected topology, or some other if it is gone.
Effective(p, sel) == IF Exists(p, sel) THEN sel ELSE CHOOSE f \in Flows : Exists(p, f)

\* A database with one edge, from its service, is drawn in the service's card.
Drawn(nodes, collapse) == IF collapse /\ "svc" \in nodes THEN nodes \ {"db"} ELSE nodes

At(layout, c) == IF c \in DOMAIN layout THEN layout[c] ELSE "auto"
Keep(layout, nodes) == [c \in DOMAIN layout \cap nodes |-> layout[c]]

\* The cards of a flow and where they are.
Canvas(f, nodes, seq, at) == [flow |-> f, nodes |-> nodes, seq |-> seq, at |-> at]
NoCanvas == Canvas("none", {}, FALSE, NoLayout)

LocalFirst(b, l) == IF l # Unset THEN l ELSE IF b # Unset THEN b ELSE NoLayout
Priority(b, l) == IF b # Unset THEN b ELSE IF l # Unset THEN l ELSE NoLayout

\* The page's copy of the flow, if it has a layout, reaches the store first.
Bundle(p, f) == IF p[f].layout = NoLayout THEN bundled ELSE [bundled EXCEPT ![f] = p[f].layout]

\* Layouts of topologies that are gone are forgotten.
Pruned(p) == [f \in Flows |-> IF Exists(p, f) THEN local[f] ELSE Unset]

\* The effect of useTopologyFlow, for the page p and the screen s.  What is laid out
\* already keeps its place: only the data of the cards are replaced.
InitializeAlways(p, s) ==
    LET f == Effective(p, s.selected)
        nodes == Drawn(p[f].nodes, s.collapse)
        seq == s.sequence /\ f \in Sequenced
        layout == Priority(Bundle(p, f)[f], Pruned(p)[f]) IN
    /\ bundled' = Bundle(p, f)
    /\ canvas' = Canvas(f, nodes, seq, [c \in nodes |-> IF seq THEN "seq" ELSE At(layout, c)])
    /\ local' = IF seq THEN Pruned(p) ELSE [Pruned(p) EXCEPT ![f] = Keep(layout, nodes)]
Initialize(p, s) ==
    LET f == Effective(p, s.selected)
        nodes == Drawn(p[f].nodes, s.collapse)
        seq == s.sequence /\ f \in Sequenced
        layout == Priority(Bundle(p, f)[f], Pruned(p)[f])
        same == canvas.flow = f /\ canvas.nodes = nodes /\ canvas.seq = seq IN
    /\ bundled' = Bundle(p, f)
    /\ canvas' = IF same THEN canvas
                 ELSE Canvas(f, nodes, seq, [c \in nodes |-> IF seq THEN "seq" ELSE At(layout, c)])
    /\ local' = IF same \/ seq THEN Pruned(p) ELSE [Pruned(p) EXCEPT ![f] = Keep(layout, nodes)]

Screen(sel, edit, coll, seq) ==
    [selected |-> sel, editing |-> edit, collapse |-> coll, sequence |-> seq]

LayoutInit ==
    /\ saved \in [Flows -> [nodes : {Cards, Cards \ {"db"}}, layout : {NoLayout}]]
    /\ page = [f \in Flows |-> [nodes |-> {}, layout |-> NoLayout]]
    /\ bundled = [f \in Flows |-> Unset]
    /\ local = [f \in Flows |-> Unset]
    /\ canvas = NoCanvas
    /\ \E f \in Flows : screen = Screen(f, FALSE, FALSE, FALSE)
    /\ drags = 0 /\ others = 0

-----------------------------------------------------------------------------
(* The user.  The effect follows every change of the screen or of the page.  *)

Show(s) ==
    /\ canvas # NoCanvas
    /\ screen' = s
    /\ Initialize(page, s)
    /\ UNCHANGED <<saved, page, drags, others>>

Select(f) ==
    /\ Exists(page, f)
    /\ Show(Screen(f, screen.editing, screen.collapse, screen.sequence))

\* Entering edit mode ends the collapse.
ToggleEditMode ==
    Show(Screen(screen.selected, ~screen.editing, screen.collapse /\ screen.editing, screen.sequence))
ToggleCollapse ==
    /\ ~screen.editing
    /\ Show(Screen(screen.selected, screen.editing, ~screen.collapse, screen.sequence))
ToggleSequence ==
    /\ canvas # NoCanvas
    /\ Effective(page, screen.selected) \in Sequenced
    /\ Show(Screen(screen.selected, screen.editing, screen.collapse, ~screen.sequence))

\* Cards move in edit mode, but not in a sequence diagram.
DragUnstored(c, p) ==
    /\ screen.editing /\ ~canvas.seq
    /\ c \in canvas.nodes
    /\ drags < MaxDrags
    /\ canvas' = Canvas(canvas.flow, canvas.nodes, FALSE, [canvas.at EXCEPT ![c] = p])
    /\ drags' = drags + 1
    /\ UNCHANGED <<saved, page, bundled, local, screen, others>>
Drag(c, p) ==
    /\ screen.editing /\ ~canvas.seq
    /\ c \in canvas.nodes
    /\ drags < MaxDrags
    /\ canvas' = Canvas(canvas.flow, canvas.nodes, FALSE, [canvas.at EXCEPT ![c] = p])
    /\ local' = [local EXCEPT ![canvas.flow] =
                   [x \in {c} \cup (IF @ = Unset THEN {} ELSE DOMAIN @) |-> IF x = c THEN p ELSE @[x]]]
    /\ drags' = drags + 1
    /\ UNCHANGED <<saved, page, bundled, screen, others>>

\* The positions of all cards, saved with the rest of the flow as loaded.
SaveLayout ==
    LET f == canvas.flow
        flow == [nodes |-> page[f].nodes, layout |-> canvas.at] IN
    /\ canvas # NoCanvas /\ screen.editing
    /\ saved' = [saved EXCEPT ![f] = flow]
    /\ page' = [page EXCEPT ![f] = flow]
    /\ Initialize(page', screen)
    /\ UNCHANGED <<screen, drags, others>>

\* The page loads the flows: at first, and after an edit or an import of its user.
Reload ==
    /\ page' = saved
    /\ Initialize(saved, screen)
    /\ UNCHANGED <<saved, screen, drags, others>>

\* The browser's tab is reloaded: of the store only localStorage survives.
Restart ==
    /\ canvas # NoCanvas
    /\ page' = [f \in Flows |-> [nodes |-> {}, layout |-> NoLayout]]
    /\ bundled' = [f \in Flows |-> Unset]
    /\ canvas' = NoCanvas
    /\ screen' = Screen(Effective(page, screen.selected), FALSE, FALSE, FALSE)
    /\ UNCHANGED <<saved, local, drags, others>>

\* Other users add or remove the database, save a layout, delete a topology or make one.
OthersSave(f) ==
    /\ others < MaxOthers
    /\ others' = others + 1
    /\ \E flow \in
         IF Exists(saved, f)
         THEN {[nodes |-> n, layout |-> saved[f].layout] : n \in {Cards, Cards \ {"db"}}}
                \cup {[nodes |-> {}, layout |-> NoLayout]}
                \cup {[nodes |-> saved[f].nodes, layout |-> [c \in saved[f].nodes |-> p]] : p \in Spots}
         ELSE {[nodes |-> Cards, layout |-> NoLayout]} :
          /\ flow # saved[f]
          /\ saved' = [saved EXCEPT ![f] = flow]
    /\ \E g \in Flows : Exists(saved', g)
    /\ UNCHANGED <<page, bundled, local, canvas, screen, drags>>

LayoutNext ==
    \/ \E f \in Flows : Select(f) \/ OthersSave(f)
    \/ ToggleEditMode \/ ToggleCollapse \/ ToggleSequence
    \/ \E c \in Cards, p \in Spots : Drag(c, p)
    \/ SaveLayout \/ Reload \/ Restart

LayoutSpec == LayoutInit /\ [][LayoutNext]_layoutVars

-----------------------------------------------------------------------------
(* Properties                                                                *)

\* What is on the canvas is the selected topology as loaded, collapsed only outside edit
\* mode, and every card is where the local layout has it, or where the automatic layout
\* puts it: the canvas and the store of positions change together over drags, saves,
\* reloads, switches of topology and of mode.
CanvasIsLocal ==
    canvas # NoCanvas =>
      LET f == Effective(page, screen.selected) IN
      /\ canvas.flow = f
      /\ canvas.nodes = IF screen.editing THEN page[f].nodes ELSE Drawn(page[f].nodes, screen.collapse)
      /\ canvas.seq \/ (local[f] # Unset /\ \A c \in canvas.nodes : canvas.at[c] = At(local[f], c))

\* A card moves only when the user drags it, or what is drawn changes: never because the
\* page saves, reloads the same nodes, or enters edit mode.
CardsStay ==
    [][\A c \in canvas.nodes \cap canvas'.nodes :
          canvas'.at[c] # canvas.at[c] =>
            \/ drags' # drags
            \/ canvas'.flow # canvas.flow \/ canvas'.nodes # canvas.nodes \/ canvas'.seq # canvas.seq]_layoutVars

\* A topology that is shown anew has its cards where the saved layout as loaded has them,
\* whatever was dragged without saving before.
SavedIsRestored ==
    [][(canvas'.flow \in Flows \ {canvas.flow} /\ ~canvas'.seq) =>
          LET layout == page'[canvas'.flow].layout IN
          \A c \in canvas'.nodes \cap DOMAIN layout : canvas'.at[c] = layout[c]]_layoutVars
=============================================================================
