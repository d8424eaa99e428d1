----------------------------- MODULE MCPageView -------------------------------
(* The three parts of the page's view that keep a state of their own, the charts, the   *)
(* canvas and the permission to edit, which share nothing: one run takes the steps of   *)
(* each from a common start.                                                            *)
EXTENDS RangeCharts, CanvasLayout, EditPermission, TLC

CONSTANTS ed, eve, guest, root

MCRanges == {[kind |-> "relative", seconds |-> 0], [kind |-> "relative", seconds |-> 5 * Minute],
             [kind |-> "absolute", seconds |-> 20 * Day]}

\* The e-mails as strings: ed's account has capitals in it, and so may the list.  The guest isn't
\* signed in, but has a role.
MCRole == ed :> "Editor" @@ eve :> "Admin" @@ guest :> "Admin" @@ root :> "Viewer"
MCEmail == [u \in Users |-> IF u = ed THEN "Ed@x" ELSE "eve@x"]
MCNormal == [m \in Emails |-> IF m = "Ed@x" THEN "ed@x" ELSE m]

Start == CHOOSE f \in Flows : f \in Sequenced
Untouched == canvas = NoCanvas /\ others = 0 /\ local[Start] = Unset
Closed ==
    /\ sent = [b \in Browsers |-> 0] /\ chart = [b \in Browsers |-> "none"]
    /\ stored = [b \in Browsers |-> CHOOSE r \in Ranges : TRUE]
Unasked ==
    /\ editAllowList = {} /\ saves = 0
    /\ \A u \in Users : pageList[u] = Unreadable /\ edit[u] = NoEdit

MCInit ==
    /\ ChartsInit /\ LayoutInit /\ PermissionInit
    /\ screen.selected = Start /\ \A f \in Flows : "db" \in saved[f].nodes
    /\ Closed \/ Unasked

\* A bound: not both view options at once, and only the first topology is changed by others.
OneOption ==
    /\ ~(screen.collapse /\ screen.sequence)
    /\ \A f \in Flows \ {Start} : saved[f] \in {page[f], [nodes |-> Cards, layout |-> NoLayout]}

\* A bound: one user edits, whichever.  Users share the settings only.
OneUser ==
    \E u \in Users : \A v \in Users \ {u} : pageList[v] = Unreadable /\ edit[v] = NoEdit

MCNext ==
    \/ ChartsNext /\ Untouched /\ Unasked /\ UNCHANGED <<layoutVars, permissionVars>>
    \/ LayoutNext /\ Closed /\ Unasked /\ UNCHANGED <<chartVars, permissionVars>> /\ OneOption'
    \/ PermissionNext /\ Closed /\ Untouched /\ UNCHANGED <<chartVars, layoutVars>> /\ OneUser'

MCSpec == MCInit /\ [][MCNext]_<<chartVars, layoutVars, permissionVars>> /\ ChartsFairness
=============================================================================
