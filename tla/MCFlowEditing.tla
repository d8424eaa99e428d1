---------------------------- MODULE MCFlowEditing ----------------------------
(* An instance of FlowEditing for TLC.                                       *)
EXTENDS FlowEditing

CONSTANTS flow, new

\* node: a node is created with its template; layout, delete: of the flow
SharedEdits == {"node", "layout", "delete"}

AllSteps == [node |-> <<new, flow>>, layout |-> <<flow>>, delete |-> <<flow>>]

MCSteps == [e \in Edits |-> AllSteps[e]]
MCReplaced == [e \in Edits |-> IF e = "node" THEN {new} ELSE {}]
MCDeletions == {"delete"}
MCLayouts == {"layout"}
=============================================================================
