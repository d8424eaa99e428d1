------------------------- MODULE MCTemplateDeletion -------------------------
(* An instance of TemplateDeletion for TLC.                                  *)
EXTENDS TemplateDeletion

CONSTANTS f1, f2

\* two deletions: of two users, or of one who tries again
AllKinds == [delete |-> "delete", again |-> "delete", refer |-> "refer",
             node |-> "node", edit |-> "edit", create |-> "create"]

MCFlows == <<f1, f2>>
MCKind == [j \in Jobs |-> AllKinds[j]]
MCTarget == [j \in Jobs |-> IF j = "node" THEN f1 ELSE f2]
=============================================================================
