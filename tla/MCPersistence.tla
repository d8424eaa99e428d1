---------------------------- MODULE MCPersistence ----------------------------
(* Instances of TopologyPersistence for TLC.                                 *)
EXTENDS TopologyPersistence, TLC

CONSTANTS flow, node, edge, open

MCResources == {flow, node, edge}
\* node and edge share a section: an import may hold two files of one section
MCRank == (flow :> 1) @@ (node :> 2) @@ (edge :> 2)
MCAllowList == [c \in Configs |-> IF c = open THEN Editors \cap Users ELSE {}]

Put(f) == [kind |-> "put", files |-> {f}, bad |-> {}]
Delete(f) == [kind |-> "delete", files |-> {f}, bad |-> {}]
Import(fs, bad) == [kind |-> "import", files |-> fs, bad |-> bad]

MCOps == {Put(flow), Delete(node), Import({flow, node, edge}, {}),
          Import({flow, node}, {node})}
TwoPuts == {Put(flow), Put(node)}
=============================================================================
