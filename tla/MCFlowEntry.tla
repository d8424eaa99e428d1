---------------------------- MODULE MCFlowEntry ------------------------------
(* An instance of FlowEntry for TLC.                                         *)
EXTENDS FlowEntry

CONSTANTS a, b, custom

MCSlots == [s \in {"metrics", "publish", "consumer", "topicMetrics", "queue"} |->
               IF s = "metrics" THEN Pods ELSE {"rps"}]

Plain == [f \in {"query"} |-> a]
Rich == [f \in {"query", "dataSource", "sla"} |-> IF f = "dataSource" THEN b ELSE a]

Fields(F) == [f \in F |-> IF f = "customMetrics" THEN {custom} ELSE a]

Main(k, m) == [s \in {MainSection(k)} |-> [x \in {CHOOSE y \in MCSlots[s] : TRUE} |-> m]]

\* with the fields it must have, or all it may have; one metric, poor, rich or not configured
MCTemplates ==
    {[fields |-> Fields(BodySchema(k)), metrics |-> Main(k, m)] : k \in Kinds, m \in {Plain, Rich, Null}}
      \cup {[fields |-> Fields(DefSchema(k)), metrics |-> [s \in Sections(k) |-> [x \in MCSlots[s] |-> Rich]]]
               : k \in Kinds}

\* bare, with every override, or with a metric disabled
MCEntries ==
    {[inline |-> FALSE, fields |-> Nowhere, metrics |-> Nowhere]}
      \cup {[inline |-> FALSE, fields |-> Fields(RefSchema(k)),
             metrics |-> Main(k, [f \in {"query", "sla"} |-> b])] : k \in Kinds}
      \cup {[inline |-> FALSE, fields |-> Nowhere, metrics |-> Main(k, Null)] : k \in Kinds}
      \cup {[inline |-> TRUE, fields |-> Fields(DefSchema(k)),
             metrics |-> [s \in Sections(k) |-> [x \in MCSlots[s] |-> Rich]]] : k \in Kinds}
=============================================================================
