---------------------------- MODULE DurableStore ----------------------------
(***************************************************************************)
(* What the topology backend promises about its data, whatever requests,   *)
(* config page saves and restarts do: every running app holds one store of *)
(* its own that changes one resource at a time; what Grafana's database    *)
(* holds is at every moment one state that some store really was in, never *)
(* a mixture of several states; and a new app starts from exactly what the *)
(* database holds.  It is the abstract side of TopologyPersistence.        *)
(***************************************************************************)
CONSTANTS
    Instances,   \* the apps the plugin SDK creates, one after the other
    Resources,   \* the keys of a store
    Values       \* what a key may hold

VARIABLES
    store,       \* the store of each instance
    saved,       \* the topology data in Grafana's database
    history      \* every state a store has been in

vars == <<store, saved, history>>

Data == [Resources -> Values]

Init ==
    /\ saved \in Data
    /\ store = [i \in Instances |-> saved]
    /\ history = {saved}

\* One resource of one store is written or removed.
Edit ==
    \E i \in Instances, f \in Resources, v \in Values :
        /\ store' = [store EXCEPT ![i] = [@ EXCEPT ![f] = v]]
        /\ history' = history \cup {store'[i]}
        /\ UNCHANGED saved

\* The database takes a state that a store has been in, not always the latest.
Save ==
    /\ saved' \in history
    /\ UNCHANGED <<store, history>>

\* An app is created from what the database holds.
Start ==
    /\ \E i \in Instances : store' = [store EXCEPT ![i] = saved]
    /\ UNCHANGED <<saved, history>>

Next == Edit \/ Save \/ Start

Spec == Init /\ [][Next]_vars
=============================================================================
