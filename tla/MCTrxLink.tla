----------------------------- MODULE MCTrxLink -----------------------------
(* Two or three transceiver nodes; the cfg files choose the nodes, the    *)
(* unit, the faults the environment may cause, which node's caller        *)
(* unloads the unit and how many symbols each node transmits.             *)
EXTENDS TLC, TrxLink

CONSTANTS n1, n2, n3

MCNodes == {n1, n2}

\* Three nodes: a receiver and two senders.
MCNodes3 == {n1, n2, n3}
\* Every node may transmit two symbols.
MCBudget == [n \in MCNodes |-> 2]

\* n1 transmits twice, so a failed call can poison its next one.
MCBudget3 == (n1 :> 2 @@ n2 :> 1 @@ n3 :> 1)

\* One symbol per node.
MCBudget31 == [n \in MCNodes3 |-> 1]
=============================================================================
