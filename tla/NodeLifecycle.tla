----------------------------- MODULE NodeLifecycle -----------------------------
(***************************************************************************)
(* What the register of process nodes promises: a node appears active,     *)
(* under a code no other node has, keeps that code for good and is never   *)
(* removed; the rest of its row, the status included, may be rewritten at  *)
(* any time; scenarios are added to nodes that exist.                      *)
(*                                                                         *)
(* NodeRegister implements this specification.                             *)
(***************************************************************************)
CONSTANTS
  Nodes,      \* identities a node may have
  Codes,      \* values of node_code
  Designs,    \* values of the other columns an update may change
  Scenarios,  \* identities a scenario may have
  Persisted,  \* the tables the register may start from
  None        \* no row

VARIABLES
  nodes,      \* nodes[n]: the row of node n
  scenarios   \* scenarios[s]: the node of scenario s

Init == nodes \in Persisted /\ scenarios = [s \in Scenarios |-> None]

Register ==
  \E n \in Nodes, c \in Codes, d \in Designs :
    /\ nodes[n] = None
    /\ \A m \in Nodes : nodes[m] # None => nodes[m].code # c
    /\ nodes' = [nodes EXCEPT ![n] = [code |-> c, design |-> d, status |-> "active"]]
    /\ UNCHANGED scenarios

Rewrite ==
  \E n \in Nodes, d \in Designs, status \in {"active", "inactive"} :
    /\ nodes[n] # None
    /\ nodes' = [nodes EXCEPT ![n] =
         [code |-> nodes[n].code, design |-> d, status |-> status]]
    /\ UNCHANGED scenarios

AddScenario ==
  \E s \in Scenarios, n \in Nodes :
    /\ scenarios[s] = None /\ nodes[n] # None
    /\ scenarios' = [scenarios EXCEPT ![s] = n]
    /\ UNCHANGED nodes

Next == Register \/ Rewrite \/ AddScenario

Spec == Init /\ [][Next]_<<nodes, scenarios>>
=============================================================================
