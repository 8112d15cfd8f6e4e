---------------------------- MODULE MCNodeRegister ----------------------------
(***************************************************************************)
(* Small instances of NodeRegister: a process engineer and an auditor, the *)
(* seeded node and new nodes.                                              *)
(***************************************************************************)
EXTENDS NodeRegister, TLC

CONSTANTS eve, aud, r1

MCUsers == {eve, aud}
MCRoleOf == (eve :> "process_engineer") @@ (aud :> "auditor")

CreateBy(u, code) == [kind |-> "create", actor |-> u, code |-> code]
UpdateOf(n, design, status) ==
  [kind |-> "update", actor |-> eve, node |-> n, design |-> design, status |-> status]
DeactivateOf(n) == [kind |-> "deactivate", actor |-> eve, node |-> n]
ScenarioOf(n) == [kind |-> "addScenario", actor |-> eve, node |-> n]

\* Registrations under a free and under the seeded code, by a user who may not, and the
\* other calls on the seeded node and on the node the first request may register.
MCTraffic ==
  {CreateBy(eve, c) : c \in Codes} \cup {CreateBy(aud, SeedCode)} \cup
  {UpdateOf(Seed, TRUE, None), UpdateOf(Seed, FALSE, "active"),
   UpdateOf(r1, FALSE, "inactive")} \cup
  {DeactivateOf(n) : n \in {Seed, r1}} \cup {ScenarioOf(n) : n \in {Seed, r1}}
=============================================================================
