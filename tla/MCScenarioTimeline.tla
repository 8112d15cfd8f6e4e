-------------------------- MODULE MCScenarioTimeline --------------------------
(***************************************************************************)
(* A small instance of ScenarioTimeline: an administrator, who is the      *)
(* author and whom no role check stops, a process engineer, a safety       *)
(* reviewer and an auditor.                                                *)
(***************************************************************************)
EXTENDS ScenarioTimeline, TLC

CONSTANTS ada, eve, rio, aud, cause, severity

MCUsers == {ada, eve, rio, aud}
MCRoleOf == (ada :> "admin") @@ (eve :> "process_engineer") @@
            (rio :> "safety_reviewer") @@ (aud :> "auditor")

UpdateBy(u, fields) == [kind |-> "update", actor |-> u, found |-> TRUE, fields |-> fields]
MoveBy(u, to) == [kind |-> "transition", actor |-> u, found |-> TRUE, to |-> to]

\* The engineer edits a column and submits, the author and a reviewer move the scenario
\* on, others try to edit and to move it, and one client asks for a scenario that does not
\* exist.
MCTraffic ==
  {UpdateBy(eve, {cause}), UpdateBy(rio, Fields)} \cup
  {MoveBy(ada, to) : to \in {"verified", "rework"}} \cup
  {MoveBy(rio, to) : to \in {"verified", "accepted"}} \cup
  {MoveBy(eve, "analyzed"), MoveBy(aud, "analyzed"), MoveBy(eve, "verified")} \cup
  {[kind |-> "transition", actor |-> eve, found |-> FALSE, to |-> "analyzed"]}

RequestSymmetry == Permutations(Requests)
=============================================================================
