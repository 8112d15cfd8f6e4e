------------------------ MODULE MCCoverageEvaluation ------------------------
(***************************************************************************)
(* Small instances of CoverageEvaluation.  The users are an administrator  *)
(* who authored the scenarios, a process engineer and a safety reviewer.   *)
(***************************************************************************)
EXTENDS CoverageEvaluation, TLC

CONSTANTS ada, eve, rio, s1, s2, k1, k2, r1

MCUsers == {ada, eve, rio}
MCRoleOf == (ada :> "admin") @@ (eve :> "process_engineer") @@ (rio :> "safety_reviewer")
MCAuthor == [s \in Scenarios |-> ada]

\* Coverage in percent.  An edit of the safeguards may leave the scenario without
\* coverage, so that the score of the result is the provisional one.
MCScore == [i \in Snapshots |->
              IF i.safeguards = 0 THEN 50 + i.analysis ELSE 0]

\* The evaluator refuses the inputs of an edited node, and of the other scenario.
MCUnevaluable == {i \in Snapshots : i.node > 0 \/ i.scenario # s1}

RunBy(u, k, s) == [kind |-> "run", actor |-> u, key |-> k, scenario |-> s]
On(kind, u, id) == [kind |-> kind, actor |-> u, target |-> id]

\* The reviewer runs the scenario under one key, again and again, and confirms, voids and
\* replays what is run; so would the administrator who authored the scenario.
MCTraffic ==
  {RunBy(rio, k1, s1), RunBy(eve, ShortKey, s1)} \cup
  {On("confirm", u, id) : u \in {ada, rio}, id \in Requests} \cup
  {On(kind, rio, id) : kind \in {"void", "replay"}, id \in Requests}

\* A run that completes and one that fails, each under a key of its own, one of a scenario
\* that does not exist, and a user who may not confirm.
LifecycleTraffic ==
  {RunBy(eve, k1, s1), RunBy(eve, k2, s2), RunBy(eve, k1, NoScenario),
   On("confirm", eve, r1), On("confirm", rio, r1), On("void", rio, r1)}

RequestSymmetry == Permutations(Requests)
=============================================================================
