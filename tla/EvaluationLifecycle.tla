------------------------- MODULE EvaluationLifecycle -------------------------
(***************************************************************************)
(* What a coverage evaluation promises, whatever requests, retries, errors *)
(* and restarts are involved: an idempotency key names at most one         *)
(* evaluation, an evaluation freezes its input when it is queued, obtains  *)
(* its one result from that input, and its state follows coverageTransitions *)
(* of backend/internal/constants/coverage_state.go.  A confirmer holds the *)
(* confirm permission and is not the author of the evaluated scenario.     *)
(*                                                                         *)
(* CoverageEvaluation implements this specification (its refinement        *)
(* mapping is Ledger there).                                               *)
(***************************************************************************)
CONSTANTS
  Keys,         \* idempotency keys
  Users,
  Snapshots,    \* frozen inputs, each of the form [scenario |-> .., ...]
  Author,       \* Author[s] is the creator of scenario s
  Confirmers,   \* the users whose role may confirm
  Score,        \* Score[i] is the coverage score of the frozen input i
  Unevaluable,  \* the inputs on which the evaluator returns an error
  Provisional,  \* the score stored while there is no result
  None          \* no user

VARIABLE ledger \* ledger[k] is the set of evaluations known by key k

States == {"queued", "running", "completed", "failed", "confirmed", "voided"}

\* coverageTransitions, as the set of allowed steps.
CoverageTransitions ==
  { <<"queued", "running">>, <<"running", "completed">>, <<"running", "failed">>,
    <<"completed", "confirmed">>, <<"completed", "voided">>,
    <<"failed", "voided">>, <<"confirmed", "voided">> }

CanTransitionCoverage(from, to) == <<from, to>> \in CoverageTransitions

Entry == [snapshot : Snapshots, state : States, score : {Provisional} \cup
            {Score[i] : i \in Snapshots}, confirmedBy : Users \cup {None}]

LifecycleTypeOK == ledger \in [Keys -> SUBSET Entry]

Init == ledger = [k \in Keys |-> {}]

Queue(k) ==
  /\ ledger[k] = {}
  /\ \E i \in Snapshots :
       ledger' = [ledger EXCEPT ![k] = {[snapshot |-> i, state |-> "queued",
                                         score |-> Provisional, confirmedBy |-> None]}]

\* The one evaluation of k moves to state `to`, with result `score` and confirmer u.
Move(k, to, score, u) ==
  \E e \in ledger[k] :
    /\ CanTransitionCoverage(e.state, to)
    /\ ledger' = [ledger EXCEPT ![k] =
                    {[snapshot |-> e.snapshot, state |-> to, score |-> score,
                      confirmedBy |-> u]}]

Start(k) == \E e \in ledger[k] : Move(k, "running", e.score, e.confirmedBy)

Complete(k) == \E e \in ledger[k] :
  /\ e.snapshot \notin Unevaluable
  /\ Move(k, "completed", Score[e.snapshot], e.confirmedBy)

Fail(k) == \E e \in ledger[k] :
  /\ e.snapshot \in Unevaluable
  /\ Move(k, "failed", e.score, e.confirmedBy)

Confirm(k) == \E e \in ledger[k], u \in Confirmers :
  /\ u # Author[e.snapshot.scenario]
  /\ Move(k, "confirmed", e.score, u)

Void(k) == \E e \in ledger[k] : Move(k, "voided", e.score, e.confirmedBy)

Next == \E k \in Keys :
  Queue(k) \/ Start(k) \/ Complete(k) \/ Fail(k) \/ Confirm(k) \/ Void(k)

Spec == Init /\ [][Next]_ledger
=============================================================================
