-------------------------- MODULE CoverageEvaluation --------------------------
(***************************************************************************)
(* The coverage evaluation service: its handlers Run, Confirm, Void and    *)
(* Replay (backend/internal/service/coverage_evaluation_service.go) over   *)
(* the tables of the database.                                             *)
(*                                                                         *)
(* Every request runs in a goroutine of its own and every repository call  *)
(* is an SQL statement committed on its own: no handler opens a            *)
(* transaction.  A handler is therefore a sequence of atomic steps, one    *)
(* per statement, which interleave with the statements of other requests,  *)
(* and pc[r] names the statement request r executes next.  Code between    *)
(* two statements touches only the locals of its goroutine and belongs to  *)
(* the step of the statement before or after it.                           *)
(*                                                                         *)
(* A request is handled once; a client that retries sends another request. *)
(* A row is named by the request that inserted it (a request inserts at    *)
(* most one), which stands for the autoincremented id.                     *)
(***************************************************************************)
EXTENDS AccessControl, Naturals

CONSTANTS
  Requests,     \* the HTTP requests the server receives
  Users,        \* the authenticated users
  Keys,         \* Idempotency-Key values of 8 to 128 characters
  ShortKey,     \* a key the length check rejects
  Scenarios,    \* the persisted deviation scenarios
  NoScenario,   \* a scenario id that is not persisted
  RoleOf,       \* RoleOf[u] is the role in the JWT of u
  Author,       \* Author[s] is the created_by of scenario s (never updated)
  Traffic,      \* the calls clients may make, a subset of Calls
  Score,        \* Score[i]: the coverage score the algorithm computes for input i
  Unevaluable,  \* the inputs for which Evaluate returns an error
  MaxEdits,     \* bound: edits of one table of evaluation inputs
  MaxFaults,    \* bound: statements that fail, and server crashes
  None          \* SQL NULL, and "no row"

\* The rows an evaluation is computed from (process node, scenario, safeguards
\* of the scenario) are abstracted to the number of times they were edited.
Editions == 0..MaxEdits
Parts == {"analysis", "node", "safeguards"}
Snapshots == [scenario : Scenarios, analysis : Editions, node : Editions,
              safeguards : Editions]

Provisional == 0          \* the coverage_score of a row without result
Scores == {Provisional} \cup {Score[i] : i \in Snapshots}

EvaluationStates ==
  {"queued", "running", "completed", "failed", "confirmed", "voided"}

\* model.CoverageEvaluation.  `score` stands for all the result columns, which
\* Complete stores together; input_hash is a function of input_snapshot and is
\* written with it.
Rows == [key : Keys, evaluatedBy : Users, snapshot : Snapshots,
         state : EvaluationStates, score : Scores, confirmedBy : Users \cup {None},
         replay : {"unknown", "passed", "mismatch"}]

RunCalls == [kind : {"run"}, actor : Users, key : Keys \cup {ShortKey},
             scenario : Scenarios \cup {NoScenario}]
TargetCalls == [kind : {"confirm", "void", "replay"}, actor : Users, target : Requests]
Calls == RunCalls \cup TargetCalls

AuditRows == [request : Requests, actor : Users,
              action : {"run", "confirm", "void", "replay"}, evaluation : Requests,
              before : EvaluationStates \cup {None}, after : EvaluationStates \cup {None}]

Statuses == {"pending", "ok", "duplicate", "badRequest", "forbidden", "notFound",
             "reviewerConflict", "conflict", "mismatch", "unprocessable", "internal",
             "lost"}

Answers == [status : Statuses, evaluation : Requests \cup {None}]

\* The statements of the handlers.  A request is in flight while it is at one.
Statements ==
  {"findByKey", "getScenario", "getNode", "listSafeguards", "create", "findAgain",
   "start", "finish", "reload", "audit",
   "getEvaluation", "getAuthor", "confirm", "void", "storeReplay", "answerReplay"}

ASSUME ConstantsAssumption ==
  /\ MaxEdits \in Nat /\ MaxFaults \in Nat
  /\ RoleOf \in [Users -> Roles]
  /\ Author \in [Scenarios -> Users]
  /\ Traffic \subseteq Calls
  /\ DOMAIN Score = Snapshots
  /\ Unevaluable \subseteq Snapshots
  /\ ShortKey \notin Keys /\ NoScenario \notin Scenarios
  /\ None \notin Users /\ None \notin Requests

VARIABLES
  evaluations,  \* table coverage_evaluations: a row for each request that inserted one
  audits,       \* table audit_logs, the entries written by this service
  edition,      \* edition[s][p]: the current edition of part p of the input of s
  pc,           \* pc[r]: the next statement of request r, "idle" or "done"
  call,         \* call[r]: the call of request r, None before it arrives
  draft,        \* draft[r]: the parts of the snapshot read so far
  seen,         \* seen[r]: the evaluation as the handler first read it
  after,        \* after[r]: the evaluation as reloaded after its update
  answer,       \* answer[r]: the HTTP response
  faults        \* how many faults have occurred

tables == <<evaluations, audits, edition>>
vars == <<evaluations, audits, edition, pc, call, draft, seen, after, answer, faults>>

TypeOK ==
  /\ DOMAIN evaluations \subseteq Requests
  /\ evaluations \in [DOMAIN evaluations -> Rows]
  /\ audits \subseteq AuditRows
  /\ edition \in [Scenarios -> [Parts -> Editions]]
  /\ pc \in [Requests -> Statements \cup {"idle", "done"}]
  /\ call \in [Requests -> Calls \cup {None}]
  /\ draft \in [Requests -> Snapshots \cup {None}]
  /\ seen \in [Requests -> Rows \cup {None}]
  /\ after \in [Requests -> Rows \cup {None}]
  /\ answer \in [Requests -> Answers]
  /\ faults \in 0..MaxFaults

Init ==
  /\ evaluations = [r \in {} |-> None]
  /\ audits = {}
  /\ edition = [s \in Scenarios |-> [p \in Parts |-> 0]]
  /\ pc = [r \in Requests |-> "idle"]
  /\ call = [r \in Requests |-> None]
  /\ draft = [r \in Requests |-> None]
  /\ seen = [r \in Requests |-> None]
  /\ after = [r \in Requests |-> None]
  /\ answer = [r \in Requests |-> [status |-> "pending", evaluation |-> None]]
  /\ faults = 0

-----------------------------------------------------------------------------
(* Moving a request on, or answering it.                                   *)

Goto(r, statement) ==
  /\ pc' = [pc EXCEPT ![r] = statement]
  /\ UNCHANGED answer

Reply(r, status, id) ==
  /\ pc' = [pc EXCEPT ![r] = "done"]
  /\ answer' = [answer EXCEPT ![r] = [status |-> status, evaluation |-> id]]

(* The repository.  Transition, Complete and SetReplayResult are single    *)
(* UPDATE statements; `changed` is RowsAffected = 1.                       *)

Insert(id, row) ==
  evaluations' = [i \in DOMAIN evaluations \cup {id} |->
                    IF i = id THEN row ELSE evaluations[i]]

Changed(id, from) == evaluations[id].state \in from

Store(id, row) == evaluations' = [evaluations EXCEPT ![id] = row]

\* The rows FindByIdempotencyKey finds.
FindByIdempotencyKey(key) == {id \in DOMAIN evaluations : evaluations[id].key = key}

Queued(r) ==
  [key |-> call[r].key, evaluatedBy |-> call[r].actor, snapshot |-> draft[r],
   state |-> "queued", score |-> Provisional, confirmedBy |-> None,
   replay |-> "unknown"]

\* The from-sets of the conditional updates, literals in the service.
StartableStates == {"queued"}
\* Mutant: the result is stored from the wrong state.
FinishableFromQueued == {"queued"}

FinishableStates == {"running"}
ConfirmableStates == {"completed"}
\* Mutant: an evaluation may be voided while it runs.
VoidableWhileRunning == {"running", "completed", "failed", "confirmed"}

VoidableStates == {"completed", "failed", "confirmed"}

-----------------------------------------------------------------------------
(* Receiving a request: routing and middleware.RequirePermission.          *)

PermissionFor(kind) ==
  IF kind \in {"run", "replay"} THEN "evaluation:run" ELSE "evaluation:confirm"

Receive(r) ==
  /\ pc[r] = "idle"
  /\ \E c \in Traffic :
       /\ call' = [call EXCEPT ![r] = c]
       /\ IF ~HasPermission(RoleOf[c.actor], PermissionFor(c.kind))
          THEN Reply(r, "forbidden", None)
          ELSE IF c.kind = "run" THEN Goto(r, "findByKey") ELSE Goto(r, "getEvaluation")
  /\ UNCHANGED <<evaluations, audits, edition, draft, seen, after, faults>>

(* Run.                                                                    *)

FindByKey(r) ==
  /\ pc[r] = "findByKey"
  /\ \/ /\ call[r].key = ShortKey
        /\ Reply(r, "badRequest", None)
     \/ /\ call[r].key # ShortKey
        /\ \E id \in FindByIdempotencyKey(call[r].key) : Reply(r, "duplicate", id)
     \/ /\ call[r].key # ShortKey
        /\ FindByIdempotencyKey(call[r].key) = {}
        /\ Goto(r, "getScenario")
  /\ UNCHANGED <<evaluations, audits, edition, call, draft, seen, after, faults>>

GetScenario(r) ==
  /\ pc[r] = "getScenario"
  /\ LET s == call[r].scenario IN
     \/ /\ s = NoScenario
        /\ Reply(r, "notFound", None)
        /\ UNCHANGED draft
     \/ /\ s \in Scenarios
        /\ draft' = [draft EXCEPT ![r] =
                       [scenario |-> s, analysis |-> edition[s]["analysis"],
                        node |-> 0, safeguards |-> 0]]
        /\ Goto(r, "getNode")
  /\ UNCHANGED <<evaluations, audits, edition, call, seen, after, faults>>

GetNode(r) ==
  /\ pc[r] = "getNode"
  /\ draft' = [draft EXCEPT ![r].node = edition[call[r].scenario]["node"]]
  /\ Goto(r, "listSafeguards")
  /\ UNCHANGED <<evaluations, audits, edition, call, seen, after, faults>>

\* Reading the safeguards completes the snapshot, which NewSnapshot freezes.
ListSafeguards(r) ==
  /\ pc[r] = "listSafeguards"
  /\ draft' = [draft EXCEPT ![r].safeguards = edition[call[r].scenario]["safeguards"]]
  /\ Goto(r, "create")
  /\ UNCHANGED <<evaluations, audits, edition, call, seen, after, faults>>

\* Mutant: on a duplicate key the INSERT updates the existing row.
CreateUpserts(r) ==
  /\ pc[r] = "create"
  /\ \/ /\ \E id \in FindByIdempotencyKey(call[r].key) : Insert(id, Queued(r))
        /\ Goto(r, "findAgain")
     \/ /\ FindByIdempotencyKey(call[r].key) = {}
        /\ Insert(r, Queued(r))
        /\ Goto(r, "start")
  /\ UNCHANGED <<audits, edition, call, draft, seen, after, faults>>

\* Mutant: the table has no unique index, only the lookup guards the key.
CreateWithoutIndex(r) ==
  /\ pc[r] = "create"
  /\ Insert(r, Queued(r))
  /\ Goto(r, "start")
  /\ UNCHANGED <<audits, edition, call, draft, seen, after, faults>>

\* The INSERT is refused by the unique index on idempotency_key.
Create(r) ==
  /\ pc[r] = "create"
  /\ \/ /\ FindByIdempotencyKey(call[r].key) # {}
        /\ Goto(r, "findAgain")
        /\ UNCHANGED evaluations
     \/ /\ FindByIdempotencyKey(call[r].key) = {}
        /\ Insert(r, Queued(r))
        /\ Goto(r, "start")
  /\ UNCHANGED <<audits, edition, call, draft, seen, after, faults>>

\* Mutant: the loser of an insert waits for the result of the winner.
FindAgainWaits(r) ==
  /\ pc[r] = "findAgain"
  /\ \E id \in FindByIdempotencyKey(call[r].key) :
       /\ evaluations[id].state \notin {"queued", "running"}
       /\ Reply(r, "duplicate", id)
  /\ UNCHANGED <<evaluations, audits, edition, call, draft, seen, after, faults>>

FindAgain(r) ==
  /\ pc[r] = "findAgain"
  /\ \E id \in FindByIdempotencyKey(call[r].key) : Reply(r, "duplicate", id)
  /\ UNCHANGED <<evaluations, audits, edition, call, draft, seen, after, faults>>

StartRun(r) ==
  /\ pc[r] = "start"
  /\ IF Changed(r, StartableStates)
     THEN Store(r, [evaluations[r] EXCEPT !.state = "running"]) /\ Goto(r, "finish")
     ELSE Reply(r, "conflict", None) /\ UNCHANGED evaluations
  /\ UNCHANGED <<audits, edition, call, draft, seen, after, faults>>

\* Evaluate fails: the row is marked failed, whether or not that changes it.
FailRun(r) ==
  /\ pc[r] = "finish"
  /\ draft[r] \in Unevaluable
  /\ IF Changed(r, FinishableStates)
     THEN Store(r, [evaluations[r] EXCEPT !.state = "failed"])
     ELSE UNCHANGED evaluations
  /\ Reply(r, "unprocessable", None)
  /\ UNCHANGED <<audits, edition, call, draft, seen, after, faults>>

\* Mutant: the error of Evaluate is ignored.
CompleteDespiteError(r) ==
  /\ pc[r] = "finish"
  /\ Store(r, [evaluations[r] EXCEPT !.state = "completed", !.score = Score[draft[r]]])
  /\ Goto(r, "reload")
  /\ UNCHANGED <<audits, edition, call, draft, seen, after, faults>>

CompleteRun(r) ==
  /\ pc[r] = "finish"
  /\ draft[r] \notin Unevaluable
  /\ IF Changed(r, FinishableStates)
     THEN /\ Store(r, [evaluations[r] EXCEPT !.state = "completed",
                          !.snapshot = draft[r], !.score = Score[draft[r]]])
          /\ Goto(r, "reload")
     ELSE Reply(r, "conflict", None) /\ UNCHANGED evaluations
  /\ UNCHANGED <<audits, edition, call, draft, seen, after, faults>>

(* Confirm, Void and Replay begin by reading the evaluation they address.  *)

\* Mutant: the replay evaluates the current inputs instead of the frozen ones.
ReplayPassesOnLiveInput(r) ==
  LET s == seen[r].snapshot.scenario IN
  seen[r].score = Score[[scenario |-> s, analysis |-> edition[s]["analysis"],
                         node |-> edition[s]["node"],
                         safeguards |-> edition[s]["safeguards"]]]

\* Replay re-evaluates the snapshot it read; nothing else is read for it.
ReplayPasses(r) == seen[r].score = Score[seen[r].snapshot]

AfterGetEvaluation(kind) ==
  CASE kind = "confirm" -> "getAuthor"
    [] kind = "void" -> "void"
    [] kind = "replay" -> "storeReplay"

GetEvaluation(r) ==
  /\ pc[r] = "getEvaluation"
  /\ LET id == call[r].target
         kind == call[r].kind
     IN \/ /\ id \notin DOMAIN evaluations
           /\ Reply(r, "notFound", None)
           /\ UNCHANGED seen
        \/ /\ id \in DOMAIN evaluations
           /\ seen' = [seen EXCEPT ![r] = evaluations[id]]
           /\ IF kind = "replay" /\ evaluations[id].snapshot \in Unevaluable
              THEN Reply(r, "unprocessable", None)
              ELSE Goto(r, AfterGetEvaluation(kind))
  /\ UNCHANGED <<evaluations, audits, edition, call, draft, after, faults>>

\* Mutant: the confirmer is compared with the evaluator instead of the author.
GetAuthorChecksEvaluator(r) ==
  /\ pc[r] = "getAuthor"
  /\ IF seen[r].evaluatedBy = call[r].actor
     THEN Reply(r, "reviewerConflict", None)
     ELSE Goto(r, "confirm")
  /\ UNCHANGED <<evaluations, audits, edition, call, draft, seen, after, faults>>

GetAuthor(r) ==
  /\ pc[r] = "getAuthor"
  /\ IF Author[seen[r].snapshot.scenario] = call[r].actor
     THEN Reply(r, "reviewerConflict", None)
     ELSE Goto(r, "confirm")
  /\ UNCHANGED <<evaluations, audits, edition, call, draft, seen, after, faults>>

\* Mutant: the state is checked on the row read first; the update is unconditional.
ConfirmOnStaleRead(r) ==
  /\ pc[r] = "confirm"
  /\ LET id == call[r].target IN
     IF seen[r].state \in ConfirmableStates
     THEN /\ Store(id, [evaluations[id] EXCEPT !.state = "confirmed",
                          !.confirmedBy = call[r].actor])
          /\ Goto(r, "reload")
     ELSE Reply(r, "conflict", None) /\ UNCHANGED evaluations
  /\ UNCHANGED <<audits, edition, call, draft, seen, after, faults>>

Confirm(r) ==
  /\ pc[r] = "confirm"
  /\ LET id == call[r].target IN
     IF Changed(id, ConfirmableStates)
     THEN /\ Store(id, [evaluations[id] EXCEPT !.state = "confirmed",
                          !.confirmedBy = call[r].actor])
          /\ Goto(r, "reload")
     ELSE Reply(r, "conflict", None) /\ UNCHANGED evaluations
  /\ UNCHANGED <<audits, edition, call, draft, seen, after, faults>>

\* Mutant: RowsAffected is ignored, so a refused void is audited.
VoidIgnoresChanged(r) ==
  /\ pc[r] = "void"
  /\ LET id == call[r].target IN
     IF Changed(id, VoidableStates)
     THEN Store(id, [evaluations[id] EXCEPT !.state = "voided"])
     ELSE UNCHANGED evaluations
  /\ Goto(r, "reload")
  /\ UNCHANGED <<audits, edition, call, draft, seen, after, faults>>

Void(r) ==
  /\ pc[r] = "void"
  /\ LET id == call[r].target IN
     IF Changed(id, VoidableStates)
     THEN Store(id, [evaluations[id] EXCEPT !.state = "voided"]) /\ Goto(r, "reload")
     ELSE Reply(r, "conflict", None) /\ UNCHANGED evaluations
  /\ UNCHANGED <<audits, edition, call, draft, seen, after, faults>>

\* SetReplayResult has no condition on the state of the row.
StoreReplay(r) ==
  /\ pc[r] = "storeReplay"
  /\ Store(call[r].target,
           [evaluations[call[r].target] EXCEPT
              !.replay = IF ReplayPasses(r) THEN "passed" ELSE "mismatch"])
  /\ Goto(r, "audit")
  /\ UNCHANGED <<audits, edition, call, draft, seen, after, faults>>

(* The common end: reload the row, write the audit entry, answer.          *)

Subject(r) == IF call[r].kind = "run" THEN r ELSE call[r].target

Reload(r) ==
  /\ pc[r] = "reload"
  /\ after' = [after EXCEPT ![r] = evaluations[Subject(r)]]
  /\ Goto(r, "audit")
  /\ UNCHANGED <<evaluations, audits, edition, call, draft, seen, faults>>

\* The entry of a state change holds the two rows the handler read; those of a
\* run and of a replay hold no row.
AuditEntry(r) ==
  LET states == call[r].kind \in {"confirm", "void"} IN
  [request |-> r, actor |-> call[r].actor, action |-> call[r].kind,
   evaluation |-> Subject(r),
   before |-> IF states THEN seen[r].state ELSE None,
   after |-> IF states THEN after[r].state ELSE None]

RecordAudit(r) ==
  /\ pc[r] = "audit"
  /\ audits' = audits \cup {AuditEntry(r)}
  /\ \/ /\ call[r].kind # "replay"
        /\ Reply(r, "ok", Subject(r))
     \/ /\ call[r].kind = "replay" /\ ReplayPasses(r)
        /\ Goto(r, "answerReplay")
     \/ /\ call[r].kind = "replay" /\ ~ReplayPasses(r)
        /\ Reply(r, "mismatch", None)
  /\ UNCHANGED <<evaluations, edition, call, draft, seen, after, faults>>

AnswerReplay(r) ==
  /\ pc[r] = "answerReplay"
  /\ Reply(r, "ok", call[r].target)
  /\ UNCHANGED <<evaluations, audits, edition, call, draft, seen, after, faults>>

-----------------------------------------------------------------------------
(* The environment: other services edit the inputs, statements fail (a     *)
(* database error, or the context of a client that disconnected) and the   *)
(* server crashes.  A statement that took effect but whose reply was lost  *)
(* leaves what a failure of the next statement leaves.                     *)

EditInput(s, p) ==
  /\ edition[s][p] < MaxEdits
  /\ edition' = [edition EXCEPT ![s][p] = @ + 1]
  /\ UNCHANGED <<evaluations, audits, pc, call, draft, seen, after, answer, faults>>

\* Mutant: a failure to write the audit entry is swallowed.
StatementFailsAuditSwallowed(r) ==
  /\ pc[r] \in Statements
  /\ faults < MaxFaults
  /\ faults' = faults + 1
  /\ IF pc[r] = "audit" THEN Reply(r, "ok", Subject(r)) ELSE Reply(r, "internal", None)
  /\ UNCHANGED <<evaluations, audits, edition, call, draft, seen, after>>

StatementFails(r) ==
  /\ pc[r] \in Statements
  /\ faults < MaxFaults
  /\ faults' = faults + 1
  /\ Reply(r, "internal", None)
  /\ UNCHANGED <<evaluations, audits, edition, call, draft, seen, after>>

Crash ==
  /\ \E r \in Requests : pc[r] \in Statements
  /\ faults < MaxFaults
  /\ faults' = faults + 1
  /\ pc' = [r \in Requests |-> IF pc[r] \in Statements THEN "done" ELSE pc[r]]
  /\ answer' = [r \in Requests |-> IF pc[r] \in Statements
                                   THEN [status |-> "lost", evaluation |-> None]
                                   ELSE answer[r]]
  /\ UNCHANGED <<evaluations, audits, edition, call, draft, seen, after>>

\* Every request was handled: the server waits.
Quiescent ==
  /\ \A r \in Requests : pc[r] = "done"
  /\ UNCHANGED vars

Handle(r) ==
  \/ FindByKey(r) \/ GetScenario(r) \/ GetNode(r) \/ ListSafeguards(r) \/ Create(r)
  \/ FindAgain(r) \/ StartRun(r) \/ FailRun(r) \/ CompleteRun(r)
  \/ GetEvaluation(r) \/ GetAuthor(r) \/ Confirm(r) \/ Void(r) \/ StoreReplay(r)
  \/ Reload(r) \/ RecordAudit(r) \/ AnswerReplay(r)

Next ==
  \/ \E r \in Requests : Receive(r) \/ Handle(r) \/ StatementFails(r)
  \/ \E s \in Scenarios, p \in Parts : EditInput(s, p)
  \/ Crash
  \/ Quiescent

Spec == Init /\ [][Next]_vars

\* A goroutine that has a statement to execute executes it: the Go scheduler and
\* the database serve every request.  Nothing forces clients or the environment.
Fairness == \A r \in Requests : WF_vars(Handle(r))

FairSpec == Spec /\ Fairness

-----------------------------------------------------------------------------
(* Safety.                                                                 *)

RunAnswered(r) ==
  /\ answer[r].status \in {"ok", "duplicate"}
  /\ call[r].kind = "run"

\* An idempotency key names one evaluation for good: no two rows share a key, and
\* all answers to runs with one key name the same row, which has that key, however
\* the lookups and inserts of concurrent requests interleave and whatever fails
\* (Run's lookup, insert and second lookup).
KeyNamesOneEvaluation ==
  /\ \A i, j \in DOMAIN evaluations : evaluations[i].key = evaluations[j].key => i = j
  /\ \A r \in Requests : RunAnswered(r) =>
       /\ answer[r].evaluation \in DOMAIN evaluations
       /\ evaluations[answer[r].evaluation].key = call[r].key

HasResult(row) == row.state \in {"completed", "confirmed"} \/ row.confirmedBy # None

\* A completed or confirmed evaluation, also after it was voided, holds the score
\* of the very snapshot it holds, although other handlers edited the inputs and
\* wrote to the row meanwhile (Evaluate and Complete of Run).
ResultFollowsSnapshot ==
  \A id \in DOMAIN evaluations : HasResult(evaluations[id]) =>
    /\ evaluations[id].snapshot \notin Unevaluable
    /\ evaluations[id].score = Score[evaluations[id].snapshot]

\* A confirmer is a reviewer or administrator other than the author of the scenario,
\* who need not be the user that ran the evaluation, and only confirmed evaluations
\* and voided ones keep a confirmer (the check of Confirm precedes its update).
IndependentConfirmation ==
  \A id \in DOMAIN evaluations : evaluations[id].confirmedBy # None =>
    /\ evaluations[id].state \in {"confirmed", "voided"}
    /\ evaluations[id].confirmedBy # Author[evaluations[id].snapshot.scenario]
    /\ RoleOf[evaluations[id].confirmedBy] \in {"admin", "safety_reviewer"}

\* Request r has made its state change, and was not cut short by a fault since.
Decided(r) ==
  /\ call[r] # None /\ call[r].kind \in {"confirm", "void"}
  /\ pc[r] \in {"reload", "audit"} \/ answer[r].status = "ok"

\* Of the requests that race to confirm, or to void, one evaluation, at most one
\* succeeds (the conditional updates of Confirm and Void).
DecidedOnce ==
  \A r, q \in Requests :
    Decided(r) /\ Decided(q) /\ call[r].kind = call[q].kind
      /\ call[r].target = call[q].target => r = q

\* A request that answers success has left its audit entry, also when statements
\* fail or the server crashes (recordStateAudit and Record precede the answer).
SuccessIsAudited ==
  \A r \in Requests : answer[r].status = "ok" =>
    \E a \in audits : /\ a.request = r /\ a.actor = call[r].actor
                      /\ a.action = call[r].kind
                      /\ a.evaluation = answer[r].evaluation

\* The audit log is true for good: an entry for a run, a confirmation or a void names
\* an evaluation that got its result, keeps that confirmer, or stays voided, whatever
\* later requests do to the row.
AuditedChangesHappened ==
  \A a \in audits :
    /\ a.evaluation \in DOMAIN evaluations
    /\ LET row == evaluations[a.evaluation] IN
       /\ a.action = "run" => row.state \in {"completed", "confirmed", "voided"}
       /\ a.action = "confirm" => row.confirmedBy = a.actor
       /\ a.action = "void" => row.state = "voided"

\* The replay of an evaluation that was completed or confirmed when it was read never
\* disagrees with the stored score, although the inputs were edited since (Replay
\* evaluates the frozen snapshot).
ReplayOfResultPasses ==
  \A r \in Requests :
    /\ answer[r].status = "mismatch"
    => ~HasResult(seen[r])

(* Action properties.                                                      *)

\* The columns no handler may change once an evaluation has left "running".
Frozen(row) == [key |-> row.key, evaluatedBy |-> row.evaluatedBy,
                snapshot |-> row.snapshot, score |-> row.score]

Settled(row) == row.state \notin {"queued", "running"}

\* Historical versions are never overwritten: no step deletes a row, changes the
\* snapshot of a row, or changes the result of one that has left "running".
HistoryFrozen ==
  [][\A id \in DOMAIN evaluations :
       /\ id \in DOMAIN evaluations'
       /\ evaluations'[id].snapshot = evaluations[id].snapshot
       /\ Settled(evaluations[id]) =>
            Frozen(evaluations'[id]) = Frozen(evaluations[id])]_vars

(* Refinement.                                                             *)

Projection(row) == [snapshot |-> row.snapshot, state |-> row.state,
                    score |-> row.score, confirmedBy |-> row.confirmedBy]

Ledger == [k \in Keys |-> {Projection(evaluations[id]) : id \in FindByIdempotencyKey(k)}]

\* The service implements EvaluationLifecycle: seen through its idempotency keys,
\* every step of every handler is an allowed step of one evaluation.
Lifecycle == INSTANCE EvaluationLifecycle WITH
  ledger <- Ledger,
  Confirmers <- {u \in Users : HasPermission(RoleOf[u], "evaluation:confirm")}

ImplementsLifecycle == Lifecycle!Spec

(* Liveness, under FairSpec.                                               *)

\* Every request that arrives is answered or lost in a crash: no handler waits for
\* another one, also when the other one failed half-way.
RequestsEnd == \A r \in Requests : pc[r] # "idle" ~> pc[r] = "done"

\* Every evaluation that is queued reaches a result or a failure, unless a statement
\* fails or the server crashes.
SettlesWithoutFaults ==
  \A id \in Requests :
    id \in DOMAIN evaluations ~>
      faults > 0 \/ (id \in DOMAIN evaluations /\ Settled(evaluations[id]))

(* What documents of the repository say and the code does not do.          *)

\* Requirements: a queued evaluation runs and is completed or failed.  So every one
\* reaches a result or a failure.
EvaluationsSettle ==
  \A id \in Requests :
    id \in DOMAIN evaluations ~> id \in DOMAIN evaluations /\ Settled(evaluations[id])

\* README: replay uses the original snapshot, so equal inputs give equal results.  So
\* no completed evaluation carries the mark of a failed replay.
CompletedNeverMarkedMismatch ==
  \A id \in DOMAIN evaluations :
    HasResult(evaluations[id]) => evaluations[id].replay # "mismatch"
=============================================================================
