# Verification of the deviation coverage system

The repository is a system for the deviations of a chemical process: engineers
register process nodes, describe deviation scenarios of them, register the
safeguards against a scenario, and run *coverage evaluations* that compute how
far the safeguards cover the paths from causes to consequences. Reviewers accept
scenarios and confirm evaluations, auditors read what was done. A Go server
(gin, gorm) keeps everything in a relational database; a Vue frontend calls it.

This directory models the parts that decide something, checks them with TLC and
proves what matters most with TLAPS. Paths below are relative to the sources of
the repository; `service/`, `repository/` ... stand for `backend/internal/...`.

## 1. Inventory

### 1.1 Components

| Component | State | Operations | Modelled by |
| --- | --- | --- | --- |
| Coverage evaluation service (`service/coverage_evaluation_service.go`) | `coverage_evaluations`, `audit_logs` | Run, Confirm, Void, Replay; List, Get, Latest read | `CoverageEvaluation` |
| Roles and permissions (`constants/roles.go`, `middleware/rbac.go`) | none | the check before a handler | `AccessControl` |
| Deviation scenario service (`service/deviation_scenario_service.go`) | `deviation_scenarios`, `audit_logs`; the version shown by each client | Update, Transition; Create; List, Get read | `ScenarioReview`; their answers and audit entries in `ScenarioTimeline`; Create in `NodeRegister` |
| Safeguard service (`service/safeguard_service.go`) | `safeguards`, `audit_logs`, the clock | Create, Update, Verify, Invalidate, Restore; List, Get read | `SafeguardRegister`; with a run that reads the table in `EvaluationInputs` |
| Process node service (`service/process_node_service.go`) | `process_nodes`, `audit_logs` | Create, Update, Deactivate; List, Summary read | `NodeRegister` |
| Coverage algorithm (`algorithm/`) | none | snapshot, graph, independence, scoring, residual risk | `CoverageScoring` |
| Rate limiter (`middleware/auth.go`) | a window per key, in memory | the check of a request | `RateLimiter` |
| Run hook (`frontend/src/hooks/useCoverageRun.ts`) | generation, timer, two flags, pending answers | launch, stop, and the end of the page | no: see 7 |
| Login and tokens (`middleware/auth.go`) | `users`; the tokens clients hold | login, verification of a token | `ApiGate` |
| HTTP audit and the audit list (`middleware/audit.go`, `repository/`) | `audit_logs` | append after an answer; List | a page of the log, in `ScenarioTimeline` |
| Lists, summaries, timelines (`Get`, `List` of the services) | none | pages of tables and of the log | the timeline of a scenario, in `ScenarioTimeline` |
| Set-up, start and shutdown (`database/`, `cmd/server`) | tables, seed | migrate, seed, serve, drain | initial states; `Crash` |
| Stores, session, pages (`frontend/src`) | cached lists, a session | load, submit | the version a client sends, in `ScenarioReview` |

`PROJECT.json` lists all of them, with the reason for each one that is left out
or modelled in part.

### 1.2 How they interact

* Every HTTP request is a goroutine. Before its handler come the middlewares:
  request id, recovery, token, permission, for `/run` and `/login` the rate
  limiter. After it comes the HTTP audit entry.
* A handler calls repositories. **Every repository call is an SQL statement
  committed on its own**; only the seed uses a transaction. Between two
  statements of a handler any statement of any other handler may take effect.
  What protects the tables are unique indexes (`idempotency_key`, `node_code`),
  conditional updates (`WHERE id = ? AND state IN ?`, looked at through
  `RowsAffected`) and, for scenarios only, a version column.
* The services write audit entries of their own, as the last or last but one
  statement, with rows they read earlier in the handler.
* The services share tables: Run reads nodes, scenarios and safeguards which
  the other three services edit; creating a scenario depends on the status of
  its node. No service calls another one.
* The statements use the context of the request: a client that disconnects
  makes the next statement fail, as a database error does. A shutdown drains
  requests for some seconds and then drops them.
* Clients retry by sending a new request; for Run with the same
  `Idempotency-Key`.

### 1.3 Behaviours that are hard

1. Two statements where the meaning needs one: check then insert, read then
   write back, update then audit.
2. Values read early and stored late: the copy of a row, the audit snapshots,
   the expiry date of a safeguard, the note to append to.
3. Retries and concurrent runs under one key, and a run that is cut short.
4. State machines whose allowed moves are repeated as literals in each handler,
   next to a table that not every handler consults.
5. Separation of duties that has to survive rework and re-editing.
6. A page of a log whose entries are inserted in another order than their times,
   and compete with those of other scenarios.
7. A decision by date about rows whose state column is not kept up to date.
8. A score that must not depend on the order of rows, must count a key once, and
   is compared with thresholds it may exactly hit.
9. A window that ends while requests are on their way, and a role in a token
   that outlives the role of the account.

### 1.4 What correctness means

* *Evaluations*: a key names one evaluation for good; a result is the score of
  the snapshot stored with it and never changes; a confirmer is entitled and not
  the author; the life of an evaluation follows the table of transitions; each
  request ends, each success is audited.
* *Scenarios*: nobody changes a row he has not seen; a version names one row;
  reviewed scenarios have an independent reviewer.
* *Safeguards*: what counts as effective has evidence, and only a verification
  replaces it; an invalidated safeguard returns only on purpose.
* *Timelines*: an answer is as new as its request and what was answered before
  it; a timeline is in the order of what was answered, and complete up to a page.
* *Runs and safeguards*: what a run counts was in force while it ran; an
  invalidation that was answered is seen; reasons are not lost without a writer
  that did not know of them or replaced them.
* *Nodes*: a code names one node; a deactivation happens once and is respected.
* *Algorithm*: equal to its definition but for rounding, independent of order,
  monotone.
* *Gate*: who gets in was entitled less than the life of a token, and what a login
  and a request may wait, ago; what counts against a user are his own calls on the
  same route.
* *Limiter*: in a minute nobody passes twice the limit, nobody is shut out
  longer than a window, forgetting old windows makes no difference.

`PROJECT.json` lists the hazards under "hazards", each at its line and with the
properties that would catch it going wrong.

## 2. Plan

Order, most important behaviour first. Every service module takes its users,
rows and bounds as CONSTANTS with a named assumption, has one action for each
SQL statement, and an abstract specification that it implements.

| Step | Modules | Abstract specification | Proofs | State |
| --- | --- | --- | --- | --- |
| 1 | `AccessControl`, `CoverageEvaluation` | `EvaluationLifecycle` | `CoverageEvaluationProofs` | done |
| 2 | `ScenarioReview` | `ScenarioLifecycle` | `ScenarioReviewProofs` | done |
| 3 | `SafeguardRegister` | `SafeguardLifecycle` | `SafeguardRegisterProofs` | done |
| 4 | `NodeRegister` | `NodeLifecycle` | `NodeRegisterProofs` | done |
| 5 | `CoverageScoring` | reference definitions in the module | `CoverageScoringProofs` | done |
| 6 | `RateLimiter` | none | in `ApiGateProofs` | done |
| 7 | `ScenarioTimeline`, over `ScenarioReview`: the audit log, its page and the answers | refines `ScenarioReview` | `ScenarioTimelineProofs` | done |
| 8 | `EvaluationInputs`, over `SafeguardRegister`: a run that reads the table, and what clients may rely on | refines `SafeguardRegister` | `EvaluationInputsProofs` | done |
| 9 | `ApiGate`, over `RateLimiter`: login, token, permission, limiter | refines `RateLimiter` | `ApiGateProofs` | done |
| 10 | every safety and action property of steps 1 to 9 proved | | all of the above | done |

Modules with a state machine contain no RECURSIVE operator, so that all of them
can be proved about. `MC...` modules hold the users, calls and model values of
the small instances and nothing else.

## 3. Modules and code

### 3.1 How the four service modules correspond to the code

* **A step is an SQL statement.** `pc[r]` names the statement request `r`
  executes next; the Go code between two statements touches only locals and is
  part of the step before or after. `Receive` is routing and the permission
  check, `Reply` the answer (`util.Fail` or the payload), after which the request
  is "done".
* **A table is a function or a record, a row is named by the request that
  inserted it**, which stands for the autoincremented id. Columns that no check
  reads and that are written like another one are left out.
* **Conditional updates** are a test of the row in the same step as its change;
  a test that fails is `RowsAffected = 0`. Unconditional updates have no test,
  and write what the code writes: `SafeguardRegister` and `NodeRegister` write
  back the columns of the copy the handler read.
* **Locals that survive a statement are variables**: the row read first
  (`seen`), the row worked on (`copy`, `local`), the row reloaded (`after`), the
  inputs read so far (`draft`). So a value that is stale in the code is stale in
  the model.
* **Faults.** `StatementFails` ends a request with "internal" before its
  statement takes effect: a database error, or the context of a client that
  disconnected. A statement that took effect while its reply was lost leaves what
  a failure of the next one leaves. `Crash` ends all requests under way, for a
  crash and for a shutdown that runs into its timeout. Tables survive. There is
  nothing to recover in the code, so nothing happens at a restart.
* A request is handled once; a client that retries sends another request.
* **Not in the models**: answers 400 of binding rules, which precede every
  statement; ids, and timestamps that neither a decision nor a comparison uses; the
  texts of entries.

### 3.2 Module by module

**`AccessControl`** is the table of `constants/roles.go` and `HasPermission`,
with the wildcard of the administrator.

**`CoverageEvaluation`**. `evaluations`, `audits` are the tables. The rows an
evaluation is computed from (scenario, node, safeguards) are three counters of
edits, `edition`; `Score` maps each combination to the score, so that a result
that mixes editions or is stored with the wrong snapshot is visible. Run is
`FindByKey`, `GetScenario`, `GetNode`, `ListSafeguards`, `Create` (the unique
index refuses) or `FindAgain`, `StartRun`, `CompleteRun` or `FailRun`, `Reload`,
`RecordAudit`. Confirm is `GetEvaluation`, `GetAuthor`, `Confirm`, `Reload`,
`RecordAudit`; Void leaves the author out; Replay is `GetEvaluation`,
`StoreReplay`, `RecordAudit`, `AnswerReplay`. `Unevaluable` are inputs for which
`Evaluate` returns an error: the contract of the evaluator, whose error branch
Run has to handle; the present evaluator returns one only for a snapshot that
cannot be encoded. `EvaluationLifecycle` says what it promises: for each key at
most one evaluation, which is queued, runs, is completed with the score of its
snapshot or fails, is confirmed by an entitled user who is not the author, and
is voided. The mapping is `Ledger`.

**`ScenarioReview`** follows one scenario through Update and Transition.
`view[r]` is the row the client of `r` has on its screen; its version is sent
with the request. Clients are taken to send the version of the row they decided
on; where the scenario store of the frontend may not, a hazard says so. The model
starts in a draft or in the seeded verified scenario. Columns hold the request
that wrote them last. Separation of duties is about `created_by`, as in the code:
an administrator who edited a scenario of somebody else may review it.
`ScenarioLifecycle` has one atomic Edit and one atomic Move; the versions of the
scenario are the steps. `updatedAt` is the request that wrote it and where the time
is found, since table and copy differ: Transition stores the `time.Now()` of the
repository, and puts another one, that of the service, into the after-snapshot of
its entry; a time set by Update has fewer digits in the column than in the copy. So
`VersionNamesOneRow` compares all rows and snapshots of a version whole, but for
this: in an after-snapshot only the request behind `updatedAt` has to agree.

**`SafeguardRegister`** follows one safeguard from its registration or its
seeded row. The clock counts ticks of any length and is read in the step of the
statement before its use, so that time may pass until the statement that uses it.
`Tolerance` are the five minutes by which a verification may be dated in the
future. `PreviewRestore` is the first read of Restore, which chooses the state to
restore, and `Read` the second, or the only one of the other handlers; `Edit`
writes back the editable columns of the copy; `Synchronize` is the second
statement of Update, which moves the lifecycle and does not look at
`RowsAffected`; `SetLifecycle` is the conditional update of Verify, Invalidate
and Restore. `evidence_note` is the set of requests whose text it holds.
`SafeguardLifecycle` has the moves any step may make.

**`ScenarioTimeline`** extends `ScenarioReview` by the audit log and the answers.
Recording an entry is two steps, since `recordAudit` reads the clock before the
insert: `ReadClock`, `InsertEntry`. Get is `ReadRow`, which reads the scenario,
and `AnswerWithTimeline`, which reads a page of the log and turns its
transitions around; when the list fails the answer has no timeline.
`InsertForeign` is an entry on another scenario, which competes for the page.
No two handlers read the same time: `created_at` is finer than the time between
two of them, and ties would be broken by id. Entries older than the model come
after all others on every page and are left out, and so are the entries the HTTP
middleware adds, which have another entity type and never reach this page.
`precede[r]`, a history variable, are the requests that were answered before `r`
was sent: what its client may expect to see.

**`EvaluationInputs`** extends `SafeguardRegister` by the part of Run that reads
safeguards: `ListSafeguards` copies the row, `FreezeSnapshot` reads the reference
time and decides with `Eligible` whether the safeguard counts. What the evaluation
does with it is in `CoverageEvaluation` and `CoverageScoring`. The snapshot holds
the reference time and the verification in whole seconds (`Truncated`; a second is
`Second` ticks), so that a run counts a safeguard for up to a second after
`IsEffectiveAt` has begun to deny it; what is "in force" in the property has that
second. `wasInForce`, `precede` and `precedeRun` are history variables: whether the
safeguard was effective at some moment of the run, and who had been answered before
whom.

**`NodeRegister`** has Create, Update, Deactivate and the Create of a scenario,
which reads the status of the node. `precede[r]`, a history variable, are the
requests that were answered before `r` arrived. In `NodeLifecycle` codes are
unique, a node never disappears or changes its code, and scenarios belong to nodes
that exist; it says nothing of the status, since Update may write any. What the
status is worth is in two properties of `NodeRegister`: `DeactivatedOnce` and
`DeactivationHolds` name, for each second deactivation and each scenario added to
a deactivated node, the update that left the node active in between
(`ActivatedBetween`).

**`CoverageScoring`** is the algorithm: `NewSnapshot` sorts, `Paths` splits the
texts of causes and consequences, `ResolveIndependence` groups by key, keeps the
best and reports the others, `Combined`, `Covered`, `Residual` score. A sort is an
arrangement of places that goes by the order and, where that decides nothing, by
place (`Sorted`); what an unstable sort does with ties does not matter, since the
orders of the code break ties by id (`OrderIrrelevant` relies on it). The loop of
`CalculateScore` is a recursive function, `RemainingProbability`.
`Unspecified` is a statement, and no date is not a date: `ConstantsAssumption` says
so. An effectiveness is the decimal that was entered, a number of parts of `Scale`;
what is computed from it are floating point numbers. `Floats` is the set of those
from 0 to 26 (25 is the highest risk), as multiples of 1/`One`, and every operation
of the code, the conversion of the decimal included, is followed by `Nearest`, to
the nearest number and to the even one of two. So 0.7 on a risk of 20 leaves 7, as
in the code, where exact fractions leave 6. With `One` = 2^1074, the multiples of
which `float64` is made, and `Gap` = `One`/2^53, the widest gap below one,
`float64` meets `FloatsAssumption`, and the theorems are about it. Texts are
sequences of statements that are equal up to case or not. The handlers store keys
trimmed and in upper case, so the normalisation in `ResolveIndependence` finds them
so. Its variables are what is evaluated; its actions how the other services change
it.

**`RateLimiter`**. `limit` is the configured one, any of `Limits`. A request reads
the clock (`Arrive`) and later has the mutex (`Check`), where it opens or counts a
window, removes old windows if there are too many, and is let in or turned away.
Requests may overtake each other in between. `at` is a history variable.

**`ApiGate`** extends `RateLimiter` by what comes before it on the routes of runs
and replays. A login is two steps: `ReadAccount` reads the account, and `Login`,
after the comparison of the password, reads the clock and issues a token with the
role that was read, and an expiry truncated to whole seconds. A request is three:
`Authenticate` finds that its token has not expired and its role has the
permission, `ReachLimiter` reads the clock again and arrives at the limiter under
the key of route and user, `PassLimiter` is the critical section. Each may wait up
to `MaxDelay` for the next. `ChangeAccount` gives an account another role or closes
it, as an administrator does in the database, since no handler does. A login that
fails and a call that is refused before the limiter change nothing and are left
out. Logins have a limiter of their own: that is `RateLimiter` with addresses as
keys. `sent` says who sent a request where, `admitted` when its token was valid,
and `lastEntitled`, a history variable, when a user could last run evaluations.

## 4. What the runs check

Every run that is expected to pass checks deadlock as well; a system that has
handled all requests takes the step `Quiescent`.

| Run | Question | What it shows |
| --- | --- | --- |
| `evaluations` | Do keys, results, confirmations and audit entries of `CoverageEvaluation` survive every interleaving of three requests, an edit of each input and a fault? | Yes: seven invariants, and `HistoryFrozen`, that no step rewrites history. |
| `lifecycle` | Does the service implement `EvaluationLifecycle`, and do requests end? | Yes, with two keys and two scenarios, one of which cannot be evaluated; without faults every evaluation settles. |
| `scenario_review` | Is a version one row for everybody who holds it, is review independent, and do answers and timelines show what happened, from each first row? | Yes; the two-statement handlers implement atomic edits and moves. An answer is never older than what its client knows; a timeline misses a transition only when a page of newer entries was recorded, be it on other scenarios. |
| `safeguard_lifecycle` | Does evidence stand behind every active safeguard, who may bring one back, and what does a run count meanwhile? | Evidence always; only Verify and Restore bring back what was invalidated; a run counts only what was in force while it ran, but for the last second, whatever the state column says, and sees every invalidation that was answered; a reason is lost only to a later or a simultaneous writer. |
| `node_register` | Are codes unique, and do deactivations count? | Yes: of the deactivations of an active node one succeeds, and what is asked for after it is refused, unless an update leaves the node active in between (see `reactivation`). |
| `coverage_scoring` | Does the algorithm compute what it is meant to? | But for the rounding of floating point numbers it equals a reference by counting days; residual risk and covered paths differ from it only within that rounding, and one half is always enough. It counts each safeguard once, does not depend on order, and is monotone in spite of rounding. |
| `rate_limiter` | Who gets to the limiter, how many requests pass, and who is turned away? | Whoever gets in had an entitled account less than the life of a token, and twice the longest wait, ago, though his role is not looked at again; only his own calls on the same route count against him. Less than twice the limit passes within a minute, less the time a request waits (fixed windows), `Retry-After` is right up to its rounding to 0 at the end of a window, and forgetting old windows changes no decision. |

The runs of the extended modules check the properties of the modules they extend,
too: they are those of the handlers with more of their surroundings.

Five runs show disagreements with the documents of the repository. Each checks
one property, and TLC finds it violated.

| Run | Document | What happens |
| --- | --- | --- |
| `stuck` | an evaluation that is queued completes or fails | A crash or a failed statement between insert and result leaves it queued or running for good: a later run with its key is answered that row, and no handler resumes it. |
| `replay_race` | equal inputs replay to equal results | A replay that reads an evaluation before it has its result stores "mismatch" into it after it was completed. |
| `restore_pending` | restore brings back the effective state | Restore asks whether the invalidated row is effective, which an invalidated row never is; a safeguard whose verification still holds is left pending. |
| `stale_expiry` | a verification holds for the interval | An update that read the row before a verification marks the verified safeguard expired. |
| `reactivation` | transitions are conditional updates | An update that does not mention the status writes back the one it read, and undoes a deactivation. |

"findings" in `PROJECT.json` quotes the lines.

### 4.1 Bounds, and why they are enough

* *Three requests* in each service (`MaxActive = 3` counts requests and the run
  together): two that race and a third that sees or
  disturbs the result. Each hazard of the list involves at most three: for
  example a run, a run with its key and a replay; two edits and a review; a read,
  a verification and a second update. The proofs hold for any number.
* *One or two keys, one or two scenarios*: rows under different keys meet only in
  the lookups by key. `evaluations` has one key, so that every request contends for
  it, and every edit of inputs; `lifecycle` has two.
* `MaxEdits = 1`: the snapshot of a run is of the edition before, after, or part
  before and part after. `MaxFaults = 1`: one handler cut short at each of its
  statements, or all at once.
* Dates: `safeguard_lifecycle` has ticks of half a second (`Second = 2`), intervals
  of one and two seconds and `MaxTime = 4`: a verification and a reference time that
  are both cut, and every moment before, at, less than a second after, and after
  expiry; `Tolerance = 1` allows a date in the future. Longer intervals only put more
  ticks before expiry. `restore_pending` and `stale_expiry` have intervals of 1 and 2
  ticks in `MaxTime = 2`.
* Scoring: up to three safeguards of six kinds (equal and different keys, no
  key, no verification, a half, full effectiveness with a short interval), so that a
  key has up to three candidates and a half is met exactly. Effectiveness is in
  tenths and floating point numbers have 9 bits (`One = 2048`, `Gap = 4`): few enough
  for TLC to have them as a set, and enough for what rounding can do: 0.7 leaves 7 of
  20, and a combined effectiveness comes out above and below the exact one.
* `PageSize = 2` with up to four entries: a page that holds all events, and one
  that drops an event of the same or an older request. `MaxDisturbances = 1`: a
  fault or an entry on another scenario.
* Gate and limiter: four requests on the tokens of two logins span `MaxTime = 7`
  ticks, two windows of `Minute = 3` and the time after which they are removed. With
  a limit of 1 three requests of a key fill two windows and exceed one; with a limit
  of 2 four requests, or three, are split between two windows that meet in a minute,
  so that three pass in it. One user on two routes has two keys, and `Capacity = 1`
  so reaches the removal: a window is over, more than six ticks old, and removed
  when the other route is used. A caller who was turned away waits as told, comes
  back on a token that is still valid or on that of the second login, and is turned
  away again because others came first. A minute of three ticks with seconds of two
  makes `Retry-After` and the expiry of the token round; `MaxDelay = 1` lets requests
  overtake, and time pass in a login and between token and limiter, so that a request
  is sent on with `stamp` at the very end of the bound. One change of the account
  (`MaxChanges = 1`) closes or opens it at any of these moments, on which entitlement
  alone depends: the run has one role, the proofs any. `MaxActive = 2` logins and
  requests under way at a time: one that overtakes and one that is overtaken. A
  second user would have keys and tokens of his own; the theorems are about any
  number.
* Symmetry of requests is used where no constant singles one out, and only in
  runs without liveness.

### 4.2 Fairness

Only `lifecycle` and `stuck` need it. `Fairness` is weak fairness of `Handle(r)`
for each request: a goroutine that has a statement to execute executes it, or is
cut short. The Go scheduler and the database serve every goroutine, no handler
waits for another one, and statements hold no locks between them. Clients are not
forced to call, inputs not to be edited, faults not to happen.

## 5. What is proved

TLAPS proves the following for any number of requests, users, keys, rows and
faults. The assumptions are those named in each module, most of them
`ConstantsAssumption`: types of the constants, that NULL is no row, user or request,
that a minute is longer than a request waits, that intervals are whole seconds
(`SecondAssumption`). About floating point numbers they say that one half and the
whole numbers up to 26 are among them and how far apart two neighbours may be
(`FloatsAssumption`), and that two effectivenesses that differ do so after rounding
(`EffectivenessAssumption`, as those of up to fifteen decimals do). TLC evaluates all
of them in the runs.

| Module | Theorems | Inductive invariant |
| --- | --- | --- |
| `CoverageEvaluationProofs` | `KeyNamesOneEvaluation`, `ResultFollowsSnapshot`, `IndependentConfirmation`, `HistoryFrozen`, `DecidedOnce`, `SuccessIsAudited`, `AuditedChangesHappened`, `ReplayOfResultPasses`, refinement of `EvaluationLifecycle` | `IInv`: types; `Loaded`, what a request holds in its locals at each statement; `AllKept`, that a row belongs to the run that inserted it, that the snapshot a handler works on is the one in the table, and that a request about to confirm has passed the checks; and the three state properties. On top of it `Effects`: what a request has left in the table and the log once it is at each statement, that entries of the log stand, and that of two decisions on a row one was made |
| `ScenarioReviewProofs` | `VersionNamesOneRow`, `ReviewersAreIndependent`, `ConflictMeansChange`, `DecidesOnWhatItSaw`, refinement of `ScenarioLifecycle` | types; `Ready`, what a handler has checked when it comes to its statement; `Coherent`, that every row anybody holds is the row of its version (`VersionNamesOneRow`) and no newer than the table; and the two other state properties |
| `SafeguardRegisterProofs` | `ActiveHasEvidence`, `LifecycleIsGuarded`, refinement of `SafeguardLifecycle` | types; `Ready`, what a handler has checked, with the fact that whoever is to restore "active" has seen evidence, which lasts; `OneCreator`, that one request registers; `ActiveHasEvidence` |
| `NodeRegisterProofs` | `CodeNamesOneNode`, `DeactivatedOnce`, `DeactivationHolds`, refinement of `NodeLifecycle` | types; `Ready`; `UniqueCodes`; `Once`, that a deactivation that took effect holds until an activation sent since, which is between any two; `HeldAt`, that a scenario asked for after it gets as far as its insert only after one |
| `CoverageScoringProofs` | `ScoreMatchesReference`, `EachCountedOnce`, `OrderIrrelevant`, `PathsArePairs`, `RoundingIsBounded`, `CoverageIsMonotone` | types; `Registry`, that ids are places in the order of registration, so that no two safeguards have one, and that what is active was verified, and not later than now. All else follows from lemmas about sorting, rounding, products and counting |
| `ScenarioTimelineProofs` | refinement of `ScenarioReview`; `AnswerIsCurrent`, `TimelineFollowsHistory`, `TimelineIsComplete` | types; `Handlers`, that a request that changed the scenario left a later version, and that whoever was answered before another was sent has an earlier time; `Entries`, that a request has one entry, with the time it read; `Answers`, that timelines name requests with entries; the two properties of timelines |
| `EvaluationInputsProofs` | refinement of `SafeguardRegister`; `CountedWasInForce`, `InvalidationIsSeen`, `ReasonsAreKept` | types; `Steady`, what a request knows at each statement; `Reasons`, that a reason is in the table and in every row about to be written back, or somebody is to blame; `Invalidations`, that an invalidated row that is not invalid was brought back; `SeenInForce`, that what the run saw in force was so |
| `ApiGateProofs`, about `RateLimiter` | `LimitedOnlyWhenFull`, `PruningIsHarmless`, `AtMostTwoWindows`, `RetryAfterIsHonest` | types; `WindowAt(k)`, that the window of a key stands for as many requests let in since its start as it counts, up to the limit; `RequestAt(r)`, the order of clock, arrival and mutex; the first property. On top of it `Past`: that some assignment of the requests to windows that begin a minute apart explains every decision so far |
| `ApiGateProofs`, about `ApiGate` | refinement of `RateLimiter`; `PruningIsHarmless`, `LimitedOnlyWhenFull`, `AtMostTwoWindows` and `RetryAfterIsHonest` behind the gate; `EntitledNotLongAgo`, `OnlyOwnCallsCount` | types; `Noted`, that the history is up to date; `Timely`, that a token expires within its life, and the wait of a login, after its user was entitled; `Cleared`, that the token of a request on its way to the limiter was valid not long ago; `Keyed`, that a key is that of route and user; the first property |

The type invariants of the state machines (`TypeOK`, `TimelineTypeOK`,
`InputsTypeOK`, `GateTypeOK`) are proved for all values of the constants, and so no run
checks them again.

The three extended modules refine the module they extend: a step of theirs is a
step of it or leaves its variables alone. The theorems about the base module
therefore hold there, and its inductive invariant is available, before and after a
step, in the proof of theirs.

*Why the strengthenings.* None of the properties is inductive. That a confirmer
is not the author is decided in one statement and stored in another: the
invariant must carry the decision in the locals of the request, and that
`created_by` and `scenario_id` cannot change meanwhile. That a result belongs to
its snapshot needs that the snapshot Run evaluates is the one in the row, which
it inserted two statements earlier. That evidence stands behind a restored safeguard,
though it is read in one statement and made active in another, needs that no
other handler takes evidence away. That a timeline follows history relates times
that were read in handlers which no longer exist: the invariant keeps them with
the requests. That a reason is not lost silently is a fact about the notes in the
locals of handlers that have not written yet. That a limited request was limited by others
needs the set of requests a counter stands for.

That no minute sees twice the limit is about windows that were replaced or
removed, of which the state keeps nothing: the invariant says that there is an
assignment of the counted requests to windows that explains the state, `Past`. A
check extends the assignment by one request, in the last window or in a new one that
begins a minute later, and a removed window is over for every request that may still
come. Three windows of one key then cannot all reach into the minute, and if two do,
the request that opened the first came before it; and a caller that has waited as
told falls into a later window than the one that turned him away.

The order of a page is a fact about finite sets: the number of older entries tells
the entries of a page apart and takes each value once (`Ranks`), by an injection
between sets of one size. So the places of a timeline and the events of its page
correspond.

The theorems about the algorithm say what a product, a sort and a grouping are for
inputs of any length. Induction over a length is an argument from the least number
at which a fact fails (`LeastNumber`), since the order of the naturals is
well-founded. An enumeration is a sequence that has each element of a set once, in
a given strict order; there is one for every finite set (`EnumerationExists`) and
only one (`EnumerationIsUnique`). `Sorted` is one (`SortedEnumerates`), and where
the order tells all elements apart, it depends on the set only (`SortedByValue`):
that is `OrderIrrelevant`, and with the group of a key as enumerated set,
`EachCountedOnce`.

For `ScoreMatchesReference` the days of the reference are counted key by key: a
further key multiplies all of them by `Scale`, and those without protection by what
the best safeguard of the key leaves (`ScoreCounts`). That is the exact product; the
one the code computes differs from it by rounding. A nearest number is at most half
the gap between its neighbours away (`NearestIsWithin`), and each retained safeguard
takes three operations: its decimal is converted, taken from one, and multiplied to
what the others leave. As all factors are at most one, an error that was made before
does not grow, and by induction over the list the product is off by at most half a
`Gap` for each operation (`ErrorAfterOneMore`, `RemainingIsNear`); one more operation
takes it from one (`CombinedIsNear`). `RoundingIsBounded` follows from that and from
the operation on the risk (`ResidualIsNear`); that one half always covers
(`OneHalfCovers`) follows from one half being a floating point number, so that
rounding cannot take the smaller product across it.

`CoverageIsMonotone` holds in spite of rounding since rounding keeps order
(`NearestGrows`): a list that holds, at ascending places, safeguards at least as
effective as those of another leaves no more (`LongerListLeavesLess`). Rounded
multiplication is not associative, and so it matters that the code multiplies in the
order of the keys both before and after.

*How the proofs are laid out.* A lemma on the constants and rows, lemmas on
`Goto`, `Reply` and on requests that a step does not touch, then for each action
a lemma that it preserves the invariant, with a step for each conjunct; the
theorem puts them together in one temporal step. An action property follows from
the invariant before the step, a refinement from an initial step and a case for
each action.

*Only model-checked.* Liveness under fairness (`RequestsEnd`,
`SettlesWithoutFaults`) is out of the reach of the prover, as is ENABLED. Every
other property of the passing runs has its theorem.

## 6. Mutants

For each property of each passing run there is a definition next to the one it
would replace, commented `Mutant:`, which makes a mistake someone could make in
that code: a dropped condition, an ignored `RowsAffected`, a missing index, a
comparison with the wrong person. With it TLC finds the property violated. The
mutants are used nowhere else.

## 7. What is not modelled

* *Cryptography*: a password is right or wrong and a token is one that was
  issued; hashing and signatures are those of libraries. That comparing a password
  takes time is in `ApiGate`.
* *Figures for display*: the algorithm rounds scores to four decimals for its
  explanations, and adds up contributions there; neither decides anything.
* *Fused operations*: rounding is taken to happen after each operation, as it does on
  amd64. Go lets a compiler for another processor fuse the product of the loop with
  the subtraction after it, which rounds once.
* *HTTP audit middleware*: a second entry after the answer, whose own failures are
  dropped and which nothing reads but the audit list.
* *Lists and summaries*: reading handlers with one or two statements, filters and
  pages; they change nothing, and promise nothing about rows read at two times.
* *Run hook*: `useCoverageRun.ts` watches an evaluation until it has a result.
  Every launch uses a fresh key, for which the server answers an evaluation that
  has its result, so that the loop is never entered, and what is left has one
  state.
* *Session, stores and pages*: tokens and roles in the storage of the browser only
  hide pages, the server decides again. Only the version a client sends matters to the
  server, and is in `ScenarioReview`.
* *Migration, seed, configuration, wiring*: run before the server listens; the
  seeded rows are initial states.
