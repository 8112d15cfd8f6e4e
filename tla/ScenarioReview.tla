---------------------------- MODULE ScenarioReview ----------------------------
(***************************************************************************)
(* Editing and review of one deviation scenario: Update and Transition of  *)
(* backend/internal/service/deviation_scenario_service.go, with the        *)
(* clients that call them.                                                 *)
(*                                                                         *)
(* A client opens the scenario and sends, some time later, a request that  *)
(* carries the version it saw (the stores of the frontend send the version *)
(* of the loaded row).  The handler reads the row in one SQL statement,    *)
(* checks it, and changes it in another whose WHERE clause names the       *)
(* version of the request; nothing locks the row in between.               *)
(***************************************************************************)
EXTENDS AccessControl, Naturals

CONSTANTS
  Requests,      \* the requests, each with the client that sends it
  Users,
  RoleOf,        \* RoleOf[u] is the role in the JWT of u
  Author,        \* created_by of the scenario
  SeedReviewer,  \* the reviewer of the scenario that is seeded as verified
  Fields,        \* the columns Update may write
  Traffic,       \* the calls clients may make, a subset of Calls
  MaxFaults,     \* bound: statements that fail, and server crashes
  None           \* SQL NULL, a value as first created, and "no row"

ScenarioStates == {"draft", "analyzed", "verified", "accepted", "rework"}

\* A column is represented by the request that wrote it last.
Contents == [Fields -> Requests \cup {None}]

\* A time is represented by the request of the change it dates, and by where it is found:
\* in the table, or in the copy the handler goes on with.  The two differ: a transition
\* reads the clock once for each, and an update's time loses digits in the column.
Times == [request : Requests \cup {None}, found : {"table", "copy"}]

Dated(r, place) == [request |-> r, found |-> place]

\* model.DeviationScenario, without the columns that never change.
Rows == [state : ScenarioStates, version : Nat, content : Contents,
         reviewedBy : Users \cup {None}, updatedAt : Times]

ReviewStates == {"verified", "accepted"}

\* `found` tells whether the id in the path is that of the scenario.
UpdateCalls == [kind : {"update"}, actor : Users, found : BOOLEAN, fields : SUBSET Fields]
TransitionCalls == [kind : {"transition"}, actor : Users, found : BOOLEAN,
                    to : {"analyzed", "verified", "accepted", "rework"}]
Calls == UpdateCalls \cup TransitionCalls

AuditRows == [request : Requests, actor : Users, action : {"update", "transition"},
              before : Rows, after : Rows]

Statuses == {"pending", "ok", "forbidden", "notFound", "stateTransition",
             "reviewerConflict", "conflict", "internal", "lost"}

Statements == {"read", "write", "audit", "get"}

ASSUME ConstantsAssumption ==
  /\ MaxFaults \in Nat
  /\ RoleOf \in [Users -> Roles]
  /\ Author \in Users /\ SeedReviewer \in Users
  /\ SeedReviewer # Author /\ RoleOf[SeedReviewer] = "safety_reviewer"
  /\ Traffic \subseteq Calls
  /\ None \notin Users /\ None \notin Requests /\ None \notin Rows

VARIABLES
  scenario,  \* the row of table deviation_scenarios
  audits,    \* table audit_logs, the entries on this scenario
  pc,        \* pc[r]: "idle", "opened", the next statement of the handler, or "done"
  view,      \* view[r]: the row as the client of r opened it
  call,      \* call[r]: the call of r, None before it is sent
  local,     \* local[r]: the row as the handler read it
  answer,    \* answer[r]: the status of the response
  faults     \* how many faults have occurred

vars == <<scenario, audits, pc, view, call, local, answer, faults>>

TypeOK ==
  /\ scenario \in Rows
  /\ audits \subseteq AuditRows
  /\ pc \in [Requests -> Statements \cup {"idle", "opened", "done"}]
  /\ view \in [Requests -> Rows \cup {None}]
  /\ call \in [Requests -> Calls \cup {None}]
  /\ local \in [Requests -> Rows \cup {None}]
  /\ answer \in [Requests -> Statuses]
  /\ faults \in 0..MaxFaults

\* The rows Create and seedDomain insert.
Persisted ==
  LET Row(state, version, reviewer) ==
        [state |-> state, version |-> version, content |-> [f \in Fields |-> None],
         reviewedBy |-> reviewer, updatedAt |-> Dated(None, "table")]
  IN {Row("draft", 1, None), Row("analyzed", 2, None), Row("verified", 3, SeedReviewer)}

Init ==
  /\ scenario \in Persisted
  /\ audits = {}
  /\ pc = [r \in Requests |-> "idle"]
  /\ view = [r \in Requests |-> None]
  /\ call = [r \in Requests |-> None]
  /\ local = [r \in Requests |-> None]
  /\ answer = [r \in Requests |-> "pending"]
  /\ faults = 0

-----------------------------------------------------------------------------
Goto(r, statement) ==
  /\ pc' = [pc EXCEPT ![r] = statement]
  /\ UNCHANGED answer

Reply(r, status) ==
  /\ pc' = [pc EXCEPT ![r] = "done"]
  /\ answer' = [answer EXCEPT ![r] = status]

\* Mutant: a draft may be verified without analysis.
ScenarioTransitionsWithShortcut ==
  [s \in ScenarioStates |->
     CASE s = "draft" -> {"analyzed", "verified"} [] s = "analyzed" -> {"verified", "rework"}
       [] s = "verified" -> {"accepted", "rework"} [] s = "accepted" -> {}
       [] s = "rework" -> {"analyzed"}]

ScenarioTransitions ==
  [s \in ScenarioStates |->
     CASE s = "draft" -> {"analyzed"} [] s = "analyzed" -> {"verified", "rework"}
       [] s = "verified" -> {"accepted", "rework"} [] s = "accepted" -> {}
       [] s = "rework" -> {"analyzed"}]

CanTransitionScenario(from, to) == to \in ScenarioTransitions[from]

EditableStates == {"draft", "rework"}

\* The client: it opens the scenario, and decides on what it saw.

Open(r) ==
  /\ pc[r] = "idle"
  /\ view' = [view EXCEPT ![r] = scenario]
  /\ Goto(r, "opened")
  /\ UNCHANGED <<scenario, audits, call, local, faults>>

\* The roles the route admits.
MayCall(c) ==
  IF c.kind = "update" THEN HasPermission(RoleOf[c.actor], "scenario:write")
  ELSE RoleOf[c.actor] \in {"admin", "process_engineer", "safety_reviewer"}

Send(r) ==
  /\ pc[r] = "opened"
  /\ \E c \in Traffic :
       /\ call' = [call EXCEPT ![r] = c]
       /\ IF MayCall(c) THEN Goto(r, "read") ELSE Reply(r, "forbidden")
  /\ UNCHANGED <<scenario, audits, view, local, faults>>

\* The handler reads the row and checks the call against it.

\* Mutant: only the final acceptance counts as a review.
ReviewActionOnlyAccepts(c) == c.kind = "transition" /\ c.to = "accepted"

ReviewAction(c) == c.kind = "transition" /\ c.to \in ReviewStates

RoleMayMove(role, to) ==
  \/ to = "analyzed" /\ role \in {"admin", "process_engineer"}
  \/ to \in {"verified", "accepted", "rework"} /\ role \in {"admin", "safety_reviewer"}

\* What the checks of the handler make of call c on a row: an error, or "ok".
Verdict(c, row) ==
  IF c.kind = "update"
  THEN IF row.state \in EditableStates THEN "ok" ELSE "stateTransition"
  ELSE IF ~RoleMayMove(RoleOf[c.actor], c.to) THEN "forbidden"
  ELSE IF ~CanTransitionScenario(row.state, c.to) THEN "stateTransition"
  ELSE IF ReviewAction(c) /\ c.actor = Author THEN "reviewerConflict"
  ELSE "ok"

Read(r) ==
  /\ pc[r] = "read"
  /\ \/ /\ ~call[r].found
        /\ Reply(r, "notFound")
        /\ UNCHANGED local
     \/ /\ call[r].found
        /\ local' = [local EXCEPT ![r] = scenario]
        /\ IF Verdict(call[r], scenario) = "ok" THEN Goto(r, "write")
           ELSE Reply(r, Verdict(call[r], scenario))
  /\ UNCHANGED <<scenario, audits, view, call, faults>>

\* What the update statement makes of a row: Update writes every text column, those the
\* request leaves alone from the handler's copy; Transition writes state and reviewer;
\* both write the version and the time.
Edited(r) == [f \in Fields |-> IF f \in call[r].fields THEN r ELSE local[r].content[f]]

NextState(r, row) == IF call[r].kind = "transition" THEN call[r].to ELSE row.state

Written(r, row) ==
  [state |-> NextState(r, row),
   version |-> view[r].version + 1,
   content |-> IF call[r].kind = "update" THEN Edited(r) ELSE row.content,
   reviewedBy |-> IF ReviewAction(call[r]) THEN call[r].actor ELSE row.reviewedBy,
   updatedAt |-> Dated(r, "table")]

\* What the handler makes of the row it read.
Copied(r) == [Written(r, local[r]) EXCEPT !.updatedAt = Dated(r, "copy")]

\* Mutant: the WHERE clause does not name the version.
MatchesStateOnly(r) ==
  scenario.state \in IF call[r].kind = "update" THEN EditableStates ELSE {local[r].state}

\* Mutant: the clause expects the version after the write.
MatchesNextVersion(r) ==
  /\ scenario.version = view[r].version + 1
  /\ scenario.state \in IF call[r].kind = "update" THEN EditableStates ELSE {local[r].state}

\* The WHERE clause of UpdateWithVersion and of Transition.
Matches(r) ==
  /\ scenario.version = view[r].version
  /\ scenario.state \in IF call[r].kind = "update" THEN EditableStates ELSE {local[r].state}

Write(r) ==
  /\ pc[r] = "write"
  /\ IF Matches(r)
     THEN scenario' = Written(r, scenario) /\ Goto(r, "audit")
     ELSE Reply(r, "conflict") /\ UNCHANGED scenario
  /\ UNCHANGED <<audits, view, call, local, faults>>

\* Mutant: the handler does not set the version of its copy.
AuditEntryOldVersion(r) ==
  [request |-> r, actor |-> call[r].actor, action |-> call[r].kind,
   before |-> local[r],
   after |-> [Copied(r) EXCEPT !.version = local[r].version]]

AuditEntry(r) ==
  [request |-> r, actor |-> call[r].actor, action |-> call[r].kind,
   before |-> local[r], after |-> Copied(r)]

RecordAudit(r) ==
  /\ pc[r] = "audit"
  /\ audits' = audits \cup {AuditEntry(r)}
  /\ Goto(r, "get")
  /\ UNCHANGED <<scenario, view, call, local, faults>>

\* The response is read anew; it may show later changes.
Get(r) ==
  /\ pc[r] = "get"
  /\ Reply(r, "ok")
  /\ UNCHANGED <<scenario, audits, view, call, local, faults>>

-----------------------------------------------------------------------------
StatementFails(r) ==
  /\ pc[r] \in Statements
  /\ faults < MaxFaults
  /\ faults' = faults + 1
  /\ Reply(r, "internal")
  /\ UNCHANGED <<scenario, audits, view, call, local>>

Crash ==
  /\ \E r \in Requests : pc[r] \in Statements
  /\ faults < MaxFaults
  /\ faults' = faults + 1
  /\ pc' = [r \in Requests |-> IF pc[r] \in Statements THEN "done" ELSE pc[r]]
  /\ answer' = [r \in Requests |-> IF pc[r] \in Statements THEN "lost" ELSE answer[r]]
  /\ UNCHANGED <<scenario, audits, view, call, local>>

\* Every request was handled: the server waits.
Quiescent ==
  /\ \A r \in Requests : pc[r] = "done"
  /\ UNCHANGED vars

Step(r) ==
  \/ Open(r) \/ Send(r) \/ Read(r) \/ Write(r) \/ RecordAudit(r) \/ Get(r)
  \/ StatementFails(r)

Next == (\E r \in Requests : Step(r)) \/ Crash \/ Quiescent

Spec == Init /\ [][Next]_vars

-----------------------------------------------------------------------------
(* Safety.                                                                 *)

\* Every row of the scenario that was read from the table, and is there, on a screen,
\* in a handler or in an audit entry.
RowsRead ==
  {scenario}
    \cup {view[r] : r \in {q \in Requests : view[q] # None}}
    \cup {local[r] : r \in {q \in Requests : local[q] # None}}
    \cup {a.before : a \in audits}

\* Every row a handler computed: the after snapshots, written and about to be.
RowsComputed ==
  {Copied(r) : r \in {q \in Requests : pc[q] = "audit"}} \cup {a.after : a \in audits}

SameButForTime(x, y) ==
  /\ x.state = y.state /\ x.content = y.content /\ x.reviewedBy = y.reviewedBy
  /\ x.updatedAt.request = y.updatedAt.request

\* A version number names one row for good: whoever read a row with some version, for a
\* screen, in a handler or for the audit log, read the same row; and the after snapshots,
\* which the handlers compute from a copy, show that row in everything but the time of
\* its change, which they date by another reading (UpdateWithVersion, Transition).
VersionNamesOneRow ==
  /\ \A x, y \in RowsRead : x.version = y.version => x = y
  /\ \A x \in RowsComputed, y \in RowsRead \cup RowsComputed :
       x.version = y.version => SameButForTime(x, y)

\* A scenario that is verified or accepted was reviewed by a reviewer or an
\* administrator other than its author, although reviewed_by is never cleared when
\* the scenario is sent back and edited (Transition).
ReviewersAreIndependent ==
  /\ scenario.state \in ReviewStates => scenario.reviewedBy # None
  /\ scenario.reviewedBy # None =>
       /\ scenario.reviewedBy # Author
       /\ RoleOf[scenario.reviewedBy] \in {"admin", "safety_reviewer"}

\* A client is told of a concurrent change only when there was one.
ConflictMeansChange ==
  \A r \in Requests : answer[r] = "conflict" => scenario.version > view[r].version

\* A request changes the scenario only while it is the very row the client decided
\* on, also when the scenario went through other states and back to the same one
\* (the version condition of UpdateWithVersion and Transition).
DecidesOnWhatItSaw ==
  [][\A r \in Requests :
       pc[r] = "write" /\ pc'[r] = "audit" => scenario = view[r]]_vars

\* The handlers, which read and write in two statements, implement atomic edits and
\* moves: no edit is lost and no state is skipped.
Lifecycle == INSTANCE ScenarioLifecycle WITH
  row <- scenario, Writers <- Requests,
  Reviewers <- {u \in Users : RoleOf[u] \in {"admin", "safety_reviewer"}}

ImplementsScenarioLifecycle == Lifecycle!Spec
=============================================================================
