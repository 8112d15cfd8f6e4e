--------------------------- MODULE SafeguardRegister ---------------------------
(***************************************************************************)
(* The handlers Create, Update, Verify, Invalidate and Restore of          *)
(* backend/internal/service/safeguard_service.go on one safeguard, which   *)
(* is followed from its registration (or from the row the server is        *)
(* seeded with).                                                           *)
(*                                                                         *)
(* As in the other services each repository call is an SQL statement of    *)
(* its own.  There is no version column: Update writes back a copy read    *)
(* earlier, and moves the lifecycle in a second statement.  The clock is   *)
(* read in the step of the statement before it.  It counts ticks, of any   *)
(* length; intervals and the tolerance for dates in the future are numbers *)
(* of ticks.                                                               *)
(***************************************************************************)
EXTENDS AccessControl, Naturals

CONSTANTS
  Requests,
  Users,
  RoleOf,       \* RoleOf[u] is the role in the JWT of u
  SeedReviewer, \* the user that verified the seeded safeguard
  Intervals,    \* values of test_interval_days
  Tolerance,    \* how far in the future a verification may be dated (5 minutes)
  Traffic,      \* the calls clients may make, a subset of Calls
  MaxTime,      \* bound: the last tick
  MaxFaults,    \* bound: statements that fail, and server crashes
  None          \* SQL NULL, an absent field, and "no row"

Times == 0..MaxTime
LifecycleStates == {"pending", "active", "expired", "invalid"}

\* evidence_note is the set of requests whose text it holds.
Notes == SUBSET Requests

\* model.Safeguard.  The columns that Update writes like test_interval_days, and that
\* no check reads, are left out.
Rows == [state : LifecycleStates, interval : Intervals, verifiedAt : Times \cup {None},
         verifiedBy : Users \cup {None}, note : Notes]

CreateCalls == [kind : {"create"}, actor : Users, scenarioExists : BOOLEAN,
                interval : Intervals, verifiedAt : Times \cup {None}]
UpdateCalls == [kind : {"update"}, actor : Users, interval : Intervals \cup {None},
                note : BOOLEAN]
VerifyCalls == [kind : {"verify"}, actor : Users, verifiedAt : Times]
ActionCalls == [kind : {"invalidate", "restore"}, actor : Users]
Calls == CreateCalls \cup UpdateCalls \cup VerifyCalls \cup ActionCalls

AuditRows == [request : Requests, action : {"create", "update", "verify", "invalidate",
                "restore"}, before : Rows \cup {None}, after : Rows]

Statuses == {"pending", "ok", "forbidden", "notFound", "unprocessable",
             "stateTransition", "internal", "lost"}

Statements == {"getScenario", "insert", "preview", "read", "edit", "expire", "set",
               "reload", "audit", "get"}

ASSUME ConstantsAssumption ==
  /\ MaxTime \in Nat /\ MaxFaults \in Nat /\ Tolerance \in Nat
  /\ Intervals \subseteq Nat \ {0}
  /\ RoleOf \in [Users -> Roles]
  /\ SeedReviewer \in Users
  /\ Traffic \subseteq Calls
  /\ None \notin Users /\ None \notin Requests /\ None \notin Intervals
  /\ None \notin Times /\ None \notin Rows /\ None \notin Calls

VARIABLES
  safeguard,  \* the row of table safeguards, None before it is registered
  audits,     \* table audit_logs, the entries on this safeguard
  now,        \* the clock
  pc,         \* pc[r]: the next statement of request r, "idle" or "done"
  call,       \* call[r]: the call of r, None before it arrives
  seen,       \* seen[r]: the row as the handler read it, `before` in the code
  copy,       \* copy[r]: the row the handler works on or reloads, `after` in the code
  target,     \* target[r]: the state Restore decided on
  answer,     \* answer[r]: the status of the response
  faults      \* how many faults have occurred

locals == <<call, seen, copy, target>>
vars == <<safeguard, audits, now, pc, locals, answer, faults>>

TypeOK ==
  /\ safeguard \in Rows \cup {None}
  /\ audits \subseteq AuditRows
  /\ now \in Times
  /\ pc \in [Requests -> Statements \cup {"idle", "done"}]
  /\ call \in [Requests -> Calls \cup {None}]
  /\ seen \in [Requests -> Rows \cup {None}]
  /\ copy \in [Requests -> Rows \cup {None}]
  /\ target \in [Requests -> LifecycleStates]
  /\ answer \in [Requests -> Statuses]
  /\ faults \in 0..MaxFaults

\* The rows seedDomain inserts with a verification that still holds.
Persisted ==
  {[state |-> "active", interval |-> i, verifiedAt |-> 0, verifiedBy |-> SeedReviewer,
    note |-> {}] : i \in Intervals}

Init ==
  /\ safeguard \in {None} \cup Persisted
  /\ audits = {}
  /\ now = 0
  /\ pc = [r \in Requests |-> "idle"]
  /\ call = [r \in Requests |-> None]
  /\ seen = [r \in Requests |-> None]
  /\ copy = [r \in Requests |-> None]
  /\ target = [r \in Requests |-> "pending"]
  /\ answer = [r \in Requests |-> "pending"]
  /\ faults = 0

-----------------------------------------------------------------------------
Goto(r, statement) ==
  /\ pc' = [pc EXCEPT ![r] = statement]
  /\ UNCHANGED answer

Reply(r, status) ==
  /\ pc' = [pc EXCEPT ![r] = "done"]
  /\ answer' = [answer EXCEPT ![r] = status]

\* The verification date is more than the test interval ago.
Expired(verifiedAt, interval) == now > verifiedAt + interval

IsEffective(row) ==
  row.state = "active" /\ row.verifiedAt # None /\ ~Expired(row.verifiedAt, row.interval)

FirstStatement(kind) ==
  IF kind = "create" THEN "getScenario" ELSE IF kind = "restore" THEN "preview" ELSE "read"

\* One safeguard is followed: it is registered once.
Receive(r) ==
  /\ pc[r] = "idle"
  /\ \E c \in Traffic :
       /\ c.kind = "create" =>
            safeguard = None /\ \A q \in Requests : call[q] # None => call[q].kind # "create"
       /\ call' = [call EXCEPT ![r] = c]
       /\ IF HasPermission(RoleOf[c.actor], "safeguard:write")
          THEN Goto(r, FirstStatement(c.kind)) ELSE Reply(r, "forbidden")
  /\ UNCHANGED <<safeguard, audits, now, seen, copy, target, faults>>

(* Create.                                                                 *)

\* Mutant: whoever gives a date is believed.
StateOnCreateUnchecked(c) == "active"

StateOnCreate(c) ==
  IF c.verifiedAt = None THEN "pending"
  ELSE IF Expired(c.verifiedAt, c.interval) THEN "expired" ELSE "active"

GetScenario(r) ==
  /\ pc[r] = "getScenario"
  /\ LET c == call[r] IN
     \/ /\ ~c.scenarioExists
        /\ Reply(r, "notFound") /\ UNCHANGED copy
     \/ /\ c.scenarioExists
        /\ c.verifiedAt # None /\ c.verifiedAt > now + Tolerance
        /\ Reply(r, "unprocessable") /\ UNCHANGED copy
     \/ /\ c.scenarioExists
        /\ c.verifiedAt # None => c.verifiedAt <= now + Tolerance
        /\ copy' = [copy EXCEPT ![r] =
             [state |-> StateOnCreate(c), interval |-> c.interval,
              verifiedAt |-> c.verifiedAt,
              verifiedBy |-> IF c.verifiedAt = None THEN None ELSE c.actor,
              note |-> {r}]]
        /\ Goto(r, "insert")
  /\ UNCHANGED <<safeguard, audits, now, call, seen, target, faults>>

Insert(r) ==
  /\ pc[r] = "insert"
  /\ safeguard' = copy[r]
  /\ Goto(r, "audit")
  /\ UNCHANGED <<audits, now, locals, faults>>

(* Reading, for all other calls.                                           *)

\* Restore reads the row a first time to choose the state it restores.
PreviewRestore(r) ==
  /\ pc[r] = "preview"
  /\ IF safeguard = None
     THEN Reply(r, "notFound") /\ UNCHANGED target
     ELSE /\ target' = [target EXCEPT ![r] =
                          IF IsEffective(safeguard) THEN "active" ELSE "pending"]
          /\ Goto(r, "read")
  /\ UNCHANGED <<safeguard, audits, now, call, seen, copy, faults>>

\* What Update makes of the row it read.
Edited(r, row) ==
  LET interval == IF call[r].interval = None THEN row.interval ELSE call[r].interval IN
  [state |-> IF row.verifiedAt # None /\ row.state = "active"
                  /\ Expired(row.verifiedAt, interval)
             THEN "expired" ELSE row.state,
   interval |-> interval, verifiedAt |-> row.verifiedAt, verifiedBy |-> row.verifiedBy,
   note |-> IF call[r].note THEN {r} ELSE row.note]

Verifiable(c, row) ==
  c.verifiedAt <= now + Tolerance /\ ~Expired(c.verifiedAt, row.interval)

Read(r) ==
  /\ pc[r] = "read"
  /\ \/ /\ safeguard = None
        /\ Reply(r, "notFound") /\ UNCHANGED <<seen, copy>>
     \/ /\ safeguard # None
        /\ seen' = [seen EXCEPT ![r] = safeguard]
        /\ \/ /\ call[r].kind = "update"
              /\ copy' = [copy EXCEPT ![r] = Edited(r, safeguard)]
              /\ Goto(r, "edit")
           \/ /\ call[r].kind = "verify"
              /\ IF Verifiable(call[r], safeguard) THEN Goto(r, "set")
                 ELSE Reply(r, "unprocessable")
              /\ UNCHANGED copy
           \/ /\ call[r].kind \in {"invalidate", "restore"}
              /\ Goto(r, "set") /\ UNCHANGED copy
  /\ UNCHANGED <<safeguard, audits, now, call, target, faults>>

(* Update.                                                                 *)

\* Mutant: the whole copy is saved, with its lifecycle and evidence columns.
EditSavesCopy(r) ==
  /\ pc[r] = "edit"
  /\ safeguard' = copy[r]
  /\ Goto(r, IF copy[r].state # seen[r].state THEN "expire" ELSE "audit")
  /\ UNCHANGED <<audits, now, locals, faults>>

\* Every editable column is written, those the request leaves alone from the copy.
Edit(r) ==
  /\ pc[r] = "edit"
  /\ safeguard' = [state |-> safeguard.state, interval |-> copy[r].interval,
                   verifiedAt |-> safeguard.verifiedAt,
                   verifiedBy |-> safeguard.verifiedBy, note |-> copy[r].note]
  /\ Goto(r, IF copy[r].state # seen[r].state THEN "expire" ELSE "audit")
  /\ UNCHANGED <<audits, now, locals, faults>>

\* Whether the conditional update changed the row is not looked at.
Synchronize(r) ==
  /\ pc[r] = "expire"
  /\ safeguard' = IF safeguard.state = seen[r].state
                  THEN [state |-> copy[r].state, interval |-> safeguard.interval,
                        verifiedAt |-> safeguard.verifiedAt,
                        verifiedBy |-> safeguard.verifiedBy, note |-> safeguard.note]
                  ELSE safeguard
  /\ Goto(r, "audit")
  /\ UNCHANGED <<audits, now, call, seen, copy, target, faults>>

(* Verify, Invalidate and Restore.                                         *)

\* Mutant: an invalidated safeguard counts as a state to restore to.
FromStatesOfRestoreWide(kind) ==
  IF kind = "verify" THEN LifecycleStates
  ELSE IF kind = "invalidate" THEN {"pending", "active", "expired"}
  ELSE {"invalid", "pending", "expired"}

FromStates(kind) ==
  IF kind = "verify" THEN LifecycleStates
  ELSE IF kind = "invalidate" THEN {"pending", "active", "expired"} ELSE {"invalid"}

ToState(r) ==
  IF call[r].kind = "verify" THEN "active"
  ELSE IF call[r].kind = "invalidate" THEN "invalid" ELSE target[r]

\* Mutant: the reason replaces the note.
MovedForgetsNote(r) ==
  LET verifies == call[r].kind = "verify" IN
  [state |-> ToState(r), interval |-> safeguard.interval,
   verifiedAt |-> IF verifies THEN call[r].verifiedAt ELSE safeguard.verifiedAt,
   verifiedBy |-> IF verifies THEN call[r].actor ELSE safeguard.verifiedBy,
   note |-> {r}]

\* The row SetLifecycle leaves.  Verify replaces the evidence; the others append their
\* reason to the note they read.
Moved(r) ==
  LET verifies == call[r].kind = "verify" IN
  [state |-> ToState(r), interval |-> safeguard.interval,
   verifiedAt |-> IF verifies THEN call[r].verifiedAt ELSE safeguard.verifiedAt,
   verifiedBy |-> IF verifies THEN call[r].actor ELSE safeguard.verifiedBy,
   note |-> IF verifies THEN {r} ELSE seen[r].note \cup {r}]

SetLifecycle(r) ==
  /\ pc[r] = "set"
  /\ IF safeguard.state \in FromStates(call[r].kind)
     THEN safeguard' = Moved(r) /\ Goto(r, "reload")
     ELSE Reply(r, "stateTransition") /\ UNCHANGED safeguard
  /\ UNCHANGED <<audits, now, call, seen, copy, target, faults>>

Reload(r) ==
  /\ pc[r] = "reload"
  /\ copy' = [copy EXCEPT ![r] = safeguard]
  /\ Goto(r, "audit")
  /\ UNCHANGED <<safeguard, audits, now, call, seen, target, faults>>

AuditEntry(r) ==
  [request |-> r, action |-> call[r].kind, before |-> seen[r], after |-> copy[r]]

RecordAudit(r) ==
  /\ pc[r] = "audit"
  /\ audits' = audits \cup {AuditEntry(r)}
  /\ IF call[r].kind = "update" THEN Goto(r, "get") ELSE Reply(r, "ok")
  /\ UNCHANGED <<safeguard, now, locals, faults>>

Get(r) ==
  /\ pc[r] = "get"
  /\ Reply(r, "ok")
  /\ UNCHANGED <<safeguard, audits, now, locals, faults>>

-----------------------------------------------------------------------------
Tick ==
  /\ now < MaxTime
  /\ now' = now + 1
  /\ UNCHANGED <<safeguard, audits, pc, locals, answer, faults>>

StatementFails(r) ==
  /\ pc[r] \in Statements
  /\ faults < MaxFaults
  /\ faults' = faults + 1
  /\ Reply(r, "internal")
  /\ UNCHANGED <<safeguard, audits, now, locals>>

Crash ==
  /\ \E r \in Requests : pc[r] \in Statements
  /\ faults < MaxFaults
  /\ faults' = faults + 1
  /\ pc' = [r \in Requests |-> IF pc[r] \in Statements THEN "done" ELSE pc[r]]
  /\ answer' = [r \in Requests |-> IF pc[r] \in Statements THEN "lost" ELSE answer[r]]
  /\ UNCHANGED <<safeguard, audits, now, locals>>

\* Every request was handled: the server waits.
Quiescent ==
  /\ \A r \in Requests : pc[r] = "done"
  /\ UNCHANGED vars

Step(r) ==
  \/ Receive(r) \/ GetScenario(r) \/ Insert(r) \/ PreviewRestore(r) \/ Read(r)
  \/ Edit(r) \/ Synchronize(r) \/ SetLifecycle(r) \/ Reload(r) \/ RecordAudit(r)
  \/ Get(r) \/ StatementFails(r)

Next == (\E r \in Requests : Step(r)) \/ Tick \/ Crash \/ Quiescent

Spec == Init /\ [][Next]_vars

-----------------------------------------------------------------------------
(* Safety.                                                                 *)

\* A safeguard is active or expired only with the date and the author of a
\* verification, also when a restoration reads it in one state and finds it in another
\* (Create, Verify, and the two reads of Restore).
ActiveHasEvidence ==
  safeguard # None /\ safeguard.state \in {"active", "expired"} =>
    safeguard.verifiedAt # None /\ safeguard.verifiedBy # None

Evidence(row) == <<row.verifiedAt, row.verifiedBy>>

\* An invalidated safeguard comes back only by a verification or a restoration, and only
\* a verification replaces the date and author of the last one: an update that works on
\* an older copy does neither (Update against the other handlers).
LifecycleIsGuarded ==
  [][safeguard # None =>
       /\ safeguard.state = "invalid" /\ safeguard'.state # "invalid" =>
            \E r \in Requests : pc[r] = "set" /\ call[r].kind \in {"verify", "restore"}
       /\ Evidence(safeguard') # Evidence(safeguard) =>
            \E r \in Requests : pc[r] = "set" /\ call[r].kind = "verify"]_vars

\* Every statement of every handler is a step the life of a safeguard allows.
Lifecycle == INSTANCE SafeguardLifecycle WITH row <- safeguard

ImplementsSafeguardLifecycle == Lifecycle!Spec

(* What documents of the repository say and the code does not do.          *)

\* README: restore brings back the effective state.  So a safeguard whose verification
\* still holds is not left pending by a restoration.
RestoreMakesEffective ==
  \A r \in Requests :
    /\ call[r] # None /\ call[r].kind = "restore" /\ answer[r] = "ok"
    /\ copy[r].verifiedAt # None /\ ~Expired(copy[r].verifiedAt, copy[r].interval)
    => copy[r].state # "pending"

\* README: a verification holds until last_verified_at + test_interval_days.  So an
\* active safeguard is marked expired only after that.
ExpiredOnlyAfterInterval ==
  [][safeguard # None /\ safeguard.state = "active" /\ safeguard'.state = "expired" =>
       Expired(safeguard.verifiedAt, safeguard.interval)]_vars
=============================================================================
